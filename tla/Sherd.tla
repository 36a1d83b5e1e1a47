-------------------------------- MODULE Sherd --------------------------------
(***************************************************************************)
(* sher-pe-daemon: the loop of sherd's main over ProcessIntelligence and   *)
(* the HistoryStore, with its signal handler, crashes and restarts.        *)
(*                                                                         *)
(* refresh_at is one step here, with the effect ProcessObserver gives it   *)
(* (module ProcessIntelligence is shown to implement that): any set of     *)
(* runs may be listed, and the runs that appeared and vanished are         *)
(* reported.  Other kinds of events are left out.  The writes of           *)
(* persist_tick are one step each.  The clock is the wall clock; it moves  *)
(* in the sleep and while sherd is down, and `now` is read once per tick.  *)
(* Definitions called ...Fault are seeded faults: see ProcessIntelligence. *)
(***************************************************************************)
EXTENDS HistoryStore

CONSTANTS
    SleepSteps,        \* how far the wall clock may move in a sleep
    TimelineCapacity,  \* DEFAULT_TIMELINE_CAPACITY
    Retention,         \* retention_secs
    PruneEvery         \* prune_every_secs

ASSUME SherdAssumption ==
    /\ SleepSteps \subseteq Int
    /\ TimelineCapacity \in Nat
    /\ Retention \in Nat \ {0}
    /\ PruneEvery \in Nat \ {0}

VARIABLES
    clock,       \* the wall clock
    pc,          \* "down" or a point of the loop
    SHUTDOWN,    \* the flag the signal handler sets
    now,         \* this tick's time
    running,     \* keys of ProcessIntelligence::current
    timeline,    \* ProcessIntelligence::timeline
    unsaved,     \* snapshots persist_tick has still to write
    new_events,  \* positions in timeline of the events it has still to write
    last_prune,
    tick,        \* ticks so far, over all starts
    boot_tick,   \* value of tick at the last start
    lossy,       \* whether a write failed since the last start
    pruned       \* whether the last prune since the start removed everything due

memory == <<running, timeline>>
ghosts == <<tick, boot_tick, lossy, pruned>>
vars == <<store, clock, pc, SHUTDOWN, now, memory, unsaved, new_events, last_prune, ghosts>>

Time == 0 .. MaxTime

-----------------------------------------------------------------------------
Init ==
    /\ StoreInit
    /\ clock = 0 /\ now = 0 /\ last_prune = 0
    /\ pc = "down" /\ SHUTDOWN = FALSE
    /\ running = {} /\ timeline = <<>>
    /\ unsaved = {} /\ new_events = {}
    /\ tick = 0 /\ boot_tick = 0 /\ lossy = FALSE /\ pruned = FALSE

(* systemd or an operator starts sherd: the handlers are installed, the    *)
(* database is opened and the first prune is due PruneEvery from now.      *)
Start ==
    /\ pc = "down"
    /\ \E d \in {0, 1} : clock + d \in Time /\ clock' = clock + d
    /\ last_prune' = clock'
    /\ pc' = "loop"
    /\ UNCHANGED <<store, SHUTDOWN, now, memory, unsaved, new_events, ghosts>>

(* SIGTERM or SIGINT, at any point. *)
Signal ==
    /\ pc # "down"
    /\ ~SHUTDOWN
    /\ SHUTDOWN' = TRUE
    /\ UNCHANGED <<store, clock, pc, now, memory, unsaved, new_events, last_prune, ghosts>>

(* The process is gone: its memory is lost, the committed rows stay. *)
Gone ==
    /\ pc' = "down" /\ SHUTDOWN' = FALSE
    /\ running' = {} /\ timeline' = <<>> /\ unsaved' = {} /\ new_events' = {}
    /\ last_prune' = 0
    /\ boot_tick' = tick /\ lossy' = FALSE /\ pruned' = FALSE
    /\ UNCHANGED <<store, clock, now, tick>>

(* It is killed or panics, at any point. *)
Crash == pc # "down" /\ Gone

(* The loop condition is never looked at again. *)
StopFault == FALSE

(* The loop condition fails and main returns. *)
Stop == pc = "loop" /\ SHUTDOWN /\ Gone

(* The loop condition holds and the time is read. *)
BeginTick ==
    /\ pc = "loop"
    /\ ~SHUTDOWN
    /\ tick < MaxTick
    /\ now' = clock
    /\ tick' = tick + 1
    /\ pc' = "refresh"
    /\ UNCHANGED <<store, clock, SHUTDOWN, memory, unsaved, new_events, last_prune,
                   boot_tick, lossy, pruned>>

Events(keys, kind) ==
    {[i \in DOMAIN order |-> [key |-> order[i], at |-> now, kind |-> kind, tick |-> tick]]
       : order \in SetToSeqs(keys)}

(* One event too many is kept. *)
KeepLastFault(s, n) == IF Len(s) > n + 1 THEN SubSeq(s, Len(s) - n, Len(s)) ELSE s

KeepLast(s, n) == IF Len(s) > n THEN SubSeq(s, Len(s) - n + 1, Len(s)) ELSE s

(* refresh_at(now) succeeds and lists any runs. *)
Refresh ==
    /\ pc = "refresh"
    /\ \E listed \in SUBSET Key :
         /\ running' = listed
         /\ \E started \in Events(listed \ running, "Started"),
               exited \in Events(running \ listed, "Exited") :
              timeline' = KeepLast(timeline \o (started \o exited), TimelineCapacity)
         /\ unsaved' = listed
    /\ pc' = "snapshots"
    /\ UNCHANGED <<store, clock, SHUTDOWN, now, new_events, last_prune, ghosts>>

(* refresh_at fails: nothing is persisted. *)
RefreshFails ==
    /\ pc = "refresh"
    /\ pc' = "prune"
    /\ UNCHANGED <<store, clock, SHUTDOWN, now, memory, unsaved, new_events, last_prune, ghosts>>

(* persist_tick writes the snapshots of the tree, in any order. *)
WriteSnapshot(k) ==
    /\ pc = "snapshots"
    /\ k \in unsaved
    /\ RecordSnapshot([key |-> k, sampled_at |-> now, tick |-> tick])
    /\ unsaved' = unsaved \ {k}
    /\ UNCHANGED <<clock, pc, SHUTDOWN, now, memory, new_events, last_prune, ghosts>>

(* Everything the timeline holds. *)
RecentTimelineEventsFault(since) == {i \in DOMAIN timeline : timeline[i].at =< since}

(* The tick's own events are left out. *)
RecentTimelineEventsLateFault(since) == {i \in DOMAIN timeline : timeline[i].at > since}

RecentTimelineEvents(since) == {i \in DOMAIN timeline : timeline[i].at >= since}

(* The events do not wait for the snapshots. *)
BeginEventsFault ==
    /\ pc = "snapshots"
    /\ new_events' = RecentTimelineEvents(now)
    /\ unsaved' = {}
    /\ pc' = "events"
    /\ UNCHANGED <<store, clock, SHUTDOWN, now, memory, last_prune, ghosts>>

(* All snapshots are written; the tick's events are next. *)
BeginEvents ==
    /\ pc = "snapshots"
    /\ unsaved = {}
    /\ new_events' = RecentTimelineEvents(now)
    /\ pc' = "events"
    /\ UNCHANGED <<store, clock, SHUTDOWN, now, memory, unsaved, last_prune, ghosts>>

(* The oldest event not written yet is written. *)
WriteEvent ==
    /\ pc = "events"
    /\ \E i \in new_events :
         /\ \A j \in new_events : i =< j
         /\ RecordEvent(timeline[i])
         /\ new_events' = new_events \ {i}
    /\ UNCHANGED <<clock, pc, SHUTDOWN, now, memory, unsaved, last_prune, ghosts>>

(* A write fails: persist_tick gives up the rest of the tick. *)
WriteFails ==
    /\ \/ pc = "snapshots" /\ unsaved # {}
       \/ pc = "events" /\ new_events # {}
    /\ unsaved' = {} /\ new_events' = {}
    /\ lossy' = TRUE
    /\ pc' = "prune"
    /\ UNCHANGED <<store, clock, SHUTDOWN, now, memory, last_prune, tick, boot_tick, pruned>>

PersistDone ==
    /\ pc = "events"
    /\ new_events = {}
    /\ pc' = "prune"
    /\ UNCHANGED <<store, clock, SHUTDOWN, now, memory, unsaved, new_events, last_prune, ghosts>>

PruneDue == now - last_prune >= PruneEvery

SkipPrune ==
    /\ pc = "prune"
    /\ ~PruneDue
    /\ pc' = "sleep"
    /\ UNCHANGED <<store, clock, SHUTDOWN, now, memory, unsaved, new_events, last_prune, ghosts>>

(* The first DELETE of prune_older_than. *)
PruneFirst ==
    /\ pc = "prune"
    /\ PruneDue
    /\ PruneSnapshots(now - Retention)
    /\ pc' = "prune_events"
    /\ UNCHANGED <<clock, SHUTDOWN, now, memory, unsaved, new_events, last_prune, ghosts>>

(* The second DELETE; last_prune moves on. *)
PruneSecond ==
    /\ pc = "prune_events"
    /\ PruneEvents(now - Retention)
    /\ last_prune' = now
    /\ pruned' = TRUE
    /\ pc' = "sleep"
    /\ UNCHANGED <<clock, SHUTDOWN, now, memory, unsaved, new_events, tick, boot_tick, lossy>>

(* Either DELETE fails; last_prune moves on all the same. *)
PruneFails ==
    /\ \/ pc = "prune" /\ PruneDue
       \/ pc = "prune_events"
    /\ last_prune' = now
    /\ pruned' = FALSE
    /\ pc' = "sleep"
    /\ UNCHANGED <<store, clock, SHUTDOWN, now, memory, unsaved, new_events, tick, boot_tick, lossy>>

(* sleep_interruptible runs its course. *)
Wake ==
    /\ pc = "sleep"
    /\ \E d \in SleepSteps : clock + d \in Time /\ clock' = clock + d
    /\ pc' = "loop"
    /\ UNCHANGED <<store, SHUTDOWN, now, memory, unsaved, new_events, last_prune, ghosts>>

(* sleep_interruptible sees the flag within 200ms. *)
WakeEarly ==
    /\ pc = "sleep"
    /\ SHUTDOWN
    /\ pc' = "loop"
    /\ UNCHANGED <<store, clock, SHUTDOWN, now, memory, unsaved, new_events, last_prune, ghosts>>

Loop ==
    \/ Stop
    \/ BeginTick
    \/ Refresh \/ RefreshFails
    \/ (\E k \in Key : WriteSnapshot(k)) \/ BeginEvents \/ WriteEvent \/ WriteFails \/ PersistDone
    \/ SkipPrune \/ PruneFirst \/ PruneSecond \/ PruneFails
    \/ Wake \/ WakeEarly

Next == Start \/ Signal \/ Crash \/ Loop

Spec == Init /\ [][Next]_vars

(* A running daemon is scheduled and its system calls return. *)
FairSpec == Spec /\ WF_vars(Loop)

-----------------------------------------------------------------------------
(* Every variable has its type; the locals of persist_tick are empty       *)
(* outside it, and memory is empty while sherd is down.                    *)
TypeOK ==
    /\ StoreTypeOK
    /\ {clock, now, last_prune} \subseteq Time
    /\ pc \in {"down", "loop", "refresh", "snapshots", "events", "prune", "prune_events", "sleep"}
    /\ SHUTDOWN \in BOOLEAN
    /\ running \subseteq Key
    /\ timeline \in Seq(Event) /\ Len(timeline) =< TimelineCapacity
    /\ unsaved \subseteq running /\ (pc # "snapshots" => unsaved = {})
    /\ new_events \subseteq DOMAIN timeline /\ (pc # "events" => new_events = {})
    /\ tick \in 0 .. MaxTick /\ boot_tick \in 0 .. tick
    /\ tick = 0 => pc \in {"down", "loop"}
    /\ lossy \in BOOLEAN /\ pruned \in BOOLEAN
    /\ pc = "down" => running = {} /\ timeline = <<>>

(* No occurrence of an event is ever written twice, although each tick     *)
(* selects what it writes from the whole timeline by its time.             *)
EventsPersistedOnce ==
    \A r, s \in timeline_events : r.event = s.event => r = s

(* What `sher history` finds of run k in the rows of this start of sherd. *)
LifeOf(k) == {row \in EventsForGeneration(k, 0) : row.event.tick > boot_tick}

SnapshotsOfTick == {row.key : row \in {r \in snapshots : r.tick = tick}}

(* After a tick the database tells which runs are alive: the last event    *)
(* written for a run since the start agrees with the process map, a run    *)
(* that is listed has its Started event while nothing can have been        *)
(* pruned, and the snapshots of the tick are there for every listed run or *)
(* (refresh failed) for none.  Unless a write failed since the start.      *)
StoreReconstructsRunning ==
    pc = "sleep" /\ ~lossy =>
      /\ SnapshotsOfTick \in {running, {}}
      /\ \A k \in Key :
           /\ \A row \in LastOf(LifeOf(k)) : row.event.kind = "Started" <=> k \in running
           /\ k \in running /\ now =< Retention => LifeOf(k) # {}

HasSnapshot(e) == \E row \in snapshots : row.key = e.key /\ row.sampled_at = e.at

(* Whatever crashed or failed between two writes, a Started event the      *)
(* database still has to keep is never there without a snapshot of the run *)
(* taken at that time.                                                     *)
StartedHasSnapshot ==
    \A e \in {row.event : row \in timeline_events} :
      e.kind = "Started" /\ e.at >= now - Retention
        => HasSnapshot(e)

(* Once a prune of this start has gone through, no row is older after a    *)
(* tick than the retention and one prune period.                           *)
RetentionBound ==
    pc = "sleep" /\ pruned =>
      /\ \A row \in snapshots : row.sampled_at > now - Retention - PruneEvery
      /\ \A row \in timeline_events : row.event.at > now - Retention - PruneEvery

(* An event is as old as the tick that made it, and the clock has moved    *)
(* on when the next tick reads it, unless there will be no next tick.      *)
EventsAreDated ==
    /\ now =< clock
    /\ \A i \in DOMAIN timeline :
         /\ timeline[i].at =< now
         /\ pc = "loop" /\ ~SHUTDOWN => timeline[i].at < clock
         /\ pc = "refresh" => timeline[i].at < now

(* The runs the tick's Started events name are listed, hence the ones the  *)
(* tick writes snapshots of before it writes events.                       *)
SnapshotsComeFirst ==
    /\ pc = "snapshots" =>
         /\ \A i \in RecentTimelineEvents(now) :
              timeline[i].kind = "Started" => timeline[i].key \in running
         /\ \A k \in running \ unsaved : HasSnapshot([key |-> k, at |-> now])
    /\ \A i \in new_events :
         timeline[i].at = now /\ (timeline[i].kind = "Started" => HasSnapshot(timeline[i]))

(* The events a tick writes are its own, all different, and not there yet. *)
EventsAreNew ==
    /\ \A row \in timeline_events :
         row.event.tick =< tick /\ (pc \in {"refresh", "snapshots"} => row.event.tick < tick)
    /\ pc = "snapshots" =>
         \A i, j \in RecentTimelineEvents(now) :
           timeline[i].tick = tick /\ (timeline[i] = timeline[j] => i = j)
    /\ \A i, j \in new_events :
         timeline[i].tick = tick /\ (timeline[i] = timeline[j] => i = j)
    /\ \A i \in new_events, row \in timeline_events : row.event # timeline[i]

(* The last prune of this start left nothing older than the retention, and *)
(* what is written later is younger.                                       *)
PruneLeavesNothingDue ==
    /\ pc = "prune_events" => \A row \in snapshots : row.sampled_at >= now - Retention
    /\ pruned =>
         /\ pc # "down" /\ last_prune =< now
         /\ pc = "sleep" => ~PruneDue
         /\ \A row \in snapshots : row.sampled_at >= last_prune - Retention
         /\ \A row \in timeline_events : row.event.at >= last_prune - Retention

(* The snapshots of a tick are written first, and its own prune leaves     *)
(* them there.                                                             *)
SnapshotsAreOfTheTick ==
    /\ \A row \in snapshots :
         /\ row.tick =< tick
         /\ pc = "refresh" => row.tick < tick
         /\ pc \notin {"down", "loop"} /\ row.tick = tick => row.sampled_at = now
    /\ ~lossy =>
         /\ pc = "snapshots" => SnapshotsOfTick = running \ unsaved
         /\ pc = "events" => SnapshotsOfTick = running
         /\ pc \in {"prune", "prune_events", "sleep"} => SnapshotsOfTick \in {running, {}}

(* A start comes before its ticks, and an event of an earlier one of them  *)
(* has an earlier time.                                                    *)
RowsAreDated ==
    /\ pc = "down" => boot_tick = tick
    /\ pc \notin {"down", "loop"} => boot_tick < tick
    /\ \A row \in timeline_events : row.event.tick > boot_tick =>
         /\ row.event.at =< now
         /\ pc = "loop" /\ ~SHUTDOWN => row.event.at < clock
         /\ pc = "refresh" => row.event.at < now
         /\ pc \in {"snapshots", "events"} /\ row.event.tick < tick => row.event.at < now

(* The events of the tick that are not written yet. *)
Due == IF pc = "snapshots" THEN RecentTimelineEvents(now) ELSE new_events

(* There is one for a run at most, none was written for it in this tick,   *)
(* and it tells whether the run is listed.                                 *)
DueOncePerRun ==
    \A i \in Due :
      /\ timeline[i].kind = "Started" <=> timeline[i].key \in running
      /\ \A j \in Due : timeline[i].key = timeline[j].key => i = j
      /\ \A row \in timeline_events : row.event.key = timeline[i].key => row.event.tick < tick

(* What the database tells of run k agrees with the process map. *)
Known(k) ==
    /\ \A row \in LastOf(LifeOf(k)) : row.event.kind = "Started" <=> k \in running
    /\ k \in running /\ now =< Retention => LifeOf(k) # {}

(* The database agrees with the process map about each run, or has an      *)
(* event of it still to come, unless a write failed.                       *)
StoreFollows ==
    /\ SnapshotsAreOfTheTick
    /\ RowsAreDated
    /\ DueOncePerRun
    /\ ~lossy => \A k \in Key : Known(k) \/ \E i \in Due : timeline[i].key = k

(* Every tick's events fit into the timeline. *)
EventsFit == Cardinality(Key) =< TimelineCapacity

(* What every step of the daemon preserves. *)
SherdInvariant ==
    /\ EventsAreDated
    /\ SnapshotsComeFirst
    /\ EventsAreNew
    /\ PruneLeavesNothingDue
    /\ EventsPersistedOnce
    /\ StartedHasSnapshot
    /\ EventsFit => StoreFollows

(* A daemon that is asked to stop does, in whatever step the signal comes. *)
StopsWhenAsked == (SHUTDOWN /\ pc # "down") ~> (pc = "down")
=============================================================================
