------------------------- MODULE ProcessIntelligence -------------------------
(***************************************************************************)
(* sher-pe-intelligence: ProcessIntelligence::refresh_at and the state it  *)
(* derives.  One refresh is a sequence of reads of /proc with the process  *)
(* table changing between them: list_pids, then for every listed pid       *)
(* process(pid), which reads stat and then the memory, and connections(pid), *)
(* then the exits are worked out and the timeline is extended.  Each read   *)
(* is answered by whoever owns the pid when it is made.                    *)
(*                                                                         *)
(* Simplifications: a snapshot keeps the fields the derived state depends  *)
(* on (pid, start time, parent, RSS), which come from two of the files that *)
(* process(pid) reads (module LinuxAdapter has them all); CPU percentages, *)
(* names and descriptions are left out.  The locals of refresh_at (todo,   *)
(* snap, new_current, pending_events) are variables; pending_events keeps  *)
(* its value after the refresh, as the record of what the last call added  *)
(* to the timeline.                                                        *)
(***************************************************************************)
EXTENDS ProcessTable, SequencesExt

CONSTANTS
    MaxTime,          \* bound: the clock stays in 0 .. MaxTime
    ClockSteps,       \* how far `now` may move between two calls
    HistoryCapacity,  \* DEFAULT_HISTORY_CAPACITY
    TimelineCapacity, \* DEFAULT_TIMELINE_CAPACITY
    GrowthWindow      \* DEFAULT_GROWTH_WINDOW_SECS

ASSUME IntelligenceAssumption ==
    /\ MaxTime \in Nat
    /\ ClockSteps \subseteq Int
    /\ HistoryCapacity \in Nat \ {0}
    /\ TimelineCapacity \in Nat
    /\ GrowthWindow \in Nat

VARIABLES
    now,               \* the argument of the current or last refresh_at
    pc,                \* "idle" or the next read: "process", "memory", "connections"
    todo,              \* listed pids not read yet
    snap,              \* the snapshot being worked on, or what stat gave of it
    new_current,
    pending_events,
    current,           \* HashMap<Pid, ProcessSnapshot>
    history,           \* HashMap<HistoryKey, VecDeque<(i64, ProcessSnapshot)>>
    connections_seen,  \* HashMap<HistoryKey, HashSet<String>>
    timeline,          \* VecDeque<TimelineEvent>
    stale_keys         \* Vec<HistoryKey>, without repetition

locals == <<todo, snap, new_current>>
vars == <<table, now, pc, todo, snap, new_current, pending_events, current,
          history, connections_seen, timeline, stale_keys>>

-----------------------------------------------------------------------------
(* Maps: a HashMap is a function on the set of its keys. *)
EmptyMap == [k \in {} |-> k]
Put(map, key, value) ==
    [k \in DOMAIN map \cup {key} |-> IF k = key THEN value ELSE map[k]]
Without(map, keys) == [k \in DOMAIN map \ keys |-> map[k]]

(* Definitions called ...Fault are seeded faults: each takes the place of   *)
(* the definition that follows it in one run of PROJECT.json, to show that *)
(* the property checked there can tell.                                    *)
KeepLastFault(s, n) ==
    IF Len(s) > n + 1 THEN SubSeq(s, Len(s) - n, Len(s)) ELSE s

(* push_back followed by pop_front until at most n elements are left. *)
KeepLast(s, n) == IF Len(s) > n THEN SubSeq(s, Len(s) - n + 1, Len(s)) ELSE s

Time == 0 .. MaxTime

(* What stat gives, and the whole snapshot; rss_of is not in the code: it   *)
(* is the start time of the run whose memory was read.                     *)
Stat == [pid : Pid, start_time : Start, ppid : Pid \cup {NoPid}]
Snapshot == [pid : Pid, start_time : Start, ppid : Pid \cup {NoPid}, rss : Rss, rss_of : Start]
NoSnapshot == [pid |-> NoPid, start_time |-> 0]
Sample == [at : Time, snap : Snapshot]

KeyOf(s) == <<s.pid, s.start_time>>
Keys(map) == {KeyOf(map[p]) : p \in DOMAIN map}

Kinds == {"Started", "Exited", "MemoryGrowthThresholdCrossed", "NewChild",
          "NewConnection"}
(* about: the child of NewChild, the address of NewConnection, else NoPid. *)
Event == [key : Key, at : Time, kind : Kinds, about : Pid \cup Addr \cup {NoPid}]

MkEvent(key, kind, about) ==
    [key |-> key, at |-> now, kind |-> kind, about |-> about]

-----------------------------------------------------------------------------
Init ==
    /\ TableInit
    /\ now = 0
    /\ pc = "idle"
    /\ todo = {} /\ snap = NoSnapshot /\ new_current = EmptyMap
    /\ pending_events = <<>>
    /\ current = EmptyMap /\ history = EmptyMap /\ connections_seen = EmptyMap
    /\ timeline = <<>> /\ stale_keys = {}

(* The table moves on, whatever refresh_at is doing. *)
Environment ==
    /\ TableNext
    /\ UNCHANGED <<now, pc, locals, pending_events, current, history,
                   connections_seen, timeline, stale_keys>>

(* The samples are never drained. *)
DrainHistoryFault ==
    /\ connections_seen' = Without(connections_seen, stale_keys)
    /\ stale_keys' = {}
    /\ UNCHANGED history

(* The addresses are never drained. *)
DrainConnectionsFault ==
    /\ history' = Without(history, stale_keys)
    /\ stale_keys' = {}
    /\ UNCHANGED connections_seen

(* The keys that exited on the previous tick lose their history. *)
DrainStaleKeys ==
    /\ history' = Without(history, stale_keys)
    /\ connections_seen' = Without(connections_seen, stale_keys)
    /\ stale_keys' = {}

(* A call at a time d after the previous one; list_pids succeeds. *)
BeginRefresh(d) ==
    /\ pc = "idle"
    /\ now + d \in Time
    /\ now' = now + d
    /\ DrainStaleKeys
    /\ todo' = Alive
    /\ pending_events' = <<>>
    /\ pc' = "process"
    /\ UNCHANGED <<table, snap, new_current, current, timeline>>

(* list_pids fails: the call returns, the stale keys are already drained. *)
RefreshFails(d) ==
    /\ pc = "idle"
    /\ now + d \in Time
    /\ now' = now + d
    /\ DrainStaleKeys
    /\ pending_events' = <<>>
    /\ UNCHANGED <<table, pc, locals, current, timeline>>

(* What /proc/p/stat says of a live p. *)
StatOf(p) == [pid |-> p, start_time |-> table[p].start_time, ppid |-> table[p].ppid]

(* What stat said, and the memory of whoever has the pid now. *)
SnapshotOf(stat) ==
    [pid |-> stat.pid, start_time |-> stat.start_time, ppid |-> stat.ppid,
     rss |-> table[stat.pid].rss, rss_of |-> table[stat.pid].start_time]

(* Compares pids without start times. *)
PreviouslyLiveFault(s) == s.pid \in DOMAIN current

PreviouslyLive(s) == s.pid \in DOMAIN current /\ current[s.pid].start_time = s.start_time

(* The parent is looked up by its pid, among the snapshots of this tick    *)
(* and then among those of the previous one.                               *)
NewChildEvents(s) ==
    IF s.ppid \in DOMAIN new_current
    THEN <<MkEvent(KeyOf(new_current[s.ppid]), "NewChild", s.pid)>>
    ELSE IF s.ppid \in DOMAIN current
         THEN <<MkEvent(KeyOf(current[s.ppid]), "NewChild", s.pid)>>
         ELSE <<>>

StartEvents(s) ==
    IF PreviouslyLive(s) THEN <<>>
    ELSE <<MkEvent(KeyOf(s), "Started", NoPid)>> \o NewChildEvents(s)

(* RSS at least 50% above that of the latest sample a window old. *)
Grew(base, rss) == base > 0 /\ 2 * (rss - base) >= base
(* The window must be exceeded, not reached. *)
GrewOverFault(samples, s) ==
    LET i == SelectLastInSeq(samples, LAMBDA e : now - e.at > GrowthWindow)
    IN  i # 0 /\ Grew(samples[i].snap.rss, s.rss)

GrewOver(samples, s) ==
    LET i == SelectLastInSeq(samples, LAMBDA e : now - e.at >= GrowthWindow)
    IN  i # 0 /\ Grew(samples[i].snap.rss, s.rss)

GrowthEvents(s) ==
    IF KeyOf(s) \in DOMAIN history /\ GrewOver(history[KeyOf(s)], s)
    THEN <<MkEvent(KeyOf(s), "MemoryGrowthThresholdCrossed", NoPid)>>
    ELSE <<>>

(* The stat of a pid that is already known is not read again. *)
ReadStatFault(p) ==
    /\ pc = "process" /\ p \in todo /\ table[p].alive
    /\ snap' = IF p \in DOMAIN current
               THEN [pid |-> p, start_time |-> current[p].start_time, ppid |-> current[p].ppid]
               ELSE StatOf(p)
    /\ todo' = todo \ {p}
    /\ pc' = "memory"
    /\ UNCHANGED <<table, now, new_current, pending_events, current, history,
                   connections_seen, timeline, stale_keys>>

(* process(p) begins: stat is read. *)
ReadStat(p) ==
    /\ pc = "process"
    /\ p \in todo
    /\ table[p].alive
    /\ snap' = StatOf(p)
    /\ todo' = todo \ {p}
    /\ pc' = "memory"
    /\ UNCHANGED <<table, now, new_current, pending_events, current, history,
                   connections_seen, timeline, stale_keys>>

(* process(pid) fails on stat, because p exited or for a transient reason. *)
SkipProcess(p) ==
    /\ pc = "process"
    /\ p \in todo
    /\ todo' = todo \ {p}
    /\ UNCHANGED <<table, now, pc, snap, new_current, pending_events, current,
                   history, connections_seen, timeline, stale_keys>>

(* process(pid) succeeds: the memory is that of whoever has the pid now.    *)
(* The start and growth events of the snapshot are worked out.             *)
ReadMemory ==
    /\ pc = "memory"
    /\ table[snap.pid].alive
    /\ snap' = SnapshotOf(snap)
    /\ pending_events' =
         pending_events \o StartEvents(SnapshotOf(snap)) \o GrowthEvents(SnapshotOf(snap))
    /\ pc' = "connections"
    /\ UNCHANGED <<table, now, todo, new_current, current, history,
                   connections_seen, timeline, stale_keys>>

(* process(pid) fails on one of the files it reads after stat. *)
DropProcess ==
    /\ pc = "memory"
    /\ snap' = NoSnapshot
    /\ pc' = "process"
    /\ UNCHANGED <<table, now, todo, new_current, pending_events, current,
                   history, connections_seen, timeline, stale_keys>>

(* The end of the loop body: the sample is kept and the pid is current. *)
Remember ==
    LET key == KeyOf(snap)
        old == IF key \in DOMAIN history THEN history[key] ELSE <<>>
    IN  /\ history' = Put(history, key,
              KeepLast(Append(old, [at |-> now, snap |-> snap]), HistoryCapacity))
        /\ new_current' = Put(new_current, snap.pid, snap)
        /\ snap' = NoSnapshot
        /\ pc' = "process"

Seen(key) == IF key \in DOMAIN connections_seen THEN connections_seen[key] ELSE {}

(* connections(pid) succeeds: whoever owns the pid now answers; a process  *)
(* that exits after its fd directory was listed answers with no connection *)
(* (Unused slots have none).                                               *)
ReadConnections ==
    /\ pc = "connections"
    /\ LET addrs == table[snap.pid].conns
           key == KeyOf(snap)
       IN  /\ \E order \in SetToSeqs(addrs \ Seen(key)) :
                pending_events' = pending_events \o
                  [i \in DOMAIN order |-> MkEvent(key, "NewConnection", order[i])]
           /\ connections_seen' = Put(connections_seen, key, addrs)
    /\ Remember
    /\ UNCHANGED <<table, now, todo, current, timeline, stale_keys>>

(* connections(pid) fails; the sample is kept all the same. *)
ConnectionsFail ==
    /\ pc = "connections"
    /\ Remember
    /\ UNCHANGED <<table, now, todo, pending_events, current, connections_seen,
                   timeline, stale_keys>>

(* The exited runs lose their samples at once. *)
FinishDropsFault ==
    LET exited == Keys(current) \ Keys(new_current)
    IN  /\ pc = "process" /\ todo = {}
        /\ \E order \in SetToSeqs(exited) :
             pending_events' = pending_events \o
               [i \in DOMAIN order |-> MkEvent(order[i], "Exited", NoPid)]
        /\ stale_keys' = exited
        /\ history' = Without(history, exited)
        /\ timeline' = KeepLast(timeline \o pending_events', TimelineCapacity)
        /\ current' = new_current /\ new_current' = EmptyMap
        /\ pc' = "idle"
        /\ UNCHANGED <<table, now, todo, snap, connections_seen>>

(* The new map is installed by the first refresh only. *)
FinishInstallsOnceFault ==
    /\ pc = "process" /\ todo = {}
    /\ timeline' = KeepLast(timeline \o pending_events, TimelineCapacity)
    /\ current' = IF current = EmptyMap THEN new_current ELSE current
    /\ new_current' = EmptyMap
    /\ pc' = "idle"
    /\ UNCHANGED <<table, now, todo, snap, pending_events, history,
                   connections_seen, stale_keys>>

(* Every listed pid has been handled. *)
FinishRefresh ==
    LET exited == Keys(current) \ Keys(new_current)
    IN  /\ pc = "process"
        /\ todo = {}
        /\ \E order \in SetToSeqs(exited) :
             pending_events' = pending_events \o
               [i \in DOMAIN order |-> MkEvent(order[i], "Exited", NoPid)]
        /\ stale_keys' = exited
        /\ timeline' = KeepLast(timeline \o pending_events', TimelineCapacity)
        /\ current' = new_current
        /\ new_current' = EmptyMap
        /\ pc' = "idle"
        /\ UNCHANGED <<table, now, todo, snap, history, connections_seen>>

Refresh ==
    \/ \E d \in ClockSteps : BeginRefresh(d) \/ RefreshFails(d)
    \/ \E p \in Pid : ReadStat(p) \/ SkipProcess(p)
    \/ ReadMemory
    \/ DropProcess
    \/ ReadConnections
    \/ ConnectionsFail
    \/ FinishRefresh

Next == Environment \/ Refresh

Spec == Init /\ [][Next]_vars

(* refresh is called again and again and its reads return; list_pids does  *)
(* not fail for ever, nor does process(p) for a p that stays alive.        *)
Fairness ==
    /\ WF_vars(\E d \in ClockSteps : BeginRefresh(d))
    /\ \A p \in Pid : SF_vars(ReadStat(p)) /\ SF_vars(snap.pid = p /\ ReadMemory)
    /\ WF_vars(\E p \in Pid : ReadStat(p) \/ SkipProcess(p))
    /\ WF_vars(ReadMemory \/ DropProcess)
    /\ WF_vars(ReadConnections \/ ConnectionsFail)
    /\ WF_vars(FinishRefresh)

-----------------------------------------------------------------------------
ProcessMap(map) ==
    /\ DOMAIN map \subseteq Pid
    /\ \A p \in DOMAIN map : map[p] \in Snapshot /\ map[p].pid = p

(* Every variable has its type, and the locals agree with the program      *)
(* counter of refresh_at.                                                  *)
TypeOK ==
    /\ TableTypeOK
    /\ now \in Time
    /\ pc \in {"idle", "process", "memory", "connections"}
    /\ todo \subseteq Pid
    /\ snap \in Stat \cup Snapshot \cup {NoSnapshot}
    /\ (pc = "memory" <=> snap \in Stat) /\ (pc = "connections" <=> snap \in Snapshot)
    /\ ProcessMap(current) /\ ProcessMap(new_current)
    /\ DOMAIN history \subseteq Key
    /\ \A k \in DOMAIN history :
         /\ history[k] \in Seq(Sample)
         /\ Len(history[k]) \in 1 .. HistoryCapacity
    /\ DOMAIN connections_seen \subseteq Key
    /\ \A k \in DOMAIN connections_seen : connections_seen[k] \subseteq Addr
    /\ pending_events \in Seq(Event)
    /\ timeline \in Seq(Event) /\ Len(timeline) =< TimelineCapacity
    /\ stale_keys \subseteq Key

(* Between two refreshes the history holds the runs listed by the last one *)
(* and those that vanished in it, and nothing else: no current run is      *)
(* without samples, an exited run keeps its own for the grace tick of      *)
(* stale_keys, and no other run stays in memory.                           *)
HistoryCoversCurrentAndGrace ==
    pc = "idle" => DOMAIN history = Keys(current) \cup stale_keys

(* Why it holds: the state of a refresh in progress.  A pid is read at most *)
(* once; until the refresh ends the samples kept are those of the old map   *)
(* and of the new one; the keys of the grace tick, one per pid at most,     *)
(* belong to no current run; and addresses are remembered for runs that     *)
(* have samples only.                                                       *)
RetentionInvariant ==
    /\ HistoryCoversCurrentAndGrace
    /\ pc = "idle" => todo = {} /\ DOMAIN new_current = {}
    /\ pc # "idle" =>
         /\ stale_keys = {}
         /\ DOMAIN history = Keys(current) \cup Keys(new_current)
         /\ todo \cap DOMAIN new_current = {}
    /\ pc \in {"memory", "connections"} => snap.pid \notin todo \cup DOMAIN new_current
    /\ stale_keys \cap Keys(current) = {}
    /\ \A j, k \in stale_keys : j[1] = k[1] => j = k
    /\ DOMAIN connections_seen \subseteq DOMAIN history

(* The runs the refresh in progress has read so far. *)
ReadRuns == Keys(new_current) \cup IF pc = "connections" THEN {KeyOf(snap)} ELSE {}

(* The positions in events of those of one kind, and whether those are one *)
(* event about each run of keys.                                           *)
OfKind(events, kind) == {i \in DOMAIN events : events[i].kind = kind}

OnceEach(events, kind, keys) ==
    /\ {events[i].key : i \in OfKind(events, kind)} = keys
    /\ \A i, j \in OfKind(events, kind) : events[i].key = events[j].key => i = j

(* Until the exits are worked out a refresh has reported, once each, the   *)
(* runs it read that the previous one did not list, and no exit.           *)
StartsReported ==
    pc # "idle" =>
      /\ OnceEach(pending_events, "Started", ReadRuns \ Keys(current))
      /\ OnceEach(pending_events, "Exited", {})

(* What every step of a refresh preserves: what is kept and what was        *)
(* reported both agree with the runs read so far.                           *)
RefreshInvariant == RetentionInvariant /\ StartsReported

(* Whether s says of one run what was read of another. *)
Mixed(s) == s.rss_of # s.start_time

(* A snapshot is "a single point-in-time view of one process", but the pid  *)
(* can be recycled between the reads of one process(pid).  Even so the     *)
(* memory of the later run enters the history of the earlier one once at   *)
(* most, and last: no later sample is ever compared with a mixed one.      *)
OnlyTheLastIsMixed ==
    \A k \in DOMAIN history : \A i \in DOMAIN history[k] :
      i < Len(history[k]) => ~Mixed(history[k][i].snap)

(* Why it holds: a sample is filed under the run that stat named; a mixed  *)
(* one was taken after that run was over, so stat never names it again.    *)
MixedInvariant ==
    /\ OnlyTheLastIsMixed
    /\ \A k \in DOMAIN history : \A i \in DOMAIN history[k] :
         /\ KeyOf(history[k][i].snap) = k
         /\ Mixed(history[k][i].snap) => k[2] < table[k[1]].start_time
    /\ pc \in {"memory", "connections"} =>
         /\ snap.start_time =< table[snap.pid].start_time
         /\ KeyOf(snap) \in DOMAIN history =>
              \A i \in DOMAIN history[KeyOf(snap)] : ~Mixed(history[KeyOf(snap)][i].snap)
    /\ pc = "connections" /\ Mixed(snap) => snap.start_time < table[snap.pid].start_time

(* history(pid) falls back on some key of the pid when the pid is not      *)
(* current: there is never more than one such key to choose from.          *)
FallbackUnambiguous ==
    pc = "idle" =>
      \A j, k \in DOMAIN history : j[1] = k[1] /\ j[1] \notin DOMAIN current => j = k

(* The positions in events of the Started and Exited events of run k; the  *)
(* kinds of neighbours differ, and the last tells whether k is listed.     *)
LifeEvents(events, k) ==
    {i \in OfKind(events, "Started") \cup OfKind(events, "Exited") : events[i].key = k}

Alternates(events, k, listed) ==
    LET life == LifeEvents(events, k)
    IN  /\ \A i, j \in life : i < j /\ events[i].kind = events[j].kind
             => \E m \in life : i < m /\ m < j
        /\ \A i \in life : (\A j \in life : j =< i)
             => (events[i].kind = "Started" <=> listed)

(* Nothing about run k was dropped: its life begins with its start. *)
FromTheStart(events, k, listed) ==
    LET life == LifeEvents(events, k)
    IN  /\ \A i \in life : (\A j \in life : i =< j) => events[i].kind = "Started"
        /\ listed => life # {}

(* The retained Started and Exited events of a run alternate, the last one *)
(* agrees with the current process map, and while nothing has been dropped *)
(* at the capacity every current run has its Started event.  Holds across  *)
(* pid reuse, failed reads, failed refreshes and dropped events.           *)
LifecycleAlternates ==
    \A k \in Key :
      /\ Alternates(timeline, k, k \in Keys(current))
      /\ Len(timeline) < TimelineCapacity => FromTheStart(timeline, k, k \in Keys(current))

(* The timeline, with what a refresh in progress will add to it. *)
Reported == IF pc = "idle" THEN timeline ELSE timeline \o pending_events

(* Address a was reported for run k, and k has not started again since. *)
ReportedSince(events, k, a) ==
    \E i \in DOMAIN events :
      /\ events[i].key = k /\ events[i].kind = "NewConnection" /\ events[i].about = a
      /\ \A j \in OfKind(events, "Started") : j > i => events[j].key # k

(* No connection is swallowed: an address remembered in connections_seen   *)
(* for a run was reported as NewConnection since that run last appeared.   *)
ConnectionsReported ==
    Len(timeline) < TimelineCapacity =>
      \A k \in DOMAIN connections_seen : \A a \in connections_seen[k] :
        ReportedSince(Reported, k, a)

(* The events a step adds to those of the refresh in progress. *)
NewEvents == {pending_events'[i] : i \in Len(pending_events) + 1 .. Len(pending_events')}

(* TimelineEvent.start_time is that of the run the event belongs to: a     *)
(* NewChild event names the run that forked the child.                     *)
NewChildNamesParent ==
    [][\A e \in NewEvents :
         e.kind = "NewChild" => e.key[2] = table[e.about].parent_start]_vars

(* Likewise, a NewConnection event names the run that has the connection.  *)
NewConnectionNamesOwner ==
    [][\A e \in NewEvents :
         e.kind = "NewConnection" => LiveKey(e.key) /\ e.about \in table[e.key[1]].conns]_vars

(* What refresh_at promises its callers. *)
Observer == INSTANCE ProcessObserver WITH
    Capacity <- TimelineCapacity,
    running  <- Keys(current),
    readable <- IF pc = "idle" THEN DOMAIN history ELSE Keys(current),
    emitted  <- IF pc = "idle" THEN pending_events ELSE <<>>,
    log      <- timeline

(* refresh_at implements ProcessObserver: to a caller a refresh is one     *)
(* step that reports every appearance and disappearance of a run exactly   *)
(* once, although it is a sequence of reads of a changing table.           *)
ImplementsObserver == Observer!Spec

(* A run that is over leaves the current map in the end. *)
ExitsAreNoticed ==
    \A k \in Key : (k \in Keys(current) /\ ~LiveKey(k)) ~> (k \notin Keys(current))

(* A run that goes on is listed again and again, whatever was missed. *)
SurvivorsAreListed ==
    \A k \in Key : <>[]LiveKey(k) => []<>(k \in Keys(current))

=============================================================================
