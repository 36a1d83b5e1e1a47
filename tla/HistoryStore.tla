---------------------------- MODULE HistoryStore ----------------------------
(***************************************************************************)
(* sher-pe-history: the SQLite database sherd writes and `sher history`    *)
(* reads.  Every statement commits on its own, so a row is durable as soon *)
(* as its INSERT returns and a crash leaves what was written before it.    *)
(*                                                                         *)
(* Simplifications: a row keeps the run it is about, its time and, for an  *)
(* event, its kind; JSON, names and the schema migration are left out.     *)
(* Rows also carry the number of the tick that produced them, which is not *)
(* stored: it tells one occurrence of an event from another.               *)
(***************************************************************************)
EXTENDS Integers, SequencesExt

CONSTANTS
    Key,      \* runs of processes: a pid and a start time
    MaxTime,  \* bound: the clock stays in 0 .. MaxTime
    MaxTick   \* bound: the number of ticks

ASSUME StoreAssumption == IsFiniteSet(Key) /\ MaxTime \in Nat /\ MaxTick \in Nat

VARIABLES
    snapshots,        \* the table of that name: no query depends on its id
    timeline_events,  \* the table of that name
    last_id           \* its AUTOINCREMENT counter, which outlives the rows

store == <<snapshots, timeline_events, last_id>>

Snapshot == [key : Key, sampled_at : 0 .. MaxTime, tick : 1 .. MaxTick]
Event == [key : Key, at : 0 .. MaxTime, kind : {"Started", "Exited"}, tick : 1 .. MaxTick]

StoreTypeOK ==
    /\ last_id \in Nat
    /\ snapshots \subseteq Snapshot
    /\ timeline_events \subseteq [id : 1 .. last_id, event : Event]

(* A new database. *)
StoreInit == snapshots = {} /\ timeline_events = {} /\ last_id = 0

RecordSnapshot(snapshot) ==
    /\ snapshots' = snapshots \cup {snapshot}
    /\ UNCHANGED <<timeline_events, last_id>>

RecordEvent(event) ==
    /\ last_id' = last_id + 1
    /\ timeline_events' = timeline_events \cup {[id |-> last_id + 1, event |-> event]}
    /\ UNCHANGED snapshots

(* The two DELETEs of prune_older_than: no transaction makes them one. *)
PruneSnapshots(cutoff) ==
    /\ snapshots' = {row \in snapshots : row.sampled_at >= cutoff}
    /\ UNCHANGED <<timeline_events, last_id>>

(* The second DELETE is missing. *)
PruneEventsFault(cutoff) == cutoff \in Int /\ UNCHANGED store

PruneEvents(cutoff) ==
    /\ timeline_events' = {row \in timeline_events : row.event.at >= cutoff}
    /\ UNCHANGED <<snapshots, last_id>>

(* The queries by bare pid: the rows of every run of the pid. *)
SnapshotsFor(pid, since) ==
    {row \in snapshots : row.key[1] = pid /\ row.sampled_at >= since}

EventsFor(pid, since) ==
    {row \in timeline_events : row.event.key[1] = pid /\ row.event.at >= since}

(* ... ORDER BY at ASC: nothing is said of rows of the same second. *)
EventsForGeneration(key, since) ==
    {row \in timeline_events : row.event.key = key /\ row.event.at >= since}

LastOf(rows) == {row \in rows : \A r \in rows : r.event.at =< row.event.at}
=============================================================================
