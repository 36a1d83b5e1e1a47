---------------------- MODULE ProcessIntelligence_proofs ----------------------
(***************************************************************************)
(* Proofs about ProcessIntelligence for every set of pids, every capacity  *)
(* and every movement of the clock.                                        *)
(***************************************************************************)
EXTENDS ProcessIntelligence, ProcessTable_proofs, FiniteSetTheorems

USE DEF Time, Start

-----------------------------------------------------------------------------
(* Sequences and maps. *)

(* KeepLast keeps a sequence over the same elements, within the capacity,  *)
(* and every element it returns is an element of its argument.             *)
LEMMA KeepLastProperties ==
    ASSUME NEW S, NEW s \in Seq(S), NEW n \in Nat
    PROVE  /\ KeepLast(s, n) \in Seq(S)
           /\ Len(KeepLast(s, n)) =< n
           /\ s # <<>> /\ n > 0 => Len(KeepLast(s, n)) > 0
           /\ \A i \in DOMAIN KeepLast(s, n) : \E j \in DOMAIN s : KeepLast(s, n)[i] = s[j]
<1>1. CASE Len(s) > n
  <2>1. KeepLast(s, n) = SubSeq(s, Len(s) - n + 1, Len(s))
    BY <1>1 DEF KeepLast
  <2> DEFINE t == SubSeq(s, Len(s) - n + 1, Len(s))
  <2>2. t \in Seq(S) /\ Len(t) = n
    BY <1>1
  <2>3. \A i \in DOMAIN t : t[i] = s[Len(s) - n + i] /\ Len(s) - n + i \in DOMAIN s
    BY <1>1, <2>2
  <2>4. QED
    BY <2>1, <2>2, <2>3
<1>2. CASE ~ (Len(s) > n)
  BY <1>2 DEF KeepLast
<1>3. QED
  BY <1>1, <1>2

(* Putting or removing keys changes the domain of a map accordingly. *)
LEMMA MapDomains ==
    /\ DOMAIN EmptyMap = {}
    /\ \A map, key, value : DOMAIN Put(map, key, value) = DOMAIN map \cup {key}
    /\ \A map, keys : DOMAIN Without(map, keys) = DOMAIN map \ keys
BY DEF EmptyMap, Put, Without

(* The keys of a map of processes are runs, finitely many of them. *)
LEMMA KeysProperties ==
    ASSUME NEW map, ProcessMap(map)
    PROVE  /\ Keys(map) \subseteq Key
           /\ \A T \in SUBSET Key : IsFiniteSet(T) /\ Cardinality(T) \in Nat
           /\ \A p \in DOMAIN map : KeyOf(map[p]) \in Keys(map)
           /\ \A j, k \in Keys(map) : j[1] = k[1] => j = k
<1>1. Keys(map) \subseteq Key
  BY DEF Keys, KeyOf, Key, ProcessMap, Snapshot
<1>2. IsFiniteSet(Key)
  <2>1. IsFiniteSet(1 .. MaxStart)
    BY FS_Interval, ProcessTableAssumption
  <2>2. QED
    BY <2>1, FS_Product, ProcessTableAssumption DEF Key
<1>3. \A T \in SUBSET Key : IsFiniteSet(T) /\ Cardinality(T) \in Nat
  BY <1>2, FS_Subset, FS_CardinalityType
<1>4. \A j, k \in Keys(map) : j[1] = k[1] => j = k
  BY DEF Keys, KeyOf, ProcessMap
<1>5. QED
  BY <1>1, <1>3, <1>4 DEF Keys

(* An event made about a run, for a subject of its kind, is an event. *)
LEMMA MkEventType ==
    ASSUME TypeOK, NEW k \in Key, NEW kind \in Kinds, NEW a \in Pid \cup Addr \cup {NoPid}
    PROVE  MkEvent(k, kind, a) \in Event
BY DEF TypeOK, MkEvent, Event

(* Reporting every element of a finite set in some order, as one kind of   *)
(* event about one run (addresses) or about themselves (keys), yields a    *)
(* sequence of events.                                                     *)
LEMMA OrderedEventsType ==
    ASSUME TypeOK, NEW S, Cardinality(S) \in Nat, NEW order \in SetToSeqs(S)
    PROVE  /\ S \subseteq Addr => \A k \in Key :
                [i \in DOMAIN order |-> MkEvent(k, "NewConnection", order[i])] \in Seq(Event)
           /\ S \subseteq Key =>
                [i \in DOMAIN order |-> MkEvent(order[i], "Exited", NoPid)] \in Seq(Event)
<1>1. order \in [1 .. Cardinality(S) -> S]
  BY DEF SetToSeqs
<1>2. ASSUME NEW k \in Key, S \subseteq Addr
      PROVE  [i \in DOMAIN order |-> MkEvent(k, "NewConnection", order[i])] \in Seq(Event)
  <2>1. \A i \in DOMAIN order : MkEvent(k, "NewConnection", order[i]) \in Event
    BY <1>1, <1>2, MkEventType DEF Kinds
  <2>2. QED
    BY <1>1, <2>1
<1>3. ASSUME S \subseteq Key
      PROVE  [i \in DOMAIN order |-> MkEvent(order[i], "Exited", NoPid)] \in Seq(Event)
  <2>1. \A i \in DOMAIN order : MkEvent(order[i], "Exited", NoPid) \in Event
    BY <1>1, <1>3, MkEventType DEF Kinds
  <2>2. QED
    BY <1>1, <2>1
<1>4. QED
  BY <1>2, <1>3

-----------------------------------------------------------------------------
(* Type correctness: one step per action of refresh_at; TableType is the   *)
(* lemma of ProcessTable_proofs for the steps of the kernel.               *)

(* Draining the stale keys leaves fewer keys and the same values. *)
LEMMA DrainType ==
    ASSUME TypeOK, DrainStaleKeys
    PROVE  /\ DOMAIN history' = DOMAIN history \ stale_keys
           /\ \A k \in DOMAIN history' : history'[k] = history[k]
           /\ DOMAIN connections_seen' = DOMAIN connections_seen \ stale_keys
           /\ \A k \in DOMAIN connections_seen' : connections_seen'[k] = connections_seen[k]
           /\ stale_keys' = {}
BY DEF DrainStaleKeys, Without

(* A half-read snapshot, a snapshot and no snapshot are told apart. *)
LEMMA SnapshotsDiffer ==
    /\ NoSnapshot \notin Snapshot /\ NoSnapshot \notin Stat
    /\ \A s \in Stat : s \notin Snapshot
<1>1. \A s \in Stat : DOMAIN s = {"pid", "start_time", "ppid"}
  BY DEF Stat
<1>2. \A s \in Snapshot : DOMAIN s = {"pid", "start_time", "ppid", "rss", "rss_of"}
  BY DEF Snapshot
<1>3. DOMAIN NoSnapshot = {"pid", "start_time"}
  BY DEF NoSnapshot
<1>4. QED
  BY <1>1, <1>2, <1>3

(* Stat of a live pid gives the part of a snapshot it stands for. *)
LEMMA StatType ==
    ASSUME TypeOK, NEW p \in Pid, table[p].alive
    PROVE  StatOf(p) \in Stat
BY ProcessTableAssumption DEF StatOf, Stat, TypeOK, TableTypeOK, Slot

(* What process(pid) returns is a snapshot, its events are events. *)
LEMMA ReadType ==
    ASSUME TypeOK, pc = "memory", table[snap.pid].alive
    PROVE  /\ snap.pid \in Pid
           /\ SnapshotOf(snap) \in Snapshot
           /\ KeyOf(SnapshotOf(snap)) \in Key
           /\ KeyOf(SnapshotOf(snap)) = KeyOf(snap)
           /\ StartEvents(SnapshotOf(snap)) \in Seq(Event)
           /\ GrowthEvents(SnapshotOf(snap)) \in Seq(Event)
<1> DEFINE s == SnapshotOf(snap)
<1>0. snap \in Stat /\ snap.pid \in Pid
  BY DEF TypeOK, Stat
<1>1. s \in Snapshot /\ KeyOf(s) = KeyOf(snap)
  <2>1. table[snap.pid].rss \in Rss /\ table[snap.pid].start_time \in Start
    BY <1>0, ProcessTableAssumption DEF TypeOK, TableTypeOK, Slot
  <2>2. QED
    BY <1>0, <2>1 DEF SnapshotOf, Snapshot, Stat, KeyOf
<1> HIDE DEF s
<1>2. KeyOf(s) \in Key
  BY <1>1 DEF Snapshot, KeyOf, Key
<1>3. GrowthEvents(s) \in Seq(Event)
  BY <1>2, MkEventType DEF GrowthEvents, Kinds
<1>4. \A q \in DOMAIN new_current : KeyOf(new_current[q]) \in Key
  BY DEF TypeOK, ProcessMap, Snapshot, KeyOf, Key
<1>5. \A q \in DOMAIN current : KeyOf(current[q]) \in Key
  BY DEF TypeOK, ProcessMap, Snapshot, KeyOf, Key
<1>6. NewChildEvents(s) \in Seq(Event)
  <2>1. s.pid \in Pid
    BY <1>1 DEF Snapshot
  <2>2. QED
    BY <2>1, <1>4, <1>5, MkEventType DEF NewChildEvents, Kinds
<1>7. StartEvents(s) \in Seq(Event)
  BY <1>2, <1>6, MkEventType DEF StartEvents, Kinds
<1>8. QED
  BY <1>0, <1>1, <1>2, <1>3, <1>7 DEF s

(* The end of the loop body adds one sample to the history of the run. *)
LEMMA RememberType ==
    ASSUME TypeOK, pc = "connections", Remember
    PROVE  /\ KeyOf(snap) \in Key
           /\ DOMAIN history' = DOMAIN history \cup {KeyOf(snap)}
           /\ \A k \in DOMAIN history' : /\ history'[k] \in Seq(Sample)
                                         /\ Len(history'[k]) \in 1 .. HistoryCapacity
           /\ \A k \in DOMAIN history' \ {KeyOf(snap)} : history'[k] = history[k]
           /\ DOMAIN new_current' = DOMAIN new_current \cup {snap.pid}
           /\ ProcessMap(new_current')
           /\ Keys(new_current') \subseteq Keys(new_current) \cup {KeyOf(snap)}
           /\ snap.pid \notin DOMAIN new_current =>
                Keys(new_current') = Keys(new_current) \cup {KeyOf(snap)}
           /\ snap' = NoSnapshot /\ pc' = "process"
<1> DEFINE key == KeyOf(snap)
           old == IF key \in DOMAIN history THEN history[key] ELSE <<>>
           new == Append(old, [at |-> now, snap |-> snap])
           kept == KeepLast(new, HistoryCapacity)
<1>1. snap \in Snapshot /\ snap.pid \in Pid
  BY DEF TypeOK, Snapshot
<1>2. key \in Key
  BY <1>1 DEF KeyOf, Key, Snapshot
<1>3. old \in Seq(Sample)
  BY DEF TypeOK
<1>4. new \in Seq(Sample) /\ new # <<>>
  <2>1. [at |-> now, snap |-> snap] \in Sample
    BY <1>1 DEF TypeOK, Sample
  <2>2. QED
    BY <1>3, <2>1
<1>5. kept \in Seq(Sample) /\ Len(kept) \in 1 .. HistoryCapacity
  <2> HIDE DEF new
  <2>1. kept \in Seq(Sample) /\ Len(kept) =< HistoryCapacity /\ Len(kept) > 0
    BY <1>4, KeepLastProperties, IntelligenceAssumption
  <2>2. QED
    BY <2>1, IntelligenceAssumption
<1>6. history' = Put(history, key, kept)
  BY DEF Remember
<1>7. new_current' = Put(new_current, snap.pid, snap)
  BY DEF Remember
<1> HIDE DEF kept, key
<1>8. /\ DOMAIN history' = DOMAIN history \cup {key}
      /\ history'[key] = kept
      /\ \A k \in DOMAIN history' \ {key} : history'[k] = history[k]
  BY <1>6 DEF Put
<1>9. /\ DOMAIN new_current' = DOMAIN new_current \cup {snap.pid}
      /\ new_current'[snap.pid] = snap
      /\ \A p \in DOMAIN new_current' \ {snap.pid} : new_current'[p] = new_current[p]
  BY <1>7 DEF Put
<1>10. ProcessMap(new_current')
  BY <1>1, <1>9 DEF TypeOK, ProcessMap
<1>11. Keys(new_current') \subseteq Keys(new_current) \cup {KeyOf(snap)}
  BY <1>9 DEF Keys
<1>12. snap.pid \notin DOMAIN new_current =>
         Keys(new_current') = Keys(new_current) \cup {KeyOf(snap)}
  BY <1>9 DEF Keys
<1>13. \A k \in DOMAIN history' : /\ history'[k] \in Seq(Sample)
                                  /\ Len(history'[k]) \in 1 .. HistoryCapacity
  BY <1>5, <1>8 DEF TypeOK
<1>14. snap' = NoSnapshot /\ pc' = "process"
  BY DEF Remember
<1>15. QED
  BY <1>2, <1>8, <1>9, <1>10, <1>11, <1>12, <1>13, <1>14 DEF key

LEMMA TypeInit == Init => TypeOK
<1> SUFFICES ASSUME Init PROVE TypeOK
  OBVIOUS
<1>1. TableTypeOK
  BY ProcessTableAssumption
  DEF Init, TableInit, TableTypeOK, Unused, Slot, AnyRss
<1>2. ProcessMap(EmptyMap)
  BY DEF ProcessMap, EmptyMap
<1>3. now \in Time
  BY IntelligenceAssumption DEF Init
<1>4. /\ history = EmptyMap /\ connections_seen = EmptyMap
      /\ current = EmptyMap /\ new_current = EmptyMap /\ DOMAIN EmptyMap = {}
  BY MapDomains DEF Init
<1>5. QED
  BY <1>1, <1>2, <1>3, <1>4, SnapshotsDiffer, IntelligenceAssumption DEF Init, TypeOK

LEMMA TypeStep == TypeOK /\ [Next]_vars => TypeOK'
<1> SUFFICES ASSUME TypeOK, [Next]_vars PROVE TypeOK'
  OBVIOUS
<1>1. CASE Environment
  <2>1. TableTypeOK'
    BY <1>1, TableType DEF Environment, TypeOK
  <2>2. QED
    BY <1>1, <2>1 DEF Environment, TypeOK, ProcessMap, locals
<1>2. ASSUME NEW d \in ClockSteps, BeginRefresh(d) PROVE TypeOK'
  <2>1. DrainStaleKeys /\ now' \in Time /\ pc' = "process" /\ pc = "idle"
        /\ pending_events' = <<>> /\ todo' = Alive
        /\ UNCHANGED <<table, snap, new_current, current, timeline>>
    BY <1>2 DEF BeginRefresh
  <2>2. Alive \subseteq Pid
    BY DEF Alive
  <2>3. QED
    BY <2>1, <2>2, DrainType DEF TypeOK, TableTypeOK, ProcessMap
<1>3. ASSUME NEW d \in ClockSteps, RefreshFails(d) PROVE TypeOK'
  <2>1. DrainStaleKeys /\ now' \in Time /\ pending_events' = <<>>
        /\ UNCHANGED <<table, pc, locals, current, timeline>>
    BY <1>3 DEF RefreshFails
  <2>2. QED
    BY <2>1, DrainType DEF TypeOK, TableTypeOK, ProcessMap, locals
<1>4. ASSUME NEW p \in Pid, ReadStat(p) PROVE TypeOK'
  <2> DEFINE s == StatOf(p)
  <2>1. s \in Stat
    BY <1>4, StatType DEF ReadStat
  <2>2. /\ snap' = s /\ pc' = "memory" /\ todo' = todo \ {p}
        /\ UNCHANGED <<table, now, new_current, pending_events, current, history,
                       connections_seen, timeline, stale_keys>>
    BY <1>4 DEF ReadStat
  <2> HIDE DEF s
  <2>3. QED
    BY <2>1, <2>2, SnapshotsDiffer DEF TypeOK, TableTypeOK, ProcessMap
<1>5. ASSUME NEW p \in Pid, SkipProcess(p) PROVE TypeOK'
  BY <1>5 DEF SkipProcess, TypeOK, TableTypeOK, ProcessMap
<1>6. CASE ReadMemory
  <2> DEFINE s == SnapshotOf(snap)
  <2>1. s \in Snapshot /\ StartEvents(s) \in Seq(Event) /\ GrowthEvents(s) \in Seq(Event)
    BY <1>6, ReadType DEF ReadMemory
  <2>2. /\ snap' = s /\ pc' = "connections"
        /\ pending_events' = pending_events \o StartEvents(s) \o GrowthEvents(s)
        /\ UNCHANGED <<table, now, todo, new_current, current, history,
                       connections_seen, timeline, stale_keys>>
    BY <1>6 DEF ReadMemory
  <2> HIDE DEF s
  <2>3. pending_events' \in Seq(Event)
    BY <2>1, <2>2 DEF TypeOK
  <2>4. QED
    BY <2>1, <2>2, <2>3, SnapshotsDiffer DEF TypeOK, TableTypeOK, ProcessMap
<1>7. CASE DropProcess
  BY <1>7, SnapshotsDiffer DEF DropProcess, TypeOK, TableTypeOK, ProcessMap
<1>8. CASE ReadConnections
  <2> DEFINE key == KeyOf(snap)
             addrs == table[snap.pid].conns
  <2>1. pc = "connections" /\ Remember
        /\ UNCHANGED <<table, now, todo, current, timeline, stale_keys>>
    BY <1>8 DEF ReadConnections
  <2>2. addrs \subseteq Addr
    BY <2>1 DEF TypeOK, TableTypeOK, Slot, Snapshot
  <2>3. connections_seen' = Put(connections_seen, key, addrs)
    BY <1>8 DEF ReadConnections
  <2>4. key \in Key
    BY <2>1, RememberType
  <2>5. pending_events' \in Seq(Event)
    <3>1. PICK order \in SetToSeqs(addrs \ Seen(key)) :
            pending_events' = pending_events \o
              [i \in DOMAIN order |-> MkEvent(key, "NewConnection", order[i])]
      BY <1>8 DEF ReadConnections
    <3>2. Cardinality(addrs \ Seen(key)) \in Nat
      <4>1. IsFiniteSet(addrs \ Seen(key))
        BY <2>2, FS_Subset, ProcessTableAssumption
      <4>2. QED
        BY <4>1, FS_CardinalityType
    <3>3. [i \in DOMAIN order |-> MkEvent(key, "NewConnection", order[i])] \in Seq(Event)
      BY <2>2, <2>4, <3>2, OrderedEventsType
    <3>4. QED
      BY <3>1, <3>3 DEF TypeOK
  <2>6. /\ DOMAIN connections_seen' \subseteq Key
        /\ \A k \in DOMAIN connections_seen' : connections_seen'[k] \subseteq Addr
    BY <2>2, <2>3, <2>4 DEF TypeOK, Put
  <2> HIDE DEF key, addrs
  <2>7. QED
    BY <2>1, <2>5, <2>6, RememberType, SnapshotsDiffer DEF TypeOK, TableTypeOK, ProcessMap
<1>9. CASE ConnectionsFail
  <2>1. pc = "connections" /\ Remember
        /\ UNCHANGED <<table, now, todo, pending_events, current, connections_seen,
                       timeline, stale_keys>>
    BY <1>9 DEF ConnectionsFail
  <2>2. QED
    BY <2>1, RememberType, SnapshotsDiffer DEF TypeOK, TableTypeOK, ProcessMap
<1>10. CASE FinishRefresh
  <2> DEFINE exited == Keys(current) \ Keys(new_current)
  <2>1. exited \subseteq Key /\ Cardinality(exited) \in Nat
    <3>1. Keys(current) \subseteq Key
      BY KeysProperties DEF TypeOK
    <3>2. exited \in SUBSET Key
      BY <3>1
    <3>3. QED
      BY <3>2, KeysProperties DEF TypeOK
  <2>2. /\ pc' = "idle" /\ pc = "process" /\ stale_keys' = exited
        /\ timeline' = KeepLast(timeline \o pending_events', TimelineCapacity)
        /\ current' = new_current /\ new_current' = EmptyMap
        /\ UNCHANGED <<table, now, todo, snap, history, connections_seen>>
    BY <1>10 DEF FinishRefresh
  <2>3. pending_events' \in Seq(Event)
    <3>1. PICK order \in SetToSeqs(exited) :
            pending_events' = pending_events \o
              [i \in DOMAIN order |-> MkEvent(order[i], "Exited", NoPid)]
      BY <1>10 DEF FinishRefresh
    <3>2. [i \in DOMAIN order |-> MkEvent(order[i], "Exited", NoPid)] \in Seq(Event)
      BY <2>1, OrderedEventsType
    <3>3. QED
      BY <3>1, <3>2 DEF TypeOK
  <2>4. timeline' \in Seq(Event) /\ Len(timeline') =< TimelineCapacity
    <3>1. timeline \o pending_events' \in Seq(Event)
      BY <2>3 DEF TypeOK
    <3>2. QED
      BY <2>2, <3>1, KeepLastProperties, IntelligenceAssumption
  <2>5. ProcessMap(EmptyMap)
    BY DEF ProcessMap, EmptyMap
  <2> HIDE DEF exited
  <2>6. QED
    BY <2>1, <2>2, <2>3, <2>4, <2>5 DEF TypeOK, TableTypeOK, ProcessMap
<1>11. CASE UNCHANGED vars
  BY <1>11 DEF vars, TypeOK, TableTypeOK, ProcessMap
<1>12. QED
  BY <1>1, <1>2, <1>3, <1>4, <1>5, <1>6, <1>7, <1>8, <1>9, <1>10, <1>11 DEF Next, Refresh

(* In every behaviour the variables have their types and the locals of     *)
(* refresh_at agree with its program counter, for every set of pids, every *)
(* capacity and every movement of the clock.                               *)
THEOREM TypeCorrect == Spec => []TypeOK
<1>1. QED
  BY TypeInit, TypeStep, PTL DEF Spec

-----------------------------------------------------------------------------
(* Retention: what the history map holds between two refreshes.            *)

(* The keys of a map belong to its pids, and the empty map has none. *)
LEMMA KeysOfMap ==
    /\ \A map : DOMAIN map = {} => Keys(map) = {}
    /\ \A map : ProcessMap(map) => \A k \in Keys(map) : k[1] \in DOMAIN map
BY DEF Keys, KeyOf, ProcessMap

LEMMA RetentionInit == Init => RetentionInvariant
<1> SUFFICES ASSUME Init PROVE RetentionInvariant
  OBVIOUS
<1>1. /\ history = EmptyMap /\ current = EmptyMap /\ new_current = EmptyMap
      /\ DOMAIN EmptyMap = {} /\ Keys(EmptyMap) = {}
      /\ pc = "idle" /\ todo = {} /\ stale_keys = {}
  BY MapDomains, KeysOfMap DEF Init
<1>2. QED
  BY <1>1, MapDomains DEF Init, RetentionInvariant, HistoryCoversCurrentAndGrace

(* Draining leaves the samples of the runs listed by the last refresh. *)
LEMMA DrainKeepsCurrent ==
    ASSUME TypeOK, RetentionInvariant, pc = "idle", DrainStaleKeys
    PROVE  /\ DOMAIN history' = Keys(current) /\ stale_keys' = {}
           /\ DOMAIN connections_seen' \subseteq DOMAIN history'
BY DrainType DEF RetentionInvariant, HistoryCoversCurrentAndGrace

(* At the end of the loop body the invariant of the loop holds again. *)
LEMMA RememberKeepsInvariant ==
    ASSUME TypeOK, RetentionInvariant, pc = "connections", Remember,
           UNCHANGED <<todo, current, stale_keys>>,
           DOMAIN connections_seen' \subseteq DOMAIN connections_seen \cup {KeyOf(snap)}
    PROVE  RetentionInvariant'
<1>1. /\ stale_keys = {} /\ todo \cap DOMAIN new_current = {}
      /\ DOMAIN history = Keys(current) \cup Keys(new_current)
      /\ snap.pid \notin todo \cup DOMAIN new_current
  BY DEF RetentionInvariant
<1>2. /\ DOMAIN history' = DOMAIN history \cup {KeyOf(snap)}
      /\ Keys(new_current') = Keys(new_current) \cup {KeyOf(snap)}
      /\ DOMAIN new_current' = DOMAIN new_current \cup {snap.pid}
      /\ pc' = "process"
  BY <1>1, RememberType
<1>3. Keys(current)' = Keys(current)
  BY DEF Keys
<1>4. QED
  BY <1>1, <1>2, <1>3 DEF RetentionInvariant, HistoryCoversCurrentAndGrace

LEMMA RetentionStep == TypeOK /\ RetentionInvariant /\ [Next]_vars => RetentionInvariant'
<1> SUFFICES ASSUME TypeOK, RetentionInvariant, [Next]_vars PROVE RetentionInvariant'
  OBVIOUS
<1> USE DEF RetentionInvariant, HistoryCoversCurrentAndGrace
<1>1. CASE Environment
  BY <1>1 DEF Environment, locals, Keys
<1>2. ASSUME NEW d \in ClockSteps, BeginRefresh(d) PROVE RetentionInvariant'
  <2>1. /\ DOMAIN history' = Keys(current) /\ stale_keys' = {}
        /\ DOMAIN connections_seen' \subseteq DOMAIN history'
        /\ pc' = "process" /\ UNCHANGED <<current, new_current>>
    BY <1>2, DrainKeepsCurrent DEF BeginRefresh
  <2>2. DOMAIN new_current = {} /\ Keys(new_current) = {}
    BY <1>2, KeysOfMap DEF BeginRefresh
  <2>3. QED
    BY <2>1, <2>2 DEF Keys
<1>3. ASSUME NEW d \in ClockSteps, RefreshFails(d) PROVE RetentionInvariant'
  <2>1. /\ DOMAIN history' = Keys(current) /\ stale_keys' = {}
        /\ DOMAIN connections_seen' \subseteq DOMAIN history'
        /\ UNCHANGED <<current, new_current, todo, pc>> /\ pc = "idle"
    BY <1>3, DrainKeepsCurrent DEF RefreshFails, locals
  <2>2. QED
    BY <2>1 DEF Keys
<1>4. ASSUME NEW p \in Pid, ReadStat(p) PROVE RetentionInvariant'
  <2>1. snap'.pid = p
    BY <1>4 DEF ReadStat, StatOf
  <2>2. QED
    BY <1>4, <2>1 DEF ReadStat, Keys
<1>5. ASSUME NEW p \in Pid, SkipProcess(p) PROVE RetentionInvariant'
  BY <1>5 DEF SkipProcess, Keys
<1>6. CASE ReadMemory
  <2>1. snap'.pid = snap.pid
    BY <1>6 DEF ReadMemory, SnapshotOf
  <2>2. QED
    BY <1>6, <2>1 DEF ReadMemory, Keys
<1>7. CASE DropProcess
  BY <1>7 DEF DropProcess, Keys
<1>8. CASE ReadConnections
  BY <1>8, MapDomains, RememberKeepsInvariant DEF ReadConnections
<1>9. CASE ConnectionsFail
  BY <1>9, RememberKeepsInvariant DEF ConnectionsFail
<1>10. CASE FinishRefresh
  <2>1. /\ pc = "process" /\ todo = {} /\ pc' = "idle" /\ todo' = {}
        /\ stale_keys' = Keys(current) \ Keys(new_current)
        /\ current' = new_current /\ new_current' = EmptyMap
        /\ history' = history /\ connections_seen' = connections_seen
    BY <1>10 DEF FinishRefresh
  <2>2. Keys(current)' = Keys(new_current)
    BY <2>1 DEF Keys
  <2>3. \A j, k \in Keys(current) : j[1] = k[1] => j = k
    BY KeysProperties DEF TypeOK
  <2>4. QED
    BY <2>1, <2>2, <2>3, MapDomains
<1>11. CASE UNCHANGED vars
  BY <1>11 DEF vars, Keys
<1>12. QED
  BY <1>1, <1>2, <1>3, <1>4, <1>5, <1>6, <1>7, <1>8, <1>9, <1>10, <1>11 DEF Next, Refresh

(* The loop of refresh_at keeps RetentionInvariant in every behaviour: what *)
(* is in memory agrees with the runs read so far.                          *)
THEOREM RetentionInvariantHolds == Spec => []RetentionInvariant
<1>1. QED
  BY TypeCorrect, RetentionInit, RetentionStep, PTL DEF Spec

(* Between two refreshes the history holds the runs of the last one and    *)
(* those that vanished in it, for ever: it can neither leak the samples of *)
(* finished processes nor lose those of a current one.                     *)
THEOREM HistoryRetention == Spec => []HistoryCoversCurrentAndGrace
<1>1. RetentionInvariant => HistoryCoversCurrentAndGrace
  BY DEF RetentionInvariant
<1>2. QED
  BY <1>1, RetentionInvariantHolds, PTL

(* history(pid), for a pid that is not current, has at most one run whose  *)
(* samples it can return, although it searches by the pid alone.           *)
THEOREM FallbackIsUnambiguous == Spec => []FallbackUnambiguous
<1>1. TypeOK /\ RetentionInvariant => FallbackUnambiguous
  BY KeysOfMap DEF TypeOK, RetentionInvariant, HistoryCoversCurrentAndGrace, FallbackUnambiguous
<1>2. QED
  BY <1>1, TypeCorrect, RetentionInvariantHolds, PTL

-----------------------------------------------------------------------------
(* Runs are not mixed up when the kernel reuses a pid.                     *)

LEMMA MixedInit == Init => MixedInvariant
<1>1. Init => DOMAIN history = {} /\ pc = "idle"
  BY MapDomains DEF Init
<1>2. QED
  BY <1>1 DEF MixedInvariant, OnlyTheLastIsMixed

(* Start times only grow, so what is said of runs that are over stays true. *)
LEMMA MixedEnvironment ==
    ASSUME TypeOK, MixedInvariant, Environment
    PROVE  MixedInvariant'
<1>1. TableNext /\ TableTypeOK /\ UNCHANGED <<pc, snap, history>>
  BY DEF Environment, TypeOK, locals
<1>2. \A p \in Pid : table'[p].start_time >= table[p].start_time
  BY <1>1, StartNeverFalls
<1>3. \A p \in Pid : table[p].start_time \in Nat /\ table'[p].start_time \in Nat
  BY <1>1, TableType, ProcessTableAssumption DEF TableTypeOK, Slot
<1>4. \A k \in DOMAIN history : k[1] \in Pid /\ k[2] \in Nat
  BY ProcessTableAssumption DEF TypeOK, Key
<1>5. pc \in {"memory", "connections"} => snap.pid \in Pid /\ snap.start_time \in Nat
  BY ProcessTableAssumption DEF TypeOK, Stat, Snapshot
<1>6. OnlyTheLastIsMixed'
  BY <1>1 DEF MixedInvariant, OnlyTheLastIsMixed, Mixed
<1>7. ASSUME NEW k \in DOMAIN history, NEW i \in DOMAIN history[k]
      PROVE  /\ KeyOf(history[k][i].snap) = k
             /\ Mixed(history[k][i].snap) => k[2] < table'[k[1]].start_time
  BY <1>2, <1>3, <1>4 DEF MixedInvariant
<1>8. ASSUME pc \in {"memory", "connections"}
      PROVE  snap.start_time =< table'[snap.pid].start_time
  BY <1>2, <1>3, <1>5, <1>8 DEF MixedInvariant
<1>9. ASSUME pc = "connections", Mixed(snap)
      PROVE  snap.start_time < table'[snap.pid].start_time
  BY <1>2, <1>3, <1>5, <1>9 DEF MixedInvariant
<1>10. QED
  BY <1>1, <1>6, <1>7, <1>8, <1>9 DEF MixedInvariant

(* A pid is read as the run that owns it: its earlier runs are not filed    *)
(* under again, and no sample of this one is mixed yet.                    *)
LEMMA MixedStat ==
    ASSUME TypeOK, MixedInvariant, NEW p \in Pid, ReadStat(p)
    PROVE  MixedInvariant'
<1>1. /\ snap' = StatOf(p) /\ pc' = "memory" /\ UNCHANGED <<table, history>>
  BY DEF ReadStat
<1>2. /\ snap'.pid = p /\ snap'.start_time = table[p].start_time
      /\ KeyOf(snap') = <<p, table[p].start_time>>
  BY <1>1 DEF StatOf, KeyOf
<1>3. table[p].start_time \in Nat
  BY ProcessTableAssumption DEF TypeOK, TableTypeOK, Slot
<1>4. ASSUME KeyOf(snap') \in DOMAIN history, NEW i \in DOMAIN history[KeyOf(snap')],
             Mixed(history[KeyOf(snap')][i].snap)
      PROVE  FALSE
  <2>1. KeyOf(snap')[2] < table[KeyOf(snap')[1]].start_time
    BY <1>4 DEF MixedInvariant
  <2>2. QED
    BY <1>2, <1>3, <2>1
<1>5. OnlyTheLastIsMixed'
  BY <1>1 DEF MixedInvariant, OnlyTheLastIsMixed
<1>6. QED
  BY <1>1, <1>2, <1>3, <1>4, <1>5 DEF MixedInvariant

(* The memory is that of the run stat named, or of a later one. *)
LEMMA MixedMemory ==
    ASSUME TypeOK, MixedInvariant, ReadMemory
    PROVE  MixedInvariant'
<1>1. /\ pc = "memory" /\ pc' = "connections" /\ snap' = SnapshotOf(snap)
      /\ UNCHANGED <<table, history>>
  BY DEF ReadMemory
<1>2. /\ snap'.pid = snap.pid /\ snap'.start_time = snap.start_time
      /\ snap'.rss_of = table[snap.pid].start_time /\ KeyOf(snap') = KeyOf(snap)
  BY <1>1 DEF SnapshotOf, KeyOf
<1>3. snap.pid \in Pid /\ snap.start_time \in Nat /\ table[snap.pid].start_time \in Nat
  BY <1>1, ProcessTableAssumption DEF TypeOK, Stat, TableTypeOK, Slot
<1>4. snap.start_time =< table[snap.pid].start_time
  BY <1>1 DEF MixedInvariant
<1>5. Mixed(snap') => snap.start_time < table[snap.pid].start_time
  BY <1>2, <1>3, <1>4 DEF Mixed
<1>6. OnlyTheLastIsMixed'
  BY <1>1 DEF MixedInvariant, OnlyTheLastIsMixed
<1>7. KeyOf(snap') \in DOMAIN history =>
        \A i \in DOMAIN history[KeyOf(snap')] : ~Mixed(history[KeyOf(snap')][i].snap)
  BY <1>1, <1>2 DEF MixedInvariant
<1>8. QED
  BY <1>1, <1>2, <1>4, <1>5, <1>6, <1>7 DEF MixedInvariant

(* The sample just taken goes to the end of the history of its run, which  *)
(* has no mixed one.                                                       *)
LEMMA MixedRemember ==
    ASSUME TypeOK, MixedInvariant, pc = "connections", Remember, UNCHANGED table
    PROVE  MixedInvariant'
<1> DEFINE key == KeyOf(snap)
           old == IF key \in DOMAIN history THEN history[key] ELSE <<>>
           sample == [at |-> now, snap |-> snap]
           new == Append(old, sample)
           kept == KeepLast(new, HistoryCapacity)
<1>1. sample \in Sample /\ sample.snap = snap /\ KeyOf(sample.snap) = key
  BY DEF TypeOK, Sample
<1>2. /\ old \in Seq(Sample)
      /\ \A i \in DOMAIN old : KeyOf(old[i].snap) = key /\ ~Mixed(old[i].snap)
  BY DEF TypeOK, MixedInvariant
<1>3. Mixed(snap) => key[2] < table[key[1]].start_time
  BY DEF MixedInvariant, KeyOf
<1>4. history' = Put(history, key, kept) /\ pc' = "process"
  BY DEF Remember
<1>5. key \in Key
  BY RememberType
<1> HIDE DEF key, sample, old
<1>6. /\ new \in Seq(Sample) /\ Len(new) \in Nat
      /\ \A i \in DOMAIN new : /\ KeyOf(new[i].snap) = key
                               /\ i < Len(new) => ~Mixed(new[i].snap)
                               /\ Mixed(new[i].snap) => key[2] < table[key[1]].start_time
  BY <1>1, <1>2, <1>3
<1> HIDE DEF new
<1>7. \A i \in DOMAIN kept : \E j \in DOMAIN new :
        kept[i] = new[j] /\ (i < Len(kept) => j < Len(new))
  <2>1. CASE Len(new) > HistoryCapacity
    <3>1. kept = SubSeq(new, Len(new) - HistoryCapacity + 1, Len(new))
      BY <2>1 DEF KeepLast
    <3> DEFINE from == Len(new) - HistoryCapacity
    <3>2. from \in Nat /\ HistoryCapacity \in Nat /\ from + HistoryCapacity = Len(new)
      BY <1>6, <2>1, IntelligenceAssumption
    <3>3. DOMAIN kept = 1 .. HistoryCapacity /\ Len(kept) = HistoryCapacity
          /\ \A i \in 1 .. HistoryCapacity : kept[i] = new[from + i]
      BY <1>6, <3>1, <3>2
    <3> HIDE DEF kept, from
    <3>4. \A i \in 1 .. HistoryCapacity :
            from + i \in DOMAIN new /\ (i < HistoryCapacity => from + i < Len(new))
      BY <1>6, <3>2
    <3>5. QED
      BY <3>3, <3>4
  <2>2. CASE ~(Len(new) > HistoryCapacity)
    BY <2>2 DEF KeepLast
  <2>3. QED
    BY <2>1, <2>2
<1> HIDE DEF kept
<1>8. \A i \in DOMAIN kept : /\ KeyOf(kept[i].snap) = key
                             /\ i < Len(kept) => ~Mixed(kept[i].snap)
                             /\ Mixed(kept[i].snap) => key[2] < table[key[1]].start_time
  BY <1>6, <1>7
<1>9. /\ DOMAIN history' = DOMAIN history \cup {key} /\ history'[key] = kept
      /\ \A k \in DOMAIN history' \ {key} : history'[k] = history[k]
  BY <1>4 DEF Put
<1>10. OnlyTheLastIsMixed'
  BY <1>8, <1>9 DEF MixedInvariant, OnlyTheLastIsMixed
<1>11. ASSUME NEW k \in DOMAIN history', NEW i \in DOMAIN history'[k]
       PROVE  /\ KeyOf(history'[k][i].snap) = k
              /\ Mixed(history'[k][i].snap) => k[2] < table[k[1]].start_time
  <2>1. CASE k = key
    BY <1>8, <1>9, <1>11, <2>1
  <2>2. CASE k # key
    BY <1>9, <1>11, <2>2 DEF MixedInvariant
  <2>3. QED
    BY <2>1, <2>2
<1>12. QED
  BY <1>4, <1>10, <1>11 DEF MixedInvariant

LEMMA MixedStep == TypeOK /\ MixedInvariant /\ [Next]_vars => MixedInvariant'
<1> SUFFICES ASSUME TypeOK, MixedInvariant, [Next]_vars PROVE MixedInvariant'
  OBVIOUS
<1>1. CASE Environment
  BY <1>1, MixedEnvironment
<1>2. ASSUME NEW d \in ClockSteps, BeginRefresh(d) \/ RefreshFails(d) PROVE MixedInvariant'
  <2>1. DrainStaleKeys /\ UNCHANGED table /\ pc' \in {"idle", "process"}
    BY <1>2 DEF BeginRefresh, RefreshFails
  <2>2. QED
    BY <2>1, DrainType DEF MixedInvariant, OnlyTheLastIsMixed
<1>3. ASSUME NEW p \in Pid, ReadStat(p) PROVE MixedInvariant'
  BY <1>3, MixedStat
<1>4. ASSUME NEW p \in Pid, SkipProcess(p) PROVE MixedInvariant'
  BY <1>4 DEF SkipProcess, MixedInvariant, OnlyTheLastIsMixed
<1>5. CASE ReadMemory
  BY <1>5, MixedMemory
<1>6. CASE DropProcess
  BY <1>6 DEF DropProcess, MixedInvariant, OnlyTheLastIsMixed
<1>7. CASE ReadConnections \/ ConnectionsFail
  BY <1>7, MixedRemember DEF ReadConnections, ConnectionsFail
<1>8. CASE FinishRefresh
  BY <1>8 DEF FinishRefresh, MixedInvariant, OnlyTheLastIsMixed
<1>9. CASE UNCHANGED vars
  BY <1>9 DEF vars, locals, MixedInvariant, OnlyTheLastIsMixed
<1>10. QED
  BY <1>1, <1>2, <1>3, <1>4, <1>5, <1>6, <1>7, <1>8, <1>9 DEF Next, Refresh

(* However often and whenever the kernel reuses a pid, between the reads of *)
(* one process(pid) too, only the newest sample of a run can have memory of *)
(* another run: those that the deltas and the growth of a later refresh    *)
(* start from are samples of the run they are filed under.                 *)
THEOREM NoMixedHistory == Spec => []OnlyTheLastIsMixed
<1>1. MixedInvariant => OnlyTheLastIsMixed
  BY DEF MixedInvariant
<1>2. QED
  BY <1>1, TypeCorrect, MixedInit, MixedStep, PTL DEF Spec
=============================================================================
