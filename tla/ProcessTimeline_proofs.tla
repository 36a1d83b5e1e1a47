------------------------ MODULE ProcessTimeline_proofs ------------------------
(***************************************************************************)
(* Proofs about the events of ProcessIntelligence: what a refresh reports, *)
(* what the timeline keeps of it, that the whole is ProcessObserver, what  *)
(* crash_analysis makes of the timeline, and when no growth is missed.     *)
(***************************************************************************)
EXTENDS ProcessIntelligence_proofs, MCMemoryGrowth, SequenceTheorems, WellFoundedInduction

-----------------------------------------------------------------------------
(* Reports in a sequence of events. *)

(* The positions of a kind in s \o t are those in s and, shifted, those in t. *)
LEMMA KindsOfConcat ==
    ASSUME NEW s \in Seq(Event), NEW t \in Seq(Event), NEW kind
    PROVE  /\ s \o t \in Seq(Event) /\ Len(s \o t) = Len(s) + Len(t)
           /\ \A i \in DOMAIN s : i \in DOMAIN (s \o t) /\ (s \o t)[i] = s[i]
           /\ \A j \in DOMAIN t : Len(s) + j \in DOMAIN (s \o t) /\ (s \o t)[Len(s) + j] = t[j]
           /\ \A i \in OfKind(s, kind) : i \in OfKind(s \o t, kind)
           /\ \A j \in OfKind(t, kind) : Len(s) + j \in OfKind(s \o t, kind)
           /\ \A i \in OfKind(s \o t, kind) :
                \/ i =< Len(s) /\ i \in OfKind(s, kind)
                \/ i > Len(s) /\ i - Len(s) \in OfKind(t, kind)
<1>1. /\ s \o t \in Seq(Event) /\ Len(s \o t) = Len(s) + Len(t)
      /\ \A i \in DOMAIN s : i \in DOMAIN (s \o t) /\ (s \o t)[i] = s[i]
      /\ \A j \in DOMAIN t : Len(s) + j \in DOMAIN (s \o t) /\ (s \o t)[Len(s) + j] = t[j]
      /\ \A i \in DOMAIN (s \o t) :
           \/ i =< Len(s) /\ i \in DOMAIN s /\ (s \o t)[i] = s[i]
           \/ i > Len(s) /\ i - Len(s) \in DOMAIN t /\ (s \o t)[i] = t[i - Len(s)]
  OBVIOUS
<1>2. QED
  BY <1>1 DEF OfKind

(* Events are added in groups. *)
LEMMA ConcatAssociates ==
    ASSUME NEW s \in Seq(Event), NEW t \in Seq(Event), NEW u \in Seq(Event)
    PROVE  s \o (t \o u) = (s \o t) \o u /\ t \o u \in Seq(Event)
OBVIOUS

(* Reports about different runs add up. *)
LEMMA OnceEachExtends ==
    ASSUME NEW s \in Seq(Event), NEW t \in Seq(Event), NEW kind, NEW J, NEW K,
           OnceEach(s, kind, J), OnceEach(t, kind, K), J \cap K = {}
    PROVE  OnceEach(s \o t, kind, J \cup K)
<1> DEFINE u == s \o t
<1>1. /\ \A i \in OfKind(s, kind) : i \in OfKind(u, kind) /\ u[i] = s[i]
      /\ \A j \in OfKind(t, kind) : Len(s) + j \in OfKind(u, kind) /\ u[Len(s) + j] = t[j]
      /\ \A i \in OfKind(u, kind) : i \in OfKind(s, kind) \/ i - Len(s) \in OfKind(t, kind)
      /\ \A i \in OfKind(u, kind) : i = Len(s) + (i - Len(s))
  BY KindsOfConcat DEF OfKind
<1> HIDE DEF u
<1>2. {u[i].key : i \in OfKind(u, kind)} = J \cup K
  <2>1. ASSUME NEW i \in OfKind(u, kind) PROVE u[i].key \in J \cup K
    BY <1>1 DEF OnceEach
  <2>2. ASSUME NEW k \in J \cup K PROVE \E i \in OfKind(u, kind) : u[i].key = k
    <3>1. CASE k \in J
      BY <1>1, <3>1 DEF OnceEach
    <3>2. CASE k \in K
      <4>1. PICK j \in OfKind(t, kind) : t[j].key = k
        BY <3>2 DEF OnceEach
      <4>2. QED
        BY <1>1, <4>1
    <3>3. QED
      BY <3>1, <3>2
  <2>3. QED
    BY <2>1, <2>2
<1>3. ASSUME NEW i \in OfKind(u, kind), NEW j \in OfKind(u, kind), u[i].key = u[j].key
      PROVE  i = j
  <2>1. CASE i \in OfKind(s, kind) /\ j \in OfKind(s, kind)
    BY <1>1, <1>3, <2>1 DEF OnceEach
  <2>2. CASE i - Len(s) \in OfKind(t, kind) /\ j - Len(s) \in OfKind(t, kind)
    <3>1. i = Len(s) + (i - Len(s)) /\ j = Len(s) + (j - Len(s))
      BY <1>1
    <3>2. u[i] = t[i - Len(s)] /\ u[j] = t[j - Len(s)]
      BY <1>1, <2>2, <3>1 DEF OfKind
    <3>3. i - Len(s) = j - Len(s)
      BY <1>3, <2>2, <3>2 DEF OnceEach
    <3>4. QED
      BY <3>1, <3>3
  <2>3. ASSUME NEW a \in OfKind(s, kind), NEW b \in OfKind(t, kind)
        PROVE  u[a].key # u[Len(s) + b].key
    <3>1. s[a].key \in J /\ t[b].key \in K
      BY DEF OnceEach
    <3>2. QED
      BY <1>1, <3>1
  <2>4. CASE i \in OfKind(s, kind) /\ j - Len(s) \in OfKind(t, kind)
    BY <1>1, <1>3, <2>3, <2>4
  <2>5. CASE j \in OfKind(s, kind) /\ i - Len(s) \in OfKind(t, kind)
    BY <1>1, <1>3, <2>3, <2>5
  <2>6. QED
    BY <1>1, <2>1, <2>2, <2>4, <2>5
<1>4. QED
  BY <1>2, <1>3 DEF OnceEach, u

(* A sequence without events of a kind reports nothing of it, and adds     *)
(* nothing to what another one reports.                                    *)
LEMMA NothingOfKind ==
    ASSUME NEW s \in Seq(Event), NEW kind, \A i \in DOMAIN s : s[i].kind # kind
    PROVE  /\ OnceEach(s, kind, {})
           /\ \A t \in Seq(Event) : \A J : OnceEach(t, kind, J) => OnceEach(t \o s, kind, J)
<1>1. OnceEach(s, kind, {})
  BY DEF OnceEach, OfKind
<1>2. ASSUME NEW t \in Seq(Event), NEW J, OnceEach(t, kind, J)
      PROVE  OnceEach(t \o s, kind, J)
  <2>1. OnceEach(t \o s, kind, J \cup {})
    BY <1>1, <1>2, OnceEachExtends, Zenon
  <2>2. J \cup {} = J
    OBVIOUS
  <2>3. QED
    BY <2>1, <2>2
<1>3. QED
  BY <1>1, <1>2

(* An order of a finite set leaves none of its elements out. *)
LEMMA OrderIsComplete ==
    ASSUME NEW S, IsFiniteSet(S), NEW order \in SetToSeqs(S)
    PROVE  /\ Cardinality(S) \in Nat /\ DOMAIN order = 1 .. Cardinality(S)
           /\ \A i \in DOMAIN order : order[i] \in S
           /\ \A i, j \in DOMAIN order : order[i] = order[j] => i = j
           /\ \A x \in S : \E i \in DOMAIN order : order[i] = x
<1> DEFINE n == Cardinality(S)
<1>1. n \in Nat
  BY FS_CardinalityType
<1>2. order \in [1 .. n -> S] /\ \A i, j \in 1 .. n : order[i] = order[j] => i = j
  BY DEF SetToSeqs
<1>3. IsFiniteSet(1 .. n) /\ Cardinality(1 .. n) = n
  BY <1>1, FS_Interval
<1>4. order \in Injection(1 .. n, S)
  BY <1>2 DEF Injection, IsInjective
<1>5. order \in Surjection(1 .. n, S)
  BY <1>3, <1>4, FS_Injection
<1>6. QED
  BY <1>1, <1>2, <1>5 DEF Surjection

(* Exits in some order report each of the runs once. *)
LEMMA ExitsInOrder ==
    ASSUME TypeOK, NEW S \in SUBSET Key, IsFiniteSet(S), NEW order \in SetToSeqs(S), NEW exits,
           exits = [i \in DOMAIN order |-> MkEvent(order[i], "Exited", NoPid)]
    PROVE  /\ exits \in Seq(Event)
           /\ \A i \in DOMAIN exits : exits[i].kind = "Exited"
           /\ OnceEach(exits, "Exited", S)
<1>1. exits \in Seq(Event)
  BY OrderIsComplete, OrderedEventsType
<1>2. /\ DOMAIN exits = DOMAIN order
      /\ \A i \in DOMAIN exits : exits[i].kind = "Exited" /\ exits[i].key = order[i]
  BY DEF MkEvent
<1>3. OfKind(exits, "Exited") = DOMAIN order
  BY <1>2 DEF OfKind
<1>4. {exits[i].key : i \in DOMAIN order} = S
  BY <1>2, OrderIsComplete
<1>5. QED
  <2>1. \A i, j \in DOMAIN order : order[i] = order[j] => i = j
    BY OrderIsComplete
  <2>2. OnceEach(exits, "Exited", S)
    BY <1>2, <1>3, <1>4, <2>1, SMTT(30) DEF OnceEach
  <2>3. QED
    BY <1>1, <1>2, <2>2

-----------------------------------------------------------------------------
(* What the loop body reports. *)

(* A run was listed by the last refresh just when its pid was, with the    *)
(* start time of the run.                                                  *)
LEMMA PreviouslyLiveIsListed ==
    ASSUME TypeOK, NEW s \in Snapshot
    PROVE  PreviouslyLive(s) <=> KeyOf(s) \in Keys(current)
BY DEF TypeOK, ProcessMap, PreviouslyLive, KeyOf, Keys

(* A read reports the start of a run that was not listed, and no exit. *)
LEMMA ReadReports ==
    ASSUME TypeOK, pc = "memory", table[snap.pid].alive, NEW s, s = SnapshotOf(snap)
    PROVE  /\ OnceEach(StartEvents(s), "Started", {KeyOf(s)} \ Keys(current))
           /\ \A i \in DOMAIN StartEvents(s) : StartEvents(s)[i].kind # "Exited"
           /\ \A i \in DOMAIN GrowthEvents(s) : GrowthEvents(s)[i].kind \notin {"Started", "Exited"}
<1>1. s \in Snapshot
  BY ReadType
<1>2. \A i \in DOMAIN GrowthEvents(s) : GrowthEvents(s)[i].kind \notin {"Started", "Exited"}
  BY DEF GrowthEvents, MkEvent
<1>3. CASE PreviouslyLive(s)
  <2>1. StartEvents(s) = <<>> /\ {KeyOf(s)} \ Keys(current) = {}
    BY <1>1, <1>3, PreviouslyLiveIsListed DEF StartEvents
  <2>2. QED
    BY <1>2, <2>1 DEF OnceEach, OfKind
<1>4. CASE ~PreviouslyLive(s)
  <2> DEFINE start == <<MkEvent(KeyOf(s), "Started", NoPid)>>
             child == NewChildEvents(s)
  <2>1. StartEvents(s) = start \o child /\ {KeyOf(s)} \ Keys(current) = {KeyOf(s)}
    BY <1>1, <1>4, PreviouslyLiveIsListed DEF StartEvents
  <2>2. start \in Seq(Event) /\ child \in Seq(Event)
    <3>1. KeyOf(s) \in Key /\ s.pid \in Pid
      BY <1>1, ReadType DEF Snapshot
    <3>2. \A q \in DOMAIN new_current : KeyOf(new_current[q]) \in Key
      BY DEF TypeOK, ProcessMap, Snapshot, KeyOf, Key
    <3>3. \A q \in DOMAIN current : KeyOf(current[q]) \in Key
      BY DEF TypeOK, ProcessMap, Snapshot, KeyOf, Key
    <3>4. QED
      BY <3>1, <3>2, <3>3, MkEventType DEF NewChildEvents, Kinds
  <2>3. \A i \in DOMAIN child : child[i].kind \notin {"Started", "Exited"}
    BY DEF NewChildEvents, MkEvent
  <2>4. OnceEach(start, "Started", {KeyOf(s)}) /\ \A i \in DOMAIN start : start[i].kind # "Exited"
    BY DEF OnceEach, OfKind, MkEvent
  <2> HIDE DEF start, child
  <2>5. OnceEach(start \o child, "Started", {KeyOf(s)})
    BY <2>2, <2>3, <2>4, NothingOfKind
  <2>6. \A i \in DOMAIN (start \o child) : (start \o child)[i].kind # "Exited"
    BY <2>2, <2>3, <2>4
  <2>7. QED
    BY <1>2, <2>1, <2>5, <2>6
<1>5. QED
  BY <1>3, <1>4

(* Reading stat, skipping a pid and dropping a half-read snapshot touch     *)
(* neither what is kept nor what was reported.                             *)
LEMMA QuietReads ==
    ASSUME (\E p \in Pid : ReadStat(p) \/ SkipProcess(p)) \/ DropProcess
    PROVE  /\ pc \in {"process", "memory"} /\ pc' \in {"process", "memory"}
           /\ UNCHANGED <<now, timeline, history, connections_seen, current, new_current,
                          pending_events, stale_keys>>
           /\ ReadRuns' = ReadRuns /\ Keys(current)' = Keys(current)
           /\ Keys(new_current)' = Keys(new_current)
BY DEF ReadStat, SkipProcess, DropProcess, ReadRuns, Keys

(* The steps of the loop body add what they read to what was reported. *)
LEMMA ReadKeepsReports ==
    ASSUME TypeOK, RefreshInvariant, ReadMemory
    PROVE  StartsReported'
<1> DEFINE s == SnapshotOf(snap)
           starts == StartEvents(s)
           growth == GrowthEvents(s)
<1>1. /\ pc = "memory" /\ table[snap.pid].alive /\ pc' = "connections"
      /\ snap' = s /\ new_current' = new_current /\ current' = current
      /\ pending_events' = (pending_events \o starts) \o growth
  BY DEF ReadMemory
<1>2. /\ starts \in Seq(Event) /\ growth \in Seq(Event)
      /\ OnceEach(starts, "Started", {KeyOf(s)} \ Keys(current))
      /\ \A i \in DOMAIN starts : starts[i].kind # "Exited"
      /\ \A i \in DOMAIN growth : growth[i].kind \notin {"Started", "Exited"}
  BY <1>1, ReadType, ReadReports
<1>3. KeyOf(s) \notin Keys(new_current)
  <2>1. KeyOf(s)[1] = snap.pid /\ snap.pid \notin DOMAIN new_current
    BY <1>1 DEF SnapshotOf, KeyOf, RefreshInvariant, RetentionInvariant
  <2>2. QED
    BY <2>1, KeysOfMap DEF TypeOK
<1>4. ReadRuns = Keys(new_current) /\ ReadRuns' = Keys(new_current) \cup {KeyOf(s)}
  BY <1>1 DEF ReadRuns, Keys, KeyOf
<1>5. /\ OnceEach(pending_events, "Started", ReadRuns \ Keys(current))
      /\ OnceEach(pending_events, "Exited", {})
      /\ pending_events \in Seq(Event)
  BY <1>1 DEF RefreshInvariant, StartsReported, TypeOK
<1> HIDE DEF s, starts, growth
<1>6. pending_events \o starts \in Seq(Event)
  BY <1>2, <1>5
<1>7. OnceEach(pending_events', "Started", ReadRuns' \ Keys(current))
  <2>1. (ReadRuns \ Keys(current)) \cap ({KeyOf(s)} \ Keys(current)) = {}
    BY <1>3, <1>4
  <2>2. OnceEach(pending_events \o starts, "Started",
          (ReadRuns \ Keys(current)) \cup ({KeyOf(s)} \ Keys(current)))
    BY <1>2, <1>5, <2>1, OnceEachExtends
  <2>3. (ReadRuns \ Keys(current)) \cup ({KeyOf(s)} \ Keys(current)) = ReadRuns' \ Keys(current)
    BY <1>4
  <2>4. QED
    BY <1>1, <1>2, <1>6, <2>2, <2>3, NothingOfKind
<1>8. OnceEach(pending_events', "Exited", {})
  <2>1. OnceEach(pending_events \o starts, "Exited", {})
    BY <1>2, <1>5, NothingOfKind
  <2>2. QED
    BY <1>1, <1>2, <1>6, <2>1, NothingOfKind
<1>9. Keys(current)' = Keys(current)
  BY <1>1 DEF Keys
<1>10. QED
  BY <1>7, <1>8, <1>9 DEF StartsReported

(* A run that was read stays read when its sample is kept. *)
LEMMA RememberKeepsRuns ==
    ASSUME TypeOK, RefreshInvariant, pc = "connections", Remember
    PROVE  ReadRuns' = ReadRuns /\ pc' = "process"
<1>1. snap.pid \notin DOMAIN new_current
  BY DEF RefreshInvariant, RetentionInvariant
<1>2. Keys(new_current)' = Keys(new_current) \cup {KeyOf(snap)} /\ pc' = "process"
  BY <1>1, RememberType DEF Keys
<1>3. QED
  BY <1>2 DEF ReadRuns

(* The events of connections report neither starts nor exits. *)
LEMMA ConnectionsKeepReports ==
    ASSUME TypeOK, RefreshInvariant, ReadConnections
    PROVE  StartsReported'
<1> DEFINE key == KeyOf(snap)
           fresh == table[snap.pid].conns \ Seen(key)
<1>1. pc = "connections" /\ Remember /\ current' = current
  BY DEF ReadConnections
<1>2. PICK order \in SetToSeqs(fresh) :
        pending_events' = pending_events \o
          [i \in DOMAIN order |-> MkEvent(key, "NewConnection", order[i])]
  BY DEF ReadConnections
<1> DEFINE events == [i \in DOMAIN order |-> MkEvent(key, "NewConnection", order[i])]
<1>3. events \in Seq(Event)
  <2>1. key \in Key /\ fresh \subseteq Addr
    BY <1>1, RememberType DEF TypeOK, TableTypeOK, Slot, Snapshot
  <2>2. Cardinality(fresh) \in Nat
    BY <2>1, FS_Subset, FS_CardinalityType, ProcessTableAssumption
  <2>3. QED
    BY <2>1, <2>2, OrderedEventsType
<1>4. \A i \in DOMAIN events : events[i].kind \notin {"Started", "Exited"}
  BY DEF MkEvent
<1>5. /\ OnceEach(pending_events, "Started", ReadRuns \ Keys(current))
      /\ OnceEach(pending_events, "Exited", {})
      /\ pending_events \in Seq(Event)
  BY <1>1 DEF RefreshInvariant, StartsReported, TypeOK
<1>6. pending_events' = pending_events \o events
  BY <1>2
<1> HIDE DEF events
<1>7. /\ OnceEach(pending_events', "Started", ReadRuns \ Keys(current))
      /\ OnceEach(pending_events', "Exited", {})
  BY <1>3, <1>4, <1>5, <1>6, NothingOfKind
<1>8. Keys(current)' = Keys(current) /\ ReadRuns' = ReadRuns
  BY <1>1, RememberKeepsRuns DEF Keys
<1>9. QED
  BY <1>7, <1>8 DEF StartsReported

LEMMA StartsStep == TypeOK /\ RefreshInvariant /\ [Next]_vars => StartsReported'
<1> SUFFICES ASSUME TypeOK, RefreshInvariant, [Next]_vars PROVE StartsReported'
  OBVIOUS
<1>1. ASSUME UNCHANGED <<pc, pending_events, new_current, snap, current>>
      PROVE  StartsReported'
  BY <1>1 DEF RefreshInvariant, StartsReported, ReadRuns, Keys, KeyOf
<1>2. CASE Environment
  BY <1>1, <1>2 DEF Environment, locals
<1>3. ASSUME NEW d \in ClockSteps, BeginRefresh(d) PROVE StartsReported'
  <2>1. /\ pc = "idle" /\ pc' = "process" /\ pending_events' = <<>>
        /\ new_current' = new_current
    BY <1>3 DEF BeginRefresh
  <2>2. ReadRuns' = {}
    BY <2>1, KeysOfMap DEF ReadRuns, Keys, RefreshInvariant, RetentionInvariant
  <2>3. OnceEach(<<>>, "Started", {}) /\ OnceEach(<<>>, "Exited", {})
    BY DEF OnceEach, OfKind
  <2>4. QED
    BY <2>1, <2>2, <2>3 DEF StartsReported
<1>4. ASSUME NEW d \in ClockSteps, RefreshFails(d) PROVE StartsReported'
  BY <1>4 DEF RefreshFails, StartsReported
<1>5. CASE ReadMemory
  BY <1>5, ReadKeepsReports
<1>6. ASSUME (\E p \in Pid : ReadStat(p) \/ SkipProcess(p)) \/ DropProcess
      PROVE  StartsReported'
  BY <1>6, QuietReads DEF RefreshInvariant, StartsReported
<1>7. CASE ReadConnections
  BY <1>7, ConnectionsKeepReports
<1>8. CASE ConnectionsFail
  <2>1. /\ pc = "connections" /\ Remember /\ pending_events' = pending_events
        /\ current' = current
    BY <1>8 DEF ConnectionsFail
  <2>2. QED
    BY <2>1, RememberKeepsRuns DEF RefreshInvariant, StartsReported, Keys
<1>9. CASE FinishRefresh
  BY <1>9 DEF FinishRefresh, StartsReported
<1>10. CASE UNCHANGED vars
  BY <1>1, <1>10 DEF vars, locals
<1>11. QED
  BY <1>2, <1>3, <1>4, <1>5, <1>6, <1>7, <1>8, <1>9, <1>10 DEF Next, Refresh

(* The loop of refresh_at keeps RefreshInvariant in every behaviour: what  *)
(* is in memory and what was reported agree with the runs read so far.     *)
THEOREM RefreshInvariantHolds == Spec => []RefreshInvariant
<1>1. Init => RefreshInvariant
  BY RetentionInit DEF Init, RefreshInvariant, StartsReported
<1>2. TypeOK /\ RefreshInvariant /\ [Next]_vars => RefreshInvariant'
  BY RetentionStep, StartsStep DEF RefreshInvariant
<1>3. QED
  BY <1>1, <1>2, TypeCorrect, PTL DEF Spec

-----------------------------------------------------------------------------
(* The refinement of ProcessObserver.                                      *)

(* What is reported when a refresh ends: each run that appeared, each run  *)
(* that vanished, and the exits after everything else.                     *)
LEMMA FinishReports ==
    ASSUME TypeOK, RefreshInvariant, FinishRefresh
    PROVE  /\ pending_events' \in Seq(Event)
           /\ OnceEach(pending_events', "Started", Keys(new_current) \ Keys(current))
           /\ OnceEach(pending_events', "Exited", Keys(current) \ Keys(new_current))
           /\ \E n \in Nat : \A i \in DOMAIN pending_events' :
                pending_events'[i].kind = "Exited" <=> i > n
<1> DEFINE exited == Keys(current) \ Keys(new_current)
<1>1. PICK order \in SetToSeqs(exited) :
        pending_events' = pending_events \o
          [i \in DOMAIN order |-> MkEvent(order[i], "Exited", NoPid)]
  BY DEF FinishRefresh
<1> DEFINE exits == [i \in DOMAIN order |-> MkEvent(order[i], "Exited", NoPid)]
<1>2. exited \in SUBSET Key /\ IsFiniteSet(exited)
  BY KeysProperties DEF TypeOK
<1>3. /\ exits \in Seq(Event)
      /\ \A i \in DOMAIN exits : exits[i].kind = "Exited"
      /\ OnceEach(exits, "Exited", exited)
  BY <1>2, ExitsInOrder
<1>4. ReadRuns = Keys(new_current) /\ pc = "process"
  BY DEF FinishRefresh, ReadRuns
<1>5. /\ pending_events \in Seq(Event)
      /\ OnceEach(pending_events, "Started", Keys(new_current) \ Keys(current))
      /\ OnceEach(pending_events, "Exited", {})
  BY <1>4 DEF TypeOK, RefreshInvariant, StartsReported
<1>6. pending_events' = pending_events \o exits
  BY <1>1
<1> HIDE DEF exits, exited
<1>7. pending_events' \in Seq(Event)
  BY <1>3, <1>5, <1>6
<1>8. OnceEach(pending_events', "Started", Keys(new_current) \ Keys(current))
  BY <1>3, <1>5, <1>6, NothingOfKind
<1>9. OnceEach(pending_events', "Exited", exited)
  <2>1. OnceEach(pending_events \o exits, "Exited", {} \cup exited)
    BY <1>3, <1>5, OnceEachExtends
  <2>2. {} \cup exited = exited
    OBVIOUS
  <2>3. QED
    BY <1>6, <2>1, <2>2
<1>10. \A i \in DOMAIN pending_events' :
         pending_events'[i].kind = "Exited" <=> i > Len(pending_events)
  <2>1. \A i \in DOMAIN pending_events : pending_events[i].kind # "Exited"
    BY <1>5, SMTT(30) DEF OnceEach, OfKind
  <2>2. ASSUME NEW i \in DOMAIN pending_events'
        PROVE  pending_events'[i].kind = "Exited" <=> i > Len(pending_events)
    <3>1. CASE i =< Len(pending_events)
      BY <1>3, <1>5, <1>6, <2>1, <3>1
    <3>2. CASE i > Len(pending_events)
      BY <1>3, <1>5, <1>6, <3>2
    <3>3. QED
      BY <1>5, <1>7, <3>1, <3>2
  <2>3. QED
    BY <2>2
<1>11. Len(pending_events) \in Nat
  BY <1>5
<1>12. QED
  BY <1>7, <1>8, <1>9, <1>10, <1>11 DEF exited

(* One report each, in the words of ProcessObserver. *)
LEMMA OnceEachIsReportedOnce ==
    ASSUME NEW s \in Seq(Event), NEW kind, NEW K, OnceEach(s, kind, K)
    PROVE  Observer!ReportedOnce(s, K, kind)
<1>1. \A k \in Key : Observer!Reports(s, k, kind) = {i \in OfKind(s, kind) : s[i].key = k}
  BY DEF Observer!Reports, OfKind
<1>2. ASSUME NEW k \in Key, k \in K
      PROVE  \E i \in DOMAIN s : Observer!Reports(s, k, kind) = {i}
  <2>1. PICK i \in OfKind(s, kind) : s[i].key = k
    BY <1>2 DEF OnceEach
  <2>2. {j \in OfKind(s, kind) : s[j].key = k} = {i}
    BY <2>1 DEF OnceEach
  <2>3. QED
    BY <1>1, <2>1, <2>2 DEF OfKind
<1>3. ASSUME NEW k \in Key, k \notin K
      PROVE  Observer!Reports(s, k, kind) = {}
  BY <1>1, <1>3 DEF OnceEach
<1>4. QED
  BY <1>2, <1>3 DEF Observer!ReportedOnce

(* A refresh that ends is the step Observe. *)
LEMMA FinishObserves ==
    ASSUME TypeOK, RefreshInvariant, FinishRefresh
    PROVE  Observer!Observe
<1>1. /\ pc = "process" /\ pc' = "idle" /\ current' = new_current
      /\ history' = history
      /\ timeline' = KeepLast(timeline \o pending_events', TimelineCapacity)
  BY DEF FinishRefresh
<1>2. Keys(current)' = Keys(new_current)
  BY <1>1 DEF Keys
<1>3. /\ Keys(new_current) \subseteq Key
      /\ \A j, k \in Keys(new_current) : j[1] = k[1] => j = k
  BY KeysProperties DEF TypeOK
<1>4. DOMAIN history' = Keys(current) \cup Keys(new_current)
  BY <1>1 DEF RefreshInvariant, RetentionInvariant
<1>5. /\ Observer!ReportedOnce(pending_events', Keys(new_current) \ Keys(current), "Started")
      /\ Observer!ReportedOnce(pending_events', Keys(current) \ Keys(new_current), "Exited")
  BY FinishReports, OnceEachIsReportedOnce
<1>6. Observer!ExitsLast(pending_events')
  BY FinishReports DEF Observer!ExitsLast
<1>7. timeline' = Observer!LastOf(timeline \o pending_events', TimelineCapacity)
  BY <1>1 DEF KeepLast, Observer!LastOf
<1>8. (IF pc = "idle" THEN pending_events ELSE <<>>)' = pending_events'
  BY <1>1
<1>9. (IF pc = "idle" THEN DOMAIN history ELSE Keys(current))' = DOMAIN history'
  BY <1>1
<1>10. (IF pc = "idle" THEN DOMAIN history ELSE Keys(current)) = Keys(current)
  BY <1>1
<1>11. QED
  BY <1>2, <1>3, <1>4, <1>5, <1>6, <1>7, <1>8, <1>9 DEF Observer!Observe

(* A call that begins or fails is the step Forget. *)
LEMMA BeginForgets ==
    ASSUME TypeOK, RefreshInvariant,
           NEW d \in ClockSteps, BeginRefresh(d) \/ RefreshFails(d)
    PROVE  Observer!Forget
<1>1. /\ pc = "idle" /\ DrainStaleKeys /\ current' = current /\ timeline' = timeline
      /\ pending_events' = <<>>
  BY DEF BeginRefresh, RefreshFails
<1>2. DOMAIN history' = Keys(current)
  BY <1>1, DrainKeepsCurrent DEF RefreshInvariant
<1>3. Keys(current)' = Keys(current)
  BY <1>1 DEF Keys
<1>4. (IF pc = "idle" THEN DOMAIN history ELSE Keys(current))' = Keys(current)
  BY <1>2, <1>3
<1>5. (IF pc = "idle" THEN pending_events ELSE <<>>)' = <<>>
  BY <1>1
<1>6. QED
  BY <1>1, <1>3, <1>4, <1>5 DEF Observer!Forget

(* Every other step is invisible to the callers. *)
LEMMA OthersAreHidden ==
    ASSUME current' = current, timeline' = timeline,
           \/ pc # "idle" /\ pc' # "idle"
           \/ UNCHANGED <<pc, history, pending_events>>
    PROVE  UNCHANGED Observer!vars
<1>1. Keys(current)' = Keys(current)
  BY DEF Keys
<1>2. (IF pc = "idle" THEN DOMAIN history ELSE Keys(current))'
        = IF pc = "idle" THEN DOMAIN history ELSE Keys(current)
  BY <1>1
<1>3. (IF pc = "idle" THEN pending_events ELSE <<>>)'
        = IF pc = "idle" THEN pending_events ELSE <<>>
  OBVIOUS
<1>4. QED
  BY <1>1, <1>2, <1>3 DEF Observer!vars

(* Each step of refresh_at or of the kernel is a step of ProcessObserver,  *)
(* or none.                                                                *)
LEMMA StepRefines ==
    TypeOK /\ RefreshInvariant /\ [Next]_vars => [Observer!Next]_(Observer!vars)
<1> SUFFICES ASSUME TypeOK, RefreshInvariant, [Next]_vars
             PROVE  [Observer!Next]_(Observer!vars)
  OBVIOUS
<1>1. CASE Environment
  BY <1>1, OthersAreHidden DEF Environment
<1>2. ASSUME NEW d \in ClockSteps, BeginRefresh(d) \/ RefreshFails(d)
      PROVE  Observer!Next
  BY <1>2, BeginForgets DEF Observer!Next
<1>3. ASSUME (\E p \in Pid : ReadStat(p) \/ SkipProcess(p)) \/ ReadMemory \/ DropProcess
      PROVE  UNCHANGED Observer!vars
  BY <1>3, OthersAreHidden DEF ReadStat, SkipProcess, ReadMemory, DropProcess
<1>4. CASE ReadConnections \/ ConnectionsFail
  BY <1>4, OthersAreHidden DEF ReadConnections, ConnectionsFail, Remember
<1>5. CASE FinishRefresh
  BY <1>5, FinishObserves DEF Observer!Next
<1>6. CASE UNCHANGED vars
  BY <1>6, OthersAreHidden DEF vars
<1>7. QED
  BY <1>1, <1>2, <1>3, <1>4, <1>5, <1>6 DEF Next, Refresh

(* refresh_at implements ProcessObserver: to its callers the reads of a    *)
(* changing table are one step, which reports each appearance and each     *)
(* disappearance of a run once, whatever is recycled or cannot be read.    *)
THEOREM RefreshRefinesObserver == Spec => ImplementsObserver
<1>1. Init => Observer!Init
  BY MapDomains, KeysOfMap DEF Init, Observer!Init
<1>2. QED
  BY <1>1, TypeCorrect, RefreshInvariantHolds, StepRefines, PTL
  DEF Spec, ImplementsObserver, Observer!Spec

-----------------------------------------------------------------------------
(* The life of a run in the timeline. *)

(* A refresh adds at most one Started or Exited event about a run to the   *)
(* timeline: one, of the kind that tells, when the run came or went.       *)
LEMMA LifeOfConcat ==
    ASSUME NEW s \in Seq(Event), NEW t \in Seq(Event), NEW k, NEW old, NEW new,
           OnceEach(t, "Started", new \ old), OnceEach(t, "Exited", old \ new)
    PROVE  /\ \A i \in LifeEvents(s, k) : (s \o t)[i] = s[i] /\ i =< Len(s)
           /\ (k \in old <=> k \in new) => LifeEvents(s \o t, k) = LifeEvents(s, k)
           /\ ~(k \in old <=> k \in new) =>
                \E x \in DOMAIN (s \o t) :
                  /\ x > Len(s) /\ LifeEvents(s \o t, k) = LifeEvents(s, k) \cup {x}
                  /\ (s \o t)[x].kind = "Started" <=> k \in new
<1> DEFINE u == s \o t
           shifted == {Len(s) + j : j \in LifeEvents(t, k)}
<1>1. \A i \in LifeEvents(s, k) : u[i] = s[i] /\ i =< Len(s)
  BY DEF LifeEvents, OfKind
<1>2. LifeEvents(u, k) = LifeEvents(s, k) \cup shifted
  <2>1. ASSUME NEW i \in LifeEvents(s, k) PROVE i \in LifeEvents(u, k)
    BY KindsOfConcat DEF LifeEvents, OfKind
  <2>2. ASSUME NEW j \in LifeEvents(t, k) PROVE Len(s) + j \in LifeEvents(u, k)
    BY KindsOfConcat DEF LifeEvents, OfKind
  <2>3. ASSUME NEW i \in LifeEvents(u, k) PROVE i \in LifeEvents(s, k) \cup shifted
    <3>1. i \in DOMAIN u /\ u[i].kind \in {"Started", "Exited"} /\ u[i].key = k
      BY DEF LifeEvents, OfKind
    <3>2. CASE i =< Len(s)
      BY <3>1, <3>2 DEF LifeEvents, OfKind
    <3>3. CASE i > Len(s)
      <4>1. i - Len(s) \in DOMAIN t /\ u[i] = t[i - Len(s)] /\ i = Len(s) + (i - Len(s))
        BY <3>1, <3>3
      <4>2. QED
        BY <3>1, <4>1 DEF LifeEvents, OfKind
    <3>4. QED
      BY <3>1, <3>2, <3>3
  <2>4. QED
    BY <2>1, <2>2, <2>3
<1>3. ASSUME k \in old <=> k \in new PROVE LifeEvents(t, k) = {}
  BY <1>3 DEF LifeEvents, OnceEach
<1>4. ASSUME ~(k \in old <=> k \in new)
      PROVE  \E y \in DOMAIN t : /\ LifeEvents(t, k) = {y}
                                 /\ t[y].kind = "Started" <=> k \in new
  <2>1. CASE k \in new
    <3>1. PICK y \in OfKind(t, "Started") : t[y].key = k
      BY <1>4, <2>1 DEF OnceEach
    <3>2. LifeEvents(t, k) = {y}
      BY <1>4, <2>1, <3>1 DEF LifeEvents, OnceEach
    <3>3. QED
      BY <2>1, <3>1, <3>2 DEF OfKind
  <2>2. CASE k \notin new
    <3>1. PICK y \in OfKind(t, "Exited") : t[y].key = k
      BY <1>4, <2>2 DEF OnceEach
    <3>2. LifeEvents(t, k) = {y}
      BY <1>4, <2>2, <3>1 DEF LifeEvents, OnceEach
    <3>3. QED
      BY <2>2, <3>1, <3>2 DEF OfKind
  <2>3. QED
    BY <2>1, <2>2
<1>5. ASSUME ~(k \in old <=> k \in new)
      PROVE  \E x \in DOMAIN u : /\ x > Len(s) /\ LifeEvents(u, k) = LifeEvents(s, k) \cup {x}
                                 /\ u[x].kind = "Started" <=> k \in new
  <2>1. PICK y \in DOMAIN t : /\ LifeEvents(t, k) = {y}
                              /\ t[y].kind = "Started" <=> k \in new
    BY <1>4, <1>5
  <2>2. /\ Len(s) + y \in DOMAIN u /\ u[Len(s) + y] = t[y] /\ Len(s) + y > Len(s)
        /\ shifted = {Len(s) + y}
    BY <2>1
  <2>3. QED
    BY <1>2, <2>1, <2>2
<1>6. QED
  BY <1>1, <1>2, <1>3, <1>5

(* Neighbours stay of different kinds, and the last event goes on to tell  *)
(* whether the run is listed.                                              *)
LEMMA AlternatesExtends ==
    ASSUME NEW s \in Seq(Event), NEW t \in Seq(Event), NEW k, NEW old, NEW new,
           OnceEach(t, "Started", new \ old), OnceEach(t, "Exited", old \ new),
           Alternates(s, k, k \in old)
    PROVE  /\ Alternates(s \o t, k, k \in new)
           /\ FromTheStart(s, k, k \in old) => FromTheStart(s \o t, k, k \in new)
<1> DEFINE u == s \o t
           before == LifeEvents(s, k)
           life == LifeEvents(u, k)
<1>1. /\ \A i \in before : u[i] = s[i] /\ i =< Len(s) /\ i \in Int
      /\ \A i \in before : s[i].kind \in {"Started", "Exited"}
      /\ Len(s) \in Nat
  BY LifeOfConcat DEF LifeEvents, OfKind
<1>2. /\ \A i, j \in before : i < j /\ s[i].kind = s[j].kind
           => \E m \in before : i < m /\ m < j
      /\ \A i \in before : (\A j \in before : j =< i)
           => (s[i].kind = "Started" <=> k \in old)
  BY DEF Alternates
<1>3. CASE k \in old <=> k \in new
  <2>1. life = before
    BY <1>3, LifeOfConcat
  <2>2. Alternates(u, k, k \in new)
    <3> HIDE DEF u
    <3> QED
      BY <1>1, <1>2, <1>3, <2>1 DEF Alternates
  <2>3. ASSUME FromTheStart(s, k, k \in old) PROVE FromTheStart(u, k, k \in new)
    <3> HIDE DEF u
    <3> QED
      BY <1>1, <1>3, <2>1, <2>3 DEF FromTheStart
  <2>4. QED
    BY <2>2, <2>3
<1>4. CASE ~(k \in old <=> k \in new)
  <2>1. PICK x \in DOMAIN u : /\ x > Len(s) /\ life = before \cup {x}
                              /\ u[x].kind = "Started" <=> k \in new
    BY <1>4, LifeOfConcat
  <2>2. x \in Int /\ u[x].kind \in {"Started", "Exited"}
    BY <2>1 DEF LifeEvents, OfKind
  <2> HIDE DEF u, before, life
  <2>3. ASSUME NEW i \in life, NEW j \in life, i < j, u[i].kind = u[j].kind
        PROVE  \E m \in life : i < m /\ m < j
    <3>1. i \in before
      BY <1>1, <2>1, <2>2, <2>3
    <3>2. CASE j \in before
      BY <1>1, <1>2, <2>1, <2>3, <3>1, <3>2
    <3>3. CASE j = x
      <4>1. PICK m \in before : ~(m =< i)
        BY <1>1, <1>2, <1>4, <2>1, <2>2, <2>3, <3>1, <3>3
      <4>2. QED
        BY <1>1, <2>1, <2>2, <3>1, <3>3, <4>1
    <3>4. QED
      BY <2>1, <3>2, <3>3
  <2>4. ASSUME NEW i \in life, \A j \in life : j =< i
        PROVE  u[i].kind = "Started" <=> k \in new
    BY <1>1, <2>1, <2>2, <2>4
  <2>5. Alternates(u, k, k \in new)
    BY <2>3, <2>4 DEF Alternates, life
  <2>6. ASSUME FromTheStart(s, k, k \in old) PROVE FromTheStart(u, k, k \in new)
    <3>1. /\ \A i \in before : (\A j \in before : i =< j) => s[i].kind = "Started"
          /\ k \in old => before # {}
      BY <2>6 DEF FromTheStart, before
    <3>2. ASSUME NEW i \in life, \A j \in life : i =< j PROVE u[i].kind = "Started"
      <4>1. CASE i \in before
        BY <1>1, <2>1, <3>1, <3>2, <4>1
      <4>2. CASE i = x
        BY <1>1, <1>4, <2>1, <2>2, <3>1, <3>2, <4>2
      <4>3. QED
        BY <2>1, <4>1, <4>2
    <3>3. QED
      BY <2>1, <3>2 DEF FromTheStart, life
  <2>7. QED
    BY <2>5, <2>6 DEF u
<1>5. QED
  BY <1>3, <1>4

(* What is kept at the capacity is an end of the sequence, all of it when  *)
(* there is room left.                                                     *)
LEMMA KeepLastIsSuffix ==
    ASSUME NEW s \in Seq(Event), NEW n \in Nat
    PROVE  /\ KeepLast(s, n) \in Seq(Event)
           /\ Len(KeepLast(s, n)) < n => KeepLast(s, n) = s
           /\ \E cut \in Nat :
                /\ Len(s) = Len(KeepLast(s, n)) + cut
                /\ \A i \in DOMAIN KeepLast(s, n) : KeepLast(s, n)[i] = s[cut + i]
<1>1. CASE Len(s) > n
  <2> DEFINE t == SubSeq(s, Len(s) - n + 1, Len(s))
  <2>1. KeepLast(s, n) = t
    BY <1>1 DEF KeepLast
  <2>2. /\ t \in Seq(Event) /\ Len(t) = n /\ Len(s) - n \in Nat
        /\ \A i \in DOMAIN t : t[i] = s[(Len(s) - n) + i]
    BY <1>1
  <2> HIDE DEF t
  <2>3. Len(s) = Len(t) + (Len(s) - n) /\ ~(Len(t) < n)
    BY <2>2
  <2>4. QED
    BY <2>1, <2>2, <2>3
<1>2. CASE ~(Len(s) > n)
  <2>1. KeepLast(s, n) = s
    BY <1>2 DEF KeepLast
  <2>2. Len(s) = Len(s) + 0 /\ \A i \in DOMAIN s : s[i] = s[0 + i]
    OBVIOUS
  <2>3. QED
    BY <2>1, <2>2
<1>3. QED
  BY <1>1, <1>2

(* Dropping events at the front leaves the rest alternating. *)
LEMMA AlternatesSuffix ==
    ASSUME NEW s \in Seq(Event), NEW n \in Nat, NEW k, NEW listed, Alternates(s, k, listed)
    PROVE  Alternates(KeepLast(s, n), k, listed)
<1> DEFINE t == KeepLast(s, n)
<1>1. PICK cut \in Nat : /\ Len(s) = Len(t) + cut
                         /\ \A i \in DOMAIN t : t[i] = s[cut + i]
  BY KeepLastIsSuffix
<1>2. t \in Seq(Event)
  BY KeepLastIsSuffix
<1> HIDE DEF t
<1>3. \A i \in LifeEvents(t, k) : /\ cut + i \in LifeEvents(s, k) /\ t[i] = s[cut + i]
                                  /\ i \in Int /\ i > 0
  BY <1>1, <1>2 DEF LifeEvents, OfKind
<1>4. \A j \in LifeEvents(s, k) : j \in Int /\ (j > cut => j - cut \in LifeEvents(t, k))
  <2>1. ASSUME NEW j \in LifeEvents(s, k), j > cut PROVE j - cut \in LifeEvents(t, k)
    <3>1. /\ j \in DOMAIN s /\ s[j].kind \in {"Started", "Exited"} /\ s[j].key = k
      BY DEF LifeEvents, OfKind
    <3>2. j - cut \in DOMAIN t /\ j = cut + (j - cut)
      BY <1>1, <1>2, <2>1, <3>1
    <3>3. t[j - cut] = s[j]
      BY <1>1, <3>2
    <3>4. QED
      BY <3>1, <3>2, <3>3 DEF LifeEvents, OfKind
  <2>2. QED
    BY <2>1 DEF LifeEvents, OfKind
<1>5. ASSUME NEW i \in LifeEvents(t, k), NEW j \in LifeEvents(t, k), i < j, t[i].kind = t[j].kind
      PROVE  \E m \in LifeEvents(t, k) : i < m /\ m < j
  <2>1. PICK m \in LifeEvents(s, k) : cut + i < m /\ m < cut + j
    BY <1>3, <1>5 DEF Alternates
  <2>2. m - cut \in LifeEvents(t, k) /\ i < m - cut /\ m - cut < j
    BY <1>3, <1>4, <2>1
  <2>3. QED
    BY <2>2
<1>6. ASSUME NEW i \in LifeEvents(t, k), \A j \in LifeEvents(t, k) : j =< i
      PROVE  t[i].kind = "Started" <=> listed
  <2>1. \A j \in LifeEvents(s, k) : j =< cut + i
    BY <1>3, <1>4, <1>6
  <2>2. QED
    BY <1>3, <2>1 DEF Alternates
<1>7. QED
  BY <1>5, <1>6 DEF Alternates, t

(* A step that leaves the timeline and the current map alone leaves the    *)
(* lives of the runs alone; the end of a refresh extends them.             *)
LEMMA FinishAlternates ==
    ASSUME TypeOK, RefreshInvariant, LifecycleAlternates, FinishRefresh
    PROVE  LifecycleAlternates'
<1> DEFINE old == Keys(current)
           new == Keys(new_current)
           events == timeline \o pending_events'
<1>1. /\ timeline' = KeepLast(events, TimelineCapacity)
      /\ Keys(current)' = new
  BY DEF FinishRefresh, Keys
<1>2. /\ timeline \in Seq(Event) /\ pending_events' \in Seq(Event)
      /\ OnceEach(pending_events', "Started", new \ old)
      /\ OnceEach(pending_events', "Exited", old \ new)
      /\ TimelineCapacity \in Nat
  BY FinishReports, IntelligenceAssumption DEF TypeOK
<1>3. events \in Seq(Event) /\ Len(timeline) =< Len(events)
  BY <1>2
<1>4. /\ Len(timeline') < TimelineCapacity => timeline' = events
      /\ timeline' \in Seq(Event)
  BY <1>1, <1>2, <1>3, KeepLastIsSuffix
<1> SUFFICES ASSUME NEW k \in Key
             PROVE  /\ Alternates(timeline', k, k \in new)
                    /\ Len(timeline') < TimelineCapacity
                         => FromTheStart(timeline', k, k \in new)
  BY <1>1 DEF LifecycleAlternates, Alternates, FromTheStart, LifeEvents, OfKind
<1>5. /\ Alternates(timeline, k, k \in old)
      /\ Len(timeline) < TimelineCapacity => FromTheStart(timeline, k, k \in old)
  BY DEF LifecycleAlternates
<1>6. /\ Alternates(events, k, k \in new)
      /\ FromTheStart(timeline, k, k \in old) => FromTheStart(events, k, k \in new)
  BY <1>2, <1>5, AlternatesExtends
<1>7. Alternates(timeline', k, k \in new)
  BY <1>1, <1>2, <1>3, <1>6, AlternatesSuffix
<1>8. ASSUME Len(timeline') < TimelineCapacity PROVE FromTheStart(timeline', k, k \in new)
  <2>1. timeline' = events /\ Len(timeline) < TimelineCapacity
    BY <1>2, <1>3, <1>4, <1>8
  <2>2. QED
    BY <1>5, <1>6, <2>1
<1>9. QED
  BY <1>7, <1>8

LEMMA AlternatesStep ==
    TypeOK /\ RefreshInvariant /\ LifecycleAlternates /\ [Next]_vars => LifecycleAlternates'
<1> SUFFICES ASSUME TypeOK, RefreshInvariant, LifecycleAlternates, [Next]_vars
             PROVE  LifecycleAlternates'
  OBVIOUS
<1>1. ASSUME UNCHANGED <<timeline, current>> PROVE LifecycleAlternates'
  BY <1>1 DEF LifecycleAlternates, Alternates, FromTheStart, LifeEvents, OfKind, Keys
<1>2. CASE FinishRefresh
  BY <1>2, FinishAlternates
<1>3. CASE ~FinishRefresh
  <2>1. UNCHANGED <<timeline, current>>
    BY <1>3 DEF Next, Refresh, Environment, BeginRefresh, RefreshFails, ReadStat,
                SkipProcess, ReadMemory, DropProcess, ReadConnections, ConnectionsFail, Remember, vars
  <2>2. QED
    BY <1>1, <2>1
<1>4. QED
  BY <1>2, <1>3

(* In every behaviour the Started and Exited events kept about a run        *)
(* alternate and agree with the current map, for every capacity of the      *)
(* timeline, across pid reuse, failed reads and failed refreshes.           *)
THEOREM LifeIsAlternating == Spec => []LifecycleAlternates
<1>1. Init => LifecycleAlternates
  BY MapDomains, KeysOfMap
  DEF Init, LifecycleAlternates, Alternates, FromTheStart, LifeEvents, OfKind
<1>2. QED
  BY <1>1, AlternatesStep, TypeCorrect, RefreshInvariantHolds, PTL DEF Spec

-----------------------------------------------------------------------------
(* The addresses that were reported. *)

(* A report stays valid until the run starts again. *)
LEMMA ReportedSinceExtends ==
    ASSUME NEW s \in Seq(Event), NEW t \in Seq(Event), NEW k, NEW a,
           ReportedSince(s, k, a), \A j \in OfKind(t, "Started") : t[j].key # k
    PROVE  ReportedSince(s \o t, k, a)
<1> DEFINE u == s \o t
<1>1. PICK i \in DOMAIN s :
        /\ s[i].key = k /\ s[i].kind = "NewConnection" /\ s[i].about = a
        /\ \A j \in OfKind(s, "Started") : j > i => s[j].key # k
  BY DEF ReportedSince
<1>2. i \in DOMAIN u /\ u[i] = s[i]
  BY KindsOfConcat
<1>3. ASSUME NEW j \in OfKind(u, "Started"), j > i PROVE u[j].key # k
  <2>1. CASE j \in OfKind(s, "Started")
    BY <1>1, <1>3, <2>1, KindsOfConcat DEF OfKind
  <2>2. CASE j > Len(s) /\ j - Len(s) \in OfKind(t, "Started")
    <3>1. j - Len(s) \in DOMAIN t /\ u[Len(s) + (j - Len(s))] = t[j - Len(s)]
      BY <2>2, KindsOfConcat DEF OfKind
    <3>2. j = Len(s) + (j - Len(s))
      BY <1>3 DEF OfKind
    <3>3. QED
      BY <2>2, <3>1, <3>2
  <2>3. QED
    BY <2>1, <2>2, KindsOfConcat
<1> HIDE DEF u
<1>4. QED
  BY <1>1, <1>2, <1>3 DEF ReportedSince, u

(* Steps that remember no new address, and add no start of a run whose     *)
(* addresses are remembered, keep every report.                            *)
LEMMA ReportsCarryOver ==
    ASSUME TypeOK, ConnectionsReported, NEW added \in Seq(Event),
           Len(timeline') < TimelineCapacity =>
             Len(timeline) < TimelineCapacity /\ Reported' = Reported \o added,
           \A k \in DOMAIN connections_seen' :
             /\ k \in DOMAIN connections_seen /\ connections_seen'[k] = connections_seen[k]
             /\ \A j \in OfKind(added, "Started") : added[j].key # k
    PROVE  ConnectionsReported'
<1>1. Reported \in Seq(Event)
  BY DEF TypeOK, Reported
<1> SUFFICES ASSUME Len(timeline') < TimelineCapacity,
                    NEW k \in DOMAIN connections_seen', NEW a \in connections_seen'[k]
             PROVE  ReportedSince(Reported', k, a)
  BY DEF ConnectionsReported, ReportedSince, OfKind
<1>2. ReportedSince(Reported, k, a)
  BY DEF ConnectionsReported
<1>3. ReportedSince(Reported \o added, k, a)
  BY <1>1, <1>2, ReportedSinceExtends
<1>4. QED
  BY <1>3

(* The addresses of a run are reported as they are remembered. *)
LEMMA ReadReportsConnections ==
    ASSUME TypeOK, ConnectionsReported, ReadConnections
    PROVE  ConnectionsReported'
<1> DEFINE key == KeyOf(snap)
           addrs == table[snap.pid].conns
           fresh == addrs \ Seen(key)
<1>1. /\ pc = "connections" /\ pc' = "process" /\ timeline' = timeline
      /\ connections_seen' = Put(connections_seen, key, addrs)
  BY DEF ReadConnections, Remember
<1>2. PICK order \in SetToSeqs(fresh) :
        pending_events' = pending_events \o
          [i \in DOMAIN order |-> MkEvent(key, "NewConnection", order[i])]
  BY DEF ReadConnections
<1> DEFINE events == [i \in DOMAIN order |-> MkEvent(key, "NewConnection", order[i])]
<1>3. /\ key \in Key /\ fresh \subseteq Addr /\ IsFiniteSet(fresh)
      /\ Cardinality(fresh) \in Nat
  <2>1. key \in Key /\ fresh \subseteq Addr
    BY <1>1 DEF TypeOK, TableTypeOK, Slot, Snapshot, KeyOf, Key
  <2>2. QED
    BY <2>1, FS_Subset, FS_CardinalityType, ProcessTableAssumption
<1>4. events \in Seq(Event)
  BY <1>3, OrderedEventsType
<1>5. /\ \A i \in DOMAIN events : events[i].kind = "NewConnection" /\ events[i].key = key
      /\ \A a \in fresh : \E i \in DOMAIN events : events[i].about = a
  BY <1>3, OrderIsComplete DEF MkEvent
<1>6. Reported' = Reported \o events /\ Reported \in Seq(Event)
  <2>1. pending_events \in Seq(Event) /\ timeline \in Seq(Event)
    BY DEF TypeOK
  <2>2. Reported = timeline \o pending_events /\ Reported' = timeline \o (pending_events \o events)
    BY <1>1, <1>2 DEF Reported
  <2> HIDE DEF events
  <2>3. QED
    BY <1>4, <2>1, <2>2
<1> SUFFICES ASSUME Len(timeline) < TimelineCapacity,
                    NEW k \in DOMAIN connections_seen', NEW a \in connections_seen'[k]
             PROVE  ReportedSince(Reported', k, a)
  BY <1>1 DEF ConnectionsReported, ReportedSince, OfKind
<1> HIDE DEF events
<1>7. CASE k \in DOMAIN connections_seen /\ a \in connections_seen[k]
  <2>1. ReportedSince(Reported, k, a)
    BY <1>7 DEF ConnectionsReported
  <2>2. \A j \in OfKind(events, "Started") : events[j].key # k
    BY <1>5 DEF OfKind
  <2>3. QED
    BY <1>4, <1>6, <2>1, <2>2, ReportedSinceExtends
<1>8. CASE k = key /\ a \in fresh
  <2>1. PICK i \in DOMAIN events : events[i].about = a
    BY <1>5, <1>8
  <2>2. \A j \in OfKind(events, "Started") : FALSE
    BY <1>5 DEF OfKind
  <2>3. /\ Len(Reported) + i \in DOMAIN Reported'
        /\ Reported'[Len(Reported) + i] = events[i]
        /\ \A j \in OfKind(Reported', "Started") : j =< Len(Reported)
        /\ Len(Reported) + i > Len(Reported)
    BY <1>4, <1>6, <2>2, KindsOfConcat
  <2>4. \A j \in OfKind(Reported', "Started") : ~(j > Len(Reported) + i)
    BY <1>4, <1>6, <2>3 DEF OfKind
  <2>5. QED
    BY <1>5, <1>8, <2>1, <2>3, <2>4 DEF ReportedSince
<1>9. QED
  BY <1>1, <1>7, <1>8 DEF Put, Seen

(* The start a read reports is that of a run no address is remembered for. *)
LEMMA ReadKeepsConnections ==
    ASSUME TypeOK, RefreshInvariant, ConnectionsReported, ReadMemory
    PROVE  ConnectionsReported'
<1> DEFINE s == SnapshotOf(snap)
           starts == StartEvents(s)
           growth == GrowthEvents(s)
           added == starts \o growth
<1>1. /\ pc = "memory" /\ table[snap.pid].alive /\ pc' = "connections"
      /\ timeline' = timeline /\ connections_seen' = connections_seen
      /\ pending_events' = (pending_events \o starts) \o growth
  BY DEF ReadMemory
<1>2. /\ starts \in Seq(Event) /\ growth \in Seq(Event)
      /\ OnceEach(starts, "Started", {KeyOf(s)} \ Keys(current))
      /\ \A i \in DOMAIN growth : growth[i].kind # "Started"
  BY <1>1, ReadType, ReadReports
<1>3. KeyOf(s) \notin Keys(new_current)
  <2>1. KeyOf(s)[1] = snap.pid /\ snap.pid \notin DOMAIN new_current
    BY <1>1 DEF SnapshotOf, KeyOf, RefreshInvariant, RetentionInvariant
  <2>2. QED
    BY <2>1, KeysOfMap DEF TypeOK
<1>4. DOMAIN connections_seen \subseteq Keys(current) \cup Keys(new_current)
  BY <1>1 DEF RefreshInvariant, RetentionInvariant
<1>5. OnceEach(added, "Started", {KeyOf(s)} \ Keys(current))
  <2> HIDE DEF starts, growth
  <2> QED
    BY <1>2, NothingOfKind
<1>6. \A k \in DOMAIN connections_seen :
        \A j \in OfKind(added, "Started") : added[j].key # k
  <2> HIDE DEF added, s
  <2> QED
    BY <1>3, <1>4, <1>5 DEF OnceEach
<1>7. added \in Seq(Event) /\ Reported' = Reported \o added
  <2>1. pending_events \in Seq(Event) /\ timeline \in Seq(Event)
    BY DEF TypeOK
  <2> HIDE DEF starts, growth
  <2>2. /\ Reported = timeline \o pending_events
        /\ Reported' = timeline \o ((pending_events \o starts) \o growth)
    BY <1>1 DEF Reported
  <2>3. /\ (pending_events \o starts) \o growth = pending_events \o (starts \o growth)
        /\ timeline \o (pending_events \o (starts \o growth))
             = (timeline \o pending_events) \o (starts \o growth)
        /\ starts \o growth \in Seq(Event)
    <3>1. starts \o growth \in Seq(Event)
      BY <1>2, ConcatAssociates
    <3>2. pending_events \o (starts \o growth) = (pending_events \o starts) \o growth
      BY <1>2, <2>1, ConcatAssociates, ZenonT(30)
    <3>3. timeline \o (pending_events \o (starts \o growth))
            = (timeline \o pending_events) \o (starts \o growth)
      BY <2>1, <3>1, ConcatAssociates
    <3>4. QED
      BY <3>1, <3>2, <3>3, Zenon
  <2>4. QED
    BY <2>2, <2>3, Zenon
<1> HIDE DEF added
<1>8. QED
  BY <1>1, <1>6, <1>7, ReportsCarryOver

(* The exits are added last, and a timeline with room has lost nothing. *)
LEMMA FinishKeepsConnections ==
    ASSUME TypeOK, RefreshInvariant, ConnectionsReported, FinishRefresh
    PROVE  ConnectionsReported'
<1> DEFINE exited == Keys(current) \ Keys(new_current)
<1>1. PICK order \in SetToSeqs(exited) :
        pending_events' = pending_events \o
          [i \in DOMAIN order |-> MkEvent(order[i], "Exited", NoPid)]
  BY DEF FinishRefresh
<1> DEFINE exits == [i \in DOMAIN order |-> MkEvent(order[i], "Exited", NoPid)]
<1>2. exited \in SUBSET Key /\ IsFiniteSet(exited)
  BY KeysProperties DEF TypeOK
<1>3. exits \in Seq(Event) /\ \A i \in DOMAIN exits : exits[i].kind = "Exited"
  BY <1>2, ExitsInOrder
<1>4. /\ pc = "process" /\ pc' = "idle" /\ connections_seen' = connections_seen
      /\ timeline' = KeepLast(timeline \o pending_events', TimelineCapacity)
  BY DEF FinishRefresh
<1>5. /\ pending_events \in Seq(Event) /\ timeline \in Seq(Event)
      /\ TimelineCapacity \in Nat
  BY IntelligenceAssumption DEF TypeOK
<1>6. pending_events' = pending_events \o exits
  BY <1>1
<1> HIDE DEF exits
<1>7. timeline \o pending_events' \in Seq(Event)
  BY <1>3, <1>5, <1>6
<1>8. ASSUME Len(timeline') < TimelineCapacity
      PROVE  Len(timeline) < TimelineCapacity /\ Reported' = Reported \o exits
  <2>1. timeline' = timeline \o pending_events'
    BY <1>4, <1>5, <1>7, <1>8, KeepLastIsSuffix
  <2>2. Reported' = timeline' /\ Reported = timeline \o pending_events
    BY <1>4 DEF Reported
  <2>3. Len(timeline) =< Len(timeline')
    BY <1>3, <1>5, <1>6, <2>1
  <2>4. Len(timeline) < TimelineCapacity
    BY <1>5, <1>7, <1>8, <2>1, <2>3
  <2>5. Reported' = Reported \o exits
    BY <1>3, <1>5, <1>6, <2>1, <2>2, ConcatAssociates, Zenon
  <2>6. QED
    BY <2>4, <2>5
<1>9. OfKind(exits, "Started") = {}
  BY <1>3 DEF OfKind
<1>10. QED
  BY <1>3, <1>4, <1>8, <1>9, ReportsCarryOver

LEMMA ConnectionsStep ==
    TypeOK /\ RefreshInvariant /\ ConnectionsReported /\ [Next]_vars => ConnectionsReported'
<1> SUFFICES ASSUME TypeOK, RefreshInvariant, ConnectionsReported, [Next]_vars
             PROVE  ConnectionsReported'
  OBVIOUS
<1>1. ASSUME UNCHANGED <<pc, timeline, pending_events, connections_seen>>
      PROVE  ConnectionsReported'
  BY <1>1 DEF ConnectionsReported, ReportedSince, Reported, OfKind
<1>2. CASE Environment
  BY <1>1, <1>2 DEF Environment
<1>3. ASSUME NEW d \in ClockSteps, BeginRefresh(d) \/ RefreshFails(d)
      PROVE  ConnectionsReported'
  <2>1. /\ pc = "idle" /\ timeline' = timeline /\ pending_events' = <<>>
        /\ DrainStaleKeys
    BY <1>3 DEF BeginRefresh, RefreshFails
  <2>2. timeline \in Seq(Event) /\ <<>> \in Seq(Event)
    BY DEF TypeOK
  <2>3. Reported' = Reported \o <<>>
    BY <2>1, <2>2 DEF Reported
  <2>4. OfKind(<<>>, "Started") = {}
    BY DEF OfKind
  <2>5. QED
    BY <2>1, <2>2, <2>3, <2>4, DrainType, ReportsCarryOver
<1>4. CASE ReadMemory
  BY <1>4, ReadKeepsConnections
<1>5. ASSUME (\E p \in Pid : ReadStat(p) \/ SkipProcess(p)) \/ DropProcess
      PROVE  ConnectionsReported'
  BY <1>5, QuietReads DEF ConnectionsReported, ReportedSince, Reported, OfKind
<1>6. CASE ReadConnections
  BY <1>6, ReadReportsConnections
<1>7. CASE ConnectionsFail
  <2>1. /\ pc # "idle" /\ pc' # "idle"
        /\ UNCHANGED <<timeline, pending_events, connections_seen>>
    BY <1>7 DEF ConnectionsFail, Remember
  <2>2. QED
    BY <2>1 DEF ConnectionsReported, ReportedSince, Reported, OfKind
<1>8. CASE FinishRefresh
  BY <1>8, FinishKeepsConnections
<1>9. CASE UNCHANGED vars
  BY <1>1, <1>9 DEF vars
<1>10. QED
  BY <1>2, <1>3, <1>4, <1>5, <1>6, <1>7, <1>8, <1>9 DEF Next, Refresh

(* No connection is swallowed, for every set of addresses: what is         *)
(* remembered was reported since the run appeared, though connections(pid) *)
(* may answer for another run, and a run may start again.                  *)
THEOREM NoConnectionSwallowed == Spec => []ConnectionsReported
<1>1. Init => ConnectionsReported
  BY MapDomains DEF Init, ConnectionsReported
<1>2. QED
  BY <1>1, ConnectionsStep, TypeCorrect, RefreshInvariantHolds, PTL DEF Spec

-----------------------------------------------------------------------------
(* crash_analysis and the growth of memory. *)

(* A nonempty set of positions has a first and a last one. *)
LEMMA FirstAndLast ==
    ASSUME NEW n \in Nat, NEW T \in SUBSET (1 .. n), T # {}
    PROVE  /\ Min(T) \in T /\ \A m \in T : Min(T) =< m
           /\ Max(T) \in T /\ \A m \in T : Max(T) >= m
<1> DEFINE R == OpToRel(<, Nat)
<1>1. IsWellFoundedOn(R, Nat)
  BY NatLessThanWellFounded, Zenon
<1>2. \A x, y \in Nat : y < x => <<y, x>> \in R
  <2>1. \A x, y \in Nat : y < x => <<y, x>> \in {ss \in Nat \X Nat : ss[1] < ss[2]}
    OBVIOUS
  <2>2. QED
    BY <2>1, Zenon DEF OpToRel
<1> HIDE DEF R
<1>3. ASSUME NEW S \in SUBSET Nat, S # {} PROVE \E x \in S : \A y \in S : x =< y
  <2>1. PICK x \in S : \A y \in S : ~ (<<y, x>> \in R)
    BY <1>1, <1>3, WFMin
  <2>2. \A y \in S : ~(y < x)
    BY <1>2, <2>1
  <2>3. QED
    BY <2>2
<1>4. \E x \in T : \A y \in T : x =< y
  BY <1>3
<1>5. \E x \in T : \A y \in T : x >= y
  <2> DEFINE S == {n - x : x \in T}
  <2>1. S \in SUBSET Nat /\ S # {}
    <3>1. \A x \in T : n - x \in Nat
      OBVIOUS
    <3>2. QED
      BY <3>1
  <2>2. PICK z \in S : \A y \in S : z =< y
    BY <1>3, <2>1
  <2>3. PICK x \in T : z = n - x
    BY <2>2
  <2>4. \A y \in T : n - x =< n - y
    BY <2>2, <2>3
  <2>5. QED
    BY <2>4
<1>6. QED
  BY <1>4, <1>5 DEF Min, Max

(* The second history watches and changes nothing. *)
LEMMA FullIsSpec == FullSpec => Spec
<1>1. FullInit => Init
  BY DEF FullInit
<1>2. [FullNext]_growthVars => [Next]_vars
  BY DEF FullNext, growthVars
<1>3. QED
  BY <1>1, <1>2, PTL DEF FullSpec, Spec

(* The order of growth and exits survives the capacity. *)
LEMMA SeparatedSuffix ==
    ASSUME NEW s \in Seq(Event), NEW n \in Nat, NEW listed,
           Separated(s), GrowthEnds(s, listed)
    PROVE  Separated(KeepLast(s, n)) /\ GrowthEnds(KeepLast(s, n), listed)
<1> DEFINE t == KeepLast(s, n)
<1>1. PICK cut \in Nat : /\ Len(s) = Len(t) + cut
                         /\ \A i \in DOMAIN t : t[i] = s[cut + i]
  BY KeepLastIsSuffix
<1>2. t \in Seq(Event)
  BY KeepLastIsSuffix
<1> HIDE DEF t
<1>3. ASSUME NEW kind, NEW i \in OfKind(t, kind)
      PROVE  cut + i \in OfKind(s, kind) /\ t[i] = s[cut + i] /\ i \in Int /\ i > 0
  BY <1>1, <1>2 DEF OfKind
<1>4. ASSUME NEW kind, NEW m \in OfKind(s, kind), m > cut
      PROVE  m \in Int /\ m - cut \in OfKind(t, kind) /\ t[m - cut] = s[m]
  <2>1. m \in DOMAIN s /\ s[m].kind = kind
    BY DEF OfKind
  <2>2. m - cut \in DOMAIN t /\ m = cut + (m - cut)
    BY <1>1, <1>2, <1>4, <2>1
  <2>3. t[m - cut] = s[m]
    BY <1>1, <2>2
  <2>4. QED
    BY <2>1, <2>2, <2>3 DEF OfKind
<1>5. ASSUME NEW i \in OfKind(t, "Exited"), NEW j \in OfKind(t, Growth),
             t[i].key[1] = t[j].key[1], t[i].key # t[j].key, t[j].at =< t[i].at
      PROVE  \E m \in OfKind(t, "Exited") : j < m /\ m < i /\ t[m].key = t[j].key
  <2>1. PICK m \in OfKind(s, "Exited") :
          cut + j < m /\ m < cut + i /\ s[m].key = s[cut + j].key
    BY <1>3, <1>5 DEF Separated
  <2>2. j \in Int /\ j > 0 /\ i \in Int /\ m \in Int
    BY <1>3 DEF OfKind
  <2>3. m > cut
    BY <2>1, <2>2
  <2>4. m - cut \in OfKind(t, "Exited") /\ t[m - cut] = s[m]
    BY <1>4, <2>3
  <2>5. j < m - cut /\ m - cut < i /\ t[m - cut].key = t[j].key
    BY <1>3, <2>1, <2>2, <2>4
  <2>6. QED
    BY <2>4, <2>5
<1>6. ASSUME NEW j \in OfKind(t, Growth), t[j].key \notin listed
      PROVE  \E m \in OfKind(t, "Exited") : j < m /\ t[m].key = t[j].key
  <2>1. PICK m \in OfKind(s, "Exited") : cut + j < m /\ s[m].key = s[cut + j].key
    BY <1>3, <1>6 DEF GrowthEnds
  <2>2. j \in Int /\ j > 0 /\ m \in Int
    BY <1>3 DEF OfKind
  <2>3. m > cut
    BY <2>1, <2>2
  <2>4. m - cut \in OfKind(t, "Exited") /\ t[m - cut] = s[m]
    BY <1>4, <2>3
  <2>5. j < m - cut /\ t[m - cut].key = t[j].key
    BY <1>3, <2>1, <2>2, <2>4
  <2>6. QED
    BY <2>4, <2>5
<1>7. QED
  BY <1>5, <1>6 DEF Separated, GrowthEnds, t

(* What a refresh adds keeps the order of growth and exits: it reports the  *)
(* growth of runs that were listed and still are, after the exits of the    *)
(* earlier runs of their pids, and the exits of the runs that no longer are. *)
LEMMA SeparatedExtends ==
    ASSUME NEW s \in Seq(Event), NEW t \in Seq(Event), NEW old, NEW new,
           Separated(s), GrowthEnds(s, old),
           \A j, k \in old : j[1] = k[1] => j = k,
           {t[i].key : i \in OfKind(t, "Exited")} = old \ new,
           \A j \in OfKind(t, Growth) : t[j].key \in old \cap new,
           \A i \in OfKind(s, "Exited") : \A j \in OfKind(t, Growth) :
             s[i].key[1] = t[j].key[1] /\ s[i].key # t[j].key => s[i].at < t[j].at
    PROVE  Separated(s \o t) /\ GrowthEnds(s \o t, new)
<1> DEFINE u == s \o t
<1>1. ASSUME NEW kind
      PROVE  /\ \A i \in OfKind(s, kind) : i \in OfKind(u, kind) /\ u[i] = s[i] /\ i \in Int /\ i =< Len(s)
             /\ \A j \in OfKind(t, kind) : /\ Len(s) + j \in OfKind(u, kind) /\ u[Len(s) + j] = t[j]
                                           /\ j \in Int /\ j > 0
             /\ \A i \in OfKind(u, kind) :
                  \/ i =< Len(s) /\ i \in OfKind(s, kind) /\ u[i] = s[i]
                  \/ /\ i > Len(s) /\ i - Len(s) \in OfKind(t, kind) /\ u[i] = t[i - Len(s)]
                     /\ i \in Int
  <2>1. /\ \A i \in OfKind(s, kind) : i \in OfKind(u, kind) /\ u[i] = s[i] /\ i \in Int /\ i =< Len(s)
        /\ \A j \in OfKind(t, kind) : /\ Len(s) + j \in OfKind(u, kind) /\ u[Len(s) + j] = t[j]
                                      /\ j \in Int /\ j > 0
    BY KindsOfConcat DEF OfKind
  <2>2. ASSUME NEW i \in OfKind(u, kind)
        PROVE  \/ i =< Len(s) /\ i \in OfKind(s, kind) /\ u[i] = s[i]
               \/ /\ i > Len(s) /\ i - Len(s) \in OfKind(t, kind) /\ u[i] = t[i - Len(s)]
                  /\ i \in Int
    <3>1. i \in Int /\ i = Len(s) + (i - Len(s))
      BY KindsOfConcat DEF OfKind
    <3>2. CASE i =< Len(s) /\ i \in OfKind(s, kind)
      BY <2>1, <3>2
    <3>3. CASE i > Len(s) /\ i - Len(s) \in OfKind(t, kind)
      <4>1. u[Len(s) + (i - Len(s))] = t[i - Len(s)]
        BY <2>1, <3>3
      <4>2. QED
        BY <3>1, <3>3, <4>1
    <3>4. QED
      BY <3>2, <3>3, KindsOfConcat
  <2>3. QED
    BY <2>1, <2>2
<1>2. Len(s) \in Int
  OBVIOUS
<1> HIDE DEF u
<1>3. ASSUME NEW i \in OfKind(u, "Exited"), NEW j \in OfKind(u, Growth),
             u[i].key[1] = u[j].key[1], u[i].key # u[j].key, u[j].at =< u[i].at
      PROVE  \E m \in OfKind(u, "Exited") : j < m /\ m < i /\ u[m].key = u[j].key
  <2>1. CASE i \in OfKind(s, "Exited") /\ j \in OfKind(s, Growth)
    <3>1. u[i] = s[i] /\ u[j] = s[j]
      BY <1>1, <2>1
    <3>2. PICK m \in OfKind(s, "Exited") : j < m /\ m < i /\ s[m].key = s[j].key
      BY <1>3, <2>1, <3>1 DEF Separated
    <3>3. QED
      BY <1>1, <3>1, <3>2
  <2>2. CASE i \in OfKind(s, "Exited") /\ j - Len(s) \in OfKind(t, Growth) /\ u[j] = t[j - Len(s)]
    <3>1. u[i] = s[i]
      BY <1>1, <2>2
    <3>2. s[i].at < t[j - Len(s)].at
      BY <1>3, <2>2, <3>1
    <3>3. s[i].at \in Int /\ t[j - Len(s)].at \in Int
      <4>1. s[i] \in Event /\ t[j - Len(s)] \in Event
        BY <2>2 DEF OfKind
      <4>2. QED
        BY <4>1, IntelligenceAssumption DEF Event, Time
    <3>4. QED
      BY <1>3, <2>2, <3>1, <3>2, <3>3
  <2>3. ASSUME i > Len(s), i \in Int, i - Len(s) \in OfKind(t, "Exited"), u[i] = t[i - Len(s)],
               u[j].key \in old
        PROVE  FALSE
    BY <1>3, <2>3
  <2>4. CASE /\ i > Len(s) /\ i \in Int /\ i - Len(s) \in OfKind(t, "Exited") /\ u[i] = t[i - Len(s)]
             /\ j \in OfKind(s, Growth)
    <3>1. u[j] = s[j] /\ s[j].key \notin old
      BY <1>1, <2>3, <2>4
    <3>2. PICK m \in OfKind(s, "Exited") : j < m /\ s[m].key = s[j].key
      BY <2>4, <3>1 DEF GrowthEnds
    <3>3. m \in OfKind(u, "Exited") /\ u[m] = s[m] /\ m =< Len(s) /\ m \in Int
      BY <1>1
    <3>4. m < i
      BY <1>2, <2>4, <3>3
    <3>5. QED
      BY <3>1, <3>2, <3>3, <3>4
  <2>5. CASE /\ i > Len(s) /\ i \in Int /\ i - Len(s) \in OfKind(t, "Exited") /\ u[i] = t[i - Len(s)]
             /\ j - Len(s) \in OfKind(t, Growth) /\ u[j] = t[j - Len(s)]
    BY <2>3, <2>5
  <2>6. QED
    BY <1>1, <2>1, <2>2, <2>4, <2>5
<1>4. ASSUME NEW j \in OfKind(u, Growth), u[j].key \notin new
      PROVE  \E m \in OfKind(u, "Exited") : j < m /\ u[m].key = u[j].key
  <2>1. j \in OfKind(s, Growth) /\ u[j] = s[j] /\ j \in Int /\ j =< Len(s)
    BY <1>1, <1>4
  <2>2. CASE s[j].key \in old
    <3>1. PICK m \in OfKind(t, "Exited") : t[m].key = s[j].key
      <4>1. s[j].key \in old \ new
        BY <1>4, <2>1, <2>2
      <4>2. s[j].key \in {t[m].key : m \in OfKind(t, "Exited")}
        BY <4>1
      <4>3. QED
        BY <4>2
    <3>2. Len(s) + m \in OfKind(u, "Exited") /\ u[Len(s) + m] = t[m] /\ j < Len(s) + m
      BY <1>1, <1>2, <2>1
    <3>3. QED
      BY <2>1, <3>1, <3>2
  <2>3. CASE s[j].key \notin old
    <3>1. PICK m \in OfKind(s, "Exited") : j < m /\ s[m].key = s[j].key
      BY <2>1, <2>3 DEF GrowthEnds
    <3>2. QED
      BY <1>1, <2>1, <3>1
  <2>4. QED
    BY <2>2, <2>3
<1>5. QED
  BY <1>3, <1>4 DEF Separated, GrowthEnds, u

(* Every sample is an old one or was just taken. *)
SamplesGrow ==
    \A k \in DOMAIN history' : \A n \in DOMAIN history'[k] :
      \/ history'[k][n].at = now
      \/ /\ k \in DOMAIN history
         /\ \E m \in DOMAIN history[k] : history'[k][n] = history[k][m]

(* Steps that leave the timeline and the clock alone, and add samples and   *)
(* events of now, keep the invariant if the growth they report follows the  *)
(* exits of the earlier runs of its pid.                                   *)
LEMMA CrashPending ==
    ASSUME TypeOK, CrashInvariant, pc # "idle",
           UNCHANGED <<now, timeline, current>>, ReadRuns \subseteq ReadRuns', SamplesGrow,
           NEW added \in Seq(Event), pending_events' = pending_events \o added,
           \A i \in DOMAIN added : added[i].at = now,
           \A j \in OfKind(added, Growth) :
             /\ added[j].key \in Keys(current) \cap ReadRuns'
             /\ OthersExitedBy(added[j].key, now - 1)
    PROVE  CrashInvariant'
<1>1. pending_events \in Seq(Event)
  BY DEF TypeOK
<1>2. Keys(current)' = Keys(current)
  BY DEF Keys
<1>3. /\ \A i \in DOMAIN pending_events : pending_events[i].at = now
      /\ \A j \in OfKind(pending_events, Growth) :
           /\ pending_events[j].key \in Keys(current) \cap ReadRuns
           /\ OthersExitedBy(pending_events[j].key, now - 1)
  BY DEF CrashInvariant
<1>4. ASSUME NEW i \in DOMAIN pending_events' PROVE pending_events'[i].at = now
  BY <1>1, <1>3
<1>5. ASSUME NEW j \in OfKind(pending_events', Growth)
      PROVE  /\ pending_events'[j].key \in Keys(current) \cap ReadRuns'
             /\ OthersExitedBy(pending_events'[j].key, now - 1)
  <2>1. CASE j \in OfKind(pending_events, Growth)
    <3>1. pending_events'[j] = pending_events[j]
      BY <1>1, <2>1, KindsOfConcat DEF OfKind
    <3>2. QED
      BY <1>3, <2>1, <3>1
  <2>2. CASE j - Len(pending_events) \in OfKind(added, Growth)
    <3>1. j = Len(pending_events) + (j - Len(pending_events))
      BY <1>1 DEF OfKind
    <3>2. pending_events'[j] = added[j - Len(pending_events)]
      BY <1>1, <2>2, <3>1, KindsOfConcat DEF OfKind
    <3>3. QED
      BY <2>2, <3>2
  <2>3. QED
    BY <1>1, <2>1, <2>2, KindsOfConcat
<1>6. ASSUME NEW k \in DOMAIN history', NEW n \in DOMAIN history'[k]
      PROVE  /\ k \in Keys(current) => OthersExitedBy(k, history'[k][n].at)
             /\ k \notin Keys(current) => history'[k][n].at = now
  <2>1. CASE history'[k][n].at = now
    BY <2>1 DEF CrashInvariant, OthersExitedBy, OfKind
  <2>2. CASE /\ k \in DOMAIN history
             /\ \E m \in DOMAIN history[k] : history'[k][n] = history[k][m]
    BY <2>2 DEF CrashInvariant
  <2>3. QED
    BY <2>1, <2>2 DEF SamplesGrow
<1>7. QED
  BY <1>2, <1>4, <1>5, <1>6 DEF CrashInvariant, OthersExitedBy

(* The growth a read reports is of a listed run, and began after the exits *)
(* of the earlier runs of its pid.                                         *)
LEMMA CrashRead ==
    ASSUME TypeOK, RefreshInvariant, CrashInvariant, GrowthWindow > 0, ReadMemory
    PROVE  CrashInvariant'
<1> DEFINE s == SnapshotOf(snap)
           starts == StartEvents(s)
           growth == GrowthEvents(s)
           added == starts \o growth
           key == KeyOf(s)
<1>1. /\ pc = "memory" /\ table[snap.pid].alive /\ pc' = "connections"
      /\ UNCHANGED <<now, timeline, history, current, new_current>> /\ snap' = s
      /\ pending_events' = (pending_events \o starts) \o growth
  BY DEF ReadMemory
<1>2. /\ starts \in Seq(Event) /\ growth \in Seq(Event) /\ pending_events \in Seq(Event)
      /\ key \in Key /\ key[1] = snap.pid
  BY <1>1, ReadType DEF TypeOK, KeyOf, SnapshotOf
<1>3. /\ \A i \in DOMAIN starts : starts[i].at = now /\ starts[i].kind # Growth
      /\ \A i \in DOMAIN growth : growth[i].at = now /\ growth[i].key = key
  <2>1. \A i \in DOMAIN growth : growth[i].at = now /\ growth[i].key = key
    BY DEF GrowthEvents, MkEvent
  <2>2. NewChildEvents(s) = <<>> \/ \E k : NewChildEvents(s) = <<MkEvent(k, "NewChild", s.pid)>>
    BY DEF NewChildEvents
  <2>3. PICK child : /\ child = NewChildEvents(s)
                     /\ \/ child = <<>>
                        \/ \E k : child = <<MkEvent(k, "NewChild", s.pid)>>
    BY <2>2
  <2>4. starts = <<>> \/ starts = <<MkEvent(KeyOf(s), "Started", NoPid)>> \o child
    BY <2>3 DEF StartEvents
  <2> HIDE DEF starts, s
  <2>5. \A i \in DOMAIN starts : starts[i].at = now /\ starts[i].kind # Growth
    BY <2>3, <2>4, SMTT(30) DEF MkEvent, Growth
  <2>6. QED
    BY <2>1, <2>5
<1>4. ReadRuns' = ReadRuns \cup {key}
  BY <1>1 DEF ReadRuns, Keys, KeyOf
<1>5. ASSUME growth # <<>>
      PROVE  key \in Keys(current) /\ OthersExitedBy(key, now - 1)
  <2>1. key \in DOMAIN history /\ GrewOver(history[key], s)
    BY <1>5 DEF GrowthEvents
  <2>2. key \in Keys(current)
    <3>1. /\ DOMAIN history = Keys(current) \cup Keys(new_current)
          /\ snap.pid \notin DOMAIN new_current
      BY <1>1 DEF RefreshInvariant, RetentionInvariant
    <3>2. key \notin Keys(new_current)
      BY <1>2, <3>1, KeysOfMap DEF TypeOK
    <3>3. QED
      BY <2>1, <3>1, <3>2
  <2>3. PICK n \in DOMAIN history[key] : now - history[key][n].at >= GrowthWindow
    <3>1. history[key] \in Seq(Sample)
      BY <2>1 DEF TypeOK
    <3>2. {i \in 1 .. Len(history[key]) : now - history[key][i].at >= GrowthWindow} # {}
      BY <2>1 DEF GrewOver, SelectLastInSeq
    <3>3. QED
      BY <3>1, <3>2
  <2>4. OthersExitedBy(key, history[key][n].at)
    BY <2>1, <2>2, <2>3 DEF CrashInvariant
  <2>5. history[key][n].at \in Int /\ now \in Int
    <3>1. history[key][n] \in Sample
      BY <2>1, <2>3 DEF TypeOK
    <3>2. QED
      BY <3>1, IntelligenceAssumption DEF TypeOK, Sample, Time
  <2>6. \A i \in OfKind(timeline, "Exited") : timeline[i].at \in Int
    <3>1. \A i \in OfKind(timeline, "Exited") : timeline[i] \in Event
      BY DEF TypeOK, OfKind
    <3>2. QED
      BY <3>1, IntelligenceAssumption DEF Event, Time
  <2>7. QED
    BY <2>2, <2>3, <2>4, <2>5, <2>6, IntelligenceAssumption DEF OthersExitedBy
<1> HIDE DEF s, starts, growth, key
<1>6. added \in Seq(Event) /\ pending_events' = pending_events \o added
  BY <1>1, <1>2, SMTT(30)
<1>7. \A i \in DOMAIN added : added[i].at = now
  BY <1>2, <1>3
<1>8. ASSUME NEW j \in OfKind(added, Growth)
      PROVE  added[j].key = key /\ growth # <<>>
  <2>1. j \notin OfKind(starts, Growth)
    BY <1>3 DEF OfKind
  <2>2. j - Len(starts) \in OfKind(growth, Growth)
    BY <1>2, <1>8, <2>1, KindsOfConcat
  <2>3. /\ j = Len(starts) + (j - Len(starts)) /\ j - Len(starts) \in DOMAIN growth
        /\ growth # <<>>
    BY <1>2, <1>8, <2>2 DEF OfKind
  <2>4. added[j] = growth[j - Len(starts)]
    BY <1>2, <2>3, KindsOfConcat
  <2>5. QED
    BY <1>3, <2>3, <2>4
<1> HIDE DEF added
<1>9. SamplesGrow
  BY <1>1 DEF SamplesGrow
<1>10. QED
  BY <1>1, <1>4, <1>5, <1>6, <1>7, <1>8, <1>9, CrashPending

(* The sample of the loop body is one of now. *)
LEMMA RememberAddsSample ==
    ASSUME TypeOK, pc = "connections", Remember
    PROVE  SamplesGrow
<1> DEFINE key == KeyOf(snap)
           old == IF key \in DOMAIN history THEN history[key] ELSE <<>>
           sample == [at |-> now, snap |-> snap]
           new == Append(old, sample)
<1>1. sample \in Sample /\ sample.at = now
  BY DEF TypeOK, Sample
<1>2. old \in Seq(Sample)
  BY DEF TypeOK
<1>3. history' = Put(history, key, KeepLast(new, HistoryCapacity))
  BY DEF Remember
<1>4. \A i \in DOMAIN old : key \in DOMAIN history /\ old[i] = history[key][i] /\ i \in DOMAIN history[key]
  OBVIOUS
<1> HIDE DEF key, sample, old
<1>5. new \in Seq(Sample) /\ \A i \in DOMAIN new : new[i].at = now \/ \E j \in DOMAIN old : new[i] = old[j]
  BY <1>1, <1>2
<1> HIDE DEF new
<1> DEFINE kept == KeepLast(new, HistoryCapacity)
<1>6. \A i \in DOMAIN kept : \E j \in DOMAIN new : kept[i] = new[j]
  BY <1>5, KeepLastProperties, IntelligenceAssumption
<1>7. \A i \in DOMAIN kept : kept[i].at = now \/ \E j \in DOMAIN old : kept[i] = old[j]
  BY <1>5, <1>6
<1> HIDE DEF kept
<1>8. /\ DOMAIN history' = DOMAIN history \cup {key} /\ history'[key] = kept
      /\ \A k \in DOMAIN history' \ {key} : k \in DOMAIN history /\ history'[k] = history[k]
  BY <1>3 DEF Put, kept
<1>9. ASSUME NEW k \in DOMAIN history', NEW n \in DOMAIN history'[k]
      PROVE  \/ history'[k][n].at = now
             \/ /\ k \in DOMAIN history
                /\ \E m \in DOMAIN history[k] : history'[k][n] = history[k][m]
  <2>1. CASE k = key
    BY <1>4, <1>7, <1>8, <2>1
  <2>2. CASE k # key
    BY <1>8, <2>2
  <2>3. QED
    BY <2>1, <2>2
<1>10. QED
  BY <1>9 DEF SamplesGrow

(* A call that begins or fails finds the samples of the listed runs only. *)
LEMMA CrashBegin ==
    ASSUME TypeOK, RefreshInvariant, CrashInvariant, ClockSteps \subseteq Nat,
           NEW d \in ClockSteps, BeginRefresh(d) \/ RefreshFails(d)
    PROVE  CrashInvariant'
<1>1. /\ pc = "idle" /\ now' = now + d /\ DrainStaleKeys /\ pending_events' = <<>>
      /\ UNCHANGED <<timeline, current>>
  BY DEF BeginRefresh, RefreshFails
<1>2. DOMAIN history' = Keys(current) /\ \A k \in DOMAIN history' : history'[k] = history[k]
  BY <1>1, DrainKeepsCurrent, DrainType DEF RefreshInvariant
<1>3. Keys(current)' = Keys(current) /\ Keys(current) \subseteq DOMAIN history
  BY <1>1 DEF Keys, RefreshInvariant, RetentionInvariant, HistoryCoversCurrentAndGrace
<1>4. ASSUME NEW i \in DOMAIN timeline PROVE timeline[i].at =< now'
  <2>1. timeline[i].at =< now
    BY DEF CrashInvariant
  <2>2. timeline[i] \in Event
    BY DEF TypeOK
  <2>3. QED
    BY <1>1, <2>1, <2>2, IntelligenceAssumption DEF TypeOK, Event, Time
<1>5. DOMAIN pending_events' = {} /\ OfKind(<<>>, Growth) = {}
  BY <1>1 DEF OfKind
<1>6. QED
  BY <1>1, <1>2, <1>3, <1>4, <1>5 DEF CrashInvariant, OthersExitedBy

(* The refresh ends: what it reported is in the timeline. *)
LEMMA CrashFinish ==
    ASSUME TypeOK, RefreshInvariant, CrashInvariant, FinishRefresh
    PROVE  CrashInvariant'
<1> DEFINE old == Keys(current)
           new == Keys(new_current)
           events == timeline \o pending_events'
<1>1. /\ pc = "process" /\ pc' = "idle" /\ UNCHANGED <<now, history>>
      /\ timeline' = KeepLast(events, TimelineCapacity)
      /\ Keys(current)' = new /\ ReadRuns = new
  BY DEF FinishRefresh, Keys, ReadRuns
<1>2. /\ timeline \in Seq(Event) /\ pending_events \in Seq(Event)
      /\ pending_events' \in Seq(Event) /\ TimelineCapacity \in Nat /\ now \in Int
      /\ OnceEach(pending_events', "Exited", old \ new)
  BY FinishReports, IntelligenceAssumption DEF TypeOK, Time
<1>3. PICK order \in SetToSeqs(old \ new) :
        pending_events' = pending_events \o
          [i \in DOMAIN order |-> MkEvent(order[i], "Exited", NoPid)]
  BY DEF FinishRefresh
<1> DEFINE exits == [i \in DOMAIN order |-> MkEvent(order[i], "Exited", NoPid)]
<1>4. old \ new \in SUBSET Key /\ IsFiniteSet(old \ new)
  BY KeysProperties DEF TypeOK
<1>5. exits \in Seq(Event) /\ \A i \in DOMAIN exits : exits[i].kind = "Exited"
  BY <1>4, ExitsInOrder
<1>6. \A i \in DOMAIN exits : exits[i].at = now
  BY DEF MkEvent
<1>7. pending_events' = pending_events \o exits
  BY <1>3
<1> HIDE DEF exits
<1>8. \A i \in DOMAIN pending_events' : pending_events'[i].at = now
  <2>1. \A i \in DOMAIN pending_events : pending_events[i].at = now
    BY <1>1 DEF CrashInvariant
  <2>2. QED
    BY <1>2, <1>5, <1>6, <1>7, <2>1
<1>9. ASSUME NEW j \in OfKind(pending_events', Growth)
      PROVE  /\ pending_events'[j].key \in old \cap new
             /\ OthersExitedBy(pending_events'[j].key, now - 1)
  <2>1. j - Len(pending_events) \notin OfKind(exits, Growth)
    BY <1>5 DEF OfKind, Growth
  <2>2. j \in OfKind(pending_events, Growth)
    BY <1>2, <1>5, <1>7, <2>1, KindsOfConcat
  <2>3. pending_events'[j] = pending_events[j]
    BY <1>2, <1>5, <1>7, <2>2, KindsOfConcat DEF OfKind
  <2>4. QED
    BY <1>1, <2>2, <2>3 DEF CrashInvariant
<1>10. /\ Separated(timeline) /\ GrowthEnds(timeline, old)
       /\ \A i \in DOMAIN timeline : timeline[i].at =< now
  BY DEF CrashInvariant
<1>11. Separated(events) /\ GrowthEnds(events, new)
  <2>1. \A j, k \in old : j[1] = k[1] => j = k
    BY KeysProperties DEF TypeOK
  <2>2. {pending_events'[i].key : i \in OfKind(pending_events', "Exited")} = old \ new
    BY <1>2 DEF OnceEach
  <2>3. ASSUME NEW i \in OfKind(timeline, "Exited"), NEW j \in OfKind(pending_events', Growth),
               timeline[i].key[1] = pending_events'[j].key[1],
               timeline[i].key # pending_events'[j].key
        PROVE  timeline[i].at < pending_events'[j].at
    <3>1. timeline[i].at =< now - 1
      BY <1>9, <2>3 DEF OthersExitedBy
    <3>2. pending_events'[j].at = now
      BY <1>8 DEF OfKind
    <3>3. timeline[i] \in Event
      BY <1>2 DEF OfKind
    <3>4. timeline[i].at \in Int
      BY <3>3, IntelligenceAssumption DEF Event, Time
    <3>5. QED
      BY <1>2, <3>1, <3>2, <3>4
  <2>4. \A j \in OfKind(pending_events', Growth) : pending_events'[j].key \in old \cap new
    BY <1>9
  <2> HIDE DEF old, new
  <2>5. QED
    BY <1>2, <1>10, <2>1, <2>2, <2>3, <2>4, SeparatedExtends
<1>12. events \in Seq(Event)
  BY <1>2
<1>13. Separated(timeline') /\ GrowthEnds(timeline', new)
  BY <1>1, <1>2, <1>11, <1>12, SeparatedSuffix
<1>14. \A i \in DOMAIN events : events[i].at =< now
  BY <1>2, <1>8, <1>10
<1>15. PICK cut \in Nat : /\ Len(events) = Len(timeline') + cut
                          /\ \A i \in DOMAIN timeline' : timeline'[i] = events[cut + i]
  <2> HIDE DEF events
  <2>1. QED
    BY <1>1, <1>2, <1>12, KeepLastIsSuffix, ZenonT(30)
<1>16. timeline' \in Seq(Event)
  BY <1>1, <1>2, <1>12, KeepLastIsSuffix
<1>17. \A i \in DOMAIN timeline' : /\ cut + i \in DOMAIN events /\ timeline'[i] = events[cut + i]
                                   /\ timeline'[i].at =< now
  <2> HIDE DEF events
  <2> QED
    BY <1>12, <1>14, <1>15, <1>16
<1>18. ASSUME NEW k \in DOMAIN history \cap new, NEW n \in DOMAIN history[k]
       PROVE  OthersExitedBy(k, history[k][n].at)'
  <2>1. CASE k \notin old
    <3>1. history[k][n].at = now
      BY <1>1, <2>1 DEF CrashInvariant
    <3>2. QED
      BY <1>1, <1>17, <3>1 DEF OthersExitedBy, OfKind
  <2>2. CASE k \in old
    <3>1. OthersExitedBy(k, history[k][n].at)
      BY <2>2 DEF CrashInvariant
    <3>2. ASSUME NEW i \in OfKind(timeline', "Exited"),
                 timeline'[i].key[1] = k[1], timeline'[i].key # k
          PROVE  timeline'[i].at =< history[k][n].at
      <4>1. cut + i \in OfKind(events, "Exited") /\ timeline'[i] = events[cut + i]
        BY <1>17 DEF OfKind
      <4>5. i \in Int /\ cut + i \in Int /\ Len(timeline) \in Int
        BY <1>2, <1>16 DEF OfKind
      <4>2. CASE cut + i \in OfKind(timeline, "Exited")
        <5>1. events[cut + i] = timeline[cut + i]
          BY <1>2, <4>2, KindsOfConcat DEF OfKind
        <5>2. QED
          BY <3>1, <3>2, <4>1, <4>2, <5>1 DEF OthersExitedBy
      <4>3. CASE cut + i - Len(timeline) \in OfKind(pending_events', "Exited")
        <5>1. cut + i = Len(timeline) + (cut + i - Len(timeline))
          BY <4>5
        <5>2. events[cut + i] = pending_events'[cut + i - Len(timeline)]
          BY <1>2, <4>3, <5>1, KindsOfConcat DEF OfKind
        <5>3. timeline'[i].key \in old \ new
          BY <1>2, <4>1, <4>3, <5>2 DEF OnceEach
        <5>4. QED
          BY <2>2, <3>2, <5>3, KeysProperties DEF TypeOK
      <4>4. \/ cut + i \in OfKind(timeline, "Exited")
            \/ cut + i - Len(timeline) \in OfKind(pending_events', "Exited")
        <5>1. \A e \in OfKind(timeline \o pending_events', "Exited") :
                \/ e \in OfKind(timeline, "Exited")
                \/ e - Len(timeline) \in OfKind(pending_events', "Exited")
          BY <1>2, KindsOfConcat
        <5> HIDE DEF events
        <5>2. QED
          BY <4>1, <4>5, <5>1 DEF events
      <4>6. QED
        BY <4>2, <4>3, <4>4
    <3>3. QED
      BY <1>1, <3>2 DEF OthersExitedBy
  <2>3. QED
    BY <2>1, <2>2
<1>19. QED
  BY <1>1, <1>13, <1>17, <1>18 DEF CrashInvariant

LEMMA CrashStep ==
    ASSUME ClockSteps \subseteq Nat, GrowthWindow > 0
    PROVE  TypeOK /\ RefreshInvariant /\ CrashInvariant /\ [Next]_vars => CrashInvariant'
<1> SUFFICES ASSUME TypeOK, RefreshInvariant, CrashInvariant, [Next]_vars
             PROVE  CrashInvariant'
  OBVIOUS
<1>1. ASSUME UNCHANGED <<now, pc, timeline, history, current, pending_events, new_current, snap>>
      PROVE  CrashInvariant'
  BY <1>1 DEF CrashInvariant, OthersExitedBy, Separated, GrowthEnds, OfKind, ReadRuns, Keys, KeyOf
<1>2. CASE Environment
  BY <1>1, <1>2 DEF Environment, locals
<1>3. ASSUME NEW d \in ClockSteps, BeginRefresh(d) \/ RefreshFails(d) PROVE CrashInvariant'
  BY <1>3, CrashBegin
<1>4. CASE ReadMemory
  BY <1>4, CrashRead
<1>5. ASSUME (\E p \in Pid : ReadStat(p) \/ SkipProcess(p)) \/ DropProcess
      PROVE  CrashInvariant'
  BY <1>5, QuietReads DEF CrashInvariant, OthersExitedBy, Separated, GrowthEnds, OfKind
<1>6. CASE ReadConnections
  <2> DEFINE key == KeyOf(snap)
             fresh == table[snap.pid].conns \ Seen(key)
  <2>1. /\ pc = "connections" /\ Remember /\ UNCHANGED <<now, timeline, current>>
    BY <1>6 DEF ReadConnections
  <2>2. PICK order \in SetToSeqs(fresh) :
          pending_events' = pending_events \o
            [i \in DOMAIN order |-> MkEvent(key, "NewConnection", order[i])]
    BY <1>6 DEF ReadConnections
  <2> DEFINE added == [i \in DOMAIN order |-> MkEvent(key, "NewConnection", order[i])]
  <2>3. added \in Seq(Event)
    <3>1. key \in Key /\ fresh \subseteq Addr
      BY <2>1, RememberType DEF TypeOK, TableTypeOK, Slot, Snapshot
    <3>2. Cardinality(fresh) \in Nat
      BY <3>1, FS_Subset, FS_CardinalityType, ProcessTableAssumption
    <3>3. QED
      BY <3>1, <3>2, OrderedEventsType
  <2>4. /\ \A i \in DOMAIN added : added[i].at = now
        /\ OfKind(added, Growth) = {}
    BY DEF MkEvent, OfKind, Growth
  <2>5. pending_events' = pending_events \o added
    BY <2>2
  <2> HIDE DEF added
  <2>6. ReadRuns' = ReadRuns /\ SamplesGrow
    BY <2>1, RememberKeepsRuns, RememberAddsSample
  <2>7. QED
    BY <2>1, <2>3, <2>4, <2>5, <2>6, CrashPending
<1>7. CASE ConnectionsFail
  <2>1. /\ pc = "connections" /\ Remember
        /\ UNCHANGED <<now, timeline, current, pending_events>>
    BY <1>7 DEF ConnectionsFail
  <2>2. ReadRuns' = ReadRuns /\ SamplesGrow
    BY <2>1, RememberKeepsRuns, RememberAddsSample
  <2>3. /\ <<>> \in Seq(Event) /\ pending_events' = pending_events \o <<>>
        /\ DOMAIN <<>> = {} /\ OfKind(<<>>, Growth) = {}
    BY <2>1 DEF TypeOK, OfKind
  <2>4. QED
    BY <2>1, <2>2, <2>3, CrashPending
<1>8. CASE FinishRefresh
  BY <1>8, CrashFinish
<1>9. CASE UNCHANGED vars
  BY <1>1, <1>9 DEF vars, locals
<1>10. QED
  BY <1>2, <1>3, <1>4, <1>5, <1>6, <1>7, <1>8, <1>9 DEF Next, Refresh

(* The first exit of a pid has no growth of another run before it. *)
LEMMA FirstExitIsOfOneRun ==
    ASSUME TypeOK, CrashInvariant PROVE CrashAnalysisOneRun
<1> SUFFICES ASSUME NEW p \in Pid, NEW oom \in BOOLEAN,
                    NEW a \in CrashAnalysis(timeline, p, oom).evidence,
                    NEW b \in CrashAnalysis(timeline, p, oom).evidence
             PROVE  a.of.key = b.of.key
  BY DEF CrashAnalysisOneRun
<1> DEFINE positions == 1 .. Len(timeline)
           exits == {i \in positions : timeline[i].key[1] = p /\ timeline[i].kind = "Exited"}
           i == IF exits # {} THEN Min(exits) ELSE 0
           exit == timeline[i]
           grown == {j \in positions : /\ timeline[j].key[1] = p /\ timeline[j].kind = Growth
                                       /\ timeline[j].at =< exit.at}
           g == IF grown # {} THEN Max(grown) ELSE 0
           fact(name, e) == [fact |-> name, of |-> e]
           evidence == {fact("exit", exit)}
             \cup (IF g # 0 THEN {fact("growth", timeline[g])} ELSE {})
             \cup (IF oom THEN {fact("oom", exit)} ELSE {})
<1>1. g = GrowthBefore(timeline, p, exit)
  BY DEF GrowthBefore, SelectLastInSeq, Growth
<1>2. i = SelectInSeq(timeline, LAMBDA e : e.key[1] = p /\ e.kind = "Exited")
  BY DEF SelectInSeq
<1>3. CrashAnalysis(timeline, p, oom).evidence \subseteq (IF i = 0 THEN {} ELSE evidence)
  BY <1>1, <1>2 DEF CrashAnalysis, NewFinding
<1>4. timeline \in Seq(Event) /\ Len(timeline) \in Nat /\ positions = DOMAIN timeline
  BY DEF TypeOK
<1>5. i # 0
  BY <1>3
<1>6. i \in exits /\ \A m \in exits : i =< m
  BY <1>4, <1>5, FirstAndLast
<1>7. g # 0 => timeline[g].key = exit.key
  <2> SUFFICES ASSUME g # 0, timeline[g].key # exit.key PROVE FALSE
    OBVIOUS
  <2>1. g \in grown
    BY <1>4, FirstAndLast
  <2>2. i \in OfKind(timeline, "Exited") /\ g \in OfKind(timeline, Growth)
    BY <1>4, <1>6, <2>1 DEF OfKind
  <2> HIDE DEF i, g
  <2>3. exit.key[1] = timeline[g].key[1] /\ timeline[g].at =< exit.at
    BY <1>6, <2>1
  <2> HIDE DEF exit
  <2>4. PICK m \in OfKind(timeline, "Exited") : g < m /\ m < i /\ timeline[m].key = timeline[g].key
    BY <2>2, <2>3 DEF CrashInvariant, Separated, exit
  <2>5. m \in exits
    BY <1>4, <2>1, <2>4 DEF OfKind
  <2>6. m \in Int /\ i \in Int
    BY <1>6, <2>5
  <2>7. QED
    BY <1>6, <2>4, <2>5, <2>6
<1>8. \A e \in evidence : e.of.key = exit.key
  <2> HIDE DEF exit, g
  <2> QED
    BY <1>7
<1> HIDE DEF i, exit, evidence
<1>9. a \in evidence /\ b \in evidence
  BY <1>3, <1>5
<1>10. QED
  BY <1>8, <1>9

(* The growth crash_analysis cites is of the run whose exit it explains, for *)
(* every capacity of the timeline and every reuse of pids, if the clock is   *)
(* never set back and the growth window is not empty.                        *)
THEOREM CrashesAreOfOneRun ==
    ASSUME ClockSteps \subseteq Nat, GrowthWindow > 0
    PROVE  FullSpec => []CrashAnalysisOneRun
<1>1. Init => CrashInvariant
  <2> SUFFICES ASSUME Init PROVE CrashInvariant
    OBVIOUS
  <2>1. /\ timeline = <<>> /\ pc = "idle" /\ DOMAIN history = {}
        /\ DOMAIN timeline = {} /\ \A kind : OfKind(timeline, kind) = {}
    BY MapDomains DEF Init, OfKind
  <2>2. QED
    BY <2>1 DEF CrashInvariant, Separated, GrowthEnds
<1>2. TypeOK /\ RefreshInvariant /\ CrashInvariant /\ [Next]_vars => CrashInvariant'
  BY CrashStep
<1>3. Spec => []CrashAnalysisOneRun
  BY <1>1, <1>2, FirstExitIsOfOneRun, TypeCorrect, RefreshInvariantHolds, PTL DEF Spec
<1>4. QED
  BY <1>3, FullIsSpec, PTL

-----------------------------------------------------------------------------
(* A history with a capacity beside one without. *)

(* Keeping the last n after each sample is keeping the last n of them all. *)
LEMMA KeepLastAppend ==
    ASSUME NEW S, NEW s \in Seq(S), NEW x \in S, NEW n \in Nat \ {0}
    PROVE  KeepLast(Append(KeepLast(s, n), x), n) = KeepLast(Append(s, x), n)
<1>1. CASE Len(s) =< n
  BY <1>1 DEF KeepLast
<1>2. CASE Len(s) > n
  <2> DEFINE t == SubSeq(s, Len(s) - n + 1, Len(s))
             a == Append(t, x)
             b == Append(s, x)
  <2>1. KeepLast(s, n) = t
    BY <1>2 DEF KeepLast
  <2>2. t \in Seq(S) /\ Len(t) = n /\ \A i \in 1 .. n : t[i] = s[Len(s) - n + i]
    BY <1>2
  <2> HIDE DEF t
  <2>3. /\ a \in Seq(S) /\ Len(a) = n + 1 /\ a[n + 1] = x /\ \A i \in 1 .. n : a[i] = t[i]
    BY <2>2
  <2>4. /\ b \in Seq(S) /\ Len(b) = Len(s) + 1 /\ b[Len(s) + 1] = x
        /\ \A i \in 1 .. Len(s) : b[i] = s[i]
    OBVIOUS
  <2> HIDE DEF a, b
  <2>5. KeepLast(a, n) = SubSeq(a, 2, n + 1)
    <3>1. Len(a) > n /\ Len(a) - n + 1 = 2
      BY <2>3
    <3>2. QED
      BY <2>3, <3>1 DEF KeepLast
  <2>6. KeepLast(b, n) = SubSeq(b, Len(s) - n + 2, Len(s) + 1)
    <3>1. Len(b) > n /\ Len(b) - n + 1 = Len(s) - n + 2
      BY <1>2, <2>4
    <3>2. QED
      BY <2>4, <3>1 DEF KeepLast
  <2> DEFINE u == SubSeq(a, 2, n + 1)
             v == SubSeq(b, Len(s) - n + 2, Len(s) + 1)
  <2>7. u \in Seq(S) /\ Len(u) = n /\ \A i \in 1 .. n : u[i] = a[i + 1]
    BY <2>3
  <2>8. v \in Seq(S) /\ Len(v) = n /\ \A i \in 1 .. n : v[i] = b[Len(s) - n + 1 + i]
    BY <1>2, <2>4
  <2> HIDE DEF u, v
  <2>9. ASSUME NEW i \in 1 .. n PROVE u[i] = v[i]
    <3>1. CASE i = n
      BY <1>2, <2>3, <2>4, <2>7, <2>8, <3>1
    <3>2. CASE i # n
      <4>1. i + 1 \in 1 .. n /\ Len(s) - n + 1 + i \in 1 .. Len(s)
        BY <1>2, <3>2
      <4>2. a[i + 1] = s[Len(s) - n + (i + 1)]
        BY <2>2, <2>3, <4>1
      <4>3. b[Len(s) - n + 1 + i] = s[Len(s) - n + 1 + i]
        BY <2>4, <4>1
      <4>4. Len(s) - n + (i + 1) = Len(s) - n + 1 + i
        OBVIOUS
      <4>5. QED
        BY <2>7, <2>8, <4>2, <4>3, <4>4
    <3>3. QED
      BY <3>1, <3>2
  <2>10. u = v
    BY <2>7, <2>8, <2>9
  <2>11. QED
    BY <2>1, <2>5, <2>6, <2>10 DEF a, b, u, v
<1>3. QED
  BY <1>1, <1>2

(* Samples gap apart: so many of them span at least that many gaps. *)
LEMMA GapsAddUp ==
    ASSUME NEW gap \in Nat, NEW m \in Nat, NEW n \in Nat
    PROVE  /\ m * gap \in Nat /\ (m + 1) * gap = m * gap + gap
           /\ n =< m => n * gap =< m * gap
<1>1. m * gap \in Nat /\ n * gap \in Nat /\ (m + 1) * gap = m * gap + gap
  OBVIOUS
<1>2. ASSUME n =< m PROVE n * gap =< m * gap
  <2>1. PICK d \in Nat : m = n + d
    <3>1. m - n \in Nat /\ m = n + (m - n)
      BY <1>2
    <3>2. QED
      BY <3>1
  <2>2. m * gap = n * gap + d * gap /\ d * gap \in Nat
    BY <2>1
  <2>3. QED
    BY <1>1, <2>2
<1>3. QED
  BY <1>1, <1>2

(* A distance of at least g after one of at least m. *)
LEMMA DistancesAddUp ==
    ASSUME NEW a \in Int, NEW b \in Int, NEW c \in Int, NEW m \in Nat, NEW g \in Nat,
           a - b >= g, b - c >= m
    PROVE  a - c >= m + g
OBVIOUS

(* Calls that are a gap apart take samples that are a gap apart. *)
LEMMA FullSample ==
    ASSUME NEW gap \in Nat, TypeOK, RefreshInvariant, FullInvariant(gap),
           pc = "connections", Remember, UNCHANGED now,
           full' = Put(full, KeyOf(snap),
                       Append(IF KeyOf(snap) \in DOMAIN full THEN full[KeyOf(snap)] ELSE <<>>,
                              [at |-> now, snap |-> snap]))
    PROVE  FullInvariant(gap)'
<1> DEFINE key == KeyOf(snap)
           old == IF key \in DOMAIN full THEN full[key] ELSE <<>>
           kept == IF key \in DOMAIN history THEN history[key] ELSE <<>>
           sample == [at |-> now, snap |-> snap]
           new == Append(old, sample)
<1>1. sample \in Sample /\ sample.at = now /\ now \in Int
  BY IntelligenceAssumption DEF TypeOK, Sample, Time
<1>2. /\ history' = Put(history, key, KeepLast(Append(kept, sample), HistoryCapacity))
      /\ full' = Put(full, key, new) /\ pc' = "process"
      /\ new_current' = Put(new_current, snap.pid, snap)
  BY DEF Remember
<1>3. DOMAIN full = DOMAIN history /\ HistoryCapacity \in Nat \ {0}
  BY IntelligenceAssumption DEF FullInvariant
<1>4. key \notin Keys(new_current)
  <2>1. snap.pid \notin DOMAIN new_current
    BY DEF RefreshInvariant, RetentionInvariant
  <2>2. QED
    BY <2>1, KeysOfMap DEF TypeOK, KeyOf
<1>5. /\ old \in Seq(Sample)
      /\ \A i, j \in DOMAIN old : i < j => old[j].at - old[i].at >= (j - i) * gap
      /\ \A i \in DOMAIN old : now - old[i].at >= gap
  BY <1>4 DEF FullInvariant, Spaced
<1>6. kept = KeepLast(old, HistoryCapacity)
  <2>1. CASE key \in DOMAIN full
    BY <1>3, <2>1 DEF FullInvariant
  <2>2. CASE key \notin DOMAIN full
    BY <1>3, <2>2 DEF KeepLast
  <2>3. QED
    BY <2>1, <2>2
<1>7. Keys(new_current') = Keys(new_current) \cup {key}
  BY RememberType DEF RefreshInvariant, RetentionInvariant
<1> HIDE DEF key, old, kept, sample
<1>8. KeepLast(Append(kept, sample), HistoryCapacity) = KeepLast(new, HistoryCapacity)
  BY <1>1, <1>3, <1>5, <1>6, KeepLastAppend
<1>9. /\ new \in Seq(Sample) /\ Len(new) = Len(old) + 1 /\ new[Len(old) + 1] = sample
      /\ \A i \in 1 .. Len(old) : new[i] = old[i]
  BY <1>1, <1>5
<1> HIDE DEF new
<1>10. \A i \in DOMAIN old : old[i].at \in Int
  <2>1. \A i \in DOMAIN old : old[i] \in Sample
    BY <1>5
  <2>2. QED
    BY <2>1, IntelligenceAssumption DEF Sample, Time
<1>11. \A i \in DOMAIN new : now - new[i].at >= 0
  <2>1. \A i \in 1 .. Len(old) : now - old[i].at >= gap /\ old[i].at \in Int
    BY <1>5, <1>10
  <2>2. QED
    BY <1>1, <1>5, <1>9, <2>1
<1>12. ASSUME NEW i \in DOMAIN new, NEW j \in DOMAIN new, i < j
       PROVE  new[j].at - new[i].at >= (j - i) * gap
  <2>1. CASE j =< Len(old)
    <3>1. i \in DOMAIN old /\ j \in DOMAIN old /\ new[i] = old[i] /\ new[j] = old[j]
      BY <1>5, <1>9, <1>12, <2>1
    <3>2. QED
      BY <1>5, <1>12, <3>1
  <2>2. CASE j = Len(old) + 1
    <3> DEFINE n == Len(old)
    <3>1. /\ i \in DOMAIN old /\ n \in DOMAIN old /\ new[i] = old[i] /\ new[j].at = now
          /\ i \in Nat /\ n \in Nat /\ i =< n
      BY <1>1, <1>5, <1>9, <1>12, <2>2
    <3>2. now - old[n].at >= gap /\ old[n].at \in Int /\ old[i].at \in Int
      BY <1>5, <1>10, <3>1
    <3>3. old[n].at - old[i].at >= (n - i) * gap
      <4>1. CASE i = n
        BY <3>2, <4>1
      <4>2. CASE i # n
        BY <1>5, <3>1, <4>2
      <4>3. QED
        BY <4>1, <4>2
    <3> HIDE DEF n
    <3>4. /\ n - i \in Nat /\ (n - i) * gap \in Nat /\ ((n - i) + 1) * gap = (n - i) * gap + gap
          /\ j - i = (n - i) + 1
      <4>1. n - i \in Nat /\ j - i = (n - i) + 1
        BY <2>2, <3>1 DEF n
      <4>2. QED
        BY <4>1, GapsAddUp
    <3>5. now - old[i].at >= (n - i) * gap + gap
      BY <1>1, <3>2, <3>3, <3>4, DistancesAddUp, Zenon
    <3>6. (j - i) * gap = (n - i) * gap + gap
      BY <3>4, Zenon
    <3>7. QED
      BY <3>1, <3>5, <3>6, Zenon
  <2>3. QED
    BY <1>5, <1>9, <2>1, <2>2
<1>13. /\ DOMAIN full' = DOMAIN full \cup {key} /\ DOMAIN history' = DOMAIN history \cup {key}
       /\ full'[key] = new /\ history'[key] = KeepLast(new, HistoryCapacity)
       /\ \A k \in DOMAIN full \ {key} : full'[k] = full[k] /\ history'[k] = history[k]
  BY <1>2, <1>3, <1>8 DEF Put
<1>14. ASSUME NEW k \in DOMAIN full'
       PROVE  /\ full'[k] \in Seq(Sample)
              /\ history'[k] = KeepLast(full'[k], HistoryCapacity)
              /\ Spaced(full'[k], gap)
              /\ \A i \in DOMAIN full'[k] :
                   /\ now - full'[k][i].at >= 0
                   /\ k \notin Keys(new_current') => now - full'[k][i].at >= gap
  <2>1. CASE k = key
    <3>1. Spaced(new, gap)
      BY <1>12, Zenon DEF Spaced
    <3>2. /\ new \in Seq(Sample) /\ k \in Keys(new_current') /\ full'[k] = new
          /\ history'[k] = KeepLast(new, HistoryCapacity)
      BY <1>7, <1>9, <1>13, <2>1
    <3>3. QED
      BY <1>11, <3>1, <3>2
  <2>2. CASE k # key
    <3>1. k \in DOMAIN full /\ full'[k] = full[k] /\ history'[k] = history[k]
      BY <1>13, <2>2
    <3>2. k \notin Keys(new_current') => k \notin Keys(new_current)
      BY <1>7
    <3>3. /\ full[k] \in Seq(Sample) /\ history[k] = KeepLast(full[k], HistoryCapacity)
          /\ Spaced(full[k], gap)
          /\ \A i \in DOMAIN full[k] :
               /\ now - full[k][i].at >= 0
               /\ k \notin Keys(new_current) => now - full[k][i].at >= gap
      BY <3>1, Zenon DEF FullInvariant
    <3>4. QED
      BY <3>1, <3>2, <3>3, Zenon
  <2>3. QED
    BY <2>1, <2>2
<1>15. QED
  BY <1>3, <1>13, <1>14 DEF FullInvariant

(* Both histories drop the same keys. *)
LEMMA FullDrops ==
    ASSUME NEW gap \in Nat, FullInvariant(gap),
           full' = Restrict(full, DOMAIN full \cap DOMAIN history'),
           DOMAIN history' \subseteq DOMAIN history,
           \A k \in DOMAIN history' : history'[k] = history[k]
    PROVE  /\ DOMAIN full' = DOMAIN history'
           /\ \A k \in DOMAIN full' :
                k \in DOMAIN full /\ full'[k] = full[k] /\ history'[k] = history[k]
<1>1. DOMAIN full = DOMAIN history
  BY DEF FullInvariant
<1>2. full' = [k \in DOMAIN history' |-> full[k]]
  <2>1. DOMAIN full \cap DOMAIN history' = DOMAIN history'
    BY <1>1
  <2>2. QED
    BY <2>1 DEF Restrict
<1>3. QED
  BY <1>1, <1>2

LEMMA FullStep ==
    ASSUME NEW gap \in Nat, \A d \in ClockSteps : d >= gap
    PROVE  TypeOK /\ RefreshInvariant /\ FullInvariant(gap) /\ [FullNext]_growthVars
             => FullInvariant(gap)'
<1> SUFFICES ASSUME TypeOK, RefreshInvariant, FullInvariant(gap), [FullNext]_growthVars
             PROVE  FullInvariant(gap)'
  OBVIOUS
<1>1. CASE UNCHANGED growthVars
  BY <1>1 DEF growthVars, vars, locals, FullInvariant, Keys
<1>2. CASE ReadConnections \/ ConnectionsFail
  <2>1. pc = "connections" /\ pc' = "process" /\ Remember /\ UNCHANGED now
    BY <1>2 DEF ReadConnections, ConnectionsFail, Remember
  <2>2. CASE FullNext
    <3>1. full' = Put(full, KeyOf(snap),
                      Append(IF KeyOf(snap) \in DOMAIN full THEN full[KeyOf(snap)] ELSE <<>>,
                             [at |-> now, snap |-> snap]))
      BY <2>1, <2>2 DEF FullNext
    <3>2. QED
      BY <2>1, <3>1, FullSample
  <2>3. QED
    BY <1>1, <2>2
<1>3. ASSUME FullNext, ~(pc = "connections" /\ pc' = "process"),
             DOMAIN history' \subseteq DOMAIN history,
             \A k \in DOMAIN history' : history'[k] = history[k],
             \A k \in DOMAIN full : \A i \in DOMAIN full[k] :
               /\ now' - full[k][i].at >= 0
               /\ pc' # "idle" /\ k \notin Keys(new_current') => now' - full[k][i].at >= gap
      PROVE  FullInvariant(gap)'
  <2>1. full' = Restrict(full, DOMAIN full \cap DOMAIN history')
    BY <1>3 DEF FullNext
  <2>2. /\ DOMAIN full' = DOMAIN history'
        /\ \A k \in DOMAIN full' :
             k \in DOMAIN full /\ full'[k] = full[k] /\ history'[k] = history[k]
    BY <1>3, <2>1, FullDrops
  <2>3. ASSUME NEW k \in DOMAIN full'
        PROVE  /\ full'[k] \in Seq(Sample)
               /\ history'[k] = KeepLast(full'[k], HistoryCapacity)
               /\ Spaced(full'[k], gap)
               /\ \A i \in DOMAIN full'[k] :
                    /\ now' - full'[k][i].at >= 0
                    /\ pc' # "idle" /\ k \notin Keys(new_current') => now' - full'[k][i].at >= gap
    <3>1. k \in DOMAIN full /\ full'[k] = full[k] /\ history'[k] = history[k]
      BY <2>2
    <3>2. /\ full[k] \in Seq(Sample)
          /\ history[k] = KeepLast(full[k], HistoryCapacity)
          /\ Spaced(full[k], gap)
      BY <3>1, Zenon DEF FullInvariant
    <3>3. QED
      BY <1>3, <3>1, <3>2, Zenon
  <2>4. QED
    BY <2>2, <2>3, Zenon DEF FullInvariant
<1>4. \A k \in DOMAIN full : \A i \in DOMAIN full[k] : full[k][i].at \in Int
  <2>1. \A k \in DOMAIN full : \A i \in DOMAIN full[k] : full[k][i] \in Sample
    BY DEF FullInvariant
  <2>2. QED
    BY <2>1, IntelligenceAssumption DEF Sample, Time
<1>5. \A k \in DOMAIN full : \A i \in DOMAIN full[k] :
        /\ now - full[k][i].at >= 0
        /\ pc # "idle" /\ k \notin Keys(new_current) => now - full[k][i].at >= gap
  BY Zenon DEF FullInvariant
<1>6. ASSUME FullNext, UNCHANGED <<now, pc, history, new_current>> PROVE FullInvariant(gap)'
  BY <1>3, <1>5, <1>6 DEF Keys
<1>7. ASSUME FullNext, NEW d \in ClockSteps, BeginRefresh(d) \/ RefreshFails(d)
      PROVE  FullInvariant(gap)'
  <2>1. pc = "idle" /\ now' = now + d /\ DrainStaleKeys
    BY <1>7 DEF BeginRefresh, RefreshFails
  <2>2. /\ DOMAIN history' \subseteq DOMAIN history
        /\ \A k \in DOMAIN history' : history'[k] = history[k]
    BY <2>1, DrainType
  <2>3. d >= gap /\ now \in Int /\ now' \in Int
    BY <1>7, <2>1, IntelligenceAssumption DEF TypeOK, Time
  <2>4. d \in Int
    BY <1>7, IntelligenceAssumption
  <2>5. \A k \in DOMAIN full : \A i \in DOMAIN full[k] :
          now' - full[k][i].at >= 0 /\ now' - full[k][i].at >= gap
    BY <1>4, <1>5, <2>1, <2>3, <2>4
  <2>6. QED
    BY <1>3, <1>7, <2>1, <2>2, <2>5
<1>8. ASSUME FullNext,
             (\E p \in Pid : ReadStat(p) \/ SkipProcess(p)) \/ ReadMemory \/ DropProcess
      PROVE  FullInvariant(gap)'
  <2>1. /\ pc \in {"process", "memory"} /\ pc' # "idle"
        /\ UNCHANGED <<now, history, new_current>> /\ Keys(new_current') = Keys(new_current)
    BY <1>8, QuietReads DEF ReadMemory, Keys
  <2>2. QED
    BY <1>3, <1>5, <1>8, <2>1
<1>9. ASSUME FullNext, FinishRefresh PROVE FullInvariant(gap)'
  <2>1. pc = "process" /\ pc' = "idle" /\ UNCHANGED <<now, history>>
    BY <1>9 DEF FinishRefresh
  <2>2. QED
    BY <1>3, <1>5, <1>9, <2>1
<1>10. ASSUME FullNext, Environment PROVE FullInvariant(gap)'
  BY <1>6, <1>10 DEF Environment, locals
<1>11. QED
  BY <1>1, <1>2, <1>7, <1>8, <1>9, <1>10 DEF FullNext, Next, Refresh

(* Where the capacity spans the window, the sample a window old is there    *)
(* when the history without capacity has it.                               *)
LEMMA WindowIsKept ==
    ASSUME NEW gap \in Nat, TypeOK, FullInvariant(gap), HistoryCapacity * gap >= GrowthWindow,
           pc = "memory", NEW k \in DOMAIN full, k \notin Keys(new_current),
           NEW s, GrewOver(full[k], s)
    PROVE  k \in DOMAIN history /\ GrewOver(history[k], s)
<1> DEFINE f == full[k]
           h == history[k]
           L == Len(f)
           C == HistoryCapacity
           W == GrowthWindow
           F == {i \in 1 .. L : now - f[i].at >= W}
           H == {i \in 1 .. Len(h) : now - h[i].at >= W}
<1>1. /\ k \in DOMAIN history /\ f \in Seq(Sample) /\ h = KeepLast(f, C) /\ L \in Nat
      /\ C \in Nat \ {0} /\ W \in Nat /\ now \in Int /\ DOMAIN f = 1 .. L
  BY IntelligenceAssumption DEF FullInvariant, TypeOK, Time
<1>2. /\ \A i, j \in 1 .. L : i < j => f[j].at - f[i].at >= (j - i) * gap
      /\ \A i \in 1 .. L : now - f[i].at >= gap
  <2>1. /\ \A i, j \in DOMAIN f : i < j => f[j].at - f[i].at >= (j - i) * gap
        /\ \A i \in DOMAIN f : now - f[i].at >= gap
    BY Zenon DEF FullInvariant, Spaced
  <2>2. QED
    BY <1>1, <2>1, Zenon
<1>3. F # {} /\ Grew(f[Max(F)].snap.rss, s.rss)
  BY DEF GrewOver, SelectLastInSeq
<1>4. \A i \in 1 .. L : f[i].at \in Int
  <2>1. \A i \in 1 .. L : f[i] \in Sample
    BY <1>1
  <2>2. QED
    BY <2>1, IntelligenceAssumption DEF Sample, Time
<1>5. CASE L =< C
  <2>1. h = f
    BY <1>1, <1>5 DEF KeepLast
  <2>2. QED
    BY <1>1, <2>1
<1>6. CASE L > C
  <2> DEFINE cut == L - C
             j == Max(F)
  <2>1. /\ Len(h) = C /\ cut \in Nat /\ cut + C = L
        /\ \A i \in 1 .. C : h[i] = f[cut + i]
    <3>1. h = SubSeq(f, L - C + 1, L)
      BY <1>1, <1>6 DEF KeepLast
    <3>2. QED
      BY <1>1, <1>6, <3>1
  <2>2. j \in F /\ \A i \in F : j >= i
    <3> HIDE DEF f
    <3>1. F \in SUBSET (1 .. L)
      OBVIOUS
    <3>2. QED
      BY <1>1, <1>3, <3>1, FirstAndLast
  <2>3. j \in 1 .. L /\ now - f[j].at >= W /\ \A i \in 1 .. L : i > j => ~(now - f[i].at >= W)
    <3> HIDE DEF j, f, L, W
    <3>1. j \in 1 .. L /\ now - f[j].at >= W
      BY <2>2
    <3>2. ASSUME NEW i \in 1 .. L, i > j, now - f[i].at >= W PROVE FALSE
      <4>1. i \in F
        BY <3>2
      <4>2. QED
        BY <1>1, <2>2, <3>1, <3>2, <4>1
    <3>3. QED
      BY <3>1, <3>2
  <2> HIDE DEF j, F, f, h, L, C, W, cut
  <2>4. j > cut
    <3> SUFFICES ASSUME j =< cut PROVE FALSE
      BY <1>1, <2>1, <2>3
    <3>1. j \in Nat /\ j + 1 \in 1 .. L /\ L \in 1 .. L /\ L - j \in Nat /\ C =< L - j
      BY <1>1, <2>1, <2>3
    <3>2. now - f[j + 1].at < W
      BY <1>1, <1>4, <2>3, <3>1
    <3>3. f[L].at - f[j + 1].at >= (L - (j + 1)) * gap
      <4>1. CASE j + 1 = L
        <5>1. (L - (j + 1)) * gap = 0 /\ f[L].at - f[j + 1].at = 0
          BY <1>4, <3>1, <4>1
        <5>2. QED
          BY <5>1
      <4>2. CASE j + 1 # L
        BY <1>2, <3>1, <4>2
      <4>3. QED
        BY <4>1, <4>2
    <3>4. now - f[L].at >= gap
      BY <1>2, <3>1
    <3>5. /\ L - (j + 1) \in Nat /\ L - j = (L - (j + 1)) + 1
      BY <1>1, <3>1
    <3>6. (L - j) * gap = (L - (j + 1)) * gap + gap /\ (L - (j + 1)) * gap \in Nat
      BY <3>5, GapsAddUp
    <3>7. C * gap =< (L - j) * gap /\ C * gap \in Nat
      BY <1>1, <3>1, GapsAddUp
    <3>8. C * gap >= W
      BY DEF C, W
    <3>9. f[L].at \in Int /\ f[j + 1].at \in Int
      BY <1>4, <3>1
    <3>10. now - f[j + 1].at >= (L - (j + 1)) * gap + gap
      BY <1>1, <3>3, <3>4, <3>6, <3>9, DistancesAddUp, Zenon
    <3>11. now - f[j + 1].at >= (L - j) * gap
      BY <3>6, <3>10, Zenon
    <3>12. (L - j) * gap \in Nat /\ now - f[j + 1].at \in Int
      BY <1>1, <3>1, <3>9, GapsAddUp
    <3>13. ASSUME NEW u \in Nat, NEW v \in Nat, NEW w \in Nat, NEW x \in Int,
                  u =< v, u >= w, x >= v, x < w
           PROVE  FALSE
      BY <3>13
    <3>14. QED
      BY <1>1, <3>2, <3>7, <3>8, <3>11, <3>12, <3>13, Zenon
  <2>5. j - cut \in 1 .. C /\ h[j - cut] = f[j]
    <3>1. j - cut \in 1 .. C /\ cut + (j - cut) = j
      BY <1>1, <2>1, <2>3, <2>4
    <3>2. QED
      BY <2>1, <3>1
  <2>6. H \in SUBSET (1 .. C) /\ j - cut \in H
    BY <2>1, <2>3, <2>5
  <2>7. \A i \in H : i =< j - cut
    <3> SUFFICES ASSUME NEW i \in H, i > j - cut PROVE FALSE
      BY <1>1, <2>1, <2>3
    <3>1. /\ i \in 1 .. C /\ now - f[cut + i].at >= W
      BY <2>1
    <3>2. cut + i \in 1 .. L /\ cut + i > j
      BY <1>1, <2>1, <2>3, <3>1
    <3>3. QED
      BY <2>3, <3>1, <3>2
  <2>8. Max(H) = j - cut
    <3> HIDE DEF H
    <3>1. Max(H) \in H /\ \A i \in H : Max(H) >= i
      BY <1>1, <2>6, FirstAndLast
    <3>2. Max(H) >= j - cut /\ Max(H) =< j - cut
      BY <2>6, <2>7, <3>1
    <3>3. \A i \in 1 .. C : i \in Int
      BY <1>1
    <3>5. Max(H) \in Int /\ j - cut \in Int
      BY <2>6, <3>1, <3>3, Zenon
    <3>4. QED
      BY <3>2, <3>5
  <2>9. Max(H) # 0 /\ Grew(h[Max(H)].snap.rss, s.rss)
    BY <1>1, <1>3, <2>5, <2>8 DEF j
  <2>10. QED
    BY <1>1, <2>6, <2>9 DEF GrewOver, SelectLastInSeq, h, W
<1>7. QED
  BY <1>1, <1>5, <1>6

(* GrewInWindow finds the baseline that the search from the newest sample   *)
(* down finds.                                                             *)
LEMMA GrewBySearch ==
    ASSUME TypeOK, NEW f \in Seq(Sample), NEW s \in Snapshot, GrewInWindow(f, s)
    PROVE  GrewOver(f, s)
<1> DEFINE F == {i \in 1 .. Len(f) : now - f[i].at >= GrowthWindow}
<1>1. PICK i \in DOMAIN f :
        /\ now - f[i].at >= GrowthWindow
        /\ \A j \in DOMAIN f : j > i => now - f[j].at < GrowthWindow
        /\ f[i].snap.rss > 0 /\ 2 * s.rss >= 3 * f[i].snap.rss
  BY DEF GrewInWindow
<1>2. DOMAIN f = 1 .. Len(f) /\ Len(f) \in Nat /\ F \in SUBSET (1 .. Len(f)) /\ i \in F
  BY <1>1
<1>3. \A j \in DOMAIN f : now - f[j].at \in Int
  <2>1. \A j \in DOMAIN f : f[j] \in Sample
    OBVIOUS
  <2>2. \A e \in Sample : e.at \in Int
    BY IntelligenceAssumption DEF Sample, Time
  <2>3. QED
    BY <2>1, <2>2, IntelligenceAssumption DEF TypeOK, Time
<1>4. \A j \in F : j =< i
  <2> SUFFICES ASSUME NEW j \in F, j > i PROVE FALSE
    BY <1>2
  <2>1. j \in DOMAIN f /\ now - f[j].at >= GrowthWindow /\ now - f[j].at < GrowthWindow
    BY <1>1, <1>2
  <2>2. QED
    BY <1>3, <2>1, IntelligenceAssumption
<1>5. Max(F) = i
  <2> HIDE DEF F
  <2>1. Max(F) \in F /\ \A j \in F : Max(F) >= j
    BY <1>2, FirstAndLast
  <2>2. Max(F) >= i /\ Max(F) =< i /\ Max(F) \in Int /\ i \in Int
    BY <1>2, <1>4, <2>1
  <2>3. QED
    BY <2>2
<1>6. Grew(f[i].snap.rss, s.rss)
  <2>1. f[i] \in Sample
    BY <1>1
  <2>2. f[i].snap.rss \in Nat /\ s.rss \in Nat
    BY <2>1, ProcessTableAssumption DEF Sample, Snapshot
  <2>3. QED
    BY <1>1, <2>2 DEF Grew
<1>7. F # {} /\ Max(F) # 0
  BY <1>2, <1>5
<1> HIDE DEF F
<1>8. QED
  BY <1>5, <1>6, <1>7 DEF GrewOver, SelectLastInSeq, F

(* The step that reads a run whose RSS grew over the window reports it. *)
LEMMA ReadReportsGrowth ==
    ASSUME NEW gap \in Nat, HistoryCapacity * gap >= GrowthWindow,
           TypeOK, RefreshInvariant, FullInvariant(gap), [FullNext]_growthVars
    PROVE  [ReportsGrowth]_growthVars
<1> SUFFICES ASSUME FullNext, pc = "memory", pc' = "connections",
                    KeyOf(snap') \in DOMAIN full, GrewInWindow(full[KeyOf(snap')], snap')
             PROVE  \E e \in NewEvents : e.key = KeyOf(snap') /\ e.kind = Growth
  BY Zenon DEF ReportsGrowth
<1> DEFINE k == KeyOf(snap')
<1>1. ReadMemory
  BY DEF FullNext, Next, Refresh, Environment, BeginRefresh, RefreshFails, SkipProcess,
         ReadStat, DropProcess, ReadConnections, ConnectionsFail, Remember, FinishRefresh
<1> DEFINE s == SnapshotOf(snap)
           starts == StartEvents(s)
           growth == GrowthEvents(s)
<1>2. /\ table[snap.pid].alive /\ snap' = s /\ s \in Snapshot
      /\ pending_events' = (pending_events \o starts) \o growth
      /\ starts \in Seq(Event) /\ growth \in Seq(Event) /\ pending_events \in Seq(Event)
  BY <1>1, ReadType DEF ReadMemory, TypeOK
<1>3. k = KeyOf(s) /\ k[1] = snap.pid
  BY <1>2 DEF KeyOf, SnapshotOf
<1>4. k \notin Keys(new_current)
  <2>1. snap.pid \notin DOMAIN new_current
    BY DEF RefreshInvariant, RetentionInvariant
  <2>2. QED
    BY <1>3, <2>1, KeysOfMap DEF TypeOK
<1>5. k \in DOMAIN history /\ GrewOver(history[k], s)
  <2>1. k \in DOMAIN full /\ full[k] \in Seq(Sample) /\ GrewInWindow(full[k], s)
    BY <1>2, Zenon DEF FullInvariant
  <2> HIDE DEF k, s
  <2>2. GrewOver(full[k], s)
    BY <1>2, <2>1, GrewBySearch
  <2>3. QED
    BY <1>4, <2>1, <2>2, WindowIsKept
<1>6. growth = <<MkEvent(k, Growth, NoPid)>>
  BY <1>3, <1>5 DEF GrowthEvents, Growth
<1> DEFINE before == pending_events \o starts
           n == Len(before) + 1
<1>7. before \in Seq(Event) /\ pending_events' = before \o growth /\ Len(pending_events) =< Len(before)
  BY <1>2
<1> HIDE DEF growth, before
<1>8. pending_events'[n] = growth[1] /\ Len(pending_events') = n /\ n \in Nat
  <2>1. growth \in Seq(Event) /\ Len(growth) = 1
    BY <1>2, <1>6
  <2>2. n = Len(before) + 1
    OBVIOUS
  <2> HIDE DEF n
  <2>3. /\ Len(before \o growth) = Len(before) + Len(growth)
        /\ \A j \in DOMAIN growth : (before \o growth)[Len(before) + j] = growth[j]
    BY <1>7, <2>1, KindsOfConcat, Zenon
  <2>4. Len(before) \in Nat /\ 1 \in DOMAIN growth
    BY <1>7, <2>1
  <2>5. QED
    BY <1>7, <2>1, <2>2, <2>3, <2>4
<1>9. n \in Len(pending_events) + 1 .. Len(pending_events')
  BY <1>2, <1>7, <1>8
<1>10. growth[1] \in NewEvents
  BY <1>8, <1>9 DEF NewEvents
<1>11. growth[1].key = k /\ growth[1].kind = Growth
  BY <1>6 DEF MkEvent
<1>12. QED
  BY <1>10, <1>11

(* No growth over the window is missed, for every set of pids and sizes, if *)
(* the calls are at least gap seconds apart and the capacity times the gap   *)
(* is no less than the window.  The defaults of the code, 120 samples and    *)
(* 3600 seconds, need calls that are at least 30 seconds apart.              *)
THEOREM NoGrowthMissed ==
    ASSUME NEW gap \in Nat, \A d \in ClockSteps : d >= gap,
           HistoryCapacity * gap >= GrowthWindow
    PROVE  FullSpec => GrowthReported
<1>1. FullInit => FullInvariant(gap)
  BY MapDomains DEF FullInit, Init, FullInvariant
<1>2. TypeOK /\ RefreshInvariant /\ FullInvariant(gap) /\ [FullNext]_growthVars
        => FullInvariant(gap)'
  BY FullStep
<1>3. TypeOK /\ RefreshInvariant /\ FullInvariant(gap) /\ [FullNext]_growthVars
        => [ReportsGrowth]_growthVars
  BY ReadReportsGrowth
<1>4. FullSpec => []TypeOK /\ []RefreshInvariant
  BY FullIsSpec, TypeCorrect, RefreshInvariantHolds, PTL
<1>5. QED
  BY <1>1, <1>2, <1>3, <1>4, PTL DEF FullSpec, GrowthReported
=============================================================================
