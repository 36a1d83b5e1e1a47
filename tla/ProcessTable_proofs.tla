------------------------ MODULE ProcessTable_proofs ------------------------
(***************************************************************************)
(* Facts about the process table that the proofs of the modules above it   *)
(* rest on.                                                                *)
(***************************************************************************)
EXTENDS ProcessTable, TLAPS

(* A slot stays a slot, of the same run, when its parent goes away. *)
LEMMA OrphanSlot ==
    ASSUME NEW s \in Slot
    PROVE  /\ [s EXCEPT !.ppid = NoPid, !.parent_start = 0] \in Slot
           /\ [s EXCEPT !.ppid = NoPid, !.parent_start = 0].alive = s.alive
           /\ [s EXCEPT !.ppid = NoPid, !.parent_start = 0].start_time = s.start_time
<1> DEFINE t == [s EXCEPT !.ppid = NoPid]
           u == [t EXCEPT !.parent_start = 0]
<1>1. t \in Slot /\ t.alive = s.alive /\ t.start_time = s.start_time
  BY DEF Slot
<1>2. u \in Slot /\ u.alive = t.alive /\ u.start_time = t.start_time
  <2> HIDE DEF t
  <2>1. QED
    BY <1>1, ProcessTableAssumption DEF Slot
<1>3. u = [s EXCEPT !.ppid = NoPid, !.parent_start = 0]
  BY Zenon
<1>4. QED
  BY <1>1, <1>2, <1>3

(* The kernel keeps its table well formed. *)
LEMMA TableType ==
    ASSUME TableTypeOK, TableNext
    PROVE  TableTypeOK'
<1> USE ProcessTableAssumption DEF TableTypeOK, Slot, Start
<1>1. ASSUME NEW start \in 0 .. MaxStart
      PROVE  Unused(start) \in Slot /\ ~Unused(start).alive
  BY DEF Unused, AnyRss
<1>2. ASSUME NEW p \in Pid, NEW parent \in Pid \cup {NoPid}, Fork(p, parent)
      PROVE  TableTypeOK'
  BY <1>2 DEF Fork
<1>3. ASSUME NEW p \in Pid, Exit(p)
      PROVE  TableTypeOK'
  <2>1. \A q \in Pid : table[q] \in Slot
    OBVIOUS
  <2>2. ASSUME NEW q \in Pid
        PROVE  /\ [table[q] EXCEPT !.ppid = NoPid, !.parent_start = 0] \in Slot
               /\ [table[q] EXCEPT !.ppid = NoPid, !.parent_start = 0].alive = table[q].alive
               /\ [table[q] EXCEPT !.ppid = NoPid, !.parent_start = 0].start_time = table[q].start_time
    BY <2>1, OrphanSlot
  <2>3. Unused(table[p].start_time) \in Slot /\ ~Unused(table[p].start_time).alive
    BY <1>1, <2>1
  <2>4. table' \in [Pid -> Slot]
    BY <1>3, <2>1, <2>2, <2>3 DEF Exit
  <2>5. ASSUME NEW q \in Pid, table'[q].alive
        PROVE  table'[q].start_time # 0
    BY <1>3, <2>3, <2>5 DEF Exit
  <2>6. QED
    BY <2>4, <2>5
<1>4. ASSUME NEW p \in Pid, NEW a \in Addr, Connect(p, a) \/ Disconnect(p, a)
      PROVE  TableTypeOK'
  BY <1>4 DEF Connect, Disconnect
<1>5. ASSUME NEW p \in Pid, Resize(p)
      PROVE  TableTypeOK'
  BY <1>5 DEF Resize
<1>6. QED
  BY <1>2, <1>3, <1>4, <1>5 DEF TableNext

(* The pid's start time never goes back, so no run comes back either: the  *)
(* fact about the kernel that every comparison of start times rests on.    *)
LEMMA StartNeverFalls ==
    ASSUME TableTypeOK, TableNext, NEW p \in Pid
    PROVE  table'[p].start_time >= table[p].start_time
<1> USE ProcessTableAssumption DEF TableTypeOK, Slot
<1>1. ASSUME NEW q \in Pid, NEW parent \in Pid \cup {NoPid}, Fork(q, parent)
      PROVE  table'[p].start_time >= table[p].start_time
  BY <1>1 DEF Fork
<1>2. ASSUME NEW q \in Pid, Exit(q)
      PROVE  table'[p].start_time >= table[p].start_time
  <2>1. [table[p] EXCEPT !.ppid = NoPid, !.parent_start = 0].start_time = table[p].start_time
    BY OrphanSlot
  <2>2. Unused(table[p].start_time).start_time = table[p].start_time
    BY DEF Unused
  <2>3. table'[p].start_time = table[p].start_time
    BY <1>2, <2>1, <2>2 DEF Exit
  <2>4. table[p].start_time \in Int
    OBVIOUS
  <2>5. QED
    BY <2>3, <2>4
<1>3. ASSUME NEW q \in Pid, NEW a \in Addr, Connect(q, a) \/ Disconnect(q, a)
      PROVE  table'[p].start_time >= table[p].start_time
  BY <1>3 DEF Connect, Disconnect
<1>4. ASSUME NEW q \in Pid, Resize(q)
      PROVE  table'[p].start_time >= table[p].start_time
  BY <1>4 DEF Resize
<1>5. QED
  BY <1>1, <1>2, <1>3, <1>4 DEF TableNext
(* A free pid comes back to life as a later run only. *)
LEMMA BornLater ==
    ASSUME TableTypeOK, TableNext, NEW p \in Pid, ~table[p].alive, table'[p].alive
    PROVE  table'[p].start_time > table[p].start_time
<1> USE ProcessTableAssumption DEF TableTypeOK, Slot
<1>1. ASSUME NEW q \in Pid, NEW parent \in Pid \cup {NoPid}, Fork(q, parent)
      PROVE  table'[p].start_time > table[p].start_time
  BY <1>1 DEF Fork
<1>2. ASSUME NEW q \in Pid, Exit(q)
      PROVE  FALSE
  <2>1. [table[p] EXCEPT !.ppid = NoPid, !.parent_start = 0].alive = table[p].alive
    BY OrphanSlot
  <2>2. ~Unused(table[p].start_time).alive
    BY DEF Unused
  <2>3. QED
    BY <1>2, <2>1, <2>2 DEF Exit
<1>3. ASSUME NEW q \in Pid, NEW a \in Addr, Connect(q, a) \/ Disconnect(q, a)
      PROVE  FALSE
  BY <1>3 DEF Connect, Disconnect
<1>4. ASSUME NEW q \in Pid, Resize(q)
      PROVE  FALSE
  BY <1>4 DEF Resize
<1>5. QED
  BY <1>1, <1>2, <1>3, <1>4 DEF TableNext

(* A run that is over, or was missed, is over for good. *)
LEMMA GoneStaysGone ==
    ASSUME TableTypeOK, TableNext, NEW p \in Pid, NEW s \in Nat,
           s =< table[p].start_time, ~LiveKey(<<p, s>>)
    PROVE  ~LiveKey(<<p, s>>)'
<1>1. table[p].start_time \in Nat /\ table'[p].start_time \in Nat
  BY TableType, ProcessTableAssumption DEF TableTypeOK, Slot
<1>2. table'[p].start_time >= table[p].start_time
  BY StartNeverFalls
<1>3. SUFFICES ASSUME table'[p].alive, table'[p].start_time = s PROVE FALSE
  BY DEF LiveKey
<1>4. table[p].start_time = s
  BY <1>1, <1>2, <1>3
<1>5. ~table[p].alive
  BY <1>4 DEF LiveKey
<1>6. table'[p].start_time > table[p].start_time
  BY <1>3, <1>5, BornLater
<1>7. QED
  BY <1>1, <1>3, <1>4, <1>6
=============================================================================
