------------------------ MODULE SignalControl_proofs ------------------------
(***************************************************************************)
(* NeverABystander for every set of pids, every number of times a pid is   *)
(* used, and whatever the files answer.  The inductive invariant is    *)
(* SignalInvariant: between the confirmation and kill(2) the call is about *)
(* the confirmed pid and start time, and start times never fall.           *)
(***************************************************************************)
EXTENDS SignalControl, ProcessTable_proofs

(* A call of process(pid) keeps its pid, has a result when it ends, and    *)
(* reads nothing younger than the pid's process at that moment.            *)
LEMMA ReadProcessStep ==
    ASSUME TableTypeOK, AdapterInvariant, call.pid \in Pid, ReadProcess, UNCHANGED table
    PROVE  /\ AdapterInvariant'
           /\ call'.pid = call.pid
           /\ call'.file = "none" => call'.result # "none"
<1> DEFINE now == table[call.pid].start_time
           Typed(c) == /\ c \in [pid : Pid \cup {NoPid}, file : Files \cup {"none"},
                                 start_time : 0 .. MaxStart, runs : SUBSET Start,
                                 result : {"none", "ok", "Io", "PermissionDenied", "Parse"}]
                       /\ c.pid = call.pid /\ c.file # "stat"
                       /\ c.file = "none" => c.result # "none"
           Fine(c) == /\ Typed(c)
                      /\ c.start_time # 0 => c.start_time \in c.runs
                      /\ \A r \in c.runs : c.start_time =< r /\ r =< now
                      /\ c.start_time =< now
           Next(c) == /\ Typed(c)
                      /\ c.start_time = call.start_time /\ c.runs = call.runs
<1>1. /\ AdapterTypeOK
      /\ call.start_time # 0 => call.start_time \in call.runs
      /\ \A r \in call.runs : call.start_time =< r /\ r =< now
      /\ call.start_time =< now
      /\ call.file = "stat" => call.runs = {}
  BY DEF AdapterInvariant, Reading
<1>2. now \in 0 .. MaxStart /\ (table[call.pid].alive => now \in Start)
  BY ProcessTableAssumption DEF TableTypeOK, Slot, Start
<1>3. \A file \in Files \ {"stat"} : Next(To(file))
  BY <1>1 DEF AdapterTypeOK, To, Files
<1>4. \A result \in {"ok", "Io", "PermissionDenied", "Parse"} : Next(Done(result))
  BY <1>1 DEF AdapterTypeOK, Done, Files
<1>5. \A answer : Next(Failed(answer))
  BY <1>4 DEF Failed, ErrorOf
<1>6. ASSUME NEW c, Next(c) PROVE Fine(c)
  BY <1>1, <1>6
<1>7. ASSUME NEW c, Next(c), table[call.pid].alive PROVE Fine(Having(c))
  <2>1. /\ Having(c).runs = call.runs \cup {now} /\ Having(c).start_time = call.start_time
        /\ Typed(Having(c))
    BY <1>2, <1>7 DEF Having
  <2>2. call.start_time \in 0 .. MaxStart
    BY <1>1 DEF AdapterTypeOK
  <2>3. \A r \in call.runs \cup {now} : call.start_time =< r /\ r =< now
    BY <1>1, <1>2
  <2> HIDE DEF Typed, now
  <2>4. QED
    BY <1>1, <2>1, <2>2, <2>3
<1>8. \A file \in Files : "ok" \in Answer(call.pid, file) => table[call.pid].alive
  BY DEF Answer
<1>9. ASSUME ReadStat, table[call.pid].alive
      PROVE  Fine(Having([To("status") EXCEPT !.start_time = now]))
  <2>1. Next(To("status")) /\ call.runs = {}
    BY <1>1, <1>3, <1>9 DEF ReadStat, Required, Reading, Files
  <2> DEFINE c == [To("status") EXCEPT !.start_time = now]
  <2>2. Typed(c) /\ c.start_time = now /\ c.runs = {}
    BY <1>2, <2>1
  <2> HIDE DEF c
  <2>3. Typed(Having(c)) /\ Having(c).start_time = now /\ Having(c).runs = {now}
    BY <1>2, <1>9, <2>2 DEF Having
  <2>4. Fine(Having(c))
    <3> HIDE DEF Typed, now
    <3> QED
      BY <1>2, <2>3
  <2>5. QED
    BY <2>4 DEF c
<1> HIDE DEF Fine, Next, now
<1>10. ASSUME ReadStat PROVE Fine(call')
  BY <1>5, <1>6, <1>8, <1>9, <1>10 DEF ReadStat, Required, Files, now
<1>11. ASSUME NEW file \in Files, NEW next, NEW absent, Next(next), Next(absent),
              Required(file, next) \/ Optional(file, next, absent) \/ Absorbed(file, next)
       PROVE  Fine(call')
  BY <1>5, <1>6, <1>7, <1>8, <1>11 DEF Required, Optional, Absorbed
<1>12. ASSUME ReadIds PROVE Fine(call')
  BY <1>3, <1>11, <1>12 DEF ReadIds, Files
<1>13. ASSUME ReadCmdline PROVE Fine(call')
  BY <1>3, <1>11, <1>13 DEF ReadCmdline, Files
<1>14. ASSUME ReadStatm PROVE Fine(call')
  BY <1>3, <1>11, <1>14 DEF ReadStatm, Files
<1>15. ASSUME ReadSmapsRollup PROVE Fine(call')
  BY <1>3, <1>11, <1>15 DEF ReadSmapsRollup, Files
<1>16. ASSUME ReadVmSwap PROVE Fine(call')
  BY <1>3, <1>11, <1>16 DEF ReadVmSwap, Files
<1>17. ASSUME ReadCgroup PROVE Fine(call')
  BY <1>3, <1>11, <1>17 DEF ReadCgroup, Files
<1>18. ASSUME CountOpenFiles PROVE Fine(call')
  BY <1>4, <1>11, <1>18 DEF CountOpenFiles, Files
<1>19. Fine(call')
  BY <1>10, <1>12, <1>13, <1>14, <1>15, <1>16, <1>17, <1>18 DEF ReadProcess
<1>20. QED
  BY <1>19 DEF Fine, now, AdapterInvariant, AdapterTypeOK, Reading

(* The call of process(pid) is undisturbed by what the table does. *)
LEMMA AdapterWaits ==
    ASSUME TableTypeOK, TableTypeOK', AdapterInvariant, TableNext, UNCHANGED call
    PROVE  AdapterInvariant'
<1> USE ProcessTableAssumption DEF Start
<1>1. AdapterTypeOK /\ AdapterTypeOK'
  BY DEF AdapterInvariant, AdapterTypeOK
<1>2. ASSUME call.pid \in Pid
      PROVE  /\ \A r \in call.runs : r =< table'[call.pid].start_time
             /\ call.start_time =< table'[call.pid].start_time
  <2>1. table'[call.pid].start_time >= table[call.pid].start_time
    BY <1>2, StartNeverFalls
  <2>2. table[call.pid].start_time \in Int /\ table'[call.pid].start_time \in Int
    BY <1>2 DEF TableTypeOK, Slot
  <2>3. call.runs \subseteq Int /\ call.start_time \in Int
    BY <1>1 DEF AdapterTypeOK
  <2>4. QED
    BY <1>2, <2>1, <2>2, <2>3 DEF AdapterInvariant
<1>3. QED
  BY <1>1, <1>2 DEF AdapterInvariant, Reading

(* The property proper: a living run that the snapshot bears has been the  *)
(* pid's process at every one of its reads.                                *)
LEMMA SnapshotIsOfTheLiving ==
    ASSUME TableTypeOK, AdapterInvariant
    PROVE  SnapshotOfTheLiving
<1> SUFFICES ASSUME call.pid \in Pid, table[call.pid].alive,
                    table[call.pid].start_time = call.start_time
             PROVE  call.runs = {call.start_time}
  BY DEF SnapshotOfTheLiving, LiveKey
<1>1. call.start_time \in call.runs /\ call.start_time \in Int
  BY ProcessTableAssumption DEF TableTypeOK, Slot, AdapterInvariant, AdapterTypeOK
<1>2. \A r \in call.runs : r \in Int /\ call.start_time =< r /\ r =< call.start_time
  BY ProcessTableAssumption DEF AdapterInvariant, AdapterTypeOK, Start
<1>3. QED
  BY <1>1, <1>2

-----------------------------------------------------------------------------
LEMMA SignalInitially == SignalInit => SignalInvariant
<1> SUFFICES ASSUME SignalInit PROVE SignalInvariant
  OBVIOUS
<1> USE ProcessTableAssumption DEF SignalInit
<1>1. table \in [Pid -> Slot]
  <2>1. Unused(0) \in Slot
    BY DEF Unused, Slot, AnyRss
  <2>2. QED
    BY <2>1 DEF TableInit
<1>2. TableTypeOK
  BY <1>1 DEF TableTypeOK, TableInit, Unused
<1>3. AdapterTypeOK /\ AdapterInvariant
  BY DEF AdapterInvariant, AdapterTypeOK, NoCall, Files, Reading
<1>4. QED
  BY <1>2, <1>3 DEF SignalInvariant, SignalTypeOK, Signalling, NoCall, NeverABystander

(* A confirmed run tells a call in progress from none. *)
LEMMA ConfirmedIsARun ==
    ASSUME SignalTypeOK, Signalling
    PROVE  /\ signalling \in [confirmed : Key, expected : Start, outcome : Outcomes \cup {"none"}]
           /\ signalling.confirmed[1] \in Pid
           /\ signalling.confirmed[2] \in Start
BY DEF SignalTypeOK, Signalling, Key

LEMMA SignalStep == SignalInvariant /\ [SignalNext]_signalVars => SignalInvariant'
<1> SUFFICES ASSUME SignalInvariant, [SignalNext]_signalVars
             PROVE  SignalInvariant'
  OBVIOUS
<1> USE ProcessTableAssumption DEF Start
<1>1. SignalTypeOK /\ TableTypeOK /\ AdapterTypeOK /\ NeverABystander
  BY DEF SignalInvariant, SignalTypeOK
<1>2. ASSUME TableNext, UNCHANGED <<call, signalling, sent>>
      PROVE  SignalInvariant'
  <2>1. TableTypeOK'
    BY <1>1, <1>2, TableType
  <2>2. SignalTypeOK'
    BY <1>1, <1>2, <2>1 DEF SignalTypeOK, AdapterTypeOK
  <2>3. AdapterInvariant'
    BY <1>1, <1>2, <2>1, AdapterWaits DEF SignalInvariant
  <2>4. QED
    BY <1>2, <2>2, <2>3 DEF SignalInvariant, Signalling, NeverABystander, Reading
<1>3. ASSUME NEW k \in Key, Confirm(k, k[2])
      PROVE  SignalInvariant'
  <2>1. k[1] \in Pid /\ k[2] \in Start
    BY DEF Key
  <2>2. AdapterTypeOK' /\ call'.pid = k[1] /\ call'.file = "stat"
    <3>1. call' = [pid |-> k[1], file |-> "stat", start_time |-> 0, runs |-> {},
                   result |-> "none"]
      BY <1>3 DEF Confirm, Begin, NoCall
    <3>2. QED
      BY <2>1, <3>1 DEF AdapterTypeOK, Files
  <2>3. /\ TableTypeOK' /\ table'[k[1]].start_time \in Nat
        /\ AdapterInvariant'
    BY <1>1, <1>3, <2>1, <2>2
       DEF Confirm, Begin, NoCall, TableTypeOK, Slot, AdapterInvariant
  <2>4. /\ signalling'.confirmed = k /\ signalling'.expected = k[2]
        /\ SignalTypeOK'
    BY <1>1, <1>3, <2>1, <2>2, <2>3 DEF Confirm, SignalTypeOK
  <2>5. QED
    BY <1>1, <1>3, <2>2, <2>3, <2>4 DEF SignalInvariant, NeverABystander, Confirm, Reading
<1>4. CASE ReadLive
  <2>1. Signalling /\ call.pid = signalling.confirmed[1] /\ call.pid \in Pid
    BY <1>1, <1>4, ConfirmedIsARun DEF ReadLive, SignalInvariant
  <2>2. /\ AdapterInvariant'
        /\ call'.pid = call.pid
        /\ call'.file = "none" => call'.result # "none"
    BY <1>1, <1>4, <2>1, ReadProcessStep DEF ReadLive, SignalInvariant
  <2>3. SignalTypeOK'
    BY <1>1, <1>4, <2>2 DEF ReadLive, SignalTypeOK, TableTypeOK, AdapterInvariant
  <2>4. QED
    BY <1>1, <1>4, <2>1, <2>2, <2>3
       DEF ReadLive, SignalInvariant, Signalling, NeverABystander, Reading
<1>5. ASSUME NEW outcome \in Outcomes, Signalling, Outcome(outcome), UNCHANGED <<table, call, sent>>
      PROVE  SignalInvariant'
  <2>1. /\ signalling' \in [confirmed : Key, expected : Start, outcome : Outcomes \cup {"none"}]
        /\ signalling'.confirmed = signalling.confirmed
        /\ signalling'.expected = signalling.expected
    BY <1>1, <1>5, ConfirmedIsARun DEF Outcome
  <2>2. SignalTypeOK'
    BY <1>1, <1>5, <2>1 DEF SignalTypeOK, TableTypeOK, AdapterTypeOK
  <2>3. AdapterInvariant'
    BY <1>5 DEF SignalInvariant, AdapterInvariant, AdapterTypeOK, Reading
  <2>4. QED
    BY <1>5, <2>1, <2>2, <2>3 DEF SignalInvariant, NeverABystander, Reading
<1>6. CASE ReadFailed
  BY <1>1, <1>5, <1>6 DEF ReadFailed, Answered, AdapterTypeOK, Outcomes, SignalInvariant
<1>7. CASE Refuse
  BY <1>5, <1>7 DEF Refuse, Answered, Outcomes
<1>8. CASE Kill
  <2>1. Signalling /\ SameRun /\ UNCHANGED <<table, call>>
    BY <1>8 DEF Kill, Answered
  <2>2. CASE UNCHANGED sent
    BY <1>5, <1>8, <2>1, <2>2 DEF Kill, Outcomes
  <2>3. CASE sent' # sent
    <3> DEFINE hit == [confirmed |-> signalling.confirmed, read |-> call.start_time,
                       reached |-> table[call.pid].start_time]
    <3>1. sent' = sent \cup {hit} /\ Outcome("ok") /\ table[call.pid].alive
      BY <1>8, <2>3 DEF Kill
    <3>2. call.pid \in Pid /\ call.start_time = signalling.confirmed[2] /\ call.start_time \in Start
      BY <1>1, <2>1, ConfirmedIsARun DEF SameRun, SignalInvariant
    <3>3. call.start_time =< table[call.pid].start_time /\ table[call.pid].start_time \in Start
      BY <1>1, <3>1, <3>2 DEF SignalInvariant, AdapterInvariant, TableTypeOK, Slot
    <3>4. hit \in Hit /\ hit.read = hit.confirmed[2] /\ hit.reached >= hit.read
      BY <1>1, <2>1, <3>2, <3>3, ConfirmedIsARun DEF Hit
    <3> HIDE DEF hit
    <3>5. sent' \subseteq Hit /\ NeverABystander'
      BY <1>1, <3>1, <3>4 DEF SignalTypeOK, NeverABystander
    <3>6. /\ signalling' \in [confirmed : Key, expected : Start, outcome : Outcomes \cup {"none"}]
          /\ signalling'.confirmed = signalling.confirmed
          /\ signalling'.expected = signalling.expected
      BY <1>1, <2>1, <3>1, ConfirmedIsARun DEF Outcome, Outcomes
    <3>7. SignalTypeOK'
      BY <1>1, <2>1, <3>5, <3>6 DEF SignalTypeOK, TableTypeOK, AdapterTypeOK
    <3>8. AdapterInvariant'
      BY <2>1 DEF SignalInvariant, AdapterInvariant, AdapterTypeOK, Reading
    <3>9. QED
      BY <2>1, <3>5, <3>6, <3>7, <3>8 DEF SignalInvariant, Reading
  <2>4. QED
    BY <2>2, <2>3
<1>9. CASE Return
  BY <1>1, <1>9 DEF Return, SignalInvariant, SignalTypeOK, Signalling, NeverABystander,
     TableTypeOK, AdapterTypeOK, AdapterInvariant, Reading
<1>10. CASE UNCHANGED signalVars
  BY <1>1, <1>10 DEF signalVars, SignalInvariant, SignalTypeOK, Signalling, NeverABystander,
     TableTypeOK, AdapterTypeOK, AdapterInvariant, Reading
<1>11. QED
  BY <1>2, <1>3, <1>4, <1>6, <1>7, <1>8, <1>9, <1>10 DEF SignalNext, Deliver

(* In every behaviour of send_signal_verified, for any number of pids and  *)
(* of reuses, the variables keep their types.                              *)
THEOREM SignalTypeCorrect == SignalSpec => []SignalTypeOK
<1>1. SignalInvariant => SignalTypeOK
  BY DEF SignalInvariant
<1>2. QED
  BY <1>1, SignalInitially, SignalStep, PTL DEF SignalSpec

(* No signal reaches a process that the user was not shown unless it took  *)
(* the pid after its start time was read again.                            *)
THEOREM BystandersAreSafe == SignalSpec => []NeverABystander
<1>1. SignalInvariant => NeverABystander
  BY DEF SignalInvariant
<1>2. QED
  BY <1>1, SignalInitially, SignalStep, PTL DEF SignalSpec

(* Whatever the table does between the files of process(pid), and however  *)
(* they fail: what was read under the start time of the process that has   *)
(* the pid is all of that process.                                         *)
THEOREM LiveSnapshotsAreWhole == SignalSpec => []SnapshotOfTheLiving
<1>1. SignalInvariant => SnapshotOfTheLiving
  BY SnapshotIsOfTheLiving DEF SignalInvariant, SignalTypeOK
<1>2. QED
  BY <1>1, SignalInitially, SignalStep, PTL DEF SignalSpec
=============================================================================
