-------------------------- MODULE ProcessView_proofs --------------------------
(***************************************************************************)
(* What every client of sher-pe-intelligence may rely on, whatever it does *)
(* and in which order: ViewInvariant is kept by a refresh, by each step of *)
(* a sample or a signal, and by the process table moving on.               *)
(***************************************************************************)
EXTENDS ProcessView, SignalControl_proofs

(* The steps of the sampling tools. *)
SampleStepOf == (\E tool \in Tools, p \in Pid : Sample(tool, p)) \/ SamplingProceeds \/ Taken

SampleRecord ==
    [tool : Tools, pid : Pid, run : 0 .. MaxStart,
     stage : {"spawn", "running", "report", "returned"},
     status : Statuses \cup {"none"},
     covered : {"nothing", "unwritten", "full", "capped", "target_exited", "cut"},
     result : {"none", "ok", "Io", "Parse"}]

(* A sample in progress or returned is told apart from none by its stage.  *)
LEMMA SampleInProgress ==
    ASSUME SamplingTypeOK, sample.stage # "idle" \/ sample # NoSample
    PROVE  /\ sample.tool \in Tools /\ sample.pid \in Pid /\ sample.run \in 0 .. MaxStart
           /\ sample.stage \in {"spawn", "running", "report", "returned"}
           /\ sample \in SampleRecord
BY DEF SamplingTypeOK, NoSample, SampleRecord

LEMMA SamplingInitially ==
    ASSUME TableInit, SamplingInit
    PROVE  SamplingInvariant
BY ProcessTableAssumption DEF SamplingInit, SamplingInvariant, SamplingTypeOK, TempFilesRemoved, NoSample, Sampled

(* While the table moves on, the traced run stays over once it is over.    *)
LEMMA TableKeepsSampling ==
    ASSUME TableTypeOK, SamplingInvariant, TableNext, UNCHANGED <<sample, temp_file>>
    PROVE  SamplingInvariant'
<1>1. ASSUME NEW p \in Pid
      PROVE  /\ table[p].start_time \in Nat /\ table'[p].start_time \in Nat
             /\ table'[p].start_time >= table[p].start_time
  BY TableType, StartNeverFalls, ProcessTableAssumption DEF TableTypeOK, Slot
<1>2. ASSUME sample.covered = "target_exited"
      PROVE  ~LiveKey(<<sample.pid, sample.run>>)'
  <2>1. sample # NoSample
    BY <1>2 DEF NoSample
  <2>2. sample.pid \in Pid /\ sample.run \in 0 .. MaxStart
    BY <2>1, SampleInProgress DEF SamplingInvariant
  <2>3. sample.run \in Nat /\ sample.run =< table[sample.pid].start_time
    BY <2>2, ProcessTableAssumption DEF SamplingInvariant
  <2>4. ~LiveKey(<<sample.pid, sample.run>>)
    BY <1>2 DEF SamplingInvariant
  <2>5. ASSUME NEW p, NEW s, p = sample.pid, s = sample.run
        PROVE  ~LiveKey(<<p, s>>)'
    BY <2>2, <2>3, <2>4, <2>5, GoneStaysGone
  <2>6. QED
    BY <2>5 DEF LiveKey
<1>3. sample.pid \in Pid => sample.run \in Nat
  BY ProcessTableAssumption DEF SamplingInvariant, SamplingTypeOK, NoSample
<1>4. QED
  BY <1>1, <1>2, <1>3 DEF SamplingInvariant, SamplingTypeOK, TempFilesRemoved, Sampled

(* What is made of an exit status: only an accepted one gives a result.    *)
LEMMA ConcludeKeepsSampling ==
    ASSUME TableTypeOK, SamplingInvariant, sample.stage = "running", UNCHANGED table,
           NEW status \in Statuses, NEW covered \in {"full", "capped", "target_exited", "cut"},
           Conclude(status, covered),
           covered = "target_exited" =>
             sample.tool # "bpftrace" /\ ~LiveKey(<<sample.pid, sample.run>>),
           covered = "capped" => sample.tool = "bpftrace",
           covered = "cut" /\ Accepted(status) =>
             sample.tool = "bpftrace" /\ status \in {"0", "SIGKILL"}
    PROVE  SamplingInvariant'
<1>1. sample # NoSample
  BY DEF NoSample
<1>2. /\ sample \in SampleRecord
      /\ sample.pid \in Pid
  BY <1>1, SampleInProgress DEF SamplingInvariant
<1> DEFINE ended == [sample EXCEPT !.status = status, !.covered = covered]
<1>a. /\ ended \in SampleRecord
      /\ ended.tool = sample.tool /\ ended.pid = sample.pid /\ ended.run = sample.run
      /\ ended.covered = covered /\ ended.status = status /\ ended.result = sample.result
  BY <1>2 DEF SampleRecord
<1>b. Ended(status, covered) = ended
  BY DEF Ended
<1> HIDE DEF ended
<1>3. /\ sample' \in SampleRecord
      /\ sample'.status = status
      /\ sample'.tool = sample.tool /\ sample'.pid = sample.pid /\ sample'.run = sample.run
      /\ sample'.covered = covered
      /\ sample'.stage \in {"report", "returned"}
      /\ sample'.stage = "report" \/ sample'.result = "ok" => Accepted(status)
      /\ sample'.stage = "returned" => ~temp_file'
      /\ temp_file' \in BOOLEAN
  <2>1. CASE Accepted(status) /\ sample.tool = "perf"
    <3>1. sample' = [ended EXCEPT !.stage = "report"] /\ UNCHANGED temp_file
      BY <1>b, <2>1 DEF Conclude
    <3>2. QED
      BY <1>a, <2>1, <3>1 DEF SampleRecord, SamplingInvariant, SamplingTypeOK
  <2>2. CASE ~(Accepted(status) /\ sample.tool = "perf")
    <3> DEFINE result == IF Accepted(status) THEN "ok" ELSE "Io"
    <3>1. sample' = [ended EXCEPT !.stage = "returned", !.result = result] /\ temp_file' = FALSE
      BY <1>b, <2>2 DEF Conclude
    <3>2. result \in {"ok", "Io"} /\ (result = "ok" => Accepted(status))
      OBVIOUS
    <3> HIDE DEF result
    <3>3. QED
      BY <1>a, <3>1, <3>2 DEF SampleRecord
  <2>3. QED
    BY <2>1, <2>2
<1>4. QED
  <2>1. SamplingTypeOK' /\ TempFilesRemoved'
    BY <1>3 DEF SamplingTypeOK, TempFilesRemoved, Sampled, SampleRecord
  <2>2. sample'.run =< table'[sample'.pid].start_time
    BY <1>2, <1>3 DEF SamplingInvariant
  <2>3. covered = "target_exited" => ~LiveKey(<<sample.pid, sample.run>>)'
    BY <1>3 DEF LiveKey
  <2>4. QED
    BY <1>3, <2>1, <2>2, <2>3 DEF SamplingInvariant, LiveKey

(* A step of a sample, in which the table stands still. *)
LEMMA SamplingStep ==
    ASSUME TableTypeOK, SamplingInvariant, SampleStepOf, UNCHANGED table
    PROVE  SamplingInvariant'
<1>1. \A p \in Pid : table[p].start_time \in 0 .. MaxStart
  BY ProcessTableAssumption DEF TableTypeOK, Slot
<1>2. ASSUME sample # NoSample
      PROVE  sample \in SampleRecord /\ sample.pid \in Pid /\ sample.run =< table[sample.pid].start_time
  BY <1>2, SampleInProgress DEF SamplingInvariant
<1>3. ASSUME NEW tool \in Tools, NEW p \in Pid, Sample(tool, p)
      PROVE  SamplingInvariant'
  <2>1. /\ sample' \in SampleRecord /\ sample'.pid = p /\ sample'.run = 0
        /\ sample'.covered \in {"nothing", "unwritten"}
        /\ sample'.stage \in {"spawn", "returned"}
        /\ sample'.stage = "returned" <=> sample'.covered = "unwritten"
        /\ sample'.result # "ok"
        /\ temp_file' \in BOOLEAN
    <3> DEFINE begun == [NoSample EXCEPT !.tool = tool, !.pid = p, !.stage = "spawn"]
    <3>1. begun = [tool |-> tool, pid |-> p, run |-> 0, stage |-> "spawn",
                   status |-> "none", covered |-> "nothing", result |-> "none"]
      <4> DEFINE a == [NoSample EXCEPT !.tool = tool]
                 b == [a EXCEPT !.pid = p]
                 c == [b EXCEPT !.stage = "spawn"]
      <4>1. a = [tool |-> tool, pid |-> NoPid, run |-> 0, stage |-> "idle",
                 status |-> "none", covered |-> "nothing", result |-> "none"]
        BY DEF NoSample
      <4>2. c = begun
        BY Zenon
      <4> HIDE DEF a
      <4>3. b = [tool |-> tool, pid |-> p, run |-> 0, stage |-> "idle",
                 status |-> "none", covered |-> "nothing", result |-> "none"]
        BY <4>1
      <4> HIDE DEF b
      <4>4. c = [tool |-> tool, pid |-> p, run |-> 0, stage |-> "spawn",
                 status |-> "none", covered |-> "nothing", result |-> "none"]
        BY <4>3
      <4>5. QED
        BY <4>2, <4>4
    <3> HIDE DEF begun
    <3>2. \/ sample' = begun /\ temp_file' \in BOOLEAN
          \/ /\ sample' = [begun EXCEPT !.stage = "returned", !.covered = "unwritten",
                                        !.result = "Io"]
             /\ temp_file' \in BOOLEAN
      BY <1>3 DEF Sample, begun
    <3>3. CASE sample' = begun
      BY <3>1, <3>2, <3>3, ProcessTableAssumption DEF SampleRecord
    <3>4. CASE sample' # begun
      <4>1. sample' = [tool |-> tool, pid |-> p, run |-> 0, stage |-> "returned",
                       status |-> "none", covered |-> "unwritten", result |-> "Io"]
        BY <3>1, <3>2, <3>4
      <4>2. QED
        BY <3>2, <4>1, ProcessTableAssumption DEF SampleRecord
    <3>5. QED
      BY <3>3, <3>4
  <2>2. 0 =< table'[p].start_time
    BY <1>1
  <2>3. QED
    BY <2>1, <2>2, ProcessTableAssumption
       DEF SamplingInvariant, SamplingTypeOK, TempFilesRemoved, Sampled, SampleRecord
<1>4. CASE SpawnFails
  <2>1. sample # NoSample
    BY <1>4 DEF SpawnFails, NoSample
  <2>2. /\ sample' \in SampleRecord /\ sample'.pid = sample.pid /\ sample'.run = sample.run
        /\ sample'.covered = sample.covered /\ sample'.tool = sample.tool /\ sample'.result = "Io"
        /\ sample'.stage = "returned" /\ temp_file' = FALSE
    BY <1>2, <1>4, <2>1 DEF SpawnFails, Results, SampleRecord
  <2>3. QED
    BY <1>2, <2>1, <2>2, ProcessTableAssumption
       DEF SamplingInvariant, SamplingTypeOK, TempFilesRemoved, Sampled, SampleRecord, LiveKey
<1>5. CASE Spawn
  <2>1. sample # NoSample
    BY <1>5 DEF Spawn, NoSample
  <2>2. /\ sample' \in SampleRecord /\ sample'.pid = sample.pid
        /\ sample'.run = table[sample.pid].start_time
        /\ sample'.covered = "nothing" /\ sample'.result = sample.result
        /\ sample'.tool = sample.tool
        /\ sample'.stage = "running" /\ temp_file' \in BOOLEAN
    BY <1>1, <1>2, <1>5, <2>1 DEF Spawn, SamplingInvariant, SampleRecord
  <2>3. QED
    BY <1>1, <1>2, <1>5, <2>1, <2>2, ProcessTableAssumption
       DEF Spawn, SamplingInvariant, SamplingTypeOK, TempFilesRemoved, Sampled, SampleRecord
<1>6. CASE TimeUp
  <2>1. PICK status \in {"0", "124", "SIGKILL"}, covered \in {"full", "capped"} :
          /\ Conclude(status, covered)
          /\ covered = "capped" => sample.tool = "bpftrace"
    BY <1>6 DEF TimeUp
  <2>2. sample.stage = "running"
    BY <1>6 DEF TimeUp
  <2>3. QED
    BY <2>1, <2>2, ConcludeKeepsSampling DEF Statuses
<1>7. CASE TargetExits
  BY <1>7, ConcludeKeepsSampling DEF TargetExits, Statuses
<1>8. CASE ToolDies
  <2>1. PICK status \in {"0", "other", "SIGKILL"} :
          Conclude(status, "cut") /\ (status = "0" => sample.tool = "bpftrace")
    BY <1>8 DEF ToolDies
  <2>2. sample.stage = "running" /\ sample.tool \in Tools
    BY <1>8, SampleInProgress DEF ToolDies, SamplingInvariant, NoSample
  <2>3. Accepted(status) => sample.tool = "bpftrace" /\ status \in {"0", "SIGKILL"}
    BY <2>1, <2>2 DEF Accepted, Tools
  <2>4. QED
    BY <2>1, <2>2, <2>3, ConcludeKeepsSampling DEF Statuses
<1>9. CASE Report
  <2>1. sample # NoSample
    BY <1>9 DEF Report, NoSample
  <2>2. /\ sample' \in SampleRecord /\ sample'.pid = sample.pid /\ sample'.run = sample.run
        /\ sample'.covered = sample.covered /\ sample'.tool = sample.tool
        /\ sample'.status = sample.status
        /\ sample'.stage = "returned" /\ temp_file' = FALSE
    BY <1>2, <1>9, <2>1 DEF Report, Results, SampleRecord
  <2>3. QED
    BY <1>2, <1>9, <2>1, <2>2, ProcessTableAssumption
       DEF Report, SamplingInvariant, SamplingTypeOK, TempFilesRemoved, Sampled, SampleRecord, LiveKey
<1>10. CASE Taken
  BY <1>10, ProcessTableAssumption
     DEF Taken, SamplingInvariant, SamplingTypeOK, TempFilesRemoved, NoSample, Sampled
<1>11. QED
  BY <1>3, <1>4, <1>5, <1>6, <1>7, <1>8, <1>9, <1>10 DEF SampleStepOf, SamplingProceeds

-----------------------------------------------------------------------------
(* Everything a client may do to what it sees.  A signal is confirmed for  *)
(* a run that the pid has or had.                                          *)
SignalStepOf ==
    \/ \E k \in Key : k[2] =< table[k[1]].start_time /\ Confirm(k, k[2])
    \/ Deliver
    \/ Return

ViewNext ==
    \/ TableNext /\ UNCHANGED <<call, signalling, sent, sample, temp_file, current>>
    \/ Refreshed /\ UNCHANGED <<table, call, signalling, sent, sample, temp_file>>
    \/ SampleStepOf /\ UNCHANGED <<table, call, signalling, sent, current>>
    \/ SignalStepOf /\ UNCHANGED <<sample, temp_file, current>>
    \/ View

LEMMA ViewIsASignalStep == ViewNext => [SignalNext]_signalVars
BY DEF ViewNext, SignalStepOf, SignalNext, signalVars, View, viewVars

LEMMA SignalKeepsTable == SignalStepOf => UNCHANGED table
<1>1. ASSUME NEW k \in Key, Confirm(k, k[2]) PROVE UNCHANGED table
  BY <1>1 DEF Confirm
<1>2. Deliver => UNCHANGED table
  BY DEF Deliver, ReadLive, ReadFailed, Refuse, Kill
<1>3. Return => UNCHANGED table
  BY DEF Return
<1>4. QED
  BY <1>1, <1>2, <1>3 DEF SignalStepOf

LEMMA ViewInitially == ViewInit => ViewInvariant
<1> SUFFICES ASSUME ViewInit PROVE ViewInvariant
  OBVIOUS
<1>1. SignalInvariant
  BY SignalInitially DEF ViewInit
<1>2. SamplingInvariant
  BY SamplingInitially DEF ViewInit, SignalInit
<1>3. QED
  BY <1>1, <1>2
     DEF ViewInit, SignalInit, NoCall, ViewInvariant, ViewTypeOK, SignalInvariant,
         SamplingInvariant, Listed

LEMMA ViewStep == ViewInvariant /\ ViewNext => ViewInvariant'
<1> SUFFICES ASSUME ViewInvariant, ViewNext PROVE ViewInvariant'
  OBVIOUS
<1>1. TableTypeOK /\ SignalInvariant /\ SamplingInvariant
  BY DEF ViewInvariant, SignalInvariant, SignalTypeOK
<1>2. SignalInvariant'
  BY <1>1, ViewIsASignalStep, SignalStep
<1>3. SamplingInvariant'
  <2>1. CASE TableNext /\ UNCHANGED <<sample, temp_file>>
    BY <1>1, <2>1, TableKeepsSampling
  <2>2. CASE SampleStepOf /\ UNCHANGED table
    BY <1>1, <2>2, SamplingStep
  <2>3. CASE UNCHANGED <<table, sample, temp_file>>
    BY <1>1, <2>3
       DEF SamplingInvariant, SamplingTypeOK, TempFilesRemoved, Sampled, SampleRecord, LiveKey
  <2>4. UNCHANGED table \/ (TableNext /\ UNCHANGED <<sample, temp_file>>)
    BY SignalKeepsTable DEF ViewNext, View, viewVars
  <2>5. QED
    BY <2>1, <2>2, <2>3, <2>4 DEF ViewNext, View, viewVars
<1>4. ASSUME call'.pid = NoPid
      PROVE  call'.result = "none"
  <2>1. CASE UNCHANGED call
    BY <1>4, <2>1 DEF ViewInvariant
  <2>2. CASE \E k \in Key : Confirm(k, k[2])
    <3>1. PICK k \in Key : Begin(k[1])
      BY <2>2 DEF Confirm
    <3> DEFINE b == [NoCall EXCEPT !.pid = k[1]]
    <3>2. b.result = "none" /\ DOMAIN b = DOMAIN NoCall /\ "result" \in DOMAIN b
      BY DEF NoCall
    <3>3. call' = [b EXCEPT !.file = "stat"]
      BY <3>1, Zenon DEF Begin
    <3> HIDE DEF b
    <3>4. QED
      BY <3>2, <3>3
  <2>3. CASE ReadLive
    <3>1. call.pid \in Pid
      BY <1>1, <2>3, ConfirmedIsARun DEF ReadLive, SignalInvariant
    <3>2. call'.pid = call.pid
      BY <1>1, <2>3, <3>1, ReadProcessStep DEF ReadLive, SignalInvariant, SignalTypeOK
    <3>3. QED
      BY <1>4, <3>1, <3>2, ProcessTableAssumption
  <2>4. QED
    BY <2>1, <2>2, <2>3
       DEF ViewNext, View, viewVars, SignalStepOf, Deliver, ReadFailed, Refuse, Kill, Return
<1>5. /\ DOMAIN current' \subseteq Pid
      /\ \A p \in DOMAIN current' :
           /\ current'[p] \in [start_time : Start, ppid : Pid \cup {NoPid}]
           /\ current'[p].start_time =< table'[p].start_time
  <2>1. /\ DOMAIN current \subseteq Pid
        /\ \A p \in DOMAIN current :
             /\ current[p] \in [start_time : Start, ppid : Pid \cup {NoPid}]
             /\ current[p].start_time =< table[p].start_time
    BY DEF ViewInvariant, ViewTypeOK, Listed
  <2>2. CASE Refreshed /\ UNCHANGED table
    <3>1. \A p \in Alive : /\ table[p].start_time \in Start /\ table[p].start_time =< table[p].start_time
                           /\ table[p].ppid \in Pid \cup {NoPid}
      BY <1>1, ProcessTableAssumption DEF TableTypeOK, Slot, Alive, Start
    <3>a. PICK listed \in SUBSET Alive :
            \E parent \in [listed -> Pid \cup {NoPid}] :
              current' = [p \in listed |-> [start_time |-> table[p].start_time, ppid |-> parent[p]]]
      BY <2>2 DEF Refreshed
    <3>2. PICK parent \in [listed -> Pid \cup {NoPid}] :
            current' = [p \in listed |-> [start_time |-> table[p].start_time, ppid |-> parent[p]]]
      BY <3>a
    <3>3. /\ DOMAIN current' = listed
          /\ \A p \in listed : /\ current'[p] \in [start_time : Start, ppid : Pid \cup {NoPid}]
                              /\ current'[p].start_time = table[p].start_time
      BY <3>1, <3>2
    <3>4. QED
      BY <2>2, <3>1, <3>3 DEF Alive
  <2>3. CASE TableNext /\ UNCHANGED current
    <3>1. ASSUME NEW p \in Pid
          PROVE  table'[p].start_time >= table[p].start_time /\ table'[p].start_time \in Int
                 /\ table[p].start_time \in Int
      BY <1>1, <2>3, TableType, StartNeverFalls, ProcessTableAssumption DEF TableTypeOK, Slot
    <3>2. QED
      BY <2>1, <2>3, <3>1 DEF Start
  <2>4. CASE UNCHANGED <<table, current>>
    BY <2>1, <2>4
  <2>5. QED
    BY <2>2, <2>3, <2>4, SignalKeepsTable DEF ViewNext, View, viewVars
<1>6. QED
  BY <1>2, <1>3, <1>4, <1>5
     DEF ViewInvariant, ViewTypeOK, SignalInvariant, SamplingInvariant, Listed

-----------------------------------------------------------------------------
(* A sample that goes on is of the same pid, and of the run it traced or   *)
(* of the one that has the pid when the tool attaches.                     *)
LEMMA SampleKeepsTarget ==
    ASSUME SamplingInvariant, SamplingProceeds
    PROVE  /\ sample # NoSample
           /\ sample'.pid = sample.pid
           /\ sample'.run \in {sample.run, table[sample.pid].start_time}
<1>1. sample.stage \in {"spawn", "running", "report"}
  BY DEF SamplingProceeds, SpawnFails, Spawn, TimeUp, TargetExits, ToolDies, Report
<1>2. sample # NoSample
  BY <1>1 DEF NoSample
<1>3. sample \in SampleRecord
  BY <1>2, SampleInProgress DEF SamplingInvariant
<1>4. ASSUME NEW status, NEW covered, Conclude(status, covered)
      PROVE  sample'.pid = sample.pid /\ sample'.run = sample.run
  <2> DEFINE ended == [sample EXCEPT !.status = status, !.covered = covered]
  <2>1. /\ DOMAIN ended = DOMAIN sample
        /\ ended.pid = sample.pid /\ ended.run = sample.run
    BY <1>3 DEF SampleRecord
  <2>2. Ended(status, covered) = ended
    BY DEF Ended
  <2> HIDE DEF ended
  <2>3. \/ sample' = [ended EXCEPT !.stage = "report"]
        \/ \E result : sample' = [ended EXCEPT !.stage = "returned", !.result = result]
    BY <1>4, <2>2 DEF Conclude
  <2>4. CASE sample' = [ended EXCEPT !.stage = "report"]
    BY <1>3, <2>1, <2>4 DEF SampleRecord
  <2>5. ASSUME NEW result, sample' = [ended EXCEPT !.stage = "returned", !.result = result]
        PROVE  sample'.pid = sample.pid /\ sample'.run = sample.run
    BY <1>3, <2>1, <2>5 DEF SampleRecord
  <2>6. QED
    BY <2>3, <2>4, <2>5
<1>5. CASE TimeUp \/ TargetExits \/ ToolDies
  BY <1>2, <1>4, <1>5 DEF TimeUp, TargetExits, ToolDies
<1>6. CASE SpawnFails \/ Report
  BY <1>2, <1>3, <1>6 DEF SpawnFails, Report, Results, SampleRecord
<1>7. CASE Spawn
  BY <1>2, <1>3, <1>7 DEF Spawn, SampleRecord
<1>8. QED
  BY <1>5, <1>6, <1>7 DEF SamplingProceeds

(* A signal that goes on is for the same run; its outcome is "ok" just     *)
(* when it has been delivered in the same step, as confirmed.              *)
LEMMA DeliverKeepsTarget ==
    ASSUME SignalInvariant, Deliver
    PROVE  /\ Signalling /\ Signalling'
           /\ signalling'.confirmed = signalling.confirmed
           /\ \/ UNCHANGED <<signalling, sent>>
              \/ /\ signalling.outcome = "none"
                 /\ signalling'.outcome # "ok" /\ UNCHANGED sent
              \/ /\ signalling.outcome = "none"
                 /\ signalling'.outcome = "ok"
                 /\ \E hit : sent' = sent \cup {hit} /\ hit.confirmed = signalling.confirmed
<1>1. CASE ReadLive
  BY <1>1 DEF ReadLive, Signalling
<1>2. ASSUME Signalling, NEW outcome, Outcome(outcome)
      PROVE  /\ signalling'.confirmed = signalling.confirmed
             /\ signalling'.outcome = outcome
             /\ signalling'.confirmed[1] \in Pid
  BY <1>2, ConfirmedIsARun DEF SignalInvariant, Outcome
<1>3. ASSUME signalling'.confirmed[1] \in Pid
      PROVE  Signalling'
  BY <1>3, ProcessTableAssumption DEF Signalling, NoSignal
<1>4. CASE ReadFailed
  BY <1>2, <1>3, <1>4 DEF ReadFailed, Answered
<1>5. CASE Refuse
  BY <1>2, <1>3, <1>5 DEF Refuse, Answered
<1>6. CASE Kill
  <2>1. Signalling /\ signalling.outcome = "none"
    BY <1>6 DEF Kill, Answered
  <2>2. CASE Outcome("ok")
    <3>1. \E hit : sent' = sent \cup {hit} /\ hit.confirmed = signalling.confirmed
      <4>1. signalling'.outcome = "ok"
        BY <1>2, <2>1, <2>2
      <4>2. ~Outcome("PermissionDenied") /\ ~Outcome("NotFound")
        BY <1>2, <2>1, <4>1
      <4>3. PICK hit : sent' = sent \cup {hit} /\ hit = [confirmed |-> signalling.confirmed,
              read |-> call.start_time, reached |-> table[call.pid].start_time]
        BY <1>6, <4>2 DEF Kill
      <4>4. hit.confirmed = signalling.confirmed
        BY <4>3
      <4>5. QED
        BY <4>3, <4>4
    <3>2. QED
      BY <1>2, <1>3, <2>1, <2>2, <3>1
  <2>3. CASE UNCHANGED sent /\ (Outcome("PermissionDenied") \/ Outcome("NotFound"))
    BY <1>2, <1>3, <2>1, <2>3
  <2>4. QED
    BY <1>6, <2>2, <2>3 DEF Kill
<1>7. QED
  BY <1>1, <1>4, <1>5, <1>6 DEF Deliver

(* What the properties of samples and signals rest on. *)
LEMMA SamplesAreComplete == SamplingInvariant => SampleIsComplete /\ TempFilesRemoved
BY DEF SamplingInvariant, SampleIsComplete

LEMMA NobodyIsHit == ViewInvariant => NeverABystander
BY DEF ViewInvariant, SignalInvariant
=============================================================================
