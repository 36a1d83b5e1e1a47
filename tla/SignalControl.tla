--------------------------- MODULE SignalControl ---------------------------
(***************************************************************************)
(* The destructive path: send_signal_verified of sher-pe-intelligence over *)
(* process(pid) and kill(2) of sher-pe-telemetry, with the process table   *)
(* changing between any two of its steps.  The caller is a client that     *)
(* showed a run to the user and had the signal confirmed.                  *)
(*                                                                         *)
(* Simplifications: which signal is sent is left out, every one taking the *)
(* same path; kill(2) fails for ESRCH and EPERM only; a process that the   *)
(* signal ends leaves the table by an Exit of its own.                     *)
(***************************************************************************)
EXTENDS LinuxAdapter

VARIABLES
    signalling,  \* the call of send_signal_verified in progress
    sent         \* every signal delivered so far

(* What the user confirmed is a run; the code carries its pid and the start *)
(* time to expect of it.                                                   *)
NoSignal == [confirmed |-> <<NoPid, 0>>, expected |-> 0, outcome |-> "none"]

Outcomes == {"ok", "NotFound", "PermissionDenied", "Io", "Parse", "PidReused"}

(* A delivery: the run the user confirmed, the start time that was checked *)
(* and the one of the process that got the signal.                         *)
Hit == [confirmed : Key, read : Start, reached : Start]

SignalTypeOK ==
    /\ TableTypeOK
    /\ AdapterTypeOK
    /\ signalling \in {NoSignal} \cup
         [confirmed : Key, expected : Start, outcome : Outcomes \cup {"none"}]
    /\ sent \subseteq Hit

signalVars == <<table, call, signalling, sent>>

Signalling == signalling # NoSignal

-----------------------------------------------------------------------------
SignalInit ==
    /\ TableInit
    /\ call = NoCall
    /\ signalling = NoSignal
    /\ sent = {}

(* The user confirms a signal for run k: send_signal_verified is called and *)
(* begins with process(pid).                                               *)
Confirm(k, expected) ==
    /\ ~Signalling
    /\ Begin(k[1])
    /\ signalling' = [confirmed |-> k, expected |-> expected, outcome |-> "none"]
    /\ UNCHANGED <<table, sent>>

ReadLive ==
    /\ Signalling
    /\ ReadProcess
    /\ UNCHANGED <<table, signalling, sent>>

(* process(pid) has returned and nothing was decided yet. *)
Answered == Signalling /\ signalling.outcome = "none" /\ Reading("none")

Outcome(outcome) == signalling' = [signalling EXCEPT !.outcome = outcome]

(* The error of process(pid) is passed on. *)
ReadFailed ==
    /\ Answered
    /\ call.result # "ok"
    /\ Outcome(call.result)
    /\ UNCHANGED <<table, call, sent>>

(* The start time is not compared. *)
SameRunFault == call.result = "ok"

SameRun == call.result = "ok" /\ call.start_time = signalling.expected

(* Another run has the pid: no signal is sent. *)
Refuse ==
    /\ Answered
    /\ call.result = "ok"
    /\ ~SameRun
    /\ Outcome("PidReused")
    /\ UNCHANGED <<table, call, sent>>

(* kill(2) looks the bare pid up once more: whoever owns it now is hit. *)
Kill ==
    LET owner == table[call.pid] IN
    /\ Answered
    /\ SameRun
    /\ \/ /\ owner.alive
          /\ sent' = sent \cup {[confirmed |-> signalling.confirmed,
                                 read |-> call.start_time, reached |-> owner.start_time]}
          /\ Outcome("ok")
       \/ /\ owner.alive
          /\ Outcome("PermissionDenied")
          /\ UNCHANGED sent
       \/ /\ ~owner.alive
          /\ Outcome("NotFound")
          /\ UNCHANGED sent
    /\ UNCHANGED <<table, call>>

Deliver == ReadLive \/ ReadFailed \/ Refuse \/ Kill

(* The caller has the result. *)
Return ==
    /\ signalling.outcome # "none"
    /\ signalling' = NoSignal
    /\ UNCHANGED <<table, call, sent>>

SignalNext ==
    \/ TableNext /\ UNCHANGED <<call, signalling, sent>>
    \/ \E k \in Key : k[2] =< table[k[1]].start_time /\ Confirm(k, k[2])
    \/ Deliver
    \/ Return

SignalSpec == SignalInit /\ [][SignalNext]_signalVars

-----------------------------------------------------------------------------
(* A pid that was recycled while the user thought about it is never hit:   *)
(* the process whose start time is checked is the run the user confirmed,  *)
(* and nothing that had the pid before it can be reached.                  *)
NeverABystander ==
    \A hit \in sent : hit.read = hit.confirmed[2] /\ hit.reached >= hit.read

(* send_signal_verified says that it closes the race with the reuse of the *)
(* pid: every signal reaches the run that was confirmed.                   *)
SignalReachesConfirmed == \A hit \in sent : hit.reached = hit.confirmed[2]

(* Why NeverABystander holds: the call of process(pid) is about the pid of *)
(* the confirmed run, whose start time is the one expected, and returns    *)
(* with a result; and a start time that was read never exceeds that of the *)
(* pid's latest process, which AdapterInvariant says.                      *)
SignalInvariant ==
    /\ SignalTypeOK
    /\ AdapterInvariant
    /\ Signalling => /\ call.pid = signalling.confirmed[1]
                     /\ signalling.expected = signalling.confirmed[2]
                     /\ Reading("none") => call.result # "none"
    /\ NeverABystander
=============================================================================
