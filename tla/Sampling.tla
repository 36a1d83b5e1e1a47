------------------------------ MODULE Sampling ------------------------------
(***************************************************************************)
(* The samples sher-pe-telemetry takes by running another program: strace, *)
(* perf and bpftrace, each blocking its caller until the program ended.    *)
(*                                                                         *)
(* Simplifications: one caller samples at a time; the exit status of the   *)
(* program is told apart as far as the code does; of its output only how   *)
(* much of the requested time the result covers is kept.  strace and perf  *)
(* attach to the process that owns the pid and end with it; the script of  *)
(* bpftrace filters by the bare pid, whoever owns it.                      *)
(***************************************************************************)
EXTENDS ProcessTable

VARIABLES
    sample,    \* the sample in progress, or NoSample
    temp_file  \* the script of bpftrace or the data file of perf exists

Tools == {"strace", "perf", "bpftrace"}

(* run: the start time of the process that is being traced.                *)
(* status: how the program ended.                                          *)
(* covered: what the result is about, "full" being the time that was asked *)
(* for, and "capped" its beginning, up to MAX_EVENTS.                      *)
NoSample == [tool |-> "none", pid |-> NoPid, run |-> 0, stage |-> "idle",
             status |-> "none", covered |-> "nothing", result |-> "none"]

Statuses == {"0", "124", "SIGKILL", "other"}

SamplingTypeOK ==
    /\ temp_file \in BOOLEAN
    /\ sample \in {NoSample} \cup
         [tool : Tools, pid : Pid, run : 0 .. MaxStart,
          stage : {"spawn", "running", "report", "returned"},
          status : Statuses \cup {"none"},
          covered : {"nothing", "unwritten", "full", "capped", "target_exited", "cut"},
          result : {"none", "ok", "Io", "Parse"}]

SamplingInit == sample = NoSample /\ temp_file = FALSE

Sampled == sample.stage = "returned"

Results(result) == sample' = [sample EXCEPT !.stage = "returned", !.result = result]

-----------------------------------------------------------------------------
(* The call; bpftrace is given a script, which must be written first and   *)
(* may be left there in part when that fails.                              *)
Sample(tool, p) ==
    LET begun == [NoSample EXCEPT !.tool = tool, !.pid = p, !.stage = "spawn"] IN
    /\ sample = NoSample
    /\ \/ sample' = begun /\ temp_file' = (tool = "bpftrace")
       \/ /\ tool = "bpftrace"
          /\ sample' = [begun EXCEPT !.stage = "returned", !.covered = "unwritten",
                                   !.result = "Io"]
          /\ temp_file' \in BOOLEAN

(* The program cannot be started or cannot attach: bpftrace alone has a    *)
(* file to remove.                                                         *)
SpawnFails ==
    /\ sample.stage = "spawn"
    /\ Results("Io")
    /\ temp_file' = FALSE

(* strace and perf need a process to attach to. *)
Spawn ==
    /\ sample.stage = "spawn"
    /\ sample.tool \in {"strace", "perf"} => sample.pid \in Alive
    /\ sample' = [sample EXCEPT !.stage = "running", !.run = table[sample.pid].start_time]
    /\ temp_file' = (sample.tool # "strace")

(* Whatever bpftrace ended with, what it printed is a sample. *)
AcceptedFault(status) == sample.tool = "bpftrace" \/ status \in {"0", "124"}

(* The statuses taken for a finished sample: 124 is timeout's own, and     *)
(* signal 9 what its -k may leave.                                         *)
Accepted(status) ==
    status \in CASE sample.tool = "strace" -> {"0", "124"}
                 [] sample.tool = "perf" -> {"0"}
                 [] sample.tool = "bpftrace" -> {"0", "124", "SIGKILL"}

Ended(status, covered) == [sample EXCEPT !.status = status, !.covered = covered]

(* The data file is removed after the report only. *)
ConcludeFault(status, covered) ==
    /\ sample' = IF Accepted(status) /\ sample.tool = "perf"
                 THEN [Ended(status, covered) EXCEPT !.stage = "report"]
                 ELSE [Ended(status, covered) EXCEPT !.stage = "returned",
                         !.result = IF Accepted(status) THEN "ok" ELSE "Io"]
    /\ temp_file' = (sample.tool = "perf")

(* What the caller makes of the program's exit status.  The output of      *)
(* strace and bpftrace always parses, line by line; perf goes on to report.*)
Conclude(status, covered) ==
    IF Accepted(status) /\ sample.tool = "perf"
    THEN /\ sample' = [Ended(status, covered) EXCEPT !.stage = "report"]
         /\ UNCHANGED temp_file
    ELSE /\ sample' = [Ended(status, covered) EXCEPT !.stage = "returned",
                         !.result = IF Accepted(status) THEN "ok" ELSE "Io"]
         /\ temp_file' = FALSE

(* The time is up: timeout ends strace and bpftrace, perf waits for sleep. *)
(* A busy process may fill the 2000 events of bpftrace before.             *)
TimeUp ==
    /\ sample.stage = "running"
    /\ \/ sample.tool = "strace" /\ Conclude("124", "full")
       \/ sample.tool = "perf" /\ Conclude("0", "full")
       \/ /\ sample.tool = "bpftrace"
          /\ \E status \in {"124", "SIGKILL"}, covered \in {"full", "capped"} :
               Conclude(status, covered)

(* The traced process is gone: nothing is left to trace. *)
TargetExits ==
    /\ sample.stage = "running"
    /\ sample.tool # "bpftrace"
    /\ ~LiveKey(<<sample.pid, sample.run>>)
    /\ Conclude("0", "target_exited")

(* The program fails, or is ended from outside: bpftrace ends in order     *)
(* when it is interrupted.                                                 *)
ToolDies ==
    /\ sample.stage = "running"
    /\ \/ \E status \in {"other", "SIGKILL"} : Conclude(status, "cut")
       \/ sample.tool = "bpftrace" /\ Conclude("0", "cut")

(* perf report, after which the data file goes in any case. *)
Report ==
    /\ sample.stage = "report"
    /\ \E result \in {"ok", "Io", "Parse"} : Results(result)
    /\ temp_file' = FALSE

SamplingProceeds == SpawnFails \/ Spawn \/ TimeUp \/ TargetExits \/ ToolDies \/ Report

(* The caller has the result. *)
Taken == Sampled /\ sample' = NoSample /\ UNCHANGED temp_file

-----------------------------------------------------------------------------
(* A sample that is returned and says nothing else was not cut short: it   *)
(* covers the time that was asked for, or up to the exit of the process    *)
(* strace or perf was attached to, or, of bpftrace, the first events.  Two *)
(* ends alone let a cut sample through, both of bpftrace, which the code   *)
(* cannot tell from a whole one: an exit in order before the time was up,  *)
(* and a signal 9 that timeout did not send.                               *)
SampleIsComplete ==
    sample.result = "ok" =>
      /\ sample.covered = "cut" =>
           sample.tool = "bpftrace" /\ sample.status \in {"0", "SIGKILL"}
      /\ sample.covered = "capped" => sample.tool = "bpftrace"
      /\ sample.covered = "target_exited" =>
           sample.tool # "bpftrace" /\ ~LiveKey(<<sample.pid, sample.run>>)

(* Whatever fails, no file is left in the temporary directory once a       *)
(* sample has returned; the exception is a script that could not be        *)
(* written in full, where bpftrace.rs returns before it can remove it.     *)
TempFilesRemoved ==
    temp_file /\ Sampled => sample.covered = "unwritten"

(* Why the two hold: a sample traces a run the pid had, the end of the     *)
(* traced process is no earlier than that of its run, and a sample that is *)
(* accepted was cut as SampleIsComplete says.                              *)
SamplingInvariant ==
    /\ SamplingTypeOK
    /\ TempFilesRemoved
    /\ sample.pid \in Pid => sample.run =< table[sample.pid].start_time
    /\ sample.stage \in {"spawn", "running"} => sample.covered = "nothing"
    /\ sample.covered = "target_exited" =>
         sample.tool # "bpftrace" /\ ~LiveKey(<<sample.pid, sample.run>>)
    /\ sample.covered = "capped" => sample.tool = "bpftrace"
    /\ sample.covered = "cut" /\ (sample.stage = "report" \/ sample.result = "ok")
         => sample.tool = "bpftrace" /\ sample.status \in {"0", "SIGKILL"}
=============================================================================
