---------------------------- MODULE LinuxAdapter ----------------------------
(***************************************************************************)
(* sher-pe-telemetry::linux: one call of process(pid) as the sequence of   *)
(* /proc files it reads, with the process table changing between them, and *)
(* what the reads of a single file or directory may answer.                *)
(*                                                                         *)
(* Simplifications: of a snapshot only the start time is kept, and the     *)
(* runs its files were read from; a file is read and parsed in one         *)
(* instant; cmdline and exe are one read, and so are the descriptors.      *)
(* "missing" is ENOENT, "gone" is ESRCH, "denied" is EACCES or EPERM,      *)
(* "invalid" is what is no UTF-8 and "malformed" what does not parse.      *)
(***************************************************************************)
EXTENDS ProcessTable

CONSTANTS
    Rollup,   \* what smaps_rollup of a live process may answer but its rows
    Oddities  \* what any file of a live process may answer but its content

ASSUME AnswersAssumption ==
    /\ Rollup \subseteq {"missing", "gone", "denied"}
    /\ Oddities \subseteq {"denied", "invalid", "malformed"}

VARIABLE call  \* the call of process(pid) in progress, or the last one

Files == {"stat", "status", "cmdline", "statm", "smaps_rollup", "vmswap", "cgroup", "fd"}

(* runs: the runs of the pid that the files read so far were about.        *)
NoCall == [pid |-> NoPid, file |-> "none", start_time |-> 0, runs |-> {}, result |-> "none"]

AdapterTypeOK ==
    call \in [pid : Pid \cup {NoPid}, file : Files \cup {"none"}, start_time : 0 .. MaxStart,
              runs : SUBSET Start, result : {"none", "ok", "Io", "PermissionDenied", "Parse"}]

Reading(file) == call.file = file

-----------------------------------------------------------------------------
(* What opening and reading a file of p answers. *)
Answer(p, file) ==
    IF ~table[p].alive THEN {"missing", "gone"}
    ELSE {"ok"} \cup Oddities \cup (IF file = "smaps_rollup" THEN Rollup ELSE {})

(* map_io_error tells a refusal from everything else, and parse_err is     *)
(* about the content; NotFound is none of their results.                   *)
ErrorOf(answer) ==
    CASE answer = "denied" -> "PermissionDenied"
      [] answer = "malformed" -> "Parse"
      [] OTHER -> "Io"

To(file) == [call EXCEPT !.file = file]
Done(result) == [call EXCEPT !.file = "none", !.result = result]
Failed(answer) == Done(ErrorOf(answer))

(* next, with what the file said of the run that has the pid now. *)
Having(next) == [next EXCEPT !.runs = @ \cup {table[call.pid].start_time}]

(* A file without which the call fails. *)
Required(file, next) ==
    /\ Reading(file)
    /\ \E answer \in Answer(call.pid, file) :
         call' = IF answer = "ok" THEN Having(next) ELSE Failed(answer)

(* A file that may be missing: only another error fails the call. *)
Optional(file, next, absent) ==
    /\ Reading(file)
    /\ \E answer \in Answer(call.pid, file) :
         call' = CASE answer = "ok" -> Having(next)
                   [] answer = "missing" -> absent
                   [] OTHER -> Failed(answer)

(* A file whose loss the call does not even tell. *)
Absorbed(file, next) ==
    /\ Reading(file)
    /\ \E answer \in Answer(call.pid, file) :
         call' = IF answer = "ok" THEN Having(next) ELSE next

-----------------------------------------------------------------------------
(* process(p) is called. *)
Begin(p) == call' = [NoCall EXCEPT !.pid = p, !.file = "stat"]

ReadStat == Required("stat",
    [To("status") EXCEPT !.start_time = table[call.pid].start_time])

ReadIds == Required("status", To("cmdline"))

ReadCmdline == Absorbed("cmdline", To("statm"))

ReadStatm == Required("statm", To("smaps_rollup"))

ReadSmapsRollup == Optional("smaps_rollup", To("cgroup"), To("vmswap"))

ReadVmSwap == Required("vmswap", To("cgroup"))

ReadCgroup == Optional("cgroup", To("fd"), To("fd"))

(* The start time is looked up when everything else was read. *)
CountOpenFilesFault == Absorbed("fd",
    [Done("ok") EXCEPT !.start_time = table[call.pid].start_time])

CountOpenFiles == Absorbed("fd", Done("ok"))

(* The rest of process(pid), one file at a time. *)
ReadProcess ==
    \/ ReadStat
    \/ ReadIds
    \/ ReadCmdline
    \/ ReadStatm
    \/ ReadSmapsRollup
    \/ ReadVmSwap
    \/ ReadCgroup
    \/ CountOpenFiles

(* process(pid) alone. *)
AdapterInit == TableInit /\ call = NoCall

AdapterNext ==
    \/ TableNext /\ UNCHANGED call
    \/ /\ \/ Reading("none") /\ \E p \in Pid : Begin(p)
          \/ ReadProcess
       /\ UNCHANGED table

AdapterSpec == AdapterInit /\ [][AdapterNext]_<<table, call>>

-----------------------------------------------------------------------------
(* memory.rs falls back to statm and VmSwap where smaps_rollup cannot be   *)
(* had, so the only reason for process(pid) to fail, and for refresh to    *)
(* leave the process out of the list, is that the run has gone.            *)
FailsOnlyForTheGone ==
    call.result \in {"Io", "PermissionDenied", "Parse"}
      => ~LiveKey(<<call.pid, call.start_time>>)

(* The files of a snapshot may be about several runs of the pid, but one   *)
(* whose start time is that of the living process is all about that run:   *)
(* stat comes first, so a mixed snapshot bears the start time of a run     *)
(* that is over, and comparing start times is enough to be rid of it.      *)
SnapshotOfTheLiving ==
    call.pid \in Pid /\ LiveKey(<<call.pid, call.start_time>>)
      => call.runs = {call.start_time}

(* Why: the start time was read first, and those read after it grow. *)
AdapterInvariant ==
    /\ AdapterTypeOK
    /\ call.pid \in Pid =>
         /\ call.start_time # 0 => call.start_time \in call.runs
         /\ \A r \in call.runs : call.start_time =< r /\ r =< table[call.pid].start_time
         /\ call.start_time =< table[call.pid].start_time
    /\ Reading("stat") => call.runs = {}

-----------------------------------------------------------------------------
(* The other reads: rows, nothing, or an error, which a live process can   *)
(* give too (a file for the owner and CAP_SYS_PTRACE only, a thread that   *)
(* ends between the listing and its stat).  None of them knows which run   *)
(* it is about, only the pid.                                              *)
ReadOf(p, answers) == IF p \in Alive THEN answers \cup {"failed"} ELSE {"failed"}

(* What is read in several steps, the later of which take a missing file   *)
(* for one without rows: a process that ends among them has read as empty. *)
StepwiseReadOf(p) == IF p \in Alive THEN {"rows", "empty", "failed"} ELSE {"empty", "failed"}

Threads(p) == ReadOf(p, {"rows"})

(* The descriptors, then the link of each, passed over when it is gone. *)
OpenFiles(p) == StepwiseReadOf(p)

(* The descriptors, then the five tables of sockets, each of which may be  *)
(* missing.                                                                *)
Connections(p) == StepwiseReadOf(p)

(* No cgroup file means no cgroup: the process may have gone. *)
Cgroup(p) == StepwiseReadOf(p)

Namespaces(p) == ReadOf(p, {"rows"})

Security(p) == ReadOf(p, {"rows"})

(* The unit is named by the path of the cgroup. *)
SystemdUnit(p) == Cgroup(p)

(* The container is too; docker and podman only add details. *)
ContainerInfo(p) == Cgroup(p)

DiskIo(p) == ReadOf(p, {"rows"})

SchedulerStats(p) == ReadOf(p, {"rows"})

FdLimits(p) == ReadOf(p, {"rows"})

Environment(p) == ReadOf(p, {"rows", "empty"})

MappedFiles(p) == ReadOf(p, {"rows", "empty"})

(* journalctl runs for the unit, which a gone process may not have. *)
JournalEntries(p) == StepwiseReadOf(p)

(* process(p), for the name, and dmesg. *)
KernelLogFor(p) == ReadOf(p, {"rows", "empty"})

(* Nothing here is about one process. *)
SystemOverview == {"rows", "failed"}
=============================================================================
