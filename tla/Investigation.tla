--------------------------- MODULE Investigation ---------------------------
(***************************************************************************)
(* sher-pe-investigation: the rules that turn what was read about a        *)
(* process into findings.  The rules are pure: what they read is their     *)
(* argument.                                                               *)
(*                                                                         *)
(* Simplifications: a piece of evidence is named by what it reports; the   *)
(* quantities a rule compares with a threshold are replaced by the outcome *)
(* of the comparison; titles and narratives are left out.                  *)
(***************************************************************************)
EXTENDS Integers, FiniteSets, SequencesExt

(* What the rules may read of a listed process:                            *)
(*   threads  none (the read failed), all idle, one of several dominating, *)
(*            or the ticks spread over them;                               *)
(*   sched    failed, never scheduled, below or above the threshold of     *)
(*            contention;                                                  *)
(*   history  one sample only, the first of several without RSS, growth    *)
(*            below the threshold or over less than the window, growth;    *)
(*   connections, io  the answer of the read.                              *)
Readings ==
    [threads : {"failed", "idle", "spread", "dominant"},
     sched : {"failed", "unscheduled", "calm", "contended"},
     history : {"one", "zero", "flat", "grew"},
     connections : {"failed", "empty", "rows"},
     io : {"failed", "rows"}]

NewFinding(severity, confidence, evidence) ==
    [severity |-> severity, confidence |-> confidence, evidence |-> evidence]

(* The pid is not in the process map. *)
NotFound == NewFinding("Info", "Unknown", {})

-----------------------------------------------------------------------------
WhyCpu(r) ==
    LET breakdown == r.threads \in {"spread", "dominant"}
        scheduled == breakdown /\ r.sched \in {"calm", "contended"}
        contended == breakdown /\ r.sched = "contended"
        dominant == r.threads = "dominant"
    IN  NewFinding(IF dominant \/ contended THEN "Notice" ELSE "Info",
                   IF contended THEN "Likely" ELSE IF dominant THEN "Correlated" ELSE "Observed",
                   {"snapshot"} \cup (IF breakdown THEN {"threads"} ELSE {})
                                \cup (IF scheduled THEN {"sched"} ELSE {}))

WhyMemory(r) ==
    CASE r.history \in {"one", "zero"} -> NewFinding("Info", "Observed", {"snapshot"})
      [] r.history = "grew" -> NewFinding("Warning", "Likely", {"snapshot", "history"})
      [] r.history = "flat" -> NewFinding("Info", "Correlated", {"snapshot", "history"})

(* A failed read is taken for a process without connections. *)
WhyNetwork(r) == NewFinding("Info", "Observed", {"connections"})

WhyDisk(r) ==
    IF r.io = "failed" THEN NewFinding("Info", "Unknown", {})
    ELSE NewFinding("Info", "Observed", {"io"})

Why(aspect, r) ==
    CASE aspect = "Cpu" -> WhyCpu(r)
      [] aspect = "Memory" -> WhyMemory(r)
      [] aspect = "Network" -> WhyNetwork(r)
      [] aspect = "Disk" -> WhyDisk(r)

Aspects == {"Cpu", "Memory", "Network", "Disk"}

Investigate(listed, r) ==
    IF listed THEN <<WhyCpu(r), WhyMemory(r), WhyNetwork(r), WhyDisk(r)>> ELSE <<NotFound>>

(* Any growth of the timeline is cited, also one after the exit. *)
GrowthBeforeFault(events, pid, exit) ==
    SelectLastInSeq(events, LAMBDA e :
      e.key[1] = pid /\ e.kind = "MemoryGrowthThresholdCrossed")

(* The last growth event of the pid no later than the exit, 0 if there is  *)
(* none.                                                                   *)
GrowthBefore(events, pid, exit) ==
    SelectLastInSeq(events, LAMBDA e :
      e.key[1] = pid /\ e.kind = "MemoryGrowthThresholdCrossed" /\ e.at =< exit.at)

(* crash_analysis: the first exit of the pid among the events is explained. *)
(* oom: a line of the kernel log about an OOM kill contains the pid.       *)
CrashAnalysis(events, pid, oom) ==
    LET i == SelectInSeq(events, LAMBDA e : e.key[1] = pid /\ e.kind = "Exited")
        exit == events[i]
        g == GrowthBefore(events, pid, exit)
        fact(name, e) == [fact |-> name, of |-> e]
        evidence == {fact("exit", exit)}
          \cup (IF g # 0 THEN {fact("growth", events[g])} ELSE {})
          \cup (IF oom THEN {fact("oom", exit)} ELSE {})
    IN  CASE i = 0 -> NewFinding("Info", "Unknown", {})
          [] i # 0 /\ g # 0 /\ oom -> NewFinding("Critical", "Likely", evidence)
          [] i # 0 /\ g = 0 /\ oom -> NewFinding("Warning", "Correlated", evidence)
          [] i # 0 /\ g # 0 /\ ~oom -> NewFinding("Notice", "Correlated", evidence)
          [] i # 0 /\ g = 0 /\ ~oom -> NewFinding("Info", "Unknown", {})

=============================================================================
