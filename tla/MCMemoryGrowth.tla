--------------------------- MODULE MCMemoryGrowth ---------------------------
(***************************************************************************)
(* ProcessIntelligence beside a history without capacity, to tell what the *)
(* capacity of the real one makes it miss.                                 *)
(***************************************************************************)
EXTENDS ProcessIntelligence, Investigation

VARIABLE full  \* history, had it no capacity

growthVars == <<vars, full>>

OneSecond == {1}

FullInit == Init /\ full = EmptyMap

(* A sample is kept in both histories, and both drop the same keys. *)
FullNext ==
    /\ Next
    /\ full' =
         IF pc = "connections" /\ pc' = "process"
         THEN Put(full, KeyOf(snap),
                  Append(IF KeyOf(snap) \in DOMAIN full THEN full[KeyOf(snap)] ELSE <<>>,
                         [at |-> now, snap |-> snap]))
         ELSE Restrict(full, DOMAIN full \cap DOMAIN history')

FullSpec == FullInit /\ [][FullNext]_growthVars

Growth == "MemoryGrowthThresholdCrossed"

(* The RSS of s is at least half as much again as that of the latest of     *)
(* samples that is a window old.                                           *)
GrewInWindow(samples, s) ==
    \E i \in DOMAIN samples :
      /\ now - samples[i].at >= GrowthWindow
      /\ \A j \in DOMAIN samples : j > i => now - samples[j].at < GrowthWindow
      /\ samples[i].snap.rss > 0 /\ 2 * s.rss >= 3 * samples[i].snap.rss

ReportsGrowth ==
    (pc = "memory" /\ pc' = "connections")
      => LET k == KeyOf(snap')
         IN  k \in DOMAIN full /\ GrewInWindow(full[k], snap')
               => \E e \in NewEvents : e.key = k /\ e.kind = Growth

(* refresh_at reports every run whose RSS is at least 50% above what it    *)
(* was a window ago, for as long as the run has been sampled.              *)
GrowthReported == [][ReportsGrowth]_growthVars

(* Neighbours are at least gap apart. *)
Spaced(samples, gap) ==
    \A i, j \in DOMAIN samples :
      i < j => samples[j].at - samples[i].at >= (j - i) * gap

(* Why it holds when the calls are at least gap apart and the capacity      *)
(* spans the window: the history is the end of full, whose samples are as   *)
(* far apart as the calls; those of a run that is still to be read, too.    *)
FullInvariant(gap) ==
    /\ DOMAIN full = DOMAIN history
    /\ \A k \in DOMAIN full :
         /\ full[k] \in Seq(Sample)
         /\ history[k] = KeepLast(full[k], HistoryCapacity)
         /\ Spaced(full[k], gap)
         /\ \A i \in DOMAIN full[k] :
              /\ now - full[k][i].at >= 0
              /\ pc # "idle" /\ k \notin Keys(new_current) => now - full[k][i].at >= gap

(* crash_analysis explains the first exit the timeline has of a bare pid;  *)
(* the memory growth it cites is of the run that exited, although the      *)
(* timeline of the pid holds the events of several runs.                   *)
CrashAnalysisOneRun ==
    \A p \in Pid : \A oom \in BOOLEAN :
      \A a, b \in CrashAnalysis(timeline, p, oom).evidence : a.of.key = b.of.key

(* Another run of the pid exits no earlier than run k grew: k had exited in *)
(* between.                                                                *)
Separated(events) ==
    \A i \in OfKind(events, "Exited") : \A j \in OfKind(events, Growth) :
      /\ events[i].key[1] = events[j].key[1] /\ events[i].key # events[j].key
      /\ events[j].at =< events[i].at
      => \E m \in OfKind(events, "Exited") :
           j < m /\ m < i /\ events[m].key = events[j].key

(* The growth of a run that is not listed is followed by its exit. *)
GrowthEnds(events, listed) ==
    \A j \in OfKind(events, Growth) :
      \/ events[j].key \in listed
      \/ \E m \in OfKind(events, "Exited") : j < m /\ events[m].key = events[j].key

(* An exit of another run of the pid of k, after time t. *)
OthersExitedBy(k, t) ==
    \A i \in OfKind(timeline, "Exited") :
      timeline[i].key[1] = k[1] /\ timeline[i].key # k => timeline[i].at =< t

(* Why it holds: the samples of a current run are no older than the exits  *)
(* of the earlier runs of its pid, so what grew over a window grew after    *)
(* those exits; and what grew and is not listed has exited.                *)
CrashInvariant ==
    /\ \A i \in DOMAIN timeline : timeline[i].at =< now
    /\ Separated(timeline)
    /\ GrowthEnds(timeline, Keys(current))
    /\ \A k \in DOMAIN history \cap Keys(current) : \A n \in DOMAIN history[k] :
         OthersExitedBy(k, history[k][n].at)
    /\ pc # "idle" =>
         /\ \A i \in DOMAIN pending_events : pending_events[i].at = now
         /\ \A k \in DOMAIN history \ Keys(current) : \A n \in DOMAIN history[k] :
              history[k][n].at = now
         /\ \A j \in OfKind(pending_events, Growth) :
              /\ pending_events[j].key \in Keys(current) \cap ReadRuns
              /\ OthersExitedBy(pending_events[j].key, now - 1)
=============================================================================
