---------------------------- MODULE ProcessView ----------------------------
(***************************************************************************)
(* What the two clients, the GUI and the CLI, see of sher-pe-intelligence: *)
(* the process map of the last refresh, live reads by bare pid, samples    *)
(* and signals.                                                            *)
(*                                                                         *)
(* Simplifications: of a snapshot the start time and the parent are kept;  *)
(* a refresh is one instant, which is what ProcessIntelligence is shown to *)
(* be to its callers (ImplementsObserver), but for the parents, each of    *)
(* which may have been read before the end of the process that was it.     *)
(***************************************************************************)
EXTENDS SignalControl, Sampling, ProcessTree

VARIABLE current  \* the process map: the listed pids and what was read of them

viewVars == <<table, call, signalling, sent, sample, temp_file, current>>

(* The client does nothing but read. *)
View == UNCHANGED viewVars

ViewTypeOK ==
    /\ SignalTypeOK
    /\ SamplingTypeOK
    /\ DOMAIN current \subseteq Pid
    /\ \A p \in DOMAIN current :
         current[p] \in [start_time : Start, ppid : Pid \cup {NoPid}]

ViewInit == SignalInit /\ SamplingInit /\ current = [p \in {} |-> p]

(* What was read as the parent of p: the parent it has or, of a process    *)
(* whose parent ended since, one whose pid has been used again.            *)
ParentsRead(p) ==
    {table[p].ppid} \cup
      {q \in Pid \ {p} : table[p].ppid = NoPid /\ table[q].start_time > 1}

(* The live processes that could be read are listed. *)
Refreshed ==
    \E listed \in SUBSET Alive : \E parent \in [listed -> Pid \cup {NoPid}] :
      /\ \A p \in listed : parent[p] \in ParentsRead(p)
      /\ current' = [p \in listed |-> [start_time |-> table[p].start_time, ppid |-> parent[p]]]

(* process(pid): the snapshot of the last refresh, 0 when there is none. *)
Listed == DOMAIN current
RunOf(p) == IF p \in Listed THEN current[p].start_time ELSE 0

(* tree(). *)
Tree == [p \in Listed |-> current[p].ppid]

(* family_rollup returns: it queues the children of what it has queued.    *)
RollupEnds(p) == FamilyEnds(Tree, p)

(* who_has_file: the listed pids whose descriptors can be read now; a pid  *)
(* that cannot be read is passed over.                                     *)
WhoHasFile == {p \in Listed : "rows" \in OpenFiles(p)}
WhoHasPort == {p \in Listed : "rows" \in Connections(p)}

(* The run a live read of p is about, 0 when there is none. *)
LiveRun(p) == IF p \in Alive THEN table[p].start_time ELSE 0

(* Nobody waits for a signal or for a sample. *)
Idle == ~Signalling /\ sample = NoSample

(* What the clients rely on: signals and samples are as their modules      *)
(* promise, nothing is known of a call that was never made, and what was   *)
(* listed is never younger than the process that has the pid.              *)
ViewInvariant ==
    /\ ViewTypeOK
    /\ SignalInvariant
    /\ SamplingInvariant
    /\ call.pid = NoPid => call.result = "none"
    /\ \A p \in Listed : current[p].start_time =< table[p].start_time
=============================================================================
