----------------------- MODULE MCProcessIntelligence -----------------------
(***************************************************************************)
(* ProcessIntelligence on small instances.  Pids and addresses are only    *)
(* compared for equality, so both are symmetric in the safety runs.        *)
(***************************************************************************)
EXTENDS ProcessIntelligence, TLC

Symmetry == Permutations(Pid) \cup Permutations(Addr)

(* Values of ClockSteps: time does not matter, or it moves either way. *)
Frozen == {0}
Forward == {1}
AnyStep == {-1, 0, 1}

(* The process table stands still while a refresh reads it. *)
QuietNext == (pc = "idle" /\ Environment) \/ Refresh
QuietSpec == Init /\ [][QuietNext]_vars

(* No process has a parent: children matter to NewChild alone. *)
Orphans == \A p \in Pid : table'[p].ppid = NoPid

NoticingSpec == Init /\ [][Next /\ Orphans]_vars /\ Fairness
=============================================================================
