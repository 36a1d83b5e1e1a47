--------------------------- MODULE ProcessObserver ---------------------------
(***************************************************************************)
(* What ProcessIntelligence promises its callers, whatever the process     *)
(* table does while a refresh reads it.  A refresh replaces the set of     *)
(* running processes in one step, reports each run that appeared and each  *)
(* run that vanished exactly once, exits last, and keeps the samples of    *)
(* the vanished runs readable until the next call.                         *)
(***************************************************************************)
EXTENDS Integers, Sequences

CONSTANTS
    Key,      \* runs: pairs of a pid and a start time
    Capacity  \* how many events the log keeps

VARIABLES
    running,   \* the runs listed by the last refresh
    readable,  \* the runs whose samples can be read
    emitted,   \* the events of the last refresh
    log        \* the events kept

vars == <<running, readable, emitted, log>>

LastOf(s, n) == IF Len(s) > n THEN SubSeq(s, Len(s) - n + 1, Len(s)) ELSE s

(* The positions in s of events of that kind about run k. *)
Reports(s, k, kind) == {i \in DOMAIN s : s[i].key = k /\ s[i].kind = kind}

ReportedOnce(s, keys, kind) ==
    \A k \in Key : IF k \in keys THEN \E i \in DOMAIN s : Reports(s, k, kind) = {i}
                  ELSE Reports(s, k, kind) = {}

ExitsLast(s) ==
    \A i, j \in DOMAIN s : s[i].kind = "Exited" /\ s[j].kind # "Exited" => j < i

Init ==
    /\ running = {} /\ readable = {}
    /\ emitted = <<>> /\ log = <<>>

(* A call starts, or fails: the runs that vanished in the last refresh are *)
(* forgotten.                                                              *)
Forget ==
    /\ readable' = running
    /\ emitted' = <<>>
    /\ UNCHANGED <<running, log>>

(* A refresh is done. *)
Observe ==
    /\ running' \subseteq Key
    /\ \A j, k \in running' : j[1] = k[1] => j = k
    /\ readable' = running \cup running'
    /\ ReportedOnce(emitted', running' \ running, "Started")
    /\ ReportedOnce(emitted', running \ running', "Exited")
    /\ ExitsLast(emitted')
    /\ log' = LastOf(log \o emitted', Capacity)

Next == Forget \/ Observe

Spec == Init /\ [][Next]_vars
=============================================================================
