---------------------------- MODULE ProcessTable ----------------------------
(***************************************************************************)
(* The kernel's process table as SHER observes it through /proc.  It is    *)
(* external to the repository: its actions are what may happen between two *)
(* reads of sher-pe-telemetry.  A pid names a slot that the kernel reuses; *)
(* the pair (pid, start time) names one run of a process and never recurs, *)
(* the fact HistoryKey in sher-pe-intelligence is built on.                *)
(*                                                                         *)
(* Simplifications: a start time is the number of the pid's run, since the *)
(* code only compares start times for equality; a process leaves the table *)
(* when it is reaped, and its children are then handed to a process        *)
(* outside Pid (init or a subreaper).                                      *)
(***************************************************************************)
EXTENDS Integers, FiniteSets

CONSTANTS
    Pid,       \* the pids in play
    NoPid,     \* the parent of a process whose parent is outside Pid
    MaxStart,  \* bound: the number of times a pid is used
    Rss,       \* resident set sizes, in units the growth test tells apart
    Addr       \* remote addresses of TCP connections

ASSUME ProcessTableAssumption ==
    /\ IsFiniteSet(Pid) /\ NoPid \notin Pid
    /\ MaxStart \in Nat
    /\ Rss \subseteq Nat /\ Rss # {}
    /\ IsFiniteSet(Addr)

VARIABLE table  \* table[p] is what /proc/p shows, and who forked it

Start == 1 .. MaxStart

(* A run of a process: HistoryKey of the code. *)
Key == Pid \X Start

Slot == [alive : BOOLEAN, start_time : 0 .. MaxStart, ppid : Pid \cup {NoPid},
         parent_start : 0 .. MaxStart, rss : Rss, conns : SUBSET Addr]

TableTypeOK ==
    /\ table \in [Pid -> Slot]
    /\ \A p \in Pid : table[p].alive => table[p].start_time # 0

AnyRss == CHOOSE r \in Rss : TRUE

Unused(start) == [alive |-> FALSE, start_time |-> start, ppid |-> NoPid,
                  parent_start |-> 0, rss |-> AnyRss, conns |-> {}]

Alive == {p \in Pid : table[p].alive}

(* The run that owns pid p now. *)
LiveKey(k) == table[k[1]].alive /\ table[k[1]].start_time = k[2]

TableInit == table = [p \in Pid |-> Unused(0)]

-----------------------------------------------------------------------------
(* A free pid is given to a new process, forked by parent. *)
Fork(p, parent) ==
    /\ ~table[p].alive
    /\ table[p].start_time < MaxStart
    /\ parent \in Alive \cup {NoPid}
    /\ \E r \in Rss :
         table' = [table EXCEPT ![p] =
           [alive |-> TRUE, start_time |-> table[p].start_time + 1, ppid |-> parent,
            parent_start |-> IF parent = NoPid THEN 0 ELSE table[parent].start_time,
            rss |-> r, conns |-> {}]]

(* p is reaped; its children are reparented in the same step. *)
Exit(p) ==
    /\ table[p].alive
    /\ table' = [q \in Pid |->
         IF q = p THEN Unused(table[p].start_time)
         ELSE IF table[q].ppid = p
              THEN [table[q] EXCEPT !.ppid = NoPid, !.parent_start = 0]
              ELSE table[q]]

Connect(p, a) ==
    /\ table[p].alive
    /\ a \notin table[p].conns
    /\ table' = [table EXCEPT ![p].conns = @ \cup {a}]

Disconnect(p, a) ==
    /\ table[p].alive
    /\ a \in table[p].conns
    /\ table' = [table EXCEPT ![p].conns = @ \ {a}]

Resize(p) ==
    /\ table[p].alive
    /\ \E r \in Rss \ {table[p].rss} : table' = [table EXCEPT ![p].rss = r]

TableNext ==
    \E p \in Pid :
       \/ \E parent \in Pid \cup {NoPid} : Fork(p, parent)
       \/ Exit(p)
       \/ \E a \in Addr : Connect(p, a) \/ Disconnect(p, a)
       \/ Resize(p)
=============================================================================
