---------------------------- MODULE ProcessTree ----------------------------
(***************************************************************************)
(* sher-pe-model::tree and sher-pe-gui::treeview: the hierarchy built from *)
(* one listing, its roll-ups, and the rows the GUI draws of it.  A tree is *)
(* a function from the listed pids to the parent each was read with.       *)
(*                                                                         *)
(* Simplifications: rows are sets, each row with its depth (the code lists *)
(* siblings in the order of their pids); a filter is {} when it is empty,  *)
(* and otherwise {S}, S being the pids whose name or number it matches; a  *)
(* roll-up counts processes, the sums over CPU, RSS, threads and files     *)
(* being sums over the same family.                                        *)
(***************************************************************************)
EXTENDS Integers, FiniteSets

NoRollup == [process_count |-> 0]

(* A listed process is filed under its parent when that is listed too. *)
Children(tree, p) ==
    IF p \in DOMAIN tree THEN {q \in DOMAIN tree \ {p} : tree[q] = p} ELSE {}

Roots(tree) == {p \in DOMAIN tree : tree[p] = p \/ tree[p] \notin DOMAIN tree}

(* The queue of family(), level by level: the children of the level above. *)
Level(tree, p) ==
    LET L[n \in 0 .. Cardinality(DOMAIN tree)] ==
          IF n = 0 THEN {p} \cap DOMAIN tree
          ELSE UNION {Children(tree, q) : q \in L[n - 1]}
    IN  L

(* p and every descendant. *)
Family(tree, p) ==
    LET L == Level(tree, p) IN UNION {L[n] : n \in DOMAIN L}

(* family() returns: its queue runs empty, p is not its own descendant. *)
FamilyEnds(tree, p) == Level(tree, p)[Cardinality(DOMAIN tree)] = {}

Aggregate(tree, p) ==
    IF p \in DOMAIN tree THEN [process_count |-> Cardinality(Family(tree, p))]
    ELSE NoRollup

(* Only the process itself is looked at. *)
SubtreeMatchesFault(tree, p, filter) == \A S \in filter : p \in S

(* Every process matches the empty filter. *)
SubtreeMatches(tree, p, filter) == \A S \in filter : Family(tree, p) \cap S # {}

(* What may be typed over a list of pids. *)
Filters(pids) == {{}} \cup {{S} : S \in SUBSET pids}

(* The rows of depth n are children of opened rows of depth n - 1. *)
FlattenNode(tree, expanded, filter) ==
    LET Row[n \in 0 .. Cardinality(DOMAIN tree)] ==
          IF n = 0 THEN {r \in Roots(tree) : SubtreeMatches(tree, r, filter)}
          ELSE LET open == {q \in Row[n - 1] : filter # {} \/ q \in expanded}
               IN  {c \in UNION {Children(tree, q) : q \in open} :
                      SubtreeMatches(tree, c, filter)}
    IN  Row

FlattenTree(tree, expanded, filter) ==
    LET Row == FlattenNode(tree, expanded, filter)
    IN  UNION {{[pid |-> p, depth |-> n, has_children |-> Children(tree, p) # {}] :
                  p \in Row[n]} : n \in DOMAIN Row}

Visible(tree, expanded, filter) == {row.pid : row \in FlattenTree(tree, expanded, filter)}

(* The lines `sher tree` prints for p: every descendant, indented. *)
PrintSubtree(tree, p) ==
    LET L == Level(tree, p)
    IN  UNION {{[pid |-> q, depth |-> n] : q \in L[n]} : n \in DOMAIN L}

-----------------------------------------------------------------------------
(* What a reader of the list relies on. *)

Ancestor(tree, a, p) == a # p /\ p \in Family(tree, a)
Anchored(tree) == UNION {Family(tree, r) : r \in Roots(tree)}

(* The list of the GUI: below a root, a filter shows every process that    *)
(* matches it and its ancestors, nothing else; without a filter a process  *)
(* is shown just when all its ancestors are expanded.  No process has two  *)
(* rows, and a process is one level below its parent.                      *)
RowsAsPromised(tree, expanded, filter) ==
    LET rows == FlattenTree(tree, expanded, filter)
        shown == {row.pid : row \in rows}
        wanted(p) == \A S \in filter : \E q \in S : q = p \/ Ancestor(tree, p, q)
        opened(p) == \A a \in DOMAIN tree : Ancestor(tree, a, p) => a \in expanded
    IN  /\ shown = {p \in Anchored(tree) : IF filter = {} THEN opened(p) ELSE wanted(p)}
        /\ Cardinality(shown) = Cardinality(rows)
        /\ \A row \in rows : row.depth > 0 =>
             \E above \in rows : above.pid = tree[row.pid] /\ above.depth = row.depth - 1

(* A roll-up and the lines of `sher tree` cover the same processes, the    *)
(* process and its descendants, once each, when the family has an end.     *)
FamilyCountedOnce(tree, p) ==
    FamilyEnds(tree, p) =>
      /\ {line.pid : line \in PrintSubtree(tree, p)}
           = {q \in DOMAIN tree : q = p \/ Ancestor(tree, p, q)}
      /\ Cardinality(PrintSubtree(tree, p)) = Aggregate(tree, p).process_count
=============================================================================
