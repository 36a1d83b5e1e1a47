-------------------------- MODULE ProcessTree_proofs --------------------------
(***************************************************************************)
(* Proofs about the process tree, for every listing: any set of pids and   *)
(* any parents, cycles included.                                           *)
(*                                                                         *)
(* The levels of a family and the rows of the list are recursive           *)
(* functions.  The induction theorems of the library cannot be cited, for  *)
(* they take an operator as a parameter; instead NatLeast, which follows   *)
(* from WFMin, yields the least counterexample of each fact.               *)
(***************************************************************************)
EXTENDS ProcessTree, FiniteSetTheorems, WellFoundedInduction, TLAPS

-----------------------------------------------------------------------------
(* Induction and recursion. *)

(* A nonempty set of numbers has a least element. *)
LEMMA NatLeast ==
    ASSUME NEW T \in SUBSET Nat, T # {}
    PROVE  \E n \in T : \A m \in T : n =< m
<1> DEFINE R == OpToRel(<, Nat)
<1>1. IsWellFoundedOn(R, Nat)
  BY NatLessThanWellFounded, Zenon
<1>2. \A x, y \in Nat : y < x => <<y, x>> \in R
  <2>1. \A x, y \in Nat : y < x => <<y, x>> \in {ss \in Nat \X Nat : ss[1] < ss[2]}
    OBVIOUS
  <2>2. QED
    BY <2>1, Zenon DEF OpToRel
<1> HIDE DEF R
<1>3. PICK x \in T : \A y \in T : ~ (<<y, x>> \in R)
  BY <1>1, WFMin
<1>4. \A y \in T : ~(y < x)
  BY <1>2, <1>3
<1>5. QED
  BY <1>4

(* What holds of 0, and of n + 1 when it holds of n, holds of every number  *)
(* up to a bound.                                                           *)
LEMMA Induction ==
    ASSUME NEW N \in Nat, NEW T, 0 \in T, \A n \in 0 .. N : n \in T /\ n < N => n + 1 \in T
    PROVE  0 .. N \subseteq T
<1> SUFFICES ASSUME (0 .. N) \ T # {} PROVE FALSE
  OBVIOUS
<1>1. PICK m \in (0 .. N) \ T : \A n \in (0 .. N) \ T : m =< n
  <2>1. (0 .. N) \ T \in SUBSET Nat
    OBVIOUS
  <2>2. QED
    BY <2>1, NatLeast
<1>2. m - 1 \in 0 .. N /\ m - 1 \in T /\ m - 1 < N
  BY <1>1
<1>3. QED
  BY <1>1, <1>2

(* f holds the results of the first n steps G from A. *)
Iterates(f, S, A, G, n) ==
    f \in [0 .. n -> S] /\ f[0] = A /\ \A i \in 1 .. n : f[i] = G[f[i - 1]]

(* A step can be iterated: the sequence of its results exists. *)
LEMMA IterationExists ==
    ASSUME NEW S, NEW A \in S, NEW G \in [S -> S], NEW N \in Nat
    PROVE  \E f : Iterates(f, S, A, G, N)
<1> USE DEF Iterates
<1> DEFINE Runs(f, n) == Iterates(f, S, A, G, n)
           T == {n \in Nat : \E f : Runs(f, n)}
<1>1. 0 \in T
  <2>1. Runs([n \in 0 .. 0 |-> A], 0)
    OBVIOUS
  <2>2. QED
    BY <2>1
<1>2. ASSUME NEW n \in Nat, n \in T PROVE n + 1 \in T
  <2>1. PICK f : Runs(f, n)
    BY <1>2
  <2> DEFINE g == [i \in 0 .. n + 1 |-> IF i = n + 1 THEN G[f[n]] ELSE f[i]]
  <2>2. g \in [0 .. n + 1 -> S] /\ g[0] = A
    BY <2>1
  <2>3. ASSUME NEW i \in 1 .. n + 1 PROVE g[i] = G[g[i - 1]]
    <3>1. CASE i = n + 1
      BY <3>1
    <3>2. CASE i \in 1 .. n
      BY <2>1, <3>2
    <3>3. QED
      BY <3>1, <3>2
  <2> HIDE DEF g
  <2>4. Runs(g, n + 1) /\ n + 1 \in Nat
    BY <2>2, <2>3
  <2>5. QED
    BY <2>4
<1>3. 0 .. N \subseteq T
  BY <1>1, <1>2, Induction
<1>4. QED
  BY <1>3

-----------------------------------------------------------------------------
(* The levels of a family. *)

Size(tree) == Cardinality(DOMAIN tree)

Below(tree, X) == UNION {Children(tree, q) : q \in X}

(* The recursive definition of Level is satisfied: each level holds the    *)
(* children of the level above.                                            *)
LEMMA Levels ==
    ASSUME NEW tree, IsFiniteSet(DOMAIN tree), NEW p
    PROVE  /\ Size(tree) \in Nat
           /\ Level(tree, p) \in [0 .. Size(tree) -> SUBSET DOMAIN tree]
           /\ Level(tree, p)[0] = {p} \cap DOMAIN tree
           /\ \A n \in 1 .. Size(tree) :
                Level(tree, p)[n] = Below(tree, Level(tree, p)[n - 1])
<1> DEFINE N == Size(tree)
           S == SUBSET DOMAIN tree
           A == {p} \cap DOMAIN tree
           G == [X \in S |-> Below(tree, X)]
           Defines(L) == L = [n \in 0 .. N |-> IF n = 0 THEN A ELSE Below(tree, L[n - 1])]
<1>1. N \in Nat
  BY FS_CardinalityType DEF Size
<1>2. \A X \in S : Below(tree, X) \in S
  BY DEF Below, Children
<1>3. \E L : Defines(L) /\ L \in [0 .. N -> S]
  <2>1. A \in S /\ G \in [S -> S]
    BY <1>2
  <2> HIDE DEF N, S, A, G
  <2>2. PICK L : Iterates(L, S, A, G, N)
    BY <1>1, <2>1, IterationExists
  <2> USE DEF Iterates
  <2>3. \A n \in 1 .. N : L[n] = Below(tree, L[n - 1])
    <3>1. \A n \in 1 .. N : L[n - 1] \in S
      BY <1>1, <2>2
    <3>2. QED
      BY <2>2, <3>1 DEF G
  <2>4. \A n \in 0 .. N : L[n] = IF n = 0 THEN A ELSE Below(tree, L[n - 1])
    BY <1>1, <2>2, <2>3
  <2>5. L = [n \in 0 .. N |-> IF n = 0 THEN A ELSE Below(tree, L[n - 1])]
    BY <2>2, <2>4
  <2>6. QED
    BY <2>2, <2>5
<1>4. Level(tree, p) = CHOOSE L : Defines(L)
  BY Zenon DEF Level, Below, Size
<1>5. Defines(Level(tree, p))
  <2> HIDE DEF Defines
  <2> QED
    BY <1>3, <1>4
<1>6. /\ DOMAIN Level(tree, p) = 0 .. N /\ Level(tree, p)[0] = A
      /\ \A n \in 1 .. N : Level(tree, p)[n] = Below(tree, Level(tree, p)[n - 1])
  <2> HIDE DEF N, S, A, G
  <2> QED
    BY <1>1, <1>5
<1>7. Level(tree, p) \in [0 .. N -> S]
  <2> DEFINE T == {n \in 0 .. N : Level(tree, p)[n] \in S}
  <2>1. 0 \in T
    BY <1>1, <1>6
  <2>2. ASSUME NEW n \in 0 .. N, n \in T, n < N PROVE n + 1 \in T
    <3>1. n + 1 \in 1 .. N /\ (n + 1) - 1 = n /\ n + 1 \in 0 .. N
      BY <1>1, <2>2
    <3>2. Level(tree, p)[n + 1] = Below(tree, Level(tree, p)[n])
      BY <1>6, <3>1
    <3>3. QED
      BY <1>2, <2>2, <3>1, <3>2
  <2>3. 0 .. N \subseteq T
    <3> HIDE DEF T, N
    <3> QED
      BY <1>1, <2>1, <2>2, Induction
  <2>4. Level(tree, p) = [n \in 0 .. N |-> Level(tree, p)[n]]
    BY <1>5
  <2>5. QED
    BY <2>3, <2>4
<1>8. QED
  BY <1>1, <1>6, <1>7

(* A member of a level other than the first is a child of its parent in    *)
(* the level above, and no process is its own parent there.                *)
LEMMA ParentAbove ==
    ASSUME NEW tree, IsFiniteSet(DOMAIN tree), NEW p, NEW n \in 0 .. Size(tree),
           NEW q \in Level(tree, p)[n]
    PROVE  /\ q \in DOMAIN tree
           /\ n = 0 => q = p
           /\ n # 0 => /\ tree[q] \in Level(tree, p)[n - 1]
                       /\ q \in Children(tree, tree[q]) /\ tree[q] \in DOMAIN tree
                       /\ tree[q] # q
<1>1. q \in DOMAIN tree
  BY Levels, SMTT(30)
<1>2. CASE n = 0
  BY <1>1, <1>2, Levels
<1>3. CASE n # 0
  <2>1. n \in 1 .. Size(tree)
    BY <1>3, Levels
  <2>2. PICK r \in Level(tree, p)[n - 1] : q \in Children(tree, r)
    BY <2>1, Levels DEF Below
  <2>3. r \in DOMAIN tree /\ tree[q] = r /\ q # r
    BY <2>2 DEF Children
  <2>4. QED
    BY <1>1, <1>3, <2>2, <2>3
<1>4. QED
  BY <1>2, <1>3

(* A child of a member is one level below it. *)
LEMMA ChildBelow ==
    ASSUME NEW tree, IsFiniteSet(DOMAIN tree), NEW p, NEW n \in 0 .. Size(tree), n < Size(tree),
           NEW r \in Level(tree, p)[n], NEW q \in Children(tree, r)
    PROVE  n + 1 \in 1 .. Size(tree) /\ q \in Level(tree, p)[n + 1]
<1>1. n + 1 \in 1 .. Size(tree) /\ (n + 1) - 1 = n
  BY Levels
<1>2. Level(tree, p)[n + 1] = Below(tree, Level(tree, p)[n])
  BY <1>1, Levels
<1>3. QED
  BY <1>1, <1>2 DEF Below

(* Below an empty level there is nothing. *)
LEMMA EmptyStays ==
    ASSUME NEW tree, IsFiniteSet(DOMAIN tree), NEW p,
           NEW i \in 0 .. Size(tree), NEW j \in 0 .. Size(tree), i =< j,
           Level(tree, p)[i] = {}
    PROVE  Level(tree, p)[j] = {}
<1> DEFINE N == Size(tree)
           T == {n \in 0 .. N : i =< n => Level(tree, p)[n] = {}}
<1>1. N \in Nat
  BY Levels
<1>2. 0 \in T
  BY <1>1
<1>3. ASSUME NEW n \in 0 .. N, n \in T, n < N PROVE n + 1 \in T
  <2>1. ASSUME i =< n + 1, NEW q \in Level(tree, p)[n + 1] PROVE FALSE
    <3>1. i # n + 1
      BY <2>1
    <3>2. Level(tree, p)[n] = {}
      BY <1>1, <1>3, <2>1, <3>1
    <3>3. n + 1 \in 0 .. N /\ n + 1 # 0 /\ (n + 1) - 1 = n
      BY <1>1, <1>3
    <3>4. QED
      BY <2>1, <3>2, <3>3, ParentAbove
  <2>2. QED
    BY <1>1, <1>3, <2>1
<1>4. 0 .. N \subseteq T
  <2> HIDE DEF T, N
  <2> QED
    BY <1>1, <1>2, <1>3, Induction
<1>5. QED
  BY <1>4

(* Two families that share a process: climbing from it, the family whose   *)
(* head is nearer ends in the other one.                                   *)
LEMMA Climb ==
    ASSUME NEW tree, IsFiniteSet(DOMAIN tree), NEW p, NEW s,
           NEW m \in 0 .. Size(tree), NEW n \in 0 .. Size(tree), m =< n,
           NEW q \in Level(tree, p)[m], q \in Level(tree, s)[n]
    PROVE  n - m \in 0 .. Size(tree) /\ p \in Level(tree, s)[n - m]
<1> DEFINE N == Size(tree)
           Fine(k) == \A x \in Level(tree, p)[k] : \A l \in 0 .. N :
                        k =< l /\ x \in Level(tree, s)[l] => p \in Level(tree, s)[l - k]
           T == {k \in 0 .. N : Fine(k)}
<1>1. N \in Nat
  BY Levels
<1>2. 0 \in T
  <2>1. ASSUME NEW x \in Level(tree, p)[0], NEW l \in 0 .. N, x \in Level(tree, s)[l]
        PROVE  p \in Level(tree, s)[l - 0]
    <3>1. x = p /\ l - 0 = l
      BY <1>1, <2>1, ParentAbove
    <3>2. QED
      BY <2>1, <3>1
  <2>2. QED
    BY <1>1, <2>1
<1>3. ASSUME NEW k \in 0 .. N, k \in T, k < N PROVE k + 1 \in T
  <2>1. k + 1 \in 0 .. N /\ k + 1 # 0 /\ (k + 1) - 1 = k
    BY <1>1, <1>3
  <2>2. ASSUME NEW x \in Level(tree, p)[k + 1], NEW l \in 0 .. N,
               k + 1 =< l, x \in Level(tree, s)[l]
        PROVE  p \in Level(tree, s)[l - (k + 1)]
    <3>1. tree[x] \in Level(tree, p)[k]
      BY <2>1, <2>2, ParentAbove
    <3>2. l # 0 /\ l - 1 \in 0 .. N /\ k =< l - 1 /\ (l - 1) - k = l - (k + 1)
      BY <1>1, <2>2
    <3>3. tree[x] \in Level(tree, s)[l - 1]
      BY <2>2, <3>2, ParentAbove
    <3>4. p \in Level(tree, s)[(l - 1) - k]
      BY <1>3, <3>1, <3>2, <3>3
    <3>5. QED
      BY <3>2, <3>4
  <2> HIDE DEF N
  <2>3. QED
    BY <2>1, <2>2
<1>4. 0 .. N \subseteq T
  <2> HIDE DEF T, N
  <2> QED
    BY <1>1, <1>2, <1>3, Induction
<1>5. Fine(m)
  BY <1>4
<1>6. n - m \in 0 .. N
  BY <1>1
<1>7. QED
  BY <1>5, <1>6

(* The family of a descendant lies below it. *)
LEMMA Descend ==
    ASSUME NEW tree, IsFiniteSet(DOMAIN tree), NEW p, NEW s,
           NEW d \in 0 .. Size(tree), NEW i \in 0 .. Size(tree), d + i =< Size(tree),
           p \in Level(tree, s)[d], NEW q \in Level(tree, p)[i]
    PROVE  q \in Level(tree, s)[d + i]
<1> DEFINE N == Size(tree)
           Fine(k) == d + k =< N => Level(tree, p)[k] \subseteq Level(tree, s)[d + k]
           T == {k \in 0 .. N : Fine(k)}
<1>1. N \in Nat
  BY Levels
<1>2. 0 \in T
  <2>1. \A x \in Level(tree, p)[0] : x = p
    BY <1>1, ParentAbove
  <2>2. d + 0 = d
    OBVIOUS
  <2>3. QED
    BY <1>1, <2>1, <2>2
<1>3. ASSUME NEW k \in 0 .. N, k \in T, k < N PROVE k + 1 \in T
  <2>1. /\ k + 1 \in 0 .. N /\ k + 1 # 0 /\ (k + 1) - 1 = k
    BY <1>1, <1>3
  <2>2. ASSUME d + (k + 1) =< N, NEW x \in Level(tree, p)[k + 1]
        PROVE  x \in Level(tree, s)[d + (k + 1)]
    <3>1. tree[x] \in Level(tree, p)[k] /\ x \in Children(tree, tree[x])
      BY <2>1, ParentAbove
    <3>2. d + k \in 0 .. N /\ d + k < N /\ (d + k) + 1 = d + (k + 1)
      BY <1>1, <2>2
    <3>3. tree[x] \in Level(tree, s)[d + k]
      BY <1>3, <3>1, <3>2
    <3>4. x \in Level(tree, s)[(d + k) + 1]
      BY <3>1, <3>2, <3>3, ChildBelow
    <3>5. QED
      BY <3>2, <3>4
  <2> HIDE DEF N
  <2>3. QED
    BY <2>1, <2>2
<1>4. 0 .. N \subseteq T
  <2> HIDE DEF T, N
  <2> QED
    BY <1>1, <1>2, <1>3, Induction
<1>5. QED
  BY <1>4

(* A process is on one level only of a family that has an end. *)
LEMMA LevelsAreDisjoint ==
    ASSUME NEW tree, IsFiniteSet(DOMAIN tree), NEW p, FamilyEnds(tree, p),
           NEW m \in 0 .. Size(tree), NEW n \in 0 .. Size(tree),
           NEW q \in Level(tree, p)[m], q \in Level(tree, p)[n]
    PROVE  m = n
<1> DEFINE N == Size(tree)
           L == Level(tree, p)
<1>1. N \in Nat /\ L[N] = {}
  BY Levels DEF FamilyEnds, Size
<1>2. ASSUME NEW d \in 1 .. N, p \in L[d] PROVE FALSE
  <2> DEFINE T == {i \in 0 .. N : L[i] = {}}
  <2>1. PICK e \in T : \A i \in T : e =< i
    <3>1. T \in SUBSET Nat /\ T # {}
      BY <1>1
    <3>2. QED
      BY <3>1, NatLeast
  <2>2. e > d
    <3>1. ASSUME e =< d PROVE FALSE
      BY <1>2, <2>1, <3>1, EmptyStays
    <3>2. QED
      BY <1>1, <2>1, <3>1
  <2>3. e - d \in 0 .. N /\ e - d < e /\ d + (e - d) = e
    BY <1>1, <2>1, <2>2
  <2>4. PICK x : x \in L[e - d]
    BY <2>1, <2>3
  <2>5. x \in L[e]
    BY <1>1, <1>2, <2>1, <2>3, <2>4, Descend
  <2>6. QED
    BY <2>1, <2>5
<1>3. ASSUME NEW i \in 0 .. N, NEW j \in 0 .. N, i < j, q \in L[i], q \in L[j]
      PROVE  FALSE
  <2>1. p \in L[j - i]
    <3>1. i =< j
      BY <1>1, <1>3
    <3>2. QED
      BY <1>3, <3>1, Climb
  <2>2. j - i \in 1 .. N
    BY <1>1, <1>3
  <2>3. QED
    BY <1>2, <2>1, <2>2
<1>4. QED
  BY <1>1, <1>3

(* The lines printed for p are its family, and as many. *)
LEMMA PrintedFamily ==
    ASSUME NEW tree, IsFiniteSet(DOMAIN tree), NEW p, FamilyEnds(tree, p)
    PROVE  /\ {line.pid : line \in PrintSubtree(tree, p)} = Family(tree, p)
           /\ Cardinality(PrintSubtree(tree, p)) = Cardinality(Family(tree, p))
<1> DEFINE N == Size(tree)
           L == Level(tree, p)
           lines == PrintSubtree(tree, p)
           family == Family(tree, p)
           depth(q) == CHOOSE n \in 0 .. N : q \in L[n]
           line(q, n) == [pid |-> q, depth |-> n]
           f == [q \in family |-> line(q, depth(q))]
<1>1. N \in Nat /\ DOMAIN L = 0 .. N /\ \A n \in 0 .. N : L[n] \subseteq DOMAIN tree
  BY Levels
<1>2. \A q : q \in family <=> \E n \in 0 .. N : q \in L[n]
  BY <1>1 DEF Family
<1>3. \A x : x \in lines <=> \E n \in 0 .. N : \E q \in L[n] : x = line(q, n)
  BY <1>1 DEF PrintSubtree
<1>4. {x.pid : x \in lines} = family
  <2> HIDE DEF L, N, lines, family
  <2>1. ASSUME NEW x \in lines PROVE x.pid \in family
    BY <1>2, <1>3
  <2>2. ASSUME NEW q \in family PROVE \E x \in lines : x.pid = q
    <3>1. PICK n \in 0 .. N : q \in L[n]
      BY <1>2
    <3>2. line(q, n) \in lines /\ line(q, n).pid = q
      BY <1>3, <3>1
    <3>3. QED
      BY <3>2
  <2>3. QED
    BY <2>1, <2>2
<1>5. \A q \in family : depth(q) \in 0 .. N /\ q \in L[depth(q)]
  <2> HIDE DEF L, N, family
  <2> QED
    BY <1>2
<1>6. \A n \in 0 .. N : \A q \in L[n] : q \in family /\ depth(q) = n
  BY <1>2, <1>5, LevelsAreDisjoint
<1>7. ExistsBijection(family, lines)
  <2> HIDE DEF L, N, lines, family, depth
  <2>1. f \in [family -> lines]
    BY <1>3, <1>5
  <2>2. ASSUME NEW q \in family, NEW r \in family, f[q] = f[r] PROVE q = r
    <3>1. f[q].pid = q /\ f[r].pid = r
      OBVIOUS
    <3>2. QED
      BY <2>2, <3>1
  <2>3. ASSUME NEW x \in lines PROVE \E q \in family : f[q] = x
    <3>1. PICK n \in 0 .. N : \E q \in L[n] : x = line(q, n)
      BY <1>3
    <3>2. PICK q \in L[n] : x = line(q, n)
      BY <3>1
    <3>3. QED
      BY <1>6, <3>2
  <2> HIDE DEF f
  <2>4. f \in Bijection(family, lines)
    BY <2>1, <2>2, <2>3 DEF Bijection, Injection, Surjection, IsInjective
  <2>5. QED
    BY <2>4 DEF ExistsBijection
<1>8. IsFiniteSet(family)
  <2>1. family \in SUBSET DOMAIN tree
    BY <1>1, <1>2
  <2>2. QED
    BY <2>1, FS_Subset
<1>9. Cardinality(lines) = Cardinality(family)
  BY <1>7, <1>8, FS_Bijection
<1>10. QED
  BY <1>4, <1>9

(* For every listing: a family that has an end is printed and counted once *)
(* each, the process and all its descendants, cycles elsewhere or not.     *)
THEOREM EveryFamilyIsCountedOnce ==
    ASSUME NEW tree, IsFiniteSet(DOMAIN tree), NEW p \in DOMAIN tree
    PROVE  FamilyCountedOnce(tree, p)
<1> SUFFICES ASSUME FamilyEnds(tree, p)
             PROVE  /\ {line.pid : line \in PrintSubtree(tree, p)}
                         = {q \in DOMAIN tree : q = p \/ Ancestor(tree, p, q)}
                    /\ Cardinality(PrintSubtree(tree, p)) = Aggregate(tree, p).process_count
  BY DEF FamilyCountedOnce
<1>1. /\ Family(tree, p) \subseteq DOMAIN tree
      /\ p \in Family(tree, p)
  <2>1. \A n \in 0 .. Size(tree) : Level(tree, p)[n] \subseteq DOMAIN tree
    BY Levels
  <2>2. 0 \in 0 .. Size(tree) /\ p \in Level(tree, p)[0]
    BY Levels
  <2>3. DOMAIN Level(tree, p) = 0 .. Size(tree)
    BY Levels
  <2>4. QED
    BY <2>1, <2>2, <2>3 DEF Family
<1>2. {q \in DOMAIN tree : q = p \/ Ancestor(tree, p, q)} = Family(tree, p)
  BY <1>1 DEF Ancestor
<1>3. Aggregate(tree, p).process_count = Cardinality(Family(tree, p))
  BY DEF Aggregate
<1>4. QED
  BY <1>2, <1>3, PrintedFamily

-----------------------------------------------------------------------------
(* The rows of the list: below a root every family has an end. *)

LEMMA FamilyMembers ==
    ASSUME NEW tree, IsFiniteSet(DOMAIN tree), NEW p
    PROVE  /\ Family(tree, p) \subseteq DOMAIN tree
           /\ \A q : q \in Family(tree, p) <=> \E n \in 0 .. Size(tree) : q \in Level(tree, p)[n]
           /\ p \in DOMAIN tree => p \in Level(tree, p)[0] /\ p \in Family(tree, p)
<1>1. /\ Size(tree) \in Nat /\ DOMAIN Level(tree, p) = 0 .. Size(tree)
      /\ \A n \in 0 .. Size(tree) : Level(tree, p)[n] \subseteq DOMAIN tree
      /\ Level(tree, p)[0] = {p} \cap DOMAIN tree
  BY Levels
<1>2. \A q : q \in Family(tree, p) <=> \E n \in 0 .. Size(tree) : q \in Level(tree, p)[n]
  BY <1>1 DEF Family
<1>3. QED
  BY <1>1, <1>2

(* A root is nobody's descendant. *)
LEMMA RootIsNoDescendant ==
    ASSUME NEW tree, IsFiniteSet(DOMAIN tree), NEW r \in Roots(tree), NEW s,
           NEW n \in 0 .. Size(tree), r \in Level(tree, s)[n]
    PROVE  n = 0 /\ s = r
<1>1. ASSUME n # 0 PROVE FALSE
  <2>1. tree[r] \in DOMAIN tree /\ tree[r] # r
    BY <1>1, ParentAbove
  <2>2. QED
    BY <2>1 DEF Roots
<1>2. QED
  BY <1>1, ParentAbove

(* A process has one root and one depth below it. *)
LEMMA OneRoot ==
    ASSUME NEW tree, IsFiniteSet(DOMAIN tree), NEW r \in Roots(tree), NEW s \in Roots(tree),
           NEW m \in 0 .. Size(tree), NEW n \in 0 .. Size(tree),
           NEW q \in Level(tree, r)[m], q \in Level(tree, s)[n]
    PROVE  m = n /\ r = s
<1>1. Size(tree) \in Nat
  BY Levels
<1>2. CASE m =< n
  <2>1. n - m \in 0 .. Size(tree) /\ r \in Level(tree, s)[n - m]
    BY <1>2, Climb
  <2>2. n - m = 0 /\ s = r
    BY <2>1, RootIsNoDescendant
  <2>3. QED
    BY <1>1, <2>2
<1>3. CASE n =< m
  <2>1. m - n \in 0 .. Size(tree) /\ s \in Level(tree, r)[m - n]
    BY <1>3, Climb
  <2>2. m - n = 0 /\ s = r
    BY <2>1, RootIsNoDescendant
  <2>3. QED
    BY <1>1, <2>2
<1>4. QED
  BY <1>1, <1>2, <1>3

(* As many levels as processes cannot all have a member. *)
LEMMA RootedEnds ==
    ASSUME NEW tree, IsFiniteSet(DOMAIN tree), NEW r \in Roots(tree)
    PROVE  /\ Level(tree, r)[Size(tree)] = {}
           /\ \A n \in 0 .. Size(tree) : Level(tree, r)[n] # {} => n < Size(tree)
<1> DEFINE N == Size(tree)
           L == Level(tree, r)
           f == [i \in 0 .. N |-> CHOOSE x : x \in L[i]]
<1>1. N \in Nat /\ \A n \in 0 .. N : L[n] \subseteq DOMAIN tree
  BY Levels
<1>2. ASSUME L[N] # {} PROVE FALSE
  <2>1. \A i \in 0 .. N : L[i] # {}
    BY <1>1, <1>2, EmptyStays
  <2>2. \A i \in 0 .. N : f[i] \in L[i]
    BY <2>1
  <2> HIDE DEF f
  <2>3. f \in [0 .. N -> DOMAIN tree]
    BY <1>1, <2>2 DEF f
  <2>4. IsFiniteSet(0 .. N) /\ Cardinality(DOMAIN tree) < Cardinality(0 .. N)
    <3>1. IsFiniteSet(0 .. N) /\ Cardinality(0 .. N) = N + 1
      BY <1>1, FS_Interval
    <3>2. QED
      BY <1>1, <3>1 DEF Size
  <2>5. PICK i, j \in 0 .. N : i # j /\ f[i] = f[j]
    BY <2>3, <2>4, FS_PigeonHole
  <2>6. QED
    BY <2>2, <2>5, OneRoot
<1>3. QED
  BY <1>1, <1>2

(* What lies below a child of an anchored process lies below the process.  *)
LEMMA FamilyOfChild ==
    ASSUME NEW tree, IsFiniteSet(DOMAIN tree), NEW r \in Roots(tree),
           NEW m \in 0 .. Size(tree), NEW q \in Level(tree, r)[m], NEW c \in Children(tree, q)
    PROVE  Family(tree, c) \subseteq Family(tree, q)
<1> DEFINE N == Size(tree)
<1>1. N \in Nat /\ m < N
  BY Levels, RootedEnds
<1>2. m + 1 \in 0 .. N /\ c \in Level(tree, r)[m + 1]
  BY <1>1, ChildBelow
<1>3. q \in DOMAIN tree
  BY ParentAbove
<1>4. 1 \in 0 .. N /\ c \in Level(tree, q)[1]
  <2>1. q \in Level(tree, q)[0] /\ 0 < N /\ 0 \in 0 .. N /\ 0 + 1 = 1
    BY <1>1, <1>3, FamilyMembers
  <2>2. c \in Level(tree, q)[0 + 1]
    BY <2>1, ChildBelow
  <2>3. 1 \in 0 .. N
    BY <1>1
  <2>4. QED
    BY <2>2, <2>3
<1>5. ASSUME NEW x \in Family(tree, c) PROVE x \in Family(tree, q)
  <2>1. PICK k \in 0 .. N : x \in Level(tree, c)[k]
    BY FamilyMembers
  <2>2. (m + 1) + k =< N
    <3>1. ASSUME (m + 1) + k > N PROVE FALSE
      <4> DEFINE i == N - (m + 1)
      <4>1. i \in 0 .. N /\ i =< k /\ (m + 1) + i = N
        BY <1>1, <1>2, <3>1
      <4> HIDE DEF i
      <4>2. PICK y : y \in Level(tree, c)[i]
        BY <2>1, <4>1, EmptyStays
      <4>3. y \in Level(tree, r)[(m + 1) + i]
        BY <1>2, <4>1, <4>2, Descend
      <4>4. QED
        BY <4>1, <4>3, RootedEnds
    <3>2. QED
      BY <1>1, <3>1
  <2>3. 1 + k \in 0 .. N /\ 1 + k =< N
    BY <1>1, <2>2
  <2>4. x \in Level(tree, q)[1 + k]
    BY <1>4, <2>1, <2>3, Descend
  <2>5. QED
    BY <2>3, <2>4, FamilyMembers
<1>6. QED
  BY <1>5

(* The ancestors of a child are its parent and the parent's ancestors. *)
LEMMA AncestorsOfChild ==
    ASSUME NEW tree, IsFiniteSet(DOMAIN tree), NEW r \in Roots(tree),
           NEW m \in 0 .. Size(tree), NEW q \in Level(tree, r)[m], NEW c \in Children(tree, q),
           NEW a \in DOMAIN tree
    PROVE  Ancestor(tree, a, c) <=> a = q \/ Ancestor(tree, a, q)
<1> DEFINE N == Size(tree)
<1>1. N \in Nat /\ m < N
  BY Levels, RootedEnds
<1>2. m + 1 \in 0 .. N /\ c \in Level(tree, r)[m + 1]
  BY <1>1, ChildBelow
<1>3. tree[c] = q /\ c # q /\ q \in DOMAIN tree
  BY ParentAbove DEF Children
<1>4. ASSUME Ancestor(tree, a, c) PROVE a = q \/ Ancestor(tree, a, q)
  <2>1. PICK k \in 0 .. N : c \in Level(tree, a)[k]
    BY <1>4, FamilyMembers DEF Ancestor
  <2>2. k # 0
    BY <1>4, <2>1, ParentAbove DEF Ancestor
  <2>3. k - 1 \in 0 .. N /\ q \in Level(tree, a)[k - 1]
    BY <1>1, <1>3, <2>1, <2>2, ParentAbove
  <2>4. q \in Family(tree, a)
    BY <2>3, FamilyMembers
  <2>5. QED
    BY <2>4 DEF Ancestor
<1>5. ASSUME a = q PROVE Ancestor(tree, a, c)
  <2>1. c \in Family(tree, c)
    BY FamilyMembers DEF Children
  <2>2. c \in Family(tree, q)
    BY <2>1, FamilyOfChild
  <2>3. QED
    BY <1>3, <1>5, <2>2 DEF Ancestor
<1>6. ASSUME Ancestor(tree, a, q) PROVE Ancestor(tree, a, c)
  <2>1. PICK k \in 0 .. N : q \in Level(tree, a)[k]
    BY <1>6, FamilyMembers DEF Ancestor
  <2>2. k =< m
    <3>1. ASSUME m =< k PROVE k = m
      <4>1. k - m \in 0 .. N /\ r \in Level(tree, a)[k - m]
        BY <2>1, <3>1, Climb
      <4>2. k - m = 0
        BY <4>1, RootIsNoDescendant
      <4>3. QED
        BY <1>1, <4>2
    <3>2. QED
      BY <1>1, <3>1
  <2>3. m - k \in 0 .. N /\ a \in Level(tree, r)[m - k]
    BY <2>1, <2>2, Climb
  <2>4. a # c
    <3>1. ASSUME a = c PROVE m - k = m + 1
      BY <1>2, <2>3, <3>1, OneRoot
    <3>2. QED
      BY <1>1, <3>1
  <2>5. k < N
    BY <1>1, <2>2
  <2>6. k + 1 \in 0 .. N /\ c \in Level(tree, a)[k + 1]
    BY <1>1, <2>1, <2>5, ChildBelow
  <2>7. QED
    BY <2>4, <2>6, FamilyMembers DEF Ancestor
<1>7. QED
  BY <1>4, <1>5, <1>6

FirstRow(tree, filter) == {r \in Roots(tree) : SubtreeMatches(tree, r, filter)}

Opened(X, expanded, filter) == {q \in X : filter # {} \/ q \in expanded}

NextRow(tree, expanded, filter, X) ==
    {c \in Below(tree, Opened(X, expanded, filter)) : SubtreeMatches(tree, c, filter)}

(* The recursive definition of FlattenNode is satisfied. *)
LEMMA RowsByDepth ==
    ASSUME NEW tree, IsFiniteSet(DOMAIN tree), NEW expanded, NEW filter
    PROVE  LET Row == FlattenNode(tree, expanded, filter) IN
           /\ Row \in [0 .. Size(tree) -> SUBSET DOMAIN tree]
           /\ Row[0] = FirstRow(tree, filter)
           /\ \A n \in 1 .. Size(tree) : Row[n] = NextRow(tree, expanded, filter, Row[n - 1])
<1> DEFINE N == Size(tree)
           S == SUBSET DOMAIN tree
           A == FirstRow(tree, filter)
           Next(X) == NextRow(tree, expanded, filter, X)
           G == [X \in S |-> Next(X)]
           Row == FlattenNode(tree, expanded, filter)
           Defines(L) == L = [n \in 0 .. N |-> IF n = 0 THEN A ELSE Next(L[n - 1])]
<1>1. N \in Nat
  BY FS_CardinalityType DEF Size
<1>2. A \in S /\ \A X \in S : Next(X) \in S
  BY DEF FirstRow, NextRow, Roots, Below, Children, Opened
<1>3. \E L : Defines(L)
  <2>1. G \in [S -> S]
    BY <1>2
  <2> HIDE DEF N, S, A, G
  <2>2. PICK L : Iterates(L, S, A, G, N)
    BY <1>1, <1>2, <2>1, IterationExists
  <2> HIDE DEF Next
  <2> USE DEF Iterates
  <2>3. \A n \in 1 .. N : L[n] = Next(L[n - 1])
    <3>1. \A n \in 1 .. N : L[n - 1] \in S
      BY <1>1, <2>2
    <3>2. QED
      BY <2>2, <3>1 DEF G
  <2>4. \A n \in 0 .. N : L[n] = IF n = 0 THEN A ELSE Next(L[n - 1])
    BY <1>1, <2>2, <2>3
  <2>5. L = [n \in 0 .. N |-> IF n = 0 THEN A ELSE Next(L[n - 1])]
    BY <2>2, <2>4
  <2>6. QED
    BY <2>5
<1>4. Row = CHOOSE L : Defines(L)
  BY Zenon DEF FlattenNode, FirstRow, NextRow, Opened, Below, Size
<1>5. Defines(Row)
  <2> HIDE DEF Defines, Row
  <2> QED
    BY <1>3, <1>4
<1>6. /\ DOMAIN Row = 0 .. N /\ Row[0] = A
      /\ \A n \in 1 .. N : Row[n] = Next(Row[n - 1])
  <2> HIDE DEF N, S, A, G, Next, Row
  <2> QED
    BY <1>1, <1>5
<1>7. Row \in [0 .. N -> S]
  <2> HIDE DEF A, Next, Row
  <2> DEFINE T == {n \in 0 .. N : Row[n] \in S}
  <2>1. 0 \in T
    BY <1>1, <1>2, <1>6
  <2>2. ASSUME NEW n \in 0 .. N, n \in T, n < N PROVE n + 1 \in T
    <3>1. n + 1 \in 1 .. N /\ (n + 1) - 1 = n /\ n + 1 \in 0 .. N
      BY <1>1, <2>2
    <3>2. Row[n + 1] = Next(Row[n])
      BY <1>6, <3>1
    <3>3. QED
      BY <1>2, <2>2, <3>1, <3>2
  <2>3. 0 .. N \subseteq T
    <3> HIDE DEF T, N
    <3> QED
      BY <1>1, <2>1, <2>2, Induction
  <2>4. Row = [n \in 0 .. N |-> Row[n]]
    BY <1>5
  <2>5. QED
    BY <2>3, <2>4
<1>8. QED
  BY <1>6, <1>7

(* What a reader of the list expects of a process: that it is shown. *)
Wanted(tree, expanded, filter, p) ==
    IF filter = {} THEN \A a \in DOMAIN tree : Ancestor(tree, a, p) => a \in expanded
    ELSE \A S \in filter : \E q \in S : q = p \/ Ancestor(tree, p, q)

(* The filter finds the processes with a match at or below them. *)
LEMMA SearchMatches ==
    ASSUME NEW tree, IsFiniteSet(DOMAIN tree), NEW p \in DOMAIN tree, NEW filter,
           NEW expanded, filter # {}
    PROVE  SubtreeMatches(tree, p, filter) <=> Wanted(tree, expanded, filter, p)
<1>1. p \in Family(tree, p)
  BY FamilyMembers
<1>2. QED
  BY <1>1 DEF SubtreeMatches, Wanted, Ancestor

(* A child of an anchored process is wanted just when its parent is wanted *)
(* and opened and the child matches the filter.                            *)
LEMMA ChildIsWanted ==
    ASSUME NEW tree, IsFiniteSet(DOMAIN tree), NEW expanded, NEW filter,
           NEW r \in Roots(tree), NEW m \in 0 .. Size(tree), NEW q \in Level(tree, r)[m],
           NEW c \in Children(tree, q)
    PROVE  Wanted(tree, expanded, filter, c) <=>
             /\ Wanted(tree, expanded, filter, q)
             /\ filter # {} \/ q \in expanded
             /\ SubtreeMatches(tree, c, filter)
<1>1. q \in DOMAIN tree /\ c \in DOMAIN tree
  BY ParentAbove DEF Children
<1>2. CASE filter = {}
  <2>1. SubtreeMatches(tree, c, filter)
    BY <1>2 DEF SubtreeMatches
  <2>2. \A a \in DOMAIN tree : Ancestor(tree, a, c) <=> a = q \/ Ancestor(tree, a, q)
    BY AncestorsOfChild
  <2>3. QED
    BY <1>1, <1>2, <2>1, <2>2 DEF Wanted
<1>3. CASE filter # {}
  <2>1. /\ SubtreeMatches(tree, c, filter) <=> Wanted(tree, expanded, filter, c)
        /\ SubtreeMatches(tree, q, filter) <=> Wanted(tree, expanded, filter, q)
    BY <1>1, <1>3, SearchMatches
  <2>2. SubtreeMatches(tree, c, filter) => SubtreeMatches(tree, q, filter)
    <3>1. Family(tree, c) \subseteq Family(tree, q)
      BY FamilyOfChild
    <3>2. QED
      BY <3>1 DEF SubtreeMatches
  <2>3. QED
    BY <1>3, <2>1, <2>2
<1>4. QED
  BY <1>2, <1>3

AtDepth(tree, n) == UNION {Level(tree, r)[n] : r \in Roots(tree)}

(* The rows of a depth are the wanted processes of that depth. *)
LEMMA RowsAreWanted ==
    ASSUME NEW tree, IsFiniteSet(DOMAIN tree), NEW expanded, NEW filter,
           NEW n \in 0 .. Size(tree)
    PROVE  FlattenNode(tree, expanded, filter)[n]
             = {p \in AtDepth(tree, n) : Wanted(tree, expanded, filter, p)}
<1> DEFINE N == Size(tree)
           Row == FlattenNode(tree, expanded, filter)
           wanted(p) == Wanted(tree, expanded, filter, p)
           T == {k \in 0 .. N : Row[k] = {p \in AtDepth(tree, k) : wanted(p)}}
<1>1. /\ N \in Nat
      /\ Row[0] = FirstRow(tree, filter)
      /\ \A k \in 1 .. N : Row[k] = NextRow(tree, expanded, filter, Row[k - 1])
  BY Levels, RowsByDepth
<1>2. 0 \in T
  <2>1. AtDepth(tree, 0) = Roots(tree)
    <3>1. \A r \in Roots(tree) : Level(tree, r)[0] = {r}
      BY Levels DEF Roots
    <3>2. QED
      BY <3>1 DEF AtDepth
  <2>2. ASSUME NEW r \in Roots(tree) PROVE SubtreeMatches(tree, r, filter) <=> wanted(r)
    <3>1. r \in DOMAIN tree
      BY DEF Roots
    <3>2. CASE filter = {}
      <4>1. ASSUME NEW a \in DOMAIN tree, Ancestor(tree, a, r) PROVE FALSE
        <5>1. PICK k \in 0 .. N : r \in Level(tree, a)[k]
          BY <4>1, FamilyMembers DEF Ancestor
        <5>2. QED
          BY <4>1, <5>1, RootIsNoDescendant DEF Ancestor
      <4>2. QED
        BY <3>2, <4>1 DEF SubtreeMatches, Wanted
    <3>3. CASE filter # {}
      BY <3>1, <3>3, SearchMatches
    <3>4. QED
      BY <3>2, <3>3
  <2>3. 0 \in 0 .. N
    BY <1>1
  <2> HIDE DEF wanted
  <2>4. QED
    BY <1>1, <2>1, <2>2, <2>3 DEF FirstRow
<1>3. ASSUME NEW k \in 0 .. N, k \in T, k < N PROVE k + 1 \in T
  <2>1. k + 1 \in 0 .. N /\ k + 1 \in 1 .. N /\ k + 1 # 0 /\ (k + 1) - 1 = k
    BY <1>1, <1>3
  <2>2. /\ Row[k] = {p \in AtDepth(tree, k) : wanted(p)}
        /\ Row[k + 1] = NextRow(tree, expanded, filter, Row[k])
    BY <1>1, <1>3, <2>1
  <2> HIDE DEF N, Row, T
  <2>3. ASSUME NEW c \in Row[k + 1] PROVE c \in AtDepth(tree, k + 1) /\ wanted(c)
    <3>1. /\ SubtreeMatches(tree, c, filter)
          /\ \E q \in Opened(Row[k], expanded, filter) : c \in Children(tree, q)
      BY <2>2 DEF NextRow, Below
    <3>2. PICK q \in Opened(Row[k], expanded, filter) : c \in Children(tree, q)
      BY <3>1
    <3>3. /\ q \in AtDepth(tree, k) /\ wanted(q)
          /\ filter # {} \/ q \in expanded
      BY <2>2 DEF Opened
    <3>4. PICK r \in Roots(tree) : q \in Level(tree, r)[k]
      BY <3>3 DEF AtDepth
    <3>5. c \in Level(tree, r)[k + 1]
      BY <1>3, <3>2, <3>4, ChildBelow DEF N
    <3>6. wanted(c)
      BY <3>1, <3>2, <3>3, <3>4, ChildIsWanted DEF N
    <3>7. QED
      BY <3>5, <3>6 DEF AtDepth
  <2>4. ASSUME NEW c \in AtDepth(tree, k + 1), wanted(c) PROVE c \in Row[k + 1]
    <3>1. PICK r \in Roots(tree) : c \in Level(tree, r)[k + 1]
      BY DEF AtDepth
    <3>2. tree[c] \in Level(tree, r)[k] /\ c \in Children(tree, tree[c])
      BY <2>1, <3>1, ParentAbove DEF N
    <3>3. /\ wanted(tree[c]) /\ SubtreeMatches(tree, c, filter)
          /\ filter # {} \/ tree[c] \in expanded
      BY <2>4, <3>2, ChildIsWanted DEF N
    <3>4. tree[c] \in AtDepth(tree, k)
      BY <3>2 DEF AtDepth
    <3>5. tree[c] \in Opened(Row[k], expanded, filter)
      BY <2>2, <3>3, <3>4 DEF Opened
    <3>6. QED
      BY <2>2, <3>2, <3>3, <3>5 DEF NextRow, Below
  <2>5. Row[k + 1] = {p \in AtDepth(tree, k + 1) : wanted(p)}
    BY <2>3, <2>4
  <2>6. QED
    BY <2>1, <2>5 DEF T
<1>4. 0 .. N \subseteq T
  <2> HIDE DEF T, N
  <2> QED
    BY <1>1, <1>2, <1>3, Induction
<1>5. QED
  BY <1>4

(* For every listing, every set of expanded rows and every filter the list *)
(* of the GUI shows what was asked for: no match hidden, no other row, no  *)
(* process twice, every row below that of its parent.                      *)
THEOREM EveryListIsAsPromised ==
    ASSUME NEW tree, IsFiniteSet(DOMAIN tree), NEW expanded, NEW filter
    PROVE  RowsAsPromised(tree, expanded, filter)
<1> DEFINE N == Size(tree)
           Row == FlattenNode(tree, expanded, filter)
           rows == FlattenTree(tree, expanded, filter)
           shown == {row.pid : row \in rows}
           line(p, n) == [pid |-> p, depth |-> n, has_children |-> Children(tree, p) # {}]
           wanted(p) == Wanted(tree, expanded, filter, p)
           depth(p) == CHOOSE n \in 0 .. N : p \in Row[n]
           f == [p \in shown |-> line(p, depth(p))]
<1>1. /\ N \in Nat /\ DOMAIN Row = 0 .. N
      /\ \A n \in 0 .. N : Row[n] \subseteq DOMAIN tree
      /\ \A n \in 0 .. N : Row[n] = {p \in AtDepth(tree, n) : wanted(p)}
      /\ \A n \in 1 .. N : Row[n] = NextRow(tree, expanded, filter, Row[n - 1])
  <2>1. \A n \in 0 .. N : Row[n] = {p \in AtDepth(tree, n) : wanted(p)}
    <3> HIDE DEF Row, N
    <3>1. SUFFICES ASSUME NEW n \in 0 .. N
                   PROVE  Row[n] = {p \in AtDepth(tree, n) : wanted(p)}
      OBVIOUS
    <3>2. QED
      BY RowsAreWanted DEF Row, N
  <2>2. /\ N \in Nat /\ DOMAIN Row = 0 .. N
        /\ \A n \in 0 .. N : Row[n] \subseteq DOMAIN tree
        /\ \A n \in 1 .. N : Row[n] = NextRow(tree, expanded, filter, Row[n - 1])
    <3> HIDE DEF wanted
    <3> QED
      BY Levels, RowsByDepth
  <2> HIDE DEF wanted, Row, N
  <2>3. QED
    BY <2>1, <2>2
<1>2. \A x : x \in rows <=> \E n \in 0 .. N : \E p \in Row[n] : x = line(p, n)
  BY <1>1 DEF FlattenTree
<1>3. \A p : p \in shown <=> \E n \in 0 .. N : p \in Row[n]
  <2> HIDE DEF Row, rows, N
  <2>1. ASSUME NEW n \in 0 .. N, NEW p \in Row[n] PROVE p \in shown
    <3>1. line(p, n) \in rows /\ line(p, n).pid = p
      BY <1>2
    <3>2. QED
      BY <3>1
  <2>2. ASSUME NEW x \in rows PROVE \E n \in 0 .. N : x.pid \in Row[n]
    BY <1>2
  <2>3. QED
    BY <2>1, <2>2
<1>4. \A m, n \in 0 .. N : \A p \in Row[m] : p \in Row[n] => m = n
  <2>1. ASSUME NEW m \in 0 .. N, NEW n \in 0 .. N, NEW p \in Row[m], p \in Row[n]
        PROVE  m = n
    <3>1. p \in AtDepth(tree, m) /\ p \in AtDepth(tree, n)
      BY <1>1, <2>1
    <3>2. PICK r \in Roots(tree) : p \in Level(tree, r)[m]
      BY <3>1 DEF AtDepth
    <3>3. PICK s \in Roots(tree) : p \in Level(tree, s)[n]
      BY <3>1 DEF AtDepth
    <3>4. QED
      BY <3>2, <3>3, OneRoot
  <2>2. QED
    BY <2>1
<1>5. shown = {p \in Anchored(tree) : wanted(p)}
  <2>1. \A p : p \in Anchored(tree) <=> \E n \in 0 .. N : p \in AtDepth(tree, n)
    <3>1. \A p : p \in Anchored(tree) <=> \E r \in Roots(tree) : p \in Family(tree, r)
      BY DEF Anchored
    <3>2. \A p, n : p \in AtDepth(tree, n) <=> \E r \in Roots(tree) : p \in Level(tree, r)[n]
      BY DEF AtDepth
    <3>3. QED
      BY <3>1, <3>2, FamilyMembers
  <2> HIDE DEF Row, rows, N, shown, wanted
  <2>2. QED
    BY <1>1, <1>3, <2>1
<1>6. Cardinality(shown) = Cardinality(rows)
  <2> HIDE DEF Row, rows, N, shown, wanted, depth
  <2>1. \A p \in shown : depth(p) \in 0 .. N /\ p \in Row[depth(p)]
    BY <1>3 DEF depth
  <2>2. f \in [shown -> rows]
    BY <1>2, <2>1
  <2>3. ASSUME NEW p \in shown, NEW q \in shown, f[p] = f[q] PROVE p = q
    <3>1. f[p].pid = p /\ f[q].pid = q
      OBVIOUS
    <3>2. QED
      BY <2>3, <3>1
  <2>4. ASSUME NEW x \in rows PROVE \E p \in shown : f[p] = x
    <3>1. PICK n \in 0 .. N : \E p \in Row[n] : x = line(p, n)
      BY <1>2
    <3>2. PICK p \in Row[n] : x = line(p, n)
      BY <3>1
    <3>3. p \in shown /\ depth(p) = n
      BY <1>3, <1>4, <2>1
    <3>4. QED
      BY <3>2, <3>3
  <2> HIDE DEF f
  <2>5. f \in Bijection(shown, rows)
    BY <2>2, <2>3, <2>4 DEF Bijection, Injection, Surjection, IsInjective
  <2>6. IsFiniteSet(shown)
    <3>1. shown \in SUBSET DOMAIN tree
      BY <1>1, <1>3
    <3>2. QED
      BY <3>1, FS_Subset
  <2>7. QED
    BY <2>5, <2>6, FS_Bijection DEF ExistsBijection
<1>7. ASSUME NEW row \in rows, row.depth > 0
      PROVE  \E above \in rows : above.pid = tree[row.pid] /\ above.depth = row.depth - 1
  <2> HIDE DEF Row, rows, N, shown, wanted, depth
  <2>1. PICK n \in 0 .. N : \E p \in Row[n] : row = line(p, n)
    BY <1>2
  <2>2. PICK p \in Row[n] : row = line(p, n)
    BY <2>1
  <2>3. row.pid = p /\ row.depth = n /\ n \in 1 .. N /\ n - 1 \in 0 .. N
    BY <1>1, <1>7, <2>2
  <2>4. PICK q \in Row[n - 1] : p \in Children(tree, q)
    BY <1>1, <2>3 DEF NextRow, Below, Opened
  <2>5. tree[p] = q
    BY <2>4 DEF Children
  <2>6. line(q, n - 1) \in rows /\ line(q, n - 1).pid = q /\ line(q, n - 1).depth = n - 1
    BY <1>2, <2>3, <2>4
  <2>7. QED
    BY <2>3, <2>5, <2>6
<1>8. QED
  BY <1>5, <1>6, <1>7 DEF RowsAsPromised, Wanted
=============================================================================
