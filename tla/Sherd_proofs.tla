---------------------------- MODULE Sherd_proofs ----------------------------
(***************************************************************************)
(* Proofs about Sherd for any number of runs and ticks, every capacity,    *)
(* retention and prune period.                                             *)
(***************************************************************************)
EXTENDS Sherd, FiniteSetTheorems, TLAPS

USE SherdAssumption, StoreAssumption DEF Time

(* Every sleep advances the clock: interval_secs is at least 1.  A wall    *)
(* clock that is set back breaks this, and with it what is proved below    *)
(* under it.                                                               *)
SecondsAdvance == SleepSteps \subseteq Nat \ {0}

-----------------------------------------------------------------------------
(* Where the elements of a concatenation come from. *)
LEMMA ConcatElements ==
    ASSUME NEW S, NEW s \in Seq(S), NEW t \in Seq(S)
    PROVE  /\ s \o t \in Seq(S) /\ Len(s \o t) = Len(s) + Len(t)
           /\ \A i \in DOMAIN (s \o t) :
                \/ i =< Len(s) /\ i \in DOMAIN s /\ (s \o t)[i] = s[i]
                \/ i > Len(s) /\ i - Len(s) \in DOMAIN t /\ (s \o t)[i] = t[i - Len(s)]
OBVIOUS

(* Two sequences without repetition and without a common element make one. *)
LEMMA ConcatDistinct ==
    ASSUME NEW S, NEW s \in Seq(S), NEW t \in Seq(S),
           \A i, j \in DOMAIN s : s[i] = s[j] => i = j,
           \A i, j \in DOMAIN t : t[i] = t[j] => i = j,
           \A i \in DOMAIN s, j \in DOMAIN t : s[i] # t[j],
           NEW i \in DOMAIN (s \o t), NEW j \in DOMAIN (s \o t), (s \o t)[i] = (s \o t)[j]
    PROVE  i = j
<1>1. CASE i =< Len(s) /\ j =< Len(s)
  BY <1>1, ConcatElements
<1>2. CASE i > Len(s) /\ j > Len(s)
  <2>1. i - Len(s) \in DOMAIN t /\ j - Len(s) \in DOMAIN t /\ t[i - Len(s)] = t[j - Len(s)]
    BY <1>2, ConcatElements
  <2>2. i - Len(s) = j - Len(s)
    BY <2>1
  <2>3. QED
    BY <2>2, ConcatElements
<1>3. CASE i =< Len(s) /\ j > Len(s)
  BY <1>3, ConcatElements
<1>4. CASE i > Len(s) /\ j =< Len(s)
  BY <1>4, ConcatElements
<1>5. QED
  BY <1>1, <1>2, <1>3, <1>4, ConcatElements

(* KeepLast cuts a number of elements off the front, and is within the     *)
(* capacity; no more is cut than the capacity asks for.                    *)
LEMMA KeepLastIsSuffix ==
    ASSUME NEW S, NEW s \in Seq(S), NEW n \in Nat
    PROVE  /\ KeepLast(s, n) \in Seq(S)
           /\ Len(KeepLast(s, n)) =< n
           /\ \E cut \in Nat :
                /\ cut + Len(KeepLast(s, n)) = Len(s)
                /\ cut = 0 \/ Len(KeepLast(s, n)) = n
                /\ \A i \in DOMAIN KeepLast(s, n) :
                     cut + i \in DOMAIN s /\ KeepLast(s, n)[i] = s[cut + i]
<1>1. CASE Len(s) > n
  <2> DEFINE u == SubSeq(s, Len(s) - n + 1, Len(s))
  <2>1. KeepLast(s, n) = u
    BY <1>1 DEF KeepLast
  <2>2. u \in Seq(S) /\ Len(u) = n
    BY <1>1
  <2>3. \A i \in DOMAIN u : u[i] = s[Len(s) - n + i] /\ Len(s) - n + i \in DOMAIN s
    BY <1>1, <2>2
  <2>4. Len(s) - n \in Nat
    BY <1>1
  <2> HIDE DEF u
  <2>5. (Len(s) - n) + Len(u) = Len(s)
    BY <2>2
  <2>6. \E cut \in Nat : /\ cut + Len(u) = Len(s)
                         /\ cut = 0 \/ Len(u) = n
                         /\ \A i \in DOMAIN u : cut + i \in DOMAIN s /\ u[i] = s[cut + i]
    BY <2>2, <2>3, <2>4, <2>5
  <2>7. QED
    BY <2>1, <2>2, <2>6
<1>2. CASE ~ (Len(s) > n)
  <2>1. KeepLast(s, n) = s
    BY <1>2 DEF KeepLast
  <2>2. \A i \in DOMAIN s : 0 + i \in DOMAIN s /\ s[i] = s[0 + i]
    OBVIOUS
  <2>3. 0 \in Nat /\ Len(s) =< n /\ 0 + Len(s) = Len(s)
    BY <1>2
  <2>4. QED
    BY <2>1, <2>2, <2>3
<1>3. QED
  BY <1>1, <1>2

(* If no more is cut than leaves n elements, the last part, of no more     *)
(* than n elements, is kept.                                               *)
LEMMA LastPartIsKept ==
    ASSUME NEW cut \in Nat, NEW n \in Nat, NEW old \in Nat, NEW part \in Nat, NEW kept \in Nat,
           cut + kept = old + part, cut = 0 \/ kept = n, part =< n, NEW j \in 1 .. part
    PROVE  old + j - cut \in 1 .. kept
OBVIOUS

(* Of an extended sequence KeepLast keeps elements of the old part and,    *)
(* shifted, elements of the new one: all of them if they fit.              *)
LEMMA KeepLastOfExtended ==
    ASSUME NEW S, NEW s \in Seq(S), NEW t \in Seq(S), NEW n \in Nat
    PROVE  \E d \in Int :
             /\ \A i \in DOMAIN KeepLast(s \o t, n) :
                  \/ \E j \in DOMAIN s : KeepLast(s \o t, n)[i] = s[j]
                  \/ i + d \in DOMAIN t /\ KeepLast(s \o t, n)[i] = t[i + d]
             /\ Len(t) =< n => \A j \in DOMAIN t :
                  \E i \in DOMAIN KeepLast(s \o t, n) :
                    i + d = j /\ KeepLast(s \o t, n)[i] = t[j]
<1> DEFINE all == s \o t
           u == KeepLast(all, n)
<1>1. all \in Seq(S) /\ Len(s) \in Nat /\ Len(t) \in Nat /\ Len(all) = Len(s) + Len(t)
  OBVIOUS
<1>2. /\ \A i \in DOMAIN all :
           \/ i \in DOMAIN s /\ all[i] = s[i]
           \/ i - Len(s) \in DOMAIN t /\ all[i] = t[i - Len(s)]
      /\ \A j \in DOMAIN t : all[Len(s) + j] = t[j]
  BY ConcatElements
<1> HIDE DEF all
<1>3. u \in Seq(S)
  BY <1>1, KeepLastIsSuffix
<1>4. PICK cut \in Nat :
        /\ cut + Len(u) = Len(all)
        /\ cut = 0 \/ Len(u) = n
        /\ \A i \in DOMAIN u : cut + i \in DOMAIN all /\ u[i] = all[cut + i]
  BY <1>1, KeepLastIsSuffix
<1> HIDE DEF u
<1>5. ASSUME NEW i \in DOMAIN u
      PROVE  \/ \E j \in DOMAIN s : u[i] = s[j]
             \/ i + (cut - Len(s)) \in DOMAIN t /\ u[i] = t[i + (cut - Len(s))]
  <2>1. \/ cut + i \in DOMAIN s /\ u[i] = s[cut + i]
        \/ cut + i - Len(s) \in DOMAIN t /\ u[i] = t[cut + i - Len(s)]
    <3>1. cut + i \in DOMAIN all /\ u[i] = all[cut + i]
      BY <1>4
    <3>2. ASSUME NEW j \in DOMAIN all, j = cut + i
          PROVE  \/ j \in DOMAIN s /\ u[i] = s[j]
                 \/ j - Len(s) \in DOMAIN t /\ u[i] = t[j - Len(s)]
      BY <1>2, <3>1, <3>2
    <3>3. i \in Int
      BY <1>3
    <3>4. QED
      BY <3>1, <3>2, <3>3
  <2>2. cut + i - Len(s) = i + (cut - Len(s))
    BY <1>1, <1>3
  <2>3. QED
    BY <2>1, <2>2
<1>6. cut - Len(s) \in Int
  BY <1>1
<1>7. ASSUME Len(t) =< n, NEW j \in DOMAIN t
      PROVE  \E i \in DOMAIN u : i + (cut - Len(s)) = j /\ u[i] = t[j]
  <2> DEFINE i == Len(s) + j - cut
  <2>1. j \in 1 .. Len(t) /\ DOMAIN u = 1 .. Len(u) /\ Len(u) \in Nat
    BY <1>3
  <2>2. cut + Len(u) = Len(s) + Len(t)
    BY <1>1, <1>4
  <2>3. i \in DOMAIN u /\ cut + i = Len(s) + j /\ i + (cut - Len(s)) = j
    <3>1. Len(s) \in Nat /\ Len(t) \in Nat /\ Len(u) \in Nat
      BY <1>1, <2>1
    <3>2. cut = 0 \/ Len(u) = n
      BY <1>4
    <3>3. Len(t) =< n /\ j \in 1 .. Len(t)
      BY <1>7, <2>1
    <3>4. i \in 1 .. Len(u)
      BY <1>4, <2>2, <3>1, <3>2, <3>3, LastPartIsKept, Zenon
    <3>5. cut + i = Len(s) + j
      BY <3>1, <3>3
    <3>6. i + (cut - Len(s)) = j
      BY <3>1, <3>3
    <3>7. QED
      BY <2>1, <3>4, <3>5, <3>6
  <2>4. u[i] = t[j]
    BY <1>2, <1>4, <2>3
  <2>5. QED
    BY <2>3, <2>4
<1>8. \E d \in Int :
        /\ \A i \in DOMAIN u : \/ \E j \in DOMAIN s : u[i] = s[j]
                               \/ i + d \in DOMAIN t /\ u[i] = t[i + d]
        /\ Len(t) =< n => \A j \in DOMAIN t : \E i \in DOMAIN u : i + d = j /\ u[i] = t[j]
  BY <1>5, <1>6, <1>7
<1>9. QED
  BY <1>8 DEF u, all

(* An order of a finite set leaves none of its elements out. *)
LEMMA OrderIsComplete ==
    ASSUME NEW S, IsFiniteSet(S), NEW order \in SetToSeqs(S)
    PROVE  /\ Cardinality(S) \in Nat /\ DOMAIN order = 1 .. Cardinality(S)
           /\ \A i \in DOMAIN order : order[i] \in S
           /\ \A i, j \in DOMAIN order : order[i] = order[j] => i = j
           /\ \A x \in S : \E i \in DOMAIN order : order[i] = x
<1> DEFINE n == Cardinality(S)
<1>1. n \in Nat
  BY FS_CardinalityType
<1>2. order \in [1 .. n -> S] /\ \A i, j \in 1 .. n : order[i] = order[j] => i = j
  BY DEF SetToSeqs
<1>3. IsFiniteSet(1 .. n) /\ Cardinality(1 .. n) = n
  BY <1>1, FS_Interval
<1>4. order \in Injection(1 .. n, S)
  BY <1>2 DEF Injection, IsInjective
<1>5. order \in Surjection(1 .. n, S)
  BY <1>3, <1>4, FS_Injection
<1>6. QED
  BY <1>1, <1>2, <1>5 DEF Surjection

(* The events of a refresh of one kind: one for each key, of this tick. *)
LEMMA EventsOfOneTick ==
    ASSUME TypeOK, tick # 0, NEW keys \in SUBSET Key, NEW kind \in {"Started", "Exited"},
           NEW s \in Events(keys, kind)
    PROVE  /\ s \in Seq(Event)
           /\ \A i \in DOMAIN s :
                s[i].key \in keys /\ s[i].at = now /\ s[i].kind = kind /\ s[i].tick = tick
           /\ \A i, j \in DOMAIN s : s[i] = s[j] => i = j
<1>1. Cardinality(keys) \in Nat
  BY FS_Subset, FS_CardinalityType
<1>2. PICK order \in SetToSeqs(keys) :
        s = [i \in DOMAIN order |-> [key |-> order[i], at |-> now, kind |-> kind, tick |-> tick]]
  BY DEF Events
<1>3. /\ order \in [1 .. Cardinality(keys) -> keys]
      /\ \A i, j \in 1 .. Cardinality(keys) : i # j => order[i] # order[j]
  BY DEF SetToSeqs
<1>4. \A i \in DOMAIN order :
        [key |-> order[i], at |-> now, kind |-> kind, tick |-> tick] \in Event
  BY <1>3 DEF TypeOK, Event
<1>5. DOMAIN s = 1 .. Cardinality(keys) /\ s \in [1 .. Cardinality(keys) -> Event]
  BY <1>2, <1>3, <1>4
<1>6. s \in Seq(Event)
  BY <1>1, <1>5
<1>7. \A i \in DOMAIN s :
        s[i].key = order[i] /\ s[i].at = now /\ s[i].kind = kind /\ s[i].tick = tick
  BY <1>2
<1>8. QED
  BY <1>3, <1>5, <1>6, <1>7

LEMMA EventsOfEveryKey ==
    ASSUME NEW keys \in SUBSET Key, NEW kind, NEW s \in Events(keys, kind)
    PROVE  /\ DOMAIN s = 1 .. Cardinality(keys) /\ Cardinality(keys) \in Nat
           /\ \A k \in keys : \E i \in DOMAIN s : s[i].key = k
<1>1. IsFiniteSet(keys)
  BY FS_Subset
<1>2. PICK order \in SetToSeqs(keys) :
        s = [i \in DOMAIN order |-> [key |-> order[i], at |-> now, kind |-> kind, tick |-> tick]]
  BY DEF Events
<1>3. /\ DOMAIN order = 1 .. Cardinality(keys) /\ Cardinality(keys) \in Nat
      /\ \A k \in keys : \E i \in DOMAIN order : order[i] = k
  BY <1>1, OrderIsComplete
<1>4. QED
  BY <1>2, <1>3

(* The runs that appeared or vanished in a refresh are no more than the    *)
(* timeline has room for.                                                  *)
TickFits == Cardinality(running' \ running) + Cardinality(running \ running') =< TimelineCapacity

(* What Refresh makes of the timeline: elements of the old one and new     *)
(* events of this tick, all different, which tell what is listed; if they  *)
(* fit, there is one for each run that appeared or vanished.               *)
LEMMA RefreshedTimeline ==
    ASSUME TypeOK, Refresh
    PROVE  /\ timeline' \in Seq(Event) /\ Len(timeline') =< TimelineCapacity
           /\ \E fresh \in SUBSET DOMAIN timeline' :
                /\ \A i \in DOMAIN timeline' \ fresh :
                     \E j \in DOMAIN timeline : timeline'[i] = timeline[j]
                /\ \A i \in fresh :
                     /\ timeline'[i].at = now /\ timeline'[i].tick = tick
                     /\ timeline'[i].kind = "Started" <=> timeline'[i].key \in running'
                /\ \A i, j \in fresh : timeline'[i] = timeline'[j] => i = j
                /\ TickFits => \A k \in (running' \ running) \cup (running \ running') :
                                 \E i \in fresh : timeline'[i].key = k
<1>1. tick # 0 /\ running \subseteq Key /\ timeline \in Seq(Event)
  BY DEF TypeOK, Refresh
<1>2. PICK listed \in SUBSET Key : running' = listed /\
        \E started \in Events(listed \ running, "Started"),
           exited \in Events(running \ listed, "Exited") :
             timeline' = KeepLast(timeline \o (started \o exited), TimelineCapacity)
  BY DEF Refresh
<1>3. PICK started \in Events(listed \ running, "Started"),
           exited \in Events(running \ listed, "Exited") :
             timeline' = KeepLast(timeline \o (started \o exited), TimelineCapacity)
  BY <1>2
<1>4. /\ started \in Seq(Event)
      /\ \A i \in DOMAIN started : /\ started[i].key \in listed /\ started[i].at = now
                                   /\ started[i].kind = "Started" /\ started[i].tick = tick
      /\ \A i, j \in DOMAIN started : started[i] = started[j] => i = j
  BY <1>1, EventsOfOneTick
<1>5. /\ exited \in Seq(Event)
      /\ \A i \in DOMAIN exited : /\ exited[i].key \notin listed /\ exited[i].at = now
                                  /\ exited[i].kind = "Exited" /\ exited[i].tick = tick
      /\ \A i, j \in DOMAIN exited : exited[i] = exited[j] => i = j
  BY <1>1, EventsOfOneTick
<1> DEFINE new == started \o exited
           n1 == Cardinality(listed \ running)
           n2 == Cardinality(running \ listed)
<1>6. /\ new \in Seq(Event)
      /\ \A i \in DOMAIN new : /\ new[i].at = now /\ new[i].tick = tick
                               /\ new[i].kind = "Started" <=> new[i].key \in listed
  BY <1>4, <1>5, ConcatElements
<1>7. \A i, j \in DOMAIN new : new[i] = new[j] => i = j
  <2>1. \A i \in DOMAIN started, j \in DOMAIN exited : started[i] # exited[j]
    BY <1>4, <1>5
  <2>2. QED
    BY <1>4, <1>5, <2>1, ConcatDistinct
<1>8. /\ DOMAIN started = 1 .. n1 /\ n1 \in Nat
      /\ \A k \in listed \ running : \E i \in DOMAIN started : started[i].key = k
  BY EventsOfEveryKey
<1>9. /\ DOMAIN exited = 1 .. n2 /\ n2 \in Nat
      /\ \A k \in running \ listed : \E i \in DOMAIN exited : exited[i].key = k
  BY <1>1, EventsOfEveryKey
<1>10. TickFits <=> n1 + n2 =< TimelineCapacity
  BY <1>2 DEF TickFits
<1> HIDE DEF n1, n2
<1>11. TickFits <=> Len(new) =< TimelineCapacity
  <2>1. Len(started) = n1 /\ Len(exited) = n2
    BY <1>4, <1>5, <1>8, <1>9
  <2>2. QED
    BY <1>4, <1>5, <1>10, <2>1, ConcatElements
<1>12. \A k \in (running' \ running) \cup (running \ running') :
         \E j \in DOMAIN new : new[j].key = k
  <2>1. /\ \A i \in DOMAIN started : i \in DOMAIN new /\ new[i] = started[i]
        /\ \A i \in DOMAIN exited : Len(started) + i \in DOMAIN new
                                    /\ new[Len(started) + i] = exited[i]
    BY <1>4, <1>5
  <2>2. ASSUME NEW k \in listed \ running
        PROVE  \E j \in DOMAIN new : new[j].key = k
    BY <1>8, <2>1
  <2>3. ASSUME NEW k \in running \ listed
        PROVE  \E j \in DOMAIN new : new[j].key = k
    BY <1>9, <2>1, ZenonT(30)
  <2>4. QED
    BY <1>2, <2>2, <2>3
<1>13. timeline' = KeepLast(timeline \o new, TimelineCapacity)
  BY <1>3
<1> HIDE DEF new
<1>14. /\ timeline' \in Seq(Event) /\ Len(timeline') =< TimelineCapacity
      /\ \E d \in Int :
           /\ \A i \in DOMAIN timeline' :
                \/ \E j \in DOMAIN timeline : timeline'[i] = timeline[j]
                \/ i + d \in DOMAIN new /\ timeline'[i] = new[i + d]
           /\ Len(new) =< TimelineCapacity => \A j \in DOMAIN new :
                \E i \in DOMAIN timeline' : i + d = j /\ timeline'[i] = new[j]
  <2>1. timeline \o new \in Seq(Event)
    BY <1>1, <1>6
  <2>2. timeline' \in Seq(Event) /\ Len(timeline') =< TimelineCapacity
    BY <1>13, <2>1, KeepLastIsSuffix
  <2> DEFINE u == KeepLast(timeline \o new, TimelineCapacity)
  <2>3. \E d \in Int :
          /\ \A i \in DOMAIN u :
               \/ \E j \in DOMAIN timeline : u[i] = timeline[j]
               \/ i + d \in DOMAIN new /\ u[i] = new[i + d]
          /\ Len(new) =< TimelineCapacity => \A j \in DOMAIN new :
               \E i \in DOMAIN u : i + d = j /\ u[i] = new[j]
    BY <1>1, <1>6, KeepLastOfExtended
  <2>4. timeline' = u
    BY <1>13
  <2> HIDE DEF u
  <2>5. QED
    BY <2>2, <2>3, <2>4, ZenonT(30)
<1>15. PICK d \in Int :
         /\ \A i \in DOMAIN timeline' :
              \/ \E j \in DOMAIN timeline : timeline'[i] = timeline[j]
              \/ i + d \in DOMAIN new /\ timeline'[i] = new[i + d]
         /\ Len(new) =< TimelineCapacity => \A j \in DOMAIN new :
              \E i \in DOMAIN timeline' : i + d = j /\ timeline'[i] = new[j]
  BY <1>14
<1> DEFINE fresh == {i \in DOMAIN timeline' : i + d \in DOMAIN new /\ timeline'[i] = new[i + d]}
<1>16. \A i \in DOMAIN timeline' \ fresh : \E j \in DOMAIN timeline : timeline'[i] = timeline[j]
  BY <1>15
<1>17. \A i \in fresh :
         /\ timeline'[i].at = now /\ timeline'[i].tick = tick
         /\ timeline'[i].kind = "Started" <=> timeline'[i].key \in running'
  BY <1>2, <1>6
<1>18. \A i, j \in fresh : timeline'[i] = timeline'[j] => i = j
  <2>1. \A i, j \in fresh : timeline'[i] = timeline'[j] => i + d = j + d
    BY <1>7
  <2>2. \A i, j \in fresh : i \in Int /\ j \in Int /\ (i + d = j + d => i = j)
    BY <1>14
  <2>3. QED
    BY <2>1, <2>2
<1>19. fresh \in SUBSET DOMAIN timeline'
  OBVIOUS
<1>20. ASSUME TickFits, NEW k \in (running' \ running) \cup (running \ running')
       PROVE  \E i \in fresh : timeline'[i].key = k
  <2>1. PICK j \in DOMAIN new : new[j].key = k
    BY <1>12
  <2>2. PICK i \in DOMAIN timeline' : i + d = j /\ timeline'[i] = new[j]
    BY <1>11, <1>15, <1>20
  <2>3. QED
    BY <2>1, <2>2
<1> HIDE DEF fresh
<1>21. QED
  BY <1>14, <1>16, <1>17, <1>18, <1>19, <1>20

-----------------------------------------------------------------------------
(* Type correctness, one step per action. *)

LEMMA EmptyTimeline ==
    <<>> \in Seq(Event) /\ Len(<<>>) =< TimelineCapacity /\ DOMAIN <<>> = {}
<1>1. Len(<<>>) = 0
  OBVIOUS
<1>2. QED
  BY <1>1

LEMMA InitType == Init => TypeOK
<1> SUFFICES ASSUME Init PROVE TypeOK
  OBVIOUS
<1>1. StoreTypeOK
  BY DEF Init, StoreInit, StoreTypeOK
<1>2. timeline \in Seq(Event) /\ Len(timeline) =< TimelineCapacity
  BY EmptyTimeline DEF Init
<1>3. {clock, now, last_prune} \subseteq Time /\ tick \in 0 .. MaxTick /\ boot_tick \in 0 .. tick
  BY DEF Init
<1>4. unsaved \subseteq running /\ new_events \subseteq DOMAIN timeline
  BY DEF Init
<1>5. pc = "down" /\ SHUTDOWN = FALSE /\ lossy = FALSE /\ pruned = FALSE /\ running = {}
  BY DEF Init
<1>6. timeline = <<>> /\ unsaved = {} /\ new_events = {}
  BY DEF Init
<1>7. QED
  BY <1>1, <1>2, <1>3, <1>4, <1>5, <1>6, Zenon DEF TypeOK

LEMMA GoneType ==
    ASSUME TypeOK, Gone
    PROVE  TypeOK'
<1>1. timeline' \in Seq(Event) /\ Len(timeline') =< TimelineCapacity
  BY EmptyTimeline DEF Gone
<1>2. StoreTypeOK'
  BY DEF TypeOK, StoreTypeOK, Gone, store
<1>3. ({clock, now, last_prune} \subseteq Time)' /\ tick' \in 0 .. MaxTick /\ boot_tick' \in 0 .. tick'
  BY DEF TypeOK, Gone
<1>4. unsaved' \subseteq running' /\ new_events' \subseteq DOMAIN timeline'
  BY DEF Gone
<1>5. pc' = "down" /\ SHUTDOWN' = FALSE /\ lossy' = FALSE /\ pruned' = FALSE /\ running' = {}
  BY DEF Gone
<1>6. timeline' = <<>> /\ unsaved' = {} /\ new_events' = {}
  BY DEF Gone
<1>7. QED
  BY <1>1, <1>2, <1>3, <1>4, <1>5, <1>6, Zenon DEF TypeOK

LEMMA TypeStep ==
    ASSUME TypeOK, [Next]_vars
    PROVE  TypeOK'
<1> USE DEF TypeOK, StoreTypeOK, store, memory, ghosts
<1>1. CASE Start
  BY <1>1 DEF Start
<1>2. CASE Signal
  BY <1>2 DEF Signal
<1>3. CASE Crash
  BY <1>3, GoneType DEF Crash
<1>4. CASE Stop
  BY <1>4, GoneType DEF Stop
<1>5. CASE BeginTick
  BY <1>5 DEF BeginTick
<1>6. CASE Refresh
  <2>1. timeline' \in Seq(Event) /\ Len(timeline') =< TimelineCapacity
    BY <1>6, RefreshedTimeline
  <2>2. running' \subseteq Key /\ unsaved' = running' /\ new_events' = {} /\ pc' = "snapshots"
    BY <1>6 DEF Refresh
  <2>3. QED
    BY <1>6, <2>1, <2>2 DEF Refresh
<1>7. CASE RefreshFails
  BY <1>7 DEF RefreshFails
<1>8. ASSUME NEW k \in Key, WriteSnapshot(k)
      PROVE  TypeOK'
  <2>1. [key |-> k, sampled_at |-> now, tick |-> tick] \in Snapshot
    BY <1>8 DEF WriteSnapshot, Snapshot
  <2>2. QED
    BY <1>8, <2>1 DEF WriteSnapshot, RecordSnapshot
<1>9. CASE BeginEvents
  BY <1>9 DEF BeginEvents, RecentTimelineEvents
<1>10. CASE WriteEvent
  <2>1. PICK i \in new_events : RecordEvent(timeline[i]) /\ new_events' = new_events \ {i}
    BY <1>10 DEF WriteEvent
  <2>2. timeline[i] \in Event
    OBVIOUS
  <2>3. StoreTypeOK'
    BY <2>1, <2>2 DEF RecordEvent
  <2>4. QED
    BY <1>10, <2>1, <2>3 DEF WriteEvent
<1>11. CASE WriteFails
  BY <1>11 DEF WriteFails
<1>12. CASE PersistDone
  BY <1>12 DEF PersistDone
<1>13. CASE SkipPrune
  BY <1>13 DEF SkipPrune
<1>14. CASE PruneFirst
  BY <1>14 DEF PruneFirst, PruneSnapshots
<1>15. CASE PruneSecond
  BY <1>15 DEF PruneSecond, PruneEvents
<1>16. CASE PruneFails
  BY <1>16 DEF PruneFails
<1>17. CASE Wake
  BY <1>17 DEF Wake
<1>18. CASE WakeEarly
  BY <1>18 DEF WakeEarly
<1>19. CASE UNCHANGED vars
  BY <1>19 DEF vars
<1>20. QED
  BY <1>1, <1>2, <1>3, <1>4, <1>5, <1>6, <1>7, <1>8, <1>9, <1>10, <1>11, <1>12, <1>13, <1>14,
     <1>15, <1>16, <1>17, <1>18, <1>19 DEF Next, Loop

(* Every variable has its type, persist_tick's locals are empty outside    *)
(* it, and a daemon that is down remembers nothing.                        *)
THEOREM TypeCorrect == Spec => []TypeOK
<1>1. TypeOK /\ [Next]_vars => TypeOK'
  BY TypeStep
<1>2. QED
  BY InitType, <1>1, PTL DEF Spec

-----------------------------------------------------------------------------
(* The invariant, one lemma per part and, in it, one step per action that  *)
(* can disturb the part.                                                   *)

LEMMA InitInvariant == Init => SherdInvariant /\ StoreFollows
<1> SUFFICES ASSUME Init PROVE SherdInvariant /\ StoreFollows
  OBVIOUS
<1>1. DOMAIN timeline = {}
  BY EmptyTimeline DEF Init
<1>2. EventsAreDated /\ SnapshotsComeFirst
  BY <1>1 DEF Init, EventsAreDated, SnapshotsComeFirst
<1>3. EventsAreNew /\ PruneLeavesNothingDue /\ EventsPersistedOnce /\ StartedHasSnapshot
  BY DEF Init, StoreInit, EventsAreNew, PruneLeavesNothingDue, EventsPersistedOnce, StartedHasSnapshot
<1>4. StoreFollows
  <2>1. timeline_events = {} /\ snapshots = {} /\ running = {} /\ new_events = {}
    BY DEF Init, StoreInit
  <2>2. SnapshotsAreOfTheTick /\ RowsAreDated /\ DueOncePerRun
    BY <2>1 DEF Init, SnapshotsAreOfTheTick, RowsAreDated, DueOncePerRun, Due
  <2>3. ASSUME NEW k \in Key PROVE Known(k)
    BY <2>1 DEF Known, LifeOf, EventsForGeneration, LastOf
  <2>4. QED
    BY <2>2, <2>3 DEF StoreFollows
<1>5. QED
  BY <1>2, <1>3, <1>4 DEF SherdInvariant

(* Times are numbers. *)
LEMMA Times ==
    ASSUME TypeOK
    PROVE  /\ now \in Nat /\ clock \in Nat /\ last_prune \in Nat /\ tick \in Nat
           /\ \A i \in DOMAIN timeline :
                timeline[i] \in Event /\ timeline[i].at \in Nat /\ timeline[i].tick \in Nat
<1>1. \A i \in DOMAIN timeline : timeline[i] \in Event
  BY DEF TypeOK
<1>2. \A e \in Event : e.at \in Nat /\ e.tick \in Nat
  BY DEF Event
<1>3. now \in Nat /\ clock \in Nat /\ last_prune \in Nat /\ tick \in Nat
  BY DEF TypeOK
<1>4. QED
  BY <1>1, <1>2, <1>3

(* The events of the timeline dated now, after a refresh, are those this   *)
(* refresh made: they are all different and tell what is listed.           *)
LEMMA RecentEventsAreFresh ==
    ASSUME TypeOK, EventsAreDated, Refresh
    PROVE  /\ \A i, j \in RecentTimelineEvents(now)' :
                /\ timeline'[i].at = now /\ timeline'[i].tick = tick'
                /\ timeline'[i].kind = "Started" <=> timeline'[i].key \in running'
                /\ timeline'[i] = timeline'[j] => i = j
           /\ TickFits => \A k \in (running' \ running) \cup (running \ running') :
                            \E i \in RecentTimelineEvents(now)' : timeline'[i].key = k
<1>1. pc = "refresh" /\ now' = now /\ tick' = tick
  BY DEF Refresh, ghosts
<1>2. PICK fresh \in SUBSET DOMAIN timeline' :
        /\ \A i \in DOMAIN timeline' \ fresh :
             \E j \in DOMAIN timeline : timeline'[i] = timeline[j]
        /\ \A i \in fresh :
             /\ timeline'[i].at = now /\ timeline'[i].tick = tick
             /\ timeline'[i].kind = "Started" <=> timeline'[i].key \in running'
        /\ \A i, j \in fresh : timeline'[i] = timeline'[j] => i = j
        /\ TickFits => \A k \in (running' \ running) \cup (running \ running') :
                         \E i \in fresh : timeline'[i].key = k
  BY RefreshedTimeline
<1>3. \A i \in DOMAIN timeline' \ fresh : ~ (timeline'[i].at >= now)
  <2>1. \A j \in DOMAIN timeline : ~ (timeline[j].at >= now)
    BY <1>1, Times DEF EventsAreDated
  <2>2. QED
    BY <1>2, <2>1
<1>4. RecentTimelineEvents(now)' = fresh
  BY <1>1, <1>2, <1>3, Times DEF RecentTimelineEvents
<1>5. QED
  BY <1>1, <1>2, <1>4

LEMMA EventsStayDated ==
    ASSUME SecondsAdvance, TypeOK, EventsAreDated, [Next]_vars
    PROVE  EventsAreDated'
<1> USE DEF EventsAreDated, memory, ghosts
<1>1. CASE Start
  <2>1. timeline' = timeline /\ DOMAIN timeline = {}
    BY <1>1, EmptyTimeline DEF Start, TypeOK
  <2>2. now' =< clock'
    BY <1>1 DEF Start, TypeOK
  <2>3. QED
    BY <2>1, <2>2
<1>2. CASE Signal
  BY <1>2 DEF Signal
<1>3. CASE Gone
  <2>1. DOMAIN timeline' = {}
    BY <1>3, EmptyTimeline DEF Gone
  <2>2. QED
    BY <1>3, <2>1 DEF Gone
<1>4. CASE BeginTick
  BY <1>4, Times DEF BeginTick
<1>5. CASE Refresh
  <2>1. pc = "refresh" /\ pc' = "snapshots" /\ now' = now /\ clock' = clock
    BY <1>5 DEF Refresh
  <2>2. PICK fresh \in SUBSET DOMAIN timeline' :
          /\ \A i \in DOMAIN timeline' \ fresh :
               \E j \in DOMAIN timeline : timeline'[i] = timeline[j]
          /\ \A i \in fresh : timeline'[i].at = now
    BY <1>5, RefreshedTimeline
  <2>3. \A i \in DOMAIN timeline' : timeline'[i].at =< now
    BY <2>2 DEF TypeOK
  <2>4. QED
    BY <2>1, <2>3
<1>6. CASE Wake
  <2>1. PICK d \in SleepSteps : clock' = clock + d
    BY <1>6 DEF Wake
  <2>2. pc' = "loop" /\ UNCHANGED <<now, timeline>>
    BY <1>6 DEF Wake
  <2>3. clock < clock'
    BY <2>1, Times DEF SecondsAdvance
  <2>4. now < clock' /\ now =< clock'
    BY <2>1, <2>3, Times
  <2>5. \A i \in DOMAIN timeline : timeline[i].at < clock'
    BY <2>1, <2>4, Times
  <2>6. QED
    BY <2>2, <2>4, <2>5
<1>7. CASE WakeEarly
  BY <1>7 DEF WakeEarly
<1>8. CASE \/ RefreshFails \/ (\E k \in Key : WriteSnapshot(k)) \/ BeginEvents \/ WriteEvent
           \/ WriteFails \/ PersistDone \/ SkipPrune \/ PruneFirst \/ PruneSecond \/ PruneFails
  <2>1. UNCHANGED <<now, clock, timeline>> /\ pc' \notin {"loop", "refresh"}
    BY <1>8 DEF RefreshFails, WriteSnapshot, BeginEvents, WriteEvent, WriteFails, PersistDone,
                SkipPrune, PruneFirst, PruneSecond, PruneFails
  <2>2. QED
    BY <2>1
<1>9. CASE UNCHANGED vars
  BY <1>9 DEF vars
<1>10. QED
  BY <1>1, <1>2, <1>3, <1>4, <1>5, <1>6, <1>7, <1>8, <1>9 DEF Next, Loop, Crash, Stop

LEMMA SnapshotsStayFirst ==
    ASSUME TypeOK, EventsAreDated, SnapshotsComeFirst, [Next]_vars
    PROVE  SnapshotsComeFirst'
<1> USE DEF SnapshotsComeFirst, RecentTimelineEvents, HasSnapshot, store, memory, ghosts
<1>1. CASE Signal
  BY <1>1 DEF Signal
<1>2. CASE Refresh
  <2>1. unsaved' = running' /\ new_events' = {}
    BY <1>2 DEF Refresh, TypeOK
  <2>2. QED
    BY <1>2, <2>1, RecentEventsAreFresh
<1>3. ASSUME NEW k \in Key, WriteSnapshot(k)
      PROVE  SnapshotsComeFirst'
  <2>1. /\ pc = "snapshots" /\ UNCHANGED <<pc, now, running, timeline, new_events>>
        /\ snapshots' = snapshots \cup {[key |-> k, sampled_at |-> now, tick |-> tick]}
        /\ unsaved' = unsaved \ {k}
    BY <1>3 DEF WriteSnapshot, RecordSnapshot
  <2>2. \A e : HasSnapshot(e) => HasSnapshot(e)'
    BY <2>1
  <2>3. \E row \in snapshots' : row.key = k /\ row.sampled_at = now
    <3> DEFINE row == [key |-> k, sampled_at |-> now, tick |-> tick]
    <3>1. row \in snapshots' /\ row.key = k /\ row.sampled_at = now
      BY <2>1
    <3>2. QED
      BY <3>1
  <2>4. \A j \in running' \ unsaved' : HasSnapshot([key |-> j, at |-> now])'
    BY <2>1, <2>2, <2>3
  <2>5. new_events' = {}
    BY <2>1 DEF TypeOK
  <2>6. QED
    BY <2>1, <2>4, <2>5
<1>4. CASE BeginEvents
  <2>1. /\ pc = "snapshots" /\ pc' = "events" /\ unsaved = {}
        /\ UNCHANGED <<snapshots, now, running, timeline>>
        /\ new_events' = {i \in DOMAIN timeline : timeline[i].at >= now}
    BY <1>4 DEF BeginEvents
  <2>2. ASSUME NEW i \in new_events'
        PROVE  timeline[i].at = now /\ (timeline[i].kind = "Started" => HasSnapshot(timeline[i]))
    <3>1. i \in RecentTimelineEvents(now)
      BY <2>1
    <3>2. timeline[i].at = now
      BY <3>1, Times DEF EventsAreDated
    <3>3. timeline[i].kind = "Started" => HasSnapshot([key |-> timeline[i].key, at |-> now])
      BY <2>1, <3>1
    <3>4. QED
      BY <3>2, <3>3
  <2>3. QED
    BY <2>1, <2>2
<1>5. CASE WriteEvent
  BY <1>5 DEF WriteEvent, RecordEvent
<1>6. CASE \/ Start \/ Gone \/ BeginTick \/ RefreshFails \/ WriteFails \/ PersistDone
           \/ SkipPrune \/ PruneFirst \/ PruneSecond \/ PruneFails \/ Wake \/ WakeEarly
  <2>1. new_events' = {} /\ pc' # "snapshots"
    BY <1>6 DEF Start, Gone, BeginTick, RefreshFails, WriteFails, PersistDone, SkipPrune,
                PruneFirst, PruneSecond, PruneFails, Wake, WakeEarly, TypeOK
  <2>2. QED
    BY <2>1
<1>7. CASE UNCHANGED vars
  BY <1>7 DEF vars
<1>8. QED
  BY <1>1, <1>2, <1>3, <1>4, <1>5, <1>6, <1>7 DEF Next, Loop, Crash, Stop

LEMMA EventsStayNew ==
    ASSUME TypeOK, EventsAreDated, EventsAreNew, [Next]_vars
    PROVE  EventsAreNew'
<1> USE DEF EventsAreNew, store, memory, ghosts
<1>1. CASE Signal
  BY <1>1 DEF Signal, RecentTimelineEvents
<1>2. CASE BeginTick
  <2>1. /\ tick' = tick + 1 /\ pc' = "refresh" /\ new_events' = {}
        /\ UNCHANGED timeline_events
    BY <1>2 DEF BeginTick, TypeOK
  <2>2. \A row \in timeline_events : row.event.tick < tick' /\ row.event.tick =< tick'
    <3>1. \A row \in timeline_events : row.event.tick \in Nat
      BY DEF TypeOK, StoreTypeOK, Event
    <3>2. QED
      BY <2>1, <3>1, Times
  <2>3. QED
    BY <2>1, <2>2, Times
<1>3. CASE Refresh
  <2>1. /\ pc = "refresh" /\ pc' = "snapshots" /\ new_events' = {}
        /\ UNCHANGED <<timeline_events, tick>>
    BY <1>3 DEF Refresh, TypeOK
  <2>2. QED
    BY <1>3, <2>1, RecentEventsAreFresh
<1>4. ASSUME NEW k \in Key, WriteSnapshot(k)
      PROVE  EventsAreNew'
  BY <1>4 DEF WriteSnapshot, RecordSnapshot, RecentTimelineEvents
<1>5. CASE BeginEvents
  <2>1. /\ pc = "snapshots" /\ pc' = "events"
        /\ UNCHANGED <<timeline_events, timeline, tick>>
        /\ new_events' = RecentTimelineEvents(now)
    BY <1>5 DEF BeginEvents
  <2>2. \A row \in timeline_events : row.event.tick < tick
    BY <2>1
  <2>3. \A i \in new_events' : timeline[i].tick = tick
    BY <2>1
  <2>4. \A i \in new_events', row \in timeline_events : row.event # timeline[i]
    BY <2>2, <2>3, Times
  <2>5. QED
    BY <2>1, <2>4
<1>6. CASE WriteEvent
  <2>1. PICK i \in new_events :
          /\ timeline_events' = timeline_events \cup {[id |-> last_id + 1, event |-> timeline[i]]}
          /\ new_events' = new_events \ {i}
    BY <1>6 DEF WriteEvent, RecordEvent
  <2>2. pc' = "events" /\ UNCHANGED <<timeline, tick>>
    BY <1>6 DEF WriteEvent
  <2>3. \A row \in timeline_events' : row.event = timeline[i] \/ row \in timeline_events
    BY <2>1
  <2>4. timeline[i].tick = tick
    BY <2>1
  <2>5. \A row \in timeline_events' : row.event.tick =< tick
    BY <2>3, <2>4, Times
  <2>6. \A j \in new_events', row \in timeline_events' : row.event # timeline[j]
    BY <2>1, <2>3
  <2>7. \A j, k \in new_events' :
          timeline[j].tick = tick /\ (timeline[j] = timeline[k] => j = k)
    BY <2>1
  <2>8. QED
    BY <2>2, <2>5, <2>6, <2>7
<1>7. CASE \/ Start \/ Gone \/ RefreshFails \/ WriteFails \/ PersistDone
           \/ SkipPrune \/ PruneFirst \/ PruneSecond \/ PruneFails \/ Wake \/ WakeEarly
  <2>1. new_events' = {} /\ pc' \notin {"refresh", "snapshots"} /\ tick' = tick
    BY <1>7 DEF Start, Gone, RefreshFails, WriteFails, PersistDone, SkipPrune,
                PruneFirst, PruneSecond, PruneFails, Wake, WakeEarly, TypeOK
  <2>2. timeline_events' \subseteq timeline_events
    BY <1>7 DEF Start, Gone, RefreshFails, WriteFails, PersistDone, SkipPrune, PruneFirst,
                PruneSecond, PruneFails, Wake, WakeEarly, PruneSnapshots, PruneEvents
  <2>3. QED
    BY <2>1, <2>2
<1>8. CASE UNCHANGED vars
  BY <1>8 DEF vars, RecentTimelineEvents
<1>9. QED
  BY <1>1, <1>2, <1>3, <1>4, <1>5, <1>6, <1>7, <1>8 DEF Next, Loop, Crash, Stop

LEMMA PruneStaysComplete ==
    ASSUME TypeOK, EventsAreDated, SnapshotsComeFirst, PruneLeavesNothingDue, [Next]_vars
    PROVE  PruneLeavesNothingDue'
<1> USE DEF PruneLeavesNothingDue, PruneDue, store, memory, ghosts
<1>1. /\ \A row \in snapshots : row.sampled_at \in Nat
      /\ \A row \in timeline_events : row.event.at \in Nat
  BY SMTT(30) DEF TypeOK, StoreTypeOK, Snapshot, Event
<1>2. CASE Start
  BY <1>2 DEF Start
<1>3. CASE Gone
  BY <1>3 DEF Gone
<1>4. CASE BeginTick
  BY <1>4, <1>1, Times DEF BeginTick, EventsAreDated
<1>5. ASSUME NEW k \in Key, WriteSnapshot(k)
      PROVE  PruneLeavesNothingDue'
  <2>1. /\ snapshots' = snapshots \cup {[key |-> k, sampled_at |-> now, tick |-> tick]}
        /\ pc' = "snapshots" /\ UNCHANGED <<timeline_events, now, last_prune, pruned>>
    BY <1>5 DEF WriteSnapshot, RecordSnapshot
  <2>2. \A row \in snapshots' : row \in snapshots \/ row.sampled_at = now
    BY <2>1
  <2>3. pruned => now >= last_prune - Retention
    BY Times
  <2>4. QED
    BY <2>1, <2>2, <2>3
<1>6. CASE WriteEvent
  <2>1. PICK i \in new_events :
          timeline_events' = timeline_events \cup {[id |-> last_id + 1, event |-> timeline[i]]}
    BY <1>6 DEF WriteEvent, RecordEvent
  <2>2. pc' = "events" /\ UNCHANGED <<snapshots, now, last_prune, pruned>>
    BY <1>6 DEF WriteEvent, RecordEvent
  <2>3. \A row \in timeline_events' : row \in timeline_events \/ row.event.at = now
    BY <2>1 DEF SnapshotsComeFirst
  <2>4. pruned => now >= last_prune - Retention
    BY Times
  <2>5. QED
    BY <2>2, <2>3, <2>4
<1>7. CASE SkipPrune
  BY <1>7 DEF SkipPrune
<1>8. CASE PruneFirst
  BY <1>8 DEF PruneFirst, PruneSnapshots
<1>9. CASE PruneSecond
  <2>1. /\ pc = "prune_events" /\ pc' = "sleep" /\ UNCHANGED <<snapshots, now>>
        /\ last_prune' = now
        /\ timeline_events' = {row \in timeline_events : row.event.at >= now - Retention}
    BY <1>9 DEF PruneSecond, PruneEvents
  <2>2. ~ (now - now >= PruneEvery)
    BY Times
  <2>3. now =< now
    BY Times
  <2>4. QED
    BY <2>1, <2>2, <2>3
<1>10. CASE PruneFails
  BY <1>10 DEF PruneFails
<1>11. CASE \/ Signal \/ Refresh \/ RefreshFails \/ BeginEvents \/ WriteFails \/ PersistDone
            \/ Wake \/ WakeEarly
  <2>1. UNCHANGED <<snapshots, timeline_events, now, last_prune, pruned>>
    BY <1>11 DEF Signal, Refresh, RefreshFails, BeginEvents, WriteFails, PersistDone, Wake, WakeEarly
  <2>2. pc' = pc \/ pc' \notin {"down", "sleep", "prune_events"}
    BY <1>11 DEF Signal, Refresh, RefreshFails, BeginEvents, WriteFails, PersistDone, Wake, WakeEarly
  <2>3. QED
    BY <2>1, <2>2
<1>12. CASE UNCHANGED vars
  BY <1>12 DEF vars
<1>13. QED
  BY <1>2, <1>3, <1>4, <1>5, <1>6, <1>7, <1>8, <1>9, <1>10, <1>11, <1>12
     DEF Next, Loop, Crash, Stop

LEMMA EventsStayOnce ==
    ASSUME EventsAreNew, EventsPersistedOnce, [Next]_vars
    PROVE  EventsPersistedOnce'
<1> USE DEF EventsPersistedOnce, store
<1>1. CASE WriteEvent
  <2>1. PICK i \in new_events :
          timeline_events' = timeline_events \cup {[id |-> last_id + 1, event |-> timeline[i]]}
    BY <1>1 DEF WriteEvent, RecordEvent
  <2>2. \A row \in timeline_events : row.event # timeline[i]
    BY DEF EventsAreNew
  <2>3. QED
    BY <2>1, <2>2
<1>2. CASE ~WriteEvent
  <2>1. timeline_events' \subseteq timeline_events
    BY <1>2 DEF Next, Loop, Start, Signal, Crash, Gone, Stop, BeginTick, Refresh, RefreshFails,
         WriteSnapshot, RecordSnapshot, BeginEvents, WriteFails, PersistDone, SkipPrune, PruneFirst,
         PruneSnapshots, PruneSecond, PruneEvents, PruneFails, Wake, WakeEarly, vars
  <2>2. QED
    BY <2>1
<1>3. QED
  BY <1>1, <1>2

LEMMA StartedKeepsSnapshot ==
    ASSUME TypeOK, EventsAreDated, SnapshotsComeFirst, StartedHasSnapshot, [Next]_vars
    PROVE  StartedHasSnapshot'
<1> USE DEF StartedHasSnapshot, HasSnapshot, store
<1> DEFINE Rows == {row.event : row \in timeline_events}
<1>1. \A e \in Rows : e.at \in Nat
  BY DEF TypeOK, StoreTypeOK, Event
<1>2. CASE BeginTick
  <2>1. now =< now' /\ now' \in Nat /\ UNCHANGED <<snapshots, timeline_events>>
    BY <1>2, Times DEF BeginTick, EventsAreDated
  <2>2. \A e \in Rows : e.at >= now' - Retention => e.at >= now - Retention
    BY <1>1, <2>1, Times
  <2>3. QED
    BY <2>1, <2>2
<1>3. ASSUME NEW k \in Key, WriteSnapshot(k)
      PROVE  StartedHasSnapshot'
  <2>1. snapshots \subseteq snapshots' /\ UNCHANGED <<timeline_events, now>>
    BY <1>3 DEF WriteSnapshot, RecordSnapshot
  <2>2. QED
    BY <2>1
<1>4. CASE WriteEvent
  <2>1. PICK i \in new_events :
          timeline_events' = timeline_events \cup {[id |-> last_id + 1, event |-> timeline[i]]}
    BY <1>4 DEF WriteEvent, RecordEvent
  <2>2. UNCHANGED <<snapshots, now>>
    BY <1>4 DEF WriteEvent, RecordEvent
  <2>3. timeline[i].kind = "Started" => HasSnapshot(timeline[i])
    BY DEF SnapshotsComeFirst
  <2>4. \A row \in timeline_events' : row \in timeline_events \/ row.event = timeline[i]
    BY <2>1
  <2>5. QED
    BY <2>2, <2>3, <2>4
<1>5. CASE PruneFirst
  <2>1. /\ snapshots' = {row \in snapshots : row.sampled_at >= now - Retention}
        /\ UNCHANGED <<timeline_events, now>>
    BY <1>5 DEF PruneFirst, PruneSnapshots
  <2>2. QED
    BY <2>1
<1>6. CASE PruneSecond
  <2>1. timeline_events' \subseteq timeline_events /\ UNCHANGED <<snapshots, now>>
    BY <1>6 DEF PruneSecond, PruneEvents
  <2>2. QED
    BY <2>1
<1>7. CASE UNCHANGED <<snapshots, timeline_events, now>>
  BY <1>7
<1>8. QED
  BY <1>2, <1>3, <1>4, <1>5, <1>6, <1>7
     DEF Next, Loop, Start, Signal, Crash, Gone, Stop, Refresh, RefreshFails, BeginEvents, WriteFails,
         PersistDone, SkipPrune, PruneFails, Wake, WakeEarly, vars

(* Times of rows are numbers. *)
LEMMA RowTimes ==
    ASSUME TypeOK
    PROVE  /\ boot_tick \in Nat
           /\ \A row \in snapshots : row.sampled_at \in Nat /\ row.tick \in Nat
           /\ \A row \in timeline_events : row.event.at \in Nat /\ row.event.tick \in Nat
BY SMTT(30) DEF TypeOK, StoreTypeOK, Snapshot, Event

LEMMA SnapshotsStayOfTheTick ==
    ASSUME TypeOK, SnapshotsAreOfTheTick, [Next]_vars
    PROVE  SnapshotsAreOfTheTick'
<1> USE DEF SnapshotsAreOfTheTick, store, memory, ghosts
<1>1. CASE BeginTick
  <2>1. tick' = tick + 1 /\ pc' = "refresh" /\ UNCHANGED <<snapshots, lossy>>
    BY <1>1 DEF BeginTick
  <2>2. \A row \in snapshots' : row.tick < tick' /\ row.tick =< tick' /\ row.tick # tick'
    BY <2>1, RowTimes, Times
  <2>3. QED
    BY <2>1, <2>2
<1>2. CASE Refresh
  <2>1. /\ pc = "refresh" /\ pc' = "snapshots" /\ UNCHANGED <<snapshots, tick, now, lossy>>
        /\ running' \ unsaved' = {}
    BY <1>2 DEF Refresh
  <2>2. \A row \in snapshots' : row.tick < tick' /\ row.tick # tick'
    BY <2>1, RowTimes, Times
  <2>3. SnapshotsOfTick' = {}
    BY <2>2 DEF SnapshotsOfTick
  <2>4. QED
    BY <2>1, <2>2, <2>3
<1>3. CASE RefreshFails
  <2>1. pc = "refresh" /\ pc' = "prune" /\ UNCHANGED <<snapshots, tick, now, running, lossy>>
    BY <1>3 DEF RefreshFails
  <2>2. \A row \in snapshots' : row.tick < tick' /\ row.tick # tick'
    BY <2>1, RowTimes, Times
  <2>3. SnapshotsOfTick' = {}
    BY <2>2 DEF SnapshotsOfTick
  <2>4. QED
    BY <2>1, <2>2, <2>3
<1>4. ASSUME NEW k \in Key, WriteSnapshot(k)
      PROVE  SnapshotsAreOfTheTick'
  <2> DEFINE new == [key |-> k, sampled_at |-> now, tick |-> tick]
  <2>1. /\ pc = "snapshots" /\ UNCHANGED <<pc, tick, now, running, lossy>>
        /\ snapshots' = snapshots \cup {new} /\ unsaved' = unsaved \ {k}
        /\ k \in running
    BY <1>4 DEF WriteSnapshot, RecordSnapshot, TypeOK
  <2>2. new.key = k /\ new.sampled_at = now /\ new.tick = tick
    OBVIOUS
  <2> HIDE DEF new
  <2>3. \A row \in snapshots' : row.tick =< tick /\ (row.tick = tick => row.sampled_at = now)
    BY <2>1, <2>2, Times
  <2>4. SnapshotsOfTick' = SnapshotsOfTick \cup {k}
    BY <2>1, <2>2 DEF SnapshotsOfTick
  <2>5. ~lossy => SnapshotsOfTick' = running \ unsaved'
    BY <2>1, <2>4
  <2>6. QED
    BY <2>1, <2>3, <2>5
<1>5. CASE BeginEvents
  BY <1>5 DEF BeginEvents, SnapshotsOfTick
<1>6. CASE PruneFirst
  <2>1. /\ pc = "prune" /\ pc' = "prune_events" /\ UNCHANGED <<tick, now, running, lossy>>
        /\ snapshots' = {row \in snapshots : row.sampled_at >= now - Retention}
    BY <1>6 DEF PruneFirst, PruneSnapshots
  <2>2. \A row \in snapshots : row.tick = tick => row.sampled_at >= now - Retention
    BY <2>1, Times
  <2>3. SnapshotsOfTick' = SnapshotsOfTick
    BY <2>1, <2>2 DEF SnapshotsOfTick
  <2>4. QED
    BY <2>1, <2>3
<1>7. CASE WriteFails
  BY <1>7 DEF WriteFails
<1>8. CASE WriteEvent \/ PersistDone \/ SkipPrune \/ PruneSecond \/ PruneFails
  <2>1. /\ UNCHANGED <<snapshots, tick, now, running, lossy>> /\ pc \notin {"down", "loop"}
        /\ \/ pc = "events" /\ pc' = "events"
           \/ pc \in {"events", "prune", "prune_events"} /\ pc' \in {"prune", "sleep"}
    BY <1>8 DEF WriteEvent, RecordEvent, PersistDone, SkipPrune, PruneSecond, PruneEvents, PruneFails
  <2>2. SnapshotsOfTick' = SnapshotsOfTick
    BY <2>1 DEF SnapshotsOfTick
  <2>3. QED
    BY <2>1, <2>2
<1>9. CASE Start \/ Gone \/ Wake \/ WakeEarly
  BY <1>9 DEF Start, Gone, Wake, WakeEarly
<1>10. CASE Signal \/ UNCHANGED vars
  BY <1>10 DEF Signal, vars, SnapshotsOfTick
<1>11. QED
  BY <1>1, <1>2, <1>3, <1>4, <1>5, <1>6, <1>7, <1>8, <1>9, <1>10 DEF Next, Loop, Crash, Stop

LEMMA RowsStayDated ==
    ASSUME SecondsAdvance, TypeOK, EventsAreDated, SnapshotsComeFirst, EventsAreNew,
           RowsAreDated, [Next]_vars
    PROVE  RowsAreDated'
<1> USE DEF RowsAreDated, store, memory, ghosts
<1>1. CASE Start
  <2>1. /\ pc = "down" /\ pc' = "loop" /\ UNCHANGED <<timeline_events, tick, boot_tick>>
    BY <1>1 DEF Start
  <2>2. \A row \in timeline_events : ~ (row.event.tick > boot_tick)
    BY <2>1, RowTimes, Times DEF EventsAreNew
  <2>3. QED
    BY <2>1, <2>2
<1>2. CASE Gone
  <2>1. pc' = "down" /\ boot_tick' = tick /\ UNCHANGED <<timeline_events, tick>>
    BY <1>2 DEF Gone
  <2>2. \A row \in timeline_events : ~ (row.event.tick > tick)
    BY RowTimes, Times DEF EventsAreNew
  <2>3. QED
    BY <2>1, <2>2
<1>3. CASE BeginTick
  <2>1. /\ pc = "loop" /\ ~SHUTDOWN /\ pc' = "refresh" /\ tick' = tick + 1 /\ now' = clock
        /\ UNCHANGED <<timeline_events, boot_tick>>
    BY <1>3 DEF BeginTick
  <2>2. boot_tick' < tick'
    BY <2>1, RowTimes, Times DEF TypeOK
  <2>3. \A row \in timeline_events : row.event.tick > boot_tick => row.event.at < now'
                                                                 /\ row.event.at =< now'
    BY <2>1, RowTimes, Times
  <2>4. QED
    BY <2>1, <2>2, <2>3
<1>4. CASE WriteEvent
  <2>1. PICK i \in new_events :
          timeline_events' = timeline_events \cup {[id |-> last_id + 1, event |-> timeline[i]]}
    BY <1>4 DEF WriteEvent, RecordEvent
  <2>2. pc = "events" /\ UNCHANGED <<pc, tick, boot_tick, now>>
    BY <1>4 DEF WriteEvent, RecordEvent
  <2>3. timeline[i].at = now /\ timeline[i].tick = tick
    BY DEF SnapshotsComeFirst, EventsAreNew
  <2>4. \A row \in timeline_events' : row \in timeline_events \/ row.event = timeline[i]
    BY <2>1
  <2>5. now =< now /\ ~ (tick < tick)
    BY Times
  <2>6. QED
    BY <2>2, <2>3, <2>4, <2>5
<1>5. CASE PruneSecond
  BY <1>5 DEF PruneSecond, PruneEvents
<1>6. CASE Wake
  <2>1. PICK d \in SleepSteps : clock' = clock + d
    BY <1>6 DEF Wake
  <2>2. pc = "sleep" /\ pc' = "loop" /\ UNCHANGED <<timeline_events, tick, boot_tick, now>>
    BY <1>6 DEF Wake
  <2>3. now < clock'
    BY <2>1, Times DEF SecondsAdvance, EventsAreDated
  <2>4. \A row \in timeline_events : row.event.at =< now => row.event.at < clock'
    BY <2>1, <2>3, RowTimes, Times
  <2>5. QED
    BY <2>2, <2>4
<1>7. CASE \/ Refresh \/ RefreshFails \/ (\E k \in Key : WriteSnapshot(k)) \/ BeginEvents
           \/ WriteFails \/ PersistDone \/ SkipPrune \/ PruneFirst \/ PruneFails
  <2>1. UNCHANGED <<timeline_events, tick, boot_tick, now>>
    BY <1>7 DEF Refresh, RefreshFails, WriteSnapshot, RecordSnapshot, BeginEvents, WriteFails,
                PersistDone, SkipPrune, PruneFirst, PruneSnapshots, PruneFails
  <2>2. /\ pc \notin {"down", "loop"} /\ pc' \notin {"down", "loop", "refresh"}
        /\ pc' \in {"snapshots", "events"} => pc \in {"refresh", "snapshots", "events"}
    BY <1>7 DEF Refresh, RefreshFails, WriteSnapshot, BeginEvents, WriteFails,
                PersistDone, SkipPrune, PruneFirst, PruneFails
  <2>3. QED
    BY <2>1, <2>2
<1>8. CASE Signal
  BY <1>8 DEF Signal
<1>9. CASE WakeEarly
  BY <1>9 DEF WakeEarly
<1>10. CASE UNCHANGED vars
  BY <1>10 DEF vars
<1>11. QED
  BY <1>1, <1>2, <1>3, <1>4, <1>5, <1>6, <1>7, <1>8, <1>9, <1>10 DEF Next, Loop, Crash, Stop

(* Which events are still to be written changes in a refresh and when one  *)
(* is written; between ticks there are none.                               *)
LEMMA DueChanges ==
    ASSUME TypeOK, [Next]_vars
    PROVE  \/ Refresh
           \/ WriteEvent
           \/ Due' = {}
           \/ Due' = Due /\ UNCHANGED <<timeline, running, timeline_events, tick, boot_tick, now, lossy>>
<1> USE DEF Due, store, memory, ghosts
<1>1. CASE Signal
  BY <1>1 DEF Signal, RecentTimelineEvents
<1>2. CASE \/ Start \/ Gone \/ BeginTick \/ RefreshFails \/ WriteFails \/ PersistDone \/ SkipPrune
           \/ PruneFirst \/ PruneSecond \/ PruneFails \/ Wake \/ WakeEarly
  <2>1. new_events' = {} /\ pc' # "snapshots"
    BY <1>2 DEF Start, Gone, BeginTick, RefreshFails, WriteFails, PersistDone, SkipPrune,
                PruneFirst, PruneSecond, PruneFails, Wake, WakeEarly, TypeOK
  <2>2. QED
    BY <2>1
<1>3. ASSUME NEW k \in Key, WriteSnapshot(k)
      PROVE  Due' = Due
             /\ UNCHANGED <<timeline, running, timeline_events, tick, boot_tick, now, lossy>>
  BY <1>3 DEF WriteSnapshot, RecordSnapshot, RecentTimelineEvents
<1>4. CASE BeginEvents
  BY <1>4 DEF BeginEvents, RecentTimelineEvents
<1>5. CASE UNCHANGED vars
  BY <1>5 DEF vars, RecentTimelineEvents
<1>6. QED
  BY <1>1, <1>2, <1>3, <1>4, <1>5 DEF Next, Loop, Crash, Stop

(* What a refresh leaves to be written. *)
LEMMA DueOfRefresh ==
    ASSUME Refresh
    PROVE  Due' = RecentTimelineEvents(now)'
BY DEF Refresh, Due

(* What writing an event does to the store and to what is due. *)
LEMMA DueOfWriteEvent ==
    ASSUME TypeOK, WriteEvent
    PROVE  \E i \in Due :
             /\ timeline_events' = timeline_events \cup {[id |-> last_id + 1, event |-> timeline[i]]}
             /\ Due' = Due \ {i}
             /\ pc = "events" /\ i \in new_events
             /\ UNCHANGED <<timeline, running, tick, boot_tick, now, lossy>>
BY DEF WriteEvent, RecordEvent, Due, memory, ghosts

LEMMA DueStaysOncePerRun ==
    ASSUME TypeOK, EventsAreDated, SnapshotsComeFirst, EventsAreNew, DueOncePerRun, [Next]_vars
    PROVE  DueOncePerRun'
<1> USE DEF DueOncePerRun
<1>1. CASE Refresh
  <2>1. /\ pc = "refresh" /\ UNCHANGED <<timeline_events, tick>>
    BY <1>1 DEF Refresh, store, ghosts
  <2>2. \A i, j \in Due' :
          /\ timeline'[i].at = now /\ timeline'[i].tick = tick'
          /\ timeline'[i].kind = "Started" <=> timeline'[i].key \in running'
          /\ timeline'[i] = timeline'[j] => i = j
    BY <1>1, DueOfRefresh, RecentEventsAreFresh
  <2>3. \A i \in Due' : timeline'[i] \in Event
    <3>1. timeline' \in Seq(Event)
      BY <1>1, RefreshedTimeline
    <3>2. Due' \subseteq DOMAIN timeline'
      BY <1>1, DueOfRefresh DEF RecentTimelineEvents
    <3>3. QED
      BY <3>1, <3>2
  <2>4. ASSUME NEW i \in Due', NEW j \in Due', timeline'[i].key = timeline'[j].key
        PROVE  i = j
    <3>1. ASSUME NEW e \in Event, NEW f \in Event, e.key = f.key, e.at = f.at, e.tick = f.tick,
                 e.kind = "Started" <=> f.kind = "Started"
          PROVE  e = f
      BY <3>1 DEF Event
    <3>2. timeline'[i] = timeline'[j]
      BY <2>2, <2>3, <2>4, <3>1
    <3>3. QED
      BY <2>2, <3>2
  <2>5. \A row \in timeline_events' : row.event.tick < tick'
    BY <2>1 DEF EventsAreNew
  <2>6. QED
    BY <2>2, <2>4, <2>5
<1>2. CASE WriteEvent
  <2>1. PICK i \in Due :
          /\ timeline_events' = timeline_events \cup {[id |-> last_id + 1, event |-> timeline[i]]}
          /\ Due' = Due \ {i}
          /\ UNCHANGED <<timeline, running, tick>>
    BY <1>2, DueOfWriteEvent
  <2>2. \A row \in timeline_events' : row \in timeline_events \/ row.event = timeline[i]
    BY <2>1
  <2>3. ASSUME NEW j \in Due', NEW row \in timeline_events', row.event.key = timeline[j].key
        PROVE  row.event.tick < tick
    BY <2>1, <2>2, <2>3
  <2>4. QED
    BY <2>1, <2>3
<1>3. CASE Due' = {}
  BY <1>3
<1>4. CASE Due' = Due /\ UNCHANGED <<timeline, running, timeline_events, tick>>
  BY <1>4
<1>5. QED
  BY <1>1, <1>2, <1>3, <1>4, DueChanges

(* LifeOf, without the bound its query does not use. *)
LEMMA LifeIsOfThisStart ==
    ASSUME TypeOK, NEW k \in Key
    PROVE  LifeOf(k) = {row \in timeline_events : row.event.key = k /\ row.event.tick > boot_tick}
BY RowTimes DEF LifeOf, EventsForGeneration

(* What is known of a run stays known when nothing it depends on changes.  *)
LEMMA KnownStays ==
    ASSUME TypeOK, EventsAreDated, NEW k \in Key, Known(k),
           UNCHANGED <<timeline_events, boot_tick>>, now' \in {now, clock}, k \in running' <=> k \in running
    PROVE  Known(k)'
<1>1. LifeOf(k)' = LifeOf(k) /\ LastOf(LifeOf(k))' = LastOf(LifeOf(k))
  BY DEF LifeOf, EventsForGeneration, LastOf
<1>2. now' =< Retention => now =< Retention
  BY Times DEF EventsAreDated
<1>3. QED
  BY <1>1, <1>2 DEF Known

(* Writing the event of a run makes the run known. *)
LEMMA WrittenIsKnown ==
    ASSUME TypeOK, SnapshotsComeFirst, EventsAreNew, RowsAreDated, DueOncePerRun,
           pc = "events", NEW k \in Key, NEW i \in new_events, timeline[i].key = k,
           timeline_events' = timeline_events \cup {[id |-> last_id + 1, event |-> timeline[i]]},
           UNCHANGED <<running, tick, boot_tick, now>>
    PROVE  Known(k)'
<1> DEFINE new == [id |-> last_id + 1, event |-> timeline[i]]
           life == {row \in timeline_events' : row.event.key = k /\ row.event.tick > boot_tick}
<1>1. timeline[i].at = now /\ timeline[i].tick = tick /\ i \in Due
  BY DEF SnapshotsComeFirst, EventsAreNew, Due
<1>2. boot_tick < tick
  BY DEF RowsAreDated
<1>3. LifeOf(k)' = {row \in life : row.event.at >= 0}
  BY DEF LifeOf, EventsForGeneration
<1>4. new \in timeline_events' /\ new.event = timeline[i]
  OBVIOUS
<1> HIDE DEF new
<1>5. new \in life /\ new.event.at = now /\ now >= 0
  BY <1>1, <1>2, <1>4, RowTimes, Times
<1>6. ASSUME NEW row \in life, row # new
      PROVE  row.event.at < now
  <2>1. row \in timeline_events /\ row.event.key = k /\ row.event.tick > boot_tick
    BY <1>6 DEF new
  <2>2. row.event.tick < tick
    BY <1>1, <2>1 DEF DueOncePerRun
  <2>3. QED
    BY <2>1, <2>2 DEF RowsAreDated
<1>7. \A row \in life : row.event.at \in Nat
  BY <1>4, <1>5, Times, RowTimes DEF new
<1> HIDE DEF life
<1>8. new \in LifeOf(k)'
  BY <1>3, <1>5
<1>9. ASSUME NEW row \in LastOf(LifeOf(k))' PROVE row = new
  <2>1. row \in life /\ now =< row.event.at
    BY <1>3, <1>5, <1>8 DEF LastOf
  <2>2. ~ (row.event.at < now)
    BY <1>7, <2>1, Times
  <2>3. QED
    BY <1>6, <2>1, <2>2
<1>10. new.event.kind = "Started" <=> k \in running'
  BY <1>1, <1>4 DEF DueOncePerRun
<1>11. QED
  BY <1>8, <1>9, <1>10 DEF Known

(* Pruning spares the last event of a run, or leaves none. *)
LEMMA PrunedIsKnown ==
    ASSUME TypeOK, NEW k \in Key, Known(k), PruneSecond
    PROVE  Known(k)'
<1>1. /\ timeline_events' = {row \in timeline_events : row.event.at >= now - Retention}
      /\ UNCHANGED <<running, boot_tick, now>>
  BY DEF PruneSecond, PruneEvents, memory
<1>2. LifeOf(k)' = {row \in LifeOf(k) : row.event.at >= now - Retention}
  BY <1>1 DEF LifeOf, EventsForGeneration
<1>3. \A row \in LifeOf(k) : row.event.at \in Nat
  BY RowTimes DEF LifeOf, EventsForGeneration
<1>4. ASSUME NEW row \in LastOf(LifeOf(k))'
      PROVE  row \in LastOf(LifeOf(k))
  <2>1. row \in LifeOf(k) /\ row.event.at >= now - Retention
    BY <1>2 DEF LastOf
  <2>2. ASSUME NEW r \in LifeOf(k) PROVE r.event.at =< row.event.at
    <3>1. CASE r \in LifeOf(k)'
      BY <3>1 DEF LastOf
    <3>2. CASE r \notin LifeOf(k)'
      BY <1>2, <1>3, <2>1, <3>2, Times
    <3>3. QED
      BY <3>1, <3>2
  <2>3. QED
    BY <2>1, <2>2 DEF LastOf
<1>5. now =< Retention => LifeOf(k)' = LifeOf(k)
  BY <1>2, <1>3, Times
<1>6. QED
  BY <1>1, <1>4, <1>5 DEF Known

(* What the database tells follows the process map, step by step, as long  *)
(* as the events of a refresh fit into the timeline.                       *)
LEMMA StoreFollowsStep ==
    ASSUME SecondsAdvance, TypeOK, EventsAreDated, SnapshotsComeFirst, EventsAreNew,
           StoreFollows, [Next]_vars, Refresh => TickFits
    PROVE  StoreFollows'
<1>1. SnapshotsAreOfTheTick /\ RowsAreDated /\ DueOncePerRun
  BY DEF StoreFollows
<1>2. (SnapshotsAreOfTheTick /\ RowsAreDated /\ DueOncePerRun)'
  BY <1>1, SnapshotsStayOfTheTick, RowsStayDated, DueStaysOncePerRun
<1>3. ASSUME ~lossy', NEW k \in Key
      PROVE  Known(k)' \/ \E i \in Due' : timeline'[i].key = k
  <2>1. CASE Gone
    <3>1. \A row \in timeline_events' : ~ (row.event.tick > boot_tick')
      BY <2>1, RowTimes, Times DEF Gone, EventsAreNew, store
    <3>2. LifeOf(k)' = {}
      BY <3>1 DEF LifeOf, EventsForGeneration
    <3>3. QED
      BY <2>1, <3>2 DEF Known, LastOf, Gone
  <2>2. CASE Refresh
    <3>1. /\ UNCHANGED <<timeline_events, boot_tick, now, lossy>> /\ Due = {}
      BY <2>2 DEF Refresh, store, ghosts, Due, TypeOK
    <3>2. Known(k)
      BY <1>3, <3>1 DEF StoreFollows
    <3>3. CASE k \in running' <=> k \in running
      BY <3>1, <3>2, <3>3, KnownStays
    <3>4. CASE ~ (k \in running' <=> k \in running)
      BY <2>2, <3>4, RecentEventsAreFresh, DueOfRefresh
    <3>5. QED
      BY <3>3, <3>4
  <2>3. CASE WriteEvent
    <3>1. PICK i \in Due :
            /\ timeline_events' = timeline_events \cup {[id |-> last_id + 1, event |-> timeline[i]]}
            /\ Due' = Due \ {i}
            /\ pc = "events" /\ i \in new_events
            /\ UNCHANGED <<timeline, running, tick, boot_tick, now, lossy>>
      BY <2>3, DueOfWriteEvent
    <3>2. CASE k = timeline[i].key
      BY <1>1, <3>1, <3>2, WrittenIsKnown
    <3>3. CASE k # timeline[i].key
      <4>1. \A row : row \in timeline_events' /\ row.event.key = k
                       <=> row \in timeline_events /\ row.event.key = k
        BY <3>1, <3>3
      <4>2. EventsForGeneration(k, 0)' = EventsForGeneration(k, 0)
        BY <4>1 DEF EventsForGeneration
      <4>3. LifeOf(k)' = LifeOf(k) /\ LastOf(LifeOf(k))' = LastOf(LifeOf(k))
        BY <3>1, <4>2 DEF LifeOf, LastOf
      <4>4. Known(k) => Known(k)'
        BY <3>1, <4>3 DEF Known
      <4>5. QED
        BY <1>3, <3>1, <3>3, <4>4 DEF StoreFollows
    <3>4. QED
      BY <3>2, <3>3
  <2>4. CASE PruneSecond
    <3>1. Due = {} /\ lossy' = lossy
      BY <2>4 DEF PruneSecond, Due, TypeOK
    <3>2. QED
      BY <1>3, <2>4, <3>1, PrunedIsKnown DEF StoreFollows
  <2>5. CASE \/ Start \/ BeginTick \/ RefreshFails \/ PersistDone \/ SkipPrune \/ PruneFirst
             \/ PruneFails \/ Wake \/ WakeEarly
    <3>1. Due = {} /\ UNCHANGED <<timeline_events, running, boot_tick, lossy>> /\ now' \in {now, clock}
      BY <2>5 DEF Start, BeginTick, RefreshFails, PersistDone, SkipPrune, PruneFirst, PruneSnapshots,
                  PruneFails, Wake, WakeEarly, store, memory, ghosts, Due, TypeOK
    <3>2. QED
      BY <1>3, <3>1, KnownStays DEF StoreFollows
  <2>6. CASE Signal \/ (\E j \in Key : WriteSnapshot(j)) \/ BeginEvents \/ UNCHANGED vars
    <3>1. Due' = Due /\ UNCHANGED <<timeline, timeline_events, running, boot_tick, lossy, now>>
      BY <2>6 DEF Signal, WriteSnapshot, RecordSnapshot, BeginEvents, vars, store, memory, ghosts,
                  Due, RecentTimelineEvents
    <3>2. QED
      BY <1>3, <3>1, KnownStays DEF StoreFollows
  <2>7. CASE WriteFails
    BY <1>3, <2>7 DEF WriteFails
  <2>8. QED
    BY <2>1, <2>2, <2>3, <2>4, <2>5, <2>6, <2>7 DEF Next, Loop, Crash, Stop
<1>4. QED
  BY <1>2, <1>3 DEF StoreFollows

(* A timeline that holds an event of every run holds those of a refresh. *)
LEMMA EveryTickFits ==
    ASSUME TypeOK, EventsFit, Refresh
    PROVE  TickFits
<1> DEFINE A == running' \ running
           B == running \ running'
<1>1. A \in SUBSET Key /\ B \in SUBSET Key /\ A \cup B \in SUBSET Key /\ A \cap B = {}
  BY DEF TypeOK, Refresh
<1> HIDE DEF A, B
<1>2. IsFiniteSet(A) /\ IsFiniteSet(B) /\ Cardinality(A \cup B) =< Cardinality(Key)
  BY <1>1, FS_Subset
<1>3. Cardinality(A \cup B) = Cardinality(A) + Cardinality(B) - Cardinality(A \cap B)
  BY <1>2, FS_Union
<1>4. Cardinality(A \cap B) = 0
  BY <1>1, FS_EmptySet
<1>5. /\ Cardinality(A) \in Nat /\ Cardinality(B) \in Nat
      /\ Cardinality(A \cup B) \in Nat /\ Cardinality(Key) \in Nat
  BY <1>1, <1>2, FS_CardinalityType, FS_Subset
<1>6. Cardinality(A) + Cardinality(B) =< TimelineCapacity
  BY <1>2, <1>3, <1>4, <1>5 DEF EventsFit
<1>7. QED
  BY <1>6 DEF TickFits, A, B

-----------------------------------------------------------------------------
(* Events are dated by their ticks, snapshots are written before them,     *)
(* what is written is new, a prune leaves nothing due, and, if the timeline *)
(* has room, what the database tells follows the process map: at every     *)
(* step, if every sleep advances the clock.                                *)
THEOREM SherdInvariantHolds ==
    ASSUME SecondsAdvance
    PROVE  Spec => []SherdInvariant
<1>1. Init => SherdInvariant
  BY InitInvariant
<1>2. ASSUME TypeOK, SherdInvariant, [Next]_vars
      PROVE  SherdInvariant'
  <2>1. /\ EventsAreDated' /\ SnapshotsComeFirst' /\ EventsAreNew'
        /\ PruneLeavesNothingDue' /\ EventsPersistedOnce' /\ StartedHasSnapshot'
    BY <1>2, SecondsAdvance, EventsStayDated, SnapshotsStayFirst, EventsStayNew,
       PruneStaysComplete, EventsStayOnce, StartedKeepsSnapshot DEF SherdInvariant
  <2>2. EventsFit => StoreFollows'
    BY <1>2, SecondsAdvance, StoreFollowsStep, EveryTickFits DEF SherdInvariant
  <2>3. EventsFit' = EventsFit
    BY DEF EventsFit
  <2>4. QED
    BY <2>1, <2>2, <2>3 DEF SherdInvariant
<1>3. QED
  BY <1>1, <1>2, TypeCorrect, PTL DEF Spec

(* After a tick without a failed write since the start, the database tells *)
(* which runs are alive: the last event of each agrees with the process    *)
(* map, a listed run has its Started event, and the tick's snapshots are   *)
(* all there or none.  For any number of runs, as long as no refresh has   *)
(* more to report than the timeline holds: see sherd_timeline_full.        *)
THEOREM StoreTellsWhatRuns ==
    ASSUME SecondsAdvance
    PROVE  Spec /\ [][Refresh => TickFits]_vars => []StoreReconstructsRunning
<1>1. Init => StoreFollows
  BY InitInvariant
<1>2. ASSUME TypeOK, SherdInvariant, StoreFollows, [Next]_vars, [Refresh => TickFits]_vars
      PROVE  StoreFollows'
  <2>1. CASE UNCHANGED vars
    <3>1. Refresh => FALSE
      BY <2>1 DEF Refresh, vars
    <3>2. QED
      BY <1>2, <3>1, SecondsAdvance, StoreFollowsStep DEF SherdInvariant
  <2>2. CASE Refresh => TickFits
    BY <1>2, <2>2, SecondsAdvance, StoreFollowsStep DEF SherdInvariant
  <2>3. QED
    BY <1>2, <2>1, <2>2
<1>3. TypeOK /\ StoreFollows => StoreReconstructsRunning
  <2> SUFFICES ASSUME TypeOK, StoreFollows, pc = "sleep", ~lossy
               PROVE  /\ SnapshotsOfTick \in {running, {}}
                      /\ \A k \in Key : Known(k)
    BY DEF StoreReconstructsRunning, Known
  <2>1. Due = {}
    BY DEF Due, TypeOK
  <2>2. QED
    BY <2>1 DEF StoreFollows, SnapshotsAreOfTheTick
<1>4. QED
  BY <1>1, <1>2, <1>3, SherdInvariantHolds, TypeCorrect, PTL DEF Spec

(* However sherd crashes, restarts and fails to write, and although a tick *)
(* selects the events it writes by their time only, no occurrence of an    *)
(* event is written twice.                                                 *)
THEOREM NoEventTwice ==
    ASSUME SecondsAdvance
    PROVE  Spec => []EventsPersistedOnce
BY SherdInvariantHolds, PTL DEF SherdInvariant

(* A Started event the database still has to keep has a snapshot of its    *)
(* run at its time, whatever was interrupted between the writes.           *)
THEOREM StartsAreDocumented ==
    ASSUME SecondsAdvance
    PROVE  Spec => []StartedHasSnapshot
BY SherdInvariantHolds, PTL DEF SherdInvariant

(* Once a prune of this start has gone through, no row a tick leaves is    *)
(* older than the retention and one prune period.                          *)
THEOREM RetentionHolds ==
    ASSUME SecondsAdvance
    PROVE  Spec => []RetentionBound
<1>1. TypeOK /\ SherdInvariant => RetentionBound
  <2> SUFFICES ASSUME TypeOK, SherdInvariant, pc = "sleep", pruned
               PROVE  /\ \A row \in snapshots : row.sampled_at > now - Retention - PruneEvery
                      /\ \A row \in timeline_events : row.event.at > now - Retention - PruneEvery
    BY DEF RetentionBound
  <2>1. now - last_prune < PruneEvery
    BY Times DEF SherdInvariant, PruneLeavesNothingDue, PruneDue
  <2>2. /\ \A row \in snapshots : row.sampled_at >= last_prune - Retention
        /\ \A row \in timeline_events : row.event.at >= last_prune - Retention
    BY DEF SherdInvariant, PruneLeavesNothingDue
  <2>3. /\ \A row \in snapshots : row.sampled_at \in Nat
        /\ \A row \in timeline_events : row.event.at \in Nat
    BY DEF TypeOK, StoreTypeOK, Snapshot, Event
  <2>4. QED
    BY <2>1, <2>2, <2>3, Times
<1>2. QED
  BY <1>1, SherdInvariantHolds, TypeCorrect, PTL
=============================================================================
