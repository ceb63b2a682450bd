----------------------------- MODULE QueueLemmas -----------------------------
(***************************************************************************)
(* What the operators on queues return, for queues of any length.          *)
(***************************************************************************)
EXTENDS Queues, WellFoundedInduction, SequenceTheorems, TLAPS

(***************************************************************************)
(* Induction, by way of a set: the theorem on well-founded relations that  *)
(* takes a set, not an operator.                                           *)
(***************************************************************************)
Less == {pair \in Nat \X Nat : pair[1] < pair[2]}

LEMMA Smallest ==
    ASSUME NEW T \in SUBSET Nat, T # {}
    PROVE  \E n \in T : \A m \in T : n <= m
<1>1. IsWellFoundedOn(Less, Nat)
  BY NatLessThanWellFounded DEF OpToRel, Less
<1>2. PICK n \in T : \A m \in T : ~(<<m, n>> \in Less)
  BY <1>1, WFMin
<1>3. \A m \in T : ~(m < n)
  BY <1>2 DEF Less
<1> QED
  BY <1>3

LEMMA Induction ==
    ASSUME NEW T \in SUBSET Nat, 0 \in T, \A n \in T : n + 1 \in T
    PROVE  T = Nat
<1>1. SUFFICES ASSUME Nat \ T # {} PROVE FALSE
  OBVIOUS
<1>2. PICK n \in Nat \ T : \A m \in Nat \ T : n <= m
  BY <1>1, Smallest
<1>3. n # 0 /\ n - 1 \in Nat
  BY <1>2
<1>4. n - 1 \in T
  BY <1>2, <1>3
<1>5. (n - 1) + 1 \in T
  BY <1>4
<1> QED
  BY <1>2, <1>5

-----------------------------------------------------------------------------
(***************************************************************************)
(* The members of a queue, and their order.                                *)
(***************************************************************************)
LEMMA MembersType ==
    ASSUME NEW S, NEW queue
    PROVE  /\ queue \in Seq(S) => ToSet(queue) \subseteq S
           /\ ToSet(<<>>) = {}
           /\ queue \in Seq(S) => (ToSet(queue) = {} <=> queue = <<>>)
<1>1. queue \in Seq(S) => /\ DOMAIN queue = 1 .. Len(queue) /\ Len(queue) \in Nat
                          /\ \A i \in 1 .. Len(queue) : queue[i] \in S
                          /\ (queue # <<>> => 1 \in DOMAIN queue)
  OBVIOUS
<1>2. DOMAIN <<>> = {}
  OBVIOUS
<1> QED
  BY <1>1, <1>2 DEF ToSet

LEMMA MembersAppend ==
    ASSUME NEW S, NEW queue \in Seq(S), NEW e \in S
    PROVE  ToSet(Append(queue, e)) = ToSet(queue) \cup {e}
<1>1. /\ DOMAIN queue = 1 .. Len(queue) /\ Len(queue) \in Nat
      /\ DOMAIN Append(queue, e) = 1 .. Len(queue) + 1
      /\ \A i \in 1 .. Len(queue) : Append(queue, e)[i] = queue[i]
      /\ Append(queue, e)[Len(queue) + 1] = e
  OBVIOUS
<1> QED
  BY <1>1 DEF ToSet

LEMMA MembersConcat ==
    ASSUME NEW S, NEW first \in Seq(S), NEW second \in Seq(S)
    PROVE  ToSet(first \o second) = ToSet(first) \cup ToSet(second)
<1> DEFINE m == Len(first)
           n == Len(second)
<1>1. /\ m \in Nat /\ n \in Nat /\ DOMAIN first = 1 .. m /\ DOMAIN second = 1 .. n
      /\ DOMAIN (first \o second) = 1 .. m + n
      /\ \A i \in 1 .. m : (first \o second)[i] = first[i]
      /\ \A i \in 1 .. n : (first \o second)[m + i] = second[i]
  OBVIOUS
<1> HIDE DEF m, n
<1>2. \A i \in 1 .. m : i \in 1 .. m + n
  BY <1>1
<1>3. \A i \in 1 .. n : m + i \in 1 .. m + n
  BY <1>1
<1>4. \A i \in 1 .. m + n : i \in 1 .. m \/ (i - m \in 1 .. n /\ i = m + (i - m))
  BY <1>1
<1>5. \A i \in 1 .. m + n : (first \o second)[i] \in ToSet(first) \cup ToSet(second)
  <2> SUFFICES ASSUME NEW i \in 1 .. m + n
               PROVE  (first \o second)[i] \in ToSet(first) \cup ToSet(second)
    OBVIOUS
  <2>1. CASE i \in 1 .. m
    BY <1>1, <2>1 DEF ToSet
  <2>2. CASE i - m \in 1 .. n /\ i = m + (i - m)
    <3>1. (first \o second)[i] = second[i - m]
      BY <1>1, <2>2
    <3> QED
      BY <1>1, <2>2, <3>1 DEF ToSet
  <2> QED
    BY <1>4, <2>1, <2>2
<1>6. \A i \in 1 .. m : first[i] \in ToSet(first \o second)
  BY <1>1, <1>2 DEF ToSet
<1>7. \A i \in 1 .. n : second[i] \in ToSet(first \o second)
  BY <1>1, <1>3 DEF ToSet
<1>8. ToSet(first \o second) \subseteq ToSet(first) \cup ToSet(second)
  BY <1>1, <1>5 DEF ToSet
<1>9. ToSet(first) \cup ToSet(second) \subseteq ToSet(first \o second)
  BY <1>1, <1>6, <1>7 DEF ToSet
<1> QED
  BY <1>8, <1>9

LEMMA MembersTail ==
    ASSUME NEW S, NEW queue \in Seq(S), queue # <<>>
    PROVE  /\ Tail(queue) \in Seq(S) /\ Head(queue) \in S
           /\ ToSet(queue) = {Head(queue)} \cup ToSet(Tail(queue))
<1> DEFINE m == Len(queue)
<1>1. /\ m \in Nat \ {0} /\ DOMAIN queue = 1 .. m /\ DOMAIN Tail(queue) = 1 .. m - 1
      /\ Tail(queue) \in Seq(S) /\ Head(queue) = queue[1] /\ queue[1] \in S
      /\ \A i \in 1 .. m - 1 : Tail(queue)[i] = queue[i + 1]
  OBVIOUS
<1> HIDE DEF m
<1>2. \A i \in 1 .. m : i = 1 \/ (i - 1 \in 1 .. m - 1 /\ i = (i - 1) + 1)
  BY <1>1
<1>3. \A i \in 1 .. m - 1 : i + 1 \in 1 .. m
  BY <1>1
<1>4. \A i \in 1 .. m : queue[i] \in {Head(queue)} \cup ToSet(Tail(queue))
  <2> SUFFICES ASSUME NEW i \in 1 .. m, i # 1
               PROVE  queue[i] \in ToSet(Tail(queue))
    BY <1>1
  <2>1. i - 1 \in 1 .. m - 1 /\ queue[i] = Tail(queue)[i - 1]
    BY <1>1, <1>2
  <2> QED
    BY <1>1, <2>1 DEF ToSet
<1>5. \A i \in 1 .. m - 1 : Tail(queue)[i] \in ToSet(queue)
  BY <1>1, <1>3 DEF ToSet
<1>6. Head(queue) \in ToSet(queue)
  BY <1>1 DEF ToSet
<1>7. ToSet(queue) \subseteq {Head(queue)} \cup ToSet(Tail(queue))
  BY <1>1, <1>4 DEF ToSet
<1>8. ToSet(Tail(queue)) \subseteq ToSet(queue)
  BY <1>1, <1>5 DEF ToSet
<1> QED
  BY <1>1, <1>6, <1>7, <1>8

(* One queue is before another when its members are older. *)
Before(first, second) == \A x \in first, y \in second : x < y

LEMMA RisingConcat ==
    ASSUME NEW first \in Seq(Nat), NEW second \in Seq(Nat), Rising(first), Rising(second),
           Before(ToSet(first), ToSet(second))
    PROVE  Rising(first \o second)
<1> DEFINE m == Len(first)
           n == Len(second)
           all == first \o second
<1>1. /\ m \in Nat /\ n \in Nat /\ DOMAIN first = 1 .. m /\ DOMAIN second = 1 .. n
      /\ DOMAIN all = 1 .. m + n
      /\ \A i \in 1 .. m : all[i] = first[i]
      /\ \A i \in 1 .. n : all[m + i] = second[i]
  OBVIOUS
<1>2. \A i \in 1 .. m, j \in 1 .. n : first[i] < second[j]
  BY <1>1 DEF Before, ToSet
<1> HIDE DEF m, n, all
<1>3. ASSUME NEW i \in 1 .. m + n, NEW j \in 1 .. m + n, i < j
      PROVE  all[i] < all[j]
  <2>1. CASE j \in 1 .. m
    <3>1. i \in 1 .. m
      BY <1>1, <1>3, <2>1
    <3> QED
      BY <1>1, <1>3, <2>1, <3>1 DEF Rising
  <2>2. CASE i \in 1 .. m /\ j \notin 1 .. m
    <3>1. j - m \in 1 .. n /\ j = m + (j - m)
      BY <1>1, <2>2
    <3>2. all[j] = second[j - m]
      BY <1>1, <3>1
    <3> QED
      BY <1>1, <1>2, <2>2, <3>1, <3>2
  <2>3. CASE i \notin 1 .. m
    <3>1. i - m \in 1 .. n /\ j - m \in 1 .. n /\ i = m + (i - m) /\ j = m + (j - m)
          /\ i - m < j - m
      BY <1>1, <1>3, <2>3
    <3>2. all[i] = second[i - m] /\ all[j] = second[j - m]
      BY <1>1, <3>1
    <3> QED
      BY <1>1, <3>1, <3>2 DEF Rising
  <2> QED
    BY <1>1, <1>3, <2>1, <2>2, <2>3
<1> QED
  BY <1>1, <1>3 DEF Rising, all

LEMMA RisingAppend ==
    ASSUME NEW queue \in Seq(Nat), NEW e \in Nat, Rising(queue), \A x \in ToSet(queue) : x < e
    PROVE  Rising(Append(queue, e))
<1> DEFINE m == Len(queue)
<1>1. /\ m \in Nat /\ DOMAIN queue = 1 .. m /\ DOMAIN Append(queue, e) = 1 .. m + 1
      /\ \A i \in 1 .. m : Append(queue, e)[i] = queue[i]
      /\ Append(queue, e)[m + 1] = e
  OBVIOUS
<1> HIDE DEF m
<1>2. \A i \in 1 .. m : queue[i] < e
  BY <1>1 DEF ToSet
<1>3. ASSUME NEW i \in 1 .. m + 1, NEW j \in 1 .. m + 1, i < j
      PROVE  Append(queue, e)[i] < Append(queue, e)[j]
  <2>1. i \in 1 .. m
    BY <1>1, <1>3
  <2>2. CASE j = m + 1
    BY <1>1, <1>2, <2>1, <2>2
  <2>3. CASE j \in 1 .. m
    BY <1>1, <1>3, <2>1, <2>3 DEF Rising
  <2> QED
    BY <1>1, <2>2, <2>3
<1> QED
  BY <1>1, <1>3 DEF Rising

LEMMA RisingTail ==
    ASSUME NEW queue \in Seq(Nat), queue # <<>>, Rising(queue)
    PROVE  Rising(Tail(queue)) /\ \A x \in ToSet(Tail(queue)) : Head(queue) < x
<1> DEFINE m == Len(queue)
<1>1. /\ m \in Nat \ {0} /\ DOMAIN queue = 1 .. m /\ DOMAIN Tail(queue) = 1 .. m - 1
      /\ Head(queue) = queue[1]
      /\ \A i \in 1 .. m - 1 : Tail(queue)[i] = queue[i + 1]
  OBVIOUS
<1> HIDE DEF m
<1>2. \A i \in 1 .. m - 1 : i + 1 \in 1 .. m /\ 1 < i + 1
  BY <1>1
<1>3. \A i, j \in 1 .. m - 1 : i < j => Tail(queue)[i] < Tail(queue)[j]
  BY <1>1, <1>2 DEF Rising
<1>4. \A i \in 1 .. m - 1 : Head(queue) < Tail(queue)[i]
  BY <1>1, <1>2 DEF Rising
<1> QED
  BY <1>1, <1>3, <1>4 DEF Rising, ToSet

-----------------------------------------------------------------------------
(***************************************************************************)
(* Filter.  Its recursive function exists, by induction on the length that *)
(* it is defined for; what it returns follows by a second induction.       *)
(***************************************************************************)
Step(queue, keep, kept, i) ==
    IF queue[i] \in keep THEN Append(kept[i - 1], queue[i]) ELSE kept[i - 1]

Follows(queue, keep, kept, n) ==
    kept[0] = <<>> /\ \A i \in 1 .. n : kept[i] = Step(queue, keep, kept, i)

LEMMA KeptExists ==
    ASSUME NEW S, NEW queue \in Seq(S), NEW keep
    PROVE  \E kept \in [0 .. Len(queue) -> Seq(S)] : Follows(queue, keep, kept, Len(queue))
<1> DEFINE m == Len(queue)
           F(n) == \E kept \in [0 .. n -> Seq(S)] : Follows(queue, keep, kept, n)
           T == {n \in Nat : n <= m => F(n)}
<1>1. m \in Nat /\ \A i \in 1 .. m : queue[i] \in S
  OBVIOUS
<1> HIDE DEF m
<1>2. 0 \in T
  <2> DEFINE kept == [i \in 0 .. 0 |-> <<>>]
  <2>1. kept \in [0 .. 0 -> Seq(S)] /\ kept[0] = <<>>
    OBVIOUS
  <2>2. Follows(queue, keep, kept, 0)
    BY <2>1 DEF Follows
  <2> QED
    BY <2>1, <2>2
<1>3. ASSUME NEW n \in T
      PROVE  n + 1 \in T
  <2> SUFFICES ASSUME n + 1 <= m
               PROVE  F(n + 1)
    OBVIOUS
  <2>1. n \in Nat /\ n <= m /\ n + 1 \in 1 .. m
    BY <1>1
  <2>2. PICK kept \in [0 .. n -> Seq(S)] : Follows(queue, keep, kept, n)
    BY <2>1
  <2> DEFINE last == IF queue[n + 1] \in keep THEN Append(kept[n], queue[n + 1]) ELSE kept[n]
             next == [i \in 0 .. n + 1 |-> IF i = n + 1 THEN last ELSE kept[i]]
  <2>3. last \in Seq(S)
    <3>1. kept[n] \in Seq(S) /\ queue[n + 1] \in S
      BY <1>1, <2>1, <2>2
    <3> QED
      BY <3>1
  <2> HIDE DEF last
  <2>4. next \in [0 .. n + 1 -> Seq(S)]
    BY <2>1, <2>2, <2>3
  <2>5. next[n + 1] = last /\ \A i \in 0 .. n : next[i] = kept[i]
    BY <2>1
  <2> HIDE DEF next
  <2>6. next[0] = <<>>
    <3>1. 0 \in 0 .. n
      BY <2>1
    <3>2. next[0] = kept[0]
      BY <2>5, <3>1
    <3> QED
      BY <2>2, <3>2 DEF Follows
  <2>7. ASSUME NEW i \in 1 .. n + 1
        PROVE  next[i] = Step(queue, keep, next, i)
    <3>1. CASE i = n + 1
      <4>1. next[i] = last /\ next[i - 1] = kept[n] /\ i - 1 = n
        BY <2>1, <2>5, <3>1
      <4> QED
        BY <3>1, <4>1 DEF last, Step
    <3>2. CASE i \in 1 .. n
      <4>1. i \in 0 .. n /\ i - 1 \in 0 .. n
        BY <2>1, <3>2
      <4>2. next[i] = kept[i] /\ next[i - 1] = kept[i - 1]
        BY <2>5, <4>1
      <4> QED
        BY <2>2, <3>2, <4>2 DEF Follows, Step
    <3> QED
      BY <2>1, <3>1, <3>2
  <2>8. Follows(queue, keep, next, n + 1)
    BY <2>6, <2>7 DEF Follows
  <2> QED
    BY <2>4, <2>8
<1> HIDE DEF F
<1>4. T = Nat
  <2>1. T \in SUBSET Nat
    OBVIOUS
  <2> HIDE DEF T
  <2> QED
    BY <1>2, <1>3, <2>1, Induction
<1>5. F(m)
  <2>1. m \in T
    BY <1>1, <1>4
  <2> QED
    BY <1>1, <2>1
<1> QED
  BY <1>5 DEF F, m

LEMMA FilterSteps ==
    ASSUME NEW S, NEW queue \in Seq(S), NEW keep
    PROVE  \E kept : Filter(queue, keep) = kept[Len(queue)]
                     /\ Follows(queue, keep, kept, Len(queue))
<1> DEFINE m == Len(queue)
           G(kept) == [i \in 0 .. m |-> IF i = 0 THEN <<>> ELSE Step(queue, keep, kept, i)]
           chosen == CHOOSE kept : kept = G(kept)
<1>1. m \in Nat
  OBVIOUS
<1>2. Filter(queue, keep) = chosen[m]
  BY DEF Filter, Step
<1>3. PICK kept \in [0 .. m -> Seq(S)] : Follows(queue, keep, kept, m)
  BY KeptExists
<1> HIDE DEF m
<1>4. kept = G(kept)
  <2>1. \A i \in 0 .. m : kept[i] = IF i = 0 THEN <<>> ELSE Step(queue, keep, kept, i)
    BY <1>1, <1>3 DEF Follows
  <2> QED
    BY <1>3, <2>1
<1>5. chosen = G(chosen)
  <2> HIDE DEF G
  <2> QED
    BY <1>4
<1> HIDE DEF chosen
<1>6. chosen[0] = <<>> /\ \A i \in 1 .. m : chosen[i] = Step(queue, keep, chosen, i)
  <2>1. \A i \in 0 .. m : chosen[i] = IF i = 0 THEN <<>> ELSE Step(queue, keep, chosen, i)
    BY <1>5
  <2> QED
    BY <1>1, <2>1
<1> QED
  BY <1>2, <1>6 DEF Follows, m

(***************************************************************************)
(* A filtered queue has the members of the queue that are kept, in order.  *)
(***************************************************************************)
LEMMA FilterMembers ==
    ASSUME NEW S, NEW queue \in Seq(S), NEW keep
    PROVE  /\ Filter(queue, keep) \in Seq(S)
           /\ ToSet(Filter(queue, keep)) = ToSet(queue) \cap keep
           /\ S \subseteq Nat /\ Rising(queue) => Rising(Filter(queue, keep))
<1> DEFINE m == Len(queue)
<1>1. PICK kept : Filter(queue, keep) = kept[m] /\ Follows(queue, keep, kept, m)
  BY FilterSteps
<1>2. m \in Nat /\ DOMAIN queue = 1 .. m /\ \A i \in 1 .. m : queue[i] \in S
  OBVIOUS
<1> HIDE DEF m
<1> DEFINE Old(n) == {queue[i] : i \in 1 .. n}
           Ordered == S \subseteq Nat /\ Rising(queue)
           Good(n) == /\ kept[n] \in Seq(S)
                      /\ ToSet(kept[n]) = Old(n) \cap keep
                      /\ Ordered => Rising(kept[n])
           T == {n \in Nat : n <= m => Good(n)}
<1>3. 0 \in T
  <2>1. kept[0] = <<>> /\ Old(0) = {}
    BY <1>1 DEF Follows
  <2>2. ToSet(<<>>) = {} /\ Rising(<<>>) /\ <<>> \in Seq(S)
    BY MembersType DEF Rising
  <2> QED
    BY <2>1, <2>2
<1>4. ASSUME NEW n \in T
      PROVE  n + 1 \in T
  <2> SUFFICES ASSUME n + 1 <= m
               PROVE  Good(n + 1)
    OBVIOUS
  <2> DEFINE e == queue[n + 1]
  <2>1. n \in Nat /\ n <= m /\ n + 1 \in 1 .. m /\ Good(n) /\ e \in S
    BY <1>2
  <2>2. kept[n + 1] = IF e \in keep THEN Append(kept[n], e) ELSE kept[n]
    BY <1>1, <2>1 DEF Follows, Step
  <2>3. Old(n + 1) = Old(n) \cup {e}
    <3>1. 1 .. n + 1 = (1 .. n) \cup {n + 1}
      BY <2>1
    <3> QED
      BY <3>1
  <2> HIDE DEF e
  <2>4. CASE e \notin keep
    BY <2>1, <2>2, <2>3, <2>4
  <2>5. CASE e \in keep
    <3>1. kept[n + 1] \in Seq(S) /\ ToSet(kept[n + 1]) = ToSet(kept[n]) \cup {e}
      BY <2>1, <2>2, <2>5, MembersAppend
    <3>2. ASSUME Ordered
          PROVE  Rising(kept[n + 1])
      <4>1. \A x \in Old(n) : x < e
        BY <1>2, <2>1, <3>2 DEF Rising, e
      <4>2. kept[n] \in Seq(Nat)
        <5>1. kept[n] \in Seq(S) /\ S \subseteq Nat
          BY <2>1, <3>2
        <5> QED
          BY <5>1, SeqMonotonic
      <4>3. e \in Nat /\ Rising(kept[n])
        BY <2>1, <3>2
      <4> QED
        BY <2>1, <2>2, <2>5, <4>1, <4>2, <4>3, RisingAppend
    <3> QED
      BY <2>1, <2>3, <2>5, <3>1, <3>2
  <2> QED
    BY <2>4, <2>5
<1> HIDE DEF Good
<1>5. T = Nat
  <2>1. T \in SUBSET Nat
    OBVIOUS
  <2> HIDE DEF T
  <2> QED
    BY <1>3, <1>4, <2>1, Induction
<1>6. Good(m)
  <2>1. m \in T
    BY <1>2, <1>5
  <2> QED
    BY <1>2, <2>1
<1>7. Old(m) = ToSet(queue)
  BY <1>2 DEF ToSet
<1> QED
  BY <1>1, <1>6, <1>7 DEF Good
=============================================================================
