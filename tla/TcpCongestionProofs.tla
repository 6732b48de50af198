------------------------ MODULE TcpCongestionProofs ------------------------
(***************************************************************************)
(* What is proved of congestion control and recovery for every number of   *)
(* segments, losses and time-outs and every window, rate and FEC mode: the *)
(* scoreboard, the congestion states and the window from one inductive     *)
(* invariant, rate control once per round, and the path as a FecPath.      *)
(***************************************************************************)
EXTENDS TcpCongestion, FecSizingProofs, SequenceTheorems, FiniteSetTheorems,
        WellFoundedInduction, TLAPS
-----------------------------------------------------------------------------
(* What the operations of the two buffers keep, for every number of segments *)
(* and every threshold                                                       *)

\* Induction over the naturals, for a set.
LEMMA LeastNat ==
  ASSUME NEW T \in SUBSET Nat, T # {}
  PROVE  \E x \in T : \A y \in T : x <= y
<1>1. IsWellFoundedOn(OpToRel(<, Nat), Nat)
  BY NatLessThanWellFounded
<1>2. PICK x \in T : \A y \in T : <<y, x>> \notin OpToRel(<, Nat)
  BY <1>1, WFMin
<1>3. \A y \in T : ~(y < x)
  BY <1>2 DEF OpToRel
<1>4. QED
  BY <1>3

LEMMA SetInduction ==
  ASSUME NEW S \in SUBSET Nat, 0 \in S, \A n \in S : n + 1 \in S
  PROVE  S = Nat
<1> SUFFICES ASSUME Nat \ S # {} PROVE FALSE
  OBVIOUS
<1>1. PICK x \in Nat \ S : \A y \in Nat \ S : x <= y
  BY LeastNat
<1>2. x # 0 /\ x - 1 \in Nat
  BY <1>1
<1>3. x - 1 \in S
  BY <1>1, <1>2
<1>4. (x - 1) + 1 = x
  BY <1>1
<1>5. QED
  BY <1>1, <1>3, <1>4

\* Min and Max choose what they are to choose.
LEMMA MinChosen ==
  ASSUME NEW S \in SUBSET Nat, S # {}
  PROVE  Min(S) \in S /\ \A y \in S : Min(S) <= y
BY LeastNat DEF Min

LEMMA MaxChosen ==
  ASSUME NEW S \in SUBSET Nat, S # {}, NEW n \in Nat, \A x \in S : x <= n
  PROVE  Max(S) \in S /\ \A y \in S : y <= Max(S)
<1> DEFINE T == {n - x : x \in S}
<1>1. T \in SUBSET Nat /\ T # {}
  <2>1. \A x \in S : n - x \in Nat
    OBVIOUS
  <2>2. PICK x \in S : TRUE
    OBVIOUS
  <2>3. n - x \in T
    BY <2>2
  <2>4. QED
    BY <2>1, <2>3
<1>2. PICK d \in T : \A e \in T : d <= e
  BY <1>1, LeastNat
<1>3. PICK x \in S : d = n - x
  BY <1>2
<1>4. ASSUME NEW y \in S PROVE x >= y
  <2>1. n - y \in T
    OBVIOUS
  <2>2. n - x <= n - y
    BY <1>2, <1>3, <2>1
  <2>3. QED
    BY <2>2
<1>5. Max(S) \in S /\ \A y \in S : Max(S) >= y
  BY <1>3, <1>4 DEF Max
<1>6. QED
  BY <1>5

LEMMA MaxOfTwo ==
  ASSUME NEW a \in Int, NEW b \in Int
  PROVE  Max({a, b}) \in {a, b} /\ Max({a, b}) >= a /\ Max({a, b}) >= b
<1>1. \E x \in {a, b} : \A y \in {a, b} : x >= y
  OBVIOUS
<1>2. Max({a, b}) \in {a, b} /\ \A y \in {a, b} : Max({a, b}) >= y
  BY <1>1 DEF Max
<1>3. QED
  BY <1>2

\* f is defined by recursion over 0 .. n, with step G[k] from k - 1 to k.
Recursion(f, A, a, n, G) ==
  f \in [0 .. n -> A] /\ f[0] = a /\ \A k \in 1 .. n : f[k] = G[k][f[k - 1]]

\* Such a function exists, and its values stay in the set that the steps stay in.
LEMMA RecursionExists ==
  ASSUME NEW A, NEW a \in A, NEW n \in Nat,
         NEW G, \A k \in 1 .. n : \A x \in A : G[k][x] \in A
  PROVE  \E f : Recursion(f, A, a, n, G)
<1> DEFINE S == {m \in Nat : m <= n => \E f \in [0 .. m -> A] :
                               f[0] = a /\ \A k \in 1 .. m : f[k] = G[k][f[k - 1]]}
<1>1. 0 \in S
  <2>1. [k \in 0 .. 0 |-> a] \in [0 .. 0 -> A] /\ [k \in 0 .. 0 |-> a][0] = a
    OBVIOUS
  <2>2. \A k \in 1 .. 0 : FALSE
    OBVIOUS
  <2>3. QED
    BY <2>1, <2>2
<1>2. ASSUME NEW m \in S PROVE m + 1 \in S
  <2> SUFFICES ASSUME m + 1 <= n
               PROVE  \E f \in [0 .. m + 1 -> A] :
                        f[0] = a /\ \A k \in 1 .. m + 1 : f[k] = G[k][f[k - 1]]
    BY m \in Nat, m + 1 \in Nat
  <2>1. m \in Nat /\ m <= n /\ m + 1 \in 1 .. n
    OBVIOUS
  <2>2. PICK f \in [0 .. m -> A] : f[0] = a /\ \A k \in 1 .. m : f[k] = G[k][f[k - 1]]
    BY <2>1
  <2>3. f[m] \in A /\ G[m + 1][f[m]] \in A
    BY <2>1, <2>2
  <2>4. PICK g : g = [k \in 0 .. m + 1 |-> IF k = m + 1 THEN G[m + 1][f[m]] ELSE f[k]]
    OBVIOUS
  <2>5. g \in [0 .. m + 1 -> A] /\ g[m + 1] = G[m + 1][f[m]] /\ \A k \in 0 .. m : g[k] = f[k]
    BY <2>1, <2>3, <2>4
  <2>6. g[0] = a
    BY <2>1, <2>2, <2>5
  <2>7. ASSUME NEW k \in 1 .. m + 1 PROVE g[k] = G[k][g[k - 1]]
    <3>1. CASE k = m + 1
      BY <2>1, <2>5, <3>1
    <3>2. CASE k \in 1 .. m
      BY <2>1, <2>2, <2>5, <3>2
    <3>3. QED
      BY <2>1, <3>1, <3>2
  <2>8. QED
    BY <2>5, <2>6, <2>7
<1> HIDE DEF S
<1>3. S = Nat
  <2>1. S \in SUBSET Nat
    BY DEF S
  <2>2. QED
    BY <1>1, <1>2, <2>1, SetInduction
<1>4. QED
  BY <1>3 DEF S, Recursion

LEMMA RecursionTyped ==
  ASSUME NEW A, NEW n \in Nat, NEW f, f[0] \in A,
         \A k \in 1 .. n : f[k - 1] \in A => f[k] \in A
  PROVE  \A k \in 0 .. n : f[k] \in A
<1> DEFINE S == {m \in Nat : m <= n => f[m] \in A}
<1>1. 0 \in S
  OBVIOUS
<1>2. ASSUME NEW m \in S PROVE m + 1 \in S
  <2> SUFFICES ASSUME m + 1 <= n PROVE f[m + 1] \in A
    OBVIOUS
  <2>1. m \in Nat /\ m <= n /\ f[m] \in A /\ m + 1 \in 1 .. n /\ (m + 1) - 1 = m
    OBVIOUS
  <2>2. f[(m + 1) - 1] \in A => f[m + 1] \in A
    BY <2>1
  <2>3. QED
    BY <2>1, <2>2
<1> HIDE DEF S
<1>3. S = Nat
  <2>1. S \in SUBSET Nat
    BY DEF S
  <2>2. QED
    BY <1>1, <1>2, <2>1, SetInduction
<1>4. QED
  BY <1>3 DEF S

-----------------------------------------------------------------------------
(* The receiver's buffer *)

\* What is kept of a list is of the list.
LEMMA KeepOnlyType ==
  ASSUME NEW A, NEW list \in Seq(A), NEW S
  PROVE  KeepOnly(list, S) \in Seq(A \cap S)
<1> DEFINE kept[i \in 0 .. Len(list)] ==
             IF i = 0 THEN <<>>
             ELSE IF list[i] \in S THEN Append(kept[i - 1], list[i]) ELSE kept[i - 1]
<1>0. PICK n, Q : n = Len(list) /\ Q = Seq(A \cap S)
  OBVIOUS
<1>1. n \in Nat /\ <<>> \in Q
  BY <1>0
<1>2. ASSUME NEW k \in 1 .. n, NEW x \in Q
      PROVE  (IF list[k] \in S THEN Append(x, list[k]) ELSE x) \in Q
  <2>1. list[k] \in A
    BY <1>0
  <2>2. list[k] \in S => list[k] \in A \cap S
    BY <2>1
  <2>3. QED
    BY <1>0, <2>2
<1>3. PICK G : G = [k \in 1 .. n |-> [x \in Q |-> IF list[k] \in S THEN Append(x, list[k]) ELSE x]]
  OBVIOUS
<1>4. \A k \in 1 .. n : \A x \in Q : G[k][x] \in Q
  BY <1>2, <1>3
<1>5. PICK f \in [0 .. n -> Q] : f[0] = <<>> /\ \A k \in 1 .. n : f[k] = G[k][f[k - 1]]
  <2>1. PICK e : e = <<>>
    OBVIOUS
  <2>2. e \in Q
    BY <1>1, <2>1
  <2>3. \E f : Recursion(f, Q, e, n, G)
    BY <1>1, <1>4, <2>2, RecursionExists
  <2>4. QED
    BY <2>1, <2>3 DEF Recursion
<1>6. ASSUME NEW k \in 1 .. n
      PROVE  f[k] = IF list[k] \in S THEN Append(f[k - 1], list[k]) ELSE f[k - 1]
  <2>1. k - 1 \in 0 .. n /\ f[k - 1] \in Q
    BY <1>1, <1>5
  <2>2. f[k] = G[k][f[k - 1]]
    BY <1>5
  <2>3. QED
    BY <1>3, <2>1, <2>2
<1>7. f = [i \in 0 .. Len(list) |->
             IF i = 0 THEN <<>>
             ELSE IF list[i] \in S THEN Append(f[i - 1], list[i]) ELSE f[i - 1]]
  <2>1. \A i \in 0 .. n : i # 0 => i \in 1 .. n
    BY <1>1
  <2>2. QED
    BY <1>0, <1>5, <1>6, <2>1
<1>8. kept = [i \in 0 .. Len(list) |->
             IF i = 0 THEN <<>>
             ELSE IF list[i] \in S THEN Append(kept[i - 1], list[i]) ELSE kept[i - 1]]
  BY <1>7
<1> HIDE DEF kept
<1>9. kept[0] \in Q
  BY <1>0, <1>1, <1>8
<1>10. ASSUME NEW k \in 1 .. n, kept[k - 1] \in Q
       PROVE  kept[k] \in Q
  <2>1. k \in 0 .. n /\ k # 0
    BY <1>1
  <2>2. kept[k] = IF list[k] \in S THEN Append(kept[k - 1], list[k]) ELSE kept[k - 1]
    BY <1>0, <1>8, <2>1
  <2>3. QED
    BY <1>2, <1>10, <2>2
<1>11. \A k \in 0 .. n : kept[k] \in Q
  BY <1>1, <1>9, <1>10, RecursionTyped
<1>12. KeepOnly(list, S) = kept[Len(list)]
  BY DEF KeepOnly, kept
<1>13. QED
  BY <1>0, <1>1, <1>11, <1>12

\* The segments that have reached the receiver.
Received(rb) == 1 .. rb.next \cup rb.ooo

SackBlocks == [lo : Nat, hi : Nat]
Within(block, S) == block.lo <= block.hi /\ block.lo .. block.hi \subseteq S

\* The segments kept are behind a gap, and the list reports none that is not
\* kept.
RxSound(rb) ==
  /\ rb \in [next : Nat, ooo : SUBSET (1 .. MaxSeg), sackList : Seq(SackBlocks)]
  /\ \A s \in rb.ooo : s > rb.next + 1
  /\ \A i \in 1 .. Len(rb.sackList) : Within(rb.sackList[i], rb.ooo)

LEMMA EmptyRxSound == RxSound(EmptyRxBuffer)
BY DEF RxSound, EmptyRxBuffer

\* The block that a segment makes with its neighbours is of segments that are
\* there.
LEMMA UpdateSackListWithin ==
  ASSUME NEW list \in Seq(SackBlocks), NEW S \in SUBSET (1 .. MaxSeg), NEW seg \in S,
         \A i \in 1 .. Len(list) : Within(list[i], S)
  PROVE  /\ UpdateSackList(list, seg) \in Seq(SackBlocks)
         /\ \A i \in 1 .. Len(UpdateSackList(list, seg)) : Within(UpdateSackList(list, seg)[i], S)
<1> DEFINE left  == {i \in DOMAIN list : list[i].hi + 1 = seg}
           right == {i \in DOMAIN list : seg + 1 = list[i].lo}
           los == {seg} \cup {list[i].lo : i \in left}
           his == {seg} \cup {list[i].hi : i \in right}
           rest  == KeepOnly(list, {s \in ToSet(list) : s.hi + 1 # seg /\ seg + 1 # s.lo})
<1>0. PICK A : A = {s \in SackBlocks : Within(s, S)}
  OBVIOUS
<1>1. ASSUME NEW i \in DOMAIN list
      PROVE  list[i] \in A /\ list[i].lo \in Nat /\ list[i].hi \in Nat /\ list[i].lo <= list[i].hi
             /\ list[i].lo .. list[i].hi \subseteq S
  <2>1. list[i] \in SackBlocks /\ Within(list[i], S)
    OBVIOUS
  <2>2. QED
    BY <1>0, <2>1 DEF SackBlocks, Within
<1>2. PICK lo : lo = Min(los)
  OBVIOUS
<1>3. lo \in los
  <2>1. \A i \in left : list[i].lo \in Nat
    BY <1>1
  <2>2. los \in SUBSET Nat /\ los # {}
    BY <2>1
  <2>3. QED
    BY <1>2, <2>2, MinChosen
<1>4. lo \in Nat /\ lo <= seg /\ lo .. seg \subseteq S
  <2>1. CASE lo = seg
    BY <2>1
  <2>2. CASE \E i \in left : lo = list[i].lo
    <3>1. PICK i \in left : lo = list[i].lo
      BY <2>2
    <3>2. i \in DOMAIN list /\ list[i].hi + 1 = seg
      BY <3>1
    <3>3. QED
      BY <1>1, <3>1, <3>2
  <2>3. QED
    BY <1>3, <2>1, <2>2
<1>5. PICK hi : hi = Max(his)
  OBVIOUS
<1>6. hi \in Nat /\ seg <= hi /\ seg .. hi \subseteq S
  <2>1. his \in SUBSET Nat /\ his # {} /\ \A x \in his : x <= MaxSeg
    <3>1. ASSUME NEW i \in right PROVE list[i].hi \in S
      BY <1>1
    <3>2. \A x \in his : x \in S
      BY <3>1
    <3>3. seg \in his
      OBVIOUS
    <3> HIDE DEF his
    <3>4. QED
      BY <3>2, <3>3, TxBufferAssumption
  <2>2. hi \in his
    BY <1>5, <2>1, MaxChosen, TxBufferAssumption
  <2>3. CASE hi = seg
    BY <2>3
  <2>4. CASE \E i \in right : hi = list[i].hi
    <3>1. PICK i \in right : hi = list[i].hi
      BY <2>4
    <3>2. i \in DOMAIN list /\ seg + 1 = list[i].lo
      BY <3>1
    <3>3. PICK a, b : a = list[i].lo /\ b = list[i].hi
      OBVIOUS
    <3>4. a \in Nat /\ b \in Nat /\ a <= b /\ a .. b \subseteq S
      BY <1>1, <3>2, <3>3
    <3>5. seg \in Nat /\ seg \in S /\ seg + 1 = a
      BY <3>2, <3>3
    <3>6. seg <= b /\ \A x \in seg .. b : x = seg \/ x \in a .. b
      BY ONLY <3>4, <3>5
    <3>7. QED
      BY <3>1, <3>3, <3>4, <3>5, <3>6
  <2>5. QED
    BY <2>2, <2>3, <2>4
<1>7. [lo |-> lo, hi |-> hi] \in A
  BY <1>0, <1>4, <1>6 DEF SackBlocks, Within
<1>8. list \in Seq(A)
  BY <1>1
<1>9. rest \in Seq(A)
  <2>1. PICK K : K = {s \in ToSet(list) : s.hi + 1 # seg /\ seg + 1 # s.lo}
    OBVIOUS
  <2>2. KeepOnly(list, K) \in Seq(A \cap K)
    BY <1>8, KeepOnlyType
  <2>3. Seq(A \cap K) \subseteq Seq(A)
    BY SeqMonotonic
  <2>4. QED
    BY <2>1, <2>2, <2>3
<1>10. PICK n : n = Min({MaxSackBlocks, Len(rest) + 1})
  OBVIOUS
<1>11. n \in 1 .. Len(rest) + 1
  <2>1. PICK m : m = Len(rest) + 1
    OBVIOUS
  <2>2. m \in Nat /\ m >= 1
    BY <1>9, <2>1
  <2>3. {MaxSackBlocks, m} \in SUBSET Nat /\ {MaxSackBlocks, m} # {}
    BY <2>2 DEF MaxSackBlocks
  <2>4. n \in {MaxSackBlocks, m} /\ n <= m
    BY <1>10, <2>1, <2>3, MinChosen
  <2>5. QED
    BY <2>1, <2>2, <2>4 DEF MaxSackBlocks
<1>12. UpdateSackList(list, seg) = SubSeq(<<[lo |-> lo, hi |-> hi]>> \o rest, 1, n)
  BY <1>2, <1>5, <1>10 DEF UpdateSackList
<1> HIDE DEF rest
<1>13. UpdateSackList(list, seg) \in Seq(A)
  BY <1>7, <1>9, <1>11, <1>12
<1>14. QED
  BY <1>0, <1>13

\* The data in sequence ends right before a segment that is not there.
LEMMA InSequence ==
  ASSUME NEW S \in SUBSET (1 .. MaxSeg), NEW m \in Nat, NEW next,
         next = Max({n \in m .. m + Cardinality(S) : m + 1 .. n \subseteq S})
  PROVE  next \in Nat /\ m <= next /\ m + 1 .. next \subseteq S /\ next + 1 \notin S
<1>1. IsFiniteSet(S) /\ Cardinality(S) \in Nat
  <2>1. IsFiniteSet(1 .. MaxSeg)
    BY FS_Interval, TxBufferAssumption
  <2>2. IsFiniteSet(S)
    BY <2>1, FS_Subset
  <2>3. QED
    BY <2>2, FS_CardinalityType
<1>2. PICK c \in Nat : c = Cardinality(S)
  BY <1>1
<1>3. PICK M : M = {n \in m .. m + c : m + 1 .. n \subseteq S}
  OBVIOUS
<1>4. M \in SUBSET Nat /\ m \in M /\ m + c \in Nat /\ \A x \in M : x <= m + c
  BY <1>3
<1>5. next \in M /\ \A x \in M : x <= next
  BY <1>2, <1>3, <1>4, MaxChosen
<1>6. next \in Nat /\ m <= next /\ m + 1 .. next \subseteq S
  BY <1>3, <1>5
<1>7. ASSUME next + 1 \in S PROVE FALSE
  <2>1. m + 1 .. next + 1 \subseteq S
    <3> SUFFICES ASSUME NEW x \in m + 1 .. next + 1 PROVE x \in S
      OBVIOUS
    <3>1. x \in m + 1 .. next \/ x = next + 1
      BY <1>6
    <3>2. QED
      BY <1>6, <1>7, <3>1
  <2>2. Cardinality(m + 1 .. next + 1) = next + 1 - m
    BY <1>6, FS_Interval
  <2>3. Cardinality(m + 1 .. next + 1) <= c
    BY <1>1, <1>2, <2>1, FS_Subset
  <2>4. next + 1 \in M
    BY <1>3, <1>6, <2>1, <2>2, <2>3
  <2>5. QED
    BY <1>5, <1>6, <2>4
<1>8. QED
  BY <1>6, <1>7

\* A new segment: nothing is forgotten, and the list stays sound, also where
\* the data in sequence reaches one of its blocks.
LEMMA AddSound ==
  ASSUME NEW rb, RxSound(rb), NEW seg \in 1 .. MaxSeg, ~Buffered(rb, seg)
  PROVE  /\ RxSound(Add(rb, seg)) /\ rb.next <= Add(rb, seg).next
         /\ Received(Add(rb, seg)) = Received(rb) \cup {seg}
<1>1. /\ rb.next \in Nat /\ rb.ooo \in SUBSET (1 .. MaxSeg) /\ rb.sackList \in Seq(SackBlocks)
      /\ \A s \in rb.ooo : s > rb.next + 1
      /\ \A i \in 1 .. Len(rb.sackList) : Within(rb.sackList[i], rb.ooo)
  BY DEF RxSound
<1>2. seg \in Nat /\ seg > rb.next /\ seg \notin rb.ooo
  BY <1>1 DEF Buffered
<1>3. PICK ooo, list, next :
        /\ ooo = rb.ooo \cup {seg}
        /\ list = (IF seg > rb.next + 1 THEN UpdateSackList(rb.sackList, seg) ELSE rb.sackList)
        /\ next = Max({n \in rb.next .. rb.next + Cardinality(ooo) : rb.next + 1 .. n \subseteq ooo})
  OBVIOUS
<1>4. ooo \in SUBSET (1 .. MaxSeg) /\ seg \in ooo
  BY <1>1, <1>3
<1>5. next \in Nat /\ rb.next <= next /\ rb.next + 1 .. next \subseteq ooo /\ next + 1 \notin ooo
  <2>1. PICK m \in Nat : m = rb.next
    BY <1>1
  <2>2. next = Max({n \in m .. m + Cardinality(ooo) : m + 1 .. n \subseteq ooo})
    BY <1>3, <2>1
  <2>3. next \in Nat /\ m <= next /\ m + 1 .. next \subseteq ooo /\ next + 1 \notin ooo
    BY <1>4, <2>2, InSequence
  <2>4. QED
    BY <2>1, <2>3
<1>6. list \in Seq(SackBlocks) /\ \A i \in 1 .. Len(list) : Within(list[i], ooo)
  <2>1. \A i \in 1 .. Len(rb.sackList) : Within(rb.sackList[i], ooo)
    BY <1>1, <1>3 DEF Within
  <2>2. CASE seg > rb.next + 1
    BY <1>1, <1>3, <1>4, <2>1, <2>2, UpdateSackListWithin
  <2>3. CASE ~(seg > rb.next + 1)
    BY <1>1, <1>3, <2>1, <2>3
  <2>4. QED
    BY <2>2, <2>3
<1>7. PICK rest, left, cleared : /\ rest = {s \in ooo : s > next} /\ left = {s \in ToSet(list) : s.hi > next}
                        /\ cleared = KeepOnly(list, left)
  OBVIOUS
<1>8. \A b \in left : b \in SackBlocks /\ Within(b, rest)
  <2> SUFFICES ASSUME NEW b \in left PROVE b \in SackBlocks /\ Within(b, rest)
    OBVIOUS
  <2>1. PICK i \in 1 .. Len(list) : b = list[i]
    BY <1>6, <1>7 DEF ToSet
  <2>2. b \in SackBlocks /\ b.lo <= b.hi /\ b.lo .. b.hi \subseteq ooo /\ b.hi > next
    BY <1>6, <1>7, <2>1 DEF Within
  <2>3. b.lo \in Nat /\ b.hi \in Nat
    BY <2>2 DEF SackBlocks
  <2>4. b.lo > next
    BY <1>5, <2>2, <2>3
  <2>5. QED
    BY <1>5, <1>7, <2>2, <2>3, <2>4 DEF Within
<1>9. list \in Seq(ToSet(list))
  BY <1>6 DEF ToSet
<1>10. cleared \in Seq(ToSet(list) \cap left)
  BY <1>7, <1>9, KeepOnlyType
<1>11. cleared \in Seq(SackBlocks) /\ \A i \in 1 .. Len(cleared) : Within(cleared[i], rest)
  BY <1>8, <1>10
<1>12. Add(rb, seg) = [next |-> next, ooo |-> rest, sackList |-> cleared]
  BY <1>3, <1>7 DEF Add, ClearSackList
<1>13. PICK r : r = Add(rb, seg)
  OBVIOUS
<1>14. r.next = next /\ r.ooo = rest /\ r.sackList = cleared
  BY <1>12, <1>13
<1>15. rest \in SUBSET (1 .. MaxSeg) /\ \A s \in rest : s > next + 1
  <2>1. \A s \in ooo : s \in Int /\ s # next + 1
    BY <1>4, <1>5, TxBufferAssumption
  <2>2. \A s \in rest : s \in ooo /\ s > next
    BY <1>7
  <2>3. rest \in SUBSET (1 .. MaxSeg)
    BY <1>4, <1>7
  <2>4. ASSUME NEW s \in rest PROVE s > next + 1
    <3>1. s \in Int /\ s # next + 1 /\ s > next
      BY <2>1, <2>2
    <3>2. QED
      BY <1>5, <3>1
  <2>5. QED
    BY <2>3, <2>4
<1>16. RxSound(r)
  <2>1. r \in [next : Nat, ooo : SUBSET (1 .. MaxSeg), sackList : Seq(SackBlocks)]
    BY <1>5, <1>11, <1>12, <1>13, <1>15
  <2>2. QED
    BY <1>11, <1>14, <1>15, <2>1 DEF RxSound
<1>17. 1 .. next \cup rest = 1 .. rb.next \cup rb.ooo \cup {seg}
  <2>1. ASSUME NEW s \in 1 .. next \cup rest PROVE s \in 1 .. rb.next \cup rb.ooo \cup {seg}
    <3>1. s \in 1 .. rb.next \/ s \in rb.next + 1 .. next \/ s \in rest
      BY <1>1, <1>5, <2>1
    <3>2. QED
      BY <1>3, <1>5, <1>7, <3>1
  <2>2. ASSUME NEW s \in 1 .. rb.next \cup rb.ooo \cup {seg} PROVE s \in 1 .. next \cup rest
    BY <1>1, <1>2, <1>3, <1>4, <1>5, <1>7
  <2>3. QED
    BY <2>1, <2>2
<1>18. QED
  BY <1>5, <1>13, <1>14, <1>16, <1>17 DEF Received

-----------------------------------------------------------------------------
(* The sender's buffer *)

TxBuffers ==
  [una : Nat, sent : Nat, sacked : SUBSET Nat, lost : SUBSET Nat, retrans : SUBSET Nat,
   sackedOut : Int, lostOut : Int, retransOut : Int, high : Nat]

\* The sums agree with the flags, and the flags are those of outstanding
\* segments.
Sums(b) ==
  /\ b.sackedOut = Cardinality(b.sacked) /\ b.lostOut = Cardinality(b.lost)
  /\ b.retransOut = Cardinality(b.retrans)
Flags(b) ==
  /\ b.sacked \cup b.lost \cup b.retrans \subseteq SentList(b)
  /\ b.sacked \cap b.lost = {} /\ HeadSeg(b) \notin b.sacked

TxSound(b) ==
  /\ b \in TxBuffers /\ b.una <= b.sent /\ b.sent <= MaxSeg /\ b.high <= b.sent
  /\ Sums(b) /\ Flags(b)

LEMMA EmptyTxSound == TxSound(EmptyTxBuffer)
BY FS_EmptySet, TxBufferAssumption
  DEF TxSound, TxBuffers, Sums, Flags, SentList, HeadSeg, EmptyTxBuffer

\* A set of outstanding segments is finite.
LEMMA SentFinite ==
  ASSUME NEW b, b.una \in Nat, b.sent \in Nat, NEW S \in SUBSET SentList(b)
  PROVE  IsFiniteSet(S) /\ Cardinality(S) \in Nat
<1>1. IsFiniteSet(SentList(b))
  BY FS_Interval, SMTT(30) DEF SentList
<1>2. IsFiniteSet(S)
  BY <1>1, FS_Subset
<1>3. QED
  BY <1>2, FS_CardinalityType

\* The fields of a buffer with their types.
LEMMA TxFields ==
  ASSUME NEW b, TxSound(b)
  PROVE  /\ b.una \in Nat /\ b.sent \in Nat /\ b.high \in Nat
         /\ b.sacked \in SUBSET SentList(b) /\ b.lost \in SUBSET SentList(b)
         /\ b.retrans \in SUBSET SentList(b) /\ SentList(b) \subseteq Nat
         /\ IsFiniteSet(b.sacked) /\ IsFiniteSet(b.lost) /\ IsFiniteSet(b.retrans)
         /\ b.sackedOut \in Nat /\ b.lostOut \in Nat /\ b.retransOut \in Nat
<1>1. /\ b.una \in Nat /\ b.sent \in Nat /\ b.high \in Nat
      /\ b.sacked \in SUBSET SentList(b) /\ b.lost \in SUBSET SentList(b)
      /\ b.retrans \in SUBSET SentList(b)
  BY DEF TxSound, TxBuffers, Flags
<1>2. SentList(b) \subseteq Nat
  BY <1>1 DEF SentList
<1>3. QED
  BY <1>1, <1>2, SentFinite DEF TxSound, Sums

\* Two sets of counts: what leaves a set and what enters it.
LEMMA CountAdded ==
  ASSUME NEW S, NEW T, IsFiniteSet(S), IsFiniteSet(T)
  PROVE  IsFiniteSet(S \cup T) /\ Cardinality(S \cup T) = Cardinality(S) + Cardinality(T \ S)
<1>1. IsFiniteSet(T \ S)
  BY FS_Difference
<1>2. S \cup T = S \cup (T \ S) /\ S \cap (T \ S) = {}
  OBVIOUS
<1>3. Cardinality(S \cup (T \ S)) = Cardinality(S) + Cardinality(T \ S) - Cardinality({})
  BY <1>1, <1>2, FS_Union
<1>4. Cardinality(S) \in Nat /\ Cardinality(T \ S) \in Nat
  BY <1>1, FS_CardinalityType
<1>5. IsFiniteSet(S \cup T)
  BY FS_Union
<1>6. Cardinality(S \cup (T \ S)) = Cardinality(S) + Cardinality(T \ S)
  BY <1>3, <1>4, FS_EmptySet
<1>7. QED
  BY <1>2, <1>5, <1>6

LEMMA GetNewSegmentSound ==
  ASSUME NEW b, TxSound(b), b.sent < MaxSeg
  PROVE  LET c == GetNewSegment(b)
         IN  TxSound(c) /\ c.una = b.una /\ c.sent = b.sent + 1 /\ c.sacked = b.sacked
<1>1. PICK c : c = GetNewSegment(b)
  OBVIOUS
<1>2. /\ c \in TxBuffers /\ c.una = b.una /\ c.sent = b.sent + 1 /\ c.high = b.high
      /\ c.sacked = b.sacked /\ c.lost = b.lost /\ c.retrans = b.retrans
      /\ c.sackedOut = b.sackedOut /\ c.lostOut = b.lostOut /\ c.retransOut = b.retransOut
  BY <1>1 DEF GetNewSegment, TxSound, TxBuffers
<1>3. b.una \in Nat /\ b.sent \in Nat /\ b.high \in Nat
  BY TxFields
<1>4. SentList(b) \subseteq SentList(c) /\ HeadSeg(c) = HeadSeg(b)
  BY <1>2, <1>3 DEF SentList, HeadSeg
<1>5. TxSound(c)
  BY <1>2, <1>3, <1>4, TxBufferAssumption DEF TxSound, Sums, Flags
<1>6. QED
  BY <1>1, <1>2, <1>5

LEMMA GetTransmittedSegmentSound ==
  ASSUME NEW b, TxSound(b), NEW seg \in SentList(b)
  PROVE  LET c == GetTransmittedSegment(b, seg)
         IN  TxSound(c) /\ c.una = b.una /\ c.sent = b.sent /\ c.sacked = b.sacked
<1>1. CASE seg \in b.retrans
  BY <1>1 DEF GetTransmittedSegment
<1>2. CASE seg \notin b.retrans
  <2>1. PICK c : c = GetTransmittedSegment(b, seg)
    OBVIOUS
  <2>2. seg \in Nat /\ b.retrans \cup {seg} \in SUBSET Nat /\ b.retransOut + 1 \in Int
    BY TxFields
  <2>3. /\ c \in TxBuffers /\ c.una = b.una /\ c.sent = b.sent /\ c.high = b.high
        /\ c.sacked = b.sacked /\ c.lost = b.lost /\ c.retrans = b.retrans \cup {seg}
        /\ c.sackedOut = b.sackedOut /\ c.lostOut = b.lostOut /\ c.retransOut = b.retransOut + 1
    BY <1>2, <2>1, <2>2 DEF GetTransmittedSegment, TxSound, TxBuffers
  <2>4. Cardinality(b.retrans \cup {seg}) = Cardinality(b.retrans) + 1
    BY <1>2, TxFields, FS_AddElement
  <2>5. SentList(c) = SentList(b) /\ HeadSeg(c) = HeadSeg(b)
    BY <2>3 DEF SentList, HeadSeg
  <2>6. TxSound(c)
    BY <2>3, <2>4, <2>5 DEF TxSound, Sums, Flags
  <2>7. QED
    BY <2>1, <2>3, <2>6
<1>3. QED
  BY <1>1, <1>2

\* Everything up to segment ack leaves the buffer; the segment after it must not
\* be SACKed.
LEMMA DiscardUpToSound ==
  ASSUME NEW b, TxSound(b), NEW ack \in Nat, b.una <= ack, ack <= b.sent, ack + 1 \notin b.sacked
  PROVE  LET c == DiscardUpTo(b, ack)
         IN  TxSound(c) /\ c.una = ack /\ c.sent = b.sent /\ c.sacked = b.sacked \ 1 .. ack
<1>0. /\ b.una \in Nat /\ b.sent \in Nat /\ b.high \in Nat
      /\ b.sacked \in SUBSET SentList(b) /\ b.lost \in SUBSET SentList(b)
      /\ b.retrans \in SUBSET SentList(b) /\ SentList(b) \subseteq Nat
      /\ IsFiniteSet(b.sacked) /\ IsFiniteSet(b.lost) /\ IsFiniteSet(b.retrans)
      /\ b.sackedOut \in Nat /\ b.lostOut \in Nat /\ b.retransOut \in Nat
  BY TxFields
<1>1. CASE ack = b.una
  <2>1. DiscardUpTo(b, ack) = b
    BY <1>0, <1>1 DEF DiscardUpTo
  <2>2. b.sacked \ 1 .. ack = b.sacked
    BY <1>0, <1>1 DEF SentList
  <2>3. QED
    BY <1>1, <2>1, <2>2
<1>2. CASE ack > b.una
  <2>1. PICK c, gone : c = DiscardUpTo(b, ack) /\ gone = b.una + 1 .. ack
    OBVIOUS
  <2>2. /\ Cardinality(b.sacked \cap gone) \in Nat /\ Cardinality(b.lost \cap gone) \in Nat
        /\ Cardinality(b.retrans \cap gone) \in Nat
    BY <1>0, SentFinite
  <2>3. PICK high \in Nat : high = (IF b.high <= ack + 1 THEN 0 ELSE b.high) /\ high <= b.sent
    BY <1>0 DEF TxSound
  <2>4. PICK sk, lt, rt, so, lo, ro :
          /\ sk = b.sacked \ gone /\ so = b.sackedOut - Cardinality(b.sacked \cap gone)
          /\ lt = b.lost \ gone /\ lo = b.lostOut - Cardinality(b.lost \cap gone)
          /\ rt = b.retrans \ gone /\ ro = b.retransOut - Cardinality(b.retrans \cap gone)
    OBVIOUS
  <2>a. /\ sk \in SUBSET Nat /\ lt \in SUBSET Nat /\ rt \in SUBSET Nat
        /\ so \in Int /\ lo \in Int /\ ro \in Int
    BY <1>0, <2>2, <2>4
  <2>b. c = [b EXCEPT !.una = ack, !.sacked = sk, !.sackedOut = so, !.lost = lt, !.lostOut = lo,
                      !.retrans = rt, !.retransOut = ro, !.high = high]
    BY <1>0, <1>2, <2>1, <2>3, <2>4 DEF DiscardUpTo, TxSound, TxBuffers
  <2>5. /\ c \in TxBuffers /\ c.una = ack /\ c.sent = b.sent /\ c.high = high
        /\ c.sacked = b.sacked \ gone /\ c.lost = b.lost \ gone /\ c.retrans = b.retrans \ gone
        /\ c.sackedOut = b.sackedOut - Cardinality(b.sacked \cap gone)
        /\ c.lostOut = b.lostOut - Cardinality(b.lost \cap gone)
        /\ c.retransOut = b.retransOut - Cardinality(b.retrans \cap gone)
    <3>1. /\ c \in TxBuffers /\ c.una = ack /\ c.sent = b.sent /\ c.high = high
          /\ c.sacked = sk /\ c.lost = lt /\ c.retrans = rt
          /\ c.sackedOut = so /\ c.lostOut = lo /\ c.retransOut = ro
      BY <2>a, <2>b DEF TxSound, TxBuffers
    <3>2. QED
      BY <2>4, <3>1
  <2>6. Sums(c)
    BY <1>0, <2>5, FS_Difference, ZenonT(30) DEF Sums, TxSound
  <2>7. SentList(c) = SentList(b) \ gone /\ HeadSeg(c) = ack + 1
    BY <1>0, <1>2, <2>1, <2>5 DEF SentList, HeadSeg
  <2>8. Flags(c)
    BY <2>5, <2>7 DEF Flags, TxSound
  <2>9. b.sacked \ gone = b.sacked \ 1 .. ack
    BY <1>0, <2>1 DEF SentList
  <2>10. TxSound(c)
    BY <2>3, <2>5, <2>6, <2>8 DEF TxSound
  <2>11. QED
    BY <2>1, <2>5, <2>9, <2>10
<1>3. QED
  BY <1>0, <1>1, <1>2

\* What the time-out marks is what is neither SACKed nor marked.
LEMMA SetSentListLostSound ==
  ASSUME NEW b, TxSound(b)
  PROVE  LET c == SetSentListLost(b)
         IN  TxSound(c) /\ c.una = b.una /\ c.sent = b.sent /\ c.sacked = b.sacked
<1>0. /\ b.una \in Nat /\ b.sent \in Nat /\ b.high \in Nat
      /\ b.sacked \in SUBSET SentList(b) /\ b.lost \in SUBSET SentList(b)
      /\ SentList(b) \subseteq Nat
  BY TxFields
<1>1. PICK c, lost : c = SetSentListLost(b) /\ lost = b.lost \cup (SentList(b) \ b.sacked)
  OBVIOUS
<1>2. lost \in SUBSET SentList(b) /\ lost \in SUBSET Nat /\ Cardinality(lost) \in Nat
  BY <1>0, <1>1, SentFinite
<1>3. /\ c \in TxBuffers /\ c.una = b.una /\ c.sent = b.sent /\ c.high = b.high
      /\ c.sacked = b.sacked /\ c.lost = lost /\ c.retrans = {}
      /\ c.sackedOut = b.sackedOut /\ c.lostOut = Cardinality(lost) /\ c.retransOut = 0
  <2>1. PICK n, none, zero : n = Cardinality(lost) /\ none = {} /\ zero = 0
    OBVIOUS
  <2>2. c = [b EXCEPT !.lost = lost, !.lostOut = n, !.retrans = none, !.retransOut = zero]
    BY <1>1, <2>1 DEF SetSentListLost
  <2>3. n \in Int /\ zero \in Int /\ none \in SUBSET Nat /\ lost \in SUBSET Nat /\ b \in TxBuffers
    BY <1>2, <2>1 DEF TxSound
  <2>4. /\ c \in TxBuffers /\ c.una = b.una /\ c.sent = b.sent /\ c.high = b.high
        /\ c.sacked = b.sacked /\ c.lost = lost /\ c.retrans = none
        /\ c.sackedOut = b.sackedOut /\ c.lostOut = n /\ c.retransOut = zero
    BY <2>2, <2>3 DEF TxBuffers
  <2>5. QED
    BY <2>1, <2>4
<1>4. SentList(c) = SentList(b) /\ HeadSeg(c) = HeadSeg(b)
  BY <1>3 DEF SentList, HeadSeg
<1>5. TxSound(c)
  BY <1>1, <1>2, <1>3, <1>4, FS_EmptySet DEF TxSound, Sums, Flags
<1>6. QED
  BY <1>1, <1>3, <1>5

LEMMA MarkHeadAsLostSound ==
  ASSUME NEW b, TxSound(b), b.una < b.sent
  PROVE  LET c == MarkHeadAsLost(b)
         IN  TxSound(c) /\ c.una = b.una /\ c.sent = b.sent /\ c.sacked = b.sacked
<1>0. /\ b.una \in Nat /\ b.sent \in Nat /\ b.high \in Nat
      /\ b.sacked \in SUBSET SentList(b) /\ b.lost \in SUBSET SentList(b)
      /\ b.retrans \in SUBSET SentList(b) /\ SentList(b) \subseteq Nat
      /\ IsFiniteSet(b.sacked) /\ IsFiniteSet(b.lost) /\ IsFiniteSet(b.retrans)
      /\ b.sackedOut \in Nat /\ b.lostOut \in Nat /\ b.retransOut \in Nat
  BY TxFields
<1>1. PICK c, h : c = MarkHeadAsLost(b) /\ h = {HeadSeg(b)} \cap SentList(b)
  OBVIOUS
<1>2. h = {HeadSeg(b)} /\ h \in SUBSET SentList(b) /\ b.sacked \cap h = {} /\ b.sacked \ h = b.sacked
  BY <1>0, <1>1 DEF HeadSeg, SentList, TxSound, Flags
<1>3. /\ Cardinality({}) = 0 /\ Cardinality(b.retrans \cap h) \in Nat
      /\ Cardinality(h \ b.lost) \in Nat /\ IsFiniteSet(h)
  BY <1>0, <1>2, SentFinite, FS_EmptySet
<1>4. /\ c \in TxBuffers /\ c.una = b.una /\ c.sent = b.sent /\ c.high = b.high
      /\ c.sacked = b.sacked /\ c.lost = b.lost \cup h /\ c.retrans = b.retrans \ h
      /\ c.sackedOut = b.sackedOut /\ c.lostOut = b.lostOut + Cardinality(h \ b.lost)
      /\ c.retransOut = b.retransOut - Cardinality(b.retrans \cap h)
  <2>1. PICK lt, rt, so, lo, ro :
          /\ so = b.sackedOut - Cardinality(b.sacked \cap h)
          /\ lt = b.lost \cup h /\ lo = b.lostOut + Cardinality(h \ b.lost)
          /\ rt = b.retrans \ h /\ ro = b.retransOut - Cardinality(b.retrans \cap h)
    OBVIOUS
  <2>2. /\ lt \in SUBSET Nat /\ rt \in SUBSET Nat
        /\ so = b.sackedOut /\ lo \in Int /\ ro \in Int
    <3>1. lt \in SUBSET Nat /\ rt \in SUBSET Nat
      BY <1>0, <1>2, <2>1
    <3>2. so = b.sackedOut
      <4>1. Cardinality(b.sacked \cap h) = 0
        BY <1>2, <1>3
      <4>2. QED
        BY <1>0, <2>1, <4>1
    <3>3. lo \in Int /\ ro \in Int
      BY <1>0, <1>3, <2>1
    <3>4. QED
      BY <3>1, <3>2, <3>3
  <2>3. c = [b EXCEPT !.sacked = b.sacked, !.sackedOut = so, !.retrans = rt, !.retransOut = ro,
                      !.lost = lt, !.lostOut = lo]
    BY <1>1, <1>2, <2>1 DEF MarkHeadAsLost
  <2>4. /\ c \in TxBuffers /\ c.una = b.una /\ c.sent = b.sent /\ c.high = b.high
        /\ c.sacked = b.sacked /\ c.lost = lt /\ c.retrans = rt
        /\ c.sackedOut = so /\ c.lostOut = lo /\ c.retransOut = ro
    BY <2>2, <2>3 DEF TxSound, TxBuffers
  <2>5. QED
    BY <2>1, <2>2, <2>4
<1>5. SentList(c) = SentList(b) /\ HeadSeg(c) = HeadSeg(b)
  BY <1>4 DEF SentList, HeadSeg
<1>6. Sums(c)
  <2>1. Cardinality(b.lost \cup h) = Cardinality(b.lost) + Cardinality(h \ b.lost)
    BY <1>0, <1>3, CountAdded
  <2>2. Cardinality(b.retrans \ h) = Cardinality(b.retrans) - Cardinality(b.retrans \cap h)
    BY <1>0, FS_Difference
  <2>3. QED
    BY <1>4, <2>1, <2>2 DEF Sums, TxSound
<1>7. Flags(c)
  BY <1>2, <1>4, <1>5 DEF Flags, TxSound
<1>8. QED
  BY <1>1, <1>4, <1>6, <1>7 DEF TxSound

\* The highest item stays an item of the sent list.
LEMMA HighestAfterType ==
  ASSUME NEW b, TxSound(b), NEW blocks \in Seq(SackBlocks)
  PROVE  HighestAfter(b, blocks) \in 0 .. b.sent
<1> DEFINE high[k \in 0 .. Len(blocks)] ==
             IF k = 0 THEN b.high ELSE HighestSack(high[k - 1], NewlySacked(b, blocks, k))
<1>0. PICK n, Q : n = Len(blocks) /\ Q = 0 .. b.sent
  OBVIOUS
<1>1. n \in Nat /\ b.high \in Q
  BY <1>0, TxFields DEF TxSound
<1>2. ASSUME NEW k \in 1 .. n, NEW x \in Q
      PROVE  HighestSack(x, NewlySacked(b, blocks, k)) \in Q
  <2>1. PICK new : new = NewlySacked(b, blocks, k)
    OBVIOUS
  <2>2. b.sent \in Nat /\ new \in SUBSET Nat /\ \A y \in new : y <= b.sent
    BY <2>1, TxFields DEF NewlySacked, SentList
  <2>3. CASE new = {}
    BY <2>1, <2>3 DEF HighestSack
  <2>4. CASE new # {}
    <3>1. PICK m : m = Max(new) /\ m \in new
      BY <2>2, <2>4, MaxChosen
    <3>2. Max(new) \in Q
      <4>1. m \in Nat /\ m <= b.sent
        BY <2>2, <3>1
      <4>2. QED
        BY <1>0, <2>2, <3>1, <4>1
    <3>3. QED
      BY <2>1, <3>2 DEF HighestSack
  <2>5. QED
    BY <2>3, <2>4
<1>3. PICK G : G = [k \in 1 .. n |-> [x \in Q |-> HighestSack(x, NewlySacked(b, blocks, k))]]
  OBVIOUS
<1>4. \A k \in 1 .. n : \A x \in Q : G[k][x] \in Q
  BY <1>2, <1>3
<1>5. PICK f : Recursion(f, Q, b.high, n, G)
  BY <1>1, <1>4, RecursionExists
<1>6. ASSUME NEW k \in 1 .. n
      PROVE  f[k] = HighestSack(f[k - 1], NewlySacked(b, blocks, k))
  <2>1. k - 1 \in 0 .. n /\ f[k - 1] \in Q
    BY <1>1, <1>5 DEF Recursion
  <2>2. f[k] = G[k][f[k - 1]]
    BY <1>5 DEF Recursion
  <2>3. QED
    BY <1>3, <2>1, <2>2
<1>7. f = [k \in 0 .. Len(blocks) |->
             IF k = 0 THEN b.high ELSE HighestSack(f[k - 1], NewlySacked(b, blocks, k))]
  <2>1. \A k \in 0 .. n : k # 0 => k \in 1 .. n
    BY <1>1
  <2>2. QED
    BY <1>0, <1>5, <1>6, <2>1 DEF Recursion
<1>8. high = [k \in 0 .. Len(blocks) |->
             IF k = 0 THEN b.high ELSE HighestSack(high[k - 1], NewlySacked(b, blocks, k))]
  BY <1>7
<1> HIDE DEF high
<1>9. high[0] \in Q
  BY <1>0, <1>1, <1>8
<1>10. ASSUME NEW k \in 1 .. n, high[k - 1] \in Q
       PROVE  high[k] \in Q
  <2>1. k \in 0 .. n /\ k # 0
    BY <1>1
  <2>2. high[k] = HighestSack(high[k - 1], NewlySacked(b, blocks, k))
    BY <1>0, <1>8, <2>1
  <2>3. QED
    BY <1>2, <1>10, <2>2
<1>11. \A k \in 0 .. n : high[k] \in Q
  BY <1>1, <1>9, <1>10, RecursionTyped
<1>12. HighestAfter(b, blocks) = high[Len(blocks)]
  BY DEF HighestAfter, high
<1>13. QED
  BY <1>0, <1>1, <1>11, <1>12

\* Marking what has enough SACKed items above it.
LEMMA UpdateLostCountSound ==
  ASSUME NEW b, TxSound(b)
  PROVE  LET c == UpdateLostCount(b)
         IN  TxSound(c) /\ c.una = b.una /\ c.sent = b.sent /\ c.sacked = b.sacked
<1> DEFINE above(seg) == Cardinality({r \in b.sacked : seg <= r /\ r <= b.high})
<1>0. /\ b.una \in Nat /\ b.sent \in Nat /\ b.high \in Nat
      /\ b.sacked \in SUBSET SentList(b) /\ b.lost \in SUBSET SentList(b)
      /\ SentList(b) \subseteq Nat /\ IsFiniteSet(b.lost) /\ b.lostOut \in Nat
  BY TxFields
<1>1. PICK marked, c :
        /\ marked = {seg \in b.una + 2 .. b.high : seg \notin b.sacked /\ above(seg) >= ReTxThresh}
                      \cup (IF above(b.una + 2) >= ReTxThresh THEN {HeadSeg(b)} ELSE {})
        /\ c = UpdateLostCount(b)
  OBVIOUS
<1>2. above(b.una + 2) >= ReTxThresh => b.una < b.sent
  <2> SUFFICES ASSUME ~(b.una < b.sent) PROVE ~(above(b.una + 2) >= ReTxThresh)
    OBVIOUS
  <2>1. SentList(b) = {}
    BY <1>0 DEF SentList
  <2>2. {r \in b.sacked : b.una + 2 <= r /\ r <= b.high} = {}
    BY <1>0, <2>1
  <2>3. above(b.una + 2) = 0
    BY <2>2, FS_EmptySet
  <2> HIDE DEF above
  <2>4. QED
    BY <2>3, TxBufferAssumption
<1>3. marked \in SUBSET (SentList(b) \ b.sacked)
  <2>1. HeadSeg(b) \notin b.sacked /\ (b.una < b.sent => HeadSeg(b) \in SentList(b))
    BY <1>0 DEF TxSound, Flags, HeadSeg, SentList
  <2>2. \A seg \in b.una + 2 .. b.high : seg \in SentList(b)
    BY <1>0 DEF TxSound, SentList
  <2> HIDE DEF above
  <2>3. QED
    BY <1>1, <1>2, <2>1, <2>2
<1>4. IsFiniteSet(marked) /\ Cardinality(marked \ b.lost) \in Nat
  BY <1>0, <1>3, SentFinite
<1>5. PICK lt, lo : lt = b.lost \cup marked /\ lo = b.lostOut + Cardinality(marked \ b.lost)
  OBVIOUS
<1>6. lt \in SUBSET SentList(b) /\ lt \in SUBSET Nat /\ lo \in Int /\ lt \cap b.sacked = {}
  BY <1>0, <1>3, <1>4, <1>5 DEF TxSound, Flags
<1>7. c = [b EXCEPT !.lost = lt, !.lostOut = lo]
  BY <1>1, <1>5 DEF UpdateLostCount
<1>8. /\ c \in TxBuffers /\ c.una = b.una /\ c.sent = b.sent /\ c.high = b.high
      /\ c.sacked = b.sacked /\ c.lost = lt /\ c.retrans = b.retrans
      /\ c.sackedOut = b.sackedOut /\ c.lostOut = lo /\ c.retransOut = b.retransOut
  BY <1>6, <1>7 DEF TxSound, TxBuffers
<1>9. SentList(c) = SentList(b) /\ HeadSeg(c) = HeadSeg(b)
  BY <1>8 DEF SentList, HeadSeg
<1>10. Cardinality(lt) = Cardinality(b.lost) + Cardinality(marked \ b.lost)
  BY <1>0, <1>4, <1>5, CountAdded
<1>11. Sums(c)
  BY <1>5, <1>8, <1>10 DEF Sums, TxSound
<1>12. Flags(c)
  BY <1>6, <1>8, <1>9 DEF Flags, TxSound
<1>13. QED
  BY <1>1, <1>8, <1>11, <1>12 DEF TxSound

\* A SACK option whose blocks do not report the head.
LEMMA UpdateSound ==
  ASSUME NEW b, TxSound(b), NEW blocks \in Seq(SackBlocks),
         \A k \in 1 .. Len(blocks) : ~Covers(blocks[k], HeadSeg(b))
  PROVE  LET c == Update(b, blocks)
         IN  /\ TxSound(c) /\ c.una = b.una /\ c.sent = b.sent /\ b.sacked \subseteq c.sacked
             /\ \A seg \in c.sacked \ b.sacked : \E k \in 1 .. Len(blocks) : Covers(blocks[k], seg)
<1>0. /\ b.una \in Nat /\ b.sent \in Nat /\ b.high \in Nat
      /\ b.sacked \in SUBSET SentList(b) /\ b.lost \in SUBSET SentList(b)
      /\ SentList(b) \subseteq Nat /\ IsFiniteSet(b.lost) /\ IsFiniteSet(b.sacked)
      /\ b.lostOut \in Nat /\ b.sackedOut \in Nat
  BY TxFields
<1>1. PICK got : got = {seg \in SentList(b) \ b.sacked : \E k \in DOMAIN blocks : Covers(blocks[k], seg)}
  OBVIOUS
<1>2. CASE got = {}
  BY <1>1, <1>2 DEF Update
<1>3. CASE got # {}
  <2>1. PICK sk, so, lt, lo, high :
          /\ sk = b.sacked \cup got /\ so = b.sackedOut + Cardinality(got)
          /\ lt = b.lost \ got /\ lo = b.lostOut - Cardinality(b.lost \cap got)
          /\ high = HighestAfter(b, blocks)
    OBVIOUS
  <2>2. PICK d : d = [b EXCEPT !.sacked = sk, !.sackedOut = so, !.lost = lt, !.lostOut = lo, !.high = high]
    OBVIOUS
  <2>3. Update(b, blocks) = UpdateLostCount(d)
    BY <1>1, <1>3, <2>1, <2>2 DEF Update
  <2>4. /\ got \in SUBSET SentList(b) /\ IsFiniteSet(got) /\ Cardinality(got) \in Nat
        /\ Cardinality(b.lost \cap got) \in Nat
    <3>1. got \in SUBSET SentList(b) /\ b.lost \cap got \in SUBSET SentList(b)
      BY <1>1
    <3>2. QED
      BY <1>0, <3>1, SentFinite
  <2>5. /\ sk \in SUBSET SentList(b) /\ lt \in SUBSET SentList(b)
        /\ sk \in SUBSET Nat /\ lt \in SUBSET Nat
    BY <1>0, <2>1, <2>4
  <2>6. so \in Int /\ lo \in Int
    BY <1>0, <2>1, <2>4
  <2>7. high \in Nat /\ high <= b.sent
    BY <1>0, <2>1, HighestAfterType
  <2>8. /\ d \in TxBuffers /\ d.una = b.una /\ d.sent = b.sent /\ d.high = high
        /\ d.sacked = sk /\ d.lost = lt /\ d.retrans = b.retrans
        /\ d.sackedOut = so /\ d.lostOut = lo /\ d.retransOut = b.retransOut
    BY <2>2, <2>5, <2>6, <2>7 DEF TxSound, TxBuffers
  <2>9. Sums(d)
    <3>1. got \ b.sacked = got
      BY <1>1
    <3>2. Cardinality(sk) = Cardinality(b.sacked) + Cardinality(got)
      BY <1>0, <2>1, <2>4, <3>1, CountAdded
    <3>3. Cardinality(lt) = Cardinality(b.lost) - Cardinality(b.lost \cap got)
      BY <1>0, <2>1, FS_Difference
    <3>4. QED
      BY <2>1, <2>8, <3>2, <3>3 DEF Sums, TxSound
  <2>10. Flags(d)
    <3>1. SentList(d) = SentList(b) /\ HeadSeg(d) = HeadSeg(b)
      BY <2>8 DEF SentList, HeadSeg
    <3>2. HeadSeg(b) \notin got
      BY <1>1
    <3>3. HeadSeg(b) \notin sk /\ sk \cap lt = {}
      BY <2>1, <3>2 DEF TxSound, Flags
    <3>4. QED
      BY <2>5, <2>8, <3>1, <3>3 DEF TxSound, Flags
  <2>11. TxSound(d)
    BY <2>7, <2>8, <2>9, <2>10 DEF TxSound
  <2>12. PICK c : c = UpdateLostCount(d)
    OBVIOUS
  <2>13. TxSound(c) /\ c.una = b.una /\ c.sent = b.sent /\ c.sacked = sk
    BY <2>8, <2>11, <2>12, UpdateLostCountSound
  <2>14. \A seg \in sk \ b.sacked : \E k \in 1 .. Len(blocks) : Covers(blocks[k], seg)
    BY <1>1, <2>1
  <2>15. QED
    BY <2>1, <2>3, <2>12, <2>13, <2>14
<1>4. QED
  BY <1>2, <1>3

\* What NextSeg proposes is outstanding, or the next segment.
LEMMA NextSegType ==
  ASSUME NEW b, TxSound(b), NEW isRecovery
  PROVE  LET seg == NextSeg(b, isRecovery)
         IN  seg \in SentList(b) \/ (seg = b.sent + 1 /\ b.sent < MaxSeg) \/ seg = 0
<1>1. PICK fresh : fresh = SentList(b) \ (b.retrans \cup b.sacked)
  OBVIOUS
<1>2. fresh \in SUBSET Nat /\ fresh \in SUBSET SentList(b)
  BY <1>1, TxFields
<1>3. fresh \cap b.lost # {} => Min(fresh \cap b.lost) \in SentList(b)
  <2>1. fresh \cap b.lost \in SUBSET Nat
    BY <1>2
  <2>2. QED
    BY <1>2, <2>1, MinChosen
<1>4. fresh # {} => Min(fresh) \in SentList(b)
  BY <1>2, MinChosen
<1>5. QED
  BY <1>1, <1>3, <1>4 DEF NextSeg

\* One segment goes out, for the first time or again.
LEMMA CopySound ==
  ASSUME NEW b, TxSound(b),
         NEW seg, seg \in SentList(b) \/ (seg = b.sent + 1 /\ b.sent < MaxSeg)
  PROVE  LET c == CopyFromSequence(b, seg)
         IN  /\ TxSound(c) /\ c.una = b.una /\ c.sacked = b.sacked
             /\ c.sent \in Nat /\ b.sent <= c.sent /\ seg \in 1 .. c.sent
<1>0. b.una \in Nat /\ b.sent \in Nat
  BY TxFields
<1>1. CASE seg \in SentList(b)
  <2>1. seg \in Nat /\ seg <= b.sent /\ 1 <= seg
    BY <1>0, <1>1 DEF SentList
  <2>2. CopyFromSequence(b, seg) = GetTransmittedSegment(b, seg)
    BY <1>0, <2>1 DEF CopyFromSequence
  <2>3. QED
    BY <1>0, <1>1, <2>1, <2>2, GetTransmittedSegmentSound
<1>2. CASE seg = b.sent + 1 /\ b.sent < MaxSeg
  <2>1. CopyFromSequence(b, seg) = GetNewSegment(b)
    BY <1>0, <1>2 DEF CopyFromSequence
  <2>2. QED
    BY <1>0, <1>2, <2>1, GetNewSegmentSound
<1>3. QED
  BY <1>1, <1>2
-----------------------------------------------------------------------------
(* The connection *)

Packets == [seg : Nat, rid : Nat, again : BOOLEAN]
PacketSeqs == Seq(Packets)

Senders ==
  [b : TxBuffers, congState : {"OPEN", "DISORDER", "RECOVERY", "LOSS"}, cWnd : Nat, ssThresh : Nat,
   dupAckCount : Nat, recover : Nat, recoverActive : BOOLEAN, dataRetrCount : Int,
   rec_rid_ : Nat, rid : Nat, fc : Int, out : PacketSeqs]

\* The window of sender t.  In CA_LOSS and CA_RECOVERY it, or the threshold that
\* will become it, is large enough to be cut without an increase.
WindowSound(t) ==
  /\ t.cWnd >= SegSize /\ t.fc >= 1
  /\ t.congState = "LOSS" => t.cWnd >= 2 * SegSize
  /\ t.congState = "RECOVERY" => t.ssThresh >= 2 * SegSize

\* The packets to go out are of rounds from r on, in their order.
OutSound(t, r) ==
  /\ \A i \in 1 .. Len(t.out) : /\ t.out[i].rid \in r .. t.rid
                                /\ t.out[i].seg \in 1 .. t.b.sent
  /\ \A i, j \in 1 .. Len(t.out) : i < j => t.out[i].rid <= t.out[j].rid

SenderSound(t, r) ==
  /\ t \in Senders /\ TxSound(t.b) /\ WindowSound(t) /\ OutSound(t, r)
  /\ r <= t.rid /\ t.recover <= t.b.sent

\* The congestion states, also while an acknowledgement is processed; Settled is
\* CongestionStates and the fact that outside recovery the recovery point of the
\* last one is acknowledged.
States(t) ==
  /\ t.congState \in {"OPEN", "LOSS"} => t.dupAckCount = 0
  /\ t.congState = "DISORDER" => t.dupAckCount \in 1 .. ReTxThresh - 1
  /\ t.recoverActive <=> t.congState \in {"RECOVERY", "LOSS"}
  /\ ~t.recoverActive => t.b.una >= t.recover
Settled(t) == States(t) /\ (t.recoverActive => t.b.una < t.recover)

\* Acknowledgements under way: they arrive in the order in which they were sent,
\* report what was received behind a gap, and none reports a segment that it or a
\* later one asks for.  b and x are the two buffers, q the acknowledgements.
Acks == [ack : Nat, sackList : Seq(SackBlocks), recovered : BOOLEAN, rid : Nat]
Misses(a, seg) == \A k \in 1 .. Len(a.sackList) : ~Covers(a.sackList[k], seg)
AckSound(b, x, a) ==
  /\ b.una <= a.ack /\ a.ack <= x.next /\ a.ack + 1 \notin b.sacked
  /\ \A k \in 1 .. Len(a.sackList) :
       Within(a.sackList[k], Received(x)) /\ a.sackList[k].lo > a.ack + 1
AcksSound(b, x, q) ==
  /\ q \in Seq(Acks)
  /\ \A i \in 1 .. Len(q) : AckSound(b, x, q[i])
  /\ \A i, j \in 1 .. Len(q) : i <= j => q[i].ack <= q[j].ack /\ Misses(q[i], q[j].ack + 1)

\* The path: what is under way or can be rebuilt was sent.
PathSound ==
  /\ link \in Seq(Packets) /\ \A i \in 1 .. Len(link) : link[i].seg \in 1 .. snd.b.sent
  /\ erased \subseteq Packets /\ \A p \in erased : p.seg \in 1 .. snd.b.sent

ReceiverSound ==
  RxSound(rx) /\ Received(rx) \subseteq 1 .. snd.b.sent /\ delAck \in Nat

\* The inductive invariant.
TcpInv ==
  /\ SenderSound(snd, 1) /\ snd.out = <<>> /\ Settled(snd)
  /\ sending \in BOOLEAN /\ closed \in BOOLEAN
  /\ ReceiverSound /\ AcksSound(snd.b, rx, acks) /\ PathSound
  /\ ScoreboardTruthful /\ NeverIdleWithData
-----------------------------------------------------------------------------
(* Window arithmetic *)

LEMMA RoundNumbers == \A rid \in Nat : CutRid(rid) \in Nat
<1>1. 2^RidWidth \in Nat \ {0}
  <2>1. CASE RidWidth = 1
    BY <2>1
  <2>2. CASE RidWidth = 2
    BY <2>2
  <2>3. CASE RidWidth = 3
    BY <2>3
  <2>4. CASE RidWidth = 4
    BY <2>4
  <2>5. CASE RidWidth = 5
    BY <2>5
  <2>6. CASE RidWidth = 6
    BY <2>6
  <2>7. CASE RidWidth = 7
    BY <2>7
  <2>8. CASE RidWidth = 8
    BY <2>8
  <2> QED
    BY <2>1, <2>2, <2>3, <2>4, <2>5, <2>6, <2>7, <2>8, CongestionBoundsAssumption
<1>2. PICK m : m = 2^RidWidth
  OBVIOUS
<1>3. \A rid \in Nat : rid % m \in Nat
  BY <1>1, <1>2
<1> QED
  BY <1>2, <1>3, Zenon DEF CutRid

\* A window of a segment or more gives a round of a packet or more.
LEMMA RoundFilled ==
  ASSUME NEW w \in Nat, w >= SegSize
  PROVE  RoundSize(w \div SegSize).fwin \in Nat \ {0}
<1>1. w \div SegSize \in Nat \ {0}
  BY WindowAssumption, Products
<1>2. PICK k : k = w \div SegSize
  OBVIOUS
<1>3. /\ RoundSize(k).nGroups \in 1 .. NGroups
      /\ \E q \in Nat \ {0} : RoundSize(k).fwin = q * RoundSize(k).nGroups
  BY <1>1, <1>2, RoundSizeShape
<1>4. RoundSize(k).fwin \in Nat \ {0}
  BY <1>3, Products, NGroupsAssumption
<1> QED
  BY <1>2, <1>4

LEMMA Threshold ==
  ASSUME NEW n \in Int
  PROVE  GetSsThresh(n) \in Nat /\ GetSsThresh(n) >= 2 * SegSize
<1>1. PICK x, y : x = 2 * SegSize /\ y = (SegSize * n) \div 2
  OBVIOUS
<1>2. x \in Nat /\ y \in Int
  BY <1>1, WindowAssumption
<1>3. Max({x, y}) \in {x, y} /\ Max({x, y}) >= x
  BY <1>2, MaxOfTwo
<1>4. GetSsThresh(n) = Max({x, y})
  BY <1>1 DEF GetSsThresh
<1> QED
  BY <1>1, <1>2, <1>3, <1>4

\* Congestion avoidance takes a window of one segment to at least two.
LEMMA Avoidance ==
  ASSUME NEW w \in Nat, w >= SegSize
  PROVE  LET v == w + Max({1, (SegSize * SegSize) \div w}) IN v \in Nat /\ v >= 2 * SegSize
<1>1. PICK x : x = (SegSize * SegSize) \div w
  OBVIOUS
<1>2. x \in Int
  BY <1>1, WindowAssumption
<1>3. Max({1, x}) \in {1, x} /\ Max({1, x}) >= 1 /\ Max({1, x}) >= x
  BY <1>2, MaxOfTwo
<1>4. CASE w >= 2 * SegSize
  BY <1>1, <1>2, <1>3, <1>4, WindowAssumption
<1>5. CASE w < 2 * SegSize
  <2>1. (2 * SegSize - w) * w <= SegSize * SegSize
    BY <1>5, WindowAssumption, SMTT(30)
  <2>2. \A s \in Nat, d \in Nat : d * w <= s => s \div w >= d
    BY WindowAssumption, SMTT(30)
  <2>3. x >= 2 * SegSize - w
    BY <1>1, <1>5, <2>1, <2>2, WindowAssumption
  <2> QED
    BY <1>1, <1>2, <1>3, <2>3, WindowAssumption
<1> QED
  BY <1>4, <1>5, WindowAssumption

\* The cut of rate control leaves a segment of two.
LEMMA Cut ==
  ASSUME NEW w \in Nat, w >= 2 * SegSize
  PROVE  (w * RateNum) \div RateDen \in Nat /\ (w * RateNum) \div RateDen >= SegSize
<1>1. SegSize * RateDen <= w * RateNum
  BY WindowAssumption, RateAssumption, SMTT(30)
<1>2. w * RateNum \in Nat /\ SegSize * RateDen \in Nat
  BY WindowAssumption, RateAssumption
<1> QED
  BY <1>1, <1>2, WindowAssumption, RateAssumption, SMTT(30)
-----------------------------------------------------------------------------
(* Operators of the sender *)

\* What sending leaves alone: the acknowledged and the SACKed segments, and the
\* state and the window.
Keeps(c, t) ==
  /\ c.b.una = t.b.una /\ c.b.sacked = t.b.sacked /\ t.b.sent <= c.b.sent
  /\ t.rid <= c.rid /\ c.rec_rid_ = t.rec_rid_
Sends(c, t) ==
  /\ Keeps(c, t)
  /\ c.congState = t.congState /\ c.cWnd = t.cWnd /\ c.ssThresh = t.ssThresh
  /\ c.dupAckCount = t.dupAckCount /\ c.recover = t.recover /\ c.recoverActive = t.recoverActive

LEMMA SenderFields ==
  ASSUME NEW t, t \in Senders
  PROVE  /\ t.b \in TxBuffers /\ t.congState \in {"OPEN", "DISORDER", "RECOVERY", "LOSS"}
         /\ t.cWnd \in Nat /\ t.ssThresh \in Nat /\ t.dupAckCount \in Nat /\ t.recover \in Nat
         /\ t.recoverActive \in BOOLEAN /\ t.dataRetrCount \in Int /\ t.rec_rid_ \in Nat
         /\ t.rid \in Nat /\ t.fc \in Int /\ t.out \in PacketSeqs
BY DEF Senders

LEMMA RedundancyControlSound ==
  ASSUME NEW t, t \in Senders, t.cWnd >= SegSize
  PROVE  LET c == RedundancyControl(t)
         IN  /\ c \in Senders /\ c.fc >= 1 /\ Sends(c, t)
             /\ c.b = t.b /\ c.rid = t.rid /\ c.out = t.out
<1>1. PICK c, f : c = RedundancyControl(t) /\ f = RoundSize(t.cWnd \div SegSize).fwin
  OBVIOUS
<1>2. f \in Nat \ {0}
  BY <1>1, RoundFilled, SenderFields
<1>3. c = [t EXCEPT !.fc = f]
  BY <1>1 DEF RedundancyControl
<1>4. c \in Senders
  BY <1>2, <1>3 DEF Senders
<1>5. /\ c.fc = f /\ c.b = t.b /\ c.rid = t.rid /\ c.out = t.out /\ c.congState = t.congState
      /\ c.cWnd = t.cWnd /\ c.ssThresh = t.ssThresh /\ c.dupAckCount = t.dupAckCount
      /\ c.recover = t.recover /\ c.recoverActive = t.recoverActive /\ c.rec_rid_ = t.rec_rid_
  BY <1>3 DEF Senders
<1>6. t.b.sent <= t.b.sent /\ t.rid <= t.rid
  <2>1. t.b.sent \in Nat /\ t.rid \in Nat
    BY SenderFields DEF TxBuffers
  <2> QED
    BY <2>1
<1> QED
  BY <1>1, <1>2, <1>4, <1>5, <1>6 DEF Sends, Keeps

\* What a segment number must be to be sent.
Sendable(b, seg) == seg \in SentList(b) \/ (seg = b.sent + 1 /\ b.sent < MaxSeg)

LEMMA SendDataPacketSound ==
  ASSUME NEW t, NEW r \in Nat, SenderSound(t, r), NEW seg, Sendable(t.b, seg)
  PROVE  LET c == SendDataPacket(t, seg) IN SenderSound(c, r) /\ Sends(c, t)
<1>0. /\ t \in Senders /\ TxSound(t.b) /\ WindowSound(t) /\ OutSound(t, r)
      /\ r <= t.rid /\ t.recover <= t.b.sent
  BY DEF SenderSound
<1>1. /\ t.cWnd \in Nat /\ t.recover \in Nat /\ t.rid \in Nat /\ t.fc \in Int /\ t.fc >= 1
      /\ t.out \in Seq(Packets) /\ t.b.una \in Nat /\ t.b.sent \in Nat
  BY <1>0, SenderFields, TxFields DEF WindowSound, PacketSeqs
<1>2. PICK k : k = CopyFromSequence(t.b, seg)
  OBVIOUS
<1>3. /\ TxSound(k) /\ k.una = t.b.una /\ k.sacked = t.b.sacked
      /\ k.sent \in Nat /\ t.b.sent <= k.sent /\ seg \in 1 .. k.sent
  BY <1>0, <1>2, CopySound DEF Sendable
<1>4. PICK p, out, f :
        /\ p = [seg |-> seg, rid |-> t.rid, again |-> seg <= t.b.sent]
        /\ out = Append(t.out, p) /\ f = t.fc - 1
  OBVIOUS
<1>5. p \in Packets /\ p.rid = t.rid /\ p.seg = seg /\ out \in Seq(Packets) /\ f \in Nat
  BY <1>1, <1>3, <1>4 DEF Packets
<1>6. /\ \A i \in 1 .. Len(out) : out[i].rid \in r .. t.rid /\ out[i].seg \in 1 .. k.sent
      /\ \A i, j \in 1 .. Len(out) : i < j => out[i].rid <= out[j].rid
  <2>1. /\ \A i \in 1 .. Len(t.out) : t.out[i].rid \in r .. t.rid /\ t.out[i].seg \in 1 .. t.b.sent
        /\ \A i, j \in 1 .. Len(t.out) : i < j => t.out[i].rid <= t.out[j].rid
    BY <1>0 DEF OutSound
  <2>2. /\ Len(out) = Len(t.out) + 1 /\ Len(t.out) \in Nat
        /\ \A i \in 1 .. Len(t.out) : out[i] = t.out[i]
        /\ out[Len(t.out) + 1] = p
    BY <1>1, <1>4, <1>5
  <2>3. ASSUME NEW i \in 1 .. Len(out)
        PROVE  out[i].rid \in r .. t.rid /\ out[i].seg \in 1 .. k.sent
    <3>1. CASE i \in 1 .. Len(t.out)
      <4>1. out[i].rid \in r .. t.rid /\ out[i].seg \in 1 .. t.b.sent
        BY <2>1, <2>2, <3>1
      <4> QED
        BY <1>1, <1>3, <4>1, SMTT(30)
    <3>2. CASE i = Len(t.out) + 1
      BY <1>0, <1>1, <1>3, <1>5, <2>2, <3>2, SMTT(30)
    <3> QED
      BY <2>2, <3>1, <3>2
  <2>4. ASSUME NEW i \in 1 .. Len(out), NEW j \in 1 .. Len(out), i < j
        PROVE  out[i].rid <= out[j].rid
    <3>1. i \in 1 .. Len(t.out)
      BY <2>2, <2>4
    <3>2. CASE j \in 1 .. Len(t.out)
      BY <2>1, <2>2, <2>4, <3>1, <3>2
    <3>3. CASE j = Len(t.out) + 1
      BY <1>5, <2>1, <2>2, <2>3, <3>1, <3>3
    <3> QED
      BY <2>2, <3>2, <3>3
  <2> QED
    BY <2>3, <2>4
<1>7. PICK u : u = [t EXCEPT !.b = k, !.fc = f, !.out = out]
  OBVIOUS
<1>8. /\ u \in Senders /\ u.b = k /\ u.fc = f /\ u.out = out /\ u.rid = t.rid
      /\ u.congState = t.congState /\ u.cWnd = t.cWnd /\ u.ssThresh = t.ssThresh
      /\ u.dupAckCount = t.dupAckCount /\ u.recover = t.recover
      /\ u.recoverActive = t.recoverActive /\ u.rec_rid_ = t.rec_rid_
  <2>1. k \in TxBuffers
    BY <1>3 DEF TxSound
  <2>2. u \in Senders
    <3>1. f \in Int /\ out \in PacketSeqs
      BY <1>5 DEF PacketSeqs
    <3> QED
      BY <1>0, <1>7, <2>1, <3>1 DEF Senders
  <2> QED
    BY <1>0, <1>7, <2>2 DEF Senders
<1>9. SendDataPacket(t, seg) =
        IF u.fc = 0 THEN RedundancyControl([u EXCEPT !.rid = @ + 1]) ELSE u
  BY <1>2, <1>4, <1>7 DEF SendDataPacket
<1>10. CASE u.fc # 0
  <2>1. SenderSound(u, r)
    BY <1>0, <1>1, <1>3, <1>5, <1>6, <1>8, <1>10 DEF SenderSound, WindowSound, OutSound
  <2>2. Sends(u, t)
    BY <1>1, <1>3, <1>8 DEF Sends, Keeps
  <2> QED
    BY <1>9, <1>10, <2>1, <2>2
<1>11. CASE u.fc = 0
  <2>1. PICK n, v : n = t.rid + 1 /\ v = [u EXCEPT !.rid = n]
    OBVIOUS
  <2>2. n \in Nat
    BY <1>1, <2>1
  <2>3. v \in Senders
    BY <1>8, <2>1, <2>2 DEF Senders
  <2>4. /\ v.b = k /\ v.out = out /\ v.rid = n
        /\ v.congState = t.congState /\ v.cWnd = t.cWnd /\ v.ssThresh = t.ssThresh
        /\ v.dupAckCount = t.dupAckCount /\ v.recover = t.recover
        /\ v.recoverActive = t.recoverActive /\ v.rec_rid_ = t.rec_rid_
    BY <1>8, <2>1 DEF Senders
  <2>5. PICK c : c = RedundancyControl(v)
    OBVIOUS
  <2>6. /\ c \in Senders /\ c.fc >= 1 /\ Sends(c, v)
        /\ c.b = v.b /\ c.rid = v.rid /\ c.out = v.out
    <3>1. v.cWnd >= SegSize
      BY <1>0, <2>4 DEF WindowSound
    <3> QED
      BY <2>3, <2>5, <3>1, RedundancyControlSound
  <2>7. c = SendDataPacket(t, seg)
    BY <1>8, <1>9, <1>11, <2>1, <2>5
  <2>8. \A x \in r .. t.rid : x \in r .. n
    BY <1>1, <2>1
  <2>9. /\ c.congState = t.congState /\ c.cWnd = t.cWnd /\ c.ssThresh = t.ssThresh
        /\ c.dupAckCount = t.dupAckCount /\ c.recover = t.recover
        /\ c.recoverActive = t.recoverActive /\ c.rec_rid_ = t.rec_rid_
    BY <2>4, <2>6 DEF Sends, Keeps
  <2>10. WindowSound(c)
    BY <1>0, <2>6, <2>9 DEF WindowSound
  <2>11. OutSound(c, r)
    BY <1>6, <2>4, <2>6, <2>8 DEF OutSound
  <2>12. r <= c.rid /\ c.recover <= c.b.sent /\ TxSound(c.b) /\ t.rid <= c.rid
    BY <1>0, <1>1, <1>3, <2>1, <2>4, <2>6, <2>9
  <2>13. Sends(c, t)
    BY <1>3, <2>4, <2>6, <2>9, <2>12 DEF Sends, Keeps
  <2> QED
    BY <2>6, <2>7, <2>10, <2>11, <2>12, <2>13 DEF SenderSound
<1> QED
  BY <1>10, <1>11

LEMMA DoRetransmitSound ==
  ASSUME NEW t, NEW r \in Nat, SenderSound(t, r), t.b.una < t.b.sent
  PROVE  LET c == DoRetransmit(t) IN SenderSound(c, r) /\ Sends(c, t)
<1>1. TxSound(t.b)
  BY DEF SenderSound
<1>2. t.b.una \in Nat /\ t.b.sent \in Nat
  BY <1>1, TxFields
<1>3. PICK next, seg : next = NextSeg(t.b, FALSE) /\ seg = IF next = 0 THEN HeadSeg(t.b) ELSE next
  OBVIOUS
<1>4. next \in SentList(t.b) \/ (next = t.b.sent + 1 /\ t.b.sent < MaxSeg) \/ next = 0
  BY <1>1, <1>3, NextSegType
<1>5. HeadSeg(t.b) \in SentList(t.b)
  BY <1>2 DEF HeadSeg, SentList
<1>6. Sendable(t.b, seg)
  BY <1>3, <1>4, <1>5 DEF Sendable
<1>7. DoRetransmit(t) = SendDataPacket(t, seg)
  BY <1>3 DEF DoRetransmit
<1> QED
  BY <1>6, <1>7, SendDataPacketSound

LEMMA Flight ==
  ASSUME NEW b, TxSound(b)
  PROVE  BytesInFlight(b) \in Int
BY TxFields DEF BytesInFlight

LEMMA EnterRecoverySound ==
  ASSUME NEW t, NEW r \in Nat, SenderSound(t, r), t.b.una < t.b.sent
  PROVE  LET c == EnterRecovery(t)
         IN  /\ SenderSound(c, r) /\ Keeps(c, t) /\ c.congState = "RECOVERY"
             /\ c.recoverActive = TRUE /\ c.b.una < c.recover
<1>0. /\ t \in Senders /\ TxSound(t.b) /\ WindowSound(t) /\ OutSound(t, r)
      /\ r <= t.rid /\ t.recover <= t.b.sent
  BY DEF SenderSound
<1>1. t.rid \in Nat /\ t.b.una \in Nat /\ t.b.sent \in Nat
  BY <1>0, SenderFields, TxFields
<1>2. PICK b : b = IF IsLost(t.b, HeadSeg(t.b)) THEN t.b ELSE MarkHeadAsLost(t.b)
  OBVIOUS
<1>3. TxSound(b) /\ b.una = t.b.una /\ b.sent = t.b.sent /\ b.sacked = t.b.sacked
  BY <1>0, <1>2, MarkHeadAsLostSound
<1>4. PICK w, m, n, rec : w = GetSsThresh(BytesInFlight(b)) /\ m = b.sent /\ n = t.rid + 1 /\ rec = TRUE
  OBVIOUS
<1>5. /\ w \in Nat /\ w >= 2 * SegSize /\ w >= SegSize /\ m = t.b.sent /\ m \in Nat /\ n \in Nat
      /\ rec \in BOOLEAN
  BY <1>1, <1>3, <1>4, Flight, Threshold, WindowAssumption
<1>6. PICK u : u = [t EXCEPT !.b = b, !.recover = m, !.recoverActive = rec, !.congState = "RECOVERY",
                             !.ssThresh = w, !.cWnd = w, !.rid = n]
  OBVIOUS
<1>7. u \in Senders
  <2>1. b \in TxBuffers
    BY <1>3 DEF TxSound
  <2> QED
    BY <1>0, <1>5, <1>6, <2>1 DEF Senders
<1>8. /\ u.b = b /\ u.recover = m /\ u.recoverActive = rec /\ u.congState = "RECOVERY"
      /\ u.ssThresh = w /\ u.cWnd = w /\ u.rid = n /\ u.out = t.out /\ u.rec_rid_ = t.rec_rid_
  BY <1>0, <1>6 DEF Senders
<1>9. PICK v : v = RedundancyControl(u)
  OBVIOUS
<1>10. v \in Senders /\ v.fc >= 1 /\ Sends(v, u) /\ v.b = u.b /\ v.rid = u.rid /\ v.out = u.out
  BY <1>5, <1>7, <1>8, <1>9, RedundancyControlSound
<1>11. /\ v.recover = m /\ v.recoverActive = rec /\ v.congState = "RECOVERY"
       /\ v.ssThresh = w /\ v.cWnd = w /\ v.rec_rid_ = t.rec_rid_ /\ v.out = t.out /\ v.rid = n
  BY <1>8, <1>10 DEF Sends, Keeps
<1>12. SenderSound(v, r)
  <2>1. WindowSound(v)
    BY <1>5, <1>10, <1>11 DEF WindowSound
  <2>2. \A x \in r .. t.rid : x \in r .. n
    BY <1>1, <1>4
  <2>3. v.b.sent = t.b.sent
    BY <1>3, <1>8, <1>10
  <2>4. OutSound(v, r)
    BY <1>0, <1>11, <2>2, <2>3 DEF OutSound
  <2>5. r <= v.rid /\ v.recover <= v.b.sent /\ TxSound(v.b)
    BY <1>0, <1>1, <1>3, <1>4, <1>5, <1>8, <1>10, <1>11
  <2> QED
    BY <1>10, <2>1, <2>4, <2>5 DEF SenderSound
<1>13. PICK c : c = DoRetransmit(v)
  OBVIOUS
<1>14. SenderSound(c, r) /\ Sends(c, v)
  BY <1>3, <1>8, <1>10, <1>12, <1>13, DoRetransmitSound
<1>15. c = EnterRecovery(t)
  <2>1. EnterRecovery(t) = DoRetransmit(RedundancyControl(u))
    BY <1>2, <1>4, <1>6 DEF EnterRecovery
  <2> QED
    BY <1>9, <1>13, <2>1
<1>16. Keeps(c, t)
  <2>1. Keeps(c, v)
    BY <1>14 DEF Sends
  <2>2. c.b.sent \in Nat /\ c.rid \in Nat
    BY <1>14, SenderFields, TxFields DEF SenderSound
  <2> QED
    BY <1>1, <1>3, <1>4, <1>8, <1>10, <1>11, <2>1, <2>2 DEF Keeps
<1>17. c.congState = "RECOVERY" /\ c.recoverActive = TRUE /\ c.b.una < c.recover
  BY <1>3, <1>4, <1>5, <1>8, <1>10, <1>11, <1>14 DEF Sends, Keeps
<1> QED
  BY <1>14, <1>15, <1>16, <1>17

LEMMA AfterTimeoutSound ==
  ASSUME NEW t, NEW r \in Nat, SenderSound(t, r), t.b.una < t.b.sent
  PROVE  LET c == AfterTimeout(t)
         IN  /\ SenderSound(c, r) /\ Keeps(c, t) /\ c.congState = "LOSS" /\ c.out = t.out
             /\ c.recoverActive = TRUE /\ c.b.una < c.recover /\ c.dupAckCount = 0
<1>0. /\ t \in Senders /\ TxSound(t.b) /\ WindowSound(t) /\ OutSound(t, r)
      /\ r <= t.rid /\ t.recover <= t.b.sent
  BY DEF SenderSound
<1>1. /\ t.rid \in Nat /\ t.b.una \in Nat /\ t.b.sent \in Nat /\ t.ssThresh \in Nat
      /\ t.dataRetrCount \in Int
  BY <1>0, SenderFields, TxFields
<1>2. PICK b : b = SetSentListLost(t.b)
  OBVIOUS
<1>3. TxSound(b) /\ b.una = t.b.una /\ b.sent = t.b.sent /\ b.sacked = t.b.sacked
  BY <1>0, <1>2, SetSentListLostSound
<1>4. PICK z, m, rec, d, th, w, n :
        /\ z = 0 /\ m = b.sent /\ rec = TRUE /\ d = t.dataRetrCount - 1
        /\ th = IF t.congState # "LOSS" \/ ~IsHeadRetransmitted(b)
                THEN GetSsThresh(BytesInFlight(t.b)) ELSE t.ssThresh
        /\ w = InitialCwnd * SegSize /\ n = t.rid + 1
  OBVIOUS
<1>5. /\ z \in Nat /\ m \in Nat /\ m = t.b.sent /\ rec \in BOOLEAN /\ d \in Int /\ th \in Nat
      /\ w \in Nat /\ n \in Nat
  <2>1. th \in Nat
    BY <1>0, <1>1, <1>4, Flight, Threshold
  <2> QED
    BY <1>1, <1>3, <1>4, <2>1, WindowAssumption
<1>6. w >= 2 * SegSize /\ w >= SegSize
  <2>1. \A k \in Nat \ {0, 1}, s \in Nat : k * s >= 2 * s
    BY SMTT(30)
  <2> QED
    BY <1>4, <1>5, <2>1, WindowAssumption
<1>7. PICK u : u = [t EXCEPT !.b = b, !.dupAckCount = z, !.recover = m, !.recoverActive = rec,
                             !.dataRetrCount = d, !.ssThresh = th,
                             !.congState = "LOSS", !.cWnd = w, !.rid = n]
  OBVIOUS
<1>8. u \in Senders
  <2>1. b \in TxBuffers
    BY <1>3 DEF TxSound
  <2> QED
    BY <1>0, <1>5, <1>7, <2>1 DEF Senders
<1>9. /\ u.b = b /\ u.recover = m /\ u.recoverActive = rec /\ u.congState = "LOSS"
      /\ u.cWnd = w /\ u.rid = n /\ u.out = t.out /\ u.rec_rid_ = t.rec_rid_ /\ u.dupAckCount = z
  BY <1>0, <1>7 DEF Senders
<1>10. PICK c : c = RedundancyControl(u)
  OBVIOUS
<1>11. c \in Senders /\ c.fc >= 1 /\ Sends(c, u) /\ c.b = u.b /\ c.rid = u.rid /\ c.out = u.out
  BY <1>6, <1>8, <1>9, <1>10, RedundancyControlSound
<1>12. /\ c.recover = m /\ c.recoverActive = rec /\ c.congState = "LOSS" /\ c.dupAckCount = z
       /\ c.cWnd = w /\ c.rec_rid_ = t.rec_rid_ /\ c.out = t.out /\ c.rid = n /\ c.b = b
  BY <1>9, <1>11 DEF Sends, Keeps
<1>13. c = AfterTimeout(t)
  <2>1. AfterTimeout(t) = RedundancyControl(u)
    BY <1>2, <1>4, <1>7 DEF AfterTimeout
  <2> QED
    BY <1>10, <2>1
<1>14. SenderSound(c, r)
  <2>1. WindowSound(c)
    BY <1>6, <1>11, <1>12 DEF WindowSound
  <2>2. \A x \in r .. t.rid : x \in r .. n
    BY <1>1, <1>4
  <2>3. OutSound(c, r)
    BY <1>0, <1>3, <1>12, <2>2 DEF OutSound
  <2>4. r <= c.rid /\ c.recover <= c.b.sent /\ TxSound(c.b)
    BY <1>0, <1>1, <1>3, <1>4, <1>5, <1>12
  <2> QED
    BY <1>11, <2>1, <2>3, <2>4 DEF SenderSound
<1>15. Keeps(c, t)
  BY <1>1, <1>3, <1>4, <1>12 DEF Keeps
<1> QED
  BY <1>1, <1>3, <1>4, <1>5, <1>12, <1>13, <1>14, <1>15

\* A duplicate acknowledgement leaves recovery and loss alone, and otherwise goes
\* to CA_DISORDER or starts a recovery, which the last one does not cover.
LEMMA DupAckSound ==
  ASSUME NEW t, NEW r \in Nat, SenderSound(t, r), States(t), t.b.una < t.b.sent
  PROVE  LET c == DupAck(t)
         IN  /\ SenderSound(c, r) /\ Keeps(c, t) /\ States(c)
             /\ t.congState \in {"LOSS", "RECOVERY"} => c = t
             /\ t.congState \notin {"LOSS", "RECOVERY"} =>
                  /\ c.congState \in {"DISORDER", "RECOVERY"} /\ t.b.una >= t.recover
                  /\ c.congState = "RECOVERY" => c.b.una < c.recover
<1>0. /\ t \in Senders /\ TxSound(t.b) /\ WindowSound(t) /\ OutSound(t, r)
      /\ r <= t.rid /\ t.recover <= t.b.sent
  BY DEF SenderSound
<1>1. /\ t.rid \in Nat /\ t.b.una \in Nat /\ t.b.sent \in Nat /\ t.dupAckCount \in Nat
      /\ t.recover \in Nat /\ t.congState \in {"OPEN", "DISORDER", "RECOVERY", "LOSS"}
      /\ t.recoverActive \in BOOLEAN
  BY <1>0, SenderFields, TxFields
<1>2. CASE t.congState \in {"LOSS", "RECOVERY"}
  <2>1. DupAck(t) = t
    BY <1>2 DEF DupAck
  <2>2. Keeps(t, t)
    BY <1>1 DEF Keeps
  <2> QED
    BY <1>2, <2>1, <2>2
<1>3. CASE t.congState \notin {"LOSS", "RECOVERY"}
  <2>1. PICK k, u : k = t.dupAckCount + 1 /\ u = [t EXCEPT !.dupAckCount = k, !.congState = "DISORDER"]
    OBVIOUS
  <2>2. u \in Senders
    <3>1. k \in Nat
      BY <1>1, <2>1
    <3> QED
      BY <1>0, <2>1, <3>1 DEF Senders
  <2>3. /\ u.b = t.b /\ u.dupAckCount = k /\ u.congState = "DISORDER" /\ u.cWnd = t.cWnd
        /\ u.ssThresh = t.ssThresh /\ u.recover = t.recover /\ u.recoverActive = t.recoverActive
        /\ u.rec_rid_ = t.rec_rid_ /\ u.rid = t.rid /\ u.fc = t.fc /\ u.out = t.out
    BY <1>0, <2>1 DEF Senders
  <2>4. SenderSound(u, r)
    <3>1. WindowSound(u) /\ OutSound(u, r)
      BY <1>0, <2>3 DEF WindowSound, OutSound
    <3> QED
      BY <1>0, <2>2, <2>3, <3>1 DEF SenderSound
  <2>5. Keeps(u, t)
    BY <1>1, <2>3 DEF Keeps
  <2>6. ~t.recoverActive /\ t.b.una >= t.recover /\ t.dupAckCount \in 0 .. ReTxThresh - 1
    BY <1>1, <1>3, TxBufferAssumption DEF States
  <2>7. CASE k = ReTxThresh \/ IsLost(u.b, u.b.una + 2)
    <3>1. DupAck(t) = EnterRecovery(u)
      BY <1>3, <2>1, <2>3, <2>6, <2>7 DEF DupAck
    <3>2. PICK c : c = EnterRecovery(u)
      OBVIOUS
    <3>3. /\ SenderSound(c, r) /\ Keeps(c, u) /\ c.congState = "RECOVERY"
          /\ c.recoverActive = TRUE /\ c.b.una < c.recover
      BY <2>3, <2>4, <3>2, EnterRecoverySound
    <3>4. Keeps(c, t)
      BY <2>3, <3>3 DEF Keeps
    <3>5. States(c)
      BY <3>3 DEF States
    <3> QED
      BY <1>3, <2>6, <3>1, <3>2, <3>3, <3>4, <3>5
  <2>8. CASE ~(k = ReTxThresh \/ IsLost(u.b, u.b.una + 2))
    <3>1. DupAck(t) = u
      BY <1>3, <2>1, <2>3, <2>8 DEF DupAck
    <3>2. k \in 1 .. ReTxThresh - 1
      BY <1>1, <2>1, <2>6, <2>8, TxBufferAssumption
    <3>3. States(u)
      BY <2>3, <2>6, <3>2 DEF States
    <3> QED
      BY <1>3, <2>3, <2>4, <2>5, <2>6, <3>1, <3>3
  <2> QED
    BY <2>7, <2>8
<1> QED
  BY <1>2, <1>3

LEMMA IncreaseWindowSound ==
  ASSUME NEW t, t \in Senders, t.cWnd >= SegSize, NEW n \in Nat, n > 0 \/ t.cWnd >= 2 * SegSize
  PROVE  \E v \in Nat : v >= 2 * SegSize /\ IncreaseWindow(t, n) = [t EXCEPT !.cWnd = v]
<1>1. t.cWnd \in Nat /\ t.ssThresh \in Nat
  BY SenderFields
<1> DEFINE slow == t.cWnd < t.ssThresh /\ n >= 1
<1>3. PICK w, left : /\ w = IF slow THEN t.cWnd + SegSize ELSE t.cWnd
                     /\ left = IF slow THEN n - 1 ELSE n
  OBVIOUS
<1>4. /\ w \in Nat /\ w >= SegSize /\ left \in Nat
      /\ w >= 2 * SegSize \/ (w = t.cWnd /\ left = n /\ (n = 0 \/ t.cWnd >= t.ssThresh))
  <2>1. CASE slow
    BY <1>1, <1>3, <2>1, WindowAssumption
  <2>2. CASE ~slow
    BY <1>1, <1>3, <2>2, WindowAssumption
  <2> QED
    BY <2>1, <2>2
<1>5. PICK v : v = IF w >= t.ssThresh /\ left > 0
                   THEN w + Max({1, (SegSize * SegSize) \div w}) ELSE w
  OBVIOUS
<1>6. IncreaseWindow(t, n) = [t EXCEPT !.cWnd = v]
  BY <1>3, <1>5 DEF IncreaseWindow
<1>7. v \in Nat /\ v >= 2 * SegSize
  <2>1. CASE w >= t.ssThresh /\ left > 0
    BY <1>4, <1>5, <2>1, Avoidance
  <2>2. CASE ~(w >= t.ssThresh /\ left > 0)
    <3>1. v = w
      BY <1>5, <2>2
    <3>2. w >= 2 * SegSize
      BY <1>1, <1>4, <2>2, WindowAssumption
    <3> QED
      BY <1>4, <3>1, <3>2
  <2> QED
    BY <2>1, <2>2
<1> QED
  BY <1>6, <1>7

LEMMA RateControlSound ==
  ASSUME NEW t, t \in Senders, t.cWnd >= SegSize, NEW n \in Nat, n > 0 \/ t.cWnd >= 2 * SegSize
  PROVE  \E v \in Nat : v >= SegSize /\ RateControl(t, n) = [t EXCEPT !.cWnd = v]
<1>1. PICK v \in Nat : v >= 2 * SegSize /\ IncreaseWindow(t, n) = [t EXCEPT !.cWnd = v]
  BY IncreaseWindowSound
<1>2. PICK u, w : u = [t EXCEPT !.cWnd = v] /\ w = (v * RateNum) \div RateDen
  OBVIOUS
<1>3. w \in Nat /\ w >= SegSize
  BY <1>1, <1>2, Cut
<1>4. u.cWnd = v
  BY <1>2 DEF Senders
<1>5. RateControl(t, n) = [u EXCEPT !.cWnd = w]
  BY <1>1, <1>2, <1>4 DEF RateControl
<1>6. [u EXCEPT !.cWnd = w] = [t EXCEPT !.cWnd = w]
  BY <1>2 DEF Senders
<1> QED
  BY <1>3, <1>5, <1>6

LEMMA NewAckSound ==
  ASSUME NEW t, t \in Senders
  PROVE  LET c == NewAck(t)
         IN  /\ c \in Senders /\ c.b = t.b /\ c.congState = t.congState /\ c.cWnd = t.cWnd
             /\ c.ssThresh = t.ssThresh /\ c.dupAckCount = t.dupAckCount /\ c.recover = t.recover
             /\ c.recoverActive = t.recoverActive /\ c.rec_rid_ = t.rec_rid_ /\ c.rid = t.rid
             /\ c.fc = t.fc /\ c.out = t.out
<1>1. DataRetries \in Int
  BY CongestionBoundsAssumption
<1> QED
  BY <1>1 DEF NewAck, Senders

LEMMA PartialAckSound ==
  ASSUME NEW t, NEW r \in Nat, SenderSound(t, r), t.b.una < t.b.sent
  PROVE  LET c == PartialAck(t) IN SenderSound(c, r) /\ Sends(c, t)
<1>1. PICK u : u = IF IsRetransmittedDataAcked(t.b, t.b.una + 1) THEN t ELSE DoRetransmit(t)
  OBVIOUS
<1>2. t.b.una \in Nat /\ t.b.sent \in Nat /\ t.rid \in Nat
  BY SenderFields, TxFields DEF SenderSound
<1>3. SenderSound(u, r) /\ Sends(u, t)
  <2>1. Sends(t, t)
    BY <1>2 DEF Sends, Keeps
  <2> QED
    BY <1>1, <2>1, DoRetransmitSound
<1>4. PICK c : c = NewAck(u)
  OBVIOUS
<1>5. /\ c \in Senders /\ c.b = u.b /\ c.congState = u.congState /\ c.cWnd = u.cWnd
      /\ c.ssThresh = u.ssThresh /\ c.dupAckCount = u.dupAckCount /\ c.recover = u.recover
      /\ c.recoverActive = u.recoverActive /\ c.rec_rid_ = u.rec_rid_ /\ c.rid = u.rid
      /\ c.fc = u.fc /\ c.out = u.out
  BY <1>3, <1>4, NewAckSound DEF SenderSound
<1>6. WindowSound(c) /\ OutSound(c, r)
  BY <1>3, <1>5 DEF SenderSound, WindowSound, OutSound
<1>7. SenderSound(c, r) /\ Sends(c, t)
  BY <1>3, <1>5, <1>6 DEF SenderSound, Sends, Keeps
<1>8. c = PartialAck(t)
  BY <1>1, <1>4 DEF PartialAck
<1> QED
  BY <1>7, <1>8

\* Dup is what is known of the count of duplicates at the last branch.
Dup(t, isDupack) ==
  IF t.congState = "DISORDER" /\ isDupack THEN t.dupAckCount \in 1 .. ReTxThresh - 1
  ELSE t.congState # "RECOVERY" => t.dupAckCount = 0

LEMMA OpenAckSound ==
  ASSUME NEW t, NEW r \in Nat, SenderSound(t, r), NEW n \in Nat \ {0},
         NEW isDupack \in BOOLEAN, NEW rate \in BOOLEAN, Dup(t, isDupack), t.b.una >= t.recover
  PROVE  LET c == OpenAck(t, n, isDupack, rate)
         IN  /\ SenderSound(c, r) /\ Keeps(c, t) /\ Settled(c)
             /\ c.congState \in {"OPEN", "DISORDER"}
<1>0. /\ t \in Senders /\ TxSound(t.b) /\ WindowSound(t) /\ OutSound(t, r)
      /\ r <= t.rid /\ t.recover <= t.b.sent
  BY DEF SenderSound
<1>1. /\ t.rid \in Nat /\ t.b.una \in Nat /\ t.b.sent \in Nat /\ t.dupAckCount \in Nat
      /\ t.recover \in Nat /\ t.congState \in {"OPEN", "DISORDER", "RECOVERY", "LOSS"}
      /\ t.recoverActive \in BOOLEAN /\ t.cWnd \in Nat /\ t.ssThresh \in Nat
  BY <1>0, SenderFields, TxFields
<1>2. PICK no, u : no = FALSE /\ u = [t EXCEPT !.recoverActive = no]
  OBVIOUS
<1>3. u \in Senders
  BY <1>0, <1>2 DEF Senders
<1>4. /\ u.b = t.b /\ u.dupAckCount = t.dupAckCount /\ u.congState = t.congState /\ u.cWnd = t.cWnd
      /\ u.ssThresh = t.ssThresh /\ u.recover = t.recover /\ u.recoverActive = FALSE
      /\ u.rec_rid_ = t.rec_rid_ /\ u.rid = t.rid /\ u.fc = t.fc /\ u.out = t.out
  BY <1>0, <1>2 DEF Senders
<1>5. u = [t EXCEPT !.recoverActive = IF t.b.una >= t.recover THEN FALSE ELSE @]
  BY <1>2
<1>6. CASE t.congState = "DISORDER" /\ isDupack
  <2>1. OpenAck(t, n, isDupack, rate) = u
    BY <1>5, <1>6 DEF OpenAck
  <2>2. SenderSound(u, r)
    <3>1. WindowSound(u) /\ OutSound(u, r)
      BY <1>0, <1>4 DEF WindowSound, OutSound
    <3> QED
      BY <1>0, <1>3, <1>4, <3>1 DEF SenderSound
  <2>3. Keeps(u, t)
    BY <1>1, <1>4 DEF Keeps
  <2>4. Settled(u)
    BY <1>4, <1>6 DEF Settled, States, Dup
  <2> QED
    BY <1>4, <1>6, <2>1, <2>2, <2>3, <2>4
<1>7. CASE ~(t.congState = "DISORDER" /\ isDupack)
  <2>1. PICK w, m : /\ w = IF t.congState = "RECOVERY" THEN LeaveRecovery(u)
                           ELSE [u EXCEPT !.congState = "OPEN"]
                    /\ m = IF t.congState = "LOSS" THEN t.b.una - t.recover ELSE n
    OBVIOUS
  <2>2. /\ w \in Senders /\ w.b = t.b /\ w.congState = "OPEN" /\ w.dupAckCount = 0
        /\ w.recover = t.recover /\ w.recoverActive = FALSE /\ w.rec_rid_ = t.rec_rid_
        /\ w.rid = t.rid /\ w.fc = t.fc /\ w.out = t.out
        /\ w.cWnd = IF t.congState = "RECOVERY" THEN t.ssThresh ELSE t.cWnd
    <3>1. CASE t.congState = "RECOVERY"
      <4>1. PICK z, th : z = 0 /\ th = u.ssThresh
        OBVIOUS
      <4>2. z \in Nat /\ th \in Nat /\ th = t.ssThresh
        BY <1>1, <1>4, <4>1
      <4>3. w = [u EXCEPT !.congState = "OPEN", !.dupAckCount = z, !.cWnd = th]
        BY <2>1, <3>1, <4>1 DEF LeaveRecovery
      <4>4. w \in Senders
        BY <1>3, <4>2, <4>3 DEF Senders
      <4>5. /\ w.b = u.b /\ w.congState = "OPEN" /\ w.dupAckCount = z
            /\ w.recover = u.recover /\ w.recoverActive = u.recoverActive /\ w.rec_rid_ = u.rec_rid_
            /\ w.rid = u.rid /\ w.fc = u.fc /\ w.out = u.out /\ w.cWnd = th
        BY <1>3, <4>3 DEF Senders
      <4> QED
        BY <1>4, <3>1, <4>1, <4>2, <4>4, <4>5
    <3>2. CASE t.congState # "RECOVERY"
      <4>1. w = [u EXCEPT !.congState = "OPEN"]
        BY <2>1, <3>2
      <4>2. w \in Senders
        BY <1>3, <4>1 DEF Senders
      <4>3. /\ w.b = u.b /\ w.congState = "OPEN" /\ w.dupAckCount = u.dupAckCount
            /\ w.recover = u.recover /\ w.recoverActive = u.recoverActive /\ w.rec_rid_ = u.rec_rid_
            /\ w.rid = u.rid /\ w.fc = u.fc /\ w.out = u.out /\ w.cWnd = u.cWnd
        BY <1>3, <4>1 DEF Senders
      <4>4. t.dupAckCount = 0
        BY <1>7, <3>2 DEF Dup
      <4> QED
        BY <1>4, <3>2, <4>2, <4>3, <4>4
    <3> QED
      BY <3>1, <3>2
  <2>3. w.cWnd >= SegSize /\ m \in Nat /\ (m > 0 \/ w.cWnd >= 2 * SegSize)
    <3>1. CASE t.congState = "RECOVERY"
      BY <1>0, <1>1, <2>1, <2>2, <3>1, WindowAssumption DEF WindowSound
    <3>2. CASE t.congState = "LOSS"
      BY <1>0, <1>1, <2>1, <2>2, <3>2, WindowAssumption DEF WindowSound
    <3>3. CASE t.congState \notin {"RECOVERY", "LOSS"}
      BY <1>0, <1>1, <2>1, <2>2, <3>3, WindowAssumption DEF WindowSound
    <3> QED
      BY <3>1, <3>2, <3>3
  <2>4. PICK x : x = IF rate THEN RateControl(w, m) ELSE IncreaseWindow(w, m)
    OBVIOUS
  <2>5. PICK v \in Nat : v >= SegSize /\ x = [w EXCEPT !.cWnd = v]
    <3>1. CASE rate
      BY <2>2, <2>3, <2>4, <3>1, RateControlSound
    <3>2. CASE ~rate
      <4>1. PICK v \in Nat : v >= 2 * SegSize /\ x = [w EXCEPT !.cWnd = v]
        BY <2>2, <2>3, <2>4, <3>2, IncreaseWindowSound
      <4>2. v >= SegSize
        BY <4>1, WindowAssumption
      <4> QED
        BY <4>1, <4>2
    <3> QED
      BY <3>1, <3>2
  <2>6. x \in Senders
    BY <2>2, <2>5 DEF Senders
  <2>7. /\ x.b = w.b /\ x.congState = w.congState /\ x.dupAckCount = w.dupAckCount
        /\ x.recover = w.recover /\ x.recoverActive = w.recoverActive /\ x.rec_rid_ = w.rec_rid_
        /\ x.rid = w.rid /\ x.fc = w.fc /\ x.out = w.out /\ x.cWnd = v
    BY <2>2, <2>5 DEF Senders
  <2>8. PICK c : c = NewAck(x)
    OBVIOUS
  <2>9. /\ c \in Senders /\ c.b = t.b /\ c.congState = "OPEN" /\ c.cWnd = v
        /\ c.dupAckCount = 0 /\ c.recover = t.recover
        /\ c.recoverActive = FALSE /\ c.rec_rid_ = t.rec_rid_ /\ c.rid = t.rid
        /\ c.fc = t.fc /\ c.out = t.out
    BY <2>2, <2>6, <2>7, <2>8, NewAckSound
  <2>10. c = OpenAck(t, n, isDupack, rate)
    BY <1>5, <1>7, <2>1, <2>4, <2>8 DEF OpenAck
  <2>11. SenderSound(c, r)
    <3>1. WindowSound(c) /\ OutSound(c, r)
      BY <1>0, <2>5, <2>9 DEF WindowSound, OutSound
    <3> QED
      BY <1>0, <2>9, <3>1 DEF SenderSound
  <2>12. Keeps(c, t)
    BY <1>1, <2>9 DEF Keeps
  <2>13. Settled(c)
    BY <2>9 DEF Settled, States
  <2> QED
    BY <2>9, <2>10, <2>11, <2>12, <2>13
<1> QED
  BY <1>6, <1>7

\* The whole of ProcessAck and ProcessAckofRecoveredPacket.
LEMMA ProcessAckSound ==
  ASSUME NEW t, NEW r \in Nat, SenderSound(t, r), States(t), NEW n \in Nat,
         NEW isDupack \in BOOLEAN, NEW rate \in BOOLEAN,
         isDupack => t.b.una < t.b.sent, n = 0 => Settled(t)
  PROVE  LET c == ProcessAck(t, n, isDupack, rate)
         IN  /\ SenderSound(c, r) /\ Keeps(c, t) /\ Settled(c)
             /\ t.congState # "RECOVERY" /\ c.congState = "RECOVERY" => t.b.una >= t.recover
<1>0. /\ t \in Senders /\ TxSound(t.b) /\ WindowSound(t) /\ OutSound(t, r)
      /\ r <= t.rid /\ t.recover <= t.b.sent
  BY DEF SenderSound
<1>1. /\ t.rid \in Nat /\ t.b.una \in Nat /\ t.b.sent \in Nat /\ t.dupAckCount \in Nat
      /\ t.recover \in Nat /\ t.congState \in {"OPEN", "DISORDER", "RECOVERY", "LOSS"}
      /\ t.recoverActive \in BOOLEAN /\ t.cWnd \in Nat /\ t.ssThresh \in Nat
  BY <1>0, SenderFields, TxFields
<1>2. PICK u : u = IF isDupack THEN DupAck(t)
                   ELSE [t EXCEPT !.dupAckCount = IF n > 0 THEN 0 ELSE @]
  OBVIOUS
<1>3. /\ SenderSound(u, r) /\ Keeps(u, t)
      /\ u.recoverActive <=> u.congState \in {"RECOVERY", "LOSS"}
      /\ ~u.recoverActive => u.b.una >= u.recover
      /\ t.congState # "RECOVERY" /\ u.congState = "RECOVERY" => t.b.una >= t.recover
      /\ n = 0 => Settled(u)
      /\ n > 0 => Dup(u, isDupack)
  <2>1. CASE isDupack
    <3>1. /\ SenderSound(u, r) /\ Keeps(u, t) /\ States(u)
          /\ t.congState \in {"LOSS", "RECOVERY"} => u = t
          /\ t.congState \notin {"LOSS", "RECOVERY"} =>
               /\ u.congState \in {"DISORDER", "RECOVERY"} /\ t.b.una >= t.recover
               /\ u.congState = "RECOVERY" => u.b.una < u.recover
      BY <1>2, <2>1, DupAckSound
    <3>2. n = 0 => Settled(u)
      BY <1>1, <3>1 DEF Settled, States
    <3>3. Dup(u, isDupack)
      BY <1>1, <2>1, <3>1 DEF Dup, States
    <3> QED
      BY <1>1, <3>1, <3>2, <3>3 DEF States
  <2>2. CASE ~isDupack
    <3>1. PICK d : d = IF n > 0 THEN 0 ELSE t.dupAckCount
      OBVIOUS
    <3>2. d \in Nat /\ u = [t EXCEPT !.dupAckCount = d]
      BY <1>1, <1>2, <2>2, <3>1
    <3>3. u \in Senders
      BY <1>0, <3>2 DEF Senders
    <3>4. /\ u.b = t.b /\ u.dupAckCount = d /\ u.congState = t.congState /\ u.cWnd = t.cWnd
          /\ u.ssThresh = t.ssThresh /\ u.recover = t.recover /\ u.recoverActive = t.recoverActive
          /\ u.rec_rid_ = t.rec_rid_ /\ u.rid = t.rid /\ u.fc = t.fc /\ u.out = t.out
      BY <1>0, <3>2 DEF Senders
    <3>5. SenderSound(u, r)
      <4>1. WindowSound(u) /\ OutSound(u, r)
        BY <1>0, <3>4 DEF WindowSound, OutSound
      <4> QED
        BY <1>0, <3>3, <3>4, <4>1 DEF SenderSound
    <3>6. Keeps(u, t)
      BY <1>1, <3>4 DEF Keeps
    <3>7. n = 0 => Settled(u)
      BY <3>1, <3>4 DEF Settled, States
    <3>8. n > 0 => Dup(u, isDupack)
      BY <2>2, <3>1, <3>4 DEF Dup
    <3> QED
      BY <3>4, <3>5, <3>6, <3>7, <3>8 DEF States
  <2> QED
    BY <2>1, <2>2
<1>4. /\ u \in Senders /\ u.b.una \in Nat /\ u.b.sent \in Nat /\ u.recover \in Nat
      /\ u.recover <= u.b.sent /\ u.rid \in Nat /\ u.recoverActive \in BOOLEAN
      /\ TxSound(u.b) /\ WindowSound(u) /\ OutSound(u, r) /\ r <= u.rid
  BY <1>3, SenderFields, TxFields DEF SenderSound
<1>5. PICK c : c = ProcessAck(t, n, isDupack, rate)
  OBVIOUS
<1>6. c = IF n = 0 THEN u
          ELSE IF Below(u, "RECOVERY") THEN PartialAck(u)
          ELSE IF Below(u, "LOSS") THEN NewAck(IncreaseWindow(u, n))
          ELSE OpenAck(u, n, isDupack, rate)
  BY <1>2, <1>5 DEF ProcessAck
<1> DEFINE Goal == /\ SenderSound(c, r) /\ Keeps(c, t) /\ Settled(c)
                   /\ t.congState # "RECOVERY" /\ c.congState = "RECOVERY" => t.b.una >= t.recover
<1> SUFFICES Goal
  BY <1>5
<1>7. CASE n = 0
  BY <1>3, <1>6, <1>7
<1>8. CASE n > 0 /\ Below(u, "RECOVERY")
  <2>1. c = PartialAck(u) /\ u.congState = "RECOVERY" /\ u.b.una < u.recover
    BY <1>6, <1>8 DEF Below
  <2>2. u.b.una < u.b.sent
    BY <1>4, <2>1
  <2>3. SenderSound(c, r) /\ Sends(c, u)
    BY <1>3, <2>1, <2>2, PartialAckSound
  <2>4. Keeps(c, t)
    <3>1. c.b.sent \in Nat /\ c.rid \in Nat
      BY <2>3, SenderFields, TxFields DEF SenderSound
    <3> QED
      BY <1>1, <1>3, <1>4, <2>3, <3>1 DEF Sends, Keeps
  <2>5. Settled(c)
    BY <1>3, <2>1, <2>3 DEF Settled, States, Sends, Keeps
  <2> QED
    BY <1>3, <2>1, <2>3, <2>4, <2>5
<1>9. CASE n > 0 /\ Below(u, "LOSS") /\ ~Below(u, "RECOVERY")
  <2>1. c = NewAck(IncreaseWindow(u, n)) /\ u.congState = "LOSS" /\ u.b.una < u.recover
    BY <1>6, <1>9 DEF Below
  <2>2. PICK v \in Nat : v >= 2 * SegSize /\ IncreaseWindow(u, n) = [u EXCEPT !.cWnd = v]
    BY <1>4, <1>9, IncreaseWindowSound DEF WindowSound
  <2>3. PICK x : x = [u EXCEPT !.cWnd = v]
    OBVIOUS
  <2>4. x \in Senders
    BY <1>4, <2>2, <2>3 DEF Senders
  <2>5. /\ x.b = u.b /\ x.congState = u.congState /\ x.dupAckCount = u.dupAckCount
        /\ x.recover = u.recover /\ x.recoverActive = u.recoverActive /\ x.rec_rid_ = u.rec_rid_
        /\ x.rid = u.rid /\ x.fc = u.fc /\ x.out = u.out /\ x.cWnd = v
    BY <1>4, <2>3 DEF Senders
  <2>6. /\ c \in Senders /\ c.b = u.b /\ c.congState = "LOSS" /\ c.cWnd = v
        /\ c.dupAckCount = u.dupAckCount /\ c.recover = u.recover
        /\ c.recoverActive = u.recoverActive /\ c.rec_rid_ = u.rec_rid_ /\ c.rid = u.rid
        /\ c.fc = u.fc /\ c.out = u.out
    <3>1. c = NewAck(x)
      BY <2>1, <2>2, <2>3
    <3> QED
      BY <2>1, <2>4, <2>5, <3>1, NewAckSound
  <2>7. v >= SegSize
    BY <2>2, WindowAssumption
  <2>8. WindowSound(c) /\ OutSound(c, r)
    BY <1>4, <2>2, <2>6, <2>7 DEF WindowSound, OutSound
  <2>9. SenderSound(c, r)
    BY <1>4, <2>6, <2>8 DEF SenderSound
  <2>10. Keeps(c, t)
    BY <1>3, <2>6 DEF Keeps
  <2>11. Settled(c)
    BY <1>3, <1>9, <2>1, <2>6 DEF Settled, States, Dup
  <2> QED
    BY <2>6, <2>9, <2>10, <2>11
<1>10. CASE n > 0 /\ ~Below(u, "LOSS") /\ ~Below(u, "RECOVERY")
  <2>1. c = OpenAck(u, n, isDupack, rate) /\ n \in Nat \ {0}
    BY <1>6, <1>10
  <2>2. u.b.una >= u.recover
    BY <1>3, <1>4, <1>10 DEF Below
  <2>3. Dup(u, isDupack)
    BY <1>3, <1>10
  <2>4. /\ SenderSound(c, r) /\ Keeps(c, u) /\ Settled(c)
        /\ c.congState \in {"OPEN", "DISORDER"}
    BY <1>3, <2>1, <2>2, <2>3, OpenAckSound
  <2>5. Keeps(c, t)
    <3>1. c.b.sent \in Nat /\ c.rid \in Nat
      BY <2>4, SenderFields, TxFields DEF SenderSound
    <3> QED
      BY <1>1, <1>3, <1>4, <2>4, <3>1 DEF Keeps
  <2> QED
    BY <2>4, <2>5
<1> QED
  BY <1>7, <1>8, <1>9, <1>10
-----------------------------------------------------------------------------
(* Acknowledgements *)

LEMMA AckFields ==
  ASSUME NEW a \in Acks
  PROVE  /\ a.ack \in Nat /\ a.sackList \in Seq(SackBlocks) /\ a.recovered \in BOOLEAN
         /\ a.rid \in Nat /\ Len(a.sackList) \in Nat
         /\ \A k \in 1 .. Len(a.sackList) : a.sackList[k].lo \in Nat /\ a.sackList[k].hi \in Nat
<1>1. a.ack \in Nat /\ a.sackList \in Seq(SackBlocks) /\ a.recovered \in BOOLEAN /\ a.rid \in Nat
  BY DEF Acks
<1>2. Len(a.sackList) \in Nat /\ \A k \in 1 .. Len(a.sackList) : a.sackList[k] \in SackBlocks
  BY <1>1
<1> QED
  BY <1>1, <1>2 DEF SackBlocks

\* Nothing reports the segment that the receiver asks for.
LEMMA NextMissed ==
  ASSUME NEW y, RxSound(y), NEW a \in Acks,
         \A k \in 1 .. Len(a.sackList) : Within(a.sackList[k], Received(y))
  PROVE  Misses(a, y.next + 1)
<1>1. y.next \in Nat /\ y.next + 1 \notin Received(y)
  BY DEF RxSound, Received
<1>2. ASSUME NEW k \in 1 .. Len(a.sackList), Covers(a.sackList[k], y.next + 1)
      PROVE  FALSE
  <2>1. a.sackList[k].lo \in Nat /\ a.sackList[k].hi \in Nat
    BY AckFields
  <2>2. y.next + 1 \in a.sackList[k].lo .. a.sackList[k].hi
    BY <1>1, <1>2, <2>1 DEF Covers
  <2> QED
    BY <1>1, <2>2 DEF Within
<1> QED
  BY <1>2 DEF Misses

\* The receiver has received more since.
LEMMA AcksKept ==
  ASSUME NEW b, NEW x, NEW y, NEW q, AcksSound(b, x, q), RxSound(x), RxSound(y),
         Received(x) \subseteq Received(y), x.next <= y.next
  PROVE  AcksSound(b, y, q)
<1>1. x.next \in Nat /\ y.next \in Nat
  BY DEF RxSound
<1>2. ASSUME NEW i \in 1 .. Len(q) PROVE AckSound(b, y, q[i])
  <2>1. AckSound(b, x, q[i]) /\ q[i].ack \in Nat
    BY AckFields DEF AcksSound
  <2>2. q[i].ack <= y.next
    BY <1>1, <2>1 DEF AckSound
  <2> QED
    BY <2>1, <2>2 DEF AckSound, Within
<1> QED
  BY <1>2 DEF AcksSound

\* The receiver acknowledges.
LEMMA AcksAppended ==
  ASSUME NEW b, NEW x, NEW y, NEW q, AcksSound(b, x, q), RxSound(x), RxSound(y),
         Received(x) \subseteq Received(y), x.next <= y.next,
         b.una \in Nat, b.una <= y.next, b.sacked \subseteq Received(y),
         NEW a \in Acks, a.ack = y.next, a.sackList = y.sackList
  PROVE  AcksSound(b, y, Append(q, a))
<1>1. AcksSound(b, y, q)
  BY AcksKept
<1>2. /\ y.next \in Nat /\ y.next + 1 \notin Received(y) /\ \A s \in y.ooo : s > y.next + 1
      /\ \A i \in 1 .. Len(y.sackList) : Within(y.sackList[i], y.ooo)
  BY DEF RxSound, Received
<1>3. ASSUME NEW k \in 1 .. Len(a.sackList)
      PROVE  Within(a.sackList[k], Received(y)) /\ a.sackList[k].lo > a.ack + 1
  <2>1. /\ a.sackList[k].lo \in Nat /\ a.sackList[k].hi \in Nat
        /\ Within(a.sackList[k], y.ooo)
    BY <1>2, AckFields
  <2>2. a.sackList[k].lo \in y.ooo
    BY <2>1 DEF Within
  <2> QED
    BY <1>2, <2>1, <2>2 DEF Within, Received
<1>4. AckSound(b, y, a)
  BY <1>2, <1>3 DEF AckSound
<1>5. PICK p : p = Append(q, a)
  OBVIOUS
<1>6. /\ p \in Seq(Acks) /\ Len(p) = Len(q) + 1 /\ Len(q) \in Nat /\ p[Len(q) + 1] = a
      /\ \A i \in 1 .. Len(q) : p[i] = q[i]
  BY <1>5 DEF AcksSound
<1>7. \A i \in 1 .. Len(p) : /\ AckSound(b, y, p[i]) /\ p[i] \in Acks /\ Misses(p[i], y.next + 1)
                             /\ p[i].ack <= y.next
  <2>1. \A i \in 1 .. Len(p) : AckSound(b, y, p[i]) /\ p[i] \in Acks
    BY <1>1, <1>4, <1>6 DEF AcksSound
  <2>2. ASSUME NEW i \in 1 .. Len(p) PROVE Misses(p[i], y.next + 1)
    BY <2>1, NextMissed DEF AckSound
  <2> QED
    BY <2>1, <2>2 DEF AckSound
<1>8. ASSUME NEW i \in 1 .. Len(p), NEW j \in 1 .. Len(p), i <= j
      PROVE  p[i].ack <= p[j].ack /\ Misses(p[i], p[j].ack + 1)
  <2>1. CASE j = Len(q) + 1
    BY <1>6, <1>7, <2>1
  <2>2. CASE j \in 1 .. Len(q)
    <3>1. i \in 1 .. Len(q)
      BY <1>6, <1>8, <2>2
    <3> QED
      BY <1>1, <1>6, <1>8, <2>2, <3>1 DEF AcksSound
  <2> QED
    BY <1>6, <2>1, <2>2
<1> QED
  BY <1>5, <1>6, <1>7, <1>8 DEF AcksSound

\* The sender takes the first acknowledgement, or the path loses it.
LEMMA AcksTaken ==
  ASSUME NEW b, NEW x, NEW q, AcksSound(b, x, q), q # <<>>, NEW c,
         c.una = b.una \/ c.una = Head(q).ack,
         \A s \in c.sacked : s \in b.sacked \/ ~Misses(Head(q), s)
  PROVE  AcksSound(c, x, Tail(q))
<1>1. q \in Seq(Acks) /\ Len(q) \in Nat /\ Len(q) >= 1 /\ Head(q) = q[1]
  BY DEF AcksSound
<1>2. PICK p : p = Tail(q)
  OBVIOUS
<1>3. /\ p \in Seq(Acks) /\ Len(p) = Len(q) - 1
      /\ \A i \in 1 .. Len(p) : p[i] = q[i + 1] /\ i + 1 \in 1 .. Len(q)
  BY <1>1, <1>2
<1>4. ASSUME NEW i \in 1 .. Len(p) PROVE AckSound(c, x, p[i])
  <2>1. /\ AckSound(b, x, q[i + 1]) /\ q[1].ack <= q[i + 1].ack /\ Misses(q[1], q[i + 1].ack + 1)
    BY <1>1, <1>3 DEF AcksSound
  <2>2. c.una <= q[i + 1].ack
    BY <1>1, <2>1 DEF AckSound
  <2>3. q[i + 1].ack + 1 \notin c.sacked
    BY <1>1, <2>1 DEF AckSound
  <2> QED
    BY <1>3, <2>1, <2>2, <2>3 DEF AckSound
<1>5. ASSUME NEW i \in 1 .. Len(p), NEW j \in 1 .. Len(p), i <= j
      PROVE  p[i].ack <= p[j].ack /\ Misses(p[i], p[j].ack + 1)
  <2>1. i + 1 <= j + 1 /\ i + 1 \in 1 .. Len(q) /\ j + 1 \in 1 .. Len(q)
    BY <1>1, <1>3, <1>5
  <2>2. q[i + 1].ack <= q[j + 1].ack /\ Misses(q[i + 1], q[j + 1].ack + 1)
    BY <2>1 DEF AcksSound
  <2> QED
    BY <1>3, <2>2
<1> QED
  BY <1>2, <1>3, <1>4, <1>5 DEF AcksSound
-----------------------------------------------------------------------------
(* The inductive invariant *)

LEMMA TcpFacts ==
  ASSUME TcpInv
  PROVE  /\ snd \in Senders /\ TxSound(snd.b) /\ WindowSound(snd) /\ SenderSound(snd, snd.rid)
         /\ snd.rid \in Nat /\ 1 <= snd.rid /\ snd.b.una \in Nat /\ snd.b.sent \in Nat
         /\ snd.b.sent <= MaxSeg /\ snd.recover \in Nat /\ snd.recover <= snd.b.sent
         /\ snd.out = <<>> /\ Settled(snd) /\ snd.b.una <= snd.b.sent
         /\ RxSound(rx) /\ rx.next \in Nat /\ snd.b.una <= rx.next /\ snd.b.sacked \subseteq Received(rx)
<1>1. /\ snd \in Senders /\ TxSound(snd.b) /\ WindowSound(snd) /\ 1 <= snd.rid
      /\ snd.recover <= snd.b.sent /\ snd.out = <<>> /\ Settled(snd) /\ RxSound(rx)
  BY DEF TcpInv, SenderSound, ReceiverSound
<1>2. /\ snd.rid \in Nat /\ snd.b.una \in Nat /\ snd.b.sent \in Nat /\ snd.recover \in Nat
      /\ snd.b.sent <= MaxSeg /\ snd.b.una <= snd.b.sent
  BY <1>1, SenderFields, TxFields DEF TxSound
<1>3. OutSound(snd, snd.rid)
  BY <1>1 DEF OutSound
<1>4. rx.next \in Nat /\ snd.b.una <= rx.next /\ snd.b.sacked \subseteq Received(rx)
  BY <1>1 DEF TcpInv, ScoreboardTruthful, Received, RxSound
<1> QED
  BY <1>1, <1>2, <1>3, <1>4 DEF SenderSound

\* What an operator of the sender has collected goes to the path.
LEMMA BecomesSound ==
  ASSUME TcpInv, NEW t, SenderSound(t, snd.rid), snd.b.sent <= t.b.sent,
         Becomes(t), erased' = erased
  PROVE  /\ SenderSound(snd', 1) /\ snd'.out = <<>> /\ snd'.b = t.b /\ snd'.rid = t.rid
         /\ snd'.congState = t.congState /\ snd'.recover = t.recover /\ snd'.rec_rid_ = t.rec_rid_
         /\ Settled(t) => Settled(snd')
         /\ PathSound' /\ link' = link \o t.out
<1>0. /\ t \in Senders /\ TxSound(t.b) /\ WindowSound(t) /\ OutSound(t, snd.rid)
      /\ snd.rid <= t.rid /\ t.recover <= t.b.sent
  BY DEF SenderSound
<1>1. /\ t.rid \in Nat /\ t.b.sent \in Nat /\ t.out \in Seq(Packets)
      /\ snd.rid \in Nat /\ 1 <= snd.rid /\ snd.b.sent \in Nat
  BY <1>0, SenderFields, TxFields, TcpFacts DEF PacketSeqs
<1>2. PICK none : none = <<>>
  OBVIOUS
<1>3. snd' = [t EXCEPT !.out = none] /\ none \in PacketSeqs /\ link' = link \o t.out
  BY <1>2 DEF Becomes, PacketSeqs
<1>4. snd' \in Senders
  BY <1>0, <1>3 DEF Senders
<1>5. /\ snd'.out = none /\ snd'.b = t.b /\ snd'.rid = t.rid
      /\ snd'.congState = t.congState /\ snd'.recover = t.recover /\ snd'.rec_rid_ = t.rec_rid_
      /\ snd'.recoverActive = t.recoverActive /\ snd'.dupAckCount = t.dupAckCount
      /\ snd'.cWnd = t.cWnd /\ snd'.ssThresh = t.ssThresh /\ snd'.fc = t.fc
  BY <1>0, <1>3 DEF Senders
<1>6. SenderSound(snd', 1)
  <2>1. WindowSound(snd')
    BY <1>0, <1>5 DEF WindowSound
  <2>2. OutSound(snd', 1)
    BY <1>2, <1>5 DEF OutSound
  <2>3. 1 <= snd'.rid
    BY <1>0, <1>1, <1>5
  <2> QED
    BY <1>0, <1>4, <1>5, <2>1, <2>2, <2>3 DEF SenderSound
<1>7. Settled(t) => Settled(snd')
  BY <1>5 DEF Settled, States
<1>8. PathSound'
  <2>1. /\ link \in Seq(Packets) /\ \A i \in 1 .. Len(link) : link[i].seg \in 1 .. snd.b.sent
        /\ erased \subseteq Packets /\ \A p \in erased : p.seg \in 1 .. snd.b.sent
    BY DEF TcpInv, PathSound
  <2>2. \A s \in 1 .. snd.b.sent : s \in 1 .. t.b.sent
    BY <1>1
  <2>3. /\ link' \in Seq(Packets) /\ Len(link') = Len(link) + Len(t.out)
        /\ Len(link) \in Nat /\ Len(t.out) \in Nat
        /\ \A i \in 1 .. Len(link') : link'[i] = IF i <= Len(link) THEN link[i] ELSE t.out[i - Len(link)]
    BY <1>1, <1>3, <2>1
  <2>4. ASSUME NEW i \in 1 .. Len(link') PROVE link'[i].seg \in 1 .. t.b.sent
    <3>1. CASE i <= Len(link)
      BY <2>1, <2>2, <2>3, <3>1
    <3>2. CASE i > Len(link)
      <4>1. i - Len(link) \in 1 .. Len(t.out) /\ link'[i] = t.out[i - Len(link)]
        BY <2>3, <3>2
      <4> QED
        BY <1>0, <4>1 DEF OutSound
    <3> QED
      BY <2>3, <3>1, <3>2
  <2> QED
    BY <1>5, <2>1, <2>2, <2>3, <2>4 DEF PathSound
<1> QED
  BY <1>2, <1>3, <1>5, <1>6, <1>7, <1>8

LEMMA InitTcpInv == Init => TcpInv
<1> SUFFICES ASSUME Init PROVE TcpInv
  OBVIOUS
<1>1. PICK b, w, z, no, d, one, f, none :
        /\ b = EmptyTxBuffer /\ w = InitialCwnd * SegSize /\ z = 0 /\ no = FALSE /\ d = DataRetries
        /\ one = 1 /\ f = RoundSize(InitialCwnd).fwin /\ none = <<>>
  OBVIOUS
<1>2. TxSound(b) /\ b \in TxBuffers /\ b.una = 0 /\ b.sent = 0 /\ b.sacked = {}
  BY <1>1, EmptyTxSound DEF TxSound, EmptyTxBuffer
<1>3. w \in Nat /\ w >= SegSize /\ InitialSsThresh \in Nat /\ d \in Int /\ none \in PacketSeqs
  <2>1. \A k \in Nat \ {0, 1}, s \in Nat : k * s >= s
    BY SMTT(30)
  <2> QED
    BY <1>1, <2>1, WindowAssumption, CongestionBoundsAssumption DEF PacketSeqs
<1>4. f \in Nat \ {0}
  <2>1. InitialCwnd \in Nat \ {0}
    BY WindowAssumption
  <2>2. /\ RoundSize(InitialCwnd).nGroups \in 1 .. NGroups
        /\ \E q \in Nat \ {0} : f = q * RoundSize(InitialCwnd).nGroups
    BY <1>1, <2>1, RoundSizeShape
  <2> QED
    BY <2>2, Products, NGroupsAssumption
<1>5. snd = [b |-> b, congState |-> "OPEN", cWnd |-> w, ssThresh |-> InitialSsThresh,
             dupAckCount |-> z, recover |-> z, recoverActive |-> no,
             dataRetrCount |-> d, rec_rid_ |-> one, rid |-> one, fc |-> f, out |-> none]
  BY <1>1 DEF Init
<1>6. snd \in Senders
  <2>1. z \in Nat /\ no \in BOOLEAN /\ one \in Nat /\ f \in Int
    <3>1. z = 0 /\ one = 1
      BY <1>1
    <3>2. no \in BOOLEAN
      BY <1>1
    <3> QED
      BY <1>4, <3>1, <3>2
  <2> QED
    BY <1>2, <1>3, <1>5, <2>1 DEF Senders
<1>7. /\ snd.b = b /\ snd.congState = "OPEN" /\ snd.cWnd = w /\ snd.dupAckCount = 0 /\ snd.recover = 0
      /\ snd.recoverActive = FALSE /\ snd.rid = 1 /\ snd.fc = f /\ snd.out = <<>>
  BY <1>1, <1>5
<1>8. SenderSound(snd, 1)
  BY <1>2, <1>3, <1>4, <1>6, <1>7 DEF SenderSound, WindowSound, OutSound
<1>9. Settled(snd)
  BY <1>2, <1>7 DEF Settled, States
<1>10. RxSound(rx) /\ Received(rx) = {} /\ rx.next = 0 /\ rx.ooo = {}
  BY EmptyRxSound DEF Init, EmptyRxBuffer, Received
<1>11. ReceiverSound /\ AcksSound(snd.b, rx, acks) /\ PathSound
  BY <1>10 DEF Init, ReceiverSound, AcksSound, PathSound
<1>12. ScoreboardTruthful
  BY <1>2, <1>7, <1>10 DEF ScoreboardTruthful
<1> QED
  BY <1>7, <1>8, <1>9, <1>11, <1>12 DEF TcpInv, NeverIdleWithData, Init, Idle

\* With nothing outstanding the window is open and there is a segment to send.
LEMMA IdleSends ==
  ASSUME TcpInv, snd.b.una = snd.b.sent, snd.b.sent < MaxSeg
  PROVE  AvailableWindow >= SegSize /\ NextSeg(snd.b, snd.congState = "RECOVERY") # 0
<1>1. /\ TxSound(snd.b) /\ snd.b.una \in Nat /\ snd.b.sent \in Nat /\ snd.cWnd \in Nat
      /\ snd.cWnd >= SegSize
  BY TcpFacts, SenderFields DEF WindowSound
<1>2. SentList(snd.b) = {}
  BY <1>1 DEF SentList
<1>3. snd.b.sacked = {} /\ snd.b.lost = {} /\ snd.b.retrans = {}
  BY <1>1, <1>2 DEF TxSound, Flags
<1>4. snd.b.sackedOut = 0 /\ snd.b.lostOut = 0 /\ snd.b.retransOut = 0
  BY <1>1, <1>3, FS_EmptySet DEF TxSound, Sums
<1>5. BytesInFlight(snd.b) = 0
  BY <1>1, <1>4 DEF BytesInFlight
<1>6. SegSize * BytesInFlight(snd.b) = 0
  BY <1>5, WindowAssumption
<1>7. AvailableWindow = snd.cWnd
  BY <1>1, <1>6 DEF AvailableWindow
<1>8. NextSeg(snd.b, snd.congState = "RECOVERY") = snd.b.sent + 1
  BY <1>2 DEF NextSeg
<1> QED
  BY <1>1, <1>7, <1>8

LEMMA SendPendingDataStep ==
  ASSUME TcpInv, SendPendingData
  PROVE  \/ UNCHANGED <<snd, link>> /\ (snd.b.una < MaxSeg => snd.b.una < snd.b.sent)
         \/ \E t : SenderSound(t, snd.rid) /\ Sends(t, snd) /\ Becomes(t) /\ sending' = sending
<1>1. PICK next : next = NextSeg(snd.b, snd.congState = "RECOVERY")
  OBVIOUS
<1>2. /\ TxSound(snd.b) /\ SenderSound(snd, snd.rid) /\ snd.b.una \in Nat /\ snd.b.sent \in Nat
      /\ snd.b.una <= snd.b.sent /\ snd.rid \in Nat /\ snd.cWnd \in Nat
  BY TcpFacts, SenderFields
<1>3. CASE AvailableWindow < SegSize \/ next = 0
  <2>1. UNCHANGED <<snd, link>>
    BY <1>1, <1>3 DEF SendPendingData
  <2>2. ASSUME snd.b.una < MaxSeg, ~(snd.b.una < snd.b.sent) PROVE FALSE
    <3>1. snd.b.una = snd.b.sent /\ snd.b.sent < MaxSeg
      BY <1>2, <2>2
    <3>2. AvailableWindow >= SegSize /\ next # 0
      BY <1>1, <3>1, IdleSends
    <3>3. AvailableWindow \in Int
      <4>1. BytesInFlight(snd.b) \in Int
        BY <1>2, Flight
      <4>2. SegSize * BytesInFlight(snd.b) \in Int
        BY <4>1, WindowAssumption
      <4> QED
        BY <1>2, <4>2 DEF AvailableWindow
    <3> QED
      BY <1>3, <3>2, <3>3, WindowAssumption
  <2> QED
    BY <2>1, <2>2
<1>4. CASE ~(AvailableWindow < SegSize \/ next = 0)
  <2>1. PICK t : t = SendDataPacket(snd, next)
    OBVIOUS
  <2>2. Becomes(t) /\ sending' = sending
    BY <1>1, <1>4, <2>1 DEF SendPendingData
  <2>3. Sendable(snd.b, next)
    BY <1>1, <1>2, <1>4, NextSegType DEF Sendable
  <2>4. SenderSound(t, snd.rid) /\ Sends(t, snd)
    BY <1>2, <2>1, <2>3, SendDataPacketSound
  <2> QED
    BY <2>2, <2>4
<1> QED
  BY <1>3, <1>4

\* The buffers of the receiver and the acknowledgements do not depend on what
\* the sender sends.
LEMMA OthersKept ==
  ASSUME TcpInv, rx' = rx, delAck' = delAck, acks' = acks,
         snd'.b.una = snd.b.una, snd'.b.sacked = snd.b.sacked,
         snd'.b.sent \in Nat, snd.b.sent <= snd'.b.sent
  PROVE  ReceiverSound' /\ AcksSound(snd.b, rx, acks)' /\ ScoreboardTruthful'
<1>1. snd.b.sent \in Nat
  BY TcpFacts
<1>2. \A x \in 1 .. snd.b.sent : x \in 1 .. snd'.b.sent
  BY <1>1
<1>3. ReceiverSound'
  BY <1>2 DEF TcpInv, ReceiverSound
<1>4. AcksSound(snd.b, rx, acks)'
  BY DEF TcpInv, AcksSound, AckSound
<1>5. ScoreboardTruthful'
  BY DEF TcpInv, ScoreboardTruthful
<1> QED
  BY <1>3, <1>4, <1>5

LEMMA SendPendingDataInv == TcpInv /\ SendPendingData => TcpInv'
<1> SUFFICES ASSUME TcpInv, SendPendingData PROVE TcpInv'
  OBVIOUS
<1>1. /\ sending /\ ~closed /\ sending' \in BOOLEAN /\ closed' = closed /\ rx' = rx
      /\ delAck' = delAck /\ acks' = acks /\ erased' = erased
  BY DEF TcpInv, SendPendingData, receiver
<1>2. closed' \in BOOLEAN
  BY <1>1 DEF TcpInv
<1>3. CASE UNCHANGED <<snd, link>> /\ (snd.b.una < MaxSeg => snd.b.una < snd.b.sent)
  <2>1. ReceiverSound' /\ AcksSound(snd.b, rx, acks)' /\ ScoreboardTruthful' /\ PathSound'
    BY <1>1, <1>3 DEF TcpInv, ReceiverSound, AcksSound, AckSound, PathSound, ScoreboardTruthful
  <2>2. NeverIdleWithData'
    BY <1>3 DEF NeverIdleWithData
  <2>3. SenderSound(snd', 1) /\ snd'.out = <<>> /\ Settled(snd')
    BY <1>3 DEF TcpInv
  <2> QED
    BY <1>1, <1>2, <2>1, <2>2, <2>3 DEF TcpInv
<1>4. ASSUME NEW t, SenderSound(t, snd.rid), Sends(t, snd), Becomes(t), sending' = sending
      PROVE  TcpInv'
  <2>1. /\ SenderSound(snd', 1) /\ snd'.out = <<>> /\ snd'.b = t.b /\ PathSound'
        /\ Settled(t) => Settled(snd')
    BY <1>1, <1>4, BecomesSound DEF Sends, Keeps
  <2>2. Settled(t)
    BY <1>4 DEF TcpInv, Settled, States, Sends, Keeps
  <2>3. t.b.sent \in Nat
    BY <1>4, TxFields DEF SenderSound
  <2>4. ReceiverSound' /\ AcksSound(snd.b, rx, acks)' /\ ScoreboardTruthful'
    BY <1>1, <1>4, <2>1, <2>3, OthersKept DEF Sends, Keeps
  <2>5. NeverIdleWithData'
    BY <1>1, <1>4 DEF NeverIdleWithData, Idle
  <2> QED
    BY <1>1, <1>2, <2>1, <2>2, <2>4, <2>5 DEF TcpInv
<1> QED
  BY <1>3, <1>4, SendPendingDataStep

LEMMA ReTxTimeoutStep ==
  ASSUME TcpInv, ReTxTimeout
  PROVE  \/ snd' = snd /\ closed' = TRUE
         \/ /\ snd' = AfterTimeout(snd) /\ sending' = TRUE /\ closed' = closed
            /\ SenderSound(snd', 1) /\ Keeps(snd', snd) /\ snd'.congState = "LOSS"
            /\ snd'.out = <<>> /\ snd'.recoverActive = TRUE /\ snd'.b.una < snd'.recover
            /\ snd'.dupAckCount = 0
<1>1. CASE snd.dataRetrCount = 0
  BY <1>1 DEF ReTxTimeout
<1>2. CASE snd.dataRetrCount # 0
  <2>1. snd' = AfterTimeout(snd) /\ sending' = TRUE /\ closed' = closed
    BY <1>2 DEF ReTxTimeout
  <2>2. snd.b.una < snd.b.sent
    BY DEF TcpInv, NeverIdleWithData, ReTxTimeout
  <2>3. SenderSound(snd, 1) /\ snd.out = <<>>
    BY DEF TcpInv
  <2>4. PICK c : c = AfterTimeout(snd)
    OBVIOUS
  <2>5. /\ SenderSound(c, 1) /\ Keeps(c, snd) /\ c.congState = "LOSS" /\ c.out = snd.out
        /\ c.recoverActive = TRUE /\ c.b.una < c.recover /\ c.dupAckCount = 0
    BY <2>2, <2>3, <2>4, AfterTimeoutSound
  <2> QED
    BY <2>1, <2>3, <2>4, <2>5
<1> QED
  BY <1>1, <1>2

LEMMA ReTxTimeoutInv == TcpInv /\ ReTxTimeout => TcpInv'
<1> SUFFICES ASSUME TcpInv, ReTxTimeout PROVE TcpInv'
  OBVIOUS
<1>1. /\ rx' = rx /\ delAck' = delAck /\ acks' = acks /\ link' = link /\ erased' = erased
  BY DEF ReTxTimeout, receiver
<1>2. CASE snd' = snd /\ closed' = TRUE
  <2>1. sending' = sending
    <3>1. CASE snd.dataRetrCount = 0
      BY <3>1 DEF ReTxTimeout
    <3>2. CASE snd.dataRetrCount # 0
      <4>1. FALSE
        BY <1>2, <3>2 DEF ReTxTimeout, Idle
      <4> QED
        BY <4>1
    <3> QED
      BY <3>1, <3>2
  <2>2. ReceiverSound' /\ AcksSound(snd.b, rx, acks)' /\ ScoreboardTruthful' /\ PathSound'
    BY <1>1, <1>2 DEF TcpInv, ReceiverSound, AcksSound, AckSound, PathSound, ScoreboardTruthful
  <2>3. NeverIdleWithData'
    BY <1>2 DEF NeverIdleWithData, Idle
  <2>4. SenderSound(snd', 1) /\ snd'.out = <<>> /\ Settled(snd') /\ sending' \in BOOLEAN
    BY <1>2, <2>1 DEF TcpInv
  <2>5. closed' \in BOOLEAN
    BY <1>2
  <2> QED
    BY <2>2, <2>3, <2>4, <2>5 DEF TcpInv
<1>3. CASE /\ snd' = AfterTimeout(snd) /\ sending' = TRUE /\ closed' = closed
           /\ SenderSound(snd', 1) /\ Keeps(snd', snd) /\ snd'.congState = "LOSS"
           /\ snd'.out = <<>> /\ snd'.recoverActive = TRUE /\ snd'.b.una < snd'.recover
           /\ snd'.dupAckCount = 0
  <2>1. Settled(snd')
    BY <1>3 DEF Settled, States
  <2>2. snd'.b.sent \in Nat /\ snd.b.sent \in Nat /\ snd.b.sent <= snd'.b.sent
    BY <1>3, TcpFacts, TxFields DEF SenderSound, Keeps
  <2>3. ReceiverSound' /\ AcksSound(snd.b, rx, acks)' /\ ScoreboardTruthful'
    BY <1>1, <1>3, <2>2, OthersKept DEF Keeps
  <2>4. PathSound'
    <3>1. \A x \in 1 .. snd.b.sent : x \in 1 .. snd'.b.sent
      BY <2>2
    <3> QED
      BY <1>1, <3>1 DEF TcpInv, PathSound
  <2>5. NeverIdleWithData'
    BY <1>3 DEF NeverIdleWithData, Idle
  <2>6. sending' \in BOOLEAN /\ closed' \in BOOLEAN
    BY <1>3 DEF TcpInv
  <2> QED
    BY <1>3, <2>1, <2>3, <2>4, <2>5, <2>6 DEF TcpInv
<1> QED
  BY <1>2, <1>3, ReTxTimeoutStep

\* What an acknowledgement a makes of the sender: t, before its packets go out.
Takes(t, a) ==
  /\ SenderSound(t, snd.rid) /\ Settled(t)
  /\ t.b.una = a.ack /\ snd.b.una <= a.ack /\ snd.b.sent <= t.b.sent
  /\ \A s \in t.b.sacked : s \in snd.b.sacked \/ ~Misses(a, s)
  /\ snd.congState # "RECOVERY" /\ t.congState = "RECOVERY" => t.b.una >= snd.recover
  /\ t.rec_rid_ = IF Rated(a) THEN CutRid(a.rid) ELSE snd.rec_rid_

\* The first acknowledgement under way is never a stale one, and the segment it
\* asks for is not SACKed.
LEMMA FirstAck ==
  ASSUME TcpInv, acks # <<>>
  PROVE  LET a == Head(acks)
         IN  /\ a \in Acks /\ a = acks[1] /\ Len(acks) >= 1 /\ AckSound(snd.b, rx, a)
             /\ Misses(a, a.ack + 1) /\ a.ack \in Nat /\ a.ack <= snd.b.sent
             /\ snd.b.una <= a.ack
<1>1. PICK a : a = Head(acks)
  OBVIOUS
<1>2. acks \in Seq(Acks) /\ Len(acks) \in Nat /\ Len(acks) >= 1 /\ a = acks[1] /\ a \in Acks
  BY <1>1 DEF TcpInv, AcksSound
<1>3. AckSound(snd.b, rx, a) /\ Misses(a, a.ack + 1)
  BY <1>2 DEF TcpInv, AcksSound
<1>4. a.ack \in Nat /\ snd.b.una <= a.ack /\ a.ack <= rx.next
  BY <1>2, <1>3, AckFields DEF AckSound
<1>5. rx.next <= snd.b.sent
  <2>1. rx.next \in Nat /\ snd.b.sent \in Nat
    BY TcpFacts
  <2>2. rx.next >= 1 => rx.next \in Received(rx)
    BY <2>1 DEF Received
  <2>3. Received(rx) \subseteq 1 .. snd.b.sent
    BY DEF TcpInv, ReceiverSound
  <2> QED
    BY <2>1, <2>2, <2>3
<1>6. a.ack <= snd.b.sent
  BY <1>4, <1>5, TcpFacts
<1> QED
  BY <1>1, <1>2, <1>3, <1>4, <1>6

LEMMA ReceivedAckStep ==
  ASSUME TcpInv, ReceivedAck
  PROVE  \E t : /\ Takes(t, Head(acks)) /\ Becomes(t) /\ sending' = TRUE
                /\ \/ slowed' = slowed
                   \/ Rated(Head(acks)) /\ slowed' = Append(slowed, Head(acks).rid)
<1>1. PICK a : a = Head(acks)
  OBVIOUS
<1>2. /\ a \in Acks /\ AckSound(snd.b, rx, a) /\ Misses(a, a.ack + 1) /\ a.ack \in Nat
      /\ a.ack <= snd.b.sent /\ snd.b.una <= a.ack
  BY <1>1, FirstAck DEF ReceivedAck
<1>3. /\ snd \in Senders /\ TxSound(snd.b) /\ WindowSound(snd) /\ SenderSound(snd, snd.rid)
      /\ snd.rid \in Nat /\ snd.b.una \in Nat /\ snd.b.sent \in Nat /\ snd.recover \in Nat
      /\ snd.recover <= snd.b.sent /\ snd.out = <<>> /\ Settled(snd)
  BY TcpFacts
<1>4. PICK b1 : b1 = Update(snd.b, a.sackList)
  OBVIOUS
<1>5. /\ TxSound(b1) /\ b1.una = snd.b.una /\ b1.sent = snd.b.sent /\ snd.b.sacked \subseteq b1.sacked
      /\ \A seg \in b1.sacked \ snd.b.sacked : ~Misses(a, seg)
  <2>1. a.sackList \in Seq(SackBlocks) /\ Len(a.sackList) \in Nat
    BY <1>2, AckFields
  <2>2. ASSUME NEW k \in 1 .. Len(a.sackList) PROVE ~Covers(a.sackList[k], HeadSeg(snd.b))
    <3>1. a.sackList[k].lo \in Nat /\ a.sackList[k].lo > a.ack + 1
      BY <1>2, AckFields DEF AckSound
    <3> QED
      BY <1>2, <1>3, <3>1, SMTT(30) DEF Covers, HeadSeg
  <2>3. /\ TxSound(b1) /\ b1.una = snd.b.una /\ b1.sent = snd.b.sent /\ snd.b.sacked \subseteq b1.sacked
        /\ \A seg \in b1.sacked \ snd.b.sacked : \E k \in 1 .. Len(a.sackList) : Covers(a.sackList[k], seg)
    BY <1>3, <1>4, <2>1, <2>2, UpdateSound
  <2> QED
    BY <2>3 DEF Misses
<1>6. a.ack + 1 \notin b1.sacked
  BY <1>2, <1>5 DEF AckSound
<1>7. PICK c : c = DiscardUpTo(b1, a.ack)
  OBVIOUS
<1>8. TxSound(c) /\ c.una = a.ack /\ c.sent = snd.b.sent /\ c.sacked = b1.sacked \ 1 .. a.ack
  BY <1>2, <1>5, <1>6, <1>7, DiscardUpToSound
<1>9. PICK t0 : t0 = [snd EXCEPT !.b = c]
  OBVIOUS
<1>10. t0 \in Senders
  BY <1>3, <1>8, <1>9 DEF Senders, TxSound
<1>11. /\ t0.b = c /\ t0.rid = snd.rid /\ t0.congState = snd.congState /\ t0.recover = snd.recover
       /\ t0.recoverActive = snd.recoverActive /\ t0.dupAckCount = snd.dupAckCount
       /\ t0.cWnd = snd.cWnd /\ t0.ssThresh = snd.ssThresh /\ t0.fc = snd.fc
       /\ t0.out = snd.out /\ t0.rec_rid_ = snd.rec_rid_
  BY <1>3, <1>9 DEF Senders
<1>12. SenderSound(t0, snd.rid)
  <2>1. WindowSound(t0) /\ OutSound(t0, snd.rid)
    BY <1>3, <1>11 DEF WindowSound, OutSound
  <2> QED
    BY <1>3, <1>8, <1>10, <1>11, <2>1 DEF SenderSound
<1>13. States(t0)
  BY <1>2, <1>3, <1>8, <1>11 DEF Settled, States
<1>14. PICK n : n = a.ack - snd.b.una
  OBVIOUS
<1>15. n \in Nat /\ (n = 0 => Settled(t0))
  <2>1. n \in Nat /\ (n = 0 => a.ack = snd.b.una)
    BY <1>2, <1>3, <1>14
  <2> QED
    BY <1>3, <1>8, <1>11, <1>13, <2>1 DEF Settled
<1>16. b1.sacked # snd.b.sacked => t0.b.una < t0.b.sent
  <2> SUFFICES ASSUME b1.sacked # snd.b.sacked PROVE a.ack < snd.b.sent
    BY <1>8, <1>11
  <2>1. PICK seg \in b1.sacked \ snd.b.sacked : ~Misses(a, seg)
    BY <1>5
  <2>2. PICK k \in 1 .. Len(a.sackList) : Covers(a.sackList[k], seg)
    BY <2>1 DEF Misses
  <2>3. a.sackList[k].lo \in Nat /\ a.sackList[k].lo > a.ack + 1
    BY <1>2, AckFields DEF AckSound
  <2>4. seg \in Nat /\ seg <= snd.b.sent
    BY <1>3, <1>5, TxFields DEF SentList
  <2> QED
    BY <1>2, <1>3, <2>2, <2>3, <2>4 DEF Covers
<1>17. PICK dup, rate : dup = (b1.sacked # snd.b.sacked) /\ rate = Rated(a)
  OBVIOUS
<1>18. dup \in BOOLEAN /\ rate \in BOOLEAN
  BY <1>17 DEF Rated
<1>19. PICK t : t = ProcessAck(t0, n, dup, rate)
  OBVIOUS
<1>20. /\ SenderSound(t, snd.rid) /\ Keeps(t, t0) /\ Settled(t)
       /\ t0.congState # "RECOVERY" /\ t.congState = "RECOVERY" => t0.b.una >= t0.recover
  BY <1>3, <1>12, <1>13, <1>15, <1>16, <1>17, <1>18, <1>19, ProcessAckSound
<1>21. PICK u : u = IF Rated(a) THEN [t EXCEPT !.rec_rid_ = CutRid(a.rid)] ELSE t
  OBVIOUS
<1>22. ~(a.ack < snd.b.una)
  BY <1>2, <1>3, SMTT(30)
<1>23. /\ Becomes(u) /\ sending' = TRUE
       /\ slowed' = IF Rated(a) /\ u.congState = "OPEN" /\ a.ack > snd.b.una
                    THEN Append(slowed, a.rid) ELSE slowed
  BY <1>1, <1>4, <1>7, <1>9, <1>14, <1>17, <1>19, <1>21, <1>22 DEF ReceivedAck
<1>24. /\ SenderSound(u, snd.rid) /\ Settled(u) /\ u.b = t.b /\ u.congState = t.congState
       /\ u.rec_rid_ = IF Rated(a) THEN CutRid(a.rid) ELSE snd.rec_rid_
  <2>1. CASE Rated(a)
    <3>1. PICK cut : cut = CutRid(a.rid)
      OBVIOUS
    <3>2. cut \in Nat /\ t \in Senders
      BY <1>2, <1>20, <3>1, AckFields, RoundNumbers DEF SenderSound
    <3>3. u = [t EXCEPT !.rec_rid_ = cut]
      BY <1>21, <2>1, <3>1
    <3>4. u \in Senders
      BY <3>2, <3>3 DEF Senders
    <3>5. /\ u.b = t.b /\ u.rid = t.rid /\ u.congState = t.congState /\ u.recover = t.recover
          /\ u.recoverActive = t.recoverActive /\ u.dupAckCount = t.dupAckCount
          /\ u.cWnd = t.cWnd /\ u.ssThresh = t.ssThresh /\ u.fc = t.fc
          /\ u.out = t.out /\ u.rec_rid_ = cut
      BY <3>2, <3>3 DEF Senders
    <3>6. WindowSound(u) /\ OutSound(u, snd.rid)
      BY <1>20, <3>5 DEF SenderSound, WindowSound, OutSound
    <3>7. SenderSound(u, snd.rid)
      BY <1>20, <3>4, <3>5, <3>6 DEF SenderSound
    <3>8. Settled(u)
      BY <1>20, <3>5 DEF Settled, States
    <3> QED
      BY <2>1, <3>1, <3>5, <3>7, <3>8
  <2>2. CASE ~Rated(a)
    BY <1>11, <1>20, <1>21, <2>2 DEF Keeps
  <2> QED
    BY <2>1, <2>2
<1>25. Takes(u, a)
  <2>1. u.b.una = a.ack /\ u.b.sacked = c.sacked /\ snd.b.sent <= u.b.sent
    BY <1>8, <1>11, <1>20, <1>24 DEF Keeps
  <2>2. \A s \in u.b.sacked : s \in snd.b.sacked \/ ~Misses(a, s)
    BY <1>5, <1>8, <2>1
  <2>3. snd.congState # "RECOVERY" /\ u.congState = "RECOVERY" => u.b.una >= snd.recover
    BY <1>8, <1>11, <1>20, <1>24, <2>1
  <2> QED
    BY <1>2, <1>24, <2>1, <2>2, <2>3 DEF Takes
<1> QED
  BY <1>1, <1>23, <1>25

LEMMA ReceivedAckInv == TcpInv /\ ReceivedAck => TcpInv'
<1> SUFFICES ASSUME TcpInv, ReceivedAck PROVE TcpInv'
  OBVIOUS
<1>1. /\ closed' = closed /\ rx' = rx /\ delAck' = delAck /\ acks' = Tail(acks) /\ erased' = erased
      /\ acks # <<>>
  BY DEF ReceivedAck, receiver
<1>2. PICK a : a = Head(acks)
  OBVIOUS
<1>3. PICK t : Takes(t, a) /\ Becomes(t) /\ sending' = TRUE
  BY <1>2, ReceivedAckStep
<1>4. /\ SenderSound(t, snd.rid) /\ Settled(t) /\ t.b.una = a.ack /\ snd.b.sent <= t.b.sent
      /\ \A s \in t.b.sacked : s \in snd.b.sacked \/ ~Misses(a, s)
  BY <1>3 DEF Takes
<1>5. /\ SenderSound(snd', 1) /\ snd'.out = <<>> /\ snd'.b = t.b /\ Settled(snd') /\ PathSound'
  BY <1>1, <1>3, <1>4, BecomesSound
<1>6. /\ a \in Acks /\ AckSound(snd.b, rx, a)
  BY <1>1, <1>2, FirstAck
<1>7. AcksSound(t.b, rx, Tail(acks))
  BY <1>1, <1>2, <1>4, AcksTaken DEF TcpInv
<1>8. AcksSound(snd.b, rx, acks)'
  BY <1>1, <1>5, <1>7
<1>9. ScoreboardTruthful'
  <2>1. snd.b.sacked \subseteq Received(rx) /\ a.ack <= rx.next
    BY <1>6, TcpFacts DEF AckSound
  <2>2. ASSUME NEW s \in t.b.sacked PROVE s \in Received(rx)
    <3>1. CASE s \in snd.b.sacked
      BY <2>1, <3>1
    <3>2. CASE ~Misses(a, s)
      <4>1. PICK k \in 1 .. Len(a.sackList) : Covers(a.sackList[k], s)
        BY <3>2 DEF Misses
      <4>2. /\ a.sackList[k].lo \in Nat /\ a.sackList[k].hi \in Nat
            /\ Within(a.sackList[k], Received(rx))
        BY <1>6, AckFields DEF AckSound
      <4>3. s \in Nat
        BY <1>4, TxFields DEF SenderSound
      <4> QED
        BY <4>1, <4>2, <4>3 DEF Covers, Within
    <3> QED
      BY <1>4, <3>1, <3>2
  <2> QED
    BY <1>1, <1>4, <1>5, <2>1, <2>2 DEF ScoreboardTruthful, Received
<1>10. ReceiverSound'
  <2>1. snd.b.sent \in Nat /\ t.b.sent \in Nat
    BY <1>4, TcpFacts, TxFields DEF SenderSound
  <2>2. \A x \in 1 .. snd.b.sent : x \in 1 .. t.b.sent
    BY <1>4, <2>1
  <2> QED
    BY <1>1, <1>5, <2>2 DEF TcpInv, ReceiverSound
<1>11. NeverIdleWithData'
  BY <1>3 DEF NeverIdleWithData, Idle
<1>12. sending' \in BOOLEAN /\ closed' \in BOOLEAN
  BY <1>1, <1>3 DEF TcpInv
<1> QED
  BY <1>5, <1>8, <1>9, <1>10, <1>11, <1>12 DEF TcpInv

\* A segment that was sent arrives, from the path or from FEC.
LEMMA ReceivedDataSound ==
  ASSUME TcpInv, NEW seg \in 1 .. snd.b.sent, NEW tag \in Nat, ReceivedData(seg, tag), snd' = snd
  PROVE  /\ ReceiverSound' /\ AcksSound(snd.b, rx, acks)' /\ ScoreboardTruthful'
         /\ Received(rx)' = Received(rx) \cup {seg}
         /\ \/ acks' = acks
            \/ \E a \in Acks : acks' = Append(acks, a) /\ a.rid = tag /\ (a.recovered => tag # 0)
<1>0. /\ RxSound(rx) /\ rx.next \in Nat /\ snd.b.una \in Nat /\ snd.b.sent \in Nat
      /\ snd.b.una <= rx.next /\ snd.b.sacked \subseteq Received(rx) /\ snd.b.sent <= MaxSeg
      /\ MaxSeg \in Nat
  BY TcpFacts, TxBufferAssumption
<1>1. PICK r : r = IF ~Buffered(rx, seg) THEN Add(rx, seg) ELSE rx
  OBVIOUS
<1>2. RxSound(r) /\ rx.next <= r.next /\ Received(r) = Received(rx) \cup {seg}
  <2>1. CASE ~Buffered(rx, seg)
    <3>1. seg \in 1 .. MaxSeg
      BY <1>0
    <3> QED
      BY <1>0, <1>1, <2>1, <3>1, AddSound
  <2>2. CASE Buffered(rx, seg)
    <3>1. seg \in Received(rx)
      BY <1>0, <2>2 DEF Buffered, Received
    <3> QED
      BY <1>0, <1>1, <2>2, <3>1
  <2> QED
    BY <2>1, <2>2
<1>3. r.next \in Nat /\ r.sackList \in Seq(SackBlocks)
  BY <1>2 DEF RxSound
<1>4. PICK a, rec : rec = (tag # 0) /\ a = [ack |-> r.next, sackList |-> r.sackList, recovered |-> rec, rid |-> tag]
  OBVIOUS
<1>5. /\ a \in Acks /\ a.ack = r.next /\ a.sackList = r.sackList /\ a.rid = tag
      /\ a.recovered => tag # 0
  <2>1. rec \in BOOLEAN
    BY <1>4
  <2>2. a.recovered = rec
    BY <1>4
  <2> QED
    BY <1>3, <1>4, <2>1, <2>2 DEF Acks
<1>6. /\ rx' = r
      /\ \/ acks' = acks /\ delAck' = delAck + 1
         \/ acks' = Append(acks, a) /\ delAck' = 0
  BY <1>1, <1>4 DEF ReceivedData
<1>7. ReceiverSound'
  <2>1. delAck' \in Nat
    BY <1>6 DEF TcpInv, ReceiverSound
  <2> QED
    BY <1>2, <1>6, <2>1 DEF TcpInv, ReceiverSound
<1>8. snd.b.una <= r.next /\ snd.b.sacked \subseteq Received(r)
  BY <1>0, <1>2, <1>3
<1>9. ScoreboardTruthful'
  BY <1>6, <1>8 DEF ScoreboardTruthful, Received
<1>10. AcksSound(snd.b, r, acks) /\ AcksSound(snd.b, r, Append(acks, a))
  BY <1>0, <1>2, <1>5, <1>8, AcksKept, AcksAppended DEF TcpInv
<1>11. AcksSound(snd.b, rx, acks)'
  BY <1>6, <1>10
<1> QED
  BY <1>2, <1>5, <1>6, <1>7, <1>9, <1>11

LEMMA DeliverInv == TcpInv /\ Deliver => TcpInv'
<1> SUFFICES ASSUME TcpInv, Deliver PROVE TcpInv'
  OBVIOUS
<1>1. /\ snd' = snd /\ sending' = sending /\ closed' = closed /\ link # <<>> /\ link' = Tail(link)
      /\ erased' \subseteq erased /\ ReceivedData(Head(link).seg, 0)
  BY DEF Deliver
<1>2. /\ link \in Seq(Packets) /\ \A i \in 1 .. Len(link) : link[i].seg \in 1 .. snd.b.sent
      /\ erased \subseteq Packets /\ \A p \in erased : p.seg \in 1 .. snd.b.sent
  BY DEF TcpInv, PathSound
<1>3. /\ Head(link).seg \in 1 .. snd.b.sent /\ link' \in Seq(Packets)
      /\ \A i \in 1 .. Len(link') : link'[i].seg \in 1 .. snd.b.sent
  BY <1>1, <1>2
<1>4. ReceiverSound' /\ AcksSound(snd.b, rx, acks)' /\ ScoreboardTruthful'
  BY <1>1, <1>3, ReceivedDataSound
<1>5. PathSound'
  BY <1>1, <1>2, <1>3 DEF PathSound
<1> QED
  BY <1>1, <1>4, <1>5 DEF TcpInv, NeverIdleWithData, Idle

LEMMA LoseInv == TcpInv /\ Lose => TcpInv'
<1> SUFFICES ASSUME TcpInv, Lose PROVE TcpInv'
  OBVIOUS
<1>1. /\ snd' = snd /\ sending' = sending /\ closed' = closed /\ link # <<>> /\ link' = Tail(link)
      /\ erased' \subseteq erased \cup {Head(link)} /\ rx' = rx /\ delAck' = delAck /\ acks' = acks
  BY DEF Lose, Erased, receiver
<1>2. /\ link \in Seq(Packets) /\ \A i \in 1 .. Len(link) : link[i].seg \in 1 .. snd.b.sent
      /\ erased \subseteq Packets /\ \A p \in erased : p.seg \in 1 .. snd.b.sent
  BY DEF TcpInv, PathSound
<1>3. /\ Head(link).seg \in 1 .. snd.b.sent /\ Head(link) \in Packets /\ link' \in Seq(Packets)
      /\ \A i \in 1 .. Len(link') : link'[i].seg \in 1 .. snd.b.sent
  BY <1>1, <1>2
<1>4. PathSound'
  <2>1. \A p \in erased' : p \in Packets /\ p.seg \in 1 .. snd.b.sent
    BY <1>1, <1>2, <1>3
  <2> QED
    BY <1>1, <1>3, <2>1 DEF PathSound
<1>5. ReceiverSound' /\ AcksSound(snd.b, rx, acks)' /\ ScoreboardTruthful'
  BY <1>1 DEF TcpInv, ReceiverSound, AcksSound, AckSound, ScoreboardTruthful
<1> QED
  BY <1>1, <1>4, <1>5 DEF TcpInv, NeverIdleWithData, Idle

LEMMA RebuildInv == TcpInv /\ Rebuild => TcpInv'
<1> SUFFICES ASSUME TcpInv, Rebuild PROVE TcpInv'
  OBVIOUS
<1>1. PICK p \in erased : ReceivedData(p.seg, p.rid) /\ erased' = {q \in erased \ {p} : q.rid >= p.rid}
  BY DEF Rebuild
<1>2. snd' = snd /\ sending' = sending /\ closed' = closed /\ link' = link /\ erased' \subseteq erased
  BY <1>1 DEF Rebuild
<1>3. p.seg \in 1 .. snd.b.sent /\ p.rid \in Nat
  BY DEF TcpInv, PathSound, Packets
<1>4. ReceiverSound' /\ AcksSound(snd.b, rx, acks)' /\ ScoreboardTruthful'
  BY <1>1, <1>2, <1>3, ReceivedDataSound
<1>5. PathSound'
  BY <1>2 DEF TcpInv, PathSound
<1> QED
  BY <1>2, <1>4, <1>5 DEF TcpInv, NeverIdleWithData, Idle

LEMMA LoseAckInv == TcpInv /\ LoseAck => TcpInv'
<1> SUFFICES ASSUME TcpInv, LoseAck PROVE TcpInv'
  OBVIOUS
<1>1. /\ snd' = snd /\ sending' = sending /\ closed' = closed /\ link' = link /\ erased' = erased
      /\ rx' = rx /\ delAck' = delAck /\ acks' = Tail(acks) /\ acks # <<>>
  BY DEF LoseAck, receiver
<1>2. AcksSound(snd.b, rx, Tail(acks))
  BY <1>1, AcksTaken DEF TcpInv
<1>3. AcksSound(snd.b, rx, acks)'
  BY <1>1, <1>2
<1>4. ReceiverSound' /\ ScoreboardTruthful' /\ PathSound'
  BY <1>1 DEF TcpInv, ReceiverSound, PathSound, ScoreboardTruthful
<1> QED
  BY <1>1, <1>3, <1>4 DEF TcpInv, NeverIdleWithData, Idle

LEMMA DelAckTimeoutInv == TcpInv /\ DelAckTimeout => TcpInv'
<1> SUFFICES ASSUME TcpInv, DelAckTimeout PROVE TcpInv'
  OBVIOUS
<1>1. PICK a : a = [ack |-> rx.next, sackList |-> rx.sackList, recovered |-> FALSE, rid |-> 0]
  OBVIOUS
<1>2. /\ snd' = snd /\ sending' = sending /\ closed' = closed /\ link' = link /\ erased' = erased
      /\ rx' = rx /\ delAck' = 0 /\ acks' = Append(acks, a)
  BY <1>1 DEF DelAckTimeout
<1>3. /\ RxSound(rx) /\ rx.next \in Nat /\ snd.b.una \in Nat
      /\ snd.b.una <= rx.next /\ snd.b.sacked \subseteq Received(rx)
  BY TcpFacts
<1>4. a \in Acks /\ a.ack = rx.next /\ a.sackList = rx.sackList
  <2>1. rx.sackList \in Seq(SackBlocks)
    BY <1>3 DEF RxSound
  <2> QED
    BY <1>1, <1>3, <2>1 DEF Acks
<1>5. AcksSound(snd.b, rx, Append(acks, a))
  BY <1>3, <1>4, AcksAppended DEF TcpInv
<1>6. AcksSound(snd.b, rx, acks)'
  BY <1>2, <1>5
<1>7. ReceiverSound' /\ ScoreboardTruthful' /\ PathSound'
  BY <1>2 DEF TcpInv, ReceiverSound, PathSound, ScoreboardTruthful
<1> QED
  BY <1>2, <1>6, <1>7 DEF TcpInv, NeverIdleWithData, Idle

LEMMA TcpStep == TcpInv /\ [Next]_vars => TcpInv'
<1> SUFFICES ASSUME TcpInv, [Next]_vars PROVE TcpInv'
  OBVIOUS
<1>1. CASE Next
  BY <1>1, SendPendingDataInv, ReceivedAckInv, ReTxTimeoutInv, DelAckTimeoutInv, DeliverInv,
     LoseInv, RebuildInv, LoseAckInv DEF Next
<1>2. CASE UNCHANGED vars
  <2>1. /\ snd' = snd /\ sending' = sending /\ closed' = closed /\ link' = link /\ erased' = erased
        /\ rx' = rx /\ delAck' = delAck /\ acks' = acks
    BY <1>2 DEF vars, receiver
  <2>2. ReceiverSound' /\ AcksSound(snd.b, rx, acks)' /\ ScoreboardTruthful' /\ PathSound'
    BY <2>1 DEF TcpInv, ReceiverSound, AcksSound, AckSound, PathSound, ScoreboardTruthful
  <2> QED
    BY <2>1, <2>2 DEF TcpInv, NeverIdleWithData, Idle
<1> QED
  BY <1>1, <1>2

LEMMA TcpInvariant == Spec => []TcpInv
<1>1. Init => TcpInv
  BY InitTcpInv
<1>2. TcpInv /\ [Next]_vars => TcpInv'
  BY TcpStep
<1> QED
  BY <1>1, <1>2, PTL DEF Spec

\* ConsistencyCheck and the assertions of TcpTxBuffer hold after every event,
\* for every window, threshold, rate and FEC mode and whatever the path loses.
THEOREM ScoreboardAlwaysConsistent == Spec => []ScoreboardConsistent
<1>1. TcpInv => ScoreboardConsistent
  BY DEF TcpInv, SenderSound, TxSound, Sums, Flags, ScoreboardConsistent
<1> QED
  BY <1>1, TcpInvariant, PTL

\* The sender takes for received only what the receiver has: no acknowledgement
\* that is late, reordered by losses, or of a rebuilt segment misleads it.
THEOREM ScoreboardAlwaysTruthful == Spec => []ScoreboardTruthful
<1>1. TcpInv => ScoreboardTruthful
  BY DEF TcpInv
<1> QED
  BY <1>1, TcpInvariant, PTL

\* The assertions of DupAck on the congestion states hold, and a recovery point
\* is active exactly in CA_RECOVERY and CA_LOSS.
THEOREM CongestionStatesKept == Spec => []CongestionStates
<1>1. TcpInv => CongestionStates
  BY DEF TcpInv, Settled, States, CongestionStates
<1> QED
  BY <1>1, TcpInvariant, PTL

\* Rate control never cuts the window below a segment and no FEC round is empty,
\* if RateControlValue is at least a half and the initial window two segments.
THEOREM WindowAlwaysCoversSegment == Spec => []WindowCoversSegment
<1>1. TcpInv => WindowCoversSegment
  BY DEF TcpInv, SenderSound, WindowSound, WindowCoversSegment
<1> QED
  BY <1>1, TcpInvariant, PTL

\* SendPendingData never ends with data left and nothing outstanding.
THEOREM SenderNeverIdle == Spec => []NeverIdleWithData
<1>1. TcpInv => NeverIdleWithData
  BY DEF TcpInv
<1> QED
  BY <1>1, TcpInvariant, PTL

\* A recovery starts only when the recovery point of the last one, or of a
\* time-out, is acknowledged: DupAck cuts the window once per window of data.
THEOREM RecoveryOncePerWindow == Spec => OneRecoveryPerWindow
<1>1. ASSUME TcpInv, [Next]_vars
      PROVE  snd.congState # "RECOVERY" /\ snd'.congState = "RECOVERY" => snd'.b.una >= snd.recover
  <2> SUFFICES ASSUME snd.congState # "RECOVERY", snd'.congState = "RECOVERY"
               PROVE  snd'.b.una >= snd.recover
    OBVIOUS
  <2>1. CASE SendPendingData
    <3>1. ASSUME NEW t, SenderSound(t, snd.rid), Sends(t, snd), Becomes(t) PROVE FALSE
      <4>1. erased' = erased
        BY <2>1 DEF SendPendingData
      <4>2. snd'.congState = t.congState
        BY <1>1, <3>1, <4>1, BecomesSound DEF Sends, Keeps
      <4> QED
        BY <3>1, <4>2 DEF Sends
    <3> QED
      BY <1>1, <2>1, <3>1, SendPendingDataStep
  <2>2. CASE ReceivedAck
    <3>1. PICK t : Takes(t, Head(acks)) /\ Becomes(t)
      BY <1>1, <2>2, ReceivedAckStep
    <3>2. erased' = erased
      BY <2>2 DEF ReceivedAck
    <3>3. SenderSound(t, snd.rid) /\ snd.b.sent <= t.b.sent
      BY <3>1 DEF Takes
    <3>4. snd'.congState = t.congState /\ snd'.b = t.b
      BY <1>1, <3>1, <3>2, <3>3, BecomesSound
    <3> QED
      BY <3>1, <3>4 DEF Takes
  <2>3. CASE ReTxTimeout
    BY <1>1, <2>3, ReTxTimeoutStep
  <2>4. CASE DelAckTimeout \/ Deliver \/ Lose \/ Rebuild \/ LoseAck \/ UNCHANGED vars
    <3>1. snd' = snd
      BY <2>4 DEF DelAckTimeout, Deliver, Lose, Rebuild, LoseAck, vars
    <3> QED
      BY <3>1
  <2> QED
    BY <1>1, <2>1, <2>2, <2>3, <2>4 DEF Next
<1> QED
  BY <1>1, TcpInvariant, PTL DEF Spec, OneRecoveryPerWindow
-----------------------------------------------------------------------------
(* Rounds *)

\* Round r is over, or being sent: nothing of an earlier one is under way or can
\* still be rebuilt.
Reached(r) ==
  /\ r <= snd.rid
  /\ \A i \in 1 .. Len(link) : r <= link[i].rid
  /\ \A p \in erased : r <= p.rid

\* The rounds on the path are in their order, and what can be rebuilt belongs to
\* rounds before those.
PathRounds ==
  /\ \A i \in 1 .. Len(link) : link[i].rid <= snd.rid
  /\ \A i, j \in 1 .. Len(link) : i < j => link[i].rid <= link[j].rid
  /\ \A p \in erased : p.rid <= snd.rid /\ \A i \in 1 .. Len(link) : p.rid <= link[i].rid

\* So are the rounds that acknowledgements of rebuilt segments name, and those
\* for which the window was cut come before them.
AckRounds ==
  /\ \A i \in 1 .. Len(acks) : acks[i].recovered => Reached(acks[i].rid)
  /\ \A i, j \in 1 .. Len(acks) :
       i < j /\ acks[i].recovered /\ acks[j].recovered => acks[i].rid <= acks[j].rid
CutRounds ==
  /\ slowed \in Seq(Nat)
  /\ \A k \in 1 .. Len(slowed) :
       /\ Reached(slowed[k]) /\ CutRid(slowed[k]) <= snd.rec_rid_
       /\ \A i \in 1 .. Len(acks) : acks[i].recovered => slowed[k] <= acks[i].rid

RoundsInv == PathRounds /\ AckRounds /\ CutRounds /\ SlowedOncePerRound

\* The three ways in which a step changes the path.
SentStep ==
  /\ erased' = erased /\ snd'.rid \in Nat /\ snd.rid <= snd'.rid
  /\ \E out \in Seq(Packets) :
       /\ link' = link \o out
       /\ \A i \in 1 .. Len(out) : out[i].rid \in snd.rid .. snd'.rid
       /\ \A i, j \in 1 .. Len(out) : i < j => out[i].rid <= out[j].rid
TakenStep ==
  /\ link # <<>> /\ link' = Tail(link) /\ erased' \subseteq erased \cup {Head(link)} /\ snd' = snd
KeptStep == link' = link /\ erased' \subseteq erased /\ snd' = snd

LEMMA SenderStep ==
  ASSUME TcpInv, SendPendingData \/ ReceivedAck \/ ReTxTimeout
  PROVE  SentStep \/ KeptStep
<1>0. snd.rid \in Nat
  BY TcpFacts
<1>1. ASSUME NEW t, SenderSound(t, snd.rid), snd.b.sent <= t.b.sent, Becomes(t), erased' = erased
      PROVE  SentStep
  <2>1. snd'.rid = t.rid /\ link' = link \o t.out
    BY <1>1, BecomesSound
  <2>2. t.out \in Seq(Packets) /\ t.rid \in Nat /\ snd.rid <= t.rid /\ OutSound(t, snd.rid)
    BY <1>1, SenderFields DEF SenderSound, PacketSeqs
  <2>3. /\ \A i \in 1 .. Len(t.out) : t.out[i].rid \in snd.rid .. t.rid
        /\ \A i, j \in 1 .. Len(t.out) : i < j => t.out[i].rid <= t.out[j].rid
    BY <2>2 DEF OutSound
  <2> QED
    BY <1>1, <2>1, <2>2, <2>3 DEF SentStep
<1>2. CASE SendPendingData
  <2>1. erased' = erased
    BY <1>2 DEF SendPendingData
  <2>2. CASE UNCHANGED <<snd, link>>
    BY <2>1, <2>2 DEF KeptStep
  <2>3. ASSUME NEW t, SenderSound(t, snd.rid), Sends(t, snd), Becomes(t) PROVE SentStep
    BY <1>1, <2>1, <2>3 DEF Sends, Keeps
  <2> QED
    BY <1>2, <2>2, <2>3, SendPendingDataStep
<1>3. CASE ReceivedAck
  <2>1. erased' = erased
    BY <1>3 DEF ReceivedAck
  <2>2. PICK t : Takes(t, Head(acks)) /\ Becomes(t)
    BY <1>3, ReceivedAckStep
  <2> QED
    BY <1>1, <2>1, <2>2 DEF Takes
<1>4. CASE ReTxTimeout
  <2>1. link' = link /\ erased' = erased
    BY <1>4 DEF ReTxTimeout
  <2>2. CASE snd' = snd
    BY <2>1, <2>2 DEF KeptStep
  <2>3. CASE SenderSound(snd', 1) /\ Keeps(snd', snd)
    <3>0. snd'.rid \in Nat
      BY <2>3, SenderFields DEF SenderSound
    <3>1. PICK out : out = <<>>
      OBVIOUS
    <3>2. out \in Seq(Packets) /\ Len(out) = 0 /\ link \in Seq(Packets)
      BY <3>1 DEF TcpInv, PathSound
    <3>3. link' = link \o out
      BY <2>1, <3>1, <3>2
    <3>4. /\ \A i \in 1 .. Len(out) : out[i].rid \in snd.rid .. snd'.rid
          /\ \A i, j \in 1 .. Len(out) : i < j => out[i].rid <= out[j].rid
      BY <3>2
    <3>5. SentStep
      BY <2>1, <2>3, <3>0, <3>2, <3>3, <3>4 DEF SentStep, Keeps
    <3> QED
      BY <3>5
  <2> QED
    BY <1>4, <2>2, <2>3, ReTxTimeoutStep
<1> QED
  BY <1>2, <1>3, <1>4

LEMMA PathStep ==
  ASSUME TcpInv, [Next]_vars
  PROVE  SentStep \/ TakenStep \/ KeptStep
<1>1. CASE SendPendingData \/ ReceivedAck \/ ReTxTimeout
  BY <1>1, SenderStep
<1>2. CASE Deliver \/ Lose
  BY <1>2 DEF Deliver, Lose, Erased, TakenStep
<1>3. CASE DelAckTimeout \/ LoseAck \/ UNCHANGED vars
  BY <1>3 DEF DelAckTimeout, LoseAck, vars, KeptStep
<1>4. CASE Rebuild
  BY <1>4 DEF Rebuild, KeptStep
<1> QED
  BY <1>1, <1>2, <1>3, <1>4 DEF Next

LEMMA PathRoundsKept ==
  ASSUME TcpInv, PathRounds, SentStep \/ TakenStep \/ KeptStep
  PROVE  PathRounds' /\ \A r \in Nat : Reached(r) => Reached(r)'
<1>0. /\ snd.rid \in Nat /\ link \in Seq(Packets) /\ Len(link) \in Nat
      /\ \A i \in 1 .. Len(link) : link[i].rid \in Nat
      /\ \A p \in erased : p.rid \in Nat
  <2>1. link \in Seq(Packets) /\ erased \subseteq Packets
    BY DEF TcpInv, PathSound
  <2>2. \A p \in Packets : p.rid \in Nat
    BY DEF Packets
  <2>3. Len(link) \in Nat /\ \A i \in 1 .. Len(link) : link[i] \in Packets
    BY <2>1
  <2> QED
    BY <2>1, <2>2, <2>3, TcpFacts
<1>1. CASE SentStep
  <2>1. PICK out \in Seq(Packets) :
          /\ link' = link \o out
          /\ \A i \in 1 .. Len(out) : out[i].rid \in snd.rid .. snd'.rid
          /\ \A i, j \in 1 .. Len(out) : i < j => out[i].rid <= out[j].rid
    BY <1>1 DEF SentStep
  <2>2. erased' = erased /\ snd.rid <= snd'.rid /\ snd'.rid \in Nat
    BY <1>1 DEF SentStep
  <2>3. PICK n, m : n = Len(link) /\ m = Len(out)
    OBVIOUS
  <2>4. /\ n \in Nat /\ m \in Nat /\ Len(link') = n + m
        /\ \A i \in 1 .. n : link'[i] = link[i]
        /\ \A i \in n + 1 .. n + m : link'[i] = out[i - n] /\ i - n \in 1 .. m
    BY <1>0, <2>1, <2>3
  <2>5. /\ \A i \in 1 .. n : link'[i].rid \in Nat /\ link'[i].rid <= snd.rid
        /\ \A i \in n + 1 .. n + m : link'[i].rid \in Nat /\ link'[i].rid \in snd.rid .. snd'.rid
    <3>1. ASSUME NEW i \in 1 .. n PROVE link'[i].rid \in Nat /\ link'[i].rid <= snd.rid
      BY <1>0, <2>3, <2>4 DEF PathRounds
    <3>2. ASSUME NEW i \in n + 1 .. n + m
          PROVE  link'[i].rid \in Nat /\ link'[i].rid \in snd.rid .. snd'.rid
      <4>1. link'[i].rid \in snd.rid .. snd'.rid
        BY <2>1, <2>3, <2>4
      <4> QED
        BY <1>0, <2>2, <4>1
    <3> QED
      BY <3>1, <3>2
  <2>6. \A i \in 1 .. n + m : i \in 1 .. n \/ i \in n + 1 .. n + m
    BY <2>4
  <2>7. ASSUME NEW i \in 1 .. n + m, NEW j \in 1 .. n + m, i < j
        PROVE  link'[i].rid <= link'[j].rid
    <3>1. CASE j \in 1 .. n
      <4>1. i \in 1 .. n
        BY <2>4, <2>7, <3>1
      <4> QED
        BY <2>3, <2>4, <2>7, <3>1, <4>1 DEF PathRounds
    <3>2. CASE i \in 1 .. n /\ j \in n + 1 .. n + m
      BY <1>0, <2>2, <2>5, <3>2
    <3>3. CASE i \in n + 1 .. n + m /\ j \in n + 1 .. n + m
      <4>1. i - n \in 1 .. m /\ j - n \in 1 .. m /\ i - n < j - n
        BY <2>4, <2>7, <3>3
      <4> QED
        BY <2>1, <2>3, <2>4, <3>3, <4>1
    <3>4. ~(i \in n + 1 .. n + m /\ j \in 1 .. n)
      BY <2>4, <2>7
    <3> QED
      BY <2>6, <3>1, <3>2, <3>3, <3>4
  <2>8. \A i \in 1 .. n + m : link'[i].rid <= snd'.rid
    BY <1>0, <2>2, <2>5, <2>6
  <2>9. ASSUME NEW r \in Nat, r <= snd.rid, \A i \in 1 .. n : r <= link[i].rid
        PROVE  r <= snd'.rid /\ \A i \in 1 .. n + m : r <= link'[i].rid
    <3>1. \A i \in 1 .. n : r <= link'[i].rid
      BY <2>4, <2>9
    <3>2. \A i \in n + 1 .. n + m : r <= link'[i].rid
      BY <1>0, <2>2, <2>5, <2>9
    <3> QED
      BY <1>0, <2>2, <2>6, <2>9, <3>1, <3>2
  <2>10. \A p \in erased' : p.rid <= snd'.rid /\ \A i \in 1 .. Len(link') : p.rid <= link'[i].rid
    BY <1>0, <2>2, <2>3, <2>4, <2>9 DEF PathRounds
  <2>11. PathRounds'
    BY <2>4, <2>7, <2>8, <2>10 DEF PathRounds
  <2>12. \A r \in Nat : Reached(r) => Reached(r)'
    BY <2>2, <2>3, <2>4, <2>9 DEF Reached
  <2> QED
    BY <2>11, <2>12
<1>2. CASE TakenStep
  <2>1. /\ snd' = snd /\ Len(link) >= 1 /\ Head(link) = link[1] /\ Len(link') = Len(link) - 1
        /\ \A i \in 1 .. Len(link') : link'[i] = link[i + 1] /\ i + 1 \in 1 .. Len(link)
        /\ \A p \in erased' : p \in erased \/ p = link[1]
    BY <1>0, <1>2 DEF TakenStep
  <2>2. \A i, j \in 1 .. Len(link') : i < j => i + 1 < j + 1
    BY <1>0, <2>1
  <2>3. \A i \in 1 .. Len(link') : link[1].rid <= link[i + 1].rid
    BY <1>0, <2>1 DEF PathRounds
  <2>4. PathRounds'
    <3>1. /\ \A i \in 1 .. Len(link') : link'[i].rid <= snd'.rid
          /\ \A i, j \in 1 .. Len(link') : i < j => link'[i].rid <= link'[j].rid
      BY <2>1, <2>2 DEF PathRounds
    <3>2. ASSUME NEW p \in erased'
          PROVE  p.rid <= snd'.rid /\ \A i \in 1 .. Len(link') : p.rid <= link'[i].rid
      <4>1. CASE p \in erased
        BY <2>1, <4>1 DEF PathRounds
      <4>2. CASE p = link[1]
        <5>1. 1 \in 1 .. Len(link)
          BY <1>0, <2>1
        <5> QED
          BY <2>1, <2>3, <4>2, <5>1 DEF PathRounds
      <4> QED
        BY <2>1, <4>1, <4>2
    <3> QED
      BY <3>1, <3>2 DEF PathRounds
  <2>5. \A r \in Nat : Reached(r) => Reached(r)'
    <3>1. 1 \in 1 .. Len(link)
      BY <1>0, <2>1
    <3> QED
      BY <2>1, <3>1 DEF Reached
  <2> QED
    BY <2>4, <2>5
<1>3. CASE KeptStep
  BY <1>3 DEF KeptStep, PathRounds, Reached
<1> QED
  BY <1>1, <1>2, <1>3

\* What the acknowledgements name is kept in order, whether one is taken or a
\* new one is sent.
AckStep ==
  \/ acks' = acks
  \/ acks # <<>> /\ acks' = Tail(acks)
  \/ \E a \in Acks : /\ acks' = Append(acks, a)
                     /\ a.recovered => Reached(a.rid)' /\ \A r \in Nat : Reached(r) => r <= a.rid

LEMMA AckRoundsKept ==
  ASSUME TcpInv, AckRounds, AckStep, \A r \in Nat : Reached(r) => Reached(r)'
  PROVE  /\ AckRounds'
         /\ \A r \in Nat : /\ Reached(r)
                           /\ \A i \in 1 .. Len(acks) : acks[i].recovered => r <= acks[i].rid
                           => \A i \in 1 .. Len(acks') : acks'[i].recovered => r <= acks'[i].rid
<1>0. /\ acks \in Seq(Acks) /\ Len(acks) \in Nat
      /\ \A i \in 1 .. Len(acks) : acks[i].rid \in Nat
  BY AckFields DEF TcpInv, AcksSound
<1>1. CASE acks' = acks
  BY <1>0, <1>1 DEF AckRounds
<1>2. CASE acks # <<>> /\ acks' = Tail(acks)
  <2>1. /\ Len(acks') = Len(acks) - 1
        /\ \A i \in 1 .. Len(acks') : acks'[i] = acks[i + 1] /\ i + 1 \in 1 .. Len(acks)
    BY <1>0, <1>2
  <2>2. \A i, j \in 1 .. Len(acks') : i < j => i + 1 < j + 1
    BY <1>0, <2>1
  <2> QED
    BY <1>0, <2>1, <2>2 DEF AckRounds
<1>3. ASSUME NEW a \in Acks, acks' = Append(acks, a),
             a.recovered => Reached(a.rid)' /\ \A r \in Nat : Reached(r) => r <= a.rid
      PROVE  /\ AckRounds'
             /\ \A r \in Nat : /\ Reached(r)
                               /\ \A i \in 1 .. Len(acks) : acks[i].recovered => r <= acks[i].rid
                               => \A i \in 1 .. Len(acks') : acks'[i].recovered => r <= acks'[i].rid
  <2>1. /\ Len(acks') = Len(acks) + 1 /\ acks'[Len(acks) + 1] = a
        /\ \A i \in 1 .. Len(acks) : acks'[i] = acks[i]
    BY <1>0, <1>3
  <2>2. \A i \in 1 .. Len(acks') : i \in 1 .. Len(acks) \/ i = Len(acks) + 1
    BY <1>0, <2>1
  <2>3. ASSUME NEW i \in 1 .. Len(acks'), acks'[i].recovered PROVE Reached(acks[i].rid)'
    BY <1>0, <1>3, <2>1, <2>2, <2>3 DEF AckRounds
  <2>4. ASSUME NEW i \in 1 .. Len(acks'), NEW j \in 1 .. Len(acks'), i < j,
               acks'[i].recovered, acks'[j].recovered
        PROVE  acks'[i].rid <= acks'[j].rid
    <3>1. i \in 1 .. Len(acks)
      BY <1>0, <2>1, <2>4
    <3>2. CASE j \in 1 .. Len(acks)
      BY <2>1, <2>4, <3>1, <3>2 DEF AckRounds
    <3>3. CASE j = Len(acks) + 1
      BY <1>0, <1>3, <2>1, <2>4, <3>1, <3>3 DEF AckRounds
    <3> QED
      BY <2>2, <3>2, <3>3
  <2>5. AckRounds'
    BY <2>3, <2>4 DEF AckRounds
  <2>6. ASSUME NEW r \in Nat, Reached(r),
               \A i \in 1 .. Len(acks) : acks[i].recovered => r <= acks[i].rid,
               NEW i \in 1 .. Len(acks'), acks'[i].recovered
        PROVE  r <= acks'[i].rid
    BY <1>3, <2>1, <2>2, <2>6
  <2> QED
    BY <2>5, <2>6
<1> QED
  BY <1>1, <1>2, <1>3 DEF AckStep

LEMMA AcksStep ==
  ASSUME TcpInv, PathRounds, [Next]_vars
  PROVE  AckStep
<1>1. CASE SendPendingData \/ ReTxTimeout \/ Lose \/ UNCHANGED vars
  BY <1>1 DEF SendPendingData, ReTxTimeout, Lose, vars, AckStep
<1>2. CASE ReceivedAck \/ LoseAck
  BY <1>2 DEF ReceivedAck, LoseAck, AckStep
<1>3. CASE DelAckTimeout
  <2>1. PICK a : a = [ack |-> rx.next, sackList |-> rx.sackList, recovered |-> FALSE, rid |-> 0]
    OBVIOUS
  <2>2. a \in Acks /\ ~a.recovered
    <3>1. rx.next \in Nat /\ rx.sackList \in Seq(SackBlocks)
      BY TcpFacts DEF RxSound
    <3> QED
      BY <2>1, <3>1 DEF Acks
  <2>3. acks' = Append(acks, a)
    BY <1>3, <2>1 DEF DelAckTimeout
  <2> QED
    BY <2>2, <2>3 DEF AckStep
<1>4. CASE Deliver
  <2>1. snd' = snd /\ ReceivedData(Head(link).seg, 0) /\ link # <<>>
    BY <1>4 DEF Deliver
  <2>2. Head(link).seg \in 1 .. snd.b.sent
    BY <2>1 DEF TcpInv, PathSound
  <2>3. \/ acks' = acks
        \/ \E a \in Acks : acks' = Append(acks, a) /\ a.rid = 0 /\ (a.recovered => 0 # 0)
    BY <2>1, <2>2, ReceivedDataSound
  <2> QED
    BY <2>3 DEF AckStep
<1>5. CASE Rebuild
  <2>1. PICK p \in erased : ReceivedData(p.seg, p.rid) /\ erased' = {q \in erased \ {p} : q.rid >= p.rid}
    BY <1>5 DEF Rebuild
  <2>2. snd' = snd /\ link' = link
    BY <1>5 DEF Rebuild
  <2>3. p.seg \in 1 .. snd.b.sent /\ p.rid \in Nat /\ \A q \in erased : q.rid \in Nat
    BY DEF TcpInv, PathSound, Packets
  <2>4. \/ acks' = acks
        \/ \E a \in Acks : acks' = Append(acks, a) /\ a.rid = p.rid /\ (a.recovered => p.rid # 0)
    BY <2>1, <2>2, <2>3, ReceivedDataSound
  <2>5. \A r \in Nat : Reached(r) => r <= p.rid
    BY DEF Reached
  <2>6. ASSUME NEW a \in Acks, a.rid = p.rid PROVE Reached(a.rid)'
    <3>1. p.rid <= snd'.rid /\ \A i \in 1 .. Len(link') : p.rid <= link'[i].rid
      BY <2>2 DEF PathRounds
    <3>2. \A q \in erased' : p.rid <= q.rid
      BY <2>1, <2>3
    <3> QED
      BY <2>6, <3>1, <3>2 DEF Reached
  <2> QED
    BY <2>4, <2>5, <2>6 DEF AckStep
<1> QED
  BY <1>1, <1>2, <1>3, <1>4, <1>5 DEF Next

\* rec_rid_ only grows, and a round is added to those slowed only above it.
LEMMA RatedStep ==
  ASSUME TcpInv, [Next]_vars
  PROVE  \/ slowed' = slowed /\ snd.rec_rid_ <= snd'.rec_rid_
         \/ /\ acks # <<>> /\ acks' = Tail(acks) /\ Head(acks).recovered
            /\ slowed' = Append(slowed, Head(acks).rid)
            /\ snd.rec_rid_ < snd'.rec_rid_ /\ snd'.rec_rid_ = CutRid(Head(acks).rid)
<1>0. snd.rec_rid_ \in Nat
  BY TcpFacts, SenderFields
<1>1. CASE ReceivedAck
  <2>1. acks # <<>> /\ acks' = Tail(acks) /\ erased' = erased
    BY <1>1 DEF ReceivedAck
  <2>2. PICK a : a = Head(acks)
    OBVIOUS
  <2>3. PICK t : /\ Takes(t, a) /\ Becomes(t)
                 /\ slowed' = slowed \/ (Rated(a) /\ slowed' = Append(slowed, a.rid))
    BY <1>1, <2>2, ReceivedAckStep
  <2>4. snd'.rec_rid_ = IF Rated(a) THEN CutRid(a.rid) ELSE snd.rec_rid_
    BY <2>1, <2>3, BecomesSound DEF Takes
  <2>5. CutRid(a.rid) \in Nat
    BY <2>1, <2>2, FirstAck, AckFields, RoundNumbers
  <2>6. CASE Rated(a)
    <3>1. a.recovered /\ snd.rec_rid_ < CutRid(a.rid)
      BY <2>6 DEF Rated
    <3> QED
      BY <1>0, <2>1, <2>2, <2>3, <2>4, <2>5, <2>6, <3>1
  <2>7. CASE ~Rated(a)
    BY <1>0, <2>3, <2>4, <2>7
  <2> QED
    BY <2>6, <2>7
<1>2. CASE SendPendingData
  <2>1. slowed' = slowed /\ erased' = erased
    BY <1>2 DEF SendPendingData
  <2>2. ASSUME NEW t, SenderSound(t, snd.rid), Sends(t, snd), Becomes(t)
        PROVE  snd'.rec_rid_ = snd.rec_rid_
    BY <2>1, <2>2, BecomesSound DEF Sends, Keeps
  <2>3. snd'.rec_rid_ = snd.rec_rid_
    BY <1>2, <2>2, SendPendingDataStep
  <2> QED
    BY <1>0, <2>1, <2>3
<1>3. CASE ReTxTimeout
  <2>1. slowed' = slowed
    BY <1>3 DEF ReTxTimeout
  <2>2. snd'.rec_rid_ = snd.rec_rid_
    BY <1>3, ReTxTimeoutStep DEF Keeps
  <2> QED
    BY <1>0, <2>1, <2>2
<1>4. CASE DelAckTimeout \/ Deliver \/ Lose \/ Rebuild \/ LoseAck \/ UNCHANGED vars
  <2>1. snd' = snd /\ slowed' = slowed
    BY <1>4 DEF DelAckTimeout, Deliver, Lose, Rebuild, LoseAck, vars
  <2> QED
    BY <1>0, <2>1
<1> QED
  BY <1>1, <1>2, <1>3, <1>4 DEF Next

LEMMA RoundsStep ==
  ASSUME TcpInv, RoundsInv, [Next]_vars
  PROVE  RoundsInv'
<1>0. TcpInv' /\ PathRounds /\ AckRounds /\ CutRounds /\ SlowedOncePerRound
  BY TcpStep DEF RoundsInv
<1>1. PathRounds' /\ \A r \in Nat : Reached(r) => Reached(r)'
  BY <1>0, PathStep, PathRoundsKept
<1>2. AckStep
  BY <1>0, AcksStep
<1>3. /\ AckRounds'
      /\ \A r \in Nat : /\ Reached(r)
                        /\ \A i \in 1 .. Len(acks) : acks[i].recovered => r <= acks[i].rid
                        => \A i \in 1 .. Len(acks') : acks'[i].recovered => r <= acks'[i].rid
  BY <1>0, <1>1, <1>2, AckRoundsKept
<1>4. /\ snd.rec_rid_ \in Nat /\ snd'.rec_rid_ \in Nat
      /\ slowed \in Seq(Nat) /\ Len(slowed) \in Nat
      /\ \A k \in 1 .. Len(slowed) : slowed[k] \in Nat /\ CutRid(slowed[k]) \in Nat
  <2>1. snd.rec_rid_ \in Nat
    BY TcpFacts, SenderFields
  <2>2. snd'.rec_rid_ \in Nat
    BY <1>0, SenderFields DEF TcpInv, SenderSound
  <2>3. slowed \in Seq(Nat)
    BY <1>0 DEF CutRounds
  <2>4. Len(slowed) \in Nat /\ \A k \in 1 .. Len(slowed) : slowed[k] \in Nat
    BY <2>3
  <2> QED
    BY <2>1, <2>2, <2>3, <2>4, RoundNumbers
<1>5. ASSUME NEW k \in 1 .. Len(slowed), snd.rec_rid_ <= snd'.rec_rid_
      PROVE  /\ Reached(slowed[k])
             /\ CutRid(slowed[k]) <= snd'.rec_rid_
             /\ \A i \in 1 .. Len(acks') : acks'[i].recovered => slowed[k] <= acks'[i].rid
  <2>1. /\ Reached(slowed[k]) /\ CutRid(slowed[k]) <= snd.rec_rid_
        /\ \A i \in 1 .. Len(acks) : acks[i].recovered => slowed[k] <= acks[i].rid
    BY <1>0 DEF CutRounds
  <2>2. CutRid(slowed[k]) <= snd'.rec_rid_
    BY <1>4, <1>5, <2>1
  <2> QED
    BY <1>3, <1>4, <2>1, <2>2
<1>6. CASE slowed' = slowed /\ snd.rec_rid_ <= snd'.rec_rid_
  <2>1. CutRounds'
    BY <1>1, <1>4, <1>5, <1>6 DEF CutRounds
  <2>2. SlowedOncePerRound'
    BY <1>0, <1>6 DEF SlowedOncePerRound
  <2> QED
    BY <1>1, <1>3, <2>1, <2>2 DEF RoundsInv
<1>7. CASE /\ acks # <<>> /\ acks' = Tail(acks) /\ Head(acks).recovered
           /\ slowed' = Append(slowed, Head(acks).rid)
           /\ snd.rec_rid_ < snd'.rec_rid_ /\ snd'.rec_rid_ = CutRid(Head(acks).rid)
  <2>1. PICK a : a = Head(acks)
    OBVIOUS
  <2>2. a \in Acks /\ a = acks[1] /\ Len(acks) \in Nat /\ Len(acks) >= 1 /\ acks \in Seq(Acks)
    BY <1>7, <2>1, FirstAck DEF TcpInv, AcksSound
  <2>3. a.rid \in Nat /\ CutRid(a.rid) \in Nat /\ a.recovered /\ 1 \in 1 .. Len(acks)
    <3>1. a.rid \in Nat
      BY <2>2, AckFields
    <3>2. 1 \in 1 .. Len(acks)
      BY <2>2
    <3> QED
      BY <1>7, <2>1, <3>1, <3>2, RoundNumbers
  <2>4. /\ slowed' \in Seq(Nat) /\ Len(slowed') = Len(slowed) + 1 /\ slowed'[Len(slowed) + 1] = a.rid
        /\ \A k \in 1 .. Len(slowed) : slowed'[k] = slowed[k]
    BY <1>4, <1>7, <2>1, <2>3
  <2>5. \A k \in 1 .. Len(slowed') : k \in 1 .. Len(slowed) \/ k = Len(slowed) + 1
    BY <1>4, <2>4
  <2>6. Reached(a.rid) /\ \A i \in 1 .. Len(acks') : acks'[i].recovered => a.rid <= acks'[i].rid
    <3>1. /\ Len(acks') = Len(acks) - 1
          /\ \A i \in 1 .. Len(acks') : acks'[i] = acks[i + 1] /\ i + 1 \in 1 .. Len(acks) /\ 1 < i + 1
      BY <1>7, <2>2
    <3> QED
      BY <1>0, <2>2, <2>3, <3>1 DEF AckRounds
  <2>7. ASSUME NEW k \in 1 .. Len(slowed) PROVE slowed[k] < a.rid
    <3>1. slowed[k] <= a.rid /\ CutRid(slowed[k]) <= snd.rec_rid_
      BY <1>0, <2>2, <2>3 DEF CutRounds
    <3>2. snd.rec_rid_ < CutRid(a.rid)
      BY <1>7, <2>1
    <3>3. slowed[k] # a.rid
      BY <1>4, <2>3, <3>1, <3>2
    <3> QED
      BY <1>4, <2>3, <3>1, <3>3
  <2>8. CutRounds'
    <3>1. ASSUME NEW k \in 1 .. Len(slowed')
          PROVE  /\ Reached(slowed[k])' /\ CutRid(slowed'[k]) <= snd'.rec_rid_
                 /\ \A i \in 1 .. Len(acks') : acks'[i].recovered => slowed'[k] <= acks'[i].rid
      <4>1. CASE k \in 1 .. Len(slowed)
        <5>1. /\ Reached(slowed[k]) /\ CutRid(slowed[k]) <= snd'.rec_rid_
              /\ \A i \in 1 .. Len(acks') : acks'[i].recovered => slowed[k] <= acks'[i].rid
          <6>1. snd.rec_rid_ <= snd'.rec_rid_
            BY <1>4, <1>7
          <6> QED
            BY <1>5, <4>1, <6>1
        <5>2. slowed'[k] = slowed[k] /\ slowed[k] \in Nat
          BY <1>4, <2>4, <4>1
        <5> QED
          BY <1>1, <5>1, <5>2 DEF Reached
      <4>2. CASE k = Len(slowed) + 1
        <5>1. slowed'[k] = a.rid /\ CutRid(a.rid) <= snd'.rec_rid_
          BY <1>4, <1>7, <2>1, <2>4, <4>2
        <5> QED
          BY <1>1, <2>3, <2>6, <5>1 DEF Reached
      <4> QED
        BY <2>5, <4>1, <4>2
    <3> QED
      BY <2>4, <3>1 DEF CutRounds
  <2>9. SlowedOncePerRound'
    <3>1. DOMAIN slowed' = 1 .. Len(slowed') /\ DOMAIN slowed = 1 .. Len(slowed)
      BY <1>4, <2>4
    <3>2. ASSUME NEW i \in 1 .. Len(slowed'), NEW j \in 1 .. Len(slowed'), i < j
          PROVE  slowed'[i] < slowed'[j]
      <4>1. i \in 1 .. Len(slowed)
        BY <1>4, <2>4, <3>2
      <4>2. CASE j \in 1 .. Len(slowed)
        BY <1>0, <2>4, <3>1, <3>2, <4>1, <4>2 DEF SlowedOncePerRound
      <4>3. CASE j = Len(slowed) + 1
        BY <2>4, <2>7, <4>1, <4>3
      <4> QED
        BY <2>5, <4>2, <4>3
    <3> QED
      BY <3>1, <3>2 DEF SlowedOncePerRound
  <2> QED
    BY <1>1, <1>3, <2>8, <2>9 DEF RoundsInv
<1> QED
  BY <1>6, <1>7, RatedStep

\* Rate control cuts the window at most once per round and in the order of the
\* rounds, however narrow the type that keeps the number of the last one.
THEOREM RateCutOncePerRound == Spec => []SlowedOncePerRound
<1>1. Init => RoundsInv
  BY DEF Init, RoundsInv, PathRounds, AckRounds, CutRounds, SlowedOncePerRound
<1>2. TcpInv /\ RoundsInv /\ [Next]_vars => RoundsInv'
  BY RoundsStep
<1>3. RoundsInv => SlowedOncePerRound
  BY DEF RoundsInv
<1> QED
  BY <1>1, <1>2, <1>3, TcpInvariant, PTL DEF Spec
-----------------------------------------------------------------------------
(* The path is one that FEC provides *)

\* A step that extends the path is a Send of FecPath.
LEMMA SentIsSend ==
  ASSUME TcpInv, SentStep, rx' = rx
  PROVE  Path!Send
<1>1. PICK out \in Seq(Packets) :
        /\ link' = link \o out
        /\ \A i \in 1 .. Len(out) : out[i].rid \in snd.rid .. snd'.rid
  BY DEF SentStep
<1>2. link \in Seq(Packets) /\ snd.rid \in Nat
  BY TcpFacts DEF TcpInv, PathSound
<1>3. PICK n, m : n = Len(link) /\ m = Len(out)
  OBVIOUS
<1>4. /\ n \in Nat /\ m \in Nat /\ Len(link') = n + m
      /\ \A i \in 1 .. n : link'[i] = link[i]
      /\ \A i \in n + 1 .. n + m : link'[i] = out[i - n] /\ i - n \in 1 .. m
  BY <1>1, <1>2, <1>3
<1>5. Path!IsPrefix(link, link')
  BY <1>1, <1>2 DEF Path!IsPrefix
<1>6. \A i \in Len(link) + 1 .. Len(link') : link'[i].rid \in snd.rid .. snd'.rid
  BY <1>1, <1>3, <1>4
<1>7. snd'.rid >= snd.rid /\ erased' = erased
  BY <1>2 DEF SentStep
<1> QED
  BY <1>5, <1>6, <1>7 DEF Path!Send

\* The first element of a sequence removed, as FecPath writes it.
LEMMA FirstRemoved ==
  ASSUME NEW A, NEW q \in Seq(A), q # <<>>
  PROVE  /\ 1 \in DOMAIN q /\ 1 \in 0 .. Len(q) /\ q[1] = Head(q)
         /\ Tail(q) = SubSeq(q, 1, 1 - 1) \o SubSeq(q, 1 + 1, Len(q))
         /\ Tail(q) = SubSeq(q, 1 + 1, Len(q)) /\ SubSeq(q, 1, 1) = <<Head(q)>>
<1>1. /\ Len(q) \in Nat /\ Len(q) >= 1 /\ q[1] = Head(q) /\ Head(q) \in A
      /\ Tail(q) \in Seq(A) /\ Len(Tail(q)) = Len(q) - 1
      /\ \A i \in 1 .. Len(q) - 1 : Tail(q)[i] = q[i + 1]
  OBVIOUS
<1>2. Tail(q) = SubSeq(q, 1 + 1, Len(q))
  <2>1. PICK s : s = SubSeq(q, 2, Len(q))
    OBVIOUS
  <2>2. s \in Seq(A) /\ Len(s) = Len(q) - 1 /\ \A i \in 1 .. Len(q) - 1 : s[i] = q[i + 1]
    BY <1>1, <2>1
  <2> QED
    BY <1>1, <2>1, <2>2
<1>3. SubSeq(q, 1, 1 - 1) = <<>>
  BY <1>1
<1>4. SubSeq(q, 1, 1) = <<Head(q)>>
  <2>1. PICK s : s = SubSeq(q, 1, 1)
    OBVIOUS
  <2>2. s \in Seq(A) /\ Len(s) = 1 /\ s[1] = Head(q)
    BY <1>1, <2>1
  <2>3. PICK u : u = <<Head(q)>>
    OBVIOUS
  <2>4. u \in Seq(A) /\ Len(u) = 1 /\ u[1] = Head(q)
    BY <1>1, <2>3
  <2>5. \A i \in 1 .. 1 : s[i] = u[i]
    BY <2>2, <2>4
  <2>6. s = u
    BY <2>2, <2>4, <2>5, SeqEqual
  <2> QED
    BY <2>1, <2>3, <2>6
<1> QED
  BY <1>1, <1>2, <1>3, <1>4

LEMMA FecPathStep ==
  ASSUME TcpInv, [Next]_vars
  PROVE  [Path!Send \/ Path!Lose \/ Path!Deliver]_<<link, erased, snd.rid, 1 .. rx.next \cup rx.ooo>>
<1>0. link \in Seq(Packets) /\ erased \subseteq Packets /\ snd.rid \in Nat
  BY TcpFacts DEF TcpInv, PathSound
<1>1. CASE SendPendingData \/ ReceivedAck \/ ReTxTimeout
  <2>1. rx' = rx
    BY <1>1 DEF SendPendingData, ReceivedAck, ReTxTimeout, receiver
  <2>2. CASE SentStep
    BY <2>1, <2>2, SentIsSend
  <2>3. CASE KeptStep
    <3>1. erased' = erased
      BY <1>1 DEF SendPendingData, ReceivedAck, ReTxTimeout
    <3> QED
      BY <2>1, <2>3, <3>1 DEF KeptStep
  <2> QED
    BY <1>1, <2>2, <2>3, SenderStep
<1>2. CASE DelAckTimeout \/ LoseAck \/ UNCHANGED vars
  BY <1>2 DEF DelAckTimeout, LoseAck, vars, receiver
<1>3. CASE Lose
  <2>1. /\ link # <<>> /\ link' = Tail(link) /\ snd' = snd /\ rx' = rx
        /\ erased' = IF Head(link).again THEN erased ELSE erased \cup {Head(link)}
    BY <1>3 DEF Lose, Erased, receiver
  <2>2. /\ 1 \in DOMAIN link /\ link[1] = Head(link)
        /\ link' = SubSeq(link, 1, 1 - 1) \o SubSeq(link, 1 + 1, Len(link))
    BY <1>0, <2>1, FirstRemoved
  <2>3. erased' = IF link[1].again THEN erased ELSE erased \cup {link[1]}
    BY <2>1, <2>2
  <2>4. Path!Lose
    BY <2>1, <2>2, <2>3 DEF Path!Lose
  <2> QED
    BY <2>4
<1>4. CASE Deliver
  <2>1. /\ link # <<>> /\ link' = Tail(link) /\ snd' = snd
        /\ ReceivedData(Head(link).seg, 0) /\ erased' = {p \in erased : p.rid >= Head(link).rid}
    BY <1>4 DEF Deliver
  <2>2. /\ 1 \in 0 .. Len(link) /\ link[1] = Head(link) /\ link' = SubSeq(link, 1 + 1, Len(link))
        /\ SubSeq(link, 1, 1) = <<Head(link)>> /\ 1 \in DOMAIN link
    BY <1>0, <2>1, FirstRemoved
  <2>3. /\ Head(link) \in Packets /\ Head(link).seg \in 1 .. snd.b.sent
    BY <1>0, <2>1, <2>2 DEF TcpInv, PathSound
  <2>4. Received(rx)' = Received(rx) \cup {Head(link).seg}
    BY <2>1, <2>3, ReceivedDataSound
  <2>5. Path!SegmentsOf(Path!ToSet(SubSeq(link, 1, 1)) \cup {}) = {Head(link).seg}
    <3>1. Path!ToSet(<<Head(link)>>) = {Head(link)}
      BY DEF Path!ToSet
    <3> QED
      BY <2>2, <3>1 DEF Path!SegmentsOf
  <2>6. \A i \in 1 .. 1 : \A p \in erased' : link[i].rid <= p.rid
    <3>1. \A p \in Packets : p.rid \in Nat
      BY DEF Packets
    <3>2. ASSUME NEW p \in erased' PROVE link[1].rid <= p.rid
      BY <1>0, <2>1, <2>2, <2>3, <3>1
    <3> QED
      BY <3>2
  <2>7. {} \in SUBSET {p \in erased : p.rid < snd.rid} /\ erased' \subseteq erased \ {}
    BY <2>1
  <2>8. Path!Deliver
    BY <2>1, <2>2, <2>4, <2>5, <2>6, <2>7 DEF Path!Deliver, Received
  <2> QED
    BY <2>8
<1>5. CASE Rebuild
  <2>1. PICK p \in erased : /\ p.rid < snd.rid /\ ReceivedData(p.seg, p.rid)
                            /\ erased' = {q \in erased \ {p} : q.rid >= p.rid}
    BY <1>5 DEF Rebuild
  <2>2. snd' = snd /\ link' = link
    BY <1>5 DEF Rebuild
  <2>3. p.seg \in 1 .. snd.b.sent /\ p.rid \in Nat
    BY DEF TcpInv, PathSound, Packets
  <2>4. Received(rx)' = Received(rx) \cup {p.seg}
    BY <2>1, <2>2, <2>3, ReceivedDataSound
  <2>5. /\ 0 \in 0 .. Len(link) /\ link = SubSeq(link, 0 + 1, Len(link)) /\ SubSeq(link, 1, 0) = <<>>
    BY <1>0
  <2>6. Path!SegmentsOf(Path!ToSet(SubSeq(link, 1, 0)) \cup {p}) = {p.seg}
    <3>1. Path!ToSet(<<>>) = {}
      BY DEF Path!ToSet
    <3> QED
      BY <2>5, <3>1 DEF Path!SegmentsOf
  <2>7. {p} \in SUBSET {q \in erased : q.rid < snd.rid} /\ erased' \subseteq erased \ {p}
    BY <2>1
  <2>8. \A i \in 1 .. 0 : \A q \in erased' : link[i].rid <= q.rid
    OBVIOUS
  <2>9. Path!Deliver
    BY <2>1, <2>2, <2>4, <2>5, <2>6, <2>7, <2>8 DEF Path!Deliver, Received
  <2> QED
    BY <2>9
<1> QED
  BY <1>1, <1>2, <1>3, <1>4, <1>5 DEF Next

\* Congestion control rests on the path of FecPath: the path that it loses,
\* rebuilds and delivers segments on does nothing that FEC does not promise.
THEOREM PathIsFecPath == Spec => RestsOnFecPath
<1>1. Init => Path!Init
  BY DEF Init, Path!Init, EmptyRxBuffer
<1>2. TcpInv /\ [Next]_vars =>
        [Path!Send \/ Path!Lose \/ Path!Deliver]_<<link, erased, snd.rid, 1 .. rx.next \cup rx.ooo>>
  BY FecPathStep
<1> QED
  BY <1>1, <1>2, TcpInvariant, PTL DEF Spec, RestsOnFecPath, Path!Spec
=============================================================================
