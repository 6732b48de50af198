-------------------------- MODULE FecSizingProofs --------------------------
(***************************************************************************)
(* The size of a round end to end, for every window, mode and bound:       *)
(* lemmas for FecEndProofs and TcpCongestionProofs.                        *)
(***************************************************************************)
EXTENDS FecSizing, TLAPS

\* A product of positive numbers, and the quotient of one that is large enough.
LEMMA Products ==
  /\ \A f, n \in Nat \ {0} : f * n \in Nat \ {0} /\ f <= f * n
  /\ \A w \in Nat, n \in Nat \ {0} : w >= n => w \div n \in Nat \ {0}
  /\ \A w, f, n \in Nat \ {0} : w >= f * n + n => w - n \in Nat /\ w - n >= n
<1>1. ASSUME NEW f \in Nat \ {0}, NEW n \in Nat \ {0}
      PROVE  f * n \in Nat \ {0} /\ f <= f * n
  <2>1. f * n \in Nat
    BY SMT
  <2>2. f * n >= f
    BY SMT
  <2> QED
    BY <2>1, <2>2
<1>2. ASSUME NEW w \in Nat, NEW n \in Nat \ {0}, w >= n
      PROVE  w \div n \in Nat \ {0}
  BY <1>2, SMT
<1>3. ASSUME NEW w \in Nat \ {0}, NEW f \in Nat \ {0}, NEW n \in Nat \ {0}, w >= f * n + n
      PROVE  w - n \in Nat /\ w - n >= n
  <2>1. f * n >= n
    BY SMT
  <2> QED
    BY <1>3, <2>1, SMT
<1> QED
  BY <1>1, <1>2, <1>3

\* FecAgent::RedundancyControl never sizes an empty round, and a round is a
\* whole number of packets per group, in each of the four modes.
LEMMA RoundSizeShape ==
  ASSUME NEW win \in Nat \ {0}
  PROVE  /\ RoundSize(win).nGroups \in 1 .. NGroups
         /\ \E q \in Nat \ {0} :
              RoundSize(win).fwin = q * RoundSize(win).nGroups
<1> DEFINE fits == win >= Fwin * NGroups + NGroups
           cap(f) == IF Fmax # 0 /\ f >= Fmax THEN Fmax ELSE f
           outside == IF win < NGroups THEN 1 ELSE NGroups
           round(f, n) == [fwin |-> f * n, nGroups |-> n]
           Good(r) == /\ r.nGroups \in 1 .. NGroups
                      /\ \E q \in Nat \ {0} : r.fwin = q * r.nGroups
<1>1. win \in Nat \ {0} /\ Fwin \in Nat \ {0} /\ Fmax \in Nat /\ NGroups \in Nat \ {0}
  BY FmaxAssumption, FwinAssumption, NGroupsAssumption
<1>2. \A f \in Nat \ {0}, n \in 1 .. NGroups : Good(round(f, n))
  OBVIOUS
<1>3. \A f \in Nat \ {0} : cap(f) \in Nat \ {0}
  BY <1>1
<1>4. outside \in 1 .. NGroups /\ win \div outside \in Nat \ {0}
  BY <1>1, Products
<1>5. fits => (win - NGroups) \div NGroups \in Nat \ {0}
  BY <1>1, Products
<1>6. fits \in BOOLEAN
  BY <1>1
<1> HIDE DEF fits, cap, outside, round, Good
<1>7. RoundSize(win) \in
        {round(Fwin, NGroups), round(cap(win \div outside), outside), round(win, 1)}
        \cup (IF fits THEN {round(cap((win - NGroups) \div NGroups), NGroups)} ELSE {})
  <2>1. CASE FecMode = "Static" /\ BoundMode = "OUT"
    <3>1. RoundSize(win) = round(Fwin, NGroups)
      BY <2>1 DEF RoundSize, fits, cap, outside, round
    <3> QED
      BY <3>1
  <2>2. CASE FecMode = "Dynamic" /\ BoundMode = "OUT"
    <3>1. RoundSize(win) = round(cap(win \div outside), outside)
      BY <2>2 DEF RoundSize, fits, cap, outside, round
    <3> QED
      BY <3>1
  <2>3. CASE BoundMode = "IN" /\ ~fits
    <3>1. RoundSize(win) = round(win, 1)
      BY <2>3 DEF RoundSize, fits, cap, outside, round
    <3> QED
      BY <3>1
  <2>4. CASE FecMode = "Static" /\ BoundMode = "IN" /\ fits
    <3>1. RoundSize(win) = round(Fwin, NGroups)
      BY <2>4 DEF RoundSize, fits, cap, outside, round
    <3> QED
      BY <3>1
  <2>5. CASE FecMode = "Dynamic" /\ BoundMode = "IN" /\ fits
    <3>1. RoundSize(win) = round(cap((win - NGroups) \div NGroups), NGroups)
      BY <2>5 DEF RoundSize, fits, cap, outside, round
    <3> QED
      BY <3>1, <2>5
  <2> QED
    BY <2>1, <2>2, <2>3, <2>4, <2>5, ModesAssumption
<1>8. /\ Good(round(Fwin, NGroups)) /\ Good(round(win, 1))
      /\ Good(round(cap(win \div outside), outside))
      /\ fits => Good(round(cap((win - NGroups) \div NGroups), NGroups))
  BY <1>1, <1>2, <1>3, <1>4, <1>5
<1> QED
  BY <1>6, <1>7, <1>8 DEF Good
=============================================================================
