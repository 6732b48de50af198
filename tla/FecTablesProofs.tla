--------------------------- MODULE FecTablesProofs ---------------------------
(***************************************************************************)
(* What the passes over the FEC tables leave of them, for every path and   *)
(* every table: lemmas for FecRouterProofs and FecEndProofs.               *)
(***************************************************************************)
EXTENDS FecTables, SequenceTheorems, FiniteSetTheorems, WellFoundedInduction, TLAPS

\* What the lemmas need to know of a packet's tag.
Tag(p) == p.rid \in Nat /\ p.gid \in Groups

\* A non-empty set of naturals has the minimum that Min chooses, so the first
\* match of a search exists.
LEMMA MinIsLeast ==
  ASSUME NEW S \in SUBSET Nat, S # {}
  PROVE  Min(S) \in S /\ \A y \in S : Min(S) <= y
<1>1. \E x \in S : \A y \in S : ~(<<y, x>> \in OpToRel(<, Nat))
  BY NatLessThanWellFounded, WFMin
<1>2. \A x, y \in Nat : y < x => <<y, x>> \in OpToRel(<, Nat)
  BY DEF OpToRel
<1>3. PICK x \in S : \A y \in S : ~(<<y, x>> \in OpToRel(<, Nat))
  BY <1>1
<1>4. \A y \in S : x =< y
  <2> SUFFICES ASSUME NEW y \in S PROVE x =< y
    OBVIOUS
  <2>1. x \in Nat /\ y \in Nat
    OBVIOUS
  <2>2. ~(y < x)
    BY <1>2, <1>3, <2>1
  <2> QED
    BY <2>1, <2>2
<1> QED
  BY <1>4 DEF Min

\* First finds the least element of a non-empty set of positions.
LEMMA FirstIsLeast ==
  ASSUME NEW I \in SUBSET Nat, I # {}
  PROVE  First(I) \in I /\ \A y \in I : First(I) <= y
BY MinIsLeast DEF First

\* On a queue of consecutive rounds that holds round rid, PopBelow leaves that
\* round in front and everything behind it.
LEMMA PopBelowConsecutive ==
  ASSUME NEW S, NEW q \in Seq(S), NEW b \in Int, NEW n \in 1 .. Len(q),
         NEW rid \in Int, rid = b + n,
         Rounds(q, b)
  PROVE  /\ PopBelow(q, rid) \in Seq(S)
         /\ Len(PopBelow(q, rid)) = Len(q) - n + 1
         /\ \A i \in 1 .. Len(PopBelow(q, rid)) : PopBelow(q, rid)[i] = q[n + i - 1]
<1> DEFINE I == {i \in 1 .. Len(q) : q[i].rid >= rid}
<1>0. Len(q) \in Nat /\ n \in Int /\ n # 0 /\ n <= Len(q)
  BY LenProperties
<1>1. I \in SUBSET Nat /\ n \in I /\ \A i \in I : n <= i
  BY <1>0 DEF Rounds
<1>2. First(I) = n
  <2>1. First(I) \in I /\ \A y \in I : First(I) <= y
    BY <1>1, FirstIsLeast
  <2> QED
    BY <1>1, <2>1
<1>3. PopBelow(q, rid) = SubSeq(q, n, Len(q))
  <2>1. PopBelow(q, rid) = IF First(I) = 0 THEN <<>> ELSE SubSeq(q, First(I), Len(q))
    BY DEF PopBelow
  <2> HIDE DEF I
  <2> QED
    BY <1>0, <1>2, <2>1
<1>4. \A i \in n .. Len(q) : q[i] \in S
  BY ElementOfSeq
<1> QED
  <2>1. /\ SubSeq(q, n, Len(q)) \in Seq(S)
        /\ Len(SubSeq(q, n, Len(q))) = IF n <= Len(q) THEN Len(q) - n + 1 ELSE 0
        /\ \A i \in 1 .. Len(q) - n + 1 : SubSeq(q, n, Len(q))[i] = q[n + i - 1]
    BY <1>0, <1>4, SubSeqProperties
  <2>2. Len(PopBelow(q, rid)) = Len(q) - n + 1
    BY <1>0, <1>3, <2>1
  <2> QED
    BY <1>3, <2>1, <2>2

\* The searches for an entry that is there find one.
LEMMA PosFound ==
  ASSUME NEW pi \in Seq(PacketInfo), NEW p
  PROVE  /\ (\E k \in 1 .. Len(pi) : pi[k].serial = p.serial /\ pi[k].gid = p.gid)
              => PosInRound(pi, p) \in 1 .. Len(pi)
         /\ (\E k \in 1 .. Len(pi) : pi[k].serial = p.serial)
              => PosInGroup(pi, p) \in 1 .. Len(pi)
<1> DEFINE R == {i \in 1 .. Len(pi) : pi[i].serial = p.serial /\ pi[i].gid = p.gid}
           G == {i \in 1 .. Len(pi) : pi[i].serial = p.serial}
<1>1. R \in SUBSET Nat /\ G \in SUBSET Nat
  OBVIOUS
<1>2. (R # {} => First(R) \in R) /\ (G # {} => First(G) \in G)
  BY <1>1, FirstIsLeast
<1> QED
  BY <1>2 DEF PosInRound, PosInGroup

\* The transit queue stays a sequence of packets.
LEMMA InsertType ==
  ASSUME NEW P, NEW tq \in Seq(P), NEW p \in P
  PROVE  InsertTransitQueue(tq, p) \in Seq(P)
<1> DEFINE I == {i \in 1 .. Len(tq) : tq[i].serial > p.serial}
           k == First(I)
<1>1. CASE k = 0
  BY <1>1, AppendProperties DEF InsertTransitQueue
<1>2. CASE k # 0
  <2>1. k \in 1 .. Len(tq)
    <3>1. I \in SUBSET Nat /\ I # {}
      BY <1>2 DEF First
    <3> QED
      BY <3>1, FirstIsLeast
  <2>2. \A i \in 1 .. Len(tq) : tq[i] \in P
    BY ElementOfSeq
  <2> HIDE DEF k
  <2>3. SubSeq(tq, 1, k - 1) \in Seq(P)
    BY <2>1, <2>2, SubSeqProperties, LenProperties
  <2>4. SubSeq(tq, k, Len(tq)) \in Seq(P)
    BY <2>1, <2>2, SubSeqProperties, LenProperties
  <2>5. <<p>> \in Seq(P)
    OBVIOUS
  <2>6. SubSeq(tq, 1, k - 1) \o <<p>> \o SubSeq(tq, k, Len(tq)) \in Seq(P)
    BY <2>3, <2>4, <2>5, ConcatProperties
  <2> QED
    BY <1>2, <2>6 DEF InsertTransitQueue, k
<1> QED
  BY <1>1, <1>2
-----------------------------------------------------------------------------
(* What the four table passes leave of the tables *)

\* Two lists with the same entries up to check_ and flag_.
SameList(a, b) ==
  /\ Len(a) = Len(b)
  /\ \A k \in 1 .. Len(a) :
       a[k].serial = b[k].serial /\ a[k].gid = b[k].gid /\ a[k].hdr = b[k].hdr

\* Round table c is a without its first off rounds, up to check_ and flag_.
RoundsAfter(c, a, off) ==
  /\ c \in Seq(RoundFecTable)
  /\ Len(c) = Len(a) - off
  /\ \A i \in 1 .. Len(c) :
       c[i].rid = a[off + i].rid /\ c[i].n = a[off + i].n /\ SameList(c[i].pi, a[off + i].pi)

\* The same for group tables; group g0 of the first round may be emptied.
GroupsAfter(c, a, off, g0) ==
  /\ c \in Seq(GroupFecTable)
  /\ Len(c) = Len(a) - off
  /\ \A i \in 1 .. Len(c) :
       /\ c[i].rid = a[off + i].rid
       /\ \A g \in Groups : \/ SameList(c[i].gi[g], a[off + i].gi[g])
                            \/ i = 1 /\ g = g0 /\ c[i].gi[g] = <<>>

\* No group has this number: nothing was emptied.
NoGroup == -1

\* Two passes one after the other.
LEMMA RoundsAfterCompose ==
  ASSUME NEW a, Len(a) \in Nat, NEW b, NEW c, NEW x \in Nat, NEW y \in Nat,
         RoundsAfter(b, a, x), RoundsAfter(c, b, y)
  PROVE  RoundsAfter(c, a, x + y)
<1>1. Len(b) = Len(a) - x /\ Len(c) = Len(b) - y /\ Len(c) = Len(a) - (x + y)
  BY DEF RoundsAfter
<1>2. ASSUME NEW i \in 1 .. Len(c)
      PROVE  /\ c[i].rid = a[(x + y) + i].rid /\ c[i].n = a[(x + y) + i].n
             /\ SameList(c[i].pi, a[(x + y) + i].pi)
  <2>1. y + i \in 1 .. Len(b) /\ x + (y + i) = (x + y) + i
    BY <1>1
  <2>2. c[i].rid = b[y + i].rid /\ c[i].n = b[y + i].n /\ SameList(c[i].pi, b[y + i].pi)
    BY DEF RoundsAfter
  <2>3. /\ b[y + i].rid = a[(x + y) + i].rid /\ b[y + i].n = a[(x + y) + i].n
        /\ SameList(b[y + i].pi, a[(x + y) + i].pi)
    BY <2>1 DEF RoundsAfter
  <2> QED
    BY <2>2, <2>3 DEF SameList
<1> QED
  BY <1>1, <1>2 DEF RoundsAfter

\* The same for group tables.
LEMMA GroupsAfterCompose ==
  ASSUME NEW a, Len(a) \in Nat, NEW b, NEW c, NEW x \in Nat, NEW g0,
         GroupsAfter(b, a, x, NoGroup), GroupsAfter(c, b, 0, g0)
  PROVE  GroupsAfter(c, a, x, g0)
<1>1. Len(b) = Len(a) - x /\ Len(c) = Len(b) /\ Len(c) = Len(a) - x
  BY DEF GroupsAfter
<1>2. ASSUME NEW i \in 1 .. Len(c)
      PROVE  /\ c[i].rid = a[x + i].rid
             /\ \A g \in Groups : \/ SameList(c[i].gi[g], a[x + i].gi[g])
                                  \/ i = 1 /\ g = g0 /\ c[i].gi[g] = <<>>
  <2>1. i \in 1 .. Len(b) /\ 0 + i = i
    BY <1>1
  <2>2. /\ c[i].rid = b[i].rid
        /\ \A g \in Groups : \/ SameList(c[i].gi[g], b[i].gi[g])
                             \/ i = 1 /\ g = g0 /\ c[i].gi[g] = <<>>
    BY <2>1 DEF GroupsAfter
  <2>3. \A g \in Groups : g # NoGroup
    BY NGroupsAssumption DEF Groups, NoGroup
  <2>4. b[i].rid = a[x + i].rid /\ \A g \in Groups : SameList(b[i].gi[g], a[x + i].gi[g])
    BY <2>1, <2>3 DEF GroupsAfter
  <2> QED
    BY <2>2, <2>4, SMTT(60) DEF SameList
<1> QED
  BY <1>1, <1>2 DEF GroupsAfter

\* Marks in the front round.
LEMMA RoundsAfterFront ==
  ASSUME NEW q \in Seq(RoundFecTable), q # <<>>, NEW t \in RoundFecTable,
         t.rid = q[1].rid, t.n = q[1].n, SameList(t.pi, q[1].pi)
  PROVE  RoundsAfter([q EXCEPT ![1] = t], q, 0)
<1>1. 1 \in 1 .. Len(q) /\ Len(q) \in Nat
  BY LenProperties
<1>2. /\ [q EXCEPT ![1] = t] \in Seq(RoundFecTable)
      /\ Len([q EXCEPT ![1] = t]) = Len(q)
      /\ \A i \in 1 .. Len(q) : [q EXCEPT ![1] = t][i] = IF i = 1 THEN t ELSE q[i]
  BY <1>1, ExceptSeq
<1>3. \A i \in 1 .. Len(q) : 0 + i = i /\ SameList(q[i].pi, q[i].pi)
  BY DEF SameList
<1> QED
  BY <1>1, <1>2, <1>3 DEF RoundsAfter

\* Marks in the front round, or an emptied group g0.
LEMMA GroupsAfterFront ==
  ASSUME NEW q \in Seq(GroupFecTable), q # <<>>, NEW t \in GroupFecTable, NEW g0,
         t.rid = q[1].rid,
         \A g \in Groups : SameList(t.gi[g], q[1].gi[g]) \/ (g = g0 /\ t.gi[g] = <<>>)
  PROVE  GroupsAfter([q EXCEPT ![1] = t], q, 0, g0)
<1>1. 1 \in 1 .. Len(q) /\ Len(q) \in Nat
  BY LenProperties
<1>2. /\ [q EXCEPT ![1] = t] \in Seq(GroupFecTable)
      /\ Len([q EXCEPT ![1] = t]) = Len(q)
      /\ \A i \in 1 .. Len(q) : [q EXCEPT ![1] = t][i] = IF i = 1 THEN t ELSE q[i]
  BY <1>1, ExceptSeq
<1>3. \A i \in 1 .. Len(q) : 0 + i = i /\ \A g \in Groups : SameList(q[i].gi[g], q[i].gi[g])
  BY DEF SameList
<1> QED
  BY <1>1, <1>2, <1>3 DEF GroupsAfter

\* What popping down to the packet's round leaves.
LEMMA PopRounds ==
  ASSUME NEW q \in Seq(RoundFecTable), NEW b \in Int, NEW n \in 1 .. Len(q),
         NEW p, p.rid \in Int, p.rid = b + n, Rounds(q, b)
  PROVE  /\ RoundsAfter(PopBelow(q, p.rid), q, n - 1)
         /\ PopBelow(q, p.rid) # <<>>
         /\ PopBelow(q, p.rid)[1] = q[n] /\ q[n].rid = p.rid
<1>1. /\ PopBelow(q, p.rid) \in Seq(RoundFecTable)
      /\ Len(PopBelow(q, p.rid)) = Len(q) - n + 1
      /\ \A i \in 1 .. Len(PopBelow(q, p.rid)) : PopBelow(q, p.rid)[i] = q[n + i - 1]
  BY PopBelowConsecutive, ZenonT(30)
<1>2. Len(q) \in Nat /\ n \in Int /\ 1 \in 1 .. Len(PopBelow(q, p.rid)) /\ n + 1 - 1 = n
  BY <1>1, LenProperties
<1>3. \A i \in 1 .. Len(PopBelow(q, p.rid)) : (n - 1) + i = n + i - 1 /\ SameList(q[n + i - 1].pi, q[n + i - 1].pi)
  BY <1>2 DEF SameList
<1>4. RoundsAfter(PopBelow(q, p.rid), q, n - 1)
  BY <1>1, <1>2, <1>3 DEF RoundsAfter
<1> QED
  BY <1>1, <1>2, <1>4 DEF Rounds

\* The same for group tables.
LEMMA PopGroups ==
  ASSUME NEW q \in Seq(GroupFecTable), NEW b \in Int, NEW n \in 1 .. Len(q),
         NEW p, p.rid \in Int, p.rid = b + n, Rounds(q, b)
  PROVE  /\ GroupsAfter(PopBelow(q, p.rid), q, n - 1, NoGroup)
         /\ PopBelow(q, p.rid) # <<>>
         /\ PopBelow(q, p.rid)[1] = q[n] /\ q[n].rid = p.rid
<1>1. /\ PopBelow(q, p.rid) \in Seq(GroupFecTable)
      /\ Len(PopBelow(q, p.rid)) = Len(q) - n + 1
      /\ \A i \in 1 .. Len(PopBelow(q, p.rid)) : PopBelow(q, p.rid)[i] = q[n + i - 1]
  BY PopBelowConsecutive, ZenonT(30)
<1>2. Len(q) \in Nat /\ n \in Int /\ 1 \in 1 .. Len(PopBelow(q, p.rid)) /\ n + 1 - 1 = n
  BY <1>1, LenProperties
<1>3. \A i \in 1 .. Len(PopBelow(q, p.rid)) :
        (n - 1) + i = n + i - 1 /\ \A g \in Groups : SameList(q[n + i - 1].gi[g], q[n + i - 1].gi[g])
  BY <1>2 DEF SameList
<1>4. GroupsAfter(PopBelow(q, p.rid), q, n - 1, NoGroup)
  BY <1>1, <1>2, <1>3 DEF GroupsAfter
<1>5. q[n].rid = p.rid
  BY DEF Rounds
<1>6. PopBelow(q, p.rid)[1] = q[n]
  BY <1>1, <1>2
<1>7. PopBelow(q, p.rid) # <<>>
  BY <1>2
<1> QED
  BY <1>4, <1>5, <1>6, <1>7

\* Marking an entry changes nothing but its check_.
LEMMA CheckedSame ==
  ASSUME NEW pi \in Seq(PacketInfo), NEW k \in 1 .. Len(pi)
  PROVE  Checked(pi, k) \in Seq(PacketInfo) /\ SameList(Checked(pi, k), pi)
<1>1. [pi[k] EXCEPT !.check = TRUE] \in PacketInfo
  <2>1. pi[k] \in PacketInfo
    BY ElementOfSeq
  <2> QED
    BY <2>1 DEF PacketInfo
<1>2. Checked(pi, k) = [pi EXCEPT ![k] = [pi[k] EXCEPT !.check = TRUE]]
  BY DEF Checked
<1>3. \A i \in 1 .. Len(pi) : pi[i] \in PacketInfo
  BY ElementOfSeq
<1> QED
  BY <1>1, <1>2, <1>3, ExceptSeq DEF SameList, PacketInfo

\* MarkRoundFecTable drops the rounds before that of the packet, and its
\* search for the packet's entry ends.
LEMMA MarkRoundPass ==
  ASSUME NEW rt \in Seq(RoundFecTable), NEW b \in Int, NEW p, Tag(p),
         Rounds(rt, b), NEW n \in 1 .. Len(rt), p.rid = b + n, RoundHas(rt[n], p)
  PROVE  /\ RoundServes(rt, p)
         /\ RoundsAfter(MarkRoundFecTable(rt, p), rt, n - 1)
         /\ MarkRoundFecTable(rt, p) # <<>>
         /\ MarkRoundFecTable(rt, p)[1].rid = p.rid
         /\ MarkRoundFecTable(rt, p)[1].n = rt[n].n
<1> DEFINE q == PopBelow(rt, p.rid)
           k == PosInRound(q[1].pi, p)
           t == [q[1] EXCEPT !.pi = Checked(q[1].pi, k)]
<1>0. p.rid \in Int /\ n \in Int /\ Len(rt) \in Nat /\ n - 1 \in Nat
  BY LenProperties DEF Tag
<1>1. RoundsAfter(q, rt, n - 1) /\ q # <<>> /\ q[1] = rt[n] /\ rt[n].rid = p.rid
  BY <1>0, PopRounds
<1>2. q \in Seq(RoundFecTable) /\ q[1] \in RoundFecTable
  <2>1. rt[n] \in RoundFecTable
    BY ElementOfSeq
  <2> QED
    BY <1>1, <2>1 DEF RoundsAfter
<1>3. q[1].pi \in Seq(PacketInfo)
  BY <1>2 DEF RoundFecTable
<1>4. k \in 1 .. Len(q[1].pi)
  BY <1>1, <1>3, PosFound DEF RoundHas
<1>5. rt # <<>> /\ p.rid >= rt[1].rid /\ ~(p.rid < rt[1].rid)
  BY <1>0 DEF Rounds
<1>6. RoundServes(rt, p)
  BY <1>1, <1>4, <1>5 DEF RoundServes
<1>7. MarkRoundFecTable(rt, p) = [q EXCEPT ![1] = t]
  BY <1>5 DEF MarkRoundFecTable
<1>8. /\ Checked(q[1].pi, k) \in Seq(PacketInfo)
      /\ SameList(Checked(q[1].pi, k), q[1].pi)
  BY <1>3, <1>4, CheckedSame
<1>9. t \in RoundFecTable /\ t.rid = q[1].rid /\ t.n = q[1].n /\ SameList(t.pi, q[1].pi)
  BY <1>2, <1>8 DEF RoundFecTable
<1> HIDE DEF q, t
<1>10. RoundsAfter([q EXCEPT ![1] = t], q, 0)
  BY <1>1, <1>2, <1>9, RoundsAfterFront
<1>11. RoundsAfter([q EXCEPT ![1] = t], rt, (n - 1) + 0)
  BY <1>0, <1>1, <1>10, RoundsAfterCompose
<1>12. (n - 1) + 0 = n - 1
  BY <1>0
<1>13. [q EXCEPT ![1] = t] # <<>> /\ [q EXCEPT ![1] = t][1] = t
  <2>1. 1 \in DOMAIN q /\ 1 \in 1 .. Len(q)
    BY <1>1, <1>2
  <2>2. Len([q EXCEPT ![1] = t]) = Len(q) /\ [q EXCEPT ![1] = t] \in Seq(RoundFecTable)
    BY <1>2, <1>9, <2>1, ExceptSeq
  <2> QED
    BY <2>1, <2>2
<1> QED
  BY <1>1, <1>6, <1>7, <1>9, <1>11, <1>12, <1>13

\* CheckRoundFecTable leaves the entries alone; the last group's redundant
\* packet pops the round.
LEMMA CheckRoundPass ==
  ASSUME NEW rt \in Seq(RoundFecTable), NEW p, Tag(p), rt # <<>>, rt[1].rid = p.rid
  PROVE  /\ ClosesRound(rt, p) => RoundsAfter(CheckRoundFecTable(rt, p).rt, rt, 1)
         /\ ~ClosesRound(rt, p) => RoundsAfter(CheckRoundFecTable(rt, p).rt, rt, 0)
<1> DEFINE pi   == rt[1].pi
           n    == IF p.type = DATA THEN PosInGroup(pi, p) + 1 ELSE Len(pi) + 1
           lst  == Missing(pi, n, Fwin * NGroups)
           ask  == IF p.type = DATA /\ SendRxRequest
                   THEN {i \in lst : ~pi[i].flag} ELSE {}
           seen == Flagged(pi, ask)
           t    == [rt[1] EXCEPT !.pi = seen]
<1>1. p.rid \in Int /\ ~(p.rid < rt[1].rid)
  BY DEF Tag
<1>2. CheckRoundFecTable(rt, p).rt =
        IF ClosesRound(rt, p) THEN Tail(rt) ELSE [rt EXCEPT ![1] = t]
  BY <1>1 DEF CheckRoundFecTable
<1>3. 1 \in 1 .. Len(rt) /\ rt[1] \in RoundFecTable /\ pi \in Seq(PacketInfo)
  <2>1. 1 \in 1 .. Len(rt)
    OBVIOUS
  <2>2. rt[1] \in RoundFecTable
    BY <2>1, ElementOfSeq
  <2> QED
    BY <2>1, <2>2 DEF RoundFecTable
<1>4. seen \in Seq(PacketInfo) /\ SameList(seen, pi)
  <2> HIDE DEF ask, pi
  <2>1. pi \in Seq(PacketInfo) /\ DOMAIN pi = 1 .. Len(pi) /\ Len(pi) \in Nat
    BY <1>3, LenProperties
  <2>2. \A i \in 1 .. Len(pi) : pi[i] \in PacketInfo
    BY <2>1, ElementOfSeq
  <2>3. \A i \in 1 .. Len(pi) :
          /\ [pi[i] EXCEPT !.flag = @ \/ i \in ask] \in PacketInfo
          /\ [pi[i] EXCEPT !.flag = @ \/ i \in ask].serial = pi[i].serial
          /\ [pi[i] EXCEPT !.flag = @ \/ i \in ask].gid = pi[i].gid
          /\ [pi[i] EXCEPT !.flag = @ \/ i \in ask].hdr = pi[i].hdr
    BY <2>2 DEF PacketInfo
  <2>4. Len(seen) = Len(pi) /\ seen \in Seq(PacketInfo)
    BY <2>1, <2>3, IsASeq, LenProperties DEF Flagged
  <2> QED
    BY <2>1, <2>3, <2>4 DEF SameList, Flagged
<1>5. t \in RoundFecTable /\ t.rid = rt[1].rid /\ t.n = rt[1].n /\ SameList(t.pi, rt[1].pi)
  <2> HIDE DEF seen
  <2> QED
    BY <1>3, <1>4 DEF RoundFecTable
<1> HIDE DEF t
<1>6. RoundsAfter([rt EXCEPT ![1] = t], rt, 0)
  BY <1>5, RoundsAfterFront
<1>7. RoundsAfter(Tail(rt), rt, 1)
  <2>1. /\ Tail(rt) \in Seq(RoundFecTable) /\ Len(Tail(rt)) = Len(rt) - 1
        /\ \A i \in 1 .. Len(Tail(rt)) : Tail(rt)[i] = rt[i + 1]
    BY HeadTailProperties
  <2>2. \A i \in 1 .. Len(Tail(rt)) : i + 1 = 1 + i /\ SameList(rt[i + 1].pi, rt[i + 1].pi)
    BY <2>1 DEF SameList
  <2> QED
    BY <2>1, <2>2 DEF RoundsAfter
<1> QED
  BY <1>2, <1>6, <1>7

\* Packet p closes the round of table t.
Closing(t, p) == p.type = REDUNDANT /\ p.gid = t.n - 1

\* Round table c is what the round passes for p leave of rt, in which p's
\* round is the nth: a prefix of rounds is gone, the packet's own round only
\* when the packet closes it.
RoundsSettled(c, rt, n, p) ==
  RoundsAfter(c, rt, IF Closing(rt[n], p) THEN n ELSE n - 1)

\* Two round passes, the second of which closes the round or leaves it.
LEMMA RoundPass ==
  ASSUME NEW rt \in Seq(RoundFecTable), NEW b \in Int, NEW p, Tag(p),
         Rounds(rt, b), NEW n \in 1 .. Len(rt), p.rid = b + n, RoundHas(rt[n], p), NEW c,
         ClosesRound(MarkRoundFecTable(rt, p), p) => RoundsAfter(c, MarkRoundFecTable(rt, p), 1),
         ~ClosesRound(MarkRoundFecTable(rt, p), p) => RoundsAfter(c, MarkRoundFecTable(rt, p), 0)
  PROVE  RoundsSettled(c, rt, n, p)
<1> DEFINE m == MarkRoundFecTable(rt, p)
<1>0. n - 1 \in Nat /\ Len(rt) \in Nat /\ (n - 1) + 1 = n /\ (n - 1) + 0 = n - 1
  BY LenProperties
<1>1. RoundsAfter(m, rt, n - 1) /\ m[1].n = rt[n].n
  BY MarkRoundPass
<1>2. ClosesRound(m, p) <=> Closing(rt[n], p)
  BY <1>1 DEF ClosesRound, Closing
<1> HIDE DEF m
<1>3. (Closing(rt[n], p) => RoundsAfter(c, m, 1)) /\ (~Closing(rt[n], p) => RoundsAfter(c, m, 0))
  BY <1>2 DEF m
<1>4. Closing(rt[n], p) => RoundsAfter(c, rt, (n - 1) + 1)
  BY <1>0, <1>1, <1>3, RoundsAfterCompose
<1>5. ~Closing(rt[n], p) => RoundsAfter(c, rt, (n - 1) + 0)
  BY <1>0, <1>1, <1>3, RoundsAfterCompose
<1> QED
  BY <1>0, <1>4, <1>5 DEF RoundsSettled
\* MarkGroupFecTable on a round that is still in the round table: the same
\* for the group table.
LEMMA MarkGroupPass ==
  ASSUME NEW gt \in Seq(GroupFecTable), NEW b \in Int, NEW p, Tag(p),
         Rounds(gt, b), NEW n \in 1 .. Len(gt), p.rid = b + n, GroupHas(gt[n], p),
         NEW rt, rt # <<>>, ~(p.rid < rt[1].rid)
  PROVE  /\ GroupServes(rt, gt, p)
         /\ GroupsAfter(MarkGroupFecTable(rt, gt, p).gt, gt, n - 1, NoGroup)
         /\ MarkGroupFecTable(rt, gt, p).gt # <<>>
         /\ MarkGroupFecTable(rt, gt, p).gt[1].rid = p.rid
<1> DEFINE q == PopBelow(gt, p.rid)
           pi == q[1].gi[p.gid]
           k == PosInGroup(pi, p)
           gi == [q[1].gi EXCEPT ![p.gid] = Checked(pi, k)]
           t == [q[1] EXCEPT !.gi = gi]
<1>0. p.rid \in Int /\ n \in Int /\ Len(gt) \in Nat /\ n - 1 \in Nat /\ p.gid \in Groups
  BY LenProperties DEF Tag
<1>1. GroupsAfter(q, gt, n - 1, NoGroup) /\ q # <<>> /\ q[1] = gt[n] /\ gt[n].rid = p.rid
  BY <1>0, PopGroups
<1>2. q \in Seq(GroupFecTable) /\ q[1] \in GroupFecTable
  <2>1. gt[n] \in GroupFecTable
    BY ElementOfSeq
  <2> QED
    BY <1>1, <2>1 DEF GroupsAfter
<1>3. q[1].gi \in [Groups -> Seq(PacketInfo)] /\ pi \in Seq(PacketInfo)
  BY <1>0, <1>2 DEF GroupFecTable
<1>4. k \in 1 .. Len(pi)
  BY <1>1, <1>3, PosFound DEF GroupHas
<1>5. GroupServes(rt, gt, p)
  BY <1>1, <1>4 DEF GroupServes
<1>6. MarkGroupFecTable(rt, gt, p).gt = [q EXCEPT ![1] = t]
  BY DEF MarkGroupFecTable
<1>7. Checked(pi, k) \in Seq(PacketInfo) /\ SameList(Checked(pi, k), pi)
  BY <1>3, <1>4, CheckedSame
<1>8. \A a : SameList(a, a)
  BY DEF SameList
<1>9. /\ t \in GroupFecTable /\ t.rid = q[1].rid
      /\ \A g \in Groups : SameList(t.gi[g], q[1].gi[g])
  <2> HIDE DEF q, k
  <2> QED
    BY <1>0, <1>2, <1>3, <1>7, <1>8 DEF GroupFecTable
<1> HIDE DEF q, t
<1>10. GroupsAfter([q EXCEPT ![1] = t], q, 0, NoGroup)
  BY <1>1, <1>2, <1>9, GroupsAfterFront
<1>11. GroupsAfter([q EXCEPT ![1] = t], gt, n - 1, NoGroup)
  BY <1>0, <1>1, <1>10, GroupsAfterCompose
<1>12. [q EXCEPT ![1] = t] # <<>> /\ [q EXCEPT ![1] = t][1] = t
  <2>1. 1 \in DOMAIN q /\ 1 \in 1 .. Len(q)
    BY <1>1, <1>2
  <2>2. Len([q EXCEPT ![1] = t]) = Len(q) /\ [q EXCEPT ![1] = t] \in Seq(GroupFecTable)
    BY <1>2, <1>9, <2>1, ExceptSeq
  <2> QED
    BY <2>1, <2>2
<1> QED
  BY <1>1, <1>5, <1>6, <1>9, <1>11, <1>12

\* An entry that Missing singles out is an entry of the list.
LEMMA MissingEntry ==
  ASSUME NEW pi \in Seq(PacketInfo), NEW p, NEW bound,
         Cardinality(Missing(pi, PosInGroup(pi, p), bound)) = 1
  PROVE  /\ (CHOOSE i \in Missing(pi, PosInGroup(pi, p), bound) : TRUE) \in 1 .. Len(pi)
         /\ pi[CHOOSE i \in Missing(pi, PosInGroup(pi, p), bound) : TRUE] \in PacketInfo
<1> DEFINE G == {i \in 1 .. Len(pi) : pi[i].serial = p.serial}
           n == PosInGroup(pi, p)
           lst == Missing(pi, n, bound)
<1>1. Len(pi) \in Nat
  BY LenProperties
<1>2. n \in 0 .. Len(pi)
  <2>1. G \in SUBSET Nat /\ n = First(G)
    BY DEF PosInGroup
  <2>2. CASE G = {}
    <3>1. First(G) = 0
      BY <2>2 DEF First
    <3> QED
      BY <1>1, <2>1, <3>1
  <2>3. CASE G # {}
    <3>1. First(G) \in G
      BY <2>1, <2>3, FirstIsLeast
    <3>2. First(G) \in 1 .. Len(pi)
      BY <3>1
    <3> HIDE DEF G, n
    <3> QED
      BY <1>1, <2>1, <3>2
  <2> QED
    BY <2>2, <2>3
<1> HIDE DEF n
<1>3. lst \subseteq 1 .. Len(pi)
  BY <1>1, <1>2 DEF Missing
<1>4. lst # {}
  <2>1. Cardinality({}) = 0
    BY FS_EmptySet
  <2>2. ASSUME lst = {} PROVE FALSE
    <3>1. Cardinality(lst) = 0
      BY <2>1, <2>2
    <3> QED
      BY <3>1 DEF n
  <2> QED
    BY <2>2
<1>5. (CHOOSE i \in lst : TRUE) \in lst
  BY <1>4
<1> HIDE DEF lst
<1>6. pi[CHOOSE i \in lst : TRUE] \in PacketInfo
  BY <1>3, <1>5, ElementOfSeq
<1> QED
  BY <1>3, <1>5, <1>6 DEF lst, n

\* Entry e has the header of an entry of group table gt.
FromTable(e, gt) ==
  \E i \in 1 .. Len(gt), g \in Groups : \E k \in 1 .. Len(gt[i].gi[g]) : e.hdr = gt[i].gi[g][k].hdr

\* CheckGroupFecTable empties the packet's group in the front round and
\* touches nothing else; what it recovers is an entry of that group.
LEMMA CheckGroupPass ==
  ASSUME NEW gt \in Seq(GroupFecTable), gt # <<>>, NEW p, Tag(p),
         gt[1].rid = p.rid,
         NEW rt, ~(p.rid < rt[1].rid), NEW nlost
  PROVE  /\ GroupsAfter(CheckGroupFecTable(rt, gt, p, nlost).gt, gt, 0, p.gid)
         /\ CheckGroupFecTable(rt, gt, p, nlost).recovered \in Seq(PacketInfo)
         /\ CheckGroupFecTable(rt, gt, p, nlost).recovered # <<>> =>
              FromTable(CheckGroupFecTable(rt, gt, p, nlost).recovered[1], gt)
<1> DEFINE q == PopBelow(gt, p.rid)
           pi == q[1].gi[p.gid]
           lst == Missing(pi, PosInGroup(pi, p), p.serial)
           gi == [q[1].gi EXCEPT ![p.gid] = <<>>]
           t == [q[1] EXCEPT !.gi = gi]
<1>0. p.rid \in Int /\ p.gid \in Groups /\ Len(gt) \in Nat /\ 1 \in 1 .. Len(gt)
  BY LenProperties DEF Tag
<1>1. q = gt
  <2> DEFINE I == {i \in 1 .. Len(gt) : gt[i].rid >= p.rid}
  <2>1. I \in SUBSET Nat /\ 1 \in I /\ \A i \in I : 1 <= i
    BY <1>0
  <2>2. First(I) \in I /\ \A y \in I : First(I) <= y
    BY <2>1, FirstIsLeast
  <2>3. First(I) = 1
    BY <2>1, <2>2
  <2>4. q = IF First(I) = 0 THEN <<>> ELSE SubSeq(gt, First(I), Len(gt))
    BY DEF PopBelow
  <2> HIDE DEF I, q
  <2>5. q = SubSeq(gt, 1, Len(gt))
    BY <2>3, <2>4
  <2>6. SubSeq(gt, 1, Len(gt)) = gt
    BY SubSeqFull
  <2> QED
    BY <2>5, <2>6
<1>2. gt[1] \in GroupFecTable
  BY <1>0, ElementOfSeq
<1>3. gt[1].gi \in [Groups -> Seq(PacketInfo)] /\ gt[1].gi[p.gid] \in Seq(PacketInfo)
  BY <1>0, <1>2 DEF GroupFecTable
<1>4. CheckGroupFecTable(rt, gt, p, nlost) =
        [gt |-> [q EXCEPT ![1] = t], mlost |-> Cardinality(lst),
         recovered |-> IF nlost = 1 /\ Cardinality(lst) = 1
                       THEN <<pi[CHOOSE i \in lst : TRUE]>> ELSE <<>>]
  BY DEF CheckGroupFecTable
<1> HIDE DEF q
<1>5. /\ t \in GroupFecTable /\ t.rid = gt[1].rid
      /\ \A g \in Groups : SameList(t.gi[g], gt[1].gi[g]) \/ (g = p.gid /\ t.gi[g] = <<>>)
  <2>1. <<>> \in Seq(PacketInfo)
    OBVIOUS
  <2>2. \A a : SameList(a, a)
    BY DEF SameList
  <2> QED
    BY <1>0, <1>1, <1>2, <1>3, <2>1, <2>2 DEF GroupFecTable
<1>6. ASSUME Cardinality(lst) = 1
      PROVE  /\ <<pi[CHOOSE i \in lst : TRUE]>> \in Seq(PacketInfo)
             /\ FromTable(pi[CHOOSE i \in lst : TRUE], gt)
  <2>1. pi \in Seq(PacketInfo) /\ pi = gt[1].gi[p.gid]
    BY <1>1, <1>3
  <2>2. /\ (CHOOSE i \in lst : TRUE) \in 1 .. Len(pi)
        /\ pi[CHOOSE i \in lst : TRUE] \in PacketInfo
    BY <1>6, <2>1, MissingEntry
  <2>3. PICK k \in 1 .. Len(pi) : k = CHOOSE i \in lst : TRUE
    BY <2>2
  <2> HIDE DEF pi, lst
  <2>4. FromTable(pi[k], gt)
    BY <1>0, <2>1 DEF FromTable
  <2>5. <<pi[k]>> \in Seq(PacketInfo)
    BY <2>2, <2>3
  <2> QED
    BY <2>3, <2>4, <2>5
<1> HIDE DEF t, lst, pi
<1>7. GroupsAfter([q EXCEPT ![1] = t], gt, 0, p.gid)
  BY <1>1, <1>5, GroupsAfterFront
<1>8. /\ CheckGroupFecTable(rt, gt, p, nlost).recovered \in Seq(PacketInfo)
      /\ CheckGroupFecTable(rt, gt, p, nlost).recovered # <<>> =>
           FromTable(CheckGroupFecTable(rt, gt, p, nlost).recovered[1], gt)
  <2>1. PICK x : x = pi[CHOOSE i \in lst : TRUE]
    OBVIOUS
  <2>2. \/ CheckGroupFecTable(rt, gt, p, nlost).recovered = <<>>
        \/ CheckGroupFecTable(rt, gt, p, nlost).recovered = <<x>> /\ Cardinality(lst) = 1
    BY <1>4, <2>1
  <2>3. Cardinality(lst) = 1 => <<x>> \in Seq(PacketInfo) /\ FromTable(x, gt)
    BY <1>6, <2>1
  <2>4. <<x>>[1] = x /\ <<>> \in Seq(PacketInfo)
    OBVIOUS
  <2> QED
    BY <2>2, <2>3, <2>4
<1>9. CheckGroupFecTable(rt, gt, p, nlost).gt = [q EXCEPT ![1] = t]
  BY <1>4
<1> QED
  BY <1>7, <1>8, <1>9
-----------------------------------------------------------------------------
(* Recv on the packet at the head of the path *)

\* Group table c is gt without the rounds before o + 1, where the packet's
\* round m is not among them; at most the group that redundant packet p has
\* settled is emptied, and then p's round is in front.
GroupsSettled(c, gt, m, p) ==
  \E o \in Nat :
    /\ o < m
    /\ \/ GroupsAfter(c, gt, o, NoGroup)
       \/ o = m - 1 /\ p.type = REDUNDANT /\ GroupsAfter(c, gt, o, p.gid)

\* A group table that was not touched.
LEMMA GroupsUntouched ==
  ASSUME NEW gt \in Seq(GroupFecTable), NEW m \in 1 .. Len(gt), NEW p
  PROVE  GroupsSettled(gt, gt, m, p)
<1>1. \A i \in 1 .. Len(gt) : 0 + i = i /\ \A g \in Groups : SameList(gt[i].gi[g], gt[i].gi[g])
  BY DEF SameList
<1>2. Len(gt) \in Nat /\ 0 < m /\ Len(gt) = Len(gt) - 0
  BY LenProperties
<1>3. GroupsAfter(gt, gt, 0, NoGroup)
  BY <1>1, <1>2 DEF GroupsAfter
<1> QED
  BY <1>2, <1>3 DEF GroupsSettled

\* Both group passes together.
LEMMA GroupPass ==
  ASSUME NEW gt \in Seq(GroupFecTable), NEW b \in Int, NEW p, Tag(p),
         Rounds(gt, b), NEW m \in 1 .. Len(gt), p.rid = b + m, GroupHas(gt[m], p),
         NEW rt, rt # <<>>, ~(p.rid < rt[1].rid)
  PROVE  LET grp == MarkGroupFecTable(rt, gt, p)
             x   == CheckGroupFecTable(rt, grp.gt, p, grp.nlost)
         IN  /\ GroupServes(rt, gt, p)
             /\ GroupsSettled(grp.gt, gt, m, p)
             /\ p.type = REDUNDANT => GroupsSettled(x.gt, gt, m, p)
             /\ x.recovered \in Seq(PacketInfo)
             /\ x.recovered # <<>> => FromTable(x.recovered[1], gt)
<1> DEFINE grp == MarkGroupFecTable(rt, gt, p)
           x   == CheckGroupFecTable(rt, grp.gt, p, grp.nlost)
<1>0. m - 1 \in Nat /\ m - 1 < m /\ Len(gt) \in Nat
  BY LenProperties
<1>1. /\ GroupServes(rt, gt, p)
      /\ GroupsAfter(grp.gt, gt, m - 1, NoGroup) /\ grp.gt # <<>> /\ grp.gt[1].rid = p.rid
  BY MarkGroupPass
<1> HIDE DEF grp
<1>2. grp.gt \in Seq(GroupFecTable)
  BY <1>1 DEF GroupsAfter
<1>3. /\ GroupsAfter(x.gt, grp.gt, 0, p.gid) /\ x.recovered \in Seq(PacketInfo)
      /\ x.recovered # <<>> => FromTable(x.recovered[1], grp.gt)
  BY <1>1, <1>2, CheckGroupPass
<1> HIDE DEF x
<1>4. GroupsAfter(x.gt, gt, m - 1, p.gid)
  BY <1>0, <1>1, <1>3, GroupsAfterCompose
<1>5. GroupsSettled(grp.gt, gt, m, p)
  BY <1>0, <1>1 DEF GroupsSettled
<1>6. p.type = REDUNDANT => GroupsSettled(x.gt, gt, m, p)
  BY <1>0, <1>4 DEF GroupsSettled
<1>7. ASSUME NEW e, FromTable(e, grp.gt)
      PROVE  FromTable(e, gt)
  <2>1. PICK i \in 1 .. Len(grp.gt), g \in Groups :
          \E k \in 1 .. Len(grp.gt[i].gi[g]) : e.hdr = grp.gt[i].gi[g][k].hdr
    BY <1>7 DEF FromTable
  <2>2. PICK k \in 1 .. Len(grp.gt[i].gi[g]) : e.hdr = grp.gt[i].gi[g][k].hdr
    BY <2>1
  <2>3. g # NoGroup
    BY NGroupsAssumption DEF Groups, NoGroup
  <2>4. SameList(grp.gt[i].gi[g], gt[(m - 1) + i].gi[g]) /\ (m - 1) + i \in 1 .. Len(gt)
    BY <1>0, <1>1, <2>3 DEF GroupsAfter
  <2> QED
    BY <2>2, <2>4, ZenonT(60) DEF FromTable, SameList
<1> QED
  BY <1>1, <1>3, <1>5, <1>6, <1>7 DEF grp, x

\* What is true of a path is true when its head has left it.
LEMMA PathTail ==
  ASSUME NEW P, NEW l \in Seq(P), l # <<>>, NEW rt, NEW gt, NEW last, NEW fc, NEW gid
  PROVE  /\ Tail(l) \in Seq(P)
         /\ Covered(l, rt, gt, last) => Covered(Tail(l), rt, gt, last)
         /\ Ordered(l) => Ordered(Tail(l))
         /\ Behind(l, last, fc, gid) => Behind(Tail(l), last, fc, gid)
<1>1. /\ Tail(l) \in Seq(P) /\ Len(Tail(l)) = Len(l) - 1 /\ Len(l) \in Nat
      /\ \A i \in 1 .. Len(Tail(l)) : Tail(l)[i] = l[i + 1]
  BY HeadTailProperties, LenProperties
<1>2. \A i \in 1 .. Len(Tail(l)) : i + 1 \in 1 .. Len(l)
  BY <1>1
<1>3. \A i, j \in 1 .. Len(Tail(l)) : i < j => i + 1 < j + 1
  BY <1>1
<1> DEFINE t == Tail(l)
<1> HIDE DEF t
<1>4. \A i \in 1 .. Len(t) : t[i] = l[i + 1] /\ i + 1 \in 1 .. Len(l)
  BY <1>1, <1>2 DEF t
<1>5. \A i, j \in 1 .. Len(t) : i < j => i + 1 < j + 1
  BY <1>3 DEF t
<1>6. Covered(l, rt, gt, last) => Covered(t, rt, gt, last)
  BY <1>4 DEF Covered
<1>7. Ordered(l) => Ordered(t)
  BY <1>4, <1>5 DEF Ordered
<1>8. Behind(l, last, fc, gid) => Behind(t, last, fc, gid)
  BY <1>4 DEF Behind
<1> QED
  BY <1>1, <1>6, <1>7, <1>8 DEF t

\* A packet is added at the end of the path.
LEMMA PathAppend ==
  ASSUME NEW P, NEW l \in Seq(P), NEW p \in P,
         NEW rt, NEW gt, NEW last, NEW fc, NEW gid
  PROVE  /\ Append(l, p) \in Seq(P)
         /\ Covered(l, rt, gt, last) /\ (p.type # NONE => Recorded(rt, gt, last, p))
              => Covered(Append(l, p), rt, gt, last)
         /\ Ordered(l) /\ (p.type # NONE => \A m \in 1 .. Len(l) : l[m].type # NONE => Before(l[m], p))
              => Ordered(Append(l, p))
         /\ Behind(l, last, fc, gid) /\ (p.type # NONE => Behind(<<p>>, last, fc, gid))
              => Behind(Append(l, p), last, fc, gid)
<1> DEFINE t == Append(l, p)
<1>1. /\ t \in Seq(P) /\ Len(t) = Len(l) + 1 /\ Len(l) \in Nat
      /\ \A i \in 1 .. Len(l) : t[i] = l[i]
      /\ t[Len(l) + 1] = p
  BY AppendProperties, LenProperties
<1> HIDE DEF t
<1>2. \A i \in 1 .. Len(t) : (i \in 1 .. Len(l) /\ t[i] = l[i]) \/ (i = Len(l) + 1 /\ t[i] = p)
  BY <1>1
<1>3. ASSUME Covered(l, rt, gt, last), p.type # NONE => Recorded(rt, gt, last, p)
      PROVE  Covered(t, rt, gt, last)
  BY <1>2, <1>3 DEF Covered
<1>4. ASSUME Ordered(l), p.type # NONE => \A m \in 1 .. Len(l) : l[m].type # NONE => Before(l[m], p)
      PROVE  Ordered(t)
  <2> SUFFICES ASSUME NEW i \in 1 .. Len(t), NEW j \in 1 .. Len(t), i < j,
                      t[i].type # NONE, t[j].type # NONE
               PROVE  Before(t[i], t[j])
    BY DEF Ordered
  <2>1. i \in 1 .. Len(l) /\ t[i] = l[i]
    BY <1>1
  <2>2. CASE j \in 1 .. Len(l) /\ t[j] = l[j]
    BY <1>4, <2>1, <2>2 DEF Ordered
  <2>3. CASE t[j] = p
    BY <1>4, <2>1, <2>3
  <2> QED
    BY <1>2, <2>2, <2>3
<1>5. ASSUME Behind(l, last, fc, gid), p.type # NONE => Behind(<<p>>, last, fc, gid)
      PROVE  Behind(t, last, fc, gid)
  <2>1. p.type # NONE => /\ p.rid <= last
                         /\ p.type = REDUNDANT /\ p.rid = last => fc = 0 /\ p.gid < gid
    <3>1. 1 \in 1 .. Len(<<p>>) /\ <<p>>[1] = p
      OBVIOUS
    <3> QED
      BY <1>5, <3>1 DEF Behind
  <2> QED
    BY <1>2, <1>5, <2>1 DEF Behind
<1> QED
  BY <1>1, <1>3, <1>4, <1>5 DEF t
-----------------------------------------------------------------------------
(* What the sending side does to the tables *)

\* Round table c has the rounds and entries of a where a has them.
RoundsGrow(c, a) ==
  /\ Len(a) <= Len(c)
  /\ \A i \in 1 .. Len(a) :
       /\ c[i].rid = a[i].rid /\ c[i].n = a[i].n
       /\ \A k \in 1 .. Len(a[i].pi) : k \in 1 .. Len(c[i].pi) /\ c[i].pi[k] = a[i].pi[k]

\* The same for group tables.
GroupsGrow(c, a) ==
  /\ Len(a) <= Len(c)
  /\ \A i \in 1 .. Len(a) :
       /\ c[i].rid = a[i].rid
       /\ \A g \in Groups : \A k \in 1 .. Len(a[i].gi[g]) :
            k \in 1 .. Len(c[i].gi[g]) /\ c[i].gi[g][k] = a[i].gi[g][k]

\* An entry is added at the end of the last round and nothing else changes.
LEMMA RoundPushPass ==
  ASSUME NEW rt \in Seq(RoundFecTable), rt # <<>>, NEW e \in PacketInfo, NEW p,
         p.serial = e.serial, p.gid = e.gid
  PROVE  /\ RoundPush(rt, e) \in Seq(RoundFecTable)
         /\ Len(RoundPush(rt, e)) = Len(rt)
         /\ RoundsGrow(RoundPush(rt, e), rt)
         /\ RoundHas(RoundPush(rt, e)[Len(rt)], p)
<1> DEFINE n == Len(rt)
           pi == Append(rt[n].pi, e)
           t == [rt[n] EXCEPT !.pi = pi]
           r == RoundPush(rt, e)
<1>1. n \in 1 .. Len(rt) /\ n \in Nat
  BY LenProperties
<1>2. rt[n] \in RoundFecTable
  BY <1>1, ElementOfSeq
<1>3. rt[n].pi \in Seq(PacketInfo)
  BY <1>2 DEF RoundFecTable
<1>4. /\ pi \in Seq(PacketInfo) /\ Len(pi) = Len(rt[n].pi) + 1 /\ Len(rt[n].pi) \in Nat
      /\ \A i \in 1 .. Len(rt[n].pi) : pi[i] = rt[n].pi[i]
      /\ pi[Len(rt[n].pi) + 1] = e
  BY <1>3, AppendProperties, LenProperties
<1>5. r = [rt EXCEPT ![n] = t]
  BY DEF RoundPush
<1> HIDE DEF pi, n, r
<1>6. t \in RoundFecTable /\ t.rid = rt[n].rid /\ t.n = rt[n].n /\ t.pi = pi
  BY <1>2, <1>4 DEF RoundFecTable
<1> HIDE DEF t
<1>7. /\ r \in Seq(RoundFecTable) /\ Len(r) = Len(rt)
      /\ \A i \in 1 .. Len(rt) : r[i] = IF i = n THEN t ELSE rt[i]
  BY <1>1, <1>5, <1>6, ExceptSeq
<1>8. Len(rt) <= Len(r)
  BY <1>7, LenProperties
<1>9. RoundsGrow(r, rt)
  BY <1>4, <1>6, <1>7, <1>8 DEF RoundsGrow
<1>10. RoundHas(r[n], p)
  <2>1. Len(rt[n].pi) + 1 \in 1 .. Len(r[n].pi) /\ r[n].pi[Len(rt[n].pi) + 1] = e
    BY <1>1, <1>4, <1>6, <1>7
  <2> QED
    BY <2>1 DEF RoundHas
<1> QED
  BY <1>7, <1>9, <1>10 DEF r, n

\* The same for the group table.
LEMMA GroupPushPass ==
  ASSUME NEW gt \in Seq(GroupFecTable), gt # <<>>, NEW e \in PacketInfo, NEW p,
         p.serial = e.serial, p.gid = e.gid
  PROVE  /\ GroupPush(gt, e) \in Seq(GroupFecTable)
         /\ Len(GroupPush(gt, e)) = Len(gt)
         /\ GroupsGrow(GroupPush(gt, e), gt)
         /\ GroupHas(GroupPush(gt, e)[Len(gt)], p)
<1> DEFINE n == Len(gt)
           old == gt[n].gi[e.gid]
           pi == Append(old, e)
           gi == [gt[n].gi EXCEPT ![e.gid] = pi]
           t == [gt[n] EXCEPT !.gi = gi]
           r == GroupPush(gt, e)
<1>1. n \in 1 .. Len(gt) /\ n \in Nat /\ e.gid \in Groups
  BY LenProperties DEF PacketInfo
<1>2. gt[n] \in GroupFecTable
  BY <1>1, ElementOfSeq
<1>3. gt[n].gi \in [Groups -> Seq(PacketInfo)] /\ old \in Seq(PacketInfo)
  BY <1>1, <1>2 DEF GroupFecTable
<1>4. /\ pi \in Seq(PacketInfo) /\ Len(pi) = Len(old) + 1 /\ Len(old) \in Nat
      /\ \A i \in 1 .. Len(old) : pi[i] = old[i]
      /\ pi[Len(old) + 1] = e
  BY <1>3, AppendProperties, LenProperties
<1>5. r = [gt EXCEPT ![n] = t]
  BY DEF GroupPush
<1> HIDE DEF pi, n, r
<1>6. /\ t \in GroupFecTable /\ t.rid = gt[n].rid /\ t.gi[e.gid] = pi
      /\ \A g \in Groups : g # e.gid => t.gi[g] = gt[n].gi[g]
  BY <1>1, <1>2, <1>3, <1>4 DEF GroupFecTable
<1> HIDE DEF t
<1>7. /\ r \in Seq(GroupFecTable) /\ Len(r) = Len(gt)
      /\ \A i \in 1 .. Len(gt) : r[i] = IF i = n THEN t ELSE gt[i]
  BY <1>1, <1>5, <1>6, ExceptSeq
<1>8. GroupsGrow(r, gt)
  <2>1. Len(gt) <= Len(r) /\ \A i \in 1 .. Len(gt) : r[i].rid = gt[i].rid
    BY <1>6, <1>7, LenProperties
  <2> SUFFICES ASSUME NEW i \in 1 .. Len(gt), NEW g \in Groups, NEW k \in 1 .. Len(gt[i].gi[g])
               PROVE  k \in 1 .. Len(r[i].gi[g]) /\ r[i].gi[g][k] = gt[i].gi[g][k]
    BY <2>1 DEF GroupsGrow
  <2>2. CASE i = n /\ g = e.gid
    BY <1>4, <1>6, <1>7, <2>2
  <2>3. CASE ~(i = n /\ g = e.gid)
    BY <1>6, <1>7, <2>3
  <2> QED
    BY <2>2, <2>3
<1>9. GroupHas(r[n], p)
  <2>1. r[n].gi[e.gid] = pi
    BY <1>1, <1>6, <1>7
  <2> HIDE DEF old
  <2>2. Len(old) + 1 \in 1 .. Len(r[n].gi[e.gid]) /\ r[n].gi[e.gid][Len(old) + 1] = e
    BY <1>4, <2>1
  <2> QED
    BY <2>2 DEF GroupHas
<1> QED
  BY <1>7, <1>8, <1>9 DEF r, n

\* UpdateFecTable adds an empty round at the end of both tables.
RoundOpened(r, rt, rid, size) ==
  /\ r \in Seq(RoundFecTable) /\ Len(r) = Len(rt) + 1 /\ RoundsGrow(r, rt)
  /\ r[Len(rt) + 1].rid = rid /\ r[Len(rt) + 1].n = size
GroupsOpened(g, gt, rid) ==
  /\ g \in Seq(GroupFecTable) /\ Len(g) = Len(gt) + 1 /\ GroupsGrow(g, gt)
  /\ g[Len(gt) + 1].rid = rid

LEMMA UpdateRounds ==
  ASSUME NEW rt \in Seq(RoundFecTable), NEW rid, rid \in Nat, NEW size, size \in Sizes
  PROVE  RoundOpened(WithRound(rt, rid, size), rt, rid, size)
<1> DEFINE t == [rid |-> rid, n |-> size, pi |-> <<>>]
<1>1. t \in RoundFecTable /\ t.rid = rid /\ t.n = size
  <2>1. <<>> \in Seq(PacketInfo)
    OBVIOUS
  <2> QED
    BY <2>1 DEF RoundFecTable
<1> HIDE DEF t
<1>2. WithRound(rt, rid, size) = Append(rt, t)
  BY DEF WithRound, t
<1>3. Len(rt) \in Nat
  BY LenProperties
<1>4. /\ Append(rt, t) \in Seq(RoundFecTable) /\ Len(Append(rt, t)) = Len(rt) + 1
      /\ \A i \in 1 .. Len(rt) : Append(rt, t)[i] = rt[i]
      /\ Append(rt, t)[Len(rt) + 1] = t
  BY <1>1, AppendProperties
<1>5. RoundsGrow(Append(rt, t), rt)
  BY <1>3, <1>4 DEF RoundsGrow
<1> QED
  BY <1>1, <1>2, <1>4, <1>5 DEF RoundOpened

LEMMA UpdateGroups ==
  ASSUME NEW gt \in Seq(GroupFecTable), NEW rid, rid \in Nat, NEW size, size \in Sizes
  PROVE  GroupsOpened(WithGroups(gt, rid, size), gt, rid)
<1> DEFINE u == [rid |-> rid, n |-> size, gi |-> [g \in Groups |-> <<>>]]
<1>1. u \in GroupFecTable /\ u.rid = rid
  <2>1. [g \in Groups |-> <<>>] \in [Groups -> Seq(PacketInfo)]
    OBVIOUS
  <2> QED
    BY <2>1 DEF GroupFecTable
<1> HIDE DEF u
<1>2. WithGroups(gt, rid, size) = Append(gt, u)
  BY DEF WithGroups, u
<1>3. Len(gt) \in Nat
  BY LenProperties
<1>4. /\ Append(gt, u) \in Seq(GroupFecTable) /\ Len(Append(gt, u)) = Len(gt) + 1
      /\ \A i \in 1 .. Len(gt) : Append(gt, u)[i] = gt[i]
      /\ Append(gt, u)[Len(gt) + 1] = u
  BY <1>1, AppendProperties
<1>5. GroupsGrow(Append(gt, u), gt)
  BY <1>3, <1>4 DEF GroupsGrow
<1> QED
  BY <1>1, <1>2, <1>4, <1>5 DEF GroupsOpened

\* Growth in two steps.
LEMMA GrowCompose ==
  ASSUME NEW a, NEW b, NEW c, Len(a) \in Nat, Len(b) \in Nat, Len(c) \in Nat
  PROVE  /\ RoundsGrow(b, a) /\ RoundsGrow(c, b) => RoundsGrow(c, a)
         /\ GroupsGrow(b, a) /\ GroupsGrow(c, b) => GroupsGrow(c, a)
BY SMTT(30) DEF RoundsGrow, GroupsGrow

\* What is recorded stays recorded when the tables grow.
LEMMA RecordedGrow ==
  ASSUME NEW rt, NEW gt, NEW rt2, NEW gt2, NEW last \in Int, NEW last2 \in Int,
         Len(rt) \in Nat, Len(gt) \in Nat, Len(rt2) \in Nat, Len(gt2) \in Nat,
         RoundsGrow(rt2, rt), GroupsGrow(gt2, gt),
         NEW d \in Nat, last2 = last + d, Len(rt2) = Len(rt) + d, Len(gt2) = Len(gt) + d,
         NEW p, p.rid \in Int, p.gid \in Groups, Recorded(rt, gt, last, p)
  PROVE  Recorded(rt2, gt2, last2, p)
<1>1. PICK n \in 1 .. Len(rt) : n = Index(rt, last, p) /\ RoundHas(rt[n], p) /\ p.gid < rt[n].n
  BY DEF Recorded
<1>2. PICK m \in 1 .. Len(gt) : m = Index(gt, last, p) /\ GroupHas(gt[m], p)
  BY DEF Recorded
<1>3. n = Index(rt2, last2, p) /\ m = Index(gt2, last2, p)
  <2>1. Index(rt, last, p) = p.rid - last + Len(rt) /\ Index(gt, last, p) = p.rid - last + Len(gt)
    BY DEF Index
  <2>2. /\ p.rid - last2 + Len(rt2) = p.rid - last + Len(rt)
        /\ p.rid - last2 + Len(gt2) = p.rid - last + Len(gt)
    OBVIOUS
  <2> QED
    BY <1>1, <1>2, <2>1, <2>2 DEF Index
<1>4. n \in 1 .. Len(rt2) /\ m \in 1 .. Len(gt2)
  BY DEF RoundsGrow, GroupsGrow
<1>5. RoundHas(rt2[n], p) /\ p.gid < rt2[n].n
  BY <1>1 DEF RoundHas, RoundsGrow
<1>6. GroupHas(gt2[m], p)
  <2>1. PICK k \in 1 .. Len(gt[m].gi[p.gid]) : gt[m].gi[p.gid][k].serial = p.serial
    BY <1>2 DEF GroupHas
  <2>2. k \in 1 .. Len(gt2[m].gi[p.gid]) /\ gt2[m].gi[p.gid][k] = gt[m].gi[p.gid][k]
    BY <2>1 DEF GroupsGrow
  <2> QED
    BY <2>1, <2>2 DEF GroupHas
<1> QED
  BY <1>3, <1>4, <1>5, <1>6 DEF Recorded

\* The encoder sends packet p of the current round after recording it.
LEMMA PushCovers ==
  ASSUME NEW rt \in Seq(RoundFecTable), NEW gt \in Seq(GroupFecTable), NEW last \in Nat,
         Ending(rt, last), Ending(gt, last), NEW e \in PacketInfo,
         NEW P, \A x \in P : Tag(x), NEW l \in Seq(P), Covered(l, rt, gt, last),
         NEW p \in P, p.serial = e.serial, p.gid = e.gid, p.rid = last,
         p.type \in {DATA, REDUNDANT, REXMIT}, p.gid < rt[Len(rt)].n
  PROVE  /\ RoundPush(rt, e) \in Seq(RoundFecTable) /\ GroupPush(gt, e) \in Seq(GroupFecTable)
         /\ Ending(RoundPush(rt, e), last) /\ Ending(GroupPush(gt, e), last)
         /\ Covered(Append(l, p), RoundPush(rt, e), GroupPush(gt, e), last)
         /\ RoundPush(rt, e)[Len(RoundPush(rt, e))].n = rt[Len(rt)].n
<1> DEFINE r == RoundPush(rt, e)
           g == GroupPush(gt, e)
<1>1. /\ rt # <<>> /\ gt # <<>> /\ Rounds(rt, last - Len(rt)) /\ Rounds(gt, last - Len(gt))
      /\ Len(rt) \in Nat /\ Len(gt) \in Nat /\ Len(rt) > 0 /\ Len(gt) > 0
  BY LenProperties DEF Ending
<1>2. r \in Seq(RoundFecTable) /\ Len(r) = Len(rt) /\ RoundsGrow(r, rt) /\ RoundHas(r[Len(rt)], p)
  BY <1>1, RoundPushPass
<1>3. g \in Seq(GroupFecTable) /\ Len(g) = Len(gt) /\ GroupsGrow(g, gt) /\ GroupHas(g[Len(gt)], p)
  BY <1>1, GroupPushPass
<1> HIDE DEF r, g
<1>8. r[Len(r)].n = rt[Len(rt)].n
  BY <1>1, <1>2 DEF RoundsGrow
<1>4. Ending(r, last) /\ Ending(g, last)
  <2>1. r # <<>> /\ g # <<>>
    BY <1>1, <1>2, <1>3
  <2>2. Rounds(r, last - Len(r))
    BY <1>1, <1>2 DEF Rounds, RoundsGrow
  <2>3. Rounds(g, last - Len(g))
    BY <1>1, <1>3 DEF Rounds, GroupsGrow
  <2> QED
    BY <2>1, <2>2, <2>3 DEF Ending
<1>5. Recorded(r, g, last, p)
  <2>1. Index(r, last, p) = Len(rt) /\ Index(g, last, p) = Len(gt)
    BY <1>1, <1>2, <1>3 DEF Index
  <2>2. Len(rt) \in 1 .. Len(r) /\ Len(gt) \in 1 .. Len(g)
    BY <1>1, <1>2, <1>3
  <2>3. p.gid < r[Len(rt)].n
    BY <1>1, <1>2, <1>8
  <2> QED
    BY <1>2, <1>3, <2>1, <2>2, <2>3 DEF Recorded
<1>6. Covered(l, r, g, last)
  <2> SUFFICES ASSUME NEW n \in 1 .. Len(l), l[n].type # NONE
               PROVE  Recorded(r, g, last, l[n])
    BY DEF Covered
  <2>1. Recorded(rt, gt, last, l[n])
    BY DEF Covered
  <2>2. l[n].rid \in Int /\ l[n].gid \in Groups
    <3>1. l[n] \in P
      BY ElementOfSeq
    <3> QED
      BY <3>1 DEF Tag
  <2>3. 0 \in Nat /\ last = last + 0 /\ Len(r) = Len(rt) + 0 /\ Len(g) = Len(gt) + 0
        /\ Len(r) \in Nat /\ Len(g) \in Nat /\ last \in Int
    BY <1>1, <1>2, <1>3
  <2> QED
    BY <1>1, <1>2, <1>3, <2>1, <2>2, <2>3, RecordedGrow
<1>7. Covered(Append(l, p), r, g, last)
  BY <1>5, <1>6, PathAppend
<1> QED
  BY <1>2, <1>3, <1>4, <1>7, <1>8 DEF r, g

\* The encoder opens the next round.
LEMMA UpdateCovers ==
  ASSUME NEW rt \in Seq(RoundFecTable), NEW gt \in Seq(GroupFecTable), NEW last \in Nat,
         Ending(rt, last), Ending(gt, last),
         NEW P, \A x \in P : Tag(x), NEW l \in Seq(P), Covered(l, rt, gt, last),
         NEW rid, rid = last + 1, NEW size \in Sizes
  PROVE  /\ WithRound(rt, rid, size) \in Seq(RoundFecTable)
         /\ WithGroups(gt, rid, size) \in Seq(GroupFecTable)
         /\ Ending(WithRound(rt, rid, size), rid) /\ Ending(WithGroups(gt, rid, size), rid)
         /\ Covered(l, WithRound(rt, rid, size), WithGroups(gt, rid, size), rid)
         /\ WithRound(rt, rid, size)[Len(WithRound(rt, rid, size))].n = size
<1> DEFINE r == WithRound(rt, rid, size)
           g == WithGroups(gt, rid, size)
<1>0. rid \in Nat
  OBVIOUS
<1>1. /\ Rounds(rt, last - Len(rt)) /\ Rounds(gt, last - Len(gt))
      /\ Len(rt) \in Nat /\ Len(gt) \in Nat
  BY LenProperties DEF Ending
<1>2. /\ r \in Seq(RoundFecTable) /\ Len(r) = Len(rt) + 1 /\ RoundsGrow(r, rt)
      /\ r[Len(rt) + 1].rid = rid /\ r[Len(rt) + 1].n = size
      /\ g \in Seq(GroupFecTable) /\ Len(g) = Len(gt) + 1 /\ GroupsGrow(g, gt)
      /\ g[Len(gt) + 1].rid = rid
  <2>1. RoundOpened(r, rt, rid, size)
    BY <1>0, UpdateRounds
  <2>2. GroupsOpened(g, gt, rid)
    BY <1>0, UpdateGroups
  <2> HIDE DEF r, g
  <2> QED
    BY <2>1, <2>2 DEF RoundOpened, GroupsOpened
<1> HIDE DEF r, g
<1>3. Ending(r, rid)
  <2>1. r # <<>>
    BY <1>1, <1>2
  <2>2. ASSUME NEW i \in 1 .. Len(r) PROVE r[i].rid = (rid - Len(r)) + i
    <3>1. CASE i \in 1 .. Len(rt)
      <4>1. r[i].rid = rt[i].rid
        BY <1>2, <3>1 DEF RoundsGrow
      <4>2. rt[i].rid = (last - Len(rt)) + i
        BY <1>1, <3>1 DEF Rounds
      <4> QED
        BY <1>1, <1>2, <4>1, <4>2
    <3>2. CASE i = Len(rt) + 1
      BY <1>1, <1>2, <3>2
    <3> QED
      BY <1>1, <1>2, <3>1, <3>2
  <2> QED
    BY <2>1, <2>2 DEF Ending, Rounds
<1>4. Ending(g, rid)
  <2>1. g # <<>>
    BY <1>1, <1>2
  <2>2. ASSUME NEW i \in 1 .. Len(g) PROVE g[i].rid = (rid - Len(g)) + i
    <3>1. CASE i \in 1 .. Len(gt)
      <4>1. g[i].rid = gt[i].rid
        BY <1>2, <3>1 DEF GroupsGrow
      <4>2. gt[i].rid = (last - Len(gt)) + i
        BY <1>1, <3>1 DEF Rounds
      <4> QED
        BY <1>1, <1>2, <4>1, <4>2
    <3>2. CASE i = Len(gt) + 1
      BY <1>1, <1>2, <3>2
    <3> QED
      BY <1>1, <1>2, <3>1, <3>2
  <2> QED
    BY <2>1, <2>2 DEF Ending, Rounds
<1>5. Covered(l, r, g, rid)
  <2> SUFFICES ASSUME NEW n \in 1 .. Len(l), l[n].type # NONE
               PROVE  Recorded(r, g, rid, l[n])
    BY DEF Covered
  <2>1. Recorded(rt, gt, last, l[n])
    BY DEF Covered
  <2>2. l[n].rid \in Int /\ l[n].gid \in Groups
    <3>1. l[n] \in P
      BY ElementOfSeq
    <3> QED
      BY <3>1 DEF Tag
  <2>3. 1 \in Nat /\ Len(r) \in Nat /\ Len(g) \in Nat /\ last \in Int /\ rid \in Int
    BY <1>1, <1>2
  <2> QED
    BY <1>1, <1>2, <2>1, <2>2, <2>3, RecordedGrow
<1> QED
  BY <1>2, <1>3, <1>4, <1>5 DEF r, g

\* The first packet of all opens its round in empty tables.
LEMMA OpenCovers ==
  ASSUME NEW rid \in Nat, NEW size \in Sizes
  PROVE  /\ WithRound(<<>>, rid, size) \in Seq(RoundFecTable)
         /\ WithGroups(<<>>, rid, size) \in Seq(GroupFecTable)
         /\ Ending(WithRound(<<>>, rid, size), rid) /\ Ending(WithGroups(<<>>, rid, size), rid)
         /\ WithRound(<<>>, rid, size)[Len(WithRound(<<>>, rid, size))].n = size
<1> DEFINE r == WithRound(<<>>, rid, size)
           g == WithGroups(<<>>, rid, size)
           t == [rid |-> rid, n |-> size, pi |-> <<>>]
           u == [rid |-> rid, n |-> size, gi |-> [x \in Groups |-> <<>>]]
<1>1. <<>> \in Seq(RoundFecTable) /\ <<>> \in Seq(GroupFecTable) /\ <<>> \in Seq(PacketInfo)
  OBVIOUS
<1>2. t \in RoundFecTable /\ t.rid = rid /\ t.n = size
  BY <1>1 DEF RoundFecTable
<1>3. u \in GroupFecTable /\ u.rid = rid
  BY <1>1 DEF GroupFecTable
<1>4. r = Append(<<>>, t) /\ g = Append(<<>>, u)
  BY DEF WithRound, WithGroups
<1> HIDE DEF t, u, r, g
<1>5. r = <<t>> /\ g = <<u>>
  BY <1>4
<1>6. /\ r \in Seq(RoundFecTable) /\ r # <<>> /\ Len(r) = 1 /\ r[1] = t
      /\ g \in Seq(GroupFecTable) /\ g # <<>> /\ Len(g) = 1 /\ g[1] = u
  BY <1>2, <1>3, <1>5
<1>7. Rounds(r, rid - 1) /\ Rounds(g, rid - 1)
  BY <1>2, <1>3, <1>6 DEF Rounds
<1>8. Ending(r, rid) /\ Ending(g, rid) /\ r[Len(r)].n = size
  BY <1>2, <1>6, <1>7 DEF Ending
<1> QED
  BY <1>6, <1>8 DEF r, g
-----------------------------------------------------------------------------
(* What Recv leaves in the tables for the packets behind *)

\* A packet of a later round is found as much later in the queue.
LEMMA IndexShift ==
  ASSUME NEW t, Len(t) \in Nat, NEW last \in Int, NEW p, NEW q, NEW d \in Nat,
         p.rid \in Int, q.rid = p.rid + d
  PROVE  Index(t, last, q) = Index(t, last, p) + d
BY DEF Index

\* The queue still ends with the current round.
LEMMA AfterEnding ==
  ASSUME NEW a, Len(a) \in Nat, NEW last \in Int, Ending(a, last), NEW c,
         NEW off \in Nat, off < Len(a),
         Len(c) = Len(a) - off, \A i \in 1 .. Len(c) : c[i].rid = a[off + i].rid
  PROVE  Ending(c, last)
<1>1. c # <<>>
  <2>1. Len(<<>>) = 0 /\ Len(c) # 0
    OBVIOUS
  <2> QED
    BY <2>1
<1>2. ASSUME NEW i \in 1 .. Len(c) PROVE c[i].rid = (last - Len(c)) + i
  <2>1. off + i \in 1 .. Len(a)
    OBVIOUS
  <2>2. a[off + i].rid = (last - Len(a)) + (off + i)
    BY <2>1 DEF Ending, Rounds
  <2> QED
    BY <2>2
<1> QED
  BY <1>1, <1>2 DEF Ending, Rounds

\* A packet of a round that is not among the first off rounds is still found
\* when these are gone.
LEMMA AfterRoundHas ==
  ASSUME NEW a, Len(a) \in Nat, NEW c, Len(c) \in Nat, NEW off \in Nat, RoundsAfter(c, a, off),
         NEW last \in Int, NEW q, q.rid \in Int,
         NEW i \in 1 .. Len(a), i = Index(a, last, q), off < i, RoundHas(a[i], q),
         q.gid < a[i].n
  PROVE  /\ Index(c, last, q) \in 1 .. Len(c) /\ RoundHas(c[Index(c, last, q)], q)
         /\ q.gid < c[Index(c, last, q)].n
<1>1. PICK j \in Int : j = i - off
  OBVIOUS
<1>2. off + j = i /\ j \in 1 .. Len(c)
  BY <1>1 DEF RoundsAfter
<1>3. j = Index(c, last, q)
  <2>1. i = q.rid - last + Len(a) /\ Len(c) = Len(a) - off
    BY DEF Index, RoundsAfter
  <2> QED
    BY <1>1, <2>1 DEF Index
<1>4. SameList(c[j].pi, a[i].pi) /\ c[j].n = a[i].n
  BY <1>2 DEF RoundsAfter
<1>5. RoundHas(c[j], q)
  BY <1>4 DEF RoundHas, SameList
<1> QED
  BY <1>2, <1>3, <1>4, <1>5

\* The same for the group table, where group g0 of the first round left may
\* have been emptied.
LEMMA AfterGroupHas ==
  ASSUME NEW a, Len(a) \in Nat, NEW c, Len(c) \in Nat, NEW off \in Nat, NEW g0,
         GroupsAfter(c, a, off, g0),
         NEW last \in Int, NEW q, q.rid \in Int, q.gid \in Groups,
         NEW i \in 1 .. Len(a), i = Index(a, last, q), off < i, GroupHas(a[i], q),
         i = off + 1 => q.gid # g0
  PROVE  Index(c, last, q) \in 1 .. Len(c) /\ GroupHas(c[Index(c, last, q)], q)
<1>1. PICK j \in Int : j = i - off
  OBVIOUS
<1>2. off + j = i /\ j \in 1 .. Len(c) /\ (j # 1 \/ q.gid # g0)
  <2>1. Len(c) = Len(a) - off
    BY DEF GroupsAfter
  <2>2. off + j = i /\ j \in 1 .. Len(c) /\ (j = 1 => i = off + 1)
    BY ONLY <1>1, <2>1, Len(a) \in Nat, off \in Nat, i \in 1 .. Len(a), off < i
  <2> QED
    BY <2>2
<1>3. j = Index(c, last, q)
  <2>1. i = q.rid - last + Len(a) /\ Len(c) = Len(a) - off
    BY DEF Index, GroupsAfter
  <2> QED
    BY <1>1, <2>1 DEF Index
<1>4. SameList(c[j].gi[q.gid], a[i].gi[q.gid])
  BY <1>2, SMTT(30) DEF GroupsAfter
<1>5. GroupHas(c[j], q)
  BY <1>4 DEF GroupHas, SameList
<1> QED
  BY <1>2, <1>3, <1>5
-----------------------------------------------------------------------------
(* The packet at the head of the path, and the tables when it has been handled *)

\* The tables rt and gt end with round last and describe every packet of path
\* l; see FecTables for fc and gid.
Tracked(l, rt, gt, last, fc, gid) ==
  /\ rt \in Seq(RoundFecTable) /\ gt \in Seq(GroupFecTable) /\ last \in Nat
  /\ Ending(rt, last) /\ Ending(gt, last)
  /\ Covered(l, rt, gt, last) /\ Ordered(l) /\ Behind(l, last, fc, gid)

\* The round of p by its distance from the last.
LEMMA IndexRid ==
  ASSUME NEW t, Len(t) \in Nat, NEW last \in Int, NEW p, p.rid \in Int
  PROVE  p.rid = (last - Len(t)) + Index(t, last, p)
BY DEF Index

\* What the tables say about the packet at the head.
LEMMA HeadTracked ==
  ASSUME NEW P, \A x \in P : Tag(x), NEW l \in Seq(P), l # <<>>,
         NEW rt, NEW gt, NEW last, NEW fc, NEW gid, Tracked(l, rt, gt, last, fc, gid),
         fc # 0, NEW p, p = Head(l), p.type # NONE
  PROVE  /\ p \in P /\ Tag(p) /\ p.type \in {DATA, REDUNDANT, REXMIT}
         /\ p.rid <= last /\ (p.type = REDUNDANT => p.rid < last)
         /\ \E n \in 1 .. Len(rt) : /\ n = Index(rt, last, p) /\ RoundHas(rt[n], p)
                                    /\ p.rid = (last - Len(rt)) + n /\ p.gid < rt[n].n
         /\ \E m \in 1 .. Len(gt) : /\ m = Index(gt, last, p) /\ GroupHas(gt[m], p)
                                    /\ p.rid = (last - Len(gt)) + m
<1>1. Len(l) \in Nat /\ last \in Nat /\ Len(rt) \in Nat /\ Len(gt) \in Nat
  BY LenProperties DEF Tracked
<1>2. p = l[1] /\ 1 \in 1 .. Len(l) /\ p \in P
  BY ElementOfSeq
<1>3. Tag(p) /\ p.rid \in Int
  BY <1>2 DEF Tag
<1>4. Recorded(rt, gt, last, p)
  BY <1>2 DEF Tracked, Covered
<1>5. p.rid <= last /\ (p.type = REDUNDANT => p.rid # last)
  BY <1>2 DEF Tracked, Behind
<1>6. p.type = REDUNDANT => p.rid < last
  BY <1>1, <1>3, <1>5
<1>7. PICK n \in 1 .. Len(rt) : n = Index(rt, last, p) /\ RoundHas(rt[n], p) /\ p.gid < rt[n].n
  BY <1>4 DEF Recorded
<1>8. PICK m \in 1 .. Len(gt) : m = Index(gt, last, p) /\ GroupHas(gt[m], p)
  BY <1>4 DEF Recorded
<1>9. p.rid = (last - Len(rt)) + n /\ p.rid = (last - Len(gt)) + m
  <2>1. last \in Int
    BY <1>1
  <2> QED
    BY <1>1, <1>3, <1>7, <1>8, <2>1, IndexRid
<1>10. p.type \in {DATA, REDUNDANT, REXMIT}
  BY <1>4 DEF Recorded
<1> QED
  BY <1>2, <1>3, <1>5, <1>6, <1>7, <1>8, <1>9, <1>10

\* Round table c still ends with round last, and the packet's round is in front
\* unless the packet has closed it.
RoundsKept(c, rt, n, last, p) ==
  \E off \in Nat :
    /\ off < Len(rt) /\ RoundsAfter(c, rt, off)
    /\ Closing(rt[n], p) => off = n
    /\ ~Closing(rt[n], p) => off = n - 1
    /\ c \in Seq(RoundFecTable) /\ Len(c) \in Nat /\ Ending(c, last)
    /\ c # <<>> /\ c[1].rid \in Int
    /\ Closing(rt[n], p) => p.rid < c[1].rid
    /\ ~Closing(rt[n], p) => ~(p.rid < c[1].rid)

\* That is what the round passes leave.
LEMMA RoundsLeft ==
  ASSUME NEW P, \A x \in P : Tag(x), NEW l \in Seq(P), l # <<>>,
         NEW rt, NEW gt, NEW last, NEW fc, NEW gid, Tracked(l, rt, gt, last, fc, gid),
         fc # 0, NEW p, p = Head(l), p.type # NONE,
         NEW n \in 1 .. Len(rt), n = Index(rt, last, p), NEW c, RoundsSettled(c, rt, n, p)
  PROVE  RoundsKept(c, rt, n, last, p)
<1>1. /\ rt \in Seq(RoundFecTable) /\ last \in Nat /\ Len(rt) \in Nat
      /\ Ending(rt, last) /\ Rounds(rt, last - Len(rt))
  BY LenProperties DEF Tracked, Ending
<1>2. Tag(p) /\ p.rid \in Int /\ p.rid = (last - Len(rt)) + n /\ (p.type = REDUNDANT => p.rid < last)
  BY HeadTracked DEF Tag
<1>3. PICK off \in Nat : /\ off < Len(rt) /\ RoundsAfter(c, rt, off)
                         /\ Closing(rt[n], p) => off = n
                         /\ ~Closing(rt[n], p) => off = n - 1
  <2>1. Closing(rt[n], p) => n < Len(rt)
    BY <1>1, <1>2 DEF Closing
  <2>2. n \in Nat /\ n - 1 \in Nat /\ n - 1 < Len(rt)
    BY <1>1
  <2> QED
    BY <2>1, <2>2 DEF RoundsSettled
<1>4. /\ c \in Seq(RoundFecTable) /\ Len(c) = Len(rt) - off
      /\ \A i \in 1 .. Len(c) : c[i].rid = rt[off + i].rid
  BY <1>3 DEF RoundsAfter
<1>5. Ending(c, last) /\ Len(c) \in Nat
  <2>1. last \in Int
    BY <1>1
  <2>2. Ending(c, last)
    BY <1>1, <1>3, <1>4, <2>1, AfterEnding
  <2> QED
    BY <1>4, <2>2, LenProperties
<1>6. 1 \in 1 .. Len(c) /\ off + 1 \in 1 .. Len(rt) /\ c # <<>>
  BY <1>1, <1>3, <1>4
<1>7. c[1].rid = (last - Len(rt)) + (off + 1)
  BY <1>1, <1>4, <1>6 DEF Rounds
<1>8. /\ Closing(rt[n], p) => p.rid < c[1].rid
      /\ ~Closing(rt[n], p) => ~(p.rid < c[1].rid)
      /\ c[1].rid \in Int
  BY <1>1, <1>2, <1>3, <1>7
<1> QED
  BY <1>3, <1>4, <1>5, <1>6, <1>8 DEF RoundsKept

\* The packet p at the head of the path l, and the places n and m of its round
\* in the two table queues.
AtHead(P, l, rt, gt, last, fc, gid, p, n, m) ==
  /\ (\A x \in P : Tag(x)) /\ l \in Seq(P) /\ l # <<>>
  /\ Tracked(l, rt, gt, last, fc, gid) /\ fc # 0
  /\ p = Head(l) /\ p.type # NONE
  /\ n \in 1 .. Len(rt) /\ n = Index(rt, last, p)
  /\ m \in 1 .. Len(gt) /\ m = Index(gt, last, p)

\* The group passes that follow: their searches end, and they settle at most
\* the packet's group.
LEMMA GroupsLeft ==
  ASSUME NEW P, NEW l, NEW rt, NEW gt, NEW last, NEW fc, NEW gid, NEW p, NEW n, NEW m,
         AtHead(P, l, rt, gt, last, fc, gid, p, n, m),
         NEW c, RoundsSettled(c, rt, n, p),
         NEW grp, grp = MarkGroupFecTable(c, gt, p),
         NEW rec, rec = IF p.type = REDUNDANT
                        THEN CheckGroupFecTable(c, grp.gt, p, grp.nlost)
                        ELSE [gt |-> grp.gt, mlost |-> 0, recovered |-> <<>>]
  PROVE  /\ GroupServes(c, gt, p)
         /\ GroupsSettled(gt, gt, m, p) /\ GroupsSettled(rec.gt, gt, m, p)
         /\ rec.recovered \in Seq(PacketInfo)
         /\ rec.recovered # <<>> => FromTable(rec.recovered[1], gt)
<1> USE DEF AtHead
<1>1. /\ gt \in Seq(GroupFecTable) /\ last \in Nat /\ Len(gt) \in Nat
      /\ Rounds(gt, last - Len(gt)) /\ last - Len(gt) \in Int
  BY LenProperties DEF Tracked, Ending
<1>2. Tag(p) /\ p.rid \in Int /\ p.rid = (last - Len(gt)) + m /\ GroupHas(gt[m], p)
  BY HeadTracked DEF Tag
<1>3. /\ c # <<>> /\ c[1].rid \in Int
      /\ Closing(rt[n], p) => p.rid < c[1].rid
      /\ ~Closing(rt[n], p) => ~(p.rid < c[1].rid)
  BY RoundsLeft DEF RoundsKept
<1>4. GroupsSettled(gt, gt, m, p)
  BY <1>1, GroupsUntouched
<1>5. <<>> \in Seq(PacketInfo)
  OBVIOUS
<1>6. CASE Closing(rt[n], p)
  <2>1. grp.gt = gt /\ rec.gt = gt /\ rec.recovered = <<>>
    BY <1>3, <1>6 DEF MarkGroupFecTable, CheckGroupFecTable, Closing
  <2>2. GroupServes(c, gt, p)
    BY <1>2, <1>3, <1>6 DEF GroupServes
  <2> QED
    BY <1>4, <1>5, <2>1, <2>2
<1>7. CASE ~Closing(rt[n], p)
  <2> DEFINE x == CheckGroupFecTable(c, grp.gt, p, grp.nlost)
  <2>1. /\ GroupServes(c, gt, p)
        /\ GroupsSettled(grp.gt, gt, m, p)
        /\ p.type = REDUNDANT => GroupsSettled(x.gt, gt, m, p)
        /\ x.recovered \in Seq(PacketInfo)
        /\ x.recovered # <<>> => FromTable(x.recovered[1], gt)
    BY <1>1, <1>2, <1>3, <1>7, GroupPass
  <2>2. /\ p.type = REDUNDANT => rec = x
        /\ p.type # REDUNDANT => rec.gt = grp.gt /\ rec.recovered = <<>>
    OBVIOUS
  <2> HIDE DEF x
  <2> QED
    BY <1>4, <1>5, <2>1, <2>2
<1> QED
  BY <1>6, <1>7

\* The tables still describe the packets behind the one that was handled.
LEMMA SettledTracks ==
  ASSUME NEW P, NEW l, NEW rt, NEW gt, NEW last, NEW fc, NEW gid, NEW p, NEW n, NEW m,
         AtHead(P, l, rt, gt, last, fc, gid, p, n, m),
         NEW c, RoundsSettled(c, rt, n, p), NEW d, GroupsSettled(d, gt, m, p)
  PROVE  /\ Tracked(Tail(l), c, d, last, fc, gid)
         /\ c[Len(c)].n = rt[Len(rt)].n
         /\ \A i \in 1 .. Len(c) : \E j \in 1 .. Len(rt) : c[i].n = rt[j].n
<1> USE DEF AtHead
<1> DEFINE t == Tail(l)
<1>1. /\ rt \in Seq(RoundFecTable) /\ gt \in Seq(GroupFecTable) /\ last \in Nat /\ last \in Int
      /\ Len(rt) \in Nat /\ Len(gt) \in Nat /\ Len(l) \in Nat
      /\ Ending(rt, last) /\ Ending(gt, last)
      /\ Covered(l, rt, gt, last) /\ Ordered(l) /\ Behind(l, last, fc, gid)
  BY LenProperties DEF Tracked
<1>2. Tag(p) /\ p.rid \in Int /\ p.gid \in Groups
  BY HeadTracked DEF Tag
<1>13. RoundsKept(c, rt, n, last, p)
  BY RoundsLeft
<1>3. PICK off \in Nat :
        /\ off < Len(rt) /\ RoundsAfter(c, rt, off)
        /\ Closing(rt[n], p) => off = n
        /\ ~Closing(rt[n], p) => off = n - 1
        /\ c \in Seq(RoundFecTable) /\ Len(c) \in Nat /\ Ending(c, last)
  BY <1>13 DEF RoundsKept
<1>4. PICK o \in Nat, g0 \in Groups \cup {NoGroup} :
        /\ GroupsAfter(d, gt, o, g0) /\ o < m
        /\ g0 = NoGroup \/ (o = m - 1 /\ p.type = REDUNDANT /\ g0 = p.gid)
  BY <1>2 DEF GroupsSettled
<1>5. d \in Seq(GroupFecTable) /\ Ending(d, last) /\ Len(d) \in Nat
  <2>1. /\ d \in Seq(GroupFecTable) /\ Len(d) = Len(gt) - o
        /\ \A i \in 1 .. Len(d) : d[i].rid = gt[o + i].rid
    BY <1>4 DEF GroupsAfter
  <2>2. o < Len(gt)
    BY <1>1, <1>4
  <2>3. Ending(d, last)
    BY <1>1, <2>1, <2>2, AfterEnding
  <2> QED
    BY <2>1, <2>3, LenProperties
<1>6. /\ t \in Seq(P) /\ Len(t) = Len(l) - 1 /\ l[1] = p /\ 1 \in 1 .. Len(l)
      /\ \A i \in 1 .. Len(t) : t[i] = l[i + 1]
  BY HeadTailProperties
<1>7. Ordered(t) /\ Behind(t, last, fc, gid)
  BY <1>1, PathTail
<1> HIDE DEF t
<1>8. ASSUME NEW k \in 1 .. Len(t), t[k].type # NONE
      PROVE  Recorded(c, d, last, t[k])
  <2>1. PICK q \in P : q = t[k]
    BY <1>6, ElementOfSeq
  <2>2. q.rid \in Int /\ q.gid \in Groups
    BY <2>1 DEF Tag
  <2>3. k + 1 \in 1 .. Len(l) /\ 1 < k + 1 /\ l[k + 1] = q
    BY <1>1, <1>6, <2>1
  <2>4. Before(p, q)
    BY <1>1, <1>6, <1>8, <2>1, <2>3 DEF Ordered
  <2>5. Recorded(rt, gt, last, q)
    BY <1>1, <1>8, <2>1, <2>3 DEF Covered
  <2>6. PICK i \in 1 .. Len(rt) : i = Index(rt, last, q) /\ RoundHas(rt[i], q) /\ q.gid < rt[i].n
    BY <2>5 DEF Recorded
  <2>7. PICK j \in 1 .. Len(gt) : j = Index(gt, last, q) /\ GroupHas(gt[j], q)
    BY <2>5 DEF Recorded
  <2>8. PICK e \in Nat : q.rid = p.rid + e /\ i = n + e /\ j = m + e
    <3>1. p.rid <= q.rid
      BY <2>4 DEF Before
    <3>2. PICK e \in Int : e = q.rid - p.rid
      BY <1>2, <2>2
    <3>3. e \in Nat /\ q.rid = p.rid + e
      <4>1. \A x, y \in Int : x <= y => y - x \in Nat /\ y = x + (y - x)
        OBVIOUS
      <4> QED
        BY <1>2, <2>2, <3>1, <3>2, <4>1
    <3>4. Index(rt, last, q) = Index(rt, last, p) + e
      BY <1>1, <1>2, <3>3, IndexShift, SMTT(30)
    <3>5. Index(gt, last, q) = Index(gt, last, p) + e
      BY <1>1, <1>2, <3>3, IndexShift, SMTT(30)
    <3> QED
      BY <2>6, <2>7, <3>3, <3>4, <3>5
  <2>9. off < i
    <3>1. CASE Closing(rt[n], p)
      <4>1. ASSUME e = 0 PROVE FALSE
        <5>1. q.rid = p.rid /\ i = n
          BY <1>2, <2>8, <4>1
        <5>2. p.gid < q.gid /\ p.gid = rt[n].n - 1 /\ q.gid < rt[n].n
          BY <2>4, <2>6, <3>1, <5>1 DEF Before, Closing
        <5>3. rt[n].n \in Int
          <6>1. rt[n] \in RoundFecTable
            BY <1>1, ElementOfSeq
          <6> QED
            BY <6>1 DEF RoundFecTable, Sizes
        <5>4. p.gid \in Int /\ q.gid \in Int
          BY <1>2, <2>2 DEF Groups
        <5> QED
          BY <5>2, <5>3, <5>4, SMTT(60)
      <4> QED
        BY <1>3, <2>8, <3>1, <4>1
    <3>2. CASE ~Closing(rt[n], p)
      BY <1>3, <2>8, <3>2
    <3> QED
      BY <3>1, <3>2
  <2>10. o < j /\ (j = o + 1 => q.gid # g0)
    <3>1. o < j
      BY <1>4, <2>8
    <3>2. CASE g0 = NoGroup
      BY <2>2, <3>1, <3>2, NGroupsAssumption DEF Groups, NoGroup
    <3>3. CASE o = m - 1 /\ p.type = REDUNDANT /\ g0 = p.gid
      <4>1. j = o + 1 => q.rid = p.rid
        <5>1. j = o + 1 => e = 0
          BY <2>8, <3>3
        <5>2. \A x \in Int : x + 0 = x
          OBVIOUS
        <5> QED
          BY <1>2, <2>8, <5>1, <5>2
      <4>2. q.rid = p.rid => p.gid < q.gid
        BY <2>4, <3>3 DEF Before
      <4>3. p.gid \in Int /\ q.gid \in Int
        BY <1>2, <2>2 DEF Groups
      <4> QED
        BY <3>1, <3>3, <4>1, <4>2, <4>3
    <3> QED
      BY <1>4, <3>2, <3>3
  <2>11. /\ Index(c, last, q) \in 1 .. Len(c) /\ RoundHas(c[Index(c, last, q)], q)
         /\ q.gid < c[Index(c, last, q)].n
    BY <1>1, <1>3, <2>2, <2>6, <2>9, AfterRoundHas
  <2>12. Index(d, last, q) \in 1 .. Len(d) /\ GroupHas(d[Index(d, last, q)], q)
    BY <1>1, <1>4, <1>5, <2>2, <2>7, <2>10, AfterGroupHas
  <2>13. q.type \in {DATA, REDUNDANT, REXMIT}
    BY <2>5 DEF Recorded
  <2> QED
    BY <2>1, <2>11, <2>12, <2>13 DEF Recorded
<1>9. Covered(t, c, d, last)
  BY <1>8 DEF Covered
<1>10. \A i \in 1 .. Len(c) : off + i \in 1 .. Len(rt) /\ c[i].n = rt[off + i].n
  BY <1>1, <1>3 DEF RoundsAfter
<1>11. Len(c) \in 1 .. Len(c) /\ off + Len(c) = Len(rt)
  BY <1>1, <1>3 DEF RoundsAfter
<1>12. Tracked(t, c, d, last, fc, gid)
  BY <1>1, <1>3, <1>5, <1>7, <1>9 DEF Tracked
<1> QED
  BY <1>10, <1>11, <1>12 DEF t
-----------------------------------------------------------------------------
(* The headers in the group table, and the transit queue *)

\* No entry of gt has a header above h.
HdrsWithin(gt, h) ==
  \A i \in 1 .. Len(gt) : \A g \in Groups : \A k \in 1 .. Len(gt[i].gi[g]) : gt[i].gi[g][k].hdr <= h

\* The group passes add no header.
LEMMA HdrsSettled ==
  ASSUME NEW gt, Len(gt) \in Nat, NEW h, HdrsWithin(gt, h), NEW m \in Nat, NEW p, NEW d,
         GroupsSettled(d, gt, m, p)
  PROVE  HdrsWithin(d, h)
<1>1. PICK o \in Nat, g0 \in {NoGroup, p.gid} : GroupsAfter(d, gt, o, g0)
  BY DEF GroupsSettled
<1> SUFFICES ASSUME NEW i \in 1 .. Len(d), NEW g \in Groups, NEW k \in 1 .. Len(d[i].gi[g])
             PROVE  d[i].gi[g][k].hdr <= h
  BY DEF HdrsWithin
<1>2. o + i \in 1 .. Len(gt)
  BY <1>1 DEF GroupsAfter
<1>3. d[i].gi[g] # <<>>
  OBVIOUS
<1>4. SameList(d[i].gi[g], gt[o + i].gi[g])
  BY <1>1, <1>3 DEF GroupsAfter
<1> QED
  BY <1>2, <1>4 DEF SameList, HdrsWithin

\* Recording a packet adds its own.
LEMMA HdrsPush ==
  ASSUME NEW gt \in Seq(GroupFecTable), gt # <<>>, NEW e \in PacketInfo,
         NEW h, HdrsWithin(gt, h), e.hdr <= h
  PROVE  HdrsWithin(GroupPush(gt, e), h)
<1> DEFINE n == Len(gt)
           old == gt[n].gi[e.gid]
           gi == [gt[n].gi EXCEPT ![e.gid] = Append(old, e)]
           t == [gt[n] EXCEPT !.gi = gi]
           r == GroupPush(gt, e)
<1>1. n \in 1 .. Len(gt) /\ n \in Nat /\ e.gid \in Groups
  BY LenProperties DEF PacketInfo
<1>2. gt[n] \in GroupFecTable
  BY <1>1, ElementOfSeq
<1>3. gt[n].gi \in [Groups -> Seq(PacketInfo)] /\ old \in Seq(PacketInfo)
  BY <1>1, <1>2 DEF GroupFecTable
<1>4. r = [gt EXCEPT ![n] = t]
  BY DEF GroupPush
<1>5. /\ Append(old, e) \in Seq(PacketInfo) /\ Len(Append(old, e)) = Len(old) + 1 /\ Len(old) \in Nat
      /\ \A i \in 1 .. Len(old) : Append(old, e)[i] = old[i]
      /\ Append(old, e)[Len(old) + 1] = e
  BY <1>3, AppendProperties, LenProperties
<1>6. /\ t \in GroupFecTable /\ t.gi[e.gid] = Append(old, e)
      /\ \A g \in Groups : g # e.gid => t.gi[g] = gt[n].gi[g]
  BY <1>1, <1>2, <1>3, <1>5 DEF GroupFecTable
<1> HIDE DEF t, r, n
<1>7. /\ Len(r) = Len(gt) /\ \A i \in 1 .. Len(gt) : r[i] = IF i = n THEN t ELSE gt[i]
  BY <1>1, <1>4, <1>6, ExceptSeq
<1> SUFFICES ASSUME NEW i \in 1 .. Len(r), NEW g \in Groups, NEW k \in 1 .. Len(r[i].gi[g])
             PROVE  r[i].gi[g][k].hdr <= h
  BY DEF HdrsWithin, r
<1>8. CASE i = n /\ g = e.gid
  <2>1. r[i].gi[g] = Append(old, e)
    BY <1>1, <1>6, <1>7, <1>8
  <2>2. k \in 1 .. Len(old) + 1
    BY <1>5, <2>1
  <2> HIDE DEF old
  <2>3. CASE k = Len(old) + 1
    BY <1>5, <2>1, <2>3
  <2>4. CASE k # Len(old) + 1
    <3>1. k \in 1 .. Len(old)
      BY <1>5, <2>2, <2>4
    <3> QED
      BY <1>1, <1>5, <2>1, <3>1 DEF HdrsWithin, old
  <2> QED
    BY <2>3, <2>4
<1>9. CASE ~(i = n /\ g = e.gid)
  <2>1. r[i].gi[g] = gt[i].gi[g] /\ i \in 1 .. Len(gt)
    BY <1>6, <1>7, <1>9
  <2> QED
    BY <2>1 DEF HdrsWithin
<1> QED
  BY <1>8, <1>9

\* An empty round adds none.
LEMMA HdrsOpen ==
  ASSUME NEW gt \in Seq(GroupFecTable), NEW h, HdrsWithin(gt, h), NEW rid \in Nat, NEW size \in Sizes
  PROVE  HdrsWithin(WithGroups(gt, rid, size), h)
<1> DEFINE u == [rid |-> rid, n |-> size, gi |-> [g \in Groups |-> <<>>]]
<1>1. u \in GroupFecTable /\ \A g \in Groups : u.gi[g] = <<>>
  <2>1. [g \in Groups |-> <<>>] \in [Groups -> Seq(PacketInfo)]
    OBVIOUS
  <2> QED
    BY <2>1 DEF GroupFecTable
<1>2. WithGroups(gt, rid, size) = Append(gt, u)
  BY DEF WithGroups
<1> HIDE DEF u
<1>3. /\ Len(Append(gt, u)) = Len(gt) + 1 /\ Len(gt) \in Nat
      /\ \A i \in 1 .. Len(gt) : Append(gt, u)[i] = gt[i]
      /\ Append(gt, u)[Len(gt) + 1] = u
  BY <1>1, AppendProperties, LenProperties
<1> SUFFICES ASSUME NEW i \in 1 .. Len(gt) + 1, NEW g \in Groups,
                    NEW k \in 1 .. Len(Append(gt, u)[i].gi[g])
             PROVE  Append(gt, u)[i].gi[g][k].hdr <= h
  BY <1>2, <1>3 DEF HdrsWithin
<1>4. CASE i = Len(gt) + 1
  BY <1>1, <1>3, <1>4
<1>5. CASE i # Len(gt) + 1
  <2>1. i \in 1 .. Len(gt)
    BY <1>3, <1>5
  <2> QED
    BY <1>3, <2>1 DEF HdrsWithin
<1> QED
  BY <1>4, <1>5

\* The transit queue has what it had, and the new packet.
LEMMA InsertElements ==
  ASSUME NEW P, NEW tq \in Seq(P), NEW p \in P, NEW r, r = InsertTransitQueue(tq, p)
  PROVE  ToSet(r) = ToSet(tq) \cup {p}
<1> DEFINE I == {i \in 1 .. Len(tq) : tq[i].serial > p.serial}
           k == First(I)
<1>0. Len(tq) \in Nat /\ DOMAIN tq = 1 .. Len(tq)
  BY LenProperties
<1>1. CASE k = 0
  <2>1. r = Append(tq, p)
    BY <1>1 DEF InsertTransitQueue
  <2>2. /\ DOMAIN r = 1 .. Len(tq) + 1
        /\ \A i \in 1 .. Len(tq) : r[i] = tq[i]
        /\ r[Len(tq) + 1] = p
    BY <2>1, AppendProperties, LenProperties
  <2> QED
    BY <1>0, <2>2 DEF ToSet
<1>2. CASE k # 0
  <2>1. k \in 1 .. Len(tq)
    <3>1. I \in SUBSET Nat /\ I # {}
      BY <1>2 DEF First
    <3> QED
      BY <3>1, FirstIsLeast
  <2> DEFINE a == SubSeq(tq, 1, k - 1)
             b == SubSeq(tq, k, Len(tq))
  <2>2. r = (a \o <<p>>) \o b
    BY <1>2 DEF InsertTransitQueue
  <2> HIDE DEF k
  <2>3. \A i \in 1 .. Len(tq) : tq[i] \in P
    BY ElementOfSeq
  <2>4. /\ a \in Seq(P) /\ Len(a) = k - 1 /\ \A i \in 1 .. k - 1 : a[i] = tq[i]
    BY <1>0, <2>1, <2>3, SubSeqProperties
  <2>5. /\ b \in Seq(P) /\ Len(b) = Len(tq) - k + 1
        /\ \A i \in 1 .. Len(tq) - k + 1 : b[i] = tq[k + i - 1]
    BY <1>0, <2>1, <2>3, SubSeqProperties
  <2> HIDE DEF a, b
  <2>6. /\ a \o <<p>> \in Seq(P) /\ Len(a \o <<p>>) = k
        /\ \A i \in 1 .. k - 1 : (a \o <<p>>)[i] = tq[i]
        /\ (a \o <<p>>)[k] = p
    <3>1. <<p>> \in Seq(P) /\ Len(<<p>>) = 1 /\ <<p>>[1] = p
      OBVIOUS
    <3> QED
      BY <2>1, <2>4, <3>1, ConcatProperties
  <2> DEFINE x == a \o <<p>>
  <2> HIDE DEF x
  <2>7. /\ Len(x) = k /\ x \in Seq(P) /\ (\A i \in 1 .. k - 1 : x[i] = tq[i]) /\ x[k] = p
        /\ r = x \o b
    BY <2>2, <2>6 DEF x
  <2>8. /\ DOMAIN r = 1 .. Len(tq) + 1
        /\ \A i \in 1 .. Len(tq) + 1 : r[i] = IF i <= k THEN x[i] ELSE b[i - k]
    <3>1. Len(x \o b) = Len(x) + Len(b) /\ x \o b \in Seq(P)
      BY <2>5, <2>7, ConcatProperties
    <3>2. Len(r) = Len(tq) + 1 /\ r \in Seq(P)
      BY <1>0, <2>1, <2>5, <2>7, <3>1
    <3>3. \A i \in 1 .. Len(x) + Len(b) : (x \o b)[i] = IF i <= Len(x) THEN x[i] ELSE b[i - Len(x)]
      BY <2>5, <2>7, ConcatProperties
    <3>4. Len(x) + Len(b) = Len(tq) + 1
      BY <1>0, <2>1, <2>5, <2>7
    <3> QED
      BY <2>7, <3>2, <3>3, <3>4, LenProperties
  <2>9. \A i \in 1 .. Len(tq) + 1 : r[i] = IF i < k THEN tq[i] ELSE IF i = k THEN p ELSE tq[i - 1]
    <3> SUFFICES ASSUME NEW i \in 1 .. Len(tq) + 1
                 PROVE  r[i] = IF i < k THEN tq[i] ELSE IF i = k THEN p ELSE tq[i - 1]
      OBVIOUS
    <3>1. CASE i <= k
      BY <1>0, <2>1, <2>7, <2>8, <3>1
    <3>2. CASE i > k
      <4>1. i - k \in 1 .. Len(tq) - k + 1 /\ k + (i - k) - 1 = i - 1
        BY <1>0, <2>1, <3>2
      <4> QED
        BY <2>1, <2>5, <2>8, <3>2, <4>1, SMTT(60)
    <3> QED
      BY <2>1, <3>1, <3>2
  <2>10. \A i \in 1 .. Len(tq) : \E j \in 1 .. Len(tq) + 1 : r[j] = tq[i]
    <3> SUFFICES ASSUME NEW i \in 1 .. Len(tq)
                 PROVE  \E j \in 1 .. Len(tq) + 1 : r[j] = tq[i]
      OBVIOUS
    <3>1. CASE i < k
      BY <1>0, <2>9, <3>1
    <3>2. CASE ~(i < k)
      <4>1. i + 1 \in 1 .. Len(tq) + 1 /\ ~(i + 1 < k) /\ i + 1 # k /\ (i + 1) - 1 = i
        BY <1>0, <2>1, <3>2
      <4> QED
        BY <2>9, <4>1
    <3> QED
      BY <3>1, <3>2
  <2>11. k \in 1 .. Len(tq) + 1 /\ r[k] = p
    BY <1>0, <2>1, <2>9
  <2>12. \A i \in 1 .. Len(tq) + 1 : r[i] = p \/ \E j \in 1 .. Len(tq) : r[i] = tq[j]
    <3> SUFFICES ASSUME NEW i \in 1 .. Len(tq) + 1
                 PROVE  r[i] = p \/ \E j \in 1 .. Len(tq) : r[i] = tq[j]
      OBVIOUS
    <3>1. CASE i < k
      <4>1. i \in 1 .. Len(tq) /\ r[i] = tq[i]
        BY <1>0, <2>1, <2>9, <3>1
      <4> QED
        BY <4>1
    <3>2. CASE i = k
      BY <2>11, <3>2
    <3>3. CASE i > k
      <4>1. i - 1 \in 1 .. Len(tq) /\ r[i] = tq[i - 1]
        BY <1>0, <2>1, <2>9, <3>3
      <4> QED
        BY <4>1
    <3> QED
      BY <2>1, <3>1, <3>2, <3>3
  <2>13. DOMAIN r = 1 .. Len(tq) + 1
    BY <2>8
  <2> HIDE DEF I, k
  <2>14. {r[i] : i \in 1 .. Len(tq) + 1} \subseteq {tq[i] : i \in 1 .. Len(tq)} \cup {p}
    BY <2>12
  <2>15. {tq[i] : i \in 1 .. Len(tq)} \subseteq {r[i] : i \in 1 .. Len(tq) + 1}
    BY <2>10
  <2>16. p \in {r[i] : i \in 1 .. Len(tq) + 1}
    BY <2>11
  <2> QED
    BY <1>0, <2>13, <2>14, <2>15, <2>16 DEF ToSet
<1> QED
  BY <1>1, <1>2
-----------------------------------------------------------------------------
(* The entries of a round table, one by one *)

\* The searches stop at the first match.
LEMMA FirstMatch ==
  ASSUME NEW pi \in Seq(PacketInfo), NEW p
  PROVE  /\ PosInRound(pi, p) \in 1 .. Len(pi) =>
              /\ pi[PosInRound(pi, p)].serial = p.serial /\ pi[PosInRound(pi, p)].gid = p.gid
              /\ \A k \in 1 .. Len(pi) :
                   pi[k].serial = p.serial /\ pi[k].gid = p.gid => PosInRound(pi, p) <= k
         /\ PosInGroup(pi, p) \in 1 .. Len(pi) =>
              /\ pi[PosInGroup(pi, p)].serial = p.serial
              /\ \A k \in 1 .. Len(pi) : pi[k].serial = p.serial => PosInGroup(pi, p) <= k
<1> DEFINE R == {i \in 1 .. Len(pi) : pi[i].serial = p.serial /\ pi[i].gid = p.gid}
           G == {i \in 1 .. Len(pi) : pi[i].serial = p.serial}
<1>1. R \in SUBSET Nat /\ G \in SUBSET Nat
  OBVIOUS
<1>2. ASSUME NEW I \in SUBSET Nat, First(I) # 0
      PROVE  First(I) \in I /\ \A y \in I : First(I) <= y
  <2>1. I # {}
    BY <1>2 DEF First
  <2> QED
    BY <2>1, FirstIsLeast
<1>3. First(R) # 0 => First(R) \in R /\ \A y \in R : First(R) <= y
  BY <1>1, <1>2
<1>4. First(G) # 0 => First(G) \in G /\ \A y \in G : First(G) <= y
  BY <1>1, <1>2
<1>5. PosInRound(pi, p) = First(R) /\ PosInGroup(pi, p) = First(G)
  BY DEF PosInRound, PosInGroup
<1>6. 0 \notin 1 .. Len(pi)
  OBVIOUS
<1> QED
  BY <1>3, <1>4, <1>5, <1>6

\* Marking an entry changes its mark only.
LEMMA CheckedEntry ==
  ASSUME NEW pi \in Seq(PacketInfo), NEW s \in 1 .. Len(pi)
  PROVE  /\ Checked(pi, s) \in Seq(PacketInfo) /\ Len(Checked(pi, s)) = Len(pi)
         /\ \A k \in 1 .. Len(pi) :
              /\ Checked(pi, s)[k].serial = pi[k].serial /\ Checked(pi, s)[k].gid = pi[k].gid
              /\ Checked(pi, s)[k].hdr = pi[k].hdr /\ Checked(pi, s)[k].fec = pi[k].fec
              /\ Checked(pi, s)[k].check <=> (pi[k].check \/ k = s)
              /\ Checked(pi, s)[k].flag <=> pi[k].flag
<1>1. /\ Checked(pi, s) \in Seq(PacketInfo) /\ SameList(Checked(pi, s), pi)
  BY CheckedSame
<1>2. \A k \in 1 .. Len(pi) : pi[k] \in PacketInfo
  BY ElementOfSeq
<1>3. DOMAIN pi = 1 .. Len(pi)
  BY LenProperties
<1>4. ASSUME NEW k \in 1 .. Len(pi)
      PROVE  /\ Checked(pi, s)[k].check <=> (pi[k].check \/ k = s)
             /\ Checked(pi, s)[k].flag <=> pi[k].flag
             /\ Checked(pi, s)[k].fec = pi[k].fec
  <2>1. CASE k = s
    <3>1. Checked(pi, s)[k] = [pi[k] EXCEPT !.check = TRUE]
      BY <1>3, <2>1 DEF Checked
    <3> QED
      BY <1>2, <2>1, <3>1 DEF PacketInfo
  <2>2. CASE k # s
    <3>1. Checked(pi, s)[k] = pi[k]
      BY <1>3, <2>2 DEF Checked
    <3> QED
      BY <2>2, <3>1
  <2> QED
    BY <2>1, <2>2
<1> QED
  BY <1>1, <1>4 DEF SameList

\* Every list of the table has its entries typed.
LEMMA EntryTyped ==
  ASSUME NEW rt \in Seq(RoundFecTable), NEW i \in 1 .. Len(rt)
  PROVE  /\ rt[i].rid \in Nat /\ rt[i].pi \in Seq(PacketInfo) /\ Len(rt[i].pi) \in Nat
         /\ \A k \in 1 .. Len(rt[i].pi) : rt[i].pi[k] \in PacketInfo /\ rt[i].pi[k].hdr \in Nat
<1>1. rt[i] \in RoundFecTable
  BY ElementOfSeq
<1>2. rt[i].rid \in Nat /\ rt[i].pi \in Seq(PacketInfo)
  BY <1>1 DEF RoundFecTable
<1>3. \A k \in 1 .. Len(rt[i].pi) : rt[i].pi[k] \in PacketInfo
  BY <1>2, ElementOfSeq
<1>4. \A e \in PacketInfo : e.hdr \in Nat
  BY DEF PacketInfo
<1> QED
  BY <1>2, <1>3, <1>4, LenProperties

\* Entries of r: those of rt and, at the end of the last round, e.
LEMMA PushEntry ==
  ASSUME NEW rt \in Seq(RoundFecTable), rt # <<>>, NEW e \in PacketInfo
  PROVE  /\ Len(RoundPush(rt, e)) = Len(rt)
         /\ \A i \in 1 .. Len(rt) : /\ RoundPush(rt, e)[i].rid = rt[i].rid
                                    /\ i # Len(rt) => RoundPush(rt, e)[i].pi = rt[i].pi
         /\ RoundPush(rt, e)[Len(rt)].pi = Append(rt[Len(rt)].pi, e)
<1> DEFINE n == Len(rt)
           t == [rt[n] EXCEPT !.pi = Append(rt[n].pi, e)]
<1>1. n \in 1 .. n /\ n \in Nat /\ DOMAIN rt = 1 .. n
  BY LenProperties
<1>2. rt[n] \in RoundFecTable
  BY <1>1, ElementOfSeq
<1>3. t.pi = Append(rt[n].pi, e) /\ t.rid = rt[n].rid
  BY <1>2 DEF RoundFecTable
<1>4. RoundPush(rt, e) = [rt EXCEPT ![n] = t]
  BY DEF RoundPush
<1> HIDE DEF t
<1>5. Len([rt EXCEPT ![n] = t]) = n
  BY <1>1
<1>6. \A i \in 1 .. n : [rt EXCEPT ![n] = t][i] = IF i = n THEN t ELSE rt[i]
  BY <1>1
<1> QED
  BY <1>1, <1>3, <1>4, <1>5, <1>6

\* MarkRoundFecTable marks the first entry of the packet and no other.
LEMMA MarkRoundAt ==
  ASSUME NEW rt \in Seq(RoundFecTable), NEW b \in Int, NEW p, Tag(p),
         Rounds(rt, b), NEW n \in 1 .. Len(rt), p.rid = b + n, RoundHas(rt[n], p),
         NEW s, s = PosInRound(rt[n].pi, p)
  PROVE  LET q == MarkRoundFecTable(rt, p)
         IN  /\ s \in 1 .. Len(rt[n].pi) /\ q[1].pi = Checked(rt[n].pi, s)
             /\ \A i \in 1 .. Len(q) : i # 1 => q[i] = rt[n + i - 1]
<1> DEFINE q == PopBelow(rt, p.rid)
           pi == rt[n].pi
<1>0. p.rid \in Int /\ n \in Int /\ Len(rt) \in Nat
  BY LenProperties DEF Tag
<1>1. /\ q \in Seq(RoundFecTable) /\ Len(q) = Len(rt) - n + 1
      /\ \A i \in 1 .. Len(q) : q[i] = rt[n + i - 1]
  BY <1>0, PopBelowConsecutive
<1>2. 1 \in 1 .. Len(q) /\ q[1] = rt[n] /\ pi \in Seq(PacketInfo)
  <2>1. rt[n] \in RoundFecTable
    BY ElementOfSeq
  <2>2. pi \in Seq(PacketInfo)
    BY <2>1 DEF RoundFecTable
  <2> QED
    BY <1>0, <1>1, <2>2
<1>3. s \in 1 .. Len(pi)
  BY <1>2, PosFound DEF RoundHas
<1>4. PosInRound(pi, p) = s
  OBVIOUS
<1>5. ~(p.rid < rt[1].rid)
  BY <1>0 DEF Rounds
<1>6. MarkRoundFecTable(rt, p) = [q EXCEPT ![1].pi = Checked(@, PosInRound(@, p))]
  BY <1>5 DEF MarkRoundFecTable
<1> HIDE DEF q
<1>7. /\ [q EXCEPT ![1].pi = Checked(@, PosInRound(@, p))][1].pi = Checked(pi, s)
      /\ Len([q EXCEPT ![1].pi = Checked(@, PosInRound(@, p))]) = Len(q)
      /\ \A i \in 1 .. Len(q) :
           i # 1 => [q EXCEPT ![1].pi = Checked(@, PosInRound(@, p))][i] = q[i]
  <2>1. DOMAIN q = 1 .. Len(q) /\ q[1] \in RoundFecTable
    BY <1>1, <1>2, LenProperties, ElementOfSeq
  <2>2. DOMAIN rt[n] = {"rid", "n", "pi"}
    BY <1>2, <2>1 DEF RoundFecTable
  <2> DEFINE t == [rt[n] EXCEPT !.pi = Checked(pi, s)]
  <2>3. [q EXCEPT ![1].pi = Checked(@, PosInRound(@, p))] = [q EXCEPT ![1] = t]
    BY <1>2, <1>4
  <2>4. t.pi = Checked(pi, s)
    BY <2>2
  <2> HIDE DEF t
  <2>5. Len([q EXCEPT ![1] = t]) = Len(q)
    BY <1>1, <2>1
  <2> QED
    BY <1>2, <2>1, <2>3, <2>4, <2>5
<1> QED
  BY <1>1, <1>3, <1>6, <1>7

\* The rounds that are popped: the first off of rt, with p marked.
ClosedAs(cl, rt, off, n, s) ==
  /\ DOMAIN cl = 1 .. off
  /\ \A i \in 1 .. off :
       /\ DOMAIN cl[i].pi = 1 .. Len(rt[i].pi)
       /\ \A k \in 1 .. Len(rt[i].pi) :
            /\ cl[i].pi[k].fec = rt[i].pi[k].fec
            /\ cl[i].pi[k].check <=> (rt[i].pi[k].check \/ (i = n /\ k = s))

\* Closed returns them.
LEMMA ClosedAt ==
  ASSUME NEW rt \in Seq(RoundFecTable), NEW b \in Int, NEW p, Tag(p),
         Rounds(rt, b), NEW n \in 1 .. Len(rt), p.rid = b + n, RoundHas(rt[n], p),
         NEW s, s = PosInRound(rt[n].pi, p),
         NEW off, off = IF Closing(rt[n], p) THEN n ELSE n - 1
  PROVE  ClosedAs(Closed(rt, p), rt, off, n, s)
<1> DEFINE mark == MarkRoundFecTable(rt, p)
           old == SubSeq(rt, 1, Len(rt) - Len(mark))
           own == IF p.rid >= mark[1].rid /\ ClosesRound(mark, p) THEN <<mark[1]>> ELSE <<>>
           pi == rt[n].pi
<1>1. /\ s \in 1 .. Len(pi) /\ mark[1].pi = Checked(pi, s)
  BY MarkRoundAt, SMTT(30)
<1>2. /\ mark \in Seq(RoundFecTable) /\ Len(mark) = Len(rt) - (n - 1) /\ mark # <<>>
      /\ mark[1].rid = p.rid /\ mark[1].n = rt[n].n
  BY MarkRoundPass DEF RoundsAfter
<1>3. Closed(rt, p) = old \o own
  BY DEF Closed
<1>4. /\ Len(rt) \in Nat /\ n \in Int /\ p.rid \in Int /\ mark[1] \in RoundFecTable
      /\ pi \in Seq(PacketInfo) /\ Len(pi) \in Nat
  <2>1. 1 \in 1 .. Len(mark)
    BY <1>2
  <2>2. mark[1] \in RoundFecTable
    BY <1>2, <2>1, ElementOfSeq
  <2> QED
    BY <2>2, LenProperties, EntryTyped DEF Tag
<1> HIDE DEF mark
<1>5. own = IF Closing(rt[n], p) THEN <<mark[1]>> ELSE <<>>
  <2>1. p.rid >= mark[1].rid
    BY <1>2, <1>4
  <2>2. ClosesRound(mark, p) <=> Closing(rt[n], p)
    BY <1>2 DEF ClosesRound, Closing
  <2> QED
    BY <2>1, <2>2
<1> HIDE DEF own, pi
<1>6. /\ old \in Seq(RoundFecTable) /\ Len(old) = n - 1
      /\ \A i \in 1 .. n - 1 : old[i] = rt[i]
  <2>1. Len(rt) - Len(mark) = n - 1
    BY ONLY <1>2, <1>4
  <2>2. \A i \in 1 .. n - 1 : rt[i] \in RoundFecTable
    <3>1. \A i \in 1 .. n - 1 : i \in 1 .. Len(rt)
      BY <1>4
    <3> QED
      BY <3>1, ElementOfSeq
  <2>3. /\ SubSeq(rt, 1, n - 1) \in Seq(RoundFecTable)
        /\ Len(SubSeq(rt, 1, n - 1)) = IF 1 <= n - 1 THEN (n - 1) - 1 + 1 ELSE 0
        /\ \A i \in 1 .. (n - 1) - 1 + 1 : SubSeq(rt, 1, n - 1)[i] = rt[1 + i - 1]
    <3>1. n - 1 \in Int /\ 1 \in Int
      BY <1>4
    <3> QED
      BY ONLY <2>2, <3>1, SubSeqProperties
  <2>4. (n - 1) - 1 + 1 = n - 1 /\ (IF 1 <= n - 1 THEN (n - 1) - 1 + 1 ELSE 0) = n - 1
    BY <1>4
  <2>5. \A i \in 1 .. n - 1 : 1 + i - 1 = i
    OBVIOUS
  <2> QED
    BY <2>1, <2>3, <2>4, <2>5
<1> HIDE DEF old
<1>7. own \in Seq(RoundFecTable) /\ Len(own) = off - (n - 1) /\ off \in Nat
  BY <1>4, <1>5
<1> DEFINE cl == old \o own
<1>8. /\ cl \in Seq(RoundFecTable) /\ Len(cl) = off
      /\ \A i \in 1 .. off : cl[i] = IF i <= n - 1 THEN rt[i] ELSE mark[1]
  <2>1. /\ cl \in Seq(RoundFecTable) /\ Len(cl) = Len(old) + Len(own)
        /\ \A i \in 1 .. Len(old) + Len(own) : cl[i] = IF i <= Len(old) THEN old[i] ELSE own[i - Len(old)]
    BY <1>6, <1>7, ConcatProperties
  <2>2. Len(old) + Len(own) = off
    <3> HIDE DEF cl
    <3> QED
      BY ONLY <1>4, <1>6, <1>7
  <2> HIDE DEF cl
  <2>3. ASSUME NEW i \in 1 .. off
        PROVE  cl[i] = IF i <= n - 1 THEN rt[i] ELSE mark[1]
    <3>1. CASE i <= n - 1
      <4>1. i \in 1 .. n - 1
        BY <1>4, <3>1
      <4> QED
        BY <1>6, <2>1, <2>2, <3>1, <4>1
    <3>2. CASE ~(i <= n - 1)
      <4>1. i \in Int /\ i >= n /\ i <= off
        BY <1>4, <1>7, <3>2
      <4>2. Closing(rt[n], p) /\ i = n
        BY <1>4, <4>1
      <4>3. own = <<mark[1]>> /\ i - Len(old) = 1
        BY <1>4, <1>5, <1>6, <4>2
      <4> QED
        BY <1>6, <2>1, <2>2, <3>2, <4>3
    <3> QED
      BY <3>1, <3>2
  <2> QED
    BY <2>1, <2>2, <2>3
<1> HIDE DEF cl
<1>9. \A i \in 1 .. off : i <= n - 1 \/ i = n
  BY <1>4
<1>10. ASSUME NEW i \in 1 .. off
       PROVE  /\ DOMAIN cl[i].pi = 1 .. Len(rt[i].pi)
              /\ \A k \in 1 .. Len(rt[i].pi) :
                   /\ cl[i].pi[k].fec = rt[i].pi[k].fec
                   /\ cl[i].pi[k].check <=> (rt[i].pi[k].check \/ (i = n /\ k = s))
  <2>1. CASE i <= n - 1
    <3>1. cl[i] = rt[i] /\ i # n /\ i \in 1 .. Len(rt)
      <4>1. i \in Int /\ i >= 1 /\ i <= n - 1 /\ n \in 1 .. Len(rt)
        BY <1>7, <2>1
      <4>2. i # n /\ i \in 1 .. Len(rt)
        BY ONLY <1>4, <4>1
      <4> QED
        BY <1>8, <2>1, <4>2
    <3>2. DOMAIN rt[i].pi = 1 .. Len(rt[i].pi)
      BY <3>1, EntryTyped, LenProperties
    <3> QED
      BY <3>1, <3>2
  <2>2. CASE i = n
    <3>1. cl[i].pi = Checked(pi, s) /\ rt[i].pi = pi
      BY <1>1, <1>4, <1>8, <2>2 DEF pi
    <3>2. /\ Checked(pi, s) \in Seq(PacketInfo) /\ Len(Checked(pi, s)) = Len(pi)
          /\ \A k \in 1 .. Len(pi) :
               /\ Checked(pi, s)[k].fec = pi[k].fec
               /\ Checked(pi, s)[k].check <=> (pi[k].check \/ k = s)
      BY <1>1, <1>4, CheckedEntry DEF pi
    <3>3. DOMAIN Checked(pi, s) = 1 .. Len(pi)
      BY <3>2, LenProperties
    <3> QED
      BY <2>2, <3>1, <3>2, <3>3
  <2> QED
    BY <1>9, <2>1, <2>2
<1>11. DOMAIN cl = 1 .. off
  BY <1>8, LenProperties
<1> QED
  BY <1>3, <1>10, <1>11 DEF ClosedAs, cl

\* PrintRoundFecTable counts the places of entries that are not marked.
LEMMA PrintCounts ==
  ASSUME NEW cl, NEW rt, NEW off, NEW n, NEW s, ClosedAs(cl, rt, off, n, s),
         NEW fec \in BOOLEAN, NEW x
  PROVE  x \in PrintRoundFecTable(cl, fec) <=>
           \E i \in 1 .. off : \E k \in 1 .. Len(rt[i].pi) :
             x = <<i, k>> /\ rt[i].pi[k].fec = fec /\ ~rt[i].pi[k].check /\ ~(i = n /\ k = s)
<1>1. /\ DOMAIN cl = 1 .. off
      /\ \A i \in 1 .. off :
           /\ DOMAIN cl[i].pi = 1 .. Len(rt[i].pi)
           /\ \A k \in 1 .. Len(rt[i].pi) :
                /\ cl[i].pi[k].fec = rt[i].pi[k].fec
                /\ cl[i].pi[k].check <=> (rt[i].pi[k].check \/ (i = n /\ k = s))
  BY DEF ClosedAs
<1>2. x \in UNION {{i} \X DOMAIN cl[i].pi : i \in DOMAIN cl} <=>
        \E i \in 1 .. off : \E k \in 1 .. Len(rt[i].pi) : x = <<i, k>>
  <2>1. x \in UNION {{i} \X DOMAIN cl[i].pi : i \in DOMAIN cl} <=>
          \E i \in 1 .. off : x \in {i} \X (1 .. Len(rt[i].pi))
    BY <1>1
  <2>2. \A i : x \in {i} \X (1 .. Len(rt[i].pi)) <=> \E k \in 1 .. Len(rt[i].pi) : x = <<i, k>>
    OBVIOUS
  <2> QED
    BY <2>1, <2>2
<1>3. x \in PrintRoundFecTable(cl, fec) <=>
        /\ x \in UNION {{i} \X DOMAIN cl[i].pi : i \in DOMAIN cl}
        /\ cl[x[1]].pi[x[2]].fec = fec /\ ~cl[x[1]].pi[x[2]].check
  BY DEF PrintRoundFecTable
<1>4. ASSUME NEW i \in 1 .. off, NEW k \in 1 .. Len(rt[i].pi), x = <<i, k>>
      PROVE  cl[x[1]].pi[x[2]].fec = fec /\ ~cl[x[1]].pi[x[2]].check <=>
               rt[i].pi[k].fec = fec /\ ~rt[i].pi[k].check /\ ~(i = n /\ k = s)
  <2>1. x[1] = i /\ x[2] = k
    BY <1>4
  <2> QED
    BY <1>1, <2>1
<1> QED
  BY <1>2, <1>3, <1>4
-----------------------------------------------------------------------------
(* The entries of a table as the packets see them: by round *)

\* Entry e is the kth of round r.
RoundEntry(rt, r, k, e) ==
  \E i \in 1 .. Len(rt) : rt[i].rid = r /\ k \in 1 .. Len(rt[i].pi) /\ e = rt[i].pi[k]

\* Entry e has been added at the end of the last round.
EntryAdded(c, rt, last, e) ==
  \E n \in Nat :
    /\ RoundEntry(c, last, n, e)
    /\ \A r, k, x : RoundEntry(c, r, k, x) => RoundEntry(rt, r, k, x) \/ (r = last /\ k = n /\ x = e)
    /\ \A r, k, x : RoundEntry(rt, r, k, x) => RoundEntry(c, r, k, x) /\ (r = last => k < n)

\* The same entries.
EntriesSame(c, rt) == \A r, k, x : RoundEntry(c, r, k, x) <=> RoundEntry(rt, r, k, x)

\* Entry x is d, with a mark more if marked.
SameEntry(x, d, marked) ==
  /\ x.serial = d.serial /\ x.gid = d.gid /\ x.fec = d.fec /\ x.hdr = d.hdr
  /\ x.check <=> (d.check \/ marked)

\* Table c is what the passes for packet p have left of rt: later rounds, with
\* the first entry of the packet, the sth, marked.
RoundsPassed(c, rt, p, s) ==
  /\ s \in Nat /\ p.rid <= c[1].rid
  /\ \E d : RoundEntry(rt, p.rid, s, d) /\ d.serial = p.serial /\ d.gid = p.gid
  /\ \A k, d : RoundEntry(rt, p.rid, k, d) /\ d.serial = p.serial /\ d.gid = p.gid => s <= k
  /\ \A r, k, x : RoundEntry(c, r, k, x) =>
       c[1].rid <= r /\ \E d : RoundEntry(rt, r, k, d) /\ SameEntry(x, d, r = p.rid /\ k = s)
  /\ \A r, k, d : RoundEntry(rt, r, k, d) /\ c[1].rid <= r =>
       \E x : RoundEntry(c, r, k, x) /\ SameEntry(x, d, r = p.rid /\ k = s)

\* The entries of the round at place n.
LEMMA EntryAt ==
  ASSUME NEW rt, Len(rt) \in Nat, NEW b \in Int, Rounds(rt, b), NEW n \in 1 .. Len(rt),
         NEW r, r = b + n, NEW k, NEW e
  PROVE  RoundEntry(rt, r, k, e) <=> k \in 1 .. Len(rt[n].pi) /\ e = rt[n].pi[k]
<1>1. \A i \in 1 .. Len(rt) : rt[i].rid = b + i /\ (b + i = b + n => i = n)
  BY DEF Rounds
<1> QED
  BY <1>1 DEF RoundEntry

\* What is known of an entry.
LEMMA EntryFacts ==
  ASSUME NEW rt \in Seq(RoundFecTable), NEW b \in Int, Rounds(rt, b),
         NEW r, NEW k, NEW e, RoundEntry(rt, r, k, e)
  PROVE  /\ e \in PacketInfo /\ r \in Nat /\ k \in Nat /\ b < r /\ r <= b + Len(rt)
         /\ rt[1].rid <= r /\ rt[1].rid \in Nat
         /\ \A d : RoundEntry(rt, r, k, d) => d = e
<1>1. PICK i \in 1 .. Len(rt) : rt[i].rid = r /\ k \in 1 .. Len(rt[i].pi) /\ e = rt[i].pi[k]
  BY DEF RoundEntry
<1>2. Len(rt) \in Nat /\ 1 \in 1 .. Len(rt)
  BY LenProperties
<1>3. e \in PacketInfo /\ r \in Nat /\ k \in Nat /\ rt[1].rid \in Nat
  BY <1>1, <1>2, EntryTyped
<1>4. r = b + i /\ rt[1].rid = b + 1
  BY <1>1, <1>2 DEF Rounds
<1>5. \A d : RoundEntry(rt, r, k, d) => d = e
  BY <1>1, <1>2, <1>4, EntryAt
<1>6. b < r /\ r <= b + Len(rt) /\ rt[1].rid <= r
  BY <1>2, <1>4
<1> QED
  BY <1>3, <1>5, <1>6

\* A packet is recorded.
LEMMA PushAdds ==
  ASSUME NEW rt \in Seq(RoundFecTable), rt # <<>>, NEW last \in Int, Ending(rt, last),
         NEW e \in PacketInfo
  PROVE  /\ EntryAdded(RoundPush(rt, e), rt, last, e)
         /\ RoundPush(rt, e)[1].rid = rt[1].rid
<1> DEFINE c == RoundPush(rt, e)
           z == Len(rt)
           n == Len(rt[z].pi) + 1
           b == last - z
<1>1. /\ Len(c) = z /\ c[z].pi = Append(rt[z].pi, e)
      /\ \A i \in 1 .. z : c[i].rid = rt[i].rid /\ (i # z => c[i].pi = rt[i].pi)
  BY PushEntry
<1> HIDE DEF c
<1>2. z \in Nat /\ z \in 1 .. z /\ 1 \in 1 .. z /\ b \in Int /\ last = b + z /\ Rounds(rt, b)
  BY LenProperties DEF Ending
<1>3. rt[z].pi \in Seq(PacketInfo) /\ Len(rt[z].pi) \in Nat
  BY <1>2, EntryTyped
<1>4. /\ Len(c[z].pi) = n /\ c[z].pi[n] = e
      /\ \A k \in 1 .. Len(rt[z].pi) : c[z].pi[k] = rt[z].pi[k]
  BY <1>1, <1>3, AppendProperties
<1> HIDE DEF b
<1>5. Rounds(c, b)
  BY <1>1, <1>2 DEF Rounds
<1>6. n \in Nat /\ 1 .. n = (1 .. Len(rt[z].pi)) \cup {n} /\ \A k \in 1 .. Len(rt[z].pi) : k < n
  BY <1>3
<1> HIDE DEF n
<1>7. ASSUME NEW k, NEW x
      PROVE  /\ RoundEntry(c, last, k, x) <=> RoundEntry(rt, last, k, x) \/ (k = n /\ x = e)
             /\ RoundEntry(rt, last, k, x) => k < n
  <2>1. RoundEntry(c, last, k, x) <=> k \in 1 .. n /\ x = c[z].pi[k]
    <3>1. Len(c) \in Nat /\ z \in 1 .. Len(c)
      BY <1>1, <1>2
    <3>2. RoundEntry(c, last, k, x) <=> k \in 1 .. Len(c[z].pi) /\ x = c[z].pi[k]
      BY ONLY <1>2, <1>5, <3>1, EntryAt
    <3> QED
      BY <1>4, <3>2
  <2>2. RoundEntry(rt, last, k, x) <=> k \in 1 .. Len(rt[z].pi) /\ x = rt[z].pi[k]
    BY <1>2, EntryAt
  <2> QED
    BY <1>4, <1>6, <2>1, <2>2
<1>8. ASSUME NEW r, NEW k, NEW x, r # last
      PROVE  RoundEntry(c, r, k, x) <=> RoundEntry(rt, r, k, x)
  <2>1. \A i \in 1 .. z : rt[i].rid = r => i # z
    BY <1>2, <1>8 DEF Rounds
  <2> QED
    BY <1>1, <2>1 DEF RoundEntry
<1>9. RoundEntry(c, last, n, e)
  BY <1>7
<1> QED
  BY <1>1, <1>2, <1>6, <1>7, <1>8, <1>9 DEF EntryAdded, c

\* An empty round has none.
LEMMA OpenAdds ==
  ASSUME NEW rt \in Seq(RoundFecTable), NEW rid \in Nat, NEW size \in Sizes
  PROVE  /\ EntriesSame(WithRound(rt, rid, size), rt)
         /\ rt # <<>> => WithRound(rt, rid, size)[1].rid = rt[1].rid
<1> DEFINE t == [rid |-> rid, n |-> size, pi |-> <<>>]
           c == Append(rt, t)
<1>1. t \in RoundFecTable /\ Len(t.pi) = 0
  BY DEF RoundFecTable
<1> HIDE DEF t
<1>2. /\ Len(c) = Len(rt) + 1 /\ c[Len(rt) + 1] = t /\ Len(rt) \in Nat
      /\ \A i \in 1 .. Len(rt) : c[i] = rt[i]
  BY <1>1, AppendProperties, LenProperties
<1>3. WithRound(rt, rid, size) = c
  BY DEF WithRound, t
<1> HIDE DEF c
<1>4. ASSUME NEW r, NEW k, NEW x PROVE RoundEntry(c, r, k, x) <=> RoundEntry(rt, r, k, x)
  <2>1. \A i \in 1 .. Len(c) : i \in 1 .. Len(rt) \/ (c[i] = t /\ 1 .. Len(c[i].pi) = {})
    BY <1>1, <1>2
  <2>2. 1 .. Len(rt) \subseteq 1 .. Len(c)
    BY <1>2
  <2> QED
    BY <1>2, <2>1, <2>2 DEF RoundEntry
<1>5. rt # <<>> => 1 \in 1 .. Len(rt)
  BY <1>2, EmptySeq
<1> QED
  BY <1>2, <1>3, <1>4, <1>5 DEF EntriesSame

\* What the round passes for packet p leave of the entries.
LEMMA PassEntries ==
  ASSUME NEW rt \in Seq(RoundFecTable), NEW b \in Int, NEW p, Tag(p),
         Rounds(rt, b), NEW n \in 1 .. Len(rt), p.rid = b + n, RoundHas(rt[n], p),
         NEW c, c = IF Closing(rt[n], p) THEN Tail(MarkRoundFecTable(rt, p))
                    ELSE MarkRoundFecTable(rt, p), c # <<>>
  PROVE  RoundsPassed(c, rt, p, PosInRound(rt[n].pi, p))
<1> DEFINE q == MarkRoundFecTable(rt, p)
           s == PosInRound(rt[n].pi, p)
           o == IF Closing(rt[n], p) THEN n ELSE n - 1
<1>1. s \in 1 .. Len(rt[n].pi) /\ q[1].pi = Checked(rt[n].pi, s)
      /\ \A i \in 1 .. Len(q) : i # 1 => q[i] = rt[n + i - 1]
  <2>1. s = PosInRound(rt[n].pi, p)
    OBVIOUS
  <2> HIDE DEF s
  <2> QED
    BY <2>1, MarkRoundAt
<1>2. RoundsAfter(q, rt, n - 1) /\ q # <<>>
  BY MarkRoundPass
<1> HIDE DEF q
<1>3. /\ Len(rt) \in Nat /\ n \in Nat /\ q \in Seq(RoundFecTable) /\ Len(q) = Len(rt) - (n - 1)
      /\ \A i \in 1 .. Len(q) : q[i].rid = rt[n - 1 + i].rid
  BY <1>2, LenProperties DEF RoundsAfter
<1>4. /\ c \in Seq(RoundFecTable) /\ Len(c) = Len(rt) - o /\ o \in Nat /\ 1 \in 1 .. Len(c)
      /\ \A i \in 1 .. Len(c) : c[i] = q[i + o - (n - 1)]
  <2>1. CASE Closing(rt[n], p)
    <3>1. c = Tail(q) /\ o = n
      BY <2>1 DEF q
    <3>2. Tail(q) \in Seq(RoundFecTable) /\ Len(Tail(q)) = Len(q) - 1
          /\ \A i \in 1 .. Len(Tail(q)) : Tail(q)[i] = q[i + 1]
      BY <1>2, <1>3, HeadTailProperties
    <3>3. Len(c) # 0 /\ Len(c) \in Nat
      BY <3>1, <3>2, LenProperties, EmptySeq
    <3>4. \A i \in 1 .. Len(c) : i + o - (n - 1) = i + 1
      BY <1>3, <3>1
    <3>5. Len(c) = Len(rt) - o /\ o \in Nat /\ 1 \in 1 .. Len(c)
      <4>1. Len(c) = Len(q) - 1
        BY <3>1, <3>2
      <4>2. Len(q) = Len(rt) - (n - 1) /\ o = n /\ n \in Nat /\ Len(rt) \in Nat
        BY <1>3, <3>1
      <4> QED
        BY ONLY <3>3, <4>1, <4>2
    <3>6. \A i \in 1 .. Len(c) : c[i] = q[i + o - (n - 1)]
      BY <3>1, <3>2, <3>4
    <3> QED
      BY <3>1, <3>2, <3>5, <3>6
  <2>2. CASE ~Closing(rt[n], p)
    <3>1. c = q /\ o = n - 1
      BY <2>2 DEF q
    <3>2. Len(q) # 0 /\ Len(q) \in Nat
      BY <1>2, <1>3, LenProperties, EmptySeq
    <3>3. \A i \in 1 .. Len(c) : i + o - (n - 1) = i
      BY <1>3, <3>1
    <3>4. Len(c) = Len(rt) - o /\ o \in Nat /\ 1 \in 1 .. Len(c)
      BY <1>3, <3>1, <3>2
    <3>5. \A i \in 1 .. Len(c) : c[i] = q[i + o - (n - 1)]
      BY <3>1, <3>3
    <3> QED
      BY <1>3, <3>1, <3>4, <3>5
  <2> QED
    BY <2>1, <2>2
<1>5. o = n \/ o = n - 1
  OBVIOUS
<1> HIDE DEF o
<1>6. \A i \in 1 .. Len(c) : o + i \in 1 .. Len(rt) /\ i + o - (n - 1) \in 1 .. Len(q)
  <2> TAKE i \in 1 .. Len(c)
  <2>1. /\ i \in Nat /\ 1 <= i /\ i <= Len(c) /\ Len(c) = Len(rt) - o /\ o \in Nat /\ n \in Nat
        /\ Len(q) = Len(rt) - (n - 1) /\ Len(rt) \in Nat
    BY <1>3, <1>4
  <2> QED
    BY ONLY <1>5, <2>1
<1>7. ASSUME NEW i \in 1 .. Len(c)
      PROVE  /\ c[i].rid = b + o + i
             /\ Len(c[i].pi) = Len(rt[o + i].pi)
             /\ \A k \in 1 .. Len(rt[o + i].pi) :
                  SameEntry(c[i].pi[k], rt[o + i].pi[k], o + i = n /\ k = s)
  <2> DEFINE j == i + o - (n - 1)
  <2>1. j \in 1 .. Len(q) /\ c[i] = q[j] /\ o + i \in 1 .. Len(rt) /\ n + j - 1 = o + i
        /\ n - 1 + j = o + i /\ (j = 1 <=> o + i = n)
    <3>1. j \in 1 .. Len(q) /\ c[i] = q[j] /\ o + i \in 1 .. Len(rt)
      BY <1>4, <1>6
    <3>2. i \in Nat /\ o \in Nat /\ n \in Nat
      BY <1>3, <1>4
    <3>3. n + j - 1 = o + i /\ n - 1 + j = o + i /\ (j = 1 <=> o + i = n)
      BY ONLY <3>2
    <3> QED
      BY <3>1, <3>3
  <2> HIDE DEF j
  <2>2. c[i].rid = b + o + i
    <3>1. c[i].rid = rt[o + i].rid
      BY <1>3, <2>1
    <3> QED
      BY <2>1, <3>1, <1>4 DEF Rounds
  <2>3. CASE j = 1
    <3>1. c[i].pi = Checked(rt[n].pi, s) /\ o + i = n
      BY <1>1, <2>1, <2>3
    <3>2. rt[n].pi \in Seq(PacketInfo)
      BY EntryTyped
    <3>3. /\ Len(Checked(rt[n].pi, s)) = Len(rt[n].pi)
          /\ \A k \in 1 .. Len(rt[n].pi) : SameEntry(Checked(rt[n].pi, s)[k], rt[n].pi[k], k = s)
      BY <1>1, <3>2, CheckedEntry DEF SameEntry
    <3> QED
      BY <2>2, <3>1, <3>3
  <2>4. CASE j # 1
    <3>1. c[i] = rt[o + i] /\ o + i # n
      BY <1>1, <2>1, <2>4
    <3>2. \A k : SameEntry(rt[o + i].pi[k], rt[o + i].pi[k], FALSE)
      BY DEF SameEntry
    <3> QED
      BY <2>2, <3>1, <3>2
  <2> QED
    BY <2>3, <2>4
<1>8. s \in Nat /\ \A k, d : RoundEntry(rt, p.rid, k, d) <=> k \in 1 .. Len(rt[n].pi) /\ d = rt[n].pi[k]
  <2>1. Len(rt[n].pi) \in Nat
    BY EntryTyped
  <2> QED
    BY <1>1, <1>3, <2>1, EntryAt
<1>9. /\ rt[n].pi[s].serial = p.serial /\ rt[n].pi[s].gid = p.gid
      /\ \A k \in 1 .. Len(rt[n].pi) :
           rt[n].pi[k].serial = p.serial /\ rt[n].pi[k].gid = p.gid => s <= k
  <2>1. rt[n].pi \in Seq(PacketInfo)
    BY EntryTyped
  <2>2. s = PosInRound(rt[n].pi, p) /\ s \in 1 .. Len(rt[n].pi)
    BY <1>1
  <2> HIDE DEF s
  <2> QED
    BY ONLY <2>1, <2>2, FirstMatch
<1> HIDE DEF s
<1>10. c[1].rid = b + o + 1 /\ p.rid <= c[1].rid
  <2>1. c[1].rid = b + o + 1
    BY <1>4, <1>7
  <2>2. b + o + 1 >= b + n
    <3>1. n \in Nat /\ o \in Nat
      BY <1>3, <1>4
    <3> QED
      BY ONLY b \in Int, <1>5, <3>1
  <2> QED
    BY ONLY p.rid = b + n, <2>1, <2>2
<1>11. ASSUME NEW r, NEW k, NEW x, RoundEntry(c, r, k, x)
       PROVE  c[1].rid <= r /\ \E d : RoundEntry(rt, r, k, d) /\ SameEntry(x, d, r = p.rid /\ k = s)
  <2>1. PICK i \in 1 .. Len(c) : c[i].rid = r /\ k \in 1 .. Len(c[i].pi) /\ x = c[i].pi[k]
    BY <1>11 DEF RoundEntry
  <2>2. /\ r = b + o + i /\ k \in 1 .. Len(rt[o + i].pi)
        /\ SameEntry(x, rt[o + i].pi[k], o + i = n /\ k = s) /\ o + i \in 1 .. Len(rt)
    BY <1>6, <1>7, <2>1
  <2>3. rt[o + i].rid = r /\ (r = p.rid <=> o + i = n) /\ c[1].rid <= r
    BY <1>3, <1>4, <1>10, <2>2 DEF Rounds
  <2>4. RoundEntry(rt, r, k, rt[o + i].pi[k])
    BY <2>2, <2>3 DEF RoundEntry
  <2> QED
    BY <2>2, <2>3, <2>4
<1>12. ASSUME NEW r, NEW k, NEW d, RoundEntry(rt, r, k, d), c[1].rid <= r
       PROVE  \E x : RoundEntry(c, r, k, x) /\ SameEntry(x, d, r = p.rid /\ k = s)
  <2>1. PICK j \in 1 .. Len(rt) : rt[j].rid = r /\ k \in 1 .. Len(rt[j].pi) /\ d = rt[j].pi[k]
    BY <1>12 DEF RoundEntry
  <2>2. PICK i \in 1 .. Len(c) : o + i = j
    <3>1. r = b + j
      BY <2>1 DEF Rounds
    <3>2. j - o \in 1 .. Len(c)
      <4>1. b + o + 1 <= b + j
        BY <1>10, <1>12, <3>1
      <4>2. j \in Nat /\ j <= Len(rt) /\ o \in Nat /\ Len(c) = Len(rt) - o /\ Len(rt) \in Nat
        BY <1>3, <1>4
      <4> QED
        BY ONLY b \in Int, <4>1, <4>2
    <3>3. o + (j - o) = j
      BY <1>4
    <3> QED
      BY <3>2, <3>3
  <2>3. /\ c[i].rid = b + o + i /\ k \in 1 .. Len(c[i].pi)
        /\ SameEntry(c[i].pi[k], d, o + i = n /\ k = s)
    BY <1>7, <2>1, <2>2
  <2>4. c[i].rid = r /\ (r = p.rid <=> o + i = n)
    <3>1. r = b + j
      BY <2>1 DEF Rounds
    <3>2. i \in Nat /\ o \in Nat /\ b + o + i = b + j /\ (b + j = b + n <=> j = n)
      <4>1. i \in Nat /\ o \in Nat /\ n \in Nat /\ j \in Nat
        BY <1>3, <1>4
      <4> QED
        BY ONLY b \in Int, <2>2, <4>1
    <3> QED
      BY <2>2, <2>3, <3>1, <3>2
  <2>5. RoundEntry(c, r, k, c[i].pi[k])
    BY <2>3, <2>4 DEF RoundEntry
  <2> QED
    BY <2>3, <2>4, <2>5
<1>13. \E d : RoundEntry(rt, p.rid, s, d) /\ d.serial = p.serial /\ d.gid = p.gid
  BY <1>1, <1>8, <1>9
<1>14. \A k, d : RoundEntry(rt, p.rid, k, d) /\ d.serial = p.serial /\ d.gid = p.gid => s <= k
  BY <1>8, <1>9
<1>15. RoundsPassed(c, rt, p, s)
  BY <1>8, <1>10, <1>11, <1>12, <1>13, <1>14 DEF RoundsPassed
<1> QED
  BY <1>15 DEF s
-----------------------------------------------------------------------------
(* The entries of the group tables, by round and group *)

\* Entry e is the kth of group g in round r.
GroupEntry(gt, r, g, k, e) ==
  /\ g \in Groups
  /\ \E i \in 1 .. Len(gt) : gt[i].rid = r /\ k \in 1 .. Len(gt[i].gi[g]) /\ e = gt[i].gi[g][k]

\* Entry e has been added at the end of its group in the last round.
GroupEntryAdded(c, gt, last, e) ==
  \E n \in Nat :
    /\ \A r, g, k, x : GroupEntry(c, r, g, k, x) =>
         GroupEntry(gt, r, g, k, x) \/ (r = last /\ g = e.gid /\ k = n /\ x = e)
    /\ \A k, x : GroupEntry(gt, last, e.gid, k, x) => k < n

\* The same entries.
GroupEntriesSame(c, gt) ==
  \A r, g, k, x : GroupEntry(c, r, g, k, x) <=> GroupEntry(gt, r, g, k, x)

\* Table c is what the group passes for packet p have left of gt: the rounds
\* from p's on, with the packet's first entry, the sth of its group, marked, and
\* without the group if it is settled.
GroupsPassed(c, gt, p, s, settled) ==
  /\ \E d : GroupEntry(gt, p.rid, p.gid, s, d) /\ d.serial = p.serial
  /\ \A k, d : GroupEntry(gt, p.rid, p.gid, k, d) /\ d.serial = p.serial => s <= k
  /\ \A r, g, k, x : GroupEntry(c, r, g, k, x) =>
       /\ p.rid <= r /\ ~(settled /\ r = p.rid /\ g = p.gid)
       /\ \E d : /\ GroupEntry(gt, r, g, k, d)
                 /\ SameEntry(x, d, r = p.rid /\ g = p.gid /\ k = s)

\* Entry e is one that is missing in the group of p, before another entry.
MissingIn(gt, p, s, e) ==
  \E k, j, d, f :
    /\ GroupEntry(gt, p.rid, p.gid, k, d) /\ SameEntry(e, d, k = s) /\ ~e.check
    /\ e.serial < p.serial /\ GroupEntry(gt, p.rid, p.gid, j, f) /\ k < j

\* The lists of a group table have their entries typed.
LEMMA GroupTyped ==
  ASSUME NEW gt \in Seq(GroupFecTable), NEW i \in 1 .. Len(gt), NEW g \in Groups
  PROVE  /\ gt[i] \in GroupFecTable /\ gt[i].rid \in Nat
         /\ gt[i].gi \in [Groups -> Seq(PacketInfo)]
         /\ gt[i].gi[g] \in Seq(PacketInfo) /\ Len(gt[i].gi[g]) \in Nat
         /\ \A k \in 1 .. Len(gt[i].gi[g]) : gt[i].gi[g][k] \in PacketInfo
<1>1. gt[i] \in GroupFecTable
  BY ElementOfSeq
<1>2. gt[i].rid \in Nat /\ gt[i].gi \in [Groups -> Seq(PacketInfo)]
  BY <1>1 DEF GroupFecTable
<1>3. gt[i].gi[g] \in Seq(PacketInfo)
  BY <1>2
<1> QED
  BY <1>1, <1>2, <1>3, LenProperties, ElementOfSeq

\* The entries of the round at place n.
LEMMA GroupEntryAt ==
  ASSUME NEW gt, Len(gt) \in Nat, NEW b \in Int, Rounds(gt, b), NEW n \in 1 .. Len(gt),
         NEW r, r = b + n, NEW g \in Groups, NEW k, NEW e
  PROVE  GroupEntry(gt, r, g, k, e) <=> k \in 1 .. Len(gt[n].gi[g]) /\ e = gt[n].gi[g][k]
<1>1. \A i \in 1 .. Len(gt) : gt[i].rid = b + i /\ (b + i = b + n => i = n)
  BY DEF Rounds
<1> QED
  BY <1>1 DEF GroupEntry

\* What is known of an entry.
LEMMA GroupEntryFacts ==
  ASSUME NEW gt \in Seq(GroupFecTable), NEW b \in Int, Rounds(gt, b),
         NEW r, NEW g, NEW k, NEW e, GroupEntry(gt, r, g, k, e)
  PROVE  /\ e \in PacketInfo /\ r \in Nat /\ k \in Nat /\ g \in Groups /\ r <= b + Len(gt)
         /\ \A d : GroupEntry(gt, r, g, k, d) => d = e
<1>1. PICK i \in 1 .. Len(gt) : gt[i].rid = r /\ k \in 1 .. Len(gt[i].gi[g]) /\ e = gt[i].gi[g][k]
  BY DEF GroupEntry
<1>2. Len(gt) \in Nat /\ g \in Groups
  BY LenProperties DEF GroupEntry
<1>3. e \in PacketInfo /\ r \in Nat /\ k \in Nat
  BY <1>1, <1>2, GroupTyped
<1>4. r = b + i
  BY <1>1 DEF Rounds
<1>5. \A d : GroupEntry(gt, r, g, k, d) => d = e
  BY <1>1, <1>2, <1>4, GroupEntryAt
<1>6. r <= b + Len(gt)
  BY <1>2, <1>4
<1> QED
  BY <1>2, <1>3, <1>5, <1>6

\* A packet is recorded in its group.
LEMMA GroupPushAdds ==
  ASSUME NEW gt \in Seq(GroupFecTable), gt # <<>>, NEW last \in Int, Ending(gt, last),
         NEW e \in PacketInfo
  PROVE  GroupEntryAdded(GroupPush(gt, e), gt, last, e)
<1> DEFINE z == Len(gt)
           old == gt[z].gi[e.gid]
           pi == Append(old, e)
           gi == [gt[z].gi EXCEPT ![e.gid] = pi]
           t == [gt[z] EXCEPT !.gi = gi]
           c == GroupPush(gt, e)
           n == Len(old) + 1
           b == last - z
<1>1. z \in 1 .. z /\ z \in Nat /\ e.gid \in Groups
  BY LenProperties DEF PacketInfo
<1>2. /\ gt[z] \in GroupFecTable /\ gt[z].gi \in [Groups -> Seq(PacketInfo)]
      /\ old \in Seq(PacketInfo) /\ Len(old) \in Nat
  BY <1>1, GroupTyped
<1>3. /\ pi \in Seq(PacketInfo) /\ Len(pi) = n
      /\ \A i \in 1 .. Len(old) : pi[i] = old[i]
      /\ pi[n] = e
  BY <1>2, AppendProperties
<1>4. c = [gt EXCEPT ![z] = t]
  BY DEF GroupPush
<1>5. n \in Nat /\ 1 .. n = (1 .. Len(old)) \cup {n} /\ \A k \in 1 .. Len(old) : k < n
  <2>1. \A m \in Nat : /\ m + 1 \in Nat /\ 1 .. m + 1 = (1 .. m) \cup {m + 1}
                       /\ \A k \in 1 .. m : k < m + 1
    BY ONLY TRUE
  <2>2. Len(old) \in Nat
    BY <1>2
  <2> QED
    BY <2>1, <2>2
<1> HIDE DEF pi, z, c, n
<1>6. /\ t \in GroupFecTable /\ t.rid = gt[z].rid /\ t.gi[e.gid] = pi
      /\ \A g \in Groups : g # e.gid => t.gi[g] = gt[z].gi[g]
  BY <1>1, <1>2, <1>3 DEF GroupFecTable
<1> HIDE DEF t
<1>7. /\ Len(c) = Len(gt)
      /\ \A i \in 1 .. Len(gt) : c[i] = IF i = z THEN t ELSE gt[i]
  BY <1>1, <1>4, <1>6, ExceptSeq DEF z
<1>8. b \in Int /\ last = b + z /\ Rounds(gt, b)
  BY <1>1 DEF Ending, z
<1> HIDE DEF b, old
<1>9. ASSUME NEW r, NEW g, NEW k, NEW x, GroupEntry(c, r, g, k, x)
      PROVE  GroupEntry(gt, r, g, k, x) \/ (r = last /\ g = e.gid /\ k = n /\ x = e)
  <2>1. PICK i \in 1 .. Len(c) : c[i].rid = r /\ k \in 1 .. Len(c[i].gi[g]) /\ x = c[i].gi[g][k]
    BY <1>9 DEF GroupEntry
  <2>2. g \in Groups /\ i \in 1 .. Len(gt) /\ c[i].rid = gt[i].rid
    BY <1>6, <1>7, <1>9, <2>1 DEF GroupEntry
  <2>3. CASE i = z /\ g = e.gid
    <3>1. r = last
      BY <1>8, <2>1, <2>2, <2>3 DEF Rounds
    <3>2. c[i].gi[g] = pi
      BY <1>6, <1>7, <2>2, <2>3
    <3>3. k \in 1 .. n /\ x = pi[k]
      BY <1>3, <2>1, <3>2
    <3>4. CASE k \in 1 .. Len(old)
      <4>1. x = gt[i].gi[g][k] /\ k \in 1 .. Len(gt[i].gi[g])
        BY <1>3, <2>3, <3>3, <3>4 DEF old
      <4> QED
        BY <2>1, <2>2, <4>1 DEF GroupEntry
    <3>5. CASE k = n
      BY <1>3, <2>3, <3>1, <3>3, <3>5
    <3> QED
      BY <1>5, <3>3, <3>4, <3>5
  <2>4. CASE ~(i = z /\ g = e.gid)
    <3>1. c[i].gi[g] = gt[i].gi[g]
      BY <1>6, <1>7, <2>2, <2>4
    <3> QED
      BY <2>1, <2>2, <3>1 DEF GroupEntry
  <2> QED
    BY <2>3, <2>4
<1>10. ASSUME NEW k, NEW x, GroupEntry(gt, last, e.gid, k, x)
       PROVE  k < n
  <2>1. k \in 1 .. Len(gt[z].gi[e.gid])
    <3>1. Len(gt) \in Nat /\ z \in 1 .. Len(gt)
      BY <1>1 DEF z
    <3> QED
      BY ONLY <1>1, <1>8, <1>10, <3>1, GroupEntryAt
  <2> QED
    BY <1>5, <2>1 DEF old
<1> QED
  BY <1>5, <1>9, <1>10 DEF GroupEntryAdded, c

\* An empty round has none.
LEMMA GroupOpenAdds ==
  ASSUME NEW gt \in Seq(GroupFecTable), NEW rid \in Nat, NEW size \in Sizes
  PROVE  GroupEntriesSame(WithGroups(gt, rid, size), gt)
<1> DEFINE t == [rid |-> rid, n |-> size, gi |-> [g \in Groups |-> <<>>]]
           c == Append(gt, t)
<1>1. t \in GroupFecTable /\ \A g \in Groups : Len(t.gi[g]) = 0
  BY DEF GroupFecTable
<1> HIDE DEF t
<1>2. /\ Len(c) = Len(gt) + 1 /\ c[Len(gt) + 1] = t /\ Len(gt) \in Nat
      /\ \A i \in 1 .. Len(gt) : c[i] = gt[i]
  BY <1>1, AppendProperties, LenProperties
<1>3. WithGroups(gt, rid, size) = c
  BY DEF WithGroups, t
<1> HIDE DEF c
<1>4. ASSUME NEW r, NEW g, NEW k, NEW x
      PROVE  GroupEntry(c, r, g, k, x) <=> GroupEntry(gt, r, g, k, x)
  <2>1. \A i \in 1 .. Len(c) : i \in 1 .. Len(gt) \/ (g \in Groups => 1 .. Len(c[i].gi[g]) = {})
    BY <1>1, <1>2
  <2>2. 1 .. Len(gt) \subseteq 1 .. Len(c)
    BY <1>2
  <2> QED
    BY <1>2, <2>1, <2>2 DEF GroupEntry
<1> QED
  BY <1>3, <1>4 DEF GroupEntriesSame

\* Group table q is gt from its nth round on, with entry s of group g0 marked.
GroupMarked(q, gt, n, g0, s) ==
  /\ q \in Seq(GroupFecTable) /\ q # <<>> /\ Len(q) = Len(gt) - n + 1
  /\ \A i \in 1 .. Len(q) : q[i].rid = gt[n + i - 1].rid
  /\ q[1].gi[g0] = Checked(gt[n].gi[g0], s)
  /\ \A i \in 1 .. Len(q) : \A g \in Groups :
       ~(i = 1 /\ g = g0) => q[i].gi[g] = gt[n + i - 1].gi[g]

\* Group table c is q, but for an empty group g0 in its first round.
GroupEmptied(c, q, g0) ==
  /\ Len(c) = Len(q)
  /\ \A i \in 1 .. Len(q) : c[i].rid = q[i].rid
  /\ c[1].gi[g0] = <<>>
  /\ \A i \in 1 .. Len(q) : \A g \in Groups :
       ~(i = 1 /\ g = g0) => c[i].gi[g] = q[i].gi[g]

\* Group table c is q with list pi for group g0 of its first round.
GroupReplaced(c, q, g0, pi) ==
  /\ c \in Seq(GroupFecTable) /\ Len(c) = Len(q) /\ c # <<>>
  /\ \A i \in 1 .. Len(q) : c[i].rid = q[i].rid
  /\ c[1].gi[g0] = pi
  /\ \A i \in 1 .. Len(q) : \A g \in Groups :
       ~(i = 1 /\ g = g0) => c[i].gi[g] = q[i].gi[g]

\* So are the tables that the passes build.
LEMMA GroupFront ==
  ASSUME NEW q \in Seq(GroupFecTable), q # <<>>, NEW g0 \in Groups, NEW pi \in Seq(PacketInfo)
  PROVE  GroupReplaced([q EXCEPT ![1].gi[g0] = pi], q, g0, pi)
<1> DEFINE gi == [q[1].gi EXCEPT ![g0] = pi]
           t == [q[1] EXCEPT !.gi = gi]
           c == [q EXCEPT ![1] = t]
<1>1. Len(q) \in Nat /\ 1 \in 1 .. Len(q)
  BY LenProperties, EmptySeq
<1>2. q[1] \in GroupFecTable /\ q[1].gi \in [Groups -> Seq(PacketInfo)]
  BY <1>1, GroupTyped, ElementOfSeq DEF GroupFecTable
<1>3. /\ t \in GroupFecTable /\ t.rid = q[1].rid /\ t.gi[g0] = pi
      /\ \A g \in Groups : g # g0 => t.gi[g] = q[1].gi[g]
  BY <1>2 DEF GroupFecTable
<1>4. c = [q EXCEPT ![1].gi[g0] = pi]
  OBVIOUS
<1> HIDE DEF t
<1>5. /\ c \in Seq(GroupFecTable) /\ Len(c) = Len(q)
      /\ \A i \in 1 .. Len(q) : c[i] = IF i = 1 THEN t ELSE q[i]
  BY <1>1, <1>3, ExceptSeq
<1> HIDE DEF c
<1>6. c # <<>>
  BY <1>1, <1>5
<1>7. GroupReplaced(c, q, g0, pi)
  BY <1>1, <1>3, <1>5, <1>6 DEF GroupReplaced
<1> QED
  BY <1>4, <1>7

\* MarkGroupFecTable marks the first entry of the packet's serial in its group
\* and counts those before it that are missing.
LEMMA MarkGroupAt ==
  ASSUME NEW gt \in Seq(GroupFecTable), NEW b \in Int, NEW p, Tag(p),
         Rounds(gt, b), NEW n \in 1 .. Len(gt), p.rid = b + n, GroupHas(gt[n], p),
         NEW rt, ~(p.rid < rt[1].rid),
         NEW s, s = PosInGroup(gt[n].gi[p.gid], p)
  PROVE  LET m == MarkGroupFecTable(rt, gt, p)
         IN  /\ s \in 1 .. Len(gt[n].gi[p.gid])
             /\ GroupMarked(m.gt, gt, n, p.gid, s)
<1> DEFINE q == PopBelow(gt, p.rid)
           pi == gt[n].gi[p.gid]
           c == MarkGroupFecTable(rt, gt, p).gt
<1>1. p.rid \in Int /\ n \in Int /\ Len(gt) \in Nat /\ p.gid \in Groups
  BY LenProperties DEF Tag
<1>2. /\ q \in Seq(GroupFecTable) /\ Len(q) = Len(gt) - n + 1
      /\ \A i \in 1 .. Len(q) : q[i] = gt[n + i - 1]
  BY <1>1, PopBelowConsecutive
<1> HIDE DEF q
<1>3. pi \in Seq(PacketInfo) /\ Len(pi) \in Nat
  BY <1>1, GroupTyped
<1>4. s \in 1 .. Len(pi) /\ PosInGroup(pi, p) = s
  BY <1>3, PosFound DEF GroupHas
<1>5. q # <<>> /\ q[1] = gt[n]
  <2>1. 1 \in 1 .. Len(q) /\ n + 1 - 1 = n
    BY <1>1, <1>2
  <2> QED
    BY <1>2, <2>1
<1>6. c = [q EXCEPT ![1].gi[p.gid] = Checked(pi, s)]
  BY <1>4, <1>5 DEF MarkGroupFecTable, q
<1>7. Checked(pi, s) \in Seq(PacketInfo)
  BY <1>3, <1>4, CheckedSame
<1> HIDE DEF c, pi
<1>8. GroupReplaced(c, q, p.gid, Checked(pi, s))
  BY <1>1, <1>2, <1>5, <1>6, <1>7, GroupFront
<1>9. GroupMarked(c, gt, n, p.gid, s)
  BY <1>2, <1>8 DEF GroupMarked, GroupReplaced, pi
<1> QED
  BY <1>4, <1>9 DEF c, pi

\* On a table that begins with the packet's round there is nothing to pop.
LEMMA NothingPopped ==
  ASSUME NEW gt \in Seq(GroupFecTable), gt # <<>>, NEW rid \in Int, gt[1].rid = rid
  PROVE  PopBelow(gt, rid) = gt
<1> DEFINE I == {i \in 1 .. Len(gt) : gt[i].rid >= rid}
<1>1. Len(gt) \in Nat /\ 1 \in 1 .. Len(gt)
  BY LenProperties, EmptySeq
<1>2. I \in SUBSET Nat /\ 1 \in I /\ \A i \in I : 1 <= i
  BY <1>1
<1>3. First(I) \in I /\ \A y \in I : First(I) <= y
  BY <1>2, FirstIsLeast
<1>4. First(I) = 1
  BY <1>2, <1>3
<1>5. PopBelow(gt, rid) = IF First(I) = 0 THEN <<>> ELSE SubSeq(gt, First(I), Len(gt))
  BY DEF PopBelow
<1> HIDE DEF I
<1>6. PopBelow(gt, rid) = SubSeq(gt, 1, Len(gt))
  BY <1>4, <1>5
<1>7. SubSeq(gt, 1, Len(gt)) = gt
  BY SubSeqFull
<1> QED
  BY <1>6, <1>7

\* CheckGroupFecTable empties the packet's group; what it rebuilds is an entry
\* of that group before the packet's own that is not marked.
LEMMA CheckGroupAt ==
  ASSUME NEW q \in Seq(GroupFecTable), q # <<>>, NEW p, Tag(p), q[1].rid = p.rid,
         NEW rt, ~(p.rid < rt[1].rid), NEW nlost, NEW pi, pi = q[1].gi[p.gid],
         NEW x, x = CheckGroupFecTable(rt, q, p, nlost)
  PROVE  /\ GroupEmptied(x.gt, q, p.gid)
         /\ x.recovered # <<>> =>
              \E k \in Missing(pi, PosInGroup(pi, p), p.serial) : x.recovered = <<pi[k]>>
<1> DEFINE lst == Missing(pi, PosInGroup(pi, p), p.serial)
           c == [q EXCEPT ![1].gi[p.gid] = <<>>]
<1>1. p.rid \in Int /\ p.gid \in Groups /\ <<>> \in Seq(PacketInfo)
  BY DEF Tag
<1>2. PopBelow(q, p.rid) = q
  BY <1>1, NothingPopped
<1>3. x = [gt |-> c, mlost |-> Cardinality(lst),
           recovered |-> IF nlost = 1 /\ Cardinality(lst) = 1
                         THEN <<pi[CHOOSE i \in lst : TRUE]>> ELSE <<>>]
  BY <1>2 DEF CheckGroupFecTable
<1>4. GroupReplaced(c, q, p.gid, <<>>)
  BY <1>1, GroupFront
<1>5. x.gt = c
  BY <1>3
<1> HIDE DEF c
<1>6. GroupEmptied(x.gt, q, p.gid)
  BY <1>4, <1>5 DEF GroupEmptied, GroupReplaced
<1>7. ASSUME x.recovered # <<>>
      PROVE  \E k \in lst : x.recovered = <<pi[k]>>
  <2> HIDE DEF lst
  <2>1. Cardinality(lst) = 1
    BY <1>3, <1>7
  <2>2. x.recovered = <<pi[CHOOSE i \in lst : TRUE]>>
    BY <1>3, <1>7
  <2>3. Cardinality({}) = 0
    BY FS_EmptySet
  <2>4. ASSUME lst = {} PROVE FALSE
    <3>1. Cardinality(lst) = 0
      BY <2>3, <2>4
    <3> QED
      BY <2>1, <3>1
  <2>5. PICK k \in lst : k = CHOOSE i \in lst : TRUE
    BY <2>4
  <2> QED
    BY <2>2, <2>5
<1> QED
  BY <1>6, <1>7

\* What the group passes for packet p leave of the entries.
LEMMA GroupPassEntries ==
  ASSUME NEW gt \in Seq(GroupFecTable), NEW b \in Int, NEW p, Tag(p),
         Rounds(gt, b), NEW n \in 1 .. Len(gt), p.rid = b + n,
         NEW s, s = PosInGroup(gt[n].gi[p.gid], p), s \in 1 .. Len(gt[n].gi[p.gid]),
         NEW q, GroupMarked(q, gt, n, p.gid, s),
         NEW settled \in BOOLEAN, NEW c, ~settled => c = q,
         settled => GroupEmptied(c, q, p.gid)
  PROVE  GroupsPassed(c, gt, p, s, settled)
<1> DEFINE pi == gt[n].gi[p.gid]
<1>1. /\ p.rid \in Int /\ n \in Int /\ Len(gt) \in Nat /\ p.gid \in Groups
      /\ pi \in Seq(PacketInfo) /\ Len(pi) \in Nat
  BY LenProperties, GroupTyped DEF Tag
<1>2. \A k, e : GroupEntry(gt, p.rid, p.gid, k, e) <=> k \in 1 .. Len(pi) /\ e = pi[k]
  <2> TAKE k, e
  <2> QED
    BY <1>1, GroupEntryAt
<1>3. pi[s].serial = p.serial /\ \A k \in 1 .. Len(pi) : pi[k].serial = p.serial => s <= k
  BY <1>1, FirstMatch
<1>4. \A k \in 1 .. Len(pi) : /\ Len(Checked(pi, s)) = Len(pi)
                              /\ SameEntry(Checked(pi, s)[k], pi[k], k = s)
  BY <1>1, CheckedEntry DEF SameEntry
<1>5. Len(Checked(pi, s)) = Len(pi)
  BY <1>1, CheckedEntry
<1>6. /\ \E d : GroupEntry(gt, p.rid, p.gid, s, d) /\ d.serial = p.serial
      /\ \A k, d : GroupEntry(gt, p.rid, p.gid, k, d) /\ d.serial = p.serial => s <= k
  <2> HIDE DEF pi
  <2> QED
    BY <1>2, <1>3 DEF pi
<1>7. ASSUME NEW r, NEW g, NEW k, NEW x, GroupEntry(c, r, g, k, x)
      PROVE  /\ p.rid <= r /\ ~(settled /\ r = p.rid /\ g = p.gid)
             /\ \E d : /\ GroupEntry(gt, r, g, k, d)
                       /\ SameEntry(x, d, r = p.rid /\ g = p.gid /\ k = s)
  <2>1. PICK i \in 1 .. Len(c) : c[i].rid = r /\ k \in 1 .. Len(c[i].gi[g]) /\ x = c[i].gi[g][k]
    BY <1>7 DEF GroupEntry
  <2>2. g \in Groups
    BY <1>7 DEF GroupEntry
  <2>3. Len(c) = Len(q) /\ c[i].rid = q[i].rid /\ Len(q) = Len(gt) - n + 1 /\ Len(q) \in Nat
    <3>1. Len(c) = Len(q) /\ (i \in 1 .. Len(q) => c[i].rid = q[i].rid)
      BY DEF GroupEmptied
    <3> QED
      BY <2>1, <3>1, LenProperties DEF GroupMarked
  <2>4. i \in 1 .. Len(q) /\ n + i - 1 \in 1 .. Len(gt) /\ i \in Nat /\ i >= 1
    BY <1>1, <2>1, <2>3
  <2>5. q[i].rid = gt[n + i - 1].rid
    BY <2>4 DEF GroupMarked
  <2>6. r = b + (n + i - 1) /\ p.rid <= r /\ (r = p.rid <=> i = 1)
    <3>1. gt[n + i - 1].rid = b + (n + i - 1)
      BY <2>4 DEF Rounds
    <3> QED
      BY <1>1, <2>1, <2>3, <2>4, <2>5, <3>1
  <2>7. ~(settled /\ i = 1 /\ g = p.gid)
    <3>1. ASSUME settled, i = 1, g = p.gid PROVE FALSE
      <4>1. c[i].gi[g] = <<>>
        BY <3>1 DEF GroupEmptied
      <4> QED
        BY <2>1, <4>1
    <3> QED
      BY <3>1
  <2>8. c[i].gi[g] = q[i].gi[g]
    BY <2>2, <2>4, <2>7 DEF GroupEmptied
  <2>9. CASE i = 1 /\ g = p.gid
    <3>1. c[i].gi[g] = Checked(pi, s)
      BY <2>8, <2>9 DEF GroupMarked
    <3>2. k \in 1 .. Len(pi) /\ x = Checked(pi, s)[k]
      BY <1>5, <2>1, <3>1
    <3>3. SameEntry(x, pi[k], k = s) /\ GroupEntry(gt, p.rid, p.gid, k, pi[k])
      BY <1>2, <1>4, <3>2
    <3>4. r = p.rid /\ g = p.gid
      BY <2>6, <2>9
    <3> HIDE DEF pi
    <3> QED
      BY <2>6, <2>7, <2>9, <3>3, <3>4 DEF SameEntry
  <2>10. CASE ~(i = 1 /\ g = p.gid)
    <3>1. c[i].gi[g] = gt[n + i - 1].gi[g]
      BY <2>2, <2>4, <2>8, <2>10 DEF GroupMarked
    <3>2. GroupEntry(gt, r, g, k, x)
      BY <2>1, <2>2, <2>3, <2>4, <2>5, <3>1 DEF GroupEntry
    <3>3. ~(r = p.rid /\ g = p.gid)
      BY <2>6, <2>10
    <3>4. SameEntry(x, x, r = p.rid /\ g = p.gid /\ k = s)
      BY <3>3 DEF SameEntry
    <3> QED
      BY <2>6, <3>2, <3>3, <3>4
  <2> QED
    BY <2>9, <2>10
<1> HIDE DEF pi
<1> QED
  BY <1>6, <1>7 DEF GroupsPassed

\* Both group passes, as Recv makes them: what they leave of the entries, and
\* the one they rebuild.
LEMMA GroupPasses ==
  ASSUME NEW gt \in Seq(GroupFecTable), NEW b \in Int, NEW p, Tag(p),
         Rounds(gt, b), NEW n \in 1 .. Len(gt), p.rid = b + n, GroupHas(gt[n], p),
         NEW rt, ~(p.rid < rt[1].rid),
         NEW grp, grp = MarkGroupFecTable(rt, gt, p),
         NEW rec, rec = IF p.type = REDUNDANT
                        THEN CheckGroupFecTable(rt, grp.gt, p, grp.nlost)
                        ELSE [gt |-> grp.gt, mlost |-> 0, recovered |-> <<>>]
  PROVE  \E s \in Nat :
           /\ GroupsPassed(rec.gt, gt, p, s, p.type = REDUNDANT)
           /\ rec.recovered # <<>> =>
                /\ p.type = REDUNDANT
                /\ \E e : rec.recovered = <<e>> /\ MissingIn(gt, p, s, e)
<1> DEFINE pi == gt[n].gi[p.gid]
           s == PosInGroup(pi, p)
           q == grp.gt
           qi == q[1].gi[p.gid]
<1>1. /\ p.rid \in Int /\ n \in Int /\ Len(gt) \in Nat /\ p.gid \in Groups
      /\ pi \in Seq(PacketInfo) /\ Len(pi) \in Nat
  BY LenProperties, GroupTyped DEF Tag
<1>2. s \in 1 .. Len(pi) /\ GroupMarked(q, gt, n, p.gid, s)
  BY MarkGroupAt
<1>3. CASE p.type # REDUNDANT
  <2>1. rec.gt = q /\ rec.recovered = <<>>
    BY <1>3
  <2> HIDE DEF s, q
  <2>2. PICK settled \in BOOLEAN : ~settled
    OBVIOUS
  <2>3. GroupsPassed(rec.gt, gt, p, s, settled)
    BY <1>2, <2>1, <2>2, GroupPassEntries DEF s
  <2>4. GroupsPassed(rec.gt, gt, p, s, p.type = REDUNDANT)
    BY <1>3, <2>2, <2>3 DEF GroupsPassed
  <2>5. s \in Nat
    BY <1>1, <1>2
  <2> QED
    BY <2>1, <2>4, <2>5
<1>4. CASE p.type = REDUNDANT
  <2> HIDE DEF s, q
  <2>1. rec = CheckGroupFecTable(rt, q, p, grp.nlost)
    BY <1>4 DEF q
  <2>2. q \in Seq(GroupFecTable) /\ q # <<>> /\ qi = Checked(pi, s)
    BY <1>2 DEF GroupMarked
  <2>3. q[1].rid = p.rid
    <3>1. Len(q) \in Nat /\ Len(q) # 0
      BY <2>2, LenProperties, EmptySeq
    <3>2. q[1].rid = gt[n + 1 - 1].rid /\ n + 1 - 1 = n
      BY <1>1, <1>2, <3>1 DEF GroupMarked
    <3> QED
      BY <3>2 DEF Rounds
  <2>4. /\ GroupEmptied(rec.gt, q, p.gid)
        /\ rec.recovered # <<>> =>
             \E k \in Missing(qi, PosInGroup(qi, p), p.serial) : rec.recovered = <<qi[k]>>
    BY <2>1, <2>2, <2>3, CheckGroupAt
  <2>5. GroupsPassed(rec.gt, gt, p, s, TRUE)
    BY <1>2, <2>4, GroupPassEntries DEF s
  <2>6. ASSUME rec.recovered # <<>>
        PROVE  \E e : rec.recovered = <<e>> /\ MissingIn(gt, p, s, e)
    <3> DEFINE j == PosInGroup(qi, p)
    <3>1. PICK k \in Missing(qi, j, p.serial) : rec.recovered = <<qi[k]>>
      BY <2>4, <2>6
    <3>2. /\ qi \in Seq(PacketInfo) /\ Len(qi) = Len(pi)
          /\ \A i \in 1 .. Len(pi) : SameEntry(qi[i], pi[i], i = s)
      <4> HIDE DEF pi, qi
      <4>1. /\ Checked(pi, s) \in Seq(PacketInfo) /\ Len(Checked(pi, s)) = Len(pi)
            /\ \A i \in 1 .. Len(pi) : SameEntry(Checked(pi, s)[i], pi[i], i = s)
        BY <1>1, <1>2, CheckedEntry DEF SameEntry
      <4> QED
        BY <2>2, <4>1
    <3>3. j \in 1 .. Len(qi)
      <4>1. pi[s].serial = p.serial
        BY <1>1, <1>2, FirstMatch DEF s
      <4>2. s \in 1 .. Len(qi) /\ qi[s].serial = p.serial
        BY <1>2, <3>2, <4>1 DEF SameEntry
      <4> QED
        BY <3>2, <4>2, PosFound
    <3> HIDE DEF pi, j, qi
    <3>4. k \in 1 .. j - 1 /\ ~qi[k].check /\ qi[k].serial < p.serial
      BY <3>1 DEF Missing
    <3>5. k \in 1 .. Len(pi) /\ j \in 1 .. Len(pi) /\ k < j
      BY <1>1, <3>2, <3>3, <3>4
    <3>6. \A i \in 1 .. Len(pi) : GroupEntry(gt, p.rid, p.gid, i, pi[i])
      BY <1>1, GroupEntryAt DEF pi
    <3>7. MissingIn(gt, p, s, qi[k])
      <4>1. SameEntry(qi[k], pi[k], k = s)
        BY <3>2, <3>5
      <4> QED
        BY <3>4, <3>5, <3>6, <4>1 DEF MissingIn
    <3> QED
      BY <3>1, <3>7
  <2>7. s \in Nat
    BY <1>1, <1>2
  <2> QED
    BY <1>4, <2>5, <2>6, <2>7
<1> QED
  BY <1>3, <1>4
=============================================================================
