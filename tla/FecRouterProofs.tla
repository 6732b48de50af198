--------------------------- MODULE FecRouterProofs ---------------------------
(***************************************************************************)
(* The tables of the two routers always describe the path between them,    *)
(* for every number of groups, group size, mode and input length; and what *)
(* follows for the requests for retransmission and the loss counters.      *)
(***************************************************************************)
EXTENDS FecRouter, FecTablesProofs, TLAPS

\* What the lemmas on tables ask of packets.
LEMMA PacketTags == \A x \in Packet : Tag(x)
BY DEF Packet, Tag

\* The invariant, as those lemmas put it.
LEMMA LinkTracked ==
  ASSUME TypeOK, TablesCoverPath, ~init_
  PROVE  Tracked(link, rt_, gt_, m_roundId, fc_, m_groupId)
BY DEF TypeOK, TablesCoverPath, Consecutive, Ending, Tracked

\* Recv on the packet at the head of the path: every search on the way ends,
\* and the tables still describe the packets behind.
LEMMA RecvTables ==
  ASSUME TypeOK, TablesCoverPath, Idle, link # <<>>,
         NEW p, p = Head(link), p.type # NONE, NEW tq \in Seq(Packet)
  PROVE  LET r == Recv(tq, p)
         IN  /\ Serves(p)
             /\ Tracked(Tail(link), r.rt, r.gt, m_roundId, fc_, m_groupId)
             /\ \A i \in 1 .. Len(r.rt) : r.rt[i].n = NGroups
             /\ r.tq \in Seq(Packet)
             /\ r.recovered \in Seq(PacketInfo)
<1> DEFINE mark == MarkRoundFecTable(rt_, p)
           chk  == CheckRoundFecTable(mark, p)
           grp  == MarkGroupFecTable(chk.rt, gt_, p)
           rec  == IF p.type = REDUNDANT
                   THEN CheckGroupFecTable(chk.rt, grp.gt, p, grp.nlost)
                   ELSE [gt |-> grp.gt, mlost |-> 0, recovered |-> <<>>]
           r    == Recv(tq, p)
           br   == m_roundId - Len(rt_)
<1>1. /\ link \in Seq(Packet) /\ \A x \in Packet : Tag(x)
      /\ Tracked(link, rt_, gt_, m_roundId, fc_, m_groupId) /\ fc_ # 0
  BY PacketTags, LinkTracked DEF TypeOK, TablesCoverPath, Burst, Idle
<1>2. /\ rt_ \in Seq(RoundFecTable) /\ Rounds(rt_, br) /\ br \in Int
  BY <1>1, LenProperties DEF Tracked, Ending
<1>3. /\ p \in Packet /\ Tag(p)
      /\ \E n \in 1 .. Len(rt_) : /\ n = Index(rt_, m_roundId, p) /\ RoundHas(rt_[n], p)
                                  /\ p.rid = (m_roundId - Len(rt_)) + n /\ p.gid < rt_[n].n
      /\ \E m \in 1 .. Len(gt_) : /\ m = Index(gt_, m_roundId, p) /\ GroupHas(gt_[m], p)
                                  /\ p.rid = (m_roundId - Len(gt_)) + m
  BY <1>1, HeadTracked
<1>4. PICK n \in 1 .. Len(rt_) : /\ n = Index(rt_, m_roundId, p) /\ RoundHas(rt_[n], p)
                                 /\ p.rid = br + n
  BY <1>3
<1>5. PICK m \in 1 .. Len(gt_) : m = Index(gt_, m_roundId, p)
  BY <1>3
<1>c. AtHead(Packet, link, rt_, gt_, m_roundId, fc_, m_groupId, p, n, m)
  BY <1>1, <1>4, <1>5 DEF AtHead
<1> HIDE DEF br
<1>6. /\ RoundServes(rt_, p) /\ mark \in Seq(RoundFecTable) /\ mark # <<>> /\ mark[1].rid = p.rid
  BY <1>2, <1>3, <1>4, MarkRoundPass DEF RoundsAfter
<1>7. /\ ClosesRound(mark, p) => RoundsAfter(chk.rt, mark, 1)
      /\ ~ClosesRound(mark, p) => RoundsAfter(chk.rt, mark, 0)
  <2> HIDE DEF mark
  <2> QED
    BY <1>3, <1>6, CheckRoundPass
<1> HIDE DEF chk
<1>8. RoundsSettled(chk.rt, rt_, n, p)
  BY <1>2, <1>3, <1>4, <1>7, RoundPass
<1>a. grp = MarkGroupFecTable(chk.rt, gt_, p)
  OBVIOUS
<1>b. rec = IF p.type = REDUNDANT
            THEN CheckGroupFecTable(chk.rt, grp.gt, p, grp.nlost)
            ELSE [gt |-> grp.gt, mlost |-> 0, recovered |-> <<>>]
  OBVIOUS
<1> HIDE DEF rec, grp
<1>9. /\ GroupServes(chk.rt, gt_, p)
      /\ GroupsSettled(gt_, gt_, m, p) /\ GroupsSettled(rec.gt, gt_, m, p)
      /\ rec.recovered \in Seq(PacketInfo)
  <2> HIDE DEF mark
  <2> QED
    BY <1>8, <1>a, <1>b, <1>c, GroupsLeft
<1>10. Serves(p)
  BY <1>6, <1>9 DEF Serves, chk
<1>11. r.rt = chk.rt
  BY SMTT(30) DEF Recv, chk
<1>12. (r.gt = gt_ \/ r.gt = rec.gt) /\ (r.recovered = <<>> \/ r.recovered = rec.recovered)
  BY DEF Recv, chk, grp, rec
<1>13. r.tq \in Seq(Packet)
  <2>1. \/ r.tq = tq
        \/ r.tq = InsertTransitQueue(tq, p)
        \/ rec.recovered # <<>> /\ r.tq = InsertTransitQueue(tq, RecoveryPacket(p, rec.recovered[1]))
    BY DEF Recv, chk, grp, rec
  <2>2. rec.recovered # <<>> => RecoveryPacket(p, rec.recovered[1]) \in Packet
    <3>1. rec.recovered # <<>> => rec.recovered[1] \in PacketInfo
      BY <1>9
    <3> QED
      BY <1>3, <3>1 DEF RecoveryPacket, Packet, PacketInfo
  <2> HIDE DEF r
  <2> QED
    BY <1>3, <2>1, <2>2, InsertType, SMTT(30)
<1> HIDE DEF r
<1>14. GroupsSettled(r.gt, gt_, m, p) /\ RoundsSettled(r.rt, rt_, n, p)
  BY <1>8, <1>9, <1>11, <1>12
<1>15. /\ Tracked(Tail(link), r.rt, r.gt, m_roundId, fc_, m_groupId)
       /\ \A i \in 1 .. Len(r.rt) : \E j \in 1 .. Len(rt_) : r.rt[i].n = rt_[j].n
  <2> HIDE DEF mark
  <2> QED
    BY <1>14, <1>c, SettledTracks, SMTT(60)
<1>16. \A i \in 1 .. Len(r.rt) : r.rt[i].n = NGroups
  BY <1>15 DEF TypeOK
<1>17. r.recovered \in Seq(PacketInfo)
  <2>1. <<>> \in Seq(PacketInfo)
    OBVIOUS
  <2> QED
    BY <1>9, <1>12, <2>1
<1> QED
  BY <1>10, <1>13, <1>15, <1>16, <1>17 DEF r
-----------------------------------------------------------------------------
(* The invariant is inductive *)

IInv == TypeOK /\ TablesCoverPath

\* Facts on products that the burst of redundant packets rests on.
LEMMA ProductFacts ==
  ASSUME NEW q \in Nat, NEW n \in Nat \ {0}
  PROVE  /\ q * n \in Nat
         /\ q # 0 => q * n >= n /\ (q - 1) * n = q * n - n
         /\ q = 0 => q * n = 0
<1>1. (q - 1) * n = q * n - n
  OBVIOUS
<1>2. q # 0 => (q - 1) * n \in Nat
  OBVIOUS
<1> QED
  BY <1>1, <1>2

\* What a table queue looks like, seen from the invariant.
LEMMA EndingTables ==
  ASSUME IInv, ~init_
  PROVE  Ending(rt_, m_roundId) /\ Ending(gt_, m_roundId)
BY DEF IInv, TablesCoverPath, Consecutive, Ending

\* The parts from which TablesCoverPath is put together again.
LEMMA CoverParts ==
  ASSUME init_' = FALSE, Ending(rt_, m_roundId)', Ending(gt_, m_roundId)', Burst',
         Covered(link, rt_, gt_, m_roundId)', Ordered(link)',
         Behind(link, m_roundId, fc_, m_groupId)'
  PROVE  TablesCoverPath'
<1>1. Consecutive(rt_)' /\ Consecutive(gt_)'
  BY DEF Consecutive, Ending
<1> QED
  BY <1>1 DEF TablesCoverPath

\* The packet and the entry the encoder makes have their types.
LEMMA MadeTypes ==
  ASSUME TypeOK, NEW hdr \in Nat, NEW type \in {DATA, REDUNDANT}, NEW isfec \in BOOLEAN
  PROVE  /\ Tagged(type, hdr) \in Packet /\ Entry(isfec, hdr) \in PacketInfo
         /\ Tagged(type, hdr).serial = Entry(isfec, hdr).serial
         /\ Tagged(type, hdr).gid = Entry(isfec, hdr).gid /\ Tagged(type, hdr).gid = m_groupId
         /\ Tagged(type, hdr).rid = m_roundId /\ Tagged(type, hdr).type = type
BY DEF TypeOK, Tagged, Entry, Packet, PacketInfo

\* A packet that leaves the path without a look at the tables.
LEMMA LeavesPath ==
  ASSUME IInv, link # <<>>, link' = Tail(link), UNCHANGED <<encoder, rt_, gt_>>
  PROVE  link' \in Seq(Packet) /\ TablesCoverPath'
<1>1. link \in Seq(Packet)
  BY DEF IInv, TypeOK
<1>2. ~init_ /\ Burst
  BY DEF IInv, TablesCoverPath, Burst
<1>3. /\ Covered(link, rt_, gt_, m_roundId) /\ Ordered(link)
      /\ Behind(link, m_roundId, fc_, m_groupId)
  BY DEF IInv, TablesCoverPath
<1>4. /\ Tail(link) \in Seq(Packet)
      /\ Covered(Tail(link), rt_, gt_, m_roundId) /\ Ordered(Tail(link))
      /\ Behind(Tail(link), m_roundId, fc_, m_groupId)
  BY <1>1, <1>3, PathTail
<1>5. Ending(rt_, m_roundId) /\ Ending(gt_, m_roundId)
  BY <1>2, EndingTables
<1>6. Burst'
  BY <1>2 DEF Burst, encoder
<1>7. init_' = FALSE
  BY <1>2 DEF IInv, TypeOK, encoder
<1>8. Ending(rt_, m_roundId)' /\ Ending(gt_, m_roundId)'
  BY <1>5 DEF encoder
<1>9. /\ Covered(link, rt_, gt_, m_roundId)' /\ Ordered(link)'
      /\ Behind(link, m_roundId, fc_, m_groupId)'
  BY <1>4 DEF encoder
<1> QED
  BY <1>4, <1>6, <1>7, <1>8, <1>9, CoverParts

\* Lose keeps the invariant.
LEMMA LoseKeeps ==
  ASSUME IInv, Lose
  PROVE  IInv'
<1>1. link' \in Seq(Packet) /\ TablesCoverPath'
  BY LeavesPath DEF Lose
<1>2. lost' \in SUBSET Packet
  <2>1. Head(link) \in Packet
    BY HeadTailProperties DEF IInv, TypeOK, Lose
  <2> QED
    BY <2>1 DEF IInv, TypeOK, Lose
<1>3. TypeOK'
  BY <1>1, <1>2 DEF IInv, TypeOK, Lose, encoder, decoder, counters
<1> QED
  BY <1>1, <1>3 DEF IInv

\* IpForwardSmall keeps the invariant.
LEMMA IpForwardSmallKeeps ==
  ASSUME IInv, IpForwardSmall
  PROVE  IInv'
<1>1. link' \in Seq(Packet) /\ TablesCoverPath'
  BY LeavesPath DEF IpForwardSmall
<1>2. out' \in Seq(Packet)
  <2>1. Head(link) \in Packet
    BY HeadTailProperties DEF IInv, TypeOK, IpForwardSmall
  <2> QED
    BY <2>1, AppendProperties DEF IInv, TypeOK, IpForwardSmall
<1>3. TypeOK'
  BY <1>1, <1>2, SMTT(30) DEF IInv, TypeOK, IpForwardSmall, encoder, counters
<1> QED
  BY <1>1, <1>3 DEF IInv

\* IpForward keeps the invariant.
LEMMA IpForwardKeeps ==
  ASSUME IInv, IpForward
  PROVE  IInv'
<1> DEFINE p == Head(link)
           newer == rid_ < p.rid
           tq == IF newer THEN <<>> ELSE tq_
           r == Recv(tq, p)
<1>1. /\ TypeOK /\ TablesCoverPath /\ Idle /\ link # <<>> /\ link \in Seq(Packet)
      /\ p.type # NONE /\ link' = Tail(link) /\ rt_' = r.rt /\ gt_' = r.gt
      /\ UNCHANGED <<encoder, small, lost>>
  BY DEF IInv, TypeOK, IpForward
<1>2. tq \in Seq(Packet) /\ tq_ \in Seq(Packet) /\ out \in Seq(Packet)
  BY <1>1 DEF TypeOK
<1> HIDE DEF tq
<1>3. /\ Tracked(Tail(link), r.rt, r.gt, m_roundId, fc_, m_groupId)
      /\ \A i \in 1 .. Len(r.rt) : r.rt[i].n = NGroups
  BY <1>1, <1>2, RecvTables
<1>4. r.tq \in Seq(Packet) /\ r.recovered \in Seq(PacketInfo)
  BY <1>1, <1>2, RecvTables
<1>5. p \in Packet /\ p.rid \in Nat
  <2>1. p \in Packet
    BY <1>1, HeadTailProperties, SMTT(30)
  <2> QED
    BY <2>1 DEF Packet
<1>6. /\ rid_' = IF newer THEN p.rid ELSE rid_
      /\ tq_' = IF r.flag = 2 THEN <<>> ELSE r.tq
      /\ out' = (IF newer THEN out \o tq_ ELSE out)
                \o (IF r.flag = 2 THEN r.tq ELSE <<>>)
                \o (IF r.flag # 1 /\ p.type # REDUNDANT THEN <<p>> ELSE <<>>)
      /\ asked' = [h \in DOMAIN asked |-> asked[h] + (IF h \in r.asked THEN 1 ELSE 0)]
      /\ m_recover' = m_recover + Len(r.recovered)
  BY DEF IpForward, tq
<1> HIDE DEF r, p
<1>7. Tail(link) \in Seq(Packet)
  BY <1>1, HeadTailProperties
<1>8. TablesCoverPath'
  <2>1. ~init_ /\ Burst
    BY <1>1 DEF TablesCoverPath, Burst
  <2>2. Burst'
    BY <1>1, <2>1 DEF Burst, encoder
  <2>3. init_' = FALSE
    BY <1>1, <2>1 DEF TypeOK, encoder
  <2>4. m_roundId' = m_roundId /\ fc_' = fc_ /\ m_groupId' = m_groupId
    BY <1>1 DEF encoder
  <2>5. Tracked(link, rt_, gt_, m_roundId, fc_, m_groupId)'
    BY <1>1, <1>3, <2>4
  <2>6. Ending(rt_, m_roundId)' /\ Ending(gt_, m_roundId)'
    BY <2>5 DEF Tracked
  <2>7. /\ Covered(link, rt_, gt_, m_roundId)' /\ Ordered(link)'
        /\ Behind(link, m_roundId, fc_, m_groupId)'
    BY <2>5 DEF Tracked
  <2> QED
    BY <2>2, <2>3, <2>6, <2>7, CoverParts
<1>9. TypeOK'
  <2>1. out' \in Seq(Packet)
    <3> DEFINE a == IF newer THEN out \o tq_ ELSE out
               b == IF r.flag = 2 THEN r.tq ELSE <<>>
               c == IF r.flag # 1 /\ p.type # REDUNDANT THEN <<p>> ELSE <<>>
    <3>1. out \o tq_ \in Seq(Packet) /\ <<>> \in Seq(Packet) /\ <<p>> \in Seq(Packet)
      BY <1>2, <1>5, ConcatProperties
    <3>2. a \in Seq(Packet) /\ b \in Seq(Packet) /\ c \in Seq(Packet)
      BY <1>2, <1>4, <3>1
    <3>3. out' = a \o b \o c
      BY <1>6
    <3> HIDE DEF a, b, c
    <3>4. a \o b \in Seq(Packet)
      BY <3>2, ConcatProperties
    <3>5. (a \o b) \o c \in Seq(Packet)
      BY <3>2, <3>4, ConcatProperties
    <3> QED
      BY <3>3, <3>5
  <2>2. tq_' \in Seq(Packet)
    BY <1>4, <1>6
  <2>3. asked' \in [1 .. MaxData -> Nat]
    BY <1>1, <1>6, SMTT(30) DEF TypeOK
  <2>4. m_recover' \in Nat /\ rid_' \in Nat
    <3>1. Len(r.recovered) \in Nat
      BY <1>4, LenProperties
    <3> QED
      BY <1>1, <1>5, <1>6, <3>1 DEF TypeOK
  <2>5. /\ rt_' \in Seq(RoundFecTable) /\ gt_' \in Seq(GroupFecTable) /\ link' \in Seq(Packet)
        /\ \A i \in 1 .. Len(rt_') : rt_'[i].n = NGroups
    BY <1>1, <1>3, <1>7 DEF Tracked
  <2> QED
    BY <1>1, <2>1, <2>2, <2>3, <2>4, <2>5 DEF TypeOK, encoder
<1> QED
  BY <1>8, <1>9 DEF IInv

\* The tables the first packet of all finds, or those that are there: both end
\* with the current round and cover the path.
LEMMA OpenedTables ==
  ASSUME IInv, NEW rt, NEW gt,
         rt = IF init_ THEN WithRound(rt_, m_roundId, NGroups) ELSE rt_,
         gt = IF init_ THEN WithGroups(gt_, m_roundId, NGroups) ELSE gt_
  PROVE  /\ rt \in Seq(RoundFecTable) /\ gt \in Seq(GroupFecTable)
         /\ Ending(rt, m_roundId) /\ Ending(gt, m_roundId)
         /\ Covered(link, rt, gt, m_roundId)
         /\ \A i \in 1 .. Len(rt) : rt[i].n = NGroups
<1>0. NGroups \in Sizes
  BY NGroupsAssumption DEF Sizes
<1>1. CASE init_
  <2>1. rt_ = <<>> /\ gt_ = <<>> /\ link = <<>> /\ m_roundId \in Nat
    BY <1>1 DEF IInv, TypeOK, TablesCoverPath, Consecutive, Burst
  <2>2. rt = WithRound(<<>>, m_roundId, NGroups) /\ gt = WithGroups(<<>>, m_roundId, NGroups)
    BY <1>1, <2>1
  <2>3. Covered(<<>>, rt, gt, m_roundId)
    BY DEF Covered
  <2>4. /\ rt \in Seq(RoundFecTable) /\ gt \in Seq(GroupFecTable)
        /\ Ending(rt, m_roundId) /\ Ending(gt, m_roundId) /\ rt[Len(rt)].n = NGroups
    BY <1>0, <2>1, <2>2, OpenCovers
  <2>5. Len(rt) = 1
    BY <2>2 DEF WithRound
  <2> QED
    BY <2>1, <2>3, <2>4, <2>5
<1>2. CASE ~init_
  <2>1. rt = rt_ /\ gt = gt_
    BY <1>2
  <2>2. Covered(link, rt_, gt_, m_roundId)
    BY DEF IInv, TablesCoverPath
  <2>3. /\ rt_ \in Seq(RoundFecTable) /\ gt_ \in Seq(GroupFecTable)
        /\ \A i \in 1 .. Len(rt_) : rt_[i].n = NGroups
    BY DEF IInv, TypeOK
  <2> QED
    BY <1>2, <2>1, <2>2, <2>3, EndingTables
<1> QED
  BY <1>1, <1>2

\* Rounds of NGroups groups stay so, when an entry or a round is added.
LEMMA SizesKept ==
  ASSUME NEW rt \in Seq(RoundFecTable), \A i \in 1 .. Len(rt) : rt[i].n = NGroups
  PROVE  /\ rt # <<>> => \A e \in PacketInfo : \A i \in 1 .. Len(RoundPush(rt, e)) :
                            RoundPush(rt, e)[i].n = NGroups
         /\ \A rid \in Nat : \A i \in 1 .. Len(WithRound(rt, rid, NGroups)) :
              WithRound(rt, rid, NGroups)[i].n = NGroups
<1>1. ASSUME rt # <<>>, NEW e \in PacketInfo, NEW i \in 1 .. Len(RoundPush(rt, e))
      PROVE  RoundPush(rt, e)[i].n = NGroups
  <2>1. PICK p : p = e
    OBVIOUS
  <2>2. p.serial = e.serial /\ p.gid = e.gid
    BY <2>1
  <2>3. Len(RoundPush(rt, e)) = Len(rt) /\ RoundsGrow(RoundPush(rt, e), rt)
    BY <1>1, <2>2, RoundPushPass
  <2> QED
    BY <2>3 DEF RoundsGrow
<1>2. ASSUME NEW rid \in Nat, NEW i \in 1 .. Len(WithRound(rt, rid, NGroups))
      PROVE  WithRound(rt, rid, NGroups)[i].n = NGroups
  <2>1. NGroups \in Sizes /\ Len(rt) \in Nat
    BY NGroupsAssumption, LenProperties DEF Sizes
  <2> DEFINE r == WithRound(rt, rid, NGroups)
  <2>2. Len(r) = Len(rt) + 1 /\ RoundsGrow(r, rt) /\ r[Len(rt) + 1].n = NGroups
    <3>1. RoundOpened(r, rt, rid, NGroups)
      BY <2>1, UpdateRounds
    <3> HIDE DEF r
    <3> QED
      BY <3>1 DEF RoundOpened
  <2> HIDE DEF r
  <2>3. i \in 1 .. Len(rt) + 1
    BY <2>2 DEF r
  <2>4. r[i].n = NGroups
    BY <2>1, <2>2, <2>3 DEF RoundsGrow
  <2> QED
    BY <2>4 DEF r
<1> QED
  BY <1>1, <1>2

\* SendSmall keeps the invariant.
LEMMA SendSmallKeeps ==
  ASSUME IInv, SendSmall
  PROVE  IInv'
<1> DEFINE s == [type |-> NONE, serial |-> 0, rid |-> 0, gid |-> 0, hdr |-> 0]
<1>1. s \in Packet /\ s.type = NONE
  BY NGroupsAssumption DEF Packet, Groups
<1>2. /\ rt_' \in Seq(RoundFecTable) /\ gt_' \in Seq(GroupFecTable)
      /\ Ending(rt_', m_roundId) /\ Ending(gt_', m_roundId)
      /\ Covered(link, rt_', gt_', m_roundId)
      /\ \A i \in 1 .. Len(rt_') : rt_'[i].n = NGroups
  BY OpenedTables DEF SendSmall
<1>3. /\ link \in Seq(Packet) /\ Ordered(link) /\ Behind(link, m_roundId, fc_, m_groupId)
      /\ Idle /\ m_roundId' = m_roundId /\ m_groupId' = m_groupId
      /\ link' = Append(link, s) /\ init_' = FALSE
  BY DEF IInv, TypeOK, TablesCoverPath, SendSmall
<1> HIDE DEF s
<1>4. Behind(link, m_roundId, fc_', m_groupId)
  BY <1>3 DEF Behind, Idle
<1>5. /\ link' \in Seq(Packet) /\ Ordered(link') /\ Covered(link', rt_', gt_', m_roundId)
      /\ Behind(link', m_roundId, fc_', m_groupId)
  BY <1>1, <1>2, <1>3, <1>4, PathAppend
<1>6. Fwin * NGroups \in Nat /\ Fwin * NGroups > 0
  BY FwinAssumption, NGroupsAssumption, ProductFacts
<1>7. Burst'
  <2>1. CASE init_
    <3>1. m_groupId = 0 /\ fc_' = Fwin * NGroups /\ ic_' = NGroups
      BY <2>1 DEF IInv, TablesCoverPath, Burst, SendSmall
    <3>2. Fwin \in 0 .. Fwin /\ fc_' + 0 = Fwin * NGroups
      BY <1>6, <3>1, FwinAssumption
    <3> QED
      BY <1>3, <1>6, <3>1, <3>2 DEF Burst
  <2>2. CASE ~init_
    <3>1. fc_' = fc_ /\ ic_' = ic_
      BY <2>2 DEF SendSmall
    <3> QED
      BY <1>3, <2>2, <3>1 DEF IInv, TablesCoverPath, Burst
  <2> QED
    BY <2>1, <2>2
<1>8. TypeOK'
  <2>1. fc_' \in Int /\ ic_' \in Int
    <3>1. fc_ \in Int /\ ic_ \in Int
      BY DEF IInv, TypeOK
    <3> QED
      BY <1>6, <3>1, NGroupsAssumption DEF SendSmall
  <2>2. small' \in 0 .. MaxSmall
    BY BoundsAssumption DEF IInv, TypeOK, SendSmall
  <2> QED
    BY <1>2, <1>3, <1>5, <2>1, <2>2 DEF IInv, TypeOK, SendSmall, decoder, counters
<1>9. TablesCoverPath'
  <2>1. Ending(rt_, m_roundId)' /\ Ending(gt_, m_roundId)'
    BY <1>2, <1>3
  <2>2. /\ Covered(link, rt_, gt_, m_roundId)' /\ Ordered(link)'
        /\ Behind(link, m_roundId, fc_, m_groupId)'
    BY <1>3, <1>5
  <2> QED
    BY <1>3, <1>7, <2>1, <2>2, CoverParts
<1> QED
  BY <1>8, <1>9 DEF IInv

\* SendData keeps the groups' rotation in step with the count-down to the
\* redundant packets.
LEMMA SendDataBurst ==
  ASSUME IInv, SendData
  PROVE  Burst' /\ fc_' \in Int /\ ic_' \in Int /\ m_groupId' \in Groups
<1> DEFINE fc == IF init_ THEN Fwin * NGroups ELSE fc_
<1>0. NGroups \in Nat \ {0} /\ Fwin \in Nat \ {0} /\ m_groupId \in 0 .. NGroups - 1 /\ fc_ \in Int
  BY NGroupsAssumption, FwinAssumption DEF IInv, TypeOK, Groups
<1>1. Fwin * NGroups \in Nat /\ Fwin * NGroups > 0
  BY <1>0, ProductFacts
<1>2. fc \in Nat \ {0} /\ ic_' = NGroups /\ \E q \in 0 .. Fwin : fc + m_groupId = q * NGroups
  <2>1. CASE init_
    <3>1. m_groupId = 0 /\ fc = Fwin * NGroups /\ ic_' = NGroups
      BY <2>1 DEF IInv, TablesCoverPath, Burst, SendData
    <3>2. Fwin \in 0 .. Fwin /\ fc + 0 = Fwin * NGroups
      BY <1>0, <1>1, <3>1
    <3> QED
      BY <1>1, <3>1, <3>2
  <2>2. CASE ~init_
    <3>1. fc = fc_ /\ ic_' = ic_ /\ fc_ # 0
      BY <2>2 DEF SendData, Idle
    <3> QED
      BY <1>0, <2>2, <3>1 DEF IInv, TablesCoverPath, Burst
  <2> QED
    BY <2>1, <2>2
<1>3. /\ fc_' = fc - 1 /\ init_' = FALSE
      /\ m_groupId' = IF m_groupId + 1 = NGroups THEN 0 ELSE m_groupId + 1
  BY DEF SendData, CreateDataPacket, NextGroup
<1> HIDE DEF fc
<1>4. PICK q \in 0 .. Fwin : fc + m_groupId = q * NGroups
  BY <1>2
<1>5. /\ q \in Nat /\ q * NGroups \in Nat
      /\ q # 0 => q * NGroups >= NGroups /\ (q - 1) * NGroups = q * NGroups - NGroups
      /\ q = 0 => q * NGroups = 0
  BY <1>0, <1>4, ProductFacts
<1>6. q # 0
  BY <1>0, <1>2, <1>4, <1>5
<1>7. CASE m_groupId + 1 = NGroups
  <2>1. m_groupId' = 0
    BY <1>3, <1>7
  <2>2. fc_' + 0 = (q - 1) * NGroups /\ q - 1 \in 0 .. Fwin /\ fc_' \in Nat
    BY <1>0, <1>2, <1>3, <1>4, <1>5, <1>6, <1>7
  <2>3. NGroups \in 1 .. NGroups /\ 0 = NGroups - NGroups /\ 0 \in Groups
    BY <1>0 DEF Groups
  <2>4. fc_' # 0 => fc_' > 0
    BY <2>2
  <2>5. \E x \in 0 .. Fwin : fc_' + m_groupId' = x * NGroups
    BY <2>1, <2>2
  <2>6. Burst'
    BY <1>2, <1>3, <2>1, <2>3, <2>4, <2>5 DEF Burst
  <2> QED
    BY <1>0, <1>2, <2>1, <2>2, <2>3, <2>6
<1>8. CASE m_groupId + 1 # NGroups
  <2>1. m_groupId' = m_groupId + 1 /\ m_groupId' \in 1 .. NGroups - 1 /\ m_groupId' \in Groups
    BY <1>0, <1>3, <1>8 DEF Groups
  <2>2. fc_' + m_groupId' = q * NGroups /\ fc_' \in Nat
    BY <1>0, <1>2, <1>3, <1>4, <2>1
  <2>3. fc_' # 0
    <3>1. PICK z \in Nat : z = q * NGroups
      BY <1>5
    <3>2. z >= NGroups /\ fc_' + m_groupId' = z
      BY <1>5, <1>6, <2>2, <3>1
    <3>3. PICK g \in Int : g = m_groupId' /\ g < NGroups
      BY <1>0, <2>1
    <3>4. fc_' + g = z /\ z > g
      BY <1>0, <3>2, <3>3
    <3>5. ASSUME fc_' = 0 PROVE FALSE
      <4>1. 0 + g = z
        BY <3>4, <3>5
      <4> QED
        BY <3>4, <4>1
    <3> QED
      BY <3>5
  <2> QED
    BY <1>0, <1>2, <1>3, <1>4, <2>1, <2>2, <2>3 DEF Burst
<1> QED
  BY <1>7, <1>8

\* SendData keeps the invariant.
LEMMA SendDataKeeps ==
  ASSUME IInv, SendData
  PROVE  IInv'
<1> DEFINE hdr == m_sentdatapkt + 1
           rt  == IF init_ THEN WithRound(rt_, m_roundId, NGroups) ELSE rt_
           gt  == IF init_ THEN WithGroups(gt_, m_roundId, NGroups) ELSE gt_
           e   == Entry(FALSE, hdr)
           p   == Tagged(DATA, hdr)
<1>1. /\ rt_' = RoundPush(rt, e) /\ gt_' = GroupPush(gt, e) /\ link' = Append(link, p)
      /\ m_sentdatapkt' = hdr /\ Idle /\ m_roundId' = m_roundId /\ init_' = FALSE
  BY DEF SendData, CreateDataPacket
<1>2. TypeOK /\ hdr \in 0 .. MaxData /\ hdr \in Nat /\ m_roundId \in Nat /\ link \in Seq(Packet)
  BY BoundsAssumption DEF IInv, TypeOK, SendData
<1>3. /\ p \in Packet /\ e \in PacketInfo /\ p.serial = e.serial /\ p.gid = e.gid
      /\ p.rid = m_roundId /\ p.type = DATA
  BY <1>2, MadeTypes
<1>4. /\ rt \in Seq(RoundFecTable) /\ gt \in Seq(GroupFecTable)
      /\ Ending(rt, m_roundId) /\ Ending(gt, m_roundId)
      /\ Covered(link, rt, gt, m_roundId)
      /\ \A i \in 1 .. Len(rt) : rt[i].n = NGroups
  BY OpenedTables
<1> HIDE DEF rt, gt, e, p
<1>5. /\ rt_' \in Seq(RoundFecTable) /\ gt_' \in Seq(GroupFecTable)
      /\ Ending(rt_', m_roundId) /\ Ending(gt_', m_roundId)
      /\ Covered(Append(link, p), rt_', gt_', m_roundId)
      /\ \A i \in 1 .. Len(rt_') : rt_'[i].n = NGroups
  <2>1. p.type \in {DATA, REDUNDANT, REXMIT} /\ \A x \in Packet : Tag(x)
    BY <1>3, PacketTags
  <2>2. rt # <<>> /\ rt[Len(rt)].n = NGroups /\ p.gid < NGroups
    <3>1. rt # <<>> /\ Len(rt) \in 1 .. Len(rt)
      BY <1>4, LenProperties DEF Ending
    <3>2. p.gid \in Groups
      BY <1>3 DEF Packet
    <3> QED
      BY <1>4, <3>1, <3>2, NGroupsAssumption DEF Groups
  <2>3. p.gid < rt[Len(rt)].n
    BY <2>2
  <2>4. \A i \in 1 .. Len(rt_') : rt_'[i].n = NGroups
    BY <1>1, <1>3, <1>4, <2>2, SizesKept
  <2>5. /\ RoundPush(rt, e) \in Seq(RoundFecTable) /\ GroupPush(gt, e) \in Seq(GroupFecTable)
        /\ Ending(RoundPush(rt, e), m_roundId) /\ Ending(GroupPush(gt, e), m_roundId)
        /\ Covered(Append(link, p), RoundPush(rt, e), GroupPush(gt, e), m_roundId)
    BY <1>2, <1>3, <1>4, <2>1, <2>3, PushCovers
  <2> QED
    BY <1>1, <2>4, <2>5
<1>6. Ordered(link) /\ Behind(link, m_roundId, fc_, m_groupId)
  BY DEF IInv, TablesCoverPath
<1>7. /\ \A m \in 1 .. Len(link) : link[m].type # NONE => Before(link[m], p)
      /\ Behind(link, m_roundId, fc_', m_groupId')
  BY <1>1, <1>3, <1>6 DEF Behind, Before, Idle
<1>8. Behind(<<p>>, m_roundId, fc_', m_groupId')
  <2>1. \A m \in 1 .. Len(<<p>>) : <<p>>[m] = p
    OBVIOUS
  <2> QED
    BY <1>2, <1>3, <2>1 DEF Behind, DATA, REDUNDANT
<1>9. /\ link' \in Seq(Packet) /\ Ordered(link') /\ Behind(link', m_roundId, fc_', m_groupId')
  BY <1>1, <1>2, <1>3, <1>6, <1>7, <1>8, PathAppend
<1>10. Burst' /\ fc_' \in Int /\ ic_' \in Int /\ m_groupId' \in Groups
  BY SendDataBurst
<1>11. TypeOK'
  <2>1. m_serial' \in Nat /\ UNCHANGED <<m_sentfecpkt, decoder, small, lost>>
    BY <1>2 DEF TypeOK, SendData, CreateDataPacket
  <2> HIDE DEF hdr
  <2> QED
    BY <1>1, <1>2, <1>5, <1>9, <1>10, <2>1 DEF TypeOK, decoder, counters
<1>12. TablesCoverPath'
  <2>1. Ending(rt_, m_roundId)' /\ Ending(gt_, m_roundId)'
    BY <1>1, <1>5
  <2>2. /\ Covered(link, rt_, gt_, m_roundId)' /\ Ordered(link)'
        /\ Behind(link, m_roundId, fc_, m_groupId)'
    BY <1>1, <1>5, <1>9
  <2> QED
    BY <1>1, <1>10, <2>1, <2>2, CoverParts
<1> QED
  BY <1>11, <1>12 DEF IInv

\* SendFecPacket keeps the invariant: the last group's redundant packet is the
\* one after which RedundancyControl opens the next round.
LEMMA SendFecPacketKeeps ==
  ASSUME IInv, SendFecPacket
  PROVE  IInv'
<1> DEFINE lastGroup == m_groupId + 1 = NGroups
           rid == IF lastGroup THEN m_roundId + 1 ELSE m_roundId
           e   == Entry(TRUE, 0)
           p   == Tagged(REDUNDANT, 0)
           rt  == RoundPush(rt_, e)
           gt  == GroupPush(gt_, e)
<1>1. /\ link' = Append(link, p) /\ m_roundId' = rid
      /\ m_groupId' = IF lastGroup THEN 0 ELSE m_groupId + 1
      /\ m_serial' = IF lastGroup THEN 1 ELSE m_serial + 1
      /\ m_sentfecpkt' = m_sentfecpkt + 1
      /\ ic_ - 1 = 0 => /\ fc_' = Fwin * NGroups /\ ic_' = NGroups
                        /\ rt_' = WithRound(rt, rid, NGroups) /\ gt_' = WithGroups(gt, rid, NGroups)
      /\ ic_ - 1 # 0 => fc_' = fc_ /\ ic_' = ic_ - 1 /\ rt_' = rt /\ gt_' = gt
      /\ fc_ = 0 /\ init_' = init_
  BY DEF SendFecPacket, CreateFecPacket, RedundancyControl, Idle
<1>2. /\ TypeOK /\ m_roundId \in Nat /\ link \in Seq(Packet) /\ m_groupId \in Int
      /\ rt_ \in Seq(RoundFecTable) /\ gt_ \in Seq(GroupFecTable) /\ NGroups \in Nat \ {0}
      /\ Fwin \in Nat \ {0}
  <2>1. m_groupId \in Groups /\ m_roundId \in Nat
    BY DEF IInv, TypeOK
  <2>2. /\ TypeOK /\ link \in Seq(Packet)
        /\ rt_ \in Seq(RoundFecTable) /\ gt_ \in Seq(GroupFecTable)
    BY DEF IInv, TypeOK
  <2> QED
    BY <2>1, <2>2, NGroupsAssumption, FwinAssumption DEF Groups
<1>3. ~init_ /\ ic_ \in 1 .. NGroups /\ m_groupId = NGroups - ic_
  BY <1>1 DEF IInv, TablesCoverPath, Burst
<1>4. lastGroup <=> ic_ - 1 = 0
  BY <1>2, <1>3
<1>5. /\ p \in Packet /\ e \in PacketInfo /\ p.serial = e.serial /\ p.gid = e.gid
      /\ p.gid = m_groupId /\ p.rid = m_roundId /\ p.type = REDUNDANT
  BY <1>2, MadeTypes
<1>6. /\ Ending(rt_, m_roundId) /\ Ending(gt_, m_roundId)
      /\ Covered(link, rt_, gt_, m_roundId) /\ Ordered(link)
      /\ Behind(link, m_roundId, fc_, m_groupId)
  BY <1>3, EndingTables DEF IInv, TablesCoverPath
<1> HIDE DEF e, p
<1>7. /\ rt \in Seq(RoundFecTable) /\ gt \in Seq(GroupFecTable)
      /\ Ending(rt, m_roundId) /\ Ending(gt, m_roundId)
      /\ Covered(Append(link, p), rt, gt, m_roundId)
      /\ \A i \in 1 .. Len(rt) : rt[i].n = NGroups
  <2>1. p.type \in {DATA, REDUNDANT, REXMIT} /\ \A x \in Packet : Tag(x)
    BY <1>5, PacketTags
  <2>2. rt_ # <<>> /\ rt_[Len(rt_)].n = NGroups /\ p.gid < NGroups
    <3>1. rt_ # <<>> /\ Len(rt_) \in 1 .. Len(rt_)
      BY <1>2, <1>6, LenProperties DEF Ending
    <3>2. p.gid \in Groups
      BY <1>5 DEF Packet
    <3> QED
      BY <1>2, <3>1, <3>2 DEF Groups, TypeOK
  <2>3. p.gid < rt_[Len(rt_)].n
    BY <2>2
  <2>4. \A i \in 1 .. Len(rt) : rt[i].n = NGroups
    BY <1>2, <1>5, <2>2, SizesKept DEF TypeOK
  <2> QED
    BY <1>2, <1>5, <1>6, <2>1, <2>3, <2>4, PushCovers
<1>8. \A m \in 1 .. Len(link) : link[m].type # NONE => Before(link[m], p)
  BY <1>5, <1>6 DEF Behind, Before
<1>9. link' \in Seq(Packet) /\ Ordered(link')
  BY <1>1, <1>2, <1>5, <1>6, <1>8, PathAppend
<1>10. init_' = FALSE
  BY <1>1, <1>2, <1>3 DEF TypeOK
<1>11. Fwin * NGroups \in Nat /\ Fwin * NGroups > 0
  BY <1>2, ProductFacts
<1> HIDE DEF rt, gt
<1>12. \A m \in 1 .. Len(link) : link[m].rid \in Int /\ link[m].gid \in Int
  <2>1. \A m \in 1 .. Len(link) : link[m] \in Packet
    BY <1>2, ElementOfSeq
  <2>2. \A q \in Packet : q.rid \in Int /\ q.gid \in Int
    BY DEF Packet, Groups
  <2> QED
    BY <2>1, <2>2
<1>13. \A m \in 1 .. Len(<<p>>) : <<p>>[m] = p
  OBVIOUS
<1>14. CASE ic_ - 1 = 0
  <2>1. /\ rid = m_roundId + 1 /\ m_roundId' = rid /\ m_groupId' = 0 /\ m_serial' = 1
        /\ fc_' = Fwin * NGroups /\ ic_' = NGroups
        /\ rt_' = WithRound(rt, rid, NGroups) /\ gt_' = WithGroups(gt, rid, NGroups)
    BY <1>1, <1>4, <1>14
  <2>2. /\ rt_' \in Seq(RoundFecTable) /\ gt_' \in Seq(GroupFecTable)
        /\ Ending(rt_', rid) /\ Ending(gt_', rid)
        /\ Covered(link', rt_', gt_', rid)
        /\ \A i \in 1 .. Len(rt_') : rt_'[i].n = NGroups
    <3>1. NGroups \in Sizes /\ rid \in Nat
      BY <1>2, <2>1 DEF Sizes
    <3>2. \A i \in 1 .. Len(rt_') : rt_'[i].n = NGroups
      BY <1>7, <2>1, <3>1, SizesKept
    <3>3. /\ rt \in Seq(RoundFecTable) /\ gt \in Seq(GroupFecTable)
          /\ Ending(rt, m_roundId) /\ Ending(gt, m_roundId)
          /\ link' \in Seq(Packet) /\ Covered(link', rt, gt, m_roundId)
      BY <1>1, <1>2, <1>7, <1>9
    <3> HIDE DEF rt, gt, rid
    <3>4. /\ WithRound(rt, rid, NGroups) \in Seq(RoundFecTable)
          /\ WithGroups(gt, rid, NGroups) \in Seq(GroupFecTable)
          /\ Ending(WithRound(rt, rid, NGroups), rid) /\ Ending(WithGroups(gt, rid, NGroups), rid)
          /\ Covered(link', WithRound(rt, rid, NGroups), WithGroups(gt, rid, NGroups), rid)
      BY <1>2, <2>1, <3>1, <3>3, PacketTags, UpdateCovers
    <3> QED
      BY <2>1, <3>2, <3>4
  <2>3. Behind(link, rid, fc_', m_groupId') /\ Behind(<<p>>, rid, fc_', m_groupId')
    <3>1. \A r \in Int : r <= m_roundId => r <= rid /\ r # rid
      BY <1>2, <2>1
    <3>2. \A m \in 1 .. Len(link) : link[m].type # NONE => link[m].rid <= m_roundId
      BY <1>6 DEF Behind
    <3>3. p.rid <= m_roundId /\ p.rid \in Int
      BY <1>2, <1>5
    <3> HIDE DEF rid
    <3> QED
      BY <1>12, <1>13, <3>1, <3>2, <3>3 DEF Behind
  <2>4. Behind(link', rid, fc_', m_groupId')
    BY <1>1, <1>2, <1>5, <2>3, PathAppend
  <2>5. Burst'
    <3>1. Fwin \in 0 .. Fwin /\ fc_' + 0 = Fwin * NGroups
      BY <1>2, <1>11, <2>1
    <3> QED
      BY <1>10, <1>11, <2>1, <3>1 DEF Burst
  <2>6. TablesCoverPath'
    <3>1. Ending(rt_, m_roundId)' /\ Ending(gt_, m_roundId)'
      BY <2>1, <2>2
    <3>2. /\ Covered(link, rt_, gt_, m_roundId)' /\ Ordered(link)'
          /\ Behind(link, m_roundId, fc_, m_groupId)'
      BY <1>9, <2>1, <2>2, <2>4
    <3> QED
      BY <1>10, <2>5, <3>1, <3>2, CoverParts
  <2>7. TypeOK'
    <3>1. m_groupId' \in Groups /\ m_roundId' \in Nat /\ m_serial' \in Nat /\ fc_' \in Int /\ ic_' \in Int
      BY <1>2, <1>11, <2>1 DEF Groups
    <3> QED
      BY <1>1, <1>2, <1>9, <1>10, <2>2, <3>1, SMTT(30) DEF TypeOK, SendFecPacket, CreateFecPacket, decoder, counters
  <2> QED
    BY <2>6, <2>7 DEF IInv
<1>15. CASE ic_ - 1 # 0
  <2>1. /\ rid = m_roundId /\ m_roundId' = m_roundId /\ m_groupId' = m_groupId + 1
        /\ m_serial' = m_serial + 1
        /\ fc_' = 0 /\ ic_' = ic_ - 1 /\ rt_' = rt /\ gt_' = gt
    BY <1>1, <1>4, <1>15
  <2>2. Behind(link, m_roundId, fc_', m_groupId') /\ Behind(<<p>>, m_roundId, fc_', m_groupId')
    <3>1. \A g \in Int : g < m_groupId => g < m_groupId'
      BY <1>2, <2>1
    <3>2. m_groupId < m_groupId' /\ m_roundId <= m_roundId
      BY <1>2, <2>1
    <3> QED
      BY <1>5, <1>6, <1>12, <1>13, <2>1, <3>1, <3>2 DEF Behind
  <2>3. Behind(link', m_roundId, fc_', m_groupId')
    BY <1>1, <1>2, <1>5, <2>2, PathAppend
  <2>4. ic_' \in 1 .. NGroups /\ m_groupId' = NGroups - ic_' /\ m_groupId' \in Groups
    BY <1>2, <1>3, <1>15, <2>1 DEF Groups
  <2>5. Burst'
    BY <1>10, <2>1, <2>4 DEF Burst
  <2>6. TablesCoverPath'
    <3>1. Ending(rt_, m_roundId)' /\ Ending(gt_, m_roundId)'
      BY <1>7, <2>1
    <3>2. /\ Covered(link, rt_, gt_, m_roundId)' /\ Ordered(link)'
          /\ Behind(link, m_roundId, fc_, m_groupId)'
      BY <1>1, <1>7, <1>9, <2>1, <2>3
    <3> QED
      BY <1>10, <2>5, <3>1, <3>2, CoverParts
  <2>7. TypeOK'
    <3>1. m_roundId' \in Nat /\ m_serial' \in Nat /\ fc_' \in Int /\ ic_' \in Int
      BY <1>2, <1>3, <2>1 DEF TypeOK
    <3> QED
      BY <1>1, <1>2, <1>7, <1>9, <1>10, <2>1, <2>4, <3>1 DEF TypeOK, SendFecPacket, CreateFecPacket, decoder, counters
  <2> QED
    BY <2>6, <2>7 DEF IInv
<1> QED
  BY <1>14, <1>15
-----------------------------------------------------------------------------
(* Theorems *)

\* Every step keeps the inductive invariant.
LEMMA NextKeeps ==
  ASSUME IInv, [Next]_vars
  PROVE  IInv'
<1>1. CASE SendData
  BY <1>1, SendDataKeeps
<1>2. CASE SendSmall
  BY <1>2, SendSmallKeeps
<1>3. CASE SendFecPacket
  BY <1>3, SendFecPacketKeeps
<1>4. CASE Lose
  BY <1>4, LoseKeeps
<1>5. CASE IpForwardSmall
  BY <1>5, IpForwardSmallKeeps
<1>6. CASE IpForward
  BY <1>6, IpForwardKeeps
<1>7. CASE UNCHANGED vars
  <2>1. UNCHANGED <<init_, fc_, ic_, m_serial, m_roundId, m_groupId, m_sentdatapkt, m_sentfecpkt>>
        /\ UNCHANGED <<rt_, gt_, tq_, m_recover, rid_, link, small, lost, out, asked>>
    BY <1>7 DEF vars, encoder, decoder, counters
  <2>2. TypeOK'
    BY <2>1 DEF IInv, TypeOK
  <2>3. TablesCoverPath'
    BY <2>1 DEF IInv, TablesCoverPath, Consecutive, Burst, Covered, Ordered, Behind
  <2> QED
    BY <2>2, <2>3 DEF IInv
<1> QED
  BY <1>1, <1>2, <1>3, <1>4, <1>5, <1>6, <1>7 DEF Next

\* The initial state satisfies it.
LEMMA InitHolds ==
  ASSUME Init
  PROVE  IInv
<1>1. TypeOK
  <2>1. 0 \in Groups /\ 0 \in 0 .. MaxData /\ 0 \in 0 .. MaxSmall
    BY NGroupsAssumption, BoundsAssumption DEF Groups
  <2>2. /\ <<>> \in Seq(RoundFecTable) /\ <<>> \in Seq(GroupFecTable) /\ <<>> \in Seq(Packet)
        /\ {} \in SUBSET Packet
    OBVIOUS
  <2> QED
    BY <2>1, <2>2 DEF Init, TypeOK
<1>2. Len(rt_) = 0 /\ Len(gt_) = 0 /\ Len(link) = 0
  BY DEF Init
<1>3. TablesCoverPath
  BY <1>2 DEF Init, TablesCoverPath, Consecutive, Rounds, Burst, Covered, Ordered, Behind
<1> QED
  BY <1>1, <1>3 DEF IInv

\* Every variable of the encoder, the agent and the decoder keeps its type,
\* for every group count, group size and input length.
THEOREM TypeCorrect == Spec => []TypeOK
<1>1. Init => IInv
  BY InitHolds
<1>2. IInv /\ [Next]_vars => IInv'
  BY NextKeeps
<1>3. IInv => TypeOK
  BY DEF IInv
<1> QED
  BY <1>1, <1>2, <1>3, PTL DEF Spec

\* The agent's shared tables describe every packet between the two routers,
\* whatever the path loses and however encoder and decoder events interleave.
THEOREM TablesAlwaysCoverPath == Spec => []TablesCoverPath
<1>1. Init => IInv
  BY InitHolds
<1>2. IInv /\ [Next]_vars => IInv'
  BY NextKeeps
<1>3. IInv => TablesCoverPath
  BY DEF IInv
<1> QED
  BY <1>1, <1>2, <1>3, PTL DEF Spec

\* No while (true) of Recv's table passes runs forever, and none reads the
\* front of an empty queue.
THEOREM SearchesAlwaysEnd == Spec => []SearchesEnd
<1>1. Init => IInv
  BY InitHolds
<1>2. IInv /\ [Next]_vars => IInv'
  BY NextKeeps
<1>3. IInv => SearchesEnd
  <2> SUFFICES ASSUME IInv, Idle, link # <<>>, Head(link).type # NONE
               PROVE  Serves(Head(link))
    BY DEF SearchesEnd
  <2>1. tq_ \in Seq(Packet)
    BY DEF IInv, TypeOK
  <2> QED
    BY <2>1, RecvTables DEF IInv
<1> QED
  BY <1>1, <1>2, <1>3, PTL DEF Spec

-----------------------------------------------------------------------------
(***************************************************************************)
(* What the shared round table records of losses.                          *)
(*                                                                         *)
(* The decoder requests a packet only when the path has lost it, and never *)
(* twice.  What makes it so is spread over the encoder, the shared round   *)
(* table and the path: an entry that is not marked as arrived belongs to a *)
(* packet that is lost or still under way, the packets of a round are on   *)
(* the path in the order of their serials, and flag_ remembers what was    *)
(* requested.  When a data packet arrives, an unmarked entry with a        *)
(* smaller serial therefore cannot be under way.                           *)
(*                                                                         *)
(* The loss counters are exact: unmarked entries and packets that are lost *)
(* or under way correspond one to one, and nothing of a round is under way *)
(* any more when the round is closed and its unmarked entries are counted. *)
(***************************************************************************)

\* Serial numbers are positions, and only data packets have headers, each its
\* own, up to number h.
Serialled(pi) == \A k \in 1 .. Len(pi) : pi[k].serial = k
Listed(rt, h) ==
  \A i \in 1 .. Len(rt) :
    Serialled(rt[i].pi) /\ \A k \in 1 .. Len(rt[i].pi) : rt[i].pi[k].hdr <= h
Distinct(rt) ==
  \A i, j \in 1 .. Len(rt) :
    \A k \in 1 .. Len(rt[i].pi) : \A m \in 1 .. Len(rt[j].pi) :
      rt[i].pi[k].hdr = rt[j].pi[m].hdr /\ rt[i].pi[k].hdr # 0 => i = j /\ k = m

\* A data packet that is not marked as arrived is lost or on path l.
Gone(lst, hdr) == \E x \in lst : x.type = DATA /\ x.hdr = hdr
UnderWay(l, rid, serial, hdr) ==
  \E m \in 1 .. Len(l) : /\ l[m].type = DATA /\ l[m].hdr = hdr
                         /\ l[m].rid = rid /\ l[m].serial = serial
Traced(rt, l, lst) ==
  \A i \in 1 .. Len(rt) : \A k \in 1 .. Len(rt[i].pi) :
    rt[i].pi[k].hdr # 0 /\ ~rt[i].pi[k].check =>
      Gone(lst, rt[i].pi[k].hdr) \/ UnderWay(l, rt[i].rid, k, rt[i].pi[k].hdr)

\* flag_ says whether the packet was requested.
FlagsTell(rt, a) ==
  \A i \in 1 .. Len(rt) : \A k \in 1 .. Len(rt[i].pi) :
    rt[i].pi[k].hdr # 0 =>
      a[rt[i].pi[k].hdr] = IF rt[i].pi[k].flag THEN 1 ELSE 0

\* The packets of a round are on path l in the order of their serials, and
\* those of round last have serials below s.
InSerialOrder(l, last, s) ==
  /\ \A m, n \in 1 .. Len(l) :
       m < n /\ l[m].type # NONE /\ l[n].type # NONE /\ l[m].rid = l[n].rid
         => l[m].serial < l[n].serial
  /\ \A m \in 1 .. Len(l) : l[m].type # NONE /\ l[m].rid = last => l[m].serial < s

\* The round table tells the truth about path l, the lost packets lst and the
\* requests a, with h data packets sent.
Booked(rt, l, lst, a, h) ==
  Listed(rt, h) /\ Distinct(rt) /\ Traced(rt, l, lst) /\ FlagsTell(rt, a)

\* The next packet takes the position behind the last entry.
NextSerial ==
  m_serial = IF rt_ = <<>> THEN 1 ELSE Len(rt_[Len(rt_)].pi) + 1

\* The invariant.
AskInv ==
  /\ Booked(rt_, link, lost, asked, m_sentdatapkt)
  /\ InSerialOrder(link, m_roundId, m_serial) /\ NextSerial
  /\ \A h \in 1 .. MaxData : h > m_sentdatapkt => asked[h] = 0
  /\ RequestedOnce
-----------------------------------------------------------------------------
(* What the round passes do to check_ and flag_ *)

\* In a list whose serials are positions, the searches find the serial.
LEMMA SerialFound ==
  ASSUME NEW pi \in Seq(PacketInfo), NEW p, NEW s \in 1 .. Len(pi), s = p.serial,
         pi[s].gid = p.gid, Serialled(pi)
  PROVE  PosInRound(pi, p) = s /\ PosInGroup(pi, p) = s
<1> DEFINE R == {i \in 1 .. Len(pi) : pi[i].serial = p.serial /\ pi[i].gid = p.gid}
           G == {i \in 1 .. Len(pi) : pi[i].serial = p.serial}
<1>1. R = {s} /\ G = {s}
  BY DEF Serialled
<1>2. {s} \in SUBSET Nat /\ {s} # {}
  OBVIOUS
<1>3. First({s}) = s
  BY <1>2, FirstIsLeast
<1> QED
  BY <1>1, <1>3 DEF PosInRound, PosInGroup

\* MarkRoundFecTable marks the entry of the packet and no other.
LEMMA MarkRoundMarks ==
  ASSUME NEW rt \in Seq(RoundFecTable), NEW b \in Int, NEW p, Tag(p),
         Rounds(rt, b), NEW n \in 1 .. Len(rt), p.rid = b + n, RoundHas(rt[n], p),
         Serialled(rt[n].pi)
  PROVE  LET q == MarkRoundFecTable(rt, p)
         IN  /\ p.serial \in 1 .. Len(rt[n].pi) /\ rt[n].pi[p.serial].gid = p.gid
             /\ PosInRound(rt[n].pi, p) = p.serial
             /\ q[1].pi = Checked(rt[n].pi, p.serial)
             /\ \A i \in 1 .. Len(q) : i # 1 => q[i] = rt[n + i - 1]
<1>1. rt[n].pi \in Seq(PacketInfo)
  BY EntryTyped
<1>2. p.serial \in 1 .. Len(rt[n].pi) /\ rt[n].pi[p.serial].gid = p.gid
  BY DEF RoundHas, Serialled
<1>3. PosInRound(rt[n].pi, p) = p.serial
  BY <1>1, <1>2, SerialFound
<1> QED
  BY <1>2, <1>3, MarkRoundAt

\* What c, the outcome of CheckRoundFecTable, is for round table q and packet p:
\* what it requests was neither marked nor flagged and precedes the packet; it
\* is flagged, and nothing else changes.
RequestsFlagged(c, q, p) ==
  \E ask \in SUBSET (1 .. p.serial - 1) :
    /\ c.asked = {q[1].pi[k].hdr : k \in ask}
    /\ \A k \in ask : ~q[1].pi[k].check /\ ~q[1].pi[k].flag
    /\ ask # {} => p.type = DATA
    /\ ClosesRound(q, p) => c.rt = Tail(q)
    /\ ~ClosesRound(q, p) =>
         /\ Len(c.rt) = Len(q) /\ c.rt[1].pi = Flagged(q[1].pi, ask)
         /\ \A i \in 1 .. Len(q) : i # 1 => c.rt[i] = q[i]

\* CheckRoundFecTable does so, for a packet that is marked in the first round.
LEMMA CheckRoundMarks ==
  ASSUME NEW q \in Seq(RoundFecTable), NEW p, Tag(p), q # <<>>, q[1].rid = p.rid,
         p.serial \in 1 .. Len(q[1].pi), q[1].pi[p.serial].gid = p.gid,
         q[1].pi[p.serial].check,
         Serialled(q[1].pi)
  PROVE  RequestsFlagged(CheckRoundFecTable(q, p), q, p)
<1> DEFINE pi  == q[1].pi
           n   == IF p.type = DATA THEN PosInGroup(pi, p) + 1 ELSE Len(pi) + 1
           lst == Missing(pi, n, Fwin * NGroups)
           ask == IF p.type = DATA /\ SendRxRequest
                  THEN {i \in lst : ~pi[i].flag} ELSE {}
           c   == CheckRoundFecTable(q, p)
<1>1. ~(p.rid < q[1].rid)
  BY DEF Tag
<1>2. /\ c.rt = IF ClosesRound(q, p) THEN Tail(q) ELSE [q EXCEPT ![1].pi = Flagged(@, ask)]
      /\ c.asked = {pi[i].hdr : i \in ask}
  BY <1>1 DEF CheckRoundFecTable, LostPacketInfo
<1>3. /\ q[1] \in RoundFecTable /\ pi \in Seq(PacketInfo) /\ 1 \in 1 .. Len(q)
      /\ DOMAIN q = 1 .. Len(q) /\ Len(pi) \in Nat /\ p.serial \in Int
  <2>1. 1 \in 1 .. Len(q) /\ q[1] \in RoundFecTable
    BY LenProperties, ElementOfSeq
  <2> QED
    BY <2>1, LenProperties DEF RoundFecTable
<1>4. p.type = DATA => n = p.serial + 1
  <2>1. PosInGroup(pi, p) = p.serial
    <3> HIDE DEF pi
    <3> QED
      BY <1>3, SerialFound DEF pi
  <2> QED
    BY <2>1
<1>5. ask \in SUBSET (1 .. p.serial - 1) /\ \A k \in ask : ~pi[k].check /\ ~pi[k].flag
  <2>1. \A k \in lst : k \in 1 .. n - 1 /\ ~pi[k].check
    BY DEF Missing
  <2>2. \A k \in ask : p.type = DATA /\ k \in lst /\ ~pi[k].flag
    OBVIOUS
  <2> HIDE DEF ask, lst, n
  <2>3. \A k \in ask : k \in 1 .. p.serial /\ k # p.serial
    BY <1>3, <1>4, <2>1, <2>2
  <2> QED
    BY <1>3, <2>1, <2>2, <2>3
<1>6. ask # {} => p.type = DATA
  OBVIOUS
<1> HIDE DEF ask
<1>7. /\ [q EXCEPT ![1].pi = Flagged(@, ask)][1].pi = Flagged(pi, ask)
      /\ Len([q EXCEPT ![1].pi = Flagged(@, ask)]) = Len(q)
      /\ \A i \in 1 .. Len(q) : i # 1 => [q EXCEPT ![1].pi = Flagged(@, ask)][i] = q[i]
  <2> DEFINE t == [q[1] EXCEPT !.pi = Flagged(pi, ask)]
  <2>1. [q EXCEPT ![1].pi = Flagged(@, ask)] = [q EXCEPT ![1] = t]
    BY <1>3
  <2>2. t.pi = Flagged(pi, ask)
    BY <1>3 DEF RoundFecTable
  <2> HIDE DEF t
  <2>3. Len([q EXCEPT ![1] = t]) = Len(q)
    BY <1>3
  <2> QED
    BY <1>3, <2>1, <2>2, <2>3
<1> HIDE DEF c
<1>8. /\ c.asked = {q[1].pi[k].hdr : k \in ask}
      /\ \A k \in ask : ~q[1].pi[k].check /\ ~q[1].pi[k].flag
      /\ ask # {} => p.type = DATA
      /\ ClosesRound(q, p) => c.rt = Tail(q)
      /\ ~ClosesRound(q, p) =>
           /\ Len(c.rt) = Len(q) /\ c.rt[1].pi = Flagged(q[1].pi, ask)
           /\ \A i \in 1 .. Len(q) : i # 1 => c.rt[i] = q[i]
  BY <1>2, <1>5, <1>6, <1>7
<1>9. RequestsFlagged(c, q, p)
  BY <1>5, <1>8 DEF RequestsFlagged
<1> QED
  BY <1>9 DEF c

\* Both passes.  Round table c is what is left of rt: the packet's entry is
\* marked, and flagged are the entries that were requested.
RoundsMarked(c, rt, off, n, s, ask) ==
  \A i \in 1 .. Len(c) : \A k \in 1 .. Len(c[i].pi) :
    /\ c[i].pi[k].fec = rt[off + i].pi[k].fec
    /\ c[i].pi[k].check <=> (rt[off + i].pi[k].check \/ (off + i = n /\ k = s))
    /\ c[i].pi[k].flag <=> (rt[off + i].pi[k].flag \/ (off + i = n /\ k \in ask))

\* Flagging entries changes their flags only.
LEMMA FlaggedEntry ==
  ASSUME NEW pi \in Seq(PacketInfo), NEW ask
  PROVE  /\ Len(Flagged(pi, ask)) = Len(pi)
         /\ \A k \in 1 .. Len(pi) :
              /\ Flagged(pi, ask)[k].check <=> pi[k].check
              /\ Flagged(pi, ask)[k].fec = pi[k].fec
              /\ Flagged(pi, ask)[k].flag <=> (pi[k].flag \/ k \in ask)
<1>1. DOMAIN pi = 1 .. Len(pi) /\ Len(pi) \in Nat /\ \A k \in 1 .. Len(pi) : pi[k] \in PacketInfo
  BY LenProperties, ElementOfSeq
<1>2. \A k \in 1 .. Len(pi) : Flagged(pi, ask)[k] = [pi[k] EXCEPT !.flag = @ \/ k \in ask]
  BY <1>1 DEF Flagged
<1>3. Len(Flagged(pi, ask)) = Len(pi)
  BY <1>1 DEF Flagged
<1>4. ASSUME NEW k \in 1 .. Len(pi)
      PROVE  /\ Flagged(pi, ask)[k].check <=> pi[k].check
             /\ Flagged(pi, ask)[k].fec = pi[k].fec
             /\ Flagged(pi, ask)[k].flag <=> (pi[k].flag \/ k \in ask)
  <2>1. DOMAIN pi[k] = {"serial", "gid", "fec", "hdr", "check", "flag"}
    BY <1>1 DEF PacketInfo
  <2> QED
    BY <1>2, <2>1
<1> QED
  BY <1>3, <1>4

\* The two round passes together mark the packet and flag what they request.
LEMMA RoundMarks ==
  ASSUME NEW rt \in Seq(RoundFecTable), NEW b \in Int, NEW p, Tag(p),
         Rounds(rt, b), NEW n \in 1 .. Len(rt), p.rid = b + n, RoundHas(rt[n], p),
         Serialled(rt[n].pi)
  PROVE  LET c   == CheckRoundFecTable(MarkRoundFecTable(rt, p), p)
             off == IF Closing(rt[n], p) THEN n ELSE n - 1
         IN  /\ p.serial \in 1 .. Len(rt[n].pi)
             /\ \E ask \in SUBSET (1 .. p.serial - 1) :
                  /\ c.asked = {rt[n].pi[k].hdr : k \in ask}
                  /\ \A k \in ask : ~rt[n].pi[k].check /\ ~rt[n].pi[k].flag
                  /\ ask # {} => p.type = DATA
                  /\ RoundsMarked(c.rt, rt, off, n, p.serial, ask)
<1> DEFINE q   == MarkRoundFecTable(rt, p)
           c   == CheckRoundFecTable(q, p)
           off == IF Closing(rt[n], p) THEN n ELSE n - 1
           pi  == rt[n].pi
           s   == p.serial
<1>1. /\ s \in 1 .. Len(pi) /\ pi[s].gid = p.gid
      /\ q[1].pi = Checked(pi, s)
      /\ \A i \in 1 .. Len(q) : i # 1 => q[i] = rt[n + i - 1]
  BY MarkRoundMarks, SMTT(30)
<1>2. /\ RoundsAfter(q, rt, n - 1) /\ q # <<>> /\ q[1].rid = p.rid /\ q[1].n = rt[n].n
      /\ q \in Seq(RoundFecTable) /\ Len(q) = Len(rt) - (n - 1)
  BY MarkRoundPass DEF RoundsAfter
<1>3. pi \in Seq(PacketInfo) /\ Len(rt) \in Nat /\ n \in Int /\ Len(q) \in Nat /\ 1 \in 1 .. Len(q)
  <2>1. rt[n] \in RoundFecTable
    BY ElementOfSeq
  <2>2. pi \in Seq(PacketInfo)
    BY <2>1 DEF RoundFecTable
  <2> HIDE DEF q, pi
  <2> QED
    BY <1>2, <2>2, LenProperties
<1> HIDE DEF q, pi, s
<1>4. /\ Checked(pi, s) \in Seq(PacketInfo) /\ Len(Checked(pi, s)) = Len(pi)
      /\ \A k \in 1 .. Len(pi) :
           /\ Checked(pi, s)[k].serial = pi[k].serial /\ Checked(pi, s)[k].gid = pi[k].gid
           /\ Checked(pi, s)[k].hdr = pi[k].hdr /\ Checked(pi, s)[k].fec = pi[k].fec
           /\ Checked(pi, s)[k].check <=> (pi[k].check \/ k = s)
           /\ Checked(pi, s)[k].flag <=> pi[k].flag
  BY <1>1, <1>3, CheckedEntry
<1>5. \E ask \in SUBSET (1 .. p.serial - 1) :
        /\ c.asked = {q[1].pi[k].hdr : k \in ask}
        /\ \A k \in ask : ~q[1].pi[k].check /\ ~q[1].pi[k].flag
        /\ ask # {} => p.type = DATA
        /\ ClosesRound(q, p) => c.rt = Tail(q)
        /\ ~ClosesRound(q, p) =>
             /\ Len(c.rt) = Len(q) /\ c.rt[1].pi = Flagged(q[1].pi, ask)
             /\ \A i \in 1 .. Len(q) : i # 1 => c.rt[i] = q[i]
  <2>1. Serialled(pi)
    BY DEF pi
  <2>2. /\ p.serial \in 1 .. Len(q[1].pi) /\ q[1].pi[p.serial].gid = p.gid
        /\ q[1].pi[p.serial].check /\ Serialled(q[1].pi)
    <3>1. q[1].pi[s].gid = p.gid /\ q[1].pi[s].check /\ s \in 1 .. Len(q[1].pi)
      BY ONLY <1>1, <1>4
    <3>2. Serialled(q[1].pi)
      BY ONLY <1>1, <1>4, <2>1 DEF Serialled
    <3> QED
      BY <3>1, <3>2 DEF s
  <2>3. Tag(p)
    OBVIOUS
  <2>4. RequestsFlagged(CheckRoundFecTable(q, p), q, p)
    BY ONLY <1>2, <2>2, <2>3, CheckRoundMarks
  <2> QED
    BY ONLY <2>4 DEF RequestsFlagged
<1>6. PICK ask \in SUBSET (1 .. p.serial - 1) :
        /\ c.asked = {q[1].pi[k].hdr : k \in ask}
        /\ \A k \in ask : ~q[1].pi[k].check /\ ~q[1].pi[k].flag
        /\ ask # {} => p.type = DATA
        /\ ClosesRound(q, p) => c.rt = Tail(q)
        /\ ~ClosesRound(q, p) =>
             /\ Len(c.rt) = Len(q) /\ c.rt[1].pi = Flagged(q[1].pi, ask)
             /\ \A i \in 1 .. Len(q) : i # 1 => c.rt[i] = q[i]
  BY <1>5
<1>7. ClosesRound(q, p) <=> Closing(rt[n], p)
  BY <1>2 DEF ClosesRound, Closing
<1>8. \A k \in ask : k \in 1 .. Len(pi)
  BY <1>1, <1>3, <1>6 DEF s
<1>9. /\ c.asked = {pi[k].hdr : k \in ask}
      /\ \A k \in ask : ~pi[k].check /\ ~pi[k].flag
  <2>1. \A k \in ask : q[1].pi[k].hdr = pi[k].hdr
    BY <1>1, <1>4, <1>8
  <2>2. \A k \in ask : ~pi[k].check /\ ~pi[k].flag
    BY <1>1, <1>4, <1>6, <1>8
  <2>3. {q[1].pi[k].hdr : k \in ask} = {pi[k].hdr : k \in ask}
    BY <2>1
  <2> QED
    BY <1>6, <2>2, <2>3
<1> HIDE DEF c
<1>10. RoundsMarked(c.rt, rt, off, n, s, ask)
  <2>1. CASE Closing(rt[n], p)
    <3>1. c.rt = Tail(q) /\ off = n
      BY <1>6, <1>7, <2>1
    <3>2. Len(c.rt) = Len(q) - 1 /\ \A i \in 1 .. Len(c.rt) : c.rt[i] = q[i + 1]
      BY <1>2, <3>1, HeadTailProperties
    <3>3. \A i \in 1 .. Len(c.rt) : c.rt[i] = rt[off + i] /\ off + i # n
      <4> TAKE i \in 1 .. Len(c.rt)
      <4>1. i + 1 \in 1 .. Len(q) /\ i + 1 # 1 /\ n + (i + 1) - 1 = n + i /\ n + i # n
        <5>1. i \in Nat /\ i >= 1 /\ i <= Len(q) - 1
          BY <1>3, <3>2
        <5> QED
          BY ONLY <1>3, <5>1
      <4>2. q[i + 1] = rt[n + (i + 1) - 1]
        BY <1>1, <4>1
      <4> QED
        BY <3>1, <3>2, <4>1, <4>2
    <3> HIDE DEF off
    <3> QED
      BY <3>3 DEF RoundsMarked
  <2>2. CASE ~Closing(rt[n], p)
    <3>1. /\ Len(c.rt) = Len(q) /\ c.rt[1].pi = Flagged(q[1].pi, ask) /\ off = n - 1
          /\ \A i \in 1 .. Len(q) : i # 1 => c.rt[i] = q[i]
      BY <1>6, <1>7, <2>2
    <3>2. ASSUME NEW i \in 1 .. Len(c.rt), i # 1
          PROVE  c.rt[i] = rt[off + i] /\ off + i # n
      <4>1. i \in Int /\ i # 1
        BY <3>2
      <4>2. n + i - 1 = (n - 1) + i /\ (n - 1) + i # n
        BY ONLY <1>3, <4>1
      <4> QED
        BY <1>1, <3>1, <3>2, <4>2
    <3>3. off + 1 = n
      BY <1>3, <3>1
    <3>4. ASSUME NEW k \in 1 .. Len(c.rt[1].pi)
          PROVE  /\ c.rt[1].pi[k].check <=> (rt[n].pi[k].check \/ k = s)
                 /\ c.rt[1].pi[k].flag <=> (rt[n].pi[k].flag \/ k \in ask)
                 /\ c.rt[1].pi[k].fec = rt[n].pi[k].fec
      <4>1. Len(c.rt[1].pi) = Len(pi) /\ c.rt[1].pi = Flagged(Checked(pi, s), ask)
        BY <1>1, <1>4, <3>1, FlaggedEntry
      <4>2. k \in 1 .. Len(pi) /\ k \in 1 .. Len(Checked(pi, s))
        BY <1>4, <4>1
      <4>3. /\ Flagged(Checked(pi, s), ask)[k].check <=> Checked(pi, s)[k].check
            /\ Flagged(Checked(pi, s), ask)[k].fec = Checked(pi, s)[k].fec
            /\ Flagged(Checked(pi, s), ask)[k].flag <=> (Checked(pi, s)[k].flag \/ k \in ask)
        BY <1>4, <4>2, FlaggedEntry
      <4> QED
        BY <1>4, <4>1, <4>2, <4>3 DEF pi
    <3> HIDE DEF off
    <3>5. ASSUME NEW i \in 1 .. Len(c.rt), NEW k \in 1 .. Len(c.rt[i].pi)
          PROVE  /\ c.rt[i].pi[k].fec = rt[off + i].pi[k].fec
                 /\ c.rt[i].pi[k].check <=> (rt[off + i].pi[k].check \/ (off + i = n /\ k = s))
                 /\ c.rt[i].pi[k].flag <=> (rt[off + i].pi[k].flag \/ (off + i = n /\ k \in ask))
      <4>1. CASE i = 1
        BY <3>3, <3>4, <4>1
      <4>2. CASE i # 1
        BY <3>2, <4>2
      <4> QED
        BY <4>1, <4>2
    <3> QED
      BY <3>5 DEF RoundsMarked
  <2> QED
    BY <2>1, <2>2
<1>11. \E x \in SUBSET (1 .. p.serial - 1) :
         /\ c.asked = {pi[k].hdr : k \in x}
         /\ \A k \in x : ~pi[k].check /\ ~pi[k].flag
         /\ x # {} => p.type = DATA
         /\ RoundsMarked(c.rt, rt, off, n, s, x)
  BY <1>6, <1>9, <1>10
<1> QED
  BY <1>1, <1>11 DEF c, q, pi, s
-----------------------------------------------------------------------------
(* The records of the tables are true of what the path did *)

\* After the round passes for packet p at the head of path l: round table c,
\* in which p's round was the nth of rt, and the entries ask were requested.
Settling(c, rt, l, p, n, off, ask) ==
  /\ rt \in Seq(RoundFecTable) /\ l \in Seq(Packet) /\ l # <<>> /\ p = Head(l)
  /\ n \in 1 .. Len(rt) /\ p.rid = rt[n].rid /\ p.type # NONE
  /\ p.serial \in 1 .. Len(rt[n].pi)
  /\ \A i \in 1 .. Len(rt) : rt[i].rid = rt[n].rid => i = n
  /\ off \in {n - 1, n} /\ RoundsAfter(c, rt, off) /\ RoundsMarked(c, rt, off, n, p.serial, ask)
  /\ ask \in SUBSET (1 .. p.serial - 1) /\ (off = n => ask = {})
  /\ \A k \in ask : ~rt[n].pi[k].check /\ ~rt[n].pi[k].flag

\* Entry k of round i is an entry of the round it was before.
LEMMA SettlingEntry ==
  ASSUME NEW c, NEW rt, NEW l, NEW p, NEW n, NEW off, NEW ask,
         Settling(c, rt, l, p, n, off, ask),
         NEW i \in 1 .. Len(c), NEW k \in 1 .. Len(c[i].pi)
  PROVE  /\ off + i \in 1 .. Len(rt) /\ k \in 1 .. Len(rt[off + i].pi)
         /\ Len(c[i].pi) = Len(rt[off + i].pi)
         /\ c[i].rid = rt[off + i].rid /\ c[i].pi[k].hdr = rt[off + i].pi[k].hdr
         /\ c[i].pi[k].serial = rt[off + i].pi[k].serial
         /\ c[i].pi[k].gid = rt[off + i].pi[k].gid /\ c[i].pi[k].fec = rt[off + i].pi[k].fec
         /\ c[i].pi[k].check <=> (rt[off + i].pi[k].check \/ (off + i = n /\ k = p.serial))
         /\ c[i].pi[k].flag <=> (rt[off + i].pi[k].flag \/ (off + i = n /\ k \in ask))
<1>1. Len(rt) \in Nat /\ n \in 1 .. Len(rt) /\ off \in {n - 1, n} /\ Len(c) = Len(rt) - off
  BY LenProperties DEF Settling, RoundsAfter
<1>2. off + i \in 1 .. Len(rt)
  BY ONLY <1>1, i \in 1 .. Len(c)
<1>3. c[i].rid = rt[off + i].rid /\ SameList(c[i].pi, rt[off + i].pi)
  BY DEF Settling, RoundsAfter
<1>4. /\ k \in 1 .. Len(rt[off + i].pi) /\ c[i].pi[k].hdr = rt[off + i].pi[k].hdr
      /\ c[i].pi[k].serial = rt[off + i].pi[k].serial
      /\ c[i].pi[k].gid = rt[off + i].pi[k].gid
      /\ Len(c[i].pi) = Len(rt[off + i].pi)
  BY <1>3 DEF SameList
<1>5. /\ c[i].pi[k].fec = rt[off + i].pi[k].fec
      /\ c[i].pi[k].check <=> (rt[off + i].pi[k].check \/ (off + i = n /\ k = p.serial))
      /\ c[i].pi[k].flag <=> (rt[off + i].pi[k].flag \/ (off + i = n /\ k \in ask))
  BY DEF Settling, RoundsMarked
<1> QED
  BY <1>2, <1>3, <1>4, <1>5

\* Packets that are requested are lost: one that were still on the path would
\* be behind a packet with a larger serial.
LEMMA AskedAreLost ==
  ASSUME NEW c, NEW rt, NEW l, NEW p, NEW n, NEW off, NEW ask,
         Settling(c, rt, l, p, n, off, ask), NEW lst, Traced(rt, l, lst),
         NEW last, NEW s, InSerialOrder(l, last, s),
         NEW k \in ask, rt[n].pi[k].hdr # 0
  PROVE  Gone(lst, rt[n].pi[k].hdr)
<1>1. /\ l \in Seq(Packet) /\ Len(l) \in Nat /\ 1 \in 1 .. Len(l) /\ p = l[1]
      /\ n \in 1 .. Len(rt) /\ p.rid = rt[n].rid /\ p.type # NONE
  BY LenProperties DEF Settling
<1>2. k \in 1 .. Len(rt[n].pi) /\ k < p.serial /\ ~rt[n].pi[k].check
  <2>1. Len(rt[n].pi) \in Nat /\ p.serial \in 1 .. Len(rt[n].pi) /\ k \in 1 .. p.serial - 1
    BY <1>1, EntryTyped DEF Settling
  <2>2. ~rt[n].pi[k].check
    BY DEF Settling
  <2> QED
    BY <2>1, <2>2
<1>3. ASSUME NEW m \in 1 .. Len(l), l[m].type = DATA, l[m].rid = rt[n].rid, l[m].serial = k
      PROVE  FALSE
  <2>1. p.serial \in Int /\ k \in Int
    BY <1>1, <1>2, EntryTyped DEF Settling
  <2>2. m # 1
    BY <1>1, <1>2, <1>3, <2>1
  <2>3. 1 < m /\ l[m].type # NONE
    BY <1>3, <2>2 DEF DATA, NONE
  <2>4. l[1].serial < l[m].serial
    BY <1>1, <1>3, <2>3 DEF InSerialOrder
  <2> QED
    BY <1>1, <1>2, <1>3, <2>1, <2>4
<1>4. ~UnderWay(l, rt[n].rid, k, rt[n].pi[k].hdr)
  BY <1>3 DEF UnderWay
<1> QED
  BY <1>1, <1>2, <1>4 DEF Traced

\* Header x is that of entry k of round i.
HeaderAt(rt, i, k, x) ==
  i \in 1 .. Len(rt) /\ k \in 1 .. Len(rt[i].pi) /\ rt[i].pi[k].hdr = x

\* A header is that of one entry.
LEMMA DistinctEntries ==
  ASSUME NEW rt, Distinct(rt), NEW i, NEW j, NEW k, NEW m, NEW x,
         HeaderAt(rt, i, k, x), HeaderAt(rt, j, m, x), x # 0
  PROVE  i = j /\ k = m
<1>1. /\ i \in 1 .. Len(rt) /\ j \in 1 .. Len(rt)
      /\ k \in 1 .. Len(rt[i].pi) /\ m \in 1 .. Len(rt[j].pi)
      /\ rt[i].pi[k].hdr = rt[j].pi[m].hdr /\ rt[i].pi[k].hdr # 0
  BY DEF HeaderAt
<1> QED
  BY <1>1 DEF Distinct

\* a2 counts the requests of a and those for the entries ask of round n.
Counted(a2, a, rt, n, ask) ==
  a2 = [x \in 1 .. MaxData |->
          a[x] + (IF x \in {rt[n].pi[k].hdr : k \in ask} THEN 1 ELSE 0)]

\* The records stay true when the packet at the head has been handled.
LEMMA SettlingBooked ==
  ASSUME NEW c, NEW rt, NEW l, NEW p, NEW n, NEW off, NEW ask,
         Settling(c, rt, l, p, n, off, ask), NEW lst,
         NEW a \in [1 .. MaxData -> Nat], NEW h \in 0 .. MaxData, Booked(rt, l, lst, a, h),
         NEW a2, Counted(a2, a, rt, n, ask)
  PROVE  Booked(c, Tail(l), lst, a2, h)
<1> DEFINE hdrs == {rt[n].pi[k].hdr : k \in ask}
<1>0. /\ rt \in Seq(RoundFecTable) /\ l \in Seq(Packet) /\ l # <<>> /\ p = l[1]
      /\ n \in 1 .. Len(rt) /\ p.rid = rt[n].rid /\ Len(rt) \in Nat /\ off \in Int /\ Len(c) \in Nat
      /\ \A i \in 1 .. Len(rt) : rt[i].rid = rt[n].rid => i = n
  BY LenProperties DEF Settling, RoundsAfter
<1>1. /\ \A k \in ask : k \in 1 .. Len(rt[n].pi) /\ ~rt[n].pi[k].flag
  <2>1. Len(rt[n].pi) \in Nat
    BY <1>0, EntryTyped
  <2> QED
    BY <2>1 DEF Settling
<1>2. Listed(rt, h) /\ Distinct(rt) /\ Traced(rt, l, lst) /\ FlagsTell(rt, a)
  BY DEF Booked
<1>3. Listed(c, h)
  <2> SUFFICES ASSUME NEW i \in 1 .. Len(c), NEW k \in 1 .. Len(c[i].pi)
               PROVE  c[i].pi[k].serial = k /\ c[i].pi[k].hdr <= h
    BY DEF Listed, Serialled
  <2>1. /\ off + i \in 1 .. Len(rt) /\ k \in 1 .. Len(rt[off + i].pi)
        /\ c[i].pi[k].hdr = rt[off + i].pi[k].hdr
        /\ c[i].pi[k].serial = rt[off + i].pi[k].serial
    BY SettlingEntry
  <2> QED
    BY <1>2, <2>1 DEF Listed, Serialled
<1>4. Distinct(c)
  <2> SUFFICES ASSUME NEW i \in 1 .. Len(c), NEW j \in 1 .. Len(c),
                      NEW k \in 1 .. Len(c[i].pi), NEW m \in 1 .. Len(c[j].pi),
                      c[i].pi[k].hdr = c[j].pi[m].hdr, c[i].pi[k].hdr # 0
               PROVE  i = j /\ k = m
    BY DEF Distinct
  <2>1. /\ off + i \in 1 .. Len(rt) /\ k \in 1 .. Len(rt[off + i].pi)
        /\ c[i].pi[k].hdr = rt[off + i].pi[k].hdr
    BY SettlingEntry
  <2>2. /\ off + j \in 1 .. Len(rt) /\ m \in 1 .. Len(rt[off + j].pi)
        /\ c[j].pi[m].hdr = rt[off + j].pi[m].hdr
    BY SettlingEntry
  <2>3. off + i = off + j /\ k = m
    <3>1. PICK u \in 1 .. Len(rt) : u = off + i
      BY <2>1
    <3>2. PICK v \in 1 .. Len(rt) : v = off + j
      BY <2>2
    <3>3. PICK x : HeaderAt(rt, u, k, x) /\ HeaderAt(rt, v, m, x) /\ x # 0
      BY <2>1, <2>2, <3>1, <3>2 DEF HeaderAt
    <3>4. u = v /\ k = m
      BY <1>2, <3>3, DistinctEntries
    <3> QED
      BY <3>1, <3>2, <3>4
  <2> QED
    BY <1>0, <2>3
<1>5. Traced(c, Tail(l), lst)
  <2> SUFFICES ASSUME NEW i \in 1 .. Len(c), NEW k \in 1 .. Len(c[i].pi),
                      c[i].pi[k].hdr # 0, ~c[i].pi[k].check, ~Gone(lst, c[i].pi[k].hdr)
               PROVE  UnderWay(Tail(l), c[i].rid, k, c[i].pi[k].hdr)
    BY DEF Traced
  <2>1. /\ off + i \in 1 .. Len(rt) /\ k \in 1 .. Len(rt[off + i].pi)
        /\ c[i].rid = rt[off + i].rid /\ c[i].pi[k].hdr = rt[off + i].pi[k].hdr
        /\ c[i].pi[k].check <=> (rt[off + i].pi[k].check \/ (off + i = n /\ k = p.serial))
    BY SettlingEntry
  <2>2. UnderWay(l, rt[off + i].rid, k, rt[off + i].pi[k].hdr)
    BY <1>2, <2>1 DEF Traced
  <2>3. PICK m \in 1 .. Len(l) :
          /\ l[m].type = DATA /\ l[m].hdr = rt[off + i].pi[k].hdr
          /\ l[m].rid = rt[off + i].rid /\ l[m].serial = k
    BY <2>2 DEF UnderWay
  <2>4. m # 1
    BY <1>0, <2>1, <2>3
  <2>5. /\ Len(l) \in Nat /\ Len(Tail(l)) = Len(l) - 1
        /\ \A j \in 1 .. Len(Tail(l)) : Tail(l)[j] = l[j + 1]
    BY <1>0, HeadTailProperties, LenProperties
  <2>6. m - 1 \in 1 .. Len(Tail(l)) /\ (m - 1) + 1 = m
    BY ONLY <2>4, <2>5, m \in 1 .. Len(l)
  <2>7. Tail(l)[m - 1] = l[m]
    BY <2>5, <2>6
  <2> QED
    BY <2>1, <2>3, <2>6, <2>7 DEF UnderWay
<1>6. FlagsTell(c, a2)
  <2> SUFFICES ASSUME NEW i \in 1 .. Len(c), NEW k \in 1 .. Len(c[i].pi), c[i].pi[k].hdr # 0
               PROVE  a2[c[i].pi[k].hdr] = IF c[i].pi[k].flag THEN 1 ELSE 0
    BY DEF FlagsTell
  <2>1. /\ off + i \in 1 .. Len(rt) /\ k \in 1 .. Len(rt[off + i].pi)
        /\ c[i].pi[k].hdr = rt[off + i].pi[k].hdr
        /\ c[i].pi[k].flag <=> (rt[off + i].pi[k].flag \/ (off + i = n /\ k \in ask))
    BY SettlingEntry
  <2> DEFINE x == rt[off + i].pi[k].hdr
  <2>2. x \in 1 .. MaxData
    <3>1. x \in Nat /\ x <= h /\ x # 0
      BY <1>0, <1>2, <2>1, EntryTyped DEF Listed
    <3> HIDE DEF x
    <3> QED
      BY <3>1, BoundsAssumption
  <2>3. a[x] = IF rt[off + i].pi[k].flag THEN 1 ELSE 0
    BY <1>2, <2>1 DEF FlagsTell
  <2>4. a2[x] = a[x] + (IF x \in hdrs THEN 1 ELSE 0)
    BY <2>2 DEF Counted
  <2>5. x \in hdrs <=> (off + i = n /\ k \in ask)
    <3>1. ASSUME x \in hdrs PROVE off + i = n /\ k \in ask
      <4>1. PICK j \in ask : x = rt[n].pi[j].hdr
        BY <3>1
      <4>2. x # 0
        BY <2>1
      <4>3. PICK u \in 1 .. Len(rt) : u = off + i
        BY <2>1
      <4>4. PICK y : HeaderAt(rt, u, k, y) /\ HeaderAt(rt, n, j, y) /\ y # 0
        BY <1>0, <1>1, <2>1, <4>1, <4>2, <4>3 DEF HeaderAt
      <4>5. u = n /\ k = j
        BY <1>2, <4>4, DistinctEntries
      <4> QED
        BY <4>3, <4>5
    <3>2. ASSUME off + i = n, k \in ask PROVE x \in hdrs
      BY <3>2
    <3> QED
      BY <3>1, <3>2
  <2>6. x \in hdrs => ~rt[off + i].pi[k].flag
    BY <1>1, <2>5
  <2> HIDE DEF x, hdrs
  <2>7. CASE x \in hdrs
    <3>1. a[x] = 0 /\ a2[x] = 0 + 1 /\ c[i].pi[k].flag
      BY <2>1, <2>3, <2>4, <2>5, <2>6, <2>7
    <3> QED
      BY <2>1, <3>1 DEF x
  <2>8. CASE x \notin hdrs
    <3>1. a2[x] = a[x] + 0 /\ a[x] \in Nat /\ (c[i].pi[k].flag <=> rt[off + i].pi[k].flag)
      BY <2>1, <2>2, <2>4, <2>5, <2>8
    <3>2. a2[x] = a[x]
      BY <3>1
    <3> QED
      BY <2>1, <2>3, <3>1, <3>2 DEF x
  <2> QED
    BY <2>7, <2>8
<1> QED
  BY <1>3, <1>4, <1>5, <1>6 DEF Booked

\* The order of serials on the path when its head is gone.
LEMMA SerialOrderTail ==
  ASSUME NEW l \in Seq(Packet), l # <<>>, NEW last, NEW s, InSerialOrder(l, last, s)
  PROVE  InSerialOrder(Tail(l), last, s)
<1>1. /\ Len(l) \in Nat /\ Len(Tail(l)) = Len(l) - 1
      /\ \A j \in 1 .. Len(Tail(l)) : Tail(l)[j] = l[j + 1]
  BY HeadTailProperties, LenProperties
<1>2. \A j \in 1 .. Len(Tail(l)) : j + 1 \in 1 .. Len(l)
  BY <1>1
<1>3. \A i, j \in 1 .. Len(Tail(l)) : i < j => i + 1 < j + 1
  BY <1>1
<1> QED
  BY <1>1, <1>2, <1>3 DEF InSerialOrder
-----------------------------------------------------------------------------
(* The encoder's steps *)

\* What is recorded of path l is so of l2 and lst2, if no data packet of l has
\* left l2 but for lst2.
LEMMA TracedPath ==
  ASSUME NEW rt, NEW l, NEW lst, Traced(rt, l, lst), NEW l2, NEW lst2,
         \A x \in lst : x \in lst2,
         \A m \in 1 .. Len(l) : l[m].type = DATA =>
           l[m] \in lst2 \/ \E j \in 1 .. Len(l2) : l2[j] = l[m]
  PROVE  Traced(rt, l2, lst2)
<1>1. \A hdr : Gone(lst, hdr) => Gone(lst2, hdr)
  BY DEF Gone
<1>2. ASSUME NEW rid, NEW k, NEW hdr, UnderWay(l, rid, k, hdr)
      PROVE  Gone(lst2, hdr) \/ UnderWay(l2, rid, k, hdr)
  <2>1. PICK m \in 1 .. Len(l) : /\ l[m].type = DATA /\ l[m].hdr = hdr
                                 /\ l[m].rid = rid /\ l[m].serial = k
    BY <1>2 DEF UnderWay
  <2>2. CASE l[m] \in lst2
    BY <2>1, <2>2 DEF Gone
  <2>3. CASE l[m] \notin lst2
    <3>1. PICK j \in 1 .. Len(l2) : l2[j] = l[m]
      BY <2>1, <2>3
    <3> QED
      BY <2>1, <3>1 DEF UnderWay
  <2> QED
    BY <2>2, <2>3
<1> QED
  BY <1>1, <1>2 DEF Traced

\* A packet is sent and recorded.
LEMMA PushBooked ==
  ASSUME NEW rt \in Seq(RoundFecTable), rt # <<>>, NEW e \in PacketInfo,
         NEW l \in Seq(Packet), NEW lst, NEW a, NEW h \in Nat, Booked(rt, l, lst, a, h),
         NEW h2 \in Nat, h2 >= h, e.hdr = 0 \/ (e.hdr = h + 1 /\ h2 = h + 1 /\ a[h + 1] = 0),
         ~e.flag, e.serial = Len(rt[Len(rt)].pi) + 1,
         NEW p \in Packet, p.serial = e.serial, p.rid = rt[Len(rt)].rid, p.hdr = e.hdr,
         e.hdr # 0 => p.type = DATA
  PROVE  /\ Booked(RoundPush(rt, e), Append(l, p), lst, a, h2)
         /\ Len(RoundPush(rt, e)[Len(RoundPush(rt, e))].pi) = Len(rt[Len(rt)].pi) + 1
<1> DEFINE r == RoundPush(rt, e)
           n == Len(rt)
           z == Len(rt[n].pi) + 1
           l2 == Append(l, p)
<1>1. /\ Len(r) = n
      /\ \A i \in 1 .. n : r[i].rid = rt[i].rid /\ (i # n => r[i].pi = rt[i].pi)
      /\ r[n].pi = Append(rt[n].pi, e)
  BY PushEntry
<1>2. n \in 1 .. n /\ n \in Nat /\ rt[n].pi \in Seq(PacketInfo) /\ Len(rt[n].pi) \in Nat
  <2>1. n \in 1 .. n /\ n \in Nat
    BY LenProperties
  <2> QED
    BY <2>1, EntryTyped
<1>3. /\ Len(r[n].pi) = z /\ r[n].pi[z] = e
      /\ \A k \in 1 .. Len(rt[n].pi) : r[n].pi[k] = rt[n].pi[k]
  BY <1>1, <1>2, AppendProperties
<1>4. Listed(rt, h) /\ Distinct(rt) /\ Traced(rt, l, lst) /\ FlagsTell(rt, a)
  BY DEF Booked
<1> HIDE DEF r, l2
\* An entry of r is one of rt or the new one.
<1>5. ASSUME NEW i \in 1 .. Len(r), NEW k \in 1 .. Len(r[i].pi)
      PROVE  /\ i \in 1 .. n /\ r[i].rid = rt[i].rid
             /\ \/ k \in 1 .. Len(rt[i].pi) /\ r[i].pi[k] = rt[i].pi[k]
                \/ i = n /\ k = z /\ r[i].pi[k] = e
  <2>1. CASE i = n
    <3>1. k \in 1 .. z
      BY <1>3, <2>1
    <3>2. k \in 1 .. Len(rt[n].pi) \/ k = z
      BY ONLY <1>2, <3>1
    <3> QED
      BY <1>1, <1>2, <1>3, <2>1, <3>2
  <2>2. CASE i # n
    BY <1>1, <2>2
  <2> QED
    BY <2>1, <2>2
<1>6. \A i \in 1 .. n : \A k \in 1 .. Len(rt[i].pi) :
        rt[i].pi[k].hdr \in Nat /\ rt[i].pi[k].hdr <= h /\ rt[i].pi[k].serial = k
  BY <1>4, EntryTyped DEF Listed, Serialled
<1>7. Listed(r, h2)
  <2> SUFFICES ASSUME NEW i \in 1 .. Len(r), NEW k \in 1 .. Len(r[i].pi)
               PROVE  r[i].pi[k].serial = k /\ r[i].pi[k].hdr <= h2
    BY DEF Listed, Serialled
  <2>1. CASE k \in 1 .. Len(rt[i].pi) /\ r[i].pi[k] = rt[i].pi[k]
    <3>1. rt[i].pi[k].hdr \in Nat /\ rt[i].pi[k].hdr <= h /\ rt[i].pi[k].serial = k
      BY <1>5, <1>6, <2>1
    <3>2. \A x \in Nat : x <= h => x <= h2
      OBVIOUS
    <3> QED
      BY ONLY <2>1, <3>1, <3>2
  <2>2. CASE i = n /\ k = z /\ r[i].pi[k] = e
    BY <2>2
  <2> QED
    BY <1>5, <2>1, <2>2
<1>8. Distinct(r)
  <2> SUFFICES ASSUME NEW i \in 1 .. Len(r), NEW j \in 1 .. Len(r),
                      NEW k \in 1 .. Len(r[i].pi), NEW m \in 1 .. Len(r[j].pi),
                      r[i].pi[k].hdr = r[j].pi[m].hdr, r[i].pi[k].hdr # 0
               PROVE  i = j /\ k = m
    BY DEF Distinct
  <2>1. PICK x : x = r[i].pi[k].hdr /\ x = r[j].pi[m].hdr /\ x # 0
    OBVIOUS
  <2>2. HeaderAt(rt, i, k, x) \/ (i = n /\ k = z /\ x = e.hdr)
    BY <1>5, <2>1 DEF HeaderAt
  <2>3. HeaderAt(rt, j, m, x) \/ (j = n /\ m = z /\ x = e.hdr)
    BY <1>5, <2>1 DEF HeaderAt
  <2>4. \A u, v : HeaderAt(rt, u, v, x) => x # e.hdr
    <3> SUFFICES ASSUME NEW u, NEW v, HeaderAt(rt, u, v, x), x = e.hdr PROVE FALSE
      OBVIOUS
    <3>1. x \in Nat /\ x <= h
      BY <1>6 DEF HeaderAt
    <3>2. x = h + 1
      BY <2>1
    <3> QED
      BY <3>1, <3>2
  <2>5. CASE HeaderAt(rt, i, k, x)
    <3>1. HeaderAt(rt, j, m, x)
      BY <2>3, <2>4, <2>5
    <3> QED
      BY <1>4, <2>1, <2>5, <3>1, DistinctEntries
  <2>6. CASE i = n /\ k = z /\ x = e.hdr
    BY <2>3, <2>4, <2>6
  <2> QED
    BY <2>2, <2>5, <2>6
<1>9. /\ Len(l) \in Nat /\ Len(l2) = Len(l) + 1 /\ l2[Len(l) + 1] = p
      /\ \A m \in 1 .. Len(l) : l2[m] = l[m]
  BY AppendProperties, LenProperties DEF l2
<1>10. Traced(r, l2, lst)
  <2>1. Traced(rt, l2, lst)
    <3>1. \A m \in 1 .. Len(l) : m \in 1 .. Len(l2)
      BY <1>9
    <3> QED
      BY <1>4, <1>9, <3>1, TracedPath
  <2> SUFFICES ASSUME NEW i \in 1 .. Len(r), NEW k \in 1 .. Len(r[i].pi),
                      r[i].pi[k].hdr # 0, ~r[i].pi[k].check
               PROVE  Gone(lst, r[i].pi[k].hdr) \/ UnderWay(l2, r[i].rid, k, r[i].pi[k].hdr)
    BY DEF Traced
  <2>2. CASE k \in 1 .. Len(rt[i].pi) /\ r[i].pi[k] = rt[i].pi[k]
    BY <1>5, <2>1, <2>2 DEF Traced
  <2>3. CASE i = n /\ k = z /\ r[i].pi[k] = e
    <3>1. Len(l) + 1 \in 1 .. Len(l2)
      BY <1>9
    <3>2. p.type = DATA /\ p.hdr = r[i].pi[k].hdr /\ p.rid = r[i].rid /\ p.serial = k
      BY <1>5, <2>3
    <3> QED
      BY <1>9, <3>1, <3>2 DEF UnderWay
  <2> QED
    BY <1>5, <2>2, <2>3
<1>11. FlagsTell(r, a)
  <2> SUFFICES ASSUME NEW i \in 1 .. Len(r), NEW k \in 1 .. Len(r[i].pi), r[i].pi[k].hdr # 0
               PROVE  a[r[i].pi[k].hdr] = IF r[i].pi[k].flag THEN 1 ELSE 0
    BY DEF FlagsTell
  <2>1. CASE k \in 1 .. Len(rt[i].pi) /\ r[i].pi[k] = rt[i].pi[k]
    BY <1>4, <1>5, <2>1 DEF FlagsTell
  <2>2. CASE i = n /\ k = z /\ r[i].pi[k] = e
    BY <2>2
  <2> QED
    BY <1>5, <2>1, <2>2
<1> QED
  BY <1>1, <1>3, <1>7, <1>8, <1>10, <1>11 DEF Booked, r, l2

\* A new round has no entries yet.
LEMMA OpenBooked ==
  ASSUME NEW rt \in Seq(RoundFecTable), NEW rid, NEW size,
         NEW l, NEW lst, NEW a, NEW h, Booked(rt, l, lst, a, h)
  PROVE  /\ Booked(WithRound(rt, rid, size), l, lst, a, h)
         /\ WithRound(rt, rid, size) # <<>>
         /\ WithRound(rt, rid, size)[Len(WithRound(rt, rid, size))].pi = <<>>
<1> DEFINE t == [rid |-> rid, n |-> size, pi |-> <<>>]
           r == WithRound(rt, rid, size)
<1>1. r = Append(rt, t) /\ t.pi = <<>>
  BY DEF WithRound
<1> HIDE DEF t, r
<1>2. /\ Len(rt) \in Nat /\ Len(r) = Len(rt) + 1 /\ r[Len(rt) + 1] = t
      /\ \A i \in 1 .. Len(rt) : r[i] = rt[i]
  BY <1>1, LenProperties
<1>3. ASSUME NEW i \in 1 .. Len(r), NEW k \in 1 .. Len(r[i].pi)
      PROVE  i \in 1 .. Len(rt) /\ r[i] = rt[i]
  <2>1. i \in 1 .. Len(rt) \/ i = Len(rt) + 1
    BY <1>2
  <2>2. i # Len(rt) + 1
    <3>1. ASSUME i = Len(rt) + 1 PROVE FALSE
      <4>1. r[i].pi = <<>> /\ Len(r[i].pi) = 0
        BY <1>1, <1>2, <3>1
      <4> QED
        BY <4>1
    <3> QED
      BY <3>1
  <2> QED
    BY <1>2, <2>1, <2>2
<1>4. Listed(rt, h) /\ Distinct(rt) /\ Traced(rt, l, lst) /\ FlagsTell(rt, a)
  BY DEF Booked
<1>5. Listed(r, h)
  <2> SUFFICES ASSUME NEW i \in 1 .. Len(r), NEW k \in 1 .. Len(r[i].pi)
               PROVE  r[i].pi[k].serial = k /\ r[i].pi[k].hdr <= h
    BY DEF Listed, Serialled
  <2> QED
    BY <1>3, <1>4 DEF Listed, Serialled
<1>6. Distinct(r)
  <2> SUFFICES ASSUME NEW i \in 1 .. Len(r), NEW j \in 1 .. Len(r),
                      NEW k \in 1 .. Len(r[i].pi), NEW m \in 1 .. Len(r[j].pi),
                      r[i].pi[k].hdr = r[j].pi[m].hdr, r[i].pi[k].hdr # 0
               PROVE  i = j /\ k = m
    BY DEF Distinct
  <2>1. PICK x : HeaderAt(rt, i, k, x) /\ HeaderAt(rt, j, m, x) /\ x # 0
    BY <1>3 DEF HeaderAt
  <2> QED
    BY <1>4, <2>1, DistinctEntries
<1>7. Traced(r, l, lst)
  <2> SUFFICES ASSUME NEW i \in 1 .. Len(r), NEW k \in 1 .. Len(r[i].pi),
                      r[i].pi[k].hdr # 0, ~r[i].pi[k].check
               PROVE  Gone(lst, r[i].pi[k].hdr) \/ UnderWay(l, r[i].rid, k, r[i].pi[k].hdr)
    BY DEF Traced
  <2> QED
    BY <1>3, <1>4 DEF Traced
<1>8. FlagsTell(r, a)
  <2> SUFFICES ASSUME NEW i \in 1 .. Len(r), NEW k \in 1 .. Len(r[i].pi), r[i].pi[k].hdr # 0
               PROVE  a[r[i].pi[k].hdr] = IF r[i].pi[k].flag THEN 1 ELSE 0
    BY DEF FlagsTell
  <2> QED
    BY <1>3, <1>4 DEF FlagsTell
<1>9. r # <<>> /\ r[Len(r)].pi = <<>>
  BY <1>1, <1>2
<1> QED
  BY <1>5, <1>6, <1>7, <1>8, <1>9 DEF Booked, r

\* The order of serials when packet p is sent.
LEMMA SerialOrderAppend ==
  ASSUME NEW l \in Seq(Packet), NEW last \in Nat, NEW s \in Nat, InSerialOrder(l, last, s),
         NEW p \in Packet
  PROVE  /\ p.type = NONE => InSerialOrder(Append(l, p), last, s)
         /\ p.rid = last /\ p.serial = s => InSerialOrder(Append(l, p), last, s + 1)
<1> DEFINE l2 == Append(l, p)
<1>1. /\ Len(l) \in Nat /\ Len(l2) = Len(l) + 1 /\ l2[Len(l) + 1] = p
      /\ \A m \in 1 .. Len(l) : l2[m] = l[m]
  BY AppendProperties, LenProperties
<1> HIDE DEF l2
<1>2. \A m \in 1 .. Len(l2) : m \in 1 .. Len(l) \/ m = Len(l) + 1
  BY <1>1
<1>3. \A m \in 1 .. Len(l) : l[m].serial \in Nat
  <2>1. \A x \in Packet : x.serial \in Nat
    BY DEF Packet
  <2> QED
    BY <2>1, ElementOfSeq
<1>4. \A m, n \in 1 .. Len(l2) : m < n => m \in 1 .. Len(l)
  BY <1>1
<1>5. ASSUME p.type = NONE PROVE InSerialOrder(l2, last, s)
  BY <1>1, <1>2, <1>4, <1>5 DEF InSerialOrder
<1>6. ASSUME p.rid = last, p.serial = s PROVE InSerialOrder(l2, last, s + 1)
  <2>1. ASSUME NEW m \in 1 .. Len(l2), NEW n \in 1 .. Len(l2), m < n,
               l2[m].type # NONE, l2[n].type # NONE, l2[m].rid = l2[n].rid
        PROVE  l2[m].serial < l2[n].serial
    <3>1. m \in 1 .. Len(l) /\ l2[m] = l[m]
      BY <1>1, <1>4, <2>1
    <3>2. CASE n \in 1 .. Len(l)
      BY <1>1, <2>1, <3>1, <3>2 DEF InSerialOrder
    <3>3. CASE n = Len(l) + 1
      BY <1>1, <1>6, <2>1, <3>1, <3>3 DEF InSerialOrder
    <3> QED
      BY <1>2, <3>2, <3>3
  <2>2. ASSUME NEW m \in 1 .. Len(l2), l2[m].type # NONE, l2[m].rid = last
        PROVE  l2[m].serial < s + 1
    <3>1. CASE m \in 1 .. Len(l)
      <4>1. l[m].serial < s /\ l2[m] = l[m] /\ l[m].serial \in Nat
        BY <1>1, <1>3, <2>2, <3>1 DEF InSerialOrder
      <4> QED
        BY <4>1
    <3>2. CASE m = Len(l) + 1
      BY <1>1, <1>6, <3>2
    <3> QED
      BY <1>2, <3>1, <3>2
  <2> QED
    BY <2>1, <2>2 DEF InSerialOrder
<1> QED
  BY <1>5, <1>6 DEF l2
-----------------------------------------------------------------------------
(* AskInv is inductive, given the invariant on tables and path *)

\* Steps that request nothing.
LEMMA RequestsKept ==
  ASSUME TypeOK, AskInv, asked' = asked, lost \subseteq lost',
         m_sentdatapkt' \in Nat, m_sentdatapkt' >= m_sentdatapkt
  PROVE  /\ RequestedOnce'
         /\ (\A h \in 1 .. MaxData : h > m_sentdatapkt => asked[h] = 0)'
<1>1. LostData \subseteq LostData'
  BY DEF LostData, LostPackets
<1>2. RequestedOnce'
  BY <1>1 DEF AskInv, RequestedOnce
<1>3. m_sentdatapkt \in Int
  BY BoundsAssumption DEF TypeOK
<1>4. \A h \in 1 .. MaxData : h > m_sentdatapkt' => h > m_sentdatapkt
  BY <1>3, BoundsAssumption
<1> QED
  BY <1>2, <1>4 DEF AskInv

\* The round table with the current round at its end.
LEMMA OpenedRound ==
  ASSUME IInv, AskInv, NEW rt, rt = IF init_ THEN WithRound(rt_, m_roundId, NGroups) ELSE rt_
  PROVE  /\ rt \in Seq(RoundFecTable) /\ rt # <<>> /\ rt[Len(rt)].rid = m_roundId
         /\ Booked(rt, link, lost, asked, m_sentdatapkt)
         /\ m_serial = Len(rt[Len(rt)].pi) + 1
<1>1. rt \in Seq(RoundFecTable) /\ Ending(rt, m_roundId)
  BY OpenedTables
<1>2. rt # <<>> /\ rt[Len(rt)].rid = m_roundId
  <2>1. Len(rt) \in 1 .. Len(rt) /\ Len(rt) \in Nat /\ m_roundId \in Nat
    BY <1>1, LenProperties DEF Ending, IInv, TypeOK
  <2>2. (m_roundId - Len(rt)) + Len(rt) = m_roundId
    BY <2>1
  <2> QED
    BY <1>1, <2>1, <2>2 DEF Ending, Rounds
<1>3. rt_ \in Seq(RoundFecTable) /\ Booked(rt_, link, lost, asked, m_sentdatapkt) /\ NextSerial
  BY DEF IInv, TypeOK, AskInv
<1>4. CASE init_
  <2>1. rt_ = <<>>
    BY <1>4 DEF IInv, TablesCoverPath, Consecutive
  <2>2. m_serial = 1
    BY <1>3, <2>1 DEF NextSerial
  <2>3. /\ Booked(WithRound(rt_, m_roundId, NGroups), link, lost, asked, m_sentdatapkt)
        /\ WithRound(rt_, m_roundId, NGroups)[Len(WithRound(rt_, m_roundId, NGroups))].pi = <<>>
    BY <1>3, OpenBooked
  <2>4. rt = WithRound(rt_, m_roundId, NGroups)
    BY <1>4
  <2>5. Booked(rt, link, lost, asked, m_sentdatapkt) /\ rt[Len(rt)].pi = <<>>
    BY <2>3, <2>4
  <2> QED
    BY <1>1, <1>2, <2>2, <2>5
<1>5. CASE ~init_
  <2>1. rt = rt_
    BY <1>5
  <2> QED
    BY <1>1, <1>2, <1>3, <2>1 DEF NextSerial
<1> QED
  BY <1>4, <1>5

\* SendData records its packet under the next serial and header.
LEMMA SendDataAsks ==
  ASSUME IInv, AskInv, SendData
  PROVE  AskInv'
<1> DEFINE hdr == m_sentdatapkt + 1
           rt  == IF init_ THEN WithRound(rt_, m_roundId, NGroups) ELSE rt_
           e   == Entry(FALSE, hdr)
           p   == Tagged(DATA, hdr)
<1>1. /\ rt_' = RoundPush(rt, e) /\ link' = Append(link, p)
      /\ m_sentdatapkt' = hdr /\ m_roundId' = m_roundId /\ m_serial' = m_serial + 1
      /\ UNCHANGED <<asked, lost>> /\ m_sentdatapkt < MaxData
  BY DEF SendData, CreateDataPacket, decoder
<1>2. /\ TypeOK /\ m_sentdatapkt \in Nat /\ hdr \in 1 .. MaxData /\ hdr \in Nat
      /\ m_roundId \in Nat /\ m_serial \in Nat /\ link \in Seq(Packet)
  BY <1>1, BoundsAssumption DEF IInv, TypeOK
<1>3. /\ p \in Packet /\ e \in PacketInfo /\ p.serial = e.serial /\ p.rid = m_roundId
      /\ p.type = DATA
  BY <1>2, MadeTypes
<1>4. p.hdr = hdr /\ e.hdr = hdr /\ ~e.flag /\ e.serial = m_serial
  BY DEF Tagged, Entry
<1>5. /\ rt \in Seq(RoundFecTable) /\ rt # <<>> /\ rt[Len(rt)].rid = m_roundId
      /\ Booked(rt, link, lost, asked, m_sentdatapkt)
      /\ m_serial = Len(rt[Len(rt)].pi) + 1
  BY OpenedRound
<1>6. asked[hdr] = 0 /\ hdr >= m_sentdatapkt /\ hdr # 0
  <2>1. hdr > m_sentdatapkt
    BY <1>2
  <2> QED
    BY <1>2, <2>1 DEF AskInv
<1> HIDE DEF rt, e, p
<1>7. /\ Booked(RoundPush(rt, e), Append(link, p), lost, asked, hdr)
      /\ Len(RoundPush(rt, e)[Len(RoundPush(rt, e))].pi) = Len(rt[Len(rt)].pi) + 1
  BY <1>2, <1>3, <1>4, <1>5, <1>6, PushBooked
<1>8. InSerialOrder(link', m_roundId', m_serial')
  <2>1. InSerialOrder(link, m_roundId, m_serial)
    BY DEF AskInv
  <2> QED
    BY <1>1, <1>2, <1>3, <1>4, <2>1, SerialOrderAppend
<1>9. NextSerial'
  <2>1. RoundPush(rt, e) # <<>>
    BY <1>3, <1>5, PushEntry
  <2> QED
    BY <1>1, <1>5, <1>7, <2>1 DEF NextSerial
<1>10. RequestedOnce' /\ (\A h \in 1 .. MaxData : h > m_sentdatapkt => asked[h] = 0)'
  BY <1>1, <1>2, <1>6, RequestsKept
<1>11. Booked(rt_, link, lost, asked, m_sentdatapkt)'
  BY <1>1, <1>7
<1> QED
  BY <1>8, <1>9, <1>10, <1>11 DEF AskInv

\* SendSmall records nothing.
LEMMA SendSmallAsks ==
  ASSUME IInv, AskInv, SendSmall
  PROVE  AskInv'
<1> DEFINE s == [type |-> NONE, serial |-> 0, rid |-> 0, gid |-> 0, hdr |-> 0]
<1>1. /\ link' = Append(link, s) /\ UNCHANGED <<asked, lost, m_sentdatapkt, m_roundId, m_serial>>
      /\ rt_' = IF init_ THEN WithRound(rt_, m_roundId, NGroups) ELSE rt_
  BY DEF SendSmall, decoder
<1>2. s \in Packet /\ s.type = NONE
  BY NGroupsAssumption DEF Packet, Groups
<1>3. /\ TypeOK /\ link \in Seq(Packet) /\ m_roundId \in Nat /\ m_serial \in Nat
      /\ m_sentdatapkt \in Nat
  BY BoundsAssumption DEF IInv, TypeOK
<1>4. /\ rt_' # <<>> /\ Booked(rt_', link, lost, asked, m_sentdatapkt)
      /\ m_serial = Len(rt_'[Len(rt_')].pi) + 1
  BY <1>1, OpenedRound
<1> HIDE DEF s
<1>5. InSerialOrder(link', m_roundId, m_serial)
  <2>1. InSerialOrder(link, m_roundId, m_serial)
    BY DEF AskInv
  <2> QED
    BY <1>1, <1>2, <1>3, <2>1, SerialOrderAppend
<1>6. Traced(rt_', link', lost)
  <2>1. Len(link) \in Nat /\ Len(link') = Len(link) + 1 /\ \A m \in 1 .. Len(link) : link'[m] = link[m]
    BY <1>1, <1>2, <1>3, AppendProperties
  <2>2. \A m \in 1 .. Len(link) : \E j \in 1 .. Len(link') : link'[j] = link[m]
    <3> TAKE m \in 1 .. Len(link)
    <3>1. m \in 1 .. Len(link')
      BY <2>1
    <3> QED
      BY <2>1, <3>1
  <2>3. Traced(rt_', link, lost)
    BY <1>4 DEF Booked
  <2> QED
    BY <2>2, <2>3, TracedPath
<1>7. Booked(rt_, link, lost, asked, m_sentdatapkt)'
  BY <1>1, <1>4, <1>6 DEF Booked
<1>8. NextSerial'
  BY <1>1, <1>4 DEF NextSerial
<1>9. InSerialOrder(link, m_roundId, m_serial)'
  BY <1>1, <1>5
<1>10. RequestedOnce' /\ (\A h \in 1 .. MaxData : h > m_sentdatapkt => asked[h] = 0)'
  <2>1. m_sentdatapkt >= m_sentdatapkt
    BY <1>3
  <2> QED
    BY <1>1, <1>3, <2>1, RequestsKept
<1> QED
  BY <1>7, <1>8, <1>9, <1>10 DEF AskInv

\* No packet of a round that is yet to begin is on the path.
LEMMA NewRoundOrder ==
  ASSUME NEW l \in Seq(Packet), NEW last \in Nat, NEW s, InSerialOrder(l, last, s),
         \A m \in 1 .. Len(l) : l[m].type # NONE => l[m].rid <= last
  PROVE  InSerialOrder(l, last + 1, 1)
<1>1. \A m \in 1 .. Len(l) : l[m].rid \in Nat
  <2>1. \A m \in 1 .. Len(l) : l[m] \in Packet
    BY ElementOfSeq
  <2>2. \A x \in Packet : x.rid \in Nat
    BY DEF Packet
  <2> QED
    BY <2>1, <2>2
<1>2. \A m \in 1 .. Len(l) : l[m].type # NONE => l[m].rid # last + 1
  BY <1>1
<1> QED
  BY <1>2 DEF InSerialOrder

\* SendFecPacket records a packet that cannot be requested.
LEMMA SendFecPacketAsks ==
  ASSUME IInv, AskInv, SendFecPacket
  PROVE  AskInv'
<1> DEFINE lastGroup == m_groupId + 1 = NGroups
           e   == Entry(TRUE, 0)
           p   == Tagged(REDUNDANT, 0)
           rt  == RoundPush(rt_, e)
<1>1. /\ link' = Append(link, p)
      /\ m_roundId' = IF lastGroup THEN m_roundId + 1 ELSE m_roundId
      /\ m_serial' = IF lastGroup THEN 1 ELSE m_serial + 1
      /\ ic_ - 1 = 0 => rt_' = WithRound(rt, m_roundId', NGroups)
      /\ ic_ - 1 # 0 => rt_' = rt
      /\ fc_ = 0 /\ UNCHANGED <<asked, lost, m_sentdatapkt>>
  BY DEF SendFecPacket, CreateFecPacket, RedundancyControl, Idle, decoder
<1>2. /\ TypeOK /\ link \in Seq(Packet) /\ m_roundId \in Nat /\ m_serial \in Nat
      /\ m_sentdatapkt \in Nat /\ m_groupId \in Int /\ NGroups \in Nat \ {0}
  <2>1. /\ TypeOK /\ link \in Seq(Packet) /\ m_roundId \in Nat /\ m_serial \in Nat
        /\ m_sentdatapkt \in 0 .. MaxData
    BY DEF IInv, TypeOK
  <2>2. m_groupId \in 0 .. NGroups - 1
    BY <2>1 DEF TypeOK, Groups
  <2> QED
    BY <2>1, <2>2, BoundsAssumption, NGroupsAssumption
<1>3. ~init_ /\ (lastGroup <=> ic_ - 1 = 0)
  <2>1. ~init_ /\ ic_ \in 1 .. NGroups /\ m_groupId = NGroups - ic_
    BY <1>1 DEF IInv, TablesCoverPath, Burst
  <2> QED
    BY <1>2, <2>1
<1>4. /\ p \in Packet /\ e \in PacketInfo /\ p.serial = e.serial /\ p.rid = m_roundId
  BY <1>2, MadeTypes
<1>5. p.hdr = 0 /\ e.hdr = 0 /\ ~e.flag /\ e.serial = m_serial
  BY DEF Tagged, Entry
<1>6. /\ rt_ \in Seq(RoundFecTable) /\ rt_ # <<>> /\ rt_[Len(rt_)].rid = m_roundId
      /\ Booked(rt_, link, lost, asked, m_sentdatapkt)
      /\ m_serial = Len(rt_[Len(rt_)].pi) + 1
  <2>1. rt_ = IF init_ THEN WithRound(rt_, m_roundId, NGroups) ELSE rt_
    BY <1>3
  <2> QED
    BY <2>1, OpenedRound
<1> HIDE DEF e, p
<1>7. /\ Booked(rt, link', lost, asked, m_sentdatapkt)
      /\ Len(rt[Len(rt)].pi) = m_serial + 1 - 1
  <2>1. m_sentdatapkt >= m_sentdatapkt /\ m_serial + 1 - 1 = m_serial
    BY <1>2
  <2> QED
    BY <1>1, <1>2, <1>4, <1>5, <1>6, <2>1, PushBooked
<1>8. rt \in Seq(RoundFecTable) /\ rt # <<>>
  <2>1. rt # <<>>
    BY <1>4, <1>6, PushEntry
  <2>2. RoundPush(rt_, e) \in Seq(RoundFecTable)
    BY <1>4, <1>6, RoundPushPass
  <2> QED
    BY <2>1, <2>2
<1>9. InSerialOrder(link', m_roundId, m_serial + 1) /\ link' \in Seq(Packet)
  <2>1. InSerialOrder(link, m_roundId, m_serial)
    BY DEF AskInv
  <2>2. link' \in Seq(Packet)
    BY <1>1, <1>2, <1>4, AppendProperties
  <2> QED
    BY <1>1, <1>2, <1>4, <1>5, <2>1, <2>2, SerialOrderAppend
<1>10. RequestedOnce' /\ (\A h \in 1 .. MaxData : h > m_sentdatapkt => asked[h] = 0)'
  <2>1. m_sentdatapkt >= m_sentdatapkt
    BY <1>2
  <2> QED
    BY <1>1, <1>2, <2>1, RequestsKept
<1> HIDE DEF rt
<1>11. CASE ic_ - 1 = 0
  <2>1. m_roundId' = m_roundId + 1 /\ m_serial' = 1 /\ rt_' = WithRound(rt, m_roundId', NGroups)
    BY <1>1, <1>3, <1>11
  <2>2. Booked(rt_', link', lost, asked, m_sentdatapkt) /\ rt_' # <<>> /\ rt_'[Len(rt_')].pi = <<>>
    BY <1>7, <1>8, <2>1, OpenBooked
  <2>3. NextSerial'
    BY <2>1, <2>2 DEF NextSerial
  <2>4. InSerialOrder(link', m_roundId', m_serial')
    <3>1. \A m \in 1 .. Len(link) : link[m].type # NONE => link[m].rid <= m_roundId
      BY DEF IInv, TablesCoverPath, Behind
    <3>2. \A m \in 1 .. Len(link') : link'[m].type # NONE => link'[m].rid <= m_roundId
      <4>1. /\ Len(link) \in Nat /\ Len(link') = Len(link) + 1 /\ link'[Len(link) + 1] = p
            /\ \A m \in 1 .. Len(link) : link'[m] = link[m]
        BY <1>1, <1>2, <1>4, AppendProperties
      <4>2. \A m \in 1 .. Len(link') : m \in 1 .. Len(link) \/ m = Len(link) + 1
        BY <4>1
      <4>3. p.rid <= m_roundId
        BY <1>2, <1>4
      <4> QED
        BY <3>1, <4>1, <4>2, <4>3
    <3> QED
      BY <1>2, <1>9, <2>1, <3>2, NewRoundOrder
  <2>5. Booked(rt_, link, lost, asked, m_sentdatapkt)'
    BY <1>1, <2>2
  <2> QED
    BY <1>10, <2>3, <2>4, <2>5 DEF AskInv
<1>12. CASE ic_ - 1 # 0
  <2>1. m_roundId' = m_roundId /\ m_serial' = m_serial + 1 /\ rt_' = rt
    BY <1>1, <1>3, <1>12
  <2>2. NextSerial'
    BY <1>2, <1>7, <1>8, <2>1 DEF NextSerial
  <2>3. Booked(rt_, link, lost, asked, m_sentdatapkt)'
    BY <1>1, <1>7, <2>1
  <2> QED
    BY <1>9, <1>10, <2>1, <2>2, <2>3 DEF AskInv
<1> QED
  BY <1>11, <1>12

\* A packet that leaves the path is not of a round, or is lost.
LEMMA LeavesAsks ==
  ASSUME IInv, AskInv, link # <<>>, link' = Tail(link), UNCHANGED <<encoder, rt_, asked>>,
         lost \subseteq lost', Head(link).type = DATA => Head(link) \in lost'
  PROVE  AskInv'
<1>1. /\ TypeOK /\ link \in Seq(Packet) /\ m_sentdatapkt \in Nat /\ m_roundId \in Nat
  BY BoundsAssumption DEF IInv, TypeOK
<1>2. UNCHANGED <<m_sentdatapkt, m_roundId, m_serial>>
  BY DEF encoder
<1>3. InSerialOrder(link, m_roundId, m_serial)'
  <2>1. InSerialOrder(link, m_roundId, m_serial)
    BY DEF AskInv
  <2>2. InSerialOrder(Tail(link), m_roundId, m_serial)
    BY <1>1, <2>1, SerialOrderTail
  <2> QED
    BY <1>2, <2>2
<1>4. NextSerial'
  BY <1>2 DEF AskInv, NextSerial
<1>5. RequestedOnce' /\ (\A h \in 1 .. MaxData : h > m_sentdatapkt => asked[h] = 0)'
  <2>1. m_sentdatapkt >= m_sentdatapkt
    BY <1>1
  <2> QED
    BY <1>1, <1>2, <2>1, RequestsKept
<1>6. Booked(rt_, link, lost, asked, m_sentdatapkt)
  BY DEF AskInv
<1>7. Traced(rt_, link', lost')
  <2>1. /\ Len(link) \in Nat /\ Head(link) = link[1] /\ Len(link') = Len(link) - 1
        /\ \A j \in 1 .. Len(link') : link'[j] = link[j + 1]
    BY <1>1, HeadTailProperties
  <2>2. ASSUME NEW m \in 1 .. Len(link), link[m].type = DATA
        PROVE  link[m] \in lost' \/ \E j \in 1 .. Len(link') : link'[j] = link[m]
    <3>1. CASE m = 1
      BY <2>1, <2>2, <3>1
    <3>2. CASE m # 1
      <4>1. m - 1 \in 1 .. Len(link') /\ (m - 1) + 1 = m
        BY <2>1, <3>2
      <4> QED
        BY <2>1, <4>1
    <3> QED
      BY <3>1, <3>2
  <2>3. Traced(rt_, link, lost)
    BY <1>6 DEF Booked
  <2> QED
    BY <2>2, <2>3, TracedPath
<1>8. Booked(rt_, link, lost, asked, m_sentdatapkt)'
  BY <1>2, <1>6, <1>7 DEF Booked
<1> QED
  BY <1>3, <1>4, <1>5, <1>8 DEF AskInv

\* The packet at the head has its entry in the round table, and one that
\* closes a round is not of the last.
HeadFound(p) ==
  /\ Tag(p) /\ (p.type = REDUNDANT => p.rid < m_roundId)
  /\ \E n \in 1 .. Len(rt_) : RoundHas(rt_[n], p) /\ p.rid = (m_roundId - Len(rt_)) + n

\* So says the invariant on tables and path.
LEMMA HeadRecorded ==
  ASSUME TypeOK, TablesCoverPath, Idle, link # <<>>, Head(link).type # NONE
  PROVE  HeadFound(Head(link))
<1>1. /\ link \in Seq(Packet) /\ \A x \in Packet : Tag(x)
      /\ Tracked(link, rt_, gt_, m_roundId, fc_, m_groupId) /\ fc_ # 0
  BY PacketTags, LinkTracked DEF TypeOK, TablesCoverPath, Burst, Idle
<1>2. PICK p : p = Head(link) /\ p.type # NONE
  OBVIOUS
<1>3. /\ p \in Packet /\ Tag(p) /\ p.type \in {DATA, REDUNDANT, REXMIT}
      /\ p.rid <= m_roundId /\ (p.type = REDUNDANT => p.rid < m_roundId)
      /\ \E n \in 1 .. Len(rt_) : /\ n = Index(rt_, m_roundId, p) /\ RoundHas(rt_[n], p)
                                  /\ p.rid = (m_roundId - Len(rt_)) + n /\ p.gid < rt_[n].n
      /\ \E m \in 1 .. Len(gt_) : /\ m = Index(gt_, m_roundId, p) /\ GroupHas(gt_[m], p)
                                  /\ p.rid = (m_roundId - Len(gt_)) + m
  BY <1>1, <1>2, HeadTracked
<1> QED
  BY <1>2, <1>3 DEF HeadFound

\* What the round passes for p, the head of the path, make of the table: p is in
\* its nth round, rounds 1 to off go and the entries in ask are requested.
HeadSettles(p, chk, n, off, ask) ==
  /\ Settling(chk.rt, rt_, link, p, n, off, ask)
  /\ chk.asked = {rt_[n].pi[k].hdr : k \in ask}
  /\ off = (IF Closing(rt_[n], p) THEN n ELSE n - 1) /\ off < Len(rt_)
  /\ RoundHas(rt_[n], p) /\ p.rid = (m_roundId - Len(rt_)) + n /\ Tag(p)
  /\ Serialled(rt_[n].pi)

\* The two round passes of Recv do so, and never take the last round.
LEMMA HeadIsSettled ==
  ASSUME IInv, AskInv, Idle, link # <<>>, NEW p, p = Head(link), p.type # NONE
  PROVE  \E n, off, ask :
           HeadSettles(p, CheckRoundFecTable(MarkRoundFecTable(rt_, p), p), n, off, ask)
<1> DEFINE mark == MarkRoundFecTable(rt_, p)
           chk == CheckRoundFecTable(mark, p)
           b == m_roundId - Len(rt_)
<1>1. /\ TypeOK /\ TablesCoverPath /\ link \in Seq(Packet) /\ rt_ \in Seq(RoundFecTable)
      /\ m_roundId \in Nat /\ Len(rt_) \in Nat
  BY LenProperties DEF IInv, TypeOK
<1>2. Tracked(link, rt_, gt_, m_roundId, fc_, m_groupId)
  BY <1>1, LinkTracked DEF TablesCoverPath, Burst
<1>3. /\ Tag(p) /\ (p.type = REDUNDANT => p.rid < m_roundId)
      /\ \E n \in 1 .. Len(rt_) : RoundHas(rt_[n], p) /\ p.rid = (m_roundId - Len(rt_)) + n
  <2>1. HeadFound(p)
    BY <1>1, HeadRecorded
  <2> QED
    BY <2>1 DEF HeadFound
<1>4. PICK n \in 1 .. Len(rt_) : RoundHas(rt_[n], p) /\ p.rid = b + n
  BY <1>3
<1>5. Booked(rt_, link, lost, asked, m_sentdatapkt)
  BY DEF AskInv
<1>6. Rounds(rt_, b) /\ b \in Int /\ Serialled(rt_[n].pi)
  BY <1>1, <1>2, <1>5 DEF Tracked, Ending, Booked, Listed
<1> DEFINE off == IF Closing(rt_[n], p) THEN n ELSE n - 1
<1> HIDE DEF b
<1>7. /\ p.serial \in 1 .. Len(rt_[n].pi)
      /\ \E ask \in SUBSET (1 .. p.serial - 1) :
           /\ chk.asked = {rt_[n].pi[k].hdr : k \in ask}
           /\ \A k \in ask : ~rt_[n].pi[k].check /\ ~rt_[n].pi[k].flag
           /\ ask # {} => p.type = DATA
           /\ RoundsMarked(chk.rt, rt_, off, n, p.serial, ask)
  BY ONLY <1>1, <1>3, <1>4, <1>6, RoundMarks
<1>8. RoundsSettled(chk.rt, rt_, n, p)
  <2>1. mark \in Seq(RoundFecTable) /\ mark # <<>> /\ mark[1].rid = p.rid
    BY <1>1, <1>3, <1>4, <1>6, MarkRoundPass DEF RoundsAfter
  <2>2. /\ ClosesRound(mark, p) => RoundsAfter(chk.rt, mark, 1)
        /\ ~ClosesRound(mark, p) => RoundsAfter(chk.rt, mark, 0)
    <3> HIDE DEF mark
    <3> QED
      BY <1>3, <2>1, CheckRoundPass
  <2> HIDE DEF chk
  <2> QED
    BY <1>1, <1>3, <1>4, <1>6, <2>2, RoundPass
<1> HIDE DEF mark, chk
<1>9. PICK ask \in SUBSET (1 .. p.serial - 1) :
         /\ chk.asked = {rt_[n].pi[k].hdr : k \in ask}
         /\ \A k \in ask : ~rt_[n].pi[k].check /\ ~rt_[n].pi[k].flag
         /\ ask # {} => p.type = DATA
         /\ RoundsMarked(chk.rt, rt_, off, n, p.serial, ask)
  BY <1>7
<1>10. off \in {n - 1, n} /\ RoundsAfter(chk.rt, rt_, off) /\ (off = n => p.type = REDUNDANT)
  BY <1>8 DEF RoundsSettled, Closing
<1>11. off = n => ask = {}
  BY <1>9, <1>10 DEF DATA, REDUNDANT
<1>12. rt_[n].rid = p.rid /\ \A i \in 1 .. Len(rt_) : rt_[i].rid = rt_[n].rid => i = n
  <2>1. \A i \in 1 .. Len(rt_) : rt_[i].rid = b + i
    BY <1>6 DEF Rounds
  <2> QED
    BY <1>1, <1>4, <1>6, <2>1
<1> HIDE DEF off
<1>13. Settling(chk.rt, rt_, link, p, n, off, ask)
  BY <1>1, <1>7, <1>9, <1>10, <1>11, <1>12 DEF Settling
<1>14. off < Len(rt_)
  <2>1. off = n => n # Len(rt_)
    <3>1. (m_roundId - Len(rt_)) + Len(rt_) = m_roundId
      BY <1>1
    <3>2. n = Len(rt_) => p.rid = m_roundId
      BY <1>4, <3>1 DEF b
    <3>3. p.rid < m_roundId => p.rid # m_roundId
      BY <1>1, <1>3 DEF Tag
    <3> QED
      BY <1>3, <1>10, <3>2, <3>3
  <2> QED
    BY <1>1, <1>10, <2>1
<1> QED
  BY <1>3, <1>4, <1>6, <1>9, <1>13, <1>14 DEF HeadSettles, off, b, chk, mark

\* IpForward requests only packets that are lost and were not requested yet.
LEMMA IpForwardAsks ==
  ASSUME IInv, AskInv, IpForward
  PROVE  AskInv'
<1> DEFINE p == Head(link)
           tq == IF rid_ < p.rid THEN <<>> ELSE tq_
           r == Recv(tq, p)
           chk == CheckRoundFecTable(MarkRoundFecTable(rt_, p), p)
<1>1. /\ Idle /\ link # <<>> /\ p.type # NONE /\ link' = Tail(link) /\ rt_' = r.rt
      /\ asked' = [h \in DOMAIN asked |-> asked[h] + (IF h \in r.asked THEN 1 ELSE 0)]
      /\ UNCHANGED <<m_sentdatapkt, m_roundId, m_serial, lost>>
  BY DEF IpForward, encoder
<1>2. r.rt = chk.rt /\ r.asked = chk.asked
  BY SMTT(30) DEF Recv
<1>3. /\ TypeOK /\ TablesCoverPath /\ link \in Seq(Packet) /\ rt_ \in Seq(RoundFecTable)
      /\ m_roundId \in Nat /\ asked \in [1 .. MaxData -> Nat] /\ m_sentdatapkt \in 0 .. MaxData
      /\ Len(rt_) \in Nat
  BY LenProperties DEF IInv, TypeOK
<1> HIDE DEF r, tq
<1>4. PICK n, off, ask : HeadSettles(p, chk, n, off, ask)
  BY <1>1, HeadIsSettled
<1>5. /\ Booked(rt_, link, lost, asked, m_sentdatapkt) /\ InSerialOrder(link, m_roundId, m_serial)
      /\ NextSerial /\ RequestedOnce /\ \A h \in 1 .. MaxData : h > m_sentdatapkt => asked[h] = 0
  BY DEF AskInv
<1> HIDE DEF p, chk
<1>6. /\ Settling(chk.rt, rt_, link, p, n, off, ask)
       /\ chk.asked = {rt_[n].pi[k].hdr : k \in ask} /\ off < Len(rt_)
  BY <1>4 DEF HeadSettles
<1>7. /\ n \in 1 .. Len(rt_) /\ off \in {n - 1, n} /\ RoundsAfter(chk.rt, rt_, off)
       /\ p.serial \in 1 .. Len(rt_[n].pi) /\ ask \in SUBSET (1 .. p.serial - 1)
       /\ \A k \in ask : ~rt_[n].pi[k].check /\ ~rt_[n].pi[k].flag
  BY <1>6 DEF Settling
<1>8. /\ rt_' = chk.rt
       /\ asked' = [h \in 1 .. MaxData |->
                      asked[h] + (IF h \in {rt_[n].pi[k].hdr : k \in ask} THEN 1 ELSE 0)]
  <2>1. DOMAIN asked = 1 .. MaxData
    BY <1>3
  <2> QED
    BY <1>1, <1>2, <1>6, <2>1
<1>9. Booked(chk.rt, Tail(link), lost, asked', m_sentdatapkt)
  <2>1. PICK a2 : a2 = asked'
    OBVIOUS
  <2>2. Counted(a2, asked, rt_, n, ask)
    BY <1>8, <2>1 DEF Counted
  <2>3. Booked(chk.rt, Tail(link), lost, a2, m_sentdatapkt)
    <3>1. PICK c : c = chk.rt
      OBVIOUS
    <3>2. Settling(c, rt_, link, p, n, off, ask)
      BY <1>6, <3>1
    <3>3. /\ asked \in [1 .. MaxData -> Nat] /\ m_sentdatapkt \in 0 .. MaxData
          /\ Booked(rt_, link, lost, asked, m_sentdatapkt)
      BY <1>3, <1>5
    <3>4. Booked(c, Tail(link), lost, a2, m_sentdatapkt)
      BY ONLY <2>2, <3>2, <3>3, SettlingBooked
    <3> QED
      BY <3>1, <3>4
  <2> QED
    BY <2>1, <2>3
<1>10. Booked(rt_, link, lost, asked, m_sentdatapkt)'
  BY <1>1, <1>8, <1>9
<1>11. InSerialOrder(link, m_roundId, m_serial)'
  <2>1. InSerialOrder(Tail(link), m_roundId, m_serial)
    BY <1>1, <1>3, <1>5, SerialOrderTail
  <2> QED
    BY <1>1, <2>1
\* A requested packet.
<1>12. ASSUME NEW h \in 1 .. MaxData, NEW k \in ask, rt_[n].pi[k].hdr = h
       PROVE  asked[h] = 0 /\ h \in LostData /\ h <= m_sentdatapkt
  <2>1. k \in 1 .. Len(rt_[n].pi) /\ ~rt_[n].pi[k].flag /\ h # 0
    <3>1. Len(rt_[n].pi) \in Nat /\ p.serial \in 1 .. Len(rt_[n].pi)
      BY <1>3, <1>7, EntryTyped
    <3> QED
      BY <1>7, <3>1
  <2>2. asked[h] = 0
    BY <1>5, <1>7, <1>12, <2>1 DEF Booked, FlagsTell
  <2>3. Gone(lost, h)
    <3>1. Traced(rt_, link, lost)
      BY <1>5 DEF Booked
    <3> QED
      BY <1>5, <1>6, <1>12, <2>1, <3>1, AskedAreLost
  <2>4. h \in LostData
    BY <2>3 DEF Gone, LostData, LostPackets
  <2>5. h <= m_sentdatapkt
    BY <1>5, <1>7, <1>12, <2>1 DEF Booked, Listed
  <2> QED
    BY <2>2, <2>4, <2>5
<1>13. LostData' = LostData
  BY <1>1 DEF LostData, LostPackets
<1>14. RequestedOnce'
  <2> SUFFICES ASSUME NEW h \in 1 .. MaxData, asked'[h] > 0
               PROVE  asked'[h] = 1 /\ h \in LostData'
    BY DEF RequestedOnce
  <2>1. CASE \E k \in ask : rt_[n].pi[k].hdr = h
    <3>1. asked[h] = 0 /\ h \in LostData
      BY <1>12, <2>1
    <3>2. h \in {rt_[n].pi[k].hdr : k \in ask}
      BY <2>1
    <3>3. asked'[h] = 0 + 1
      BY <1>8, <3>1, <3>2
    <3> QED
      BY <1>13, <3>1, <3>3
  <2>2. CASE ~ \E k \in ask : rt_[n].pi[k].hdr = h
    <3>1. asked[h] \in Nat
      BY <1>3
    <3>2. h \notin {rt_[n].pi[k].hdr : k \in ask}
      BY <2>2
    <3>3. asked'[h] = asked[h] + 0
      BY <1>8, <3>2
    <3>4. asked'[h] = asked[h]
      BY <3>1, <3>3
    <3> QED
      BY <1>5, <1>13, <3>4 DEF RequestedOnce
  <2> QED
    BY <2>1, <2>2
<1>15. (\A h \in 1 .. MaxData : h > m_sentdatapkt => asked[h] = 0)'
  <2> SUFFICES ASSUME NEW h \in 1 .. MaxData, h > m_sentdatapkt
               PROVE  asked'[h] = 0
    BY <1>1
  <2>1. ~ \E k \in ask : rt_[n].pi[k].hdr = h
    <3>1. m_sentdatapkt \in Int /\ ~(h <= m_sentdatapkt)
      BY <1>3
    <3> QED
      BY <1>12, <3>1
  <2>2. h \notin {rt_[n].pi[k].hdr : k \in ask}
    BY <2>1
  <2>3. asked[h] = 0
    BY <1>5
  <2>4. asked'[h] = 0 + 0
    BY <1>8, <2>2, <2>3
  <2> QED
    BY <2>4
<1>16. NextSerial'
  <2>1. Len(chk.rt) = Len(rt_) - off /\ Len(rt_) # 0 /\ off < Len(rt_)
    <3>1. off \in Int /\ Len(rt_) # 0
      BY <1>3, <1>7
    <3>2. Len(chk.rt) = Len(rt_) - off
      BY <1>7 DEF RoundsAfter
    <3> QED
      BY <1>6, <3>1, <3>2
  <2>2. /\ Len(chk.rt) \in 1 .. Len(chk.rt) /\ off + Len(chk.rt) = Len(rt_)
    <3>1. off \in Int
      BY <1>3, <1>7
    <3> QED
      BY <1>3, <2>1, <3>1
  <2>3. Len(chk.rt[Len(chk.rt)].pi) = Len(rt_[off + Len(chk.rt)].pi)
    BY <1>7, <2>2 DEF RoundsAfter, SameList
  <2>4. rt_ # <<>> /\ chk.rt # <<>>
    BY <2>1, <2>2
  <2> QED
    BY <1>1, <1>5, <1>8, <2>2, <2>3, <2>4 DEF NextSerial
<1> QED
  BY <1>10, <1>11, <1>14, <1>15, <1>16 DEF AskInv

\* Every step keeps AskInv.
LEMMA NextAsks ==
  ASSUME IInv, AskInv, [Next]_vars
  PROVE  AskInv'
<1>1. CASE SendData
  BY <1>1, SendDataAsks
<1>2. CASE SendSmall
  BY <1>2, SendSmallAsks
<1>3. CASE SendFecPacket
  BY <1>3, SendFecPacketAsks
<1>4. CASE Lose
  <2>1. lost \subseteq lost' /\ (Head(link).type = DATA => Head(link) \in lost')
    BY <1>4 DEF Lose, DATA, NONE
  <2> QED
    BY <1>4, <2>1, LeavesAsks DEF Lose, decoder
<1>5. CASE IpForwardSmall
  <2>1. lost \subseteq lost' /\ Head(link).type # DATA
    BY <1>5 DEF IpForwardSmall, DATA, NONE
  <2> QED
    BY <1>5, <2>1, LeavesAsks DEF IpForwardSmall
<1>6. CASE IpForward
  BY <1>6, IpForwardAsks
<1>7. CASE UNCHANGED vars
  <2>1. UNCHANGED <<m_serial, m_roundId, m_sentdatapkt, rt_, link, lost, asked>>
    BY <1>7 DEF vars, encoder, decoder
  <2>2. Booked(rt_, link, lost, asked, m_sentdatapkt)'
    BY <2>1 DEF AskInv
  <2>3. InSerialOrder(link, m_roundId, m_serial)' /\ NextSerial'
    BY <2>1 DEF AskInv, NextSerial
  <2>4. RequestedOnce' /\ (\A h \in 1 .. MaxData : h > m_sentdatapkt => asked[h] = 0)'
    BY <2>1 DEF AskInv, RequestedOnce, LostData, LostPackets
  <2> QED
    BY <2>2, <2>3, <2>4 DEF AskInv
<1> QED
  BY <1>1, <1>2, <1>3, <1>4, <1>5, <1>6, <1>7 DEF Next

\* The initial state satisfies it.
LEMMA InitAsks ==
  ASSUME Init
  PROVE  AskInv
<1>1. Len(rt_) = 0 /\ Len(link) = 0 /\ rt_ = <<>> /\ m_serial = 1
  BY DEF Init
<1>2. Booked(rt_, link, lost, asked, m_sentdatapkt) /\ InSerialOrder(link, m_roundId, m_serial)
  BY <1>1 DEF Booked, Listed, Distinct, Traced, FlagsTell, InSerialOrder
<1>3. \A h \in 1 .. MaxData : asked[h] = 0
  BY DEF Init
<1>4. RequestedOnce
  BY <1>3 DEF RequestedOnce
<1> QED
  BY <1>1, <1>2, <1>3, <1>4 DEF AskInv, NextSerial
-----------------------------------------------------------------------------
(* The loss counters *)

\* The packet of entry e, the kth of round rid, as the encoder tagged it.
PacketOf(e, rid, k) ==
  [type |-> IF e.fec THEN REDUNDANT ELSE DATA, serial |-> k, rid |-> rid,
   gid |-> e.gid, hdr |-> e.hdr]

\* Packet x is that of entry k of round i, and the entry is not marked.
OpenAt(rt, x, i, k) ==
  /\ i \in 1 .. Len(rt) /\ k \in 1 .. Len(rt[i].pi)
  /\ ~rt[i].pi[k].check /\ x = PacketOf(rt[i].pi[k], rt[i].rid, k)
Open(rt, x) == \E i \in 1 .. Len(rt) : \E k \in 1 .. Len(rt[i].pi) : OpenAt(rt, x, i, k)

\* Unmarked entries are those of the packets that are lost, but for older
\* rounds, or on path l, each of them one or the other.
LossesOpen(rt, lst) ==
  /\ rt = <<>> => lst = {}
  /\ \A x \in lst : rt[1].rid <= x.rid => Open(rt, x)
PathOpen(rt, l, lst) ==
  \A m \in 1 .. Len(l) : l[m].type # NONE => Open(rt, l[m]) /\ l[m] \notin lst
Carries(l, x) == \E m \in 1 .. Len(l) : l[m] = x
OpenOut(rt, l, lst) ==
  \A i \in 1 .. Len(rt) : \A k \in 1 .. Len(rt[i].pi) :
    ~rt[i].pi[k].check => LET x == PacketOf(rt[i].pi[k], rt[i].rid, k)
                          IN  x \in lst \/ Carries(l, x)
Accounted(rt, l, lst) ==
  LossesOpen(rt, lst) /\ PathOpen(rt, l, lst) /\ OpenOut(rt, l, lst) /\ IsFiniteSet(lst)

LossInv == Accounted(rt_, link, lost) /\ LossesCounted

\* What an open packet says of its place.
LEMMA OpenFields ==
  ASSUME NEW rt, NEW b, Rounds(rt, b), NEW x, NEW i, NEW k, OpenAt(rt, x, i, k)
  PROVE  /\ i \in 1 .. Len(rt) /\ k \in 1 .. Len(rt[i].pi) /\ ~rt[i].pi[k].check
         /\ x.rid = b + i /\ x.rid = rt[i].rid /\ x.serial = k
         /\ x.type = IF rt[i].pi[k].fec THEN REDUNDANT ELSE DATA
         /\ x = PacketOf(rt[i].pi[k], rt[i].rid, k)
<1>1. /\ i \in 1 .. Len(rt) /\ k \in 1 .. Len(rt[i].pi) /\ ~rt[i].pi[k].check
      /\ x = PacketOf(rt[i].pi[k], rt[i].rid, k)
  BY DEF OpenAt
<1>2. rt[i].rid = b + i
  BY <1>1 DEF Rounds
<1>3. /\ x.rid = rt[i].rid /\ x.serial = k
      /\ x.type = IF rt[i].pi[k].fec THEN REDUNDANT ELSE DATA
  BY <1>1 DEF PacketOf
<1> QED
  BY <1>1, <1>2, <1>3

\* An open packet is open at a place, and the other way round.
LEMMA OpenPlace ==
  ASSUME NEW rt, NEW x
  PROVE  Open(rt, x) <=> \E i, k : OpenAt(rt, x, i, k)
BY DEF Open, OpenAt

\* Every open packet is lost or on the path.
LEMMA OpenIsOut ==
  ASSUME NEW rt, NEW l, NEW lst, OpenOut(rt, l, lst),
         NEW x, NEW i, NEW k, OpenAt(rt, x, i, k)
  PROVE  x \in lst \/ Carries(l, x)
BY DEF OpenOut, OpenAt

\* And that is all OpenOut says.
LEMMA OutIsOpen ==
  ASSUME NEW rt, NEW l, NEW lst,
         \A x, i, k : OpenAt(rt, x, i, k) => x \in lst \/ Carries(l, x)
  PROVE  OpenOut(rt, l, lst)
<1> SUFFICES ASSUME NEW i \in 1 .. Len(rt), NEW k \in 1 .. Len(rt[i].pi), ~rt[i].pi[k].check,
                    NEW x, x = PacketOf(rt[i].pi[k], rt[i].rid, k)
             PROVE  x \in lst \/ Carries(l, x)
  BY DEF OpenOut
<1>1. OpenAt(rt, x, i, k)
  BY DEF OpenAt
<1> QED
  BY <1>1
-----------------------------------------------------------------------------
(* The encoder's steps *)

\* The new entry is open, and no other changes.
LEMMA PushOpen ==
  ASSUME NEW rt \in Seq(RoundFecTable), rt # <<>>, NEW e \in PacketInfo, ~e.check,
         NEW r, r = RoundPush(rt, e), NEW n, n = Len(rt), NEW z, z = Len(rt[n].pi) + 1,
         NEW p, p = PacketOf(e, rt[n].rid, z), NEW x, NEW i, NEW k
  PROVE  OpenAt(r, x, i, k) <=> OpenAt(rt, x, i, k) \/ (x = p /\ i = n /\ k = z)
<1>1. /\ Len(r) = n
      /\ \A j \in 1 .. n : r[j].rid = rt[j].rid /\ (j # n => r[j].pi = rt[j].pi)
      /\ r[n].pi = Append(rt[n].pi, e)
  BY PushEntry
<1>2. n \in 1 .. n /\ n \in Nat /\ rt[n].pi \in Seq(PacketInfo) /\ Len(rt[n].pi) \in Nat
  BY LenProperties, EntryTyped
<1>3. /\ Len(r[n].pi) = z /\ r[n].pi[z] = e /\ z \in Nat
      /\ \A j \in 1 .. Len(rt[n].pi) : r[n].pi[j] = rt[n].pi[j]
  BY <1>1, <1>2, AppendProperties
<1>4. CASE i \in 1 .. n /\ i # n
  <2>1. r[i].rid = rt[i].rid /\ r[i].pi = rt[i].pi
    BY <1>1, <1>4
  <2> QED
    BY <1>1, <1>4, <2>1 DEF OpenAt
<1>5. CASE i = n
  <2>1. k \in 1 .. Len(r[n].pi) <=> k \in 1 .. Len(rt[n].pi) \/ k = z
    BY <1>2, <1>3
  <2>2. k \in 1 .. Len(rt[n].pi) => k # z
    BY <1>2
  <2>3. CASE k \in 1 .. Len(rt[n].pi)
    <3>1. r[n].pi[k] = rt[n].pi[k] /\ r[n].rid = rt[n].rid
      BY <1>1, <1>2, <1>3, <2>3
    <3> QED
      BY <1>1, <1>5, <2>1, <2>2, <2>3, <3>1 DEF OpenAt
  <2>4. CASE k = z
    <3>1. r[n].pi[k] = e /\ r[n].rid = rt[n].rid /\ ~(k \in 1 .. Len(rt[n].pi)) /\ n \in 1 .. Len(r)
      BY <1>1, <1>2, <1>3, <2>2, <2>4
    <3> QED
      BY <1>5, <2>1, <2>4, <3>1 DEF OpenAt
  <2>5. CASE ~(k \in 1 .. Len(rt[n].pi)) /\ k # z
    BY <1>5, <2>1, <2>5 DEF OpenAt
  <2> QED
    BY <2>3, <2>4, <2>5
<1>6. CASE ~(i \in 1 .. n)
  BY <1>1, <1>2, <1>6 DEF OpenAt
<1> QED
  BY <1>4, <1>5, <1>6

\* A packet is sent and recorded.
LEMMA PushAccounted ==
  ASSUME NEW rt \in Seq(RoundFecTable), rt # <<>>, NEW b \in Int, Rounds(rt, b),
         NEW e \in PacketInfo, ~e.check,
         NEW l \in Seq(Packet), NEW lst, Accounted(rt, l, lst),
         NEW p \in Packet, p = PacketOf(e, rt[Len(rt)].rid, Len(rt[Len(rt)].pi) + 1)
  PROVE  Accounted(RoundPush(rt, e), Append(l, p), lst)
<1> DEFINE r == RoundPush(rt, e)
           n == Len(rt)
           z == Len(rt[n].pi) + 1
           l2 == Append(l, p)
<1>1. \A x, i, k : OpenAt(r, x, i, k) <=> OpenAt(rt, x, i, k) \/ (x = p /\ i = n /\ k = z)
  BY PushOpen
<1>2. /\ Len(r) = n /\ n \in 1 .. n /\ n \in Nat /\ r[1].rid = rt[1].rid /\ r # <<>>
      /\ Len(rt[n].pi) \in Nat
  <2>1. Len(r) = n /\ \A j \in 1 .. n : r[j].rid = rt[j].rid
    BY PushEntry
  <2>2. n \in 1 .. n /\ 1 \in 1 .. n /\ n \in Nat /\ Len(rt[n].pi) \in Nat
    BY LenProperties, EntryTyped
  <2> HIDE DEF r
  <2> QED
    BY <2>1, <2>2
<1>3. /\ Len(l) \in Nat /\ Len(l2) = Len(l) + 1 /\ l2[Len(l) + 1] = p
      /\ \A m \in 1 .. Len(l) : l2[m] = l[m]
  BY AppendProperties
<1>4. \A m \in 1 .. Len(l2) : m \in 1 .. Len(l) \/ m = Len(l) + 1
  BY <1>3
<1>5. /\ LossesOpen(rt, lst) /\ PathOpen(rt, l, lst) /\ OpenOut(rt, l, lst) /\ IsFiniteSet(lst)
  BY DEF Accounted
<1> HIDE DEF r, l2
<1>6. \A x : Open(rt, x) => Open(r, x)
  BY <1>1, OpenPlace
<1>7. Open(r, p)
  BY <1>1, OpenPlace
<1>8. p \notin lst
  <2>1. p.rid = rt[n].rid /\ p.serial = z
    BY DEF PacketOf
  <2>2. rt[1].rid <= p.rid
    BY <1>2, <2>1 DEF Rounds
  <2> SUFFICES ASSUME p \in lst PROVE FALSE
    OBVIOUS
  <2>3. Open(rt, p)
    BY <1>5, <2>2 DEF LossesOpen
  <2>4. PICK i, k : OpenAt(rt, p, i, k)
    BY <2>3, OpenPlace
  <2>5. i \in 1 .. n /\ k \in 1 .. Len(rt[i].pi) /\ p.rid = b + i /\ p.serial = k
    BY <2>4, OpenFields
  <2>6. p.rid = b + n
    BY <1>2, <2>1 DEF Rounds
  <2>7. i = n
    BY ONLY <1>2, <2>5, <2>6, b \in Int
  <2>8. k \in 1 .. Len(rt[n].pi) /\ k = Len(rt[n].pi) + 1
    BY <2>1, <2>5, <2>7
  <2> QED
    BY ONLY <1>2, <2>8
<1>9. LossesOpen(r, lst)
  BY <1>2, <1>5, <1>6 DEF LossesOpen
<1>10. PathOpen(r, l2, lst)
  <2> SUFFICES ASSUME NEW m \in 1 .. Len(l2), l2[m].type # NONE
               PROVE  Open(r, l2[m]) /\ l2[m] \notin lst
    BY DEF PathOpen
  <2>1. CASE m \in 1 .. Len(l)
    BY <1>3, <1>5, <1>6, <2>1 DEF PathOpen
  <2>2. CASE m = Len(l) + 1
    BY <1>3, <1>7, <1>8, <2>2
  <2> QED
    BY <1>4, <2>1, <2>2
<1>11. OpenOut(r, l2, lst)
  <2>1. \A x : Carries(l, x) => Carries(l2, x)
    <3>1. \A m \in 1 .. Len(l) : m \in 1 .. Len(l2) /\ l2[m] = l[m]
      BY <1>3
    <3> QED
      BY <3>1 DEF Carries
  <2>2. Carries(l2, p)
    <3>1. Len(l) + 1 \in 1 .. Len(l2)
      BY <1>3
    <3> QED
      BY <1>3, <3>1 DEF Carries
  <2>3. \A x, i, k : OpenAt(r, x, i, k) => x \in lst \/ Carries(l2, x)
    BY <1>1, <1>5, <2>1, <2>2, OpenIsOut
  <2> QED
    BY <2>3, OutIsOpen
<1> QED
  BY <1>5, <1>9, <1>10, <1>11 DEF Accounted, r, l2

\* A new round has no open packets, and takes none away.
LEMMA OpenAccounted ==
  ASSUME NEW rt \in Seq(RoundFecTable), NEW rid, NEW size,
         NEW l, NEW lst, Accounted(rt, l, lst)
  PROVE  Accounted(WithRound(rt, rid, size), l, lst)
<1> DEFINE t == [rid |-> rid, n |-> size, pi |-> <<>>]
           r == WithRound(rt, rid, size)
<1>1. r = Append(rt, t) /\ t.pi = <<>>
  BY DEF WithRound
<1> HIDE DEF t, r
<1>2. /\ Len(rt) \in Nat /\ Len(r) = Len(rt) + 1 /\ r[Len(rt) + 1] = t
      /\ \A i \in 1 .. Len(rt) : r[i] = rt[i]
  BY <1>1
<1>3. ASSUME NEW x, NEW i, NEW k
      PROVE  OpenAt(r, x, i, k) <=> OpenAt(rt, x, i, k)
  <2>1. CASE i \in 1 .. Len(rt)
    <3>1. r[i] = rt[i] /\ i \in 1 .. Len(r)
      BY <1>2, <2>1
    <3> QED
      BY <2>1, <3>1 DEF OpenAt
  <2>2. CASE i = Len(rt) + 1
    <3>1. ~(k \in 1 .. Len(r[i].pi))
      BY <1>1, <1>2, <2>2
    <3>2. ~(i \in 1 .. Len(rt))
      BY <1>2, <2>2
    <3> QED
      BY <3>1, <3>2 DEF OpenAt
  <2>3. CASE ~(i \in 1 .. Len(rt)) /\ i # Len(rt) + 1
    <3>1. ~(i \in 1 .. Len(r))
      BY <1>2, <2>3
    <3> QED
      BY <2>3, <3>1 DEF OpenAt
  <2> QED
    BY <2>1, <2>2, <2>3
<1>4. /\ LossesOpen(rt, lst) /\ PathOpen(rt, l, lst) /\ OpenOut(rt, l, lst) /\ IsFiniteSet(lst)
  BY DEF Accounted
<1>5. \A x : Open(rt, x) <=> Open(r, x)
  BY <1>3, OpenPlace
<1>6. LossesOpen(r, lst)
  <2>1. CASE rt = <<>>
    BY <1>4, <2>1 DEF LossesOpen
  <2>2. CASE rt # <<>>
    <3>1. 1 \in 1 .. Len(rt)
      BY <1>2, <2>2
    <3>2. r[1] = rt[1] /\ r # <<>>
      BY <1>2, <3>1
    <3> QED
      BY <1>4, <1>5, <3>2 DEF LossesOpen
  <2> QED
    BY <2>1, <2>2
<1>7. PathOpen(r, l, lst)
  BY <1>4, <1>5 DEF PathOpen
<1>8. OpenOut(r, l, lst)
  <2>1. \A x, i, k : OpenAt(r, x, i, k) => x \in lst \/ Carries(l, x)
    BY <1>3, <1>4, OpenIsOut
  <2> QED
    BY <2>1, OutIsOpen
<1> QED
  BY <1>4, <1>6, <1>7, <1>8 DEF Accounted, r

\* A packet that belongs to no round comes or goes.
LEMMA SmallAccounted ==
  ASSUME NEW rt, NEW b \in Int, Rounds(rt, b), NEW l, NEW l2, NEW lst, Accounted(rt, l, lst),
         \A x : x.type # NONE => (Carries(l2, x) <=> Carries(l, x))
  PROVE  Accounted(rt, l2, lst)
<1>1. /\ LossesOpen(rt, lst) /\ PathOpen(rt, l, lst) /\ OpenOut(rt, l, lst) /\ IsFiniteSet(lst)
  BY DEF Accounted
<1>2. PathOpen(rt, l2, lst)
  <2> SUFFICES ASSUME NEW m \in 1 .. Len(l2), l2[m].type # NONE
               PROVE  Open(rt, l2[m]) /\ l2[m] \notin lst
    BY DEF PathOpen
  <2>1. Carries(l2, l2[m])
    BY DEF Carries
  <2>2. Carries(l, l2[m])
    BY <2>1
  <2>3. PICK j \in 1 .. Len(l) : l[j] = l2[m]
    BY <2>2 DEF Carries
  <2> QED
    BY <1>1, <2>3 DEF PathOpen
<1>3. OpenOut(rt, l2, lst)
  <2>1. ASSUME NEW x, NEW i, NEW k, OpenAt(rt, x, i, k)
        PROVE  x \in lst \/ Carries(l2, x)
    <3>1. x.type # NONE
      <4>1. x.type = IF rt[i].pi[k].fec THEN REDUNDANT ELSE DATA
        BY <2>1, OpenFields
      <4> QED
        BY <4>1 DEF NONE, DATA, REDUNDANT
    <3>2. x \in lst \/ Carries(l, x)
      BY <1>1, <2>1, OpenIsOut
    <3> QED
      BY <3>1, <3>2
  <2> QED
    BY <2>1, OutIsOpen
<1> QED
  BY <1>1, <1>2, <1>3 DEF Accounted

\* The packet at the head of the path is lost.
LEMMA LossAccounted ==
  ASSUME NEW rt, NEW l \in Seq(Packet), l # <<>>, NEW lst, Accounted(rt, l, lst),
         NEW last, NEW s, InSerialOrder(l, last, s), Head(l).type # NONE
  PROVE  Accounted(rt, Tail(l), lst \cup {Head(l)})
<1> DEFINE h == Head(l)
           l2 == Tail(l)
<1>1. /\ LossesOpen(rt, lst) /\ PathOpen(rt, l, lst) /\ OpenOut(rt, l, lst) /\ IsFiniteSet(lst)
  BY DEF Accounted
<1>2. /\ Len(l) \in Nat /\ h = l[1] /\ Len(l2) = Len(l) - 1 /\ 1 \in 1 .. Len(l)
      /\ \A j \in 1 .. Len(l2) : l2[j] = l[j + 1]
  BY HeadTailProperties
<1> HIDE DEF h, l2
<1>3. Open(rt, h)
  BY <1>1, <1>2 DEF PathOpen, h
<1>4. LossesOpen(rt, lst \cup {h})
  <2>1. rt # <<>>
    BY <1>3 DEF Open
  <2> QED
    BY <1>1, <1>3, <2>1 DEF LossesOpen
<1>5. PathOpen(rt, l2, lst \cup {h})
  <2> SUFFICES ASSUME NEW m \in 1 .. Len(l2), l2[m].type # NONE
               PROVE  Open(rt, l2[m]) /\ l2[m] \notin lst /\ l2[m] # h
    BY DEF PathOpen
  <2>1. m + 1 \in 1 .. Len(l) /\ 1 < m + 1 /\ l2[m] = l[m + 1]
    BY <1>2
  <2>2. l[1].rid = l[m + 1].rid => l[1].serial < l[m + 1].serial
    BY <1>2, <2>1 DEF InSerialOrder, h
  <2>3. \A j \in 1 .. Len(l) : l[j].serial \in Nat
    <3>1. \A j \in 1 .. Len(l) : l[j] \in Packet
      BY ElementOfSeq
    <3> QED
      BY <3>1 DEF Packet
  <2>4. l[m + 1] # l[1]
    BY <1>2, <2>1, <2>2, <2>3
  <2> QED
    BY <1>1, <1>2, <2>1, <2>4 DEF PathOpen
<1>6. OpenOut(rt, l2, lst \cup {h})
  <2>1. ASSUME NEW x, Carries(l, x)
        PROVE  x = h \/ Carries(l2, x)
    <3>1. PICK m \in 1 .. Len(l) : l[m] = x
      BY <2>1 DEF Carries
    <3>2. CASE m = 1
      BY <1>2, <3>1, <3>2
    <3>3. CASE m # 1
      <4>1. m - 1 \in 1 .. Len(l2) /\ (m - 1) + 1 = m
        BY <1>2, <3>3
      <4>2. l2[m - 1] = x
        BY <1>2, <3>1, <4>1
      <4> QED
        BY <4>1, <4>2 DEF Carries
    <3> QED
      BY <3>2, <3>3
  <2>2. \A x, i, k : OpenAt(rt, x, i, k) => x \in lst \cup {h} \/ Carries(l2, x)
    BY <1>1, <2>1, OpenIsOut
  <2> QED
    BY <2>2, OutIsOpen
<1>7. IsFiniteSet(lst \cup {h})
  BY <1>1, FS_AddElement
<1> QED
  BY <1>4, <1>5, <1>6, <1>7 DEF Accounted, h, l2
-----------------------------------------------------------------------------
(* The decoder's step *)

\* Behind p, at the head of path l, are the packets of its round and of later
\* ones, and only of later ones if p closes it: of rounds after b + off.
Follow(l, b, off) ==
  \A m \in 1 .. Len(l) : m # 1 /\ l[m].type # NONE => l[m].rid > b + off

\* What is known when the round passes have run for packet p.
Passed(c, rt, l, p, n, off, ask, b, lst) ==
  /\ Settling(c, rt, l, p, n, off, ask) /\ off < Len(rt)
  /\ b \in Int /\ Rounds(rt, b) /\ Follow(l, b, off)
  /\ Accounted(rt, l, lst) /\ lst \subseteq Packet

\* p itself is open, as entry p.serial of round n.
LEMMA HeadOpen ==
  ASSUME NEW c, NEW rt, NEW l, NEW p, NEW n, NEW off, NEW ask, NEW b, NEW lst,
         Passed(c, rt, l, p, n, off, ask, b, lst)
  PROVE  OpenAt(rt, p, n, p.serial) /\ p \notin lst
<1>1. /\ l \in Seq(Packet) /\ Len(l) \in Nat /\ 1 \in 1 .. Len(l) /\ p = l[1]
      /\ n \in 1 .. Len(rt) /\ p.rid = rt[n].rid /\ p.type # NONE /\ b \in Int
      /\ Rounds(rt, b) /\ rt \in Seq(RoundFecTable)
  BY LenProperties, HeadTailProperties DEF Passed, Settling
<1>2. PathOpen(rt, l, lst)
  BY DEF Passed, Accounted
<1>3. Open(rt, p) /\ p \notin lst
  BY <1>1, <1>2 DEF PathOpen
<1>4. PICK i, k : OpenAt(rt, p, i, k)
  BY <1>3, OpenPlace
<1>5. i \in 1 .. Len(rt) /\ p.rid = b + i /\ p.serial = k
  BY <1>1, <1>4, OpenFields
<1>6. i = n
  <2>1. rt[n].rid = b + n /\ Len(rt) \in Nat
    BY <1>1, LenProperties DEF Rounds
  <2>2. b + n = b + i
    BY ONLY <1>1, <1>5, <2>1
  <2>3. b \in Int /\ n \in Int /\ i \in Int
    BY ONLY <1>1, <1>5
  <2> QED
    BY ONLY <2>2, <2>3
<1> QED
  BY <1>3, <1>4, <1>5, <1>6

\* Entry k of round i of c is the one it was, and marked if it is p's.
EntryKept(c, rt, off, i, k, n, serial) ==
  /\ off + i \in 1 .. Len(rt) /\ k \in 1 .. Len(rt[off + i].pi)
  /\ c[i].rid = rt[off + i].rid /\ c[i].pi[k].hdr = rt[off + i].pi[k].hdr
  /\ c[i].pi[k].gid = rt[off + i].pi[k].gid /\ c[i].pi[k].fec = rt[off + i].pi[k].fec
  /\ c[i].pi[k].check <=> (rt[off + i].pi[k].check \/ (off + i = n /\ k = serial))

\* So it is after the round passes.
LEMMA EntryIsKept ==
  ASSUME NEW c, NEW rt, NEW l, NEW p, NEW n, NEW off, NEW ask,
         Settling(c, rt, l, p, n, off, ask),
         NEW i, i \in 1 .. Len(c), NEW k, k \in 1 .. Len(c[i].pi)
  PROVE  EntryKept(c, rt, off, i, k, n, p.serial)
BY SettlingEntry DEF EntryKept

\* The packets that are open then: those that were, of the rounds that are
\* left, but for p.
LEMMA PassedOpen ==
  ASSUME NEW c, NEW rt, NEW l, NEW p, NEW n, NEW off, NEW ask, NEW b, NEW lst,
         Passed(c, rt, l, p, n, off, ask, b, lst), NEW x
  PROVE  Open(c, x) <=> Open(rt, x) /\ x.rid > b + off /\ x # p
<1>1. /\ Settling(c, rt, l, p, n, off, ask) /\ n \in 1 .. Len(rt) /\ off \in {n - 1, n}
      /\ Len(rt) \in Nat /\ b \in Int /\ Rounds(rt, b) /\ Len(c) = Len(rt) - off
  BY LenProperties DEF Passed, Settling, RoundsAfter
<1>2. off \in Nat
  BY <1>1
<1>3. OpenAt(rt, p, n, p.serial)
  BY HeadOpen
<1>4. ASSUME Open(c, x)
      PROVE  Open(rt, x) /\ x.rid > b + off /\ x # p
  <2>1. PICK i, k : OpenAt(c, x, i, k)
    BY <1>4, OpenPlace
  <2>2. /\ i \in 1 .. Len(c) /\ k \in 1 .. Len(c[i].pi) /\ ~c[i].pi[k].check
        /\ x = PacketOf(c[i].pi[k], c[i].rid, k)
    BY <2>1 DEF OpenAt
  <2>3. /\ off + i \in 1 .. Len(rt) /\ k \in 1 .. Len(rt[off + i].pi)
        /\ c[i].rid = rt[off + i].rid /\ c[i].pi[k].hdr = rt[off + i].pi[k].hdr
        /\ c[i].pi[k].gid = rt[off + i].pi[k].gid /\ c[i].pi[k].fec = rt[off + i].pi[k].fec
        /\ c[i].pi[k].check <=> (rt[off + i].pi[k].check \/ (off + i = n /\ k = p.serial))
    <3>1. EntryKept(c, rt, off, i, k, n, p.serial)
      BY <1>1, <2>2, EntryIsKept
    <3> QED
      BY <3>1 DEF EntryKept
  <2>4. x = PacketOf(rt[off + i].pi[k], rt[off + i].rid, k)
    BY <2>2, <2>3 DEF PacketOf
  <2>5. OpenAt(rt, x, off + i, k)
    BY <2>2, <2>3, <2>4 DEF OpenAt
  <2>6. x.rid = b + (off + i) /\ x.serial = k
    BY <1>1, <2>5, OpenFields
  <2>7. x.rid > b + off
    BY ONLY <1>1, <1>2, <2>2, <2>6
  <2>8. x # p
    <3> SUFFICES ASSUME x = p PROVE FALSE
      OBVIOUS
    <3>1. p.rid = b + n
      BY ONLY <1>1, <1>3, OpenFields
    <3>2. k = p.serial /\ b + (off + i) = b + n
      BY <2>6, <3>1
    <3>3. off + i = n
      <4>1. off \in Int /\ i \in Int /\ n \in Int /\ b \in Int
        BY ONLY <1>1, <1>2, <2>2
      <4> QED
        BY ONLY <3>2, <4>1
    <3> QED
      BY <2>2, <2>3, <3>2, <3>3
  <2>9. Open(rt, x)
    BY <2>5, OpenPlace
  <2> QED
    BY <2>7, <2>8, <2>9
<1>5. ASSUME Open(rt, x), x.rid > b + off, x # p
      PROVE  Open(c, x)
  <2>1. PICK j, k : OpenAt(rt, x, j, k)
    BY <1>5, OpenPlace
  <2>2. /\ j \in 1 .. Len(rt) /\ k \in 1 .. Len(rt[j].pi) /\ ~rt[j].pi[k].check
        /\ x.rid = b + j /\ x.serial = k /\ x = PacketOf(rt[j].pi[k], rt[j].rid, k)
    BY <1>1, <2>1, OpenFields
  <2>3. PICK i \in Int : i = j - off
    BY <1>1, <1>2, <2>2
  <2>4. i \in 1 .. Len(c) /\ off + i = j
    <3>1. x.rid > b + off
      BY <1>5
    <3> QED
      BY ONLY <1>1, <1>2, <2>2, <2>3, <3>1
  <2>5. Len(c[i].pi) = Len(rt[j].pi)
    <3>1. SameList(c[i].pi, rt[off + i].pi)
      BY <1>1, <2>4 DEF Settling, RoundsAfter
    <3> QED
      BY <2>4, <3>1 DEF SameList
  <2>6. /\ c[i].rid = rt[off + i].rid /\ c[i].pi[k].hdr = rt[off + i].pi[k].hdr
        /\ c[i].pi[k].gid = rt[off + i].pi[k].gid /\ c[i].pi[k].fec = rt[off + i].pi[k].fec
        /\ c[i].pi[k].check <=> (rt[off + i].pi[k].check \/ (off + i = n /\ k = p.serial))
    <3>1. k \in 1 .. Len(c[i].pi)
      BY <2>2, <2>5
    <3>2. EntryKept(c, rt, off, i, k, n, p.serial)
      BY <1>1, <2>4, <3>1, EntryIsKept
    <3> QED
      BY <3>2 DEF EntryKept
  <2>7. ~(j = n /\ k = p.serial)
    <3>1. p = PacketOf(rt[n].pi[p.serial], rt[n].rid, p.serial)
      BY <1>3 DEF OpenAt
    <3> QED
      BY <1>5, <2>2, <3>1
  <2>8. x = PacketOf(c[i].pi[k], c[i].rid, k)
    BY <2>2, <2>4, <2>6 DEF PacketOf
  <2>9. OpenAt(c, x, i, k)
    BY <2>2, <2>4, <2>5, <2>6, <2>7, <2>8 DEF OpenAt
  <2> QED
    BY <2>9, OpenPlace
<1> QED
  BY <1>4, <1>5

\* What is behind p is not p.
LEMMA BehindHead ==
  ASSUME NEW l \in Seq(Packet), l # <<>>, NEW last, NEW s, InSerialOrder(l, last, s),
         Head(l).type # NONE, NEW m \in 1 .. Len(Tail(l)), Tail(l)[m].type # NONE
  PROVE  m + 1 \in 1 .. Len(l) /\ m + 1 # 1 /\ Tail(l)[m] = l[m + 1] /\ Tail(l)[m] # Head(l)
<1>1. /\ Len(l) \in Nat /\ Head(l) = l[1] /\ Len(Tail(l)) = Len(l) - 1 /\ 1 \in 1 .. Len(l)
      /\ \A j \in 1 .. Len(Tail(l)) : Tail(l)[j] = l[j + 1]
  BY HeadTailProperties
<1>2. m + 1 \in 1 .. Len(l) /\ m + 1 # 1 /\ 1 < m + 1 /\ Tail(l)[m] = l[m + 1]
  BY <1>1
<1>3. l[1].rid = l[m + 1].rid => l[1].serial < l[m + 1].serial
  BY <1>1, <1>2 DEF InSerialOrder
<1>4. l[1].serial \in Nat
  <2>1. l[1] \in Packet
    BY <1>1, ElementOfSeq
  <2> QED
    BY <2>1 DEF Packet
<1>5. l[m + 1] # l[1]
  BY <1>3, <1>4
<1> QED
  BY <1>1, <1>2, <1>5

\* The rounds that go take no packet of the path with them: it is still so.
LEMMA PassedAccounted ==
  ASSUME NEW c, NEW rt, NEW l, NEW p, NEW n, NEW off, NEW ask, NEW b, NEW lst,
         Passed(c, rt, l, p, n, off, ask, b, lst),
         NEW last, NEW s, InSerialOrder(l, last, s)
  PROVE  Accounted(c, Tail(l), lst)
<1>1. /\ LossesOpen(rt, lst) /\ PathOpen(rt, l, lst) /\ OpenOut(rt, l, lst) /\ IsFiniteSet(lst)
  BY DEF Passed, Accounted
<1>2. \A x : Open(c, x) <=> Open(rt, x) /\ x.rid > b + off /\ x # p
  BY PassedOpen
<1>3. OpenAt(rt, p, n, p.serial) /\ p \notin lst
  BY HeadOpen
<1>4. /\ l \in Seq(Packet) /\ l # <<>> /\ p = Head(l) /\ p.type # NONE /\ Len(rt) \in Nat
      /\ n \in 1 .. Len(rt) /\ off \in {n - 1, n} /\ off < Len(rt) /\ Len(c) = Len(rt) - off
      /\ b \in Int /\ \A i \in 1 .. Len(c) : c[i].rid = rt[off + i].rid
  BY LenProperties DEF Passed, Settling, RoundsAfter
<1>5. off \in Nat /\ 1 \in 1 .. Len(c) /\ off + 1 \in 1 .. Len(rt) /\ 1 \in 1 .. Len(rt)
  BY <1>4
<1>6. c[1].rid = b + (off + 1) /\ rt[1].rid = b + 1
  BY <1>4, <1>5 DEF Passed, Rounds
<1>7. LossesOpen(c, lst)
  <2>1. c # <<>>
    BY <1>5
  <2>2. ASSUME NEW x \in lst, c[1].rid <= x.rid
        PROVE  Open(c, x)
    <3>1. x.rid \in Int
      BY DEF Passed, Packet
    <3>2. rt[1].rid <= x.rid /\ x.rid > b + off
      BY ONLY <1>4, <1>5, <1>6, <2>2, <3>1
    <3> QED
      BY <1>1, <1>2, <1>3, <3>2 DEF LossesOpen
  <2> QED
    BY <2>1, <2>2 DEF LossesOpen
<1>8. PathOpen(c, Tail(l), lst)
  <2> SUFFICES ASSUME NEW m \in 1 .. Len(Tail(l)), Tail(l)[m].type # NONE
               PROVE  Open(c, Tail(l)[m]) /\ Tail(l)[m] \notin lst
    BY DEF PathOpen
  <2>1. m + 1 \in 1 .. Len(l) /\ m + 1 # 1 /\ Tail(l)[m] = l[m + 1] /\ Tail(l)[m] # p
    BY <1>4, BehindHead
  <2>2. l[m + 1].rid > b + off
    BY <2>1 DEF Passed, Follow
  <2>3. Open(rt, l[m + 1]) /\ l[m + 1] \notin lst
    BY <1>1, <2>1 DEF PathOpen
  <2> QED
    BY <1>2, <2>1, <2>2, <2>3
<1>9. OpenOut(c, Tail(l), lst)
  <2>1. ASSUME NEW x, NEW i, NEW k, OpenAt(c, x, i, k)
        PROVE  x \in lst \/ Carries(Tail(l), x)
    <3>1. Open(c, x)
      BY <2>1, OpenPlace
    <3>2. Open(rt, x) /\ x # p
      BY <1>2, <3>1
    <3>3. x \in lst \/ Carries(l, x)
      BY <1>1, <3>2, OpenPlace, OpenIsOut
    <3>4. ASSUME Carries(l, x) PROVE Carries(Tail(l), x)
      <4>1. PICK m \in 1 .. Len(l) : l[m] = x
        BY <3>4 DEF Carries
      <4>2. /\ Len(l) \in Nat /\ p = l[1] /\ Len(Tail(l)) = Len(l) - 1
            /\ \A j \in 1 .. Len(Tail(l)) : Tail(l)[j] = l[j + 1]
        BY <1>4, HeadTailProperties
      <4>3. m # 1
        BY <3>2, <4>1, <4>2
      <4>4. m - 1 \in 1 .. Len(Tail(l)) /\ (m - 1) + 1 = m
        BY ONLY <4>1, <4>2, <4>3
      <4>5. Tail(l)[m - 1] = x
        BY <4>1, <4>2, <4>4
      <4> QED
        BY <4>4, <4>5 DEF Carries
    <3> QED
      BY <3>3, <3>4
  <2> QED
    BY <2>1, OutIsOpen
<1> QED
  BY <1>1, <1>7, <1>8, <1>9 DEF Accounted
-----------------------------------------------------------------------------
(* What PrintRoundFecTable counts when rounds are popped *)

\* Closed returns the rounds that are popped, with p marked.
LEMMA ClosedRounds ==
  ASSUME NEW rt \in Seq(RoundFecTable), NEW b \in Int, NEW p, Tag(p),
         Rounds(rt, b), NEW n \in 1 .. Len(rt), p.rid = b + n, RoundHas(rt[n], p),
         Serialled(rt[n].pi), NEW off, off = IF Closing(rt[n], p) THEN n ELSE n - 1
  PROVE  ClosedAs(Closed(rt, p), rt, off, n, p.serial)
<1>1. PosInRound(rt[n].pi, p) = p.serial
  BY MarkRoundMarks
<1> QED
  BY <1>1, ClosedAt

\* Lost packets of rounds below rid.
LostBelow(lst, type, rid) == {x \in lst : x.type = type /\ x.rid < rid}

\* The two counters, of rounds that are gone from rt.
CountedLosses(rt, lst, data, fec) ==
  /\ data = IF rt = <<>> THEN 0 ELSE Cardinality(LostBelow(lst, DATA, rt[1].rid))
  /\ fec = IF rt = <<>> THEN 0 ELSE Cardinality(LostBelow(lst, REDUNDANT, rt[1].rid))

\* LossesCounted, as a predicate on the tables.
LEMMA CountedAsLosses ==
  LossesCounted <=> CountedLosses(rt_, lost, m_lostdatapkt, m_lostfecpkt)
<1>1. ASSUME NEW type
      PROVE  Cardinality({p \in LostPackets(type) : rt_ # <<>> /\ p.rid < rt_[1].rid}) =
               IF rt_ = <<>> THEN 0 ELSE Cardinality(LostBelow(lost, type, rt_[1].rid))
  <2>1. CASE rt_ = <<>>
    <3>1. {p \in LostPackets(type) : rt_ # <<>> /\ p.rid < rt_[1].rid} = {}
      BY <2>1
    <3> QED
      BY <2>1, <3>1, FS_EmptySet
  <2>2. CASE rt_ # <<>>
    <3>1. {p \in LostPackets(type) : rt_ # <<>> /\ p.rid < rt_[1].rid} =
            LostBelow(lost, type, rt_[1].rid)
      BY <2>2 DEF LostPackets, LostBelow
    <3> QED
      BY <2>2, <3>1
  <2> QED
    BY <2>1, <2>2
<1> QED
  BY <1>1 DEF LossesCounted, CountedLosses

\* The losses of the rounds that are popped, one for each entry counted.
LEMMA PoppedLosses ==
  ASSUME NEW c, NEW rt, NEW l, NEW p, NEW n, NEW off, NEW ask, NEW b, NEW lst,
         Passed(c, rt, l, p, n, off, ask, b, lst),
         NEW cl, ClosedAs(cl, rt, off, n, p.serial),
         NEW fec \in BOOLEAN, NEW type, type = IF fec THEN REDUNDANT ELSE DATA
  PROVE  LET D == {x \in lst : x.type = type /\ x.rid >= b + 1 /\ x.rid <= b + off}
         IN  IsFiniteSet(D) /\ Cardinality(D) = Cardinality(PrintRoundFecTable(cl, fec))
<1> DEFINE D == {x \in lst : x.type = type /\ x.rid >= b + 1 /\ x.rid <= b + off}
           P == PrintRoundFecTable(cl, fec)
           f == [x \in D |-> <<x.rid - b, x.serial>>]
<1>1. /\ LossesOpen(rt, lst) /\ PathOpen(rt, l, lst) /\ OpenOut(rt, l, lst) /\ IsFiniteSet(lst)
      /\ Rounds(rt, b) /\ b \in Int /\ lst \subseteq Packet
      /\ Settling(c, rt, l, p, n, off, ask)
  BY DEF Passed, Accounted
<1>2. /\ rt \in Seq(RoundFecTable) /\ Len(rt) \in Nat /\ n \in 1 .. Len(rt) /\ off \in {n - 1, n}
      /\ l \in Seq(Packet) /\ p = Head(l) /\ l # <<>>
  BY <1>1, LenProperties DEF Settling
<1>3. off \in Nat /\ \A i \in 1 .. off : i \in 1 .. Len(rt)
  BY <1>2
<1>4. OpenAt(rt, p, n, p.serial) /\ p \notin lst
  BY HeadOpen
<1>5. rt[1].rid = b + 1
  BY <1>1, <1>2 DEF Rounds
<1>6. IsFiniteSet(D)
  BY <1>1, FS_Subset
\* A lost packet of these rounds has its place.
<1>7. ASSUME NEW x \in D
      PROVE  \E i \in 1 .. off : \E k \in 1 .. Len(rt[i].pi) :
               /\ x.rid = b + i /\ x.serial = k /\ rt[i].pi[k].fec = fec /\ ~rt[i].pi[k].check
               /\ ~(i = n /\ k = p.serial) /\ x = PacketOf(rt[i].pi[k], rt[i].rid, k)
  <2>1. x \in lst /\ x.type = type /\ x.rid >= b + 1 /\ x.rid <= b + off
    OBVIOUS
  <2>2. Open(rt, x)
    <3>1. x.rid \in Int
      BY <1>1, <2>1 DEF Packet
    <3>2. rt[1].rid <= x.rid
      BY <1>1, <1>5, <2>1, <3>1
    <3> QED
      BY <1>1, <2>1, <3>2 DEF LossesOpen
  <2>3. PICK i, k : OpenAt(rt, x, i, k)
    BY <2>2, OpenPlace
  <2>4. /\ i \in 1 .. Len(rt) /\ k \in 1 .. Len(rt[i].pi) /\ ~rt[i].pi[k].check
        /\ x.rid = b + i /\ x.serial = k
        /\ x.type = IF rt[i].pi[k].fec THEN REDUNDANT ELSE DATA
        /\ x = PacketOf(rt[i].pi[k], rt[i].rid, k)
    BY <1>1, <2>3, OpenFields
  <2>5. i \in 1 .. off
    BY ONLY <1>1, <1>2, <1>3, <2>1, <2>4
  <2>6. rt[i].pi[k].fec = fec
    <3>1. rt[i].pi[k].fec \in BOOLEAN
      <4>1. rt[i].pi[k] \in PacketInfo
        BY <1>2, <2>4, EntryTyped
      <4> QED
        BY <4>1 DEF PacketInfo
    <3> QED
      BY <2>1, <2>4, <3>1 DEF DATA, REDUNDANT
  <2>7. ~(i = n /\ k = p.serial)
    <3>1. p = PacketOf(rt[n].pi[p.serial], rt[n].rid, p.serial)
      BY <1>4 DEF OpenAt
    <3> QED
      BY <1>4, <2>1, <2>4, <3>1
  <2> QED
    BY <2>4, <2>5, <2>6, <2>7
\* An entry that is counted is that of a lost packet.
<1>8. ASSUME NEW i \in 1 .. off, NEW k \in 1 .. Len(rt[i].pi),
             rt[i].pi[k].fec = fec, ~rt[i].pi[k].check, ~(i = n /\ k = p.serial)
      PROVE  \E x \in D : x.rid = b + i /\ x.serial = k
  <2>1. PICK x : x = PacketOf(rt[i].pi[k], rt[i].rid, k)
    OBVIOUS
  <2>2. i \in 1 .. Len(rt)
    BY <1>3
  <2>3. OpenAt(rt, x, i, k)
    BY <1>8, <2>1, <2>2 DEF OpenAt
  <2>4. x.rid = b + i /\ x.serial = k /\ x.type = type
    <3>1. x.rid = b + i /\ x.serial = k /\ x.type = IF rt[i].pi[k].fec THEN REDUNDANT ELSE DATA
      BY <1>1, <2>3, OpenFields
    <3> QED
      BY <1>8, <3>1
  <2>5. x \in lst
    <3>1. x \in lst \/ Carries(l, x)
      BY <1>1, <2>3, OpenIsOut
    <3>2. ASSUME Carries(l, x) PROVE FALSE
      <4>1. PICK m \in 1 .. Len(l) : l[m] = x
        BY <3>2 DEF Carries
      <4>2. CASE m = 1
        <5>1. x = p
          BY <1>2, <4>1, <4>2, HeadTailProperties
        <5>2. p.rid = b + n /\ p.serial = p.serial
          BY <1>1, <1>4, OpenFields
        <5>3. i = n
          BY <1>1, <1>2, <2>2, <2>4, <5>1, <5>2
        <5> QED
          BY <1>8, <2>4, <5>1, <5>3
      <4>3. CASE m # 1
        <5>1. x.type # NONE
          BY <2>4 DEF NONE, DATA, REDUNDANT
        <5>2. x.rid > b + off
          BY <4>1, <4>3, <5>1 DEF Passed, Follow
        <5> QED
          BY <1>1, <1>3, <2>4, <5>2
      <4> QED
        BY <4>2, <4>3
    <3> QED
      BY <3>1, <3>2
  <2>6. x.rid >= b + 1 /\ x.rid <= b + off
    BY <1>1, <1>3, <2>4
  <2> QED
    BY <2>4, <2>5, <2>6
<1> HIDE DEF D
<1>9. \A y : y \in P <=> \E i \in 1 .. off : \E k \in 1 .. Len(rt[i].pi) :
               /\ y = <<i, k>> /\ rt[i].pi[k].fec = fec /\ ~rt[i].pi[k].check
               /\ ~(i = n /\ k = p.serial)
  BY PrintCounts
<1> HIDE DEF P
<1>10. \A i \in 1 .. off : (b + i) - b = i
  BY <1>1
<1>11. f \in [D -> P]
  <2> SUFFICES ASSUME NEW x \in D PROVE <<x.rid - b, x.serial>> \in P
    OBVIOUS
  <2>1. PICK i, k :
          /\ i \in 1 .. off /\ k \in 1 .. Len(rt[i].pi)
          /\ x.rid = b + i /\ x.serial = k /\ rt[i].pi[k].fec = fec /\ ~rt[i].pi[k].check
          /\ ~(i = n /\ k = p.serial)
    BY <1>7
  <2>2. <<x.rid - b, x.serial>> = <<i, k>>
    BY <1>10, <2>1
  <2> QED
    BY <1>9, <2>1, <2>2
<1>12. \A x, y \in D : f[x] = f[y] => x = y
  <2> SUFFICES ASSUME NEW x \in D, NEW y \in D, f[x] = f[y] PROVE x = y
    OBVIOUS
  <2>1. x.rid - b = y.rid - b /\ x.serial = y.serial
    <3>1. <<x.rid - b, x.serial>> = <<y.rid - b, y.serial>>
      OBVIOUS
    <3> QED
      BY <3>1
  <2>2. PICK i, k :
          /\ i \in 1 .. off /\ k \in 1 .. Len(rt[i].pi)
          /\ x.rid = b + i /\ x.serial = k /\ x = PacketOf(rt[i].pi[k], rt[i].rid, k)
    BY <1>7
  <2>3. PICK j, m :
          /\ j \in 1 .. off /\ m \in 1 .. Len(rt[j].pi)
          /\ y.rid = b + j /\ y.serial = m /\ y = PacketOf(rt[j].pi[m], rt[j].rid, m)
    BY <1>7
  <2>4. i = j /\ k = m
    BY <1>10, <2>1, <2>2, <2>3
  <2> QED
    BY <2>2, <2>3, <2>4
<1>13. \A y \in P : \E x \in D : f[x] = y
  <2> SUFFICES ASSUME NEW y \in P PROVE \E x \in D : f[x] = y
    OBVIOUS
  <2>1. PICK i, k :
          /\ i \in 1 .. off /\ k \in 1 .. Len(rt[i].pi)
          /\ y = <<i, k>> /\ rt[i].pi[k].fec = fec /\ ~rt[i].pi[k].check
          /\ ~(i = n /\ k = p.serial)
    BY <1>9
  <2>2. PICK x \in D : x.rid = b + i /\ x.serial = k
    BY <1>8, <2>1
  <2>3. f[x] = <<i, k>>
    <3>1. f[x] = <<x.rid - b, x.serial>>
      OBVIOUS
    <3>2. x.rid - b = i /\ x.serial = k
      BY <1>10, <2>1, <2>2
    <3> HIDE DEF f
    <3> QED
      BY <3>1, <3>2
  <2> QED
    BY <2>1, <2>3
<1> HIDE DEF f
<1>14. ExistsBijection(D, P)
  <2>1. f \in Bijection(D, P)
    BY <1>11, <1>12, <1>13 DEF Bijection, Injection, Surjection, IsInjective
  <2> QED
    BY <2>1 DEF ExistsBijection
<1>15. Cardinality(P) = Cardinality(D)
  BY <1>6, <1>14, FS_Bijection
<1> QED
  BY <1>6, <1>15 DEF D, P

\* The losses counted grow by these.
LEMMA PassedCount ==
  ASSUME NEW c, NEW rt, NEW l, NEW p, NEW n, NEW off, NEW ask, NEW b, NEW lst,
         Passed(c, rt, l, p, n, off, ask, b, lst),
         NEW cl, ClosedAs(cl, rt, off, n, p.serial),
         NEW fec \in BOOLEAN, NEW type, type = IF fec THEN REDUNDANT ELSE DATA
  PROVE  /\ c # <<>> /\ rt # <<>>
         /\ Cardinality(LostBelow(lst, type, c[1].rid)) =
              Cardinality(LostBelow(lst, type, rt[1].rid)) + Cardinality(PrintRoundFecTable(cl, fec))
<1> DEFINE D == {x \in lst : x.type = type /\ x.rid >= b + 1 /\ x.rid <= b + off}
           A == LostBelow(lst, type, rt[1].rid)
           B == LostBelow(lst, type, c[1].rid)
<1>1. /\ IsFiniteSet(lst) /\ Rounds(rt, b) /\ b \in Int /\ lst \subseteq Packet
      /\ Settling(c, rt, l, p, n, off, ask) /\ off < Len(rt)
  BY DEF Passed, Accounted
<1>2. /\ rt \in Seq(RoundFecTable) /\ Len(rt) \in Nat /\ n \in 1 .. Len(rt) /\ off \in {n - 1, n}
      /\ Len(c) = Len(rt) - off /\ \A i \in 1 .. Len(c) : c[i].rid = rt[off + i].rid
  BY <1>1, LenProperties DEF Settling, RoundsAfter
<1>3. off \in Nat /\ 1 \in 1 .. Len(c) /\ off + 1 \in 1 .. Len(rt) /\ 1 \in 1 .. Len(rt)
  BY <1>1, <1>2
<1>4. c[1].rid = b + (off + 1) /\ rt[1].rid = b + 1
  BY <1>1, <1>2, <1>3 DEF Rounds
<1>5. IsFiniteSet(D) /\ Cardinality(D) = Cardinality(PrintRoundFecTable(cl, fec))
  BY PoppedLosses
<1>6. B = A \cup D /\ A \cap D = {}
  <2>1. \A x \in lst : x.rid \in Int
    BY <1>1 DEF Packet
  <2>2. \A r \in Int : /\ r < b + (off + 1) <=> r < b + 1 \/ (r >= b + 1 /\ r <= b + off)
                       /\ ~(r < b + 1 /\ r >= b + 1)
    BY ONLY <1>1, <1>3
  <2> QED
    BY <1>4, <2>1, <2>2 DEF LostBelow
<1>7. IsFiniteSet(A)
  BY <1>1, FS_Subset DEF LostBelow
<1> HIDE DEF A, B, D
<1>8. Cardinality(B) = Cardinality(A) + Cardinality(D) - Cardinality(A \cap D)
  BY <1>5, <1>6, <1>7, FS_Union
<1>9. Cardinality(A \cap D) = 0 /\ Cardinality(A) \in Nat /\ Cardinality(D) \in Nat
  BY <1>5, <1>6, <1>7, FS_EmptySet, FS_CardinalityType
<1>10. Cardinality(B) = Cardinality(A) + Cardinality(D)
  BY <1>8, <1>9
<1>11. c # <<>> /\ rt # <<>>
  BY <1>3
<1> QED
  BY <1>5, <1>10, <1>11 DEF A, B
-----------------------------------------------------------------------------
(* LossInv is inductive, given the other two invariants *)

\* The invariant, in terms of predicates on the tables.
LEMMA LossParts ==
  LossInv <=> /\ Accounted(rt_, link, lost)
              /\ CountedLosses(rt_, lost, m_lostdatapkt, m_lostfecpkt)
BY CountedAsLosses DEF LossInv

\* The same after a step.
LEMMA LossPartsNext ==
  ASSUME Accounted(rt_', link', lost'),
         CountedLosses(rt_', lost', m_lostdatapkt', m_lostfecpkt')
  PROVE  LossInv'
<1>1. (LossInv <=> /\ Accounted(rt_, link, lost)
                   /\ CountedLosses(rt_, lost, m_lostdatapkt, m_lostfecpkt))'
  BY LossParts, PTL
<1> QED
  BY <1>1

\* A pushed entry leaves the first round where it is.
LEMMA PushFirst ==
  ASSUME NEW rt \in Seq(RoundFecTable), rt # <<>>, NEW e \in PacketInfo
  PROVE  RoundPush(rt, e) # <<>> /\ RoundPush(rt, e)[1].rid = rt[1].rid
<1>1. /\ Len(RoundPush(rt, e)) = Len(rt)
      /\ \A i \in 1 .. Len(rt) : RoundPush(rt, e)[i].rid = rt[i].rid
  BY PushEntry
<1>2. 1 \in 1 .. Len(rt) /\ Len(rt) # 0
  BY LenProperties
<1> QED
  BY <1>1, <1>2

\* The counters stay right while the first round stays, or is the first ever.
LEMMA CountKept ==
  ASSUME NEW rt, NEW lst, NEW d, NEW f, CountedLosses(rt, lst, d, f), NEW l, Accounted(rt, l, lst),
         NEW r, r # <<>>, rt # <<>> => r[1].rid = rt[1].rid
  PROVE  CountedLosses(r, lst, d, f)
<1>1. CASE rt = <<>>
  <2>1. lst = {} /\ d = 0 /\ f = 0
    BY <1>1 DEF Accounted, LossesOpen, CountedLosses
  <2>2. \A type, rid : LostBelow(lst, type, rid) = {}
    BY <2>1 DEF LostBelow
  <2> QED
    BY <2>1, <2>2, FS_EmptySet DEF CountedLosses
<1>2. CASE rt # <<>>
  BY <1>2 DEF CountedLosses
<1> QED
  BY <1>1, <1>2

\* The opened tables, seen from this invariant.
LEMMA OpenedAccounted ==
  ASSUME IInv, LossInv, NEW rt, rt = IF init_ THEN WithRound(rt_, m_roundId, NGroups) ELSE rt_
  PROVE  /\ Accounted(rt, link, lost) /\ rt # <<>> /\ rt \in Seq(RoundFecTable)
         /\ m_roundId - Len(rt) \in Int /\ Rounds(rt, m_roundId - Len(rt))
         /\ CountedLosses(rt, lost, m_lostdatapkt, m_lostfecpkt)
<1>1. rt \in Seq(RoundFecTable) /\ Ending(rt, m_roundId)
  BY OpenedTables
<1>2. rt_ \in Seq(RoundFecTable) /\ Accounted(rt_, link, lost) /\ m_roundId \in Nat
      /\ CountedLosses(rt_, lost, m_lostdatapkt, m_lostfecpkt)
  BY LossParts DEF IInv, TypeOK
<1>3. rt # <<>> /\ Rounds(rt, m_roundId - Len(rt)) /\ m_roundId - Len(rt) \in Int
  BY <1>1, <1>2, LenProperties DEF Ending
<1>4. CASE init_
  <2>1. rt = WithRound(rt_, m_roundId, NGroups) /\ rt_ = <<>>
    BY <1>4 DEF IInv, TablesCoverPath, Consecutive
  <2>2. Accounted(rt, link, lost)
    BY <1>2, <2>1, OpenAccounted
  <2>3. CountedLosses(rt, lost, m_lostdatapkt, m_lostfecpkt)
    BY <1>2, <1>3, <2>1, CountKept
  <2> QED
    BY <1>1, <1>3, <2>2, <2>3
<1>5. CASE ~init_
  <2>1. rt = rt_
    BY <1>5
  <2> QED
    BY <1>1, <1>2, <1>3, <2>1
<1> QED
  BY <1>4, <1>5

\* SendData keeps the invariant.
LEMMA SendDataCounts ==
  ASSUME IInv, AskInv, LossInv, SendData
  PROVE  LossInv'
<1> DEFINE hdr == m_sentdatapkt + 1
           rt  == IF init_ THEN WithRound(rt_, m_roundId, NGroups) ELSE rt_
           e   == Entry(FALSE, hdr)
           p   == Tagged(DATA, hdr)
<1>1. /\ rt_' = RoundPush(rt, e) /\ link' = Append(link, p)
      /\ UNCHANGED <<lost, m_lostdatapkt, m_lostfecpkt>>
  BY DEF SendData, CreateDataPacket, decoder, counters
<1>2. TypeOK /\ hdr \in Nat /\ link \in Seq(Packet)
  BY BoundsAssumption DEF IInv, TypeOK
<1>3. p \in Packet /\ e \in PacketInfo
  BY <1>2, MadeTypes
<1>4. /\ rt[Len(rt)].rid = m_roundId /\ m_serial = Len(rt[Len(rt)].pi) + 1
  BY OpenedRound
<1>5. /\ Accounted(rt, link, lost) /\ rt # <<>> /\ rt \in Seq(RoundFecTable)
      /\ m_roundId - Len(rt) \in Int /\ Rounds(rt, m_roundId - Len(rt))
      /\ CountedLosses(rt, lost, m_lostdatapkt, m_lostfecpkt)
  BY OpenedAccounted
<1>6. ~e.check /\ p = PacketOf(e, m_roundId, m_serial)
  BY DEF Tagged, Entry, PacketOf
<1> HIDE DEF rt, e, p, hdr
<1>7. Accounted(RoundPush(rt, e), Append(link, p), lost)
  <2>1. p = PacketOf(e, rt[Len(rt)].rid, Len(rt[Len(rt)].pi) + 1)
    BY <1>4, <1>6
  <2> QED
    BY <1>2, <1>3, <1>5, <1>6, <2>1, PushAccounted
<1>8. CountedLosses(RoundPush(rt, e), lost, m_lostdatapkt, m_lostfecpkt)
  BY <1>3, <1>5, PushFirst, CountKept
<1> QED
  BY <1>1, <1>7, <1>8, LossPartsNext

\* SendSmall keeps it.
LEMMA SendSmallCounts ==
  ASSUME IInv, LossInv, SendSmall
  PROVE  LossInv'
<1> DEFINE s == [type |-> NONE, serial |-> 0, rid |-> 0, gid |-> 0, hdr |-> 0]
<1>1. /\ link' = Append(link, s) /\ UNCHANGED <<lost, m_lostdatapkt, m_lostfecpkt>>
      /\ rt_' = IF init_ THEN WithRound(rt_, m_roundId, NGroups) ELSE rt_
  BY DEF SendSmall, decoder, counters
<1>2. s \in Packet /\ s.type = NONE
  BY NGroupsAssumption DEF Packet, Groups
<1>3. link \in Seq(Packet)
  BY DEF IInv, TypeOK
<1>4. /\ Accounted(rt_', link, lost)
      /\ m_roundId - Len(rt_') \in Int /\ Rounds(rt_', m_roundId - Len(rt_'))
      /\ CountedLosses(rt_', lost, m_lostdatapkt, m_lostfecpkt)
  BY <1>1, OpenedAccounted
<1> HIDE DEF s
<1>5. ASSUME NEW x, x.type # NONE PROVE Carries(link', x) <=> Carries(link, x)
  <2>1. /\ Len(link) \in Nat /\ Len(link') = Len(link) + 1 /\ link'[Len(link) + 1] = s
        /\ \A m \in 1 .. Len(link) : link'[m] = link[m]
    BY <1>1, <1>2, <1>3, AppendProperties
  <2>2. /\ \A m \in 1 .. Len(link') : m \in 1 .. Len(link) \/ m = Len(link) + 1
        /\ \A m \in 1 .. Len(link) : m \in 1 .. Len(link')
    BY <2>1
  <2> QED
    BY <1>2, <1>5, <2>1, <2>2 DEF Carries
<1>6. Accounted(rt_', link', lost)
  BY <1>4, <1>5, SmallAccounted
<1> QED
  BY <1>1, <1>4, <1>6, LossPartsNext

\* SendFecPacket keeps it.
LEMMA SendFecPacketCounts ==
  ASSUME IInv, AskInv, LossInv, SendFecPacket
  PROVE  LossInv'
<1> DEFINE e   == Entry(TRUE, 0)
           p   == Tagged(REDUNDANT, 0)
           rt  == RoundPush(rt_, e)
<1>1. /\ link' = Append(link, p)
      /\ rt_' = WithRound(rt, m_roundId', NGroups) \/ rt_' = rt
      /\ fc_ = 0 /\ UNCHANGED <<lost, m_lostdatapkt, m_lostfecpkt>>
  BY DEF SendFecPacket, CreateFecPacket, RedundancyControl, Idle, decoder, counters
<1>2. TypeOK /\ link \in Seq(Packet) /\ ~init_
  BY <1>1 DEF IInv, TypeOK, TablesCoverPath, Burst
<1>3. p \in Packet /\ e \in PacketInfo
  BY <1>2, MadeTypes
<1>4. /\ rt_[Len(rt_)].rid = m_roundId /\ m_serial = Len(rt_[Len(rt_)].pi) + 1
      /\ Accounted(rt_, link, lost) /\ rt_ # <<>> /\ rt_ \in Seq(RoundFecTable)
      /\ m_roundId - Len(rt_) \in Int /\ Rounds(rt_, m_roundId - Len(rt_))
      /\ CountedLosses(rt_, lost, m_lostdatapkt, m_lostfecpkt)
  <2>1. rt_ = IF init_ THEN WithRound(rt_, m_roundId, NGroups) ELSE rt_
    BY <1>2
  <2> QED
    BY <2>1, OpenedRound, OpenedAccounted
<1>5. ~e.check /\ p = PacketOf(e, m_roundId, m_serial)
  BY DEF Tagged, Entry, PacketOf
<1> HIDE DEF e, p
<1>6. Accounted(rt, link', lost)
  <2>1. p = PacketOf(e, rt_[Len(rt_)].rid, Len(rt_[Len(rt_)].pi) + 1)
    BY <1>4, <1>5
  <2> QED
    BY <1>1, <1>2, <1>3, <1>4, <1>5, <2>1, PushAccounted
<1>7. /\ CountedLosses(rt, lost, m_lostdatapkt, m_lostfecpkt)
      /\ rt \in Seq(RoundFecTable) /\ rt # <<>>
  <2>1. rt # <<>> /\ rt[1].rid = rt_[1].rid
    BY <1>3, <1>4, PushFirst
  <2>2. RoundPush(rt_, e) \in Seq(RoundFecTable)
    BY <1>3, <1>4, RoundPushPass
  <2> QED
    BY <1>4, <2>1, <2>2, CountKept
<1> HIDE DEF rt
<1>8. CASE rt_' = rt
  BY <1>1, <1>6, <1>7, <1>8, LossPartsNext
<1>9. CASE rt_' = WithRound(rt, m_roundId', NGroups)
  <2>1. Accounted(rt_', link', lost)
    BY <1>6, <1>7, <1>9, OpenAccounted
  <2>2. rt_' # <<>> /\ rt_'[1].rid = rt[1].rid
    <3>1. Len(rt) \in Nat /\ 1 \in 1 .. Len(rt)
      BY <1>7
    <3> QED
      BY <1>7, <1>9, <3>1 DEF WithRound
  <2>3. CountedLosses(rt_', lost, m_lostdatapkt, m_lostfecpkt)
    BY <1>6, <1>7, <2>2, CountKept
  <2> QED
    BY <1>1, <2>1, <2>3, LossPartsNext
<1> QED
  BY <1>1, <1>8, <1>9

\* The table's bounds, before the first round too.
LEMMA RoundsNow ==
  ASSUME IInv
  PROVE  /\ link \in Seq(Packet) /\ rt_ \in Seq(RoundFecTable)
         /\ m_roundId - Len(rt_) \in Int /\ Rounds(rt_, m_roundId - Len(rt_))
BY LenProperties DEF IInv, TypeOK, TablesCoverPath, Consecutive

\* IpForwardSmall keeps it.
LEMMA IpForwardSmallCounts ==
  ASSUME IInv, LossInv, link # <<>>, Head(link).type = NONE, link' = Tail(link),
         UNCHANGED <<rt_, lost, m_lostdatapkt, m_lostfecpkt>>
  PROVE  LossInv'
<1>1. /\ Accounted(rt_, link, lost)
      /\ CountedLosses(rt_, lost, m_lostdatapkt, m_lostfecpkt)
  BY LossParts
<1>2. /\ link \in Seq(Packet) /\ m_roundId - Len(rt_) \in Int /\ Rounds(rt_, m_roundId - Len(rt_))
  BY RoundsNow
<1>3. ASSUME NEW x, x.type # NONE PROVE Carries(link', x) <=> Carries(link, x)
  <2>1. /\ Len(link) \in Nat /\ Head(link) = link[1] /\ Len(link') = Len(link) - 1
        /\ \A j \in 1 .. Len(link') : link'[j] = link[j + 1]
    BY <1>2, HeadTailProperties
  <2>2. \A j \in 1 .. Len(link') : j + 1 \in 1 .. Len(link)
    BY <2>1
  <2>3. \A m \in 1 .. Len(link) : m # 1 => m - 1 \in 1 .. Len(link') /\ (m - 1) + 1 = m
    BY <2>1
  <2>4. ASSUME Carries(link', x) PROVE Carries(link, x)
    BY <2>1, <2>2, <2>4 DEF Carries
  <2>5. ASSUME Carries(link, x) PROVE Carries(link', x)
    <3>1. PICK m \in 1 .. Len(link) : link[m] = x
      BY <2>5 DEF Carries
    <3>2. m # 1
      BY <1>3, <2>1, <3>1
    <3>3. m - 1 \in 1 .. Len(link') /\ link'[m - 1] = x
      BY <2>1, <2>3, <3>1, <3>2
    <3> QED
      BY <3>3 DEF Carries
  <2> QED
    BY <2>4, <2>5
<1>4. Accounted(rt_, link', lost)
  BY <1>1, <1>2, <1>3, SmallAccounted
<1> QED
  BY <1>1, <1>4, LossPartsNext

\* Lose keeps it: what is lost now is of a round that is still there.
LEMMA LoseCounts ==
  ASSUME IInv, AskInv, LossInv, Lose
  PROVE  LossInv'
<1>1. /\ link # <<>> /\ link' = Tail(link) /\ UNCHANGED <<rt_, m_lostdatapkt, m_lostfecpkt>>
      /\ lost' = IF Head(link).type = NONE THEN lost ELSE lost \cup {Head(link)}
  BY DEF Lose, decoder, counters
<1>2. CASE Head(link).type = NONE
  BY <1>1, <1>2, IpForwardSmallCounts
<1>3. CASE Head(link).type # NONE
  <2>1. /\ Accounted(rt_, link, lost)
        /\ CountedLosses(rt_, lost, m_lostdatapkt, m_lostfecpkt)
    BY LossParts
  <2>2. /\ link \in Seq(Packet) /\ rt_ \in Seq(RoundFecTable)
        /\ m_roundId - Len(rt_) \in Int /\ Rounds(rt_, m_roundId - Len(rt_))
    BY RoundsNow
  <2>3. Accounted(rt_, Tail(link), lost \cup {Head(link)})
    <3>1. InSerialOrder(link, m_roundId, m_serial)
      BY DEF AskInv
    <3> QED
      BY <1>1, <1>3, <2>1, <2>2, <3>1, LossAccounted
  <2>4. ~(Head(link).rid < rt_[1].rid) /\ rt_ # <<>>
    <3>1. Open(rt_, Head(link))
      <4>1. 1 \in 1 .. Len(link) /\ Head(link) = link[1]
        BY <1>1, <2>2, HeadTailProperties
      <4> QED
        BY <1>3, <2>1, <4>1 DEF Accounted, PathOpen
    <3>2. PICK i, k : OpenAt(rt_, Head(link), i, k)
      BY <3>1, OpenPlace
    <3>3. i \in 1 .. Len(rt_) /\ Head(link).rid = (m_roundId - Len(rt_)) + i
      BY <2>2, <3>2, OpenFields
    <3>4. Len(rt_) \in Nat /\ 1 \in 1 .. Len(rt_)
      BY <2>2, <3>3, LenProperties
    <3>5. rt_[1].rid = (m_roundId - Len(rt_)) + 1
      BY <2>2, <3>4 DEF Rounds
    <3> QED
      BY <2>2, <3>3, <3>4, <3>5
  <2>5. \A type : LostBelow(lost \cup {Head(link)}, type, rt_[1].rid) = LostBelow(lost, type, rt_[1].rid)
    BY <2>4 DEF LostBelow
  <2>6. CountedLosses(rt_, lost \cup {Head(link)}, m_lostdatapkt, m_lostfecpkt)
    BY <2>1, <2>4, <2>5 DEF CountedLosses
  <2> QED
    BY <1>1, <1>3, <2>3, <2>6, LossPartsNext
<1> QED
  BY <1>2, <1>3

\* Behind a packet that closes its round come only later rounds.
LEMMA OthersFollow ==
  ASSUME IInv, AskInv, NEW p, p = Head(link), p.type # NONE,
         NEW chk, NEW n, NEW off, NEW ask, HeadSettles(p, chk, n, off, ask)
  PROVE  Follow(link, m_roundId - Len(rt_), off)
<1> DEFINE b == m_roundId - Len(rt_)
<1>1. /\ link \in Seq(Packet) /\ link # <<>> /\ n \in 1 .. Len(rt_)
      /\ off = (IF Closing(rt_[n], p) THEN n ELSE n - 1) /\ p.rid = b + n
  BY DEF HeadSettles, Settling
<1>2. /\ b \in Int /\ rt_[n].n = NGroups /\ Ordered(link) /\ Len(link) \in Nat /\ Len(rt_) \in Nat
  BY <1>1, RoundsNow, LenProperties DEF IInv, TypeOK, TablesCoverPath
<1> HIDE DEF b
<1>3. 1 \in 1 .. Len(link) /\ p = link[1]
  BY <1>1, <1>2, HeadTailProperties, EmptySeq
<1>4. ASSUME NEW m \in 1 .. Len(link), m # 1, link[m].type # NONE
      PROVE  link[m].rid > b + off
  <2>1. PICK x : x = link[m]
    OBVIOUS
  <2>2. Before(p, x)
    <3>1. 1 < m
      BY <1>2, <1>4
    <3> QED
      BY <1>2, <1>3, <1>4, <2>1, <3>1 DEF Ordered
  <2>3. x \in Packet
    BY <1>1, <1>4, <2>1, ElementOfSeq
  <2>4. x.rid \in Nat /\ x.gid \in 0 .. NGroups - 1
    BY <2>3 DEF Packet, Groups
  <2>5. p.rid <= x.rid /\ (p.type = REDUNDANT /\ p.rid = x.rid => p.gid < x.gid)
    BY <2>2 DEF Before
  <2>6. CASE Closing(rt_[n], p)
    <3>1. p.type = REDUNDANT /\ p.gid = NGroups - 1 /\ off = n
      BY <1>1, <1>2, <2>6 DEF Closing
    <3>2. p.rid # x.rid
      BY <2>4, <2>5, <3>1, NGroupsAssumption
    <3>3. p.rid = b + off
      BY <1>1, <3>1
    <3> QED
      BY <1>1, <1>2, <2>1, <2>4, <2>5, <3>2, <3>3
  <2>7. CASE ~Closing(rt_[n], p)
    <3>1. off = n - 1
      BY <1>1, <2>7
    <3> QED
      BY <1>1, <1>2, <2>1, <2>4, <2>5, <3>1
  <2> QED
    BY <2>6, <2>7
<1> QED
  BY <1>4 DEF Follow, b

\* IpForward takes the packet off the path and marks its entry; the counters grow
\* by the unmarked entries of the rounds that it closes.
LEMMA IpForwardCounts ==
  ASSUME IInv, AskInv, LossInv, IpForward
  PROVE  LossInv'
<1> DEFINE p == Head(link)
           tq == IF rid_ < p.rid THEN <<>> ELSE tq_
           r == Recv(tq, p)
           chk == CheckRoundFecTable(MarkRoundFecTable(rt_, p), p)
           cl == Closed(rt_, p)
           b == m_roundId - Len(rt_)
<1>1. /\ Idle /\ link # <<>> /\ p.type # NONE /\ link' = Tail(link) /\ rt_' = r.rt /\ lost' = lost
      /\ m_lostdatapkt' = m_lostdatapkt + Cardinality(PrintRoundFecTable(cl, FALSE))
      /\ m_lostfecpkt' = m_lostfecpkt + Cardinality(PrintRoundFecTable(cl, TRUE))
  BY DEF IpForward
<1>2. r.rt = chk.rt
  BY SMTT(30) DEF Recv
<1> HIDE DEF r, tq
<1>3. PICK n, off, ask : HeadSettles(p, chk, n, off, ask)
  BY <1>1, HeadIsSettled
<1>4. Follow(link, b, off)
  <2> HIDE DEF p, chk
  <2> QED
    BY <1>1, <1>3, OthersFollow DEF p
<1>5. rt_ \in Seq(RoundFecTable) /\ b \in Int /\ Rounds(rt_, b)
  BY RoundsNow
<1>6. /\ Settling(chk.rt, rt_, link, p, n, off, ask) /\ n \in 1 .. Len(rt_) /\ off < Len(rt_)
      /\ off = (IF Closing(rt_[n], p) THEN n ELSE n - 1)
      /\ RoundHas(rt_[n], p) /\ p.rid = b + n /\ Tag(p) /\ Serialled(rt_[n].pi)
  <2> HIDE DEF p, chk
  <2> QED
    BY <1>3 DEF HeadSettles, Settling
<1> HIDE DEF chk, p, b
<1>7. ClosedAs(cl, rt_, off, n, p.serial)
  BY ONLY <1>5, <1>6, ClosedRounds
<1>8. /\ Accounted(rt_, link, lost) /\ lost \subseteq Packet
      /\ CountedLosses(rt_, lost, m_lostdatapkt, m_lostfecpkt)
  BY LossParts DEF IInv, TypeOK
<1>9. Passed(chk.rt, rt_, link, p, n, off, ask, b, lost)
  BY <1>4, <1>5, <1>6, <1>8 DEF Passed
<1> HIDE DEF cl
<1>10. Accounted(chk.rt, Tail(link), lost)
  <2>1. InSerialOrder(link, m_roundId, m_serial)
    BY DEF AskInv
  <2> QED
    BY ONLY <1>9, <2>1, PassedAccounted
<1>11. /\ chk.rt # <<>> /\ rt_ # <<>>
       /\ Cardinality(LostBelow(lost, DATA, chk.rt[1].rid)) =
            Cardinality(LostBelow(lost, DATA, rt_[1].rid))
              + Cardinality(PrintRoundFecTable(cl, FALSE))
  <2>1. PICK fec, type : fec \in BOOLEAN /\ fec = FALSE /\ type = DATA
    OBVIOUS
  <2>2. fec \in BOOLEAN /\ type = IF fec THEN REDUNDANT ELSE DATA
    BY <2>1
  <2>3. /\ chk.rt # <<>> /\ rt_ # <<>>
        /\ Cardinality(LostBelow(lost, type, chk.rt[1].rid)) =
             Cardinality(LostBelow(lost, type, rt_[1].rid)) + Cardinality(PrintRoundFecTable(cl, fec))
    BY ONLY <1>7, <1>9, <2>2, PassedCount
  <2> QED
    BY <2>1, <2>3
<1>12. Cardinality(LostBelow(lost, REDUNDANT, chk.rt[1].rid)) =
         Cardinality(LostBelow(lost, REDUNDANT, rt_[1].rid))
           + Cardinality(PrintRoundFecTable(cl, TRUE))
  <2>1. PICK fec, type : fec \in BOOLEAN /\ fec = TRUE /\ type = REDUNDANT
    OBVIOUS
  <2>2. fec \in BOOLEAN /\ type = IF fec THEN REDUNDANT ELSE DATA
    BY <2>1
  <2>3. Cardinality(LostBelow(lost, type, chk.rt[1].rid)) =
          Cardinality(LostBelow(lost, type, rt_[1].rid)) + Cardinality(PrintRoundFecTable(cl, fec))
    BY ONLY <1>7, <1>9, <2>2, PassedCount
  <2> QED
    BY <2>1, <2>3
<1>13. CountedLosses(chk.rt, lost, m_lostdatapkt', m_lostfecpkt')
  <2>1. /\ m_lostdatapkt = Cardinality(LostBelow(lost, DATA, rt_[1].rid))
        /\ m_lostfecpkt = Cardinality(LostBelow(lost, REDUNDANT, rt_[1].rid))
    BY <1>8, <1>11 DEF CountedLosses
  <2> QED
    BY <1>1, <1>11, <1>12, <2>1 DEF CountedLosses
<1> QED
  BY <1>1, <1>2, <1>10, <1>13, LossPartsNext

\* Every step keeps LossInv.
LEMMA NextCounts ==
  ASSUME IInv, AskInv, LossInv, [Next]_vars
  PROVE  LossInv'
<1>1. CASE SendData
  BY <1>1, SendDataCounts
<1>2. CASE SendSmall
  BY <1>2, SendSmallCounts
<1>3. CASE SendFecPacket
  BY <1>3, SendFecPacketCounts
<1>4. CASE Lose
  BY <1>4, LoseCounts
<1>5. CASE IpForwardSmall
  BY <1>5, IpForwardSmallCounts DEF IpForwardSmall, counters
<1>6. CASE IpForward
  BY <1>6, IpForwardCounts
<1>7. CASE UNCHANGED vars
  <2>1. UNCHANGED <<rt_, link, lost, m_lostdatapkt, m_lostfecpkt>>
    BY <1>7 DEF vars, decoder, counters
  <2> QED
    BY <2>1, LossParts, LossPartsNext
<1> QED
  BY <1>1, <1>2, <1>3, <1>4, <1>5, <1>6, <1>7 DEF Next

\* The initial state satisfies it.
LEMMA InitCounts ==
  ASSUME Init
  PROVE  LossInv
<1>1. /\ Len(rt_) = 0 /\ Len(link) = 0 /\ rt_ = <<>> /\ lost = {}
      /\ m_lostdatapkt = 0 /\ m_lostfecpkt = 0
  BY DEF Init
<1>2. IsFiniteSet(lost)
  BY <1>1, FS_EmptySet
<1>3. Accounted(rt_, link, lost)
  BY <1>1, <1>2 DEF Accounted, LossesOpen, PathOpen, OpenOut
<1> QED
  BY <1>1, <1>3, LossParts DEF CountedLosses
-----------------------------------------------------------------------------
(* Theorems *)

\* Recv requests a packet from the TCP sender only when the path has lost it,
\* and never twice, whatever is lost and however the events interleave.
THEOREM RequestsOnlyOnce == Spec => []RequestedOnce
<1>1. Init => IInv /\ AskInv
  BY InitHolds, InitAsks
<1>2. IInv /\ AskInv /\ [Next]_vars => IInv' /\ AskInv'
  BY NextKeeps, NextAsks
<1>3. AskInv => RequestedOnce
  BY DEF AskInv
<1> QED
  BY <1>1, <1>2, <1>3, PTL DEF Spec

\* The counters of PrintRoundFecTable are exact at any moment: they are the data
\* and the redundant packets that the path has lost of the rounds already
\* closed, whatever is lost and however the events interleave.
THEOREM LossesAlwaysCounted == Spec => []LossesCounted
<1>1. Init => IInv /\ AskInv /\ LossInv
  BY InitHolds, InitAsks, InitCounts
<1>2. IInv /\ AskInv /\ LossInv /\ [Next]_vars => IInv' /\ AskInv' /\ LossInv'
  BY NextKeeps, NextAsks, NextCounts
<1>3. LossInv => LossesCounted
  BY DEF LossInv
<1> QED
  BY <1>1, <1>2, <1>3, PTL DEF Spec
=============================================================================
