---------------------------- MODULE FecEndProofs ----------------------------
(***************************************************************************)
(* The shape of rounds end to end, the searches of the receiver in the     *)
(* tables, the conservation of segments, the loss counters and the order   *)
(* of what is held, for every window, mode and bound.                      *)
(***************************************************************************)
EXTENDS FecEnd, FecSizingProofs, FecTablesProofs, TLAPS

\* The sending side s has a whole number of turns through its groups to go.
Turns(s) ==
  /\ s.n \in Nat \ {0} /\ s.gid \in 0 .. s.n - 1
  /\ s.fc \in Nat \ {0} /\ s.ic = s.n
  /\ \E q \in 1 .. s.fc + s.gid : s.fc + s.gid = q * s.n

Fields == {"rid", "gid", "n", "fc", "ic", "rt", "gt"}

\* What RoundShape needs besides itself to be inductive.
ShapeInv ==
  /\ m_init \in BOOLEAN /\ fc \in Int /\ ic \in Int
  /\ m_groupId \in Nat /\ nGroups \in Nat
  /\ m_init => m_groupId = 0
  /\ RoundShape

\* One packet leaves the turn it belongs to a whole number of turns.
LEMMA TurnStep ==
  ASSUME NEW fcv \in Nat \ {0}, NEW n \in Nat \ {0}, NEW g \in 0 .. n - 1,
         NEW q \in Nat, fcv + g = q * n
  PROVE  /\ NextGroup(g, n) \in 0 .. n - 1
         /\ fcv - 1 = 0 => NextGroup(g, n) = 0
         /\ fcv - 1 # 0 => \E k \in 1 .. fcv - 1 + NextGroup(g, n) :
                             fcv - 1 + NextGroup(g, n) = k * n
<1> DEFINE h == NextGroup(g, n)
<1>1. h \in 0 .. n - 1 /\ (g + 1 # n => h = g + 1) /\ (g + 1 = n => h = 0)
  BY DEF NextGroup
<1>2. q # 0 /\ (q - 1) * n = q * n - n /\ (q - 1) * n \in Nat /\ (q = 1 => q * n = n)
  <2>1. q # 0
    BY SMT
  <2> QED
    BY <2>1, SMT
<1>3. CASE g + 1 = n
  <2>1. fcv - 1 + h = (q - 1) * n
    BY <1>1, <1>2, <1>3
  <2>2. fcv - 1 # 0 => q - 1 \in Nat \ {0}
    BY <1>1, <1>2, <1>3
  <2>3. fcv - 1 # 0 => q - 1 <= (q - 1) * n
    BY <2>2, Products
  <2>4. fcv - 1 # 0 => \E k \in 1 .. fcv - 1 + h : fcv - 1 + h = k * n
    <3> SUFFICES ASSUME fcv - 1 # 0 PROVE q - 1 \in 1 .. fcv - 1 + h
      BY <2>1
    <3> QED
      BY <1>1, <1>3, <2>1, <2>2, <2>3
  <2> QED
    BY <1>1, <1>3, <2>4
<1>4. CASE g + 1 # n
  <2>1. fcv - 1 + h = q * n /\ h = g + 1
    BY <1>1, <1>4
  <2>2. q <= q * n
    BY <1>2, Products
  <2>3. q * n >= n
    BY <1>2
  <2>4. fcv - 1 # 0
    BY <1>4, <2>1, <2>3
  <2> QED
    BY <1>1, <1>2, <2>1, <2>2, <2>4
<1> QED
  BY <1>3, <1>4

\* A round that has just been sized.
LEMMA SizedTurns ==
  ASSUME NEW b, DOMAIN b = Fields, b.gid = 0, NEW s \in Sized(b)
  PROVE  DOMAIN s = Fields /\ Turns(s)
<1>1. PICK win \in Windows : s = RedundancyControl(b, win)
  BY DEF Sized
<1>2. /\ s.gid = 0 /\ s.n = RoundSize(win).nGroups
      /\ s.fc = RoundSize(win).fwin /\ s.ic = RoundSize(win).nGroups
      /\ DOMAIN s = Fields
  BY <1>1 DEF RedundancyControl, Fields
<1>3. PICK q \in Nat \ {0} : s.fc = q * s.n
  BY <1>2, RoundSizeShape, WindowsAssumption
<1>4. s.n \in Nat \ {0}
  BY <1>2, RoundSizeShape, WindowsAssumption, NGroupsAssumption
<1>5. s.fc \in Nat \ {0} /\ q <= s.fc
  BY <1>3, <1>4, Products
<1> QED
  BY <1>2, <1>3, <1>4, <1>5 DEF Turns

\* SendDataPacket on a sending side with whole turns to go.
LEMMA SendDataPacketShape ==
  ASSUME NEW s, DOMAIN s = Fields, Turns(s), NEW seg, SendDataPacket(seg, s)
  PROVE  ShapeInv'
<1>1. /\ m_groupId' = NextGroup(s.gid, s.n) /\ nGroups' = s.n /\ fc' = s.fc - 1 /\ ic' = s.ic
      /\ m_init' = FALSE
  BY DEF SendDataPacket, Becomes, Push, Fields
<1>2. PICK q \in 1 .. s.fc + s.gid : s.fc + s.gid = q * s.n
  BY DEF Turns
<1>3. /\ s.n \in Nat \ {0} /\ s.gid \in 0 .. s.n - 1
      /\ s.fc \in Nat \ {0} /\ s.ic = s.n /\ q \in Nat
  BY DEF Turns
<1>4. /\ NextGroup(s.gid, s.n) \in 0 .. s.n - 1
      /\ s.fc - 1 = 0 => NextGroup(s.gid, s.n) = 0
      /\ s.fc - 1 # 0 => \E k \in 1 .. s.fc - 1 + NextGroup(s.gid, s.n) :
                            s.fc - 1 + NextGroup(s.gid, s.n) = k * s.n
  <2>1. \A fcv, n \in Nat \ {0}, k \in Nat : \A g \in 0 .. n - 1 : fcv + g = k * n =>
          /\ NextGroup(g, n) \in 0 .. n - 1
          /\ fcv - 1 = 0 => NextGroup(g, n) = 0
          /\ fcv - 1 # 0 => \E j \in 1 .. fcv - 1 + NextGroup(g, n) :
                              fcv - 1 + NextGroup(g, n) = j * n
    BY TurnStep
  <2> QED
    BY <1>2, <1>3, <2>1
<1>5. RoundShape'
  <2>1. CASE fc' = 0
    BY <1>1, <1>3, <1>4, <2>1 DEF RoundShape
  <2>2. CASE fc' # 0
    BY <1>1, <1>3, <1>4, <2>2 DEF RoundShape
  <2> QED
    BY <2>1, <2>2
<1>6. m_init' \in BOOLEAN /\ ~m_init'
  BY <1>1, Zenon
<1>7. /\ fc' \in Int /\ ic' \in Int
      /\ m_groupId' \in Nat /\ nGroups' \in Nat
  BY <1>1, <1>3, <1>4, SMT
<1> QED
  BY <1>5, <1>6, <1>7 DEF ShapeInv

\* Reset always leaves whole turns: fast recovery and the retransmission timer.
LEMMA RecoverShape ==
  ASSUME NEW seg, NEW marked, Recover(seg, marked)
  PROVE  ShapeInv'
<1>1. PICK s \in Sized(Reset(Fec)) : SendDataPacket(seg, s)
  BY DEF Recover
<1>2. DOMAIN Reset(Fec) = Fields /\ Reset(Fec).gid = 0
  BY DEF Reset, Fec, Fields
<1> QED
  BY <1>1, <1>2, SizedTurns, SendDataPacketShape

\* What SendPendingData sends on: the round begun, or the first of all.
LEMMA BegunTurns ==
  ASSUME ShapeInv, Idle, NEW s \in Begun
  PROVE  DOMAIN s = Fields /\ Turns(s)
<1>1. CASE m_init
  <2>1. DOMAIN Fec = Fields /\ Fec.gid = 0
    BY <1>1 DEF Fec, Fields, ShapeInv
  <2>2. s \in Sized(Fec)
    BY <1>1 DEF Begun
  <2> QED
    BY <2>1, <2>2, SizedTurns
<1>2. CASE ~m_init
  <2>1. s = Fec
    BY <1>2 DEF Begun
  <2>2. fc # 0
    BY <1>2 DEF Idle
  <2>3. Turns(s)
    BY <1>2, <2>1, <2>2 DEF ShapeInv, RoundShape, Turns, Fec
  <2>4. DOMAIN s = Fields
    BY <2>1 DEF Fec, Fields
  <2> QED
    BY <2>3, <2>4
<1> QED
  BY <1>1, <1>2 DEF ShapeInv

LEMMA BegunShape ==
  ASSUME ShapeInv, Idle, NEW s \in Begun, NEW seg, SendDataPacket(seg, s)
  PROVE  ShapeInv'
BY BegunTurns, SendDataPacketShape

\* A step of the burst: the next group, or a new round.
LEMMA SendFecPacketShape ==
  ASSUME ShapeInv, SendFecPacket
  PROVE  ShapeInv'
<1> DEFINE s == [CreateFecPacket(Fec) EXCEPT !.ic = @ - 1]
<1>1. ~m_init /\ fc = 0 /\ m_init' = m_init
  BY DEF SendFecPacket, Idle
<1>2. /\ nGroups \in Nat \ {0} /\ m_groupId \in 0 .. nGroups - 1
      /\ m_groupId = nGroups - ic /\ ic \in Int
  BY <1>1, SMTT(30) DEF ShapeInv, RoundShape
<1>3. /\ s.n = nGroups /\ s.fc = 0 /\ s.ic = ic - 1
      /\ s.gid = IF m_groupId + 1 = nGroups THEN 0 ELSE m_groupId + 1
  BY <1>1, <1>2 DEF CreateFecPacket, Push, Fec
<1>4. DOMAIN s = Fields
  BY DEF CreateFecPacket, Push, Fec, Fields
<1> HIDE DEF s
<1>5. PICK t \in IF s.ic = 0 THEN Sized(s) ELSE {s} : Becomes(t)
  BY DEF SendFecPacket, s
<1>6. /\ m_groupId' = t.gid /\ nGroups' = t.n /\ fc' = t.fc /\ ic' = t.ic
  BY <1>5 DEF Becomes
<1>7. CASE s.ic = 0
  <2>1. s.gid = 0
    BY <1>2, <1>3, <1>7
  <2>2. Turns(t)
    BY <1>4, <1>5, <1>7, <2>1, SizedTurns
  <2> QED
    BY <1>1, <1>6, <2>2 DEF Turns, ShapeInv, RoundShape
<1>8. CASE s.ic # 0
  <2>1. t = s
    BY <1>5, <1>8
  <2>2. m_groupId + 1 # nGroups
    BY <1>2, <1>3, <1>8
  <2>3. RoundShape'
    BY <1>1, <1>2, <1>3, <1>6, <2>1, <2>2 DEF RoundShape
  <2> QED
    BY <1>1, <1>2, <1>3, <1>6, <2>1, <2>2, <2>3 DEF ShapeInv
<1> QED
  BY <1>7, <1>8

LEMMA ShapeInductive ==
  ASSUME ShapeInv, [Next]_vars
  PROVE  ShapeInv'
<1>1. CASE SendNew
  BY <1>1, BegunShape DEF SendNew
<1>2. CASE Retransmit \/ RetransmitRule3
  BY <1>2, BegunShape DEF Retransmit, RetransmitRule3
<1>3. CASE SendFecPacket
  BY <1>3, SendFecPacketShape
<1>4. CASE EnterRecovery
  BY <1>4, RecoverShape DEF EnterRecovery
<1>5. CASE ReTxTimeout
  BY <1>5, RecoverShape DEF ReTxTimeout
<1>6. CASE UNCHANGED sender
  BY <1>6, SMTT(30) DEF ShapeInv, RoundShape, sender
<1>7. CASE ReceivedAck \/ Lose \/ ForwardUp \/ UNCHANGED vars
  BY <1>6, <1>7 DEF ReceivedAck, Lose, ForwardUp, vars
<1> QED
  BY <1>1, <1>2, <1>3, <1>4, <1>5, <1>7 DEF Next

\* RoundShape is an invariant: whatever the windows, modes and losses and
\* whenever Reset comes, the round being sent is a whole number of turns through
\* its groups, and its burst covers each group once, starting with group 0.
THEOREM RoundsKeepShape == Spec => []RoundShape
<1>1. Init => ShapeInv
  BY DEF Init, ShapeInv, RoundShape
<1>2. ShapeInv /\ [Next]_vars => ShapeInv'
  BY ShapeInductive
<1> QED
  BY <1>1, <1>2, PTL DEF Spec, ShapeInv
-----------------------------------------------------------------------------
(* The tables and the path *)

EndPacket == [type : {DATA, REDUNDANT, REXMIT, RECOVERED}, serial : Nat, rid : Nat,
              gid : Groups, n : Nat, hdr : Nat]

TypeInv ==
  /\ m_roundId \in Nat /\ m_serial \in Nat
  /\ highTx \in 0 .. MaxSeg /\ una \in Nat /\ rexmit \subseteq 1 .. highTx
  /\ link \in Seq(EndPacket) /\ tq_ \in Seq(EndPacket) /\ lost \in Seq(EndPacket)

\* From the first packet on the tables describe the path, and the last round
\* they know is the one being sent.
TablesInv ==
  IF m_init THEN rt_ = <<>> /\ gt_ = <<>> /\ link = <<>>
  ELSE /\ Tracked(link, rt_, gt_, m_roundId, fc, m_groupId)
       /\ nGroups \in Sizes /\ rt_[Len(rt_)].n = nGroups

\* Segments on the path, held or in the tables have been sent, and a redundant
\* packet is none.
HdrsInv ==
  /\ \A i \in 1 .. Len(link) : /\ link[i].hdr <= highTx
                               /\ link[i].type = REDUNDANT => link[i].hdr = 0
  /\ \A i \in 1 .. Len(tq_) : tq_[i].hdr <= highTx
  /\ HdrsWithin(gt_, highTx)

PathInv == TypeInv /\ TablesInv /\ HdrsInv /\ Conservation
EndInv == ShapeInv /\ PathInv

\* The sending side s has recorded the packets on path l, segments up to h.
Tracks(s, l, h) ==
  /\ DOMAIN s = Fields
  /\ Tracked(l, s.rt, s.gt, s.rid, s.fc, s.gid)
  /\ s.n \in Sizes /\ s.rt[Len(s.rt)].n = s.n /\ s.gid \in 0 .. s.n - 1
  /\ HdrsWithin(s.gt, h)

LEMMA EndTags == \A x \in EndPacket : Tag(x)
BY DEF EndPacket, Tag

\* What RedundancyControl makes of the sending side b.
LEMMA SizedFields ==
  ASSUME NEW b, DOMAIN b = Fields, NEW s \in Sized(b)
  PROVE  \E size \in Sizes :
           /\ DOMAIN s = Fields /\ s.n = size /\ s.gid = b.gid /\ s.rid = b.rid
           /\ s.rt = WithRound(b.rt, b.rid, size) /\ s.gt = WithGroups(b.gt, b.rid, size)
<1>1. PICK win \in Windows : s = RedundancyControl(b, win)
  BY DEF Sized
<1>2. RoundSize(win).nGroups \in Sizes
  BY RoundSizeShape, WindowsAssumption DEF Sizes
<1> DEFINE size == RoundSize(win).nGroups
<1>3. /\ DOMAIN s = Fields /\ s.n = size /\ s.gid = b.gid /\ s.rid = b.rid
      /\ s.rt = WithRound(b.rt, b.rid, size) /\ s.gt = WithGroups(b.gt, b.rid, size)
  BY <1>1 DEF RedundancyControl, Fields
<1> QED
  BY <1>2, <1>3

\* The first round of all.
LEMMA FirstTracks ==
  ASSUME NEW b, DOMAIN b = Fields, b.gid = 0, b.rid \in Nat, b.rt = <<>>, b.gt = <<>>,
         NEW s \in Sized(b), NEW h
  PROVE  Tracks(s, <<>>, h)
<1>1. PICK size \in Sizes :
        /\ DOMAIN s = Fields /\ s.n = size /\ s.gid = b.gid /\ s.rid = b.rid
        /\ s.rt = WithRound(b.rt, b.rid, size) /\ s.gt = WithGroups(b.gt, b.rid, size)
  BY SizedFields
<1>2. /\ s.rt \in Seq(RoundFecTable) /\ s.gt \in Seq(GroupFecTable)
      /\ Ending(s.rt, s.rid) /\ Ending(s.gt, s.rid) /\ s.rt[Len(s.rt)].n = size
  BY <1>1, OpenCovers
<1>3. /\ Covered(<<>>, s.rt, s.gt, s.rid) /\ Ordered(<<>>) /\ Behind(<<>>, s.rid, s.fc, s.gid)
  BY DEF Covered, Ordered, Behind
<1>4. HdrsWithin(s.gt, h)
  <2>1. <<>> \in Seq(GroupFecTable) /\ HdrsWithin(<<>>, h)
    BY DEF HdrsWithin
  <2> QED
    BY <1>1, <2>1, HdrsOpen
<1>5. s.gid \in 0 .. s.n - 1
  BY <1>1 DEF Sizes
<1> QED
  BY <1>1, <1>2, <1>3, <1>4, <1>5 DEF Tracks, Tracked

\* A path whose packets the tables have recorded, up to round last.
Described(l, rt, gt, last) ==
  /\ rt \in Seq(RoundFecTable) /\ gt \in Seq(GroupFecTable) /\ last \in Nat
  /\ Ending(rt, last) /\ Ending(gt, last)
  /\ l \in Seq(EndPacket) /\ Covered(l, rt, gt, last) /\ Ordered(l)
  /\ \A m \in 1 .. Len(l) : l[m].rid <= last

\* Another round is opened in the tables: the packets on the path are behind.
LEMMA OpenTracked ==
  ASSUME NEW l, NEW rt, NEW gt, NEW last, Described(l, rt, gt, last),
         NEW rid, rid = last + 1, NEW size \in Sizes, NEW f, NEW gid
  PROVE  /\ Tracked(l, WithRound(rt, rid, size), WithGroups(gt, rid, size), rid, f, gid)
         /\ WithRound(rt, rid, size)[Len(WithRound(rt, rid, size))].n = size
<1>1. /\ rt \in Seq(RoundFecTable) /\ gt \in Seq(GroupFecTable) /\ last \in Nat
      /\ Ending(rt, last) /\ Ending(gt, last)
      /\ l \in Seq(EndPacket) /\ Covered(l, rt, gt, last) /\ Ordered(l)
  BY DEF Described
<1>2. rid \in Nat
  BY <1>1
<1>3. /\ WithRound(rt, rid, size) \in Seq(RoundFecTable)
      /\ WithGroups(gt, rid, size) \in Seq(GroupFecTable)
      /\ Ending(WithRound(rt, rid, size), rid) /\ Ending(WithGroups(gt, rid, size), rid)
      /\ Covered(l, WithRound(rt, rid, size), WithGroups(gt, rid, size), rid)
      /\ WithRound(rt, rid, size)[Len(WithRound(rt, rid, size))].n = size
  BY <1>1, EndTags, UpdateCovers
<1>4. Behind(l, rid, f, gid)
  <2> SUFFICES ASSUME NEW m \in 1 .. Len(l)
               PROVE  l[m].rid <= rid /\ l[m].rid # rid
    BY DEF Behind
  <2>1. l[m] \in EndPacket
    BY <1>1
  <2>2. l[m].rid \in Nat /\ l[m].rid <= last
    BY <2>1 DEF EndPacket, Described
  <2> QED
    BY <1>1, <2>2
<1> QED
  BY <1>1, <1>2, <1>3, <1>4 DEF Tracked

\* A round after another one, complete or abandoned.
LEMMA NextTracks ==
  ASSUME NEW b, DOMAIN b = Fields, b.gid = 0, NEW last, b.rid = last + 1,
         NEW l, Described(l, b.rt, b.gt, last),
         NEW h, HdrsWithin(b.gt, h), NEW s \in Sized(b)
  PROVE  Tracks(s, l, h)
<1>1. PICK size \in Sizes :
        /\ DOMAIN s = Fields /\ s.n = size /\ s.gid = b.gid /\ s.rid = b.rid
        /\ s.rt = WithRound(b.rt, b.rid, size) /\ s.gt = WithGroups(b.gt, b.rid, size)
  BY SizedFields
<1>2. Tracked(l, s.rt, s.gt, s.rid, s.fc, s.gid) /\ s.rt[Len(s.rt)].n = size
  BY <1>1, OpenTracked
<1>3. HdrsWithin(s.gt, h)
  <2>1. b.gt \in Seq(GroupFecTable) /\ b.rid \in Nat
    BY DEF Described
  <2> QED
    BY <1>1, <2>1, HdrsOpen
<1>4. s.gid \in 0 .. s.n - 1
  BY <1>1 DEF Sizes
<1> QED
  BY <1>1, <1>2, <1>3, <1>4 DEF Tracks

\* A packet of the group whose turn it is, recorded and sent.
LEMMA PushDescribed ==
  ASSUME NEW l \in Seq(EndPacket), NEW rt, NEW gt, NEW last, NEW f, NEW gid,
         Tracked(l, rt, gt, last, f, gid), NEW e \in PacketInfo, NEW p \in EndPacket,
         p.serial = e.serial, p.gid = e.gid, p.gid = gid, p.rid = last,
         p.type \in {DATA, REDUNDANT, REXMIT}, gid < rt[Len(rt)].n
  PROVE  /\ Described(Append(l, p), RoundPush(rt, e), GroupPush(gt, e), last)
         /\ RoundPush(rt, e)[Len(RoundPush(rt, e))].n = rt[Len(rt)].n
<1>1. /\ rt \in Seq(RoundFecTable) /\ gt \in Seq(GroupFecTable) /\ last \in Nat
      /\ Ending(rt, last) /\ Ending(gt, last)
      /\ Covered(l, rt, gt, last) /\ Ordered(l) /\ Behind(l, last, f, gid)
  BY DEF Tracked
<1>2. p.gid < rt[Len(rt)].n
  OBVIOUS
<1>3. /\ RoundPush(rt, e) \in Seq(RoundFecTable) /\ GroupPush(gt, e) \in Seq(GroupFecTable)
      /\ Ending(RoundPush(rt, e), last) /\ Ending(GroupPush(gt, e), last)
      /\ Covered(Append(l, p), RoundPush(rt, e), GroupPush(gt, e), last)
      /\ RoundPush(rt, e)[Len(RoundPush(rt, e))].n = rt[Len(rt)].n
  BY <1>1, <1>2, EndTags, PushCovers
<1>4. \A m \in 1 .. Len(l) : l[m] \in EndPacket /\ l[m].type # NONE
  <2>1. \A m \in 1 .. Len(l) : l[m] \in EndPacket
    BY ElementOfSeq
  <2>2. \A q \in EndPacket : q.type # NONE
    BY DEF EndPacket, NONE, DATA, REDUNDANT, REXMIT, RECOVERED
  <2> QED
    BY <2>1, <2>2
<1>5. \A m \in 1 .. Len(l) : Before(l[m], p) /\ l[m].rid <= last
  BY <1>1, <1>4 DEF Behind, Before
<1>6. Append(l, p) \in Seq(EndPacket) /\ Ordered(Append(l, p))
  BY <1>1, <1>5, PathAppend
<1>7. \A m \in 1 .. Len(Append(l, p)) : Append(l, p)[m].rid <= last
  <2>1. /\ Len(Append(l, p)) = Len(l) + 1 /\ Append(l, p)[Len(l) + 1] = p
        /\ \A m \in 1 .. Len(l) : Append(l, p)[m] = l[m]
    BY AppendProperties
  <2>2. Len(l) \in Nat /\ last <= last
    BY <1>1, LenProperties
  <2> QED
    BY <1>5, <2>1, <2>2
<1> QED
  BY <1>1, <1>3, <1>6, <1>7 DEF Described

\* After a segment no redundant packet of the round is on the path; after a
\* redundant packet those of the groups before the next one are.
LEMMA PushBehind ==
  ASSUME NEW l \in Seq(EndPacket), NEW last \in Nat, NEW f, NEW gid \in Nat, Behind(l, last, f, gid),
         NEW p \in EndPacket, p.rid = last, p.gid = gid
  PROVE  /\ f # 0 /\ p.type # REDUNDANT => \A g, k : Behind(Append(l, p), last, k, g)
         /\ f = 0 => Behind(Append(l, p), last, 0, gid + 1)
<1>1. /\ Len(Append(l, p)) = Len(l) + 1 /\ Append(l, p)[Len(l) + 1] = p
      /\ \A m \in 1 .. Len(l) : Append(l, p)[m] = l[m]
  BY AppendProperties
<1>2. \A m \in 1 .. Len(l) : l[m] \in EndPacket /\ l[m].gid \in Int
  <2>1. \A m \in 1 .. Len(l) : l[m] \in EndPacket
    BY ElementOfSeq
  <2>2. \A q \in EndPacket : q.gid \in Int
    BY NGroupsAssumption DEF EndPacket, Groups
  <2> QED
    BY <2>1, <2>2
<1>3. Len(l) \in Nat /\ p.rid <= last /\ p.gid < gid + 1
  BY LenProperties
<1> DEFINE a == Append(l, p)
<1> HIDE DEF a
<1>4. \A m \in 1 .. Len(a) : a[m] = p \/ (m \in 1 .. Len(l) /\ a[m] = l[m])
  BY <1>1, <1>3 DEF a
<1>5. ASSUME f # 0, p.type # REDUNDANT, NEW g, NEW k PROVE Behind(a, last, k, g)
  BY <1>3, <1>4, <1>5 DEF Behind
<1>6. ASSUME f = 0 PROVE Behind(a, last, 0, gid + 1)
  <2> SUFFICES ASSUME NEW m \in 1 .. Len(a), a[m].type # NONE
               PROVE  /\ a[m].rid <= last
                      /\ a[m].type = REDUNDANT /\ a[m].rid = last => a[m].gid < gid + 1
    BY DEF Behind
  <2>1. CASE a[m] = p
    BY <1>3, <2>1
  <2>2. CASE m \in 1 .. Len(l) /\ a[m] = l[m]
    <3>1. /\ l[m].rid <= last
          /\ l[m].type = REDUNDANT /\ l[m].rid = last => l[m].gid < gid
      BY <2>2 DEF Behind
    <3> QED
      BY <1>2, <2>2, <3>1
  <2> QED
    BY <1>4, <2>1, <2>2
<1> QED
  BY <1>5, <1>6 DEF a

LEMMA HdrsMono ==
  ASSUME NEW gt \in Seq(GroupFecTable), NEW h \in Int, NEW k \in Int, h <= k, HdrsWithin(gt, h)
  PROVE  HdrsWithin(gt, k)
<1> SUFFICES ASSUME NEW i \in 1 .. Len(gt), NEW g \in Groups, NEW j \in 1 .. Len(gt[i].gi[g])
             PROVE  gt[i].gi[g][j].hdr <= k
  BY DEF HdrsWithin
<1>1. gt[i] \in GroupFecTable
  BY ElementOfSeq
<1>2. gt[i].gi[g] \in Seq(PacketInfo)
  BY <1>1 DEF GroupFecTable
<1>3. gt[i].gi[g][j] \in PacketInfo
  BY <1>2, ElementOfSeq
<1>4. gt[i].gi[g][j].hdr \in Nat
  BY <1>3 DEF PacketInfo
<1>5. gt[i].gi[g][j].hdr <= h
  BY DEF HdrsWithin
<1> QED
  BY <1>4, <1>5

\* SendDataPacket records the segment and sends it.
LEMMA SendTracks ==
  ASSUME NEW s, Turns(s), Tracks(s, link, highTx), link \in Seq(EndPacket), highTx \in Nat,
         NEW seg \in Nat, seg <= highTx + 1, SendDataPacket(seg, s)
  PROVE  /\ TablesInv' /\ m_roundId' \in Nat /\ m_serial' \in Nat
         /\ HdrsWithin(gt_', highTx')
         /\ highTx' = IF seg <= highTx THEN highTx ELSE seg
         /\ \E p \in EndPacket : /\ link' = Append(link, p) /\ p.hdr = seg
                                 /\ p.type \in {DATA, REXMIT}
<1> DEFINE again == seg <= highTx
           e == [serial |-> Seq1(seg), gid |-> s.gid, fec |-> FALSE, hdr |-> seg,
                 check |-> again, flag |-> FALSE]
           p == Tagged(s, IF again THEN REXMIT ELSE DATA, Seq1(seg), seg)
<1>1. /\ rt_' = RoundPush(s.rt, e) /\ gt_' = GroupPush(s.gt, e) /\ m_roundId' = s.rid
      /\ m_groupId' = NextGroup(s.gid, s.n) /\ nGroups' = s.n /\ fc' = s.fc - 1
  BY DEF SendDataPacket, Becomes, Push, Tracks, Fields
<1>2. /\ link' = Append(link, p) /\ m_init' = FALSE /\ m_serial' = Seq1(seg) + 1
      /\ highTx' = IF again THEN highTx ELSE seg
  BY DEF SendDataPacket
<1>3. Seq1(seg) \in Nat
  BY NGroupsAssumption DEF Seq1
<1>4. /\ Tracked(link, s.rt, s.gt, s.rid, s.fc, s.gid) /\ s.rid \in Nat
      /\ s.gt \in Seq(GroupFecTable) /\ s.gt # <<>> /\ s.n \in Sizes
      /\ s.rt[Len(s.rt)].n = s.n /\ HdrsWithin(s.gt, highTx)
      /\ Behind(link, s.rid, s.fc, s.gid)
  BY DEF Tracks, Tracked, Ending
<1>5. s.fc # 0 /\ s.gid \in Groups /\ s.gid \in Nat /\ s.gid < s.n /\ s.n \in Nat
  BY <1>4, NGroupsAssumption DEF Turns, Tracks, Sizes, Groups
<1>6. again \in BOOLEAN
  OBVIOUS
<1>7. e \in PacketInfo /\ e.serial = Seq1(seg) /\ e.gid = s.gid /\ e.hdr = seg
  BY <1>3, <1>5, <1>6 DEF PacketInfo
<1>8. /\ p \in EndPacket /\ p.serial = Seq1(seg) /\ p.gid = s.gid /\ p.rid = s.rid
      /\ p.hdr = seg /\ p.type \in {DATA, REXMIT}
  BY <1>3, <1>4, <1>5 DEF EndPacket, Tagged
<1> HIDE DEF e, p
<1>9. /\ Described(Append(link, p), rt_', gt_', s.rid)
      /\ rt_'[Len(rt_')].n = s.n
  <2>1. p.type \in {DATA, REDUNDANT, REXMIT} /\ s.gid < s.rt[Len(s.rt)].n
    BY <1>4, <1>5, <1>8
  <2> QED
    BY <1>1, <1>4, <1>7, <1>8, <2>1, PushDescribed
<1>10. Behind(Append(link, p), s.rid, fc', m_groupId')
  <2>1. p.type # REDUNDANT
    BY <1>8 DEF DATA, REDUNDANT, REXMIT
  <2> QED
    BY <1>4, <1>5, <1>8, <2>1, PushBehind
<1>11. TablesInv'
  BY <1>1, <1>2, <1>4, <1>9, <1>10 DEF TablesInv, Tracked, Described
<1>12. HdrsWithin(gt_', highTx')
  <2>1. HdrsWithin(s.gt, highTx') /\ e.hdr <= highTx'
    BY <1>2, <1>4, <1>7, HdrsMono
  <2> QED
    BY <1>1, <1>4, <1>7, <2>1, HdrsPush
<1> QED
  BY <1>1, <1>2, <1>3, <1>4, <1>8, <1>11, <1>12
-----------------------------------------------------------------------------
(* The segments *)

\* The segments of a path that a packet enters or leaves.
LEMMA SegmentsAppend ==
  ASSUME NEW P, NEW l \in Seq(P), NEW p \in P
  PROVE  Segments(Append(l, p)) = Segments(l) \cup ({p.hdr} \ {0})
<1> DEFINE a == Append(l, p)
<1>1. /\ a \in Seq(P) /\ Len(a) = Len(l) + 1 /\ a[Len(l) + 1] = p
      /\ \A m \in 1 .. Len(l) : a[m] = l[m]
  BY AppendProperties
<1> HIDE DEF a
<1>2. Len(l) \in Nat /\ DOMAIN l = 1 .. Len(l) /\ DOMAIN a = 1 .. Len(l) + 1
  BY <1>1, LenProperties
<1>3. {a[i].hdr : i \in DOMAIN a} = {l[i].hdr : i \in DOMAIN l} \cup {p.hdr}
  <2>1. ASSUME NEW i \in DOMAIN a PROVE a[i].hdr \in {l[j].hdr : j \in DOMAIN l} \cup {p.hdr}
    <3>1. i \in 1 .. Len(l) \/ i = Len(l) + 1
      BY <1>2
    <3> QED
      BY <1>1, <1>2, <3>1
  <2>2. ASSUME NEW i \in DOMAIN l PROVE l[i].hdr \in {a[j].hdr : j \in DOMAIN a}
    <3>1. i \in DOMAIN a /\ a[i] = l[i]
      BY <1>1, <1>2
    <3> QED
      BY <3>1
  <2>3. p.hdr \in {a[j].hdr : j \in DOMAIN a}
    <3>1. Len(l) + 1 \in DOMAIN a
      BY <1>2
    <3> QED
      BY <1>1, <3>1
  <2> QED
    BY <2>1, <2>2, <2>3
<1> QED
  BY <1>3 DEF Segments, a

LEMMA SegmentsTail ==
  ASSUME NEW P, NEW l \in Seq(P), l # <<>>
  PROVE  Segments(l) = Segments(Tail(l)) \cup ({Head(l).hdr} \ {0})
<1> DEFINE t == Tail(l)
<1>1. /\ t \in Seq(P) /\ Len(t) = Len(l) - 1 /\ Len(l) \in Nat /\ Len(l) # 0
      /\ \A m \in 1 .. Len(t) : t[m] = l[m + 1]
  BY HeadTailProperties, LenProperties, EmptySeq
<1>2. Head(l) = l[1]
  BY HeadTailProperties
<1> HIDE DEF t
<1>3. DOMAIN l = 1 .. Len(l) /\ DOMAIN t = 1 .. Len(t)
  BY <1>1, LenProperties
<1>4. {l[i].hdr : i \in DOMAIN l} = {t[i].hdr : i \in DOMAIN t} \cup {l[1].hdr}
  <2>1. ASSUME NEW i \in DOMAIN l PROVE l[i].hdr \in {t[j].hdr : j \in DOMAIN t} \cup {l[1].hdr}
    <3>1. CASE i = 1
      BY <3>1
    <3>2. CASE i # 1
      <4>1. i - 1 \in DOMAIN t /\ t[i - 1] = l[i]
        BY <1>1, <1>3, <3>2
      <4> QED
        BY <4>1
    <3> QED
      BY <3>1, <3>2
  <2>2. ASSUME NEW i \in DOMAIN t PROVE t[i].hdr \in {l[j].hdr : j \in DOMAIN l}
    <3>1. i + 1 \in DOMAIN l /\ t[i] = l[i + 1]
      BY <1>1, <1>3
    <3> QED
      BY <3>1
  <2>3. 1 \in DOMAIN l
    BY <1>1, <1>3
  <2> QED
    BY <2>1, <2>2, <2>3
<1> QED
  BY <1>2, <1>4 DEF Segments, t

\* What sending a segment keeps.
LEMMA SendKeeps ==
  ASSUME TypeInv, HdrsInv, Conservation,
         NEW s, Turns(s), Tracks(s, link, highTx),
         NEW seg \in 1 .. MaxSeg, seg <= highTx + 1, SendDataPacket(seg, s),
         rexmit' \subseteq 1 .. highTx', una' \in Nat
  PROVE  PathInv'
<1>1. /\ link \in Seq(EndPacket) /\ highTx \in 0 .. MaxSeg /\ highTx \in Nat /\ MaxSeg \in Nat
      /\ seg \in Nat
  BY EndBoundsAssumption DEF TypeInv
<1>2. /\ TablesInv' /\ m_roundId' \in Nat /\ m_serial' \in Nat
      /\ HdrsWithin(gt_', highTx')
      /\ highTx' = IF seg <= highTx THEN highTx ELSE seg
      /\ \E p \in EndPacket : /\ link' = Append(link, p) /\ p.hdr = seg
                              /\ p.type \in {DATA, REXMIT}
  BY <1>1, SendTracks
<1>3. PICK p \in EndPacket : /\ link' = Append(link, p) /\ p.hdr = seg
                             /\ p.type \in {DATA, REXMIT}
  BY <1>2
<1>4. tq_' = tq_ /\ rcvd' = rcvd /\ lost' = lost
  BY DEF SendDataPacket, receiver
<1>5. /\ highTx' \in 0 .. MaxSeg /\ highTx <= highTx' /\ seg <= highTx'
      /\ 1 .. highTx' \subseteq 1 .. highTx \cup {seg} /\ 1 .. highTx \subseteq 1 .. highTx'
  BY <1>1, <1>2
<1>6. link' \in Seq(EndPacket)
  BY <1>1, <1>3, AppendProperties
<1>7. TypeInv'
  BY <1>2, <1>4, <1>5, <1>6 DEF TypeInv
<1>8. HdrsInv'
  <2>1. ASSUME NEW i \in 1 .. Len(link')
        PROVE  /\ link'[i].hdr <= highTx'
               /\ link'[i].type = REDUNDANT => link'[i].hdr = 0
    <3>1. /\ Len(link') = Len(link) + 1 /\ link'[Len(link) + 1] = p
          /\ \A m \in 1 .. Len(link) : link'[m] = link[m]
      BY <1>1, <1>3, AppendProperties
    <3>2. CASE i = Len(link) + 1
      BY <1>3, <1>5, <3>1, <3>2 DEF DATA, REDUNDANT, REXMIT
    <3>3. CASE i \in 1 .. Len(link)
      <4>1. link[i].hdr \in Nat
        <5>1. link[i] \in EndPacket
          BY <1>1, <3>3, ElementOfSeq
        <5> QED
          BY <5>1 DEF EndPacket
      <4>2. link[i].hdr <= highTx /\ (link[i].type = REDUNDANT => link[i].hdr = 0)
        BY <3>3 DEF HdrsInv
      <4> QED
        BY <1>1, <1>5, <3>1, <3>3, <4>1, <4>2
    <3> QED
      BY <1>1, <3>1, <3>2, <3>3, LenProperties
  <2>2. ASSUME NEW i \in 1 .. Len(tq_) PROVE tq_[i].hdr <= highTx'
    <3>1. tq_[i] \in EndPacket
      BY ElementOfSeq DEF TypeInv
    <3>2. tq_[i].hdr \in Nat /\ tq_[i].hdr <= highTx
      BY <3>1 DEF EndPacket, HdrsInv
    <3> QED
      BY <1>1, <1>5, <3>2
  <2> QED
    BY <1>2, <1>4, <2>1, <2>2 DEF HdrsInv
<1>9. Conservation'
  <2>1. Segments(link') = Segments(link) \cup ({seg} \ {0}) /\ seg # 0
    BY <1>1, <1>3, SegmentsAppend
  <2>2. Held' = Held /\ \A t : Losses(t)' = Losses(t)
    BY <1>4 DEF Held, Losses, Segments
  <2> QED
    BY <1>4, <1>5, <2>1, <2>2, ZenonT(60) DEF Conservation
<1> QED
  BY <1>2, <1>7, <1>8, <1>9 DEF PathInv

\* The receiver has not got all there is and more, so Delivered is defined.
LEMMA DeliveredExists ==
  ASSUME PathInv
  PROVE  Delivered \in Nat /\ Delivered \in 0 .. MaxSeg /\ 1 .. Delivered \subseteq rcvd
<1>1. highTx \in 0 .. MaxSeg /\ rcvd \subseteq 1 .. highTx /\ MaxSeg \in Nat
  BY EndBoundsAssumption DEF PathInv, TypeInv, Conservation
<1> DEFINE S == {k \in 1 .. MaxSeg + 1 : k \notin rcvd}
<1>2. S \in SUBSET Nat /\ MaxSeg + 1 \in S
  BY <1>1
<1>3. Min(S) \in S /\ \A y \in S : Min(S) <= y
  BY <1>2, MinIsLeast
<1>4. PICK k \in S : \A y \in S : k <= y
  BY <1>3
<1>5. k - 1 \in 0 .. MaxSeg /\ 1 .. k - 1 \subseteq rcvd /\ (k - 1) + 1 \notin rcvd
  BY <1>1, <1>4
<1>6. Delivered \in 0 .. MaxSeg /\ 1 .. Delivered \subseteq rcvd
  BY <1>5 DEF Delivered
<1> QED
  BY <1>1, <1>6

\* The packets on the path are in rounds that the tables know.
LEMMA LinkDescribed ==
  ASSUME PathInv, ~m_init
  PROVE  Described(link, rt_, gt_, m_roundId)
<1>1. link \in Seq(EndPacket) /\ Tracked(link, rt_, gt_, m_roundId, fc, m_groupId)
  BY DEF PathInv, TypeInv, TablesInv
<1>2. \A m \in 1 .. Len(link) : link[m] \in EndPacket
  BY <1>1, ElementOfSeq
<1>3. \A q \in EndPacket : q.type # NONE
  BY DEF EndPacket, NONE, DATA, REDUNDANT, REXMIT, RECOVERED
<1> QED
  BY <1>1, <1>2, <1>3 DEF Tracked, Described, Behind

\* The sending sides on which segments are sent have recorded the path.
LEMMA BegunTracks ==
  ASSUME EndInv, Idle, NEW s \in Begun
  PROVE  Turns(s) /\ Tracks(s, link, highTx)
<1>1. DOMAIN s = Fields /\ Turns(s)
  BY BegunTurns DEF EndInv
<1>2. CASE m_init
  <2>1. /\ DOMAIN Fec = Fields /\ Fec.gid = 0 /\ Fec.rid = m_roundId
        /\ Fec.rt = rt_ /\ Fec.gt = gt_
    BY <1>2 DEF Fec, Fields, EndInv, ShapeInv
  <2>2. m_roundId \in Nat /\ rt_ = <<>> /\ gt_ = <<>> /\ link = <<>>
    BY <1>2 DEF EndInv, PathInv, TypeInv, TablesInv
  <2>3. s \in Sized(Fec)
    BY <1>2 DEF Begun
  <2> QED
    BY <1>1, <2>1, <2>2, <2>3, FirstTracks
<1>3. CASE ~m_init
  <2>1. s = Fec
    BY <1>3 DEF Begun
  <2>2. /\ s.rt = rt_ /\ s.gt = gt_ /\ s.rid = m_roundId /\ s.fc = fc /\ s.gid = m_groupId
        /\ s.n = nGroups
    BY <2>1 DEF Fec
  <2>3. /\ Tracked(link, rt_, gt_, m_roundId, fc, m_groupId)
        /\ nGroups \in Sizes /\ rt_[Len(rt_)].n = nGroups /\ HdrsWithin(gt_, highTx)
    BY <1>3 DEF EndInv, PathInv, TablesInv, HdrsInv
  <2> QED
    BY <1>1, <2>2, <2>3 DEF Turns, Tracks
<1> QED
  BY <1>2, <1>3 DEF EndInv, ShapeInv

LEMMA ResetTracks ==
  ASSUME EndInv, NEW s \in Sized(Reset(Fec))
  PROVE  Turns(s) /\ Tracks(s, link, highTx)
<1> DEFINE b == Reset(Fec)
<1>1. /\ DOMAIN b = Fields /\ b.gid = 0 /\ b.rid = m_roundId + 1
      /\ b.rt = rt_ /\ b.gt = gt_
  BY DEF Reset, Fec, Fields
<1> HIDE DEF b
<1>2. s \in Sized(b)
  BY DEF b
<1>3. Turns(s)
  BY <1>1, <1>2, SizedTurns
<1>4. CASE m_init
  <2>1. m_roundId + 1 \in Nat /\ rt_ = <<>> /\ gt_ = <<>> /\ link = <<>>
    BY <1>4 DEF EndInv, PathInv, TypeInv, TablesInv
  <2> QED
    BY <1>1, <1>2, <1>3, <2>1, FirstTracks
<1>5. CASE ~m_init
  <2>1. Described(link, b.rt, b.gt, m_roundId) /\ HdrsWithin(b.gt, highTx)
    BY <1>1, <1>5, LinkDescribed DEF EndInv, PathInv, HdrsInv
  <2> QED
    BY <1>1, <1>2, <1>3, <2>1, NextTracks
<1> QED
  BY <1>4, <1>5 DEF EndInv, ShapeInv
-----------------------------------------------------------------------------
(* The actions of the sender keep the invariant *)

LEMMA SendNewKeeps ==
  ASSUME EndInv, SendNew
  PROVE  PathInv'
<1>1. PICK s \in Begun : SendDataPacket(highTx + 1, s)
  BY DEF SendNew
<1>2. Turns(s) /\ Tracks(s, link, highTx)
  BY BegunTracks DEF SendNew
<1>3. /\ TypeInv /\ HdrsInv /\ Conservation /\ highTx \in 0 .. MaxSeg /\ MaxSeg \in Nat
      /\ una \in Nat /\ rexmit = {} /\ rexmit' = rexmit /\ una' = una /\ highTx < MaxSeg
  BY EndBoundsAssumption DEF EndInv, PathInv, TypeInv, SendNew
<1>4. PICK seg \in 1 .. MaxSeg : seg = highTx + 1
  BY <1>3
<1>5. seg <= highTx + 1 /\ SendDataPacket(seg, s) /\ rexmit' \subseteq 1 .. highTx' /\ una' \in Nat
  BY <1>1, <1>3, <1>4
<1> QED
  BY <1>2, <1>3, <1>5, SendKeeps

LEMMA RetransmitKeeps ==
  ASSUME EndInv, Retransmit
  PROVE  PathInv'
<1>1. PICK s \in Begun : SendDataPacket(Min(rexmit), s)
  BY DEF Retransmit
<1>2. Turns(s) /\ Tracks(s, link, highTx)
  BY BegunTracks DEF Retransmit
<1>3. /\ TypeInv /\ HdrsInv /\ Conservation /\ highTx \in 0 .. MaxSeg /\ MaxSeg \in Nat
      /\ una \in Nat /\ rexmit \subseteq 1 .. highTx
  BY EndBoundsAssumption DEF EndInv, PathInv, TypeInv
<1>4. rexmit # {} /\ rexmit' \subseteq rexmit /\ una' = una
  BY DEF Retransmit
<1>5. Min(rexmit) \in 1 .. highTx
  <2>1. rexmit \in SUBSET Nat
    BY <1>3
  <2> QED
    BY <1>3, <1>4, <2>1, MinIsLeast
<1>6. PICK seg \in 1 .. highTx : seg = Min(rexmit)
  BY <1>5
<1>7. seg \in 1 .. MaxSeg /\ seg <= highTx + 1 /\ seg <= highTx /\ SendDataPacket(seg, s)
  BY <1>1, <1>3, <1>6
<1>8. highTx' = highTx
  BY <1>7 DEF SendDataPacket
<1> QED
  BY <1>2, <1>3, <1>4, <1>7, <1>8, SendKeeps

\* What rule 3 sends again is a segment that was sent.
LEMMA RetransmitRule3Sends ==
  ASSUME EndInv, RetransmitRule3
  PROVE  \E seg \in 1 .. highTx, s \in Begun : SendDataPacket(seg, s)
<1>1. PICK seg \in (una + 1 .. highTx) \ retrans : \E s \in Begun : SendDataPacket(seg, s)
  BY DEF RetransmitRule3
<1>2. highTx \in Nat /\ una \in Nat
  BY DEF EndInv, PathInv, TypeInv
<1>3. seg \in 1 .. highTx
  BY <1>2
<1> QED
  BY <1>1, <1>3

LEMMA RetransmitRule3Keeps ==
  ASSUME EndInv, RetransmitRule3
  PROVE  PathInv'
<1>1. PICK seg \in 1 .. highTx, s \in Begun : SendDataPacket(seg, s)
  BY RetransmitRule3Sends
<1>2. Turns(s) /\ Tracks(s, link, highTx)
  BY BegunTracks DEF RetransmitRule3
<1>3. /\ TypeInv /\ HdrsInv /\ Conservation /\ highTx \in 0 .. MaxSeg /\ MaxSeg \in Nat
      /\ una \in Nat /\ rexmit \subseteq 1 .. highTx
  BY EndBoundsAssumption DEF EndInv, PathInv, TypeInv
<1>4. rexmit' = rexmit /\ una' = una
  BY DEF RetransmitRule3
<1>5. seg \in 1 .. MaxSeg /\ seg <= highTx + 1 /\ seg <= highTx
  BY <1>3
<1>6. highTx' = highTx
  BY <1>1, <1>5 DEF SendDataPacket
<1> QED
  BY <1>1, <1>2, <1>3, <1>4, <1>5, <1>6, SendKeeps

\* Fast recovery and the retransmission timer.
LEMMA RecoverKeeps ==
  ASSUME EndInv, NEW seg \in 1 .. highTx + 1, seg <= MaxSeg, NEW marked, marked \subseteq 1 .. highTx,
         Recover(seg, marked), una' \in Nat
  PROVE  PathInv'
<1>1. PICK s \in Sized(Reset(Fec)) : SendDataPacket(seg, s)
  BY DEF Recover
<1>2. Turns(s) /\ Tracks(s, link, highTx)
  BY ResetTracks
<1>3. TypeInv /\ HdrsInv /\ Conservation /\ highTx \in 0 .. MaxSeg /\ MaxSeg \in Nat
  BY EndBoundsAssumption DEF EndInv, PathInv, TypeInv
<1>4. rexmit' \subseteq marked
  BY DEF Recover
<1>5. seg \in 1 .. MaxSeg /\ seg <= highTx + 1 /\ seg \in Nat
  BY <1>3
<1>6. highTx' = IF seg <= highTx THEN highTx ELSE seg
  BY <1>1 DEF SendDataPacket
<1>7. rexmit' \subseteq 1 .. highTx'
  BY <1>3, <1>4, <1>5, <1>6
<1> QED
  BY <1>1, <1>2, <1>3, <1>5, <1>7, SendKeeps

\* Fast recovery sends a segment that was marked, or the next one if there is
\* data, or the head, which was sent: one that is lost is behind it.
LEMMA EnterRecoverySends ==
  ASSUME EndInv, EnterRecovery
  PROVE  /\ una' \in Nat
         /\ \E seg \in 1 .. highTx + 1, marked \in SUBSET (1 .. highTx) :
              seg <= MaxSeg /\ Recover(seg, marked)
<1>1. una' = Delivered /\ Delivered \in 0 .. MaxSeg /\ 1 .. Delivered \subseteq rcvd
  BY DeliveredExists DEF EnterRecovery, EndInv
<1>2. highTx \in 0 .. MaxSeg /\ MaxSeg \in Nat /\ una \in Nat /\ rexmit \subseteq 1 .. highTx
  BY EndBoundsAssumption DEF EndInv, PathInv, TypeInv
<1>3. PICK x \in una + 1 .. highTx : x \notin rcvd
  BY DEF EnterRecovery, SackLost
<1>4. SackLost \subseteq 1 .. highTx
  <2>1. una + 1 .. highTx \subseteq 1 .. highTx
    BY <1>2
  <2> QED
    BY <2>1 DEF SackLost
<1> DEFINE marked == (rexmit \ rcvd) \cup (SackLost \ retrans)
           seg    == IF marked # {} THEN Min(marked)
                     ELSE IF highTx < MaxSeg THEN highTx + 1 ELSE Delivered + 1
<1>5. marked \in SUBSET (1 .. highTx)
  BY <1>2, <1>4
<1>6. Recover(seg, marked)
  BY DEF EnterRecovery
<1>7. marked # {} => Min(marked) \in 1 .. highTx
  <2>1. marked \in SUBSET Nat
    BY <1>2, <1>5
  <2> QED
    BY <1>5, <2>1, MinIsLeast
<1>8. Delivered + 1 \in 1 .. highTx
  BY <1>1, <1>2, <1>3
<1>9. seg \in 1 .. highTx + 1 /\ seg <= MaxSeg
  <2> HIDE DEF marked
  <2> QED
    BY <1>2, <1>7, <1>8
<1> HIDE DEF marked, seg
<1> QED
  BY <1>1, <1>5, <1>6, <1>9

LEMMA EnterRecoveryKeeps ==
  ASSUME EndInv, EnterRecovery
  PROVE  PathInv'
BY EnterRecoverySends, RecoverKeeps

\* The timer sends the head.
LEMMA ReTxTimeoutSends ==
  ASSUME EndInv, ReTxTimeout
  PROVE  /\ una' \in Nat
         /\ \E seg \in 1 .. highTx + 1, marked \in SUBSET (1 .. highTx) :
              seg <= MaxSeg /\ Recover(seg, marked)
<1>1. highTx \in 0 .. MaxSeg /\ MaxSeg \in Nat /\ una \in Nat /\ una' = una /\ una < highTx
  BY EndBoundsAssumption DEF EndInv, PathInv, TypeInv, ReTxTimeout
<1> DEFINE marked == una + 1 .. highTx \ rcvd
<1>2. marked \in SUBSET (1 .. highTx) /\ una + 1 \in 1 .. highTx + 1 /\ una + 1 <= MaxSeg
  BY <1>1
<1>3. Recover(una + 1, marked)
  BY DEF ReTxTimeout
<1> HIDE DEF marked
<1> QED
  BY <1>1, <1>2, <1>3

LEMMA ReTxTimeoutKeeps ==
  ASSUME EndInv, ReTxTimeout
  PROVE  PathInv'
BY ReTxTimeoutSends, RecoverKeeps

\* An acknowledgement moves una and the segments to retransmit, no packet.
LEMMA ReceivedAckKeeps ==
  ASSUME EndInv, ReceivedAck
  PROVE  PathInv'
<1>1. una' \in Nat
  BY DeliveredExists DEF ReceivedAck, EndInv
<1>2. highTx \in Nat /\ una \in Nat /\ rexmit \subseteq 1 .. highTx
  BY DEF EndInv, PathInv, TypeInv
<1>3. rexmit' \subseteq 1 .. highTx
  <2>1. una + 1 .. highTx \subseteq 1 .. highTx
    BY <1>2
  <2>2. SackLost \subseteq 1 .. highTx
    BY <2>1 DEF SackLost
  <2> QED
    BY <1>2, <2>2 DEF ReceivedAck
<1>4. /\ UNCHANGED <<m_init, fc, m_roundId, m_groupId, m_serial, nGroups, highTx, rt_, gt_>>
      /\ UNCHANGED <<tq_, rcvd, link, lost>>
  BY DEF ReceivedAck, sender, receiver
<1>5. TypeInv'
  BY <1>1, <1>3, <1>4 DEF EndInv, PathInv, TypeInv
<1>6. TablesInv' /\ HdrsInv'
  BY <1>4 DEF EndInv, PathInv, TablesInv, HdrsInv
<1>7. Conservation'
  BY <1>4 DEF EndInv, PathInv, Conservation, Held, Losses, Segments
<1> QED
  BY <1>5, <1>6, <1>7 DEF PathInv

\* A step of the burst: a redundant packet, and after the last one a new round.
LEMMA SendFecPacketKeeps ==
  ASSUME EndInv, SendFecPacket
  PROVE  PathInv'
<1> DEFINE e == [serial |-> m_serial, gid |-> m_groupId, fec |-> TRUE, hdr |-> 0,
                 check |-> FALSE, flag |-> FALSE]
           p == Tagged(Fec, REDUNDANT, m_serial, 0)
           s == [CreateFecPacket(Fec) EXCEPT !.ic = @ - 1]
           rt == RoundPush(rt_, e)
           gt == GroupPush(gt_, e)
<1>1. /\ ~m_init /\ fc = 0 /\ m_init' = m_init /\ link' = Append(link, p)
      /\ UNCHANGED <<highTx, una, rexmit, tq_, rcvd, lost>>
  BY DEF SendFecPacket, Idle, tcp, receiver
<1>2. /\ nGroups \in Nat \ {0} /\ m_groupId \in 0 .. nGroups - 1
      /\ m_groupId = nGroups - ic /\ ic \in Int
  <2>1. ShapeInv
    BY DEF EndInv
  <2> QED
    BY <1>1, <2>1, SMTT(30) DEF ShapeInv, RoundShape
<1>3. /\ DOMAIN s = Fields /\ s.n = nGroups /\ s.fc = fc /\ s.ic = ic - 1
      /\ s.rt = rt /\ s.gt = gt
      /\ ic - 1 = 0 => s.gid = 0 /\ s.rid = m_roundId + 1
      /\ ic - 1 # 0 => s.gid = m_groupId + 1 /\ s.rid = m_roundId
  <2>1. /\ DOMAIN s = Fields /\ s.n = nGroups /\ s.fc = fc /\ s.ic = ic - 1
        /\ s.rt = rt /\ s.gt = gt
        /\ LET last == nGroups = 1 \/ m_groupId + 1 = nGroups
           IN  /\ s.gid = IF last THEN 0 ELSE m_groupId + 1
               /\ s.rid = IF last THEN m_roundId + 1 ELSE m_roundId
    BY DEF CreateFecPacket, Push, Fec, Fields
  <2>2. (nGroups = 1 \/ m_groupId + 1 = nGroups) <=> ic - 1 = 0
    BY <1>2
  <2> QED
    BY <2>1, <2>2
<1>4. /\ TypeInv /\ TablesInv /\ HdrsInv /\ Conservation
      /\ link \in Seq(EndPacket) /\ m_roundId \in Nat /\ m_serial \in Nat /\ highTx \in Nat
  BY DEF EndInv, PathInv, TypeInv
<1>5. /\ Tracked(link, rt_, gt_, m_roundId, fc, m_groupId) /\ nGroups \in Sizes
      /\ rt_[Len(rt_)].n = nGroups /\ HdrsWithin(gt_, highTx)
      /\ gt_ \in Seq(GroupFecTable) /\ gt_ # <<>> /\ Behind(link, m_roundId, fc, m_groupId)
  BY <1>1, <1>4 DEF TablesInv, HdrsInv, Tracked, Ending
<1>6. m_groupId \in Groups /\ m_groupId \in Nat /\ m_groupId < nGroups
  <2>1. nGroups \in Sizes
    BY <1>5
  <2> QED
    BY <1>2, <2>1, NGroupsAssumption DEF Sizes, Groups
<1>7. e \in PacketInfo /\ e.serial = m_serial /\ e.gid = m_groupId /\ e.hdr = 0
  BY <1>4, <1>6 DEF PacketInfo
<1>8. /\ p \in EndPacket /\ p.serial = m_serial /\ p.gid = m_groupId /\ p.rid = m_roundId
      /\ p.hdr = 0 /\ p.type = REDUNDANT
  BY <1>2, <1>4, <1>6 DEF EndPacket, Tagged, Fec
<1>9. PICK t \in IF s.ic = 0 THEN Sized(s) ELSE {s} : Becomes(t)
  BY DEF SendFecPacket
<1> HIDE DEF e, p, s
<1>10. Described(link', rt, gt, m_roundId) /\ rt[Len(rt)].n = nGroups
  <2>1. p.type \in {DATA, REDUNDANT, REXMIT} /\ m_groupId < rt_[Len(rt_)].n
    BY <1>5, <1>6, <1>8
  <2> QED
    BY <1>1, <1>4, <1>5, <1>7, <1>8, <2>1, PushDescribed
<1>11. HdrsWithin(gt, highTx)
  <2>1. e.hdr <= highTx
    BY <1>4, <1>7
  <2> QED
    BY <1>5, <1>7, <2>1, HdrsPush
<1> HIDE DEF rt, gt
<1>12. Tracks(t, link', highTx)
  <2>1. CASE ic - 1 = 0
    BY <1>3, <1>9, <1>10, <1>11, <2>1, NextTracks
  <2>2. CASE ic - 1 # 0
    <3>1. Behind(link', m_roundId, 0, m_groupId + 1)
      BY <1>1, <1>4, <1>5, <1>6, <1>8, PushBehind
    <3>2. Tracked(link', rt, gt, m_roundId, 0, m_groupId + 1)
      BY <1>10, <3>1 DEF Described, Tracked
    <3>3. m_groupId + 1 \in 0 .. nGroups - 1
      BY <1>2, <2>2
    <3> QED
      BY <1>1, <1>3, <1>5, <1>9, <1>10, <1>11, <2>2, <3>2, <3>3 DEF Tracks
  <2> QED
    BY <2>1, <2>2
<1>13. /\ rt_' = t.rt /\ gt_' = t.gt /\ m_roundId' = t.rid /\ fc' = t.fc /\ m_groupId' = t.gid
       /\ nGroups' = t.n
  BY <1>9 DEF Becomes
<1>14. TablesInv' /\ m_roundId' \in Nat /\ HdrsWithin(gt_', highTx')
  BY <1>1, <1>12, <1>13 DEF Tracks, Tracked, TablesInv
<1>15. link' \in Seq(EndPacket)
  BY <1>10 DEF Described
<1>16. TypeInv'
  <2>1. m_serial' \in Nat
    BY <1>4 DEF SendFecPacket
  <2> QED
    BY <1>1, <1>4, <1>14, <1>15, <2>1 DEF TypeInv
<1>17. HdrsInv'
  <2>1. ASSUME NEW i \in 1 .. Len(link')
        PROVE  /\ link'[i].hdr <= highTx
               /\ link'[i].type = REDUNDANT => link'[i].hdr = 0
    <3>1. /\ Len(link') = Len(link) + 1 /\ link'[Len(link) + 1] = p
          /\ \A m \in 1 .. Len(link) : link'[m] = link[m]
      BY <1>1, <1>4, <1>8, AppendProperties
    <3>2. CASE i = Len(link) + 1
      BY <1>4, <1>8, <3>1, <3>2
    <3>3. CASE i \in 1 .. Len(link)
      BY <1>4, <3>1, <3>3 DEF HdrsInv
    <3> QED
      BY <1>4, <3>1, <3>2, <3>3, LenProperties
  <2> QED
    BY <1>1, <1>4, <1>14, <2>1 DEF HdrsInv
<1>18. Conservation'
  <2>1. Segments(link') = Segments(link)
    <3>1. Segments(Append(link, p)) = Segments(link) \cup ({p.hdr} \ {0})
      BY <1>4, <1>8, SegmentsAppend
    <3> QED
      BY <1>1, <1>8, <3>1
  <2>2. Held' = Held /\ \A T : Losses(T)' = Losses(T)
    BY <1>1 DEF Held, Losses, Segments
  <2> QED
    BY <1>1, <1>4, <2>1, <2>2 DEF Conservation
<1> QED
  BY <1>14, <1>16, <1>17, <1>18 DEF PathInv

\* The path loses the packet at its head.
LEMMA LoseKeeps ==
  ASSUME EndInv, Lose
  PROVE  PathInv'
<1> DEFINE p == Head(link)
<1>1. /\ TypeInv /\ TablesInv /\ HdrsInv /\ Conservation
      /\ link \in Seq(EndPacket) /\ lost \in Seq(EndPacket)
  BY DEF EndInv, PathInv, TypeInv
<1>2. /\ link # <<>> /\ link' = Tail(link) /\ lost' = Append(lost, p)
      /\ UNCHANGED <<m_init, fc, m_roundId, m_groupId, m_serial, nGroups, highTx, una, rexmit>>
      /\ UNCHANGED <<rt_, gt_, tq_, rcvd>>
  BY DEF Lose, sender, tcp, receiver
<1>3. /\ link' \in Seq(EndPacket) /\ p \in EndPacket /\ Len(link') = Len(link) - 1
      /\ Len(link) \in Nat /\ Len(link) # 0 /\ p = link[1]
      /\ \A m \in 1 .. Len(link') : link'[m] = link[m + 1]
  BY <1>1, <1>2, HeadTailProperties, LenProperties, EmptySeq
<1>4. lost' \in Seq(EndPacket)
  BY <1>1, <1>2, <1>3, AppendProperties
<1>5. TypeInv'
  BY <1>1, <1>2, <1>3, <1>4 DEF TypeInv
<1>6. TablesInv'
  <2>1. ~m_init /\ Tracked(link, rt_, gt_, m_roundId, fc, m_groupId)
    BY <1>1, <1>2 DEF TablesInv
  <2>2. Tracked(link', rt_, gt_, m_roundId, fc, m_groupId)
    BY <1>1, <1>2, <2>1, PathTail DEF Tracked
  <2> QED
    BY <1>1, <1>2, <2>1, <2>2 DEF TablesInv
<1>7. HdrsInv'
  <2>1. \A m \in 1 .. Len(link') : m + 1 \in 1 .. Len(link)
    BY <1>3
  <2> QED
    BY <1>1, <1>2, <1>3, <2>1 DEF HdrsInv
<1>8. Conservation'
  <2>1. Segments(link) = Segments(link') \cup ({p.hdr} \ {0})
    BY <1>1, <1>2, SegmentsTail
  <2>2. /\ Len(lost') = Len(lost) + 1 /\ lost'[Len(lost) + 1] = p /\ Len(lost) \in Nat
        /\ \A m \in 1 .. Len(lost) : lost'[m] = lost[m]
        /\ DOMAIN lost = 1 .. Len(lost) /\ DOMAIN lost' = 1 .. Len(lost')
    BY <1>1, <1>2, <1>3, <1>4, AppendProperties, LenProperties
  <2> DEFINE T == {DATA, REXMIT}
             hdrs == {lost[i].hdr : i \in Losses(T)}
             hdrsNew == {lost'[i].hdr : i \in Losses(T)'}
  <2>3. hdrs \subseteq hdrsNew
    <3> SUFFICES ASSUME NEW i \in Losses(T) PROVE i \in Losses(T)' /\ lost'[i] = lost[i]
      OBVIOUS
    <3>1. i \in 1 .. Len(lost) /\ lost[i].type \in T
      BY <2>2 DEF Losses
    <3> QED
      BY <2>2, <3>1 DEF Losses
  <2>4. p.hdr = 0 \/ p.hdr \in hdrsNew
    <3>1. p.type \in T \/ p.type = REDUNDANT
      <4>1. ~m_init /\ Covered(link, rt_, gt_, m_roundId)
        BY <1>1, <1>2 DEF TablesInv, Tracked
      <4>2. p.type # NONE
        BY <1>3 DEF EndPacket, NONE, DATA, REDUNDANT, REXMIT, RECOVERED
      <4>3. 1 \in 1 .. Len(link)
        BY <1>3
      <4>4. Recorded(rt_, gt_, m_roundId, p)
        BY <1>3, <4>1, <4>2, <4>3 DEF Covered
      <4> QED
        BY <4>4 DEF Recorded
    <3>2. p.type = REDUNDANT => p.hdr = 0
      BY <1>1, <1>3 DEF HdrsInv
    <3>3. p.type \in T => Len(lost) + 1 \in Losses(T)'
      BY <2>2 DEF Losses
    <3> QED
      BY <2>2, <3>1, <3>2, <3>3
  <2>5. Held' = Held
    BY <1>2 DEF Held, Segments
  <2> HIDE DEF p
  <2>6. /\ rcvd \cup Held \subseteq 1 .. highTx
        /\ 1 .. highTx \subseteq rcvd \cup Held \cup Segments(link) \cup hdrs
    BY <1>1 DEF Conservation
  <2>7. Conservation' <=>
          /\ rcvd' \cup Held' \subseteq 1 .. highTx'
          /\ 1 .. highTx' \subseteq rcvd' \cup Held' \cup Segments(link') \cup hdrsNew
    BY DEF Conservation
  <2> HIDE DEF hdrs, hdrsNew
  <2> QED
    BY <1>2, <2>1, <2>3, <2>4, <2>5, <2>6, <2>7
<1> QED
  BY <1>5, <1>6, <1>7, <1>8 DEF PathInv
-----------------------------------------------------------------------------
(* The receiver *)

\* FecAgent::CheckRoundFecTable closes the round or leaves the table alone.
LEMMA CheckRoundEndPass ==
  ASSUME NEW rt \in Seq(RoundFecTable), NEW p, Tag(p), rt # <<>>, rt[1].rid = p.rid
  PROVE  /\ ClosesRound(rt, p) => RoundsAfter(CheckRoundFecTableEnd(rt, p).rt, rt, 1)
         /\ ~ClosesRound(rt, p) => RoundsAfter(CheckRoundFecTableEnd(rt, p).rt, rt, 0)
<1>1. p.rid \in Int /\ ~(p.rid < rt[1].rid)
  BY DEF Tag
<1>2. CheckRoundFecTableEnd(rt, p).rt = IF ClosesRound(rt, p) THEN Tail(rt) ELSE rt
  BY <1>1 DEF CheckRoundFecTableEnd
<1>3. RoundsAfter(rt, rt, 0)
  <2>1. \A i \in 1 .. Len(rt) : 0 + i = i /\ SameList(rt[i].pi, rt[i].pi)
    BY DEF SameList
  <2>2. Len(rt) = Len(rt) - 0
    BY LenProperties
  <2> QED
    BY <2>1, <2>2 DEF RoundsAfter
<1>4. RoundsAfter(Tail(rt), rt, 1)
  <2>1. /\ Tail(rt) \in Seq(RoundFecTable) /\ Len(Tail(rt)) = Len(rt) - 1
        /\ \A i \in 1 .. Len(Tail(rt)) : Tail(rt)[i] = rt[i + 1]
    BY HeadTailProperties
  <2>2. \A i \in 1 .. Len(Tail(rt)) : i + 1 = 1 + i /\ SameList(rt[i + 1].pi, rt[i + 1].pi)
    BY <2>1 DEF SameList
  <2> QED
    BY <2>1, <2>2 DEF RoundsAfter
<1> QED
  BY <1>2, <1>3, <1>4

\* What a transit queue holds after a packet was inserted.
LEMMA InsertSegments ==
  ASSUME NEW tq \in Seq(EndPacket), NEW p \in EndPacket, NEW h,
         \A i \in 1 .. Len(tq) : tq[i].hdr <= h, p.hdr <= h,
         NEW r, r = InsertTransitQueue(tq, p)
  PROVE  /\ r \in Seq(EndPacket) /\ \A i \in 1 .. Len(r) : r[i].hdr <= h
         /\ Segments(r) = Segments(tq) \cup ({p.hdr} \ {0})
<1>1. r \in Seq(EndPacket)
  BY InsertType
<1>2. DOMAIN r = 1 .. Len(r) /\ DOMAIN tq = 1 .. Len(tq)
  BY <1>1, LenProperties
<1>3. {r[i] : i \in DOMAIN r} = {tq[i] : i \in DOMAIN tq} \cup {p}
  <2>1. ToSet(r) = ToSet(tq) \cup {p}
    BY InsertElements
  <2> QED
    BY <2>1 DEF ToSet
<1>4. \A i \in DOMAIN r : r[i] = p \/ \E j \in DOMAIN tq : r[i] = tq[j]
  BY <1>3
<1>5. \A i \in 1 .. Len(r) : r[i].hdr <= h
  BY <1>2, <1>4
<1>6. {r[i].hdr : i \in DOMAIN r} = {tq[i].hdr : i \in DOMAIN tq} \cup {p.hdr}
  <2>1. ASSUME NEW j \in DOMAIN tq PROVE \E i \in DOMAIN r : r[i] = tq[j]
    BY <1>3
  <2>2. \E i \in DOMAIN r : r[i] = p
    BY <1>3
  <2> QED
    BY <1>4, <2>1, <2>2
<1> QED
  BY <1>1, <1>5, <1>6 DEF Segments

\* A packet is kept without being in the transit queue only if it has no segment.
LEMMA KeptIsHeld ==
  ASSUME NEW p, p.type \in {DATA, REDUNDANT, REXMIT}, NEW a, NEW b, NEW c, NEW d
  PROVE  RecvFlag(p, a, b, c, d) = 1 => p.type \in {DATA, REDUNDANT}
BY DEF RecvFlag, DATA, REDUNDANT, REXMIT

\* Recv on the packet at the head of the path: every search on the way ends,
\* the tables still describe the packets behind, and nothing is dropped.
LEMMA RecvKeeps ==
  ASSUME EndInv, Idle, link # <<>>, NEW p, p = Head(link),
         NEW tq \in Seq(EndPacket), \A i \in 1 .. Len(tq) : tq[i].hdr <= highTx,
         NEW r, r = Recv(tq, p)
  PROVE  /\ Serves(p)
         /\ Tracked(Tail(link), r.rt, r.gt, m_roundId, fc, m_groupId)
         /\ r.rt[Len(r.rt)].n = nGroups /\ HdrsWithin(r.gt, highTx)
         /\ r.tq \in Seq(EndPacket) /\ \A i \in 1 .. Len(r.tq) : r.tq[i].hdr <= highTx
         /\ Segments(tq) \subseteq Segments(r.tq)
         /\ r.flag = 1 => p.hdr = 0 \/ p.hdr \in Segments(r.tq)
<1> DEFINE mark == MarkRoundFecTable(rt_, p)
           chk  == CheckRoundFecTableEnd(mark, p)
           grp  == MarkGroupFecTable(chk.rt, gt_, p)
           rec  == IF p.type = REDUNDANT
                   THEN CheckGroupFecTable(chk.rt, grp.gt, p, grp.nlost)
                   ELSE [gt |-> grp.gt, mlost |-> 0, recovered |-> <<>>]
           id   == IF p.type = REXMIT /\ grp.nlost <= p.n THEN p.rid ELSE ackSendId
           flag == RecvFlag(p, chk.sumlost, grp.nlost, rec.mlost, id)
           br   == m_roundId - Len(rt_)
<1>1. /\ link \in Seq(EndPacket) /\ ~m_init /\ fc # 0
      /\ Tracked(link, rt_, gt_, m_roundId, fc, m_groupId)
      /\ rt_[Len(rt_)].n = nGroups /\ HdrsWithin(gt_, highTx) /\ highTx \in Nat
      /\ HdrsInv
  BY DEF EndInv, PathInv, TypeInv, TablesInv, HdrsInv, Idle
<1>2. p \in EndPacket /\ p.type # NONE /\ Len(link) \in Nat /\ 1 \in 1 .. Len(link) /\ p = link[1]
  <2>1. p \in EndPacket /\ Len(link) \in Nat /\ 1 \in 1 .. Len(link) /\ p = link[1]
    BY <1>1, HeadTailProperties, LenProperties, EmptySeq
  <2> QED
    BY <2>1 DEF EndPacket, NONE, DATA, REDUNDANT, REXMIT, RECOVERED
<1>3. /\ Tag(p) /\ p.type \in {DATA, REDUNDANT, REXMIT}
      /\ \E n \in 1 .. Len(rt_) : /\ n = Index(rt_, m_roundId, p) /\ RoundHas(rt_[n], p)
                                  /\ p.rid = br + n
      /\ \E m \in 1 .. Len(gt_) : m = Index(gt_, m_roundId, p)
  BY <1>1, <1>2, EndTags, HeadTracked
<1>4. PICK n \in 1 .. Len(rt_) : /\ n = Index(rt_, m_roundId, p) /\ RoundHas(rt_[n], p)
                                 /\ p.rid = br + n
  BY <1>3
<1>5. PICK m \in 1 .. Len(gt_) : m = Index(gt_, m_roundId, p)
  BY <1>3
<1>6. AtHead(EndPacket, link, rt_, gt_, m_roundId, fc, m_groupId, p, n, m)
  BY <1>1, <1>2, <1>4, <1>5, EndTags DEF AtHead
<1>7. rt_ \in Seq(RoundFecTable) /\ Rounds(rt_, br) /\ br \in Int /\ Len(gt_) \in Nat
  BY <1>1, LenProperties DEF Tracked, Ending
<1> HIDE DEF br
<1>8. /\ RoundServes(rt_, p) /\ mark \in Seq(RoundFecTable) /\ mark # <<>> /\ mark[1].rid = p.rid
  BY <1>3, <1>4, <1>7, MarkRoundPass DEF RoundsAfter
<1>9. /\ ClosesRound(mark, p) => RoundsAfter(chk.rt, mark, 1)
      /\ ~ClosesRound(mark, p) => RoundsAfter(chk.rt, mark, 0)
  <2> HIDE DEF mark
  <2> QED
    BY <1>3, <1>8, CheckRoundEndPass
<1> HIDE DEF chk
<1>10. RoundsSettled(chk.rt, rt_, n, p)
  BY <1>3, <1>4, <1>7, <1>9, RoundPass
<1>11. grp = MarkGroupFecTable(chk.rt, gt_, p)
  OBVIOUS
<1>12. rec = IF p.type = REDUNDANT
             THEN CheckGroupFecTable(chk.rt, grp.gt, p, grp.nlost)
             ELSE [gt |-> grp.gt, mlost |-> 0, recovered |-> <<>>]
  OBVIOUS
<1> HIDE DEF rec, grp
<1>13. /\ GroupServes(chk.rt, gt_, p)
       /\ GroupsSettled(gt_, gt_, m, p) /\ GroupsSettled(rec.gt, gt_, m, p)
       /\ rec.recovered \in Seq(PacketInfo)
       /\ rec.recovered # <<>> => FromTable(rec.recovered[1], gt_)
  <2> HIDE DEF mark
  <2> QED
    BY <1>6, <1>10, <1>11, <1>12, GroupsLeft
<1>14. Serves(p)
  BY <1>8, <1>13 DEF Serves, chk
<1>15. /\ r.rt = chk.rt /\ (r.gt = gt_ \/ r.gt = rec.gt)
       /\ \/ r.flag # 1 /\ r.tq = tq
          \/ /\ r.flag = flag
             /\ r.tq = IF flag = 1 /\ p.type = DATA THEN InsertTransitQueue(tq, p)
                       ELSE IF rec.recovered = <<>> THEN tq
                       ELSE InsertTransitQueue(tq, RecoveryPacket(p, rec.recovered[1]))
  <2> DEFINE A == [rt |-> chk.rt, gt |-> gt_, tq |-> tq, recovered |-> <<>>, id |-> ackSendId,
                   flag |-> RecvFlag(p, chk.sumlost, 0, 0, ackSendId)]
             B == [rt |-> chk.rt, gt |-> rec.gt, recovered |-> rec.recovered, id |-> id,
                   flag |-> flag,
                   tq |-> IF flag = 1 /\ p.type = DATA THEN InsertTransitQueue(tq, p)
                          ELSE IF rec.recovered = <<>> THEN tq
                          ELSE InsertTransitQueue(tq, RecoveryPacket(p, rec.recovered[1]))]
  <2>1. r = IF chk.sumlost > p.n THEN A ELSE B
    BY Zenon DEF Recv, chk, grp, rec
  <2> HIDE DEF flag, id
  <2>2. CASE chk.sumlost > p.n
    <3>1. r = A
      BY <2>1, <2>2
    <3>2. r.rt = chk.rt /\ r.gt = gt_ /\ r.tq = tq /\ r.flag = RecvFlag(p, chk.sumlost, 0, 0, ackSendId)
      BY <3>1
    <3>3. RecvFlag(p, chk.sumlost, 0, 0, ackSendId) = 2
      BY <2>2 DEF RecvFlag
    <3> QED
      BY <3>2, <3>3
  <2>3. CASE ~(chk.sumlost > p.n)
    <3>1. r = B
      BY <2>1, <2>3
    <3> QED
      BY <3>1
  <2> QED
    BY <2>2, <2>3
<1>16. /\ Tracked(Tail(link), r.rt, r.gt, m_roundId, fc, m_groupId)
       /\ r.rt[Len(r.rt)].n = nGroups
  <2>1. GroupsSettled(r.gt, gt_, m, p) /\ RoundsSettled(r.rt, rt_, n, p)
    BY <1>10, <1>13, <1>15
  <2>2. /\ Tracked(Tail(link), r.rt, r.gt, m_roundId, fc, m_groupId)
        /\ r.rt[Len(r.rt)].n = rt_[Len(rt_)].n
    <3> HIDE DEF mark, flag, id
    <3> QED
      BY <1>6, <2>1, SettledTracks
  <2> QED
    BY <1>1, <2>2
<1>17. HdrsWithin(r.gt, highTx)
  <2>1. GroupsSettled(r.gt, gt_, m, p) /\ m \in Nat
    BY <1>7, <1>13, <1>15
  <2> QED
    BY <1>1, <1>7, <2>1, HdrsSettled
<1>18. p.hdr <= highTx /\ (p.type = REDUNDANT => p.hdr = 0)
  BY <1>1, <1>2 DEF HdrsInv
<1>19. rec.recovered # <<>> =>
         /\ RecoveryPacket(p, rec.recovered[1]) \in EndPacket
         /\ RecoveryPacket(p, rec.recovered[1]).hdr <= highTx
  <2> SUFFICES ASSUME rec.recovered # <<>>
               PROVE  /\ RecoveryPacket(p, rec.recovered[1]) \in EndPacket
                      /\ RecoveryPacket(p, rec.recovered[1]).hdr <= highTx
    OBVIOUS
  <2>1. rec.recovered[1] \in PacketInfo
    BY <1>13
  <2>2. rec.recovered[1].hdr <= highTx
    BY <1>1, <1>13 DEF FromTable, HdrsWithin
  <2> DEFINE x == rec.recovered[1]
  <2> HIDE DEF x
  <2>3. RecoveryPacket(p, x) \in EndPacket /\ RecoveryPacket(p, x).hdr = x.hdr
    BY <1>2, <2>1 DEF RecoveryPacket, EndPacket, PacketInfo, x
  <2> QED
    BY <2>2, <2>3 DEF x
<1> HIDE DEF flag
<1>20. \/ r.tq = tq
       \/ r.tq = InsertTransitQueue(tq, p)
       \/ /\ rec.recovered # <<>>
          /\ r.tq = InsertTransitQueue(tq, RecoveryPacket(p, rec.recovered[1]))
  BY <1>15
<1>21. /\ r.tq \in Seq(EndPacket) /\ \A i \in 1 .. Len(r.tq) : r.tq[i].hdr <= highTx
       /\ Segments(tq) \subseteq Segments(r.tq)
       /\ r.tq = InsertTransitQueue(tq, p) => p.hdr = 0 \/ p.hdr \in Segments(r.tq)
  <2>1. CASE r.tq = InsertTransitQueue(tq, p)
    BY <1>2, <1>18, <2>1, InsertSegments
  <2>2. CASE /\ rec.recovered # <<>>
             /\ r.tq = InsertTransitQueue(tq, RecoveryPacket(p, rec.recovered[1]))
    <3> DEFINE x == RecoveryPacket(p, rec.recovered[1])
    <3>1. x \in EndPacket /\ x.hdr <= highTx /\ r.tq = InsertTransitQueue(tq, x)
      BY <1>19, <2>2
    <3> HIDE DEF x
    <3>2. /\ r.tq \in Seq(EndPacket) /\ \A i \in 1 .. Len(r.tq) : r.tq[i].hdr <= highTx
          /\ Segments(tq) \subseteq Segments(r.tq)
      BY <3>1, InsertSegments
    <3> QED
      BY <2>1, <3>2
  <2>3. CASE r.tq = tq
    BY <2>1, <2>3
  <2> QED
    BY <1>20, <2>1, <2>2, <2>3
<1>22. r.flag = 1 => p.hdr = 0 \/ p.hdr \in Segments(r.tq)
  <2> SUFFICES ASSUME r.flag = 1 PROVE p.hdr = 0 \/ p.hdr \in Segments(r.tq)
    OBVIOUS
  <2>1. flag = 1 => p.type \in {DATA, REDUNDANT}
    BY <1>3, KeptIsHeld DEF flag
  <2>2. p.type = REDUNDANT \/ r.tq = InsertTransitQueue(tq, p)
    BY <1>15, <2>1
  <2> QED
    BY <1>18, <1>21, <2>2
<1> QED
  BY <1>14, <1>16, <1>17, <1>21, <1>22

LEMMA SegmentsWithin ==
  ASSUME NEW tq \in Seq(EndPacket), NEW h \in Nat, \A i \in 1 .. Len(tq) : tq[i].hdr <= h
  PROVE  Segments(tq) \subseteq 1 .. h
<1> SUFFICES ASSUME NEW i \in DOMAIN tq, tq[i].hdr # 0 PROVE tq[i].hdr \in 1 .. h
  BY DEF Segments
<1>1. i \in 1 .. Len(tq)
  BY LenProperties
<1>2. tq[i] \in EndPacket
  BY <1>1, ElementOfSeq
<1>3. tq[i].hdr \in Nat
  BY <1>2 DEF EndPacket
<1> QED
  BY <1>1, <1>3

\* ForwardUp gives every segment to TCP or holds it.
LEMMA ForwardUpKeeps ==
  ASSUME EndInv, ForwardUp
  PROVE  PathInv'
<1> DEFINE p     == Head(link)
           newer == rid_ < p.rid
           q     == IF newer THEN <<>> ELSE tq_
           r     == Recv(q, p)
<1>1. /\ TypeInv /\ TablesInv /\ HdrsInv /\ Conservation
      /\ link \in Seq(EndPacket) /\ tq_ \in Seq(EndPacket) /\ highTx \in Nat
  BY DEF EndInv, PathInv, TypeInv
<1>2. /\ Idle /\ link # <<>> /\ link' = Tail(link)
      /\ UNCHANGED <<m_init, fc, m_roundId, m_groupId, m_serial, nGroups, highTx, una, rexmit, lost>>
  BY DEF ForwardUp, sender, tcp
<1>3. /\ rt_' = r.rt /\ gt_' = r.gt /\ tq_' = IF r.flag = 2 THEN <<>> ELSE r.tq
      /\ rcvd' = rcvd \cup (IF newer THEN Segments(tq_) ELSE {})
                      \cup (IF r.flag = 2 THEN Segments(r.tq) ELSE {})
                      \cup (IF r.flag # 1 THEN Segments(<<p>>) ELSE {})
  BY DEF ForwardUp
<1>4. <<>> \in Seq(EndPacket) /\ Len(<<>>) = 0 /\ Segments(<<>>) = {}
  BY DEF Segments
<1>5. q \in Seq(EndPacket) /\ \A i \in 1 .. Len(q) : q[i].hdr <= highTx
  BY <1>1, <1>4 DEF HdrsInv
<1>6. /\ Tracked(link', r.rt, r.gt, m_roundId, fc, m_groupId)
      /\ r.rt[Len(r.rt)].n = nGroups /\ HdrsWithin(r.gt, highTx)
      /\ r.tq \in Seq(EndPacket) /\ \A i \in 1 .. Len(r.tq) : r.tq[i].hdr <= highTx
      /\ Segments(q) \subseteq Segments(r.tq)
      /\ r.flag = 1 => p.hdr = 0 \/ p.hdr \in Segments(r.tq)
  <2> HIDE DEF p, q, r
  <2>1. p = Head(link) /\ r = Recv(q, p)
    BY DEF p, r
  <2> QED
    BY <1>2, <1>5, <2>1, RecvKeeps
<1> HIDE DEF r
<1>7. /\ link' \in Seq(EndPacket) /\ p \in EndPacket /\ Len(link') = Len(link) - 1
      /\ Len(link) \in Nat /\ Len(link) # 0 /\ p = link[1]
      /\ \A m \in 1 .. Len(link') : link'[m] = link[m + 1]
  BY <1>1, <1>2, HeadTailProperties, LenProperties, EmptySeq
<1>8. TypeInv'
  BY <1>1, <1>2, <1>3, <1>4, <1>6, <1>7 DEF TypeInv
<1>9. TablesInv'
  <2>1. ~m_init
    BY <1>1, <1>2 DEF TablesInv
  <2> QED
    BY <1>1, <1>2, <1>3, <1>6, <2>1 DEF TablesInv
<1>10. HdrsInv'
  <2>1. \A m \in 1 .. Len(link') : m + 1 \in 1 .. Len(link)
    BY <1>7
  <2>2. \A i \in 1 .. Len(link') : /\ link'[i].hdr <= highTx
                                   /\ link'[i].type = REDUNDANT => link'[i].hdr = 0
    BY <1>1, <1>7, <2>1 DEF HdrsInv
  <2>3. \A i \in 1 .. Len(tq_') : tq_'[i].hdr <= highTx
    BY <1>3, <1>4, <1>6
  <2>4. HdrsWithin(gt_', highTx)
    BY <1>3, <1>6
  <2>5. highTx' = highTx
    BY <1>2
  <2> HIDE DEF p, q, newer
  <2> QED
    BY <2>2, <2>3, <2>4, <2>5 DEF HdrsInv
<1>11. Conservation'
  <2>1. p.hdr <= highTx /\ p.hdr \in Nat
    <3>1. 1 \in 1 .. Len(link)
      BY <1>7
    <3> QED
      BY <1>1, <1>7, <3>1 DEF HdrsInv, EndPacket
  <2>2. Segments(<<p>>) = {p.hdr} \ {0} /\ Segments(<<p>>) \subseteq 1 .. highTx
    <3>1. Segments(<<p>>) = {p.hdr} \ {0}
      BY DEF Segments
    <3> QED
      BY <1>1, <2>1, <3>1
  <2>3. Segments(r.tq) \subseteq 1 .. highTx
    BY <1>1, <1>6, SegmentsWithin
  <2>4. Segments(link) = Segments(link') \cup ({p.hdr} \ {0})
    BY <1>1, <1>2, SegmentsTail
  <2>5. Held = Segments(tq_) /\ Held' = IF r.flag = 2 THEN {} ELSE Segments(r.tq)
    BY <1>3, <1>4 DEF Held
  <2>6. newer \/ Segments(tq_) \subseteq Segments(r.tq)
    BY <1>6
  <2> DEFINE L == {lost[i].hdr : i \in Losses({DATA, REXMIT})}
  <2>7. /\ rcvd \cup Held \subseteq 1 .. highTx
        /\ 1 .. highTx \subseteq rcvd \cup Held \cup Segments(link) \cup L
    BY <1>1 DEF Conservation
  <2>8. L' = L
    BY <1>2 DEF Losses
  <2> HIDE DEF p, q, newer
  <2>9. rcvd' \cup Held' \subseteq 1 .. highTx
    BY <1>3, <2>2, <2>3, <2>5, <2>7
  <2>10. rcvd \cup Held \subseteq rcvd' \cup Held'
    BY <1>3, <2>5, <2>6
  <2>11. p.hdr # 0 => p.hdr \in rcvd' \cup Held'
    <3>1. CASE r.flag = 1
      BY <1>6, <2>5, <3>1
    <3>2. CASE r.flag # 1
      BY <1>3, <2>2, <3>2
    <3> QED
      BY <3>1, <3>2
  <2>12. Conservation' <=>
           /\ rcvd' \cup Held' \subseteq 1 .. highTx'
           /\ 1 .. highTx' \subseteq rcvd' \cup Held' \cup Segments(link') \cup L'
    BY DEF Conservation
  <2> HIDE DEF L
  <2> QED
    BY <1>2, <2>4, <2>7, <2>8, <2>9, <2>10, <2>11, <2>12
<1> QED
  BY <1>8, <1>9, <1>10, <1>11 DEF PathInv
-----------------------------------------------------------------------------
LEMMA EndInitially ==
  ASSUME Init
  PROVE  EndInv
<1>1. ShapeInv
  BY DEF Init, ShapeInv, RoundShape
<1>2. TypeInv
  BY EndBoundsAssumption DEF Init, TypeInv
<1>3. TablesInv /\ HdrsInv
  BY DEF Init, TablesInv, HdrsInv, HdrsWithin
<1>4. Conservation
  BY DEF Init, Conservation, Held, Segments
<1> QED
  BY <1>1, <1>2, <1>3, <1>4 DEF EndInv, PathInv

LEMMA EndInductive ==
  ASSUME EndInv, [Next]_vars
  PROVE  EndInv'
<1>1. ShapeInv'
  BY ShapeInductive DEF EndInv
<1>2. ASSUME UNCHANGED vars PROVE PathInv'
  <2>1. /\ UNCHANGED <<m_init, fc, m_roundId, m_groupId, m_serial, nGroups, highTx, una, rexmit>>
        /\ UNCHANGED <<rt_, gt_, tq_, rcvd, link, lost>>
    BY <1>2 DEF vars, sender, tcp, receiver
  <2>2. TypeInv' /\ TablesInv' /\ HdrsInv'
    BY <2>1 DEF EndInv, PathInv, TypeInv, TablesInv, HdrsInv
  <2>3. Conservation'
    BY <2>1 DEF EndInv, PathInv, Conservation, Held, Losses, Segments
  <2> QED
    BY <2>2, <2>3 DEF PathInv
<1>3. PathInv'
  BY <1>2, SendNewKeeps, RetransmitKeeps, RetransmitRule3Keeps, SendFecPacketKeeps, EnterRecoveryKeeps,
     ReTxTimeoutKeeps, ReceivedAckKeeps, LoseKeeps, ForwardUpKeeps DEF Next
<1> QED
  BY <1>1, <1>3 DEF EndInv

\* SearchesEnd is an invariant: for every window, mode, loss and time-out, the
\* packet at the head of the path is in the tables that the receiver searches.
THEOREM EndSearchesEnd == Spec => []SearchesEnd
<1>1. Init => EndInv
  BY EndInitially
<1>2. EndInv /\ [Next]_vars => EndInv'
  BY EndInductive
<1>3. EndInv => SearchesEnd
  <2> SUFFICES ASSUME EndInv, Idle, link # <<>> PROVE Serves(Head(link))
    BY DEF SearchesEnd
  <2>1. \A i \in 1 .. Len(<<>>) : <<>>[i].hdr <= highTx
    OBVIOUS
  <2>2. PICK p : p = Head(link)
    OBVIOUS
  <2>3. <<>> \in Seq(EndPacket)
    OBVIOUS
  <2>4. Serves(p)
    BY <2>1, <2>2, <2>3, RecvKeeps
  <2> QED
    BY <2>2, <2>4
<1> QED
  BY <1>1, <1>2, <1>3, PTL DEF Spec

\* Conservation is an invariant: a segment that was sent is with the receiving
\* TCP, held, on the path or lost by it, and nothing is given to TCP that was
\* not sent, whenever rounds are abandoned and whatever is rebuilt.
THEOREM EndConserves == Spec => []Conservation
<1>1. Init => EndInv
  BY EndInitially
<1>2. EndInv /\ [Next]_vars => EndInv'
  BY EndInductive
<1>3. EndInv => Conservation
  BY DEF EndInv, PathInv
<1> QED
  BY <1>1, <1>2, <1>3, PTL DEF Spec
-----------------------------------------------------------------------------
(* What has not arrived, and the entries that stand for it *)

\* The packets that have been sent and not received: those that the path has
\* lost and those on it, in the order in which they were sent.
Out == lost \o link

\* The serial of a segment; those of redundant packets are none.
SegmentSerial(x) == \E q \in Nat : x = Seq1(q)

\* Entry e of round r stands for packet x.
EntryOf(x, r, e) ==
  /\ x.rid = r /\ x.serial = e.serial /\ x.gid = e.gid
  /\ x.type = IF e.fec THEN REDUNDANT ELSE DATA

\* Segments up to h have been sent, first in their order.
OutShape(o, h) ==
  \A m \in 1 .. Len(o) :
    /\ o[m].type \in {DATA, REDUNDANT, REXMIT}
    /\ o[m].type # REDUNDANT => o[m].serial = Seq1(o[m].hdr) /\ o[m].hdr \in 1 .. h
    /\ o[m].type = REDUNDANT => ~SegmentSerial(o[m].serial)
DataRises(o) ==
  \A m, n \in 1 .. Len(o) : m < n /\ o[m].type = DATA /\ o[n].type = DATA => o[m].hdr < o[n].hdr

\* Entries are of segments or of redundant packets, and those of the round being
\* sent are of the burst that has begun.
EntriesShape(rt, h) ==
  \A r, k, e : RoundEntry(rt, r, k, e) =>
    (e.fec <=> ~SegmentSerial(e.serial)) /\ e.serial < Seq1(h + 1)
BurstEntries(rt, last, f, g) ==
  \A r, k, e : RoundEntry(rt, r, k, e) /\ r = last /\ e.fec => f = 0 /\ e.gid < g

\* Of the entries of a round that a search may confuse only the first can be
\* without a mark.
LaterMarked(rt) ==
  \A r, k, j, d, e :
    /\ RoundEntry(rt, r, k, d) /\ RoundEntry(rt, r, j, e)
    /\ k < j /\ d.serial = e.serial /\ d.gid = e.gid
    => e.check

\* An entry without a mark stands for a packet that has not arrived, and a
\* redundant packet that has not arrived has such an entry until its round is
\* gone.
UnmarkedOut(rt, o) ==
  \A r, k, e : RoundEntry(rt, r, k, e) /\ ~e.check =>
    \E m \in 1 .. Len(o) : EntryOf(o[m], r, e)
BurstNoted(rt, o) ==
  \A m \in 1 .. Len(o) : o[m].type = REDUNDANT /\ rt[1].rid <= o[m].rid =>
    \E k, e : RoundEntry(rt, o[m].rid, k, e) /\ EntryOf(o[m], o[m].rid, e) /\ ~e.check

RoundLedger(rt, last, f, g, o, h) ==
  /\ OutShape(o, h) /\ DataRises(o) /\ Ordered(o) /\ Behind(o, last, f, g)
  /\ EntriesShape(rt, h) /\ BurstEntries(rt, last, f, g) /\ LaterMarked(rt)
  /\ UnmarkedOut(rt, o) /\ BurstNoted(rt, o)

\* Serials of later segments are larger.
LEMMA SerialsRise ==
  ASSUME NEW a \in Nat, NEW b \in Nat
  PROVE  /\ Seq1(a) \in Nat /\ (a < b <=> Seq1(a) < Seq1(b)) /\ (Seq1(a) = Seq1(b) => a = b)
         /\ Seq1(a + 1) = Seq1(a) + NGroups + 1
<1>1. NGroups \in Nat /\ NGroups >= 1
  BY NGroupsAssumption
<1> DEFINE w == NGroups + 1
<1>2. w \in Nat \ {0} /\ Seq1(a) = a * w /\ Seq1(b) = b * w /\ Seq1(a + 1) = (a + 1) * w
  BY <1>1 DEF Seq1
<1> HIDE DEF w
<1>3. a * w \in Nat /\ b * w \in Nat /\ (a + 1) * w = a * w + w
  BY <1>2
<1>4. \A x, y \in Nat : x < y => x * w < y * w
  <2> SUFFICES ASSUME NEW x \in Nat, NEW y \in Nat, x < y PROVE x * w < y * w
    OBVIOUS
  <2>1. PICK d \in Nat \ {0} : y = x + d
    <3>1. y - x \in Nat \ {0} /\ y = x + (y - x)
      OBVIOUS
    <3> QED
      BY <3>1
  <2>2. y * w = x * w + d * w /\ x * w \in Nat /\ d * w \in Nat
    BY <1>2, <2>1
  <2>3. d <= d * w
    BY <1>2, <2>1, Products
  <2> QED
    BY <2>1, <2>2, <2>3
<1>5. a < b => a * w < b * w
  BY <1>4
<1>6. b < a => b * w < a * w
  BY <1>4
<1>7. a < b \/ a = b \/ b < a
  OBVIOUS
<1>8. /\ a * w \in Nat /\ (a < b <=> a * w < b * w) /\ (a * w = b * w => a = b)
  BY ONLY <1>3, <1>5, <1>6, <1>7
<1>9. (a + 1) * w = a * w + NGroups + 1
  BY <1>1, <1>3 DEF w
<1> QED
  BY <1>2, <1>8, <1>9

\* The serials of a burst are between those of two segments.
LEMMA BurstSerial ==
  ASSUME NEW q \in Nat, NEW g \in Nat, g < NGroups
  PROVE  /\ ~SegmentSerial(Seq1(q) + 1 + g)
         /\ \A h \in Nat : q <= h => Seq1(q) + 1 + g < Seq1(h + 1)
<1>1. Seq1(q + 1) = Seq1(q) + NGroups + 1 /\ Seq1(q) \in Nat /\ NGroups \in Nat
  BY SerialsRise, NGroupsAssumption
<1>2. Seq1(q) < Seq1(q) + 1 + g /\ Seq1(q) + 1 + g < Seq1(q + 1)
  BY <1>1
<1>3. ASSUME NEW n \in Nat, Seq1(q) + 1 + g = Seq1(n) PROVE FALSE
  <2>1. q < n /\ n < q + 1
    BY <1>2, <1>3, SerialsRise
  <2> QED
    BY <2>1
<1>4. ASSUME NEW h \in Nat, q <= h PROVE Seq1(q) + 1 + g < Seq1(h + 1)
  <2>1. q + 1 = h + 1 \/ q + 1 < h + 1
    BY <1>4
  <2>2. Seq1(q + 1) = Seq1(h + 1) \/ Seq1(q + 1) < Seq1(h + 1)
    BY <2>1, SerialsRise
  <2>3. Seq1(h + 1) \in Nat /\ Seq1(q + 1) \in Nat
    BY SerialsRise
  <2> QED
    BY <1>1, <1>2, <2>2, <2>3
<1> QED
  BY <1>3, <1>4 DEF SegmentSerial

\* A round is opened: the ledger has nothing new.
LEMMA OpenLedger ==
  ASSUME NEW rt \in Seq(RoundFecTable), NEW last \in Nat, rt = <<>> \/ Ending(rt, last),
         NEW o \in Seq(EndPacket), NEW h,
         rt = <<>> => o = <<>>,
         NEW f, NEW g, rt # <<>> => RoundLedger(rt, last, f, g, o, h),
         NEW rid \in Nat, rt # <<>> => rid = last + 1, NEW size \in Sizes, NEW f2, NEW g2
  PROVE  RoundLedger(WithRound(rt, rid, size), rid, f2, g2, o, h)
<1> DEFINE c == WithRound(rt, rid, size)
<1>1. EntriesSame(c, rt) /\ (rt # <<>> => c[1].rid = rt[1].rid)
  BY OpenAdds
<1> HIDE DEF c
<1>2. CASE rt = <<>>
  <2>1. \A r, k, e : ~RoundEntry(c, r, k, e)
    <3>1. \A i \in 1 .. Len(rt) : FALSE
      BY <1>2
    <3>2. \A r, k, e : ~RoundEntry(rt, r, k, e)
      BY <3>1 DEF RoundEntry
    <3> QED
      BY <1>1, <3>2 DEF EntriesSame
  <2>2. 1 .. Len(o) = {}
    BY <1>2
  <2>3. OutShape(o, h) /\ DataRises(o) /\ Ordered(o) /\ Behind(o, rid, f2, g2) /\ BurstNoted(c, o)
    BY <2>2 DEF OutShape, DataRises, Ordered, Behind, BurstNoted
  <2>4. EntriesShape(c, h) /\ BurstEntries(c, rid, f2, g2) /\ LaterMarked(c) /\ UnmarkedOut(c, o)
    BY <2>1 DEF EntriesShape, BurstEntries, LaterMarked, UnmarkedOut
  <2> QED
    BY <2>3, <2>4 DEF RoundLedger, c
<1>3. CASE rt # <<>>
  <2>1. /\ OutShape(o, h) /\ DataRises(o) /\ Ordered(o) /\ Behind(o, last, f, g)
        /\ EntriesShape(rt, h) /\ LaterMarked(rt)
        /\ UnmarkedOut(rt, o) /\ BurstNoted(rt, o)
    BY <1>3 DEF RoundLedger
  <2>2. EntriesShape(c, h) /\ LaterMarked(c) /\ UnmarkedOut(c, o)
    BY <1>1, <2>1 DEF EntriesShape, LaterMarked, UnmarkedOut, EntriesSame
  <2>3. BurstNoted(c, o)
    BY <1>1, <1>3, <2>1 DEF BurstNoted, EntriesSame
  <2>4. BurstEntries(c, rid, f2, g2)
    <3> SUFFICES ASSUME NEW k, NEW e, RoundEntry(c, rid, k, e) PROVE FALSE
      BY DEF BurstEntries
    <3>1. RoundEntry(rt, rid, k, e)
      BY <1>1 DEF EntriesSame
    <3>2. Rounds(rt, last - Len(rt)) /\ Len(rt) \in Nat
      BY <1>3, LenProperties DEF Ending
    <3>3. rid <= (last - Len(rt)) + Len(rt)
      BY <3>1, <3>2, EntryFacts
    <3> QED
      BY <1>3, <3>2, <3>3
  <2>5. Behind(o, rid, f2, g2)
    <3> SUFFICES ASSUME NEW m \in 1 .. Len(o), o[m].type # NONE
                 PROVE  o[m].rid <= rid /\ o[m].rid # rid
      BY DEF Behind
    <3>1. o[m] \in EndPacket
      BY ElementOfSeq
    <3>2. o[m].rid \in Nat /\ o[m].rid <= last
      BY <2>1, <3>1 DEF Behind, EndPacket
    <3> QED
      BY <1>3, <3>2
  <2> QED
    BY <2>1, <2>2, <2>3, <2>4, <2>5 DEF RoundLedger, c
<1> QED
  BY <1>2, <1>3

\* Packet p and its entry e may be added to the ledger.
Enters(rt, last, f, g, o, h, e, p, f2, g2, h2) ==
  /\ h <= h2 /\ p.rid = last
  /\ (e.fec <=> ~SegmentSerial(e.serial)) /\ e.serial < Seq1(h2 + 1)
  /\ IF e.fec THEN f = 0 /\ f2 = 0 /\ e.gid = g /\ g2 = g + 1 ELSE f # 0
  /\ ~e.check => EntryOf(p, last, e)
  /\ p.type = REDUNDANT => e.fec /\ ~e.check
  /\ \A k, d : RoundEntry(rt, last, k, d) /\ d.serial = e.serial /\ d.gid = e.gid => e.check
  /\ OutShape(<<p>>, h2)
  /\ p.type = DATA => \A m \in 1 .. Len(o) : o[m].type = DATA => o[m].hdr < p.hdr
  /\ \A m \in 1 .. Len(o) : Before(o[m], p)
  /\ Behind(Append(o, p), last, f2, g2)

\* A packet is recorded and sent.
LEMMA PushLedger ==
  ASSUME NEW rt \in Seq(RoundFecTable), rt # <<>>, NEW last \in Nat, Ending(rt, last),
         NEW o \in Seq(EndPacket), NEW h \in Nat, NEW f, NEW g \in Nat,
         RoundLedger(rt, last, f, g, o, h),
         NEW e \in PacketInfo, NEW p \in EndPacket, NEW f2, NEW g2 \in Nat, NEW h2 \in Nat,
         Enters(rt, last, f, g, o, h, e, p, f2, g2, h2)
  PROVE  RoundLedger(RoundPush(rt, e), last, f2, g2, Append(o, p), h2)
<1> DEFINE c == RoundPush(rt, e)
           a == Append(o, p)
<1>1. EntryAdded(c, rt, last, e) /\ c[1].rid = rt[1].rid
  BY PushAdds
<1>2. PICK n \in Nat :
        /\ RoundEntry(c, last, n, e)
        /\ \A r, k, x : RoundEntry(c, r, k, x) => RoundEntry(rt, r, k, x) \/ (r = last /\ k = n /\ x = e)
        /\ \A r, k, x : RoundEntry(rt, r, k, x) => RoundEntry(c, r, k, x) /\ (r = last => k < n)
  BY <1>1 DEF EntryAdded
<1>3. /\ a \in Seq(EndPacket) /\ Len(a) = Len(o) + 1 /\ a[Len(o) + 1] = p /\ Len(o) \in Nat
      /\ \A m \in 1 .. Len(o) : a[m] = o[m]
  BY AppendProperties, LenProperties
<1>4. Ordered(a)
  BY PathAppend DEF Enters, RoundLedger
<1>5. Behind(a, last, f2, g2)
  BY DEF Enters
<1> HIDE DEF c, a
<1>6. \A m \in 1 .. Len(a) : (m = Len(o) + 1 /\ a[m] = p) \/ (m \in 1 .. Len(o) /\ a[m] = o[m])
  BY <1>3
<1>7. /\ \A m \in 1 .. Len(o) : m \in 1 .. Len(a)
      /\ Len(o) + 1 \in 1 .. Len(a)
  BY <1>3
<1>8. /\ OutShape(o, h) /\ DataRises(o) /\ EntriesShape(rt, h) /\ BurstEntries(rt, last, f, g)
      /\ LaterMarked(rt) /\ UnmarkedOut(rt, o) /\ BurstNoted(rt, o)
  BY DEF RoundLedger
<1>9. OutShape(a, h2)
  <2>1. ASSUME NEW m \in 1 .. Len(o)
        PROVE  /\ o[m].type \in {DATA, REDUNDANT, REXMIT}
               /\ o[m].type # REDUNDANT => o[m].serial = Seq1(o[m].hdr) /\ o[m].hdr \in 1 .. h2
               /\ o[m].type = REDUNDANT => ~SegmentSerial(o[m].serial)
    <3>1. h <= h2
      BY DEF Enters
    <3>2. 1 .. h \subseteq 1 .. h2
      BY <3>1
    <3> QED
      BY <1>8, <3>2 DEF OutShape
  <2>2. /\ p.type \in {DATA, REDUNDANT, REXMIT}
        /\ p.type # REDUNDANT => p.serial = Seq1(p.hdr) /\ p.hdr \in 1 .. h2
        /\ p.type = REDUNDANT => ~SegmentSerial(p.serial)
    <3>1. OutShape(<<p>>, h2) /\ 1 \in 1 .. Len(<<p>>) /\ <<p>>[1] = p
      BY DEF Enters
    <3> QED
      BY <3>1 DEF OutShape
  <2> QED
    BY <1>6, <2>1, <2>2 DEF OutShape
<1>10. DataRises(a)
  <2> SUFFICES ASSUME NEW m \in 1 .. Len(a), NEW k \in 1 .. Len(a), m < k,
                      a[m].type = DATA, a[k].type = DATA
               PROVE  a[m].hdr < a[k].hdr
    BY DEF DataRises
  <2>1. m \in 1 .. Len(o) /\ a[m] = o[m]
    BY <1>3, <1>6
  <2>2. CASE k \in 1 .. Len(o) /\ a[k] = o[k]
    BY <1>8, <2>1, <2>2 DEF DataRises
  <2>3. CASE a[k] = p
    BY <2>1, <2>3 DEF Enters
  <2> QED
    BY <1>6, <2>2, <2>3
<1>11. EntriesShape(c, h2)
  <2>1. Seq1(h + 1) \in Nat /\ Seq1(h2 + 1) \in Nat /\ Seq1(h + 1) <= Seq1(h2 + 1)
    <3>1. h <= h2
      BY DEF Enters
    <3>2. h + 1 = h2 + 1 \/ h + 1 < h2 + 1
      BY <3>1
    <3>3. Seq1(h + 1) \in Nat /\ Seq1(h2 + 1) \in Nat
      BY SerialsRise
    <3>4. Seq1(h + 1) = Seq1(h2 + 1) \/ Seq1(h + 1) < Seq1(h2 + 1)
      BY <3>2, SerialsRise
    <3> QED
      BY <3>3, <3>4
  <2>2. ASSUME NEW r, NEW k, NEW x, RoundEntry(rt, r, k, x)
        PROVE  (x.fec <=> ~SegmentSerial(x.serial)) /\ x.serial < Seq1(h2 + 1)
    <3>1. Rounds(rt, last - Len(rt)) /\ last - Len(rt) \in Int
      BY LenProperties DEF Ending
    <3>2. x \in PacketInfo
      BY <2>2, <3>1, EntryFacts
    <3>3. x.serial \in Nat
      BY <3>2 DEF PacketInfo
    <3>4. (x.fec <=> ~SegmentSerial(x.serial)) /\ x.serial < Seq1(h + 1)
      BY <1>8, <2>2 DEF EntriesShape
    <3> QED
      BY <2>1, <3>3, <3>4
  <2>3. (e.fec <=> ~SegmentSerial(e.serial)) /\ e.serial < Seq1(h2 + 1)
    BY DEF Enters
  <2> QED
    BY <1>2, <2>2, <2>3 DEF EntriesShape
<1>12. BurstEntries(c, last, f2, g2)
  <2> SUFFICES ASSUME NEW k, NEW x, RoundEntry(c, last, k, x), x.fec
               PROVE  f2 = 0 /\ x.gid < g2
    BY DEF BurstEntries
  <2>1. CASE x = e
    <3>1. f2 = 0 /\ e.gid = g /\ g2 = g + 1
      BY <2>1 DEF Enters
    <3> QED
      BY <2>1, <3>1
  <2>2. CASE RoundEntry(rt, last, k, x)
    <3>1. f = 0 /\ x.gid < g
      BY <1>8, <2>2 DEF BurstEntries
    <3>2. e.fec /\ f2 = 0 /\ g2 = g + 1
      BY <3>1 DEF Enters
    <3>3. x \in PacketInfo
      <4>1. Rounds(rt, last - Len(rt)) /\ last - Len(rt) \in Int
        BY LenProperties DEF Ending
      <4> QED
        BY <2>2, <4>1, EntryFacts
    <3>4. x.gid \in Int
      BY <3>3, NGroupsAssumption DEF PacketInfo, Groups
    <3> QED
      BY <3>1, <3>2, <3>4
  <2> QED
    BY <1>2, <2>1, <2>2
<1>13. LaterMarked(c)
  <2> SUFFICES ASSUME NEW r, NEW k, NEW j, NEW d, NEW x, RoundEntry(c, r, k, d),
                      RoundEntry(c, r, j, x), k < j, d.serial = x.serial, d.gid = x.gid
               PROVE  x.check
    BY DEF LaterMarked
  <2>1. CASE RoundEntry(rt, r, j, x)
    <3>1. ~(r = last /\ k = n)
      <4>1. r = last => j < n
        BY <1>2, <2>1
      <4>2. j \in Nat
        <5>1. Rounds(rt, last - Len(rt)) /\ last - Len(rt) \in Int
          BY LenProperties DEF Ending
        <5> QED
          BY <2>1, <5>1, EntryFacts
      <4> QED
        BY <4>1, <4>2
    <3>2. RoundEntry(rt, r, k, d)
      BY <1>2, <3>1
    <3> QED
      BY <1>8, <2>1, <3>2 DEF LaterMarked
  <2>2. CASE r = last /\ j = n /\ x = e
    <3>1. RoundEntry(rt, last, k, d)
      BY <1>2, <2>2
    <3> QED
      BY <2>2, <3>1 DEF Enters
  <2> QED
    BY <1>2, <2>1, <2>2
<1>14. UnmarkedOut(c, a)
  <2> SUFFICES ASSUME NEW r, NEW k, NEW x, RoundEntry(c, r, k, x), ~x.check
               PROVE  \E m \in 1 .. Len(a) : EntryOf(a[m], r, x)
    BY DEF UnmarkedOut
  <2>1. CASE RoundEntry(rt, r, k, x)
    <3>1. PICK m \in 1 .. Len(o) : EntryOf(o[m], r, x)
      BY <1>8, <2>1 DEF UnmarkedOut
    <3> QED
      BY <1>3, <1>7, <3>1
  <2>2. CASE r = last /\ x = e
    <3>1. EntryOf(p, last, e)
      BY <2>2 DEF Enters
    <3> QED
      BY <1>3, <1>7, <2>2, <3>1
  <2> QED
    BY <1>2, <2>1, <2>2
<1>15. BurstNoted(c, a)
  <2> SUFFICES ASSUME NEW m \in 1 .. Len(a), a[m].type = REDUNDANT, rt[1].rid <= a[m].rid
               PROVE  \E k, x : RoundEntry(c, a[m].rid, k, x) /\ EntryOf(a[m], a[m].rid, x) /\ ~x.check
    BY <1>1 DEF BurstNoted
  <2>1. CASE m \in 1 .. Len(o) /\ a[m] = o[m]
    <3>1. PICK k, x : RoundEntry(rt, o[m].rid, k, x) /\ EntryOf(o[m], o[m].rid, x) /\ ~x.check
      BY <1>8, <2>1 DEF BurstNoted
    <3> QED
      BY <1>2, <2>1, <3>1
  <2>2. CASE a[m] = p
    <3>1. ~e.check /\ EntryOf(p, last, e) /\ p.rid = last
      BY <2>2 DEF Enters
    <3> QED
      BY <1>2, <2>2, <3>1
  <2> QED
    BY <1>6, <2>1, <2>2
<1>16. RoundLedger(c, last, f2, g2, a, h2)
  BY <1>4, <1>5, <1>9, <1>10, <1>11, <1>12, <1>13, <1>14, <1>15 DEF RoundLedger
<1> QED
  BY <1>16 DEF a, c

\* Path o2 is o without the packet at place z.
Without(o2, o, z) ==
  /\ o2 \in Seq(EndPacket) /\ Len(o2) = Len(o) - 1
  /\ \A m \in 1 .. Len(o2) : o2[m] = o[IF m < z THEN m ELSE m + 1]

\* The packets that are left, by place, and in the same order.
Stays(o2, o, z) == \A m \in 1 .. Len(o2) : \E k \in 1 .. Len(o) : k # z /\ o2[m] = o[k]
Found(o2, o, z) == \A k \in 1 .. Len(o) : k # z => \E m \in 1 .. Len(o2) : o2[m] = o[k]
SameOrder(o2, o) ==
  \A m, n \in 1 .. Len(o2) : m < n =>
    \E j \in 1 .. Len(o) : \E k \in 1 .. Len(o) : j < k /\ o2[m] = o[j] /\ o2[n] = o[k]
\* A packet that is left has a place in both.
LEMMA WithoutPlaces ==
  ASSUME NEW o \in Seq(EndPacket), NEW z \in 1 .. Len(o), NEW o2, Without(o2, o, z)
  PROVE  Stays(o2, o, z) /\ Found(o2, o, z) /\ SameOrder(o2, o)
<1> DEFINE at(m) == IF m < z THEN m ELSE m + 1
<1>1. /\ Len(o) \in Nat /\ Len(o2) = Len(o) - 1 /\ z \in Nat
      /\ \A m \in 1 .. Len(o2) : o2[m] = o[at(m)]
  BY LenProperties DEF Without
<1>2. \A m \in 1 .. Len(o2) : at(m) \in 1 .. Len(o) /\ at(m) # z
  BY <1>1
<1>3. \A m, n \in 1 .. Len(o2) : m < n => at(m) < at(n)
  BY <1>1
<1>4. ASSUME NEW k \in 1 .. Len(o), k # z PROVE \E m \in 1 .. Len(o2) : at(m) = k
  <2>1. CASE k < z
    <3>1. k \in 1 .. Len(o2) /\ at(k) = k
      BY <1>1, <2>1
    <3> QED
      BY <3>1
  <2>2. CASE ~(k < z)
    <3>1. k - 1 \in 1 .. Len(o2) /\ at(k - 1) = k
      BY <1>1, <1>4, <2>2
    <3> QED
      BY <3>1
  <2> QED
    BY <2>1, <2>2
<1> HIDE DEF at
<1> QED
  BY <1>1, <1>2, <1>3, <1>4 DEF Stays, Found, SameOrder

\* The passes for a packet that has arrived.
LEMMA ArriveLedger ==
  ASSUME NEW rt \in Seq(RoundFecTable), rt # <<>>, NEW last \in Nat, Ending(rt, last),
         NEW o \in Seq(EndPacket), NEW h, NEW f, NEW g,
         RoundLedger(rt, last, f, g, o, h),
         NEW z \in 1 .. Len(o), NEW p, p = o[z], NEW o2, Without(o2, o, z),
         NEW c, NEW s, RoundsPassed(c, rt, p, s), c[1].rid \in Nat
  PROVE  RoundLedger(c, last, f, g, o2, h)
<1>1. Stays(o2, o, z) /\ Found(o2, o, z) /\ SameOrder(o2, o)
  BY WithoutPlaces
<1>2. /\ OutShape(o, h) /\ DataRises(o) /\ Ordered(o) /\ Behind(o, last, f, g)
      /\ EntriesShape(rt, h) /\ BurstEntries(rt, last, f, g) /\ LaterMarked(rt)
      /\ UnmarkedOut(rt, o) /\ BurstNoted(rt, o)
  BY DEF RoundLedger
<1>3. OutShape(o2, h) /\ Behind(o2, last, f, g)
  <2>1. ASSUME NEW m \in 1 .. Len(o2) PROVE \E k \in 1 .. Len(o) : o2[m] = o[k]
    BY ONLY <1>1, m \in 1 .. Len(o2) DEF Stays
  <2>2. OutShape(o2, h)
    BY ONLY <1>2, <2>1 DEF OutShape
  <2>3. Behind(o2, last, f, g)
    BY ONLY <1>2, <2>1 DEF Behind
  <2> QED
    BY <2>2, <2>3
<1>4. ASSUME NEW m \in 1 .. Len(o2), NEW n \in 1 .. Len(o2), m < n
      PROVE  \E j \in 1 .. Len(o) : \E k \in 1 .. Len(o) : j < k /\ o2[m] = o[j] /\ o2[n] = o[k]
  BY ONLY <1>1, <1>4, m \in 1 .. Len(o2), n \in 1 .. Len(o2) DEF SameOrder
<1>5. DataRises(o2) /\ Ordered(o2)
  <2>1. ASSUME NEW m \in 1 .. Len(o2), NEW n \in 1 .. Len(o2), m < n
        PROVE  /\ o2[m].type = DATA /\ o2[n].type = DATA => o2[m].hdr < o2[n].hdr
               /\ o2[m].type # NONE /\ o2[n].type # NONE => Before(o2[m], o2[n])
    <3>1. PICK j \in 1 .. Len(o) :
            \E k \in 1 .. Len(o) : j < k /\ o2[m] = o[j] /\ o2[n] = o[k]
      BY <1>4, <2>1
    <3>2. PICK k \in 1 .. Len(o) : j < k /\ o2[m] = o[j] /\ o2[n] = o[k]
      BY <3>1
    <3> QED
      BY <1>2, <3>2 DEF DataRises, Ordered
  <2>2. DataRises(o2)
    BY <2>1 DEF DataRises
  <2>3. Ordered(o2)
    BY <2>1 DEF Ordered
  <2> QED
    BY <2>2, <2>3
<1>6. /\ s \in Nat /\ p.rid <= c[1].rid
      /\ \E d : RoundEntry(rt, p.rid, s, d) /\ d.serial = p.serial /\ d.gid = p.gid
      /\ \A k, d : RoundEntry(rt, p.rid, k, d) /\ d.serial = p.serial /\ d.gid = p.gid => s <= k
      /\ \A r, k, x : RoundEntry(c, r, k, x) =>
           c[1].rid <= r /\ \E d : RoundEntry(rt, r, k, d) /\ SameEntry(x, d, r = p.rid /\ k = s)
      /\ \A r, k, d : RoundEntry(rt, r, k, d) /\ c[1].rid <= r =>
           \E x : RoundEntry(c, r, k, x) /\ SameEntry(x, d, r = p.rid /\ k = s)
  BY DEF RoundsPassed
<1>7. PICK d0 : RoundEntry(rt, p.rid, s, d0) /\ d0.serial = p.serial /\ d0.gid = p.gid
  BY <1>6
<1>8. \A r, k, d : RoundEntry(rt, r, k, d) =>
        /\ d \in PacketInfo /\ k \in Nat
        /\ rt[1].rid <= r /\ rt[1].rid \in Nat /\ r \in Nat
        /\ \A x : RoundEntry(rt, r, k, x) => x = d
  <2>1. Rounds(rt, last - Len(rt)) /\ last - Len(rt) \in Int
    BY LenProperties DEF Ending
  <2> QED
    BY <2>1, EntryFacts
<1>9. EntriesShape(c, h)
  BY <1>2, <1>6 DEF EntriesShape, SameEntry
<1>10. BurstEntries(c, last, f, g)
  BY <1>2, <1>6 DEF BurstEntries, SameEntry
<1>11. LaterMarked(c)
  <2> SUFFICES ASSUME NEW r, NEW k, NEW j, NEW d, NEW x, RoundEntry(c, r, k, d),
                      RoundEntry(c, r, j, x), k < j, d.serial = x.serial, d.gid = x.gid
               PROVE  x.check
    BY DEF LaterMarked
  <2>1. PICK d1 : RoundEntry(rt, r, k, d1) /\ SameEntry(d, d1, r = p.rid /\ k = s)
    BY <1>6
  <2>2. PICK x1 : RoundEntry(rt, r, j, x1) /\ SameEntry(x, x1, r = p.rid /\ j = s)
    BY <1>6
  <2>3. d1.serial = x1.serial /\ d1.gid = x1.gid
    BY <2>1, <2>2 DEF SameEntry
  <2>4. x1.check
    BY <1>2, <2>1, <2>2, <2>3 DEF LaterMarked
  <2> QED
    BY <2>2, <2>4 DEF SameEntry
<1>12. UnmarkedOut(c, o2)
  <2> SUFFICES ASSUME NEW r, NEW k, NEW x, RoundEntry(c, r, k, x), ~x.check
               PROVE  \E m \in 1 .. Len(o2) : EntryOf(o2[m], r, x)
    BY DEF UnmarkedOut
  <2>1. PICK d : RoundEntry(rt, r, k, d) /\ SameEntry(x, d, r = p.rid /\ k = s)
    BY <1>6
  <2>2. ~d.check /\ ~(r = p.rid /\ k = s)
    BY <2>1 DEF SameEntry
  <2>3. PICK m \in 1 .. Len(o) : EntryOf(o[m], r, d)
    BY <1>2, <2>1, <2>2 DEF UnmarkedOut
  <2>4. m # z
    <3> SUFFICES ASSUME m = z PROVE FALSE
      OBVIOUS
    <3>1. r = p.rid /\ d.serial = p.serial /\ d.gid = p.gid
      BY <2>3 DEF EntryOf
    <3>2. s <= k /\ s # k /\ k \in Nat
      BY <1>6, <1>8, <2>1, <2>2, <3>1
    <3>3. s < k
      BY <1>6, <3>2
    <3> QED
      BY <1>2, <1>7, <2>1, <2>2, <3>1, <3>3 DEF LaterMarked
  <2>5. PICK j \in 1 .. Len(o2) : o2[j] = o[m]
    BY <1>1, <2>4 DEF Found
  <2>6. EntryOf(o2[j], r, x)
    BY <2>1, <2>3, <2>5 DEF EntryOf, SameEntry
  <2> QED
    BY <2>6
<1>13. BurstNoted(c, o2)
  <2> SUFFICES ASSUME NEW j \in 1 .. Len(o2), o2[j].type = REDUNDANT, c[1].rid <= o2[j].rid
               PROVE  \E k, x : RoundEntry(c, o2[j].rid, k, x) /\ EntryOf(o2[j], o2[j].rid, x) /\ ~x.check
    BY DEF BurstNoted
  <2>1. PICK m \in 1 .. Len(o) : m # z /\ o2[j] = o[m]
    BY <1>1 DEF Stays
  <2> DEFINE y == o[m]
  <2>2. y \in EndPacket /\ p \in EndPacket
    BY ElementOfSeq
  <2>3. y.rid \in Nat /\ y.gid \in Int /\ p.rid \in Nat
    <3>1. \A x \in EndPacket : x.rid \in Nat /\ x.gid \in Int
      BY NGroupsAssumption DEF EndPacket, Groups
    <3> HIDE DEF y
    <3> QED
      BY ONLY <2>2, <3>1
  <2>4. y.type = REDUNDANT /\ c[1].rid <= y.rid /\ y = o2[j]
    BY <2>1
  <2>5. Before(y, p) \/ Before(p, y)
    <3>1. y.type # NONE /\ p.type # NONE
      <4>1. p.type \in {DATA, REDUNDANT, REXMIT}
        BY <1>2 DEF OutShape
      <4> HIDE DEF y
      <4> QED
        BY ONLY <2>4, <4>1 DEF NONE, DATA, REDUNDANT, REXMIT
    <3>2. m < z \/ z < m
      BY <2>1
    <3> QED
      BY <1>2, <3>1, <3>2 DEF Ordered
  <2>6. p.type # REDUNDANT => SegmentSerial(p.serial)
    <3>1. p.type # REDUNDANT => p.serial = Seq1(p.hdr) /\ p.hdr \in Nat
      BY <1>2, <2>2 DEF OutShape, EndPacket
    <3> QED
      BY <3>1 DEF SegmentSerial
  <2>7. ~SegmentSerial(y.serial)
    BY <1>2, <2>4 DEF OutShape
  <2>8. rt[1].rid <= y.rid
    <3>1. p.rid <= c[1].rid /\ rt[1].rid <= p.rid /\ rt[1].rid \in Nat
      BY <1>6, <1>7, <1>8
    <3>2. c[1].rid \in Nat /\ c[1].rid <= y.rid /\ y.rid \in Nat /\ p.rid \in Nat
      BY <2>3, <2>4
    <3>3. \A i, j1, k, l \in Nat : i <= j1 /\ j1 <= k /\ k <= l => i <= l
      OBVIOUS
    <3> HIDE DEF y
    <3> QED
      BY ONLY <3>1, <3>2, <3>3
  <2>9. PICK k, d : RoundEntry(rt, y.rid, k, d) /\ EntryOf(y, y.rid, d) /\ ~d.check
    BY <1>2, <2>4, <2>8 DEF BurstNoted
  <2>10. PICK x : RoundEntry(c, y.rid, k, x) /\ SameEntry(x, d, y.rid = p.rid /\ k = s)
    BY <1>6, <2>4, <2>9
  <2> HIDE DEF y
  <2>11. ~(y.rid = p.rid /\ k = s)
    <3> SUFFICES ASSUME y.rid = p.rid, k = s PROVE FALSE
      OBVIOUS
    <3>1. d = d0
      BY <1>7, <1>8, <2>9
    <3>2. y.serial = p.serial /\ y.gid = p.gid
      BY <1>7, <2>9, <3>1 DEF EntryOf
    <3>3. p.type = REDUNDANT
      BY <2>6, <2>7, <3>2
    <3> QED
      BY <2>3, <2>4, <2>5, <3>2, <3>3 DEF Before
  <2>12. EntryOf(y, y.rid, x) /\ ~x.check
    BY <2>9, <2>10, <2>11 DEF EntryOf, SameEntry
  <2> QED
    BY <2>4, <2>10, <2>12
<1> QED
  BY <1>3, <1>5, <1>9, <1>10, <1>11, <1>12, <1>13 DEF RoundLedger
-----------------------------------------------------------------------------
(* The ledger of the sender *)

\* From the first packet on the tables are a ledger of the packets that have
\* not arrived, and a burst is numbered on from the last segment.
SerialFollows(f, g, h, serial) == f = 0 => \E q \in 0 .. h : serial = Seq1(q) + 1 + g
LedgerInv ==
  IF m_init THEN lost = <<>>
  ELSE /\ RoundLedger(rt_, m_roundId, fc, m_groupId, Out, highTx)
       /\ SerialFollows(fc, m_groupId, highTx, m_serial)

\* The oldest round is the same, if there was one.
FrontStays(c, rt) == c # <<>> /\ (rt # <<>> => c[1].rid = rt[1].rid)

\* A packet enters the path, is lost by it, or arrives.
LEMMA OutAppend ==
  ASSUME NEW l1 \in Seq(EndPacket), NEW l2 \in Seq(EndPacket), NEW p \in EndPacket
  PROVE  l1 \o l2 \in Seq(EndPacket) /\ l1 \o Append(l2, p) = Append(l1 \o l2, p)
<1> DEFINE a == l1 \o Append(l2, p)
           b == l1 \o l2
           c == Append(b, p)
<1>1. Len(l1) \in Nat /\ Len(l2) \in Nat
  BY LenProperties
<1>2. /\ Append(l2, p) \in Seq(EndPacket) /\ Len(Append(l2, p)) = Len(l2) + 1
      /\ \A i \in 1 .. Len(l2) : Append(l2, p)[i] = l2[i]
      /\ Append(l2, p)[Len(l2) + 1] = p
  BY AppendProperties
<1>3. /\ a \in Seq(EndPacket) /\ Len(a) = Len(l1) + Len(l2) + 1
      /\ \A i \in 1 .. Len(l1) + Len(l2) + 1 :
           a[i] = IF i <= Len(l1) THEN l1[i] ELSE Append(l2, p)[i - Len(l1)]
  <2> DEFINE t == Append(l2, p)
  <2>1. t \in Seq(EndPacket) /\ Len(t) = Len(l2) + 1
    BY <1>2
  <2> HIDE DEF t
  <2>2. /\ l1 \o t \in Seq(EndPacket) /\ Len(l1 \o t) = Len(l1) + Len(t)
        /\ \A i \in 1 .. Len(l1) + Len(t) :
             (l1 \o t)[i] = IF i <= Len(l1) THEN l1[i] ELSE t[i - Len(l1)]
    BY <2>1, ConcatProperties
  <2>3. Len(l1) + Len(t) = Len(l1) + Len(l2) + 1
    BY <1>1, <2>1
  <2> QED
    BY <2>2, <2>3 DEF t
<1>4. /\ b \in Seq(EndPacket) /\ Len(b) = Len(l1) + Len(l2)
      /\ \A i \in 1 .. Len(l1) + Len(l2) : b[i] = IF i <= Len(l1) THEN l1[i] ELSE l2[i - Len(l1)]
  BY ConcatProperties
<1> HIDE DEF a, b
<1>5. /\ c \in Seq(EndPacket) /\ Len(c) = Len(b) + 1
      /\ \A i \in 1 .. Len(b) : c[i] = b[i]
      /\ c[Len(b) + 1] = p
  <2>1. b \in Seq(EndPacket) /\ p \in EndPacket
    BY <1>4
  <2>2. /\ Append(b, p) \in Seq(EndPacket) /\ Len(Append(b, p)) = Len(b) + 1
        /\ \A i \in 1 .. Len(b) : Append(b, p)[i] = b[i]
        /\ Append(b, p)[Len(b) + 1] = p
    BY ONLY <2>1, AppendProperties
  <2> QED
    BY ONLY <2>2
<1> HIDE DEF c
<1>6. ASSUME NEW i \in 1 .. Len(a) PROVE a[i] = c[i]
  <2>1. CASE i \in 1 .. Len(l1)
    <3>1. /\ i \in 1 .. Len(l1) + Len(l2) + 1 /\ i \in 1 .. Len(l1) + Len(l2) /\ i <= Len(l1)
          /\ i \in 1 .. Len(b)
      BY <1>1, <1>4, <2>1
    <3> QED
      BY <1>3, <1>4, <1>5, <3>1
  <2>2. CASE i - Len(l1) \in 1 .. Len(l2)
    <3>1. /\ i \in 1 .. Len(l1) + Len(l2) /\ i \in 1 .. Len(l1) + Len(l2) + 1
          /\ ~(i <= Len(l1)) /\ i \in 1 .. Len(b)
      BY <1>1, <1>3, <1>4, <2>2
    <3>2. a[i] = Append(l2, p)[i - Len(l1)]
      BY <1>3, <3>1
    <3>3. c[i] = l2[i - Len(l1)]
      BY <1>4, <1>5, <3>1
    <3> QED
      BY <1>2, <2>2, <3>2, <3>3
  <2>3. CASE i = Len(l1) + Len(l2) + 1
    <3>1. i \in 1 .. Len(l1) + Len(l2) + 1 /\ ~(i <= Len(l1)) /\ i - Len(l1) = Len(l2) + 1
      BY <1>1, <2>3
    <3>2. a[i] = p
      BY <1>2, <1>3, <3>1
    <3> QED
      BY <1>4, <1>5, <2>3, <3>2
  <2>4. i \in 1 .. Len(l1) \/ i - Len(l1) \in 1 .. Len(l2) \/ i = Len(l1) + Len(l2) + 1
    <3>1. i \in 1 .. Len(l1) + Len(l2) + 1
      BY <1>3
    <3> QED
      BY ONLY <1>1, <3>1
  <2> QED
    BY <2>1, <2>2, <2>3, <2>4
<1>7. a = c
  <2>1. a \in Seq(EndPacket) /\ c \in Seq(EndPacket)
    BY <1>3, <1>5
  <2>2. Len(a) = Len(c)
    BY ONLY <1>1, <1>3, <1>4, <1>5
  <2> QED
    BY ONLY <1>6, <2>1, <2>2, SeqEqual
<1> QED
  BY <1>4, <1>7 DEF a, b, c

\* The head of the path is where the packets that are lost end.
LEMMA OutTail ==
  ASSUME NEW l1 \in Seq(EndPacket), NEW l2 \in Seq(EndPacket), l2 # <<>>
  PROVE  /\ Append(l1, Head(l2)) \o Tail(l2) = l1 \o l2
         /\ l1 \o l2 \in Seq(EndPacket) /\ Len(l1) + 1 \in 1 .. Len(l1 \o l2)
         /\ (l1 \o l2)[Len(l1) + 1] = Head(l2)
         /\ Without(l1 \o Tail(l2), l1 \o l2, Len(l1) + 1)
<1> DEFINE h == Head(l2)
           t == Tail(l2)
           a == Append(l1, h)
           o == l1 \o l2
           o2 == l1 \o t
           x == a \o t
<1>1. Len(l1) \in Nat /\ Len(l2) \in Nat /\ Len(l2) # 0 /\ h = l2[1]
  BY LenProperties, EmptySeq, HeadTailProperties
<1>2. /\ h \in EndPacket /\ t \in Seq(EndPacket) /\ Len(t) = Len(l2) - 1
      /\ \A i \in 1 .. Len(t) : t[i] = l2[i + 1]
  BY HeadTailProperties
<1> HIDE DEF h, t
<1>3. /\ a \in Seq(EndPacket) /\ Len(a) = Len(l1) + 1
      /\ \A i \in 1 .. Len(l1) : a[i] = l1[i]
      /\ a[Len(l1) + 1] = h
  BY <1>2, AppendProperties
<1> HIDE DEF a
<1>4. /\ x \in Seq(EndPacket) /\ Len(x) = Len(a) + Len(t)
      /\ \A i \in 1 .. Len(a) + Len(t) : x[i] = IF i <= Len(a) THEN a[i] ELSE t[i - Len(a)]
  BY <1>2, <1>3, ConcatProperties
<1>5. /\ o \in Seq(EndPacket) /\ Len(o) = Len(l1) + Len(l2)
      /\ \A i \in 1 .. Len(l1) + Len(l2) : o[i] = IF i <= Len(l1) THEN l1[i] ELSE l2[i - Len(l1)]
  BY ConcatProperties
<1>6. /\ o2 \in Seq(EndPacket) /\ Len(o2) = Len(l1) + Len(t)
      /\ \A i \in 1 .. Len(l1) + Len(t) : o2[i] = IF i <= Len(l1) THEN l1[i] ELSE t[i - Len(l1)]
  BY <1>2, ConcatProperties
<1> HIDE DEF x, o, o2
<1>7. Len(x) = Len(o) /\ Len(o2) = Len(o) - 1 /\ Len(l1) + 1 \in 1 .. Len(o)
  BY <1>1, <1>2, <1>3, <1>4, <1>5, <1>6
<1>8. o[Len(l1) + 1] = h
  <2>1. Len(l1) + 1 \in 1 .. Len(l1) + Len(l2) /\ ~(Len(l1) + 1 <= Len(l1))
        /\ (Len(l1) + 1) - Len(l1) = 1
    BY <1>1
  <2> QED
    BY <1>1, <1>5, <2>1
<1>9. ASSUME NEW i \in 1 .. Len(t)
      PROVE  /\ t[i] = l2[i + 1] /\ x[Len(l1) + 1 + i] = t[i] /\ o[Len(l1) + 1 + i] = l2[i + 1]
             /\ o2[Len(l1) + i] = t[i]
  <2>1. i \in Nat /\ i >= 1 /\ i <= Len(t)
    BY <1>1, <1>2
  <2>2. /\ Len(l1) + 1 + i \in 1 .. Len(a) + Len(t) /\ ~(Len(l1) + 1 + i <= Len(a))
        /\ (Len(l1) + 1 + i) - Len(a) = i
    BY <1>1, <1>2, <1>3, <2>1
  <2>3. /\ Len(l1) + 1 + i \in 1 .. Len(l1) + Len(l2) /\ ~(Len(l1) + 1 + i <= Len(l1))
        /\ (Len(l1) + 1 + i) - Len(l1) = i + 1
    BY <1>1, <1>2, <2>1
  <2>4. /\ Len(l1) + i \in 1 .. Len(l1) + Len(t) /\ ~(Len(l1) + i <= Len(l1))
        /\ (Len(l1) + i) - Len(l1) = i
    BY <1>1, <1>2, <2>1
  <2> QED
    BY <1>2, <1>4, <1>5, <1>6, <2>2, <2>3, <2>4
<1>10. ASSUME NEW i \in 1 .. Len(l1)
       PROVE  x[i] = l1[i] /\ o[i] = l1[i] /\ o2[i] = l1[i]
  <2>1. i \in 1 .. Len(a) + Len(t) /\ i <= Len(a) /\ i \in 1 .. Len(l1) + Len(l2) /\ i <= Len(l1)
        /\ i \in 1 .. Len(l1) + Len(t)
    BY <1>1, <1>2, <1>3
  <2> QED
    BY <1>3, <1>4, <1>5, <1>6, <2>1
<1>11. x[Len(l1) + 1] = h
  <2>1. Len(l1) + 1 \in 1 .. Len(a) + Len(t) /\ Len(l1) + 1 <= Len(a)
    BY <1>1, <1>2, <1>3
  <2> QED
    BY <1>3, <1>4, <2>1
<1>12. x = o
  <2>1. ASSUME NEW i \in 1 .. Len(x) PROVE x[i] = o[i]
    <3>1. i \in 1 .. Len(l1) \/ i = Len(l1) + 1 \/ i - (Len(l1) + 1) \in 1 .. Len(t)
      BY <1>1, <1>2, <1>3, <1>4
    <3>2. CASE i - (Len(l1) + 1) \in 1 .. Len(t)
      <4>1. i = Len(l1) + 1 + (i - (Len(l1) + 1))
        BY <1>1, <1>4
      <4> QED
        BY <1>9, <3>2, <4>1
    <3> QED
      BY <1>8, <1>10, <1>11, <3>1, <3>2
  <2> QED
    BY <1>4, <1>5, <1>7, <2>1, SeqEqual
<1>13. Without(o2, o, Len(l1) + 1)
  <2>1. ASSUME NEW m \in 1 .. Len(o2)
        PROVE  o2[m] = o[IF m < Len(l1) + 1 THEN m ELSE m + 1]
    <3>1. CASE m \in 1 .. Len(l1)
      BY <1>1, <1>10, <3>1
    <3>2. CASE m - Len(l1) \in 1 .. Len(t)
      <4>1. m \in Nat
        BY <2>1
      <4>2. /\ m = Len(l1) + (m - Len(l1)) /\ m + 1 = Len(l1) + 1 + (m - Len(l1))
            /\ ~(m < Len(l1) + 1)
        <5>1. m - Len(l1) >= 1
          BY <3>2
        <5> QED
          BY ONLY <1>1, <4>1, <5>1
      <4>3. (IF m < Len(l1) + 1 THEN m ELSE m + 1) = Len(l1) + 1 + (m - Len(l1))
        BY <4>2
      <4>4. PICK j \in 1 .. Len(t) : j = m - Len(l1)
        BY <3>2
      <4>5. t[j] = l2[j + 1] /\ o[Len(l1) + 1 + j] = l2[j + 1] /\ o2[Len(l1) + j] = t[j]
        BY <1>9
      <4>6. o2[m] = t[j] /\ o[Len(l1) + 1 + (m - Len(l1))] = l2[j + 1]
        BY <4>2, <4>4, <4>5
      <4> QED
        BY ONLY <4>3, <4>5, <4>6
    <3>3. m \in 1 .. Len(l1) \/ m - Len(l1) \in 1 .. Len(t)
      <4>1. Len(t) \in Nat /\ m \in 1 .. Len(l1) + Len(t)
        BY <1>2, <1>6, LenProperties
      <4> QED
        BY ONLY <1>1, <4>1
    <3> QED
      BY <3>1, <3>2, <3>3
  <2> QED
    BY <1>6, <1>7, <2>1 DEF Without
<1> QED
  BY <1>5, <1>7, <1>8, <1>12, <1>13 DEF x, o, o2, a, h, t

\* SendDataPacket enters the segment.
LEMMA SendLedger ==
  ASSUME NEW s, Turns(s), Tracks(s, link, highTx), link \in Seq(EndPacket), highTx \in Nat,
         NEW seg \in Nat \ {0}, seg <= highTx + 1, SendDataPacket(seg, s),
         lost \in Seq(EndPacket), RoundLedger(s.rt, s.rid, s.fc, s.gid, Out, highTx)
  PROVE  LedgerInv' /\ FrontStays(rt_', s.rt)
<1> DEFINE again == seg <= highTx
           e == [serial |-> Seq1(seg), gid |-> s.gid, fec |-> FALSE, hdr |-> seg,
                 check |-> again, flag |-> FALSE]
           p == Tagged(s, IF again THEN REXMIT ELSE DATA, Seq1(seg), seg)
           g2 == NextGroup(s.gid, s.n)
<1>1. /\ rt_' = RoundPush(s.rt, e) /\ m_roundId' = s.rid /\ m_groupId' = g2 /\ fc' = s.fc - 1
  BY DEF SendDataPacket, Becomes, Push, Tracks, Fields
<1>2. /\ link' = Append(link, p) /\ m_init' = FALSE /\ m_serial' = Seq1(seg) + 1
      /\ highTx' = (IF again THEN highTx ELSE seg) /\ lost' = lost
  BY DEF SendDataPacket
<1>3. Seq1(seg) \in Nat
  BY NGroupsAssumption DEF Seq1
<1>4. /\ s.rid \in Nat /\ s.rt \in Seq(RoundFecTable) /\ s.rt # <<>> /\ Ending(s.rt, s.rid)
      /\ s.n \in Sizes
  BY DEF Tracks, Tracked, Ending
<1>5. s.fc # 0 /\ s.gid \in Groups /\ s.gid \in Nat /\ s.n \in Nat \ {0} /\ s.gid \in 0 .. s.n - 1
  <2>1. /\ s.fc \in Nat \ {0} /\ s.n \in Nat \ {0} /\ s.gid \in 0 .. s.n - 1
    BY DEF Turns
  <2>2. NGroups \in Nat /\ s.n <= NGroups
    <3>1. NGroups \in Nat
      BY ONLY NGroupsAssumption
    <3>2. s.n \in 1 .. NGroups
      BY ONLY <1>4 DEF Sizes
    <3> QED
      BY ONLY <3>1, <3>2
  <2> QED
    BY ONLY <2>1, <2>2 DEF Groups
<1>6. again \in BOOLEAN
  OBVIOUS
<1>7. /\ e \in PacketInfo /\ e.serial = Seq1(seg) /\ e.gid = s.gid /\ e.hdr = seg /\ e.fec = FALSE
      /\ e.check = again
  BY <1>3, <1>5, <1>6 DEF PacketInfo
<1>8. /\ p \in EndPacket /\ p.serial = Seq1(seg) /\ p.gid = s.gid /\ p.rid = s.rid
      /\ p.hdr = seg /\ p.type = (IF again THEN REXMIT ELSE DATA)
  BY <1>3, <1>4, <1>5 DEF EndPacket, Tagged
<1>9. g2 \in Nat /\ (s.fc - 1 = 0 => g2 = 0)
  <2>1. /\ s.fc \in Nat \ {0} /\ \E q \in 1 .. s.fc + s.gid : s.fc + s.gid = q * s.n
    BY DEF Turns
  <2>2. PICK q \in 1 .. s.fc + s.gid : s.fc + s.gid = q * s.n
    BY <2>1
  <2>3. q \in Nat
    OBVIOUS
  <2>4. g2 \in 0 .. s.n - 1 /\ (s.fc - 1 = 0 => g2 = 0)
    <3>1. /\ s.fc \in Nat \ {0} /\ s.n \in Nat \ {0} /\ s.gid \in 0 .. s.n - 1
          /\ q \in Nat /\ s.fc + s.gid = q * s.n
      BY <1>5, <2>1, <2>2, <2>3
    <3>2. \A f, n \in Nat \ {0}, k \in Nat : \A g \in 0 .. n - 1 : f + g = k * n =>
            NextGroup(g, n) \in 0 .. n - 1 /\ (f - 1 = 0 => NextGroup(g, n) = 0)
      BY TurnStep
    <3> QED
      BY ONLY <3>1, <3>2
  <2> QED
    BY ONLY <1>5, <2>4
<1> HIDE DEF e, p, g2
<1>10. /\ highTx' \in Nat /\ highTx <= highTx' /\ seg \in 1 .. highTx'
       /\ ~again => seg = highTx + 1 /\ highTx' = highTx + 1
  BY <1>2
<1>11. p.type # REDUNDANT /\ p.type # NONE /\ (p.type = DATA <=> ~again)
  BY <1>8 DEF DATA, REDUNDANT, REXMIT, NONE
<1>12. Out \in Seq(EndPacket) /\ Out' = Append(Out, p)
  BY <1>2, <1>8, OutAppend DEF Out
<1> DEFINE o == Out
           h == highTx
           h2 == highTx'
<1>13. /\ OutShape(o, h) /\ Behind(o, s.rid, s.fc, s.gid) /\ EntriesShape(s.rt, h)
  BY DEF RoundLedger
<1>14. RoundLedger(s.rt, s.rid, s.fc, s.gid, o, h)
  OBVIOUS
<1> HIDE DEF o, h, h2
<1>15. Enters(s.rt, s.rid, s.fc, s.gid, o, h, e, p, fc', g2, h2)
  <2>1. SegmentSerial(e.serial)
    BY <1>7 DEF SegmentSerial
  <2>2. e.serial < Seq1(h2 + 1)
    <3>1. h2 \in Nat /\ seg \in Nat /\ seg <= h2
      BY <1>10 DEF h2
    <3>2. h2 + 1 \in Nat /\ seg < h2 + 1 /\ seg \in Nat
      BY ONLY <3>1
    <3> QED
      BY <1>7, <3>1, <3>2, SerialsRise
  <2>3. ~e.check => EntryOf(p, s.rid, e)
    BY <1>7, <1>8 DEF EntryOf
  <2>4. ASSUME NEW k, NEW d, RoundEntry(s.rt, s.rid, k, d), d.serial = e.serial
        PROVE  e.check
    <3>1. d.serial < Seq1(h + 1)
      BY <1>13, <2>4 DEF EntriesShape
    <3>2. seg < h + 1
      <4>1. h \in Nat /\ h + 1 \in Nat /\ seg \in Nat
        BY DEF h
      <4> QED
        BY <1>7, <2>4, <3>1, <4>1, SerialsRise
    <3>3. seg <= highTx
      BY <3>2 DEF h
    <3> QED
      BY <1>7, <3>3
  <2>5. OutShape(<<p>>, h2)
    <3>1. p.serial = Seq1(p.hdr) /\ p.hdr \in 1 .. h2 /\ p.type \in {DATA, REDUNDANT, REXMIT}
      BY <1>8, <1>10 DEF h2
    <3>2. Len(<<p>>) = 1 /\ <<p>>[1] = p
      OBVIOUS
    <3> QED
      BY ONLY <1>11, <3>1, <3>2, SMT DEF OutShape
  <2>6. ASSUME NEW m \in 1 .. Len(o)
        PROVE  /\ p.type = DATA /\ o[m].type = DATA => o[m].hdr < p.hdr
               /\ Before(o[m], p)
    <3>1. p.type = DATA /\ o[m].type = DATA => o[m].hdr < p.hdr
      <4> SUFFICES ASSUME p.type = DATA, o[m].type = DATA PROVE o[m].hdr < p.hdr
        OBVIOUS
      <4>1. o[m].hdr \in 1 .. h
        BY <1>13 DEF OutShape, DATA, REDUNDANT
      <4>2. p.hdr = h + 1 /\ h \in Nat
        BY <1>8, <1>10, <1>11 DEF h
      <4> QED
        BY ONLY <4>1, <4>2
    <3>2. o[m].type # NONE
      BY <1>13 DEF OutShape, NONE, DATA, REDUNDANT, REXMIT
    <3>3. o[m].rid <= s.rid /\ ~(o[m].type = REDUNDANT /\ o[m].rid = s.rid)
      BY <1>5, <1>13, <3>2 DEF Behind
    <3> QED
      BY <1>8, <3>1, <3>3 DEF Before
  <2>7. Behind(Append(o, p), s.rid, fc', g2)
    BY <1>4, <1>5, <1>8, <1>11, <1>12, <1>13, PushBehind DEF o
  <2>8. h <= h2
    BY <1>10 DEF h, h2
  <2> QED
    BY <1>5, <1>7, <1>8, <1>11, <2>1, <2>2, <2>3, <2>4, <2>5, <2>6, <2>7, <2>8 DEF Enters
<1>16. RoundLedger(RoundPush(s.rt, e), s.rid, fc', g2, Append(o, p), h2)
  <2>1. o \in Seq(EndPacket) /\ h \in Nat /\ h2 \in Nat
    BY <1>10, <1>12 DEF o, h, h2
  <2> QED
    BY <1>4, <1>5, <1>7, <1>8, <1>9, <1>14, <1>15, <2>1, PushLedger
<1>17. SerialFollows(fc', g2, highTx', m_serial')
  <2>1. seg \in 0 .. highTx' /\ Seq1(seg) + 1 + 0 = Seq1(seg) + 1
    BY <1>3, <1>10
  <2> QED
    BY <1>1, <1>2, <1>9, <2>1 DEF SerialFollows
<1>18. RoundLedger(rt_', m_roundId', fc', m_groupId', Out', highTx')
  BY <1>1, <1>12, <1>16 DEF o, h2
<1>19. FrontStays(rt_', s.rt)
  <2>1. RoundPush(s.rt, e)[1].rid = s.rt[1].rid
    BY <1>4, <1>7, PushAdds
  <2>2. Len(RoundPush(s.rt, e)) = Len(s.rt) /\ Len(s.rt) # 0 /\ RoundPush(s.rt, e) \in Seq(RoundFecTable)
    BY <1>4, <1>7, PushEntry, RoundPushPass, EmptySeq
  <2>3. rt_' # <<>>
    BY <1>1, <2>2, EmptySeq
  <2> QED
    BY <1>1, <2>1, <2>3 DEF FrontStays
<1> QED
  BY <1>1, <1>2, <1>17, <1>18, <1>19 DEF LedgerInv

\* The sending sides on which segments are sent.
LEMMA BegunLedger ==
  ASSUME EndInv, LedgerInv, Idle, NEW s \in Begun
  PROVE  /\ RoundLedger(s.rt, s.rid, s.fc, s.gid, Out, highTx)
         /\ rt_ # <<>> => s.rt[1].rid = rt_[1].rid
<1>1. CASE m_init
  <2>1. /\ DOMAIN Fec = Fields /\ Fec.rid = m_roundId /\ Fec.rt = rt_ /\ Fec.gid = m_groupId
    BY DEF Fec, Fields
  <2>2. m_roundId \in Nat /\ rt_ = <<>> /\ Out = <<>>
    <3>1. link = <<>> /\ lost = <<>>
      BY <1>1 DEF EndInv, PathInv, TablesInv, LedgerInv
    <3>2. Out = <<>>
      BY <3>1, EmptySeq, ConcatEmptySeq DEF Out
    <3> QED
      BY <1>1, <3>2 DEF EndInv, PathInv, TypeInv, TablesInv
  <2>3. s \in Sized(Fec)
    BY <1>1 DEF Begun
  <2>4. PICK size \in Sizes :
          s.rid = Fec.rid /\ s.rt = WithRound(Fec.rt, Fec.rid, size)
    BY <2>1, <2>3, SizedFields
  <2>5. Out \in Seq(EndPacket) /\ rt_ \in Seq(RoundFecTable)
    BY <2>2, EmptySeq
  <2>6. RoundLedger(s.rt, s.rid, s.fc, s.gid, Out, highTx)
    BY <2>1, <2>2, <2>4, <2>5, OpenLedger
  <2> QED
    BY <2>2, <2>6
<1>2. CASE ~m_init
  <2>1. s = Fec
    BY <1>2 DEF Begun
  <2> QED
    BY <1>2, <2>1 DEF Fec, LedgerInv
<1> QED
  BY <1>1, <1>2 DEF EndInv, ShapeInv

\* An abandoned round, too, leaves the ledger as it is.
LEMMA ResetLedger ==
  ASSUME EndInv, LedgerInv, NEW s \in Sized(Reset(Fec))
  PROVE  /\ RoundLedger(s.rt, s.rid, s.fc, s.gid, Out, highTx)
         /\ rt_ # <<>> => s.rt[1].rid = rt_[1].rid
<1> DEFINE b == Reset(Fec)
<1>1. DOMAIN b = Fields /\ b.rid = m_roundId + 1 /\ b.rt = rt_
  BY DEF Reset, Fec, Fields
<1> HIDE DEF b
<1>2. s \in Sized(b)
  BY DEF b
<1>3. PICK size \in Sizes : s.rid = b.rid /\ s.rt = WithRound(b.rt, b.rid, size)
  BY <1>1, <1>2, SizedFields
<1>4. m_roundId \in Nat /\ Out \in Seq(EndPacket)
  <2>1. m_roundId \in Nat /\ lost \in Seq(EndPacket) /\ link \in Seq(EndPacket)
    BY DEF EndInv, PathInv, TypeInv
  <2> QED
    BY <2>1, ConcatProperties DEF Out
<1>5. CASE m_init
  <2>1. rt_ = <<>> /\ Out = <<>> /\ rt_ \in Seq(RoundFecTable)
    <3>1. link = <<>> /\ lost = <<>> /\ rt_ = <<>>
      BY <1>5 DEF EndInv, PathInv, TablesInv, LedgerInv
    <3> QED
      BY <3>1, EmptySeq, ConcatEmptySeq DEF Out
  <2>2. s.rid = m_roundId + 1 /\ s.rt = WithRound(rt_, m_roundId + 1, size) /\ m_roundId + 1 \in Nat
    BY <1>1, <1>3, <1>4
  <2>3. RoundLedger(s.rt, s.rid, s.fc, s.gid, Out, highTx)
    BY <1>4, <2>1, <2>2, OpenLedger
  <2> QED
    BY <2>1, <2>3
<1>6. CASE ~m_init
  <2>1. RoundLedger(rt_, m_roundId, fc, m_groupId, Out, highTx)
    BY <1>6 DEF LedgerInv
  <2>2. rt_ \in Seq(RoundFecTable) /\ Ending(rt_, m_roundId) /\ rt_ # <<>>
    BY <1>6 DEF EndInv, PathInv, TablesInv, Tracked, Ending
  <2>3. RoundLedger(s.rt, s.rid, s.fc, s.gid, Out, highTx)
    BY <1>1, <1>3, <1>4, <2>1, <2>2, OpenLedger
  <2>4. s.rt[1].rid = rt_[1].rid
    <3>1. s.rt = WithRound(rt_, m_roundId + 1, size) /\ m_roundId + 1 \in Nat
      BY <1>1, <1>3, <1>4
    <3> QED
      BY <2>2, <3>1, OpenAdds
  <2> QED
    BY <2>3, <2>4
<1> QED
  BY <1>5, <1>6 DEF EndInv, ShapeInv

\* A step of the burst enters the redundant packet.
LEMMA SendFecLedger ==
  ASSUME EndInv, LedgerInv, SendFecPacket
  PROVE  LedgerInv' /\ FrontStays(rt_', rt_)
<1> DEFINE e == [serial |-> m_serial, gid |-> m_groupId, fec |-> TRUE, hdr |-> 0,
                 check |-> FALSE, flag |-> FALSE]
           p == Tagged(Fec, REDUNDANT, m_serial, 0)
           s == [CreateFecPacket(Fec) EXCEPT !.ic = @ - 1]
           rt == RoundPush(rt_, e)
           o == Out
           h == highTx
<1>1. /\ ~m_init /\ fc = 0 /\ m_init' = m_init /\ link' = Append(link, p)
      /\ highTx' = highTx /\ lost' = lost
      /\ m_serial' = IF nGroups > 1 THEN m_serial + 1 ELSE m_serial
  BY DEF SendFecPacket, Idle, tcp
<1>2. /\ nGroups \in Nat \ {0} /\ m_groupId \in 0 .. nGroups - 1
      /\ m_groupId = nGroups - ic /\ ic \in Int
  <2>1. ShapeInv
    BY DEF EndInv
  <2> QED
    BY <1>1, <2>1, SMTT(30) DEF ShapeInv, RoundShape
<1>3. /\ DOMAIN s = Fields /\ s.n = nGroups /\ s.fc = fc /\ s.ic = ic - 1 /\ s.rt = rt
      /\ ic - 1 = 0 => s.gid = 0 /\ s.rid = m_roundId + 1
      /\ ic - 1 # 0 => s.gid = m_groupId + 1 /\ s.rid = m_roundId /\ nGroups > 1
  <2>1. /\ DOMAIN s = Fields /\ s.n = nGroups /\ s.fc = fc /\ s.ic = ic - 1 /\ s.rt = rt
        /\ LET last == nGroups = 1 \/ m_groupId + 1 = nGroups
           IN  /\ s.gid = IF last THEN 0 ELSE m_groupId + 1
               /\ s.rid = IF last THEN m_roundId + 1 ELSE m_roundId
    BY DEF CreateFecPacket, Push, Fec, Fields
  <2>2. /\ (nGroups = 1 \/ m_groupId + 1 = nGroups) <=> ic - 1 = 0
        /\ ic - 1 # 0 => nGroups > 1
    BY <1>2
  <2> QED
    BY <2>1, <2>2
<1>4. /\ link \in Seq(EndPacket) /\ lost \in Seq(EndPacket)
      /\ m_roundId \in Nat /\ m_serial \in Nat /\ highTx \in Nat
  BY DEF EndInv, PathInv, TypeInv
<1>5. /\ rt_ \in Seq(RoundFecTable) /\ rt_ # <<>> /\ Ending(rt_, m_roundId) /\ nGroups \in Sizes
  BY <1>1 DEF EndInv, PathInv, TablesInv, Tracked, Ending
<1>6. m_groupId \in Groups /\ m_groupId \in Nat /\ m_groupId < NGroups
  <2>1. nGroups \in Sizes
    BY <1>5
  <2> QED
    BY <1>2, <2>1, NGroupsAssumption DEF Sizes, Groups
<1>7. /\ e \in PacketInfo /\ e.serial = m_serial /\ e.gid = m_groupId /\ e.hdr = 0
      /\ e.fec = TRUE /\ e.check = FALSE
  BY <1>4, <1>6 DEF PacketInfo
<1>8. /\ p \in EndPacket /\ p.serial = m_serial /\ p.gid = m_groupId /\ p.rid = m_roundId
      /\ p.hdr = 0 /\ p.type = REDUNDANT
  BY <1>2, <1>4, <1>6 DEF EndPacket, Tagged, Fec
<1>9. PICK t \in IF s.ic = 0 THEN Sized(s) ELSE {s} : Becomes(t)
  BY DEF SendFecPacket
<1>10. /\ rt_' = t.rt /\ m_roundId' = t.rid /\ fc' = t.fc /\ m_groupId' = t.gid
  BY <1>9 DEF Becomes
<1>11. Out \in Seq(EndPacket) /\ Out' = Append(Out, p)
  BY <1>1, <1>4, <1>8, OutAppend DEF Out
<1>12. /\ RoundLedger(rt_, m_roundId, fc, m_groupId, o, h)
       /\ \E q \in 0 .. h : m_serial = Seq1(q) + 1 + m_groupId
  BY <1>1 DEF LedgerInv, SerialFollows
<1> HIDE DEF e, p, s, o, h
<1>13. PICK q \in 0 .. h : m_serial = Seq1(q) + 1 + m_groupId
  BY <1>12
<1>14. q \in Nat /\ h \in Nat /\ q <= h
  BY <1>4 DEF h
<1>15. ~SegmentSerial(m_serial) /\ m_serial < Seq1(h + 1)
  BY <1>6, <1>13, <1>14, BurstSerial
<1>16. /\ OutShape(o, h) /\ Behind(o, m_roundId, fc, m_groupId) /\ EntriesShape(rt_, h)
       /\ BurstEntries(rt_, m_roundId, fc, m_groupId)
  BY <1>12 DEF RoundLedger
<1>17. p.type # NONE /\ p.type # DATA
  BY <1>8 DEF DATA, REDUNDANT, NONE
<1>18. Enters(rt_, m_roundId, fc, m_groupId, o, h, e, p, 0, m_groupId + 1, h)
  <2>1. ~e.check => EntryOf(p, m_roundId, e)
    BY <1>7, <1>8 DEF EntryOf
  <2>2. ASSUME NEW k, NEW d, RoundEntry(rt_, m_roundId, k, d), d.serial = e.serial, d.gid = e.gid
        PROVE  FALSE
    <3>1. d.fec
      BY <1>7, <1>15, <1>16, <2>2 DEF EntriesShape
    <3>2. d.gid < m_groupId
      BY <1>16, <2>2, <3>1 DEF BurstEntries
    <3> QED
      BY <1>6, <1>7, <2>2, <3>2
  <2>3. OutShape(<<p>>, h)
    <3>1. Len(<<p>>) = 1 /\ <<p>>[1] = p /\ ~SegmentSerial(p.serial)
      BY <1>8, <1>15
    <3> QED
      BY ONLY <1>8, <3>1, SMT DEF OutShape
  <2>4. ASSUME NEW m \in 1 .. Len(o)
        PROVE  Before(o[m], p)
    <3>1. o[m].type # NONE
      BY <1>16 DEF OutShape, NONE, DATA, REDUNDANT, REXMIT
    <3>2. /\ o[m].rid <= m_roundId
          /\ o[m].type = REDUNDANT /\ o[m].rid = m_roundId => o[m].gid < m_groupId
      BY <1>16, <3>1 DEF Behind
    <3> QED
      BY <1>8, <3>2 DEF Before
  <2>5. Behind(Append(o, p), m_roundId, 0, m_groupId + 1)
    BY <1>1, <1>4, <1>6, <1>8, <1>11, <1>16, PushBehind DEF o
  <2>6. h <= h
    BY <1>14
  <2> QED
    BY <1>1, <1>7, <1>8, <1>15, <1>17, <2>1, <2>2, <2>3, <2>4, <2>5, <2>6 DEF Enters
<1>19. /\ RoundLedger(rt, m_roundId, 0, m_groupId + 1, Append(o, p), h)
       /\ rt \in Seq(RoundFecTable) /\ Ending(rt, m_roundId) /\ rt # <<>>
       /\ rt[1].rid = rt_[1].rid
  <2>1. o \in Seq(EndPacket) /\ m_groupId + 1 \in Nat
    BY <1>6, <1>11 DEF o
  <2>2. RoundLedger(rt, m_roundId, 0, m_groupId + 1, Append(o, p), h)
    BY <1>4, <1>5, <1>6, <1>7, <1>8, <1>12, <1>14, <1>18, <2>1, PushLedger
  <2>3. /\ rt \in Seq(RoundFecTable) /\ Len(rt) = Len(rt_) /\ Len(rt_) \in Nat /\ Len(rt_) # 0
        /\ \A i \in 1 .. Len(rt_) : rt[i].rid = rt_[i].rid
    <3>1. rt \in Seq(RoundFecTable)
      BY <1>5, <1>7, RoundPushPass
    <3> QED
      BY <1>5, <1>7, <3>1, PushEntry, LenProperties, EmptySeq
  <2>6. rt[1].rid = rt_[1].rid
    BY <1>4, <1>5, <1>7, PushAdds
  <2> HIDE DEF rt
  <2>4. rt # <<>>
    BY <2>3, EmptySeq
  <2>5. Rounds(rt, m_roundId - Len(rt))
    BY <1>5, <2>3 DEF Ending, Rounds
  <2> QED
    BY <2>2, <2>3, <2>4, <2>5, <2>6 DEF Ending
<1> HIDE DEF rt
<1>20. Append(o, p) \in Seq(EndPacket)
  BY <1>8, <1>11, AppendProperties DEF o
<1>21. /\ RoundLedger(t.rt, t.rid, t.fc, t.gid, Append(o, p), h)
       /\ t.rt[1].rid = rt_[1].rid /\ t.rt # <<>>
  <2>1. CASE ic - 1 = 0
    <3>1. t \in Sized(s)
      BY <1>3, <1>9, <2>1
    <3>2. PICK size \in Sizes : t.rid = s.rid /\ t.rt = WithRound(s.rt, s.rid, size)
      BY <1>3, <3>1, SizedFields
    <3>3. t.rid = m_roundId + 1 /\ t.rt = WithRound(rt, m_roundId + 1, size) /\ m_roundId + 1 \in Nat
      BY <1>3, <1>4, <2>1, <3>2
    <3>4. RoundLedger(t.rt, t.rid, t.fc, t.gid, Append(o, p), h)
      BY <1>4, <1>19, <1>20, <3>3, OpenLedger
    <3>5. t.rt[1].rid = rt[1].rid
      BY <1>19, <3>3, OpenAdds
    <3>6. t.rt # <<>>
      <4>1. Len(t.rt) = Len(rt) + 1 /\ Len(rt) \in Nat
        BY <1>19, <3>3, UpdateRounds, LenProperties DEF RoundOpened
      <4> QED
        BY <4>1, EmptySeq
    <3> QED
      BY <1>19, <3>4, <3>5, <3>6
  <2>2. CASE ic - 1 # 0
    BY <1>1, <1>3, <1>9, <1>19, <2>2
  <2> QED
    BY <2>1, <2>2
<1>22. SerialFollows(fc', m_groupId', highTx', m_serial')
  <2>1. CASE ic - 1 = 0
    <3>1. t \in Sized(s) /\ s.gid = 0
      BY <1>3, <1>9, <2>1
    <3>2. Turns(t)
      BY <1>3, <3>1, SizedTurns
    <3>3. fc' # 0
      BY <1>10, <3>2 DEF Turns
    <3> QED
      BY <3>3 DEF SerialFollows
  <2>2. CASE ic - 1 # 0
    <3>1. m_groupId' = m_groupId + 1 /\ m_serial' = m_serial + 1
      BY <1>1, <1>3, <1>9, <1>10, <2>2
    <3>2. Seq1(q) \in Nat
      BY <1>14, SerialsRise
    <3>3. m_serial' = Seq1(q) + 1 + m_groupId'
      BY <1>6, <1>13, <3>1, <3>2
    <3> QED
      BY <1>1, <3>3 DEF SerialFollows, h
  <2> QED
    BY <2>1, <2>2
<1> QED
  BY <1>1, <1>10, <1>11, <1>21, <1>22 DEF LedgerInv, FrontStays, o, h
-----------------------------------------------------------------------------
(* What arrives, and what the counters add *)

\* Round table c is what Recv leaves of rt for packet p, whose entry is the sth of
\* the nth round; off rounds are popped, and PrintRoundFecTable sees them as cl.
HeadPassed(c, cl, rt, last, p, n, off, s) ==
  LET b == last - Len(rt)
  IN  /\ rt \in Seq(RoundFecTable) /\ Len(rt) \in Nat /\ last \in Nat
      /\ Ending(rt, last) /\ n \in 1 .. Len(rt)
      /\ Tag(p) /\ p.rid = b + n /\ p.gid < rt[n].n
      /\ off = (IF Closing(rt[n], p) THEN n ELSE n - 1) /\ off < Len(rt)
      /\ c \in Seq(RoundFecTable) /\ c # <<>> /\ c[1].rid = b + off + 1 /\ c[1].rid \in Nat
      /\ RoundsPassed(c, rt, p, s) /\ ClosedAs(cl, rt, off, n, s)

\* What Recv does to the round table is what its two round passes do.
LEMMA RecvRounds ==
  ASSUME NEW tq, NEW p
  PROVE  Recv(tq, p).rt = CheckRoundFecTableEnd(MarkRoundFecTable(rt_, p), p).rt
<1> DEFINE chk  == CheckRoundFecTableEnd(MarkRoundFecTable(rt_, p), p)
           grp  == MarkGroupFecTable(chk.rt, gt_, p)
           rec  == IF p.type = REDUNDANT
                   THEN CheckGroupFecTable(chk.rt, grp.gt, p, grp.nlost)
                   ELSE [gt |-> grp.gt, mlost |-> 0, recovered |-> <<>>]
           id   == IF p.type = REXMIT /\ grp.nlost <= p.n THEN p.rid ELSE ackSendId
           flag == RecvFlag(p, chk.sumlost, grp.nlost, rec.mlost, id)
           A == [rt |-> chk.rt, gt |-> gt_, tq |-> tq, recovered |-> <<>>, id |-> ackSendId,
                 flag |-> RecvFlag(p, chk.sumlost, 0, 0, ackSendId)]
           B == [rt |-> chk.rt, gt |-> rec.gt, recovered |-> rec.recovered, id |-> id,
                 flag |-> flag,
                 tq |-> IF flag = 1 /\ p.type = DATA THEN InsertTransitQueue(tq, p)
                        ELSE IF rec.recovered = <<>> THEN tq
                        ELSE InsertTransitQueue(tq, RecoveryPacket(p, rec.recovered[1]))]
<1>1. Recv(tq, p) = IF chk.sumlost > p.n THEN A ELSE B
  BY Zenon DEF Recv, chk, grp, rec
<1> HIDE DEF flag, id, rec, grp, chk
<1>2. A.rt = chk.rt /\ B.rt = chk.rt
  OBVIOUS
<1> HIDE DEF A, B
<1>3. Recv(tq, p).rt = chk.rt
  BY <1>1, <1>2
<1> QED
  BY <1>3 DEF chk

\* And they do so for the packet at the head of the path.
LEMMA HeadPasses ==
  ASSUME EndInv, Idle, link # <<>>, NEW p, p = Head(link), NEW tq
  PROVE  \E n, off, s : HeadPassed(Recv(tq, p).rt, Closed(rt_, p), rt_, m_roundId, p, n, off, s)
<1> DEFINE mark == MarkRoundFecTable(rt_, p)
           c == CheckRoundFecTableEnd(mark, p).rt
           b == m_roundId - Len(rt_)
<1>1. /\ link \in Seq(EndPacket) /\ ~m_init /\ fc # 0
      /\ Tracked(link, rt_, gt_, m_roundId, fc, m_groupId)
  BY DEF EndInv, PathInv, TypeInv, TablesInv, HdrsInv, Idle
<1>2. p \in EndPacket /\ p.type # NONE
  <2>1. p \in EndPacket
    BY <1>1, HeadTailProperties
  <2> QED
    BY <2>1 DEF EndPacket, NONE, DATA, REDUNDANT, REXMIT, RECOVERED
<1>3. /\ Tag(p)
      /\ \E n \in 1 .. Len(rt_) : /\ n = Index(rt_, m_roundId, p) /\ RoundHas(rt_[n], p)
                                  /\ p.rid = b + n /\ p.gid < rt_[n].n
  BY <1>1, <1>2, EndTags, HeadTracked
<1>4. PICK n \in 1 .. Len(rt_) : /\ n = Index(rt_, m_roundId, p) /\ RoundHas(rt_[n], p)
                                 /\ p.rid = b + n /\ p.gid < rt_[n].n
  BY <1>3
<1>5. /\ rt_ \in Seq(RoundFecTable) /\ Ending(rt_, m_roundId) /\ m_roundId \in Nat
      /\ Rounds(rt_, b) /\ b \in Int /\ Len(rt_) \in Nat
  BY <1>1, LenProperties DEF Tracked, Ending
<1> HIDE DEF b
<1>6. /\ mark \in Seq(RoundFecTable) /\ mark # <<>> /\ mark[1].rid = p.rid /\ mark[1].n = rt_[n].n
      /\ RoundsAfter(mark, rt_, n - 1)
  <2>1. /\ RoundsAfter(mark, rt_, n - 1) /\ mark # <<>> /\ mark[1].rid = p.rid
        /\ mark[1].n = rt_[n].n
    BY <1>3, <1>4, <1>5, MarkRoundPass
  <2> HIDE DEF mark
  <2> QED
    BY <2>1 DEF RoundsAfter
<1> HIDE DEF mark
<1>7. c = IF Closing(rt_[n], p) THEN Tail(mark) ELSE mark
  <2>1. ~(p.rid < mark[1].rid)
    BY <1>3, <1>6 DEF Tag
  <2>2. ClosesRound(mark, p) <=> Closing(rt_[n], p)
    BY <1>6 DEF ClosesRound, Closing
  <2> QED
    BY <2>1, <2>2 DEF CheckRoundFecTableEnd
<1>8. RoundsSettled(c, rt_, n, p)
  <2>1. /\ ClosesRound(mark, p) => RoundsAfter(c, mark, 1)
        /\ ~ClosesRound(mark, p) => RoundsAfter(c, mark, 0)
    BY <1>3, <1>6, CheckRoundEndPass
  <2> HIDE DEF c
  <2> QED
    BY <1>3, <1>4, <1>5, <2>1, RoundPass DEF mark
<1>9. RoundsKept(c, rt_, n, m_roundId, p)
  <2>1. \A x \in EndPacket : Tag(x)
    BY EndTags
  <2> HIDE DEF c
  <2> QED
    BY <1>1, <1>2, <1>4, <1>8, <2>1, RoundsLeft
<1> DEFINE off == IF Closing(rt_[n], p) THEN n ELSE n - 1
           s == PosInRound(rt_[n].pi, p)
<1>10. /\ c \in Seq(RoundFecTable) /\ c # <<>> /\ Len(c) \in Nat /\ Ending(c, m_roundId)
       /\ off < Len(rt_) /\ RoundsAfter(c, rt_, off)
  <2> HIDE DEF c
  <2> QED
    BY <1>9 DEF RoundsKept
<1>11. RoundsPassed(c, rt_, p, s)
  <2> HIDE DEF c
  <2> QED
    BY <1>3, <1>4, <1>5, <1>7, <1>10, PassEntries DEF mark
<1>12. ClosedAs(Closed(rt_, p), rt_, off, n, s)
  BY <1>3, <1>4, <1>5, ClosedAt
<1>13. c[1].rid = b + off + 1 /\ c[1].rid \in Nat
  <2> HIDE DEF c
  <2>1. off \in Nat /\ Len(c) = Len(rt_) - off /\ 1 \in 1 .. Len(c)
    BY <1>4, <1>5, <1>10 DEF RoundsAfter
  <2>2. c[1].rid = rt_[off + 1].rid /\ off + 1 \in 1 .. Len(rt_)
    BY <1>5, <1>10, <2>1 DEF RoundsAfter
  <2>3. rt_[off + 1].rid = b + (off + 1)
    BY <1>5, <2>2 DEF Rounds
  <2>4. c[1].rid \in Nat
    BY <1>10, <2>1, EntryTyped
  <2> HIDE DEF off
  <2> QED
    BY <1>5, <2>1, <2>2, <2>3, <2>4
<1>14. Recv(tq, p).rt = c
  BY RecvRounds DEF mark
<1>15. HeadPassed(c, Closed(rt_, p), rt_, m_roundId, p, n, off, s)
  <2> HIDE DEF c, s
  <2> QED
    BY <1>3, <1>4, <1>5, <1>10, <1>11, <1>12, <1>13 DEF HeadPassed, b
<1> QED
  BY <1>14, <1>15

\* Each of P belongs to one of D, and to no other of P the same: P has not more.
\* If each of D has one, and one only, they are as many.
LEMMA CountAlong ==
  ASSUME NEW P, NEW D, IsFiniteSet(D), NEW R,
         \A x \in P : \E m \in D : <<x, m>> \in R,
         \A x, y \in P : \A m \in D : <<x, m>> \in R /\ <<y, m>> \in R => x = y
  PROVE  /\ IsFiniteSet(P) /\ Cardinality(P) <= Cardinality(D)
         /\ /\ \A m \in D : \E x \in P : <<x, m>> \in R
            /\ \A x \in P : \A m, k \in D : <<x, m>> \in R /\ <<x, k>> \in R => m = k
            => Cardinality(P) = Cardinality(D)
<1> DEFINE f == [x \in P |-> CHOOSE m \in D : <<x, m>> \in R]
<1>1. \A x \in P : f[x] \in D /\ <<x, f[x]>> \in R
  OBVIOUS
<1>2. f \in [P -> D]
  BY <1>1
<1> HIDE DEF f
<1>3. f \in Injection(P, D)
  BY <1>1, <1>2 DEF Injection, IsInjective
<1>4. /\ IsFiniteSet(P) /\ Cardinality(P) <= Cardinality(D)
      /\ Cardinality(P) = Cardinality(D) <=> f \in Surjection(P, D)
  BY <1>3, FS_Injection
<1>5. ASSUME \A m \in D : \E x \in P : <<x, m>> \in R,
             \A x \in P : \A m, k \in D : <<x, m>> \in R /\ <<x, k>> \in R => m = k
      PROVE  Cardinality(P) = Cardinality(D)
  <2>1. ASSUME NEW m \in D PROVE \E x \in P : f[x] = m
    <3>1. PICK x \in P : <<x, m>> \in R
      BY <1>5
    <3> QED
      BY <1>1, <1>5, <3>1
  <2>2. f \in Surjection(P, D)
    BY <1>2, <2>1 DEF Surjection
  <2> QED
    BY <1>4, <2>2
<1> QED
  BY <1>4, <1>5

\* Of these packets the losses of rounds from r1 on that are older than r2.
LossesOf(lst, type, r1, r2) ==
  {m \in 1 .. Len(lst) : lst[m].type = type /\ r1 <= lst[m].rid /\ lst[m].rid < r2}

\* An entry of a popped round without a mark stands for a lost packet: those on
\* the path come later.
LEMMA PoppedIsLost ==
  ASSUME NEW c, NEW cl, NEW rt, NEW last, NEW p, NEW n, NEW off, NEW s,
         HeadPassed(c, cl, rt, last, p, n, off, s),
         NEW lst \in Seq(EndPacket), NEW l \in Seq(EndPacket), l # <<>>, p = Head(l),
         NEW gt, Covered(l, rt, gt, last), NEW f, NEW g, NEW h,
         RoundLedger(rt, last, f, g, lst \o l, h),
         NEW i \in 1 .. off, NEW k, NEW e, RoundEntry(rt, last - Len(rt) + i, k, e), ~e.check,
         ~(i = n /\ k = s)
  PROVE  \E m \in 1 .. Len(lst) : EntryOf(lst[m], last - Len(rt) + i, e)
<1> DEFINE b == last - Len(rt)
           o == lst \o l
           z == Len(lst) + 1
<1>1. /\ rt \in Seq(RoundFecTable) /\ Len(rt) \in Nat /\ last \in Nat /\ Rounds(rt, b)
      /\ n \in 1 .. Len(rt) /\ p.rid = b + n /\ p.gid < rt[n].n /\ Tag(p)
      /\ off = (IF Closing(rt[n], p) THEN n ELSE n - 1) /\ off < Len(rt)
      /\ RoundsPassed(c, rt, p, s) /\ b \in Int
  BY DEF HeadPassed, Ending
<1>2. /\ o \in Seq(EndPacket) /\ z \in 1 .. Len(o) /\ o[z] = p
      /\ Len(lst) \in Nat /\ Len(l) \in Nat /\ Len(o) = Len(lst) + Len(l)
      /\ \A m \in 1 .. Len(lst) + Len(l) : o[m] = IF m <= Len(lst) THEN lst[m] ELSE l[m - Len(lst)]
  BY OutTail, ConcatProperties, LenProperties
<1> HIDE DEF b, o
<1>3. RoundLedger(rt, last, f, g, o, h) /\ RoundEntry(rt, b + i, k, e)
  BY DEF o, b
<1>4. OutShape(o, h) /\ Ordered(o) /\ LaterMarked(rt) /\ UnmarkedOut(rt, o)
  BY <1>3 DEF RoundLedger
<1>5. PICK m \in 1 .. Len(o) : EntryOf(o[m], b + i, e)
  BY <1>3, <1>4 DEF UnmarkedOut
<1>6. i \in Int /\ m \in Int /\ n \in Int /\ p.rid \in Nat /\ p.gid \in Int
  BY <1>1, <1>2 DEF Tag, Groups
<1>7. /\ s \in Nat
      /\ \E d : RoundEntry(rt, p.rid, s, d) /\ d.serial = p.serial /\ d.gid = p.gid
      /\ \A j, d : RoundEntry(rt, p.rid, j, d) /\ d.serial = p.serial /\ d.gid = p.gid => s <= j
  BY <1>1 DEF RoundsPassed
<1>8. k \in Nat /\ \A d : RoundEntry(rt, b + i, k, d) => d = e
  BY <1>1, <1>3, EntryFacts
<1>9. m # z
  <2> SUFFICES ASSUME m = z PROVE FALSE
    OBVIOUS
  <2>1. p.rid = b + i /\ e.serial = p.serial /\ e.gid = p.gid
    BY <1>2, <1>5 DEF EntryOf
  <2>2. i = n
    BY <1>1, <1>6, <2>1
  <2>3. s <= k /\ k # s
    BY <1>3, <1>7, <2>1, <2>2
  <2>4. PICK d : RoundEntry(rt, p.rid, s, d) /\ d.serial = p.serial /\ d.gid = p.gid
    BY <1>7
  <2>5. s < k
    BY <1>7, <1>8, <2>3
  <2>6. e.check
    BY <1>3, <1>4, <2>1, <2>4, <2>5 DEF LaterMarked
  <2> QED
    BY <2>6
<1>10. ~(z < m)
  <2> SUFFICES ASSUME z < m PROVE FALSE
    OBVIOUS
  <2> DEFINE j == m - Len(lst)
  <2>1. j \in 1 .. Len(l) /\ ~(m <= Len(lst)) /\ m \in 1 .. Len(lst) + Len(l)
    BY <1>2, <1>6
  <2>2. o[m] = l[j]
    <3>1. o[m] = IF m <= Len(lst) THEN lst[m] ELSE l[m - Len(lst)]
      BY <1>2, <2>1
    <3> QED
      BY ONLY <2>1, <3>1
  <2>3. o[m].type # NONE /\ o[z].type # NONE
    <3>1. o[m].type \in {DATA, REDUNDANT, REXMIT} /\ o[z].type \in {DATA, REDUNDANT, REXMIT}
      BY ONLY <1>4, m \in 1 .. Len(o), z \in 1 .. Len(o), <1>2 DEF OutShape
    <3> QED
      BY <3>1 DEF NONE, DATA, REDUNDANT, REXMIT
  <2>4. Before(p, o[m])
    <3>1. z \in 1 .. Len(o) /\ m \in 1 .. Len(o) /\ z < m /\ o[z] = p
      BY <1>2
    <3> QED
      BY ONLY <1>4, <2>3, <3>1 DEF Ordered
  <2>5. o[m].rid = b + i /\ p.rid <= o[m].rid
    BY <1>5, <2>4 DEF Before, EntryOf
  <2>6. i = n /\ Closing(rt[n], p)
    BY <1>1, <1>6, <2>5
  <2>7. p.gid < o[m].gid
    BY <1>1, <2>4, <2>5, <2>6 DEF Before, Closing
  <2>8. Recorded(rt, gt, last, l[j])
    BY <2>1, <2>2, <2>3 DEF Covered
  <2>9. Index(rt, last, l[j]) = n
    <3>1. l[j].rid = b + n
      BY <2>2, <2>5, <2>6
    <3>2. Index(rt, last, l[j]) = (b + n) - last + Len(rt)
      BY <3>1 DEF Index
    <3>3. b = last - Len(rt)
      BY DEF b
    <3>4. b \in Int /\ n \in Int /\ last \in Nat /\ Len(rt) \in Nat
      BY <1>1
    <3> QED
      BY ONLY <3>2, <3>3, <3>4
  <2>10. o[m].gid < rt[n].n
    BY <2>2, <2>8, <2>9 DEF Recorded
  <2>11. p.gid = rt[n].n - 1
    BY <2>6 DEF Closing
  <2>12. o[m].gid \in Int /\ rt[n].n \in Int
    <3>1. o[m] \in EndPacket
      BY <1>2, ElementOfSeq
    <3>2. rt[n] \in RoundFecTable
      BY <1>1, ElementOfSeq
    <3>3. o[m].gid \in Int
      <4>1. o[m].gid \in Groups
        BY ONLY <3>1 DEF EndPacket
      <4> QED
        BY ONLY <4>1, NGroupsAssumption DEF Groups
    <3>4. rt[n].n \in Int
      BY <3>2 DEF RoundFecTable, Sizes
    <3> QED
      BY <3>3, <3>4
  <2> QED
    BY <1>6, <2>7, <2>10, <2>11, <2>12
<1>11. m \in 1 .. Len(lst)
  BY <1>2, <1>6, <1>9, <1>10
<1>12. o[m] = lst[m]
  BY <1>2, <1>6, <1>11
<1> QED
  BY <1>5, <1>11, <1>12 DEF b

\* A lost redundant packet of a popped round has its entry, without a mark.
LEMMA LostIsPopped ==
  ASSUME NEW c, NEW cl, NEW rt, NEW last, NEW p, NEW n, NEW off, NEW s,
         HeadPassed(c, cl, rt, last, p, n, off, s),
         NEW lst \in Seq(EndPacket), NEW l \in Seq(EndPacket), l # <<>>, p = Head(l),
         NEW f, NEW g, NEW h, RoundLedger(rt, last, f, g, lst \o l, h),
         NEW m \in LossesOf(lst, REDUNDANT, rt[1].rid, c[1].rid)
  PROVE  \E i \in 1 .. off : \E k, e :
           /\ RoundEntry(rt, last - Len(rt) + i, k, e) /\ ~e.check /\ ~(i = n /\ k = s)
           /\ EntryOf(lst[m], last - Len(rt) + i, e)
<1> DEFINE b == last - Len(rt)
           o == lst \o l
           z == Len(lst) + 1
<1>1. /\ rt \in Seq(RoundFecTable) /\ Len(rt) \in Nat /\ last \in Nat /\ Rounds(rt, b)
      /\ n \in 1 .. Len(rt) /\ p.rid = b + n /\ Tag(p)
      /\ off \in {n - 1, n} /\ c[1].rid = b + off + 1
      /\ RoundsPassed(c, rt, p, s) /\ b \in Int
  BY DEF HeadPassed, Ending
<1>2. /\ o \in Seq(EndPacket) /\ z \in 1 .. Len(o) /\ o[z] = p
      /\ Len(lst) \in Nat /\ Len(l) \in Nat /\ Len(o) = Len(lst) + Len(l)
      /\ \A j \in 1 .. Len(lst) + Len(l) : o[j] = IF j <= Len(lst) THEN lst[j] ELSE l[j - Len(lst)]
  BY OutTail, ConcatProperties, LenProperties
<1> HIDE DEF b, o
<1>3. RoundLedger(rt, last, f, g, o, h)
  BY DEF o
<1>4. OutShape(o, h) /\ Ordered(o) /\ BurstNoted(rt, o) /\ EntriesShape(rt, h)
  BY <1>3 DEF RoundLedger
<1>5. /\ m \in 1 .. Len(lst) /\ m \in 1 .. Len(o) /\ m < z /\ o[m] = lst[m]
      /\ o[m].type = REDUNDANT /\ rt[1].rid <= o[m].rid /\ o[m].rid < c[1].rid
  <2>1. /\ m \in 1 .. Len(lst) /\ lst[m].type = REDUNDANT /\ rt[1].rid <= lst[m].rid
        /\ lst[m].rid < c[1].rid
    BY DEF LossesOf
  <2>2. m \in 1 .. Len(o) /\ m < z /\ m \in 1 .. Len(lst) + Len(l) /\ m <= Len(lst)
    BY <1>2, <2>1
  <2> QED
    BY <1>2, <2>1, <2>2
<1>6. PICK k, e : RoundEntry(rt, o[m].rid, k, e) /\ EntryOf(o[m], o[m].rid, e) /\ ~e.check
  BY <1>4, <1>5 DEF BurstNoted
<1>7. o[m].rid \in Nat /\ b < o[m].rid /\ \A d : RoundEntry(rt, o[m].rid, k, d) => d = e
  BY <1>1, <1>6, EntryFacts
<1>8. PICK i \in 1 .. off : o[m].rid = b + i
  <2>1. o[m].rid - b \in 1 .. off
    <3>1. off \in Int /\ o[m].rid < b + off + 1 /\ b \in Int
      BY <1>1, <1>5
    <3>2. o[m].rid \in Nat /\ b < o[m].rid
      BY <1>7
    <3> QED
      BY ONLY <3>1, <3>2
  <2>2. o[m].rid = b + (o[m].rid - b)
    BY <1>1, <1>7
  <2> QED
    BY <2>1, <2>2
<1>9. ~(i = n /\ k = s)
  <2> SUFFICES ASSUME i = n, k = s PROVE FALSE
    OBVIOUS
  <2>1. o[m].rid = p.rid
    BY <1>1, <1>8
  <2>2. PICK d : RoundEntry(rt, p.rid, s, d) /\ d.serial = p.serial /\ d.gid = p.gid
    BY <1>1 DEF RoundsPassed
  <2>3. d = e
    BY <1>7, <2>1, <2>2
  <2>4. o[m].gid = p.gid /\ e.fec
    BY <1>5, <1>6, <2>2, <2>3 DEF EntryOf, DATA, REDUNDANT
  <2>5. ~SegmentSerial(p.serial)
    BY <1>4, <1>6, <2>2, <2>3, <2>4 DEF EntriesShape
  <2>6. o[z].type \in {DATA, REDUNDANT, REXMIT} /\ (o[z].type # REDUNDANT => o[z].serial = Seq1(o[z].hdr)
           /\ o[z].hdr \in 1 .. h)
    BY ONLY <1>2, <1>4 DEF OutShape
  <2>7. p.type # REDUNDANT => p.hdr \in Nat
    BY <1>2, <2>6
  <2>8. p.type = REDUNDANT
    BY <1>2, <2>5, <2>6, <2>7 DEF SegmentSerial
  <2>9. Before(o[m], p)
    <3>1. o[m].type # NONE /\ o[z].type # NONE
      BY <1>2, <1>5, <2>8 DEF NONE, REDUNDANT
    <3> QED
      BY <1>2, <1>4, <1>5, <3>1 DEF Ordered
  <2>10. p.gid \in Int
    BY <1>1 DEF Tag, Groups
  <2> QED
    BY <1>5, <2>1, <2>4, <2>9, <2>10 DEF Before
<1> QED
  BY <1>5, <1>6, <1>8, <1>9 DEF b

\* So PrintRoundFecTable counts no more data packets than the path has lost, and
\* the lost redundant packets exactly.
LEMMA PoppedCount ==
  ASSUME NEW c, NEW cl, NEW rt, NEW last, NEW p, NEW n, NEW off, NEW s,
         HeadPassed(c, cl, rt, last, p, n, off, s),
         NEW lst \in Seq(EndPacket), NEW l \in Seq(EndPacket), l # <<>>, p = Head(l),
         NEW gt, Covered(l, rt, gt, last), NEW f, NEW g, NEW h,
         RoundLedger(rt, last, f, g, lst \o l, h),
         NEW fec \in BOOLEAN, NEW type, type = IF fec THEN REDUNDANT ELSE DATA
  PROVE  LET D == LossesOf(lst, type, rt[1].rid, c[1].rid)
             P == PrintRoundFecTable(cl, fec)
         IN  /\ IsFiniteSet(P) /\ Cardinality(P) <= Cardinality(D)
             /\ fec => Cardinality(P) = Cardinality(D)
<1> DEFINE D == LossesOf(lst, type, rt[1].rid, c[1].rid)
           P == PrintRoundFecTable(cl, fec)
           b == last - Len(rt)
           Stands(i, k, m) == EntryOf(lst[m], b + i, rt[i].pi[k])
           R == {y \in P \X D : Stands(y[1][1], y[1][2], y[2])}
<1>1. /\ rt \in Seq(RoundFecTable) /\ Len(rt) \in Nat /\ last \in Nat /\ Rounds(rt, b) /\ b \in Int
      /\ n \in 1 .. Len(rt) /\ off \in {n - 1, n} /\ c[1].rid = b + off + 1
      /\ ClosedAs(cl, rt, off, n, s)
  BY DEF HeadPassed, Ending
<1>2. Len(lst) \in Nat /\ IsFiniteSet(D)
  <2>1. Len(lst) \in Nat
    BY LenProperties
  <2>2. IsFiniteSet(1 .. Len(lst))
    BY <2>1, FS_Interval
  <2>3. D \in SUBSET (1 .. Len(lst))
    BY DEF LossesOf
  <2> QED
    BY <2>1, <2>2, <2>3, FS_Subset
<1> HIDE DEF b, D, R
<1>3. ASSUME NEW x
      PROVE  x \in P <=> \E i \in 1 .. off : \E k \in 1 .. Len(rt[i].pi) :
               x = <<i, k>> /\ rt[i].pi[k].fec = fec /\ ~rt[i].pi[k].check /\ ~(i = n /\ k = s)
  <2>1. ClosedAs(cl, rt, off, n, s) /\ fec \in BOOLEAN
    BY <1>1
  <2> QED
    BY ONLY <2>1, PrintCounts
<1>4. ASSUME NEW i \in 1 .. off, NEW k, NEW e
      PROVE  RoundEntry(rt, b + i, k, e) <=> k \in 1 .. Len(rt[i].pi) /\ e = rt[i].pi[k]
  <2>1. i \in 1 .. Len(rt)
    BY <1>1
  <2> QED
    BY <1>1, <2>1, EntryAt
<1> HIDE DEF P
<1> USE DEF R
<1>5. ASSUME NEW x \in P
      PROVE  \E i \in 1 .. off : \E k \in 1 .. Len(rt[i].pi) :
               /\ x = <<i, k>> /\ rt[i].pi[k].fec = fec /\ ~rt[i].pi[k].check /\ ~(i = n /\ k = s)
               /\ RoundEntry(rt, b + i, k, rt[i].pi[k])
  BY <1>3, <1>4
<1>6. /\ OutShape(lst \o l, h) /\ Ordered(lst \o l) /\ LaterMarked(rt)
  BY DEF RoundLedger
<1>7. ASSUME NEW i \in 1 .. off, NEW k \in 1 .. Len(rt[i].pi), ~rt[i].pi[k].check, ~(i = n /\ k = s),
             RoundEntry(rt, b + i, k, rt[i].pi[k]), rt[i].pi[k].fec = fec
      PROVE  \E m \in D : Stands(i, k, m)
  <2>1. PICK m \in 1 .. Len(lst) : EntryOf(lst[m], last - Len(rt) + i, rt[i].pi[k])
    BY <1>7, PoppedIsLost DEF b
  <2>2. EntryOf(lst[m], b + i, rt[i].pi[k])
    BY <2>1 DEF b
  <2>3. lst[m].type = type /\ lst[m].rid = b + i
    BY <1>7, <2>2 DEF EntryOf
  <2>4. rt[1].rid = b + 1
    BY <1>1 DEF Rounds
  <2>5. rt[1].rid <= lst[m].rid /\ lst[m].rid < c[1].rid
    BY <1>1, <2>3, <2>4
  <2> QED
    BY <2>2, <2>3, <2>5 DEF D, LossesOf
<1>8. ASSUME NEW i \in 1 .. off, NEW k \in 1 .. Len(rt[i].pi), ~rt[i].pi[k].check,
             RoundEntry(rt, b + i, k, rt[i].pi[k]),
             NEW j \in 1 .. off, NEW q \in 1 .. Len(rt[j].pi), ~rt[j].pi[q].check,
             RoundEntry(rt, b + j, q, rt[j].pi[q]),
             NEW m, Stands(i, k, m), Stands(j, q, m)
      PROVE  i = j /\ k = q
  <2>1. i = j
    <3>1. b + i = b + j
      BY <1>8 DEF EntryOf
    <3> QED
      BY <1>1, <3>1
  <2>2. rt[i].pi[k].serial = rt[j].pi[q].serial /\ rt[i].pi[k].gid = rt[j].pi[q].gid
    BY <1>8 DEF EntryOf
  <2>3. ~(k < q) /\ ~(q < k)
    BY <1>6, <1>8, <2>1, <2>2 DEF LaterMarked
  <2>4. k \in Nat /\ q \in Nat
    BY <1>1, <1>8, EntryFacts
  <2> QED
    BY <2>1, <2>3, <2>4
<1>9. \A x \in P : \E m \in D : <<x, m>> \in R
  <2> SUFFICES ASSUME NEW x \in P PROVE \E m \in D : <<x, m>> \in R
    OBVIOUS
  <2>1. PICK i \in 1 .. off : \E k \in 1 .. Len(rt[i].pi) :
               /\ x = <<i, k>> /\ rt[i].pi[k].fec = fec /\ ~rt[i].pi[k].check /\ ~(i = n /\ k = s)
               /\ RoundEntry(rt, b + i, k, rt[i].pi[k])
    BY <1>5
  <2>2. PICK k \in 1 .. Len(rt[i].pi) :
               /\ x = <<i, k>> /\ rt[i].pi[k].fec = fec /\ ~rt[i].pi[k].check /\ ~(i = n /\ k = s)
               /\ RoundEntry(rt, b + i, k, rt[i].pi[k])
    BY <2>1
  <2>3. PICK m \in D : Stands(i, k, m)
    BY <1>7, <2>2
  <2>4. x[1] = i /\ x[2] = k
    BY <2>2
  <2> QED
    BY <2>3, <2>4
<1>10. \A x, y \in P : \A m \in D : <<x, m>> \in R /\ <<y, m>> \in R => x = y
  <2> SUFFICES ASSUME NEW x \in P, NEW y \in P, NEW m \in D, <<x, m>> \in R, <<y, m>> \in R
               PROVE  x = y
    OBVIOUS
  <2>1. PICK i \in 1 .. off : \E k \in 1 .. Len(rt[i].pi) :
               /\ x = <<i, k>> /\ ~rt[i].pi[k].check /\ RoundEntry(rt, b + i, k, rt[i].pi[k])
    BY <1>5
  <2>2. PICK k \in 1 .. Len(rt[i].pi) :
               /\ x = <<i, k>> /\ ~rt[i].pi[k].check /\ RoundEntry(rt, b + i, k, rt[i].pi[k])
    BY <2>1
  <2>3. PICK j \in 1 .. off : \E q \in 1 .. Len(rt[j].pi) :
               /\ y = <<j, q>> /\ ~rt[j].pi[q].check /\ RoundEntry(rt, b + j, q, rt[j].pi[q])
    BY <1>5
  <2>4. PICK q \in 1 .. Len(rt[j].pi) :
               /\ y = <<j, q>> /\ ~rt[j].pi[q].check /\ RoundEntry(rt, b + j, q, rt[j].pi[q])
    BY <2>3
  <2>5. Stands(x[1], x[2], m) /\ Stands(y[1], y[2], m)
    OBVIOUS
  <2>6. Stands(i, k, m) /\ Stands(j, q, m)
    BY <2>2, <2>4, <2>5
  <2>7. i = j /\ k = q
    BY <1>8, <2>2, <2>4, <2>6
  <2> QED
    BY <2>2, <2>4, <2>7
<1>11. ASSUME fec PROVE \A m \in D : \E x \in P : <<x, m>> \in R
  <2> SUFFICES ASSUME NEW m \in D PROVE \E x \in P : <<x, m>> \in R
    OBVIOUS
  <2>1. m \in LossesOf(lst, REDUNDANT, rt[1].rid, c[1].rid)
    BY <1>11 DEF D
  <2>2. PICK i \in 1 .. off : \E k, e :
           /\ RoundEntry(rt, last - Len(rt) + i, k, e) /\ ~e.check /\ ~(i = n /\ k = s)
           /\ EntryOf(lst[m], last - Len(rt) + i, e)
    BY <2>1, LostIsPopped
  <2>3. PICK k, e : /\ RoundEntry(rt, b + i, k, e) /\ ~e.check /\ ~(i = n /\ k = s)
                    /\ EntryOf(lst[m], b + i, e)
    BY <2>2 DEF b
  <2>4. k \in 1 .. Len(rt[i].pi) /\ e = rt[i].pi[k]
    BY <1>4, <2>3
  <2>5. lst[m].type = REDUNDANT
    BY <2>1 DEF LossesOf
  <2>6. e.fec = fec
    <3>1. e \in PacketInfo
      BY <1>1, <2>3, EntryFacts
    <3>2. e.fec \in BOOLEAN
      BY <3>1 DEF PacketInfo
    <3>3. e.fec
      BY <2>3, <2>5 DEF EntryOf, DATA, REDUNDANT
    <3> QED
      BY <1>11, <3>2, <3>3
  <2>7. <<i, k>> \in P
    BY <1>3, <2>3, <2>4, <2>6
  <2>8. <<i, k>>[1] = i /\ <<i, k>>[2] = k /\ Stands(i, k, m)
    BY <2>3, <2>4
  <2> QED
    BY <2>7, <2>8
<1>12. ASSUME fec PROVE \A x \in P : \A m, k \in D : <<x, m>> \in R /\ <<x, k>> \in R => m = k
  <2> SUFFICES ASSUME NEW x \in P, NEW m \in D, NEW k \in D, <<x, m>> \in R, <<x, k>> \in R
               PROVE  m = k
    OBVIOUS
  <2>1. Stands(x[1], x[2], m) /\ Stands(x[1], x[2], k)
    OBVIOUS
  <2>2. lst[m].rid = lst[k].rid /\ lst[m].gid = lst[k].gid
    BY <2>1 DEF EntryOf
  <2>3. /\ m \in 1 .. Len(lst) /\ k \in 1 .. Len(lst)
        /\ lst[m].type = REDUNDANT /\ lst[k].type = REDUNDANT
    BY <1>12 DEF D, LossesOf
  <2>4. \A j \in 1 .. Len(lst) : (lst \o l)[j] = lst[j] /\ j \in 1 .. Len(lst \o l)
    <3>1. /\ Len(lst \o l) = Len(lst) + Len(l) /\ Len(l) \in Nat
          /\ \A j \in 1 .. Len(lst) + Len(l) :
               (lst \o l)[j] = IF j <= Len(lst) THEN lst[j] ELSE l[j - Len(lst)]
      BY ConcatProperties, LenProperties
    <3> QED
      BY <1>2, <3>1
  <2>5. ASSUME NEW i \in 1 .. Len(lst), NEW j \in 1 .. Len(lst), i < j,
               lst[i].type = REDUNDANT, lst[j].type = REDUNDANT
        PROVE  Before(lst[i], lst[j])
    <3>1. (lst \o l)[i].type # NONE /\ (lst \o l)[j].type # NONE
      BY <2>4, <2>5 DEF NONE, REDUNDANT
    <3> QED
      BY <1>6, <2>4, <2>5, <3>1 DEF Ordered
  <2>6. lst[m].gid \in Int /\ lst[k].gid \in Int
    <3>1. lst[m] \in EndPacket /\ lst[k] \in EndPacket
      BY <2>3, ElementOfSeq
    <3>2. \A q \in EndPacket : q.gid \in Int
      BY DEF EndPacket, Groups
    <3> QED
      BY <3>1, <3>2
  <2>7. ~(m < k) /\ ~(k < m)
    BY <2>2, <2>3, <2>5, <2>6 DEF Before
  <2> QED
    BY <1>2, <2>3, <2>7
<1> HIDE DEF R
<1>13. /\ IsFiniteSet(P) /\ Cardinality(P) <= Cardinality(D)
       /\ /\ \A m \in D : \E x \in P : <<x, m>> \in R
          /\ \A x \in P : \A m, k \in D : <<x, m>> \in R /\ <<x, k>> \in R => m = k
          => Cardinality(P) = Cardinality(D)
  BY <1>2, <1>9, <1>10, CountAlong
<1> QED
  BY <1>11, <1>12, <1>13 DEF P, D
-----------------------------------------------------------------------------
(* The ledger and the counters are kept *)

\* The counters are those of the losses of closed rounds.
ClosedLosses(lst, type, rt) ==
  {m \in 1 .. Len(lst) : lst[m].type = type /\ rt # <<>> /\ lst[m].rid < rt[1].rid}
Counted(lst, rt, data, fec) ==
  /\ data \in Nat /\ data <= Cardinality(ClosedLosses(lst, DATA, rt))
  /\ fec \in Nat /\ fec = Cardinality(ClosedLosses(lst, REDUNDANT, rt))
CountedInv == Counted(lost, rt_, m_lostdatapkt, m_lostfecpkt)

\* LossesNotOvercounted, as a predicate on the tables.
LEMMA CountedLossesAre ==
  ASSUME lost \in Seq(EndPacket), CountedInv
  PROVE  LossesNotOvercounted
<1>1. ASSUME NEW type PROVE LossesClosed({type}) = ClosedLosses(lost, type, rt_)
  <2>1. DOMAIN lost = 1 .. Len(lost)
    BY LenProperties
  <2> QED
    BY <2>1 DEF LossesClosed, Losses, ClosedLosses
<1> QED
  BY <1>1 DEF CountedInv, Counted, LossesNotOvercounted

\* A step that leaves the losses and the oldest round alone.
LEMMA CountedStays ==
  ASSUME NEW lst \in Seq(EndPacket), NEW rt, NEW c, FrontStays(c, rt), NEW data, NEW fec,
         Counted(lst, rt, data, fec), rt = <<>> => lst = <<>>
  PROVE  Counted(lst, c, data, fec)
<1>1. \A type : ClosedLosses(lst, type, c) = ClosedLosses(lst, type, rt)
  <2>1. CASE rt = <<>>
    <3>1. 1 .. Len(lst) = {}
      BY <2>1, EmptySeq
    <3> QED
      BY <3>1 DEF ClosedLosses
  <2>2. CASE rt # <<>>
    BY <2>2 DEF ClosedLosses, FrontStays
  <2> QED
    BY <2>1, <2>2
<1> QED
  BY <1>1 DEF Counted

\* Both together.
NoteInv == LedgerInv /\ CountedInv
\* A segment is sent.
LEMMA SendNotes ==
  ASSUME EndInv, NoteInv, NEW s, Turns(s), Tracks(s, link, highTx),
         RoundLedger(s.rt, s.rid, s.fc, s.gid, Out, highTx),
         rt_ # <<>> => s.rt[1].rid = rt_[1].rid,
         NEW seg \in 1 .. highTx + 1, SendDataPacket(seg, s)
  PROVE  NoteInv'
<1>1. /\ link \in Seq(EndPacket) /\ lost \in Seq(EndPacket) /\ highTx \in Nat
      /\ rt_ = <<>> => lost = <<>>
  BY DEF EndInv, PathInv, TypeInv, TablesInv, Tracked, Ending, NoteInv, LedgerInv
<1>2. seg \in Nat \ {0} /\ seg <= highTx + 1
  BY <1>1
<1>3. LedgerInv' /\ FrontStays(rt_', s.rt)
  BY <1>1, <1>2, SendLedger DEF NoteInv
<1>4. FrontStays(rt_', rt_)
  <2>1. s.rt # <<>>
    BY DEF Tracks, Tracked, Ending
  <2> QED
    BY <1>3, <2>1 DEF FrontStays
<1>5. UNCHANGED <<lost, m_lostdatapkt, m_lostfecpkt>>
  BY DEF SendDataPacket, receiver, counters
<1>6. CountedInv'
  <2>1. Counted(lost, rt_', m_lostdatapkt, m_lostfecpkt)
    BY <1>1, <1>4, CountedStays DEF NoteInv, CountedInv
  <2> QED
    BY <1>5, <2>1 DEF CountedInv
<1> QED
  BY <1>3, <1>6 DEF NoteInv

\* Fast recovery and the retransmission timer.
LEMMA RecoverNotes ==
  ASSUME EndInv, NoteInv, NEW seg \in 1 .. highTx + 1, NEW marked, Recover(seg, marked)
  PROVE  NoteInv'
<1>1. PICK s \in Sized(Reset(Fec)) : SendDataPacket(seg, s)
  BY DEF Recover
<1>2. Turns(s) /\ Tracks(s, link, highTx)
  BY ResetTracks
<1>3. /\ RoundLedger(s.rt, s.rid, s.fc, s.gid, Out, highTx)
      /\ rt_ # <<>> => s.rt[1].rid = rt_[1].rid
  BY ResetLedger DEF NoteInv
<1> QED
  BY <1>1, <1>2, <1>3, SendNotes

\* The path loses a packet of a round that is still open.
LEMMA LoseNotes ==
  ASSUME EndInv, NoteInv, Lose
  PROVE  NoteInv'
<1>1. /\ Idle /\ link # <<>> /\ lost' = Append(lost, Head(link)) /\ link' = Tail(link)
      /\ UNCHANGED <<m_init, fc, m_roundId, m_groupId, m_serial, highTx, rt_, m_lostdatapkt,
                     m_lostfecpkt>>
  BY DEF Lose, sender, tcp, receiver, counters
<1>2. /\ link \in Seq(EndPacket) /\ lost \in Seq(EndPacket) /\ ~m_init /\ rt_ # <<>>
      /\ Head(link) \in EndPacket
  <2>1. /\ link \in Seq(EndPacket) /\ lost \in Seq(EndPacket) /\ ~m_init /\ rt_ # <<>>
    BY <1>1 DEF EndInv, PathInv, TypeInv, TablesInv, Tracked, Ending
  <2> QED
    BY <1>1, <2>1, HeadTailProperties
<1>3. Out' = Out
  BY <1>1, <1>2, OutTail DEF Out
<1>4. LedgerInv'
  BY <1>1, <1>2, <1>3 DEF NoteInv, LedgerInv
<1>5. rt_[1].rid <= Head(link).rid /\ rt_[1].rid \in Nat /\ Head(link).rid \in Nat
  <2>1. \E n, off, s :
          HeadPassed(Recv(tq_, Head(link)).rt, Closed(rt_, Head(link)), rt_, m_roundId, Head(link), n, off, s)
    BY <1>1, HeadPasses
  <2>2. PICK n : /\ n \in 1 .. Len(rt_) /\ Tag(Head(link))
                 /\ Head(link).rid = m_roundId - Len(rt_) + n
                 /\ Ending(rt_, m_roundId) /\ rt_ \in Seq(RoundFecTable) /\ m_roundId \in Nat
    BY <2>1 DEF HeadPassed
  <2>3. Len(rt_) \in Nat /\ 1 \in 1 .. Len(rt_)
    BY <2>2, LenProperties
  <2>4. rt_[1].rid = m_roundId - Len(rt_) + 1
    BY <2>2, <2>3 DEF Ending, Rounds
  <2>5. rt_[1].rid \in Nat
    BY <2>2, <2>3, EntryTyped
  <2> QED
    BY <2>2, <2>3, <2>4, <2>5 DEF Tag
<1>6. ASSUME NEW type
      PROVE  ClosedLosses(lost', type, rt_) = ClosedLosses(lost, type, rt_)
  <2>1. /\ Len(lost') = Len(lost) + 1 /\ lost'[Len(lost) + 1] = Head(link) /\ Len(lost) \in Nat
        /\ \A m \in 1 .. Len(lost) : lost'[m] = lost[m]
    BY <1>1, <1>2, AppendProperties, LenProperties
  <2>2. \A m : m \in 1 .. Len(lost') <=> m \in 1 .. Len(lost) \/ m = Len(lost) + 1
    BY <2>1
  <2>3. ~(lost'[Len(lost) + 1].rid < rt_[1].rid)
    BY <1>5, <2>1
  <2> QED
    BY <2>1, <2>2, <2>3 DEF ClosedLosses
<1>7. CountedInv'
  BY <1>1, <1>6 DEF NoteInv, CountedInv, Counted
<1> QED
  BY <1>4, <1>7 DEF NoteInv

\* A packet arrives: what it closes is counted.
LEMMA ForwardUpNotes ==
  ASSUME EndInv, NoteInv, ForwardUp
  PROVE  NoteInv'
<1> DEFINE p == Head(link)
           tq == IF rid_ < p.rid THEN <<>> ELSE tq_
           c == Recv(tq, p).rt
           cl == Closed(rt_, p)
<1>1. /\ Idle /\ link # <<>> /\ link' = Tail(link) /\ rt_' = c
      /\ UNCHANGED <<m_init, fc, m_roundId, m_groupId, m_serial, highTx, lost>>
      /\ m_lostdatapkt' = m_lostdatapkt + Cardinality(PrintRoundFecTable(cl, FALSE))
      /\ m_lostfecpkt' = m_lostfecpkt + Cardinality(PrintRoundFecTable(cl, TRUE))
  BY DEF ForwardUp, sender, tcp
<1>2. /\ link \in Seq(EndPacket) /\ lost \in Seq(EndPacket) /\ ~m_init
      /\ rt_ # <<>> /\ rt_ \in Seq(RoundFecTable) /\ m_roundId \in Nat /\ Ending(rt_, m_roundId)
      /\ Covered(link, rt_, gt_, m_roundId)
  BY <1>1 DEF EndInv, PathInv, TypeInv, TablesInv, Tracked, Ending
<1> HIDE DEF tq
<1>3. PICK n, off, s : HeadPassed(c, cl, rt_, m_roundId, p, n, off, s)
  BY <1>1, HeadPasses
<1> HIDE DEF c, cl
<1>4. /\ Out \in Seq(EndPacket) /\ Len(lost) + 1 \in 1 .. Len(Out) /\ Out[Len(lost) + 1] = p
      /\ Without(lost \o Tail(link), Out, Len(lost) + 1) /\ Out' = lost \o Tail(link)
  BY <1>1, <1>2, OutTail DEF Out
<1>5. RoundLedger(rt_, m_roundId, fc, m_groupId, Out, highTx) /\ CountedInv
      /\ SerialFollows(fc, m_groupId, highTx, m_serial)
  BY <1>2 DEF NoteInv, LedgerInv
<1>6. RoundsPassed(c, rt_, p, s) /\ c[1].rid \in Nat /\ c # <<>>
  BY <1>3 DEF HeadPassed
<1> HIDE DEF p
<1>7. RoundLedger(c, m_roundId, fc, m_groupId, Out', highTx)
  BY <1>2, <1>4, <1>5, <1>6, ArriveLedger
<1>8. LedgerInv'
  BY <1>1, <1>2, <1>5, <1>7 DEF LedgerInv
<1>9. ASSUME NEW fec \in BOOLEAN, NEW type, type = IF fec THEN REDUNDANT ELSE DATA
      PROVE  LET A == ClosedLosses(lost, type, rt_)
                 B == ClosedLosses(lost, type, c)
                 P == PrintRoundFecTable(cl, fec)
             IN  /\ Cardinality(A) \in Nat /\ Cardinality(B) \in Nat /\ Cardinality(P) \in Nat
                 /\ Cardinality(A) + Cardinality(P) <= Cardinality(B)
                 /\ fec => Cardinality(A) + Cardinality(P) = Cardinality(B)
  <2> DEFINE A == ClosedLosses(lost, type, rt_)
             B == ClosedLosses(lost, type, c)
             P == PrintRoundFecTable(cl, fec)
             D == LossesOf(lost, type, rt_[1].rid, c[1].rid)
  <2>1. /\ IsFiniteSet(P) /\ Cardinality(P) <= Cardinality(D)
        /\ fec => Cardinality(P) = Cardinality(D)
    <3>1. RoundLedger(rt_, m_roundId, fc, m_groupId, lost \o link, highTx)
      BY <1>5 DEF Out
    <3> QED
      BY <1>1, <1>2, <1>3, <1>9, <3>1, PoppedCount DEF p
  <2>2. /\ rt_[1].rid \in Nat /\ c[1].rid \in Nat /\ rt_[1].rid <= c[1].rid
    <3>1. /\ c[1].rid = m_roundId - Len(rt_) + off + 1 /\ n \in 1 .. Len(rt_)
          /\ off = (IF Closing(rt_[n], p) THEN n ELSE n - 1) /\ Len(rt_) \in Nat
      BY <1>3 DEF HeadPassed
    <3>2. rt_[1].rid = m_roundId - Len(rt_) + 1 /\ rt_[1].rid \in Nat
      <4>1. 1 \in 1 .. Len(rt_)
        BY <3>1
      <4> QED
        BY <1>2, <4>1, EntryTyped DEF Ending, Rounds
    <3>3. off \in Nat
      BY <3>1
    <3>4. /\ m_roundId \in Nat /\ Len(rt_) \in Nat /\ c[1].rid \in Nat
          /\ c[1].rid = m_roundId - Len(rt_) + off + 1
      BY <1>2, <1>6, <3>1
    <3> QED
      BY ONLY <3>2, <3>3, <3>4
  <2>3. \A m \in 1 .. Len(lost) : lost[m].rid \in Nat
    <3>1. \A m \in 1 .. Len(lost) : lost[m] \in EndPacket
      BY <1>2, ElementOfSeq
    <3>2. \A q \in EndPacket : q.rid \in Nat
      BY DEF EndPacket
    <3> QED
      BY ONLY <3>1, <3>2
  <2>4. B = A \cup D /\ A \cap D = {}
    <3>1. A = {m \in 1 .. Len(lost) : lost[m].type = type /\ lost[m].rid < rt_[1].rid}
      BY <1>2 DEF ClosedLosses
    <3>2. B = {m \in 1 .. Len(lost) : lost[m].type = type /\ lost[m].rid < c[1].rid}
      BY <1>6 DEF ClosedLosses
    <3>3. D = {m \in 1 .. Len(lost) : /\ lost[m].type = type
                                     /\ rt_[1].rid <= lost[m].rid /\ lost[m].rid < c[1].rid}
      BY DEF LossesOf
    <3>4. \A x \in Nat : /\ (x < c[1].rid <=> x < rt_[1].rid \/ (rt_[1].rid <= x /\ x < c[1].rid))
                        /\ ~(x < rt_[1].rid /\ rt_[1].rid <= x)
      BY ONLY <2>2
    <3> QED
      BY ONLY <2>3, <3>1, <3>2, <3>3, <3>4
  <2>5. IsFiniteSet(A) /\ IsFiniteSet(D)
    <3>1. IsFiniteSet(1 .. Len(lost))
      BY <1>2, FS_Interval, LenProperties
    <3>2. A \in SUBSET (1 .. Len(lost)) /\ D \in SUBSET (1 .. Len(lost))
      BY DEF ClosedLosses, LossesOf
    <3> QED
      BY <3>1, <3>2, FS_Subset
  <2> HIDE DEF A, B, P, D
  <2>6. Cardinality(B) = Cardinality(A) + Cardinality(D) - Cardinality(A \cap D)
    BY <2>4, <2>5, FS_Union
  <2>7. /\ Cardinality(A \cap D) = 0 /\ Cardinality(A) \in Nat /\ Cardinality(D) \in Nat
        /\ Cardinality(P) \in Nat
    BY <2>1, <2>4, <2>5, FS_EmptySet, FS_CardinalityType
  <2>8. Cardinality(B) = Cardinality(A) + Cardinality(D)
    BY <2>6, <2>7
  <2>9. /\ Cardinality(A) \in Nat /\ Cardinality(B) \in Nat /\ Cardinality(P) \in Nat
        /\ Cardinality(A) + Cardinality(P) <= Cardinality(B)
        /\ fec => Cardinality(A) + Cardinality(P) = Cardinality(B)
    BY <2>1, <2>7, <2>8
  <2> QED
    BY <2>9 DEF A, B, P
<1>10. CountedInv'
  <2>1. Counted(lost, rt_, m_lostdatapkt, m_lostfecpkt)
    BY <1>5 DEF CountedInv
  <2> DEFINE x == Cardinality(PrintRoundFecTable(cl, FALSE))
             y == Cardinality(PrintRoundFecTable(cl, TRUE))
             a1 == Cardinality(ClosedLosses(lost, DATA, rt_))
             b1 == Cardinality(ClosedLosses(lost, DATA, c))
             a2 == Cardinality(ClosedLosses(lost, REDUNDANT, rt_))
             b2 == Cardinality(ClosedLosses(lost, REDUNDANT, c))
  <2>2. a1 \in Nat /\ b1 \in Nat /\ x \in Nat /\ a1 + x <= b1
    BY <1>9
  <2>3. a2 \in Nat /\ b2 \in Nat /\ y \in Nat /\ a2 + y = b2
    BY <1>9
  <2>4. m_lostdatapkt \in Nat /\ m_lostdatapkt <= a1 /\ m_lostfecpkt \in Nat /\ m_lostfecpkt = a2
    BY <2>1 DEF Counted
  <2> HIDE DEF x, y, a1, a2, b1, b2
  <2>5. /\ m_lostdatapkt + x \in Nat /\ m_lostdatapkt + x <= b1
        /\ m_lostfecpkt + y \in Nat /\ m_lostfecpkt + y = b2
    BY <2>2, <2>3, <2>4
  <2>6. Counted(lost, c, m_lostdatapkt + x, m_lostfecpkt + y)
    BY <2>5 DEF Counted, b1, b2
  <2> QED
    BY <1>1, <2>6 DEF CountedInv, x, y
<1> QED
  BY <1>8, <1>10 DEF NoteInv

\* Every step keeps the ledger and the counters.
LEMMA NotesInductive ==
  ASSUME EndInv, NoteInv, [Next]_vars
  PROVE  NoteInv'
<1>1. highTx \in Nat /\ rexmit \subseteq 1 .. highTx /\ una \in Nat
  BY DEF EndInv, PathInv, TypeInv
<1>2. ASSUME UNCHANGED <<m_init, fc, m_roundId, m_groupId, m_serial, highTx, rt_, lost, link,
                         m_lostdatapkt, m_lostfecpkt>>
      PROVE  NoteInv'
  BY <1>2 DEF NoteInv, LedgerInv, CountedInv, Out
<1>3. CASE UNCHANGED vars
  BY <1>2, <1>3 DEF vars, sender, tcp, receiver, counters
<1>4. CASE SendNew
  <2>1. PICK s \in Begun : SendDataPacket(highTx + 1, s)
    BY <1>4 DEF SendNew
  <2>2. highTx + 1 \in 1 .. highTx + 1 /\ Idle
    BY <1>1, <1>4 DEF SendNew
  <2> QED
    BY <2>1, <2>2, BegunTracks, BegunLedger, SendNotes DEF NoteInv
<1>5. CASE Retransmit
  <2>1. PICK s \in Begun : SendDataPacket(Min(rexmit), s)
    BY <1>5 DEF Retransmit
  <2>2. Min(rexmit) \in 1 .. highTx + 1 /\ Idle
    <3>1. rexmit \in SUBSET Nat /\ rexmit # {} /\ Idle
      BY <1>1, <1>5 DEF Retransmit
    <3>2. Min(rexmit) \in rexmit
      BY <3>1, MinIsLeast
    <3>3. Min(rexmit) \in 1 .. highTx
      BY <1>1, <3>2
    <3>4. Min(rexmit) \in 1 .. highTx + 1
      BY ONLY <1>1, <3>3
    <3> QED
      BY <3>1, <3>4
  <2> QED
    BY <2>1, <2>2, BegunTracks, BegunLedger, SendNotes DEF NoteInv
<1>6. CASE SendFecPacket
  <2>1. LedgerInv' /\ FrontStays(rt_', rt_)
    BY <1>6, SendFecLedger DEF NoteInv
  <2>2. UNCHANGED <<lost, m_lostdatapkt, m_lostfecpkt>> /\ ~m_init
    BY <1>6 DEF SendFecPacket, receiver, counters, Idle
  <2>3. lost \in Seq(EndPacket) /\ rt_ # <<>>
    BY <2>2 DEF EndInv, PathInv, TypeInv, TablesInv, Tracked, Ending
  <2>4. Counted(lost, rt_', m_lostdatapkt, m_lostfecpkt)
    BY <2>1, <2>3, CountedStays DEF NoteInv, CountedInv
  <2> QED
    BY <2>1, <2>2, <2>4 DEF NoteInv, CountedInv
<1>7. CASE EnterRecovery \/ ReTxTimeout
  BY <1>7, EnterRecoverySends, ReTxTimeoutSends, RecoverNotes
<1>8. CASE RetransmitRule3
  <2>1. PICK seg \in 1 .. highTx, s \in Begun : SendDataPacket(seg, s)
    BY <1>8, RetransmitRule3Sends
  <2>2. seg \in 1 .. highTx + 1 /\ Idle
    BY <1>1, <1>8 DEF RetransmitRule3
  <2> QED
    BY <2>1, <2>2, BegunTracks, BegunLedger, SendNotes DEF NoteInv
<1>9. CASE ReceivedAck
  BY <1>2, <1>9 DEF ReceivedAck, sender, receiver, counters
<1> QED
  BY <1>3, <1>4, <1>5, <1>6, <1>7, <1>8, <1>9, LoseNotes, ForwardUpNotes DEF Next

\* Nothing is sent yet.
LEMMA NotesInitially ==
  ASSUME EndInv, Init
  PROVE  NoteInv
<1>1. m_init /\ lost = <<>> /\ rt_ = <<>> /\ m_lostdatapkt = 0 /\ m_lostfecpkt = 0
  BY DEF Init
<1>2. \A type : ClosedLosses(lost, type, rt_) = {}
  BY <1>1 DEF ClosedLosses
<1>3. CountedInv
  <2>1. \A type : Cardinality(ClosedLosses(lost, type, rt_)) = 0
    BY <1>2, FS_EmptySet
  <2>2. Counted(lost, rt_, m_lostdatapkt, m_lostfecpkt)
    BY <1>1, <2>1 DEF Counted
  <2> QED
    BY <2>2 DEF CountedInv
<1>4. LedgerInv
  BY <1>1 DEF LedgerInv
<1> QED
  BY <1>3, <1>4 DEF NoteInv

\* LossesNotOvercounted is an invariant: whatever the windows, modes, losses and
\* time-outs, no packet that arrived is ever counted as lost, and of the
\* redundant packets of closed rounds every lost one is.
THEOREM EndLossesNotOvercounted == Spec => []LossesNotOvercounted
<1>1. Init => EndInv /\ NoteInv
  BY EndInitially, NotesInitially
<1>2. EndInv /\ NoteInv /\ [Next]_vars => (EndInv /\ NoteInv)'
  BY EndInductive, NotesInductive
<1>3. EndInv /\ NoteInv => LossesNotOvercounted
  BY CountedLossesAre DEF EndInv, PathInv, TypeInv, NoteInv
<1> QED
  BY <1>1, <1>2, <1>3, PTL DEF Spec

-----------------------------------------------------------------------------
(* What is held is not overtaken *)

\* Within a round a first transmission that has not arrived is behind smaller
\* serials only, and the burst is at the end.
UnmarkedRises(rt) ==
  \A r, k, j, d, e :
    /\ RoundEntry(rt, r, k, d) /\ RoundEntry(rt, r, j, e)
    /\ k < j /\ ~e.check /\ ~e.fec
    => d.serial < e.serial
BurstLast(rt) ==
  \A r, k, j, d, e :
    RoundEntry(rt, r, k, d) /\ RoundEntry(rt, r, j, e) /\ k < j /\ d.fec => e.fec

\* A segment under way for the first time has its entry, without a mark.
FirstNoted(rt, l) ==
  \A m \in 1 .. Len(l) : l[m].type = DATA =>
    \E k, e : RoundEntry(rt, l[m].rid, k, e) /\ EntryOf(l[m], l[m].rid, e) /\ ~e.check

\* It is later than what the receiver has seen, than the packets before it, and
\* than what may still be rebuilt from earlier rounds; and after a redundant
\* packet segments come in later rounds only.
FirstIsNew(gt, l, seen) ==
  \A m \in 1 .. Len(l) : l[m].type = DATA =>
    /\ \A h \in seen : h < l[m].hdr
    /\ \A k \in 1 .. Len(l) : k < m => l[k].hdr < l[m].hdr
    /\ \A r, g, k, e : GroupEntry(gt, r, g, k, e) /\ r < l[m].rid => e.hdr < l[m].hdr
SegmentsAfter(l) ==
  \A m, n \in 1 .. Len(l) :
    m < n /\ l[m].type = REDUNDANT /\ l[n].type # REDUNDANT => l[m].rid < l[n].rid

SendOrder(rt, gt, l, seen) ==
  /\ UnmarkedRises(rt) /\ BurstLast(rt) /\ FirstNoted(rt, l)
  /\ FirstIsNew(gt, l, seen) /\ SegmentsAfter(l)

\* A round is opened: there is nothing new.
LEMMA OpenOrder ==
  ASSUME NEW rt, NEW c, EntriesSame(c, rt), NEW gt, NEW d, GroupEntriesSame(d, gt),
         NEW l, NEW seen, SendOrder(rt, gt, l, seen)
  PROVE  SendOrder(c, d, l, seen)
<1>1. UnmarkedRises(c) /\ BurstLast(c) /\ FirstNoted(c, l)
  BY DEF SendOrder, EntriesSame, UnmarkedRises, BurstLast, FirstNoted
<1>2. FirstIsNew(d, l, seen)
  BY DEF SendOrder, GroupEntriesSame, FirstIsNew
<1> QED
  BY <1>1, <1>2 DEF SendOrder

\* Entry e, recorded for packet p in round last, is later than all the others of
\* the round if it has no mark, and not before the burst.
Follows(rt, gt, l, seen, last, e, p) ==
  /\ p.rid = last
  /\ \A k, d : RoundEntry(rt, last, k, d) => /\ ~e.check /\ ~e.fec => d.serial < e.serial
                                             /\ d.fec => e.fec
  /\ p.type = DATA =>
       /\ EntryOf(p, last, e) /\ ~e.check
       /\ \A h \in seen : h < p.hdr
       /\ \A m \in 1 .. Len(l) : l[m].hdr < p.hdr
       /\ \A r, g, k, d : GroupEntry(gt, r, g, k, d) => d.hdr < p.hdr
  /\ \A m \in 1 .. Len(l) : /\ l[m].rid <= last
                            /\ l[m].type = REDUNDANT /\ p.type # REDUNDANT => l[m].rid < last

\* A packet is recorded and sent.
LEMMA PushOrder ==
  ASSUME NEW rt, NEW c, NEW last \in Nat, NEW e, EntryAdded(c, rt, last, e),
         NEW b \in Int, rt \in Seq(RoundFecTable), Rounds(rt, b),
         NEW gt, NEW d, GroupEntryAdded(d, gt, last, e),
         NEW l \in Seq(EndPacket), NEW p \in EndPacket, NEW seen,
         Follows(rt, gt, l, seen, last, e, p), SendOrder(rt, gt, l, seen)
  PROVE  SendOrder(c, d, Append(l, p), seen)
<1> DEFINE a == Append(l, p)
<1>1. PICK n \in Nat :
        /\ RoundEntry(c, last, n, e)
        /\ \A r, k, x : RoundEntry(c, r, k, x) => RoundEntry(rt, r, k, x) \/ (r = last /\ k = n /\ x = e)
        /\ \A r, k, x : RoundEntry(rt, r, k, x) => RoundEntry(c, r, k, x) /\ (r = last => k < n)
  BY DEF EntryAdded
<1>2. \A r, g, k, x : GroupEntry(d, r, g, k, x) => GroupEntry(gt, r, g, k, x) \/ (r = last /\ x = e)
  BY DEF GroupEntryAdded
<1>3. /\ Len(a) = Len(l) + 1 /\ a[Len(l) + 1] = p /\ Len(l) \in Nat
      /\ \A m \in 1 .. Len(l) : a[m] = l[m]
  BY AppendProperties, LenProperties
<1> HIDE DEF a
<1>4. /\ \A m \in 1 .. Len(a) : (m = Len(l) + 1 /\ a[m] = p) \/ (m \in 1 .. Len(l) /\ a[m] = l[m])
      /\ \A m \in 1 .. Len(a) : \A k \in 1 .. Len(a) : k < m => k \in 1 .. Len(l) /\ a[k] = l[k]
  BY <1>3
<1>5. /\ UnmarkedRises(rt) /\ BurstLast(rt) /\ FirstNoted(rt, l)
      /\ FirstIsNew(gt, l, seen) /\ SegmentsAfter(l)
  BY DEF SendOrder
<1>6. ASSUME NEW r, NEW k, NEW j, NEW x, NEW y,
             RoundEntry(c, r, k, x), RoundEntry(c, r, j, y), k < j
      PROVE  /\ RoundEntry(rt, r, k, x)
             /\ RoundEntry(rt, r, j, y) \/ (r = last /\ y = e)
  <2>1. CASE RoundEntry(rt, r, j, y)
    <3>1. j \in Nat
      BY <2>1, EntryFacts
    <3>2. ~(r = last /\ k = n)
      BY <1>1, <1>6, <2>1, <3>1
    <3> QED
      BY <1>1, <1>6, <2>1, <3>2
  <2>2. CASE r = last /\ j = n /\ y = e
    <3>1. k # n
      BY <1>6, <2>2
    <3> QED
      BY <1>1, <1>6, <2>2, <3>1
  <2> QED
    BY <1>1, <1>6, <2>1, <2>2
<1>7. UnmarkedRises(c) /\ BurstLast(c)
  <2>1. ASSUME NEW r, NEW k, NEW j, NEW x, NEW y,
               RoundEntry(c, r, k, x), RoundEntry(c, r, j, y), k < j
        PROVE  /\ ~y.check /\ ~y.fec => x.serial < y.serial
               /\ x.fec => y.fec
    <3>1. RoundEntry(rt, r, k, x) /\ (RoundEntry(rt, r, j, y) \/ (r = last /\ y = e))
      BY <1>6, <2>1
    <3>2. CASE RoundEntry(rt, r, j, y)
      BY <1>5, <2>1, <3>1, <3>2 DEF UnmarkedRises, BurstLast
    <3>3. CASE r = last /\ y = e
      BY <3>1, <3>3 DEF Follows
    <3> QED
      BY <3>1, <3>2, <3>3
  <2> QED
    BY <2>1 DEF UnmarkedRises, BurstLast
<1>8. FirstNoted(c, a)
  <2> SUFFICES ASSUME NEW m \in 1 .. Len(a), a[m].type = DATA
               PROVE  \E k, x : RoundEntry(c, a[m].rid, k, x) /\ EntryOf(a[m], a[m].rid, x) /\ ~x.check
    BY DEF FirstNoted
  <2>1. CASE m \in 1 .. Len(l) /\ a[m] = l[m]
    BY <1>1, <1>5, <2>1 DEF FirstNoted
  <2>2. CASE a[m] = p
    BY <1>1, <2>2 DEF Follows
  <2> QED
    BY <1>4, <2>1, <2>2
<1>9. FirstIsNew(d, a, seen)
  <2> SUFFICES ASSUME NEW m \in 1 .. Len(a), a[m].type = DATA
               PROVE  /\ \A h \in seen : h < a[m].hdr
                      /\ \A k \in 1 .. Len(a) : k < m => a[k].hdr < a[m].hdr
                      /\ \A r, g, k, x : GroupEntry(d, r, g, k, x) /\ r < a[m].rid => x.hdr < a[m].hdr
    BY DEF FirstIsNew
  <2>1. CASE m \in 1 .. Len(l) /\ a[m] = l[m]
    <3>1. l[m].rid <= last /\ l[m].rid \in Nat
      <4>1. l[m] \in EndPacket
        BY <2>1, ElementOfSeq
      <4> QED
        BY <2>1, <4>1 DEF Follows, EndPacket
    <3>2. ~(last < l[m].rid)
      BY <3>1
    <3> QED
      BY <1>2, <1>4, <1>5, <2>1, <3>2 DEF FirstIsNew
  <2>2. CASE a[m] = p
    <3>1. ~(last < p.rid)
      BY DEF Follows
    <3> QED
      BY <1>2, <1>4, <2>2, <3>1 DEF Follows
  <2> QED
    BY <1>4, <2>1, <2>2
<1>10. SegmentsAfter(a)
  <2> SUFFICES ASSUME NEW m \in 1 .. Len(a), NEW k \in 1 .. Len(a), m < k,
                      a[m].type = REDUNDANT, a[k].type # REDUNDANT
               PROVE  a[m].rid < a[k].rid
    BY DEF SegmentsAfter
  <2>1. m \in 1 .. Len(l) /\ a[m] = l[m]
    BY <1>4
  <2>2. CASE k \in 1 .. Len(l) /\ a[k] = l[k]
    BY <1>5, <2>1, <2>2 DEF SegmentsAfter
  <2>3. CASE a[k] = p
    BY <2>1, <2>3 DEF Follows
  <2> QED
    BY <1>4, <2>2, <2>3
<1> QED
  BY <1>7, <1>8, <1>9, <1>10 DEF SendOrder, a

\* The places of the packets behind the head.
LEMMA TailPlaces ==
  ASSUME NEW l \in Seq(EndPacket), l # <<>>
  PROVE  /\ 1 \in 1 .. Len(l) /\ l[1] = Head(l) /\ Head(l) \in EndPacket /\ Len(l) \in Nat
         /\ Tail(l) \in Seq(EndPacket) /\ Len(Tail(l)) = Len(l) - 1
         /\ \A m \in 1 .. Len(Tail(l)) : m + 1 \in 1 .. Len(l) /\ Tail(l)[m] = l[m + 1]
<1>1. /\ Len(l) \in Nat /\ Len(l) # 0 /\ Head(l) = l[1] /\ Tail(l) \in Seq(EndPacket)
      /\ Len(Tail(l)) = Len(l) - 1 /\ \A m \in 1 .. Len(Tail(l)) : Tail(l)[m] = l[m + 1]
      /\ Head(l) \in EndPacket
  BY HeadTailProperties, LenProperties, EmptySeq
<1>2. 1 \in 1 .. Len(l) /\ \A m \in 1 .. Len(Tail(l)) : m + 1 \in 1 .. Len(l)
  BY <1>1
<1> QED
  BY <1>1, <1>2

\* The packet at the head leaves the path.
LEMMA TailOrder ==
  ASSUME NEW rt, NEW gt, NEW l \in Seq(EndPacket), l # <<>>, NEW seen, SendOrder(rt, gt, l, seen)
  PROVE  SendOrder(rt, gt, Tail(l), seen)
<1> DEFINE t == Tail(l)
<1>1. Len(l) \in Nat /\ Len(t) = Len(l) - 1 /\ \A m \in 1 .. Len(t) : m + 1 \in 1 .. Len(l) /\ t[m] = l[m + 1]
  BY TailPlaces
<1> HIDE DEF t
<1>2. \A m, n \in 1 .. Len(t) : m < n => m + 1 < n + 1
  BY <1>1
<1>3. /\ UnmarkedRises(rt) /\ BurstLast(rt) /\ FirstNoted(rt, l)
      /\ FirstIsNew(gt, l, seen) /\ SegmentsAfter(l)
  BY DEF SendOrder
<1>4. FirstNoted(rt, t)
  BY <1>1, <1>3 DEF FirstNoted
<1>5. FirstIsNew(gt, t, seen)
  BY <1>1, <1>2, <1>3 DEF FirstIsNew
<1>6. SegmentsAfter(t)
  BY <1>1, <1>2, <1>3 DEF SegmentsAfter
<1> QED
  BY <1>3, <1>4, <1>5, <1>6 DEF SendOrder, t

\* An entry without a mark that is none of packet p's stays as it is.
LEMMA UnmarkedStays ==
  ASSUME NEW rt \in Seq(RoundFecTable), NEW b \in Int, Rounds(rt, b),
         NEW c, NEW p, NEW s, RoundsPassed(c, rt, p, s),
         NEW r, NEW k, NEW d, RoundEntry(rt, r, k, d), ~d.check, c[1].rid <= r,
         r # p.rid \/ d.serial # p.serial
  PROVE  \E x : RoundEntry(c, r, k, x) /\ ~x.check /\ x.fec = d.fec /\ x.serial = d.serial /\ x.gid = d.gid
<1>1. PICK x : RoundEntry(c, r, k, x) /\ SameEntry(x, d, r = p.rid /\ k = s)
  BY DEF RoundsPassed
<1>2. ~(r = p.rid /\ k = s)
  <2>1. PICK y : RoundEntry(rt, p.rid, s, y) /\ y.serial = p.serial
    BY DEF RoundsPassed
  <2> QED
    BY <2>1, EntryFacts
<1> QED
  BY <1>1, <1>2 DEF SameEntry

\* Segments are told apart by their serials.
LEMMA SerialsDiffer ==
  ASSUME NEW a \in Nat, NEW b \in Nat, a < b
  PROVE  Seq1(a) # Seq1(b)
<1>1. Seq1(a) < Seq1(b) /\ Seq1(a) \in Nat /\ Seq1(b) \in Nat
  BY SerialsRise
<1> QED
  BY <1>1

\* Group table d gives back segments of group table gt.
SameSegments(d, gt) ==
  \A r, g, k, e : GroupEntry(d, r, g, k, e) => \E x : GroupEntry(gt, r, g, k, x) /\ x.hdr = e.hdr
\* What group table gt may give back for packet p.
Rebuildable(gt, p) ==
  {h \in Nat : p.type = REDUNDANT /\ \E g, k, e : GroupEntry(gt, p.rid, g, k, e) /\ e.hdr = h}

\* The packet at the head is received: the receiver has seen it, and what is
\* rebuilt with it.
LEMMA ArriveOrder ==
  ASSUME NEW rt \in Seq(RoundFecTable), NEW b \in Int, Rounds(rt, b), NEW gt,
         NEW l \in Seq(EndPacket), l # <<>>, NEW p, p = Head(l), NEW seen, NEW h,
         OutShape(l, h), Ordered(l), SendOrder(rt, gt, l, seen),
         NEW c, NEW s, RoundsPassed(c, rt, p, s), c[1].rid \in Nat,
         c[1].rid = p.rid \/ (p.type = REDUNDANT /\ c[1].rid = p.rid + 1),
         NEW d, SameSegments(d, gt),
         NEW seen2, seen2 \subseteq seen \cup {p.hdr} \cup Rebuildable(gt, p)
  PROVE  SendOrder(c, d, Tail(l), seen2)
<1> DEFINE t == Tail(l)
<1>1. SendOrder(rt, gt, t, seen)
  BY TailOrder
<1>2. /\ 1 \in 1 .. Len(l) /\ l[1] = p /\ p \in EndPacket /\ Len(l) \in Nat
      /\ t \in Seq(EndPacket) /\ Len(t) = Len(l) - 1
      /\ \A m \in 1 .. Len(t) : m + 1 \in 1 .. Len(l) /\ t[m] = l[m + 1]
  BY TailPlaces
<1> HIDE DEF t
<1>3. /\ UnmarkedRises(rt) /\ BurstLast(rt) /\ FirstNoted(rt, t)
      /\ FirstIsNew(gt, t, seen) /\ SegmentsAfter(t) /\ FirstIsNew(gt, l, seen) /\ SegmentsAfter(l)
  BY <1>1 DEF SendOrder
<1>4. UnmarkedRises(c) /\ BurstLast(c)
  <2>1. ASSUME NEW r, NEW k, NEW x, RoundEntry(c, r, k, x)
        PROVE  \E y : /\ RoundEntry(rt, r, k, y) /\ x.serial = y.serial /\ x.fec = y.fec
                      /\ y.check => x.check
    BY <2>1 DEF RoundsPassed, SameEntry
  <2>2. ASSUME NEW r, NEW k, NEW j, NEW x, NEW y,
               RoundEntry(c, r, k, x), RoundEntry(c, r, j, y), k < j
        PROVE  /\ ~y.check /\ ~y.fec => x.serial < y.serial
               /\ x.fec => y.fec
    <3>1. PICK x1 : RoundEntry(rt, r, k, x1) /\ x.serial = x1.serial /\ x.fec = x1.fec
      BY <2>1, <2>2
    <3>2. PICK y1 : /\ RoundEntry(rt, r, j, y1) /\ y.serial = y1.serial /\ y.fec = y1.fec
                    /\ y1.check => y.check
      BY <2>1, <2>2
    <3> QED
      BY <1>3, <2>2, <3>1, <3>2 DEF UnmarkedRises, BurstLast
  <2> QED
    BY <2>2 DEF UnmarkedRises, BurstLast
<1>5. ASSUME NEW m \in 1 .. Len(t), t[m].type = DATA
      PROVE  /\ t[m] \in EndPacket /\ p.hdr < t[m].hdr
             /\ c[1].rid <= t[m].rid
             /\ t[m].rid # p.rid \/ t[m].serial # p.serial
             /\ p.type = REDUNDANT => p.rid < t[m].rid
  <2>1. /\ m + 1 \in 1 .. Len(l) /\ t[m] = l[m + 1] /\ 1 < m + 1 /\ t[m] \in EndPacket
    BY ONLY <1>2, ElementOfSeq
  <2>2. p.hdr < t[m].hdr
    BY <1>2, <1>3, <1>5, <2>1 DEF FirstIsNew
  <2>3. p.type = REDUNDANT => p.rid < t[m].rid
    <3>1. t[m].type # REDUNDANT
      BY <1>5 DEF DATA, REDUNDANT
    <3>2. l[1].type = REDUNDANT => l[1].rid < l[m + 1].rid
      BY ONLY <1>2, <1>3, <2>1, <3>1 DEF SegmentsAfter
    <3> QED
      BY <1>2, <2>1, <3>2
  <2>4. p.rid <= t[m].rid
    <3>1. \A n \in 1 .. Len(l) : l[n].type # NONE
      BY ONLY OutShape(l, h) DEF OutShape, NONE, DATA, REDUNDANT, REXMIT
    <3>2. l[1].rid <= l[m + 1].rid
      BY ONLY Ordered(l), <1>2, <2>1, <3>1 DEF Ordered, Before
    <3> QED
      BY <1>2, <2>1, <3>2
  <2>5. p.rid \in Nat /\ t[m].rid \in Nat /\ p.hdr \in Nat /\ t[m].hdr \in Nat
    BY <1>2, <2>1 DEF EndPacket
  <2>6. c[1].rid <= t[m].rid
    BY ONLY c[1].rid \in Nat, c[1].rid = p.rid \/ (p.type = REDUNDANT /\ c[1].rid = p.rid + 1),
            <2>3, <2>4, <2>5
  <2>7. t[m].serial # p.serial
    <3>1. t[m].serial = Seq1(t[m].hdr)
      BY <1>5, <2>1 DEF OutShape, DATA, REDUNDANT
    <3>2. p.type # REDUNDANT => p.serial = Seq1(p.hdr)
      BY <1>2 DEF OutShape
    <3>3. CASE p.type = REDUNDANT
      <4>1. ~SegmentSerial(p.serial)
        BY <1>2, <3>3 DEF OutShape
      <4>2. SegmentSerial(t[m].serial)
        BY <2>5, <3>1 DEF SegmentSerial
      <4> QED
        BY <4>1, <4>2
    <3>4. CASE p.type # REDUNDANT
      <4>1. Seq1(p.hdr) # Seq1(t[m].hdr)
        BY ONLY <2>2, <2>5, SerialsDiffer
      <4> QED
        BY ONLY <3>1, <3>2, <3>4, <4>1
    <3> QED
      BY <3>3, <3>4
  <2> QED
    BY <2>1, <2>2, <2>3, <2>6, <2>7
<1>6. FirstNoted(c, t)
  <2> SUFFICES ASSUME NEW m \in 1 .. Len(t), t[m].type = DATA
               PROVE  \E k, x : RoundEntry(c, t[m].rid, k, x) /\ EntryOf(t[m], t[m].rid, x) /\ ~x.check
    BY DEF FirstNoted
  <2>1. PICK k, e : RoundEntry(rt, t[m].rid, k, e) /\ EntryOf(t[m], t[m].rid, e) /\ ~e.check
    BY <1>3 DEF FirstNoted
  <2>2. /\ c[1].rid <= t[m].rid /\ (t[m].rid # p.rid \/ e.serial # p.serial)
    BY <1>5, <2>1 DEF EntryOf
  <2>3. PICK x : /\ RoundEntry(c, t[m].rid, k, x) /\ ~x.check
                 /\ x.fec = e.fec /\ x.serial = e.serial /\ x.gid = e.gid
    BY <2>1, <2>2, UnmarkedStays
  <2>4. EntryOf(t[m], t[m].rid, x)
    BY <2>1, <2>3 DEF EntryOf
  <2> QED
    BY <2>3, <2>4
<1>7. FirstIsNew(d, t, seen2)
  <2> SUFFICES ASSUME NEW m \in 1 .. Len(t), t[m].type = DATA
               PROVE  /\ \A y \in seen2 : y < t[m].hdr
                      /\ \A k \in 1 .. Len(t) : k < m => t[k].hdr < t[m].hdr
                      /\ \A r, g, k, x : GroupEntry(d, r, g, k, x) /\ r < t[m].rid => x.hdr < t[m].hdr
    BY DEF FirstIsNew
  <2>1. /\ \A y \in seen : y < t[m].hdr
        /\ \A k \in 1 .. Len(t) : k < m => t[k].hdr < t[m].hdr
        /\ \A r, g, k, x : GroupEntry(gt, r, g, k, x) /\ r < t[m].rid => x.hdr < t[m].hdr
    BY <1>3 DEF FirstIsNew
  <2>2. p.hdr < t[m].hdr
    BY <1>5
  <2>3. \A y \in Rebuildable(gt, p) : y < t[m].hdr
    BY <1>5, <2>1 DEF Rebuildable
  <2>4. ASSUME NEW y \in seen2 PROVE y < t[m].hdr
    BY <2>1, <2>2, <2>3
  <2>5. ASSUME NEW r, NEW g, NEW k, NEW x, GroupEntry(d, r, g, k, x), r < t[m].rid
        PROVE  x.hdr < t[m].hdr
    <3>1. PICK y : GroupEntry(gt, r, g, k, y) /\ y.hdr = x.hdr
      BY <2>5 DEF SameSegments
    <3> QED
      BY ONLY <2>1, <2>5, <3>1
  <2> QED
    BY <2>1, <2>4, <2>5
<1> QED
  BY <1>3, <1>4, <1>6, <1>7 DEF SendOrder, t

\* The losses that a first transmission finds are the entries before its own that
\* have no mark.
LEMMA LossCounted ==
  ASSUME NEW rt \in Seq(RoundFecTable), NEW b \in Int, Rounds(rt, b),
         NEW c \in Seq(RoundFecTable), c # <<>>, NEW a \in Int, Rounds(c, a),
         NEW p \in EndPacket, c[1].rid = p.rid, NEW s, RoundsPassed(c, rt, p, s),
         SegmentSerial(p.serial), NEW h, EntriesShape(rt, h), BurstLast(rt), UnmarkedRises(rt),
         NEW j, NEW own, RoundEntry(rt, p.rid, j, own), EntryOf(p, p.rid, own), ~own.check,
         ~own.fec,
         NEW n, n = Cardinality(Missing(c[1].pi, PosInGroup(c[1].pi, p) + 1, p.serial))
  PROVE  /\ n \in Nat
         /\ n > 0 <=> \E k, e : /\ RoundEntry(rt, p.rid, k, e) /\ ~e.check /\ ~e.fec
                                /\ e.serial < p.serial
<1> DEFINE pi == c[1].pi
           z == PosInGroup(pi, p)
           M == Missing(pi, z + 1, p.serial)
<1>1. 1 \in 1 .. Len(c) /\ Len(c) \in Nat /\ pi \in Seq(PacketInfo) /\ Len(pi) \in Nat
  <2>1. 1 \in 1 .. Len(c) /\ Len(c) \in Nat
    BY EmptySeq, LenProperties
  <2> QED
    BY <2>1, EntryTyped
<1>2. c[1].rid = a + 1
  BY <1>1 DEF Rounds
<1>3. \A k, e : RoundEntry(c, p.rid, k, e) <=> k \in 1 .. Len(pi) /\ e = pi[k]
  BY <1>1, <1>2, EntryAt
<1>4. /\ s \in Nat
      /\ \A k, x : RoundEntry(c, p.rid, k, x) =>
           \E d : RoundEntry(rt, p.rid, k, d) /\ SameEntry(x, d, k = s)
      /\ \A k, d : RoundEntry(rt, p.rid, k, d) =>
           \E x : RoundEntry(c, p.rid, k, x) /\ SameEntry(x, d, k = s)
  <2>1. p.rid \in Nat
    BY DEF EndPacket
  <2> QED
    BY <2>1 DEF RoundsPassed
<1>5. own.serial = p.serial
  BY DEF EntryOf
<1> HIDE DEF pi
<1>6. z \in 1 .. Len(pi) /\ pi[z].serial = p.serial /\ j \in 1 .. Len(pi) /\ z <= j
  <2>1. PICK x : RoundEntry(c, p.rid, j, x) /\ SameEntry(x, own, j = s)
    BY <1>4
  <2>2. j \in 1 .. Len(pi) /\ pi[j].serial = p.serial
    BY <1>3, <1>5, <2>1 DEF SameEntry
  <2>3. z \in 1 .. Len(pi)
    BY <1>1, <2>2, PosFound
  <2> QED
    BY <1>1, <2>2, <2>3, FirstMatch
<1>7. PICK d0 : RoundEntry(rt, p.rid, z, d0) /\ SameEntry(pi[z], d0, z = s)
  BY <1>3, <1>4, <1>6
<1>8. d0.serial = p.serial /\ ~d0.fec
  <2>1. d0.serial = p.serial
    BY <1>6, <1>7 DEF SameEntry
  <2> QED
    BY <1>7, <2>1 DEF EntriesShape
<1> HIDE DEF z
<1>9. z = j
  <2> SUFFICES ASSUME z < j PROVE FALSE
    BY <1>6
  <2>1. d0.serial < own.serial
    BY <1>7 DEF UnmarkedRises
  <2>2. p.serial \in Nat
    BY DEF EndPacket
  <2> QED
    BY <1>5, <1>8, <2>1, <2>2
<1>10. IsFiniteSet(M)
  <2>1. M \in SUBSET (1 .. z)
    BY <1>6 DEF Missing
  <2>2. z \in Int /\ 1 \in Int
    BY <1>6
  <2>3. IsFiniteSet(1 .. z)
    BY <2>2, FS_Interval
  <2> QED
    BY <2>1, <2>3, FS_Subset
<1>11. M # {} <=> \E k, e : /\ RoundEntry(rt, p.rid, k, e) /\ ~e.check /\ ~e.fec
                            /\ e.serial < p.serial
  <2>1. ASSUME NEW k \in M
        PROVE  \E e : RoundEntry(rt, p.rid, k, e) /\ ~e.check /\ ~e.fec /\ e.serial < p.serial
    <3>1. k \in 1 .. Len(pi) /\ k <= z /\ ~pi[k].check /\ pi[k].serial < p.serial
      BY <1>1, <1>6, <2>1 DEF Missing
    <3>2. PICK e : RoundEntry(rt, p.rid, k, e) /\ SameEntry(pi[k], e, k = s)
      BY <1>3, <1>4, <3>1
    <3>3. ~e.check /\ e.serial < p.serial
      BY <3>1, <3>2 DEF SameEntry
    <3>4. k # z
      <4>1. p.serial \in Nat
        BY DEF EndPacket
      <4> QED
        BY <1>6, <3>1, <4>1
    <3>5. k < z
      BY <1>6, <3>1, <3>4
    <3>6. ~e.fec
      BY <1>7, <1>8, <3>2, <3>5 DEF BurstLast
    <3> QED
      BY <3>2, <3>3, <3>6
  <2>2. ASSUME NEW k, NEW e, RoundEntry(rt, p.rid, k, e), ~e.check, ~e.fec, e.serial < p.serial
        PROVE  k \in M
    <3>1. PICK x : RoundEntry(c, p.rid, k, x) /\ SameEntry(x, e, k = s)
      BY <1>4, <2>2
    <3>2. k \in 1 .. Len(pi) /\ pi[k] = x
      BY <1>3, <3>1
    <3>3. k # s
      <4>1. PICK y : RoundEntry(rt, p.rid, s, y) /\ y.serial = p.serial
        BY DEF RoundsPassed
      <4>2. e.serial \in Nat /\ p.serial \in Nat /\ \A y1 : RoundEntry(rt, p.rid, k, y1) => y1 = e
        BY <2>2, EntryFacts DEF PacketInfo, EndPacket
      <4> QED
        BY <2>2, <4>1, <4>2
    <3>4. ~(j < k)
      <4>1. j < k => p.serial < e.serial
        BY <1>5, <2>2 DEF UnmarkedRises
      <4>2. e.serial \in Nat /\ p.serial \in Nat
        BY <2>2, EntryFacts DEF PacketInfo, EndPacket
      <4> QED
        BY <2>2, <4>1, <4>2
    <3>5. k \in 1 .. (z + 1) - 1
      BY <1>6, <1>9, <3>2, <3>4
    <3> QED
      BY <2>2, <3>1, <3>2, <3>3, <3>5 DEF Missing, SameEntry
  <2> QED
    BY <2>1, <2>2
<1>12. n = Cardinality(M)
  BY DEF pi, z
<1> HIDE DEF M
<1>13. n \in Nat /\ (n > 0 <=> M # {})
  <2>1. n \in Nat /\ (n = 0 <=> M = {})
    BY <1>10, <1>12, FS_CardinalityType, FS_EmptySet
  <2> QED
    BY <2>1
<1> QED
  BY <1>11, <1>13

\* What the receiver has seen is older than what is under way for the first time.
OrderInv == SendOrder(rt_, gt_, link, rcvd \cup Held)

\* Packet x is held because an earlier segment of its round has not arrived, and
\* until the round is gone that one has its entry.
KeptBack(x) ==
  /\ AckMode /\ ~m_init
  /\ x.rid = rid_ /\ x.serial = Seq1(x.hdr) /\ x.hdr # 0
  /\ \A r \in rcvd : r < x.hdr
  /\ rt_[1].rid <= rid_ =>
       \E k, e : RoundEntry(rt_, rid_, k, e) /\ ~e.check /\ ~e.fec /\ e.serial < x.serial
HeldInv ==
  /\ rid_ \in Nat /\ rid_ <= m_roundId
  /\ \A m \in 1 .. Len(link) : rid_ <= link[m].rid
  /\ \A i \in 1 .. Len(tq_) : tq_[i].type = DATA => KeptBack(tq_[i])

\* No entry is gone.
Grows(c, rt) == \A r, k, e : RoundEntry(rt, r, k, e) => RoundEntry(c, r, k, e)

\* A packet is sent.
LEMMA HeldStays ==
  ASSUME HeldInv, UNCHANGED <<rid_, rcvd, tq_>>, m_init' = FALSE, ~m_init => rt_ # <<>>,
         FrontStays(rt_', rt_), Grows(rt_', rt_),
         m_roundId \in Nat, m_roundId' \in Nat, m_roundId <= m_roundId',
         link \in Seq(EndPacket), NEW p \in EndPacket, link' = Append(link, p), m_roundId <= p.rid
  PROVE  HeldInv'
<1>1. /\ rid_ \in Nat /\ rid_ <= m_roundId
      /\ \A m \in 1 .. Len(link) : rid_ <= link[m].rid
      /\ \A i \in 1 .. Len(tq_) : tq_[i].type = DATA => KeptBack(tq_[i])
  BY DEF HeldInv
<1>2. rid_ <= m_roundId'
  BY <1>1
<1>3. ASSUME NEW m \in 1 .. Len(link') PROVE rid_ <= link'[m].rid
  <2>1. /\ Len(link') = Len(link) + 1 /\ link'[Len(link) + 1] = p /\ Len(link) \in Nat
        /\ \A i \in 1 .. Len(link) : link'[i] = link[i]
    BY AppendProperties, LenProperties
  <2>2. m \in 1 .. Len(link) \/ m = Len(link) + 1
    BY <2>1
  <2>3. rid_ <= p.rid
    <3>1. p.rid \in Nat
      BY DEF EndPacket
    <3> QED
      BY <1>1, <3>1
  <2> QED
    BY <1>1, <2>1, <2>2, <2>3
<1>4. ASSUME NEW x, KeptBack(x) PROVE KeptBack(x)'
  <2>1. rt_'[1].rid = rt_[1].rid
    BY <1>4 DEF KeptBack, FrontStays
  <2>2. rt_'[1].rid <= rid_ =>
          \E k, e : RoundEntry(rt_', rid_, k, e) /\ ~e.check /\ ~e.fec /\ e.serial < x.serial
    BY <1>4, <2>1 DEF KeptBack, Grows
  <2> QED
    BY <1>4, <2>2 DEF KeptBack
<1> QED
  BY <1>1, <1>2, <1>3, <1>4 DEF HeldInv

\* The sending sides on which segments are sent have the order, and all entries.
LEMMA OpensOrder ==
  ASSUME EndInv, OrderInv, NEW s, (Idle /\ s \in Begun) \/ s \in Sized(Reset(Fec))
  PROVE  SendOrder(s.rt, s.gt, link, rcvd \cup Held) /\ Grows(s.rt, rt_) /\ m_roundId <= s.rid
<1>1. /\ m_roundId \in Nat /\ rt_ \in Seq(RoundFecTable) /\ gt_ \in Seq(GroupFecTable)
  BY EmptySeq DEF EndInv, PathInv, TypeInv, TablesInv, Tracked, Ending
<1>2. ASSUME NEW b, DOMAIN b = Fields, b.rt = rt_, b.gt = gt_,
             b.rid \in Nat, m_roundId <= b.rid, s \in Sized(b)
      PROVE  SendOrder(s.rt, s.gt, link, rcvd \cup Held) /\ Grows(s.rt, rt_) /\ m_roundId <= s.rid
  <2>1. PICK size \in Sizes :
          s.rid = b.rid /\ s.rt = WithRound(rt_, b.rid, size) /\ s.gt = WithGroups(gt_, b.rid, size)
    BY <1>2, SizedFields
  <2>2. EntriesSame(s.rt, rt_) /\ GroupEntriesSame(s.gt, gt_)
    BY <1>1, <1>2, <2>1, OpenAdds, GroupOpenAdds
  <2> QED
    BY <1>2, <2>1, <2>2, OpenOrder DEF OrderInv, EntriesSame, Grows
<1>3. CASE s \in Sized(Reset(Fec))
  <2> DEFINE b == Reset(Fec)
  <2>1. DOMAIN b = Fields /\ b.rid = m_roundId + 1 /\ b.rt = rt_ /\ b.gt = gt_
    BY DEF Reset, Fec, Fields
  <2>2. s \in Sized(b)
    BY <1>3
  <2> HIDE DEF b
  <2>3. b.rid \in Nat /\ m_roundId <= b.rid
    BY <1>1, <2>1
  <2> QED
    BY <1>2, <2>1, <2>2, <2>3
<1>4. CASE Idle /\ s \in Begun /\ m_init
  <2> DEFINE b == Fec
  <2>1. DOMAIN b = Fields /\ b.rid = m_roundId /\ b.rt = rt_ /\ b.gt = gt_
    BY DEF Fec, Fields
  <2>2. s \in Sized(b)
    BY <1>4 DEF Begun
  <2> HIDE DEF b
  <2>3. b.rid \in Nat /\ m_roundId <= b.rid
    BY <1>1, <2>1
  <2> QED
    BY <1>2, <2>1, <2>2, <2>3
<1>5. CASE Idle /\ s \in Begun /\ ~m_init
  <2>1. s.rt = rt_ /\ s.gt = gt_ /\ s.rid = m_roundId
    BY <1>5 DEF Begun, Fec
  <2> QED
    BY <1>1, <2>1 DEF OrderInv, Grows
<1> QED
  BY <1>3, <1>4, <1>5

\* Packets on the path are of rounds up to the last, and redundant ones of it are
\* behind all segments.
LEMMA PathBehind ==
  ASSUME NEW l \in Seq(EndPacket), NEW last, NEW f, NEW g, Behind(l, last, f, g),
         NEW m \in 1 .. Len(l)
  PROVE  /\ l[m] \in EndPacket /\ l[m].rid \in Nat /\ l[m].rid <= last
         /\ l[m].type = REDUNDANT /\ l[m].rid = last => f = 0
<1>1. l[m] \in EndPacket
  BY ElementOfSeq
<1>2. l[m].type # NONE /\ l[m].rid \in Nat
  BY <1>1 DEF EndPacket, NONE, DATA, REDUNDANT, REXMIT, RECOVERED
<1> QED
  BY <1>1, <1>2 DEF Behind

\* SendDataPacket sends what is later than everything seen, or sends again.
LEMMA SendOrders ==
  ASSUME EndInv, NEW s, Turns(s), Tracks(s, link, highTx),
         RoundLedger(s.rt, s.rid, s.fc, s.gid, Out, highTx),
         SendOrder(s.rt, s.gt, link, rcvd \cup Held),
         NEW seg \in 1 .. highTx + 1, SendDataPacket(seg, s)
  PROVE  /\ OrderInv' /\ Grows(rt_', s.rt) /\ m_init' = FALSE
         /\ \E p \in EndPacket : link' = Append(link, p) /\ p.rid = m_roundId' /\ m_roundId' = s.rid
<1> DEFINE again == seg <= highTx
           e == [serial |-> Seq1(seg), gid |-> s.gid, fec |-> FALSE, hdr |-> seg,
                 check |-> again, flag |-> FALSE]
           p == Tagged(s, IF again THEN REXMIT ELSE DATA, Seq1(seg), seg)
           seen == rcvd \cup Held
<1>1. /\ rt_' = RoundPush(s.rt, e) /\ gt_' = GroupPush(s.gt, e) /\ m_roundId' = s.rid
  BY DEF SendDataPacket, Becomes, Push, Tracks, Fields
<1>2. link' = Append(link, p) /\ m_init' = FALSE /\ rcvd' = rcvd /\ tq_' = tq_
  BY DEF SendDataPacket, receiver
<1>3. /\ link \in Seq(EndPacket) /\ highTx \in Nat /\ seg \in Nat /\ Seq1(seg) \in Nat
  <2>1. link \in Seq(EndPacket) /\ highTx \in Nat
    BY DEF EndInv, PathInv, TypeInv
  <2>2. seg \in Nat
    BY <2>1
  <2> QED
    BY <2>1, <2>2, SerialsRise
<1>4. /\ s.rid \in Nat /\ s.rt \in Seq(RoundFecTable) /\ s.rt # <<>> /\ Ending(s.rt, s.rid)
      /\ s.gt \in Seq(GroupFecTable) /\ s.gt # <<>> /\ Ending(s.gt, s.rid)
      /\ Behind(link, s.rid, s.fc, s.gid) /\ HdrsWithin(s.gt, highTx)
      /\ s.n \in Sizes
  BY DEF Tracks, Tracked, Ending
<1>5. s.fc # 0 /\ s.gid \in Groups /\ s.gid \in Nat /\ s.n \in Nat
  <2>1. /\ s.fc \in Nat \ {0} /\ s.n \in Nat \ {0} /\ s.gid \in 0 .. s.n - 1
    BY DEF Turns
  <2>2. NGroups \in Nat /\ s.n <= NGroups
    <3>1. NGroups \in Nat
      BY ONLY NGroupsAssumption
    <3>2. s.n \in 1 .. NGroups
      BY ONLY <1>4 DEF Sizes
    <3> QED
      BY ONLY <3>1, <3>2
  <2> QED
    BY ONLY <2>1, <2>2 DEF Groups
<1>6. again \in BOOLEAN
  OBVIOUS
<1>7. /\ e \in PacketInfo /\ e.serial = Seq1(seg) /\ e.gid = s.gid /\ e.fec = FALSE /\ e.check = again
  BY <1>3, <1>5, <1>6 DEF PacketInfo
<1>8. /\ p \in EndPacket /\ p.serial = Seq1(seg) /\ p.gid = s.gid /\ p.rid = s.rid
      /\ p.hdr = seg /\ p.type = (IF again THEN REXMIT ELSE DATA)
  BY <1>3, <1>4, <1>5 DEF EndPacket, Tagged
<1> HIDE DEF e, p, seen
<1>9. p.type # REDUNDANT /\ (p.type = DATA <=> ~again) /\ (~again => seg = highTx + 1)
  <2>1. p.type # REDUNDANT /\ (p.type = DATA <=> ~again)
    BY <1>8 DEF DATA, REDUNDANT, REXMIT
  <2> QED
    BY <1>3, <2>1
<1>10. /\ EntriesShape(s.rt, highTx) /\ BurstEntries(s.rt, s.rid, s.fc, s.gid)
  BY DEF RoundLedger
<1>11. Follows(s.rt, s.gt, link, seen, s.rid, e, p)
  <2>1. ASSUME NEW k, NEW d, RoundEntry(s.rt, s.rid, k, d)
        PROVE  ~d.fec /\ (~again => d.serial < e.serial)
    <3>1. ~d.fec
      BY <1>5, <1>10, <2>1 DEF BurstEntries
    <3>2. ~again => d.serial < Seq1(seg)
      BY <1>9, <1>10, <2>1 DEF EntriesShape
    <3> QED
      BY <1>7, <3>1, <3>2
  <2>2. ASSUME ~again
        PROVE  /\ EntryOf(p, s.rid, e) /\ ~e.check
               /\ \A x \in seen : x < p.hdr
               /\ \A m \in 1 .. Len(link) : link[m].hdr < p.hdr
               /\ \A r, g, k, d : GroupEntry(s.gt, r, g, k, d) => d.hdr < p.hdr
    <3>1. p.hdr = highTx + 1
      BY <1>8, <1>9, <2>2
    <3>2. EntryOf(p, s.rid, e) /\ ~e.check
      BY <1>7, <1>8, <2>2 DEF EntryOf
    <3>3. ASSUME NEW x \in seen PROVE x < p.hdr
      <4>1. x \in 1 .. highTx
        BY DEF EndInv, PathInv, Conservation, seen
      <4> QED
        BY ONLY <1>3, <3>1, <4>1
    <3>4. ASSUME NEW m \in 1 .. Len(link) PROVE link[m].hdr < p.hdr
      <4>1. link[m].hdr \in Nat
        BY <1>3, <1>4, PathBehind DEF EndPacket
      <4>2. link[m].hdr <= highTx
        BY DEF EndInv, PathInv, HdrsInv
      <4> QED
        BY ONLY <1>3, <3>1, <4>1, <4>2
    <3>5. ASSUME NEW r, NEW g, NEW k, NEW d, GroupEntry(s.gt, r, g, k, d) PROVE d.hdr < p.hdr
      <4>1. d.hdr <= highTx
        BY <1>4, <3>5 DEF HdrsWithin, GroupEntry
      <4>2. d.hdr \in Nat
        <5>1. Rounds(s.gt, s.rid - Len(s.gt)) /\ s.rid - Len(s.gt) \in Int
          BY <1>4, LenProperties DEF Ending
        <5>2. d \in PacketInfo
          BY <1>4, <3>5, <5>1, GroupEntryFacts
        <5> QED
          BY <5>2 DEF PacketInfo
      <4> QED
        BY ONLY <1>3, <3>1, <4>1, <4>2
    <3> QED
      BY <3>2, <3>3, <3>4, <3>5
  <2>3. ASSUME NEW m \in 1 .. Len(link)
        PROVE  link[m].rid <= s.rid /\ (link[m].type = REDUNDANT => link[m].rid < s.rid)
    <3>1. /\ link[m].rid \in Nat /\ link[m].rid <= s.rid
          /\ link[m].type = REDUNDANT => link[m].rid # s.rid
      BY <1>3, <1>4, <1>5, PathBehind
    <3> QED
      BY <1>4, <3>1
  <2> HIDE DEF again
  <2> QED
    BY <1>7, <1>8, <1>9, <2>1, <2>2, <2>3 DEF Follows
<1>12. /\ EntryAdded(RoundPush(s.rt, e), s.rt, s.rid, e)
       /\ GroupEntryAdded(GroupPush(s.gt, e), s.gt, s.rid, e)
  BY <1>4, <1>7, PushAdds, GroupPushAdds
<1>13. Grows(rt_', s.rt)
  BY <1>1, <1>12 DEF EntryAdded, Grows
<1>14. SendOrder(RoundPush(s.rt, e), GroupPush(s.gt, e), Append(link, p), seen)
  <2>1. Rounds(s.rt, s.rid - Len(s.rt)) /\ s.rid - Len(s.rt) \in Int
    BY <1>4, LenProperties DEF Ending
  <2>2. SendOrder(s.rt, s.gt, link, seen)
    BY DEF seen
  <2> HIDE DEF again
  <2> QED
    BY <1>3, <1>4, <1>8, <1>11, <1>12, <2>1, <2>2, PushOrder
<1>15. OrderInv'
  <2>1. seen' = seen
    BY <1>2 DEF seen, Held, Segments
  <2> QED
    BY <1>1, <1>2, <1>14, <2>1 DEF OrderInv, seen
<1> QED
  BY <1>1, <1>2, <1>8, <1>13, <1>15

\* Both together.
OvertakeInv == OrderInv /\ HeldInv

\* A segment is sent.
LEMMA SendKeepsOrder ==
  ASSUME EndInv, LedgerInv, OvertakeInv, NEW s, (Idle /\ s \in Begun) \/ s \in Sized(Reset(Fec)),
         NEW seg \in 1 .. highTx + 1, SendDataPacket(seg, s)
  PROVE  OvertakeInv'
<1>1. Turns(s) /\ Tracks(s, link, highTx)
  BY BegunTracks, ResetTracks
<1>2. /\ RoundLedger(s.rt, s.rid, s.fc, s.gid, Out, highTx)
      /\ rt_ # <<>> => s.rt[1].rid = rt_[1].rid
  BY BegunLedger, ResetLedger
<1>3. /\ SendOrder(s.rt, s.gt, link, rcvd \cup Held) /\ Grows(s.rt, rt_) /\ m_roundId <= s.rid
  BY OpensOrder DEF OvertakeInv
<1>4. /\ OrderInv' /\ Grows(rt_', s.rt) /\ m_init' = FALSE
      /\ \E p \in EndPacket : link' = Append(link, p) /\ p.rid = m_roundId' /\ m_roundId' = s.rid
  BY <1>1, <1>2, <1>3, SendOrders
<1>5. /\ link \in Seq(EndPacket) /\ lost \in Seq(EndPacket) /\ highTx \in Nat /\ m_roundId \in Nat
      /\ ~m_init => rt_ # <<>>
  BY DEF EndInv, PathInv, TypeInv, TablesInv, Tracked, Ending
<1>6. FrontStays(rt_', s.rt) /\ s.rt # <<>> /\ s.rid \in Nat
  <2>1. seg \in Nat \ {0} /\ seg <= highTx + 1
    BY <1>5
  <2>2. FrontStays(rt_', s.rt)
    BY <1>1, <1>2, <1>5, <2>1, SendLedger
  <2> QED
    BY <1>1, <2>2 DEF Tracks, Tracked, Ending
<1>7. FrontStays(rt_', rt_) /\ Grows(rt_', rt_)
  BY <1>2, <1>3, <1>4, <1>6 DEF FrontStays, Grows
<1>8. UNCHANGED <<rid_, rcvd, tq_>>
  BY DEF SendDataPacket, receiver
<1>9. HeldInv'
  BY <1>3, <1>4, <1>5, <1>6, <1>7, <1>8, HeldStays DEF OvertakeInv
<1> QED
  BY <1>4, <1>9 DEF OvertakeInv

\* A step of the burst.
LEMMA SendFecKeepsOrder ==
  ASSUME EndInv, LedgerInv, OvertakeInv, SendFecPacket
  PROVE  OvertakeInv'
<1> DEFINE e == [serial |-> m_serial, gid |-> m_groupId, fec |-> TRUE, hdr |-> 0,
                 check |-> FALSE, flag |-> FALSE]
           p == Tagged(Fec, REDUNDANT, m_serial, 0)
           s == [CreateFecPacket(Fec) EXCEPT !.ic = @ - 1]
           rt == RoundPush(rt_, e)
           gt == GroupPush(gt_, e)
           seen == rcvd \cup Held
<1>1. /\ ~m_init /\ fc = 0 /\ m_init' = m_init /\ link' = Append(link, p)
      /\ UNCHANGED <<rid_, rcvd, tq_>>
  BY DEF SendFecPacket, Idle, tcp, receiver
<1>2. /\ link \in Seq(EndPacket) /\ m_roundId \in Nat /\ m_serial \in Nat
      /\ m_groupId \in 0 .. nGroups - 1 /\ nGroups \in Nat /\ nGroups \in Sizes
      /\ rt_ \in Seq(RoundFecTable) /\ rt_ # <<>> /\ Ending(rt_, m_roundId)
      /\ gt_ \in Seq(GroupFecTable) /\ gt_ # <<>> /\ Ending(gt_, m_roundId)
      /\ Behind(link, m_roundId, fc, m_groupId)
  BY <1>1 DEF EndInv, ShapeInv, RoundShape, PathInv, TypeInv, TablesInv, Tracked, Ending
<1>3. m_groupId \in Groups /\ m_groupId \in Nat
  BY <1>2, NGroupsAssumption DEF Sizes, Groups
<1>4. e \in PacketInfo /\ e.fec = TRUE
  BY <1>2, <1>3 DEF PacketInfo
<1>5. p \in EndPacket /\ p.rid = m_roundId /\ p.type = REDUNDANT /\ p.type # DATA
  <2>1. p \in EndPacket /\ p.rid = m_roundId /\ p.type = REDUNDANT
    BY <1>2, <1>3 DEF EndPacket, Tagged, Fec
  <2> QED
    BY <2>1 DEF DATA, REDUNDANT
<1>6. /\ DOMAIN s = Fields /\ s.rt = rt /\ s.gt = gt /\ s.rid \in {m_roundId, m_roundId + 1}
  <2>1. /\ DOMAIN s = Fields /\ s.rt = rt /\ s.gt = gt
        /\ s.rid = IF nGroups = 1 \/ m_groupId + 1 = nGroups THEN m_roundId + 1 ELSE m_roundId
    BY DEF CreateFecPacket, Push, Fec, Fields
  <2> QED
    BY <2>1
<1>7. PICK t \in IF s.ic = 0 THEN Sized(s) ELSE {s} : Becomes(t)
  BY DEF SendFecPacket
<1>8. rt_' = t.rt /\ gt_' = t.gt /\ m_roundId' = t.rid
  BY <1>7 DEF Becomes
<1> HIDE DEF e, p, s, seen
<1>9. EntryAdded(rt, rt_, m_roundId, e) /\ GroupEntryAdded(gt, gt_, m_roundId, e)
  BY <1>2, <1>4, PushAdds, GroupPushAdds
<1>10. rt \in Seq(RoundFecTable) /\ gt \in Seq(GroupFecTable)
  BY <1>2, <1>4, RoundPushPass, GroupPushPass
<1> HIDE DEF rt, gt
<1>11. Follows(rt_, gt_, link, seen, m_roundId, e, p)
  <2>1. \A m \in 1 .. Len(link) : link[m].rid <= m_roundId
    BY <1>2, PathBehind
  <2> QED
    BY <1>4, <1>5, <2>1 DEF Follows
<1>12. SendOrder(rt, gt, Append(link, p), seen) /\ Grows(rt, rt_)
  <2>1. Rounds(rt_, m_roundId - Len(rt_)) /\ m_roundId - Len(rt_) \in Int
    BY <1>2, LenProperties DEF Ending
  <2>2. SendOrder(rt_, gt_, link, seen)
    BY DEF OvertakeInv, OrderInv, seen
  <2>3. Grows(rt, rt_)
    BY <1>9 DEF EntryAdded, Grows
  <2> QED
    BY <1>2, <1>4, <1>5, <1>9, <1>11, <2>1, <2>2, <2>3, PushOrder
<1>13. /\ SendOrder(t.rt, t.gt, Append(link, p), seen) /\ Grows(t.rt, rt_)
       /\ t.rid \in {m_roundId, m_roundId + 1}
  <2>1. CASE s.ic = 0
    <3>1. t \in Sized(s)
      BY <1>7, <2>1
    <3>2. PICK size \in Sizes :
            t.rid = s.rid /\ t.rt = WithRound(rt, s.rid, size) /\ t.gt = WithGroups(gt, s.rid, size)
      BY <1>6, <3>1, SizedFields
    <3>3. s.rid \in Nat
      BY <1>2, <1>6
    <3>4. EntriesSame(t.rt, rt) /\ GroupEntriesSame(t.gt, gt)
      BY <1>10, <3>2, <3>3, OpenAdds, GroupOpenAdds
    <3>5. SendOrder(t.rt, t.gt, Append(link, p), seen)
      BY <1>12, <3>4, OpenOrder
    <3>6. Grows(t.rt, rt_)
      BY <1>12, <3>4 DEF EntriesSame, Grows
    <3> QED
      BY <1>6, <3>2, <3>5, <3>6
  <2>2. CASE s.ic # 0
    BY <1>6, <1>7, <1>12, <2>2
  <2> QED
    BY <2>1, <2>2
<1>14. OrderInv'
  <2>1. seen' = seen
    BY <1>1 DEF seen, Held, Segments
  <2> QED
    BY <1>1, <1>8, <1>13, <2>1 DEF OrderInv, seen
<1>15. FrontStays(rt_', rt_)
  BY SendFecLedger
<1>16. m_roundId' \in Nat /\ m_roundId <= m_roundId' /\ m_roundId <= p.rid
  BY <1>2, <1>5, <1>8, <1>13
<1>17. m_init' = FALSE
  BY <1>1 DEF EndInv, ShapeInv
<1>18. HeldInv'
  <2>1. Grows(rt_', rt_) /\ HeldInv
    BY <1>8, <1>13 DEF OvertakeInv
  <2> QED
    BY <1>1, <1>2, <1>5, <1>15, <1>16, <1>17, <2>1, HeldStays
<1> QED
  BY <1>14, <1>18 DEF OvertakeInv

\* The path loses the packet at its head.
LEMMA LoseKeepsOrder ==
  ASSUME EndInv, OvertakeInv, Lose
  PROVE  OvertakeInv'
<1>1. /\ link # <<>> /\ link' = Tail(link) /\ link \in Seq(EndPacket)
      /\ UNCHANGED <<m_init, m_roundId, rt_, gt_, rid_, rcvd, tq_>>
  BY DEF Lose, sender, receiver, EndInv, PathInv, TypeInv
<1>2. OrderInv'
  <2>1. SendOrder(rt_, gt_, Tail(link), rcvd \cup Held)
    BY <1>1, TailOrder DEF OvertakeInv, OrderInv
  <2> QED
    BY <1>1, <2>1 DEF OrderInv, Held, Segments
<1>3. HeldInv'
  <2>1. \A m \in 1 .. Len(link') : rid_ <= link'[m].rid
    BY <1>1, TailPlaces DEF OvertakeInv, HeldInv
  <2>2. \A x : KeptBack(x)' <=> KeptBack(x)
    BY <1>1 DEF KeptBack
  <2> QED
    BY <1>1, <2>1, <2>2 DEF OvertakeInv, HeldInv
<1> QED
  BY <1>2, <1>3 DEF OvertakeInv

\* The losses of a group are a number.
LEMMA GroupLosses ==
  ASSUME NEW gt \in Seq(GroupFecTable), NEW b \in Int, NEW p, Tag(p), Rounds(gt, b),
         NEW n \in 1 .. Len(gt), p.rid = b + n, GroupHas(gt[n], p), NEW rt, p.rid \in Int
  PROVE  MarkGroupFecTable(rt, gt, p).nlost \in Nat
<1> DEFINE q == PopBelow(gt, p.rid)
           pi == gt[n].gi[p.gid]
           k == PosInGroup(pi, p)
           M == Missing(pi, k, p.serial)
<1>1. q[1] = gt[n]
  BY PopGroups
<1>2. pi \in Seq(PacketInfo)
  BY GroupTyped DEF Tag
<1> HIDE DEF q
<1>3. MarkGroupFecTable(rt, gt, p).nlost = IF p.rid < rt[1].rid THEN 0 ELSE Cardinality(M)
  BY <1>1 DEF MarkGroupFecTable, q
<1>4. k \in 1 .. Len(pi) /\ Len(pi) \in Nat
  BY <1>2, PosFound, LenProperties DEF GroupHas
<1> HIDE DEF k, pi
<1>5. IsFiniteSet(M)
  <2>1. IsFiniteSet(1 .. Len(pi))
    <3>1. 1 \in Int /\ Len(pi) \in Int
      BY <1>4
    <3> QED
      BY <3>1, FS_Interval
  <2>2. M \in SUBSET (1 .. Len(pi))
    BY <1>4 DEF Missing
  <2> QED
    BY <2>1, <2>2, FS_Subset
<1> QED
  BY <1>3, <1>5, FS_CardinalityType

\* What Recv answers: a retransmission releases all, and a first transmission is
\* kept if, and only if, acknowledgements are suppressed and losses are seen.
LEMMA FlagOf ==
  ASSUME NEW p \in EndPacket, NEW sumlost, NEW nlost \in Nat, NEW flag, NEW sendId, NEW id,
         id = IF p.type = REXMIT /\ nlost <= p.n THEN p.rid ELSE sendId
  PROVE  LET f == RecvFlag(p, sumlost, nlost, flag, id)
         IN  /\ f \in {0, 1, 2}
             /\ p.type = REXMIT => f = 2
             /\ p.type = DATA /\ f = 1 => AckMode /\ sumlost > 0
             /\ p.type = DATA /\ sumlost > 0 /\ AckMode => f # 0
<1>1. p.n \in Nat
  BY DEF EndPacket
<1>2. nlost > p.n \/ nlost <= p.n
  BY <1>1
<1>3. /\ REXMIT # REDUNDANT /\ DATA # REDUNDANT /\ DATA # REXMIT
  BY DEF REXMIT, REDUNDANT, DATA
<1>4. CASE p.type = REXMIT
  <2>1. nlost > p.n \/ id = p.rid
    BY <1>2, <1>4
  <2> QED
    BY <1>3, <1>4, <2>1 DEF RecvFlag
<1>5. CASE p.type = DATA
  BY <1>3, <1>5 DEF RecvFlag
<1>6. RecvFlag(p, sumlost, nlost, flag, id) \in {0, 1, 2}
  BY Zenon DEF RecvFlag
<1> QED
  BY <1>4, <1>5, <1>6

\* What holds of answer r to packet p with transit queue tq, when n losses are seen.
RecvKept(tq, p, r, n) ==
  /\ SameSegments(r.gt, gt_)
  /\ Segments(r.tq) \subseteq Segments(tq) \cup {p.hdr} \cup Rebuildable(gt_, p)
  /\ \A i \in 1 .. Len(r.tq) : r.tq[i].type = DATA =>
       \/ \E j \in 1 .. Len(tq) : r.tq[i] = tq[j]
       \/ r.tq[i] = p /\ r.flag = 1
  /\ r.flag \in {0, 1, 2}
  /\ p.type = REXMIT => r.flag = 2
  /\ p.type = DATA /\ r.flag = 1 => AckMode /\ n > 0
  /\ p.type = DATA /\ n > 0 /\ AckMode => r.flag # 0

\* Recv on the packet at the head of the path: what the transit queue holds
\* afterwards, and what may still be rebuilt.
LEMMA RecvHolds ==
  ASSUME EndInv, Idle, link # <<>>, NEW p, p = Head(link), NEW tq \in Seq(EndPacket),
         NEW r, r = Recv(tq, p),
         NEW n, n = CheckRoundFecTableEnd(MarkRoundFecTable(rt_, p), p).sumlost
  PROVE  RecvKept(tq, p, r, n)
<1> DEFINE mark == MarkRoundFecTable(rt_, p)
           chk  == CheckRoundFecTableEnd(mark, p)
           grp  == MarkGroupFecTable(chk.rt, gt_, p)
           rec  == IF p.type = REDUNDANT
                   THEN CheckGroupFecTable(chk.rt, grp.gt, p, grp.nlost)
                   ELSE [gt |-> grp.gt, mlost |-> 0, recovered |-> <<>>]
           id   == IF p.type = REXMIT /\ grp.nlost <= p.n THEN p.rid ELSE ackSendId
           flag == RecvFlag(p, chk.sumlost, grp.nlost, rec.mlost, id)
           b    == m_roundId - Len(gt_)
<1>1. /\ link \in Seq(EndPacket) /\ ~m_init /\ fc # 0
      /\ Tracked(link, rt_, gt_, m_roundId, fc, m_groupId) /\ HdrsWithin(gt_, highTx)
      /\ highTx \in Nat
  BY DEF EndInv, PathInv, TypeInv, TablesInv, HdrsInv, Idle
<1>2. p \in EndPacket /\ p.type # NONE
  <2>1. p \in EndPacket
    BY <1>1, HeadTailProperties
  <2> QED
    BY <2>1 DEF EndPacket, NONE, DATA, REDUNDANT, REXMIT, RECOVERED
<1>3. /\ Tag(p)
      /\ \E m \in 1 .. Len(gt_) : m = Index(gt_, m_roundId, p) /\ GroupHas(gt_[m], p) /\ p.rid = b + m
  BY <1>1, <1>2, EndTags, HeadTracked
<1>4. PICK m \in 1 .. Len(gt_) : GroupHas(gt_[m], p) /\ p.rid = b + m
  BY <1>3
<1>5. gt_ \in Seq(GroupFecTable) /\ Rounds(gt_, b) /\ b \in Int /\ p.rid \in Int
  BY <1>1, <1>3, LenProperties DEF Tracked, Ending, Tag
<1> HIDE DEF b
<1>6. ~(p.rid < chk.rt[1].rid) \/ (rec.recovered = <<>> /\ rec.gt = gt_)
  <2> HIDE DEF chk
  <2> QED
    BY <1>2 DEF MarkGroupFecTable, CheckGroupFecTable
<1>7. /\ \A x, g, k, e : GroupEntry(rec.gt, x, g, k, e) =>
            \E d : GroupEntry(gt_, x, g, k, d) /\ d.hdr = e.hdr
      /\ rec.recovered # <<>> =>
            \E e : rec.recovered = <<e>> /\ e.serial \in Nat /\ e.hdr \in Rebuildable(gt_, p)
  <2>1. CASE rec.recovered = <<>> /\ rec.gt = gt_
    BY <2>1
  <2>2. CASE ~(p.rid < chk.rt[1].rid)
    <3> HIDE DEF chk
    <3>1. grp = MarkGroupFecTable(chk.rt, gt_, p)
      OBVIOUS
    <3>2. rec = IF p.type = REDUNDANT
                THEN CheckGroupFecTable(chk.rt, grp.gt, p, grp.nlost)
                ELSE [gt |-> grp.gt, mlost |-> 0, recovered |-> <<>>]
      OBVIOUS
    <3> HIDE DEF rec, grp
    <3>3. PICK s \in Nat :
            /\ GroupsPassed(rec.gt, gt_, p, s, p.type = REDUNDANT)
            /\ rec.recovered # <<>> =>
                 /\ p.type = REDUNDANT
                 /\ \E e : rec.recovered = <<e>> /\ MissingIn(gt_, p, s, e)
      <4> DEFINE rt == chk.rt
      <4>1. /\ ~(p.rid < rt[1].rid) /\ grp = MarkGroupFecTable(rt, gt_, p)
            /\ rec = IF p.type = REDUNDANT
                     THEN CheckGroupFecTable(rt, grp.gt, p, grp.nlost)
                     ELSE [gt |-> grp.gt, mlost |-> 0, recovered |-> <<>>]
        BY <2>2, <3>1, <3>2
      <4> HIDE DEF mark, id, flag, rt
      <4>2. /\ gt_ \in Seq(GroupFecTable) /\ Tag(p) /\ Rounds(gt_, b) /\ b \in Int
            /\ m \in 1 .. Len(gt_) /\ p.rid = b + m /\ GroupHas(gt_[m], p)
        BY <1>3, <1>4, <1>5
      <4> QED
        BY ONLY <4>1, <4>2, GroupPasses
    <3>4. \A x, g, k, e : GroupEntry(rec.gt, x, g, k, e) =>
            \E d : GroupEntry(gt_, x, g, k, d) /\ d.hdr = e.hdr
      BY <3>3 DEF GroupsPassed, SameEntry
    <3>5. ASSUME rec.recovered # <<>>
          PROVE  \E e : rec.recovered = <<e>> /\ e.serial \in Nat /\ e.hdr \in Rebuildable(gt_, p)
      <4>1. PICK e : rec.recovered = <<e>> /\ MissingIn(gt_, p, s, e)
        BY <3>3, <3>5
      <4>2. PICK k, d : GroupEntry(gt_, p.rid, p.gid, k, d) /\ e.hdr = d.hdr /\ e.serial = d.serial
        BY <4>1 DEF MissingIn, SameEntry
      <4>3. d \in PacketInfo
        BY <1>5, <4>2, GroupEntryFacts
      <4>4. d.hdr \in Nat /\ d.serial \in Nat
        BY <4>3 DEF PacketInfo
      <4> QED
        BY <3>3, <3>5, <4>1, <4>2, <4>4 DEF Rebuildable
    <3> QED
      BY <3>4, <3>5
  <2> QED
    BY <1>6, <2>1, <2>2
<1>8. grp.nlost \in Nat
  <2> HIDE DEF chk
  <2> QED
    BY <1>3, <1>4, <1>5, GroupLosses
<1> HIDE DEF rec, grp, mark
<1>9. n = chk.sumlost
  BY DEF mark
<1> HIDE DEF chk
<1>10. \/ /\ r.gt = gt_ /\ r.tq = tq /\ r.flag = 2
       \/ /\ r.gt = rec.gt /\ r.flag = flag
          /\ r.tq = IF flag = 1 /\ p.type = DATA THEN InsertTransitQueue(tq, p)
                    ELSE IF rec.recovered = <<>> THEN tq
                    ELSE InsertTransitQueue(tq, RecoveryPacket(p, rec.recovered[1]))
  <2> DEFINE A == [rt |-> chk.rt, gt |-> gt_, tq |-> tq, recovered |-> <<>>, id |-> ackSendId,
                   flag |-> RecvFlag(p, chk.sumlost, 0, 0, ackSendId)]
             B == [rt |-> chk.rt, gt |-> rec.gt, recovered |-> rec.recovered, id |-> id,
                   flag |-> flag,
                   tq |-> IF flag = 1 /\ p.type = DATA THEN InsertTransitQueue(tq, p)
                          ELSE IF rec.recovered = <<>> THEN tq
                          ELSE InsertTransitQueue(tq, RecoveryPacket(p, rec.recovered[1]))]
  <2>1. r = IF chk.sumlost > p.n THEN A ELSE B
    BY Zenon DEF Recv, chk, grp, rec, mark
  <2> HIDE DEF flag, id
  <2>2. CASE chk.sumlost > p.n
    <3>1. r = A
      BY <2>1, <2>2
    <3>2. r.gt = gt_ /\ r.tq = tq /\ r.flag = RecvFlag(p, chk.sumlost, 0, 0, ackSendId)
      BY <3>1
    <3>3. RecvFlag(p, chk.sumlost, 0, 0, ackSendId) = 2
      BY <2>2 DEF RecvFlag
    <3> QED
      BY <3>2, <3>3
  <2>3. CASE ~(chk.sumlost > p.n)
    <3>1. r = B
      BY <2>1, <2>3
    <3> QED
      BY <3>1
  <2> QED
    BY <2>2, <2>3
<1>11. /\ flag \in {0, 1, 2}
       /\ p.type = REXMIT => flag = 2
       /\ p.type = DATA /\ flag = 1 => AckMode /\ n > 0
       /\ p.type = DATA /\ n > 0 /\ AckMode => flag # 0
  <2> DEFINE m0 == rec.mlost
             n0 == grp.nlost
  <2> HIDE DEF m0, n0
  <2>1. id = IF p.type = REXMIT /\ n0 <= p.n THEN p.rid ELSE ackSendId
    BY DEF n0
  <2>2. flag = RecvFlag(p, n, n0, m0, id) /\ n0 \in Nat
    BY <1>8, <1>9 DEF n0, m0
  <2> HIDE DEF id, flag
  <2>3. LET f == RecvFlag(p, n, n0, m0, id)
        IN  /\ f \in {0, 1, 2}
            /\ p.type = REXMIT => f = 2
            /\ p.type = DATA /\ f = 1 => AckMode /\ n > 0
            /\ p.type = DATA /\ n > 0 /\ AckMode => f # 0
    BY ONLY <1>2, <2>1, <2>2, FlagOf
  <2> QED
    BY <2>2, <2>3
<1> HIDE DEF flag, id
<1>12. rec.recovered # <<>> =>
         /\ RecoveryPacket(p, rec.recovered[1]).type = RECOVERED
         /\ RecoveryPacket(p, rec.recovered[1]) \in EndPacket
         /\ RecoveryPacket(p, rec.recovered[1]).hdr \in Rebuildable(gt_, p)
  <2> SUFFICES ASSUME rec.recovered # <<>>
               PROVE  /\ RecoveryPacket(p, rec.recovered[1]).type = RECOVERED
                      /\ RecoveryPacket(p, rec.recovered[1]) \in EndPacket
                      /\ RecoveryPacket(p, rec.recovered[1]).hdr \in Rebuildable(gt_, p)
    OBVIOUS
  <2>1. PICK e : rec.recovered = <<e>> /\ e.serial \in Nat /\ e.hdr \in Rebuildable(gt_, p)
    BY <1>7
  <2>2. rec.recovered[1] = e
    BY <2>1
  <2>3. /\ RecoveryPacket(p, e).type = RECOVERED /\ RecoveryPacket(p, e) \in EndPacket
        /\ RecoveryPacket(p, e).hdr = e.hdr
    BY <1>2, <2>1 DEF RecoveryPacket, EndPacket, Rebuildable
  <2> QED
    BY <2>1, <2>2, <2>3
<1>13. ASSUME NEW q \in EndPacket, r.tq = InsertTransitQueue(tq, q)
       PROVE  /\ Segments(r.tq) \subseteq Segments(tq) \cup {q.hdr}
              /\ \A i \in 1 .. Len(r.tq) : r.tq[i] = q \/ \E j \in 1 .. Len(tq) : r.tq[i] = tq[j]
  <2>1. ToSet(r.tq) = ToSet(tq) \cup {q} /\ r.tq \in Seq(EndPacket)
    BY <1>13, InsertElements, InsertType
  <2>2. DOMAIN r.tq = 1 .. Len(r.tq) /\ DOMAIN tq = 1 .. Len(tq)
    BY <2>1, LenProperties
  <2>3. \A i \in DOMAIN r.tq : r.tq[i] = q \/ \E j \in DOMAIN tq : r.tq[i] = tq[j]
    BY <2>1 DEF ToSet
  <2>4. Segments(r.tq) \subseteq Segments(tq) \cup {q.hdr}
    BY <2>3 DEF Segments
  <2> QED
    BY <2>2, <2>3, <2>4
<1>14. \/ r.tq = tq
       \/ r.tq = InsertTransitQueue(tq, p) /\ r.flag = 1
       \/ /\ rec.recovered # <<>>
          /\ r.tq = InsertTransitQueue(tq, RecoveryPacket(p, rec.recovered[1]))
  BY <1>10
<1>15. /\ Segments(r.tq) \subseteq Segments(tq) \cup {p.hdr} \cup Rebuildable(gt_, p)
       /\ \A i \in 1 .. Len(r.tq) : r.tq[i].type = DATA =>
            \/ \E j \in 1 .. Len(tq) : r.tq[i] = tq[j]
            \/ r.tq[i] = p /\ r.flag = 1
  <2>1. CASE r.tq = tq
    BY <2>1
  <2>2. CASE r.tq = InsertTransitQueue(tq, p) /\ r.flag = 1
    BY <1>2, <1>13, <2>2
  <2>3. CASE /\ rec.recovered # <<>>
             /\ r.tq = InsertTransitQueue(tq, RecoveryPacket(p, rec.recovered[1]))
    <3> DEFINE q == RecoveryPacket(p, rec.recovered[1])
    <3>1. /\ q.type = RECOVERED /\ q \in EndPacket /\ q.hdr \in Rebuildable(gt_, p)
          /\ r.tq = InsertTransitQueue(tq, q) /\ RECOVERED # DATA
      BY <1>12, <2>3 DEF RECOVERED, DATA
    <3> HIDE DEF q
    <3> QED
      BY <1>13, <3>1
  <2> QED
    BY <1>14, <2>1, <2>2, <2>3
<1>16. \A x, g, k, e : GroupEntry(r.gt, x, g, k, e) =>
         \E d : GroupEntry(gt_, x, g, k, d) /\ d.hdr = e.hdr
  BY <1>7, <1>10
<1>17. /\ r.flag \in {0, 1, 2}
       /\ p.type = REXMIT => r.flag = 2
       /\ p.type = DATA /\ r.flag = 1 => AckMode /\ n > 0
       /\ p.type = DATA /\ n > 0 /\ AckMode => r.flag # 0
  BY <1>10, <1>11
<1> QED
  BY <1>15, <1>16, <1>17 DEF RecvKept, SameSegments

\* Segments and redundant packets on the path are told apart by their serials.
LEMMA LinkShape ==
  ASSUME EndInv, LedgerInv, ~m_init
  PROVE  OutShape(link, highTx) /\ EntriesShape(rt_, highTx)
<1>1. OutShape(Out, highTx) /\ EntriesShape(rt_, highTx)
  BY DEF LedgerInv, RoundLedger
<1>2. lost \in Seq(EndPacket) /\ link \in Seq(EndPacket) /\ Len(lost) \in Nat /\ Len(link) \in Nat
  BY LenProperties DEF EndInv, PathInv, TypeInv
<1>3. ASSUME NEW m \in 1 .. Len(link)
      PROVE  Len(lost) + m \in 1 .. Len(Out) /\ Out[Len(lost) + m] = link[m]
  <2>1. Len(Out) = Len(lost) + Len(link)
    BY <1>2, ConcatProperties DEF Out
  <2>2. Len(lost) + m \in 1 .. Len(Out) /\ ~(Len(lost) + m <= Len(lost)) /\ (Len(lost) + m) - Len(lost) = m
    BY <1>2, <2>1
  <2>3. (lost \o link)[Len(lost) + m] = link[m]
    BY <1>2, <2>1, <2>2, ConcatProperties DEF Out
  <2> QED
    BY <2>2, <2>3 DEF Out
<1>4. OutShape(link, highTx)
  BY <1>1, <1>3 DEF OutShape
<1> QED
  BY <1>1, <1>4

\* What CheckRoundFecTable counts for a first transmission.
LEMMA DataLosses ==
  ASSUME NEW p, p.type = DATA, NEW q, NEW k, k = CheckRoundFecTableEnd(q, p),
         k.rt[1].rid = p.rid, p.rid \in Nat
  PROVE  k.sumlost = Cardinality(Missing(k.rt[1].pi, PosInGroup(k.rt[1].pi, p) + 1, p.serial))
<1>1. ~ClosesRound(q, p)
  BY DEF ClosesRound, DATA, REDUNDANT
<1>2. k.rt = q
  BY <1>1 DEF CheckRoundFecTableEnd
<1>3. ~(p.rid < q[1].rid)
  BY <1>2
<1> QED
  BY <1>1, <1>2, <1>3 DEF CheckRoundFecTableEnd

\* The packet at the head of the path: where its round is, and what it finds.
LEMMA HeadFinds ==
  ASSUME EndInv, LedgerInv, OvertakeInv, Idle, link # <<>>, NEW p, p = Head(link),
         NEW tq \in Seq(EndPacket), \A i \in 1 .. Len(tq) : tq[i].hdr <= highTx,
         NEW r, r = Recv(tq, p),
         NEW k, k = CheckRoundFecTableEnd(MarkRoundFecTable(rt_, p), p).sumlost
  PROVE  /\ p \in EndPacket /\ p.type \in {DATA, REDUNDANT, REXMIT} /\ p.rid <= m_roundId
         /\ rt_[1].rid <= p.rid /\ r.rt[1].rid \in Nat
         /\ r.rt[1].rid = p.rid \/ (p.type = REDUNDANT /\ r.rt[1].rid = p.rid + 1)
         /\ \E s : RoundsPassed(r.rt, rt_, p, s)
         /\ p.type = DATA =>
              (k > 0 <=> \E j, e : /\ RoundEntry(rt_, p.rid, j, e) /\ ~e.check /\ ~e.fec
                                   /\ e.serial < p.serial)
<1> DEFINE c == r.rt
           b == m_roundId - Len(rt_)
<1>1. /\ link \in Seq(EndPacket) /\ ~m_init
      /\ rt_ \in Seq(RoundFecTable) /\ Ending(rt_, m_roundId) /\ m_roundId \in Nat
      /\ Len(rt_) \in Nat /\ Rounds(rt_, b) /\ b \in Int
      /\ Tracked(Tail(link), c, r.gt, m_roundId, fc, m_groupId)
  <2>1. /\ link \in Seq(EndPacket) /\ ~m_init /\ rt_ \in Seq(RoundFecTable)
        /\ Ending(rt_, m_roundId) /\ m_roundId \in Nat
    BY DEF EndInv, PathInv, TypeInv, TablesInv, Tracked, Ending, Idle
  <2>2. Tracked(Tail(link), c, r.gt, m_roundId, fc, m_groupId)
    BY RecvKeeps
  <2> QED
    BY <2>1, <2>2, LenProperties DEF Ending
<1>2. /\ 1 \in 1 .. Len(link) /\ link[1] = p /\ p \in EndPacket
  BY <1>1, TailPlaces
<1>3. OutShape(link, highTx) /\ EntriesShape(rt_, highTx)
  BY <1>1, LinkShape
<1>4. /\ p.type \in {DATA, REDUNDANT, REXMIT}
      /\ p.type # REDUNDANT => p.serial = Seq1(p.hdr) /\ p.hdr \in 1 .. highTx
  BY <1>2, <1>3 DEF OutShape
<1>5. PICK n, off, s : HeadPassed(c, Closed(rt_, p), rt_, m_roundId, p, n, off, s)
  BY HeadPasses
<1>6. /\ n \in 1 .. Len(rt_) /\ p.rid = b + n /\ off = (IF Closing(rt_[n], p) THEN n ELSE n - 1)
      /\ c \in Seq(RoundFecTable) /\ c # <<>> /\ c[1].rid = b + off + 1 /\ c[1].rid \in Nat
      /\ RoundsPassed(c, rt_, p, s)
  BY <1>5 DEF HeadPassed
<1>7. rt_[1].rid = b + 1
  <2>1. 1 \in 1 .. Len(rt_)
    BY <1>1, <1>6
  <2> QED
    BY <1>1, <2>1 DEF Rounds
<1>8. p.rid = b + n /\ b + n <= m_roundId
  BY <1>1, <1>6
<1> HIDE DEF b
<1>9. /\ p.rid <= m_roundId /\ rt_[1].rid <= p.rid
      /\ c[1].rid = p.rid \/ (p.type = REDUNDANT /\ c[1].rid = p.rid + 1)
  <2>1. n \in Nat \ {0} /\ (off = n \/ off = n - 1) /\ (p.type # REDUNDANT => off = n - 1)
    BY <1>1, <1>6 DEF Closing
  <2>2. rt_[1].rid <= p.rid /\ (c[1].rid = p.rid \/ (p.type = REDUNDANT /\ c[1].rid = p.rid + 1))
    BY <1>1, <1>6, <1>7, <2>1
  <2> QED
    BY <1>8, <2>2
<1>10. ASSUME p.type = DATA
       PROVE  k > 0 <=> \E j, e : /\ RoundEntry(rt_, p.rid, j, e) /\ ~e.check /\ ~e.fec
                                  /\ e.serial < p.serial
  <2>1. c[1].rid = p.rid /\ p.rid \in Nat
    BY <1>2, <1>9, <1>10 DEF DATA, REDUNDANT, EndPacket
  <2>2. k = Cardinality(Missing(c[1].pi, PosInGroup(c[1].pi, p) + 1, p.serial))
    <3> DEFINE q == MarkRoundFecTable(rt_, p)
               y == CheckRoundFecTableEnd(q, p)
    <3>1. c = y.rt /\ k = y.sumlost
      BY RecvRounds
    <3> HIDE DEF q
    <3>2. y.rt[1].rid = p.rid
      BY <2>1, <3>1
    <3>3. y.sumlost = Cardinality(Missing(y.rt[1].pi, PosInGroup(y.rt[1].pi, p) + 1, p.serial))
      BY <1>10, <2>1, <3>2, DataLosses
    <3> HIDE DEF y
    <3> QED
      BY <3>1, <3>3
  <2>3. SegmentSerial(p.serial)
    <3>1. p.type # REDUNDANT
      BY <1>10 DEF DATA, REDUNDANT
    <3>2. p.hdr \in Nat
      BY <1>2 DEF EndPacket
    <3> QED
      BY <1>4, <3>1, <3>2 DEF SegmentSerial
  <2>4. BurstLast(rt_) /\ UnmarkedRises(rt_) /\ FirstNoted(rt_, link)
    BY DEF OvertakeInv, OrderInv, SendOrder
  <2>5. PICK j, own : /\ RoundEntry(rt_, p.rid, j, own) /\ EntryOf(p, p.rid, own) /\ ~own.check
    BY <1>2, <1>10, <2>4 DEF FirstNoted
  <2>6. ~own.fec
    BY <1>10, <2>5 DEF EntryOf, DATA, REDUNDANT
  <2>7. Rounds(c, m_roundId - Len(c)) /\ m_roundId - Len(c) \in Int
    BY <1>1, <1>6, LenProperties DEF Tracked, Ending
  <2> HIDE DEF c
  <2> QED
    BY <1>1, <1>2, <1>3, <1>6, <2>1, <2>2, <2>3, <2>4, <2>5, <2>6, <2>7, LossCounted
<1> QED
  BY <1>2, <1>4, <1>6, <1>9, <1>10

\* A packet arrives: one that is kept is later than all that TCP has been given,
\* and as long as one is held no later one passes it.
LEMMA ForwardUpKeepsOrder ==
  ASSUME EndInv, LedgerInv, OvertakeInv, ForwardUp
  PROVE  OvertakeInv'
<1> DEFINE p     == Head(link)
           newer == rid_ < p.rid
           tq    == IF newer THEN <<>> ELSE tq_
           r     == Recv(tq, p)
           k     == CheckRoundFecTableEnd(MarkRoundFecTable(rt_, p), p).sumlost
           seen  == rcvd \cup Held
           seen2 == rcvd' \cup Held'
<1>1. /\ Idle /\ link # <<>> /\ link' = Tail(link)
      /\ UNCHANGED <<m_init, m_roundId, highTx>>
      /\ rid_' = (IF newer THEN p.rid ELSE rid_) /\ rt_' = r.rt /\ gt_' = r.gt
      /\ tq_' = (IF r.flag = 2 THEN <<>> ELSE r.tq)
      /\ rcvd' = rcvd \cup (IF newer THEN Segments(tq_) ELSE {})
                      \cup (IF r.flag = 2 THEN Segments(r.tq) ELSE {})
                      \cup (IF r.flag # 1 THEN Segments(<<p>>) ELSE {})
  BY DEF ForwardUp, sender, tcp
<1>2. /\ link \in Seq(EndPacket) /\ tq_ \in Seq(EndPacket) /\ ~m_init /\ m_roundId \in Nat
      /\ highTx \in Nat /\ HdrsInv /\ rt_ \in Seq(RoundFecTable) /\ Ordered(link)
      /\ Rounds(rt_, m_roundId - Len(rt_)) /\ m_roundId - Len(rt_) \in Int
  BY <1>1, LenProperties DEF EndInv, PathInv, TypeInv, TablesInv, Tracked, Ending
<1>3. <<>> \in Seq(EndPacket) /\ Len(<<>>) = 0 /\ Segments(<<>>) = {}
  BY DEF Segments
<1>4. tq \in Seq(EndPacket) /\ \A i \in 1 .. Len(tq) : tq[i].hdr <= highTx
  BY <1>2, <1>3 DEF HdrsInv
<1>5. OutShape(link, highTx) /\ EntriesShape(rt_, highTx)
  BY <1>2, LinkShape
<1>6. /\ 1 \in 1 .. Len(link) /\ link[1] = p /\ Tail(link) \in Seq(EndPacket)
      /\ \A m \in 1 .. Len(Tail(link)) : m + 1 \in 1 .. Len(link) /\ Tail(link)[m] = link[m + 1]
  BY <1>1, <1>2, TailPlaces
<1>7. /\ SendOrder(rt_, gt_, link, seen) /\ FirstIsNew(gt_, link, seen)
      /\ rid_ \in Nat /\ rid_ <= p.rid
      /\ \A i \in 1 .. Len(tq_) : tq_[i].type = DATA => KeptBack(tq_[i])
  BY <1>6 DEF OvertakeInv, OrderInv, SendOrder, HeldInv
<1>8. Segments(<<p>>) = {p.hdr} \ {0}
  BY DEF Segments
<1>9. p = Head(link) /\ r = Recv(tq, p) /\ Held = Segments(tq_) /\ Held' = Segments(tq_')
  BY DEF Held, Segments
<1>10. k = CheckRoundFecTableEnd(MarkRoundFecTable(rt_, p), p).sumlost
  OBVIOUS
<1>11. ~newer => tq = tq_
  OBVIOUS
<1>12. newer => tq = <<>>
  OBVIOUS
<1> HIDE DEF p, tq, r, k
<1>13. /\ p \in EndPacket /\ p.type \in {DATA, REDUNDANT, REXMIT} /\ p.rid <= m_roundId
       /\ rt_[1].rid <= p.rid /\ r.rt[1].rid \in Nat
       /\ r.rt[1].rid = p.rid \/ (p.type = REDUNDANT /\ r.rt[1].rid = p.rid + 1)
       /\ \E s : RoundsPassed(r.rt, rt_, p, s)
       /\ p.type = DATA =>
            (k > 0 <=> \E j, e : /\ RoundEntry(rt_, p.rid, j, e) /\ ~e.check /\ ~e.fec
                                 /\ e.serial < p.serial)
  BY <1>1, <1>4, <1>9, <1>10, HeadFinds
<1>14. PICK s : RoundsPassed(r.rt, rt_, p, s)
  BY <1>13
<1>15. /\ SameSegments(r.gt, gt_)
       /\ Segments(r.tq) \subseteq Segments(tq) \cup {p.hdr} \cup Rebuildable(gt_, p)
       /\ \A i \in 1 .. Len(r.tq) : r.tq[i].type = DATA =>
            \/ \E j \in 1 .. Len(tq) : r.tq[i] = tq[j]
            \/ r.tq[i] = p /\ r.flag = 1
       /\ r.flag \in {0, 1, 2}
       /\ p.type = REXMIT => r.flag = 2
       /\ p.type = DATA /\ r.flag = 1 => AckMode /\ k > 0
       /\ p.type = DATA /\ k > 0 /\ AckMode => r.flag # 0
  <2>1. Idle /\ link # <<>>
    BY <1>1
  <2>2. p = Head(link) /\ tq \in Seq(EndPacket) /\ r = Recv(tq, p)
    BY <1>4, <1>9
  <2>3. RecvKept(tq, p, r, k)
    BY ONLY EndInv, <1>10, <2>1, <2>2, RecvHolds
  <2> QED
    BY <2>3 DEF RecvKept
<1>16. p.rid \in Nat /\ rid_' = p.rid /\ (~newer => rid_ = p.rid)
  <2>1. p.rid \in Nat
    BY <1>13 DEF EndPacket
  <2> QED
    BY <1>1, <1>7, <2>1
<1> HIDE DEF newer
<1>17. OrderInv'
  <2>1. Segments(tq) \subseteq seen
    BY <1>3, <1>9, <1>11, <1>12
  <2>2. seen2 \subseteq seen \cup {p.hdr} \cup Rebuildable(gt_, p)
    <3>1. Segments(r.tq) \subseteq seen \cup {p.hdr} \cup Rebuildable(gt_, p)
      BY <1>15, <2>1
    <3>2. Held' \subseteq Segments(r.tq)
      BY <1>1, <1>3, <1>9
    <3> HIDE DEF seen
    <3>3. rcvd \subseteq seen /\ Segments(tq_) \subseteq seen
      BY <1>9 DEF seen
    <3> QED
      BY <1>1, <1>8, <3>1, <3>2, <3>3
  <2> HIDE DEF seen, seen2
  <2>3. SendOrder(r.rt, r.gt, Tail(link), seen2)
    BY <1>1, <1>2, <1>5, <1>7, <1>9, <1>13, <1>14, <1>15, <2>2, ArriveOrder
  <2> QED
    BY <1>1, <2>3 DEF OrderInv, seen2
<1>18. ASSUME NEW m \in 1 .. Len(link') PROVE rid_' <= link'[m].rid
  <2>1. /\ m + 1 \in 1 .. Len(link) /\ link'[m] = link[m + 1] /\ 1 < m + 1
    BY <1>1, <1>6
  <2>2. p.type # NONE /\ link[m + 1].type # NONE
    BY <1>5, <1>13, <2>1 DEF OutShape, NONE, DATA, REDUNDANT, REXMIT
  <2>3. Before(link[1], link[m + 1])
    BY <1>2, <1>6, <2>1, <2>2 DEF Ordered
  <2> QED
    BY <1>6, <1>16, <2>1, <2>3 DEF Before
<1>19. ASSUME NEW j, NEW e, RoundEntry(rt_, p.rid, j, e), ~e.check, ~e.fec,
              e.serial # p.serial, r.rt[1].rid <= p.rid
       PROVE  \E x : RoundEntry(r.rt, p.rid, j, x) /\ ~x.check /\ ~x.fec /\ x.serial = e.serial
  BY <1>2, <1>14, <1>19, UnmarkedStays
<1>20. p.type = DATA => \A h \in seen : h < p.hdr
  <2> HIDE DEF seen
  <2> QED
    BY <1>6, <1>7 DEF FirstIsNew
<1>21. ASSUME NEW x, x = p, p.type = DATA, r.flag = 1 PROVE KeptBack(x)'
  <2>1. p.serial = Seq1(p.hdr) /\ p.hdr # 0
    BY <1>5, <1>6, <1>21 DEF OutShape, DATA, REDUNDANT
  <2>2. \A h \in rcvd' : h < p.hdr
    <3>1. rcvd' \subseteq seen
      BY <1>1, <1>9, <1>21
    <3>2. \A h \in seen : h < p.hdr
      BY <1>21, <1>20
    <3> QED
      BY <3>1, <3>2
  <2>3. PICK j, e : RoundEntry(rt_, p.rid, j, e) /\ ~e.check /\ ~e.fec /\ e.serial < p.serial
    BY <1>13, <1>15, <1>21
  <2>4. e.serial \in Nat /\ p.serial \in Nat
    BY <1>2, <1>13, <2>3, EntryFacts DEF PacketInfo, EndPacket
  <2>5. rt_'[1].rid <= rid_' =>
          \E y, z : RoundEntry(rt_', rid_', y, z) /\ ~z.check /\ ~z.fec /\ z.serial < p.serial
    BY <1>1, <1>16, <1>19, <2>3, <2>4
  <2>6. AckMode /\ ~m_init'
    BY <1>1, <1>2, <1>15, <1>21
  <2>7. p.rid = rid_'
    BY <1>16
  <2> QED
    BY <1>21, <2>1, <2>2, <2>5, <2>6, <2>7 DEF KeptBack
<1>22. ASSUME NEW i \in 1 .. Len(tq_), NEW x, x = tq_[i], x.type = DATA, ~newer, r.flag # 2
       PROVE  KeptBack(x)'
  <2>1. KeptBack(x) /\ x.hdr \in Nat /\ x.serial \in Nat
    <3>1. x \in EndPacket
      BY <1>2, <1>22, ElementOfSeq
    <3> QED
      BY <1>7, <1>22, <3>1 DEF EndPacket
  <2>2. x.hdr \in Held
    <3>1. i \in DOMAIN tq_ /\ x.hdr # 0
      BY <1>2, <1>22, <2>1, LenProperties DEF KeptBack
    <3> QED
      BY <1>22, <3>1 DEF Held, Segments
  <2>3. rt_[1].rid <= rid_
    BY <1>13, <1>16, <1>22
  <2>4. PICK j, e : RoundEntry(rt_, p.rid, j, e) /\ ~e.check /\ ~e.fec /\ e.serial < x.serial
    BY <1>16, <1>22, <2>1, <2>3 DEF KeptBack
  <2>5. e.serial \in Nat /\ p.serial \in Nat
    BY <1>2, <1>13, <2>4, EntryFacts DEF PacketInfo, EndPacket
  <2>6. ASSUME p.type = DATA PROVE x.serial < p.serial
    <3>1. x.hdr < p.hdr
      BY <1>20, <2>2, <2>6
    <3>2. p.serial = Seq1(p.hdr)
      BY <1>5, <1>6, <2>6 DEF OutShape, DATA, REDUNDANT
    <3>4. p.hdr \in Nat
      BY <1>13 DEF EndPacket
    <3>3. x.serial = Seq1(x.hdr)
      BY <2>1 DEF KeptBack
    <3> QED
      BY <2>1, <3>1, <3>2, <3>3, <3>4, SerialsRise
  <2>7. p.type # REXMIT
    BY <1>15, <1>22
  <2>8. e.serial # p.serial
    <3>1. CASE p.type = DATA
      BY <2>1, <2>4, <2>5, <2>6, <3>1
    <3>2. CASE p.type = REDUNDANT
      <4>1. ~SegmentSerial(p.serial)
        BY <1>5, <1>6, <3>2 DEF OutShape
      <4>2. SegmentSerial(e.serial)
        BY <1>5, <2>4 DEF EntriesShape
      <4> QED
        BY <4>1, <4>2
    <3> QED
      BY <1>13, <2>7, <3>1, <3>2
  <2>9. rcvd' = rcvd
    <3>1. CASE p.type = DATA
      <4>1. k > 0
        <5>1. e.serial < p.serial
          BY <2>1, <2>4, <2>5, <2>6, <3>1
        <5> QED
          BY <1>13, <2>4, <3>1, <5>1
      <4>2. r.flag = 1
        BY <1>15, <1>22, <2>1, <3>1, <4>1 DEF KeptBack
      <4> QED
        BY <1>1, <1>22, <4>2
    <3>2. CASE p.type = REDUNDANT
      <4>1. p.hdr = 0
        BY <1>2, <1>6, <3>2 DEF HdrsInv
      <4> QED
        BY <1>1, <1>8, <1>22, <4>1
    <3> QED
      BY <1>13, <2>7, <3>1, <3>2
  <2>10. rt_'[1].rid <= rid_' =>
           \E y, z : RoundEntry(rt_', rid_', y, z) /\ ~z.check /\ ~z.fec /\ z.serial < x.serial
    BY <1>1, <1>16, <1>19, <1>22, <2>4, <2>8
  <2>11. /\ AckMode /\ x.rid = rid_ /\ x.serial = Seq1(x.hdr) /\ x.hdr # 0
         /\ \A h \in rcvd : h < x.hdr
    BY <2>1 DEF KeptBack
  <2>12. ~m_init' /\ rid_' = rid_
    BY <1>1, <1>2, <1>16, <1>22
  <2> QED
    BY <2>9, <2>10, <2>11, <2>12 DEF KeptBack
<1>23. HeldInv'
  <2>1. rid_' \in Nat /\ rid_' <= m_roundId'
    BY <1>1, <1>13, <1>16
  <2>2. ASSUME NEW i \in 1 .. Len(tq_'), NEW x, x = tq_'[i], x.type = DATA PROVE KeptBack(x)'
    <3>1. r.flag # 2 /\ tq_' = r.tq
      BY <1>1, <1>3, <2>2
    <3>2. CASE x = p /\ r.flag = 1
      BY <1>21, <2>2, <3>2
    <3>3. CASE \E j \in 1 .. Len(tq) : x = tq[j]
      <4>1. ~newer /\ tq = tq_
        BY <1>3, <1>11, <1>12, <3>3
      <4> QED
        BY <1>22, <2>2, <3>1, <3>3, <4>1
    <3> QED
      BY <1>15, <2>2, <3>1, <3>2, <3>3
  <2> QED
    BY <1>18, <2>1, <2>2 DEF HeldInv
<1> QED
  BY <1>17, <1>23 DEF OvertakeInv

\* Recover sends one segment, in a round of its own.
LEMMA RecoverKeepsOrder ==
  ASSUME EndInv, LedgerInv, OvertakeInv,
         NEW seg \in 1 .. highTx + 1, NEW marked, Recover(seg, marked)
  PROVE  OvertakeInv'
BY SendKeepsOrder DEF Recover

\* Every step keeps the order, and what is held behind what is missing.
LEMMA OvertakeInductive ==
  ASSUME EndInv, LedgerInv, OvertakeInv, [Next]_vars
  PROVE  OvertakeInv'
<1>1. highTx \in Nat /\ rexmit \subseteq 1 .. highTx /\ una \in Nat
  BY DEF EndInv, PathInv, TypeInv
<1>2. ASSUME UNCHANGED <<m_init, m_roundId, rt_, gt_, rid_, rcvd, tq_, link>>
      PROVE  OvertakeInv'
  <2>1. \A x : KeptBack(x)' <=> KeptBack(x)
    BY <1>2 DEF KeptBack
  <2>2. HeldInv'
    BY <1>2, <2>1 DEF OvertakeInv, HeldInv
  <2>3. OrderInv'
    BY <1>2 DEF OvertakeInv, OrderInv, Held
  <2> QED
    BY <2>2, <2>3 DEF OvertakeInv
<1>3. CASE UNCHANGED vars
  BY <1>2, <1>3 DEF vars, sender, tcp, receiver
<1>4. CASE SendNew
  <2>1. PICK s \in Begun : SendDataPacket(highTx + 1, s)
    BY <1>4 DEF SendNew
  <2>2. highTx + 1 \in 1 .. highTx + 1 /\ Idle
    BY <1>1, <1>4 DEF SendNew
  <2> QED
    BY <2>1, <2>2, SendKeepsOrder
<1>5. CASE Retransmit
  <2>1. PICK s \in Begun : SendDataPacket(Min(rexmit), s)
    BY <1>5 DEF Retransmit
  <2>2. rexmit \in SUBSET Nat /\ rexmit # {} /\ Idle
    BY <1>1, <1>5 DEF Retransmit
  <2>3. Min(rexmit) \in rexmit
    BY <2>2, MinIsLeast
  <2>4. Min(rexmit) \in 1 .. highTx
    BY <1>1, <2>3
  <2>5. Min(rexmit) \in 1 .. highTx + 1
    BY ONLY <1>1, <2>4
  <2> QED
    BY <2>1, <2>2, <2>5, SendKeepsOrder
<1>6. CASE EnterRecovery \/ ReTxTimeout
  BY <1>6, EnterRecoverySends, ReTxTimeoutSends, RecoverKeepsOrder
<1>7. CASE RetransmitRule3
  <2>1. PICK seg \in 1 .. highTx, s \in Begun : SendDataPacket(seg, s)
    BY <1>7, RetransmitRule3Sends
  <2>2. seg \in 1 .. highTx + 1 /\ Idle
    BY <1>1, <1>7 DEF RetransmitRule3
  <2> QED
    BY <2>1, <2>2, SendKeepsOrder
<1>8. CASE ReceivedAck
  BY <1>2, <1>8 DEF ReceivedAck, sender, receiver
<1> QED
  BY <1>3, <1>4, <1>5, <1>6, <1>7, <1>8, SendFecKeepsOrder, LoseKeepsOrder,
     ForwardUpKeepsOrder DEF Next

\* HeldNotOvertaken is an invariant: whatever the windows, modes, losses and
\* time-outs, as long as the agent holds a first transmission TCP is given no
\* segment that was sent after it.
THEOREM EndHeldNotOvertaken == Spec => []HeldNotOvertaken
<1>1. Init => EndInv /\ NoteInv /\ OvertakeInv
  <2> SUFFICES ASSUME Init PROVE EndInv /\ NoteInv /\ OvertakeInv
    OBVIOUS
  <2>1. EndInv /\ NoteInv
    BY EndInitially, NotesInitially
  <2>2. /\ rt_ = <<>> /\ gt_ = <<>> /\ link = <<>> /\ tq_ = <<>> /\ rid_ = 1 /\ m_roundId = 1
    BY DEF Init
  <2>3. SendOrder(rt_, gt_, link, rcvd \cup Held)
    <3>1. \A r, k, e : ~RoundEntry(rt_, r, k, e)
      BY <2>2 DEF RoundEntry
    <3> QED
      BY <2>2, <3>1 DEF SendOrder, UnmarkedRises, BurstLast, FirstNoted, FirstIsNew, SegmentsAfter
  <2>4. HeldInv
    BY <2>2 DEF HeldInv
  <2> QED
    BY <2>1, <2>3, <2>4 DEF OvertakeInv, OrderInv
<1>2. EndInv /\ NoteInv /\ OvertakeInv /\ [Next]_vars => (EndInv /\ NoteInv /\ OvertakeInv)'
  BY EndInductive, NotesInductive, OvertakeInductive DEF NoteInv
<1>3. EndInv /\ OvertakeInv => HeldNotOvertaken
  <2> SUFFICES ASSUME EndInv, OvertakeInv, NEW i \in DOMAIN tq_, tq_[i].type = DATA,
                      NEW r \in rcvd
               PROVE  r < tq_[i].hdr
    BY DEF HeldNotOvertaken
  <2>1. i \in 1 .. Len(tq_)
    BY LenProperties DEF EndInv, PathInv, TypeInv
  <2> QED
    BY <2>1 DEF OvertakeInv, HeldInv, KeptBack
<1> QED
  BY <1>1, <1>2, <1>3, PTL DEF Spec
=============================================================================
