--------------------------- MODULE FecOrderProofs ---------------------------
(***************************************************************************)
(* With StoreMode USE the decoder hides the gaps that it repairs: what it  *)
(* has forwarded, and then holds, is in the order of the encoder's input.  *)
(*                                                                         *)
(* Headers are in the order of rounds and serials, by which the transit    *)
(* queue is sorted.  A packet that can still be rebuilt must find every    *)
(* later one held: Recv forwards a data packet at once only when nothing   *)
(* of its round was lost before it, and releases the queue only when the   *)
(* round is closed or so much of it is lost that Recv rebuilds no more.    *)
(*                                                                         *)
(* Then the refinement: to the hosts, the two routers are FecPath.  What   *)
(* is held and what is on the path, data packets only, is FecPath's wire.  *)
(* The encoder appends to it; IpForward takes from its front as much as it *)
(* forwards, in order, whether it was held before or not, and what it      *)
(* forwards besides are packets lost in a round that the encoder has left  *)
(* and the decoder has not.                                                *)
(***************************************************************************)
EXTENDS FecDeliveryProofs
-----------------------------------------------------------------------------
(* The numbers of the encoder: headers are in the order of rounds and serials *)

\* A round's last data packet has this serial; header and place of a data packet
\* belong together.
LastData == Fwin * NGroups
Number(rid, serial) == (rid - 1) * LastData + serial
Numbered(x) == x.rid # 0 /\ x.serial \in 1 .. LastData /\ x.hdr = Number(x.rid, x.serial)

\* What is sent is numbered, the last data packet of a round in the last group and
\* redundant packets behind the data packets.
Placed(x) ==
  /\ x.type = DATA => Numbered(x) /\ (x.serial = LastData => x.gid = NGroups - 1)
  /\ x.type = REDUNDANT => x.serial > LastData
PathPlaced(l) == \A m \in 1 .. Len(l) : Placed(l[m])
LostPlaced(lst) == \A x \in lst : x.type \in {DATA, REDUNDANT} /\ Placed(x)

\* The encoder's counters agree.
Countdown ==
  /\ m_roundId # 0 /\ m_serial # 0
  /\ init_ => m_serial = 1 /\ m_roundId = 1 /\ m_sentdatapkt = 0
  /\ ~init_ /\ fc_ # 0 => /\ m_sentdatapkt + 1 = Number(m_roundId, m_serial)
                          /\ m_serial + fc_ = LastData + 1
  /\ fc_ = 0 => m_sentdatapkt = Number(m_roundId, LastData) /\ m_serial > LastData

NumberInv == Countdown /\ PathPlaced(link) /\ LostPlaced(lost)

\* The number of data packets in a round.
LEMMA LastDataType == LastData \in Nat \ {0}
<1>1. Fwin \in Nat \ {0} /\ NGroups \in Nat \ {0}
  BY FwinAssumption, NGroupsAssumption
<1>2. /\ Fwin * NGroups \in Nat
      /\ Fwin # 0 => Fwin * NGroups >= NGroups
  BY <1>1, ProductFacts
<1> QED
  BY <1>1, <1>2 DEF LastData

\* Headers in the order of rounds, and in a round in that of serials.
LEMMA NumberOrder ==
  ASSUME NEW x \in Packet, NEW y \in Packet, Numbered(x), Numbered(y)
  PROVE  /\ x.hdr # 0
         /\ x.rid < y.rid => x.hdr < y.hdr
         /\ x.rid = y.rid => (x.hdr < y.hdr <=> x.serial < y.serial)
         /\ x.hdr <= y.hdr => x.rid <= y.rid
<1>1. PICK L, a, b, s, t, hx, hy :
        /\ L = LastData /\ a = x.rid - 1 /\ b = y.rid - 1 /\ s = x.serial /\ t = y.serial
        /\ hx = x.hdr /\ hy = y.hdr
  OBVIOUS
<1>2. /\ x.rid \in Nat /\ y.rid \in Nat /\ x.serial \in Nat /\ y.serial \in Nat
      /\ x.rid # 0 /\ y.rid # 0
  BY DEF Packet, Numbered
<1>3. /\ L \in Nat \ {0} /\ a \in Nat /\ b \in Nat /\ s \in 1 .. L /\ t \in 1 .. L
      /\ hx = a * L + s /\ hy = b * L + t
      /\ (x.rid < y.rid <=> a < b) /\ (x.rid = y.rid <=> a = b) /\ (x.rid <= y.rid <=> a <= b)
  <2>1. L \in Nat \ {0} /\ s \in 1 .. L /\ t \in 1 .. L
    BY <1>1, LastDataType DEF Numbered
  <2>2. hx = a * L + s /\ hy = b * L + t
    BY <1>1 DEF Numbered, Number
  <2>3. /\ a \in Nat /\ b \in Nat
        /\ (x.rid < y.rid <=> a < b) /\ (x.rid = y.rid <=> a = b) /\ (x.rid <= y.rid <=> a <= b)
    BY ONLY <1>1, <1>2
  <2> QED
    BY <2>1, <2>2, <2>3
<1>4. a * L \in Nat /\ b * L \in Nat
  BY ONLY <1>3, SMT
<1>5. ASSUME NEW u \in Nat, NEW v \in Nat, u < v
      PROVE  u * L + L <= v * L
  <2>1. PICK d \in Nat : v = u + 1 + d
    <3>1. v - u - 1 \in Nat /\ v = u + 1 + (v - u - 1)
      BY ONLY <1>5, u \in Nat, v \in Nat
    <3> QED
      BY <3>1
  <2>2. v * L = u * L + L + d * L
    BY ONLY <1>3, <2>1, u \in Nat, v \in Nat, SMT
  <2>3. u * L \in Nat /\ d * L \in Nat
    BY ONLY <1>3, <2>1, u \in Nat, SMT
  <2> QED
    BY ONLY <1>3, <2>2, <2>3
<1>6. a < b => a * L + L <= b * L
  BY <1>3, <1>5
<1>7. b < a => b * L + L <= a * L
  BY <1>3, <1>5
<1>8. a < b => hx < hy
  <2> HAVE a < b
  <2>1. PICK c, d : c = a * L /\ d = b * L
    OBVIOUS
  <2>2. c \in Nat /\ d \in Nat /\ c + L <= d /\ hx = c + s /\ hy = d + t
    BY <1>3, <1>4, <1>6, <2>1
  <2> QED
    BY ONLY <1>3, <2>2
<1>9. b < a => hy < hx
  <2> HAVE b < a
  <2>1. PICK c, d : c = a * L /\ d = b * L
    OBVIOUS
  <2>2. c \in Nat /\ d \in Nat /\ d + L <= c /\ hx = c + s /\ hy = d + t
    BY <1>3, <1>4, <1>7, <2>1
  <2> QED
    BY ONLY <1>3, <2>2
<1>10. a = b => (hx < hy <=> s < t)
  <2> HAVE a = b
  <2>1. PICK c : c = a * L
    OBVIOUS
  <2>2. c \in Nat /\ hx = c + s /\ hy = c + t
    BY <1>3, <1>4, <2>1
  <2> QED
    BY ONLY <1>3, <2>2
<1>11. hx \in Nat /\ hy \in Nat /\ hx # 0
  <2>1. PICK c, d : c = a * L /\ d = b * L
    OBVIOUS
  <2>2. c \in Nat /\ d \in Nat /\ hx = c + s /\ hy = d + t
    BY <1>3, <1>4, <2>1
  <2> QED
    BY ONLY <1>3, <2>2
<1>12. hx <= hy => a <= b
  BY ONLY <1>3, <1>9, <1>11
<1> QED
  BY ONLY <1>1, <1>3, <1>8, <1>10, <1>11, <1>12

\* The next round begins with the next number.
LEMMA NextRoundNumber ==
  ASSUME NEW rid \in Nat, rid # 0
  PROVE  /\ Number(rid, LastData) + 1 = Number(rid + 1, 1)
         /\ Number(1, 1) = 1
         /\ \A s \in Nat : Number(rid, s) \in Nat /\ Number(rid, s + 1) = Number(rid, s) + 1
<1>1. PICK L, a : L = LastData /\ a = rid - 1
  OBVIOUS
<1>2. L \in Nat \ {0} /\ a \in Nat /\ rid = a + 1
  BY <1>1, LastDataType
<1>3. a * L \in Nat /\ (a + 1) * L = a * L + L
  BY ONLY <1>2, SMT
<1>4. Number(rid, LastData) = a * L + L /\ Number(rid + 1, 1) = (a + 1) * L + 1
  <2>1. (rid + 1) - 1 = a + 1
    BY <1>2
  <2> QED
    BY <1>1, <2>1 DEF Number
<1>5. Number(1, 1) = 1
  <2>1. 1 - 1 = 0 /\ 0 * L = 0
    BY ONLY <1>2, SMT
  <2> QED
    BY <1>1, <2>1 DEF Number
<1>6. \A s : Number(rid, s) = a * L + s
  BY <1>1 DEF Number
<1>7. \A s \in Nat : Number(rid, s) \in Nat /\ Number(rid, s + 1) = Number(rid, s) + 1
  <2>1. PICK c : c = a * L
    OBVIOUS
  <2>2. c \in Nat /\ \A s : Number(rid, s) = c + s
    BY <1>3, <1>6, <2>1
  <2> QED
    BY <2>2
<1> QED
  <2>1. PICK c, d : c = a * L /\ d = (a + 1) * L
    OBVIOUS
  <2>2. c \in Nat /\ d = c + L /\ Number(rid, LastData) = c + L /\ Number(rid + 1, 1) = d + 1
    BY <1>3, <1>4, <2>1
  <2>3. Number(rid, LastData) + 1 = Number(rid + 1, 1)
    BY ONLY <1>2, <2>2
  <2> QED
    BY <1>5, <1>7, <2>3

\* A packet at the end of the path; one that leaves it.
LEMMA PlacedPath ==
  ASSUME NEW l \in Seq(Packet), PathPlaced(l)
  PROVE  /\ \A p \in Packet : Placed(p) => PathPlaced(Append(l, p))
         /\ l # <<>> => PathPlaced(Tail(l)) /\ Placed(Head(l))
<1>1. Len(l) \in Nat
  BY LenProperties
<1>2. ASSUME NEW p \in Packet, Placed(p) PROVE PathPlaced(Append(l, p))
  <2>1. /\ Len(Append(l, p)) = Len(l) + 1 /\ Append(l, p)[Len(l) + 1] = p
        /\ \A m \in 1 .. Len(l) : Append(l, p)[m] = l[m]
    BY AppendProperties
  <2> SUFFICES ASSUME NEW m \in 1 .. Len(l) + 1 PROVE Placed(Append(l, p)[m])
    BY <2>1 DEF PathPlaced
  <2>2. m \in 1 .. Len(l) \/ m = Len(l) + 1
    BY <1>1
  <2> QED
    BY <1>2, <2>1, <2>2 DEF PathPlaced
<1>3. ASSUME l # <<>> PROVE PathPlaced(Tail(l)) /\ Placed(Head(l))
  <2>1. /\ l[1] = Head(l) /\ Len(Tail(l)) = Len(l) - 1
        /\ \A m \in 1 .. Len(Tail(l)) : Tail(l)[m] = l[m + 1]
    BY <1>3, HeadTailProperties
  <2>2. Len(l) # 0
    BY <1>3, EmptySeq
  <2>3. 1 \in 1 .. Len(l) /\ \A m \in 1 .. Len(Tail(l)) : m + 1 \in 1 .. Len(l)
    BY <1>1, <2>1, <2>2
  <2> QED
    BY <2>1, <2>3 DEF PathPlaced
<1> QED
  BY <1>2, <1>3

\* The encoder before its first packet, and in a round.
LEMMA CountNow ==
  ASSUME IInv, NumberInv, Idle
  PROVE  /\ m_sentdatapkt + 1 = Number(m_roundId, m_serial)
         /\ m_roundId \in Nat /\ m_serial \in Nat /\ m_roundId # 0 /\ m_serial # 0
         /\ m_sentdatapkt \in Nat
         /\ (IF init_ THEN LastData ELSE fc_) \in Nat \ {0}
         /\ m_serial + (IF init_ THEN LastData ELSE fc_) = LastData + 1
<1>1. /\ m_roundId \in Nat /\ m_serial \in Nat /\ m_sentdatapkt \in Nat /\ fc_ \in Int
      /\ m_roundId # 0 /\ m_serial # 0 /\ init_ \in BOOLEAN
  BY BoundsAssumption DEF IInv, TypeOK, NumberInv, Countdown
<1>2. LastData \in Nat \ {0} /\ Number(1, 1) = 1
  BY LastDataType, NextRoundNumber
<1>3. CASE init_
  BY <1>1, <1>2, <1>3 DEF NumberInv, Countdown
<1>4. CASE ~init_
  <2>1. fc_ # 0 /\ fc_ > 0
    BY <1>4 DEF Idle, IInv, TablesCoverPath, Burst
  <2> QED
    BY <1>1, <1>4, <2>1 DEF NumberInv, Countdown
<1> QED
  BY <1>1, <1>3, <1>4

\* The groups have come full circle at the last data packet.
LEMMA LastGroupLast ==
  ASSUME IInv, NumberInv, Idle, m_serial = LastData
  PROVE  m_groupId = NGroups - 1
<1>1. /\ (IF init_ THEN LastData ELSE fc_) \in Nat \ {0}
      /\ m_serial + (IF init_ THEN LastData ELSE fc_) = LastData + 1
  BY CountNow
<1>2. LastData \in Nat \ {0} /\ NGroups \in Nat \ {0} /\ Fwin \in Nat \ {0}
  BY LastDataType, NGroupsAssumption, FwinAssumption
<1>3. (IF init_ THEN LastData ELSE fc_) = 1
  BY <1>1, <1>2
<1>4. CASE init_
  <2>1. m_groupId = 0 /\ Fwin * NGroups = 1
    BY <1>3, <1>4 DEF IInv, TablesCoverPath, Burst, LastData
  <2>2. Fwin * NGroups >= NGroups
    BY <1>2, ProductFacts
  <2> QED
    BY <1>2, <2>1, <2>2
<1>5. CASE ~init_
  <2>1. fc_ = 1 /\ m_groupId \in 0 .. NGroups - 1
    BY <1>3, <1>5 DEF IInv, TypeOK, Groups
  <2>2. PICK q \in 0 .. Fwin : fc_ + m_groupId = q * NGroups
    BY <1>5, <2>1 DEF IInv, TablesCoverPath, Burst
  <2>3. q \in Nat /\ (q # 0 => q * NGroups >= NGroups) /\ (q = 0 => q * NGroups = 0)
    BY <1>2, ProductFacts
  <2> QED
    BY <1>2, <2>1, <2>2, <2>3
<1> QED
  BY <1>4, <1>5

\* SendData gives the next packet its number.
LEMMA SendDataNumbers ==
  ASSUME IInv, NumberInv, SendData
  PROVE  NumberInv'
<1> DEFINE p == Tagged(DATA, m_sentdatapkt + 1)
           left == IF init_ THEN LastData ELSE fc_
<1>1. /\ Idle /\ link' = Append(link, p) /\ m_sentdatapkt' = m_sentdatapkt + 1
      /\ m_serial' = m_serial + 1 /\ m_roundId' = m_roundId /\ lost' = lost /\ init_' = FALSE
      /\ fc_' = left - 1
  BY DEF SendData, CreateDataPacket, LastData
<1>2. /\ m_sentdatapkt + 1 = Number(m_roundId, m_serial)
      /\ m_roundId \in Nat /\ m_serial \in Nat /\ m_roundId # 0 /\ m_serial # 0
      /\ m_sentdatapkt \in Nat /\ left \in Nat \ {0} /\ m_serial + left = LastData + 1
  BY <1>1, CountNow
<1> HIDE DEF left
<1>3. LastData \in Nat \ {0}
  BY LastDataType
<1>4. p \in Packet /\ p.type = DATA /\ p.serial = m_serial /\ p.rid = m_roundId
      /\ p.hdr = m_sentdatapkt + 1
  <2>1. p \in Packet
    <3>1. m_sentdatapkt + 1 \in Nat /\ DATA \in {DATA, REDUNDANT} /\ FALSE \in BOOLEAN /\ TypeOK
      BY <1>2 DEF IInv
    <3> QED
      BY ONLY <3>1, MadeTypes DEF p
  <2> QED
    BY <2>1 DEF Tagged
<1> HIDE DEF p
<1>5. m_serial \in 1 .. LastData
  BY ONLY <1>2, <1>3
<1>6. Placed(p)
  <2>1. Numbered(p)
    BY <1>2, <1>4, <1>5 DEF Numbered
  <2>2. m_serial = LastData => m_groupId = NGroups - 1
    BY <1>1, <1>2, <1>3, LastGroupLast DEF left
  <2>3. p.gid = m_groupId
    BY DEF p, Tagged
  <2> QED
    BY <1>4, <2>1, <2>2, <2>3 DEF Placed, DATA, REDUNDANT
<1>7. PathPlaced(link')
  <2>1. link \in Seq(Packet) /\ PathPlaced(link)
    BY QueuesNow DEF NumberInv
  <2> QED
    BY <1>1, <1>4, <1>6, <2>1, PlacedPath
<1>8. Countdown'
  <2>1. Number(m_roundId, m_serial + 1) = Number(m_roundId, m_serial) + 1
    BY <1>2, NextRoundNumber
  <2>2. fc_' # 0 => /\ m_sentdatapkt' + 1 = Number(m_roundId', m_serial')
                    /\ m_serial' + fc_' = LastData + 1
    <3>1. m_serial' + fc_' = LastData + 1
      BY ONLY <1>1, <1>2, <1>3
    <3> QED
      BY <1>1, <1>2, <2>1, <3>1
  <2>3. ASSUME fc_' = 0
        PROVE  m_sentdatapkt' = Number(m_roundId', LastData) /\ m_serial' > LastData
    <3>1. m_serial = LastData /\ m_serial' > LastData
      BY ONLY <1>1, <1>2, <1>3, <2>3
    <3> QED
      BY <1>1, <1>2, <3>1
  <2>4. m_serial' # 0 /\ m_roundId' # 0
    BY <1>1, <1>2
  <2> QED
    BY <1>1, <2>2, <2>3, <2>4 DEF Countdown, LastData
<1> QED
  BY <1>1, <1>7, <1>8 DEF NumberInv, LostPlaced

\* SendSmall takes none.
LEMMA SendSmallNumbers ==
  ASSUME IInv, NumberInv, SendSmall
  PROVE  NumberInv'
<1> DEFINE p == [type |-> NONE, serial |-> 0, rid |-> 0, gid |-> 0, hdr |-> 0]
           left == IF init_ THEN LastData ELSE fc_
<1>1. /\ Idle /\ link' = Append(link, p) /\ m_sentdatapkt' = m_sentdatapkt
      /\ m_serial' = m_serial /\ m_roundId' = m_roundId /\ lost' = lost /\ init_' = FALSE
      /\ fc_' = left
  BY DEF SendSmall, LastData
<1>2. /\ m_sentdatapkt + 1 = Number(m_roundId, m_serial)
      /\ m_roundId \in Nat /\ m_serial \in Nat /\ m_roundId # 0 /\ m_serial # 0
      /\ left \in Nat \ {0} /\ m_serial + left = LastData + 1
  BY <1>1, CountNow
<1> HIDE DEF left
<1>3. p \in Packet /\ Placed(p)
  <2>1. 0 \in Groups
    BY NGroupsAssumption DEF Groups
  <2> QED
    BY <2>1 DEF Packet, Placed, NONE, DATA, REDUNDANT
<1> HIDE DEF p
<1>4. PathPlaced(link')
  <2>1. link \in Seq(Packet) /\ PathPlaced(link)
    BY QueuesNow DEF NumberInv
  <2> QED
    BY <1>1, <1>3, <2>1, PlacedPath
<1>5. Countdown'
  BY <1>1, <1>2 DEF Countdown, LastData
<1> QED
  BY <1>1, <1>4, <1>5 DEF NumberInv, LostPlaced

\* SendFecPacket places redundant packets behind the data packets, and the round
\* after the last starts over.
LEMMA SendFecPacketNumbers ==
  ASSUME IInv, NumberInv, SendFecPacket
  PROVE  NumberInv'
<1> DEFINE p == Tagged(REDUNDANT, 0)
           lastGroup == m_groupId + 1 = NGroups
<1>1. /\ fc_ = 0 /\ link' = Append(link, p) /\ m_sentdatapkt' = m_sentdatapkt /\ lost' = lost
      /\ m_roundId' = IF lastGroup THEN m_roundId + 1 ELSE m_roundId
      /\ m_serial' = IF lastGroup THEN 1 ELSE m_serial + 1
      /\ init_' = init_
      /\ fc_' = IF ic_ - 1 = 0 THEN LastData ELSE fc_
  BY DEF SendFecPacket, CreateFecPacket, RedundancyControl, Idle, LastData
<1>2. /\ m_roundId \in Nat /\ m_serial \in Nat /\ m_roundId # 0
      /\ m_sentdatapkt = Number(m_roundId, LastData) /\ m_serial > LastData
  BY <1>1 DEF IInv, TypeOK, NumberInv, Countdown
<1>3. ~init_ /\ (ic_ - 1 = 0 <=> lastGroup)
  <2>1. init_ => fc_ = -1
    BY DEF IInv, TablesCoverPath, Burst
  <2>2. ic_ \in 1 .. NGroups /\ m_groupId = NGroups - ic_ /\ NGroups \in Nat
    BY <1>1, NGroupsAssumption DEF IInv, TablesCoverPath, Burst
  <2> QED
    BY <1>1, <2>1, <2>2
<1> HIDE DEF lastGroup
<1>4. p \in Packet /\ Placed(p)
  <2>1. p \in Packet
    <3>1. 0 \in Nat /\ REDUNDANT \in {DATA, REDUNDANT} /\ TRUE \in BOOLEAN /\ TypeOK
      BY DEF IInv
    <3> QED
      BY ONLY <3>1, MadeTypes
  <2>2. p.type = REDUNDANT /\ p.serial = m_serial
    BY DEF Tagged
  <2> QED
    BY <1>2, <2>1, <2>2 DEF Placed, DATA, REDUNDANT
<1> HIDE DEF p
<1>5. PathPlaced(link')
  <2>1. link \in Seq(Packet) /\ PathPlaced(link)
    BY QueuesNow DEF NumberInv
  <2> QED
    BY <1>1, <1>4, <2>1, PlacedPath
<1>6. LastData \in Nat \ {0} /\ Number(m_roundId, LastData) + 1 = Number(m_roundId + 1, 1)
  BY <1>2, LastDataType, NextRoundNumber
<1>7. Countdown'
  <2>1. CASE lastGroup
    <3>1. /\ m_roundId' = m_roundId + 1 /\ m_serial' = 1 /\ fc_' = LastData /\ ~init_'
      BY <1>1, <1>3, <2>1
    <3>2. m_roundId + 1 # 0 /\ 1 + LastData = LastData + 1 /\ LastData # 0
      BY <1>2, <1>6
    <3> QED
      BY <1>1, <1>2, <1>6, <3>1, <3>2 DEF Countdown, LastData
  <2>2. CASE ~lastGroup
    <3>1. /\ m_roundId' = m_roundId /\ m_serial' = m_serial + 1 /\ fc_' = 0 /\ ~init_'
      BY <1>1, <1>3, <2>2
    <3>2. m_serial + 1 > LastData /\ m_serial + 1 # 0
      BY <1>2, <1>6
    <3> QED
      BY <1>1, <1>2, <3>1, <3>2 DEF Countdown, LastData
  <2> QED
    BY <2>1, <2>2
<1> QED
  BY <1>1, <1>5, <1>7 DEF NumberInv, LostPlaced

\* The head leaves the path, and may be lost.
LEMMA LeavesNumbers ==
  ASSUME IInv, NumberInv, link # <<>>, link' = Tail(link), UNCHANGED encoder,
         \A x \in lost' : x \in lost \/ (x = Head(link) /\ x.type \in {DATA, REDUNDANT})
  PROVE  NumberInv'
<1>1. PathPlaced(link') /\ Placed(Head(link))
  BY QueuesNow, PlacedPath DEF NumberInv
<1>2. LostPlaced(lost')
  BY <1>1 DEF NumberInv, LostPlaced
<1>3. Countdown'
  BY DEF NumberInv, Countdown, encoder, Number, LastData
<1> QED
  BY <1>1, <1>2, <1>3 DEF NumberInv

\* Every step keeps NumberInv.
LEMMA NextNumbers ==
  ASSUME IInv, NumberInv, [Next]_vars
  PROVE  NumberInv'
<1>1. CASE SendData
  BY <1>1, SendDataNumbers
<1>2. CASE SendSmall
  BY <1>2, SendSmallNumbers
<1>3. CASE SendFecPacket
  BY <1>3, SendFecPacketNumbers
<1>4. CASE Lose
  <2>1. /\ link # <<>> /\ link' = Tail(link) /\ UNCHANGED encoder /\ Idle
        /\ lost' = IF Head(link).type = NONE THEN lost ELSE lost \cup {Head(link)}
    BY <1>4 DEF Lose
  <2>2. Head(link).type # NONE => Head(link).type \in {DATA, REDUNDANT}
    BY <2>1, HeadTypes
  <2> QED
    BY <2>1, <2>2, LeavesNumbers
<1>5. CASE IpForwardSmall
  <2>1. link # <<>> /\ link' = Tail(link) /\ UNCHANGED encoder /\ lost' = lost
    BY <1>5 DEF IpForwardSmall
  <2> QED
    BY <2>1, LeavesNumbers
<1>6. CASE IpForward
  <2>1. link # <<>> /\ link' = Tail(link) /\ UNCHANGED encoder /\ lost' = lost
    BY <1>6 DEF IpForward
  <2> QED
    BY <2>1, LeavesNumbers
<1>7. CASE UNCHANGED vars
  BY <1>7 DEF vars, encoder, NumberInv, Countdown, PathPlaced, LostPlaced
<1> QED
  BY <1>1, <1>2, <1>3, <1>4, <1>5, <1>6, <1>7 DEF Next

\* The initial state satisfies it.
LEMMA InitNumbers ==
  ASSUME Init
  PROVE  NumberInv
BY DEF Init, NumberInv, Countdown, PathPlaced, LostPlaced

-----------------------------------------------------------------------------
(* What Recv's answer says of the losses *)

\* The losses that CheckRoundFecTable counts for the packet at the head: too many
\* of them mean that the round is given up, and a data packet sees one exactly if
\* one of its round was lost before it.
LEMMA HeadCounts ==
  ASSUME IInv, AskInv, LossInv, NumberInv, Idle, link # <<>>, NEW p, p = Head(link),
         p.type # NONE, NEW chk, chk = CheckRoundFecTable(MarkRoundFecTable(rt_, p), p)
  PROVE  /\ chk.sumlost \in Nat
         /\ chk.sumlost > NGroups => GivenUp(lost, p.rid)
         /\ p.type = DATA =>
              (chk.sumlost > 0 <=> \E x \in lost : x.rid = p.rid /\ x.serial < p.serial)
<1> DEFINE b == m_roundId - Len(rt_)
<1>1. PICK n, off, ask : HeadSettles(p, chk, n, off, ask)
  BY HeadIsSettled
<1>2. Follow(link, b, off)
  BY <1>1, OthersFollow
<1>3. link \in Seq(Packet) /\ rt_ \in Seq(RoundFecTable) /\ b \in Int /\ Rounds(rt_, b)
  BY RoundsNow
<1>4. /\ Settling(chk.rt, rt_, link, p, n, off, ask) /\ n \in 1 .. Len(rt_) /\ off < Len(rt_)
      /\ RoundHas(rt_[n], p) /\ p.rid = b + n /\ Tag(p) /\ Serialled(rt_[n].pi)
  BY <1>1 DEF HeadSettles, Settling
<1>5. Accounted(rt_, link, lost) /\ lost \subseteq Packet
  BY LossParts DEF IInv, TypeOK
<1> HIDE DEF b
<1>6. Passed(chk.rt, rt_, link, p, n, off, ask, b, lost)
  BY <1>2, <1>3, <1>4, <1>5 DEF Passed
<1>7. /\ p.serial \in 1 .. Len(rt_[n].pi)
      /\ p.type = DATA => chk.sumlost = Cardinality(OpenUpTo(rt_, n, p, p.serial))
      /\ p.type # DATA => chk.sumlost = Cardinality(OpenUpTo(rt_, n, p, Len(rt_[n].pi)))
  BY ONLY <1>3, <1>4, SumlostCounts,
     chk = CheckRoundFecTable(MarkRoundFecTable(rt_, p), p)
<1>8. InSerialOrder(link, m_roundId, m_serial)
  BY DEF AskInv
<1>9. Len(rt_[n].pi) \in Nat
  BY <1>3, <1>4, EntryTyped
<1>10. Placed(p) /\ p \in Packet
  BY <1>3, PlacedPath, HeadTailProperties DEF NumberInv
<1>11. LastData \in Nat
  BY LastDataType
<1>12. p.type # DATA =>
         OpenUpTo(rt_, n, p, Len(rt_[n].pi)) = OpenUpTo(rt_, n, p, p.serial)
  <2> HAVE p.type # DATA
  <2>1. p.serial > LastData
    <3>1. p.type = REDUNDANT
      BY HeadTypes
    <3> QED
      BY <1>10, <3>1 DEF Placed
  <2>2. ASSUME NEW k \in 1 .. Len(rt_[n].pi), k < LastData
        PROVE  k \in 1 .. p.serial
    BY ONLY <1>7, <1>9, <1>11, <2>1, <2>2
  <2>3. \A k \in 1 .. p.serial : k \in 1 .. Len(rt_[n].pi)
    BY ONLY <1>7, <1>9
  <2> QED
    BY <2>2, <2>3 DEF OpenUpTo, LastData
<1> DEFINE D == OpenUpTo(rt_, n, p, p.serial)
           L == LostOf(lost, p.rid)
<1>13. chk.sumlost = Cardinality(D)
  BY <1>7, <1>12
<1>14. IsFiniteSet(D)
  <2>1. D \subseteq 1 .. p.serial
    BY DEF OpenUpTo
  <2>2. IsFiniteSet(1 .. p.serial)
    <3>1. 1 \in Int /\ p.serial \in Int
      BY <1>7, <1>9
    <3> QED
      BY <3>1, FS_Interval
  <2> HIDE DEF D
  <2> QED
    BY <2>1, <2>2, FS_Subset
<1>15. IsFiniteSet(L) /\ Cardinality(D) <= Cardinality(L)
  BY ONLY <1>6, <1>8, OpenBeforeAreLost
<1>16. p.type = DATA =>
         (D # {} <=> \E x \in lost : x.rid = p.rid /\ x.serial < p.serial)
  <2> HAVE p.type = DATA
  <2>1. ASSUME NEW k \in D
        PROVE  \E x \in lost : x.rid = p.rid /\ x.serial < p.serial
    <3>1. PICK x : x = PacketOf(rt_[n].pi[k], p.rid, k)
      OBVIOUS
    <3>2. x \in LostOf(lost, p.rid) /\ k < p.serial
      BY ONLY <1>6, <1>8, <3>1, k \in D, OpenBeforeIsLost
    <3>3. x.serial = k
      BY <3>1 DEF PacketOf
    <3> QED
      BY <3>2, <3>3 DEF LostOf
  <2>2. ASSUME NEW x \in lost, x.rid = p.rid, x.serial < p.serial
        PROVE  D # {}
    <3>1. LossesOpen(rt_, lost)
      BY <1>5 DEF Accounted
    <3>2. rt_[1].rid <= x.rid
      <4>1. 1 \in 1 .. Len(rt_) /\ n \in Int /\ Len(rt_) \in Nat /\ 1 <= n
        BY <1>3, <1>4, LenProperties
      <4>2. rt_[1].rid = b + 1 /\ x.rid = b + n
        BY <1>3, <1>4, <2>2, <4>1 DEF Rounds
      <4> QED
        BY ONLY <1>3, <4>1, <4>2
    <3>3. PICK i, k : OpenAt(rt_, x, i, k)
      BY <3>1, <3>2, OpenPlace DEF LossesOpen
    <3>4. /\ i \in 1 .. Len(rt_) /\ k \in 1 .. Len(rt_[i].pi) /\ ~rt_[i].pi[k].check
          /\ x.rid = b + i /\ x.serial = k
      BY <1>3, <3>3, OpenFields
    <3>5. i = n
      BY <1>3, <1>4, <2>2, <3>4
    <3>6. p.serial <= LastData
      BY <1>10 DEF Placed, Numbered
    <3>7. k \in 1 .. p.serial /\ k # p.serial /\ k < LastData
      <4>1. k \in 1 .. Len(rt_[n].pi) /\ k < p.serial
        BY <2>2, <3>4, <3>5
      <4> QED
        BY ONLY <1>7, <1>9, <1>11, <3>6, <4>1
    <3> QED
      BY <3>4, <3>5, <3>7 DEF OpenUpTo, LastData
  <2> QED
    BY <2>1, <2>2
<1> HIDE DEF D, L
<1>17. /\ Cardinality(D) \in Nat /\ Cardinality(L) \in Nat /\ NGroups \in Nat
       /\ Cardinality(D) = 0 <=> D = {}
  BY <1>14, <1>15, FS_CardinalityType, FS_EmptySet, NGroupsAssumption
<1>18. chk.sumlost > NGroups => GivenUp(lost, p.rid)
  <2>1. chk.sumlost > NGroups => Cardinality(L) > NGroups
    BY ONLY <1>13, <1>15, <1>17
  <2> QED
    BY <2>1 DEF GivenUp, LostOf, L
<1>19. chk.sumlost > 0 <=> D # {}
  BY ONLY <1>13, <1>17
<1> QED
  BY <1>13, <1>16, <1>17, <1>18, <1>19

\* The losses that MarkGroupFecTable counts for a packet that does not close its
\* round: too many of them, too, mean that the round is given up.
LEMMA MissingAreLost ==
  ASSUME IInv, AskInv, LossInv, DeliverInv, NumberInv, Idle, link # <<>>,
         NEW p, p = Head(link), p.type # NONE, p.type = REDUNDANT => p.gid # NGroups - 1,
         NEW rt, ~(p.rid < rt[1].rid), NEW nlost, nlost = MarkGroupFecTable(rt, gt_, p).nlost,
         nlost > NGroups
  PROVE  GivenUp(lost, p.rid)
<1> SUFFICES ASSUME ~GivenUp(lost, p.rid) PROVE FALSE
  OBVIOUS
<1>1. link \in Seq(Packet) /\ gt_ \in Seq(GroupFecTable) /\ Len(gt_) \in Nat
  BY LenProperties DEF IInv, TypeOK
<1>2. PICK b : b = m_roundId - Len(gt_) /\ Rounds(gt_, b) /\ b \in Int
  BY QueuesNow
<1>3. /\ Tag(p)
      /\ \E m \in 1 .. Len(gt_) : GroupHas(gt_[m], p) /\ p.rid = (m_roundId - Len(gt_)) + m
  <2>1. /\ \A x \in Packet : Tag(x)
        /\ Tracked(link, rt_, gt_, m_roundId, fc_, m_groupId) /\ fc_ # 0
    BY PacketTags, LinkTracked DEF IInv, TypeOK, TablesCoverPath, Burst, Idle
  <2> QED
    BY <1>1, <2>1, HeadTracked
<1>4. PICK m \in 1 .. Len(gt_) : GroupHas(gt_[m], p) /\ p.rid = b + m
  BY <1>2, <1>3
<1>5. p.gid \in Groups /\ p.rid \in Int /\ m \in 1 .. Len(gt_)
  BY <1>3 DEF Tag
<1> DEFINE pi == gt_[m].gi[p.gid]
           k == PosInGroup(pi, p)
           M == Missing(pi, k, p.serial)
           L == LostOf(lost, p.rid)
           f == [i \in M |-> DataOf(pi[i], p.rid, p.gid)]
<1>6. pi \in Seq(PacketInfo) /\ Len(pi) \in Nat /\ \A i \in 1 .. Len(pi) : pi[i] \in PacketInfo
  BY <1>1, <1>5, GroupTyped
<1>7. k \in 1 .. Len(pi)
  <2>1. \E i \in 1 .. Len(pi) : pi[i].serial = p.serial
    BY <1>4 DEF GroupHas
  <2> HIDE DEF pi
  <2> QED
    BY <1>6, <2>1, PosFound
<1>8. Cardinality(M) > NGroups
  <2>1. PICK q : q = PopBelow(gt_, p.rid)
    OBVIOUS
  <2>2. q \in Seq(GroupFecTable) /\ Len(q) = Len(gt_) - m + 1
        /\ \A i \in 1 .. Len(q) : q[i] = gt_[m + i - 1]
    <3>1. PICK gt, n, rid : gt = gt_ /\ n = m /\ rid = p.rid
      OBVIOUS
    <3>2. /\ gt \in Seq(GroupFecTable) /\ Rounds(gt, b) /\ rid = b + n /\ rid \in Int
          /\ n \in 1 .. Len(gt) /\ b \in Int
      BY <1>1, <1>2, <1>4, <1>5, <3>1
    <3>3. /\ PopBelow(gt, rid) \in Seq(GroupFecTable)
          /\ Len(PopBelow(gt, rid)) = Len(gt) - n + 1
          /\ \A i \in 1 .. Len(PopBelow(gt, rid)) : PopBelow(gt, rid)[i] = gt[n + i - 1]
      BY ONLY <3>2, PopBelowConsecutive
    <3> QED
      BY <2>1, <3>1, <3>3
  <2>3. q[1] = gt_[m]
    <3>1. 1 \in 1 .. Len(q) /\ m + 1 - 1 = m
      BY <1>1, <2>2
    <3> QED
      BY <2>2, <3>1
  <2>4. MarkGroupFecTable(rt, gt_, p).nlost = Cardinality(M)
    BY <2>1, <2>3 DEF MarkGroupFecTable
  <2> QED
    BY <2>4
<1>9. \A i \in 1 .. Len(pi) : GroupEntry(gt_, p.rid, p.gid, i, pi[i])
  <2> SUFFICES ASSUME NEW i \in 1 .. Len(pi)
               PROVE  GroupEntry(gt_, p.rid, p.gid, i, pi[i])
    OBVIOUS
  <2>1. PICK r, g, e : r = p.rid /\ g = p.gid /\ e = pi[i]
    OBVIOUS
  <2>2. i \in 1 .. Len(gt_[m].gi[g]) /\ e = gt_[m].gi[g][i] /\ g \in Groups /\ r = b + m
    BY <1>4, <1>5, <2>1
  <2> HIDE DEF pi, k, M, L, f
  <2>3. GroupEntry(gt_, r, g, i, e)
    <3>1. PICK gt : gt = gt_
      OBVIOUS
    <3>2. /\ Len(gt) \in Nat /\ Rounds(gt, b) /\ m \in 1 .. Len(gt) /\ b \in Int
          /\ i \in 1 .. Len(gt[m].gi[g]) /\ e = gt[m].gi[g][i] /\ g \in Groups /\ r = b + m
      BY <1>1, <1>2, <1>5, <2>2, <3>1
    <3>3. GroupEntry(gt, r, g, i, e)
      BY ONLY <3>2, GroupEntryAt
    <3> QED
      BY <3>1, <3>3
  <2> QED
    BY <2>1, <2>3
<1>10. \A i \in M : /\ i \in 1 .. Len(pi) /\ i < k /\ ~pi[i].check
                    /\ pi[i].serial < p.serial
  <2> HIDE DEF pi, k
  <2>1. k \in Nat /\ \A i \in 1 .. k - 1 : i \in 1 .. Len(pi) /\ i < k
    BY ONLY <1>6, <1>7
  <2> QED
    BY <2>1 DEF Missing
<1>11. Placed(p) /\ p \in Packet
  BY <1>1, PlacedPath, HeadTailProperties DEF NumberInv
<1> HIDE DEF pi, k, M, L
<1>12. ASSUME NEW i \in M
       PROVE  DataOf(pi[i], p.rid, p.gid) \in L
  <2>1. PICK e, x : e = pi[i] /\ x = DataOf(e, p.rid, p.gid)
    OBVIOUS
  <2>2. MissingIn(gt_, p, 0, e)
    <3>1. SameEntry(e, pi[i], i = 0)
      <4>1. i # 0
        BY <1>6, <1>10
      <4> QED
        BY <2>1, <4>1 DEF SameEntry
    <3> QED
      BY <1>7, <1>9, <1>10, <2>1, <3>1 DEF MissingIn
  <2>3. GroupsTell(gt_, m_roundId, m_serial, fc_, m_groupId, link, lost, Kept)
    BY DEF DeliverInv
  <2>4. x \in lost
    BY <2>1, <2>2, <2>3, MissingIsLost
  <2>5. /\ x.type = DATA /\ x.serial = pi[i].serial /\ x.rid = p.rid /\ x.gid = p.gid
        /\ x.serial \in Nat
    BY <1>6, <1>10, <2>1 DEF DataOf, PacketInfo
  <2>6. Placed(x)
    BY <2>4 DEF NumberInv, LostPlaced
  <2>7. x.serial \in 1 .. LastData /\ (x.serial = LastData => x.gid = NGroups - 1)
    BY <2>5, <2>6 DEF Placed, Numbered
  <2>8. x.serial # LastData
    <3>1. p.type = DATA \/ p.type = REDUNDANT
      BY HeadTypes
    <3>2. CASE p.type = REDUNDANT
      BY <2>5, <2>7, <3>2
    <3>3. CASE p.type = DATA
      <4>1. p.serial \in 1 .. LastData
        BY <1>11, <3>3 DEF Placed, Numbered
      <4>2. x.serial < p.serial
        BY <1>10, <2>5
      <4> QED
        BY ONLY <4>1, <4>2, LastDataType
    <3> QED
      BY <3>1, <3>2, <3>3
  <2>9. x.serial < LastData
    BY ONLY <2>7, <2>8, LastDataType
  <2> QED
    BY <2>1, <2>4, <2>5, <2>9 DEF L, LostOf, LastData
<1>13. ASSUME NEW i \in M, NEW j \in M, i < j
       PROVE  pi[i].serial < pi[j].serial
  <2>1. GroupsRise(gt_)
    BY DEF DeliverInv, GroupsTell
  <2> QED
    BY <1>9, <1>10, <1>13, <2>1 DEF GroupsRise
<1>14. f \in Injection(M, L)
  <2>1. f \in [M -> L]
    BY <1>12
  <2>2. ASSUME NEW i \in M, NEW j \in M, f[i] = f[j]
        PROVE  i = j
    <3>1. pi[i].serial = pi[j].serial
      BY <2>2 DEF DataOf
    <3>2. pi[i].serial \in Nat /\ i \in Nat /\ j \in Nat
      BY <1>6, <1>10 DEF PacketInfo
    <3>3. ~(i < j) /\ ~(j < i)
      BY <1>13, <3>1, <3>2
    <3> QED
      BY ONLY <3>2, <3>3
  <2> QED
    BY <2>1, <2>2 DEF Injection, IsInjective
<1> HIDE DEF f
<1>15. IsFiniteSet(L)
  <2>1. IsFiniteSet(lost)
    BY DEF LossInv, Accounted
  <2> QED
    BY <2>1, FS_Subset DEF L, LostOf
<1>16. Cardinality(M) <= Cardinality(L) /\ IsFiniteSet(M)
  BY <1>14, <1>15, FS_Injection
<1>17. Cardinality(M) \in Nat /\ Cardinality(L) \in Nat /\ NGroups \in Nat
  <2>1. Cardinality(M) \in Nat
    BY <1>16, FS_CardinalityType
  <2>2. Cardinality(L) \in Nat
    BY <1>15, FS_CardinalityType
  <2>3. NGroups \in Nat
    BY NGroupsAssumption
  <2> QED
    BY <2>1, <2>2, <2>3
<1>18. Cardinality(L) > NGroups
  BY ONLY <1>8, <1>16, <1>17
<1> QED
  BY <1>18 DEF GivenUp, LostOf, L

\* What is lost when Recv consumes packet p, forwards it, or has the transit queue
\* released: a data packet of its round; nothing before p; or more than can be
\* repaired, unless p closes its round.
Decided(r, p) ==
  /\ p.type = DATA /\ r.flag = 1 =>
       StoreMode /\ \E x \in lost : x.rid = p.rid /\ x.serial < p.serial
  /\ p.type = DATA /\ r.flag = 0 /\ StoreMode =>
       \A x \in lost : x.rid = p.rid => ~(x.serial < p.serial)
  /\ r.flag = 2 => GivenUp(lost, p.rid) \/ p.rid < r.rt[1].rid

\* So Recv decides.
LEMMA RecvDecides ==
  ASSUME IInv, AskInv, LossInv, DeliverInv, NumberInv, Idle, link # <<>>,
         NEW p, p = Head(link), p.type # NONE, NEW q, NEW r, r = Recv(q, p)
  PROVE  Decided(r, p)
<1> DEFINE chk == CheckRoundFecTable(MarkRoundFecTable(rt_, p), p)
           grp == MarkGroupFecTable(chk.rt, gt_, p)
           rec == IF p.type = REDUNDANT
                  THEN CheckGroupFecTable(chk.rt, grp.gt, p, grp.nlost)
                  ELSE [gt |-> grp.gt, mlost |-> 0, recovered |-> <<>>]
           n == p.rid - (m_roundId - Len(rt_))
<1>1. /\ r.rt = chk.rt
      /\ chk.sumlost > NGroups => r.flag = 2
      /\ ~(chk.sumlost > NGroups) => r.flag = RecvFlag(p, chk.sumlost, grp.nlost, rec.mlost)
  BY DEF Recv
<1>2. PICK c, s, nl, ml : c = chk.rt /\ s = chk.sumlost /\ nl = grp.nlost /\ ml = rec.mlost
  OBVIOUS
<1>3. /\ s > NGroups => GivenUp(lost, p.rid)
      /\ p.type = DATA => (s > 0 <=> \E x \in lost : x.rid = p.rid /\ x.serial < p.serial)
  <2>1. PICK k : k = chk
    OBVIOUS
  <2>2. k = CheckRoundFecTable(MarkRoundFecTable(rt_, p), p)
    BY <2>1
  <2> HIDE DEF chk
  <2>3. /\ k.sumlost > NGroups => GivenUp(lost, p.rid)
        /\ p.type = DATA =>
             (k.sumlost > 0 <=> \E x \in lost : x.rid = p.rid /\ x.serial < p.serial)
    BY <2>2, HeadCounts
  <2> QED
    BY <1>2, <2>1, <2>3
<1>4. p.type = REDUNDANT /\ p.gid = NGroups - 1 => p.rid < c[1].rid
  <2> HAVE p.type = REDUNDANT /\ p.gid = NGroups - 1
  <2>1. rt_[n].n = NGroups
    <3>1. PICK m, off, ask : HeadSettles(p, chk, m, off, ask)
      BY HeadIsSettled
    <3>2. m \in 1 .. Len(rt_) /\ p.rid = (m_roundId - Len(rt_)) + m
      BY <3>1 DEF HeadSettles, Settling
    <3>3. m_roundId - Len(rt_) \in Int
      BY RoundsNow
    <3>4. n = m
      <4>1. PICK b : b = m_roundId - Len(rt_)
        OBVIOUS
      <4> QED
        BY <3>2, <3>3, <4>1
    <3>5. \A i \in 1 .. Len(rt_) : rt_[i].n = NGroups
      BY DEF IInv, TypeOK
    <3> QED
      BY <3>2, <3>4, <3>5
  <2>2. Closing(rt_[n], p)
    BY <2>1 DEF Closing
  <2>3. PICK k : k = chk
    OBVIOUS
  <2>4. k = CheckRoundFecTable(MarkRoundFecTable(rt_, p), p)
    BY <2>3
  <2> HIDE DEF chk
  <2>5. p.rid < k.rt[1].rid
    BY <2>2, <2>4, HeadPassed DEF n
  <2> QED
    BY <1>2, <2>3, <2>5
<1>5. nl > NGroups => GivenUp(lost, p.rid) \/ p.rid < c[1].rid
  <2> SUFFICES ASSUME nl > NGroups, ~(p.rid < c[1].rid) PROVE GivenUp(lost, p.rid)
    OBVIOUS
  <2>1. p.type = REDUNDANT => p.gid # NGroups - 1
    BY <1>4
  <2>2. nl = MarkGroupFecTable(c, gt_, p).nlost
    BY <1>2
  <2> HIDE DEF chk, grp, rec
  <2> QED
    BY <2>1, <2>2, MissingAreLost
<1>6. r.rt = c /\ (s > NGroups => r.flag = 2)
      /\ (~(s > NGroups) => r.flag = RecvFlag(p, s, nl, ml))
  BY <1>1, <1>2
<1> HIDE DEF chk, grp, rec, n
<1>7. DATA # REDUNDANT
  BY DEF DATA, REDUNDANT
<1>8. CASE s > NGroups
  BY <1>3, <1>6, <1>8 DEF Decided
<1>9. CASE ~(s > NGroups)
  <2>1. r.flag = IF nl > NGroups THEN 2
                 ELSE IF s > 0 /\ p.type = DATA /\ StoreMode THEN 1
                 ELSE IF s # nl /\ ml = 1 /\ p.type = REDUNDANT /\ p.gid < NGroups - 1 THEN 1
                 ELSE IF p.type = REDUNDANT /\ p.gid = NGroups - 1 THEN 2
                 ELSE 0
    BY <1>6, <1>9 DEF RecvFlag
  <2>2. r.flag = 2 => GivenUp(lost, p.rid) \/ p.rid < r.rt[1].rid
    <3>1. r.flag = 2 => nl > NGroups \/ (p.type = REDUNDANT /\ p.gid = NGroups - 1)
      BY <2>1
    <3> QED
      BY <1>4, <1>5, <1>6, <3>1
  <2>3. p.type = DATA /\ r.flag = 1 => s > 0 /\ StoreMode
    BY <1>7, <2>1
  <2>4. p.type = DATA /\ r.flag = 0 /\ StoreMode => ~(s > 0)
    BY <2>1
  <2> QED
    BY <1>3, <2>2, <2>3, <2>4 DEF Decided
<1> QED
  BY <1>8, <1>9

-----------------------------------------------------------------------------
(* What the decoder has forwarded and holds, in order *)

\* The packets of s that are not small are in the order of their headers.
Rising(s) ==
  \A i, j \in 1 .. Len(s) :
    i < j /\ s[i].type # NONE /\ s[j].type # NONE => s[i].hdr < s[j].hdr

\* Two sequences in a row: both rise, the second from where the first ends.
LEMMA RisingJoin ==
  ASSUME NEW a \in Seq(Packet), NEW q \in Seq(Packet)
  PROVE  Rising(a \o q) <=>
           /\ Rising(a) /\ Rising(q)
           /\ \A i \in 1 .. Len(a) : \A j \in 1 .. Len(q) :
                a[i].type # NONE /\ q[j].type # NONE => a[i].hdr < q[j].hdr
<1> DEFINE s == a \o q
<1>1. /\ Len(a) \in Nat /\ Len(q) \in Nat /\ Len(s) = Len(a) + Len(q)
      /\ \A i \in 1 .. Len(a) + Len(q) : s[i] = IF i <= Len(a) THEN a[i] ELSE q[i - Len(a)]
  BY LenProperties, ConcatProperties
<1> HIDE DEF s
<1>2. \A i \in 1 .. Len(a) : i \in 1 .. Len(s) /\ i <= Len(a) /\ s[i] = a[i]
  BY <1>1
<1>3. \A j \in 1 .. Len(q) : /\ Len(a) + j \in 1 .. Len(s) /\ ~(Len(a) + j <= Len(a))
                             /\ s[Len(a) + j] = q[j]
  <2> TAKE j \in 1 .. Len(q)
  <2>1. /\ Len(a) + j \in 1 .. Len(a) + Len(q) /\ ~(Len(a) + j <= Len(a))
        /\ (Len(a) + j) - Len(a) = j
    BY <1>1
  <2> QED
    BY <1>1, <2>1
<1>4. \A i \in 1 .. Len(s) : \/ i \in 1 .. Len(a)
                             \/ ~(i <= Len(a)) /\ i - Len(a) \in 1 .. Len(q)
                                /\ Len(a) + (i - Len(a)) = i
  BY <1>1
<1>5. ASSUME Rising(s)
      PROVE  /\ Rising(a) /\ Rising(q)
             /\ \A i \in 1 .. Len(a) : \A j \in 1 .. Len(q) :
                  a[i].type # NONE /\ q[j].type # NONE => a[i].hdr < q[j].hdr
  <2>1. Rising(a)
    BY <1>2, <1>5 DEF Rising
  <2>2. Rising(q)
    <3> SUFFICES ASSUME NEW i \in 1 .. Len(q), NEW j \in 1 .. Len(q), i < j,
                        q[i].type # NONE, q[j].type # NONE
                 PROVE  q[i].hdr < q[j].hdr
      BY DEF Rising
    <3>1. Len(a) + i < Len(a) + j
      BY <1>1
    <3> QED
      BY <1>3, <1>5, <3>1 DEF Rising
  <2>3. ASSUME NEW i \in 1 .. Len(a), NEW j \in 1 .. Len(q),
               a[i].type # NONE, q[j].type # NONE
        PROVE  a[i].hdr < q[j].hdr
    <3>1. PICK m : m = Len(a) + j
      OBVIOUS
    <3>2. i \in 1 .. Len(s) /\ s[i] = a[i] /\ m \in 1 .. Len(s) /\ s[m] = q[j]
      BY <1>2, <1>3, <3>1
    <3>3. i < m
      BY <1>1, <3>1
    <3> QED
      BY <1>5, <2>3, <3>2, <3>3 DEF Rising
  <2> QED
    BY <2>1, <2>2, <2>3
<1>6. ASSUME Rising(a), Rising(q),
             \A i \in 1 .. Len(a) : \A j \in 1 .. Len(q) :
               a[i].type # NONE /\ q[j].type # NONE => a[i].hdr < q[j].hdr
      PROVE  Rising(s)
  <2> SUFFICES ASSUME NEW i \in 1 .. Len(s), NEW j \in 1 .. Len(s), i < j,
                      s[i].type # NONE, s[j].type # NONE
               PROVE  s[i].hdr < s[j].hdr
    BY DEF Rising
  <2>1. CASE j \in 1 .. Len(a)
    <3>1. i \in 1 .. Len(a)
      BY <1>1, <2>1
    <3> QED
      BY <1>2, <1>6, <2>1, <3>1 DEF Rising
  <2>2. CASE j - Len(a) \in 1 .. Len(q) /\ Len(a) + (j - Len(a)) = j
    <3>1. s[j] = q[j - Len(a)]
      BY <1>3, <2>2
    <3>2. CASE i \in 1 .. Len(a)
      BY <1>2, <1>6, <2>2, <3>1, <3>2
    <3>3. CASE i - Len(a) \in 1 .. Len(q) /\ Len(a) + (i - Len(a)) = i
      <4>1. s[i] = q[i - Len(a)]
        BY <1>3, <3>3
      <4>2. i - Len(a) < j - Len(a)
        BY <1>1
      <4> QED
        BY <1>6, <2>2, <3>1, <3>3, <4>1, <4>2 DEF Rising
    <3> QED
      BY <1>4, <3>2, <3>3
  <2> QED
    BY <1>4, <2>1, <2>2
<1> QED
  BY <1>5, <1>6 DEF s

\* A packet is put between those with smaller headers and those with larger ones.
LEMMA InsertedRises ==
  ASSUME NEW s \in Seq(Packet), Rising(s), NEW x, NEW t, NEW k, Inserted(t, s, x, k),
         \A i \in 1 .. Len(s) :
           s[i].type # NONE => IF i < k THEN s[i].hdr < x.hdr ELSE x.hdr < s[i].hdr
  PROVE  Rising(t)
<1>1. \A j \in 1 .. Len(t) :
           \/ j = k /\ t[j] = x
           \/ j < k /\ j \in 1 .. Len(s) /\ t[j] = s[j]
           \/ k < j /\ j - 1 \in 1 .. Len(s) /\ t[j] = s[j - 1]
  BY InsertedPlaces
<1>2. k \in Nat /\ Len(t) \in Nat /\ Len(s) \in Nat
  BY LenProperties DEF Inserted
<1> SUFFICES ASSUME NEW i \in 1 .. Len(t), NEW j \in 1 .. Len(t), i < j,
                    t[i].type # NONE, t[j].type # NONE
             PROVE  t[i].hdr < t[j].hdr
  BY DEF Rising
<1>3. CASE j = k
  <2>1. i < k /\ ~(i = k) /\ ~(k < i)
    BY ONLY <1>2, <1>3, i < j, i \in 1 .. Len(t)
  <2>2. t[j] = x /\ i \in 1 .. Len(s) /\ t[i] = s[i]
    BY <1>1, <1>2, <1>3, <2>1
  <2> QED
    BY <2>1, <2>2
<1>4. CASE i = k
  <2>1. t[i] = x /\ j - 1 \in 1 .. Len(s) /\ t[j] = s[j - 1] /\ ~(j - 1 < k)
    BY <1>1, <1>2, <1>4
  <2> QED
    BY <2>1
<1>5. CASE i # k /\ j # k
  <2>1. PICK m \in 1 .. Len(s) : t[i] = s[m] /\ m = IF i < k THEN i ELSE i - 1
    BY <1>1, <1>2, <1>5
  <2>2. PICK n \in 1 .. Len(s) : t[j] = s[n] /\ n = IF j < k THEN j ELSE j - 1
    BY <1>1, <1>2, <1>5
  <2>3. m < n
    BY ONLY <1>2, <1>5, <2>1, <2>2, i < j, i \in 1 .. Len(t), j \in 1 .. Len(t)
  <2> QED
    BY <2>1, <2>2, <2>3 DEF Rising
<1> QED
  BY <1>3, <1>4, <1>5

\* A data packet as it was sent, or rebuilt.
Decoded(x) == x \in Packet /\ x.type \in {DATA, RECOVERED} /\ Numbered(x)
\* What is released, a, is of round rid and older ones, or small.
OutPast(a, rid) ==
  \A i \in 1 .. Len(a) : \/ a[i].type = NONE /\ a[i].hdr = 0
                         \/ Decoded(a[i]) /\ a[i].rid <= rid
\* What may be held in round rid: a data packet if StoreMode is on, and, when the
\* encoder is in a later round, last, a lost packet that was rebuilt.
Holdable(x, rid, lst, last) ==
  /\ Decoded(x) /\ x.rid = rid
  /\ x.type = DATA => StoreMode
  /\ x.type = RECOVERED =>
       rid < last /\ \E y \in lst : y.type = DATA /\ y.hdr = x.hdr /\ y.rid = rid
LostIn(lst, rid) == \E x \in lst : x.type = DATA /\ x.rid = rid
\* A lost packet that can be rebuilt is behind all that is released.
Repairable(a, q, rid, lst) ==
  \A x \in lst : x.type = DATA /\ x.rid = rid /\ x.hdr \notin Headers(a \o q) =>
    \A h \in Headers(a) : h < x.hdr
\* All of this, for what is released and held, a and q, in round rid.  Nothing can
\* be rebuilt any more if the round is not live.
HeldOf(a, q, rid, lst, last, live) ==
  /\ OutPast(a, rid) /\ (\A i \in 1 .. Len(q) : Holdable(q[i], rid, lst, last))
  /\ q # <<>> => LostIn(lst, rid)
  /\ StoreMode => Rising(a \o q) /\ (live /\ ~GivenUp(lst, rid) => Repairable(a, q, rid, lst))

\* The transit queue is released.
LEMMA QueueReleased ==
  ASSUME NEW a \in Seq(Packet), NEW q \in Seq(Packet), NEW rid, NEW lst, NEW last, NEW live,
         HeldOf(a, q, rid, lst, last, live), rid \in Nat, GivenUp(lst, rid) \/ ~live
  PROVE  HeldOf(a \o q, <<>>, rid, lst, last, live)
<1>1. /\ Len(a) \in Nat /\ Len(q) \in Nat /\ a \o q \in Seq(Packet)
      /\ Len(a \o q) = Len(a) + Len(q)
      /\ \A i \in 1 .. Len(a) + Len(q) :
           (a \o q)[i] = IF i <= Len(a) THEN a[i] ELSE q[i - Len(a)]
  BY LenProperties, ConcatProperties
<1> DEFINE s == a \o q
<1>2. s \o <<>> = s
  BY <1>1, ConcatEmptySeq
<1>3. OutPast(s, rid)
  <2> SUFFICES ASSUME NEW i \in 1 .. Len(s)
               PROVE  (s[i].type = NONE /\ s[i].hdr = 0) \/ (Decoded(s[i]) /\ s[i].rid <= rid)
    BY DEF OutPast
  <2>1. \/ i \in 1 .. Len(a) /\ s[i] = a[i]
        \/ i - Len(a) \in 1 .. Len(q) /\ s[i] = q[i - Len(a)]
    BY <1>1
  <2> HIDE DEF s
  <2>2. \A j \in 1 .. Len(q) : Decoded(q[j]) /\ q[j].rid <= rid
    BY DEF HeldOf, Holdable
  <2> QED
    BY <2>1, <2>2 DEF HeldOf, OutPast
<1>4. \A x \in 1 .. Len(<<>>) : FALSE
  OBVIOUS
<1>5. StoreMode => Rising(s)
  BY DEF HeldOf
<1> HIDE DEF s
<1> QED
  BY <1>2, <1>3, <1>4, <1>5 DEF HeldOf, s

\* A packet is held.
LEMMA OneHeld ==
  ASSUME NEW a \in Seq(Packet), NEW q \in Seq(Packet), NEW rid, NEW lst, NEW last, NEW live,
         HeldOf(a, q, rid, lst, last, live), NEW x \in Packet, Holdable(x, rid, lst, last),
         LostIn(lst, rid), x.hdr \notin Headers(a \o q),
         StoreMode => \A h \in Headers(a) : h < x.hdr
  PROVE  HeldOf(a, InsertTransitQueue(q, x), rid, lst, last, live)
<1>1. PICK t, k : /\ t = InsertTransitQueue(q, x) /\ Inserted(t, q, x, k)
                  /\ \A i \in 1 .. Len(q) : i < k => ~(q[i].serial > x.serial)
                  /\ k \in 1 .. Len(q) => q[k].serial > x.serial
  BY TransitInsert
<1>2. /\ t \in Seq(Packet) /\ Len(q) \in Nat /\ k \in 1 .. Len(q) + 1 /\ Len(a) \in Nat
  BY <1>1, LenProperties DEF Inserted
<1>3. \A j \in 1 .. Len(t) : t[j] = x \/ \E i \in 1 .. Len(q) : t[j] = q[i]
  BY <1>1, InsertedPlaces
<1>4. \A j \in 1 .. Len(t) : Holdable(t[j], rid, lst, last)
  BY <1>3 DEF HeldOf
<1>5. /\ Headers(t) = Headers(q) \cup ({x.hdr} \ {0})
      /\ Headers(a \o t) = Headers(a) \cup Headers(t)
      /\ Headers(a \o q) = Headers(a) \cup Headers(q)
  <2>1. Headers(t) = Headers(q) \cup ({x.hdr} \ {0})
    BY <1>1, InsertedHeaders
  <2>2. Headers(a \o t) = Headers(a) \cup Headers(t)
    BY <1>2, JoinHeaders
  <2>3. Headers(a \o q) = Headers(a) \cup Headers(q)
    BY JoinHeaders
  <2> QED
    BY <2>1, <2>2, <2>3
<1>6. ASSUME StoreMode, live, ~GivenUp(lst, rid) PROVE Repairable(a, t, rid, lst)
  BY <1>5, <1>6 DEF HeldOf, Repairable
<1>7. ASSUME StoreMode PROVE Rising(a \o t)
  <2>1. /\ Rising(a) /\ Rising(q)
        /\ \A i \in 1 .. Len(a) : \A j \in 1 .. Len(q) :
             a[i].type # NONE /\ q[j].type # NONE => a[i].hdr < q[j].hdr
    <3>1. Rising(a \o q)
      BY <1>7 DEF HeldOf
    <3> QED
      BY <3>1, RisingJoin
  <2>2. \A i \in 1 .. Len(q) : /\ q[i] \in Packet /\ Numbered(q[i]) /\ q[i].rid = x.rid
                               /\ q[i].type # NONE /\ q[i].serial \in Nat
    <3> TAKE i \in 1 .. Len(q)
    <3>1. PICK y : y = q[i]
      OBVIOUS
    <3>2. Decoded(y) /\ y.rid = x.rid
      BY <3>1 DEF HeldOf, Holdable
    <3>3. y.type # NONE
      BY <3>2 DEF Decoded, NONE, DATA, RECOVERED
    <3>4. y.serial \in Nat
      BY <3>2 DEF Decoded, Packet
    <3> QED
      BY <3>1, <3>2, <3>3, <3>4 DEF Decoded
  <2>3. Numbered(x) /\ x.serial \in Nat
    BY DEF Holdable, Decoded, Packet
  <2>4. ASSUME NEW i \in 1 .. Len(q)
        PROVE  /\ q[i].hdr < x.hdr <=> q[i].serial < x.serial
               /\ x.hdr < q[i].hdr <=> x.serial < q[i].serial
               /\ q[i].serial # x.serial
    <3>1. PICK y : y = q[i]
      OBVIOUS
    <3>2. y \in Packet /\ Numbered(y) /\ y.rid = x.rid
      BY <2>2, <3>1
    <3>3. /\ y.hdr < x.hdr <=> y.serial < x.serial
          /\ x.hdr < y.hdr <=> x.serial < y.serial
      BY <2>3, <3>2, NumberOrder
    <3>4. y.serial # x.serial
      <4>1. y.hdr # x.hdr
        <5>1. y.hdr # 0
          BY <2>3, <3>2, NumberOrder
        <5>2. y.hdr \in Headers(q)
          BY <3>1, <5>1, HeaderOf
        <5> QED
          BY <1>5, <5>2
      <4> QED
        BY <2>3, <3>2, <4>1 DEF Numbered
    <3> QED
      BY <3>1, <3>3, <3>4
  <2>5. ASSUME NEW i \in 1 .. Len(q), i < k PROVE q[i].hdr < x.hdr
    <3>1. ~(q[i].serial > x.serial)
      BY <1>1, <2>5
    <3> QED
      BY <2>2, <2>3, <2>4, <3>1
  <2>6. ASSUME NEW i \in 1 .. Len(q), ~(i < k) PROVE x.hdr < q[i].hdr
    <3>1. k \in 1 .. Len(q) /\ (k = i \/ k < i)
      BY <1>2, <2>6
    <3>2. x.hdr < q[k].hdr
      BY <1>1, <2>2, <2>3, <2>4, <3>1
    <3>3. CASE k < i
      <4>1. q[k].hdr < q[i].hdr
        BY <2>1, <2>2, <3>1, <3>3 DEF Rising
      <4>2. q[k].hdr \in Nat /\ q[i].hdr \in Nat /\ x.hdr \in Nat
        BY <2>2, <3>1 DEF Packet
      <4> QED
        BY <3>2, <4>1, <4>2
    <3> QED
      BY <3>1, <3>2, <3>3
  <2>7. Rising(t)
    BY <1>1, <2>1, <2>5, <2>6, InsertedRises
  <2>8. \A i \in 1 .. Len(a) : \A j \in 1 .. Len(t) :
          a[i].type # NONE /\ t[j].type # NONE => a[i].hdr < t[j].hdr
    <3>1. ASSUME NEW i \in 1 .. Len(a), a[i].type # NONE PROVE a[i].hdr < x.hdr
      <4>1. OutPast(a, rid)
        BY DEF HeldOf
      <4>2. Decoded(a[i])
        BY <3>1, <4>1 DEF OutPast
      <4>3. a[i].hdr # 0
        BY <2>3, <4>2, NumberOrder DEF Decoded
      <4>4. a[i].hdr \in Headers(a)
        BY <4>3, HeaderOf
      <4> QED
        BY <1>7, <4>4
    <3> QED
      BY <1>3, <2>1, <3>1
  <2> QED
    BY <1>2, <2>1, <2>7, <2>8, RisingJoin
<1>8. HeldOf(a, t, rid, lst, last, live)
  <2>1. OutPast(a, rid)
    BY DEF HeldOf
  <2> QED
    BY <1>4, <1>6, <1>7, <2>1 DEF HeldOf
<1> QED
  BY <1>1, <1>8

\* A packet is released in front of what is held, and behind all that was before.
LEMMA OneReleased ==
  ASSUME NEW a \in Seq(Packet), NEW q \in Seq(Packet), NEW rid \in Nat, NEW lst, NEW last,
         NEW live, HeldOf(a, q, rid, lst, last, live), NEW p \in Packet, Decoded(p), p.rid = rid,
         \A h \in Headers(a \o q) : h < p.hdr,
         StoreMode => q = <<>> /\ (live => GivenUp(lst, rid) \/ ~LostIn(lst, rid))
  PROVE  HeldOf(a \o <<p>>, q, rid, lst, last, live)
<1>1. /\ Len(a) \in Nat /\ <<p>> \in Seq(Packet) /\ Len(<<p>>) = 1 /\ <<p>>[1] = p
  BY LenProperties
<1>2. /\ a \o <<p>> \in Seq(Packet) /\ Len(a \o <<p>>) = Len(a) + 1
      /\ \A i \in 1 .. Len(a) + 1 :
           (a \o <<p>>)[i] = IF i <= Len(a) THEN a[i] ELSE <<p>>[i - Len(a)]
  BY <1>1, ConcatProperties
<1> DEFINE s == a \o <<p>>
<1>3. \A i \in 1 .. Len(s) : (i \in 1 .. Len(a) /\ s[i] = a[i]) \/ s[i] = p
  <2> TAKE i \in 1 .. Len(s)
  <2>1. i \in 1 .. Len(a) \/ (~(i <= Len(a)) /\ i - Len(a) = 1)
    BY <1>1, <1>2
  <2> QED
    BY <1>1, <1>2, <2>1
<1>4. OutPast(s, rid)
  <2>1. OutPast(a, rid)
    BY DEF HeldOf
  <2>2. p.rid <= rid
    OBVIOUS
  <2> HIDE DEF s
  <2> QED
    BY <1>3, <2>1, <2>2 DEF OutPast
<1>5. ASSUME StoreMode PROVE Rising(s)
  <2>1. Rising(a)
    <3>1. Rising(a \o q)
      BY <1>5 DEF HeldOf
    <3> QED
      BY <3>1, RisingJoin
  <2>2. Rising(<<p>>)
    <3>1. \A i, j \in 1 .. 1 : ~(i < j)
      OBVIOUS
    <3> QED
      BY <1>1, <3>1 DEF Rising
  <2>3. ASSUME NEW i \in 1 .. Len(a), a[i].type # NONE PROVE a[i].hdr < p.hdr
    <3>1. OutPast(a, rid)
      BY DEF HeldOf
    <3>2. Decoded(a[i])
      BY <2>3, <3>1 DEF OutPast
    <3>3. a[i].hdr # 0
      BY <3>2, NumberOrder DEF Decoded
    <3>4. a[i].hdr \in Headers(a)
      BY <3>3, HeaderOf
    <3>5. Headers(a \o q) = Headers(a) \cup Headers(q)
      BY JoinHeaders
    <3> QED
      BY <3>4, <3>5
  <2>4. \A i \in 1 .. Len(a) : \A j \in 1 .. Len(<<p>>) :
          a[i].type # NONE /\ <<p>>[j].type # NONE => a[i].hdr < <<p>>[j].hdr
    BY <1>1, <2>3
  <2> QED
    BY <1>1, <2>1, <2>2, <2>4, RisingJoin
<1>6. ASSUME StoreMode PROVE Rising(s \o q)
  <2>1. s \o q = s
    BY <1>2, <1>6, ConcatEmptySeq
  <2> QED
    BY <1>5, <1>6, <2>1
<1>7. ASSUME StoreMode, live, ~GivenUp(lst, rid) PROVE Repairable(s, q, rid, lst)
  BY <1>7 DEF Repairable, LostIn
<1> HIDE DEF s
<1>8. (\A i \in 1 .. Len(q) : Holdable(q[i], rid, lst, last)) /\ (q # <<>> => LostIn(lst, rid))
  BY DEF HeldOf
<1> QED
  BY <1>4, <1>6, <1>7, <1>8 DEF HeldOf, s

\* The invariant: the decoder's round is none that has left the path behind, and
\* it is live as long as it is in the round table.
HeldInv ==
  /\ rid_ <= m_roundId
  /\ \A m \in 1 .. Len(link) : link[m].type # NONE => rid_ <= link[m].rid
  /\ HeldOf(out, tq_, rid_, lost, m_roundId, rt_ # <<>> /\ rt_[1].rid <= rid_)

\* The packet at the head is of a round in the table.
LEMMA HeadIsLive ==
  ASSUME IInv, AskInv, Idle, link # <<>>, NEW p, p = Head(link), p.type # NONE
  PROVE  /\ rt_ # <<>> /\ rt_[1].rid <= p.rid
         /\ p.rid \in Nat /\ p.rid <= m_roundId /\ (p.type = REDUNDANT => p.rid < m_roundId)
         /\ \A m \in 1 .. Len(link) : link[m].type # NONE => p.rid <= link[m].rid
<1>1. HeadFound(p)
  BY HeadRecorded DEF IInv
<1>2. PICK n \in 1 .. Len(rt_) : p.rid = (m_roundId - Len(rt_)) + n
  BY <1>1 DEF HeadFound
<1>3. link \in Seq(Packet) /\ rt_ \in Seq(RoundFecTable) /\ m_roundId \in Nat /\ Len(rt_) \in Nat
  BY LenProperties DEF IInv, TypeOK
<1>4. Rounds(rt_, m_roundId - Len(rt_))
  BY RoundsNow
<1>5. rt_ # <<>> /\ rt_[1].rid = (m_roundId - Len(rt_)) + 1
  <2>1. 1 \in 1 .. Len(rt_) /\ rt_ # <<>>
    BY <1>2, <1>3
  <2> QED
    BY <1>4, <2>1 DEF Rounds
<1>6. rt_[1].rid <= p.rid /\ p.rid <= m_roundId
  <2>1. PICK k, l, r, s :
          k = m_roundId /\ l = Len(rt_) /\ r = p.rid /\ s = rt_[1].rid
    OBVIOUS
  <2>2. k \in Nat /\ l \in Nat /\ n \in 1 .. l /\ r = (k - l) + n /\ s = (k - l) + 1
    BY <1>2, <1>3, <1>5, <2>1
  <2>3. s <= r /\ r <= k
    BY ONLY <2>2
  <2> QED
    BY <2>1, <2>3
<1>7. p \in Packet /\ p.rid \in Nat
  <2>1. p \in Packet
    BY HeadTypes
  <2> QED
    BY <2>1 DEF Packet
<1>8. ASSUME NEW m \in 1 .. Len(link), link[m].type # NONE PROVE p.rid <= link[m].rid
  <2>1. Len(link) \in Nat /\ 1 \in 1 .. Len(link) /\ link[1] = p
    BY <1>3, EmptySeq, LenProperties
  <2>2. CASE m = 1
    BY <1>7, <2>1, <2>2
  <2>3. CASE 1 < m
    BY <1>8, <2>1, <2>3 DEF IInv, TablesCoverPath, Ordered, Before
  <2> QED
    BY <2>1, <2>2, <2>3
<1>9. p.type = REDUNDANT => p.rid < m_roundId
  BY <1>1 DEF HeadFound
<1> QED
  BY <1>5, <1>6, <1>7, <1>8, <1>9

\* What is released when the packet at the head comes, and what waits for it.
LEMMA Ready ==
  ASSUME IInv, AskInv, DeliverInv, NumberInv, HeldInv, Idle, link # <<>>,
         NEW p, p = Head(link), p.type # NONE
  PROVE  HeldOf(Released(p), Waiting(p), p.rid, lost, m_roundId, TRUE)
<1>1. /\ rt_ # <<>> /\ rt_[1].rid <= p.rid /\ p.rid \in Nat
  BY HeadIsLive
<1>2. /\ out \in Seq(Packet) /\ tq_ \in Seq(Packet) /\ rid_ \in Nat /\ out \o tq_ \in Seq(Packet)
      /\ lost \subseteq Packet
  BY QueuesNow DEF IInv, TypeOK
<1>3. rid_ <= p.rid
  <2>1. link \in Seq(Packet) /\ Len(link) \in Nat /\ 1 \in 1 .. Len(link) /\ link[1] = p
    BY EmptySeq, LenProperties DEF IInv, TypeOK
  <2> QED
    BY <2>1 DEF HeldInv
<1>4. HeldOf(out, tq_, rid_, lost, m_roundId, rt_ # <<>> /\ rt_[1].rid <= rid_)
  BY DEF HeldInv
<1>5. CASE rid_ < p.rid
  <2> DEFINE s == out \o tq_
  <2>1. Released(p) = s /\ Waiting(p) = <<>>
    BY <1>5 DEF Released, Waiting
  <2>2. s \o <<>> = s
    BY <1>2, ConcatEmptySeq
  <2>3. \A i \in 1 .. Len(s) : \/ s[i].type = NONE /\ s[i].hdr = 0
                               \/ Decoded(s[i]) /\ s[i].rid <= rid_
    <3>1. /\ Len(out) \in Nat /\ Len(tq_) \in Nat /\ Len(s) = Len(out) + Len(tq_)
          /\ \A i \in 1 .. Len(out) + Len(tq_) :
               s[i] = IF i <= Len(out) THEN out[i] ELSE tq_[i - Len(out)]
      BY <1>2, LenProperties, ConcatProperties
    <3> HIDE DEF s
    <3>2. \A i \in 1 .. Len(s) : \/ i \in 1 .. Len(out) /\ s[i] = out[i]
                                 \/ i - Len(out) \in 1 .. Len(tq_) /\ s[i] = tq_[i - Len(out)]
      BY <3>1
    <3>3. \A j \in 1 .. Len(tq_) : Decoded(tq_[j]) /\ tq_[j].rid <= rid_
      BY <1>2, <1>4 DEF HeldOf, Holdable
    <3> QED
      BY <1>4, <3>2, <3>3 DEF HeldOf, OutPast
  <2> HIDE DEF s
  <2>4. OutPast(s, p.rid)
    <3> SUFFICES ASSUME NEW i \in 1 .. Len(s), Decoded(s[i]), s[i].rid <= rid_
                 PROVE  s[i].rid <= p.rid
      BY <2>3 DEF OutPast
    <3>1. s[i].rid \in Nat
      BY DEF Decoded, Packet
    <3> QED
      BY <1>1, <1>2, <1>3, <3>1
  <2>5. StoreMode => Rising(s)
    BY <1>4 DEF HeldOf, s
  <2>6. Repairable(s, <<>>, p.rid, lost)
    <3> SUFFICES ASSUME NEW x \in lost, x.type = DATA, x.rid = p.rid, NEW h \in Headers(s)
                 PROVE  h < x.hdr
      BY DEF Repairable
    <3>1. PICK i \in 1 .. Len(s) : s[i].hdr = h /\ h # 0
      BY <1>2, HeaderOf DEF s
    <3>2. PICK y : y = s[i]
      OBVIOUS
    <3>3. Decoded(y) /\ y.rid <= rid_
      BY <2>3, <3>1, <3>2
    <3>4. y \in Packet /\ Numbered(y) /\ y.rid \in Nat
      BY <3>3 DEF Decoded, Packet
    <3>5. x \in Packet /\ Numbered(x)
      BY <1>2 DEF NumberInv, LostPlaced, Placed
    <3>6. y.rid < x.rid
      BY <1>1, <1>2, <1>5, <3>3, <3>4
    <3> QED
      BY <3>1, <3>2, <3>4, <3>5, <3>6, NumberOrder
  <2>7. HeldOf(s, <<>>, p.rid, lost, m_roundId, TRUE)
    <3>1. \A i \in 1 .. Len(<<>>) : FALSE
      OBVIOUS
    <3> QED
      BY <2>2, <2>4, <2>5, <2>6, <3>1 DEF HeldOf
  <2> QED
    BY <2>1, <2>7
<1>6. CASE ~(rid_ < p.rid)
  <2>1. rid_ = p.rid
    BY <1>1, <1>2, <1>3, <1>6
  <2>2. Released(p) = out /\ Waiting(p) = tq_
    BY <1>6 DEF Released, Waiting
  <2>3. rt_ # <<>> /\ rt_[1].rid <= rid_
    BY <1>1, <2>1
  <2> QED
    BY <1>4, <2>1, <2>2, <2>3 DEF HeldOf
<1> QED
  BY <1>5, <1>6

-----------------------------------------------------------------------------
(* What IpForward does to the packets held *)

\* What IpForward forwards and what it holds: a and q are released and held before.
Queued(p, r, a, q) ==
  /\ p.type = DATA =>
       /\ r.flag = 1 => out' = a /\ tq_' = InsertTransitQueue(q, p)
       /\ r.flag = 2 => out' = (a \o q) \o <<p>> /\ tq_' = <<>>
       /\ r.flag = 0 => out' = a \o <<p>> /\ tq_' = q
  /\ p.type = REDUNDANT =>
       /\ r.tq = (IF r.recovered = <<>> THEN q
                  ELSE InsertTransitQueue(q, RecoveryPacket(p, r.recovered[1])))
       /\ r.flag = 2 => out' = a \o r.tq /\ tq_' = <<>>
       /\ r.flag # 2 => out' = a /\ tq_' = r.tq

\* It does just that.
LEMMA IpForwardQueues ==
  ASSUME IInv, IpForward, NEW p, p = Head(link), NEW r, r = Recv(Waiting(p), p)
  PROVE  Queued(p, r, Released(p), Waiting(p)) /\ r.flag \in {0, 1, 2} /\ r.tq \in Seq(Packet)
<1> DEFINE a == Released(p)
           q == Waiting(p)
<1>1. /\ link # <<>> /\ p.type # NONE /\ Idle
      /\ tq_' = IF r.flag = 2 THEN <<>> ELSE r.tq
      /\ out' = a \o (IF r.flag = 2 THEN r.tq ELSE <<>>)
                  \o (IF r.flag # 1 /\ p.type # REDUNDANT THEN <<p>> ELSE <<>>)
  BY DEF IpForward, Released, Waiting
<1>2. a \in Seq(Packet) /\ q \in Seq(Packet)
  BY IpForwardHandles
<1>3. r.tq \in Seq(Packet)
  BY <1>1, <1>2, RecvTables DEF IInv
<1>4. /\ r.flag \in {0, 1, 2}
      /\ p.type = DATA => r.tq = IF r.flag = 1 THEN InsertTransitQueue(q, p) ELSE q
      /\ p.type = REDUNDANT =>
           r.tq = IF r.recovered = <<>> THEN q
                  ELSE InsertTransitQueue(q, RecoveryPacket(p, r.recovered[1]))
  BY RecvAnswers
<1> DEFINE free == IF r.flag = 2 THEN r.tq ELSE <<>>
           last == IF r.flag # 1 /\ p.type # REDUNDANT THEN <<p>> ELSE <<>>
<1>5. out' = (a \o free) \o last
  BY <1>1
<1> HIDE DEF a, q
<1>6. /\ a \o <<>> = a
      /\ a \o r.tq \in Seq(Packet) /\ (a \o r.tq) \o <<>> = a \o r.tq
  <2>1. a \o <<>> = a
    BY <1>2, ConcatEmptySeq
  <2>2. a \o r.tq \in Seq(Packet)
    BY <1>2, <1>3, ConcatProperties
  <2>3. (a \o r.tq) \o <<>> = a \o r.tq
    BY <2>2, ConcatEmptySeq
  <2> QED
    BY <2>1, <2>2, <2>3
<1>7. /\ r.flag = 2 => free = r.tq
      /\ r.flag # 2 => free = <<>>
      /\ r.flag # 1 /\ p.type # REDUNDANT => last = <<p>>
      /\ r.flag = 1 \/ p.type = REDUNDANT => last = <<>>
  OBVIOUS
<1> HIDE DEF free, last
<1>8. ASSUME p.type = DATA
      PROVE  /\ r.flag = 1 => out' = a /\ tq_' = InsertTransitQueue(q, p)
             /\ r.flag = 2 => out' = (a \o q) \o <<p>> /\ tq_' = <<>>
             /\ r.flag = 0 => out' = a \o <<p>> /\ tq_' = q
  <2>1. p.type # REDUNDANT
    BY <1>8 DEF DATA, REDUNDANT
  <2>2. CASE r.flag = 1
    <3>1. free = <<>> /\ last = <<>>
      BY <1>7, <2>2
    <3>2. out' = a
      BY <1>5, <1>6, <3>1
    <3>3. tq_' = InsertTransitQueue(q, p)
      BY <1>1, <1>4, <1>8, <2>2
    <3> QED
      BY <2>2, <3>2, <3>3
  <2>3. CASE r.flag = 2
    <3>1. r.flag # 1
      BY <2>3
    <3>2. r.tq = q
      BY <1>4, <1>8, <3>1
    <3>3. free = q /\ last = <<p>>
      BY <1>7, <2>1, <2>3, <3>1, <3>2
    <3>4. out' = (a \o q) \o <<p>>
      BY <1>5, <3>3
    <3>5. tq_' = <<>>
      BY <1>1, <2>3
    <3> QED
      BY <2>3, <3>1, <3>4, <3>5
  <2>4. CASE r.flag = 0
    <3>1. free = <<>> /\ last = <<p>>
      BY <1>7, <2>1, <2>4
    <3>2. out' = a \o <<p>>
      BY <1>5, <1>6, <3>1
    <3>3. tq_' = q
      BY <1>1, <1>4, <1>8, <2>4
    <3> QED
      BY <2>4, <3>2, <3>3
  <2> QED
    BY <2>2, <2>3, <2>4
<1>9. ASSUME p.type = REDUNDANT
      PROVE  /\ r.flag = 2 => out' = a \o r.tq /\ tq_' = <<>>
             /\ r.flag # 2 => out' = a /\ tq_' = r.tq
  <2>1. last = <<>>
    BY <1>7, <1>9
  <2>2. CASE r.flag = 2
    <3>1. free = r.tq
      BY <1>7, <2>2
    <3>2. out' = a \o r.tq
      BY <1>5, <1>6, <2>1, <3>1
    <3> QED
      BY <1>1, <2>2, <3>2
  <2>3. CASE r.flag # 2
    <3>1. free = <<>>
      BY <1>7, <2>3
    <3>2. out' = a
      BY <1>5, <1>6, <2>1, <3>1
    <3> QED
      BY <1>1, <2>3, <3>2
  <2> QED
    BY <2>2, <2>3
<1> QED
  BY <1>3, <1>4, <1>8, <1>9 DEF Queued, a, q

\* A round that is no longer live asks for less.
LEMMA HeldAnyway ==
  ASSUME NEW a, NEW q, NEW rid, NEW lst, NEW last, HeldOf(a, q, rid, lst, last, TRUE), NEW live
  PROVE  HeldOf(a, q, rid, lst, last, live)
BY DEF HeldOf

\* Packet p is at the head of the path, and Recv has answered r: what IpForward
\* does then, and what is released and held before it, a and q.
Holding(p, r, a, q) ==
  /\ IInv /\ AskInv /\ LossInv /\ DeliverInv /\ NumberInv
  /\ Idle /\ link # <<>> /\ p = Head(link) /\ p \in Packet /\ p.rid \in Nat
  /\ a \in Seq(Packet) /\ q \in Seq(Packet) /\ a \o q \in Seq(Packet)
  /\ HeldOf(a, q, p.rid, lost, m_roundId, TRUE)
  /\ Headers(a \o q) = Kept /\ Headers(a) \subseteq Kept
  /\ Placed(p) /\ lost \subseteq Packet /\ PastBelow(lost, Kept, link)
  /\ Decided(r, p) /\ Queued(p, r, a, q) /\ r.flag \in {0, 1, 2}

\* The packet at the head is behind all that has left the path.
LEMMA HeadIsLast ==
  ASSUME NEW p, NEW r, NEW a, NEW q, Holding(p, r, a, q), p.type = DATA
  PROVE  Decoded(p) /\ \A h \in DataHdrs(lost) \cup Kept : h < p.hdr
<1>1. link \in Seq(Packet) /\ 1 \in 1 .. Len(link) /\ link[1] = p
  BY EmptySeq, LenProperties DEF Holding, IInv, TypeOK
<1>2. p \in Packet /\ Placed(p) /\ PastBelow(lost, Kept, link)
  BY DEF Holding
<1> QED
  BY <1>1, <1>2 DEF PastBelow, Decoded, Placed

\* Nothing is held when Recv lets a data packet pass and StoreMode is on.
LEMMA NothingHeld ==
  ASSUME NEW p, NEW r, NEW a, NEW q, Holding(p, r, a, q), p.type = DATA, r.flag = 0, StoreMode
  PROVE  ~LostIn(lost, p.rid) /\ q = <<>>
<1>1. Decoded(p) /\ \A h \in DataHdrs(lost) \cup Kept : h < p.hdr
  BY HeadIsLast
<1>2. ASSUME LostIn(lost, p.rid) PROVE FALSE
  <2>1. PICK x \in lost : x.type = DATA /\ x.rid = p.rid
    BY <1>2 DEF LostIn
  <2>2. x \in Packet /\ Numbered(x) /\ x.hdr < p.hdr
    <3>1. x.hdr \in DataHdrs(lost)
      BY <2>1 DEF DataHdrs
    <3> QED
      BY <1>1, <2>1, <3>1 DEF Holding, NumberInv, LostPlaced, Placed
  <2>3. x.serial < p.serial
    BY <1>1, <2>1, <2>2, NumberOrder DEF Decoded
  <2> QED
    BY <2>1, <2>3 DEF Holding, Decided
<1> QED
  BY <1>2 DEF Holding, HeldOf

\* A data packet is held, or released.
LEMMA DataHolds ==
  ASSUME NEW p, NEW r, NEW a, NEW q, Holding(p, r, a, q), p.type = DATA,
         NEW live, r.flag = 2 => GivenUp(lost, p.rid) \/ ~live
  PROVE  HeldOf(out', tq_', p.rid, lost, m_roundId, live)
<1> USE DEF Holding
<1>1. Decoded(p)
  BY HeadIsLast
<1>2. \A h \in DataHdrs(lost) \cup Kept : h < p.hdr
  BY HeadIsLast
<1>3. p.hdr \in Nat
  BY DEF Packet
<1>4. HeldOf(a, q, p.rid, lost, m_roundId, live)
  BY HeldAnyway
<1>5. CASE r.flag = 1
  <2>1. PICK x \in lost : x.rid = p.rid /\ x.serial < p.serial
    BY <1>5 DEF Decided
  <2>2. x.type = DATA
    <3> SUFFICES ASSUME x.type = REDUNDANT PROVE FALSE
      BY DEF NumberInv, LostPlaced
    <3>1. x.serial > LastData /\ x.serial \in Nat
      BY DEF NumberInv, LostPlaced, Placed, DATA, REDUNDANT, Packet
    <3>2. p.serial \in 1 .. LastData /\ LastData \in Nat
      BY <1>1, LastDataType DEF Decoded, Numbered
    <3> QED
      BY <2>1, <3>1, <3>2
  <2>3. LostIn(lost, p.rid)
    BY <2>1, <2>2 DEF LostIn
  <2>4. Holdable(p, p.rid, lost, m_roundId)
    BY <1>1, <1>5 DEF Holdable, Decided, DATA, RECOVERED
  <2>5. p.hdr \notin Headers(a \o q) /\ \A h \in Headers(a) : h < p.hdr
    BY <1>2, <1>3
  <2>6. HeldOf(a, InsertTransitQueue(q, p), p.rid, lost, m_roundId, live)
    BY <1>4, <2>3, <2>4, <2>5, OneHeld
  <2>7. out' = a /\ tq_' = InsertTransitQueue(q, p)
    BY <1>5 DEF Queued
  <2> QED
    BY <2>6, <2>7
<1>6. CASE r.flag = 2
  <2>1. HeldOf(a \o q, <<>>, p.rid, lost, m_roundId, live)
    BY <1>4, <1>6, QueueReleased
  <2>2. (a \o q) \o <<>> = a \o q /\ <<>> \in Seq(Packet)
    BY ConcatEmptySeq
  <2>3. \A h \in Headers((a \o q) \o <<>>) : h < p.hdr
    BY <1>2, <2>2
  <2>4. HeldOf((a \o q) \o <<p>>, <<>>, p.rid, lost, m_roundId, live)
    <3>1. live => GivenUp(lost, p.rid) \/ ~LostIn(lost, p.rid)
      BY <1>6
    <3>2. PICK s : s = a \o q /\ s \in Seq(Packet)
      OBVIOUS
    <3>3. HeldOf(s \o <<p>>, <<>>, p.rid, lost, m_roundId, live)
      BY <1>1, <2>1, <2>2, <2>3, <3>1, <3>2, OneReleased
    <3> QED
      BY <3>2, <3>3
  <2>5. out' = (a \o q) \o <<p>> /\ tq_' = <<>>
    BY <1>6 DEF Queued
  <2> QED
    BY <2>4, <2>5
<1>7. CASE r.flag = 0
  <2>1. StoreMode => ~LostIn(lost, p.rid) /\ q = <<>>
    BY <1>7, NothingHeld
  <2>2. StoreMode => q = <<>> /\ (live => GivenUp(lost, p.rid) \/ ~LostIn(lost, p.rid))
    BY <2>1
  <2>3. HeldOf(a \o <<p>>, q, p.rid, lost, m_roundId, live)
    BY <1>1, <1>2, <1>4, <2>2, OneReleased
  <2>4. out' = a \o <<p>> /\ tq_' = q
    BY <1>7 DEF Queued
  <2> QED
    BY <2>3, <2>4
<1> QED
  BY <1>5, <1>6, <1>7

\* A redundant packet may have one packet more held.
LEMMA RebuiltHeld ==
  ASSUME NEW p, NEW r, NEW a, NEW q, Holding(p, r, a, q), p.type = REDUNDANT,
         RecvOnGroups(r, p), r.recovered \in Seq(PacketInfo), p.rid < m_roundId
  PROVE  /\ r.tq \in Seq(Packet) /\ HeldOf(a, r.tq, p.rid, lost, m_roundId, TRUE)
         /\ r.recovered # <<>> =>
              /\ r.tq = InsertTransitQueue(q, RecoveryPacket(p, r.recovered[1]))
              /\ RecoveryPacket(p, r.recovered[1]) \in Packet
              /\ RecoveryPacket(p, r.recovered[1]).type = RECOVERED
<1> USE DEF Holding
<1>1. CASE r.recovered = <<>>
  BY <1>1 DEF Queued
<1>2. CASE r.recovered # <<>>
  <2>1. PICK z, e : ~GivenUp(lost, p.rid) /\ r.recovered = <<e>> /\ MissingIn(gt_, p, z, e)
    BY <1>2 DEF RecvOnGroups
  <2>2. e \in PacketInfo /\ r.recovered[1] = e
    <3>1. r.recovered[1] = e /\ Len(r.recovered) = 1
      BY <2>1
    <3> QED
      BY <3>1, ElementOfSeq
  <2> DEFINE x == RecoveryPacket(p, e)
             y == DataOf(e, p.rid, p.gid)
  <2>3. p.type # NONE
    BY DEF NONE, REDUNDANT
  <2>4. y \in lost /\ e.hdr \notin Kept
    BY <2>1, <2>3, MissingIsLost DEF DeliverInv
  <2>5. y.type = DATA /\ y.rid = p.rid /\ y.hdr = e.hdr /\ y.serial = e.serial
    BY DEF DataOf
  <2>6. /\ x \in Packet /\ x.type = RECOVERED /\ x.rid = p.rid
        /\ x.hdr = e.hdr /\ x.serial = e.serial
    BY <2>2 DEF RecoveryPacket, Packet, PacketInfo, RECOVERED
  <2> HIDE DEF x, y
  <2>7. Numbered(y)
    BY <2>4, <2>5 DEF NumberInv, LostPlaced, Placed
  <2>8. Decoded(x)
    BY <2>5, <2>6, <2>7 DEF Decoded, Numbered
  <2>9. Holdable(x, p.rid, lost, m_roundId) /\ LostIn(lost, p.rid)
    BY <2>4, <2>5, <2>6, <2>8 DEF Holdable, LostIn, DATA, RECOVERED
  <2>10. StoreMode => \A h \in Headers(a) : h < x.hdr
    BY <2>1, <2>4, <2>5, <2>6 DEF HeldOf, Repairable
  <2>11. x.hdr \notin Headers(a \o q)
    BY <2>4, <2>6
  <2>12. HeldOf(a, InsertTransitQueue(q, x), p.rid, lost, m_roundId, TRUE)
    BY <2>6, <2>9, <2>10, <2>11, OneHeld
  <2>13. InsertTransitQueue(q, x) \in Seq(Packet)
    BY <2>6, TransitInsert DEF Inserted
  <2>14. x = RecoveryPacket(p, r.recovered[1]) /\ r.tq = InsertTransitQueue(q, x)
    BY <1>2, <2>2 DEF Queued, x
  <2> QED
    BY <2>6, <2>12, <2>13, <2>14
<1> QED
  BY <1>1, <1>2

\* All are released if it ends the repair of its round.
LEMMA RedundantHolds ==
  ASSUME NEW p, NEW r, NEW a, NEW q, Holding(p, r, a, q), p.type = REDUNDANT,
         RecvOnGroups(r, p), r.recovered \in Seq(PacketInfo), p.rid < m_roundId,
         NEW live, r.flag = 2 => GivenUp(lost, p.rid) \/ ~live
  PROVE  HeldOf(out', tq_', p.rid, lost, m_roundId, live)
<1> USE DEF Holding
<1>1. r.tq \in Seq(Packet) /\ HeldOf(a, r.tq, p.rid, lost, m_roundId, TRUE)
  BY RebuiltHeld
<1>2. HeldOf(a, r.tq, p.rid, lost, m_roundId, live)
  BY <1>1, HeldAnyway
<1>3. CASE r.flag = 2
  <2>1. HeldOf(a \o r.tq, <<>>, p.rid, lost, m_roundId, live)
    BY <1>1, <1>2, <1>3, QueueReleased
  <2> QED
    BY <1>3, <2>1 DEF Queued
<1>4. CASE r.flag # 2
  BY <1>2, <1>4 DEF Queued
<1> QED
  BY <1>3, <1>4

\* What is true when IpForward has handled the packet at the head.
LEMMA HeadHandled ==
  ASSUME IInv, AskInv, LossInv, DeliverInv, NumberInv, HeldInv, IpForward,
         NEW p, p = Head(link), NEW r, r = Recv(Waiting(p), p)
  PROVE  /\ Holding(p, r, Released(p), Waiting(p))
         /\ Released(p) \o Waiting(p) = out \o tq_
         /\ p.type = DATA \/ (p.type = REDUNDANT /\ RecvOnGroups(r, p) /\ p.rid < m_roundId)
         /\ r.recovered \in Seq(PacketInfo) /\ r.rt \in Seq(RoundFecTable)
         /\ link' = Tail(link) /\ rt_' = r.rt /\ rid_' = p.rid /\ rid_ <= p.rid
         /\ UNCHANGED <<m_roundId, lost>>
<1> DEFINE a == Released(p)
           q == Waiting(p)
<1>1. /\ Idle /\ link # <<>> /\ p.type # NONE /\ link' = Tail(link) /\ rt_' = r.rt
      /\ rid_' = IF rid_ < p.rid THEN p.rid ELSE rid_
      /\ UNCHANGED <<m_roundId, lost>>
  BY DEF IpForward, Waiting, encoder
<1>2. p.rid \in Nat /\ (p.type = REDUNDANT => p.rid < m_roundId)
  BY <1>1, HeadIsLive
<1>3. /\ link \in Seq(Packet) /\ Len(link) \in Nat /\ 1 \in 1 .. Len(link) /\ link[1] = p
      /\ rid_ \in Nat /\ lost \subseteq Packet
  BY <1>1, EmptySeq, LenProperties DEF IInv, TypeOK
<1>4. rid_' = p.rid /\ rid_ <= p.rid
  <2>1. rid_ <= p.rid
    BY <1>1, <1>3 DEF HeldInv
  <2> QED
    BY <1>1, <1>2, <1>3, <2>1
<1>5. a \in Seq(Packet) /\ q \in Seq(Packet) /\ a \o q = out \o tq_
  BY IpForwardHandles
<1>6. HeldOf(a, q, p.rid, lost, m_roundId, TRUE)
  BY <1>1, Ready
<1>7. Queued(p, r, a, q) /\ r.flag \in {0, 1, 2}
  BY IpForwardQueues
<1>8. Decided(r, p)
  BY <1>1, RecvDecides
<1>9. p \in Packet /\ (p.type = DATA \/ p.type = REDUNDANT)
  BY <1>1, HeadTypes
<1>10. r.recovered \in Seq(PacketInfo) /\ r.rt \in Seq(RoundFecTable)
  <2>1. /\ Tracked(Tail(link), r.rt, r.gt, m_roundId, fc_, m_groupId)
        /\ r.recovered \in Seq(PacketInfo)
    BY <1>1, <1>5, RecvTables DEF IInv
  <2> QED
    BY <2>1 DEF Tracked
<1> HIDE DEF a, q
<1>11. Headers(a \o q) = Kept /\ Headers(a) \subseteq Kept /\ a \o q \in Seq(Packet)
  BY <1>5, QueuesNow, JoinHeaders DEF Kept
<1>12. Placed(p) /\ PastBelow(lost, Kept, link)
  BY <1>3 DEF NumberInv, PathPlaced, DeliverInv, Conserved, Kept
<1>13. Holding(p, r, a, q)
  BY <1>1, <1>2, <1>3, <1>5, <1>6, <1>7, <1>8, <1>9, <1>11, <1>12 DEF Holding
<1>14. p.type = REDUNDANT => RecvOnGroups(r, p)
  BY <1>1, RecvGroups
<1> QED
  BY <1>1, <1>2, <1>4, <1>5, <1>9, <1>10, <1>13, <1>14 DEF a, q

\* IpForward keeps HeldInv.
LEMMA IpForwardHolds ==
  ASSUME IInv, AskInv, LossInv, DeliverInv, NumberInv, HeldInv, IpForward
  PROVE  HeldInv'
<1> DEFINE p == Head(link)
           r == Recv(Waiting(p), p)
           a == Released(p)
           q == Waiting(p)
           live == r.rt # <<>> /\ r.rt[1].rid <= p.rid
<1>1. /\ Holding(p, r, a, q)
      /\ p.type = DATA \/ (p.type = REDUNDANT /\ RecvOnGroups(r, p) /\ p.rid < m_roundId)
      /\ r.recovered \in Seq(PacketInfo) /\ r.rt \in Seq(RoundFecTable)
      /\ link' = Tail(link) /\ rt_' = r.rt /\ rid_' = p.rid
      /\ UNCHANGED <<m_roundId, lost>>
  BY HeadHandled
<1> HIDE DEF p, r
<1>2. p = Head(link) /\ r = Recv(q, p)
  BY DEF p, r
<1> HIDE DEF a, q
<1>3. /\ link # <<>> /\ link \in Seq(Packet) /\ Len(link) \in Nat /\ p.type # NONE
      /\ p.rid \in Nat /\ Idle
  <2>1. link # <<>> /\ p.rid \in Nat /\ Idle /\ IInv
    BY <1>1 DEF Holding
  <2>2. link \in Seq(Packet)
    BY DEF IInv, TypeOK
  <2>3. p.type # NONE
    BY <1>1 DEF NONE, DATA, REDUNDANT
  <2> QED
    BY <2>1, <2>2, <2>3, LenProperties
<1>4. /\ p.rid <= m_roundId
      /\ \A m \in 1 .. Len(link) : link[m].type # NONE => p.rid <= link[m].rid
  BY <1>2, <1>3, HeadIsLive
<1>5. r.flag = 2 => GivenUp(lost, p.rid) \/ ~live
  <2>1. ASSUME p.rid < r.rt[1].rid, live PROVE FALSE
    <3>1. r.rt[1] \in RoundFecTable
      BY <1>1, <2>1, EmptySeq, LenProperties
    <3>2. r.rt[1].rid \in Nat
      BY <3>1 DEF RoundFecTable
    <3> QED
      BY <1>3, <2>1, <3>2
  <2> HIDE DEF live
  <2> QED
    BY <1>1, <2>1 DEF Holding, Decided
<1>6. (rt_' # <<>> /\ rt_'[1].rid <= rid_') <=> live
  BY <1>1
<1> HIDE DEF live
<1>7. HeldOf(out', tq_', p.rid, lost, m_roundId, live)
  <2>1. CASE p.type = DATA
    BY <1>1, <1>5, <2>1, DataHolds
  <2>2. CASE p.type = REDUNDANT /\ RecvOnGroups(r, p) /\ p.rid < m_roundId
    BY <1>1, <1>5, <2>2, RedundantHolds
  <2> QED
    BY <1>1, <2>1, <2>2
<1>8. \A m \in 1 .. Len(link') : link'[m].type # NONE => rid_' <= link'[m].rid
  <2>1. /\ Len(Tail(link)) = Len(link) - 1
        /\ \A m \in 1 .. Len(link) - 1 : Tail(link)[m] = link[m + 1]
    BY <1>3, HeadTailProperties
  <2>2. \A m \in 1 .. Len(link) - 1 : m + 1 \in 1 .. Len(link)
    BY <1>3
  <2> QED
    BY <1>1, <1>4, <2>1, <2>2
<1>9. HeldOf(out, tq_, rid_, lost, m_roundId, rt_ # <<>> /\ rt_[1].rid <= rid_)'
  <2>1. PICK b \in BOOLEAN : b = live
    BY DEF live
  <2>2. (rt_' # <<>> /\ rt_'[1].rid <= rid_') = b
    BY <1>6, <2>1
  <2>3. HeldOf(out', tq_', rid_', lost', m_roundId', b)
    BY <1>1, <1>7, <2>1
  <2> QED
    BY <2>2, <2>3
<1> QED
  BY <1>1, <1>4, <1>8, <1>9 DEF HeldInv

-----------------------------------------------------------------------------
(* The other steps *)

\* A step of the encoder keeps it: nothing is released, held or lost, and the first
\* round in the table is still the first.
LEMMA HeldStays ==
  ASSUME IInv, LossInv, HeldInv, m_roundId' \in Nat, m_roundId <= m_roundId',
         UNCHANGED <<out, tq_, rid_, lost>>,
         rt_ # <<>> => rt_' # <<>> /\ rt_'[1].rid = rt_[1].rid,
         NEW p \in Packet, link' = Append(link, p), p.type # NONE => p.rid = m_roundId
  PROVE  HeldInv'
<1>1. rid_ \in Nat /\ m_roundId \in Nat /\ link \in Seq(Packet)
  BY DEF IInv, TypeOK
<1>2. rid_' <= m_roundId'
  BY <1>1 DEF HeldInv
<1>3. \A m \in 1 .. Len(link') : link'[m].type # NONE => rid_' <= link'[m].rid
  <2>1. /\ Len(link') = Len(link) + 1 /\ link'[Len(link) + 1] = p /\ Len(link) \in Nat
        /\ \A m \in 1 .. Len(link) : link'[m] = link[m]
    BY <1>1, AppendProperties, LenProperties
  <2>2. \A m \in 1 .. Len(link) : link[m].type # NONE => rid_ <= link[m].rid
    BY DEF HeldInv
  <2>3. p.type # NONE => rid_ <= p.rid
    BY DEF HeldInv
  <2> QED
    BY <2>1, <2>2, <2>3
<1> DEFINE live == rt_ # <<>> /\ rt_[1].rid <= rid_
<1>4. PICK b \in BOOLEAN : b = live
  OBVIOUS
<1>5. PICK c \in BOOLEAN : c = (rt_' # <<>> /\ rt_'[1].rid <= rid_')
  OBVIOUS
<1>6. rt_ = <<>> => lost = {}
  BY DEF LossInv, Accounted, LossesOpen
<1>7. c => b \/ lost = {}
  BY <1>4, <1>5, <1>6
<1>8. HeldOf(out, tq_, rid_, lost, m_roundId, b)
  BY <1>4 DEF HeldInv
<1>9. HeldOf(out, tq_, rid_, lost, m_roundId', c)
  <2>1. \A i \in 1 .. Len(tq_) : Holdable(tq_[i], rid_, lost, m_roundId')
    <3> SUFFICES ASSUME NEW i \in 1 .. Len(tq_) PROVE Holdable(tq_[i], rid_, lost, m_roundId')
      OBVIOUS
    <3>1. Holdable(tq_[i], rid_, lost, m_roundId)
      BY <1>8 DEF HeldOf
    <3>2. rid_ < m_roundId => rid_ < m_roundId'
      BY <1>1
    <3> QED
      BY <3>1, <3>2 DEF Holdable
  <2>2. c /\ StoreMode /\ ~GivenUp(lost, rid_) => Repairable(out, tq_, rid_, lost)
    BY <1>7, <1>8 DEF HeldOf, Repairable
  <2> QED
    BY <1>8, <2>1, <2>2 DEF HeldOf
<1>10. HeldOf(out, tq_, rid_, lost, m_roundId, rt_ # <<>> /\ rt_[1].rid <= rid_)'
  BY <1>5, <1>9
<1> QED
  BY <1>2, <1>3, <1>10 DEF HeldInv

\* SendData is such a step, on the first round that it may have opened.
LEMMA SendDataHolds ==
  ASSUME IInv, LossInv, HeldInv, SendData
  PROVE  HeldInv'
<1> DEFINE hdr == m_sentdatapkt + 1
           rt == IF init_ THEN WithRound(rt_, m_roundId, NGroups) ELSE rt_
           gt == IF init_ THEN WithGroups(gt_, m_roundId, NGroups) ELSE gt_
           e == Entry(FALSE, hdr)
           p == Tagged(DATA, hdr)
<1>1. /\ link' = Append(link, p) /\ rt_' = RoundPush(rt, e)
      /\ UNCHANGED <<m_roundId, lost, tq_, rid_, out>>
  BY DEF SendData, CreateDataPacket, decoder
<1>2. p \in Packet /\ e \in PacketInfo /\ p.rid = m_roundId
  <2>1. TypeOK /\ hdr \in Nat /\ DATA \in {DATA, REDUNDANT} /\ FALSE \in BOOLEAN
    BY QueuesNow DEF IInv
  <2> HIDE DEF hdr
  <2> QED
    BY ONLY <2>1, MadeTypes
<1>3. rt \in Seq(RoundFecTable) /\ Ending(rt, m_roundId) /\ rt # <<>>
  <2>1. PICK r, g : r = rt /\ g = gt
    OBVIOUS
  <2>2. r \in Seq(RoundFecTable) /\ Ending(r, m_roundId)
    BY <2>1, OpenedTables
  <2> QED
    BY <2>1, <2>2 DEF Ending
<1>4. rt_ # <<>> => rt = rt_
  BY DEF IInv, TablesCoverPath, Consecutive
<1> HIDE DEF rt, gt, e, p, hdr
<1>5. m_roundId \in Nat /\ m_roundId \in Int
  BY QueuesNow
<1>6. RoundPush(rt, e)[1].rid = rt[1].rid
  BY <1>2, <1>3, <1>5, PushAdds
<1>7. RoundPush(rt, e) # <<>>
  <2>1. Len(RoundPush(rt, e)) = Len(rt) /\ RoundPush(rt, e) \in Seq(RoundFecTable)
    BY <1>2, <1>3, RoundPushPass
  <2> QED
    BY <1>3, <2>1, EmptySeq
<1> QED
  BY <1>1, <1>2, <1>4, <1>5, <1>6, <1>7, HeldStays

\* So is SendSmall.
LEMMA SendSmallHolds ==
  ASSUME IInv, LossInv, HeldInv, SendSmall
  PROVE  HeldInv'
<1> DEFINE p == [type |-> NONE, serial |-> 0, rid |-> 0, gid |-> 0, hdr |-> 0]
           rt == IF init_ THEN WithRound(rt_, m_roundId, NGroups) ELSE rt_
<1>1. /\ link' = Append(link, p) /\ rt_' = rt
      /\ UNCHANGED <<m_roundId, lost, tq_, rid_, out>>
  BY DEF SendSmall, decoder
<1>2. p \in Packet /\ p.type = NONE
  BY NGroupsAssumption DEF Packet, Groups, NONE
<1>3. rt_ # <<>> => rt = rt_
  BY DEF IInv, TablesCoverPath, Consecutive
<1> HIDE DEF p, rt
<1> QED
  BY <1>1, <1>2, <1>3, QueuesNow, HeldStays

\* And SendFecPacket, which may open the round that follows.
LEMMA SendFecPacketHolds ==
  ASSUME IInv, LossInv, HeldInv, SendFecPacket
  PROVE  HeldInv'
<1> DEFINE lastGroup == m_groupId + 1 = NGroups
           e == Entry(TRUE, 0)
           p == Tagged(REDUNDANT, 0)
           rt == RoundPush(rt_, e)
<1>1. /\ link' = Append(link, p) /\ fc_ = 0
      /\ m_roundId' = IF lastGroup THEN m_roundId + 1 ELSE m_roundId
      /\ rt_' = IF ic_ - 1 = 0 THEN WithRound(rt, m_roundId', NGroups) ELSE rt
      /\ UNCHANGED <<lost, tq_, rid_, out>>
  BY DEF SendFecPacket, CreateFecPacket, RedundancyControl, Idle, decoder
<1>2. p \in Packet /\ e \in PacketInfo /\ p.rid = m_roundId
  <2>1. 0 \in Nat /\ TypeOK /\ REDUNDANT \in {DATA, REDUNDANT} /\ TRUE \in BOOLEAN
    BY DEF IInv
  <2> QED
    BY ONLY <2>1, MadeTypes
<1>3. m_roundId \in Nat /\ m_roundId' \in Nat /\ m_roundId <= m_roundId'
  <2>1. m_roundId \in Nat
    BY QueuesNow
  <2>2. m_roundId' = m_roundId \/ m_roundId' = m_roundId + 1
    BY <1>1
  <2> QED
    BY ONLY <2>1, <2>2
<1>4. rt_ \in Seq(RoundFecTable) /\ Ending(rt_, m_roundId) /\ rt_ # <<>>
  <2>1. ~init_
    BY <1>1 DEF IInv, TablesCoverPath, Burst
  <2> QED
    BY <2>1, EndingTables DEF Ending, IInv, TypeOK
<1>5. NGroups \in Sizes
  BY NGroupsAssumption DEF Sizes
<1> HIDE DEF lastGroup, e, p
<1>6. rt[1].rid = rt_[1].rid
  BY <1>2, <1>3, <1>4, PushAdds
<1>7. rt \in Seq(RoundFecTable) /\ rt # <<>>
  <2>1. Len(rt) = Len(rt_) /\ rt \in Seq(RoundFecTable)
    BY <1>2, <1>4, RoundPushPass
  <2> QED
    BY <1>4, <2>1, EmptySeq
<1> HIDE DEF rt
<1>8. WithRound(rt, m_roundId', NGroups)[1].rid = rt[1].rid
  BY <1>3, <1>5, <1>7, OpenAdds
<1>9. WithRound(rt, m_roundId', NGroups) # <<>>
  <2>1. PICK t : t = [rid |-> m_roundId', n |-> NGroups, pi |-> <<>>]
    OBVIOUS
  <2>2. Append(rt, t) # <<>>
    <3>1. PICK s : s = rt /\ s \in Seq(RoundFecTable)
      BY <1>7
    <3>2. Len(s) \in Nat /\ Len(Append(s, t)) = Len(s) + 1
      BY ONLY <3>1
    <3>3. Append(s, t) # <<>>
      BY ONLY <3>2
    <3> QED
      BY <3>1, <3>3
  <2> QED
    BY <2>1, <2>2 DEF WithRound
<1>10. rt_' # <<>> /\ rt_'[1].rid = rt_[1].rid
  BY <1>1, <1>6, <1>7, <1>8, <1>9
<1> QED
  BY <1>1, <1>2, <1>3, <1>10, HeldStays

\* Lose keeps it: a packet that is lost was behind all that is released.
LEMMA LoseHolds ==
  ASSUME IInv, LossInv, DeliverInv, HeldInv, Lose
  PROVE  HeldInv'
<1> DEFINE p == Head(link)
<1>1. /\ link # <<>> /\ link' = Tail(link)
      /\ lost' = IF p.type = NONE THEN lost ELSE lost \cup {p}
      /\ UNCHANGED <<rt_, rid_, m_roundId, tq_, out>>
  BY DEF Lose, encoder, decoder
<1>2. /\ link \in Seq(Packet) /\ Len(link) \in Nat /\ 1 \in 1 .. Len(link) /\ link[1] = p
      /\ rid_ \in Nat /\ out \in Seq(Packet) /\ tq_ \in Seq(Packet)
  BY <1>1, EmptySeq, LenProperties DEF IInv, TypeOK
<1>3. lost \subseteq lost' /\ IsFiniteSet(lost') /\ \A x \in lost' : x \in lost \/ x = p
  <2>1. IsFiniteSet(lost) /\ IsFiniteSet(lost \cup {p})
    BY FS_AddElement DEF LossInv, Accounted
  <2> QED
    BY <1>1, <2>1
<1> HIDE DEF p
<1>4. \A m \in 1 .. Len(link') : link'[m].type # NONE => rid_' <= link'[m].rid
  <2>1. /\ Len(Tail(link)) = Len(link) - 1
        /\ \A m \in 1 .. Len(link) - 1 : Tail(link)[m] = link[m + 1]
    BY <1>1, <1>2, HeadTailProperties
  <2>2. \A m \in 1 .. Len(link) - 1 : m + 1 \in 1 .. Len(link)
    BY <1>2
  <2> QED
    BY <1>1, <2>1, <2>2 DEF HeldInv
<1>5. PICK b \in BOOLEAN : b = (rt_ # <<>> /\ rt_[1].rid <= rid_)
  OBVIOUS
<1>6. HeldOf(out, tq_, rid_, lost, m_roundId, b)
  BY <1>5 DEF HeldInv
<1>7. p.type = DATA => \A h \in Headers(out) : h < p.hdr
  <2>1. Headers(out) \subseteq Kept
    BY <1>2, JoinHeaders DEF Kept
  <2>2. PastBelow(lost, Kept, link)
    BY DEF DeliverInv, Conserved, Kept
  <2> QED
    BY <1>2, <2>1, <2>2 DEF PastBelow
<1>8. HeldOf(out, tq_, rid_, lost', m_roundId, b)
  <2>1. \A i \in 1 .. Len(tq_) : Holdable(tq_[i], rid_, lost', m_roundId)
    BY <1>3, <1>6 DEF HeldOf, Holdable
  <2>2. tq_ # <<>> => LostIn(lost', rid_)
    BY <1>3, <1>6 DEF HeldOf, LostIn
  <2>3. ASSUME StoreMode, b, ~GivenUp(lost', rid_) PROVE Repairable(out, tq_, rid_, lost')
    <3>1. ~GivenUp(lost, rid_)
      BY <1>3, <2>3, GivenUpStays
    <3>2. Repairable(out, tq_, rid_, lost)
      BY <1>6, <2>3, <3>1 DEF HeldOf
    <3> QED
      BY <1>3, <1>7, <3>2 DEF Repairable
  <2> QED
    BY <1>6, <2>1, <2>2, <2>3 DEF HeldOf
<1>9. HeldOf(out, tq_, rid_, lost, m_roundId, rt_ # <<>> /\ rt_[1].rid <= rid_)'
  BY <1>1, <1>5, <1>8
<1> QED
  BY <1>1, <1>4, <1>9 DEF HeldInv

\* IpForwardSmall keeps it: the order is that of the packets which have headers.
LEMMA IpForwardSmallHolds ==
  ASSUME IInv, DeliverInv, HeldInv, IpForwardSmall
  PROVE  HeldInv'
<1> DEFINE p == Head(link)
           a == Append(out, p)
<1>1. /\ link # <<>> /\ link' = Tail(link) /\ p.type = NONE /\ out' = a
      /\ UNCHANGED <<rt_, rid_, m_roundId, tq_, lost>>
  BY DEF IpForwardSmall, encoder
<1>2. /\ link \in Seq(Packet) /\ Len(link) \in Nat /\ rid_ \in Nat
      /\ out \in Seq(Packet) /\ tq_ \in Seq(Packet)
  BY LenProperties DEF IInv, TypeOK
<1>3. \A m \in 1 .. Len(link') : link'[m].type # NONE => rid_' <= link'[m].rid
  <2>1. /\ Len(Tail(link)) = Len(link) - 1
        /\ \A m \in 1 .. Len(link) - 1 : Tail(link)[m] = link[m + 1]
    BY <1>1, <1>2, HeadTailProperties
  <2>2. \A m \in 1 .. Len(link) - 1 : m + 1 \in 1 .. Len(link)
    BY <1>2
  <2> QED
    BY <1>1, <2>1, <2>2 DEF HeldInv
<1>4. p \in Packet /\ p.hdr = 0
  <2>1. PathRises(link, m_sentdatapkt) /\ PastBelow(lost, Kept, link)
    BY DEF DeliverInv, Conserved, Kept
  <2>2. p.type # DATA
    BY <1>1 DEF DATA, NONE
  <2> QED
    BY <1>1, <1>2, <2>1, <2>2, TailRises
<1> HIDE DEF p
<1>5. /\ a \in Seq(Packet) /\ Len(a) = Len(out) + 1 /\ a[Len(out) + 1] = p /\ Len(out) \in Nat
      /\ \A i \in 1 .. Len(out) : a[i] = out[i]
  BY <1>2, <1>4, AppendProperties, LenProperties
<1>6. Headers(a) = Headers(out) /\ Headers(a \o tq_) = Headers(out \o tq_)
  <2>1. Headers(a) = Headers(out) \cup ({p.hdr} \ {0})
    BY <1>2, <1>4, PathHeaders
  <2>2. Headers(a) = Headers(out)
    BY <1>4, <2>1
  <2> HIDE DEF a
  <2>3. Headers(a \o tq_) = Headers(a) \cup Headers(tq_)
    BY <1>2, <1>5, JoinHeaders
  <2>4. Headers(out \o tq_) = Headers(out) \cup Headers(tq_)
    BY <1>2, JoinHeaders
  <2> QED
    BY <2>2, <2>3, <2>4
<1> HIDE DEF a
<1>7. \A i \in 1 .. Len(a) : (i \in 1 .. Len(out) /\ a[i] = out[i]) \/ a[i] = p
  BY <1>5
<1>8. PICK b \in BOOLEAN : b = (rt_ # <<>> /\ rt_[1].rid <= rid_)
  OBVIOUS
<1>9. HeldOf(out, tq_, rid_, lost, m_roundId, b)
  BY <1>8 DEF HeldInv
<1>10. HeldOf(a, tq_, rid_, lost, m_roundId, b)
  <2>1. OutPast(a, rid_)
    BY <1>1, <1>4, <1>7, <1>9 DEF HeldOf, OutPast
  <2>2. ASSUME StoreMode PROVE Rising(a \o tq_)
    <3>1. Rising(out \o tq_)
      BY <1>9, <2>2 DEF HeldOf
    <3>2. /\ Rising(out) /\ Rising(tq_)
          /\ \A i \in 1 .. Len(out) : \A j \in 1 .. Len(tq_) :
               out[i].type # NONE /\ tq_[j].type # NONE => out[i].hdr < tq_[j].hdr
      BY <1>2, <3>1, RisingJoin
    <3>3. Rising(a)
      <4> SUFFICES ASSUME NEW i \in 1 .. Len(a), NEW j \in 1 .. Len(a), i < j,
                          a[i].type # NONE, a[j].type # NONE
                   PROVE  a[i].hdr < a[j].hdr
        BY DEF Rising
      <4>1. i \in 1 .. Len(out) /\ a[i] = out[i] /\ j \in 1 .. Len(out) /\ a[j] = out[j]
        BY <1>1, <1>7
      <4> QED
        BY <3>2, <4>1 DEF Rising
    <3>4. \A i \in 1 .. Len(a) : \A j \in 1 .. Len(tq_) :
            a[i].type # NONE /\ tq_[j].type # NONE => a[i].hdr < tq_[j].hdr
      BY <1>1, <1>7, <3>2
    <3> QED
      BY <1>2, <1>5, <3>2, <3>3, <3>4, RisingJoin
  <2>3. Repairable(out, tq_, rid_, lost) => Repairable(a, tq_, rid_, lost)
    BY <1>6 DEF Repairable
  <2> QED
    BY <1>9, <2>1, <2>2, <2>3 DEF HeldOf
<1>11. HeldOf(out, tq_, rid_, lost, m_roundId, rt_ # <<>> /\ rt_[1].rid <= rid_)'
  BY <1>1, <1>8, <1>10
<1> QED
  BY <1>1, <1>3, <1>11 DEF HeldInv

-----------------------------------------------------------------------------
\* Every step keeps HeldInv.
LEMMA NextHolds ==
  ASSUME IInv, AskInv, LossInv, DeliverInv, NumberInv, HeldInv, [Next]_vars
  PROVE  HeldInv'
<1>1. CASE SendData
  BY <1>1, SendDataHolds
<1>2. CASE SendSmall
  BY <1>2, SendSmallHolds
<1>3. CASE SendFecPacket
  BY <1>3, SendFecPacketHolds
<1>4. CASE Lose
  BY <1>4, LoseHolds
<1>5. CASE IpForwardSmall
  BY <1>5, IpForwardSmallHolds
<1>6. CASE IpForward
  BY <1>6, IpForwardHolds
<1>7. CASE UNCHANGED vars
  <2>1. UNCHANGED <<rid_, m_roundId, link, out, tq_, lost, rt_>>
    BY <1>7 DEF vars, encoder, decoder
  <2> QED
    BY <2>1 DEF HeldInv
<1> QED
  BY <1>1, <1>2, <1>3, <1>4, <1>5, <1>6, <1>7 DEF Next

\* The initial state satisfies it.
LEMMA InitHeld ==
  ASSUME Init
  PROVE  HeldInv
<1>1. /\ rid_ = 1 /\ m_roundId = 1 /\ link = <<>> /\ out = <<>> /\ tq_ = <<>> /\ lost = {}
      /\ rt_ = <<>>
  BY DEF Init
<1>2. <<>> \o <<>> = <<>> /\ <<>> \in Seq(Packet) /\ Len(<<>>) = 0
  BY ConcatEmptySeq
<1>3. \A i \in 1 .. 0 : FALSE
  OBVIOUS
<1>4. HeldOf(<<>>, <<>>, 1, {}, 1, FALSE)
  BY <1>2, <1>3 DEF HeldOf, OutPast, Rising
<1>5. HeldOf(out, tq_, rid_, lost, m_roundId, rt_ # <<>> /\ rt_[1].rid <= rid_)
  <2>1. PICK b \in BOOLEAN : b = (rt_ # <<>> /\ rt_[1].rid <= rid_)
    OBVIOUS
  <2>2. b = FALSE
    BY <1>1, <2>1
  <2>3. HeldOf(out, tq_, rid_, lost, m_roundId, b)
    BY <1>1, <1>4, <2>2
  <2> QED
    BY <2>1, <2>3
<1>6. rid_ <= m_roundId /\ \A m \in 1 .. Len(link) : FALSE
  BY <1>1, <1>2, <1>3
<1> QED
  BY <1>5, <1>6 DEF HeldInv

\* With StoreMode USE the decoder hides the gaps that it repairs: what it has
\* forwarded and then holds is in the order of the encoder's input.
THEOREM OrderKept == Spec => []InOrder
<1> DEFINE Inv == IInv /\ AskInv /\ LossInv /\ DeliverInv /\ NumberInv /\ HeldInv
<1>1. Inv /\ [Next]_vars => Inv'
  BY NextKeeps, NextAsks, NextCounts, NextDelivers, NextNumbers, NextHolds
<1>2. Init => Inv
  BY InitHolds, InitAsks, InitCounts, InitDelivers, InitNumbers, InitHeld
<1>3. Inv => InOrder
  <2> SUFFICES ASSUME IInv, HeldInv, StoreMode PROVE InOrder
    BY DEF InOrder
  <2>1. Rising(out \o tq_)
    BY DEF HeldInv, HeldOf
  <2>2. out \o tq_ \in Seq(Packet) /\ DOMAIN (out \o tq_) = 1 .. Len(out \o tq_)
    BY QueuesNow, LenProperties
  <2> QED
    BY <2>1, <2>2 DEF InOrder, Rising
<1> QED
  BY <1>1, <1>2, <1>3, PTL DEF Spec
-----------------------------------------------------------------------------
(* The data packets of a sequence, to the end points *)

Segment == [seg : Nat, rid : Nat, again : BOOLEAN]

\* Induction over the naturals, for a set.
LEMMA SetInduction ==
  ASSUME NEW S \in SUBSET Nat, 0 \in S, \A n \in S : n + 1 \in S
  PROVE  S = Nat
<1> SUFFICES ASSUME Nat \ S # {} PROVE FALSE
  OBVIOUS
<1>1. IsWellFoundedOn(OpToRel(<, Nat), Nat)
  BY NatLessThanWellFounded
<1>2. PICK x \in Nat \ S : \A y \in Nat \ S : <<y, x>> \notin OpToRel(<, Nat)
  BY <1>1, WFMin
<1>3. \A y \in Nat \ S : ~(y < x)
  BY <1>2 DEF OpToRel
<1>4. x \in Nat /\ x \notin S /\ x # 0
  BY <1>2
<1>5. x - 1 \in Nat /\ x - 1 < x /\ (x - 1) + 1 = x
  BY <1>4
<1>6. x - 1 \in S
  BY <1>3, <1>5
<1> QED
  BY <1>4, <1>5, <1>6

\* f lists the data packets of the beginnings of s, up to the mth packet.
Collects(f, s, m) ==
  /\ f \in [0 .. m -> Seq(Segment)] /\ f[0] = <<>>
  /\ \A k \in 1 .. m : f[k] = IF s[k].type = DATA THEN Append(f[k - 1], Sent(s[k])) ELSE f[k - 1]

\* There is such a list.
LEMMA CollectsExists ==
  ASSUME NEW s \in Seq(Packet)
  PROVE  \E f : Collects(f, s, Len(s))
<1> DEFINE S == {m \in Nat : m <= Len(s) => \E f : Collects(f, s, m)}
<1>1. 0 \in S
  <2>1. PICK f : f = [k \in 0 .. 0 |-> <<>>]
    OBVIOUS
  <2>2. f \in [0 .. 0 -> Seq(Segment)] /\ f[0] = <<>> /\ \A k \in 1 .. 0 : FALSE
    BY <2>1, EmptySeq
  <2>3. Collects(f, s, 0)
    BY <2>2 DEF Collects
  <2> QED
    BY <2>3
<1>2. ASSUME NEW m \in S PROVE m + 1 \in S
  <2> SUFFICES ASSUME m + 1 <= Len(s) PROVE \E f : Collects(f, s, m + 1)
    BY m + 1 \in Nat
  <2>1. Len(s) \in Nat /\ m \in Nat /\ m <= Len(s) /\ m + 1 \in 1 .. Len(s)
    BY LenProperties
  <2>2. PICK f : Collects(f, s, m)
    BY <2>1
  <2>3. s[m + 1] \in Packet
    BY <2>1, ElementOfSeq
  <2>4. Sent(s[m + 1]) \in Segment
    BY <2>3 DEF Sent, Segment, Packet
  <2>5. f[m] \in Seq(Segment)
    BY <2>1, <2>2 DEF Collects
  <2>6. PICK x \in Seq(Segment) :
          x = IF s[m + 1].type = DATA THEN Append(f[m], Sent(s[m + 1])) ELSE f[m]
    BY <2>4, <2>5, AppendProperties
  <2>7. PICK g : g = [k \in 0 .. m + 1 |-> IF k = m + 1 THEN x ELSE f[k]]
    OBVIOUS
  <2>8. /\ g \in [0 .. m + 1 -> Seq(Segment)] /\ g[m + 1] = x
        /\ \A k \in 0 .. m : g[k] = f[k]
    <3>1. \A k \in 0 .. m : k # m + 1 /\ k \in 0 .. m + 1 /\ f[k] \in Seq(Segment)
      BY <2>1, <2>2 DEF Collects
    <3>2. \A k \in 0 .. m + 1 : k = m + 1 \/ k \in 0 .. m
      BY <2>1
    <3>3. m + 1 \in 0 .. m + 1
      BY <2>1
    <3> QED
      BY <2>7, <3>1, <3>2, <3>3
  <2>9. ASSUME NEW k \in 1 .. m + 1
        PROVE  g[k] = IF s[k].type = DATA THEN Append(g[k - 1], Sent(s[k])) ELSE g[k - 1]
    <3>1. CASE k = m + 1
      <4>1. k - 1 = m /\ g[m] = f[m]
        BY <2>1, <2>8, <3>1
      <4> QED
        BY <2>6, <2>8, <3>1, <4>1
    <3>2. CASE k \in 1 .. m
      <4>1. k - 1 \in 0 .. m /\ k \in 0 .. m
        BY <2>1, <3>2
      <4> QED
        BY <2>2, <2>8, <3>2, <4>1 DEF Collects
    <3> QED
      BY <2>1, <3>1, <3>2
  <2>10. g[0] = <<>>
    <3>1. 0 \in 0 .. m
      BY <2>1
    <3> QED
      BY <3>1, <2>1, <2>2, <2>8 DEF Collects
  <2>11. Collects(g, s, m + 1)
    BY <2>8, <2>9, <2>10 DEF Collects
  <2> QED
    BY <2>11
<1> HIDE DEF S
<1>3. S = Nat
  <2>1. S \in SUBSET Nat
    BY DEF S
  <2> QED
    BY <1>1, <1>2, <2>1, SetInduction
<1> QED
  BY <1>3, LenProperties DEF S

\* And no other than that of OnPath.
LEMMA CollectsOnPath ==
  ASSUME NEW s \in Seq(Packet), NEW f, Collects(f, s, Len(s))
  PROVE  OnPath(s) = f[Len(s)] /\ OnPath(s) \in Seq(Segment)
<1> DEFINE Body(g) == [n \in 0 .. Len(s) |->
                         IF n = 0 THEN <<>>
                         ELSE IF s[n].type = DATA THEN Append(g[n - 1], Sent(s[n])) ELSE g[n - 1]]
           h == CHOOSE g : g = Body(g)
<1>1. Len(s) \in Nat
  BY LenProperties
<1>2. f = Body(f)
  <2>1. f \in [0 .. Len(s) -> Seq(Segment)]
    BY DEF Collects
  <2>2. ASSUME NEW n \in 0 .. Len(s) PROVE f[n] = Body(f)[n]
    <3>1. CASE n = 0
      BY <3>1 DEF Collects
    <3>2. CASE n # 0
      <4>1. n \in 1 .. Len(s)
        BY <1>1, <3>2
      <4> QED
        BY <3>2, <4>1 DEF Collects
    <3> QED
      BY <3>1, <3>2
  <2> QED
    BY <2>1, <2>2
<1>3. h = Body(h)
  BY <1>2
<1>4. OnPath(s) = h[Len(s)]
  BY DEF OnPath
<1> HIDE DEF h
<1> DEFINE S == {m \in Nat : m <= Len(s) => h[m] = f[m]}
<1>5. \A n \in 0 .. Len(s) :
        h[n] = IF n = 0 THEN <<>>
               ELSE IF s[n].type = DATA THEN Append(h[n - 1], Sent(s[n])) ELSE h[n - 1]
  BY <1>3
<1>6. 0 \in S
  <2>1. h[0] = <<>>
    BY <1>1, <1>5
  <2> QED
    BY <2>1 DEF Collects
<1>7. ASSUME NEW m \in S PROVE m + 1 \in S
  <2> SUFFICES ASSUME m + 1 <= Len(s) PROVE h[m + 1] = f[m + 1]
    BY m + 1 \in Nat
  <2>1. m \in Nat /\ h[m] = f[m] /\ m + 1 \in 1 .. Len(s) /\ m + 1 \in 0 .. Len(s)
        /\ (m + 1) - 1 = m /\ m + 1 # 0
    BY <1>1
  <2>2. h[m + 1] = IF s[m + 1].type = DATA THEN Append(h[m], Sent(s[m + 1])) ELSE h[m]
    BY <1>5, <2>1
  <2>3. f[m + 1] = IF s[m + 1].type = DATA THEN Append(f[m], Sent(s[m + 1])) ELSE f[m]
    BY <2>1 DEF Collects
  <2> QED
    BY <2>1, <2>2, <2>3
<1> HIDE DEF S
<1>8. S = Nat
  <2>1. S \in SUBSET Nat
    BY DEF S
  <2> QED
    BY <1>6, <1>7, <2>1, SetInduction
<1>9. h[Len(s)] = f[Len(s)]
  BY <1>1, <1>8 DEF S
<1>10. f[Len(s)] \in Seq(Segment)
  BY <1>1 DEF Collects
<1> QED
  BY <1>4, <1>9, <1>10

\* An element behind the second of two sequences in a row.
LEMMA AppendBehind ==
  ASSUME NEW T, NEW u \in Seq(T), NEW v \in Seq(T), NEW y \in T
  PROVE  u \o Append(v, y) = Append(u \o v, y)
<1>1. /\ <<y>> \in Seq(T) /\ u \o v \in Seq(T)
      /\ Append(v, y) = v \o <<y>>
      /\ Append(u \o v, y) = (u \o v) \o <<y>>
  BY ConcatProperties, AppendIsConcat
<1>2. \A a, b, c \in Seq(T) : (a \o b) \o c = a \o (b \o c)
  BY ConcatAssociative
<1>3. (u \o v) \o <<y>> = u \o (v \o <<y>>)
  BY <1>1, <1>2
<1> QED
  BY <1>1, <1>3

\* The data packets of no packet, of one, and of two sequences in a row.
LEMMA OnPathFew ==
  /\ OnPath(<<>>) = <<>>
  /\ \A x \in Packet : OnPath(<<x>>) = IF x.type = DATA THEN <<Sent(x)>> ELSE <<>>
<1>1. OnPath(<<>>) = <<>>
  <2>1. <<>> \in Seq(Packet) /\ <<>> \in Seq(Segment) /\ Len(<<>>) = 0
    BY EmptySeq
  <2>2. PICK f : f = [k \in 0 .. 0 |-> <<>>]
    OBVIOUS
  <2>3. f \in [0 .. 0 -> Seq(Segment)] /\ f[0] = <<>> /\ \A k \in 1 .. 0 : FALSE
    BY <2>1, <2>2
  <2>4. Collects(f, <<>>, Len(<<>>))
    BY <2>1, <2>3 DEF Collects
  <2>5. OnPath(<<>>) = f[Len(<<>>)]
    BY <2>1, <2>4, CollectsOnPath
  <2> QED
    BY <2>1, <2>3, <2>5
<1>2. ASSUME NEW x \in Packet
      PROVE  OnPath(<<x>>) = IF x.type = DATA THEN <<Sent(x)>> ELSE <<>>
  <2>1. <<x>> \in Seq(Packet) /\ Len(<<x>>) = 1 /\ <<x>>[1] = x
    OBVIOUS
  <2>2. Sent(x) \in Segment
    BY DEF Sent, Segment, Packet
  <2>3. Append(<<>>, Sent(x)) = <<Sent(x)>> /\ <<Sent(x)>> \in Seq(Segment) /\ <<>> \in Seq(Segment)
    BY <2>2
  <2>4. PICK y \in Seq(Segment) : y = IF x.type = DATA THEN <<Sent(x)>> ELSE <<>>
    BY <2>3
  <2>5. PICK f : f = [k \in 0 .. 1 |-> IF k = 0 THEN <<>> ELSE y]
    OBVIOUS
  <2>6. f \in [0 .. 1 -> Seq(Segment)] /\ f[0] = <<>> /\ f[1] = y
    BY <2>3, <2>5
  <2>7. \A k \in 1 .. 1 : k = 1 /\ k - 1 = 0
    OBVIOUS
  <2>8. Collects(f, <<x>>, 1)
    BY <2>1, <2>3, <2>4, <2>6, <2>7 DEF Collects
  <2>9. OnPath(<<x>>) = f[1]
    BY <2>1, <2>8, CollectsOnPath
  <2> QED
    BY <2>4, <2>6, <2>9
<1> QED
  BY <1>1, <1>2

LEMMA OnPathJoin ==
  ASSUME NEW s \in Seq(Packet), NEW t \in Seq(Packet)
  PROVE  OnPath(s \o t) = OnPath(s) \o OnPath(t)
<1> DEFINE c == s \o t
<1>1. /\ Len(s) \in Nat /\ Len(t) \in Nat /\ c \in Seq(Packet) /\ Len(c) = Len(s) + Len(t)
      /\ \A i \in 1 .. Len(s) + Len(t) : c[i] = IF i <= Len(s) THEN s[i] ELSE t[i - Len(s)]
  BY LenProperties, ConcatProperties
<1> HIDE DEF c
<1>2. PICK f : Collects(f, s, Len(s))
  BY CollectsExists
<1>3. PICK g : Collects(g, t, Len(t))
  BY CollectsExists
<1>4. OnPath(s) = f[Len(s)] /\ OnPath(t) = g[Len(t)] /\ f[Len(s)] \in Seq(Segment)
  BY <1>2, <1>3, CollectsOnPath
<1>5. PICK h : h = [k \in 0 .. Len(c) |-> IF k <= Len(s) THEN f[k] ELSE f[Len(s)] \o g[k - Len(s)]]
  OBVIOUS
<1>6. \A k \in 0 .. Len(s) : h[k] = f[k] /\ f[k] \in Seq(Segment)
  <2>1. \A k \in 0 .. Len(s) : k \in 0 .. Len(c) /\ k <= Len(s)
    BY <1>1
  <2> QED
    BY <1>2, <1>5, <2>1 DEF Collects
<1>7. \A j \in 0 .. Len(t) : g[j] \in Seq(Segment) /\ g[0] = <<>>
  BY <1>3 DEF Collects
<1>8. ASSUME NEW j \in 0 .. Len(t) PROVE h[Len(s) + j] = f[Len(s)] \o g[j]
  <2>1. CASE j = 0
    <3>1. Len(s) + j = Len(s) /\ Len(s) \in 0 .. Len(s)
      BY <1>1, <2>1
    <3>2. f[Len(s)] \o <<>> = f[Len(s)]
      BY <1>4, ConcatEmptySeq
    <3> QED
      BY <1>6, <1>7, <2>1, <3>1, <3>2
  <2>2. CASE j # 0
    <3>1. Len(s) + j \in 0 .. Len(c) /\ ~(Len(s) + j <= Len(s)) /\ (Len(s) + j) - Len(s) = j
      BY <1>1, <2>2
    <3> QED
      BY <1>5, <3>1
  <2> QED
    BY <2>1, <2>2
<1>9. ASSUME NEW k \in 0 .. Len(c)
      PROVE  k \in 0 .. Len(s) \/ (k > Len(s) /\ \E j \in 1 .. Len(t) : k = Len(s) + j)
  <2>1. CASE k > Len(s)
    <3>1. k - Len(s) \in 1 .. Len(t) /\ k = Len(s) + (k - Len(s))
      BY <1>1, <2>1
    <3> QED
      BY <2>1, <3>1
  <2> QED
    BY <1>1, <2>1
<1>10. h \in [0 .. Len(c) -> Seq(Segment)]
  <2>1. ASSUME NEW k \in 0 .. Len(c) PROVE h[k] \in Seq(Segment)
    <3>1. CASE k \in 0 .. Len(s)
      BY <1>6, <3>1
    <3>2. CASE k \notin 0 .. Len(s)
      <4>1. PICK j \in 1 .. Len(t) : k = Len(s) + j
        BY <1>9, <3>2
      <4>2. j \in 0 .. Len(t)
        BY <1>1
      <4>3. f[Len(s)] \o g[j] \in Seq(Segment)
        BY <1>4, <1>7, <4>2, ConcatProperties
      <4> QED
        BY <1>8, <4>1, <4>2, <4>3
    <3> QED
      BY <3>1, <3>2
  <2> QED
    BY <1>5, <2>1
<1>11. ASSUME NEW k \in 1 .. Len(c)
       PROVE  h[k] = IF c[k].type = DATA THEN Append(h[k - 1], Sent(c[k])) ELSE h[k - 1]
  <2>1. CASE k \in 0 .. Len(s)
    <3>1. k \in 1 .. Len(s) /\ k - 1 \in 0 .. Len(s) /\ k <= Len(s)
      BY <1>1, <2>1
    <3>2. c[k] = s[k]
      BY <1>1, <3>1
    <3>3. f[k] = IF s[k].type = DATA THEN Append(f[k - 1], Sent(s[k])) ELSE f[k - 1]
      BY <1>2, <3>1 DEF Collects
    <3> QED
      BY <1>6, <2>1, <3>1, <3>2, <3>3
  <2>2. CASE k \notin 0 .. Len(s)
    <3>1. PICK j \in 1 .. Len(t) : k = Len(s) + j
      BY <1>1, <1>9, <2>2
    <3>2. /\ j \in 0 .. Len(t) /\ j - 1 \in 0 .. Len(t) /\ k - 1 = Len(s) + (j - 1)
          /\ ~(k <= Len(s)) /\ k - Len(s) = j
      BY <1>1, <3>1
    <3>3. c[k] = t[j]
      BY <1>1, <3>2
    <3>4. g[j] = IF t[j].type = DATA THEN Append(g[j - 1], Sent(t[j])) ELSE g[j - 1]
      BY <1>3 DEF Collects
    <3>5. h[k] = f[Len(s)] \o g[j] /\ h[k - 1] = f[Len(s)] \o g[j - 1]
      BY <1>8, <3>1, <3>2
    <3>6. t[j] \in Packet
      BY ElementOfSeq
    <3>7. Sent(t[j]) \in Segment /\ g[j - 1] \in Seq(Segment)
      BY <1>7, <3>2, <3>6 DEF Sent, Segment, Packet
    <3>8. f[Len(s)] \o Append(g[j - 1], Sent(t[j])) = Append(f[Len(s)] \o g[j - 1], Sent(t[j]))
      <4>1. \A u, v \in Seq(Segment) : \A y \in Segment : u \o Append(v, y) = Append(u \o v, y)
        BY AppendBehind
      <4> QED
        BY <1>4, <3>7, <4>1
    <3> QED
      BY <3>3, <3>4, <3>5, <3>8
  <2> QED
    BY <2>1, <2>2
<1>12. h[0] = <<>>
  <2>1. 0 \in 0 .. Len(s)
    BY <1>1
  <2> QED
    BY <1>2, <1>6, <2>1 DEF Collects
<1>13. Collects(h, c, Len(c))
  BY <1>10, <1>11, <1>12 DEF Collects
<1>14. OnPath(c) = h[Len(c)]
  BY <1>1, <1>13, CollectsOnPath
<1>15. h[Len(c)] = f[Len(s)] \o g[Len(t)]
  <2>1. Len(t) \in 0 .. Len(t)
    BY <1>1
  <2> QED
    BY <1>1, <1>8, <2>1
<1> QED
  BY <1>4, <1>14, <1>15 DEF c

\* One packet more at either end, and all of them but the first.
LEMMA OnPathEnds ==
  ASSUME NEW s \in Seq(Packet)
  PROVE  /\ \A x \in Packet :
              OnPath(Append(s, x)) = IF x.type = DATA THEN Append(OnPath(s), Sent(x))
                                                      ELSE OnPath(s)
         /\ s # <<>> => /\ s = <<Head(s)>> \o Tail(s) /\ <<Head(s)>> \in Seq(Packet)
                        /\ Tail(s) \in Seq(Packet) /\ Head(s) \in Packet
<1>1. OnPath(s) \in Seq(Segment)
  BY CollectsExists, CollectsOnPath
<1>2. ASSUME NEW x \in Packet
      PROVE  OnPath(Append(s, x)) = IF x.type = DATA THEN Append(OnPath(s), Sent(x)) ELSE OnPath(s)
  <2>1. Append(s, x) = s \o <<x>> /\ <<x>> \in Seq(Packet)
    BY AppendIsConcat
  <2>2. OnPath(s \o <<x>>) = OnPath(s) \o OnPath(<<x>>)
    BY <2>1, OnPathJoin
  <2>3. CASE x.type = DATA
    <3>1. Sent(x) \in Segment
      BY DEF Sent, Segment, Packet
    <3>2. OnPath(<<x>>) = <<Sent(x)>>
      BY <2>3, OnPathFew
    <3>3. Append(OnPath(s), Sent(x)) = OnPath(s) \o <<Sent(x)>>
      BY <1>1, <3>1, AppendIsConcat
    <3> QED
      BY <2>1, <2>2, <2>3, <3>2, <3>3
  <2>4. CASE x.type # DATA
    <3>1. OnPath(<<x>>) = <<>>
      BY <2>4, OnPathFew
    <3>2. OnPath(s) \o <<>> = OnPath(s)
      BY <1>1, ConcatEmptySeq
    <3> QED
      BY <2>1, <2>2, <2>4, <3>1, <3>2
  <2> QED
    BY <2>3, <2>4
<1>3. ASSUME s # <<>>
      PROVE  /\ s = <<Head(s)>> \o Tail(s) /\ <<Head(s)>> \in Seq(Packet)
             /\ Tail(s) \in Seq(Packet) /\ Head(s) \in Packet
  <2>1. Len(s) \in Nat /\ 1 \in 1 .. Len(s) /\ Len(s) \in 1 .. Len(s)
    BY <1>3, EmptySeq, LenProperties
  <2>2. Head(s) = s[1] /\ Head(s) \in Packet /\ Tail(s) \in Seq(Packet)
    BY <1>3, <2>1, HeadTailProperties, HeadTailOfSubSeq, SubSeqFull
  <2>3. SubSeq(s, 1, Len(s)) = <<s[1]>> \o SubSeq(s, 1 + 1, Len(s))
    BY <2>1, SubSeqRecursiveFirst
  <2>4. Tail(s) = SubSeq(s, 2, Len(s)) /\ SubSeq(s, 1, Len(s)) = s /\ 1 + 1 = 2
    BY <1>3, TailIsSubSeq, SubSeqFull
  <2> QED
    BY <2>2, <2>3, <2>4
<1> QED
  BY <1>2, <1>3

\* A packet that is not a data packet changes nothing, wherever it is put.
LEMMA OnPathInserted ==
  ASSUME NEW s \in Seq(Packet), NEW x \in Packet, x.type # DATA, NEW t, NEW k, Inserted(t, s, x, k)
  PROVE  OnPath(t) = OnPath(s)
<1> DEFINE a == SubSeq(s, 1, k - 1)
           b == SubSeq(s, k, Len(s))
           c == SubSeq(t, 1, k)
           d == SubSeq(t, k + 1, Len(t))
<1>1. /\ t \in Seq(Packet) /\ k \in 1 .. Len(s) + 1 /\ Len(s) \in Nat /\ Len(t) = Len(s) + 1
      /\ k \in Nat /\ t[k] = x /\ k \in 1 .. Len(t)
  BY LenProperties DEF Inserted
<1>2. s = a \o b
  <2>1. 1 \in 1 .. Len(s) + 1 /\ k - 1 \in 1 - 1 .. Len(s) /\ Len(s) \in k - 1 .. Len(s)
    BY <1>1
  <2>2. SubSeq(s, 1, k - 1) \o SubSeq(s, (k - 1) + 1, Len(s)) = SubSeq(s, 1, Len(s))
    BY <2>1, ConcatAdjacentSubSeq
  <2>3. (k - 1) + 1 = k
    BY <1>1
  <2> QED
    BY <2>2, <2>3, SubSeqFull
<1>3. t = c \o d
  <2>1. 1 \in 1 .. Len(t) + 1 /\ k \in 1 - 1 .. Len(t) /\ Len(t) \in k .. Len(t)
    BY <1>1
  <2>2. SubSeq(t, 1, k) \o SubSeq(t, k + 1, Len(t)) = SubSeq(t, 1, Len(t))
    BY <1>1, <2>1, ConcatAdjacentSubSeq
  <2> QED
    BY <1>1, <2>2, SubSeqFull
<1>4. /\ a \in Seq(Packet) /\ Len(a) = k - 1
      /\ \A i \in 1 .. k - 1 : a[i] = s[i]
  <2>1. \A i \in 1 .. k - 1 : i \in 1 .. Len(s)
    BY <1>1
  <2>2. \A i \in 1 .. k - 1 : s[i] \in Packet
    BY <2>1, ElementOfSeq
  <2>3. /\ a \in Seq(Packet)
        /\ Len(a) = IF 1 <= k - 1 THEN (k - 1) - 1 + 1 ELSE 0
        /\ \A i \in 1 .. (k - 1) - 1 + 1 : a[i] = s[1 + i - 1]
    BY <1>1, <2>2, SubSeqProperties
  <2> QED
    BY <1>1, <2>3
<1>5. /\ b \in Seq(Packet) /\ Len(b) = Len(s) - k + 1
      /\ \A i \in 1 .. Len(s) - k + 1 : b[i] = s[k + i - 1]
  <2>1. \A i \in k .. Len(s) : i \in 1 .. Len(s)
    BY <1>1
  <2>2. \A i \in k .. Len(s) : s[i] \in Packet
    BY <2>1, ElementOfSeq
  <2>3. /\ b \in Seq(Packet)
        /\ Len(b) = IF k <= Len(s) THEN Len(s) - k + 1 ELSE 0
        /\ \A i \in 1 .. Len(s) - k + 1 : b[i] = s[k + i - 1]
    BY <1>1, <2>2, SubSeqProperties
  <2> QED
    BY <1>1, <2>3
<1>6. /\ c \in Seq(Packet) /\ Len(c) = k
      /\ \A i \in 1 .. k : c[i] = t[i]
  <2>1. \A i \in 1 .. k : i \in 1 .. Len(t)
    BY <1>1
  <2>2. \A i \in 1 .. k : t[i] \in Packet
    BY <1>1, <2>1, ElementOfSeq
  <2>3. /\ c \in Seq(Packet)
        /\ Len(c) = IF 1 <= k THEN k - 1 + 1 ELSE 0
        /\ \A i \in 1 .. k - 1 + 1 : c[i] = t[1 + i - 1]
    BY <1>1, <2>2, SubSeqProperties
  <2> QED
    BY <1>1, <2>3
<1>7. /\ d \in Seq(Packet) /\ Len(d) = Len(s) - k + 1
      /\ \A i \in 1 .. Len(s) - k + 1 : d[i] = t[k + i]
  <2>1. \A i \in k + 1 .. Len(t) : i \in 1 .. Len(t)
    BY <1>1
  <2>2. \A i \in k + 1 .. Len(t) : t[i] \in Packet
    BY <1>1, <2>1, ElementOfSeq
  <2>3. /\ d \in Seq(Packet)
        /\ Len(d) = IF k + 1 <= Len(t) THEN Len(t) - (k + 1) + 1 ELSE 0
        /\ \A i \in 1 .. Len(t) - (k + 1) + 1 : d[i] = t[(k + 1) + i - 1]
    BY <1>1, <2>2, SubSeqProperties
  <2> QED
    BY <1>1, <2>3
<1> HIDE DEF a, b, c, d
<1>8. d = b
  <2>1. ASSUME NEW i \in 1 .. Len(s) - k + 1 PROVE d[i] = b[i]
    <3>1. k + i - 1 \in 1 .. Len(s) /\ k <= k + i - 1 /\ (k + i - 1) + 1 = k + i
      BY <1>1
    <3>2. t[(k + i - 1) + 1] = s[k + i - 1]
      BY <3>1 DEF Inserted
    <3> QED
      BY <1>5, <1>7, <3>1, <3>2
  <2> QED
    BY <1>5, <1>7, <2>1, SeqEqual
<1>9. c = Append(a, x)
  <2>1. /\ Append(a, x) \in Seq(Packet) /\ Len(Append(a, x)) = k
        /\ \A i \in 1 .. k - 1 : Append(a, x)[i] = a[i]
        /\ Append(a, x)[k] = x
    BY <1>1, <1>4, AppendProperties
  <2>2. ASSUME NEW i \in 1 .. k PROVE c[i] = Append(a, x)[i]
    <3>1. CASE i = k
      BY <1>1, <1>6, <2>1, <3>1
    <3>2. CASE i # k
      <4>1. i \in 1 .. k - 1 /\ i \in 1 .. Len(s) /\ i < k
        BY <1>1, <3>2
      <4>2. t[i] = s[i]
        BY <4>1 DEF Inserted
      <4> QED
        BY <1>4, <1>6, <2>1, <4>1, <4>2
    <3> QED
      BY <3>1, <3>2
  <2> QED
    BY <1>6, <2>1, <2>2, SeqEqual
<1>10. OnPath(c) = OnPath(a)
  BY <1>4, <1>9, OnPathEnds
<1> QED
  <2>1. OnPath(t) = OnPath(c) \o OnPath(d)
    BY <1>3, <1>6, <1>7, OnPathJoin
  <2>2. OnPath(s) = OnPath(a) \o OnPath(b)
    BY <1>2, <1>4, <1>5, OnPathJoin
  <2> QED
    BY <1>8, <1>10, <2>1, <2>2

\* The elements of OnPath(s) are the data packets of s.
Elements(w) == {w[i] : i \in 1 .. Len(w)}
DataIn(s, m) == {Sent(s[k]) : k \in {j \in 1 .. m : s[j].type = DATA}}
LEMMA OnPathElements ==
  ASSUME NEW s \in Seq(Packet)
  PROVE  Elements(OnPath(s)) = DataIn(s, Len(s))
<1>1. Len(s) \in Nat
  BY LenProperties
<1>2. PICK f : Collects(f, s, Len(s))
  BY CollectsExists
<1>3. OnPath(s) = f[Len(s)]
  BY <1>2, CollectsOnPath
<1> DEFINE S == {m \in Nat : m <= Len(s) => Elements(f[m]) = DataIn(s, m)}
<1>4. 0 \in S
  <2>1. f[0] = <<>> /\ Len(<<>>) = 0 /\ \A k \in 1 .. 0 : FALSE
    BY <1>2 DEF Collects
  <2>2. Elements(f[0]) = {} /\ DataIn(s, 0) = {}
    BY <2>1 DEF Elements, DataIn
  <2> QED
    BY <2>2
<1>5. ASSUME NEW m \in S PROVE m + 1 \in S
  <2> SUFFICES ASSUME m + 1 <= Len(s) PROVE Elements(f[m + 1]) = DataIn(s, m + 1)
    BY m + 1 \in Nat
  <2>1. /\ m \in Nat /\ Elements(f[m]) = DataIn(s, m) /\ m + 1 \in 1 .. Len(s)
        /\ m \in 0 .. Len(s) /\ (m + 1) - 1 = m
        /\ \A k \in 1 .. m + 1 : k = m + 1 \/ k \in 1 .. m
        /\ \A k \in 1 .. m : k \in 1 .. m + 1
    BY <1>1
  <2>2. f[m] \in Seq(Segment)
    BY <1>2, <2>1 DEF Collects
  <2>3. f[m + 1] = IF s[m + 1].type = DATA THEN Append(f[m], Sent(s[m + 1])) ELSE f[m]
    BY <1>2, <2>1 DEF Collects
  <2>4. CASE s[m + 1].type # DATA
    <3>1. DataIn(s, m + 1) = DataIn(s, m)
      BY <2>1, <2>4 DEF DataIn
    <3> QED
      BY <2>1, <2>3, <2>4, <3>1
  <2>5. CASE s[m + 1].type = DATA
    <3>1. DataIn(s, m + 1) = DataIn(s, m) \cup {Sent(s[m + 1])}
      BY <2>1, <2>5 DEF DataIn
    <3>2. s[m + 1] \in Packet
      BY <2>1, ElementOfSeq
    <3>3. PICK y \in Segment : y = Sent(s[m + 1])
      BY <3>2 DEF Sent, Segment, Packet
    <3>4. PICK v \in Seq(Segment) : v = f[m]
      BY <2>2
    <3>5. /\ Len(Append(v, y)) = Len(v) + 1 /\ Len(v) \in Nat
          /\ \A i \in 1 .. Len(v) : Append(v, y)[i] = v[i]
          /\ Append(v, y)[Len(v) + 1] = y
      BY AppendProperties, LenProperties
    <3>6. Elements(Append(v, y)) = Elements(v) \cup {y}
      <4>1. \A i \in 1 .. Len(v) + 1 : i = Len(v) + 1 \/ i \in 1 .. Len(v)
        BY <3>5
      <4>2. Len(v) + 1 \in 1 .. Len(v) + 1 /\ \A i \in 1 .. Len(v) : i \in 1 .. Len(v) + 1
        BY <3>5
      <4> QED
        BY <3>5, <4>1, <4>2 DEF Elements
    <3> QED
      BY <2>1, <2>3, <2>5, <3>1, <3>3, <3>4, <3>6
  <2> QED
    BY <2>4, <2>5
<1> HIDE DEF S
<1>6. S = Nat
  <2>1. S \in SUBSET Nat
    BY DEF S
  <2> QED
    BY <1>4, <1>5, <2>1, SetInduction
<1> QED
  BY <1>1, <1>3, <1>6 DEF S

-----------------------------------------------------------------------------
(* The steps of FecPath *)

Wire == OnPath(tq_ \o link)
Gap == {Sent(p) : p \in {x \in LostPackets(DATA) : x.rid >= rid_ /\ x.hdr \notin Forwarded}}

\* Another packet on the path.
LEMMA WireGrows ==
  ASSUME IInv, UNCHANGED <<tq_, rid_, out, lost>>, NEW p \in Packet, link' = Append(link, p),
         m_roundId' \in Nat, m_roundId <= m_roundId', p.type = DATA => p.rid = m_roundId
  PROVE  Path!Send
<1>1. /\ link \in Seq(Packet) /\ tq_ \in Seq(Packet) /\ tq_ \o link \in Seq(Packet)
      /\ m_roundId \in Nat
  BY QueuesNow, ConcatProperties
<1>2. tq_ \o Append(link, p) = Append(tq_ \o link, p)
  BY <1>1, AppendBehind
<1>3. Wire' = IF p.type = DATA THEN Append(Wire, Sent(p)) ELSE Wire
  <2>1. Wire' = OnPath(tq_' \o link')
    BY DEF Wire, OnPath, Sent
  <2>2. OnPath(Append(tq_ \o link, p)) = IF p.type = DATA THEN Append(Wire, Sent(p)) ELSE Wire
    BY <1>1, OnPathEnds DEF Wire
  <2> QED
    BY <1>2, <2>1, <2>2
<1>4. Wire \in Seq(Segment) /\ Len(Wire) \in Nat
  BY <1>1, CollectsExists, CollectsOnPath, LenProperties DEF Wire
<1>5. Sent(p) \in Segment /\ Sent(p).rid = p.rid
  BY DEF Sent, Segment, Packet
<1>6. /\ Len(Wire) <= Len(Wire') /\ SubSeq(Wire, 1, Len(Wire)) = SubSeq(Wire', 1, Len(Wire))
      /\ \A i \in Len(Wire) + 1 .. Len(Wire') : Wire'[i].rid \in m_roundId .. m_roundId'
  <2>1. CASE p.type # DATA
    <3>1. \A i \in Len(Wire) + 1 .. Len(Wire) : FALSE
      BY <1>4
    <3> QED
      BY <1>3, <1>4, <2>1, <3>1
  <2>2. CASE p.type = DATA
    <3> DEFINE w == Append(Wire, Sent(p))
    <3>1. Wire' = w
      BY <1>3, <2>2
    <3>2. /\ w \in Seq(Segment) /\ Len(w) = Len(Wire) + 1 /\ w[Len(Wire) + 1] = Sent(p)
          /\ \A i \in 1 .. Len(Wire) : w[i] = Wire[i]
      BY <1>4, <1>5, AppendProperties
    <3> HIDE DEF w
    <3>3. SubSeq(w, 1, Len(Wire)) = Wire
      <4>1. \A i \in 1 .. Len(Wire) : w[i] \in Segment
        BY <1>4, <3>2, ElementOfSeq
      <4>2. /\ SubSeq(w, 1, Len(Wire)) \in Seq(Segment)
            /\ Len(SubSeq(w, 1, Len(Wire))) = IF 1 <= Len(Wire) THEN Len(Wire) - 1 + 1 ELSE 0
            /\ \A i \in 1 .. Len(Wire) - 1 + 1 : SubSeq(w, 1, Len(Wire))[i] = w[1 + i - 1]
        BY <1>4, <4>1, SubSeqProperties
      <4>3. Len(SubSeq(w, 1, Len(Wire))) = Len(Wire)
        BY <1>4, <4>2
      <4>4. \A i \in 1 .. Len(Wire) : SubSeq(w, 1, Len(Wire))[i] = Wire[i]
        BY <1>4, <3>2, <4>2
      <4> QED
        BY <1>4, <4>2, <4>3, <4>4, SeqEqual
    <3>4. SubSeq(Wire, 1, Len(Wire)) = Wire
      BY <1>4, SubSeqFull
    <3>5. \A i \in Len(Wire) + 1 .. Len(w) : w[i].rid \in m_roundId .. m_roundId'
      <4>1. \A i \in Len(Wire) + 1 .. Len(w) : i = Len(Wire) + 1
        BY <1>4, <3>2
      <4>2. p.rid \in m_roundId .. m_roundId'
        BY <1>1, <2>2
      <4> QED
        BY <1>5, <3>2, <4>1, <4>2
    <3>6. Len(Wire) <= Len(w)
      BY <1>4, <3>2
    <3> QED
      BY <3>1, <3>3, <3>4, <3>5, <3>6
  <2> QED
    BY <2>1, <2>2
<1>7. Gap' = Gap /\ Forwarded' = Forwarded
  BY DEF Gap, Forwarded, LostPackets
<1>8. m_roundId' >= m_roundId
  BY <1>1
<1> QED
  BY <1>6, <1>7, <1>8 DEF Path!Send, Path!IsPrefix, Wire, Gap

\* Two sequences in a row, taken apart.
LEMMA SplitAt ==
  ASSUME NEW T, NEW a \in Seq(T), NEW b \in Seq(T), NEW w, w = a \o b
  PROVE  /\ w \in Seq(T) /\ Len(a) \in Nat /\ Len(b) \in Nat /\ Len(w) = Len(a) + Len(b)
         /\ SubSeq(w, 1, Len(a)) = a /\ SubSeq(w, Len(a) + 1, Len(w)) = b
<1>1. /\ w \in Seq(T) /\ Len(a) \in Nat /\ Len(b) \in Nat /\ Len(w) = Len(a) + Len(b)
      /\ \A i \in 1 .. Len(a) + Len(b) : w[i] = IF i <= Len(a) THEN a[i] ELSE b[i - Len(a)]
  BY ConcatProperties, LenProperties
<1>2. \A i \in 1 .. Len(w) : w[i] \in T
  BY <1>1, ElementOfSeq
<1>3. SubSeq(w, 1, Len(a)) = a
  <2> DEFINE c == SubSeq(w, 1, Len(a))
  <2>1. \A i \in 1 .. Len(a) : w[i] \in T
    BY <1>1, <1>2
  <2>2. /\ c \in Seq(T) /\ Len(c) = IF 1 <= Len(a) THEN Len(a) - 1 + 1 ELSE 0
        /\ \A i \in 1 .. Len(a) - 1 + 1 : c[i] = w[1 + i - 1]
    BY <1>1, <2>1, SubSeqProperties
  <2> HIDE DEF c
  <2>3. Len(c) = Len(a)
    BY <1>1, <2>2
  <2>4. \A i \in 1 .. Len(a) : c[i] = a[i]
    BY <1>1, <2>2
  <2>5. c = a
    BY <2>2, <2>3, <2>4, SeqEqual
  <2> QED
    BY <2>5 DEF c
<1>4. SubSeq(w, Len(a) + 1, Len(w)) = b
  <2> DEFINE c == SubSeq(w, Len(a) + 1, Len(w))
  <2>1. \A i \in Len(a) + 1 .. Len(w) : w[i] \in T
    BY <1>1, <1>2
  <2>2. /\ c \in Seq(T)
        /\ Len(c) = IF Len(a) + 1 <= Len(w) THEN Len(w) - (Len(a) + 1) + 1 ELSE 0
        /\ \A i \in 1 .. Len(w) - (Len(a) + 1) + 1 : c[i] = w[(Len(a) + 1) + i - 1]
    BY <1>1, <2>1, SubSeqProperties
  <2> HIDE DEF c
  <2>3. Len(c) = Len(b)
    BY <1>1, <2>2
  <2>4. ASSUME NEW i \in 1 .. Len(b) PROVE c[i] = b[i]
    <3>1. /\ i \in 1 .. Len(w) - (Len(a) + 1) + 1 /\ (Len(a) + 1) + i - 1 = Len(a) + i
          /\ Len(a) + i \in 1 .. Len(a) + Len(b) /\ ~(Len(a) + i <= Len(a))
          /\ (Len(a) + i) - Len(a) = i
      BY <1>1
    <3> QED
      BY <1>1, <2>2, <3>1
  <2>5. c = b
    BY <2>2, <2>3, <2>4, SeqEqual
  <2> QED
    BY <2>5 DEF c
<1> QED
  BY <1>1, <1>3, <1>4

\* One element is taken out.
LEMMA TakenOut ==
  ASSUME NEW T, NEW a \in Seq(T), NEW b \in Seq(T), NEW y \in T,
         NEW w, w = a \o (<<y>> \o b), NEW i, i = Len(a) + 1
  PROVE  /\ i \in DOMAIN w /\ w[i] = y
         /\ SubSeq(w, 1, i - 1) = a /\ SubSeq(w, i + 1, Len(w)) = b
<1>1. <<y>> \in Seq(T) /\ Len(<<y>>) = 1 /\ <<y>>[1] = y
  OBVIOUS
<1>2. PICK c \in Seq(T) : c = <<y>>
  BY <1>1
<1>3. PICK d : d = c \o b
  OBVIOUS
<1>4. /\ d \in Seq(T) /\ Len(d) = 1 + Len(b) /\ Len(b) \in Nat /\ Len(a) \in Nat
      /\ \A j \in 1 .. 1 + Len(b) : d[j] = IF j <= 1 THEN c[j] ELSE b[j - 1]
  BY <1>1, <1>2, <1>3, ConcatProperties, LenProperties
<1>5. /\ w = a \o d /\ w \in Seq(T) /\ Len(w) = Len(a) + Len(d)
      /\ SubSeq(w, 1, Len(a)) = a
  BY <1>2, <1>3, <1>4, SplitAt
<1>6. /\ \A j \in 1 .. Len(a) + Len(d) : w[j] = IF j <= Len(a) THEN a[j] ELSE d[j - Len(a)]
      /\ DOMAIN w = 1 .. Len(w)
  BY <1>4, <1>5, ConcatProperties, LenProperties
<1>7. i \in DOMAIN w /\ w[i] = y /\ i - 1 = Len(a)
  <2>1. i \in 1 .. Len(a) + Len(d) /\ ~(i <= Len(a)) /\ i - Len(a) = 1 /\ i - 1 = Len(a)
        /\ 1 \in 1 .. 1 + Len(b)
    BY <1>4
  <2> QED
    BY <1>1, <1>2, <1>4, <1>5, <1>6, <2>1
<1>8. SubSeq(w, i + 1, Len(w)) = b
  <2>1. PICK e : e = a \o c
    OBVIOUS
  <2>2. e \in Seq(T) /\ Len(e) = Len(a) + 1
    BY <1>1, <1>2, <2>1, ConcatProperties
  <2>3. w = e \o b
    <3>1. (a \o c) \o b = a \o (c \o b)
      BY <1>2, ConcatAssociative
    <3> QED
      BY <1>3, <1>5, <2>1, <3>1
  <2> QED
    BY <2>2, <2>3, SplitAt
<1> QED
  BY <1>5, <1>7, <1>8

\* The packet at the head of the path, on the wire.
LEMMA WireHead ==
  ASSUME link \in Seq(Packet), tq_ \in Seq(Packet), link # <<>>, NEW p, p = Head(link)
  PROVE  /\ Wire = OnPath(tq_) \o (OnPath(<<p>>) \o OnPath(Tail(link)))
         /\ OnPath(tq_) \in Seq(Segment) /\ OnPath(Tail(link)) \in Seq(Segment)
         /\ OnPath(<<p>>) \in Seq(Segment)
         /\ p \in Packet /\ Tail(link) \in Seq(Packet) /\ <<p>> \in Seq(Packet)
<1>1. /\ link = <<p>> \o Tail(link) /\ <<p>> \in Seq(Packet)
      /\ Tail(link) \in Seq(Packet) /\ p \in Packet
  BY OnPathEnds
<1>2. /\ OnPath(tq_) \in Seq(Segment) /\ OnPath(Tail(link)) \in Seq(Segment)
      /\ OnPath(<<p>>) \in Seq(Segment)
  BY <1>1, CollectsExists, CollectsOnPath
<1>3. OnPath(link) = OnPath(<<p>>) \o OnPath(Tail(link))
  BY <1>1, OnPathJoin
<1>4. Wire = OnPath(tq_) \o OnPath(link)
  BY OnPathJoin DEF Wire
<1> QED
  BY <1>1, <1>2, <1>3, <1>4

\* Lose is a step of FecPath for a data packet, and none for another.
LEMMA LoseIsLose ==
  ASSUME IInv, DeliverInv, HeldInv, Lose
  PROVE  Path!Lose \/ UNCHANGED <<Wire, Gap, m_roundId, Forwarded>>
<1> DEFINE p == Head(link)
           a == OnPath(tq_)
           b == OnPath(Tail(link))
<1>1. /\ link # <<>> /\ link' = Tail(link) /\ UNCHANGED <<tq_, rid_, out, m_roundId>>
      /\ lost' = IF p.type = NONE THEN lost ELSE lost \cup {p}
  BY DEF Lose, decoder, encoder
<1>2. link \in Seq(Packet) /\ tq_ \in Seq(Packet) /\ Len(link) \in Nat
  BY QueuesNow, LenProperties
<1>3. /\ Wire = a \o (OnPath(<<p>>) \o b) /\ a \in Seq(Segment) /\ b \in Seq(Segment)
      /\ p \in Packet /\ Tail(link) \in Seq(Packet)
  BY <1>1, <1>2, WireHead
<1>4. Wire' = a \o b
  <2>1. Wire' = OnPath(tq_ \o Tail(link))
    BY <1>1 DEF Wire, OnPath, Sent
  <2> QED
    BY <1>2, <1>3, <2>1, OnPathJoin
<1>5. Forwarded' = Forwarded
  BY <1>1 DEF Forwarded
<1> HIDE DEF a, b
<1>6. CASE p.type # DATA
  <2>1. Wire = Wire'
    <3>1. OnPath(<<p>>) = <<>>
      BY <1>3, <1>6, OnPathFew
    <3>2. <<>> \o b = b
      BY <1>3, ConcatEmptySeq
    <3> QED
      BY <1>3, <1>4, <3>1, <3>2
  <2>2. Gap' = Gap
    BY <1>1, <1>5, <1>6 DEF Gap, LostPackets
  <2> QED
    BY <1>1, <1>5, <2>1, <2>2
<1>7. CASE p.type = DATA
  <2> PICK y, i : y = Sent(p) /\ i = Len(a) + 1
    OBVIOUS
  <2>1. OnPath(<<p>>) = <<y>> /\ y \in Segment /\ y.again = FALSE
    BY <1>3, <1>7, OnPathFew DEF Sent, Segment, Packet
  <2>2. /\ i \in DOMAIN Wire /\ Wire[i] = y
        /\ SubSeq(Wire, 1, i - 1) = a /\ SubSeq(Wire, i + 1, Len(Wire)) = b
    <3>1. PICK u \in Seq(Segment), v \in Seq(Segment) : u = a /\ v = b
      BY <1>3
    <3>2. PICK w : w = u \o (<<y>> \o v) /\ w = Wire
      BY <1>3, <2>1, <3>1
    <3>3. /\ i \in DOMAIN w /\ w[i] = y
          /\ SubSeq(w, 1, i - 1) = u /\ SubSeq(w, i + 1, Len(w)) = v
      BY <2>1, <3>1, <3>2, TakenOut
    <3> QED
      BY <3>1, <3>2, <3>3
  <2>3. p.rid >= rid_ /\ p.hdr \notin Forwarded
    <3>1. link[1] = p /\ 1 \in 1 .. Len(link) /\ p.type # NONE
      BY <1>1, <1>2, <1>7, EmptySeq DEF DATA, NONE
    <3>2. rid_ <= p.rid
      BY <3>1 DEF HeldInv
    <3>3. p.hdr \notin Kept
      BY <1>1, <1>2, <1>7, TailRises DEF DeliverInv, Conserved, Kept
    <3>4. Forwarded \subseteq Kept
      BY QueuesNow, JoinHeaders DEF Forwarded, Kept
    <3>5. rid_ \in Nat /\ p.rid \in Nat
      BY <1>3 DEF IInv, TypeOK, Packet
    <3> QED
      BY <3>2, <3>3, <3>4, <3>5
  <2>4. Gap' = Gap \cup {y}
    <3>1. LostPackets(DATA)' = LostPackets(DATA) \cup {p}
      BY <1>1, <1>7 DEF LostPackets, DATA, NONE
    <3> QED
      BY <1>1, <1>5, <2>3, <3>1 DEF Gap
  <2>5. Wire' = SubSeq(Wire, 1, i - 1) \o SubSeq(Wire, i + 1, Len(Wire))
    BY <1>4, <2>2
  <2>6. Gap' = IF Wire[i].again THEN Gap ELSE Gap \cup {Wire[i]}
    BY <2>1, <2>2, <2>4
  <2>7. Path!Lose
    BY <1>1, <1>5, <2>2, <2>5, <2>6 DEF Path!Lose, Wire, Gap
  <2> QED
    BY <2>7
<1> QED
  BY <1>6, <1>7

\* What may be forwarded: a small packet, a data packet, or a lost one of a round
\* that is complete and has not been left behind.
Deliverable(x) ==
  \/ x.type = NONE /\ x.hdr = 0
  \/ x.type = DATA
  \/ /\ x.type = RECOVERED
     /\ \E y \in lost : y.type = DATA /\ y.hdr = x.hdr /\ y.rid >= rid_ /\ y.rid < m_roundId
AllDeliverable(s) == \A i \in 1 .. Len(s) : Deliverable(s[i])

\* When such packets, new, are forwarded, and the data packets stay in their order,
\* FecPath delivers the data packets of new from its wire and the others from its gap.
LEMMA ForwardIsDeliver ==
  ASSUME IInv, HeldInv, IInv', DeliverInv', HeldInv', UNCHANGED <<m_roundId, lost>>, rid_ <= rid_',
         NEW new \in Seq(Packet), AllDeliverable(new), out' = out \o new,
         Wire \in Seq(Segment), Wire' \in Seq(Segment), Wire = OnPath(new) \o Wire'
  PROVE  Path!Deliver
<1> DEFINE d == OnPath(new)
           n == Len(d)
           back == {x.hdr : x \in {new[i] : i \in {j \in 1 .. Len(new) : new[j].type = RECOVERED}}}
           rebuilt == {g \in Gap : g.rid < m_roundId /\ g.seg \in back}
<1>1. d \in Seq(Segment) /\ Len(new) \in Nat
  BY CollectsExists, CollectsOnPath, LenProperties
<1>2. /\ n \in 0 .. Len(Wire) /\ SubSeq(Wire, 1, n) = d /\ SubSeq(Wire, n + 1, Len(Wire)) = Wire'
      /\ \A i \in 1 .. n : Wire[i] = d[i]
  <2>1. /\ SubSeq(Wire, 1, n) = d /\ SubSeq(Wire, n + 1, Len(Wire)) = Wire' /\ n \in Nat
        /\ Len(Wire') \in Nat /\ Len(Wire) = n + Len(Wire')
    BY <1>1, SplitAt
  <2>2. \A i \in 1 .. n + Len(Wire') : Wire[i] = IF i <= n THEN d[i] ELSE Wire'[i - n]
    BY <1>1, ConcatProperties
  <2> QED
    BY <2>1, <2>2
<1>3. Elements(d) = DataIn(new, Len(new))
  BY OnPathElements
<1>4. /\ out \in Seq(Packet) /\ out' \in Seq(Packet) /\ tq_' \in Seq(Packet)
      /\ Len(out) \in Nat /\ rid_ \in Nat /\ rid_' \in Nat /\ lost \subseteq Packet
      /\ Len(out') = Len(out) + Len(new) /\ Len(out') \in Nat
      /\ \A i \in 1 .. Len(out) + Len(new) :
           out'[i] = IF i <= Len(out) THEN out[i] ELSE new[i - Len(out)]
  BY LenProperties, ConcatProperties DEF IInv, TypeOK
<1>5. ASSUME NEW i \in 1 .. Len(new)
      PROVE  Len(out) + i \in 1 .. Len(out') /\ out'[Len(out) + i] = new[i] /\ new[i] \in Packet
  <2>1. Len(out) + i \in 1 .. Len(out) + Len(new) /\ ~(Len(out) + i <= Len(out))
        /\ (Len(out) + i) - Len(out) = i
    BY <1>1, <1>4
  <2> QED
    BY <1>4, <2>1, ElementOfSeq
<1>6. Single(out')
  <2>1. Single((out \o tq_)')
    BY DEF DeliverInv, Conserved
  <2>2. Single(out' \o tq_')
    BY <2>1
  <2>3. /\ Len(out' \o tq_') = Len(out') + Len(tq_') /\ Len(tq_') \in Nat
        /\ \A i \in 1 .. Len(out') + Len(tq_') :
             (out' \o tq_')[i] = IF i <= Len(out') THEN out'[i] ELSE tq_'[i - Len(out')]
    BY <1>4, ConcatProperties, LenProperties
  <2>4. \A i \in 1 .. Len(out') : i \in 1 .. Len(out' \o tq_') /\ (out' \o tq_')[i] = out'[i]
    BY <1>4, <2>3
  <2> QED
    BY <2>2, <2>4 DEF Single
<1>7. Forwarded' = Forwarded \cup Headers(new)
  BY <1>4, JoinHeaders DEF Forwarded
<1>8. ASSUME NEW i \in 1 .. Len(new), new[i].type # NONE
      PROVE  new[i].hdr # 0 /\ new[i].hdr \notin Forwarded /\ new[i].hdr \in Headers(new)
  <2>1. new[i].hdr # 0
    <3>1. \A j \in 1 .. Len(out') : out'[j].type # NONE => out'[j].hdr # 0
      BY <1>6 DEF Single
    <3> QED
      BY <1>5, <1>8, <3>1
  <2>2. ASSUME NEW j \in 1 .. Len(out), out[j].hdr = new[i].hdr PROVE FALSE
    <3>1. j \in 1 .. Len(out') /\ out'[j] = out[j] /\ j # Len(out) + i
      BY <1>1, <1>4
    <3>2. out[j].type # NONE
      <4>1. out[j].type = NONE => out[j].hdr = 0 \/ Decoded(out[j])
        BY DEF HeldInv, HeldOf, OutPast
      <4> QED
        BY <2>1, <2>2, <4>1 DEF Decoded, NONE, DATA, RECOVERED
    <3> QED
      BY <1>5, <1>6, <1>8, <2>2, <3>1, <3>2 DEF Single
  <2>3. new[i].hdr \notin Forwarded
    BY <1>4, <2>2, HeaderOf DEF Forwarded
  <2> QED
    BY <2>1, <2>3, HeaderOf
<1>9. /\ back \subseteq Headers(new)
      /\ \A h \in back : \E g \in rebuilt : g.seg = h
  <2>1. ASSUME NEW h \in back PROVE h \in Headers(new) /\ \E g \in rebuilt : g.seg = h
    <3>1. PICK i \in 1 .. Len(new) : new[i].type = RECOVERED /\ new[i].hdr = h
      OBVIOUS
    <3>2. h \notin Forwarded /\ h \in Headers(new)
      BY <1>8, <3>1 DEF RECOVERED, NONE
    <3>3. PICK y \in lost : y.type = DATA /\ y.hdr = h /\ y.rid >= rid_ /\ y.rid < m_roundId
      <4>1. Deliverable(new[i])
        BY DEF AllDeliverable
      <4> QED
        BY <3>1, <4>1 DEF Deliverable, RECOVERED, NONE, DATA
    <3>4. Sent(y) \in Gap
      BY <3>2, <3>3 DEF Gap, LostPackets
    <3>5. Sent(y).seg = h /\ Sent(y).rid = y.rid
      BY <3>3 DEF Sent
    <3>6. Sent(y) \in rebuilt
      BY <3>3, <3>4, <3>5
    <3> QED
      BY <3>2, <3>5, <3>6
  <2> QED
    BY <2>1
<1>10. {g.seg : g \in rebuilt} = back
  BY <1>9
<1>11. ASSUME NEW g \in Gap'
       PROVE  g \in Gap /\ g \notin rebuilt /\ g.rid >= rid_' /\ g.rid \in Nat
  <2>1. PICK x \in lost : /\ x.type = DATA /\ x.rid >= rid_' /\ x.hdr \notin Forwarded'
                         /\ g = Sent(x)
    BY DEF Gap, LostPackets
  <2>2. x.rid \in Nat /\ g.rid = x.rid /\ g.seg = x.hdr
    BY <1>4, <2>1 DEF Sent, Packet
  <2>3. x.rid >= rid_ /\ x.hdr \notin Forwarded
    BY <1>4, <1>7, <2>1, <2>2
  <2>4. g \in Gap
    BY <2>1, <2>3 DEF Gap, LostPackets
  <2>5. g.seg \notin back
    BY <1>7, <1>9, <2>1, <2>2
  <2> QED
    BY <2>1, <2>2, <2>4, <2>5
<1>12. ASSUME NEW i \in 1 .. n, NEW g \in Gap' PROVE Wire[i].rid <= g.rid
  <2>1. Wire[i] \in Elements(d)
    BY <1>2 DEF Elements
  <2>2. PICK k \in 1 .. Len(new) : new[k].type = DATA /\ Wire[i] = Sent(new[k])
    BY <1>3, <2>1 DEF DataIn
  <2>3. OutPast(out', rid_')
    BY DEF HeldInv, HeldOf
  <2>4. new[k].rid <= rid_' /\ new[k].rid \in Nat
    <3>1. PICK j \in 1 .. Len(out') : out'[j] = new[k]
      BY <1>5
    <3>2. out'[j].type = NONE \/ out'[j].rid <= rid_'
      BY <2>3 DEF OutPast
    <3>3. new[k].type # NONE /\ new[k] \in Packet
      BY <1>5, <2>2 DEF DATA, NONE
    <3> QED
      BY <3>1, <3>2, <3>3 DEF Packet
  <2>5. Wire[i].rid = new[k].rid
    BY <2>2 DEF Sent
  <2>6. rid_' \in Nat /\ g.rid >= rid_' /\ g.rid \in Nat
    BY <1>4, <1>11
  <2> QED
    BY ONLY <2>4, <2>5, <2>6
<1>13. Headers(new) = {g.seg : g \in Elements(d) \cup rebuilt}
  <2>1. ASSUME NEW h \in Headers(new) PROVE \E g \in Elements(d) \cup rebuilt : g.seg = h
    <3>1. PICK i \in 1 .. Len(new) : new[i].hdr = h /\ h # 0
      BY HeaderOf
    <3>2. CASE new[i].type = DATA
      <4>1. Sent(new[i]) \in Elements(d) /\ Sent(new[i]).seg = h
        BY <1>3, <3>1, <3>2 DEF DataIn, Sent
      <4> QED
        BY <4>1
    <3>3. CASE new[i].type = RECOVERED
      <4>1. h \in back
        BY <3>1, <3>3
      <4> QED
        BY <1>9, <4>1
    <3> QED
      BY <3>1, <3>2, <3>3 DEF AllDeliverable, Deliverable
  <2>2. ASSUME NEW g \in Elements(d) PROVE g.seg \in Headers(new)
    <3>1. PICK k \in 1 .. Len(new) : new[k].type = DATA /\ g = Sent(new[k])
      BY <1>3 DEF DataIn
    <3>2. new[k].hdr \in Headers(new)
      BY <1>8, <3>1 DEF DATA, NONE
    <3> QED
      BY <3>1, <3>2 DEF Sent
  <2>3. \A g \in rebuilt : g.seg \in Headers(new)
    BY <1>9
  <2> HIDE DEF rebuilt, d
  <2> QED
    BY <2>1, <2>2, <2>3
<1>14. Elements(d) = {SubSeq(Wire, 1, n)[i] : i \in DOMAIN SubSeq(Wire, 1, n)}
  <2>1. DOMAIN d = 1 .. Len(d)
    BY <1>1, LenProperties
  <2> QED
    BY <1>2, <2>1 DEF Elements
<1>15. rebuilt \in SUBSET {g \in Gap : g.rid < m_roundId} /\ Gap' \subseteq Gap \ rebuilt
  BY <1>11
<1> HIDE DEF rebuilt, n, d
<1>16. /\ Wire' = SubSeq(Wire, n + 1, Len(Wire))
       /\ \A i \in 1 .. n : \A g \in Gap' : Wire[i].rid <= g.rid
       /\ Forwarded' = Forwarded \cup
            {g.seg : g \in {SubSeq(Wire, 1, n)[i] : i \in DOMAIN SubSeq(Wire, 1, n)} \cup rebuilt}
       /\ m_roundId' = m_roundId /\ n \in 0 .. Len(Wire)
  BY <1>2, <1>7, <1>12, <1>13, <1>14
<1> QED
  BY <1>15, <1>16 DEF Path!Deliver, Path!SegmentsOf, Path!ToSet, Wire, Gap

\* Two sequences in a row, and what is held.
LEMMA DeliverableJoin ==
  ASSUME NEW a \in Seq(Packet), NEW b \in Seq(Packet), AllDeliverable(a), AllDeliverable(b)
  PROVE  a \o b \in Seq(Packet) /\ AllDeliverable(a \o b)
<1>1. /\ Len(a) \in Nat /\ Len(b) \in Nat /\ a \o b \in Seq(Packet)
      /\ Len(a \o b) = Len(a) + Len(b)
      /\ \A i \in 1 .. Len(a) + Len(b) : (a \o b)[i] = IF i <= Len(a) THEN a[i] ELSE b[i - Len(a)]
  BY LenProperties, ConcatProperties
<1>2. ASSUME NEW i \in 1 .. Len(a) + Len(b) PROVE Deliverable((a \o b)[i])
  <2>1. CASE i <= Len(a)
    <3>1. i \in 1 .. Len(a)
      BY <2>1
    <3>2. Deliverable(a[i])
      BY <3>1 DEF AllDeliverable
    <3> QED
      BY <1>1, <2>1, <3>2
  <2>2. CASE ~(i <= Len(a))
    <3>1. i - Len(a) \in 1 .. Len(b)
      BY <1>1, <2>2
    <3>2. Deliverable(b[i - Len(a)])
      BY <3>1 DEF AllDeliverable
    <3> QED
      BY <1>1, <2>2, <3>2
  <2> QED
    BY <2>1, <2>2
<1> QED
  BY <1>1, <1>2 DEF AllDeliverable

LEMMA HeldDeliverable ==
  ASSUME IInv, NEW a, NEW q, NEW rid \in Nat, rid_ <= rid, NEW live,
         HeldOf(a, q, rid, lost, m_roundId, live)
  PROVE  AllDeliverable(q)
<1> SUFFICES ASSUME NEW i \in 1 .. Len(q) PROVE Deliverable(q[i])
  BY DEF AllDeliverable
<1>1. Holdable(q[i], rid, lost, m_roundId)
  BY DEF HeldOf
<1>2. q[i].type \in {DATA, RECOVERED}
  BY <1>1 DEF Holdable, Decoded
<1>3. CASE q[i].type = RECOVERED
  <2>1. PICK y \in lost : y.type = DATA /\ y.hdr = q[i].hdr /\ y.rid = rid /\ rid < m_roundId
    BY <1>1, <1>3 DEF Holdable
  <2>2. rid_ \in Nat
    BY DEF IInv, TypeOK
  <2> QED
    BY <1>3, <2>1, <2>2 DEF Deliverable
<1> QED
  BY <1>2, <1>3 DEF Deliverable

\* Packet p is put at the end of the queue when it is consumed.
LEMMA ConsumedLast ==
  ASSUME NEW p, NEW r, NEW a, NEW q, Holding(p, r, a, q), p.type = DATA
  PROVE  InsertTransitQueue(q, p) = Append(q, p)
<1>1. /\ p \in Packet /\ a \in Seq(Packet) /\ q \in Seq(Packet) /\ Headers(a \o q) = Kept
      /\ HeldOf(a, q, p.rid, lost, m_roundId, TRUE) /\ Len(q) \in Nat
  BY LenProperties DEF Holding
<1> DEFINE t == InsertTransitQueue(q, p)
<1>2. PICK k : Inserted(t, q, p, k) /\ (k \in 1 .. Len(q) => t # <<>> /\ q[k].serial > p.serial)
  <2>1. PICK k : Inserted(t, q, p, k) /\ (k \in 1 .. Len(q) => q[k].serial > p.serial)
    BY <1>1, TransitInsert
  <2>2. Len(t) # 0
    BY <1>1, <2>1 DEF Inserted
  <2> QED
    BY <2>1, <2>2
<1> HIDE DEF t
<1>3. ASSUME k \in 1 .. Len(q) PROVE FALSE
  <2>1. Decoded(q[k]) /\ q[k].rid = p.rid
    BY <1>1, <1>3 DEF HeldOf, Holdable
  <2>2. q[k].hdr # 0
    BY <2>1, NumberOrder DEF Decoded
  <2>3. q[k].hdr \in Kept
    <3>1. q[k].hdr \in Headers(q)
      BY <1>1, <1>3, <2>2, HeaderOf
    <3> QED
      BY <1>1, <3>1, JoinHeaders
  <2>4. Decoded(p) /\ q[k].hdr < p.hdr
    BY <2>3, HeadIsLast
  <2>5. q[k].serial < p.serial
    BY <2>1, <2>4, NumberOrder DEF Decoded
  <2>6. q[k].serial \in Nat /\ p.serial \in Nat
    BY <1>1, <2>1 DEF Decoded, Packet
  <2> QED
    BY <1>2, <1>3, <2>5, <2>6
<1>4. /\ t \in Seq(Packet) /\ Len(t) = Len(q) + 1 /\ k = Len(q) + 1 /\ t[Len(q) + 1] = p
      /\ \A i \in 1 .. Len(q) : t[i] = q[i]
  <2>1. k = Len(q) + 1
    BY <1>1, <1>2, <1>3 DEF Inserted
  <2>2. \A i \in 1 .. Len(q) : i < k
    BY <1>1, <2>1
  <2> QED
    BY <1>2, <2>1, <2>2 DEF Inserted
<1> DEFINE u == Append(q, p)
<1>5. /\ u \in Seq(Packet) /\ Len(u) = Len(q) + 1 /\ u[Len(q) + 1] = p
      /\ \A i \in 1 .. Len(q) : u[i] = q[i]
  BY <1>1, AppendProperties
<1> HIDE DEF u
<1>6. \A i \in 1 .. Len(t) : i \in 1 .. Len(q) \/ i = Len(q) + 1
  BY <1>1, <1>4
<1>7. t = u
  BY <1>4, <1>5, <1>6, SeqEqual
<1> QED
  BY <1>7 DEF t, u

\* What leaves the queue, m, when the packet at the head is handled.
Moves(p, a, q, m) ==
  /\ m \in Seq(Packet) /\ AllDeliverable(m) /\ out' = a \o m
  /\ tq_' \in Seq(Packet) /\ OnPath(q) \o OnPath(<<p>>) = OnPath(m) \o OnPath(tq_')

\* Sequences without data packets.
LEMMA NoDataOnPath ==
  ASSUME NEW s \in Seq(Packet), \A i \in 1 .. Len(s) : s[i].type # DATA
  PROVE  OnPath(s) = <<>>
<1>1. OnPath(s) \in Seq(Segment) /\ Len(OnPath(s)) \in Nat
  BY CollectsExists, CollectsOnPath, LenProperties
<1>2. Elements(OnPath(s)) = {}
  BY OnPathElements DEF DataIn
<1>3. Len(OnPath(s)) = 0
  <2>1. Len(OnPath(s)) # 0 => 1 \in 1 .. Len(OnPath(s))
    BY <1>1
  <2>2. 1 \in 1 .. Len(OnPath(s)) => OnPath(s)[1] \in Elements(OnPath(s))
    BY DEF Elements
  <2> QED
    BY <1>2, <2>1, <2>2
<1> QED
  BY <1>1, <1>3, EmptySeq

\* A data packet.
LEMMA DataMoves ==
  ASSUME NEW p, NEW r, NEW a, NEW q, Holding(p, r, a, q), p.type = DATA, rid_ <= p.rid
  PROVE  \E m : Moves(p, a, q, m)
<1>1. /\ p \in Packet /\ p.rid \in Nat /\ a \in Seq(Packet) /\ q \in Seq(Packet) /\ IInv
      /\ HeldOf(a, q, p.rid, lost, m_roundId, TRUE) /\ Queued(p, r, a, q) /\ r.flag \in {0, 1, 2}
  BY DEF Holding
<1>2. /\ <<p>> \in Seq(Packet) /\ <<>> \in Seq(Packet) /\ Len(<<>>) = 0 /\ OnPath(<<>>) = <<>>
      /\ AllDeliverable(<<>>) /\ AllDeliverable(<<p>>)
  <2>1. <<p>> \in Seq(Packet) /\ <<>> \in Seq(Packet) /\ Len(<<>>) = 0 /\ OnPath(<<>>) = <<>>
    BY <1>1, OnPathFew
  <2>2. AllDeliverable(<<>>)
    BY <2>1 DEF AllDeliverable
  <2>3. Len(<<p>>) = 1 /\ <<p>>[1] = p /\ \A i \in 1 .. 1 : i = 1
    OBVIOUS
  <2>4. AllDeliverable(<<p>>)
    BY <2>3 DEF AllDeliverable, Deliverable
  <2> QED
    BY <2>1, <2>2, <2>4
<1>3. AllDeliverable(q)
  BY <1>1, HeldDeliverable
<1>4. OnPath(q) \in Seq(Segment) /\ OnPath(<<p>>) \in Seq(Segment)
  BY <1>1, <1>2, CollectsExists, CollectsOnPath
<1>5. OnPath(q \o <<p>>) = OnPath(q) \o OnPath(<<p>>)
  BY <1>1, <1>2, OnPathJoin
<1>6. CASE r.flag = 1
  <2>1. out' = a /\ tq_' = InsertTransitQueue(q, p)
    BY <1>1, <1>6 DEF Queued
  <2>2. tq_' = q \o <<p>> /\ tq_' \in Seq(Packet)
    <3>1. Append(q, p) = q \o <<p>> /\ Append(q, p) \in Seq(Packet)
      BY <1>1, AppendIsConcat, AppendProperties
    <3> QED
      BY <2>1, <3>1, ConsumedLast
  <2>3. a \o <<>> = a /\ <<>> \o OnPath(tq_') = OnPath(tq_')
    <3>1. OnPath(tq_') \in Seq(Segment)
      BY <2>2, CollectsExists, CollectsOnPath
    <3> QED
      BY <1>1, <3>1, ConcatEmptySeq
  <2>4. Moves(p, a, q, <<>>)
    BY <1>2, <1>5, <2>1, <2>2, <2>3 DEF Moves
  <2> QED
    BY <2>4
<1>7. CASE r.flag = 2
  <2>1. out' = (a \o q) \o <<p>> /\ tq_' = <<>>
    BY <1>1, <1>7 DEF Queued
  <2>2. q \o <<p>> \in Seq(Packet) /\ AllDeliverable(q \o <<p>>)
    BY <1>1, <1>2, <1>3, DeliverableJoin
  <2>3. (a \o q) \o <<p>> = a \o (q \o <<p>>)
    <3>1. \A u, v, w \in Seq(Packet) : (u \o v) \o w = u \o (v \o w)
      BY ConcatAssociative
    <3> QED
      BY <1>1, <1>2, <3>1
  <2>4. OnPath(q \o <<p>>) \o <<>> = OnPath(q \o <<p>>)
    <3>1. OnPath(q \o <<p>>) \in Seq(Segment)
      BY <2>2, CollectsExists, CollectsOnPath
    <3> QED
      BY <3>1, ConcatEmptySeq
  <2>5. Moves(p, a, q, q \o <<p>>)
    BY <1>2, <1>5, <2>1, <2>2, <2>3, <2>4 DEF Moves
  <2> QED
    BY <2>5
<1>8. CASE r.flag = 0
  <2>1. out' = a \o <<p>> /\ tq_' = q
    BY <1>1, <1>8 DEF Queued
  <2>2. OnPath(q) = <<>>
    <3>1. CASE StoreMode
      BY <1>2, <1>8, <3>1, NothingHeld
    <3>2. CASE ~StoreMode
      <4>1. \A i \in 1 .. Len(q) : q[i].type # DATA
        BY <1>1, <3>2 DEF HeldOf, Holdable
      <4> QED
        BY <1>1, <4>1, NoDataOnPath
    <3> QED
      BY <3>1, <3>2
  <2>3. <<>> \o OnPath(<<p>>) = OnPath(<<p>>) /\ OnPath(<<p>>) \o <<>> = OnPath(<<p>>)
    BY <1>4, ConcatEmptySeq
  <2>4. Moves(p, a, q, <<p>>)
    BY <1>1, <1>2, <2>1, <2>2, <2>3 DEF Moves
  <2> QED
    BY <2>4
<1> QED
  BY <1>1, <1>6, <1>7, <1>8

\* A redundant packet.
LEMMA RedundantMoves ==
  ASSUME NEW p, NEW r, NEW a, NEW q, Holding(p, r, a, q), p.type = REDUNDANT, rid_ <= p.rid,
         RecvOnGroups(r, p), r.recovered \in Seq(PacketInfo), p.rid < m_roundId
  PROVE  \E m : Moves(p, a, q, m)
<1>1. /\ p \in Packet /\ p.rid \in Nat /\ a \in Seq(Packet) /\ q \in Seq(Packet) /\ IInv
      /\ Queued(p, r, a, q)
  BY DEF Holding
<1>2. <<>> \in Seq(Packet) /\ Len(<<>>) = 0 /\ OnPath(<<>>) = <<>> /\ AllDeliverable(<<>>)
  BY OnPathFew DEF AllDeliverable
<1>3. r.tq \in Seq(Packet) /\ HeldOf(a, r.tq, p.rid, lost, m_roundId, TRUE)
  BY RebuiltHeld
<1>4. AllDeliverable(r.tq)
  BY <1>1, <1>3, HeldDeliverable
<1>5. OnPath(r.tq) = OnPath(q)
  <2>1. CASE r.recovered = <<>>
    BY <1>1, <2>1 DEF Queued
  <2>2. CASE r.recovered # <<>>
    <3>1. PICK x : x = RecoveryPacket(p, r.recovered[1])
      OBVIOUS
    <3>2. r.tq = InsertTransitQueue(q, x) /\ x \in Packet /\ x.type = RECOVERED
      BY <2>2, <3>1, RebuiltHeld
    <3>3. PICK k : Inserted(r.tq, q, x, k)
      BY <1>1, <3>2, TransitInsert
    <3>4. x.type # DATA
      BY <3>2 DEF DATA, RECOVERED
    <3> QED
      BY <1>1, <3>2, <3>3, <3>4, OnPathInserted
  <2> QED
    BY <2>1, <2>2
<1>6. OnPath(<<p>>) = <<>>
  <2>1. p.type # DATA
    BY DEF DATA, REDUNDANT
  <2> QED
    BY <1>1, <2>1, OnPathFew
<1>7. OnPath(q) \o <<>> = OnPath(q) /\ <<>> \o OnPath(q) = OnPath(q) /\ a \o <<>> = a
  <2>1. OnPath(q) \in Seq(Segment)
    BY <1>1, CollectsExists, CollectsOnPath
  <2> QED
    BY <1>1, <2>1, ConcatEmptySeq
<1>8. CASE r.flag = 2
  <2>1. out' = a \o r.tq /\ tq_' = <<>>
    BY <1>1, <1>8 DEF Queued
  <2>2. Moves(p, a, q, r.tq)
    BY <1>2, <1>3, <1>4, <1>5, <1>6, <1>7, <2>1 DEF Moves
  <2> QED
    BY <2>2
<1>9. CASE r.flag # 2
  <2>1. out' = a /\ tq_' = r.tq
    BY <1>1, <1>9 DEF Queued
  <2>2. Moves(p, a, q, <<>>)
    BY <1>2, <1>3, <1>5, <1>6, <1>7, <2>1 DEF Moves
  <2> QED
    BY <2>2
<1> QED
  BY <1>8, <1>9

Joined(x, y) == x \o y

\* Three sequences in a row.
LEMMA JoinedAssociative ==
  ASSUME NEW T
  PROVE  \A x, y, z \in Seq(T) : Joined(Joined(x, y), z) = Joined(x, Joined(y, z))
BY ConcatAssociative DEF Joined

\* The parts of the wire, regrouped.
LEMMA Regrouped ==
  ASSUME NEW T, NEW b \in Seq(T), NEW q \in Seq(T), NEW p \in Seq(T), NEW m \in Seq(T),
         NEW w \in Seq(T), NEW t \in Seq(T), Joined(q, p) = Joined(m, w)
  PROVE  Joined(Joined(b, q), Joined(p, t)) = Joined(Joined(b, m), Joined(w, t))
<1>1. \A x, y, z \in Seq(T) : Joined(Joined(x, y), z) = Joined(x, Joined(y, z))
  BY JoinedAssociative
<1>2. \A x, y \in Seq(T) : Joined(x, y) \in Seq(T)
  BY ConcatProperties DEF Joined
<1>3. Joined(Joined(b, q), Joined(p, t)) = Joined(b, Joined(Joined(q, p), t))
  BY <1>1, <1>2
<1>4. Joined(Joined(b, m), Joined(w, t)) = Joined(b, Joined(Joined(m, w), t))
  BY <1>1, <1>2
<1> QED
  BY <1>3, <1>4

\* IpForward delivers: what was held if the packet is of a new round, and what moves.
LEMMA IpForwardIsDeliver ==
  ASSUME IInv, AskInv, LossInv, DeliverInv, NumberInv, HeldInv, IpForward,
         IInv', DeliverInv', HeldInv'
  PROVE  Path!Deliver
<1>1. PICK p, r : p = Head(link) /\ r = Recv(Waiting(p), p)
  OBVIOUS
<1>2. PICK a, q : a = Released(p) /\ q = Waiting(p)
  OBVIOUS
<1>3. /\ Holding(p, r, a, q) /\ rid_ <= p.rid /\ rid_' = p.rid /\ link' = Tail(link)
      /\ p.type = DATA \/ (p.type = REDUNDANT /\ RecvOnGroups(r, p) /\ p.rid < m_roundId)
      /\ r.recovered \in Seq(PacketInfo) /\ UNCHANGED <<m_roundId, lost>>
  BY <1>1, <1>2, HeadHandled
<1>4. PICK m : Moves(p, a, q, m)
  BY <1>3, DataMoves, RedundantMoves
<1>5. /\ link # <<>> /\ link \in Seq(Packet) /\ tq_ \in Seq(Packet) /\ out \in Seq(Packet)
      /\ q \in Seq(Packet) /\ m \in Seq(Packet) /\ tq_' \in Seq(Packet) /\ rid_ \in Nat
  BY <1>3, <1>4 DEF Holding, Moves, IInv, TypeOK
<1>6. PICK b \in Seq(Packet) : a = out \o b /\ tq_ = b \o q /\ AllDeliverable(b)
  <2>1. CASE rid_ < p.rid
    <3>1. a = out \o tq_ /\ q = <<>>
      BY <1>2, <2>1 DEF Released, Waiting
    <3>2. AllDeliverable(tq_)
      <4>1. HeldOf(out, tq_, rid_, lost, m_roundId, rt_ # <<>> /\ rt_[1].rid <= rid_)
        BY DEF HeldInv
      <4>2. rid_ <= rid_
        BY <1>5
      <4> QED
        BY <1>5, <4>1, <4>2, HeldDeliverable
    <3> QED
      BY <1>5, <3>1, <3>2, ConcatEmptySeq
  <2>2. CASE ~(rid_ < p.rid)
    <3>1. a = out /\ q = tq_
      BY <1>2, <2>2 DEF Released, Waiting
    <3>2. <<>> \in Seq(Packet) /\ AllDeliverable(<<>>)
      BY EmptySeq DEF AllDeliverable
    <3> QED
      BY <1>5, <3>1, <3>2, ConcatEmptySeq
  <2> QED
    BY <2>1, <2>2
<1>7. PICK new : new = b \o m
  OBVIOUS
<1>8. new \in Seq(Packet) /\ AllDeliverable(new) /\ out' = out \o new
  <2>1. (out \o b) \o m = out \o (b \o m)
    <3>1. out \in Seq(Packet) /\ b \in Seq(Packet) /\ m \in Seq(Packet)
      BY <1>5, <1>6
    <3>2. \A x, y, z \in Seq(Packet) : Joined(Joined(x, y), z) = Joined(x, Joined(y, z))
      BY ONLY JoinedAssociative
    <3>3. Joined(Joined(out, b), m) = Joined(out, Joined(b, m))
      BY ONLY <3>1, <3>2
    <3> QED
      BY ONLY <3>3 DEF Joined
  <2>2. AllDeliverable(m) /\ out' = a \o m
    BY <1>4 DEF Moves
  <2> QED
    BY <1>5, <1>6, <1>7, <2>1, <2>2, DeliverableJoin
<1>9. /\ Wire = OnPath(tq_) \o (OnPath(<<p>>) \o OnPath(Tail(link)))
      /\ OnPath(<<p>>) \in Seq(Segment) /\ OnPath(Tail(link)) \in Seq(Segment)
      /\ Tail(link) \in Seq(Packet)
  BY <1>1, <1>5, WireHead
<1>10. /\ OnPath(b) \in Seq(Segment) /\ OnPath(q) \in Seq(Segment) /\ OnPath(m) \in Seq(Segment)
       /\ OnPath(tq_') \in Seq(Segment)
  BY <1>5, CollectsExists, CollectsOnPath
<1>11. OnPath(tq_) = OnPath(b) \o OnPath(q) /\ OnPath(new) = OnPath(b) \o OnPath(m)
  BY <1>5, <1>6, <1>7, OnPathJoin
<1>12. Wire' = OnPath(tq_') \o OnPath(Tail(link))
  <2>1. Wire' = OnPath(tq_' \o Tail(link))
    BY <1>3 DEF Wire, OnPath, Sent
  <2> QED
    BY <1>5, <1>9, <2>1, OnPathJoin
<1>13. OnPath(q) \o OnPath(<<p>>) = OnPath(m) \o OnPath(tq_')
  BY <1>4 DEF Moves
<1>14. Wire = OnPath(new) \o Wire'
  <2>1. Joined(OnPath(q), OnPath(<<p>>)) = Joined(OnPath(m), OnPath(tq_'))
    BY <1>13 DEF Joined
  <2>2. Joined(Joined(OnPath(b), OnPath(q)), Joined(OnPath(<<p>>), OnPath(Tail(link))))
          = Joined(Joined(OnPath(b), OnPath(m)), Joined(OnPath(tq_'), OnPath(Tail(link))))
    BY <1>9, <1>10, <2>1, Regrouped
  <2>3. /\ OnPath(tq_) = Joined(OnPath(b), OnPath(q)) /\ OnPath(new) = Joined(OnPath(b), OnPath(m))
        /\ Wire' = Joined(OnPath(tq_'), OnPath(Tail(link)))
    BY <1>11, <1>12 DEF Joined
  <2>4. Wire = Joined(OnPath(tq_), Joined(OnPath(<<p>>), OnPath(Tail(link))))
    BY <1>9 DEF Joined
  <2>5. Wire = Joined(OnPath(new), Wire')
    BY <2>2, <2>3, <2>4
  <2> QED
    BY <2>5 DEF Joined
<1>15. Wire \in Seq(Segment) /\ Wire' \in Seq(Segment)
  BY <1>9, <1>10, <1>11, <1>12, <1>14, ConcatProperties
<1> QED
  BY <1>3, <1>8, <1>14, <1>15, ForwardIsDeliver

\* IpForwardSmall delivers nothing.
LEMMA IpForwardSmallIsDeliver ==
  ASSUME IInv, DeliverInv, HeldInv, IpForwardSmall, IInv', DeliverInv', HeldInv'
  PROVE  Path!Deliver
<1>1. PICK p : p = Head(link)
  OBVIOUS
<1>2. /\ link # <<>> /\ link' = Tail(link) /\ p.type = NONE /\ out' = Append(out, p)
      /\ UNCHANGED <<m_roundId, lost, tq_, rid_>>
  BY <1>1 DEF IpForwardSmall, encoder
<1>3. link \in Seq(Packet) /\ tq_ \in Seq(Packet) /\ out \in Seq(Packet) /\ rid_ \in Nat
  BY DEF IInv, TypeOK
<1>4. /\ Wire = OnPath(tq_) \o (OnPath(<<p>>) \o OnPath(Tail(link)))
      /\ OnPath(tq_) \in Seq(Segment) /\ OnPath(Tail(link)) \in Seq(Segment)
      /\ <<p>> \in Seq(Packet) /\ p \in Packet /\ Tail(link) \in Seq(Packet)
  BY <1>1, <1>2, <1>3, WireHead
<1>5. p.type # DATA
  BY <1>2 DEF DATA, NONE
<1>6. p.hdr = 0
  <2>1. PathRises(link, m_sentdatapkt) /\ PastBelow(lost, Kept, link)
    BY DEF DeliverInv, Conserved, Kept
  <2> QED
    BY <1>1, <1>2, <1>3, <1>5, <2>1, TailRises
<1>7. OnPath(<<p>>) = <<>>
  BY <1>4, <1>5, OnPathFew
<1>8. AllDeliverable(<<p>>)
  <2>1. Len(<<p>>) = 1 /\ <<p>>[1] = p /\ \A i \in 1 .. 1 : i = 1
    OBVIOUS
  <2> QED
    BY <1>2, <1>6, <2>1 DEF AllDeliverable, Deliverable
<1>9. out' = out \o <<p>>
  BY <1>2, <1>3, <1>4, AppendIsConcat
<1>10. Wire' = OnPath(tq_) \o OnPath(Tail(link))
  <2>1. Wire' = OnPath(tq_ \o Tail(link))
    BY <1>2 DEF Wire, OnPath, Sent
  <2> QED
    BY <1>3, <1>4, <2>1, OnPathJoin
<1>11. Wire' \in Seq(Segment) /\ Wire = Wire' /\ Wire = OnPath(<<p>>) \o Wire'
  <2>1. <<>> \o OnPath(Tail(link)) = OnPath(Tail(link))
    BY <1>4, ConcatEmptySeq
  <2>2. Wire = Wire' /\ Wire' \in Seq(Segment)
    BY <1>4, <1>7, <1>10, <2>1, ConcatProperties
  <2>3. <<>> \o Wire' = Wire'
    BY <2>2, ConcatEmptySeq
  <2> QED
    BY <1>7, <2>2, <2>3
<1>12. rid_ <= rid_'
  BY <1>2, <1>3
<1> QED
  BY <1>2, <1>4, <1>8, <1>9, <1>11, <1>12, ForwardIsDeliver

\* The packet of a step of the encoder.
LEMMA SendsPacket ==
  ASSUME IInv, SendData \/ SendSmall \/ SendFecPacket
  PROVE  /\ UNCHANGED <<tq_, rid_, out, lost>> /\ m_roundId' \in Nat /\ m_roundId <= m_roundId'
         /\ \E p \in Packet : link' = Append(link, p) /\ (p.type = DATA => p.rid = m_roundId)
<1>1. /\ TypeOK /\ m_roundId \in Nat /\ m_sentdatapkt + 1 \in Nat /\ 0 \in Nat
      /\ TRUE \in BOOLEAN /\ FALSE \in BOOLEAN
      /\ DATA \in {DATA, REDUNDANT} /\ REDUNDANT \in {DATA, REDUNDANT}
  <2>1. TypeOK /\ m_roundId \in Nat /\ m_sentdatapkt \in Nat
    BY QueuesNow DEF IInv
  <2>2. m_sentdatapkt + 1 \in Nat /\ 0 \in Nat
    BY ONLY <2>1
  <2> QED
    BY <2>1, <2>2
<1>2. CASE SendData
  <2>1. UNCHANGED <<m_roundId, tq_, rid_, out, lost>>
        /\ link' = Append(link, Tagged(DATA, m_sentdatapkt + 1))
    BY <1>2 DEF SendData, CreateDataPacket, decoder
  <2>2. Tagged(DATA, m_sentdatapkt + 1) \in Packet
    BY <1>1, MadeTypes
  <2>3. Tagged(DATA, m_sentdatapkt + 1).rid = m_roundId
    BY DEF Tagged
  <2> QED
    BY <1>1, <2>1, <2>2, <2>3
<1>3. CASE SendSmall
  <2> DEFINE p == [type |-> NONE, serial |-> 0, rid |-> 0, gid |-> 0, hdr |-> 0]
  <2>1. UNCHANGED <<m_roundId, tq_, rid_, out, lost>> /\ link' = Append(link, p)
    BY <1>3 DEF SendSmall, decoder
  <2>2. p \in Packet /\ p.type # DATA
    BY NGroupsAssumption DEF Packet, Groups, NONE, DATA
  <2> HIDE DEF p
  <2> QED
    BY <1>1, <2>1, <2>2
<1>4. CASE SendFecPacket
  <2>1. /\ UNCHANGED <<tq_, rid_, out, lost>> /\ link' = Append(link, Tagged(REDUNDANT, 0))
        /\ m_roundId' = m_roundId \/ m_roundId' = m_roundId + 1
    BY <1>4 DEF SendFecPacket, CreateFecPacket, decoder
  <2>2. Tagged(REDUNDANT, 0) \in Packet
    BY <1>1, MadeTypes
  <2>3. Tagged(REDUNDANT, 0).rid = m_roundId
    BY DEF Tagged
  <2>4. m_roundId' \in Nat /\ m_roundId <= m_roundId'
    BY <1>1, <2>1
  <2> QED
    BY <2>1, <2>2, <2>3, <2>4
<1> QED
  BY <1>2, <1>3, <1>4

\* What the hosts see of the two routers.
pathVars == <<Wire, Gap, m_roundId, Forwarded>>

\* Every step is a step of FecPath, or changes nothing of what the hosts see.
LEMMA NextImplements ==
  ASSUME IInv, AskInv, LossInv, DeliverInv, NumberInv, HeldInv, [Next]_vars,
         IInv', DeliverInv', HeldInv'
  PROVE  [Path!Send \/ Path!Lose \/ Path!Deliver]_pathVars
<1>1. CASE SendData \/ SendSmall \/ SendFecPacket
  BY <1>1, SendsPacket, WireGrows
<1>2. CASE Lose
  BY <1>2, LoseIsLose DEF pathVars
<1>3. CASE IpForwardSmall
  BY <1>3, IpForwardSmallIsDeliver
<1>4. CASE IpForward
  BY <1>4, IpForwardIsDeliver
<1>5. CASE UNCHANGED vars
  <2>1. UNCHANGED <<tq_, link, lost, rid_, out, m_roundId>>
    BY <1>5 DEF vars, encoder, decoder
  <2>2. Wire' = Wire
    BY <2>1 DEF Wire, OnPath, Sent
  <2>3. Forwarded' = Forwarded
    BY <2>1 DEF Forwarded
  <2>4. Gap' = Gap
    BY <2>1, <2>3 DEF Gap, LostPackets
  <2> QED
    BY <2>1, <2>2, <2>3, <2>4 DEF pathVars
<1> QED
  BY <1>1, <1>2, <1>3, <1>4, <1>5 DEF Next

\* The initial state is one of FecPath's.
LEMMA InitImplements ==
  ASSUME Init
  PROVE  Path!Init
<1>1. link = <<>> /\ tq_ = <<>> /\ out = <<>> /\ lost = {} /\ m_roundId = 1
  BY DEF Init
<1>2. <<>> \o <<>> = <<>> /\ DOMAIN <<>> = {}
  OBVIOUS
<1>3. Wire = <<>>
  BY <1>1, <1>2, OnPathFew DEF Wire
<1>4. Gap = {}
  BY <1>1 DEF Gap, LostPackets
<1>5. Forwarded = {}
  BY <1>1, <1>2 DEF Forwarded, Headers
<1> QED
  BY <1>1, <1>3, <1>4, <1>5 DEF Path!Init, Wire, Gap

\* The encoder and the decoder implement FecPath: to the hosts the two routers
\* and what is between them are a path that keeps the order of packets, loses
\* some, and gives back none but those of completed rounds that it lost.
THEOREM RouterImplementsFecPath == Spec => ImplementsFecPath
<1> DEFINE Inv == IInv /\ AskInv /\ LossInv /\ DeliverInv /\ NumberInv /\ HeldInv
<1>1. Inv /\ [Next]_vars => Inv'
  BY NextKeeps, NextAsks, NextCounts, NextDelivers, NextNumbers, NextHolds
<1>2. Init => Inv
  BY InitHolds, InitAsks, InitCounts, InitDelivers, InitNumbers, InitHeld
<1>3. Init => Path!Init
  BY InitImplements
<1>4. Inv /\ Inv' /\ [Next]_vars => [Path!Send \/ Path!Lose \/ Path!Deliver]_pathVars
  BY NextImplements
<1> QED
  BY <1>1, <1>2, <1>3, <1>4, PTL DEF Spec, ImplementsFecPath, Path!Spec, pathVars, Wire, Gap
=============================================================================
