------------------------------ MODULE FecRouter ------------------------------
(***************************************************************************)
(* Packet-level FEC between two routers.  The encoder                      *)
(* (Ipv4L3ProtocolwithFecEncode::SendRealOut) numbers the data packets of  *)
(* a round, spreads them over NGroups groups and after Fwin * NGroups of   *)
(* them sends one redundant packet per group.  The decoder                 *)
(* (Ipv4L3ProtocolwithFecDecode::IpForward) holds the packets that follow  *)
(* a loss in a transit queue until the round is decided, rebuilds what can *)
(* be rebuilt, and asks the TCP sender for what it misses.                 *)
(*                                                                         *)
(* Both routers work on ONE FecRouterAgent object                          *)
(* (FecRouterAgentHelper::Set): the encoder appends to the tables that the *)
(* decoder marks and pops, while packets are in flight between them.  The  *)
(* simulator runs one event at a time; SendRealOut and IpForward are       *)
(* events, and the while (fc_ == 0) loop of the former is one step per     *)
(* iteration during which nothing else can run.                            *)
(*                                                                         *)
(* The path between the routers is a FIFO that loses packets (the          *)
(* simulations install FifoQueueDisc everywhere).  A loss is only visible  *)
(* as the packet not arriving, so it is enough to lose the packet at the   *)
(* head.                                                                   *)
(***************************************************************************)
EXTENDS FecTables

CONSTANTS StoreMode,   \* hold the packets that follow a loss (m_storeMode)
          MaxData,     \* bound: data packets the sources send
          MaxSmall     \* bound: packets below the segment size they send

ASSUME StoreModeAssumption == StoreMode \in BOOLEAN
ASSUME BoundsAssumption == MaxData \in Nat /\ MaxSmall \in Nat

VARIABLES
  init_, fc_, ic_,                      \* Ipv4L3ProtocolwithFecEncode
  m_serial, m_roundId, m_groupId,       \* FecRouterAgent, sending side
  m_sentdatapkt, m_sentfecpkt,
  rt_, gt_,                             \* FecRouterAgent, shared tables
  tq_, m_recover,                       \* FecRouterAgent, receiving side
  m_lostdatapkt, m_lostfecpkt,
  rid_,                                 \* Ipv4L3ProtocolwithFecDecode
  link,                                 \* packets between the two routers
  small,                                \* small packets sent so far
  lost,                                 \* history: packets the path lost
  out,                                  \* history: packets the decoder forwarded
  asked                                 \* history: RxRequests it sent, per data packet

encoder == <<init_, fc_, ic_, m_serial, m_roundId, m_groupId, m_sentdatapkt, m_sentfecpkt>>
counters == <<m_recover, m_lostdatapkt, m_lostfecpkt>>
decoder == <<tq_, counters, rid_, out, asked>>
vars == <<encoder, rt_, gt_, decoder, link, small, lost>>

\* A packet with its FecTag.  hdr is its TCP and IP header: the number of the
\* data packet, in the order in which the encoder saw them.
Packet == [type : {NONE, DATA, REDUNDANT, RECOVERED}, serial : Nat, rid : Nat,
           gid : Groups, hdr : Nat]

\* fc_ and ic_ are uint32_t; -1 stands for 2^32 - 1, their value before the
\* first round, from which fewer than 2^32 decrements never reach 0.  The two
\* loss counters are pinned by LossesCounted.
TypeOK ==
  /\ init_ \in BOOLEAN /\ fc_ \in Int /\ ic_ \in Int
  /\ m_serial \in Nat /\ m_roundId \in Nat /\ m_groupId \in Groups
  /\ m_sentdatapkt \in 0 .. MaxData /\ m_sentfecpkt \in Nat
  /\ rt_ \in Seq(RoundFecTable) /\ gt_ \in Seq(GroupFecTable)
  /\ \A i \in 1 .. Len(rt_) : rt_[i].n = NGroups
  /\ tq_ \in Seq(Packet) /\ rid_ \in Nat
  /\ m_recover \in Nat
  /\ link \in Seq(Packet) /\ small \in 0 .. MaxSmall
  /\ lost \in SUBSET Packet /\ out \in Seq(Packet) /\ asked \in [1 .. MaxData -> Nat]

Init ==
  /\ init_ = TRUE /\ fc_ = -1 /\ ic_ = -1
  /\ m_serial = 1 /\ m_roundId = 1 /\ m_groupId = 0
  /\ m_sentdatapkt = 0 /\ m_sentfecpkt = 0
  /\ rt_ = <<>> /\ gt_ = <<>> /\ tq_ = <<>> /\ rid_ = 1
  /\ m_recover = 0 /\ m_lostdatapkt = 0 /\ m_lostfecpkt = 0
  /\ link = <<>> /\ small = 0 /\ lost = {} /\ out = <<>> /\ asked = [h \in 1 .. MaxData |-> 0]
-----------------------------------------------------------------------------
(* Encoder *)

\* No SendRealOut is inside its while (fc_ == 0).
Idle == fc_ # 0

Entry(isfec, hdr) ==
  [serial |-> m_serial, gid |-> m_groupId, fec |-> isfec, hdr |-> hdr,
   check |-> FALSE, flag |-> FALSE]
Tagged(type, hdr) ==
  [type |-> type, serial |-> m_serial, rid |-> m_roundId, gid |-> m_groupId, hdr |-> hdr]

\* The rotation of the groups in CreateDataPacket.
NextGroupLate(g) == IF g = NGroups THEN 0 ELSE g + 1
NextGroup(g) == IF g + 1 = NGroups THEN 0 ELSE g + 1

\* The packet is tagged for the path and recorded in the round at the back of
\* the tables; the next one goes to the next group.
CreateDataPacket(rt, gt) ==
  LET hdr == m_sentdatapkt + 1
  IN  /\ rt_' = RoundPush(rt, Entry(FALSE, hdr))
      /\ gt_' = GroupPush(gt, Entry(FALSE, hdr))
      /\ link' = Append(link, Tagged(DATA, hdr))
      /\ m_sentdatapkt' = hdr
      /\ m_groupId' = NextGroup(m_groupId)
      /\ m_serial' = m_serial + 1

\* SendRealOut for a packet larger than a segment.  The first packet of all
\* opens round 1.
SendData ==
  /\ Idle
  /\ m_sentdatapkt < MaxData
  /\ CreateDataPacket(IF init_ THEN WithRound(rt_, m_roundId, NGroups) ELSE rt_,
                      IF init_ THEN WithGroups(gt_, m_roundId, NGroups) ELSE gt_)
  /\ init_' = FALSE
  /\ fc_' = (IF init_ THEN Fwin * NGroups ELSE fc_) - 1
  /\ ic_' = IF init_ THEN NGroups ELSE ic_
  /\ UNCHANGED <<m_roundId, m_sentfecpkt, decoder, small, lost>>

\* SendRealOut for any other packet: forwarded as it is, but it too opens
\* round 1 when it comes first.
SendSmall ==
  /\ Idle
  /\ small < MaxSmall
  /\ small' = small + 1
  /\ rt_' = IF init_ THEN WithRound(rt_, m_roundId, NGroups) ELSE rt_
  /\ gt_' = IF init_ THEN WithGroups(gt_, m_roundId, NGroups) ELSE gt_
  /\ init_' = FALSE
  /\ fc_' = IF init_ THEN Fwin * NGroups ELSE fc_
  /\ ic_' = IF init_ THEN NGroups ELSE ic_
  /\ link' = Append(link, [type |-> NONE, serial |-> 0, rid |-> 0, gid |-> 0, hdr |-> 0])
  /\ UNCHANGED <<m_serial, m_roundId, m_groupId, m_sentdatapkt, m_sentfecpkt, decoder, lost>>

\* The redundant packet of the current group, whose table entries are the last
\* of rt and gt.  The one of the last group ends the round.
CreateFecPacket ==
  LET lastGroup == m_groupId + 1 = NGroups
  IN  /\ link' = Append(link, Tagged(REDUNDANT, 0))
      /\ m_roundId' = IF lastGroup THEN m_roundId + 1 ELSE m_roundId
      /\ m_groupId' = IF lastGroup THEN 0 ELSE m_groupId + 1
      /\ m_serial' = IF lastGroup THEN 1 ELSE m_serial + 1
      /\ m_sentfecpkt' = m_sentfecpkt + 1

\* The counters start over and the round that follows gets its tables.
RedundancyControl(rt, gt) ==
  /\ fc_' = Fwin * NGroups
  /\ ic_' = NGroups
  /\ rt_' = WithRound(rt, m_roundId', NGroups)
  /\ gt_' = WithGroups(gt, m_roundId', NGroups)

\* One iteration of while (fc_ == 0): a redundant packet, then
\* RedundancyControl once every group has had its own.
SendFecPacket ==
  /\ ~Idle
  /\ CreateFecPacket
  /\ LET rt == RoundPush(rt_, Entry(TRUE, 0))
         gt == GroupPush(gt_, Entry(TRUE, 0))
     IN  IF ic_ - 1 = 0
         THEN RedundancyControl(rt, gt)
         ELSE fc_' = fc_ /\ ic_' = ic_ - 1 /\ rt_' = rt /\ gt_' = gt
  /\ UNCHANGED <<init_, m_sentdatapkt, decoder, small, lost>>

\* A queue on the path overflows or an error model corrupts the packet.
Lose ==
  /\ Idle /\ link # <<>>
  /\ lost' = IF Head(link).type = NONE THEN lost ELSE lost \cup {Head(link)}
  /\ link' = Tail(link)
  /\ UNCHANGED <<encoder, rt_, gt_, decoder, small>>
-----------------------------------------------------------------------------
(* Decoder *)

\* CreateRecoveryPacket: the entry's headers on the redundant packet's body.
RecoveryPacketOwnHeader(p, e) ==
  [type |-> RECOVERED, serial |-> e.serial, rid |-> p.rid, gid |-> p.gid, hdr |-> p.hdr]
RecoveryPacket(p, e) ==
  [type |-> RECOVERED, serial |-> e.serial, rid |-> p.rid, gid |-> p.gid, hdr |-> e.hdr]

\* Recv's answer: 1 the packet is consumed, 2 release the transit queue, 0 go on.
\* sumlost - nlost is a uint32_t, positive whenever the two differ.
RecvFlagNeverCloses(p, sumlost, nlost, flag) ==
  IF sumlost > NGroups \/ nlost > NGroups THEN 2
  ELSE IF sumlost > 0 /\ p.type = DATA /\ StoreMode THEN 1
  ELSE IF sumlost # nlost /\ flag = 1 /\ p.type = REDUNDANT /\ p.gid < NGroups - 1 THEN 1
  ELSE 0
RecvFlag(p, sumlost, nlost, flag) ==
  IF sumlost > NGroups THEN 2
  ELSE IF nlost > NGroups THEN 2
  ELSE IF sumlost > 0 /\ p.type = DATA /\ StoreMode THEN 1
  ELSE IF sumlost # nlost /\ flag = 1 /\ p.type = REDUNDANT /\ p.gid < NGroups - 1 THEN 1
  ELSE IF p.type = REDUNDANT /\ p.gid = NGroups - 1 THEN 2
  ELSE 0

\* Recv on packet p with transit queue tq: the new tables and queue, what was
\* recovered or requested, and the answer.
Recv(tq, p) ==
  LET mark == MarkRoundFecTable(rt_, p)
      chk  == CheckRoundFecTable(mark, p)
      grp  == MarkGroupFecTable(chk.rt, gt_, p)
      rec  == IF p.type = REDUNDANT
              THEN CheckGroupFecTable(chk.rt, grp.gt, p, grp.nlost)
              ELSE [gt |-> grp.gt, mlost |-> 0, recovered |-> <<>>]
      flag == RecvFlag(p, chk.sumlost, grp.nlost, rec.mlost)
  IN  IF chk.sumlost > NGroups
      THEN [rt |-> chk.rt, gt |-> gt_, tq |-> tq, recovered |-> <<>>,
            asked |-> chk.asked, flag |-> 2]
      ELSE [rt |-> chk.rt, gt |-> rec.gt, recovered |-> rec.recovered,
            asked |-> chk.asked, flag |-> flag,
            tq |-> IF flag = 1 /\ p.type = DATA THEN InsertTransitQueue(tq, p)
                   ELSE IF rec.recovered = <<>> THEN tq
                   ELSE InsertTransitQueue(tq, RecoveryPacket(p, rec.recovered[1]))]

\* Every table search that Recv makes for p ends.  Where it does not, the
\* single thread of the simulator is in an endless loop or reads the front of
\* an empty queue, and there is no next state.
Serves(p) ==
  /\ RoundServes(rt_, p)
  /\ LET chk == CheckRoundFecTable(MarkRoundFecTable(rt_, p), p)
     IN  chk.sumlost <= NGroups => GroupServes(chk.rt, gt_, p)

\* IpForward for a packet not larger than a segment.
IpForwardSmall ==
  /\ Idle /\ link # <<>>
  /\ Head(link).type = NONE
  /\ link' = Tail(link)
  /\ out' = Append(out, Head(link))
  /\ UNCHANGED <<encoder, rt_, gt_, tq_, counters, rid_, asked, small, lost>>

\* IpForward for a data or redundant packet: on a new round first release what
\* is held; after Recv send the pending RxRequests and then, unless the packet
\* was consumed, release what Recv says and forward the packet if it is data.
IpForward ==
  /\ Idle /\ link # <<>>
  /\ LET p     == Head(link)
         newer == rid_ < p.rid
         r     == Recv(IF newer THEN <<>> ELSE tq_, p)
     IN  /\ p.type # NONE
         /\ Serves(p)
         /\ rid_' = IF newer THEN p.rid ELSE rid_
         /\ rt_' = r.rt /\ gt_' = r.gt
         /\ tq_' = IF r.flag = 2 THEN <<>> ELSE r.tq
         /\ out' = (IF newer THEN out \o tq_ ELSE out)
                   \o (IF r.flag = 2 THEN r.tq ELSE <<>>)
                   \o (IF r.flag # 1 /\ p.type # REDUNDANT THEN <<p>> ELSE <<>>)
         /\ asked' = [h \in DOMAIN asked |-> asked[h] + (IF h \in r.asked THEN 1 ELSE 0)]
         /\ m_recover' = m_recover + Len(r.recovered)
         /\ m_lostdatapkt' = m_lostdatapkt + Cardinality(PrintRoundFecTable(Closed(rt_, p), FALSE))
         /\ m_lostfecpkt' = m_lostfecpkt + Cardinality(PrintRoundFecTable(Closed(rt_, p), TRUE))
  /\ link' = Tail(link)
  /\ UNCHANGED <<encoder, small, lost>>
-----------------------------------------------------------------------------
Next == SendData \/ SendSmall \/ SendFecPacket \/ Lose \/ IpForwardSmall \/ IpForward

Spec == Init /\ [][Next]_vars

\* The simulator runs every scheduled event: a packet on the path is delivered
\* or lost, and the encoder's loop goes on.  The sources of the simulations are
\* bulk senders: another data packet always follows, up to the bound.
Deliver == Lose \/ IpForwardSmall \/ IpForward
Fairness == WF_vars(SendFecPacket) /\ WF_vars(Deliver) /\ WF_vars(SendData)
FairSpec == Spec /\ Fairness
-----------------------------------------------------------------------------
(* The inductive invariant: what ties the encoder, the tables and the path *)

\* A table queue ends with the round that is being sent.
Consecutive(q) == (init_ <=> q = <<>>) /\ Rounds(q, m_roundId - Len(q))

\* The redundant packets of a round are one per group, in order: the groups
\* have come full circle when fc_ reaches 0.
Burst ==
  /\ init_ => fc_ = -1 /\ m_groupId = 0 /\ link = <<>>
  /\ ~init_ /\ fc_ # 0 => /\ fc_ > 0 /\ ic_ = NGroups
                          /\ \E q \in 0 .. Fwin : fc_ + m_groupId = q * NGroups
  /\ fc_ = 0 => ic_ \in 1 .. NGroups /\ m_groupId = NGroups - ic_

\* The tables, the path and the encoder's counters agree: every packet on the
\* path has its round and its entry in both shared tables, packets are in the
\* order of rounds and groups, and a burst of redundant packets covers each
\* group once (the fields UpdateFecTable, CreateDataPacket and CreateFecPacket
\* set and Recv pops).
TablesCoverPath ==
  /\ Consecutive(rt_) /\ Consecutive(gt_)
  /\ Burst /\ Covered(link, rt_, gt_, m_roundId)
  /\ Ordered(link) /\ Behind(link, m_roundId, fc_, m_groupId)
-----------------------------------------------------------------------------
(* Properties *)

Headers(s) == {s[i].hdr : i \in DOMAIN s} \ {0}
Held == Headers(tq_)
Forwarded == Headers(out)
InFlight == Headers(link)
LostPackets(type) == {p \in lost : p.type = type}
LostData == {p.hdr : p \in LostPackets(DATA)}
Recovered == LostData \cap (Held \cup Forwarded)

\* The decoder never spins in a while (true) of its table passes and never
\* reads the front of an empty table queue: the encoder's tables still
\* describe every packet on the path (fec-router-agent.cc:302-440).
SearchesEnd ==
  Idle /\ link # <<>> /\ Head(link).type # NONE => Serves(Head(link))

\* Every data packet the encoder sent is on the path, lost, held or forwarded,
\* and only one of these, except for a lost packet that was rebuilt; and it is
\* held or forwarded once: Free and Recv neither drop nor copy packets.
Conservation ==
  /\ InFlight \cup LostData \cup Held \cup Forwarded = 1 .. m_sentdatapkt
  /\ InFlight \cap (LostData \cup Held \cup Forwarded) = {}
  /\ LET seq == out \o tq_
     IN  \A i, j \in DOMAIN seq : seq[i].type # NONE /\ seq[j].type # NONE =>
           seq[i].hdr # 0 /\ (i # j => seq[i].hdr # seq[j].hdr)
  /\ Cardinality(Recovered) = m_recover

\* With StoreMode USE the decoder hides the gaps it repairs: what it forwarded,
\* followed by what it holds, is in the order of the encoder's input
\* (InsertTransitQueue, and Recv's answer 1 for every packet behind a loss).
InOrder ==
  LET seq == out \o tq_
  IN  StoreMode => \A i, j \in DOMAIN seq :
        i < j /\ seq[i].type # NONE /\ seq[j].type # NONE => seq[i].hdr < seq[j].hdr

\* An RxRequest is sent only for a packet that really is lost, and never
\* twice (flag_ of PacketInfo, fec-router-agent.cc:368-373).
RequestedOnce ==
  \A h \in 1 .. MaxData : asked[h] > 0 => asked[h] = 1 /\ h \in LostData

\* The loss counters are exact for the rounds that are closed: each packet the
\* path lost is counted once, and no other.
LossesCounted ==
  LET closed(type) == {p \in LostPackets(type) : rt_ # <<>> /\ p.rid < rt_[1].rid}
  IN  /\ m_lostdatapkt = Cardinality(closed(DATA))
      /\ m_lostfecpkt = Cardinality(closed(REDUNDANT))

\* Group g of round r has had its redundant packet delivered.
FecDelivered(r, g) ==
  /\ r < m_roundId
  /\ \A p \in lost \cup ToSet(link) : p.type = REDUNDANT => <<p.rid, p.gid>> # <<r, g>>

\* Which losses FEC repairs, exactly: the only loss of a group whose redundant
\* packet arrives, in a round with at most NGroups losses (the round's last
\* data packet not counted) -- and never one of the last group, whose redundant
\* packet closes the round before the group table is read
\* (fec-router-agent.cc:378-383 and 401).
RecoveryExact ==
  \A d \in LostPackets(DATA) :
    LET round == {x \in LostPackets(DATA) : x.rid = d.rid}
    IN  d.hdr \in Recovered <=>
          /\ d.gid < NGroups - 1
          /\ FecDelivered(d.rid, d.gid)
          /\ {x \in round : x.gid = d.gid} = {d}
          /\ Cardinality({x \in round : x.serial < Fwin * NGroups}) <= NGroups

\* A held packet is forwarded, as long as the sources go on to the end of the
\* round.  There is no timer behind the transit queue: the one way for it to be
\* stuck is that the path loses the redundant packet that closes the round and
\* then everything that follows.
HeldReleased ==
  \A h \in 1 .. MaxData :
    h \in Held ~>
      \/ h \in Forwarded
      \/ /\ link = <<>> /\ m_sentdatapkt = MaxData
         /\ \E p \in LostPackets(REDUNDANT) : p.rid = rid_ /\ p.gid = NGroups - 1

\* The encoder and decoder together implement FecPath: to the hosts they are a
\* path that keeps the order of packets and gives back some of those it lost,
\* with and without the transit queue.  Held packets count as under way.
Sent(p) == [seg |-> p.hdr, rid |-> p.rid, again |-> FALSE]
OnPath(s) ==
  LET data[n \in 0 .. Len(s)] ==
        IF n = 0 THEN <<>>
        ELSE IF s[n].type = DATA THEN Append(data[n - 1], Sent(s[n])) ELSE data[n - 1]
  IN  data[Len(s)]
Path == INSTANCE FecPath WITH
  wire <- OnPath(tq_ \o link),
  gap <- {Sent(p) : p \in {x \in LostPackets(DATA) : x.rid >= rid_ /\ x.hdr \notin Forwarded}},
  round <- m_roundId,
  rcvd <- Forwarded
ImplementsFecPath == Path!Spec
=============================================================================
