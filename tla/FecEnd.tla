------------------------------- MODULE FecEnd -------------------------------
(***************************************************************************)
(* FEC between the two end points of a TCP connection.  TcpSocketBase      *)
(* hands every segment it sends to FecAgent, which numbers it, spreads the *)
(* segments of a round over groups and adds one redundant packet per group *)
(* at the end of the round.  At the receiver ForwardUp holds the segments  *)
(* that follow a loss, and so keeps back their duplicate acknowledgements, *)
(* until the round is decided.  As between routers, both ends share ONE    *)
(* agent and its tables (FecAgentContainer::Install on both applications). *)
(*                                                                         *)
(* What is harder than between routers: the size of a round and its number *)
(* of groups follow the congestion window; a time-out or fast recovery     *)
(* abandons the round (Reset); and retransmissions run through the same    *)
(* tables, entered as already received.                                    *)
(*                                                                         *)
(* Of TCP the model keeps what drives FEC: cumulative acknowledgements     *)
(* with SACK, the segments marked lost, fast recovery, the retransmission  *)
(* timer.  The congestion window is an input whenever a round is sized.    *)
(* All segments are full: smaller ones pass by FEC at the receiver.        *)
(***************************************************************************)
EXTENDS FecTables, FecSizing

CONSTANTS AckMode,      \* acknowledgements are suppressed (m_ackMode)
          Windows,      \* congestion windows, in segments
          ReTxThresh,   \* segments SACKed above a hole that mark it lost
          MaxSeg,       \* bound: segments the application sends
          MaxLoss,      \* bound: packets the path loses
          MaxSpurious   \* bound: time-outs while packets are still under way

ASSUME AckModeAssumption == AckMode \in BOOLEAN
\* The window never falls below a segment: WindowCoversSegment of TcpCongestion.
ASSUME WindowsAssumption == Windows \subseteq Nat \ {0}
ASSUME EndBoundsAssumption ==
  /\ ReTxThresh \in Nat \ {0} /\ MaxSeg \in Nat
  /\ MaxLoss \in Nat /\ MaxSpurious \in Nat

VARIABLES
  m_init, fc, ic,                      \* TcpSocketBase, FEC part of the sender
  highTx, una, rexmit, retrans, recover, fast,   \* TcpSocketBase, the rest of it
  m_roundId, m_groupId, m_serial, nGroups, \* FecAgent, sending side
  rt_, gt_,                            \* FecAgent, shared tables
  tq_, ackSendId,                      \* FecAgent, receiving side
  m_recover, m_recover_rexmit, m_lostdatapkt, m_lostfecpkt,
  rid_, rcvd,                          \* TcpSocketBase, the receiver
  link,                                \* packets on the path
  lost,                                \* history: packets the path lost
  rebuilt,                             \* history: packets FEC rebuilt
  spurious                             \* time-outs that came too early

tcp == <<highTx, una, rexmit, retrans, recover, fast, spurious>>
sender == <<m_init, fc, ic, m_roundId, m_groupId, m_serial, nGroups>>
counters == <<m_recover, m_recover_rexmit, m_lostdatapkt, m_lostfecpkt>>
receiver == <<tq_, ackSendId, counters, rid_, rcvd, rebuilt>>
vars == <<sender, tcp, rt_, gt_, receiver, link, lost>>

\* Serials are TCP sequence numbers.  A segment is longer than a round has
\* groups, so the serials of redundant packets fall between two segments.
Seq1(seg) == seg * (NGroups + 1)
-----------------------------------------------------------------------------
(* Sender *)

\* No SendDataPacket is inside its while (fc == 0).  The window at which fc is
\* 0 before the first round is not such a loop.
Idle == m_init \/ fc # 0

\* What RedundancyControl, CreateDataPacket and CreateFecPacket work on, as it
\* is now and as an action leaves it.
Fec == [rid |-> m_roundId, gid |-> m_groupId, n |-> nGroups, fc |-> fc, ic |-> ic,
        rt |-> rt_, gt |-> gt_]
Becomes(s) ==
  /\ m_roundId' = s.rid /\ m_groupId' = s.gid /\ nGroups' = s.n
  /\ fc' = s.fc /\ ic' = s.ic
  /\ rt_' = s.rt /\ gt_' = s.gt

\* The size of the next round, and its tables at the back of the queues.
RedundancyControl(s, win) ==
  LET r == RoundSize(win)
  IN  [s EXCEPT !.fc = r.fwin, !.ic = r.nGroups, !.n = r.nGroups,
                !.rt = WithRound(@, s.rid, r.nGroups), !.gt = WithGroups(@, s.rid, r.nGroups)]
Sized(s) == {RedundancyControl(s, win) : win \in Windows}

ResetSameRound(s) == [s EXCEPT !.gid = 0]
ResetKeepsGroup(s) == [s EXCEPT !.rid = @ + 1]
\* The round is abandoned, with no redundant packet.
Reset(s) == [s EXCEPT !.rid = @ + 1, !.gid = 0]

\* An entry in both tables of the round being sent.  With one configured group
\* CreateDataPacket also sets m_groupId to 0, which it is.
Push(s, serial, isfec, hdr, check) ==
  LET pi == [serial |-> serial, gid |-> s.gid, fec |-> isfec, hdr |-> hdr,
             check |-> check, flag |-> FALSE]
  IN  [s EXCEPT !.rt = RoundPush(@, pi), !.gt = GroupPush(@, pi)]

Tagged(s, type, serial, hdr) ==
  [type |-> type, serial |-> serial, rid |-> s.rid, gid |-> s.gid, n |-> s.n, hdr |-> hdr]

NextGroup(gid, n) == IF n = 1 THEN gid ELSE IF gid + 1 = n THEN 0 ELSE gid + 1

\* SendDataPacket for segment seg on s.  A segment below m_highTxMark is a
\* retransmission, and its entry is born checked.
SendDataPacket(seg, s) ==
  LET again == seg <= highTx
  IN  /\ Becomes([Push(s, Seq1(seg), FALSE, seg, again) EXCEPT !.gid = NextGroup(s.gid, s.n), !.fc = @ - 1])
      /\ link' = Append(link, Tagged(s, IF again THEN REXMIT ELSE DATA, Seq1(seg), seg))
      /\ m_serial' = Seq1(seg) + 1
      /\ m_init' = FALSE
      /\ highTx' = IF again THEN highTx ELSE seg
      /\ UNCHANGED <<receiver, lost>>

\* The first packet of all sizes round 1.
Begun == IF m_init THEN Sized(Fec) ELSE {Fec}

\* One step of SendPendingData, which sends what is marked lost before it sends
\* new data.  How far the window lets it go on is left open.
Retransmit ==
  /\ Idle /\ rexmit # {}
  /\ \E s \in Begun : SendDataPacket(Min(rexmit), s)
  /\ rexmit' = rexmit \ {Min(rexmit)}
  /\ retrans' = retrans \cup {Min(rexmit)}
  /\ UNCHANGED <<una, recover, fast, spurious>>

SendNew ==
  /\ Idle /\ rexmit = {} /\ highTx < MaxSeg
  /\ \E s \in Begun : SendDataPacket(highTx + 1, s)
  /\ UNCHANGED <<rexmit, retrans, una, recover, fast, spurious>>

\* In fast recovery (CA_RECOVERY), when nothing is marked lost and there is no
\* new data, the first segment that is neither SACKed nor sent again: rule 3 of
\* NextSeg, and the head for which DoRetransmit answers a partial
\* acknowledgement.  What is SACKed may not be known yet.
RetransmitRule3 ==
  /\ Idle /\ fast /\ rexmit = {} /\ highTx = MaxSeg
  /\ \E seg \in (una + 1 .. highTx) \ retrans :
       /\ una + 1 .. seg - 1 \subseteq rcvd \cup retrans
       /\ \E s \in Begun : SendDataPacket(seg, s)
       /\ retrans' = retrans \cup {seg}
  /\ UNCHANGED <<rexmit, una, recover, fast, spurious>>

\* CreateFecPacket: the last redundant packet ends the round.
CreateFecPacket(s) ==
  LET last == s.n = 1 \/ s.gid + 1 = s.n
  IN  [Push(s, m_serial, TRUE, 0, FALSE) EXCEPT
         !.gid = IF last THEN 0 ELSE @ + 1, !.rid = IF last THEN @ + 1 ELSE @]

\* One iteration of while (fc == 0).
SendFecPacket ==
  /\ ~Idle
  /\ LET s == [CreateFecPacket(Fec) EXCEPT !.ic = @ - 1]
     IN  \E t \in IF s.ic = 0 THEN Sized(s) ELSE {s} : Becomes(t)
  /\ link' = Append(link, Tagged(Fec, REDUNDANT, m_serial, 0))
  /\ m_serial' = IF nGroups > 1 THEN m_serial + 1 ELSE m_serial
  /\ UNCHANGED <<m_init, tcp, receiver, lost>>

\* Everything up to here has reached the receiving TCP.
Delivered == CHOOSE n \in 0 .. MaxSeg : 1 .. n \subseteq rcvd /\ n + 1 \notin rcvd

\* Holes in what the receiver has, with ReTxThresh segments above them.
SackLost ==
  {s \in una + 1 .. highTx : s \notin rcvd /\ Cardinality({r \in rcvd : r > s}) >= ReTxThresh}

\* HighData is the recovery point, the round is abandoned, seg is sent again in
\* a new one, and the segments in marked are the others that are lost.
Recover(seg, marked) ==
  /\ rexmit' = marked \ {seg}
  /\ recover' = highTx
  /\ \E s \in Sized(Reset(Fec)) : SendDataPacket(seg, s)

\* ReceivedAck of a duplicate acknowledgement that leads to EnterRecovery: not
\* while an earlier recovery is not finished.  If what is lost has been sent
\* again before, DoRetransmit takes new data, or else the head.
EnterRecovery ==
  /\ Idle /\ una >= recover
  /\ SackLost # {}
  /\ una' = Delivered
  /\ LET marked == (rexmit \ rcvd) \cup (SackLost \ retrans)
         seg    == IF marked # {} THEN Min(marked)
                   ELSE IF highTx < MaxSeg THEN highTx + 1 ELSE Delivered + 1
     IN  /\ Recover(seg, marked)
         /\ retrans' = (IF seg > highTx THEN retrans ELSE retrans \cup {seg}) \ 1 .. una'
  /\ fast' = TRUE
  /\ UNCHANGED spurious

\* ReTxTimeout: everything the receiver has not reported is marked lost.
ReTxTimeout ==
  /\ Idle /\ una < highTx
  /\ \/ link = <<>> /\ rexmit = {} /\ una = Delivered /\ UNCHANGED spurious
     \/ spurious < MaxSpurious /\ spurious' = spurious + 1
  /\ Recover(una + 1, una + 1 .. highTx \ rcvd)
  /\ retrans' = {una + 1}
  /\ fast' = FALSE
  /\ UNCHANGED una

\* ReceivedAck of any other acknowledgement, with the SACK blocks of the
\* moment: they mark segments lost, in every congestion state.  One that is
\* lost is the same as one that is not taken.
ReceivedAck ==
  /\ Idle
  /\ una' = Delivered
  /\ rexmit' = ((rexmit \ rcvd) \cup (SackLost \ retrans)) \ 1 .. una'
  /\ retrans' = retrans \ 1 .. una'
  /\ <<una', rexmit'>> # <<una, rexmit>>
  /\ fast' = (fast /\ una' < recover)
  /\ UNCHANGED <<sender, highTx, recover, spurious, rt_, gt_, receiver, link, lost>>

Lose ==
  /\ Idle /\ link # <<>>
  /\ Len(lost) < MaxLoss
  /\ lost' = Append(lost, Head(link))
  /\ link' = Tail(link)
  /\ UNCHANGED <<sender, tcp, rt_, gt_, receiver>>
-----------------------------------------------------------------------------
(* Receiver *)

\* FecAgent::CheckRoundFecTable: losses are the entries sent before packet p
\* in sequence, whatever their place in the list; there are no requests.
CheckRoundFecTableEnd(rt, p) ==
  IF p.rid < rt[1].rid THEN [rt |-> rt, sumlost |-> 0]
  ELSE LET pi == rt[1].pi
           n  == IF p.type = DATA THEN PosInGroup(pi, p) + 1 ELSE Len(pi) + 1
       IN  [rt      |-> IF ClosesRound(rt, p) THEN Tail(rt) ELSE rt,
            sumlost |-> Cardinality(Missing(pi, n, p.serial))]

\* A recovered packet's tag leaves the number of groups unset.
RecoveryPacket(p, e) ==
  [type |-> RECOVERED, serial |-> e.serial, rid |-> p.rid, gid |-> p.gid, n |-> 0, hdr |-> e.hdr]

RecvFlagNoRelease(p, sumlost, nlost, flag, sendId) ==
  IF sumlost > p.n \/ nlost > p.n \/ sendId = p.rid THEN 0
  ELSE IF sumlost > 0 /\ p.type = DATA /\ AckMode THEN 1
  ELSE IF p.type = REDUNDANT THEN 2
  ELSE 0
\* Recv: 1 the packet is kept, 2 release the transit queue, 0 go on.  The last
\* two answers compare with the configured number of groups, not the round's.
RecvFlag(p, sumlost, nlost, flag, sendId) ==
  IF sumlost > p.n \/ nlost > p.n THEN 2
  ELSE IF sendId = p.rid /\ p.type # REDUNDANT THEN 2
  ELSE IF sumlost > 0 /\ p.type = DATA /\ AckMode THEN 1
  ELSE IF sumlost # nlost /\ flag = 1 /\ p.type = REDUNDANT /\ p.gid < NGroups - 1 THEN 1
  ELSE IF p.type = REDUNDANT /\ p.gid = NGroups - 1 THEN 2
  ELSE 0

Recv(tq, p) ==
  LET chk  == CheckRoundFecTableEnd(MarkRoundFecTable(rt_, p), p)
      grp  == MarkGroupFecTable(chk.rt, gt_, p)
      rec  == IF p.type = REDUNDANT
              THEN CheckGroupFecTable(chk.rt, grp.gt, p, grp.nlost)
              ELSE [gt |-> grp.gt, mlost |-> 0, recovered |-> <<>>]
      id   == IF p.type = REXMIT /\ grp.nlost <= p.n THEN p.rid ELSE ackSendId
      flag == RecvFlag(p, chk.sumlost, grp.nlost, rec.mlost, id)
  IN  IF chk.sumlost > p.n
      THEN [rt |-> chk.rt, gt |-> gt_, tq |-> tq, recovered |-> <<>>, id |-> ackSendId,
            flag |-> RecvFlag(p, chk.sumlost, 0, 0, ackSendId)]
      ELSE [rt |-> chk.rt, gt |-> rec.gt, recovered |-> rec.recovered, id |-> id, flag |-> flag,
            tq |-> IF flag = 1 /\ p.type = DATA THEN InsertTransitQueue(tq, p)
                   ELSE IF rec.recovered = <<>> THEN tq
                   ELSE InsertTransitQueue(tq, RecoveryPacket(p, rec.recovered[1]))]

Serves(p) ==
  /\ RoundServes(rt_, p)
  /\ LET chk == CheckRoundFecTableEnd(MarkRoundFecTable(rt_, p), p)
     IN  chk.sumlost <= p.n => GroupServes(chk.rt, gt_, p)

Segments(s) == {s[i].hdr : i \in DOMAIN s} \ {0}

\* ForwardUp: what Free and ReForwardUp release and what is not kept goes to
\* the TCP receiver, which acknowledges it.
ForwardUp ==
  /\ Idle /\ link # <<>> /\ Serves(Head(link))
  /\ LET p     == Head(link)
         newer == rid_ < p.rid
         r     == Recv(IF newer THEN <<>> ELSE tq_, p)
     IN  /\ rid_' = IF newer THEN p.rid ELSE rid_
         /\ rt_' = r.rt /\ gt_' = r.gt /\ ackSendId' = r.id
         /\ tq_' = IF r.flag = 2 THEN <<>> ELSE r.tq
         /\ rcvd' = rcvd \cup (IF newer THEN Segments(tq_) ELSE {})
                         \cup (IF r.flag = 2 THEN Segments(r.tq) ELSE {})
                         \cup (IF r.flag # 1 THEN Segments(<<p>>) ELSE {})
         /\ rebuilt' = rebuilt \o [i \in DOMAIN r.recovered |-> RecoveryPacket(p, r.recovered[i])]
         /\ m_recover' = m_recover + Len(SelectSeq(r.recovered, LAMBDA e : ~e.check))
         /\ m_recover_rexmit' = m_recover_rexmit + Len(SelectSeq(r.recovered, LAMBDA e : e.check))
         /\ m_lostdatapkt' = m_lostdatapkt + Cardinality(PrintRoundFecTable(Closed(rt_, p), FALSE))
         /\ m_lostfecpkt' = m_lostfecpkt + Cardinality(PrintRoundFecTable(Closed(rt_, p), TRUE))
  /\ link' = Tail(link)
  /\ UNCHANGED <<sender, tcp, lost>>
-----------------------------------------------------------------------------
Init ==
  /\ m_init = TRUE /\ fc = 0 /\ ic = 0
  /\ highTx = 0 /\ una = 0 /\ rexmit = {} /\ retrans = {} /\ recover = 0 /\ fast = FALSE /\ spurious = 0
  /\ m_roundId = 1 /\ m_groupId = 0 /\ m_serial = 0 /\ nGroups = 0
  /\ rt_ = <<>> /\ gt_ = <<>> /\ tq_ = <<>> /\ ackSendId = 0
  /\ m_recover = 0 /\ m_recover_rexmit = 0 /\ m_lostdatapkt = 0 /\ m_lostfecpkt = 0
  /\ rid_ = 1 /\ rcvd = {}
  /\ link = <<>> /\ lost = <<>> /\ rebuilt = <<>>

Next ==
  \/ SendNew \/ Retransmit \/ RetransmitRule3 \/ SendFecPacket
  \/ EnterRecovery \/ ReTxTimeout \/ ReceivedAck
  \/ Lose \/ ForwardUp

Spec == Init /\ [][Next]_vars

\* The simulator runs every scheduled event: segments go out as long as there
\* are any, a packet on the path is delivered or lost, acknowledgements come
\* back and the retransmission timer expires.
Deliver == Lose \/ ForwardUp
CanDeliver == Idle /\ link # <<>> /\ (Len(lost) < MaxLoss \/ Serves(Head(link)))
Fairness ==
  /\ WF_vars(SendNew \/ Retransmit) /\ WF_vars(SendFecPacket)
  /\ WF_vars(ReceivedAck) /\ WF_vars(ReTxTimeout)
  /\ []<>~CanDeliver \/ []<><<Deliver>>_vars    \* WF_vars(Deliver)
FairSpec == Spec /\ Fairness
-----------------------------------------------------------------------------
(* Properties *)

Held == Segments(tq_)
Losses(types) == {i \in DOMAIN lost : lost[i].type \in types}
LossesClosed(types) == {i \in Losses(types) : rt_ # <<>> /\ lost[i].rid < rt_[1].rid}

\* The receiver never spins in a while (true) of its table passes and never
\* reads the front of an empty table queue, although rounds are abandoned,
\* change their number of groups and contain retransmissions
\* (fec-agent.cc:388-590).
SearchesEnd == Idle /\ link # <<>> => Serves(Head(link))

\* A segment that the path did not lose is on it, held, or with the receiving
\* TCP, and nothing else is: neither Reset nor Recv makes one disappear.
Conservation ==
  /\ rcvd \cup Held \subseteq 1 .. highTx
  /\ 1 .. highTx \subseteq
       rcvd \cup Held \cup Segments(link) \cup {lost[i].hdr : i \in Losses({DATA, REXMIT})}

\* A segment that is held is not overtaken: as long as it is in the transit
\* queue, TCP is given none that was sent after it, so FEC itself causes no
\* duplicate acknowledgement.  (A rebuilt segment may be late: once a
\* retransmission has cancelled suppression, those behind it have gone on.)
HeldNotOvertaken ==
  \A i \in DOMAIN tq_ : tq_[i].type = DATA => \A r \in rcvd : r < tq_[i].hdr

\* Rounds have packets, their groups are those the round was sized for, and a
\* burst of redundant packets starts with group 0 and covers each group once,
\* whatever the window and whenever Reset comes.
RoundShape ==
  ~m_init =>
    /\ m_groupId \in 0 .. nGroups - 1
    /\ IF fc = 0 THEN m_groupId = nGroups - ic
       ELSE /\ fc > 0 /\ ic = nGroups
            /\ \E q \in 1 .. fc + m_groupId : fc + m_groupId = q * nGroups

\* TCP stays reliable over FEC: if the path loses a bounded number of packets,
\* every segment is acknowledged in the end.  Segments are held without a timer
\* and their acknowledgements with them; it is the sender's timer, and the new
\* round that Reset starts, that gets them out (tcp-socket-base.cc:1156, 4385).
AllAcknowledged == <>(una = MaxSeg)

\* FEC rebuilds only what the path lost in that very round and group: a
\* retransmission entered as received is never mistaken for a loss, except in a
\* round of which the path lost more first transmissions than it has groups.
\* Recv leaves the group table unmarked while it sees so many losses
\* (fec-agent.cc:364), and once a retransmission has stood in for some of them
\* in the round table a segment that arrived meanwhile passes for the one that
\* is missing.
RebuiltWasLost ==
  \A i \in DOMAIN rebuilt :
    LET first == {j \in Losses({DATA}) : lost[j].rid = rebuilt[i].rid}
    IN  \/ \E j \in first : lost[j].serial = rebuilt[i].serial /\ lost[j].gid = rebuilt[i].gid
        \/ Cardinality(first) > NGroups

\* The loss counters never count a packet that arrived: data at most the first
\* transmissions lost in closed rounds (one whose retransmission arrives in the
\* same round and group is taken for it), redundant packets exactly.
LossesNotOvercounted ==
  /\ m_lostdatapkt <= Cardinality(LossesClosed({DATA}))
  /\ m_lostfecpkt = Cardinality(LossesClosed({REDUNDANT}))

\* The counter printed as "lost" in the trace is the number of lost packets
\* (of closed rounds), as the comment beside it says.
LostIsNumberOfLostPackets == m_lostdatapkt = Cardinality(LossesClosed({DATA, REXMIT}))

\* FEC between the end points implements FecPath: whatever rounds are abandoned
\* and whatever is sent again, held segments count as under way, TCP is given
\* the segments in the order in which they were sent, and of what the path lost
\* only first transmissions of the round that is being received.
OnPath(s) ==
  LET data == SelectSeq(s, LAMBDA p : p.type \in {DATA, REXMIT})
  IN  [i \in DOMAIN data |-> [seg |-> data[i].hdr, rid |-> data[i].rid, again |-> data[i].type = REXMIT]]
\* Packet p was rebuilt and has left the transit queue.
GivenBack(p) ==
  \E i \in DOMAIN rebuilt :
    /\ rebuilt[i].hdr = p.hdr /\ rebuilt[i].rid = p.rid
    /\ rebuilt[i] \notin ToSet(tq_)
Path == INSTANCE FecPath WITH
  wire <- OnPath(tq_ \o link),
  gap <- {[seg |-> p.hdr, rid |-> p.rid, again |-> FALSE] :
            p \in {lost[i] : i \in {j \in Losses({DATA}) : lost[j].rid >= rid_ /\ ~GivenBack(lost[j])}}},
  round <- m_roundId,
  rcvd <- rcvd
ImplementsFecPath == Path!Spec
=============================================================================
