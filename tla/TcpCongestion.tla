--------------------------- MODULE TcpCongestion ---------------------------
(***************************************************************************)
(* The congestion control of TcpSocketBase as the FEC experiments run it:  *)
(* TcpNewReno, TcpClassicRecovery and SACK, with the two things FEC adds.  *)
(* A segment that FEC rebuilt is acknowledged with its round number, and   *)
(* the sender answers the first such acknowledgement of a round by scaling *)
(* its window by RateControlValue, as it would for a loss (rate control).  *)
(* And the window sizes the FEC rounds.                                    *)
(*                                                                         *)
(* The tables of FEC are the subject of FecEnd.  Here FEC is its effect:   *)
(* a new segment that the path loses may still reach the receiver, tagged  *)
(* as recovered, once its round is complete and before a later round       *)
(* arrives.  Window and threshold are in bytes, all segments are full, and *)
(* no queue marks packets, so ECN and CA_CWR do not occur.                 *)
(***************************************************************************)
EXTENDS FecSizing, TcpTxBuffer, TcpRxBuffer

CONSTANTS SegSize,       \* bytes of a segment (m_segmentSize)
          InitialCwnd,   \* in segments; also the window after a time-out
          InitialSsThresh,  \* in bytes
          RateNum, RateDen,  \* RateControlValue = RateNum / RateDen
          RidWidth,      \* bits of the round number kept in ReceivedAck (8)
          DelAckMax,     \* segments per acknowledgement (DelAckCount)
          DataRetries,   \* time-outs in a row before the connection is dropped
          MaxLoss,       \* bound: segments the path loses
          MaxAckLoss,    \* bound: acknowledgements the path loses
          MaxSpurious    \* bound: time-outs while something is under way

\* The simulations set InitialCwnd to 2 and RateControlValue to 0.5 or more.  With
\* less, WindowCoversSegment does not hold: a window of one segment is halved
\* without an increase when an acknowledgement of a rebuilt segment ends CA_LOSS.
ASSUME WindowAssumption ==
  /\ SegSize \in Nat \ {0} /\ InitialCwnd \in Nat \ {0, 1} /\ InitialSsThresh \in Nat
ASSUME RateAssumption ==
  /\ RateNum \in Nat \ {0} /\ RateDen \in Nat \ {0}
  /\ RateNum <= RateDen /\ RateDen <= 2 * RateNum
ASSUME CongestionBoundsAssumption ==
  /\ RidWidth \in 1 .. 8 /\ DelAckMax \in Nat \ {0} /\ DataRetries \in Nat
  /\ MaxLoss \in Nat /\ MaxAckLoss \in Nat /\ MaxSpurious \in Nat

VARIABLES
  snd,        \* the sender, see Init for its fields
  sending,    \* SendPendingData has not finished
  closed,     \* the connection was dropped
  rx, delAck, \* the receiver: its buffer, m_delAckCount
  link, acks, \* segments and acknowledgements under way
  erased,     \* lost segments that FEC can still rebuild
  slowed,     \* history: rounds for which rate control cut the window
  losses, ackLosses, spurious,   \* what the path and the timer did so far
  faults      \* history: how often they did since una last advanced

receiver == <<rx, delAck>>
bounds == <<losses, ackLosses, spurious, faults>>
vars == <<snd, sending, closed, receiver, link, acks, erased, slowed, bounds>>
-----------------------------------------------------------------------------
(* Sender: each operator takes the sender's record and returns it changed *)

\* RedundancyControl: data packets of the next round.
RedundancyControl(t) == [t EXCEPT !.fc = RoundSize(t.cWnd \div SegSize).fwin]

\* The last data packet of a round is followed by the redundant ones, the next
\* round is sized.  out collects what goes to the path.
SendDataPacket(t, seg) ==
  LET p == [seg |-> seg, rid |-> t.rid, again |-> seg <= t.b.sent]
      u == [t EXCEPT !.b = CopyFromSequence(@, seg), !.fc = @ - 1, !.out = Append(@, p)]
  IN  IF u.fc = 0 THEN RedundancyControl([u EXCEPT !.rid = @ + 1]) ELSE u

DoRetransmit(t) ==
  LET next == NextSeg(t.b, FALSE)
  IN  SendDataPacket(t, IF next = 0 THEN HeadSeg(t.b) ELSE next)

\* TcpNewReno::GetSsThresh; inFlight in segments.
GetSsThresh(inFlight) == Max({2 * SegSize, (SegSize * inFlight) \div 2})

\* The round is abandoned (Reset) and a new one starts with the retransmission.
EnterRecovery(t) ==
  LET b == IF IsLost(t.b, HeadSeg(t.b)) THEN t.b ELSE MarkHeadAsLost(t.b)
      w == GetSsThresh(BytesInFlight(b))
  IN  DoRetransmit(RedundancyControl(
        [t EXCEPT !.b = b, !.recover = b.sent, !.recoverActive = TRUE, !.congState = "RECOVERY",
                  !.ssThresh = w, !.cWnd = w, !.rid = @ + 1]))

\* m_highRxAckMark is una here: UpdateWindowSize has run.  The second segment
\* above it is the one asked about.
DupAck(t) ==
  LET u == [t EXCEPT !.dupAckCount = @ + 1, !.congState = "DISORDER"]
  IN  IF t.congState \in {"LOSS", "RECOVERY"} THEN t
      ELSE IF \/ u.dupAckCount = ReTxThresh /\ (u.b.una >= u.recover \/ ~u.recoverActive)
              \/ IsLost(u.b, u.b.una + 2)
           THEN EnterRecovery(u)
           ELSE u

\* TcpNewReno::IncreaseWindow: slow start takes one segment of those
\* acknowledged, congestion avoidance follows if it reaches the threshold.
IncreaseWindow(t, segsAcked) ==
  LET slow == t.cWnd < t.ssThresh /\ segsAcked >= 1
      w    == IF slow THEN t.cWnd + SegSize ELSE t.cWnd
      left == IF slow THEN segsAcked - 1 ELSE segsAcked
  IN  [t EXCEPT !.cWnd = IF w >= t.ssThresh /\ left > 0
                         THEN w + Max({1, (SegSize * SegSize) \div w}) ELSE w]

NewAckKeepsRetries(t) == t
\* The data retries start again; the timer is restarted.
NewAck(t) == [t EXCEPT !.dataRetrCount = DataRetries]

\* Where ProcessAckofRecoveredPacket differs from ProcessAck.
RateControl(t, segsAcked) ==
  [IncreaseWindow(t, segsAcked) EXCEPT !.cWnd = (@ * RateNum) \div RateDen]

\* An acknowledgement below the recovery point.
PartialAck(t) ==
  NewAck(IF IsRetransmittedDataAcked(t.b, t.b.una + 1) THEN t ELSE DoRetransmit(t))

LeaveRecovery(t) == [t EXCEPT !.congState = "OPEN", !.dupAckCount = 0, !.cWnd = t.ssThresh]

\* The last branch: back to CA_OPEN (from CA_DISORDER only if nothing new was
\* SACKed), and there the window grows.
OpenAck(t, segsAcked, isDupack, rate) ==
  LET u == [t EXCEPT !.recoverActive = IF t.b.una >= t.recover THEN FALSE ELSE @]
      w == IF t.congState = "RECOVERY" THEN LeaveRecovery(u) ELSE [u EXCEPT !.congState = "OPEN"]
      n == IF t.congState = "LOSS" THEN t.b.una - t.recover ELSE segsAcked
  IN  IF t.congState = "DISORDER" /\ isDupack THEN u
      ELSE NewAck(IF rate THEN RateControl(w, n) ELSE IncreaseWindow(w, n))

BelowNever(t, congState) == congState = "RECOVERY" /\ t.congState = congState /\ t.b.una < t.recover
Below(t, congState) == t.congState = congState /\ t.b.una < t.recover

\* ProcessAck, and with rate ProcessAckofRecoveredPacket; una has advanced by
\* segsAcked, and isDupack says that a segment was newly SACKed.
ProcessAck(t, segsAcked, isDupack, rate) ==
  LET u == IF isDupack THEN DupAck(t) ELSE [t EXCEPT !.dupAckCount = IF segsAcked > 0 THEN 0 ELSE @]
  IN  IF segsAcked = 0 THEN u
      ELSE IF Below(u, "RECOVERY") THEN PartialAck(u)
      ELSE IF Below(u, "LOSS") THEN NewAck(IncreaseWindow(u, segsAcked))
      ELSE OpenAck(u, segsAcked, isDupack, rate)
-----------------------------------------------------------------------------
(* Actions of the sender *)

Idle == ~sending /\ ~closed

\* The packets an operator has collected go to the path.
Becomes(t) ==
  /\ snd' = [t EXCEPT !.out = <<>>]
  /\ link' = link \o t.out

AvailableWindow ==
  LET inFlight == SegSize * BytesInFlight(snd.b)
  IN  IF inFlight > snd.cWnd THEN 0 ELSE snd.cWnd - inFlight

\* One iteration of its loop, or the end of it.  There is always a full segment
\* of data, so less window than that stops it (silly window).
SendPendingData ==
  /\ sending /\ ~closed
  /\ LET next == NextSeg(snd.b, snd.congState = "RECOVERY")
     IN  IF AvailableWindow < SegSize \/ next = 0
         THEN sending' = FALSE /\ UNCHANGED <<snd, link>>
         ELSE Becomes(SendDataPacket(snd, next)) /\ UNCHANGED sending
  /\ UNCHANGED <<closed, receiver, acks, erased, slowed, bounds>>

\* Rate control answers this acknowledgement; the round number is cut to the
\* width of a uint8_t.  The highest number answered is kept in rec_rid_.
CutRid(rid) == rid % 2^RidWidth
RatedAnyRound(a) == a.recovered /\ snd.rec_rid_ <= CutRid(a.rid) /\ RateNum < RateDen
Rated(a) == a.recovered /\ snd.rec_rid_ < CutRid(a.rid) /\ RateNum < RateDen

\* ReceivedAck: a stale one only updates the scoreboard.
ReceivedAck ==
  /\ Idle /\ acks # <<>>
  /\ LET a  == Head(acks)
         b1 == Update(snd.b, a.sackList)
         t  == ProcessAck([snd EXCEPT !.b = DiscardUpTo(b1, a.ack)], a.ack - snd.b.una,
                          b1.sacked # snd.b.sacked, Rated(a))
         u  == IF Rated(a) THEN [t EXCEPT !.rec_rid_ = CutRid(a.rid)] ELSE t
     IN  IF a.ack < snd.b.una
         THEN snd' = [snd EXCEPT !.b = b1] /\ UNCHANGED <<link, sending, slowed>>
         ELSE /\ Becomes(u)
              /\ sending' = TRUE
              /\ slowed' = IF Rated(a) /\ u.congState = "OPEN" /\ a.ack > snd.b.una
                           THEN Append(slowed, a.rid) ELSE slowed
         /\ faults' = IF a.ack > snd.b.una THEN 0 ELSE faults
  /\ acks' = Tail(acks)
  /\ UNCHANGED <<closed, receiver, erased, losses, ackLosses, spurious>>

\* Nothing is under way, and no acknowledgement is due.
Quiet == link = <<>> /\ acks = <<>> /\ delAck = 0

AfterTimeoutOneSegment(t) ==
  LET b == SetSentListLost(t.b)
      s == GetSsThresh(BytesInFlight(t.b))
  IN  RedundancyControl(
        [t EXCEPT !.b = b, !.dupAckCount = 0, !.recover = b.sent, !.recoverActive = TRUE,
                  !.dataRetrCount = @ - 1,
                  !.ssThresh = IF t.congState # "LOSS" \/ ~IsHeadRetransmitted(b) THEN s ELSE @,
                  !.congState = "LOSS", !.cWnd = SegSize, !.rid = @ + 1])
\* Whether the head had been sent again is asked after SetSentListLost has
\* cleared the answer.
AfterTimeout(t) ==
  LET b == SetSentListLost(t.b)
      s == GetSsThresh(BytesInFlight(t.b))
  IN  RedundancyControl(
        [t EXCEPT !.b = b, !.dupAckCount = 0, !.recover = b.sent, !.recoverActive = TRUE,
                  !.dataRetrCount = @ - 1,
                  !.ssThresh = IF t.congState # "LOSS" \/ ~IsHeadRetransmitted(b) THEN s ELSE @,
                  !.congState = "LOSS", !.cWnd = InitialCwnd * SegSize, !.rid = @ + 1])

\* ReTxTimeout, and the end of the connection when it has been tried too often.
ReTxTimeout ==
  /\ Idle /\ snd.b.una < MaxSeg
  /\ \/ Quiet /\ UNCHANGED <<spurious, faults>>
     \/ ~Quiet /\ spurious < MaxSpurious /\ spurious' = spurious + 1 /\ faults' = faults + 1
  /\ IF snd.dataRetrCount = 0
     THEN closed' = TRUE /\ UNCHANGED <<snd, sending>>
     ELSE snd' = AfterTimeout(snd) /\ sending' = TRUE /\ UNCHANGED closed
  /\ UNCHANGED <<receiver, link, acks, erased, slowed, losses, ackLosses>>
-----------------------------------------------------------------------------
(* Receiver and path *)

\* ReceivedData of segment seg.  tag is the round of a recovered segment, 0 for
\* another one.  A segment in sequence may have its acknowledgement delayed.
ReceivedData(seg, tag) ==
  LET new    == ~Buffered(rx, seg)
      r      == IF new THEN Add(rx, seg) ELSE rx
      always == ~new \/ r.ooo # {} \/ r.next > rx.next + 1
      ack    == [ack |-> r.next, sackList |-> r.sackList, recovered |-> tag # 0, rid |-> tag]
  IN  /\ rx' = r
      /\ IF always \/ delAck + 1 >= DelAckMax
         THEN delAck' = 0 /\ acks' = Append(acks, ack)
         ELSE delAck' = delAck + 1 /\ UNCHANGED acks

DelAckTimeout ==
  /\ Idle /\ delAck > 0
  /\ delAck' = 0
  /\ acks' = Append(acks, [ack |-> rx.next, sackList |-> rx.sackList, recovered |-> FALSE, rid |-> 0])
  /\ UNCHANGED <<snd, sending, closed, rx, link, erased, slowed, bounds>>

\* A packet of a later round ends what FEC can rebuild of the earlier ones.
Deliver ==
  /\ Idle /\ link # <<>>
  /\ ReceivedData(Head(link).seg, 0)
  /\ erased' = {p \in erased : p.rid >= Head(link).rid}
  /\ link' = Tail(link)
  /\ UNCHANGED <<snd, sending, closed, slowed, bounds>>

\* What FEC can rebuild after the loss of packet p: a retransmission enters its
\* tables as received and is never rebuilt.
ErasedAny(p) == erased \cup {p}
Erased(p) == IF p.again THEN erased ELSE erased \cup {p}

Lose ==
  /\ Idle /\ link # <<>> /\ losses < MaxLoss
  /\ losses' = losses + 1 /\ faults' = faults + 1
  /\ erased' = Erased(Head(link))
  /\ link' = Tail(link)
  /\ UNCHANGED <<snd, sending, closed, receiver, acks, slowed, ackLosses, spurious>>

\* FEC hands a segment it rebuilt to the receiver, once the sender has ended
\* the round and with it sent the redundant packets.  It takes one of them to
\* rebuild, so that the rounds before are over.
Rebuild ==
  /\ Idle
  /\ \E p \in erased :
       /\ p.rid < snd.rid
       /\ ReceivedData(p.seg, p.rid)
       /\ erased' = {q \in erased \ {p} : q.rid >= p.rid}
  /\ UNCHANGED <<snd, sending, closed, link, slowed, bounds>>

LoseAck ==
  /\ Idle /\ acks # <<>> /\ ackLosses < MaxAckLoss
  /\ ackLosses' = ackLosses + 1 /\ faults' = faults + 1
  /\ acks' = Tail(acks)
  /\ UNCHANGED <<snd, sending, closed, receiver, link, erased, slowed, losses, spurious>>
-----------------------------------------------------------------------------
Init ==
  /\ snd = [b |-> EmptyTxBuffer, congState |-> "OPEN",
            cWnd |-> InitialCwnd * SegSize, ssThresh |-> InitialSsThresh,
            dupAckCount |-> 0, recover |-> 0, recoverActive |-> FALSE,
            dataRetrCount |-> DataRetries, rec_rid_ |-> 1,
            rid |-> 1, fc |-> RoundSize(InitialCwnd).fwin, out |-> <<>>]
  /\ sending = TRUE /\ closed = FALSE
  /\ rx = EmptyRxBuffer /\ delAck = 0
  /\ link = <<>> /\ acks = <<>> /\ erased = {} /\ slowed = <<>>
  /\ losses = 0 /\ ackLosses = 0 /\ spurious = 0 /\ faults = 0

Next ==
  \/ SendPendingData \/ ReceivedAck \/ ReTxTimeout
  \/ DelAckTimeout \/ Deliver \/ Lose \/ Rebuild \/ LoseAck

Spec == Init /\ [][Next]_vars

\* The simulator runs every scheduled event: what is under way arrives or is
\* lost, SendPendingData ends, and both timers expire in the end.
\* Each line is weak fairness, with the condition that enables the action.
Timed == Idle /\ snd.b.una < MaxSeg /\ (Quiet \/ spurious < MaxSpurious)
Fairness ==
  /\ []<>~(sending /\ ~closed) \/ []<><<SendPendingData>>_vars
  /\ []<>~(Idle /\ acks # <<>>) \/ []<><<ReceivedAck \/ LoseAck>>_vars
  /\ []<>~(Idle /\ link # <<>>) \/ []<><<Deliver \/ Lose>>_vars
  /\ []<>~Timed \/ []<><<ReTxTimeout>>_vars
  /\ []<>~(Idle /\ delAck > 0) \/ []<><<DelAckTimeout>>_vars
FairSpec == Spec /\ Fairness
-----------------------------------------------------------------------------
(* Properties *)

\* However often rate control cuts it, the window keeps a whole segment and
\* every FEC round has a packet: RedundancyControl divides the window by the
\* segment size (fec-agent.cc:236), and a round of none would keep the while
\* (fc == 0) of SendDataPacket (tcp-socket-base.cc:3235) going for ever.  There
\* is no floor in the code: it is the increase that comes before the cut, and
\* after a time-out, where none may come, the initial window of two segments.
WindowCoversSegment == snd.cWnd >= SegSize /\ snd.fc >= 1

\* ConsistencyCheck and the assertions of TcpTxBuffer (tcp-tx-buffer.cc:817,
\* 871, 872, 1076, 1428): the sums agree with the flags, which are those of
\* outstanding segments, nothing is both SACKed and lost, the head is never
\* SACKed, and so no unsigned difference wraps.
ScoreboardConsistent ==
  LET b == snd.b
  IN  /\ b.sackedOut = Cardinality(b.sacked) /\ b.lostOut = Cardinality(b.lost)
      /\ b.retransOut = Cardinality(b.retrans)
      /\ b.sacked \cup b.lost \cup b.retrans \subseteq SentList(b)
      /\ b.sacked \cap b.lost = {} /\ HeadSeg(b) \notin b.sacked

\* The sender believes nothing that did not happen: what it takes for received
\* was received, whatever is lost, delayed or rebuilt on the way.
ScoreboardTruthful ==
  /\ snd.b.una <= rx.next
  /\ snd.b.sacked \subseteq 1 .. rx.next \cup rx.ooo

\* The SACK list of the receiver names exactly the segments behind a gap, in
\* blocks that neither meet nor overlap, after any sequence of arrivals
\* (tcp-rx-buffer.cc:239-333).
SackListExact ==
  LET block(i) == rx.sackList[i].lo .. rx.sackList[i].hi
  IN  /\ UNION {block(i) : i \in DOMAIN rx.sackList} = rx.ooo
      /\ \A i \in DOMAIN rx.sackList : rx.sackList[i].hi + 1 \notin rx.ooo
      /\ \A i, j \in DOMAIN rx.sackList : i # j => block(i) \cap block(j) = {}

\* The assertions of DupAck (tcp-socket-base.cc:1724, 1756) and what they rest
\* on: a recovery point is active in CA_RECOVERY and CA_LOSS and only there,
\* and as long as it is, it has not been acknowledged.
CongestionStates ==
  /\ snd.congState \in {"OPEN", "LOSS"} => snd.dupAckCount = 0
  /\ snd.congState = "DISORDER" => snd.dupAckCount \in 1 .. ReTxThresh - 1
  /\ snd.recoverActive <=> snd.congState \in {"RECOVERY", "LOSS"}
  /\ snd.recoverActive => snd.b.una < snd.recover

\* As long as there is data, the sender does not stop with nothing outstanding:
\* no acknowledgement would come, and only the timer could go on.
NeverIdleWithData == Idle /\ snd.b.una < MaxSeg => snd.b.una < snd.b.sent

\* A new recovery does not start before the recovery point of the last one, or
\* of a time-out, is acknowledged: one window of data cuts the window once
\* (RFC 6675 section 5.1, tcp-socket-base.cc:2103-2106).
OneRecoveryPerWindow ==
  [][snd.congState # "RECOVERY" /\ snd'.congState = "RECOVERY" => snd'.b.una >= snd.recover]_vars

\* Rate control cuts the window at most once per round, and for rounds in the
\* order in which they were sent, also when round numbers pass the width they
\* are kept in (tcp-socket-base.cc:1896-1911).
SlowedOncePerRound == \A i, j \in DOMAIN slowed : i < j => slowed[i] < slowed[j]

\* The connection is given up only for a run of faults without progress: since
\* una last advanced, each time-out but the first took a loss, or an expiry that
\* came too early, of its own.  (The first may be for a loss before that.)
\* Whatever the congestion state in which una advances, what was tried before it
\* does not count (m_dataRetrCount, tcp-socket-base.cc:4310, 4229).
DroppedOnlyForLosses == closed => faults >= DataRetries

\* If the path loses a bounded number of packets, everything is acknowledged in
\* the end: SACK, recovery and the retransmission timer leave no segment behind
\* and rate control does not close the window.
AllAcknowledged == <>(snd.b.una = MaxSeg)

\* What the comment on step (2) of DupAck says: when the first segment that is
\* not acknowledged counts as lost, recovery begins.
LossStartsRecovery == snd.congState = "DISORDER" => ~IsLost(snd.b, HeadSeg(snd.b))

\* What the comment in ReTxTimeout says: the threshold is lowered if the segment
\* has not yet been sent again by the timer, so not a second time for it.
SsThreshOncePerSegment ==
  [][snd.congState = "LOSS" /\ IsHeadRetransmitted(snd.b) /\ snd'.dataRetrCount < snd.dataRetrCount
       => snd'.ssThresh = snd.ssThresh]_vars

\* The path of this module is one that FEC provides: it assumes of the tables,
\* the groups and the transit queue no more than FecPath, which FecEnd
\* implements.
Path == INSTANCE FecPath WITH
  wire <- link, gap <- erased, round <- snd.rid, rcvd <- 1 .. rx.next \cup rx.ooo
RestsOnFecPath == Path!Spec
=============================================================================
