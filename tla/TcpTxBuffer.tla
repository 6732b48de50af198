---------------------------- MODULE TcpTxBuffer ----------------------------
(***************************************************************************)
(* The sender's buffer and SACK scoreboard (class TcpTxBuffer).  Data is   *)
(* counted in full segments, numbered from 1, so an item of the sent list  *)
(* is a segment and is never split or merged.  A buffer b is               *)
(*   una, sent                   the sent list is una + 1 .. sent          *)
(*   sacked, lost, retrans       the items with these flags                *)
(*   sackedOut, lostOut, retransOut  the sums the class keeps beside them  *)
(*   high                        m_highestSack, 0 for none                 *)
(* The application has MaxSeg segments for it; the receiver's window is    *)
(* never what limits the sender.                                           *)
(***************************************************************************)
EXTENDS Integers, Sequences, FiniteSets, SequencesExt

CONSTANTS ReTxThresh,   \* segments SACKed above a hole that mark it lost
          MaxSeg        \* bound: segments the application sends

ASSUME TxBufferAssumption == ReTxThresh \in Nat \ {0} /\ MaxSeg \in Nat \ {0}

EmptyTxBuffer ==
  [una |-> 0, sent |-> 0, sacked |-> {}, lost |-> {}, retrans |-> {},
   sackedOut |-> 0, lostOut |-> 0, retransOut |-> 0, high |-> 0]

SentList(b) == b.una + 1 .. b.sent
HeadSeg(b) == b.una + 1

GetNewSegment(b) == [b EXCEPT !.sent = @ + 1]
GetTransmittedSegment(b, seg) ==
  IF seg \in b.retrans THEN b
  ELSE [b EXCEPT !.retrans = @ \cup {seg}, !.retransOut = @ + 1]
CopyFromSequence(b, seg) ==
  IF seg > b.sent THEN GetNewSegment(b) ELSE GetTransmittedSegment(b, seg)

DiscardKeepsRetrans(b, ack) ==
  LET gone == b.una + 1 .. ack
  IN  IF ack <= b.una THEN b
      ELSE [b EXCEPT !.una = ack,
              !.sacked = @ \ gone, !.sackedOut = @ - Cardinality(b.sacked \cap gone),
              !.lost = @ \ gone, !.lostOut = @ - Cardinality(b.lost \cap gone),
              !.retrans = @ \ gone,
              !.high = IF @ <= ack + 1 THEN 0 ELSE @]
\* Everything up to segment ack leaves the buffer, and the counts with it.  A
\* head that is SACKed would get its flag taken away here; there is none, by
\* ScoreboardConsistent.
DiscardUpTo(b, ack) ==
  LET gone == b.una + 1 .. ack
  IN  IF ack <= b.una THEN b
      ELSE [b EXCEPT !.una = ack,
              !.sacked = @ \ gone, !.sackedOut = @ - Cardinality(b.sacked \cap gone),
              !.lost = @ \ gone, !.lostOut = @ - Cardinality(b.lost \cap gone),
              !.retrans = @ \ gone, !.retransOut = @ - Cardinality(b.retrans \cap gone),
              !.high = IF @ <= ack + 1 THEN 0 ELSE @]

\* A walk from the highest SACKed item down to the head: what has ReTxThresh
\* SACKed items above it is lost.
UpdateLostCount(b) ==
  LET above(seg) == Cardinality({r \in b.sacked : seg <= r /\ r <= b.high})
      marked == {seg \in b.una + 2 .. b.high : seg \notin b.sacked /\ above(seg) >= ReTxThresh}
                  \cup (IF above(b.una + 2) >= ReTxThresh THEN {HeadSeg(b)} ELSE {})
  IN  [b EXCEPT !.lost = @ \cup marked, !.lostOut = @ + Cardinality(marked \ b.lost)]

\* The items that block k of a SACK option newly reports; an earlier block may
\* have reported them already.
Covers(block, seg) == block.lo <= seg /\ seg <= block.hi
NewlySacked(b, blocks, k) ==
  {seg \in SentList(b) \ b.sacked :
     Covers(blocks[k], seg) /\ \A j \in 1 .. k - 1 : ~Covers(blocks[j], seg)}

\* The highest item after a block of which the items of new were SACKed, in
\* ascending order, so that the last of them decides.  One right below the
\* highest item takes its place too (<= where the ends meet).
HighestSack(high, new) ==
  IF new = {} \/ (high # 0 /\ high > Max(new) + 1) THEN high ELSE Max(new)

HighestAfter(b, blocks) ==
  LET high[k \in 0 .. Len(blocks)] ==
        IF k = 0 THEN b.high ELSE HighestSack(high[k - 1], NewlySacked(b, blocks, k))
  IN  high[Len(blocks)]

\* The scoreboard after a SACK option.  No block lies beyond the sent list, at
\* which the code would return early: ScoreboardTruthful.
Update(b, blocks) ==
  LET got == {seg \in SentList(b) \ b.sacked : \E k \in DOMAIN blocks : Covers(blocks[k], seg)}
  IN  IF got = {} THEN b
      ELSE UpdateLostCount(
             [b EXCEPT !.sacked = @ \cup got, !.sackedOut = @ + Cardinality(got),
                       !.lost = @ \ got, !.lostOut = @ - Cardinality(b.lost \cap got),
                       !.high = HighestAfter(b, blocks)])

\* The first item from seg on that has one of the flags has the lost one.
IsLost(b, seg) ==
  LET flagged == {r \in SentList(b) : r >= seg /\ r \in b.lost \cup b.sacked}
  IN  seg < b.high /\ flagged # {} /\ Min(flagged) \in b.lost

\* What to send next, 0 for nothing: a lost item, then new data, then (rule 3,
\* in recovery) any item neither SACKed nor retransmitted.
NextSeg(b, isRecovery) ==
  LET fresh == SentList(b) \ (b.retrans \cup b.sacked)
  IN  IF fresh \cap b.lost # {} THEN Min(fresh \cap b.lost)
      ELSE IF b.sent < MaxSeg THEN b.sent + 1
      ELSE IF isRecovery /\ fresh # {} THEN Min(fresh)
      ELSE 0

\* In segments.
BytesInFlight(b) == (b.sent - b.una) - (b.sackedOut + b.lostOut) + b.retransOut

SetSentListLostKeepsRetrans(b) ==
  LET lost == b.lost \cup (SentList(b) \ b.sacked)
  IN  [b EXCEPT !.lost = lost, !.lostOut = Cardinality(lost)]
\* After a time-out; SACK information is kept.
SetSentListLost(b) ==
  LET lost == b.lost \cup (SentList(b) \ b.sacked)
  IN  [b EXCEPT !.lost = lost, !.lostOut = Cardinality(lost), !.retrans = {}, !.retransOut = 0]

MarkHeadAsLost(b) ==
  LET h == {HeadSeg(b)} \cap SentList(b)
  IN  [b EXCEPT !.sacked = @ \ h, !.sackedOut = @ - Cardinality(b.sacked \cap h),
                !.retrans = @ \ h, !.retransOut = @ - Cardinality(b.retrans \cap h),
                !.lost = @ \cup h, !.lostOut = @ + Cardinality(h \ b.lost)]

IsHeadRetransmitted(b) == HeadSeg(b) \in b.retrans
\* Segment seg is outstanding and was retransmitted; ack, in the code, is its end.
IsRetransmittedDataAcked(b, seg) == seg \in (SentList(b) \ b.sacked) \cap b.retrans
=============================================================================
