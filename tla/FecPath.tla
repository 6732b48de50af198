------------------------------ MODULE FecPath ------------------------------
(***************************************************************************)
(* What FEC over a lossy path promises to the TCP above it, whichever of   *)
(* the two places does the work: segments arrive in the order in which     *)
(* they were sent, and one that the path lost may still arrive, once the   *)
(* round it belongs to is complete and as long as no segment of a later    *)
(* round has arrived.  Nothing else arrives, and a retransmission that is  *)
(* lost stays lost.                                                        *)
(*                                                                         *)
(* FecRouter and FecEnd implement this specification, and TcpCongestion,   *)
(* which has no tables, rests on no more than it says.                     *)
(***************************************************************************)
EXTENDS Integers, Sequences, SequencesExt

VARIABLES wire,     \* segments sent and not delivered, [seg, rid, again]
          gap,      \* the lost ones that can still be rebuilt
          round,    \* the round being sent
          rcvd      \* segments that have reached TCP

Init == wire = <<>> /\ gap = {} /\ round = 1 /\ rcvd = {}

SegmentsOf(S) == {p.seg : p \in S}

\* Segments of the current round are sent, and rounds may be completed or
\* abandoned between them.
Send ==
  /\ round' >= round
  /\ IsPrefix(wire, wire')
  /\ \A i \in Len(wire) + 1 .. Len(wire') : wire'[i].rid \in round .. round'
  /\ UNCHANGED <<gap, rcvd>>

Lose ==
  /\ \E i \in DOMAIN wire :
       /\ wire' = SubSeq(wire, 1, i - 1) \o SubSeq(wire, i + 1, Len(wire))
       /\ gap' = IF wire[i].again THEN gap ELSE gap \cup {wire[i]}
  /\ UNCHANGED <<round, rcvd>>

\* The first n segments arrive, and with them rebuilt ones.  What was lost
\* before a segment of a later round that arrives is given up.
Deliver ==
  /\ \E n \in 0 .. Len(wire) : \E rebuilt \in SUBSET {p \in gap : p.rid < round} :
       /\ wire' = SubSeq(wire, n + 1, Len(wire))
       /\ gap' \subseteq gap \ rebuilt
       /\ \A i \in 1 .. n : \A p \in gap' : wire[i].rid <= p.rid
       /\ rcvd' = rcvd \cup SegmentsOf(ToSet(SubSeq(wire, 1, n)) \cup rebuilt)
  /\ UNCHANGED round

Spec == Init /\ [][Send \/ Lose \/ Deliver]_<<wire, gap, round, rcvd>>
=============================================================================
