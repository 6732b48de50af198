------------------------------ MODULE FecTables ------------------------------
(***************************************************************************)
(* The tables in which FecRouterAgent records what it has sent, and the    *)
(* four passes its receive path makes over them.  A table queue is a       *)
(* sequence of rounds, oldest first (std::queue); a round is               *)
(*   round table rt_:  [rid, n, pi]  pi the list of all its packets        *)
(*   group table gt_:  [rid, n, gi]  gi[g] the list of those of group g    *)
(* and a list entry is a PacketInfo.  The two tables hold copies, so an    *)
(* entry is marked in each separately.  hdr stands for the TCP and IP      *)
(* headers kept to rebuild or to request a packet; 0 where there are none. *)
(*                                                                         *)
(* n is the number of groups the round was opened for.  FecRouterAgent     *)
(* opens every round for the configured NGroups; FecAgent, whose passes    *)
(* are the same, for what the congestion window allows (FecEnd).           *)
(***************************************************************************)
EXTENDS FecConfig, Sequences, FiniteSets, SequencesExt

CONSTANT SendRxRequest    \* request lost packets from the sender (m_sendRxRequest)

ASSUME SendRxRequestAssumption == SendRxRequest \in BOOLEAN

Groups == 0 .. NGroups - 1
Sizes == 1 .. NGroups       \* groups that a round may have

\* Packet types of FecTag; NONE is a packet below the segment size.
NONE == 0
DATA == 1
REDUNDANT == 2
REXMIT == 3       \* a retransmission, between end points only
RECOVERED == 4

PacketInfo == [serial : Nat, gid : Groups, fec : BOOLEAN, hdr : Nat,
               check : BOOLEAN, flag : BOOLEAN]
RoundFecTable == [rid : Nat, n : Sizes, pi : Seq(PacketInfo)]
GroupFecTable == [rid : Nat, n : Sizes, gi : [Groups -> Seq(PacketInfo)]]
-----------------------------------------------------------------------------
(* What the sending side does to the tables *)

\* UpdateFecTable: an empty table for round rid at the back of each queue.
WithRound(rt, rid, n) == Append(rt, [rid |-> rid, n |-> n, pi |-> <<>>])
WithGroups(gt, rid, n) == Append(gt, [rid |-> rid, n |-> n, gi |-> [g \in Groups |-> <<>>]])

\* rt_.back ().pi_.push_back (pi) and gt_.back ().gi_[m_groupId].pi_.push_back (pi)
RoundPush(rt, pi) == [rt EXCEPT ![Len(rt)].pi = Append(@, pi)]
GroupPush(gt, pi) == [gt EXCEPT ![Len(gt)].gi[pi.gid] = Append(@, pi)]
-----------------------------------------------------------------------------
(* What the receiving side does to them *)

\* The position at which a loop over a list stops; 0 if it runs off the end.
First(I) == IF I = {} THEN 0 ELSE Min(I)

\* while (q.front ().rid_ < rid) q.pop ();  the queue is empty afterwards
\* only if the loop reads front () of an empty queue.
PopThrough(q, rid) ==
  SelectSeq(q, LAMBDA t : t.rid > rid)
PopBelow(q, rid) ==
  LET first == First({i \in 1 .. Len(q) : q[i].rid >= rid})
  IN  IF first = 0 THEN <<>> ELSE SubSeq(q, first, Len(q))

\* The loop's search for an entry of list pi; 0 if it has none.
PosInRound(pi, p) ==
  First({i \in 1 .. Len(pi) : pi[i].serial = p.serial /\ pi[i].gid = p.gid})
PosInGroup(pi, p) == First({i \in 1 .. Len(pi) : pi[i].serial = p.serial})

CheckedNever(pi, k) == pi
Checked(pi, k) == [pi EXCEPT ![k].check = TRUE]

\* The entries at positions ask are requested: flag_ is set.
FlaggedNever(pi, ask) == pi
Flagged(pi, ask) == [i \in DOMAIN pi |-> [pi[i] EXCEPT !.flag = @ \/ i \in ask]]

\* The headers of the requested entries, with which the requests are built.
LostPacketInfo(pi, ask) == {pi[i].hdr : i \in ask}

\* Entries of pi before position n that count as lost.
MissingBoundIncluded(pi, n, bound) ==
  {i \in 1 .. n - 1 : ~pi[i].check /\ pi[i].serial <= bound}
Missing(pi, n, bound) ==
  {i \in 1 .. n - 1 : ~pi[i].check /\ pi[i].serial < bound}

\* The entries of the rounds in q that PrintRoundFecTable counts as lost data
\* (fec = FALSE) or redundant (fec = TRUE) packets.  The simulations of
\* scratch/ enable the stream, and the two counters move only with it.
PrintRoundFecTableAllKinds(q, fec) ==
  {x \in UNION {{i} \X DOMAIN q[i].pi : i \in DOMAIN q} : ~q[x[1]].pi[x[2]].check}
PrintRoundFecTable(q, fec) ==
  {x \in UNION {{i} \X DOMAIN q[i].pi : i \in DOMAIN q} :
     LET e == q[x[1]].pi[x[2]] IN e.fec = fec /\ ~e.check}
-----------------------------------------------------------------------------
\* Both round passes can run on rt for packet p: no front () of an empty
\* queue, and the while (true) around the search ends.
RoundServes(rt, p) ==
  /\ rt # <<>>
  /\ p.rid >= rt[1].rid =>
       LET q == PopBelow(rt, p.rid)
       IN  q # <<>> /\ q[1].rid = p.rid /\ PosInRound(q[1].pi, p) # 0

\* The same for the two group passes; their first test reads rt, not gt.
GroupServes(rt, gt, p) ==
  /\ rt # <<>>
  /\ p.rid >= rt[1].rid =>
       LET q == PopBelow(gt, p.rid)
       IN  q # <<>> /\ q[1].rid = p.rid /\ PosInGroup(q[1].gi[p.gid], p) # 0

MarkRoundFecTable(rt, p) ==
  IF p.rid < rt[1].rid THEN rt
  ELSE LET q == PopBelow(rt, p.rid)
       IN  [q EXCEPT ![1].pi = Checked(@, PosInRound(@, p))]

NothingCloses(rt, p) == p.type = REDUNDANT /\ p.gid = rt[1].n
\* The redundant packet of the round's last group; rt[1] is its round.
ClosesRound(rt, p) == p.type = REDUNDANT /\ p.gid = rt[1].n - 1

\* rt is what MarkRoundFecTable left: the older rounds are already popped.
\* Losses of the round, counted for a data packet up to its own entry and for
\* a redundant packet over the whole list; serial Fwin * NGroups, the last
\* data packet, is outside the bound.  A data packet also has every loss it
\* sees requested once.  The redundant packet of the last group closes the
\* round.
CheckRoundFecTable(rt, p) ==
  IF p.rid < rt[1].rid THEN [rt |-> rt, sumlost |-> 0, asked |-> {}]
  ELSE
    LET pi   == rt[1].pi
        n    == IF p.type = DATA THEN PosInGroup(pi, p) + 1 ELSE Len(pi) + 1
        lost == Missing(pi, n, Fwin * NGroups)
        ask  == IF p.type = DATA /\ SendRxRequest
                THEN {i \in lost : ~pi[i].flag} ELSE {}
    IN  [rt      |-> IF ClosesRound(rt, p)
                     THEN Tail(rt) ELSE [rt EXCEPT ![1].pi = Flagged(@, ask)],
         sumlost |-> Cardinality(lost),
         asked   |-> LostPacketInfo(pi, ask)]

\* The rounds that the two passes pop off rt, as PrintRoundFecTable sees them.
Closed(rt, p) ==
  LET mark == MarkRoundFecTable(rt, p)
  IN  SubSeq(rt, 1, Len(rt) - Len(mark))
        \o (IF p.rid >= mark[1].rid /\ ClosesRound(mark, p) THEN <<mark[1]>> ELSE <<>>)

\* rt is the round table as CheckRoundFecTable left it.
MarkGroupFecTable(rt, gt, p) ==
  IF p.rid < rt[1].rid THEN [gt |-> gt, nlost |-> 0]
  ELSE LET q  == PopBelow(gt, p.rid)
           pi == q[1].gi[p.gid]
           k  == PosInGroup(pi, p)
       IN  [gt    |-> [q EXCEPT ![1].gi[p.gid] = Checked(@, k)],
            nlost |-> Cardinality(Missing(pi, k, p.serial))]

\* All groups forgotten with the one that is decided.
CheckGroupFecTableClearsAll(rt, gt, p, nlost) ==
  LET q == PopBelow(gt, p.rid)
  IN  [gt        |-> IF p.rid < rt[1].rid THEN gt
                     ELSE [q EXCEPT ![1].gi = [g \in Groups |-> <<>>]],
       mlost     |-> 0,
       recovered |-> <<>>]

\* On a group's redundant packet: rebuild the one missing packet, if it is
\* one, and forget the group.
CheckGroupFecTable(rt, gt, p, nlost) ==
  IF p.rid < rt[1].rid THEN [gt |-> gt, mlost |-> 0, recovered |-> <<>>]
  ELSE LET q     == PopBelow(gt, p.rid)
           pi    == q[1].gi[p.gid]
           lost  == Missing(pi, PosInGroup(pi, p), p.serial)
           mlost == Cardinality(lost)
       IN  [gt        |-> [q EXCEPT ![1].gi[p.gid] = <<>>],
            mlost     |-> mlost,
            recovered |-> IF nlost = 1 /\ mlost = 1
                         THEN <<pi[CHOOSE i \in lost : TRUE]>> ELSE <<>>]
-----------------------------------------------------------------------------
(* The transit queue, in which the receiving side holds packets back *)

\* After the entries with a serial that is not larger.
InsertAtEnd(tq, p) == Append(tq, p)
InsertOverwrites(tq, p) ==
  LET k == First({i \in 1 .. Len(tq) : tq[i].serial > p.serial})
  IN  IF k = 0 THEN Append(tq, p) ELSE [tq EXCEPT ![k] = p]
InsertTransitQueue(tq, p) ==
  LET k == First({i \in 1 .. Len(tq) : tq[i].serial > p.serial})
  IN  IF k = 0 THEN Append(tq, p)
      ELSE SubSeq(tq, 1, k - 1) \o <<p>> \o SubSeq(tq, k, Len(tq))

-----------------------------------------------------------------------------
(* How the tables and the packets on a path belong together *)

\* A queue of consecutive rounds, the first of them b + 1, and one that ends
\* with round last.
Rounds(q, b) == \A i \in 1 .. Len(q) : q[i].rid = b + i
Ending(q, last) == q # <<>> /\ Rounds(q, last - Len(q))

\* Table t has the entry of packet p.
RoundHas(t, p) ==
  \E k \in 1 .. Len(t.pi) : t.pi[k].serial = p.serial /\ t.pi[k].gid = p.gid
GroupHas(t, p) ==
  \E k \in 1 .. Len(t.gi[p.gid]) : t.gi[p.gid][k].serial = p.serial

\* Where the round of p is in a table queue that ends with round last.
Index(q, last, p) == p.rid - last + Len(q)

Recorded(rt, gt, last, p) ==
  /\ p.type \in {DATA, REDUNDANT, REXMIT}
  /\ Index(rt, last, p) \in 1 .. Len(rt) /\ RoundHas(rt[Index(rt, last, p)], p)
  /\ p.gid < rt[Index(rt, last, p)].n
  /\ Index(gt, last, p) \in 1 .. Len(gt) /\ GroupHas(gt[Index(gt, last, p)], p)

\* Packet p is sent before q.  Nothing follows a group's redundant packet but
\* those of later groups and the packets of later rounds.
Before(p, q) ==
  /\ p.rid <= q.rid
  /\ p.type = REDUNDANT /\ p.rid = q.rid => p.gid < q.gid

\* The packets on path l are recorded, are in order, and those still to come
\* are behind all of them: in round last, from group gid on, and redundant only
\* when fc data packets, none, are left.
Covered(l, rt, gt, last) ==
  \A n \in 1 .. Len(l) : l[n].type # NONE => Recorded(rt, gt, last, l[n])
Ordered(l) ==
  \A m, n \in 1 .. Len(l) :
    m < n /\ l[m].type # NONE /\ l[n].type # NONE => Before(l[m], l[n])
Behind(l, last, fc, gid) ==
  \A m \in 1 .. Len(l) : l[m].type # NONE =>
    /\ l[m].rid <= last
    /\ l[m].type = REDUNDANT /\ l[m].rid = last => fc = 0 /\ l[m].gid < gid
=============================================================================
