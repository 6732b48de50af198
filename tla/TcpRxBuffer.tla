---------------------------- MODULE TcpRxBuffer ----------------------------
(***************************************************************************)
(* The receiver's buffer (class TcpRxBuffer): next, the last segment of    *)
(* the data received in sequence (NextRxSequence - 1), ooo, the segments   *)
(* kept behind a gap, and the SACK blocks to report, latest first.  The    *)
(* application takes data as soon as it is in sequence.                    *)
(***************************************************************************)
EXTENDS Integers, Sequences, FiniteSets, SequencesExt

EmptyRxBuffer == [next |-> 0, ooo |-> {}, sackList |-> <<>>]

MaxSackBlocks == 4

UpdateSackListSpan(list, seg) ==
  <<[lo |-> Min({seg} \cup {list[i].lo : i \in DOMAIN list}),
     hi |-> Max({seg} \cup {list[i].hi : i \in DOMAIN list})]>>
\* The blocks of the list that are in S, in their order.
KeepOnly(list, S) ==
  LET kept[i \in 0 .. Len(list)] ==
        IF i = 0 THEN <<>>
        ELSE IF list[i] \in S THEN Append(kept[i - 1], list[i]) ELSE kept[i - 1]
  IN  kept[Len(list)]

\* The block of segment seg, merged with its neighbours, goes to the front.
UpdateSackList(list, seg) ==
  LET left  == {i \in DOMAIN list : list[i].hi + 1 = seg}
      right == {i \in DOMAIN list : seg + 1 = list[i].lo}
      block == [lo |-> Min({seg} \cup {list[i].lo : i \in left}),
                hi |-> Max({seg} \cup {list[i].hi : i \in right})]
      rest  == KeepOnly(list, {s \in ToSet(list) : s.hi + 1 # seg /\ seg + 1 # s.lo})
  IN  SubSeq(<<block>> \o rest, 1, Min({MaxSackBlocks, Len(rest) + 1}))

ClearSackNever(list, next) == list
\* Blocks that the data in sequence has reached.
ClearSackList(list, next) == KeepOnly(list, {s \in ToSet(list) : s.hi > next})

Buffered(rx, seg) == seg <= rx.next \/ seg \in rx.ooo

\* A segment that is not Buffered enters.
Add(rx, seg) ==
  LET ooo  == rx.ooo \cup {seg}
      list == IF seg > rx.next + 1 THEN UpdateSackList(rx.sackList, seg) ELSE rx.sackList
      next == Max({n \in rx.next .. rx.next + Cardinality(ooo) : rx.next + 1 .. n \subseteq ooo})
  IN  [next |-> next, ooo |-> {s \in ooo : s > next}, sackList |-> ClearSackList(list, next)]
=============================================================================
