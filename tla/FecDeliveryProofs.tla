-------------------------- MODULE FecDeliveryProofs --------------------------
(***************************************************************************)
(* What the decoder has forwarded or holds, and the losses it counts,      *)
(* account for every packet that was sent: nothing disappears, nothing is  *)
(* rebuilt that was not lost, and nothing is delivered twice.              *)
(*                                                                         *)
(* Recv rebuilds the unmarked entries of a group table and never looks at  *)
(* what it has received.  What it rebuilds is lost and new all the same: a *)
(* data entry that is not marked belongs to a packet that is on the path,  *)
(* or is lost and was not rebuilt, or to a round of which so much was lost *)
(* that Recv leaves the group tables alone.  CheckRoundFecTable's sumlost  *)
(* decides the last, and it is compared with the packets lost one by one.  *)
(***************************************************************************)
EXTENDS FecRouterProofs
-----------------------------------------------------------------------------
(* What the group table knows of the lost packets *)

\* The data packet of entry e of group g in round r.
DataOf(e, r, g) == [type |-> DATA, serial |-> e.serial, rid |-> r, gid |-> g, hdr |-> e.hdr]

\* More of round r is lost than redundancy can repair: Recv no longer looks at
\* the group table for it.
GivenUp(lst, r) == Cardinality({x \in lst : x.rid = r /\ x.serial < Fwin * NGroups}) > NGroups

\* The entries of a group are in the order of their serials, and a redundant
\* packet is the last of them.
GroupsRise(gt) ==
  \A r, g, k, j, e, d :
    GroupEntry(gt, r, g, k, e) /\ GroupEntry(gt, r, g, j, d) /\ j < k =>
      d.serial < e.serial /\ ~d.fec

\* Those of round last have serials below s, and redundant packets are those of
\* the groups below gid, when fc data packets, none, are left.
GroupsLast(gt, last, s, fc, gid) ==
  \A g, k, e : GroupEntry(gt, last, g, k, e) => e.serial < s /\ (e.fec => fc = 0 /\ g < gid)

\* A data packet that is not marked is on path l, or lost and not rebuilt, or
\* its round is given up.
GroupsTrue(gt, l, lst, kept) ==
  \A r, g, k, e : GroupEntry(gt, r, g, k, e) /\ ~e.check /\ ~e.fec =>
    \/ Carries(l, DataOf(e, r, g))
    \/ DataOf(e, r, g) \in lst /\ e.hdr \notin kept
    \/ GivenUp(lst, r)

\* All of it.
GroupsTell(gt, last, s, fc, gid, l, lst, kept) ==
  GroupsRise(gt) /\ GroupsLast(gt, last, s, fc, gid) /\ GroupsTrue(gt, l, lst, kept)

\* A packet is sent and recorded in group gid of round last.
LEMMA PushTells ==
  ASSUME NEW gt \in Seq(GroupFecTable), gt # <<>>, NEW last \in Nat, Ending(gt, last),
         NEW e \in PacketInfo, NEW s \in Nat, e.serial = s, NEW fc, NEW fc2, NEW gid2,
         NEW l \in Seq(Packet), NEW lst, NEW kept, GroupsTell(gt, last, s, fc, e.gid, l, lst, kept),
         NEW p, ~e.fec => p = DataOf(e, last, e.gid),
         e.fec => fc = 0 /\ fc2 = 0 /\ gid2 = e.gid + 1, ~e.fec => fc # 0
  PROVE  GroupsTell(GroupPush(gt, e), last, s + 1, fc2, gid2, Append(l, p), lst, kept)
<1> DEFINE c == GroupPush(gt, e)
<1>1. GroupEntryAdded(c, gt, last, e)
  BY GroupPushAdds
<1>2. GroupsRise(gt) /\ GroupsLast(gt, last, s, fc, e.gid) /\ GroupsTrue(gt, l, lst, kept)
  BY DEF GroupsTell
<1> HIDE DEF c
<1>3. PICK n \in Nat :
        /\ \A r, g, k, x : GroupEntry(c, r, g, k, x) =>
             GroupEntry(gt, r, g, k, x) \/ (r = last /\ g = e.gid /\ k = n /\ x = e)
        /\ \A k, x : GroupEntry(gt, last, e.gid, k, x) => k < n
  BY <1>1 DEF GroupEntryAdded
<1>4. /\ last - Len(gt) \in Int /\ Rounds(gt, last - Len(gt)) /\ e.gid \in Groups
      /\ \A i \in Groups : i \in Int /\ i < i + 1
  BY LenProperties, NGroupsAssumption DEF Ending, PacketInfo, Groups
<1>5. \A r, g, k, x : GroupEntry(gt, r, g, k, x) =>
        /\ x \in PacketInfo /\ k \in Nat /\ g \in Groups
        /\ \A d : GroupEntry(gt, r, g, k, d) => d = x
  BY <1>4, GroupEntryFacts
<1>6. \A k, x : GroupEntry(gt, last, e.gid, k, x) => k < n /\ x.serial < s /\ ~x.fec
  <2> SUFFICES ASSUME NEW k, NEW x, GroupEntry(gt, last, e.gid, k, x)
               PROVE  k < n /\ x.serial < s /\ ~x.fec
    OBVIOUS
  <2>1. x.serial < s /\ (x.fec => fc = 0 /\ e.gid < e.gid)
    BY <1>2 DEF GroupsLast
  <2>2. ~(e.gid < e.gid)
    BY <1>4
  <2> QED
    BY <1>3, <2>1, <2>2
<1>7. GroupsRise(c)
  <2> SUFFICES ASSUME NEW r, NEW g, NEW k, NEW j, NEW x, NEW d,
                      GroupEntry(c, r, g, k, x), GroupEntry(c, r, g, j, d), j < k
               PROVE  d.serial < x.serial /\ ~d.fec
    BY DEF GroupsRise
  <2>1. CASE GroupEntry(gt, r, g, k, x) /\ GroupEntry(gt, r, g, j, d)
    BY <1>2, <2>1 DEF GroupsRise
  <2>2. CASE ~GroupEntry(gt, r, g, j, d)
    <3>1. r = last /\ g = e.gid /\ j = n
      BY <1>3, <2>2
    <3>2. k = n \/ (k < n /\ k \in Nat)
      BY <1>3, <1>5, <3>1
    <3> QED
      BY <3>1, <3>2
  <2>3. CASE GroupEntry(gt, r, g, j, d) /\ ~GroupEntry(gt, r, g, k, x)
    <3>1. r = last /\ g = e.gid /\ k = n /\ x = e
      BY <1>3, <2>3
    <3> QED
      BY <1>6, <2>3, <3>1
  <2> QED
    BY <2>1, <2>2, <2>3
<1>8. GroupsLast(c, last, s + 1, fc2, gid2)
  <2> SUFFICES ASSUME NEW g, NEW k, NEW x, GroupEntry(c, last, g, k, x)
               PROVE  x.serial < s + 1 /\ (x.fec => fc2 = 0 /\ g < gid2)
    BY DEF GroupsLast
  <2>1. CASE GroupEntry(gt, last, g, k, x)
    <3>1. x.serial < s /\ (x.fec => fc = 0 /\ g < e.gid)
      BY <1>2, <2>1 DEF GroupsLast
    <3>2. x.serial \in Nat /\ g \in Groups
      BY <1>5, <2>1 DEF PacketInfo
    <3>3. x.serial < s + 1
      BY ONLY <3>1, <3>2, s \in Nat
    <3>4. g < e.gid => g < e.gid + 1
      BY <1>4, <3>2 DEF Groups
    <3> QED
      BY <3>1, <3>3, <3>4
  <2>2. CASE g = e.gid /\ x = e
    <3>1. s < s + 1
      OBVIOUS
    <3> QED
      BY <1>4, <2>2, <3>1
  <2> QED
    BY <1>3, <2>1, <2>2
<1>9. GroupsTrue(c, Append(l, p), lst, kept)
  <2> SUFFICES ASSUME NEW r, NEW g, NEW k, NEW x, GroupEntry(c, r, g, k, x), ~x.check, ~x.fec
               PROVE  \/ Carries(Append(l, p), DataOf(x, r, g))
                      \/ DataOf(x, r, g) \in lst /\ x.hdr \notin kept
                      \/ GivenUp(lst, r)
    BY DEF GroupsTrue
  <2>1. Carries(Append(l, p), p) /\ \A y : Carries(l, y) => Carries(Append(l, p), y)
    <3>1. /\ Len(l) \in Nat /\ Len(Append(l, p)) = Len(l) + 1 /\ Append(l, p)[Len(l) + 1] = p
          /\ \A i \in 1 .. Len(l) : Append(l, p)[i] = l[i]
      BY LenProperties
    <3> QED
      BY <3>1 DEF Carries
  <2>2. CASE GroupEntry(gt, r, g, k, x)
    BY <1>2, <2>1, <2>2 DEF GroupsTrue
  <2>3. CASE r = last /\ g = e.gid /\ x = e
    BY <2>1, <2>3
  <2> QED
    BY <1>3, <2>2, <2>3
<1> QED
  BY <1>7, <1>8, <1>9 DEF GroupsTell, c

\* A round that is yet to begin has no entries.
LEMMA OpenTells ==
  ASSUME NEW gt \in Seq(GroupFecTable), NEW last \in Nat, NEW b \in Int, Rounds(gt, b),
         b + Len(gt) = last, NEW s, NEW fc, NEW gid,
         NEW l, NEW lst, NEW kept, GroupsTell(gt, last, s, fc, gid, l, lst, kept),
         NEW rid \in {last, last + 1}, NEW size \in Sizes, NEW s2, NEW fc2, NEW gid2,
         rid = last => s2 = s /\ (fc = 0 => fc2 = fc) /\ gid2 = gid
  PROVE  GroupsTell(WithGroups(gt, rid, size), rid, s2, fc2, gid2, l, lst, kept)
<1> DEFINE c == WithGroups(gt, rid, size)
<1>1. GroupEntriesSame(c, gt)
  BY GroupOpenAdds
<1> HIDE DEF c
<1>2. \A r, g, k, x : GroupEntry(c, r, g, k, x) <=> GroupEntry(gt, r, g, k, x)
  BY <1>1 DEF GroupEntriesSame
<1>3. GroupsRise(gt) /\ GroupsLast(gt, last, s, fc, gid) /\ GroupsTrue(gt, l, lst, kept)
  BY DEF GroupsTell
<1>4. GroupsRise(c) /\ GroupsTrue(c, l, lst, kept)
  BY <1>2, <1>3 DEF GroupsRise, GroupsTrue
<1>5. GroupsLast(c, rid, s2, fc2, gid2)
  <2>1. CASE rid = last
    BY <1>2, <1>3, <2>1 DEF GroupsLast
  <2>2. CASE rid = last + 1
    <3>1. ASSUME NEW g, NEW k, NEW x, GroupEntry(gt, rid, g, k, x) PROVE FALSE
      <4>1. rid <= b + Len(gt)
        BY <3>1, GroupEntryFacts
      <4> QED
        BY <2>2, <4>1
    <3> QED
      BY <1>2, <3>1 DEF GroupsLast
  <2> QED
    BY <2>1, <2>2
<1> QED
  BY <1>4, <1>5 DEF GroupsTell, c

\* What was given up stays so.
LEMMA GivenUpStays ==
  ASSUME NEW lst, NEW lst2, IsFiniteSet(lst2), lst \subseteq lst2, NEW r, GivenUp(lst, r)
  PROVE  GivenUp(lst2, r)
<1> DEFINE D == {x \in lst : x.rid = r /\ x.serial < Fwin * NGroups}
           D2 == {x \in lst2 : x.rid = r /\ x.serial < Fwin * NGroups}
<1>1. D \subseteq D2 /\ IsFiniteSet(D2)
  <2>1. D2 \subseteq lst2 /\ D \subseteq D2
    OBVIOUS
  <2> HIDE DEF D, D2
  <2> QED
    BY <2>1, FS_Subset
<1>2. Cardinality(D) > NGroups
  BY DEF GivenUp
<1>3. Cardinality(D2) > NGroups
  <2> HIDE DEF D, D2
  <2>1. /\ IsFiniteSet(D) /\ Cardinality(D) <= Cardinality(D2)
        /\ Cardinality(D) \in Nat /\ Cardinality(D2) \in Nat
    BY <1>1, FS_Subset, FS_CardinalityType
  <2> QED
    BY <1>2, <2>1, NGroupsAssumption
<1> QED
  BY <1>3 DEF GivenUp

\* Packet y is on path l2, or lost and not rebuilt, or its round is given up.
Stays(y, l2, lst2, kept2) ==
  Carries(l2, y) \/ (y \in lst2 /\ y.hdr \notin kept2) \/ GivenUp(lst2, y.rid)

\* The groups, when a packet has left path l: c has no other entries than gt.
LEMMA PathTells ==
  ASSUME NEW gt, NEW last, NEW s, NEW fc, NEW gid, NEW l, NEW lst, NEW kept,
         GroupsTell(gt, last, s, fc, gid, l, lst, kept),
         NEW c, \A r, g, k, x : GroupEntry(c, r, g, k, x) =>
                  \E d : /\ GroupEntry(gt, r, g, k, d) /\ x.serial = d.serial /\ x.fec = d.fec
                         /\ x.hdr = d.hdr /\ (~x.check => ~d.check),
         NEW l2, NEW lst2, NEW kept2, lst \subseteq lst2, IsFiniteSet(lst2),
         \A r, g, k, x : GroupEntry(c, r, g, k, x) /\ ~x.check =>
           /\ Carries(l, DataOf(x, r, g)) => Stays(DataOf(x, r, g), l2, lst2, kept2)
           /\ DataOf(x, r, g) \in lst /\ x.hdr \notin kept => x.hdr \notin kept2
  PROVE  GroupsTell(c, last, s, fc, gid, l2, lst2, kept2)
<1>1. GroupsRise(gt) /\ GroupsLast(gt, last, s, fc, gid) /\ GroupsTrue(gt, l, lst, kept)
  BY DEF GroupsTell
<1>2. GroupsRise(c)
  <2> SUFFICES ASSUME NEW r, NEW g, NEW k, NEW j, NEW e, NEW d,
                      GroupEntry(c, r, g, k, e), GroupEntry(c, r, g, j, d), j < k
               PROVE  d.serial < e.serial /\ ~d.fec
    BY DEF GroupsRise
  <2>1. PICK e1 : GroupEntry(gt, r, g, k, e1) /\ e.serial = e1.serial
    OBVIOUS
  <2>2. PICK d1 : GroupEntry(gt, r, g, j, d1) /\ d.serial = d1.serial /\ d.fec = d1.fec
    OBVIOUS
  <2> QED
    BY <1>1, <2>1, <2>2 DEF GroupsRise
<1>3. GroupsLast(c, last, s, fc, gid)
  <2> SUFFICES ASSUME NEW g, NEW k, NEW e, GroupEntry(c, last, g, k, e)
               PROVE  e.serial < s /\ (e.fec => fc = 0 /\ g < gid)
    BY DEF GroupsLast
  <2>1. PICK d : GroupEntry(gt, last, g, k, d) /\ e.serial = d.serial /\ e.fec = d.fec
    OBVIOUS
  <2> QED
    BY <1>1, <2>1 DEF GroupsLast
<1>4. GroupsTrue(c, l2, lst2, kept2)
  <2> SUFFICES ASSUME NEW r, NEW g, NEW k, NEW e, GroupEntry(c, r, g, k, e), ~e.check, ~e.fec
               PROVE  \/ Carries(l2, DataOf(e, r, g))
                      \/ DataOf(e, r, g) \in lst2 /\ e.hdr \notin kept2
                      \/ GivenUp(lst2, r)
    BY DEF GroupsTrue
  <2> DEFINE y == DataOf(e, r, g)
  <2>1. PICK d : /\ GroupEntry(gt, r, g, k, d) /\ e.serial = d.serial /\ e.fec = d.fec
                 /\ e.hdr = d.hdr /\ ~d.check
    OBVIOUS
  <2>2. DataOf(d, r, g) = y /\ y.hdr = e.hdr /\ y.rid = r
    BY <2>1 DEF DataOf
  <2>3. Carries(l, y) \/ (y \in lst /\ e.hdr \notin kept) \/ GivenUp(lst, r)
    BY <1>1, <2>1, <2>2 DEF GroupsTrue
  <2>4. /\ Carries(l, y) => Stays(y, l2, lst2, kept2)
        /\ y \in lst /\ e.hdr \notin kept => e.hdr \notin kept2
    OBVIOUS
  <2>5. GivenUp(lst, r) => GivenUp(lst2, r)
    BY GivenUpStays
  <2> HIDE DEF y
  <2>6. \/ Carries(l2, y) \/ (y \in lst2 /\ e.hdr \notin kept2) \/ GivenUp(lst2, r)
    BY <2>2, <2>3, <2>4, <2>5 DEF Stays
  <2> QED
    BY <2>6 DEF y
<1> QED
  BY <1>2, <1>3, <1>4 DEF GroupsTell

-----------------------------------------------------------------------------
(* Headers on the path and behind it *)

\* The data packets on path l are in the order of their headers, which are of
\* the first h data packets; no other packet has one.
PathRises(l, h) ==
  /\ \A m \in 1 .. Len(l) : IF l[m].type = DATA THEN l[m].hdr \in 1 .. h ELSE l[m].hdr = 0
  /\ \A m, n \in 1 .. Len(l) :
       m < n /\ l[m].type = DATA /\ l[n].type = DATA => l[m].hdr < l[n].hdr

\* The lost data packets' headers.
DataHdrs(lst) == {x.hdr : x \in {y \in lst : y.type = DATA}}

\* Whatever has left path l is before all that is on it.
PastBelow(lst, kept, l) ==
  \A h \in DataHdrs(lst) \cup kept : \A m \in 1 .. Len(l) : l[m].type = DATA => h < l[m].hdr

\* Lost data packets have different headers.
LostUnique(lst) ==
  \A x, y \in lst : x.type = DATA /\ y.type = DATA /\ x.hdr = y.hdr => x = y

\* The packets of s that are not small have headers, each its own.
Single(s) ==
  \A i, j \in 1 .. Len(s) : s[i].type # NONE /\ s[j].type # NONE =>
    s[i].hdr # 0 /\ (i # j => s[i].hdr # s[j].hdr)

\* Every one of the first h data packets is on the path, lost or kept.
Complete(l, lst, kept, h) == Headers(l) \cup DataHdrs(lst) \cup kept = 1 .. h

\* All of this: kept are the headers of s, and rec of them are of lost packets.
Conserved(l, lst, s, h, rec) ==
  /\ PathRises(l, h) /\ PastBelow(lst, Headers(s), l) /\ LostUnique(lst)
  /\ Complete(l, lst, Headers(s), h) /\ Single(s)
  /\ Cardinality(DataHdrs(lst) \cap Headers(s)) = rec

\* A header of a sequence is that of one of its packets.
LEMMA HeaderOf ==
  ASSUME NEW s \in Seq(Packet), NEW h
  PROVE  h \in Headers(s) <=> h # 0 /\ \E i \in 1 .. Len(s) : s[i].hdr = h
BY LenProperties DEF Headers

\* The headers of two sequences in a row.
LEMMA JoinHeaders ==
  ASSUME NEW a \in Seq(Packet), NEW q \in Seq(Packet)
  PROVE  Headers(a \o q) = Headers(a) \cup Headers(q)
<1> DEFINE s == a \o q
<1>1. /\ Len(a) \in Nat /\ Len(q) \in Nat /\ s \in Seq(Packet) /\ Len(s) = Len(a) + Len(q)
      /\ \A i \in 1 .. Len(a) + Len(q) : s[i] = IF i <= Len(a) THEN a[i] ELSE q[i - Len(a)]
  BY LenProperties, ConcatProperties
<1> HIDE DEF s
<1>2. \A i \in 1 .. Len(s) : \/ i \in 1 .. Len(a) /\ s[i] = a[i]
                             \/ i - Len(a) \in 1 .. Len(q) /\ s[i] = q[i - Len(a)]
  BY <1>1
<1>3. \A i \in 1 .. Len(a) : i \in 1 .. Len(s) /\ s[i] = a[i]
  BY <1>1
<1>4. \A j \in 1 .. Len(q) : Len(a) + j \in 1 .. Len(s) /\ s[Len(a) + j] = q[j]
  <2> TAKE j \in 1 .. Len(q)
  <2>1. /\ Len(a) + j \in 1 .. Len(a) + Len(q) /\ ~(Len(a) + j <= Len(a))
        /\ (Len(a) + j) - Len(a) = j
    BY <1>1
  <2> QED
    BY <1>1, <2>1
<1>5. ASSUME NEW h PROVE h \in Headers(s) <=> h \in Headers(a) \/ h \in Headers(q)
  <2>1. h \in Headers(s) <=> h # 0 /\ \E i \in 1 .. Len(s) : s[i].hdr = h
    BY <1>1, HeaderOf
  <2>2. h \in Headers(a) <=> h # 0 /\ \E i \in 1 .. Len(a) : a[i].hdr = h
    BY HeaderOf
  <2>3. h \in Headers(q) <=> h # 0 /\ \E i \in 1 .. Len(q) : q[i].hdr = h
    BY HeaderOf
  <2>4. h \in Headers(s) => h \in Headers(a) \/ h \in Headers(q)
    BY <1>2, <2>1, <2>2, <2>3
  <2>5. h \in Headers(a) => h \in Headers(s)
    BY <1>3, <2>1, <2>2
  <2>6. h \in Headers(q) => h \in Headers(s)
    BY <1>4, <2>1, <2>3
  <2> QED
    BY <2>4, <2>5, <2>6
<1> QED
  BY <1>5 DEF s

\* The headers of the path when a packet is added or has left it.
LEMMA PathHeaders ==
  ASSUME NEW l \in Seq(Packet)
  PROVE  /\ \A p \in Packet : Headers(Append(l, p)) = Headers(l) \cup ({p.hdr} \ {0})
         /\ l # <<>> => Headers(l) = Headers(Tail(l)) \cup ({Head(l).hdr} \ {0})
<1>1. Len(l) \in Nat
  BY LenProperties
<1>2. ASSUME NEW p \in Packet
      PROVE  Headers(Append(l, p)) = Headers(l) \cup ({p.hdr} \ {0})
  <2>1. /\ Append(l, p) \in Seq(Packet) /\ Len(Append(l, p)) = Len(l) + 1
        /\ Append(l, p)[Len(l) + 1] = p /\ \A i \in 1 .. Len(l) : Append(l, p)[i] = l[i]
    OBVIOUS
  <2>2. 1 .. Len(l) + 1 = (1 .. Len(l)) \cup {Len(l) + 1}
    BY <1>1
  <2> DEFINE q == Append(l, p)
  <2> HIDE DEF q
  <2>3. ASSUME NEW h
        PROVE  h \in Headers(q) <=> h \in Headers(l) \cup ({p.hdr} \ {0})
    <3>1. h \in Headers(q) <=> h # 0 /\ \E i \in 1 .. Len(q) : q[i].hdr = h
      BY <2>1, HeaderOf DEF q
    <3>2. h \in Headers(l) <=> h # 0 /\ \E i \in 1 .. Len(l) : l[i].hdr = h
      BY HeaderOf
    <3>3. /\ 1 .. Len(q) = (1 .. Len(l)) \cup {Len(l) + 1} /\ q[Len(l) + 1] = p
          /\ \A i \in 1 .. Len(l) : q[i] = l[i]
      BY <2>1, <2>2 DEF q
    <3> QED
      BY <3>1, <3>2, <3>3
  <2> QED
    BY <2>3 DEF q
<1>3. ASSUME l # <<>>
      PROVE  Headers(l) = Headers(Tail(l)) \cup ({Head(l).hdr} \ {0})
  <2>1. /\ Tail(l) \in Seq(Packet) /\ Len(Tail(l)) = Len(l) - 1 /\ Head(l) = l[1]
        /\ \A i \in 1 .. Len(Tail(l)) : Tail(l)[i] = l[i + 1]
    BY <1>3, HeadTailProperties
  <2>2. Len(l) >= 1
    BY <1>1, <1>3, EmptySeq
  <2>3. ASSUME NEW h, NEW i \in 1 .. Len(l), l[i].hdr = h
        PROVE  h = Head(l).hdr \/ \E j \in 1 .. Len(Tail(l)) : Tail(l)[j].hdr = h
    <3>1. CASE i = 1
      BY <2>1, <2>3, <3>1
    <3>2. CASE i # 1
      <4>1. i - 1 \in 1 .. Len(Tail(l)) /\ (i - 1) + 1 = i
        BY <1>1, <2>1, <3>2
      <4> QED
        BY <2>1, <2>3, <4>1
    <3> QED
      BY <3>1, <3>2
  <2>4. ASSUME NEW j \in 1 .. Len(Tail(l))
        PROVE  j + 1 \in 1 .. Len(l) /\ Tail(l)[j] = l[j + 1]
    BY <1>1, <2>1, <2>2
  <2>5. 1 \in 1 .. Len(l)
    BY <1>1, <2>2
  <2> DEFINE t == Tail(l)
  <2> HIDE DEF t
  <2>6. ASSUME NEW h
        PROVE  h \in Headers(l) <=> h \in Headers(t) \cup ({Head(l).hdr} \ {0})
    <3>1. h \in Headers(t) <=> h # 0 /\ \E j \in 1 .. Len(t) : t[j].hdr = h
      BY <2>1, HeaderOf DEF t
    <3>2. h \in Headers(l) <=> h # 0 /\ \E i \in 1 .. Len(l) : l[i].hdr = h
      BY HeaderOf
    <3>3. \A i \in 1 .. Len(l) : l[i].hdr = h =>
            h = Head(l).hdr \/ \E j \in 1 .. Len(t) : t[j].hdr = h
      BY <2>3 DEF t
    <3>4. \A j \in 1 .. Len(t) : j + 1 \in 1 .. Len(l) /\ t[j] = l[j + 1]
      BY <2>4 DEF t
    <3>5. 1 \in 1 .. Len(l) /\ l[1] = Head(l)
      BY <2>1, <2>5
    <3> QED
      BY ONLY <3>1, <3>2, <3>3, <3>4, <3>5
  <2> QED
    BY <2>6 DEF t
<1> QED
  BY <1>2, <1>3

-----------------------------------------------------------------------------
(* Packets put into the transit queue and taken from it *)

\* Packet x has been put into s as the kth.
Inserted(t, s, x, k) ==
  /\ t \in Seq(Packet) /\ k \in 1 .. Len(s) + 1 /\ Len(t) = Len(s) + 1 /\ t[k] = x
  /\ \A i \in 1 .. Len(s) : i < k => t[i] = s[i]
  /\ \A i \in 1 .. Len(s) : k <= i => t[i + 1] = s[i]

\* Each place of t is that of x or one of s.
LEMMA InsertedPlaces ==
  ASSUME NEW s \in Seq(Packet), NEW x, NEW t, NEW k, Inserted(t, s, x, k)
  PROVE  \A j \in 1 .. Len(t) :
           \/ j = k /\ t[j] = x
           \/ j < k /\ j \in 1 .. Len(s) /\ t[j] = s[j]
           \/ k < j /\ j - 1 \in 1 .. Len(s) /\ t[j] = s[j - 1]
<1>1. Len(s) \in Nat /\ k \in Nat /\ k >= 1 /\ k <= Len(s) + 1 /\ Len(t) = Len(s) + 1
  BY LenProperties DEF Inserted
<1> TAKE j \in 1 .. Len(t)
<1>2. CASE j = k
  BY <1>2 DEF Inserted
<1>3. CASE j < k
  <2>1. j \in 1 .. Len(s)
    BY <1>1, <1>3
  <2> QED
    BY <1>3, <2>1 DEF Inserted
<1>4. CASE k < j
  <2>1. j - 1 \in 1 .. Len(s) /\ k <= j - 1 /\ (j - 1) + 1 = j
    BY <1>1, <1>4
  <2>2. t[(j - 1) + 1] = s[j - 1]
    BY <2>1 DEF Inserted
  <2> QED
    BY <1>4, <2>1, <2>2
<1> QED
  BY <1>1, <1>2, <1>3, <1>4

\* Its header joins the others.
LEMMA InsertedHeaders ==
  ASSUME NEW s \in Seq(Packet), NEW x, NEW t, NEW k, Inserted(t, s, x, k)
  PROVE  Headers(t) = Headers(s) \cup ({x.hdr} \ {0})
<1>1. /\ t \in Seq(Packet) /\ Len(s) \in Nat /\ k \in 1 .. Len(t) /\ t[k] = x
      /\ Len(t) = Len(s) + 1
  BY LenProperties DEF Inserted
<1>2. ASSUME NEW i \in 1 .. Len(s) PROVE \E j \in 1 .. Len(t) : t[j] = s[i]
  <2>1. i \in 1 .. Len(t) /\ i + 1 \in 1 .. Len(t) /\ (i < k \/ k <= i)
    BY <1>1
  <2> QED
    BY <2>1 DEF Inserted
<1>3. \A j \in 1 .. Len(t) : t[j] = x \/ \E i \in 1 .. Len(s) : t[j] = s[i]
  BY InsertedPlaces
<1>4. ASSUME NEW h PROVE h \in Headers(t) <=> h \in Headers(s) \cup ({x.hdr} \ {0})
  <2>1. h \in Headers(t) <=> h # 0 /\ \E i \in 1 .. Len(t) : t[i].hdr = h
    BY <1>1, HeaderOf
  <2>2. h \in Headers(s) <=> h # 0 /\ \E i \in 1 .. Len(s) : s[i].hdr = h
    BY HeaderOf
  <2> QED
    BY <1>1, <1>2, <1>3, <2>1, <2>2
<1> QED
  BY <1>4

\* The others keep theirs.
LEMMA InsertedSingle ==
  ASSUME NEW s \in Seq(Packet), Single(s), NEW x, NEW t, NEW k, Inserted(t, s, x, k),
         x.type # NONE => x.hdr # 0 /\ x.hdr \notin Headers(s)
  PROVE  Single(t)
<1>1. \A j \in 1 .. Len(t) :
           \/ j = k /\ t[j] = x
           \/ j < k /\ j \in 1 .. Len(s) /\ t[j] = s[j]
           \/ k < j /\ j - 1 \in 1 .. Len(s) /\ t[j] = s[j - 1]
  BY InsertedPlaces
<1>2. \A i \in 1 .. Len(s) : s[i].type # NONE => s[i].hdr # 0 /\ (x.type # NONE => s[i].hdr # x.hdr)
  BY HeaderOf DEF Single
<1>3. k \in Nat /\ Len(t) \in Nat
  BY LenProperties DEF Inserted
<1> SUFFICES ASSUME NEW i \in 1 .. Len(t), NEW j \in 1 .. Len(t),
                    t[i].type # NONE, t[j].type # NONE
             PROVE  t[i].hdr # 0 /\ (i # j => t[i].hdr # t[j].hdr)
  BY DEF Single
<1>4. t[i].hdr # 0
  BY <1>1, <1>2
<1>5. ASSUME i # j PROVE t[i].hdr # t[j].hdr
  <2>1. CASE i = k \/ j = k
    <3>1. CASE i = k
      <4>1. t[i] = x /\ \E a \in 1 .. Len(s) : t[j] = s[a]
        BY <1>1, <1>5, <3>1
      <4> QED
        BY <1>2, <4>1
    <3>2. CASE j = k
      <4>1. t[j] = x /\ \E a \in 1 .. Len(s) : t[i] = s[a]
        BY <1>1, <1>5, <3>2
      <4> QED
        BY <1>2, <4>1
    <3> QED
      BY <2>1, <3>1, <3>2
  <2>2. CASE i # k /\ j # k
    <3>1. PICK a \in 1 .. Len(s) : t[i] = s[a] /\ a = IF i < k THEN i ELSE i - 1
      BY <1>1, <1>3, <2>2
    <3>2. PICK c \in 1 .. Len(s) : t[j] = s[c] /\ c = IF j < k THEN j ELSE j - 1
      BY <1>1, <1>3, <2>2
    <3>3. a # c
      BY ONLY <1>3, <1>5, <2>2, <3>1, <3>2, i \in 1 .. Len(t), j \in 1 .. Len(t)
    <3> QED
      BY <3>1, <3>2, <3>3 DEF Single
  <2> QED
    BY <2>1, <2>2
<1> QED
  BY <1>4, <1>5

\* Of the packets behind the head.
LEMMA TailRises ==
  ASSUME NEW l \in Seq(Packet), l # <<>>, NEW h, PathRises(l, h), NEW lst, NEW kept,
         PastBelow(lst, kept, l)
  PROVE  /\ PathRises(Tail(l), h) /\ PastBelow(lst, kept, Tail(l))
         /\ Head(l) \in Packet
         /\ Head(l).type # DATA => Head(l).hdr = 0 /\ Headers(l) = Headers(Tail(l))
         /\ Head(l).type = DATA =>
              /\ Head(l).hdr \in 1 .. h /\ Headers(l) = Headers(Tail(l)) \cup {Head(l).hdr}
              /\ Head(l).hdr \notin DataHdrs(lst) \cup kept
              /\ \A m \in 1 .. Len(Tail(l)) :
                   Tail(l)[m].type = DATA => Head(l).hdr < Tail(l)[m].hdr
<1> DEFINE t == Tail(l)
           p == Head(l)
<1>1. /\ t \in Seq(Packet) /\ Len(t) = Len(l) - 1 /\ p = l[1]
      /\ \A i \in 1 .. Len(t) : t[i] = l[i + 1]
  BY HeadTailProperties
<1>2. Len(l) \in Nat /\ 1 \in 1 .. Len(l) /\ p \in Packet
  BY <1>1, LenProperties, EmptySeq, ElementOfSeq
<1>3. Headers(l) = Headers(t) \cup ({p.hdr} \ {0})
  BY PathHeaders
<1> HIDE DEF t, p
<1>4. \A m \in 1 .. Len(t) : m + 1 \in 1 .. Len(l) /\ t[m] = l[m + 1] /\ 1 < m + 1
  BY <1>1, <1>2
<1>5. PathRises(t, h)
  <2>1. \A m \in 1 .. Len(t) : IF t[m].type = DATA THEN t[m].hdr \in 1 .. h ELSE t[m].hdr = 0
    BY <1>4 DEF PathRises
  <2>2. \A m, n \in 1 .. Len(t) : m < n => m + 1 < n + 1
    OBVIOUS
  <2>3. \A m, n \in 1 .. Len(t) :
          m < n /\ t[m].type = DATA /\ t[n].type = DATA => t[m].hdr < t[n].hdr
    BY <1>4, <2>2 DEF PathRises
  <2> QED
    BY <2>1, <2>3 DEF PathRises
<1>6. PastBelow(lst, kept, t)
  BY <1>4 DEF PastBelow
<1>7. p.type # DATA => p.hdr = 0
  BY <1>1, <1>2 DEF PathRises
<1>8. ASSUME p.type = DATA
      PROVE  /\ p.hdr \in 1 .. h /\ p.hdr \notin DataHdrs(lst) \cup kept
             /\ \A m \in 1 .. Len(t) : t[m].type = DATA => p.hdr < t[m].hdr
  <2>1. p.hdr \in 1 .. h
    BY <1>1, <1>2, <1>8 DEF PathRises
  <2>2. \A x \in DataHdrs(lst) \cup kept : x < p.hdr
    BY <1>1, <1>2, <1>8 DEF PastBelow
  <2>3. p.hdr \notin DataHdrs(lst) \cup kept
    <3>1. ~(p.hdr < p.hdr)
      BY <2>1
    <3> QED
      BY <2>2, <3>1
  <2>4. \A m \in 1 .. Len(t) : t[m].type = DATA => p.hdr < t[m].hdr
    BY <1>1, <1>2, <1>4, <1>8 DEF PathRises
  <2> QED
    BY <2>1, <2>3, <2>4
<1>9. /\ p.type # DATA => p.hdr = 0 /\ Headers(l) = Headers(t)
      /\ p.type = DATA => Headers(l) = Headers(t) \cup {p.hdr}
  <2>1. p.type = DATA => p.hdr # 0
    BY <1>8
  <2> QED
    BY <1>3, <1>7, <2>1
<1> QED
  BY <1>2, <1>5, <1>6, <1>8, <1>9 DEF p, t

\* A packet is sent: the next data packet, or one that has no header.
LEMMA SendConserves ==
  ASSUME NEW l \in Seq(Packet), NEW lst, NEW s, NEW h \in Nat, NEW rec, Conserved(l, lst, s, h, rec),
         NEW p \in Packet, NEW h2,
         IF p.type = DATA THEN p.hdr = h + 1 /\ h2 = h + 1 ELSE p.hdr = 0 /\ h2 = h
  PROVE  Conserved(Append(l, p), lst, s, h2, rec)
<1> DEFINE t == Append(l, p)
<1>1. /\ PathRises(l, h) /\ PastBelow(lst, Headers(s), l) /\ LostUnique(lst)
      /\ Complete(l, lst, Headers(s), h) /\ Single(s)
      /\ Cardinality(DataHdrs(lst) \cap Headers(s)) = rec
  BY DEF Conserved
<1>2. /\ Len(l) \in Nat /\ t \in Seq(Packet) /\ Len(t) = Len(l) + 1 /\ t[Len(l) + 1] = p
      /\ \A i \in 1 .. Len(l) : t[i] = l[i]
  BY LenProperties
<1>3. Headers(t) = Headers(l) \cup ({p.hdr} \ {0})
  BY PathHeaders
<1> HIDE DEF t
<1>4. \A i \in 1 .. Len(t) : (i \in 1 .. Len(l) /\ t[i] = l[i]) \/ (i = Len(l) + 1 /\ t[i] = p)
  BY <1>2
<1>5. h2 \in Nat /\ h <= h2 /\ 1 .. h \subseteq 1 .. h2 /\ (p.type = DATA => p.hdr \in 1 .. h2)
  OBVIOUS
<1>6. \A x \in 1 .. h : p.type = DATA => x < p.hdr
  OBVIOUS
<1>7. PathRises(t, h2)
  <2>1. ASSUME NEW m \in 1 .. Len(t)
        PROVE  IF t[m].type = DATA THEN t[m].hdr \in 1 .. h2 ELSE t[m].hdr = 0
    <3>1. CASE m \in 1 .. Len(l) /\ t[m] = l[m]
      BY <1>1, <1>5, <3>1 DEF PathRises
    <3>2. CASE t[m] = p
      BY <1>5, <3>2
    <3> QED
      BY <1>4, <3>1, <3>2
  <2>2. ASSUME NEW m \in 1 .. Len(t), NEW n \in 1 .. Len(t),
               m < n, t[m].type = DATA, t[n].type = DATA
        PROVE  t[m].hdr < t[n].hdr
    <3>1. m \in 1 .. Len(l) /\ t[m] = l[m]
      BY <1>2, <1>4, <2>2
    <3>2. t[m].hdr \in 1 .. h
      BY <1>1, <2>2, <3>1 DEF PathRises
    <3>3. CASE n \in 1 .. Len(l) /\ t[n] = l[n]
      BY <1>1, <2>2, <3>1, <3>3 DEF PathRises
    <3>4. CASE t[n] = p
      BY <1>6, <2>2, <3>2, <3>4
    <3> QED
      BY <1>4, <3>3, <3>4
  <2> QED
    BY <2>1, <2>2 DEF PathRises
<1>8. PastBelow(lst, Headers(s), t)
  <2> SUFFICES ASSUME NEW x \in DataHdrs(lst) \cup Headers(s), NEW m \in 1 .. Len(t),
                      t[m].type = DATA
               PROVE  x < t[m].hdr
    BY DEF PastBelow
  <2>1. x \in 1 .. h
    BY <1>1 DEF Complete
  <2> QED
    BY <1>1, <1>4, <1>6, <2>1 DEF PastBelow
<1>9. Complete(t, lst, Headers(s), h2)
  <2>1. p.type = DATA => 1 .. h2 = (1 .. h) \cup {p.hdr} /\ {p.hdr} \ {0} = {p.hdr}
    OBVIOUS
  <2>2. p.type # DATA => h2 = h /\ {p.hdr} \ {0} = {}
    OBVIOUS
  <2> QED
    BY <1>1, <1>3, <2>1, <2>2 DEF Complete
<1> QED
  BY <1>1, <1>7, <1>8, <1>9 DEF Conserved, t

\* A packet without a header leaves the path; s may get it.
LEMMA OtherConserves ==
  ASSUME NEW l \in Seq(Packet), l # <<>>, NEW lst, NEW s \in Seq(Packet), NEW h \in Nat, NEW rec,
         Conserved(l, lst, s, h, rec), Head(l).type # DATA,
         NEW lst2, DataHdrs(lst2) = DataHdrs(lst), LostUnique(lst2),
         NEW t, NEW k, t = s \/ (Head(l).type = NONE /\ Inserted(t, s, Head(l), k))
  PROVE  Conserved(Tail(l), lst2, t, h, rec)
<1>1. /\ PathRises(l, h) /\ PastBelow(lst, Headers(s), l)
      /\ Complete(l, lst, Headers(s), h) /\ Single(s)
      /\ Cardinality(DataHdrs(lst) \cap Headers(s)) = rec
  BY DEF Conserved
<1>2. /\ PathRises(Tail(l), h) /\ PastBelow(lst, Headers(s), Tail(l))
      /\ Head(l).hdr = 0 /\ Headers(l) = Headers(Tail(l))
  BY <1>1, TailRises
<1>3. Headers(t) = Headers(s) /\ Single(t)
  <2>1. CASE t = s
    BY <1>1, <2>1
  <2>2. CASE Head(l).type = NONE /\ Inserted(t, s, Head(l), k)
    <3>1. Headers(t) = Headers(s) \cup ({Head(l).hdr} \ {0})
      BY <2>2, InsertedHeaders
    <3>2. Single(t)
      BY <1>1, <2>2, InsertedSingle
    <3> QED
      BY <1>2, <3>1, <3>2
  <2> QED
    BY <2>1, <2>2
<1>4. PastBelow(lst2, Headers(t), Tail(l))
  BY <1>2, <1>3 DEF PastBelow
<1>5. Complete(Tail(l), lst2, Headers(t), h)
  BY <1>1, <1>2, <1>3 DEF Complete
<1> QED
  BY <1>1, <1>2, <1>3, <1>4, <1>5 DEF Conserved

\* The data packet at the head is lost.
LEMMA LossConserves ==
  ASSUME NEW l \in Seq(Packet), l # <<>>, NEW lst, NEW s \in Seq(Packet), NEW h \in Nat, NEW rec,
         Conserved(l, lst, s, h, rec), Head(l).type = DATA
  PROVE  Conserved(Tail(l), lst \cup {Head(l)}, s, h, rec)
<1> DEFINE p == Head(l)
           lst2 == lst \cup {p}
<1>1. /\ PathRises(l, h) /\ PastBelow(lst, Headers(s), l) /\ LostUnique(lst)
      /\ Complete(l, lst, Headers(s), h) /\ Single(s)
      /\ Cardinality(DataHdrs(lst) \cap Headers(s)) = rec
  BY DEF Conserved
<1>2. /\ PathRises(Tail(l), h) /\ PastBelow(lst, Headers(s), Tail(l))
      /\ p.hdr \in 1 .. h /\ Headers(l) = Headers(Tail(l)) \cup {p.hdr}
      /\ p.hdr \notin DataHdrs(lst) \cup Headers(s)
      /\ \A m \in 1 .. Len(Tail(l)) :
           Tail(l)[m].type = DATA => p.hdr < Tail(l)[m].hdr
  BY <1>1, TailRises
<1>3. p.type = DATA
  OBVIOUS
<1> HIDE DEF p
<1>4. DataHdrs(lst2) = DataHdrs(lst) \cup {p.hdr}
  BY <1>3 DEF DataHdrs
<1>5. \A x \in lst : x.type = DATA => x.hdr \in DataHdrs(lst)
  BY DEF DataHdrs
<1>6. LostUnique(lst2)
  BY <1>1, <1>2, <1>5 DEF LostUnique
<1> HIDE DEF lst2
<1>7. PastBelow(lst2, Headers(s), Tail(l))
  BY <1>2, <1>4 DEF PastBelow
<1>8. Complete(Tail(l), lst2, Headers(s), h)
  BY <1>1, <1>2, <1>4 DEF Complete
<1>9. DataHdrs(lst2) \cap Headers(s) = DataHdrs(lst) \cap Headers(s)
  BY <1>2, <1>4
<1> QED
  BY <1>1, <1>2, <1>6, <1>7, <1>8, <1>9 DEF Conserved, lst2, p

\* The data packet at the head is kept.
LEMMA DataConserves ==
  ASSUME NEW l \in Seq(Packet), l # <<>>, NEW lst, NEW s \in Seq(Packet), NEW h \in Nat, NEW rec,
         Conserved(l, lst, s, h, rec), Head(l).type = DATA,
         NEW t, NEW k, Inserted(t, s, Head(l), k)
  PROVE  Conserved(Tail(l), lst, t, h, rec)
<1> DEFINE p == Head(l)
<1>1. /\ PathRises(l, h) /\ PastBelow(lst, Headers(s), l) /\ LostUnique(lst)
      /\ Complete(l, lst, Headers(s), h) /\ Single(s)
      /\ Cardinality(DataHdrs(lst) \cap Headers(s)) = rec
  BY DEF Conserved
<1>2. /\ PathRises(Tail(l), h) /\ PastBelow(lst, Headers(s), Tail(l))
      /\ p.hdr \in 1 .. h /\ Headers(l) = Headers(Tail(l)) \cup {p.hdr}
      /\ p.hdr \notin DataHdrs(lst) \cup Headers(s)
      /\ \A m \in 1 .. Len(Tail(l)) :
           Tail(l)[m].type = DATA => p.hdr < Tail(l)[m].hdr
  BY <1>1, TailRises
<1> HIDE DEF p
<1>3. p.hdr # 0
  BY <1>2
<1>4. Headers(t) = Headers(s) \cup {p.hdr}
  <2>1. Headers(t) = Headers(s) \cup ({p.hdr} \ {0})
    BY InsertedHeaders DEF p
  <2> QED
    BY <1>3, <2>1
<1>5. Single(t)
  BY <1>1, <1>2, <1>3, InsertedSingle DEF p
<1>6. PastBelow(lst, Headers(t), Tail(l))
  BY <1>2, <1>4 DEF PastBelow
<1>7. Complete(Tail(l), lst, Headers(t), h)
  BY <1>1, <1>2, <1>4 DEF Complete
<1>8. DataHdrs(lst) \cap Headers(t) = DataHdrs(lst) \cap Headers(s)
  BY <1>2, <1>4
<1> QED
  BY <1>1, <1>2, <1>5, <1>6, <1>7, <1>8 DEF Conserved

\* A redundant packet at the head gives back one of the lost ones.
LEMMA RebuildConserves ==
  ASSUME NEW l \in Seq(Packet), l # <<>>, NEW lst, NEW s \in Seq(Packet), NEW h \in Nat,
         NEW rec \in Nat, Conserved(l, lst, s, h, rec), Head(l).type # DATA,
         NEW x, x.type # NONE, x.hdr \in DataHdrs(lst), x.hdr \notin Headers(s),
         NEW t, NEW k, Inserted(t, s, x, k)
  PROVE  Conserved(Tail(l), lst, t, h, rec + 1)
<1>1. /\ PathRises(l, h) /\ PastBelow(lst, Headers(s), l) /\ LostUnique(lst)
      /\ Complete(l, lst, Headers(s), h) /\ Single(s)
      /\ Cardinality(DataHdrs(lst) \cap Headers(s)) = rec
  BY DEF Conserved
<1>2. /\ PathRises(Tail(l), h) /\ PastBelow(lst, Headers(s), Tail(l))
      /\ Headers(l) = Headers(Tail(l))
  BY <1>1, TailRises
<1>3. x.hdr # 0 /\ DataHdrs(lst) \subseteq 1 .. h
  BY <1>1 DEF Complete
<1>4. Headers(t) = Headers(s) \cup {x.hdr}
  <2>1. Headers(t) = Headers(s) \cup ({x.hdr} \ {0})
    BY InsertedHeaders
  <2> QED
    BY <1>3, <2>1
<1>5. Single(t)
  BY <1>1, <1>3, InsertedSingle
<1>6. PastBelow(lst, Headers(t), Tail(l))
  BY <1>2, <1>4 DEF PastBelow
<1>7. Complete(Tail(l), lst, Headers(t), h)
  BY <1>1, <1>2, <1>4 DEF Complete
<1>8. Cardinality(DataHdrs(lst) \cap Headers(t)) = rec + 1
  <2> DEFINE R == DataHdrs(lst) \cap Headers(s)
  <2>1. DataHdrs(lst) \cap Headers(t) = R \cup {x.hdr} /\ x.hdr \notin R
    BY <1>4
  <2>2. R \subseteq 1 .. h
    BY <1>3
  <2> HIDE DEF R
  <2>3. IsFiniteSet(1 .. h)
    BY FS_Interval
  <2>4. IsFiniteSet(R)
    BY <2>2, <2>3, FS_Subset
  <2>5. Cardinality(R \cup {x.hdr}) = Cardinality(R) + 1
    BY <2>1, <2>4, FS_AddElement
  <2> QED
    BY <1>1, <2>1, <2>5 DEF R
<1> QED
  BY <1>1, <1>2, <1>5, <1>6, <1>7, <1>8 DEF Conserved

-----------------------------------------------------------------------------
(* What InsertTransitQueue and Recv do to the packets held *)

\* InsertTransitQueue puts the packet behind those with serials that are not
\* larger.
LEMMA TransitInsert ==
  ASSUME NEW tq \in Seq(Packet), NEW p \in Packet
  PROVE  \E k : /\ Inserted(InsertTransitQueue(tq, p), tq, p, k)
                /\ \A i \in 1 .. Len(tq) : i < k => ~(tq[i].serial > p.serial)
                /\ k \in 1 .. Len(tq) => tq[k].serial > p.serial
<1> DEFINE r == InsertTransitQueue(tq, p)
           I == {i \in 1 .. Len(tq) : tq[i].serial > p.serial}
           k == First(I)
<1>1. Len(tq) \in Nat
  BY LenProperties
<1>2. r \in Seq(Packet)
  BY InsertType
<1>3. CASE I = {}
  <2>1. k = 0
    BY <1>3 DEF First
  <2>2. r = Append(tq, p)
    BY <2>1 DEF InsertTransitQueue
  <2>3. /\ Len(r) = Len(tq) + 1 /\ r[Len(tq) + 1] = p
        /\ \A i \in 1 .. Len(tq) : r[i] = tq[i]
    BY <2>2, AppendProperties
  <2> HIDE DEF r, k
  <2>4. \A i \in 1 .. Len(tq) : i < Len(tq) + 1 /\ ~(Len(tq) + 1 <= i)
    BY <1>1
  <2>5. Len(tq) + 1 \in 1 .. Len(tq) + 1 /\ Len(tq) + 1 \notin 1 .. Len(tq)
    BY <1>1
  <2>6. Inserted(r, tq, p, Len(tq) + 1)
    BY <1>2, <2>3, <2>4, <2>5 DEF Inserted
  <2> QED
    BY <1>3, <2>5, <2>6 DEF r
<1>4. CASE I # {}
  <2>1. I \in SUBSET Nat
    OBVIOUS
  <2>2. k \in I /\ \A y \in I : k <= y
    BY <1>4, <2>1, FirstIsLeast
  <2> HIDE DEF k
  <2>3. /\ k \in 1 .. Len(tq) /\ k # 0 /\ tq[k].serial > p.serial
        /\ \A i \in 1 .. Len(tq) : i < k => ~(tq[i].serial > p.serial)
    BY <1>1, <2>2
  <2> DEFINE a == SubSeq(tq, 1, k - 1)
             b == SubSeq(tq, k, Len(tq))
  <2>4. r = (a \o <<p>>) \o b
    BY <2>3 DEF InsertTransitQueue, k
  <2> HIDE DEF I, r
  <2>5. \A i \in 1 .. Len(tq) : tq[i] \in Packet
    BY ElementOfSeq
  <2>6. /\ a \in Seq(Packet) /\ Len(a) = k - 1 /\ \A i \in 1 .. k - 1 : a[i] = tq[i]
    <3>1. 1 \in Int /\ k - 1 \in Int /\ \A i \in 1 .. k - 1 : tq[i] \in Packet
      BY <1>1, <2>3, <2>5
    <3>2. (IF 1 <= k - 1 THEN k - 1 - 1 + 1 ELSE 0) = k - 1 /\ k - 1 - 1 + 1 = k - 1
      BY <1>1, <2>3
    <3>3. /\ SubSeq(tq, 1, k - 1) \in Seq(Packet)
          /\ Len(SubSeq(tq, 1, k - 1)) = IF 1 <= k - 1 THEN k - 1 - 1 + 1 ELSE 0
          /\ \A i \in 1 .. k - 1 - 1 + 1 : SubSeq(tq, 1, k - 1)[i] = tq[1 + i - 1]
      BY ONLY <3>1, SubSeqProperties
    <3>4. \A i \in 1 .. k - 1 : 1 + i - 1 = i
      OBVIOUS
    <3> QED
      BY <3>2, <3>3, <3>4
  <2>7. /\ b \in Seq(Packet) /\ Len(b) = Len(tq) - k + 1
        /\ \A i \in 1 .. Len(tq) - k + 1 : b[i] = tq[k + i - 1]
    BY <1>1, <2>3, <2>5, SubSeqProperties
  <2> HIDE DEF a, b
  <2> DEFINE x == a \o <<p>>
  <2>8. /\ Len(x) = k /\ x \in Seq(Packet) /\ (\A i \in 1 .. k - 1 : x[i] = tq[i]) /\ x[k] = p
    <3>1. <<p>> \in Seq(Packet) /\ Len(<<p>>) = 1 /\ <<p>>[1] = p
      OBVIOUS
    <3> QED
      BY <2>3, <2>6, <3>1, ConcatProperties
  <2>9. r = x \o b
    BY <2>4
  <2> HIDE DEF x
  <2>10. /\ Len(r) = Len(x) + Len(b)
         /\ \A i \in 1 .. Len(x) + Len(b) : r[i] = IF i <= Len(x) THEN x[i] ELSE b[i - Len(x)]
    BY <2>7, <2>8, <2>9, ConcatProperties
  <2>11. Len(x) + Len(b) = Len(tq) + 1
    BY <1>1, <2>3, <2>7, <2>8
  <2>12. ASSUME NEW i \in 1 .. Len(tq), i < k PROVE r[i] = tq[i]
    <3>1. i <= Len(x) /\ i \in 1 .. Len(x) + Len(b) /\ i \in 1 .. k - 1
      BY <1>1, <2>3, <2>8, <2>11, <2>12
    <3> QED
      BY <2>8, <2>10, <3>1
  <2>13. r[k] = p
    <3>1. k <= Len(x) /\ k \in 1 .. Len(x) + Len(b)
      BY <1>1, <2>3, <2>8, <2>11
    <3> QED
      BY <2>8, <2>10, <3>1
  <2>14. ASSUME NEW i \in 1 .. Len(tq), k <= i PROVE r[i + 1] = tq[i]
    <3>1. /\ ~(i + 1 <= Len(x)) /\ i + 1 \in 1 .. Len(x) + Len(b)
          /\ (i + 1) - Len(x) \in 1 .. Len(tq) - k + 1 /\ k + ((i + 1) - Len(x)) - 1 = i
      BY <1>1, <2>3, <2>8, <2>11, <2>14
    <3>2. r[i + 1] = b[(i + 1) - Len(x)]
      BY ONLY <2>10, <3>1
    <3>3. b[(i + 1) - Len(x)] = tq[k + ((i + 1) - Len(x)) - 1]
      BY ONLY <2>7, <3>1
    <3> QED
      BY ONLY <3>1, <3>2, <3>3
  <2>15. k \in 1 .. Len(tq) + 1
    BY <1>1, <2>3
  <2>16. Inserted(r, tq, p, k)
    BY <1>2, <2>10, <2>11, <2>12, <2>13, <2>14, <2>15 DEF Inserted
  <2> QED
    BY <2>3, <2>16 DEF r
<1> QED
  BY <1>3, <1>4

\* What is put into s is put into a sequence that ends with s.
LEMMA InsertedBehind ==
  ASSUME NEW a \in Seq(Packet), NEW s \in Seq(Packet), NEW x, NEW t, NEW k, Inserted(t, s, x, k)
  PROVE  Inserted(a \o t, a \o s, x, Len(a) + k)
<1>1. /\ t \in Seq(Packet) /\ k \in 1 .. Len(s) + 1 /\ Len(t) = Len(s) + 1 /\ t[k] = x
      /\ \A i \in 1 .. Len(s) : i < k => t[i] = s[i]
      /\ \A i \in 1 .. Len(s) : k <= i => t[i + 1] = s[i]
      /\ Len(a) \in Nat /\ Len(s) \in Nat
  BY LenProperties DEF Inserted
<1>2. /\ a \o t \in Seq(Packet) /\ Len(a \o t) = Len(a) + Len(t)
      /\ \A i \in 1 .. Len(a) + Len(t) :
           (a \o t)[i] = IF i <= Len(a) THEN a[i] ELSE t[i - Len(a)]
  BY <1>1, ConcatProperties
<1>3. /\ a \o s \in Seq(Packet) /\ Len(a \o s) = Len(a) + Len(s)
      /\ \A i \in 1 .. Len(a) + Len(s) :
           (a \o s)[i] = IF i <= Len(a) THEN a[i] ELSE s[i - Len(a)]
  BY <1>1, ConcatProperties
<1> DEFINE u == a \o t
           v == a \o s
           n == Len(a) + k
<1> HIDE DEF u, v
<1>4. n \in 1 .. Len(v) + 1 /\ Len(u) = Len(v) + 1
  BY <1>1, <1>2, <1>3 DEF u, v
<1>5. u[n] = x
  <2>1. n \in 1 .. Len(a) + Len(t) /\ ~(n <= Len(a)) /\ n - Len(a) = k
    BY <1>1
  <2> QED
    BY <1>1, <1>2, <2>1 DEF u
<1>6. ASSUME NEW i \in 1 .. Len(v), i < n PROVE u[i] = v[i]
  <2>1. i \in 1 .. Len(a) + Len(t) /\ i \in 1 .. Len(a) + Len(s)
    BY <1>1, <1>3 DEF v
  <2>2. i <= Len(a) \/ (i - Len(a) \in 1 .. Len(s) /\ i - Len(a) < k)
    BY <1>1, <1>6, <2>1
  <2> QED
    BY <1>1, <1>2, <1>3, <2>1, <2>2 DEF u, v
<1>7. ASSUME NEW i \in 1 .. Len(v), n <= i PROVE u[i + 1] = v[i]
  <2>1. /\ i \in 1 .. Len(a) + Len(s) /\ ~(i <= Len(a)) /\ ~(i + 1 <= Len(a))
        /\ i + 1 \in 1 .. Len(a) + Len(t)
        /\ (i + 1) - Len(a) = (i - Len(a)) + 1
        /\ i - Len(a) \in 1 .. Len(s) /\ k <= i - Len(a)
    BY <1>1, <1>3, <1>7 DEF v
  <2>2. u[i + 1] = t[(i + 1) - Len(a)] /\ v[i] = s[i - Len(a)]
    BY <1>2, <1>3, <2>1 DEF u, v
  <2>3. t[(i - Len(a)) + 1] = s[i - Len(a)]
    BY <1>1, <2>1
  <2> QED
    BY ONLY <2>1, <2>2, <2>3
<1>8. u \in Seq(Packet)
  BY <1>2 DEF u
<1> QED
  BY <1>4, <1>5, <1>6, <1>7, <1>8 DEF Inserted, u, v

\* A packet in front of s, and one behind it.
LEMMA InsertedEnds ==
  ASSUME NEW s \in Seq(Packet), NEW x \in Packet
  PROVE  Inserted(<<x>> \o s, s, x, 1) /\ Inserted(s \o <<x>>, s, x, Len(s) + 1)
<1>1. Len(s) \in Nat /\ <<x>> \in Seq(Packet) /\ Len(<<x>>) = 1 /\ <<x>>[1] = x
  BY LenProperties
<1>2. Inserted(<<x>> \o s, s, x, 1)
  <2>1. /\ <<x>> \o s \in Seq(Packet) /\ Len(<<x>> \o s) = 1 + Len(s)
        /\ \A i \in 1 .. 1 + Len(s) : (<<x>> \o s)[i] = IF i <= 1 THEN <<x>>[i] ELSE s[i - 1]
    BY <1>1, ConcatProperties
  <2> DEFINE u == <<x>> \o s
  <2> HIDE DEF u
  <2>2. Len(u) = Len(s) + 1 /\ 1 \in 1 .. Len(s) + 1 /\ u[1] = x
    BY <1>1, <2>1 DEF u
  <2>3. \A i \in 1 .. Len(s) : ~(i < 1) /\ u[i + 1] = s[i]
    <3> TAKE i \in 1 .. Len(s)
    <3>1. i + 1 \in 1 .. 1 + Len(s) /\ ~(i + 1 <= 1) /\ (i + 1) - 1 = i /\ ~(i < 1)
      BY <1>1
    <3> QED
      BY <2>1, <3>1 DEF u
  <2>4. u \in Seq(Packet)
    BY <2>1 DEF u
  <2> QED
    BY <2>2, <2>3, <2>4 DEF Inserted, u
<1>3. Inserted(s \o <<x>>, s, x, Len(s) + 1)
  <2>1. /\ s \o <<x>> \in Seq(Packet) /\ Len(s \o <<x>>) = Len(s) + 1
        /\ \A i \in 1 .. Len(s) + 1 :
             (s \o <<x>>)[i] = IF i <= Len(s) THEN s[i] ELSE <<x>>[i - Len(s)]
    BY <1>1, ConcatProperties
  <2> DEFINE u == s \o <<x>>
  <2> HIDE DEF u
  <2>2. Len(s) + 1 \in 1 .. Len(s) + 1 /\ u[Len(s) + 1] = x
    <3>1. ~(Len(s) + 1 <= Len(s)) /\ (Len(s) + 1) - Len(s) = 1 /\ Len(s) + 1 \in 1 .. Len(s) + 1
      BY <1>1
    <3> QED
      BY <1>1, <2>1, <3>1 DEF u
  <2>3. \A i \in 1 .. Len(s) : u[i] = s[i] /\ ~(Len(s) + 1 <= i)
    <3> TAKE i \in 1 .. Len(s)
    <3>1. i \in 1 .. Len(s) + 1 /\ i <= Len(s) /\ ~(Len(s) + 1 <= i)
      BY <1>1
    <3> QED
      BY <2>1, <3>1 DEF u
  <2>4. u \in Seq(Packet) /\ Len(u) = Len(s) + 1
    BY <2>1 DEF u
  <2> QED
    BY <2>2, <2>3, <2>4 DEF Inserted, u
<1> QED
  BY <1>2, <1>3

\* What Recv answers and leaves in transit queue q.
LEMMA RecvAnswers ==
  ASSUME NEW q, NEW p, NEW r, r = Recv(q, p)
  PROVE  /\ r.flag \in {0, 1, 2}
         /\ p.type = DATA =>
              /\ r.recovered = <<>>
              /\ r.tq = IF r.flag = 1 THEN InsertTransitQueue(q, p) ELSE q
         /\ p.type = REDUNDANT =>
              r.tq = IF r.recovered = <<>> THEN q
                     ELSE InsertTransitQueue(q, RecoveryPacket(p, r.recovered[1]))
<1> DEFINE chk == CheckRoundFecTable(MarkRoundFecTable(rt_, p), p)
           grp == MarkGroupFecTable(chk.rt, gt_, p)
           rec == IF p.type = REDUNDANT
                  THEN CheckGroupFecTable(chk.rt, grp.gt, p, grp.nlost)
                  ELSE [gt |-> grp.gt, mlost |-> 0, recovered |-> <<>>]
           flag == RecvFlag(p, chk.sumlost, grp.nlost, rec.mlost)
           tq == IF flag = 1 /\ p.type = DATA THEN InsertTransitQueue(q, p)
                 ELSE IF rec.recovered = <<>> THEN q
                 ELSE InsertTransitQueue(q, RecoveryPacket(p, rec.recovered[1]))
<1>1. r = IF chk.sumlost > NGroups
          THEN [rt |-> chk.rt, gt |-> gt_, tq |-> q, recovered |-> <<>>,
                asked |-> chk.asked, flag |-> 2]
          ELSE [rt |-> chk.rt, gt |-> rec.gt, recovered |-> rec.recovered,
                asked |-> chk.asked, flag |-> flag, tq |-> tq]
  BY DEF Recv
<1>2. flag \in {0, 1, 2}
  <2> HIDE DEF rec, grp, chk
  <2> QED
    BY DEF RecvFlag
<1>3. p.type = DATA => rec.recovered = <<>>
  BY DEF DATA, REDUNDANT
<1>4. DATA # REDUNDANT
  BY DEF DATA, REDUNDANT
<1> HIDE DEF rec, grp, chk, flag
<1>5. CASE chk.sumlost > NGroups
  BY <1>1, <1>5
<1>6. CASE ~(chk.sumlost > NGroups)
  <2>1. r.flag = flag /\ r.recovered = rec.recovered /\ r.tq = tq
    BY <1>1, <1>6
  <2> QED
    BY <1>2, <1>3, <1>4, <2>1
<1> QED
  BY <1>5, <1>6

\* What the decoder has released, a, and what it holds, q, when Recv runs for p.
Released(p) == IF rid_ < p.rid THEN out \o tq_ ELSE out
Waiting(p) == IF rid_ < p.rid THEN <<>> ELSE tq_

\* What is released and held afterwards, t: with p, or a packet rebuilt.
Handled(t, a, q, p, r) ==
  /\ p.type = DATA => \/ r.flag = 1 /\ t = a \o InsertTransitQueue(q, p)
                      \/ r.flag = 2 /\ t = (a \o q) \o <<p>>
                      \/ r.flag = 0 /\ t = a \o (<<p>> \o q)
  /\ p.type = REDUNDANT =>
       IF r.recovered = <<>> THEN t = a \o q
       ELSE t = a \o InsertTransitQueue(q, RecoveryPacket(p, r.recovered[1]))

\* IpForward forwards and holds just that.
LEMMA IpForwardHandles ==
  ASSUME IInv, IpForward, NEW p, p = Head(link), NEW r, r = Recv(Waiting(p), p)
  PROVE  /\ Released(p) \in Seq(Packet) /\ Waiting(p) \in Seq(Packet)
         /\ Released(p) \o Waiting(p) = out \o tq_
         /\ Handled(out' \o tq_', Released(p), Waiting(p), p, r)
<1> DEFINE a == Released(p)
           q == Waiting(p)
<1>1. /\ out \in Seq(Packet) /\ tq_ \in Seq(Packet) /\ link \in Seq(Packet)
      /\ <<>> \in Seq(Packet)
  BY DEF IInv, TypeOK
<1>2. out \o tq_ \in Seq(Packet) /\ (out \o tq_) \o <<>> = out \o tq_
  BY <1>1, ConcatProperties, ConcatEmptySeq
<1>3. a \in Seq(Packet) /\ q \in Seq(Packet) /\ a \o q = out \o tq_
  BY <1>1, <1>2 DEF Released, Waiting
<1>4. /\ link # <<>> /\ p.type # NONE /\ Idle
      /\ tq_' = IF r.flag = 2 THEN <<>> ELSE r.tq
      /\ out' = a \o (IF r.flag = 2 THEN r.tq ELSE <<>>)
                  \o (IF r.flag # 1 /\ p.type # REDUNDANT THEN <<p>> ELSE <<>>)
  BY DEF IpForward, Released, Waiting
<1>5. p \in Packet
  BY <1>1, <1>4, HeadTailProperties
<1>6. r.tq \in Seq(Packet)
  BY <1>3, <1>4, RecvTables DEF IInv
<1>7. /\ r.flag \in {0, 1, 2}
      /\ p.type = DATA =>
           /\ r.recovered = <<>>
           /\ r.tq = IF r.flag = 1 THEN InsertTransitQueue(q, p) ELSE q
      /\ p.type = REDUNDANT =>
           r.tq = IF r.recovered = <<>> THEN q
                  ELSE InsertTransitQueue(q, RecoveryPacket(p, r.recovered[1]))
  BY RecvAnswers
<1> HIDE DEF a, q
<1>8. \A s \in Seq(Packet) : /\ s \o <<>> = s /\ a \o s \in Seq(Packet)
                             /\ (a \o s) \o <<>> = a \o s /\ (a \o <<>>) = a
  <2> TAKE s \in Seq(Packet)
  <2>1. s \o <<>> = s
    BY ConcatEmptySeq
  <2>2. a \o s \in Seq(Packet)
    BY <1>3, ConcatProperties
  <2>3. (a \o s) \o <<>> = a \o s /\ (a \o <<>>) = a
    BY <1>3, <2>2, ConcatEmptySeq
  <2> QED
    BY <2>1, <2>2, <2>3
<1> DEFINE free == IF r.flag = 2 THEN r.tq ELSE <<>>
           last == IF r.flag # 1 /\ p.type # REDUNDANT THEN <<p>> ELSE <<>>
<1>a. out' = (a \o free) \o last
  BY <1>4 DEF a
<1>b. /\ r.flag = 2 => free = r.tq
      /\ r.flag # 2 => free = <<>>
      /\ r.flag # 1 /\ p.type # REDUNDANT => last = <<p>>
      /\ r.flag = 1 \/ p.type = REDUNDANT => last = <<>>
  OBVIOUS
<1> HIDE DEF free, last
<1>9. ASSUME p.type = DATA
      PROVE  \/ r.flag = 1 /\ out' \o tq_' = a \o InsertTransitQueue(q, p)
             \/ r.flag = 2 /\ out' \o tq_' = (a \o q) \o <<p>>
             \/ r.flag = 0 /\ out' \o tq_' = a \o (<<p>> \o q)
  <2>1. p.type # REDUNDANT /\ <<p>> \in Seq(Packet)
    BY <1>5, <1>9 DEF DATA, REDUNDANT
  <2>2. CASE r.flag = 1
    <3>1. tq_' = InsertTransitQueue(q, p)
      BY <1>4, <1>7, <1>9, <2>2
    <3>2. free = <<>> /\ last = <<>>
      BY <1>b, <2>2
    <3>3. out' = a
      BY <1>1, <1>8, <1>a, <3>2
    <3> QED
      BY <2>2, <3>1, <3>3
  <2>3. CASE r.flag = 2
    <3>1. tq_' = <<>> /\ r.tq = q
      BY <1>4, <1>7, <1>9, <2>3
    <3>2. free = q /\ last = <<p>>
      BY <1>b, <2>1, <2>3, <3>1
    <3>3. (a \o q) \o <<p>> \in Seq(Packet)
      BY <1>3, <1>8, <2>1, ConcatProperties
    <3>4. ((a \o q) \o <<p>>) \o <<>> = (a \o q) \o <<p>>
      BY <3>3, ConcatEmptySeq
    <3> QED
      BY <1>a, <2>3, <3>1, <3>2, <3>4
  <2>4. CASE r.flag = 0
    <3>1. tq_' = q
      BY <1>4, <1>7, <1>9, <2>4
    <3>2. free = <<>> /\ last = <<p>>
      BY <1>b, <2>1, <2>4
    <3>3. (a \o <<p>>) \o q = a \o (<<p>> \o q)
      BY <1>3, <2>1, ConcatAssociative
    <3>4. out' = a \o <<p>>
      BY <1>1, <1>8, <1>a, <3>2
    <3> QED
      BY <2>4, <3>1, <3>3, <3>4
  <2> QED
    BY <1>7, <2>2, <2>3, <2>4
<1>10. ASSUME p.type = REDUNDANT PROVE out' \o tq_' = a \o r.tq
  <2>1. CASE r.flag = 2
    <3>1. free = r.tq /\ last = <<>> /\ tq_' = <<>>
      BY <1>4, <1>b, <1>10, <2>1
    <3>2. out' = a \o r.tq
      BY <1>6, <1>8, <1>a, <3>1
    <3> QED
      BY <1>6, <1>8, <3>1, <3>2
  <2>2. CASE r.flag # 2
    <3>1. free = <<>> /\ last = <<>> /\ tq_' = r.tq
      BY <1>4, <1>b, <1>10, <2>2
    <3>2. out' = a
      BY <1>1, <1>8, <1>a, <3>1
    <3> QED
      BY <3>1, <3>2
  <2> QED
    BY <2>1, <2>2
<1>11. Handled(out' \o tq_', a, q, p, r)
  BY <1>7, <1>9, <1>10 DEF Handled
<1> QED
  BY <1>3, <1>11 DEF a, q

-----------------------------------------------------------------------------
(* What sumlost counts *)

\* The packets of the nth round, up to the one with serial top, that are not
\* marked when p has been: those that CheckRoundFecTable counts.
OpenUpTo(rt, n, p, top) ==
  {k \in 1 .. top : ~rt[n].pi[k].check /\ k # p.serial /\ k < Fwin * NGroups}

\* It does: up to a data packet's own entry, and all for a redundant packet.
LEMMA SumlostCounts ==
  ASSUME NEW rt \in Seq(RoundFecTable), NEW b \in Int, NEW p, Tag(p),
         Rounds(rt, b), NEW n \in 1 .. Len(rt), p.rid = b + n, RoundHas(rt[n], p),
         Serialled(rt[n].pi),
         NEW chk, chk = CheckRoundFecTable(MarkRoundFecTable(rt, p), p)
  PROVE  /\ p.serial \in 1 .. Len(rt[n].pi)
         /\ p.type = DATA => chk.sumlost = Cardinality(OpenUpTo(rt, n, p, p.serial))
         /\ p.type # DATA => chk.sumlost = Cardinality(OpenUpTo(rt, n, p, Len(rt[n].pi)))
<1> DEFINE q == MarkRoundFecTable(rt, p)
           pi == q[1].pi
           old == rt[n].pi
           s == p.serial
<1>1. /\ s \in 1 .. Len(old) /\ old[s].gid = p.gid /\ pi = Checked(old, s)
  BY MarkRoundMarks
<1>2. q # <<>> /\ q[1].rid = p.rid /\ p.rid \in Nat
  BY MarkRoundPass DEF Tag
<1>3. old \in Seq(PacketInfo) /\ Len(old) \in Nat
  BY EntryTyped
<1> HIDE DEF q
<1>4. /\ pi \in Seq(PacketInfo) /\ Len(pi) = Len(old)
      /\ \A k \in 1 .. Len(old) : /\ pi[k].serial = old[k].serial /\ pi[k].gid = old[k].gid
                                  /\ pi[k].check <=> (old[k].check \/ k = s)
  BY <1>1, <1>3, CheckedEntry
<1>5. chk.sumlost = Cardinality(Missing(pi, IF p.type = DATA THEN PosInGroup(pi, p) + 1
                                            ELSE Len(pi) + 1, Fwin * NGroups))
  BY <1>2 DEF CheckRoundFecTable, q
<1> HIDE DEF pi
<1>6. Serialled(pi) /\ PosInGroup(pi, p) = s
  <2>1. Serialled(pi)
    BY <1>4 DEF Serialled
  <2>2. s \in 1 .. Len(pi) /\ pi[s].gid = p.gid
    BY <1>1, <1>4
  <2> QED
    BY <1>4, <2>1, <2>2, SerialFound
<1>7. ASSUME NEW top \in 1 .. Len(old)
      PROVE  Missing(pi, top + 1, Fwin * NGroups) = OpenUpTo(rt, n, p, top)
  <2>1. (top + 1) - 1 = top /\ \A k \in 1 .. top : k \in 1 .. Len(old)
    BY <1>3
  <2>2. \A k \in 1 .. top : /\ pi[k].serial = k
                            /\ pi[k].check <=> (old[k].check \/ k = s)
    BY <1>4, <1>6, <2>1 DEF Serialled
  <2> QED
    BY <2>1, <2>2 DEF Missing, OpenUpTo
<1>8. p.type = DATA => chk.sumlost = Cardinality(OpenUpTo(rt, n, p, s))
  BY <1>1, <1>5, <1>6, <1>7
<1>9. p.type # DATA => chk.sumlost = Cardinality(OpenUpTo(rt, n, p, Len(old)))
  <2>1. Len(old) \in 1 .. Len(old)
    BY <1>1, <1>3
  <2> QED
    BY <1>4, <1>5, <1>7, <2>1
<1> QED
  BY <1>1, <1>8, <1>9

\* The lost packets of round r that GivenUp counts.
LostOf(lst, r) == {x \in lst : x.rid = r /\ x.serial < Fwin * NGroups}

\* What a packet finds open before its own entry is lost: were it under way, it
\* would be behind a packet with a larger serial.
LEMMA OpenBeforeIsLost ==
  ASSUME NEW c, NEW rt, NEW l, NEW p, NEW n, NEW off, NEW ask, NEW b, NEW lst,
         Passed(c, rt, l, p, n, off, ask, b, lst),
         NEW last, NEW s, InSerialOrder(l, last, s), NEW k \in OpenUpTo(rt, n, p, p.serial)
  PROVE  PacketOf(rt[n].pi[k], p.rid, k) \in LostOf(lst, p.rid) /\ k < p.serial
<1>1. /\ OpenOut(rt, l, lst) /\ Rounds(rt, b) /\ b \in Int
      /\ rt \in Seq(RoundFecTable) /\ n \in 1 .. Len(rt) /\ p.rid = rt[n].rid
      /\ l \in Seq(Packet) /\ l # <<>> /\ p = Head(l) /\ p.type # NONE
      /\ p.serial \in 1 .. Len(rt[n].pi)
  BY DEF Passed, Accounted, Settling
<1>2. Len(l) \in Nat /\ 1 \in 1 .. Len(l) /\ l[1] = p /\ Len(rt[n].pi) \in Nat
  BY <1>1, EmptySeq, LenProperties, EntryTyped
<1>3. k \in 1 .. p.serial /\ ~rt[n].pi[k].check /\ k # p.serial /\ k < Fwin * NGroups
  BY DEF OpenUpTo
<1>4. k \in 1 .. Len(rt[n].pi) /\ k < p.serial
  BY <1>1, <1>2, <1>3
<1>5. PICK x : x = PacketOf(rt[n].pi[k], p.rid, k)
  OBVIOUS
<1>6. OpenAt(rt, x, n, k)
  BY <1>1, <1>3, <1>4, <1>5 DEF OpenAt
<1>7. x.serial = k /\ x.rid = p.rid /\ x.type # NONE
  BY <1>5 DEF PacketOf, NONE, DATA, REDUNDANT
<1>8. x \in lst \/ Carries(l, x)
  BY <1>1, <1>6, OpenIsOut
<1>9. ASSUME Carries(l, x) PROVE FALSE
  <2>1. PICK m \in 1 .. Len(l) : l[m] = x
    BY <1>9 DEF Carries
  <2>2. m # 1
    BY <1>2, <1>3, <1>7, <2>1
  <2>3. l[1].serial < l[m].serial
    <3>1. 1 < m
      BY <1>2, <2>2
    <3> QED
      BY <1>1, <1>2, <1>7, <2>1, <3>1 DEF InSerialOrder
  <2>4. p.serial < k
    BY <1>2, <1>7, <2>1, <2>3
  <2> QED
    BY <1>1, <1>4, <2>4
<1> QED
  BY <1>3, <1>4, <1>5, <1>7, <1>8, <1>9 DEF LostOf

\* They are no more than those that are lost.
LEMMA OpenBeforeAreLost ==
  ASSUME NEW c, NEW rt, NEW l, NEW p, NEW n, NEW off, NEW ask, NEW b, NEW lst,
         Passed(c, rt, l, p, n, off, ask, b, lst),
         NEW last, NEW s, InSerialOrder(l, last, s)
  PROVE  /\ IsFiniteSet(LostOf(lst, p.rid))
         /\ Cardinality(OpenUpTo(rt, n, p, p.serial)) <= Cardinality(LostOf(lst, p.rid))
<1> DEFINE D == OpenUpTo(rt, n, p, p.serial)
           L == LostOf(lst, p.rid)
           f == [k \in D |-> PacketOf(rt[n].pi[k], p.rid, k)]
<1>1. IsFiniteSet(lst)
  BY DEF Passed, Accounted
<1>2. IsFiniteSet(L)
  BY <1>1, FS_Subset DEF LostOf
<1>3. ASSUME NEW k \in D
      PROVE  PacketOf(rt[n].pi[k], p.rid, k) \in L
  BY OpenBeforeIsLost
<1> HIDE DEF D, L
<1>4. f \in Injection(D, L)
  <2>1. f \in [D -> L]
    BY <1>3
  <2>2. \A j, k \in D : f[j] = f[k] => j = k
    <3> SUFFICES ASSUME NEW j \in D, NEW k \in D, f[j] = f[k] PROVE j = k
      OBVIOUS
    <3>1. PacketOf(rt[n].pi[j], p.rid, j).serial = PacketOf(rt[n].pi[k], p.rid, k).serial
      OBVIOUS
    <3> QED
      BY <3>1 DEF PacketOf
  <2> QED
    BY <2>1, <2>2 DEF Injection, IsInjective
<1> HIDE DEF f
<1>5. Cardinality(D) <= Cardinality(L)
  BY <1>2, <1>4, FS_Injection
<1> QED
  BY <1>2, <1>5 DEF D, L

\* Every lost packet of the round is open when another packet arrives.
LEMMA LostAreOpen ==
  ASSUME NEW c, NEW rt, NEW l, NEW p, NEW n, NEW off, NEW ask, NEW b, NEW lst,
         Passed(c, rt, l, p, n, off, ask, b, lst)
  PROVE  Cardinality(LostOf(lst, p.rid)) <= Cardinality(OpenUpTo(rt, n, p, Len(rt[n].pi)))
<1> DEFINE D == OpenUpTo(rt, n, p, Len(rt[n].pi))
           L == LostOf(lst, p.rid)
           f == [x \in L |-> x.serial]
<1>1. /\ LossesOpen(rt, lst) /\ Rounds(rt, b) /\ b \in Int /\ lst \subseteq Packet
      /\ rt \in Seq(RoundFecTable) /\ n \in 1 .. Len(rt) /\ p.rid = rt[n].rid
  BY DEF Passed, Accounted, Settling
<1>2. OpenAt(rt, p, n, p.serial) /\ p \notin lst
  BY HeadOpen
<1>3. Len(rt[n].pi) \in Nat /\ Len(rt) \in Nat /\ p.rid = b + n /\ rt[1].rid = b + 1
  BY <1>1, EntryTyped, LenProperties DEF Rounds
<1>4. IsFiniteSet(D)
  <2>1. D \subseteq 1 .. Len(rt[n].pi)
    BY DEF OpenUpTo
  <2>2. IsFiniteSet(1 .. Len(rt[n].pi))
    <3>1. 1 \in Int /\ Len(rt[n].pi) \in Int
      BY <1>3
    <3> QED
      BY <3>1, FS_Interval
  <2> HIDE DEF D
  <2> QED
    BY <2>1, <2>2, FS_Subset
<1>5. ASSUME NEW x \in L
      PROVE  x.serial \in D /\ x = PacketOf(rt[n].pi[x.serial], rt[n].rid, x.serial)
  <2>1. x \in lst /\ x.rid = p.rid /\ x.serial < Fwin * NGroups
    BY DEF LostOf
  <2>2. rt[1].rid <= x.rid
    BY <1>1, <1>3, <2>1
  <2>3. Open(rt, x)
    BY <1>1, <2>1, <2>2 DEF LossesOpen
  <2>4. PICK i, k : OpenAt(rt, x, i, k)
    BY <2>3, OpenPlace
  <2>5. /\ i \in 1 .. Len(rt) /\ k \in 1 .. Len(rt[i].pi) /\ ~rt[i].pi[k].check
        /\ x.rid = b + i /\ x.serial = k /\ x = PacketOf(rt[i].pi[k], rt[i].rid, k)
    BY <1>1, <2>4, OpenFields
  <2>6. i = n
    BY <1>1, <1>3, <2>1, <2>5
  <2>7. k # p.serial
    <3>1. p = PacketOf(rt[n].pi[p.serial], rt[n].rid, p.serial)
      BY <1>2 DEF OpenAt
    <3> QED
      BY <1>2, <2>1, <2>5, <2>6, <3>1
  <2> QED
    BY <2>1, <2>5, <2>6, <2>7 DEF OpenUpTo
<1> HIDE DEF D, L
<1>6. f \in Injection(L, D)
  <2>1. f \in [L -> D]
    BY <1>5
  <2>2. \A x, y \in L : f[x] = f[y] => x = y
    BY <1>5
  <2> QED
    BY <2>1, <2>2 DEF Injection, IsInjective
<1> HIDE DEF f
<1>7. Cardinality(L) <= Cardinality(D)
  BY <1>4, <1>6, FS_Injection
<1> QED
  BY <1>7 DEF D, L

-----------------------------------------------------------------------------
(* The packet at the head of the path *)

\* The facts about the round passes for the packet at the head: they settle its
\* round, and it is in front unless the packet has closed it.
LEMMA HeadPassed ==
  ASSUME IInv, AskInv, LossInv, Idle, link # <<>>, NEW p, p = Head(link), p.type # NONE,
         NEW chk, chk = CheckRoundFecTable(MarkRoundFecTable(rt_, p), p)
  PROVE  /\ Closing(rt_[p.rid - (m_roundId - Len(rt_))], p) => p.rid < chk.rt[1].rid
         /\ ~Closing(rt_[p.rid - (m_roundId - Len(rt_))], p) => ~(p.rid < chk.rt[1].rid)
         /\ p.type = DATA /\ chk.sumlost > NGroups => GivenUp(lost, p.rid)
         /\ p.type # DATA /\ GivenUp(lost, p.rid) => chk.sumlost > NGroups
<1> DEFINE b == m_roundId - Len(rt_)
<1>1. PICK n, off, ask : HeadSettles(p, chk, n, off, ask)
  BY HeadIsSettled
<1>2. Follow(link, b, off)
  BY <1>1, OthersFollow
<1>3. rt_ \in Seq(RoundFecTable) /\ b \in Int /\ Rounds(rt_, b)
  BY RoundsNow
<1>4. /\ Settling(chk.rt, rt_, link, p, n, off, ask) /\ n \in 1 .. Len(rt_) /\ off < Len(rt_)
      /\ off = (IF Closing(rt_[n], p) THEN n ELSE n - 1)
      /\ RoundHas(rt_[n], p) /\ p.rid = b + n /\ Tag(p) /\ Serialled(rt_[n].pi)
      /\ RoundsAfter(chk.rt, rt_, off)
  BY <1>1 DEF HeadSettles, Settling
<1>5. Accounted(rt_, link, lost) /\ lost \subseteq Packet
  BY LossParts DEF IInv, TypeOK
<1> HIDE DEF b
<1>6. Passed(chk.rt, rt_, link, p, n, off, ask, b, lost)
  BY <1>2, <1>3, <1>4, <1>5 DEF Passed
<1>7. /\ p.serial \in 1 .. Len(rt_[n].pi)
      /\ p.type = DATA => chk.sumlost = Cardinality(OpenUpTo(rt_, n, p, p.serial))
      /\ p.type # DATA => chk.sumlost = Cardinality(OpenUpTo(rt_, n, p, Len(rt_[n].pi)))
  BY ONLY <1>3, <1>4, SumlostCounts,
     chk = CheckRoundFecTable(MarkRoundFecTable(rt_, p), p)
<1>8. /\ IsFiniteSet(LostOf(lost, p.rid))
      /\ Cardinality(OpenUpTo(rt_, n, p, p.serial)) <= Cardinality(LostOf(lost, p.rid))
  <2>1. InSerialOrder(link, m_roundId, m_serial)
    BY DEF AskInv
  <2> QED
    BY ONLY <1>6, <2>1, OpenBeforeAreLost
<1>9. Cardinality(LostOf(lost, p.rid)) <= Cardinality(OpenUpTo(rt_, n, p, Len(rt_[n].pi)))
  BY ONLY <1>6, LostAreOpen
<1>10. GivenUp(lost, p.rid) <=> Cardinality(LostOf(lost, p.rid)) > NGroups
  BY DEF GivenUp, LostOf
<1>11. Len(rt_[n].pi) \in Nat
  BY <1>3, <1>4, EntryTyped
<1>12. ASSUME NEW top \in 1 .. Len(rt_[n].pi)
       PROVE  Cardinality(OpenUpTo(rt_, n, p, top)) \in Nat
  <2>1. OpenUpTo(rt_, n, p, top) \subseteq 1 .. top
    BY DEF OpenUpTo
  <2>2. IsFiniteSet(1 .. top)
    <3>1. 1 \in Int /\ top \in Int
      BY <1>11
    <3> QED
      BY <3>1, FS_Interval
  <2>3. IsFiniteSet(OpenUpTo(rt_, n, p, top))
    BY <2>1, <2>2, FS_Subset
  <2> QED
    BY <2>3, FS_CardinalityType
<1>13. /\ Cardinality(OpenUpTo(rt_, n, p, p.serial)) \in Nat
       /\ Cardinality(OpenUpTo(rt_, n, p, Len(rt_[n].pi))) \in Nat
       /\ Cardinality(LostOf(lost, p.rid)) \in Nat /\ NGroups \in Nat
  <2>1. Len(rt_[n].pi) \in 1 .. Len(rt_[n].pi)
    BY <1>7, <1>11
  <2>2. Cardinality(LostOf(lost, p.rid)) \in Nat
    BY <1>8, FS_CardinalityType
  <2> QED
    BY <1>7, <1>12, <2>1, <2>2, NGroupsAssumption
<1>14. p.type = DATA /\ chk.sumlost > NGroups => GivenUp(lost, p.rid)
  BY <1>7, <1>8, <1>10, <1>13
<1>15. p.type # DATA /\ GivenUp(lost, p.rid) => chk.sumlost > NGroups
  BY <1>7, <1>9, <1>10, <1>13
<1>16. n = p.rid - b
  BY <1>3, <1>4, LenProperties
<1>17. chk.rt[1].rid = b + (off + 1)
  <2>1. Len(rt_) \in Nat
    BY <1>3, LenProperties
  <2>a. off \in Nat /\ off < Len(rt_)
    <3>1. n \in 1 .. Len(rt_) /\ off \in {n - 1, n} /\ off < Len(rt_)
      BY <1>4
    <3> QED
      BY ONLY <2>1, <3>1
  <2>2. Len(chk.rt) = Len(rt_) - off
    BY <1>4 DEF RoundsAfter
  <2>3. 1 \in 1 .. Len(chk.rt) /\ off + 1 \in 1 .. Len(rt_)
    BY ONLY <2>1, <2>2, <2>a
  <2>4. chk.rt[1].rid = rt_[off + 1].rid
    BY <1>4, <2>3 DEF RoundsAfter
  <2> QED
    BY <1>3, <2>3, <2>4 DEF Rounds
<1>18. /\ Closing(rt_[n], p) => p.rid < chk.rt[1].rid
       /\ ~Closing(rt_[n], p) => ~(p.rid < chk.rt[1].rid)
  <2>1. n \in Int
    BY <1>4
  <2>2. off = n => b + n < b + (off + 1)
    BY ONLY <1>3, <2>1
  <2>3. off = n - 1 => b + (off + 1) = b + n
    BY ONLY <1>3, <2>1
  <2>4. ~(b + n < b + n)
    BY ONLY <1>3, <2>1
  <2> QED
    BY <1>4, <1>17, <2>2, <2>3, <2>4
<1> QED
  BY <1>14, <1>15, <1>16, <1>18 DEF b

\* What Recv makes of the group table for packet p: it does not look at it when
\* too much is lost, or when the packet has closed its round; else both passes
\* run, and may rebuild an entry while the round is not given up.
RecvOnGroups(r, p) ==
  \/ r.gt = gt_ /\ r.recovered = <<>> /\ (p.type = DATA => GivenUp(lost, p.rid))
  \/ \E s \in Nat :
       /\ GroupsPassed(r.gt, gt_, p, s, p.type = REDUNDANT)
       /\ r.recovered # <<>> =>
            /\ p.type = REDUNDANT /\ ~GivenUp(lost, p.rid)
            /\ \E e : r.recovered = <<e>> /\ MissingIn(gt_, p, s, e)

\* So it does.
LEMMA RecvGroups ==
  ASSUME IInv, AskInv, LossInv, Idle, link # <<>>, NEW p, p = Head(link), p.type # NONE,
         NEW tq, NEW r, r = Recv(tq, p)
  PROVE  RecvOnGroups(r, p)
<1> DEFINE chk == CheckRoundFecTable(MarkRoundFecTable(rt_, p), p)
           grp == MarkGroupFecTable(chk.rt, gt_, p)
           rec == IF p.type = REDUNDANT
                  THEN CheckGroupFecTable(chk.rt, grp.gt, p, grp.nlost)
                  ELSE [gt |-> grp.gt, mlost |-> 0, recovered |-> <<>>]
           closing == Closing(rt_[p.rid - (m_roundId - Len(rt_))], p)
           bg == m_roundId - Len(gt_)
<1>1. /\ chk.sumlost > NGroups => r.gt = gt_ /\ r.recovered = <<>>
      /\ ~(chk.sumlost > NGroups) => r.gt = rec.gt /\ r.recovered = rec.recovered
  BY DEF Recv
<1>2. /\ closing => p.rid < chk.rt[1].rid
      /\ ~closing => ~(p.rid < chk.rt[1].rid)
      /\ p.type = DATA /\ chk.sumlost > NGroups => GivenUp(lost, p.rid)
      /\ p.type # DATA /\ GivenUp(lost, p.rid) => chk.sumlost > NGroups
  <2>1. PICK c : c = chk
    OBVIOUS
  <2>2. c = CheckRoundFecTable(MarkRoundFecTable(rt_, p), p)
    BY <2>1
  <2> HIDE DEF chk
  <2>3. /\ closing => p.rid < c.rt[1].rid
        /\ ~closing => ~(p.rid < c.rt[1].rid)
        /\ p.type = DATA /\ c.sumlost > NGroups => GivenUp(lost, p.rid)
        /\ p.type # DATA /\ GivenUp(lost, p.rid) => c.sumlost > NGroups
    BY <2>2, HeadPassed
  <2> QED
    BY <2>1, <2>3
<1>3. /\ link \in Seq(Packet) /\ \A x \in Packet : Tag(x)
      /\ Tracked(link, rt_, gt_, m_roundId, fc_, m_groupId) /\ fc_ # 0
  BY PacketTags, LinkTracked DEF IInv, TypeOK, TablesCoverPath, Burst, Idle
<1>4. /\ gt_ \in Seq(GroupFecTable) /\ Rounds(gt_, bg) /\ bg \in Int
  BY <1>3, LenProperties DEF Tracked, Ending
<1>5. /\ Tag(p)
      /\ \E m \in 1 .. Len(gt_) : GroupHas(gt_[m], p) /\ p.rid = (m_roundId - Len(gt_)) + m
  BY <1>3, HeadTracked
<1>6. PICK m \in 1 .. Len(gt_) : GroupHas(gt_[m], p) /\ p.rid = bg + m
  BY <1>5
<1> HIDE DEF bg
<1>7. CASE chk.sumlost > NGroups
  BY <1>1, <1>2, <1>7 DEF RecvOnGroups
<1>8. CASE ~(chk.sumlost > NGroups) /\ closing
  <2>1. p.type = REDUNDANT /\ p.rid < chk.rt[1].rid /\ p.type # DATA
    BY <1>2, <1>8 DEF Closing, DATA, REDUNDANT
  <2>2. grp.gt = gt_ /\ rec.gt = grp.gt /\ rec.recovered = <<>>
    <3> HIDE DEF chk
    <3>1. grp.gt = gt_
      BY <2>1 DEF MarkGroupFecTable
    <3> HIDE DEF grp
    <3> QED
      BY <2>1, <3>1 DEF CheckGroupFecTable
  <2> QED
    BY <1>1, <1>8, <2>1, <2>2 DEF RecvOnGroups
<1>9. CASE ~(chk.sumlost > NGroups) /\ ~closing
  <2>1. ~(p.rid < chk.rt[1].rid)
    BY <1>2, <1>9
  <2>2. PICK c, g, x : /\ c = chk.rt /\ g = grp /\ x = rec
    OBVIOUS
  <2>3. /\ g = MarkGroupFecTable(c, gt_, p)
        /\ x = IF p.type = REDUNDANT
               THEN CheckGroupFecTable(c, g.gt, p, g.nlost)
               ELSE [gt |-> g.gt, mlost |-> 0, recovered |-> <<>>]
        /\ ~(p.rid < c[1].rid)
    BY <2>1, <2>2
  <2>4. \E s \in Nat :
          /\ GroupsPassed(x.gt, gt_, p, s, p.type = REDUNDANT)
          /\ x.recovered # <<>> =>
               /\ p.type = REDUNDANT
               /\ \E e : x.recovered = <<e>> /\ MissingIn(gt_, p, s, e)
    BY ONLY <1>4, <1>5, <1>6, <2>3, GroupPasses
  <2>5. r.gt = x.gt /\ r.recovered = x.recovered
    BY <1>1, <1>9, <2>2
  <2>6. p.type = REDUNDANT => ~GivenUp(lost, p.rid)
    BY <1>2, <1>9 DEF DATA, REDUNDANT
  <2> QED
    BY <2>4, <2>5, <2>6 DEF RecvOnGroups
<1> QED
  BY <1>7, <1>8, <1>9

\* What the order of serials says of packet p at the head.
LEMMA HeadIsFirst ==
  ASSUME AskInv, link \in Seq(Packet), link # <<>>, NEW p, p = Head(link), p.type # NONE,
         NEW x, Carries(link, x), x.type # NONE, x.rid = p.rid, x # p
  PROVE  p.serial < x.serial
<1>1. PICK m \in 1 .. Len(link) : link[m] = x
  BY DEF Carries
<1>2. Len(link) \in Nat /\ 1 \in 1 .. Len(link) /\ link[1] = p
  BY EmptySeq, LenProperties
<1>3. 1 < m
  BY <1>1, <1>2
<1>4. InSerialOrder(link, m_roundId, m_serial)
  BY DEF AskInv
<1> QED
  BY <1>1, <1>2, <1>3, <1>4 DEF InSerialOrder

\* What the group passes find missing, and rebuild, is a lost packet that was not
\* rebuilt before.
LEMMA MissingIsLost ==
  ASSUME IInv, AskInv, link # <<>>, NEW p, p = Head(link), p.type # NONE,
         NEW kept, GroupsTell(gt_, m_roundId, m_serial, fc_, m_groupId, link, lost, kept),
         ~GivenUp(lost, p.rid), NEW s, NEW e, MissingIn(gt_, p, s, e)
  PROVE  DataOf(e, p.rid, p.gid) \in lost /\ e.hdr \notin kept
<1>1. GroupsRise(gt_) /\ GroupsTrue(gt_, link, lost, kept)
  BY DEF GroupsTell
<1>2. PICK k, j, d, f :
        /\ GroupEntry(gt_, p.rid, p.gid, k, d) /\ SameEntry(e, d, k = s) /\ ~e.check
        /\ e.serial < p.serial /\ GroupEntry(gt_, p.rid, p.gid, j, f) /\ k < j
  BY DEF MissingIn
<1>3. ~d.fec
  BY <1>1, <1>2 DEF GroupsRise
<1>4. e.serial = d.serial /\ e.hdr = d.hdr /\ ~d.check
  BY <1>2 DEF SameEntry
<1>5. DataOf(e, p.rid, p.gid) = DataOf(d, p.rid, p.gid)
  BY <1>4 DEF DataOf
<1> DEFINE x == DataOf(d, p.rid, p.gid)
<1>6. x.type = DATA /\ x.serial = d.serial /\ x.rid = p.rid
  BY DEF DataOf
<1>7. \/ Carries(link, x)
      \/ x \in lost /\ d.hdr \notin kept
      \/ GivenUp(lost, p.rid)
  BY <1>1, <1>2, <1>3, <1>4 DEF GroupsTrue
<1> HIDE DEF x
<1>8. ~Carries(link, x)
  <2> SUFFICES ASSUME Carries(link, x) PROVE FALSE
    OBVIOUS
  <2>1. link \in Seq(Packet) /\ p \in Packet /\ p.serial \in Nat
    <3>1. link \in Seq(Packet)
      BY DEF IInv, TypeOK
    <3>2. p \in Packet
      BY <3>1, HeadTailProperties
    <3> QED
      BY <3>1, <3>2 DEF Packet
  <2>2. x # p /\ x.type # NONE
    <3>1. x.serial < p.serial
      BY <1>2, <1>4, <1>6
    <3> QED
      BY <1>6, <2>1, <3>1 DEF NONE, DATA
  <2>3. p.serial < x.serial
    BY <1>6, <2>1, <2>2, HeadIsFirst
  <2>4. d.serial \in Nat
    <3>1. d \in PacketInfo
      <4>1. gt_ \in Seq(GroupFecTable) /\ m_roundId - Len(gt_) \in Int
            /\ Rounds(gt_, m_roundId - Len(gt_))
        BY LenProperties DEF IInv, TypeOK, TablesCoverPath, Consecutive
      <4> QED
        BY <1>2, <4>1, GroupEntryFacts
    <3> QED
      BY <3>1 DEF PacketInfo
  <2> QED
    BY <1>2, <1>4, <1>6, <2>1, <2>3, <2>4
<1> QED
  BY <1>4, <1>5, <1>7, <1>8 DEF x

\* The groups tell the truth behind the packet that Recv has handled: kept2 may
\* have its header more, or that of the packet that was rebuilt.
LEMMA RecvTells ==
  ASSUME IInv, AskInv, link # <<>>, NEW p, p = Head(link), p.type # NONE,
         NEW kept, GroupsTell(gt_, m_roundId, m_serial, fc_, m_groupId, link, lost, kept),
         NEW h, PathRises(link, h), PastBelow(lost, kept, link), LostUnique(lost),
         IsFiniteSet(lost), NEW r, RecvOnGroups(r, p),
         NEW kept2,
         \A x \in kept2 : \/ x \in kept
                          \/ p.type = DATA /\ x = p.hdr
                          \/ r.recovered # <<>> /\ x = r.recovered[1].hdr
  PROVE  GroupsTell(r.gt, m_roundId, m_serial, fc_, m_groupId, Tail(link), lost, kept2)
<1>1. GroupsRise(gt_)
  BY DEF GroupsTell
<1>2. /\ link \in Seq(Packet) /\ gt_ \in Seq(GroupFecTable) /\ m_roundId - Len(gt_) \in Int
      /\ Rounds(gt_, m_roundId - Len(gt_))
  BY LenProperties DEF IInv, TypeOK, TablesCoverPath, Consecutive
<1>3. \A x, g, k, d : GroupEntry(gt_, x, g, k, d) => k \in Nat /\ d \in PacketInfo
  BY <1>2, GroupEntryFacts
\* A packet is at the head or behind it.
<1>4. \A y : Carries(link, y) => y = p \/ Carries(Tail(link), y)
  <2> SUFFICES ASSUME NEW y, Carries(link, y), y # p PROVE Carries(Tail(link), y)
    OBVIOUS
  <2>1. PICK m \in 1 .. Len(link) : link[m] = y
    BY DEF Carries
  <2>2. /\ Len(link) \in Nat /\ link[1] = p /\ Len(Tail(link)) = Len(link) - 1
        /\ \A i \in 1 .. Len(Tail(link)) : Tail(link)[i] = link[i + 1]
    BY <1>2, LenProperties, HeadTailProperties
  <2>3. m # 1
    BY <2>1, <2>2
  <2>4. m - 1 \in 1 .. Len(Tail(link)) /\ (m - 1) + 1 = m
    BY <2>1, <2>2, <2>3
  <2>5. Tail(link)[m - 1] = y
    BY <2>1, <2>2, <2>4
  <2> QED
    BY <2>4, <2>5 DEF Carries
\* The header of p is of no lost packet.
<1>5. p.type = DATA => p.hdr \notin DataHdrs(lost)
  BY <1>2, TailRises
<1>6. \A x, g, d : DataOf(d, x, g) \in lost => d.hdr \in DataHdrs(lost)
  BY DEF DataHdrs, DataOf
<1>7. CASE r.gt = gt_ /\ r.recovered = <<>> /\ (p.type = DATA => GivenUp(lost, p.rid))
  <2>1. \A x, g, k, d : GroupEntry(r.gt, x, g, k, d) =>
          \E f : /\ GroupEntry(gt_, x, g, k, f) /\ d.serial = f.serial /\ d.fec = f.fec
                 /\ d.hdr = f.hdr /\ (~d.check => ~f.check)
    BY <1>7
  <2>2. ASSUME NEW x, NEW g, NEW k, NEW d, GroupEntry(r.gt, x, g, k, d), ~d.check
        PROVE  /\ Carries(link, DataOf(d, x, g)) => Stays(DataOf(d, x, g), Tail(link), lost, kept2)
               /\ DataOf(d, x, g) \in lost /\ d.hdr \notin kept => d.hdr \notin kept2
    <3>1. ASSUME Carries(link, DataOf(d, x, g))
          PROVE  Stays(DataOf(d, x, g), Tail(link), lost, kept2)
      <4>1. CASE DataOf(d, x, g) = p
        <5>1. p.type = DATA
          BY <4>1 DEF DataOf
        <5> QED
          BY <1>7, <4>1, <5>1 DEF Stays
      <4> QED
        BY <1>4, <3>1, <4>1 DEF Stays
    <3>2. ASSUME DataOf(d, x, g) \in lost, d.hdr \notin kept PROVE d.hdr \notin kept2
      BY <1>5, <1>6, <1>7, <3>2
    <3> QED
      BY <3>1, <3>2
  <2> QED
    BY <2>1, <2>2, PathTells
<1>8. ASSUME NEW s \in Nat, GroupsPassed(r.gt, gt_, p, s, p.type = REDUNDANT),
             r.recovered # <<>> =>
               /\ p.type = REDUNDANT /\ ~GivenUp(lost, p.rid)
               /\ \E e : r.recovered = <<e>> /\ MissingIn(gt_, p, s, e)
      PROVE  GroupsTell(r.gt, m_roundId, m_serial, fc_, m_groupId, Tail(link), lost, kept2)
  <2>1. PICK d0 : GroupEntry(gt_, p.rid, p.gid, s, d0) /\ d0.serial = p.serial
    BY <1>8 DEF GroupsPassed
  <2>2. \A k, d : GroupEntry(gt_, p.rid, p.gid, k, d) /\ d.serial = p.serial => s <= k
    BY <1>8 DEF GroupsPassed
  <2>3. \A x, g, k, d : GroupEntry(r.gt, x, g, k, d) =>
          /\ ~(p.type = REDUNDANT /\ x = p.rid /\ g = p.gid)
          /\ \E f : /\ GroupEntry(gt_, x, g, k, f)
                    /\ SameEntry(d, f, x = p.rid /\ g = p.gid /\ k = s)
    BY <1>8 DEF GroupsPassed
  <2>4. \A x, g, k, d : GroupEntry(r.gt, x, g, k, d) =>
          \E f : /\ GroupEntry(gt_, x, g, k, f) /\ d.serial = f.serial /\ d.fec = f.fec
                 /\ d.hdr = f.hdr /\ (~d.check => ~f.check)
    BY <2>3 DEF SameEntry
  \* The entry of p is marked.
  <2>5. ASSUME NEW x, NEW g, NEW k, NEW d, GroupEntry(r.gt, x, g, k, d), ~d.check,
               DataOf(d, x, g) = p
        PROVE  FALSE
    <3>1. x = p.rid /\ g = p.gid /\ d.serial = p.serial
      BY <2>5 DEF DataOf
    <3>2. PICK f : /\ GroupEntry(gt_, x, g, k, f)
                   /\ SameEntry(d, f, x = p.rid /\ g = p.gid /\ k = s)
      BY <2>3, <2>5
    <3>3. f.serial = p.serial /\ ~(k = s)
      BY <2>5, <3>1, <3>2 DEF SameEntry
    <3>4. s <= k /\ k \in Nat /\ f \in PacketInfo
      BY <1>3, <2>2, <3>1, <3>2, <3>3
    <3>5. s < k
      BY <3>3, <3>4
    <3>6. d0.serial < f.serial
      BY <1>1, <2>1, <3>1, <3>2, <3>5 DEF GroupsRise
    <3>7. p.serial \in Nat /\ p.serial < p.serial
      BY <2>1, <3>3, <3>4, <3>6 DEF PacketInfo
    <3> QED
      BY ONLY <3>7
  <2>6. ASSUME NEW x, NEW g, NEW k, NEW d, GroupEntry(r.gt, x, g, k, d), ~d.check
        PROVE  /\ Carries(link, DataOf(d, x, g)) => Stays(DataOf(d, x, g), Tail(link), lost, kept2)
               /\ DataOf(d, x, g) \in lost /\ d.hdr \notin kept => d.hdr \notin kept2
    <3>1. ASSUME Carries(link, DataOf(d, x, g))
          PROVE  Stays(DataOf(d, x, g), Tail(link), lost, kept2)
      <4>1. DataOf(d, x, g) # p
        BY <2>5, <2>6
      <4> QED
        BY <1>4, <3>1, <4>1 DEF Stays
    <3>2. ASSUME DataOf(d, x, g) \in lost, d.hdr \notin kept, d.hdr \in kept2 PROVE FALSE
      <4>1. r.recovered # <<>> /\ d.hdr = r.recovered[1].hdr
        BY <1>5, <1>6, <3>2
      <4>2. PICK e : r.recovered = <<e>> /\ MissingIn(gt_, p, s, e)
        BY <1>8, <4>1
      <4>3. p.type = REDUNDANT /\ ~GivenUp(lost, p.rid) /\ d.hdr = e.hdr
        BY <1>8, <4>1, <4>2
      <4>4. DataOf(e, p.rid, p.gid) \in lost
        BY <4>2, <4>3, MissingIsLost
      <4>5. DataOf(e, p.rid, p.gid) = DataOf(d, x, g)
        <5>1. PICK y, z : y = DataOf(e, p.rid, p.gid) /\ z = DataOf(d, x, g)
          OBVIOUS
        <5>2. y.type = DATA /\ z.type = DATA /\ y.hdr = z.hdr
          BY <4>3, <5>1 DEF DataOf
        <5> QED
          BY <3>2, <4>4, <5>1, <5>2 DEF LostUnique
      <4>6. x = p.rid /\ g = p.gid
        BY <4>5 DEF DataOf
      <4> QED
        BY <2>3, <2>6, <4>3, <4>6
    <3> QED
      BY <3>1, <3>2
  <2> QED
    BY <2>4, <2>6, PathTells
<1> QED
  BY <1>7, <1>8 DEF RecvOnGroups

-----------------------------------------------------------------------------
(* The invariant, and the steps of the encoder and the path *)

\* What the decoder has forwarded or holds.
Kept == Headers(out \o tq_)

\* The invariant.
DeliverInv ==
  /\ GroupsTell(gt_, m_roundId, m_serial, fc_, m_groupId, link, lost, Kept)
  /\ Conserved(link, lost, out \o tq_, m_sentdatapkt, m_recover)

\* The parts it is put together from after a step.
LEMMA DeliverParts ==
  ASSUME NEW s, out' \o tq_' = s,
         GroupsTell(gt_', m_roundId', m_serial', fc_', m_groupId', link', lost', Headers(s)),
         Conserved(link', lost', s, m_sentdatapkt', m_recover')
  PROVE  DeliverInv'
BY DEF DeliverInv, Kept, Headers

\* What the types say of the queues.
LEMMA QueuesNow ==
  ASSUME IInv
  PROVE  /\ link \in Seq(Packet) /\ gt_ \in Seq(GroupFecTable) /\ m_roundId \in Nat
         /\ m_roundId - Len(gt_) \in Int /\ Rounds(gt_, m_roundId - Len(gt_))
         /\ (m_roundId - Len(gt_)) + Len(gt_) = m_roundId
         /\ out \in Seq(Packet) /\ tq_ \in Seq(Packet) /\ out \o tq_ \in Seq(Packet)
         /\ m_sentdatapkt \in Nat /\ m_recover \in Nat /\ m_serial \in Nat
<1>1. /\ link \in Seq(Packet) /\ gt_ \in Seq(GroupFecTable) /\ m_roundId \in Nat
      /\ out \in Seq(Packet) /\ tq_ \in Seq(Packet)
      /\ m_sentdatapkt \in Nat /\ m_recover \in Nat /\ m_serial \in Nat
  BY BoundsAssumption DEF IInv, TypeOK
<1>2. Rounds(gt_, m_roundId - Len(gt_))
  BY DEF IInv, TablesCoverPath, Consecutive
<1>3. m_roundId - Len(gt_) \in Int /\ (m_roundId - Len(gt_)) + Len(gt_) = m_roundId
  BY <1>1, LenProperties
<1>4. out \o tq_ \in Seq(Packet)
  BY <1>1, ConcatProperties
<1> QED
  BY <1>1, <1>2, <1>3, <1>4

\* Another packet on the path changes nothing.
LEMMA GrowTells ==
  ASSUME NEW gt, NEW last, NEW s, NEW fc, NEW gid, NEW l \in Seq(Packet), NEW lst, NEW kept,
         GroupsTell(gt, last, s, fc, gid, l, lst, kept), NEW p
  PROVE  GroupsTell(gt, last, s, fc, gid, Append(l, p), lst, kept)
<1>1. /\ \A i \in 1 .. Len(l) : i \in 1 .. Len(Append(l, p))
      /\ \A i \in 1 .. Len(l) : Append(l, p)[i] = l[i]
  BY LenProperties
<1>2. \A x : Carries(l, x) => Carries(Append(l, p), x)
  BY <1>1 DEF Carries
<1> QED
  BY <1>2 DEF GroupsTell, GroupsTrue

\* The tables that SendRealOut finds, or opens for the first round.
LEMMA OpenedTells ==
  ASSUME IInv, Idle, NEW kept,
         GroupsTell(gt_, m_roundId, m_serial, fc_, m_groupId, link, lost, kept),
         NEW gt, gt = IF init_ THEN WithGroups(gt_, m_roundId, NGroups) ELSE gt_,
         NEW fc2, fc2 = IF init_ THEN Fwin * NGroups ELSE fc_
  PROVE  GroupsTell(gt, m_roundId, m_serial, fc2, m_groupId, link, lost, kept)
<1>1. CASE init_
  <2>1. NGroups \in Sizes /\ m_roundId \in {m_roundId, m_roundId + 1} /\ fc_ # 0
    BY NGroupsAssumption DEF Sizes, Idle
  <2>2. GroupsTell(WithGroups(gt_, m_roundId, NGroups), m_roundId, m_serial, fc2, m_groupId,
                   link, lost, kept)
    BY <2>1, QueuesNow, OpenTells
  <2> QED
    BY <1>1, <2>2
<1>2. CASE ~init_
  BY <1>2
<1> QED
  BY <1>1, <1>2

\* SendSmall keeps DeliverInv.
LEMMA SendSmallDelivers ==
  ASSUME IInv, DeliverInv, SendSmall
  PROVE  DeliverInv'
<1> DEFINE p == [type |-> NONE, serial |-> 0, rid |-> 0, gid |-> 0, hdr |-> 0]
           gt == IF init_ THEN WithGroups(gt_, m_roundId, NGroups) ELSE gt_
           fc == IF init_ THEN Fwin * NGroups ELSE fc_
<1>1. /\ link' = Append(link, p) /\ gt_' = gt /\ fc_' = fc /\ Idle
      /\ UNCHANGED <<m_serial, m_roundId, m_groupId, m_sentdatapkt, lost, tq_, out, m_recover>>
  BY DEF SendSmall, decoder, counters
<1>2. p \in Packet /\ p.type # DATA /\ p.hdr = 0
  BY NGroupsAssumption DEF Packet, Groups, NONE, DATA
<1>3. GroupsTell(gt, m_roundId, m_serial, fc, m_groupId, link, lost, Kept)
  BY <1>1, OpenedTells DEF DeliverInv
<1> HIDE DEF p, gt, fc
<1>4. GroupsTell(gt, m_roundId, m_serial, fc, m_groupId, Append(link, p), lost, Kept)
  BY <1>3, QueuesNow, GrowTells
<1>5. Conserved(Append(link, p), lost, out \o tq_, m_sentdatapkt, m_recover)
  <2>1. Conserved(link, lost, out \o tq_, m_sentdatapkt, m_recover)
    BY DEF DeliverInv
  <2> QED
    BY <1>2, <2>1, QueuesNow, SendConserves
<1> QED
  BY <1>1, <1>4, <1>5, DeliverParts DEF Kept

\* SendData keeps it: the packet goes onto the path, and into its group.
LEMMA SendDataDelivers ==
  ASSUME IInv, DeliverInv, SendData
  PROVE  DeliverInv'
<1> DEFINE hdr == m_sentdatapkt + 1
           rt == IF init_ THEN WithRound(rt_, m_roundId, NGroups) ELSE rt_
           gt == IF init_ THEN WithGroups(gt_, m_roundId, NGroups) ELSE gt_
           fc == IF init_ THEN Fwin * NGroups ELSE fc_
           e == Entry(FALSE, hdr)
           p == Tagged(DATA, hdr)
<1>1. /\ link' = Append(link, p) /\ gt_' = GroupPush(gt, e) /\ Idle
      /\ m_serial' = m_serial + 1 /\ m_sentdatapkt' = hdr
      /\ UNCHANGED <<m_roundId, lost, tq_, out, m_recover>>
  BY DEF SendData, CreateDataPacket, decoder, counters
<1>2. TypeOK /\ hdr \in Nat
  BY QueuesNow DEF IInv
<1>3. /\ p \in Packet /\ e \in PacketInfo /\ p.type = DATA /\ p.hdr = hdr
      /\ e.serial = m_serial /\ e.gid = m_groupId /\ e.fec = FALSE
      /\ p = DataOf(e, m_roundId, m_groupId)
  <2>1. p \in Packet /\ e \in PacketInfo
    BY <1>2, MadeTypes
  <2> QED
    BY <2>1 DEF Tagged, Entry, DataOf
<1>4. GroupsTell(gt, m_roundId, m_serial, fc, m_groupId, link, lost, Kept)
  BY <1>1, OpenedTells DEF DeliverInv
<1>5. gt \in Seq(GroupFecTable) /\ Ending(gt, m_roundId) /\ gt # <<>>
  <2>1. gt \in Seq(GroupFecTable) /\ Ending(gt, m_roundId)
    <3>1. PICK r, g : r = rt /\ g = gt
      OBVIOUS
    <3>2. g \in Seq(GroupFecTable) /\ Ending(g, m_roundId)
      BY <3>1, OpenedTables
    <3> QED
      BY <3>1, <3>2
  <2> QED
    BY <2>1 DEF Ending
<1>6. fc # 0
  <2>1. NGroups \in Nat \ {0} /\ Fwin \in Nat \ {0}
    BY NGroupsAssumption, FwinAssumption
  <2>2. Fwin * NGroups # 0
    BY <2>1, ProductFacts
  <2> QED
    BY <1>1, <2>2 DEF Idle
<1> HIDE DEF gt, e, p, hdr, fc
<1>7. GroupsTell(GroupPush(gt, e), m_roundId, m_serial + 1, fc_', m_groupId', Append(link, p),
                 lost, Kept)
  <2>1. GroupsTell(gt, m_roundId, m_serial, fc, e.gid, link, lost, Kept)
    BY <1>3, <1>4
  <2> QED
    BY <1>3, <1>5, <1>6, <2>1, QueuesNow, PushTells
<1>8. Conserved(Append(link, p), lost, out \o tq_, hdr, m_recover)
  <2>1. Conserved(link, lost, out \o tq_, m_sentdatapkt, m_recover)
    BY DEF DeliverInv
  <2>2. p.hdr = m_sentdatapkt + 1 /\ hdr = m_sentdatapkt + 1
    BY <1>3 DEF hdr
  <2> QED
    BY <1>3, <2>1, <2>2, QueuesNow, SendConserves
<1> QED
  BY <1>1, <1>7, <1>8, DeliverParts DEF Kept

\* SendFecPacket keeps it: a redundant packet goes, and the round may end.
LEMMA SendFecPacketDelivers ==
  ASSUME IInv, DeliverInv, SendFecPacket
  PROVE  DeliverInv'
<1> DEFINE lastGroup == m_groupId + 1 = NGroups
           rid == IF lastGroup THEN m_roundId + 1 ELSE m_roundId
           e   == Entry(TRUE, 0)
           p   == Tagged(REDUNDANT, 0)
           gt  == GroupPush(gt_, e)
<1>1. /\ link' = Append(link, p) /\ m_roundId' = rid
      /\ m_groupId' = IF lastGroup THEN 0 ELSE m_groupId + 1
      /\ m_serial' = IF lastGroup THEN 1 ELSE m_serial + 1
      /\ ic_ - 1 = 0 => gt_' = WithGroups(gt, rid, NGroups)
      /\ ic_ - 1 # 0 => fc_' = fc_ /\ gt_' = gt
      /\ fc_ = 0
  BY DEF SendFecPacket, CreateFecPacket, RedundancyControl, Idle
<1>2. UNCHANGED <<m_sentdatapkt, lost, tq_, out, m_recover>>
  BY DEF SendFecPacket, decoder, counters
<1>3. /\ TypeOK /\ m_groupId \in Int /\ NGroups \in Nat \ {0}
      /\ ~init_ /\ ic_ \in 1 .. NGroups /\ m_groupId = NGroups - ic_
  <2>1. TypeOK /\ m_groupId \in Groups
    BY DEF IInv, TypeOK
  <2>2. ~init_ /\ ic_ \in 1 .. NGroups /\ m_groupId = NGroups - ic_
    BY <1>1 DEF IInv, TablesCoverPath, Burst
  <2> QED
    BY <2>1, <2>2, NGroupsAssumption DEF Groups
<1>4. lastGroup <=> ic_ - 1 = 0
  BY <1>3
<1>5. /\ p \in Packet /\ e \in PacketInfo /\ p.type # DATA /\ p.hdr = 0
      /\ e.serial = m_serial /\ e.gid = m_groupId /\ e.fec = TRUE
  <2>1. p \in Packet /\ e \in PacketInfo
    BY <1>3, MadeTypes
  <2> QED
    BY <2>1 DEF Tagged, Entry, DATA, REDUNDANT
<1>6. Ending(gt_, m_roundId) /\ gt_ # <<>>
  BY <1>3, EndingTables DEF Ending
<1> HIDE DEF e, p
<1>7. GroupsTell(gt, m_roundId, m_serial + 1, 0, m_groupId + 1, link', lost, Kept)
  <2>1. GroupsTell(gt_, m_roundId, m_serial, 0, e.gid, link, lost, Kept)
    BY <1>1, <1>5 DEF DeliverInv
  <2> QED
    BY <1>1, <1>5, <1>6, <2>1, QueuesNow, PushTells
<1>8. Conserved(link', lost, out \o tq_, m_sentdatapkt, m_recover)
  <2>1. Conserved(link, lost, out \o tq_, m_sentdatapkt, m_recover)
    BY DEF DeliverInv
  <2> QED
    BY <1>1, <1>5, <2>1, QueuesNow, SendConserves
<1>9. GroupsTell(gt_', m_roundId', m_serial', fc_', m_groupId', link', lost, Kept)
  <2>1. CASE ic_ - 1 = 0
    <3>1. gt \in Seq(GroupFecTable) /\ Ending(gt, m_roundId)
      <4>1. gt \in Seq(GroupFecTable) /\ Len(gt) = Len(gt_)
        BY <1>5, <1>6, QueuesNow, GroupPushPass
      <4>2. \A i \in 1 .. Len(gt_) : gt[i].rid = gt_[i].rid
        BY <1>5, <1>6, QueuesNow, GroupPushPass DEF GroupsGrow
      <4>3. Rounds(gt, m_roundId - Len(gt))
        BY <4>1, <4>2, QueuesNow DEF Rounds
      <4>4. gt # <<>>
        BY <1>6, <4>1, EmptySeq, QueuesNow
      <4> QED
        BY <4>1, <4>3, <4>4 DEF Ending
    <3> HIDE DEF gt
    <3>2. /\ m_roundId - Len(gt) \in Int /\ Rounds(gt, m_roundId - Len(gt))
          /\ (m_roundId - Len(gt)) + Len(gt) = m_roundId /\ m_roundId \in Nat
      BY <3>1, QueuesNow, LenProperties DEF Ending
    <3>3. NGroups \in Sizes /\ rid \in {m_roundId, m_roundId + 1} /\ rid # m_roundId
      BY <1>3, <1>4, <2>1, <3>2 DEF Sizes
    <3>4. GroupsTell(WithGroups(gt, rid, NGroups), rid, m_serial', fc_', m_groupId',
                     link', lost, Kept)
      BY <1>7, <3>1, <3>2, <3>3, OpenTells
    <3> QED
      BY <1>1, <2>1, <3>4
  <2>2. CASE ic_ - 1 # 0
    BY <1>1, <1>4, <1>7, <2>2
  <2> QED
    BY <2>1, <2>2
<1> QED
  BY <1>2, <1>8, <1>9, DeliverParts DEF Kept

\* A packet on path l is its head or behind it.
LEMMA HeadOrBehind ==
  ASSUME NEW l \in Seq(Packet), l # <<>>, NEW y, Carries(l, y)
  PROVE  y = Head(l) \/ Carries(Tail(l), y)
<1>1. PICK m \in 1 .. Len(l) : l[m] = y
  BY DEF Carries
<1>2. /\ Len(l) \in Nat /\ l[1] = Head(l) /\ Len(Tail(l)) = Len(l) - 1
      /\ \A i \in 1 .. Len(Tail(l)) : Tail(l)[i] = l[i + 1]
  BY LenProperties, HeadTailProperties
<1>3. CASE m = 1
  BY <1>1, <1>2, <1>3
<1>4. CASE m # 1
  <2>1. m - 1 \in 1 .. Len(Tail(l)) /\ (m - 1) + 1 = m
    BY <1>1, <1>2, <1>4
  <2>2. Tail(l)[m - 1] = y
    BY <1>1, <1>2, <2>1
  <2> QED
    BY <2>1, <2>2 DEF Carries
<1> QED
  BY <1>3, <1>4

\* The groups, when the head leaves the path without a look at them: it is lost
\* if it is a data packet.
LEMMA LeavesTells ==
  ASSUME IInv, DeliverInv, link # <<>>, NEW lst2, lost \subseteq lst2, IsFiniteSet(lst2),
         Head(link).type = DATA => Head(link) \in lst2
  PROVE  GroupsTell(gt_, m_roundId, m_serial, fc_, m_groupId, Tail(link), lst2, Kept)
<1> DEFINE p == Head(link)
<1>1. /\ GroupsTell(gt_, m_roundId, m_serial, fc_, m_groupId, link, lost, Kept)
      /\ PathRises(link, m_sentdatapkt) /\ PastBelow(lost, Kept, link)
  BY DEF DeliverInv, Conserved, Kept
<1>2. p.type = DATA => p.hdr \notin Kept
  BY <1>1, QueuesNow, TailRises
<1>3. ASSUME NEW r, NEW g, NEW k, NEW x, GroupEntry(gt_, r, g, k, x), ~x.check,
             Carries(link, DataOf(x, r, g))
      PROVE  Stays(DataOf(x, r, g), Tail(link), lst2, Kept)
  <2>1. DataOf(x, r, g) = p \/ Carries(Tail(link), DataOf(x, r, g))
    BY <1>3, QueuesNow, HeadOrBehind
  <2>2. CASE DataOf(x, r, g) = p
    <3>1. p.type = DATA
      BY <2>2 DEF DataOf
    <3> QED
      BY <1>2, <2>2, <3>1 DEF Stays
  <2> QED
    BY <2>1, <2>2 DEF Stays
<1> HIDE DEF p
<1>4. \A r, g, k, x : GroupEntry(gt_, r, g, k, x) =>
        \E d : /\ GroupEntry(gt_, r, g, k, d) /\ x.serial = d.serial /\ x.fec = d.fec
               /\ x.hdr = d.hdr /\ (~x.check => ~d.check)
  OBVIOUS
<1>5. \A r, g, k, x : GroupEntry(gt_, r, g, k, x) /\ ~x.check =>
        /\ Carries(link, DataOf(x, r, g)) => Stays(DataOf(x, r, g), Tail(link), lst2, Kept)
        /\ DataOf(x, r, g) \in lost /\ x.hdr \notin Kept => x.hdr \notin Kept
  BY <1>3
<1> QED
  BY <1>1, <1>4, <1>5, PathTells

\* Lose keeps DeliverInv.
LEMMA LoseDelivers ==
  ASSUME IInv, LossInv, DeliverInv, Lose
  PROVE  DeliverInv'
<1> DEFINE p == Head(link)
           s == out \o tq_
<1>1. /\ link # <<>> /\ link' = Tail(link)
      /\ lost' = IF p.type = NONE THEN lost ELSE lost \cup {p}
      /\ UNCHANGED <<gt_, m_serial, m_roundId, m_groupId, fc_, m_sentdatapkt, tq_, out, m_recover>>
  BY DEF Lose, encoder, decoder, counters
<1>2. lost \subseteq lost' /\ IsFiniteSet(lost') /\ (p.type = DATA => p \in lost')
  <2>1. IsFiniteSet(lost)
    BY DEF LossInv, Accounted
  <2>2. IsFiniteSet(lost \cup {p})
    BY <2>1, FS_AddElement
  <2>3. DATA # NONE
    BY DEF DATA, NONE
  <2> QED
    BY <1>1, <2>1, <2>2, <2>3
<1>3. GroupsTell(gt_, m_roundId, m_serial, fc_, m_groupId, Tail(link), lost', Kept)
  BY <1>1, <1>2, LeavesTells
<1>4. Conserved(link, lost, s, m_sentdatapkt, m_recover) /\ LostUnique(lost)
  BY DEF DeliverInv, Conserved
<1> HIDE DEF p, s
<1>5. Conserved(Tail(link), lost', s, m_sentdatapkt, m_recover)
  <2>1. CASE p.type = DATA
    <3>1. lost' = lost \cup {p}
      BY <1>1, <2>1 DEF DATA, NONE
    <3>2. Conserved(Tail(link), lost \cup {p}, s, m_sentdatapkt, m_recover)
      BY <1>1, <1>4, <2>1, QueuesNow, LossConserves DEF p, s
    <3> QED
      BY <3>1, <3>2
  <2>2. CASE p.type # DATA
    <3>1. DataHdrs(lost') = DataHdrs(lost)
      BY <1>1, <2>2 DEF DataHdrs
    <3>2. LostUnique(lost')
      BY <1>1, <1>4, <2>2 DEF LostUnique
    <3> QED
      BY <1>1, <1>4, <2>2, <3>1, <3>2, QueuesNow, OtherConserves DEF p, s
  <2> QED
    BY <2>1, <2>2
<1> QED
  BY <1>1, <1>3, <1>5, DeliverParts DEF Kept, s

\* IpForwardSmall keeps it: the packet has no header.
LEMMA IpForwardSmallDelivers ==
  ASSUME IInv, LossInv, DeliverInv, IpForwardSmall
  PROVE  DeliverInv'
<1> DEFINE p == Head(link)
           s == out \o tq_
           t == out' \o tq_'
<1>1. /\ link # <<>> /\ link' = Tail(link) /\ p.type = NONE /\ out' = Append(out, p)
      /\ UNCHANGED <<gt_, m_serial, m_roundId, m_groupId, fc_, m_sentdatapkt, lost, tq_, m_recover>>
  BY DEF IpForwardSmall, encoder, counters
<1>2. p \in Packet /\ p.type # DATA
  BY <1>1, QueuesNow, HeadTailProperties DEF DATA, NONE
<1>3. PICK k : Inserted(t, s, p, k)
  <2>1. Inserted(<<p>> \o tq_, tq_, p, 1)
    BY <1>2, QueuesNow, InsertedEnds
  <2>2. Inserted(out \o (<<p>> \o tq_), s, p, Len(out) + 1)
    BY <2>1, QueuesNow, InsertedBehind
  <2>3. t = out \o (<<p>> \o tq_)
    <3>1. <<p>> \in Seq(Packet) /\ Append(out, p) = out \o <<p>>
      <4>1. out \in Seq(Packet) /\ tq_ \in Seq(Packet) /\ p \in Packet
        BY <1>2, QueuesNow
      <4> HIDE DEF p
      <4> QED
        BY ONLY <4>1, AppendIsConcat
    <3>2. (out \o <<p>>) \o tq_ = out \o (<<p>> \o tq_)
      <4>1. out \in Seq(Packet) /\ tq_ \in Seq(Packet)
        BY QueuesNow
      <4> HIDE DEF p
      <4> QED
        BY ONLY <3>1, <4>1, ConcatAssociative
    <3> QED
      BY <1>1, <3>1, <3>2
  <2> QED
    BY <2>2, <2>3
<1>4. Conserved(link, lost, s, m_sentdatapkt, m_recover)
  BY DEF DeliverInv
<1>5. s \in Seq(Packet) /\ Kept = Headers(s)
  BY QueuesNow DEF Kept
<1>6. p.hdr = 0
  <2>1. PathRises(link, m_sentdatapkt) /\ PastBelow(lost, Headers(s), link)
    BY <1>4 DEF Conserved
  <2> QED
    BY <1>1, <1>2, <2>1, QueuesNow, TailRises
<1> HIDE DEF p, s, t
<1>7. Headers(t) = Kept
  <2>1. Headers(t) = Headers(s) \cup ({p.hdr} \ {0})
    BY <1>3, <1>5, InsertedHeaders
  <2> QED
    BY <1>5, <1>6, <2>1
<1>8. GroupsTell(gt_, m_roundId, m_serial, fc_, m_groupId, Tail(link), lost, Headers(t))
  <2>1. IsFiniteSet(lost)
    BY DEF LossInv, Accounted
  <2> QED
    BY <1>1, <1>2, <1>7, <2>1, LeavesTells DEF p
<1>9. Conserved(Tail(link), lost, t, m_sentdatapkt, m_recover)
  <2>1. LostUnique(lost)
    BY <1>4 DEF Conserved
  <2> QED
    BY <1>1, <1>2, <1>3, <1>4, <1>5, <2>1, QueuesNow, OtherConserves DEF p
<1> QED
  BY <1>1, <1>8, <1>9, DeliverParts DEF t

-----------------------------------------------------------------------------
(* The packet received *)

\* A packet of a round is data or redundant.
LEMMA HeadTypes ==
  ASSUME IInv, Idle, link # <<>>, NEW p, p = Head(link), p.type # NONE
  PROVE  p \in Packet /\ (p.type = DATA \/ p.type = REDUNDANT)
<1>1. /\ link \in Seq(Packet) /\ \A x \in Packet : Tag(x)
      /\ Tracked(link, rt_, gt_, m_roundId, fc_, m_groupId) /\ fc_ # 0
  BY PacketTags, LinkTracked DEF IInv, TypeOK, TablesCoverPath, Burst, Idle
<1>2. p \in Packet /\ p.type \in {DATA, REDUNDANT, REXMIT}
  BY <1>1, HeadTracked
<1> QED
  BY <1>2 DEF Packet, NONE, DATA, REDUNDANT, REXMIT, RECOVERED

\* Where IpForward puts a data packet.
LEMMA DataIsInserted ==
  ASSUME NEW a \in Seq(Packet), NEW q \in Seq(Packet), NEW p \in Packet, p.type = DATA,
         NEW r, NEW t, Handled(t, a, q, p, r)
  PROVE  \E k : Inserted(t, a \o q, p, k)
<1>1. CASE t = a \o InsertTransitQueue(q, p)
  <2>1. PICK k : Inserted(InsertTransitQueue(q, p), q, p, k)
    BY TransitInsert
  <2>2. Inserted(a \o InsertTransitQueue(q, p), a \o q, p, Len(a) + k)
    BY <2>1, InsertedBehind
  <2> QED
    BY <1>1, <2>2
<1>2. CASE t = (a \o q) \o <<p>>
  <2>1. a \o q \in Seq(Packet)
    BY ConcatProperties
  <2>2. Inserted((a \o q) \o <<p>>, a \o q, p, Len(a \o q) + 1)
    BY <2>1, InsertedEnds
  <2> QED
    BY <1>2, <2>2
<1>3. CASE t = a \o (<<p>> \o q)
  <2>1. Inserted(<<p>> \o q, q, p, 1)
    BY InsertedEnds
  <2>2. Inserted(a \o (<<p>> \o q), a \o q, p, Len(a) + 1)
    BY <2>1, InsertedBehind
  <2> QED
    BY <1>3, <2>2
<1> QED
  BY <1>1, <1>2, <1>3 DEF Handled

\* What IpForward has released and holds, before it and after.
Handling(p, r, t) ==
  /\ IInv /\ AskInv /\ LossInv /\ DeliverInv
  /\ Idle /\ link # <<>> /\ p = Head(link) /\ p.type # NONE
  /\ RecvOnGroups(r, p) /\ r.recovered \in Seq(PacketInfo)
  /\ Released(p) \in Seq(Packet) /\ Waiting(p) \in Seq(Packet)
  /\ Released(p) \o Waiting(p) = out \o tq_
  /\ Handled(t, Released(p), Waiting(p), p, r)

\* It forwards or holds the data packet.
LEMMA DataDelivers ==
  ASSUME NEW p, NEW r, NEW t, Handling(p, r, t), p.type = DATA
  PROVE  /\ GroupsTell(r.gt, m_roundId, m_serial, fc_, m_groupId, Tail(link), lost, Headers(t))
         /\ Conserved(Tail(link), lost, t, m_sentdatapkt, m_recover)
         /\ r.recovered = <<>>
<1> DEFINE s == out \o tq_
<1>1. /\ IInv /\ AskInv /\ LossInv /\ DeliverInv
      /\ Idle /\ link # <<>> /\ p = Head(link) /\ p.type # NONE
      /\ RecvOnGroups(r, p)
      /\ Released(p) \in Seq(Packet) /\ Waiting(p) \in Seq(Packet)
      /\ Released(p) \o Waiting(p) = s /\ Handled(t, Released(p), Waiting(p), p, r)
  BY DEF Handling
<1>2. p \in Packet
  BY <1>1, HeadTypes
<1>3. PICK k : Inserted(t, s, p, k)
  BY <1>1, <1>2, DataIsInserted
<1>4. /\ Conserved(link, lost, s, m_sentdatapkt, m_recover) /\ s \in Seq(Packet)
      /\ Headers(s) = Kept
      /\ GroupsTell(gt_, m_roundId, m_serial, fc_, m_groupId, link, lost, Kept)
  BY <1>1, QueuesNow DEF DeliverInv, Kept
<1>5. r.recovered = <<>>
  BY <1>1 DEF RecvOnGroups, DATA, REDUNDANT
<1> HIDE DEF s
<1>6. Headers(t) = Headers(s) \cup ({p.hdr} \ {0})
  BY <1>3, <1>4, InsertedHeaders
<1>7. /\ PathRises(link, m_sentdatapkt) /\ PastBelow(lost, Kept, link) /\ LostUnique(lost)
  BY <1>4 DEF Conserved
<1>8. GroupsTell(r.gt, m_roundId, m_serial, fc_, m_groupId, Tail(link), lost, Headers(t))
  <2>1. IsFiniteSet(lost)
    BY <1>1 DEF LossInv, Accounted
  <2>2. \A x \in Headers(t) : \/ x \in Kept
                              \/ p.type = DATA /\ x = p.hdr
                              \/ r.recovered # <<>> /\ x = r.recovered[1].hdr
    BY <1>4, <1>6
  <2> QED
    BY <1>1, <1>4, <1>7, <2>1, <2>2, RecvTells
<1>9. Conserved(Tail(link), lost, t, m_sentdatapkt, m_recover)
  BY <1>1, <1>3, <1>4, QueuesNow, DataConserves
<1> QED
  BY <1>5, <1>8, <1>9

\* A redundant packet that rebuilds nothing goes.
LEMMA NothingRebuilt ==
  ASSUME NEW p, NEW r, NEW t, Handling(p, r, t), p.type = REDUNDANT, r.recovered = <<>>
  PROVE  /\ GroupsTell(r.gt, m_roundId, m_serial, fc_, m_groupId, Tail(link), lost, Headers(t))
         /\ Conserved(Tail(link), lost, t, m_sentdatapkt, m_recover)
<1> DEFINE s == out \o tq_
<1>1. /\ IInv /\ AskInv /\ LossInv /\ DeliverInv
      /\ Idle /\ link # <<>> /\ p = Head(link) /\ p.type # NONE
      /\ RecvOnGroups(r, p) /\ p.type # DATA
      /\ t = s
  <2>1. p.type # DATA
    BY DEF DATA, REDUNDANT
  <2> QED
    BY <2>1 DEF Handling, Handled
<1>2. /\ Conserved(link, lost, s, m_sentdatapkt, m_recover) /\ s \in Seq(Packet)
      /\ Headers(s) = Kept
      /\ GroupsTell(gt_, m_roundId, m_serial, fc_, m_groupId, link, lost, Kept)
  BY <1>1, QueuesNow DEF DeliverInv, Kept
<1> HIDE DEF s
<1>3. /\ PathRises(link, m_sentdatapkt) /\ PastBelow(lost, Kept, link) /\ LostUnique(lost)
  BY <1>2 DEF Conserved
<1>4. GroupsTell(r.gt, m_roundId, m_serial, fc_, m_groupId, Tail(link), lost, Kept)
  <2>1. IsFiniteSet(lost)
    BY <1>1 DEF LossInv, Accounted
  <2> QED
    BY <1>1, <1>2, <1>3, <2>1, RecvTells
<1>5. Conserved(Tail(link), lost, t, m_sentdatapkt, m_recover)
  BY <1>1, <1>2, <1>3, QueuesNow, OtherConserves
<1> QED
  BY <1>1, <1>2, <1>4, <1>5

\* A redundant packet gives back a lost one.
LEMMA OneRebuilt ==
  ASSUME NEW p, NEW r, NEW t, Handling(p, r, t), p.type = REDUNDANT, r.recovered # <<>>
  PROVE  /\ GroupsTell(r.gt, m_roundId, m_serial, fc_, m_groupId, Tail(link), lost, Headers(t))
         /\ Conserved(Tail(link), lost, t, m_sentdatapkt, m_recover + 1)
         /\ Len(r.recovered) = 1
<1> DEFINE s == out \o tq_
           x == RecoveryPacket(p, r.recovered[1])
<1>1. /\ IInv /\ AskInv /\ LossInv /\ DeliverInv
      /\ Idle /\ link # <<>> /\ p = Head(link) /\ p.type # NONE
      /\ RecvOnGroups(r, p) /\ p.type # DATA
      /\ Released(p) \in Seq(Packet) /\ Waiting(p) \in Seq(Packet)
      /\ Released(p) \o Waiting(p) = s
      /\ t = Released(p) \o InsertTransitQueue(Waiting(p), x)
  <2>1. p.type # DATA
    BY DEF DATA, REDUNDANT
  <2> QED
    BY <2>1 DEF Handling, Handled
<1>2. PICK z, e : /\ ~GivenUp(lost, p.rid) /\ r.recovered = <<e>> /\ MissingIn(gt_, p, z, e)
  BY <1>1 DEF RecvOnGroups
<1>3. e \in PacketInfo
  <2>1. r.recovered \in Seq(PacketInfo) /\ r.recovered[1] = e /\ Len(r.recovered) = 1
    BY <1>2 DEF Handling
  <2> QED
    BY <2>1, ElementOfSeq
<1>4. p \in Packet
  BY <1>1, HeadTypes
<1>5. x \in Packet /\ x.type # NONE /\ x.hdr = e.hdr
  BY <1>2, <1>3, <1>4 DEF RecoveryPacket, Packet, PacketInfo, NONE, RECOVERED
<1>6. /\ Conserved(link, lost, s, m_sentdatapkt, m_recover) /\ s \in Seq(Packet)
      /\ Headers(s) = Kept
      /\ GroupsTell(gt_, m_roundId, m_serial, fc_, m_groupId, link, lost, Kept)
  BY <1>1, QueuesNow DEF DeliverInv, Kept
<1>7. DataOf(e, p.rid, p.gid) \in lost /\ e.hdr \notin Kept
  BY <1>1, <1>2, <1>6, MissingIsLost
<1>8. x.hdr \in DataHdrs(lost) /\ x.hdr \notin Headers(s)
  <2>1. DataOf(e, p.rid, p.gid).type = DATA /\ DataOf(e, p.rid, p.gid).hdr = e.hdr
    BY DEF DataOf
  <2> QED
    BY <1>5, <1>6, <1>7, <2>1 DEF DataHdrs
<1> HIDE DEF x, s
<1>9. PICK k : Inserted(t, s, x, k)
  <2>1. PICK j : Inserted(InsertTransitQueue(Waiting(p), x), Waiting(p), x, j)
    BY <1>1, <1>5, TransitInsert
  <2>2. Inserted(t, s, x, Len(Released(p)) + j)
    BY <1>1, <2>1, InsertedBehind
  <2> QED
    BY <2>2
<1>10. Headers(t) = Headers(s) \cup ({x.hdr} \ {0})
  BY <1>6, <1>9, InsertedHeaders
<1>11. /\ PathRises(link, m_sentdatapkt) /\ PastBelow(lost, Kept, link) /\ LostUnique(lost)
  BY <1>6 DEF Conserved
<1>12. GroupsTell(r.gt, m_roundId, m_serial, fc_, m_groupId, Tail(link), lost, Headers(t))
  <2>1. IsFiniteSet(lost)
    BY <1>1 DEF LossInv, Accounted
  <2>2. \A y \in Headers(t) : \/ y \in Kept
                              \/ p.type = DATA /\ y = p.hdr
                              \/ r.recovered # <<>> /\ y = r.recovered[1].hdr
    <3>1. r.recovered[1] = e
      BY <1>2
    <3> QED
      BY <1>5, <1>6, <1>10, <3>1
  <2> QED
    BY <1>1, <1>6, <1>11, <2>1, <2>2, RecvTells
<1>13. Conserved(Tail(link), lost, t, m_sentdatapkt, m_recover + 1)
  BY <1>1, <1>5, <1>6, <1>8, <1>9, QueuesNow, RebuildConserves
<1> QED
  BY <1>2, <1>12, <1>13

\* IpForward keeps DeliverInv.
LEMMA IpForwardDelivers ==
  ASSUME IInv, AskInv, LossInv, DeliverInv, IpForward
  PROVE  DeliverInv'
<1> DEFINE p == Head(link)
           r == Recv(Waiting(p), p)
           t == out' \o tq_'
<1>1. /\ Idle /\ link # <<>> /\ p.type # NONE /\ link' = Tail(link) /\ gt_' = r.gt
      /\ m_recover' = m_recover + Len(r.recovered)
      /\ UNCHANGED <<m_serial, m_roundId, m_groupId, fc_, m_sentdatapkt, lost>>
  BY DEF IpForward, Waiting, encoder
<1> HIDE DEF p, r
<1>2. /\ p = Head(link) /\ r = Recv(Waiting(p), p)
  BY DEF p, r
<1>3. /\ Released(p) \in Seq(Packet) /\ Waiting(p) \in Seq(Packet)
      /\ Released(p) \o Waiting(p) = out \o tq_
      /\ Handled(t, Released(p), Waiting(p), p, r)
  BY <1>2, IpForwardHandles
<1>4. RecvOnGroups(r, p)
  BY <1>1, <1>2, RecvGroups
<1>5. r.recovered \in Seq(PacketInfo)
  BY <1>1, <1>2, <1>3, RecvTables DEF IInv
<1> HIDE DEF t
<1>6. Handling(p, r, t)
  BY <1>1, <1>2, <1>3, <1>4, <1>5 DEF Handling
<1>7. /\ GroupsTell(r.gt, m_roundId, m_serial, fc_, m_groupId, Tail(link), lost, Headers(t))
      /\ Conserved(Tail(link), lost, t, m_sentdatapkt, m_recover')
  <2>1. CASE p.type = DATA
    <3>1. Len(r.recovered) = 0
      BY <1>6, <2>1, DataDelivers
    <3>2. m_recover' = m_recover
      BY <1>1, <3>1, QueuesNow
    <3> QED
      BY <1>6, <2>1, <3>2, DataDelivers
  <2>2. CASE p.type = REDUNDANT /\ r.recovered = <<>>
    <3>1. m_recover' = m_recover
      BY <1>1, <2>2, QueuesNow
    <3> QED
      BY <1>6, <2>2, <3>1, NothingRebuilt
  <2>3. CASE p.type = REDUNDANT /\ r.recovered # <<>>
    <3>1. m_recover' = m_recover + 1
      BY <1>1, <1>6, <2>3, OneRebuilt
    <3> QED
      BY <1>6, <2>3, <3>1, OneRebuilt
  <2> QED
    BY <1>1, <1>2, <2>1, <2>2, <2>3, HeadTypes
<1> QED
  BY <1>1, <1>7, DeliverParts DEF t

-----------------------------------------------------------------------------
\* Every step keeps DeliverInv.
LEMMA NextDelivers ==
  ASSUME IInv, AskInv, LossInv, DeliverInv, [Next]_vars
  PROVE  DeliverInv'
<1>1. CASE SendData
  BY <1>1, SendDataDelivers
<1>2. CASE SendSmall
  BY <1>2, SendSmallDelivers
<1>3. CASE SendFecPacket
  BY <1>3, SendFecPacketDelivers
<1>4. CASE Lose
  BY <1>4, LoseDelivers
<1>5. CASE IpForwardSmall
  BY <1>5, IpForwardSmallDelivers
<1>6. CASE IpForward
  BY <1>6, IpForwardDelivers
<1>7. CASE UNCHANGED vars
  <2>1. /\ UNCHANGED <<gt_, m_roundId, m_serial, fc_, m_groupId, link, lost, m_sentdatapkt,
                       m_recover>>
        /\ out' \o tq_' = out \o tq_
    BY <1>7 DEF vars, encoder, decoder, counters
  <2> QED
    BY <2>1, DeliverParts DEF DeliverInv, Kept
<1> QED
  BY <1>1, <1>2, <1>3, <1>4, <1>5, <1>6, <1>7 DEF Next

\* The initial state satisfies it.
LEMMA InitDelivers ==
  ASSUME Init
  PROVE  DeliverInv
<1>1. /\ gt_ = <<>> /\ tq_ = <<>> /\ out = <<>> /\ link = <<>> /\ lost = {}
      /\ m_sentdatapkt = 0 /\ m_recover = 0
  BY DEF Init
<1>2. GroupsTell(gt_, m_roundId, m_serial, fc_, m_groupId, link, lost, Kept)
  <2>1. \A r, g, k, e : ~GroupEntry(gt_, r, g, k, e)
    BY <1>1 DEF GroupEntry
  <2> QED
    BY <2>1 DEF GroupsTell, GroupsRise, GroupsLast, GroupsTrue
<1>3. out \o tq_ = <<>>
  <2>1. <<>> \in Seq(Packet)
    OBVIOUS
  <2> QED
    BY <1>1, <2>1, ConcatEmptySeq
<1>4. Headers(<<>>) = {} /\ DataHdrs({}) = {}
  BY DEF Headers, DataHdrs
<1>5. Conserved(link, lost, <<>>, 0, 0)
  <2>1. PathRises(link, 0)
    BY <1>1 DEF PathRises
  <2>2. PastBelow(lost, {}, link) /\ LostUnique(lost) /\ Single(<<>>)
    BY <1>1 DEF PastBelow, LostUnique, Single
  <2>3. Complete(link, lost, {}, 0)
    BY <1>1, <1>4 DEF Complete
  <2>4. Cardinality(DataHdrs(lost) \cap {}) = 0
    BY FS_EmptySet
  <2> QED
    BY <1>4, <2>1, <2>2, <2>3, <2>4 DEF Conserved
<1> QED
  BY <1>1, <1>2, <1>3, <1>5 DEF DeliverInv

\* What is held and what was forwarded, as one sequence.
LEMMA KeptParts ==
  ASSUME IInv
  PROVE  Kept = Held \cup Forwarded
<1>1. out \in Seq(Packet) /\ tq_ \in Seq(Packet)
  BY QueuesNow
<1>2. Headers(out \o tq_) = Headers(out) \cup Headers(tq_)
  BY <1>1, JoinHeaders
<1> QED
  BY <1>2 DEF Kept, Held, Forwarded

\* The invariant says what Conservation does.
LEMMA DeliveredConserves ==
  ASSUME IInv, DeliverInv
  PROVE  Conservation
<1> DEFINE s == out \o tq_
<1>1. /\ PathRises(link, m_sentdatapkt) /\ PastBelow(lost, Kept, link)
      /\ Complete(link, lost, Kept, m_sentdatapkt) /\ Single(s)
      /\ Cardinality(DataHdrs(lost) \cap Kept) = m_recover
  BY DEF DeliverInv, Conserved, Kept
<1>2. Kept = Held \cup Forwarded /\ DataHdrs(lost) = LostData
  BY KeptParts DEF DataHdrs, LostData, LostPackets
<1>3. InFlight \cup LostData \cup Held \cup Forwarded = 1 .. m_sentdatapkt
  BY <1>1, <1>2 DEF Complete, InFlight
<1>4. InFlight \cap (LostData \cup Held \cup Forwarded) = {}
  <2> SUFFICES ASSUME NEW h, h \in InFlight, h \in DataHdrs(lost) \cup Kept
               PROVE  FALSE
    BY <1>2
  <2>1. PICK m \in 1 .. Len(link) : h # 0 /\ link[m].hdr = h
    BY QueuesNow, HeaderOf DEF InFlight
  <2>2. link[m].type = DATA /\ h \in 1 .. m_sentdatapkt
    BY <1>1, <2>1 DEF PathRises
  <2>3. h < h
    BY <1>1, <2>1, <2>2 DEF PastBelow
  <2> QED
    BY <2>2, <2>3, QueuesNow
<1>5. s \in Seq(Packet) /\ DOMAIN s = 1 .. Len(s)
  BY QueuesNow, LenProperties
<1>6. Cardinality(Recovered) = m_recover
  <2>1. Recovered = DataHdrs(lost) \cap Kept
    BY <1>2 DEF Recovered
  <2> QED
    BY <1>1, <2>1
<1> HIDE DEF s
<1>7. \A i, j \in DOMAIN s : s[i].type # NONE /\ s[j].type # NONE =>
        s[i].hdr # 0 /\ (i # j => s[i].hdr # s[j].hdr)
  BY <1>1, <1>5 DEF Single
<1> QED
  BY <1>3, <1>4, <1>6, <1>7 DEF Conservation, s

\* The decoder neither drops nor copies a packet: every data packet that was
\* sent is on the path, lost, held or forwarded, one of these only unless it was
\* lost and rebuilt, and m_recover counts the packets that were.
THEOREM PacketsConserved == Spec => []Conservation
<1>1. IInv /\ AskInv /\ LossInv /\ DeliverInv /\ [Next]_vars
        => IInv' /\ AskInv' /\ LossInv' /\ DeliverInv'
  BY NextKeeps, NextAsks, NextCounts, NextDelivers
<1>2. Init => IInv /\ AskInv /\ LossInv /\ DeliverInv
  BY InitHolds, InitAsks, InitCounts, InitDelivers
<1>3. IInv /\ DeliverInv => Conservation
  BY DeliveredConserves
<1> QED
  BY <1>1, <1>2, <1>3, PTL DEF Spec
=============================================================================
