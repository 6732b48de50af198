# Verification of packet-level FEC in ns-3.35-fec

The repository is ns-3.35 extended with forward error correction for TCP flows
(`contrib/fec`, hooks in `src/internet/model/tcp-socket-base.cc`, simulations in
`scratch/`). One redundant packet protects a *group* of data packets: if exactly
one packet of the group is lost, it is rebuilt. The packets are simulated, so
"rebuilding" means putting the remembered headers on the redundant packet; what
can be wrong is the bookkeeping that decides *which* packet is missing, *when* to
give up, and *in what order* packets continue. That bookkeeping is what this
project models.

## Inventory

| Component | State | Operations | Hard behaviour |
|---|---|---|---|
| Router encoder, `Ipv4L3ProtocolwithFecEncode` | `init_`, `fc_` data packets left in the round, `ic_` redundant packets left | `SendRealOut`, `RedundancyControl`, `SendFecPacket` | the redundant burst `while (fc_ == 0)`; a small packet first |
| `FecRouterAgent`, sending side | `m_serial`, `m_roundId`, `m_groupId`, appends to `rt_` and `gt_` | `CreateDataPacket`, `CreateFecPacket`, `UpdateFecTable` | rotation of groups, end of the round |
| `FecRouterAgent`, receiving side | marks and pops `rt_`, `gt_`; transit queue `tq_`; pending requests `lpq_`; counters | `Recv` = mark round, check round, mark group, check group; `InsertTransitQueue`, `CreateRecoveryPacket`, `LostPacketInfo` | endless searches, `front ()` of empty queues, early returns, unsigned differences |
| Router decoder, `Ipv4L3ProtocolwithFecDecode` | `rid_` | `IpForward`, `SendRxRequest`, `Free`, `Transmit` | packets held with no timer, order of release |
| Path between the routers | packets in flight | deliver, lose | any pattern of losses between two table updates |
| End-to-end agent, `FecAgent` | as above per flow, plus round size `fwin`, `nGroups` chosen from the congestion window | `CreateDataPacket`, `RedundancyControl`, `Reset`, `Recv`, ... | rounds of changing size, retransmissions, `Reset` in mid-round |
| `TcpSocketBase` hooks | `fc`, `ic`, `rec_rid_`, congestion state | `SendDataPacket`, `ForwardUp`, `ReceivedAck`, `EnterRecovery`, `ReTxTimeout` | time-outs racing recovery, ack suppression, 8-bit round ids |
| TCP congestion control, `TcpSocketBase`, `TcpNewReno`, `TcpClassicRecovery` | window, threshold, congestion state, recovery point, duplicate and retry counters | `SendPendingData`, `ReceivedAck`, `ProcessAck`, `ProcessAckofRecoveredPacket`, `DupAck`, `EnterRecovery`, `NewAck`, `ReTxTimeout`, `DelAckTimeout` | lost and late acknowledgements, early time-outs, a window scaled down with no floor |
| `TcpTxBuffer` | sent list with the flags SACKed, lost, retransmitted, and sums beside them | `CopyFromSequence`, `Update`, `UpdateLostCount`, `DiscardUpTo`, `SetSentListLost`, `MarkHeadAsLost`, `NextSeg`, `IsLost` | unsigned sums that must agree with the flags |
| `TcpRxBuffer` | data in sequence, data behind a gap, SACK list | `Add`, `UpdateSackList`, `ClearSackList` | holes filled late and in another order |
| `DefaultSimulatorImpl` | events by time and number, clock, list and flag for other threads, mutex, destroy events | `Schedule...`, `Stop`, `Remove`, `Cancel`, `IsExpired`, `Run`, `Destroy` | threads, a flag read without its mutex, a 32-bit event number |
| Path between the end points | packets in flight | deliver, lose | packets of an abandoned round arriving late |
| `FecTag` | type, serial, round, group, number of groups | get, set, serialise | - |
| Helpers, `scratch/` programs, scripts | none at run time | set-up, statistics | - |
| rest of ns-3, nsc, PyBindGen | | | upstream or third-party |

How they interact. A data packet that leaves the encoder is numbered
(`serial`, restarting at 1 in each round), given the next group in turn, entered
in *both* tables of the agent and sent. After `Fwin * NGroups` data packets the
encoder sends one redundant packet per group in a single event and opens the next
round. The decoder gets the *same* agent object
(`FecRouterAgentHelper::Set`, `fec-router-agent-helper.cc:51`): it finds the
packets it expects in the very lists the encoder is appending to, marks what
arrives, counts what is missing before it, and pops finished rounds. The two run
in different simulator events, with the path's delay between them. Requests go
back to the TCP source as packets of type 5. With `StoreMode` USE, data packets
behind a loss wait in `tq_` until the round is decided, so that TCP does not see
the gap; nothing but later packets ever releases them.

End to end the same happens one layer up. `TcpSocketBase::SendDataPacket` gives
each segment to the connection's `FecAgent`, again one object for both ends
(`FecAgentContainer::Install`); serials are TCP sequence numbers, a round is
sized from the congestion window when it begins (`RedundancyControl`), and
retransmissions (type 3) take part in rounds. `EnterRecovery` and `ReTxTimeout`
call `Reset`: the round is abandoned without redundant packets and a new one is
sized. The receiver's `ForwardUp` holds segments behind a loss in `tq_` so that
no duplicate acknowledgements are sent; a retransmission cancels that for its
round (`ackSendId`).

When the receiver gets a rebuilt segment, its acknowledgement carries the round
number (type 6, `CreateAckPacket`), and the sender answers the first such
acknowledgement of a round with `ProcessAckofRecoveredPacket`, which is
`ProcessAck` with the window multiplied by `RateControlValue` at the end (rate
control: FEC hides a loss from TCP, so TCP is told to slow down all the same). The
window in turn sizes the next round. Everything above runs as events of one
`DefaultSimulatorImpl`; other threads may hand it events
(`ScheduleWithContext`).

What makes each part correct: every search of the decoder ends; no packet is
dropped, copied or reordered by the FEC layer itself; a held packet is released;
a loss is requested once and counted once; what is rebuilt is what was lost. The
sender believes nothing that did not happen, slows down once per window or round
and never below a segment; the event loop loses no event and never turns back the
clock.

The hazards, each at its line with the properties aimed at it, are in
`PROJECT.json`.

## Modules

How the modules fit together:

```
 FecConfig --+-- FecTables -+-- FecRouter     (FecRouterProofs,     --implements--+
             |              |                  FecDeliveryProofs,                 |
             |              |                  FecOrderProofs)                    |
             |              +-- FecEnd        (FecEndProofs)        --implements--+--> FecPath
             |              |                  (FecTablesProofs)                  |
             +-- FecSizing -+                  (FecSizingProofs)                  |
                            +-- TcpCongestion (TcpCongestionProofs) --rests on----+
 TcpTxBuffer, TcpRxBuffer --+
 DefaultSimulator (DefaultSimulatorProofs)
```

**`FecConfig`**, **`FecSizing`**: the attributes of both agents, and the size that
`FecAgent::RedundancyControl` gives a round for a congestion window; shared by
`FecEnd`, where the window is any, and `TcpCongestion`, where it is computed.

**`FecTables`**: the tables and the passes over them, as operators. A table
queue is a sequence of rounds; a round of `rt_` is `[rid, n, pi]`, of `gt_`
`[rid, n, gi]` with a list per group, `n` being `nGroups_`; an entry is `PacketInfo`,
in which `hdr` stands for the kept TCP and IP headers. `WithRound`, `WithGroups`,
`RoundPush` and `GroupPush` are what the sending sides do to the tables, the same
text in both agents; `InsertTransitQueue` and `Closed` what `Free` and `Recv` of both
do with the packets of a group and the round. `MarkRoundFecTable`,
`CheckRoundFecTable`, `MarkGroupFecTable` and `CheckGroupFecTable` are the
methods of the same names, each returning the new table and its results.
`RoundServes` and `GroupServes` say when the code's loops end. A loop over a list
becomes the smallest position at which it stops (`First`), a count the
cardinality of the positions counted (`Missing`). Its last part says how tables and
path belong together (`Recorded`, `Covered`, `Ordered`, `Behind`), for the invariants
of both users.

**`FecRouter`**: encoder, path and decoder, composed on the shared tables.

| Code | Model |
|---|---|
| `SendRealOut`, packet larger than a segment | `SendData` with `CreateDataPacket` |
| `SendRealOut`, any other packet | `SendSmall` |
| one iteration of `while (fc_ == 0)` | `SendFecPacket` with `CreateFecPacket`, `RedundancyControl` |
| queue overflow, corrupted packet | `Lose` (external) |
| `IpForward`, small packet | `IpForwardSmall` |
| `IpForward`, tagged packet: `Free`, `Recv`, `SendRxRequest`, `Free`, forward | `IpForward` with `Recv`, `RecvFlag` |
| `uint32_t fc_ = -1`, before the first round sets it | the integer -1: only compared with 0 |

While `fc_ = 0` no other action is enabled (`Idle`): the burst is one event of
the simulator. `Lose` and `IpForward` take the packet at the head; that a packet
is lost can be seen only by its not arriving, so losing it earlier is the same
behaviour. `lpq_` is filled and emptied within one `IpForward` and is not a
variable. `out`, `lost` and `asked` are history variables: what was forwarded,
what the path lost, and how often each data packet was requested. Data packets
are numbered in the order of the encoder's input, which is their `hdr`; all
flows through the routers share the rounds, so a model needs no flows.

Every round has `NGroups` groups: no code of the router's agent changes
`m_nGroups` once the simulation runs, so its tags carry no copy. A recovery packet's tag leaves the
number of groups unset; nothing reads it afterwards.

**`FecEnd`**: the two ends of a TCP connection and the path between them.

| Code | Model |
|---|---|
| `SendPendingData`, one segment, and `DoRetransmit` of a partial acknowledgement; `SendDataPacket`, `CreateDataPacket` | `SendNew`, `Retransmit`, `RetransmitRule3` with `SendDataPacket` |
| one iteration of `while (fc == 0)` | `SendFecPacket` with `CreateFecPacket` |
| `RedundancyControl` of socket and agent | `RoundSize`, `RedundancyControl`, `Sized` (one result per window) |
| `DupAck` to `EnterRecovery`: mark lost, `Reset`, new round, `DoRetransmit` | `EnterRecovery` |
| `ReTxTimeout`: mark all lost, `Reset`, new round, first retransmission | `ReTxTimeout` |
| any other acknowledgement | `ReceivedAck` |
| queue overflow, corrupted packet | `Lose` (external) |
| `ForwardUp`: `Free`, `Recv`, `Free`, `ReForwardUp`, to TCP | `ForwardUp` with `Recv`, `RecvFlag` |

The sending side of the agent is passed through its methods as a record
(`Fec`), so that an action is the composition of the calls the code makes.
Of TCP the model keeps what drives FEC: the segments marked lost (`rexmit`) and
already retransmitted (`retrans`), the recovery point and whether it is that of fast
recovery (`fast`), what the receiver has (`rcvd`), and what is acknowledged (`una`).
The three rules of `NextSeg` are three actions: what is marked lost is sent again
(`Retransmit`), then new data is sent (`SendNew`), then, in fast recovery, what is
neither SACKed nor sent again (`RetransmitRule3`). The congestion window is an input
from `Windows` whenever a round is sized, and how many segments `SendPendingData`
sends in one go is left open, so every sequence of windows in `Windows` is covered.
What TCP does is simplified in three places:

- acknowledgements carry the receiver's SACK state of the moment they are processed; a
  lost or late one is one that is not, or not yet, taken. So no segment is sent again
  because of a SACK block that is out of date;
- fast recovery begins when the SACK count says that a segment is lost (`SackLost`). That
  the third duplicate can come before the count, and `MarkHeadAsLost` then marks the
  head, is in `TcpCongestion` only;
- all segments are full.

`Seq1` spaces the segments so
that the serials of the redundant packets, the last segment's plus one onwards,
fall between two segments, as bytes do. `m_dataRetrCount`, which drops a connection after several time-outs without progress, is left out:
the bounded losses stay below it.

**`FecPath`**: the abstract specification of FEC over a lossy path, as TCP sees
it: segments arrive in the order in which they were sent; a lost one may still
arrive, when its round is complete and no segment of a later round has arrived; a
lost retransmission stays lost. `FecRouter` and `FecEnd` implement it
(`ImplementsFecPath`). In both, `wire` is what is held followed by what is on the
path, the data segments of it (`OnPath`): a packet that waits in the transit queue
is still at the front of `wire`, so holding is a stutter and a release is one delivery of several
segments; `gap` is what was lost and not rebuilt, without retransmissions and
without rounds that are over. `TcpCongestion` contains no tables; its path is
shown to be a `FecPath` too (`RestsOnFecPath`), so what it shows about congestion
control is not owed to a better FEC than there is.

**`TcpTxBuffer`**, **`TcpRxBuffer`**: the two buffers as records with one operator
per method. Data is counted in full segments. The sums `sackedOut`, `lostOut` and
`retransOut` are kept beside the flags as the class does, so that they can disagree.
`Update` takes all blocks of a SACK option at once: what they newly report is a set,
and only the highest SACKed item depends on their order (`HighestAfter`, one
`HighestSack` per block).

**`TcpCongestion`**: sender, receiver and path with the window in bytes.

| Code | Model |
|---|---|
| one iteration of `SendPendingData` | `SendPendingData` with `SendDataPacket`, `CopyFromSequence` |
| `ReceivedAck`, `ProcessAck`, `ProcessAckofRecoveredPacket` | `ReceivedAck` with `Update`, `DiscardUpTo`, `ProcessAck` (`rate` for the second) |
| `DupAck`, `EnterRecovery`, `DoRetransmit` | the same |
| partial acknowledgement; `CA_LOSS`; any other | `PartialAck`; `IncreaseWindow` alone; `OpenAck` |
| `TcpNewReno::IncreaseWindow`, `GetSsThresh`; `TcpClassicRecovery` | `IncreaseWindow`, `GetSsThresh`; `LeaveRecovery` |
| `ReTxTimeout`, with the end of the connection | `ReTxTimeout` with `AfterTimeout` |
| `ReceivedData`, `DelAckTimeout` | the same |
| `ForwardUp`; `ReForwardUp` of a rebuilt segment | `Deliver`; `Rebuild` |
| loss of a segment, of an acknowledgement | `Lose`, `LoseAck` (external) |

`SendPendingData` is a loop within an event, so nothing else happens while
`sending` (`Idle`). The floating `RateControlValue` is the fraction
`RateNum / RateDen`, truncated as the assignment to the unsigned window does. The
two branches of `ProcessAckofRecoveredPacket` that differ from `ProcessAck` are
one parameter, as the rest of the two functions is the same text. `Rebuild` delivers
a lost segment and forgets what was lost in earlier rounds, as the tables of the agent
do (`FecPath`). With
`TcpClassicRecovery` the inflated window is not used for sending and is left out.

**`DefaultSimulator`**: the event loop. An event is the number of the call that
made it; what it does is any sequence of calls, between `ProcessOneEvent` and
`Return`. A call of `ScheduleWithContext` by another thread is two steps,
`HandOver` (enter the critical section, append) and `Unlock` (lower the flag,
leave it), and `ProcessEventsWithContext` two, `ReadFlag` without the mutex and
`Swap` with it. The race on the flag is modelled as a read that sees either
value: the flag is a `bool`, read after a virtual call and written before an
unlock, so no other value and no delay beyond the unlock can be produced. The
events of the swapped list are inserted in the same step, because only the main
thread touches the scheduler. Threads are joined before `Destroy`, as the users of
`ScheduleWithContext` do. `made` and `ran` are history variables.

**`FecRouterProofs`**, **`FecDeliveryProofs`**, **`FecOrderProofs`**, **`FecEndProofs`**,
**`TcpCongestionProofs`**, **`DefaultSimulatorProofs`**: the theorems. **`FecTablesProofs`**,
**`FecSizingProofs`**: lemmas about the operators of the tables and of the round size,
which the theorems about the modules using them cite.

Mutated forms of definitions (for instance `PopThrough` before `PopBelow`) stand
directly before the definition they are a plausible slip of; each property is
violated when the slip is put in place. They are used by nothing else.

## Runs

| Run | Instance | Checks |
|---|---|---|
| `router_2g` | 2 groups of 2, 8 data packets, 1 small packet, store mode and requests on, fair | `TypeOK`, `TablesCoverPath`, `SearchesEnd`, `Conservation`, `RequestedOnce`, `LossesCounted`, `RecoveryExact`, `HeldReleased`, `ImplementsFecPath`; 82,999 states |
| `router_3g` | 3 groups of 1, 7 data packets | `InOrder`, `RecoveryExact`; 27,032 states |
| `router_disuse` | as `router_2g`, store mode and requests off | `Conservation`; 96,812 states |
| `end_static` | Static, IN, 2 groups of 2, windows 4 and 6, 5 segments, 2 losses, fair | `SearchesEnd`, `Conservation`, `HeldNotOvertaken`, `RebuiltWasLost`, `AllAcknowledged`, `ImplementsFecPath`; 224,923 states |
| `end_dynamic` | Dynamic, OUT, 2 groups, windows 1 and 4, 4 segments, 2 losses | `RoundShape`, `LossesNotOvercounted`; 618,769 states |
| `end_timeout` | Dynamic, IN, Fmax 2, windows 5 and 8, 4 segments, 2 losses, one early time-out | `SearchesEnd`, `ImplementsFecPath`; 205,480 states |
| `end_lost_counter` | as `end_static` with 4 segments, safety only | `LostIsNumberOfLostPackets`, violated: finding 4 below |
| `tcp_sack` | 6 segments, `InitialCwnd` 4, 3 losses, 2 lost acknowledgements, 2 early time-outs, 2 retries | `ScoreboardConsistent`, `ScoreboardTruthful`, `SackListExact`, `CongestionStates`, `DroppedOnlyForLosses`, `OneRecoveryPerWindow`; 3,510,426 states |
| `tcp_rate` | 7 segments of 7 bytes, `InitialCwnd` 2, threshold 4 segments, factor 1/2, round numbers of 2 bits, delayed acknowledgements, 4 losses, fair | `WindowCoversSegment`, `NeverIdleWithData`, `SlowedOncePerRound`, `RestsOnFecPath`, `AllAcknowledged`; 1,497,993 states |
| `tcp_loss_recovery`, `tcp_ssthresh` | small instances | one property each, violated: findings 9 and 10 |
| `sim_queue` | 2 threads besides the main one, delays 0 and 1, 3 events, 2 calls of `Run`, fair | `Causal`, `CountExact`, `ExpiredExact`, `HandOverSeen`, `DueOnTime`, `CallerFifo`, `HandedOverRuns`; 1,138,686 states |

All but the ones marked violated pass. What the properties say:

- `SearchesEnd`: the packet about to be handled by the decoder has its round and
  its entry where the code looks for it. Otherwise the simulator hangs
  (`fec-router-agent.cc:311`) or reads the front of an empty queue (302).
- `TablesCoverPath`: the inductive form of it, see below.
- `Conservation`: every data packet is in exactly one place - on the path, lost,
  held, forwarded - except that a lost one may have been rebuilt; none twice.
- `InOrder`: with store mode, forwarded packets followed by held packets are in
  the order of the input. Rebuilt packets fit into their gaps.
- `RequestedOnce`: requests only for packets really lost, never two for one.
- `LossesCounted`: the counters written to the traces are exact for closed rounds.
- `RecoveryExact`: the exact set of losses FEC repairs.
- `HeldReleased`: held packets get out.

End to end:

- `SearchesEnd`: as above, although rounds change their number of groups, are
  abandoned, and contain the same segment twice.
- `Conservation`: a segment sent is on the path, lost, held or with TCP; a
  segment that TCP has was sent.
- `HeldNotOvertaken`: while a segment is held, TCP gets none sent after it.
- `RebuiltWasLost`: what is rebuilt was lost, in that round and group, unless the round
  lost more first transmissions than it has groups (8 below).
- `RoundShape`: rounds have packets, and a burst covers each group once.
- `LossesNotOvercounted`: the counters count no packet that arrived.
- `AllAcknowledged`: TCP over FEC is still reliable.
- `ImplementsFecPath`: what TCP gets is explained by `FecPath`.

Congestion control:

- `ScoreboardConsistent`: the sums of `TcpTxBuffer` are those of its flags, nothing
  is both SACKed and lost, the head is not SACKed (the class asserts parts of it).
- `ScoreboardTruthful`: what the sender takes for received was received.
- `SackListExact`: the receiver's blocks are exactly the data behind a gap.
- `CongestionStates`: a recovery point is active in `CA_RECOVERY` and `CA_LOSS` and
  only there, and is not acknowledged while it is; the duplicate counter fits.
- `OneRecoveryPerWindow`: one window of data cuts the window once.
- `DroppedOnlyForLosses`: a connection is given up for a run of faults, not for
  faults with progress between them: as many as there are retries, all since `una` last
  advanced (`faults` counts losses, lost acknowledgements and early time-outs from there).
- `WindowCoversSegment`, `NeverIdleWithData`: rate control leaves a segment of
  window, every FEC round has a packet, and the sender does not stop with nothing
  outstanding.
- `SlowedOncePerRound`: a round slows the sender at most once.
- `AllAcknowledged`: as above, with the real window and lost acknowledgements.

Event loop:

- `Causal`, `CountExact`: the two assertions of the class.
- `ExpiredExact`: `IsExpired` says whether the event will still run.
- `HandOverSeen`, `HandedOverRuns`: no hand-over by a thread is missed, and what was
  handed over before the main thread looks runs, unless it is stopped.
- `DueOnTime`, `CallerFifo`: no event is early, and the events of one caller keep
  their order.

Three results a user of the code may not expect, all in the statements above and
found by making them exact:

1. The redundant packet of the *last* group of a round pops the round in
   `CheckRoundFecTable` (line 378) before the group table is consulted, so
   `MarkGroupFecTable` returns at its first test and the group is not examined.
   A loss in the last group is never repaired; with `NumberofGroups` 1, the
   default and one of the values in `simulation-fec-router.sh`, the router
   variant repairs nothing. No document says otherwise, so this is stated in
   `RecoveryExact` and not as a finding.
2. The round's last data packet is outside the loss count (`serial_ < fwin` with
   serials from 1, line 364): it is never requested and does not count towards
   giving up.
3. The transit queue has no timer. If the path loses the redundant packet that
   closes a round and then everything after it, held packets stay. `HeldReleased`
   excludes exactly that case.

End to end, besides:

4. Finding (`end_lost_counter`): the counter printed as `lost`, "Number of lost
   packets" (`fec-agent.cc:773`, `memo.md:48`), leaves out every lost
   retransmission, because a retransmission's entry is marked as received when it
   is made (line 134). For the same reason a retransmission is never rebuilt and
   `m_recover_rexmit` stays 0.
5. A retransmission that lands in the round and group of its original marks the
   original's entry, which comes first: the lost original is then not counted
   either. `LossesNotOvercounted` is therefore an inequality.
6. A rebuilt segment may reach TCP after segments that were sent later: once a
   retransmission has cancelled suppression, those have gone on.
7. `Recv` (382, 383) compares with the configured number of groups. The redundant
   packet of a round that fell back to one group does not release the transit
   queue; the next round or the sender's timer does. As between routers, the
   redundant packet of the last group rebuilds nothing, so such a round repairs
   nothing.
8. FEC may rebuild a segment that arrived. `Recv` returns before it marks the group
   table while it sees more losses than the round has groups (364). Retransmissions in
   the same round may then mark the entries of lost segments in the round table, which
   brings the count below that, and the group's redundant packet finds one entry
   unmarked: that of a segment that arrived meanwhile. It is rebuilt, counted in
   `m_recover` and given to TCP again. This needs three losses; TLC finds it with
   windows of 12 segments, `Fwin` 5, 7 segments and 3 losses (27 steps).
   `RebuiltWasLost` states the exception, so no property forbids this, nor does a
   document; the instances of the runs do not reach it, and `Conservation` and `FecPath`,
   which see what TCP has as a set, could not tell it. It is hazard 20 of `PROJECT.json`,
   listed there without a property.

Congestion control:

9. Finding (`tcp_loss_recovery`): `DupAck` (`tcp-socket-base.cc:1778`) asks whether
   the *second* segment above the acknowledgement is lost, where its comment, and
   RFC 6675, ask about the first. If acknowledgements are lost, the head is marked
   lost and sent again without fast recovery: the window is not reduced.
10. Finding (`tcp_ssthresh`): `ReTxTimeout` asks `IsHeadRetransmitted` after it has
   cleared the flags, so every time-out lowers the threshold.
11. No run: a retransmitted segment that is SACKed keeps `m_retrans` and is still
    counted as in flight (`tcp-tx-buffer.h:79-80` leaves SACKed segments out); and a
    segment right below the highest SACKed one replaces it as `m_highestSack`
    (`tcp-tx-buffer.cc:835`). Both are modelled as the code does them
    (`BytesInFlight`, `HighestSack`); the properties above hold all the same.

    The window stays at a segment only under two conditions, both assumptions of the
    module: `RateControlValue` at least 1/2 and `InitialCwnd` at least 2, which the
    simulations keep. With less the window can fall below a segment, `fwin` becomes 0
    and `while (fc == 0)` of `SendDataPacket` never ends. And rate control stops for
    good once `rec_rid_`, a `uint32_t`, holds 255: no 8-bit round id is larger.

Event loop:

Three limits of its documentation, modelled as the code does them, none with a run:

12. Events of one time are ordered by a 32-bit number (`scheduler.h:171`); when it
    wraps around, a new event overtakes those that wait (`simulator.h:58-62` promises
    the order of insertion). `NoWrap` below excludes it.
13. An event for the stop time itself, made before `Stop (delay)` was called, runs
    (`default-simulator-impl.cc:223`; `simulator.h:161-163`).
14. `Run` may return with an event handed over by a thread still in the list
    (`default-simulator-impl.cc:202`; `simulator.h:139-140`); the next `Run` takes it,
    `Destroy` drops it. `HandedOverRuns` therefore speaks of what is handed over
    before the main thread looks.

Bounds. Two groups are the least with a group that can be repaired (not the
last) and one that cannot; `Fwin = 2` gives groups with one and with two losses,
and rounds with more than `NGroups` losses, the give-up case. 8 data packets are
two full rounds with their bursts, so rounds are closed by their redundant
packet, by a packet of the next round, and both tables are popped. Three groups
add two rebuilt packets in one burst and the insertion between held ones; 7
packets reach a third round. The small packet covers the first-packet case and
overtaking. `MaxData` and `MaxSmall` bound the sources only. End to end, windows are chosen on both
sides of the threshold `Fwin * NGroups + NGroups` at which a round falls back to
one group (and below the number of groups in `end_dynamic`), 5 segments are a
round of 4 and the beginning of the next (4 in `end_dynamic`, where rounds have 1 or 4
segments), 2 losses the loss of a segment and of
its redundant packet or its retransmission. `ReTxThresh` is 1 instead of 3 so
that fast recovery happens within that. `MaxSpurious` bounds time-outs while
packets are under way, `MaxSeg` and `MaxLoss` the application and the path.
`CHECK_DEADLOCK` is
off because a run ends when the sources stop and the path is empty; that the
decoder is not stuck earlier is `SearchesEnd`.

Fairness (`router_2g`). `WF(SendFecPacket)` and `WF(Deliver)`: the simulator
runs every scheduled event, so a loop goes on and a packet on the path arrives or
is lost. Nothing is assumed about which of the two. `WF(SendData)`: the sources
of the simulations are bulk senders (`BulkSendHelper`), which always have another
packet up to the bound; `MaxData` is a multiple of a round there, so that the
last round is completed.

Fairness (`end_static`). The same, with `WF(ReceivedAck)` (the receiver
acknowledges what it gets, and acknowledgements are not lost for ever) and
`WF(ReTxTimeout)` (the timer is rescheduled with every segment sent while none is
pending). Delivery is left to `Lose` or `ForwardUp`; its weak fairness is written
out with the guard `CanDeliver`, which is the enabling condition of the two, and
keeps TLC from evaluating `ForwardUp` to decide it. `MaxLoss` is what makes the
path eventually deliver. Neither fast recovery nor an early time-out is assumed
to happen.

Bounds (`tcp_*`). 6 segments with an initial window of 4 are a window with three
SACKed segments above a hole (`ReTxThresh` 3), the
recovery point and data beyond it. 3 or 4 losses allow the loss of a segment, of
its retransmission and of another one, and with `RidWidth` 2 the rounds of
`tcp_rate` pass the width of the round number. Slow start up to 4 segments gives
rounds in which two losses are rebuilt and acknowledged one by one. The odd segment size there makes
truncation visible: the window reaches exactly one segment. Counters `MaxLoss`,
`MaxAckLoss`, `MaxSpurious` bound the path and early time-outs; the timer is not
bounded otherwise.

Bounds (`sim_queue`). Three events are one that moves the clock between two hand-overs
of one thread, or two in the list at once and one running. Two calls of `Run` show
what a stop leaves for the next. `UidWidth` is 4 bits, and the few numbers given
from 4 on do not wrap.

Fairness (`tcp_rate`). The simulator runs every event: `SendPendingData` ends,
what is under way arrives or is lost, acknowledgements too, and both timers expire.
Each assumption is weak fairness written out as "infinitely often disabled or
infinitely often taken", with the enabling condition given. No fairness is assumed of
`Rebuild` or of early time-outs; the bounds on losses make the path deliver in
the end.

Fairness (`sim_queue`). Weak fairness of the main thread within `Run` (the operating
system runs it, and an event returns) and of a thread inside its critical section.
Threads need not call at all. Because `MaxEvents` bounds the calls, an endless
sequence of events without delay, which would keep the clock from moving, is not
among the behaviours.

## Proofs

`FecRouterProofs` proves, for every `Fwin >= 1`, every `NGroups` in 1..255, both
modes and every bound:

- `TypeCorrect`: `Spec => []TypeOK`,
- `TablesAlwaysCoverPath`: `Spec => []TablesCoverPath`,
- `SearchesAlwaysEnd`: `Spec => []SearchesEnd`.

`SearchesEnd` is not inductive: it speaks of the head of the path, and what makes
the next head searchable is that the one before popped no more than it may. The
inductive invariant is `TypeOK /\ TablesCoverPath`:

- `Consecutive`: the rounds of each table are consecutive and end with the one
  being sent, so the round of a packet is found by its distance from the end
  (`Index`), whatever was popped in front;
- `Covered`: each packet on the path has an entry in its round and its group;
- `Ordered`, `Behind`: packets are in the order of rounds, and behind a
  group's redundant packet come only later groups or rounds. It is this that
  allows `CheckGroupFecTable` to clear a group and `CheckRoundFecTable` to pop a
  round without stranding a packet;
- `Burst`: `fc_ + m_groupId` is a multiple of `NGroups`, so the group counter is
  0 when the burst begins, the burst meets each group once, and its last packet is
  the one after which the next round is opened. Without it the decoder could pop
  the only round.

`FecTablesProofs` has a lemma for each table pass (what it returns keeps types, keeps
the rounds consecutive and keeps the entries of the packets still to come), for rounds
of any number of groups; `FecRouterProofs` then has one per action. It uses only the
assumptions of `FecTables` and `FecRouter`.

It goes on to `RequestsOnlyOnce`: `Spec => []RequestedOnce`. That a
requested packet is lost cannot be seen from the step that requests it: the decoder
only finds an entry without `check_`. The invariant `AskInv` says what that means:

- `Traced`: the packet of an unmarked entry is lost or still under way, at the place
  its round and serial say;
- `InSerialOrder`, `Serialled`, `NextSerial`: packets of a round are on the path in the
  order of their serials, and serials are positions in the list. So when a data packet
  arrives, nothing with a smaller serial is still under way, and what the loop of
  `CheckRoundFecTable` finds unmarked before it is lost;
- `FlagsTell`, `Distinct`: `flag_` of the one entry with a header is set exactly when
  that packet was requested, so that the second data packet to find the same gap does
  not request it again. A round that is popped takes its flags with it, and its packets
  are in no other list.

It needs the first invariant as well: the passes mark the right entry only because the
searches end at it.

The same module proves `LossesAlwaysCounted`: `Spec => []LossesCounted`. The counters
grow when `PrintRoundFecTable` walks the rounds that are popped, long after the packets
were lost, and count entries, not packets. `LossInv` adds to `AskInv` the correspondence
of the two, `Accounted`:

- `LossesOpen`: a lost packet of a round still in the table has an unmarked entry, with
  its serial, group, type and header;
- `PathOpen`: so has a packet on the path, which is not among the lost;
- `OpenOut`: every unmarked entry is that of a packet lost or on the path.

When a round is popped, what is behind the packet that closes it is of later rounds
(`OthersFollow`, from `Ordered`: the closing packet is the redundant one of the last
group), and when rounds before the packet's own are popped, what is behind it is at
least of its own. So no unmarked entry of the popped rounds is on the path, and they are
in one-to-one correspondence with the losses of those rounds (`PoppedLosses`), by which
the counters have to grow.

TLC checked `AskInv` and `Accounted` on the instance of `router_2g` before they were
proved.

`FecDeliveryProofs` proves `PacketsConserved`: `Spec => []Conservation`. Its hard part is
the rebuilt packet: `CheckGroupFecTable` rebuilds the one unmarked entry of a group and
never looks at what was received, and the two tables are marked by different passes. If a
packet that had arrived were still unmarked in the group table, it would be delivered
twice. `DeliverInv` adds to `IInv`, `AskInv` and `LossInv`:

- `GroupsTrue`: an unmarked data entry of a group belongs to a packet that is on the path,
  or is lost and neither held nor forwarded, or to a round that is given up (`GivenUp`:
  more than `NGroups` lost, the last data packet not counted). `Recv` then leaves the
  group table as it is, and it stays wrong for that round;
- `GroupsRise`, `GroupsLast`: entries of a group are in the order of serials and its
  redundant packet comes last, so when that one is at the head of the path no data packet
  of the group is behind it: the unmarked entry is of a lost packet, not rebuilt before;
- `Conserved`: headers on the path rise and are above all that have left it
  (`PathRises`, `PastBelow`), what is held and forwarded has headers of its own (`Single`),
  and the four places together have all of them (`Complete`).

That `GivenUp` is what `Recv` sees takes a comparison of `sumlost`, a number of table
entries, with a number of lost packets, in both directions: when a data packet arrives,
each unmarked entry before its own is of a lost packet (`OpenBeforeAreLost`), and when a
redundant one arrives, each lost packet of the round has an unmarked entry
(`LostAreOpen`), each by an injection. So a round once given up is given up at each of its
later redundant packets, and nothing is rebuilt from its stale group entries. TLC checked
`DeliverInv` on the instances of the three runs first.

`FecOrderProofs` proves `OrderKept`: `Spec => []InOrder`. The transit queue is sorted by
serial, and what `Recv` rebuilds goes into it; nothing in the code compares it with what
has been forwarded already. So a lost packet that can still be rebuilt must be behind all
that was forwarded. Two invariants say why it is:

- `NumberInv`: headers are in the order of rounds and, within a round, of serials
  (`Numbered`), redundant packets have serials behind those of the data packets, and the
  encoder's counters agree on the next number (`Countdown`);
- `HeldInv`: what is held is of the round `rid_`, and nothing is held unless some data
  packet of that round is lost; what is forwarded and then held rises; and as long as the
  round is in the round table and not given up, a lost packet of it that was not rebuilt
  has a larger header than all that is forwarded (`Repairable`).

What a step of the decoder does to these depends on why `Recv` gave its answer
(`RecvDecides`). It holds a data packet only if one of its round was lost before it, and
forwards one at once only if none was: `HeadCounts` compares `sumlost` with the losses.
It releases the queue only when the packet has closed the round or when the round is given
up, for which `nlost`, the losses of one group, is no more than those of the round
(`MissingAreLost`). TLC checked `NumberInv` and `HeldInv` on the instances of `router_2g`
and `router_3g` first.

It also proves the refinement, `RouterImplementsFecPath`: `Spec => ImplementsFecPath`, from
the same invariants and those of the other router theorems. With `Wire` and `Gap` for what
`FecPath`'s `wire` and `gap` stand for (`NextImplements`):

- the encoder's steps append a packet of the current round, or nothing when it is
  redundant or small: `Send` (`SendsPacket`, `WireGrows`);
- `Lose` is `Lose` for a data packet, which then is in the gap, because its round is not
  behind `rid_` (`HeldInv`) and it has not been forwarded (`DeliverInv`); for any other
  packet nothing changes (`LoseIsLose`);
- both `IpForward` are `Deliver` (`ForwardIsDeliver`). What is forwarded, whether it was
  released because of a new round, released by `Recv`'s answer or is the packet itself,
  takes its data packets from the front of the wire in order, and inserting a rebuilt
  packet does not change what is on the wire (`DataMoves`, `RedundantMoves`,
  `OnPathInserted`). The rebuilt ones among it are in the gap (`Deliverable`): lost, of a
  round that is complete and not behind `rid_`, and not forwarded before.

`OnPath` is a recursive function, so that what it does to `Append` and `\o` could be
proved from a list that exists and is unique (`CollectsExists`, `CollectsOnPath`).

`FecEndProofs` proves, for both FEC modes, both bound modes, every `Fwin`, `NGroups`,
`Fmax`, every set of windows of at least a segment, and every bound:

- `RoundsKeepShape`: `Spec => []RoundShape`,
- `EndSearchesEnd`: `Spec => []SearchesEnd`,
- `EndConserves`: `Spec => []Conservation`,
- `EndLossesNotOvercounted`: `Spec => []LossesNotOvercounted`,
- `EndHeldNotOvertaken`: `Spec => []HeldNotOvertaken`.

For the first, `RoundSizeShape` (`FecSizingProofs`) shows for each
of the five branches of `RedundancyControl` that a round is a positive multiple of its
number of groups; `TurnStep`, that one packet leaves a whole number of turns. The
invariant `ShapeInv` adds to `RoundShape` only types and that the group counter is
0 before the first round. `WindowsAssumption` (no window of 0 segments) is what
the argument rests on: with 0 the round is empty and `while (fc == 0)` never ends.

`EndSearchesEnd` and `EndConserves` follow from `EndInv`, which is `ShapeInv` and `PathInv`. TLC checked it
on the instances of `end_static`, `end_dynamic` and `end_timeout` before it was proved.

- `TablesInv`: before the first packet the tables are empty; from then on they are
  `Tracked`: rounds consecutive and ending with the one being sent, every packet on the
  path recorded, path in the order of rounds, behind a redundant packet only later groups
  or rounds. Every packet's group is below the `nGroups_` of *its* round, so nothing of
  a round follows the redundant packet that closes it, although sizes vary. `Reset` in
  the middle of a round leaves it unfinished and opens the next: the round is then
  popped by a packet of a later one;
- `HdrsInv`: segments in the tables, on the path or held have been sent. What is
  rebuilt takes its header from the table, and without this it could give TCP a
  segment that nobody sent;
- `Conservation` itself. Lost segments stay in `lost`, so the only steps that can break
  it are those of `ForwardUp`: the packet taken off the path, the held ones released
  and the rebuilt ones inserted (`InsertTransitQueue`) must account for each other.

`EndLossesNotOvercounted` needs the round table to be a ledger of what has not arrived
(`RoundLedger` over `Out`, the packets lost and on the path):

- `UnmarkedOut`: an entry without `check_` stands for a packet in `Out`, with its round,
  serial, group and kind; `BurstNoted`: a redundant packet in `Out` has such an entry until
  its round is popped. (A first transmission need not have one: its retransmission may
  have marked it, result 5. Hence the inequality for data.)
- `LaterMarked`: of two entries that the search cannot tell apart the later one is marked,
  so that the search, which stops at the first, marks the one that stands for the packet;
- `EntriesShape`, `OutShape`: a redundant packet's serial is no segment's (`BurstSerial`
  from `SerialFollows`), so neither is taken for the other; `DataRises`, `Ordered`,
  `Behind`, `BurstEntries`: what a round still awaits is behind all that has arrived.

When `Recv` pops rounds, their unmarked entries are those of packets lost, none still on
the path (`PoppedIsLost`), each of another packet; `PoppedCount` compares the two sets by
the relation of entry and packet (`CountAlong`), and `CountedInv` adds up. TLC checked the
ledger on the three instances, and on the larger one of result 8, before it was proved.

`EndHeldNotOvertaken` holds for every number of early time-outs, of which the runs check
it without any (`end_static`); the retransmissions they cause are what could overtake.
`OvertakeInv` says why they do not:

- `OrderInv`: first transmissions are sent in the order of their segments, round by round
  (`SendOrder`), so a first transmission still on the path is above all that has arrived;
- `HeldInv`: a first transmission that is held is of the round `rid_`, TCP has nothing
  above it, and as long as its round is in the round table an unmarked entry of that round
  is before its own (`KeptBack`). That entry makes `Recv` keep every later first
  transmission of the round too. The other packets that arrive cannot overtake: a
  retransmission is always answered with 2, by which what is held goes first
  (`ackSendId`), a redundant packet brings no segment of its own, and a packet of a later
  round releases the queue before it is looked at (`rid_`).

`TcpCongestionProofs` proves, for every number of segments, segment size, initial
window of at least two segments, rate factor of at least a half, threshold, FEC mode
and bound on losses, lost acknowledgements and early time-outs:

- `ScoreboardAlwaysConsistent`, `ScoreboardAlwaysTruthful`, `CongestionStatesKept`,
  `WindowAlwaysCoversSegment`, `SenderNeverIdle`: the invariants of the same names in
  the runs;
- `RecoveryOncePerWindow`: the action property `OneRecoveryPerWindow`;
- `RateCutOncePerRound`: `SlowedOncePerRound`;
- `PathIsFecPath`: `Spec => RestsOnFecPath`, the refinement.

None of the first six is inductive alone; they follow from one invariant, `TcpInv`,
which TLC has checked on the instances of both runs:

- `SenderSound`: the scoreboard is consistent (`TxSound`), and the window survives the
  next cut: it has a segment, it has two in `CA_LOSS`, and in `CA_RECOVERY` the
  threshold that will become it has two (`WindowSound`). A cut by half without an
  increase before it happens only there;
- `Settled`: `CongestionStates`, and outside recovery the recovery point of the last
  one is acknowledged, which is `OneRecoveryPerWindow` in advance;
- `ReceiverSound`: blocks of the SACK list lie in what was received, behind a gap;
- `AcksSound`: acknowledgements under way are in order, none is below what the sender
  has, and none reports a segment that it or a *later one* asks for. This is why the
  head is never SACKed although acknowledgements are lost and late, and why the first
  one is never stale: `DiscardUpTo` and `Update` on it meet the assumptions of the
  class;
- `PathSound`, `ScoreboardTruthful`, `NeverIdleWithData`.

Its first part has the steps that concern one buffer: each operator keeps
`TxSound` or `RxSound` (sums, flags, highest SACKed item; blocks), under the
conditions the caller meets. `HighestAfter` and `Add` are recursive functions or
choose a maximum; what they return is shown by the least counterexample of a set
(`LeastNat`), which needs no operator parameter.

`SlowedOncePerRound` follows from `RoundsInv`: rounds on the path are in order, what
can be rebuilt belongs to rounds not after them, acknowledgements of rebuilt segments
name rounds in that order too, and every round for which the window was cut is at most
the round kept in `rec_rid_` and is not after any still to be named. The refinement
needs only that the order of `link` is that of the rounds and maps `Lose`, `Rebuild`
and `Deliver` to the steps of `FecPath`, sending to appending, and the rest to stutters.

`DefaultSimulatorProofs` proves, for every set of threads and delays and every
bound:

- `HandOverNotMissed`: `Spec => []HandOverSeen`. The property is inductive as it
  stands; the proof needs that no thread is `Free`.
- `Causality`: `Spec => []Causal`, if the numbers of all events fit into `m_uid`
  (`NoWrap`). `Causal` alone is not inductive: a new event for the current time
  comes after the current one only because its number is larger. `Numbered` adds
  that every number given is below `m_uid`, and that `m_uid` plus the events still
  in the list is 4 plus the events made, which is what keeps the numbers from
  wrapping. Without `NoWrap` it does not hold.
- `CountsExact`, `ExpiryExact`, `DeadlinesKept`, `CallersServedInOrder`, each under
  `NoWrap`. `QueueInv` says that keys identify events, that what clients hold is in the
  scheduler, has run, or was cancelled, and that the list holds calls of threads in
  the order of their making; `TimesInv`, that no event is due later than its delay from
  now, so that an event entered now is after those of the same caller; `OrderInv`,
  that every event made is accounted for and that the order of keys is the order
  promised to callers. All were checked with TLC on `sim_queue` first.

Only model-checked:

- liveness, out of the prover's reach: `HeldReleased`, `AllAcknowledged`,
  `HandedOverRuns`;
- `SackListExact`, which holds of the instance only because there are at most four
  blocks: with more gaps the oldest block is dropped (`tcp-rx-buffer.cc:317-327`). What
  holds in general, that every block is of received data, is in `ReceiverSound`;
- `DroppedOnlyForLosses`, which counts faults along a behaviour;
- of `FecEnd` `RebuiltWasLost` and `ImplementsFecPath`, of `FecRouter` `RecoveryExact`
  (provable in principle; planned below).

## Not modelled, and why

- Of TCP: connection set-up and close (no FEC state; the window is set when the SYN
  is answered), ECN and `CA_CWR` (no queue of the simulations marks), the receiver's
  window (never the limit for a bulk receiver), pacing, Reno without SACK, PRR and the
  other congestion controls (the simulations set `TcpNewReno` and
  `TcpClassicRecovery`), the RTT estimate (time-outs happen at any time).
- Segments that are not full, which `ForwardUp` does not give to `Recv`, and which
  make `TcpTxBuffer` split and merge items.
- Composition of `FecEnd` with `TcpCongestion` in one state space: each is as large as
  TLC can take; `FecPath` is what joins them.
- Of the event loop: contexts, reference counts, `SetScheduler` and the other
  schedulers, which differ in the container and not in the order; the realtime and
  distributed simulators.
- The `Set...Info` methods and `TcpDump` of `FecAgent`: copies for traces.
- The encoder's fragmentation branch (packets above the MTU bypass FEC; segments
  in the simulations are below it), packets without a route, TTL expiry after the
  FEC part of `IpForward`, the rest of the two `Ipv4L3Protocol` copies.
- `m_fwin = 0`, which switches FEC off, and `m_nGroups = 0`, for which the
  encoder's loop cannot end; both excluded by assumption.
- Reordering or duplication on the path: links and queues are FIFO.
- Wrap-around of the 32-bit serials, rounds and counters of FEC.
- `FecTag` serialisation, output streams, set-up programs, scripts, the rest of ns-3.
- The map covers a small share of the repository's lines: nearly all of them are
  upstream ns-3 models (LTE, Wi-Fi, ...), the network stacks vendored with nsc and
  generated bindings, which the FEC work neither changes nor runs.

## Plan

1. Done: `FecTables`, `FecRouter`, `FecEnd`, `FecPath` with its refinements,
   `FecSizing`, `TcpTxBuffer`, `TcpRxBuffer`, `TcpCongestion`, `DefaultSimulator`, and
   the proofs listed above.
2. Proof of `RecoveryExact`: `DeliverInv` shows that what is rebuilt was lost, `HeldInv`
   when it may be; that it is rebuilt whenever it may be is left.
3. Proofs for `FecEnd`: `RebuiltWasLost` and then `ImplementsFecPath`, along the argument
   for `FecRouter`.
