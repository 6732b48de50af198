----------------------- MODULE DefaultSimulatorProofs -----------------------
(***************************************************************************)
(* What is proved of the event loop for every number of threads, events    *)
(* and runs: no hand-over is missed, and as long as the event numbers do   *)
(* not wrap around, the clock never goes back, the count of events is      *)
(* exact, expiry is exact, no event is early and each caller's events run  *)
(* in order.                                                               *)
(***************************************************************************)
EXTENDS DefaultSimulator, SequenceTheorems, FiniteSetTheorems, FunctionTheorems, TLAPS

\* The flag read without the mutex is right whenever the mutex is free, for
\* every number of threads that hand events over
\* (default-simulator-impl.cc:166, 172-176, 275-279).
THEOREM HandOverNotMissed == Spec => []HandOverSeen
<1>1. Init => HandOverSeen
  BY DEF Init, HandOverSeen
<1>2. ASSUME HandOverSeen, [Next]_vars
      PROVE  HandOverSeen'
  <2> USE <1>2 DEF HandOverSeen
  <2>1. CASE \E t \in Threads, d \in Delays : HandOver(t, d)
    BY <2>1, SimulatorAssumption DEF HandOver
  <2>2. CASE Unlock
    BY <2>2 DEF Unlock
  <2>3. CASE Swap
    BY <2>3 DEF Swap
  <2>4. CASE UNCHANGED hand
    BY <2>4 DEF hand
  <2>5. QED
    BY <1>2, <2>1, <2>2, <2>3, <2>4
      DEF Next, MainStep, vars, Schedule, ScheduleNow, ScheduleWithContext, StopAfter, Insert,
          ScheduleDestroy, Stop, Remove, Cancel, ReadFlag, ProcessOneEvent, Return, EndRun,
          Run, Destroy, DestroyOne, DoDispose
<1>3. QED
  BY <1>1, <1>2, PTL DEF Spec

-----------------------------------------------------------------------------
\* The numbers of all the events that can be made fit into m_uid.
NoWrap == UidLimit \in Nat /\ 4 + MaxEvents < UidLimit

Calls == [by : Threads \cup {Main}, kind : {"call", "stop", "destroy"}, delay : Nat, at : Nat]

\* Every event made has taken one number or will take it on leaving the
\* list, and the numbers given so far are below m_uid.
Numbered ==
  /\ made \in Seq(Calls) /\ Len(made) <= MaxEvents
  /\ m_eventsWithContext \in Seq([delay : Nat, ev : Nat])
  /\ m_uid \in Nat /\ m_uid + Len(m_eventsWithContext) = 4 + Len(made)
  /\ m_currentTs \in Nat /\ m_currentUid \in Nat /\ m_currentUid < m_uid
  /\ \A e \in m_events : e.ts \in Nat /\ e.uid \in Nat /\ e.uid < m_uid

CausalInv == Numbered /\ Causal

\* A number below the limit is its own remainder.
LEMMA SmallModulus ==
  ASSUME NEW n \in Nat, NEW M \in Nat, n < M
  PROVE  n % M = n
BY SMT

\* A call of the main thread that makes an event.
LEMMA InsertCausal ==
  ASSUME NoWrap, CausalInv, NEW kind \in {"call", "stop"}, NEW delay \in Nat, Insert(kind, delay)
  PROVE  CausalInv'
<1>1. /\ made' \in Seq(Calls) /\ Len(made') = Len(made) + 1 /\ Len(made') <= MaxEvents
  BY SimulatorAssumption DEF Insert, Make, CausalInv, Numbered, Calls
<1>2. m_uid < UidLimit /\ m_uid + 1 < UidLimit
  BY <1>1, SimulatorAssumption DEF CausalInv, Numbered, NoWrap
<1>3. m_uid' = m_uid + 1
  BY <1>2, SmallModulus, SMTT(30) DEF Insert, NextUid, CausalInv, Numbered, NoWrap
<1>4. Numbered'
  BY <1>1, <1>3 DEF Insert, CausalInv, Numbered, NewEvent, clock, hand
<1>5. Causal'
  BY <1>3 DEF Insert, CausalInv, Numbered, Causal, Before, NewEvent, clock
<1>6. QED
  BY <1>4, <1>5 DEF CausalInv

\* The number of a destroy event is spent, although the event does not carry it.
LEMMA ScheduleDestroyCausal ==
  ASSUME NoWrap, CausalInv, ScheduleDestroy
  PROVE  CausalInv'
<1>1. /\ made' \in Seq(Calls) /\ Len(made') = Len(made) + 1 /\ Len(made') <= MaxEvents
  BY SimulatorAssumption DEF ScheduleDestroy, Make, CausalInv, Numbered, Calls
<1>2. m_uid + 1 < UidLimit
  BY <1>1, SimulatorAssumption DEF CausalInv, Numbered, NoWrap
<1>3. m_uid' = m_uid + 1
  BY <1>2, SmallModulus, SMTT(30) DEF ScheduleDestroy, NextUid, CausalInv, Numbered, NoWrap
<1>4. Numbered'
  BY <1>1, <1>3 DEF ScheduleDestroy, CausalInv, Numbered, clock, hand
<1>5. QED
  BY <1>4 DEF ScheduleDestroy, CausalInv, Causal, Before, clock

\* An event handed over by a thread takes no number yet.
LEMMA HandOverCausal ==
  ASSUME CausalInv, NEW t \in Threads, NEW d \in Delays, HandOver(t, d)
  PROVE  CausalInv'
<1>1. /\ made' \in Seq(Calls) /\ Len(made') = Len(made) + 1 /\ Len(made') <= MaxEvents
  BY SimulatorAssumption DEF HandOver, Make, CausalInv, Numbered, Calls
<1>2. /\ m_eventsWithContext' \in Seq([delay : Nat, ev : Nat])
      /\ Len(m_eventsWithContext') = Len(m_eventsWithContext) + 1
  <2>1. [delay |-> d, ev |-> Len(made) + 1] \in [delay : Nat, ev : Nat]
    BY SimulatorAssumption DEF CausalInv, Numbered
  <2>2. QED
    BY <2>1 DEF HandOver, CausalInv, Numbered
<1>3. UNCHANGED <<m_events, m_uid, m_currentTs, m_currentUid>>
  BY DEF HandOver, queue, clock
<1>4. Numbered'
  BY <1>1, <1>2, <1>3 DEF CausalInv, Numbered
<1>5. QED
  BY <1>3, <1>4 DEF CausalInv, Causal, Before

\* The keys that the events of the list get, without the remainder.
LEMMA KeyedList ==
  ASSUME NoWrap, CausalInv
  PROVE  Keyed(m_eventsWithContext) =
           {[ts |-> m_currentTs + m_eventsWithContext[i].delay, uid |-> m_uid + i - 1,
             ev |-> m_eventsWithContext[i].ev] : i \in 1 .. Len(m_eventsWithContext)}
<1> DEFINE list == m_eventsWithContext
<1>1. /\ list \in Seq([delay : Nat, ev : Nat]) /\ Len(list) \in Nat /\ DOMAIN list = 1 .. Len(list)
      /\ m_uid \in Nat /\ UidLimit \in Nat /\ m_uid + Len(list) < UidLimit
  BY SimulatorAssumption DEF CausalInv, Numbered, NoWrap
<1> HIDE DEF list
<1>2. ASSUME NEW i \in 1 .. Len(list)
      PROVE  (m_uid + i - 1) % UidLimit = m_uid + i - 1
  <2>1. m_uid + i - 1 \in Nat /\ m_uid + i - 1 < UidLimit
    BY <1>1
  <2>2. QED
    BY <1>1, <2>1, SmallModulus
<1>3. QED
  BY <1>1, <1>2 DEF Keyed, list

\* Taking the list over gives its events the next numbers and times from the
\* current one on.
LEMMA SwapCausal ==
  ASSUME NoWrap, CausalInv, Swap
  PROVE  CausalInv'
<1> DEFINE list == m_eventsWithContext
<1>1. /\ Len(list) \in Nat /\ m_uid + Len(list) <= 4 + MaxEvents /\ m_uid + Len(list) < UidLimit
  BY SimulatorAssumption DEF CausalInv, Numbered, NoWrap
<1>2. m_uid' = m_uid + Len(list)
  BY <1>1, SmallModulus DEF Swap, CausalInv, Numbered, NoWrap
<1>3. UNCHANGED <<m_currentTs, m_currentUid, made>> /\ m_eventsWithContext' = <<>>
  BY DEF Swap, clock
<1>4. ASSUME NEW e \in Keyed(list)
      PROVE  /\ e.ts \in Nat /\ e.ts >= m_currentTs
             /\ e.uid \in Nat /\ e.uid >= m_uid /\ e.uid < m_uid + Len(list)
  <2>1. PICK i \in 1 .. Len(list) :
          e = [ts |-> m_currentTs + list[i].delay, uid |-> m_uid + i - 1, ev |-> list[i].ev]
    BY <1>4, KeyedList
  <2>2. list[i].delay \in Nat
    <3>1. list[i] \in [delay : Nat, ev : Nat]
      BY ElementOfSeq DEF CausalInv, Numbered
    <3>2. QED
      BY <3>1
  <2>3. m_uid \in Nat /\ m_currentTs \in Nat
    BY DEF CausalInv, Numbered
  <2> HIDE DEF list
  <2>4. QED
    BY <1>1, <2>1, <2>2, <2>3
<1>5. m_events' = m_events \cup Keyed(list)
  BY DEF Swap
<1> HIDE DEF list
<1>6. Numbered'
  <2>1. \A e \in m_events' : e.ts \in Nat /\ e.uid \in Nat /\ e.uid < m_uid'
    BY <1>1, <1>2, <1>4, <1>5 DEF CausalInv, Numbered
  <2>2. m_uid' + Len(m_eventsWithContext') = 4 + Len(made')
    BY <1>1, <1>2, <1>3 DEF CausalInv, Numbered, list
  <2>3. QED
    BY <1>1, <1>2, <1>3, <2>1, <2>2 DEF CausalInv, Numbered
<1>7. Causal'
  BY <1>3, <1>4, <1>5 DEF CausalInv, Numbered, Causal, Before
<1>8. QED
  BY <1>6, <1>7 DEF CausalInv

\* The event taken from the scheduler is the least, so that the others come
\* after the new current event.
LEMMA ProcessOneEventCausal ==
  ASSUME CausalInv, ProcessOneEvent
  PROVE  CausalInv'
<1>1. PICK next \in m_events :
        /\ IsNext(next) /\ m_events' = m_events \ {next}
        /\ m_currentTs' = next.ts /\ m_currentUid' = next.uid
  BY DEF ProcessOneEvent
<1>2. UNCHANGED <<m_uid, m_eventsWithContext, made>>
  BY DEF ProcessOneEvent, hand
<1>3. Numbered'
  BY <1>1, <1>2 DEF CausalInv, Numbered
<1>4. Causal'
  BY <1>1 DEF Causal, IsNext, Before
<1>5. QED
  BY <1>3, <1>4 DEF CausalInv

\* The invariant holds in every behaviour.
LEMMA CausalInvariant == ASSUME NoWrap PROVE Spec => []CausalInv
<1>1. Init => CausalInv
  BY SimulatorAssumption DEF Init, CausalInv, Numbered, Causal
<1>2. ASSUME CausalInv, [Next]_vars
      PROVE  CausalInv'
  <2>1. ASSUME NEW d \in Delays, Schedule(d) \/ ScheduleWithContext(d) \/ StopAfter(d)
        PROVE  CausalInv'
    BY <1>2, <2>1, InsertCausal, SimulatorAssumption DEF Schedule, ScheduleWithContext, StopAfter
  <2>2. CASE ScheduleNow
    BY <1>2, <2>2, InsertCausal DEF ScheduleNow
  <2>3. CASE ScheduleDestroy
    BY <1>2, <2>3, ScheduleDestroyCausal
  <2>4. ASSUME NEW t \in Threads, NEW d \in Delays, HandOver(t, d)
        PROVE  CausalInv'
    BY <1>2, <2>4, HandOverCausal
  <2>5. CASE Swap
    BY <1>2, <2>5, SwapCausal
  <2>6. CASE ProcessOneEvent
    BY <1>2, <2>6, ProcessOneEventCausal
  <2>7. CASE /\ m_events' \subseteq m_events
             /\ UNCHANGED <<m_uid, m_currentTs, m_currentUid, m_eventsWithContext, made>>
    <3>1. Numbered'
      BY <1>2, <2>7 DEF CausalInv, Numbered
    <3>2. Causal'
      BY <1>2, <2>7 DEF CausalInv, Causal, Before
    <3>3. QED
      BY <3>1, <3>2 DEF CausalInv
  <2>8. ASSUME NEW id \in ids, Remove(id) \/ Cancel(id)
        PROVE  CausalInv'
    BY <2>7, <2>8 DEF Remove, Cancel, queue, clock, hand
  <2>9. CASE \/ Stop \/ Unlock \/ ReadFlag \/ Return \/ EndRun
             \/ Run \/ Destroy \/ DestroyOne \/ DoDispose \/ UNCHANGED vars
    BY <2>7, <2>9 DEF Stop, Unlock, ReadFlag, Return, EndRun, Run, Destroy, DestroyOne,
                      DoDispose, vars, queue, clock, hand
  <2>10. QED
    BY <1>2, <2>1, <2>2, <2>3, <2>4, <2>5, <2>6, <2>8, <2>9 DEF Next, MainStep
<1>3. QED
  BY <1>1, <1>2, PTL DEF Spec

\* As long as the numbers do not wrap around, every event in the scheduler is
\* after the current one, so that the assertion at
\* default-simulator-impl.cc:143 holds and the clock never goes back, for
\* every number of threads, events and runs and whatever the delays.
THEOREM Causality == ASSUME NoWrap PROVE Spec => []Causal
<1>1. CausalInv => Causal
  BY DEF CausalInv
<1>2. QED
  BY <1>1, CausalInvariant, PTL

-----------------------------------------------------------------------------
Key == [ts : Nat, uid : Nat, ev : Nat]

\* The events that have got their keys: those in the scheduler and those run.
Entered == m_events \cup Range(ran)

\* Every key belongs to an event that was made, and its number is not one of
\* the reserved ones.
Keys ==
  /\ ran \in Seq(Key) /\ 4 <= m_uid
  /\ \A e \in Entered : /\ e \in Key /\ 4 <= e.uid /\ e.uid < m_uid
                        /\ e.ev \in 1 .. Len(made) /\ made[e.ev].kind # "destroy"

\* An EventId is that of a destroy event or of a call with a number of its own;
\* in the second case its event is in the scheduler until its time has come or
\* it is cancelled.
Ids ==
  /\ m_destroyEvents \in Seq(Key)
  /\ \A d \in Range(m_destroyEvents) : d.uid = DestroyUid
  /\ \A id \in ids :
       /\ id \in Key /\ (id.uid = DestroyUid \/ 4 <= id.uid)
       /\ (/\ id.uid # DestroyUid /\ id.ev \notin m_cancel
           /\ Before([ts |-> m_currentTs, uid |-> m_currentUid], id)) => id \in m_events

\* The events in the list of the threads, in the order in which they were made.
Handed ==
  LET list == m_eventsWithContext
  IN  /\ \A i \in 1 .. Len(list) :
           /\ list[i].ev \in 1 .. Len(made)
           /\ made[list[i].ev].kind = "call" /\ made[list[i].ev].by # Main
           /\ made[list[i].ev].delay = list[i].delay
      /\ \A i, j \in 1 .. Len(list) : i < j => list[i].ev < list[j].ev

QueueInv == Keys /\ Ids /\ Handed /\ IsFiniteSet(m_events) /\ CountExact

\* What the clients may do with the events they hold rests on this.
LEMMA QueueExpired ==
  ASSUME CausalInv, QueueInv
  PROVE  ExpiredExact
<1> SUFFICES ASSUME NEW id \in ids
             PROVE  ~IsExpired(id) <=> /\ id \in m_events \cup Range(m_destroyEvents)
                                       /\ id.ev \notin m_cancel
  BY DEF ExpiredExact
<1>1. id \in Key /\ m_currentTs \in Nat /\ m_currentUid \in Nat
  BY DEF CausalInv, Numbered, QueueInv, Ids
<1>2. CASE id.uid = DestroyUid
  <2>1. id \notin m_events
    BY <1>2 DEF QueueInv, Keys, Entered, DestroyUid
  <2>2. QED
    BY <1>2, <2>1 DEF IsExpired
<1>3. CASE id.uid # DestroyUid
  <2>1. id \notin Range(m_destroyEvents)
    BY <1>3 DEF QueueInv, Ids
  <2>2. IsExpired(id) <=> \/ id.ev \in m_cancel
                          \/ ~Before([ts |-> m_currentTs, uid |-> m_currentUid], id)
    BY <1>1, <1>3 DEF IsExpired, Before, Key
  <2>3. id \in m_events => Before([ts |-> m_currentTs, uid |-> m_currentUid], id)
    BY DEF CausalInv, Causal
  <2>4. QED
    BY <1>3, <2>1, <2>2, <2>3 DEF QueueInv, Ids
<1>4. QED
  BY <1>2, <1>3

\* What an event adds to the history leaves the earlier calls as they were.
LEMMA MadeGrows ==
  ASSUME CausalInv, NEW t, NEW kind, NEW delay, Make(t, kind, delay)
  PROVE  /\ Len(made) \in Nat /\ Len(made') = Len(made) + 1
         /\ \A i \in 1 .. Len(made) : made'[i] = made[i]
         /\ LET c == made'[Len(made) + 1]
            IN  c.by = t /\ c.kind = kind /\ c.delay = delay /\ c.at = m_currentTs
<1>1. /\ Len(made) \in Nat /\ Len(made') = Len(made) + 1
      /\ \A i \in 1 .. Len(made) : made'[i] = made[i]
      /\ made'[Len(made) + 1] = [by |-> t, kind |-> kind, delay |-> delay, at |-> m_currentTs]
  BY DEF Make, CausalInv, Numbered
<1>2. QED
  BY <1>1

\* As long as no event is given a key, leaves the scheduler or is run, the keys
\* stay in order.
LEMMA HandedKept ==
  ASSUME Handed, UNCHANGED m_eventsWithContext,
         Len(made) \in Nat, Len(made') \in Nat, Len(made) <= Len(made'),
         \A i \in 1 .. Len(made) : made'[i] = made[i]
  PROVE  Handed'
BY DEF Handed

LEMMA KeysKept ==
  ASSUME Keys, m_events' \subseteq m_events, UNCHANGED ran,
         m_uid \in Nat, m_uid' \in Nat, m_uid <= m_uid',
         Len(made) \in Nat, Len(made') \in Nat, Len(made) <= Len(made'),
         \A i \in 1 .. Len(made) : made'[i] = made[i]
  PROVE  Keys'
<1>1. ASSUME NEW e \in Entered'
      PROVE  /\ e \in Key /\ 4 <= e.uid /\ e.uid < m_uid'
             /\ e.ev \in 1 .. Len(made') /\ made'[e.ev].kind # "destroy"
  <2>1. /\ e \in Key /\ 4 <= e.uid /\ e.uid < m_uid
        /\ e.ev \in 1 .. Len(made) /\ made[e.ev].kind # "destroy"
    BY DEF Keys, Entered
  <2>2. e.uid \in Nat
    BY <2>1 DEF Key
  <2>3. QED
    BY <2>1, <2>2
<1>2. QED
  BY <1>1 DEF Keys

\* A call of the main thread that makes an event: the new key is not yet in the
\* scheduler, because its number is new.
LEMMA InsertQueue ==
  ASSUME NoWrap, CausalInv, CausalInv', QueueInv,
         NEW kind \in {"call", "stop"}, NEW delay \in Nat, Insert(kind, delay),
         ids' = ids \/ ids' = ids \cup {NewEvent(delay)}
  PROVE  QueueInv'
<1> DEFINE new == NewEvent(delay)
<1>1. /\ Len(made) \in Nat /\ Len(made') = Len(made) + 1
      /\ \A i \in 1 .. Len(made) : made'[i] = made[i]
      /\ made'[Len(made) + 1].kind = kind
  <2>1. Make(Main, kind, delay)
    BY DEF Insert
  <2>2. QED
    BY <2>1, MadeGrows
<1>2. /\ m_uid \in Nat /\ m_currentTs \in Nat /\ m_currentUid \in Nat /\ 4 <= m_uid
      /\ m_uid' = m_uid + 1
  <2>1. m_uid \in Nat /\ m_currentTs \in Nat /\ m_currentUid \in Nat /\ 4 <= m_uid
    BY DEF CausalInv, Numbered, QueueInv, Keys
  <2>2. m_uid + Len(m_eventsWithContext) = 4 + Len(made) /\ Len(m_eventsWithContext) \in Nat
    BY DEF CausalInv, Numbered
  <2>3. m_uid' + Len(m_eventsWithContext) = 4 + Len(made') /\ m_uid' \in Nat
    BY DEF CausalInv, Numbered, Insert, hand
  <2>4. QED
    BY <1>1, <2>1, <2>2, <2>3
<1>3. new \in Key /\ new.uid = m_uid /\ new.ev = Len(made) + 1
  BY <1>1, <1>2 DEF NewEvent, Key
<1>4. /\ m_events' = m_events \cup {new} /\ m_unscheduledEvents' = m_unscheduledEvents + 1
      /\ UNCHANGED <<ran, m_currentTs, m_currentUid, m_destroyEvents, m_cancel>>
  BY DEF Insert, clock, marks
<1>5. new \notin m_events
  BY <1>2, <1>3 DEF QueueInv, Keys, Entered, Key
<1> HIDE DEF new
<1>6. Keys'
  <2>1. ran' \in Seq(Key) /\ 4 <= m_uid'
    BY <1>2, <1>4 DEF QueueInv, Keys
  <2>2. ASSUME NEW e \in Entered'
        PROVE  /\ e \in Key /\ 4 <= e.uid /\ e.uid < m_uid'
               /\ e.ev \in 1 .. Len(made') /\ made'[e.ev].kind # "destroy"
    <3>1. CASE e = new
      BY <1>1, <1>2, <1>3, <3>1
    <3>2. CASE e \in Entered
      <4>1. /\ e \in Key /\ 4 <= e.uid /\ e.uid < m_uid
            /\ e.ev \in 1 .. Len(made) /\ made[e.ev].kind # "destroy"
        BY <3>2 DEF QueueInv, Keys
      <4>2. e.uid \in Nat
        BY <4>1 DEF Key
      <4>3. QED
        BY <1>1, <1>2, <4>1, <4>2
    <3>3. QED
      BY <1>4, <2>2, <3>1, <3>2 DEF Entered
  <2>3. QED
    BY <2>1, <2>2 DEF Keys
<1>7. Ids'
  BY <1>2, <1>3, <1>4 DEF QueueInv, Ids, DestroyUid, Before, new
<1>8. IsFiniteSet(m_events') /\ CountExact'
  BY <1>4, <1>5, FS_AddElement DEF QueueInv, CountExact
<1>9. Handed'
  BY <1>1, HandedKept DEF QueueInv, Insert, hand
<1>10. QED
  BY <1>6, <1>7, <1>8, <1>9 DEF QueueInv

\* A destroy event spends a number and enters only its list.
LEMMA ScheduleDestroyQueue ==
  ASSUME NoWrap, CausalInv, CausalInv', QueueInv, ScheduleDestroy
  PROVE  QueueInv'
<1> DEFINE id == [ts |-> m_currentTs, uid |-> DestroyUid, ev |-> Len(made) + 1]
<1>1. /\ Len(made) \in Nat /\ Len(made') = Len(made) + 1
      /\ \A i \in 1 .. Len(made) : made'[i] = made[i]
  BY MadeGrows DEF ScheduleDestroy
<1>2. /\ m_destroyEvents' = Append(m_destroyEvents, id) /\ ids' = ids \cup {id}
      /\ UNCHANGED <<m_events, m_unscheduledEvents, ran, m_currentTs, m_currentUid, m_cancel>>
  BY DEF ScheduleDestroy, clock
<1>3. m_uid \in Nat /\ m_uid' \in Nat /\ m_uid <= m_uid'
  <2>1. m_uid \in Nat /\ m_uid' \in Nat
    BY DEF CausalInv, Numbered
  <2>2. m_uid + Len(m_eventsWithContext) = 4 + Len(made) /\ Len(m_eventsWithContext) \in Nat
    BY DEF CausalInv, Numbered
  <2>3. m_uid' + Len(m_eventsWithContext) = 4 + Len(made')
    BY DEF CausalInv, Numbered, ScheduleDestroy, hand
  <2>4. QED
    BY <1>1, <2>1, <2>2, <2>3
<1>4. id \in Key /\ id.uid = DestroyUid
  BY <1>1 DEF CausalInv, Numbered, Key, DestroyUid
<1> HIDE DEF id
<1>5. Keys'
  BY <1>1, <1>2, <1>3, KeysKept DEF QueueInv
<1>6. Ids'
  <2>1. m_destroyEvents' \in Seq(Key) /\ \A d \in Range(m_destroyEvents') : d.uid = DestroyUid
    BY <1>2, <1>4 DEF QueueInv, Ids, Range
  <2>2. QED
    BY <1>2, <1>4, <2>1 DEF QueueInv, Ids, Before
<1>7. Handed'
  BY <1>1, HandedKept DEF QueueInv, ScheduleDestroy, hand
<1>8. QED
  BY <1>2, <1>5, <1>6, <1>7 DEF QueueInv, CountExact

\* The keys of the list are as many as the list is long.
LEMMA KeyedCount ==
  ASSUME NoWrap, CausalInv
  PROVE  /\ IsFiniteSet(Keyed(m_eventsWithContext))
         /\ Cardinality(Keyed(m_eventsWithContext)) = Len(m_eventsWithContext)
<1> DEFINE list   == m_eventsWithContext
           key(i) == [ts |-> m_currentTs + list[i].delay, uid |-> m_uid + i - 1, ev |-> list[i].ev]
           f      == [i \in 1 .. Len(list) |-> key(i)]
<1>1. Len(list) \in Nat /\ m_uid \in Nat
  BY DEF CausalInv, Numbered
<1>2. Keyed(list) = {key(i) : i \in 1 .. Len(list)}
  BY KeyedList
<1>3. \A i \in 1 .. Len(list) : key(i).uid = m_uid + i - 1
  OBVIOUS
<1> HIDE DEF key, list
<1>4. \A i, j \in 1 .. Len(list) : f[i] = f[j] => i = j
  BY <1>1, <1>3
<1>5. f \in [1 .. Len(list) -> Keyed(list)] /\ \A k \in Keyed(list) : \E i \in 1 .. Len(list) : f[i] = k
  BY <1>2
<1>6. ExistsBijection(1 .. Len(list), Keyed(list))
  <2>1. f \in Bijection(1 .. Len(list), Keyed(list))
    BY <1>4, <1>5, Fun_IsBij
  <2>2. QED
    BY <2>1 DEF ExistsBijection
<1>7. IsFiniteSet(1 .. Len(list)) /\ Cardinality(1 .. Len(list)) = Len(list)
  <2>1. /\ IsFiniteSet(1 .. Len(list))
        /\ Cardinality(1 .. Len(list)) = IF 1 > Len(list) THEN 0 ELSE Len(list) - 1 + 1
    BY <1>1, FS_Interval, SMTT(30)
  <2>2. QED
    BY <1>1, <2>1
<1>8. QED
  BY <1>6, <1>7, FS_Bijection DEF list

\* The events of the list enter the scheduler with numbers of their own.
LEMMA SwapQueue ==
  ASSUME NoWrap, CausalInv, CausalInv', QueueInv, Swap
  PROVE  QueueInv'
<1> DEFINE list == m_eventsWithContext
<1>1. /\ m_events' = m_events \cup Keyed(list) /\ m_eventsWithContext' = <<>>
      /\ m_unscheduledEvents' = m_unscheduledEvents + Len(list)
      /\ UNCHANGED <<ran, made, ids, m_currentTs, m_currentUid, m_destroyEvents, m_cancel>>
  BY DEF Swap, clock, marks
<1>2. /\ m_uid \in Nat /\ m_currentTs \in Nat /\ Len(list) \in Nat /\ m_uid' = m_uid + Len(list)
      /\ 4 <= m_uid
  <2>1. m_uid' + Len(m_eventsWithContext') = 4 + Len(made') /\ m_uid' \in Nat
    BY DEF CausalInv, Numbered
  <2>2. m_uid + Len(list) = 4 + Len(made) /\ m_uid \in Nat /\ Len(list) \in Nat /\ m_currentTs \in Nat
    BY DEF CausalInv, Numbered
  <2>3. Len(m_eventsWithContext') = 0
    BY <1>1
  <2>4. 4 <= m_uid
    BY DEF QueueInv, Keys
  <2> HIDE DEF list
  <2>5. QED
    BY <1>1, <2>1, <2>2, <2>3, <2>4
<1>3. \A i \in 1 .. Len(list) : list[i].delay \in Nat /\ list[i].ev \in Nat
  <2>1. \A i \in 1 .. Len(list) : list[i] \in [delay : Nat, ev : Nat]
    BY ElementOfSeq DEF CausalInv, Numbered
  <2>2. QED
    BY <2>1
<1>4. \A e \in Keyed(list) :
        /\ e \in Key /\ m_uid <= e.uid /\ e.uid < m_uid'
        /\ e.ev \in 1 .. Len(made) /\ made[e.ev].kind = "call"
  <2>1. SUFFICES ASSUME NEW e \in Keyed(list)
                 PROVE  /\ e \in Key /\ m_uid <= e.uid /\ e.uid < m_uid'
                        /\ e.ev \in 1 .. Len(made) /\ made[e.ev].kind = "call"
    OBVIOUS
  <2>2. PICK i \in 1 .. Len(list) :
          e = [ts |-> m_currentTs + list[i].delay, uid |-> m_uid + i - 1, ev |-> list[i].ev]
    BY KeyedList
  <2>3. list[i].ev \in 1 .. Len(made) /\ made[list[i].ev].kind = "call"
    BY DEF QueueInv, Handed
  <2> HIDE DEF list
  <2>4. QED
    BY <1>2, <1>3, <2>2, <2>3 DEF Key
<1>5. m_events \cap Keyed(list) = {}
  BY <1>2, <1>4 DEF QueueInv, Keys, Entered, Key
<1>6. IsFiniteSet(Keyed(list)) /\ Cardinality(Keyed(list)) = Len(list)
  BY KeyedCount
<1> HIDE DEF list
<1>7. Keys'
  BY <1>1, <1>2, <1>4 DEF QueueInv, Keys, Entered, Key
<1>8. Ids'
  BY <1>1 DEF QueueInv, Ids, Before
<1>9. IsFiniteSet(m_events') /\ CountExact'
  <2>1. /\ IsFiniteSet(m_events')
        /\ Cardinality(m_events') = Cardinality(m_events) + Len(list) - Cardinality({})
    BY <1>1, <1>5, <1>6, FS_Union DEF QueueInv
  <2>2. Cardinality(m_events) \in Nat /\ Cardinality({}) = 0
    BY FS_CardinalityType, FS_EmptySet DEF QueueInv
  <2>3. QED
    BY <1>1, <1>2, <2>1, <2>2 DEF QueueInv, CountExact
<1>10. Handed'
  BY <1>1 DEF Handed
<1>11. QED
  BY <1>7, <1>8, <1>9, <1>10 DEF QueueInv

\* An event taken from the scheduler has its time, so that its EventId is
\* expired; no other EventId becomes so.
LEMMA ProcessOneEventQueue ==
  ASSUME CausalInv, QueueInv, ProcessOneEvent
  PROVE  QueueInv'
<1>1. PICK next \in m_events :
        /\ IsNext(next) /\ m_events' = m_events \ {next}
        /\ m_currentTs' = next.ts /\ m_currentUid' = next.uid /\ ran' = Append(ran, next)
  BY DEF ProcessOneEvent
<1>2. /\ m_unscheduledEvents' = m_unscheduledEvents - 1
      /\ UNCHANGED <<m_uid, m_eventsWithContext, m_destroyEvents, m_cancel, ids, made>>
  BY DEF ProcessOneEvent, hand, marks
<1>3. next \in Key /\ m_currentTs \in Nat /\ m_currentUid \in Nat
  BY DEF QueueInv, Keys, Entered, CausalInv, Numbered
<1>4. Keys'
  <2>1. ran' \in Seq(Key)
    BY <1>1, <1>3 DEF QueueInv, Keys
  <2>2. Range(ran') = Range(ran) \cup {next}
    BY <1>1, <1>3 DEF QueueInv, Keys, Range
  <2>3. Entered' = Entered
    BY <1>1, <2>2 DEF Entered
  <2>4. QED
    BY <1>2, <2>1, <2>3 DEF QueueInv, Keys
<1>5. Ids'
  <2>1. ASSUME NEW id \in ids, id.uid # DestroyUid, id.ev \notin m_cancel,
               Before([ts |-> next.ts, uid |-> next.uid], id)
        PROVE  id \in m_events'
    <3>1. id \in Key
      BY DEF QueueInv, Ids
    <3>2. id # next
      BY <1>3, <2>1 DEF Before, Key
    <3>3. Before([ts |-> m_currentTs, uid |-> m_currentUid], next)
      BY DEF CausalInv, Causal
    <3>4. Before([ts |-> m_currentTs, uid |-> m_currentUid], id)
      BY <1>3, <2>1, <3>1, <3>3 DEF Before, Key
    <3>5. id \in m_events
      BY <2>1, <3>4 DEF QueueInv, Ids
    <3>6. QED
      BY <1>1, <3>2, <3>5
  <2>2. QED
    BY <1>1, <1>2, <2>1 DEF QueueInv, Ids
<1>6. IsFiniteSet(m_events') /\ CountExact'
  BY <1>1, <1>2, FS_RemoveElement DEF QueueInv, CountExact
<1>7. Handed'
  BY <1>2 DEF QueueInv, Handed
<1>8. QED
  BY <1>4, <1>5, <1>6, <1>7 DEF QueueInv

\* A destroy event leaves its list.
LEMMA DestroyListShrinks ==
  ASSUME QueueInv, NEW id \in ids, RemoveDestroyEvent(id)
  PROVE  /\ m_destroyEvents' \in Seq(Key)
         /\ \A d \in Range(m_destroyEvents') : d.uid = DestroyUid
<1> DEFINE s == m_destroyEvents
<1>1. s \in Seq(Key) /\ \A i \in 1 .. Len(s) : s[i].uid = DestroyUid
  BY DEF QueueInv, Ids, Range
<1>2. CASE id \notin Range(s)
  BY <1>2 DEF RemoveDestroyEvent, QueueInv, Ids
<1>3. CASE id \in Range(s)
  <2>1. PICK i \in 1 .. Len(s) : m_destroyEvents' = SubSeq(s, 1, i - 1) \o SubSeq(s, i + 1, Len(s))
    <3>1. DOMAIN s = 1 .. Len(s)
      BY <1>1
    <3>2. QED
      BY <1>3, <3>1 DEF RemoveDestroyEvent
  <2> HIDE DEF s
  <2> DEFINE a == SubSeq(s, 1, i - 1)
             b == SubSeq(s, i + 1, Len(s))
  <2>2. /\ a \in Seq(Key) /\ \A k \in 1 .. Len(a) : a[k].uid = DestroyUid
        /\ b \in Seq(Key) /\ \A k \in 1 .. Len(b) : b[k].uid = DestroyUid
    BY <1>1
  <2> HIDE DEF a, b
  <2>3. a \o b \in Seq(Key) /\ \A k \in 1 .. Len(a \o b) : (a \o b)[k].uid = DestroyUid
    BY <2>2
  <2>4. m_destroyEvents' = a \o b
    BY <2>1 DEF a, b
  <2>5. DOMAIN (a \o b) = 1 .. Len(a \o b)
    BY <2>3
  <2>6. QED
    BY <2>3, <2>4, <2>5 DEF Range
<1>4. QED
  BY <1>2, <1>3

\* Remove takes exactly one event from the scheduler, because an EventId that
\* is not expired is there.
LEMMA RemoveQueue ==
  ASSUME CausalInv, QueueInv, NEW id \in ids, Remove(id)
  PROVE  QueueInv'
<1>1. UNCHANGED <<ran, m_uid, m_currentTs, m_currentUid, m_eventsWithContext, ids, made>>
  BY DEF Remove, queue, clock, hand
<1>2. m_uid \in Nat /\ Len(made) \in Nat
  BY DEF CausalInv, Numbered
<1>3. CASE id.uid = DestroyUid
  <2>1. RemoveDestroyEvent(id) /\ UNCHANGED <<m_events, m_unscheduledEvents, m_cancel>>
    BY <1>3 DEF Remove, queue
  <2>2. /\ m_destroyEvents' \in Seq(Key)
        /\ \A d \in Range(m_destroyEvents') : d.uid = DestroyUid
    BY <2>1, DestroyListShrinks
  <2>3. QED
    BY <1>1, <2>1, <2>2 DEF QueueInv, Keys, Entered, Ids, Handed, CountExact, Before
<1>4. CASE id.uid # DestroyUid
  <2>1. /\ ~IsExpired(id) /\ m_events' = m_events \ {id} /\ m_cancel' = m_cancel \cup {id.ev}
        /\ m_unscheduledEvents' = m_unscheduledEvents - 1 /\ UNCHANGED m_destroyEvents
    BY <1>4 DEF Remove
  <2>2. id \in m_events
    BY <1>4, <2>1, QueueExpired DEF ExpiredExact, QueueInv, Ids
  <2>3. Keys'
    BY <1>1, <1>2, <2>1, KeysKept DEF QueueInv
  <2>4. Ids'
    BY <1>1, <2>1 DEF QueueInv, Ids, Before
  <2>5. IsFiniteSet(m_events') /\ CountExact'
    BY <2>1, <2>2, FS_RemoveElement DEF QueueInv, CountExact
  <2>6. QED
    BY <1>1, <2>3, <2>4, <2>5 DEF QueueInv, Handed
<1>5. QED
  BY <1>3, <1>4

\* The event handed over last is the last one made.
LEMMA HandOverQueue ==
  ASSUME CausalInv, QueueInv, NEW t \in Threads, NEW d \in Delays, HandOver(t, d)
  PROVE  QueueInv'
<1> DEFINE list == m_eventsWithContext
<1>1. Make(t, "call", d)
  BY DEF HandOver
<1>2. /\ Len(made) \in Nat /\ Len(made') = Len(made) + 1
      /\ \A i \in 1 .. Len(made) : made'[i] = made[i]
      /\ made'[Len(made) + 1].kind = "call" /\ made'[Len(made) + 1].by = t
      /\ made'[Len(made) + 1].delay = d
  BY <1>1, MadeGrows
<1>3. /\ list' = Append(list, [delay |-> d, ev |-> Len(made) + 1])
      /\ UNCHANGED <<m_events, m_uid, m_unscheduledEvents, ran, m_currentTs, m_currentUid,
                     m_destroyEvents, m_cancel, ids>>
  BY DEF HandOver, queue, clock, marks
<1>4. m_uid \in Nat /\ list \in Seq([delay : Nat, ev : Nat])
  BY DEF CausalInv, Numbered
<1>5. Keys'
  BY <1>2, <1>3, <1>4, KeysKept DEF QueueInv
<1>6. Ids'
  BY <1>3 DEF QueueInv, Ids, Before
<1>7. Handed'
  <2>1. /\ Len(list') = Len(list) + 1 /\ Len(list) \in Nat
        /\ \A i \in 1 .. Len(list) : list'[i] = list[i]
        /\ list'[Len(list) + 1].delay = d /\ list'[Len(list) + 1].ev = Len(made) + 1
    BY <1>3, <1>4
  <2>2. t # Main
    BY SimulatorAssumption
  <2>4. /\ \A i \in 1 .. Len(list) :
             /\ list[i].ev \in 1 .. Len(made)
             /\ made[list[i].ev].kind = "call" /\ made[list[i].ev].by # Main
             /\ made[list[i].ev].delay = list[i].delay
        /\ \A i, j \in 1 .. Len(list) : i < j => list[i].ev < list[j].ev
    BY DEF QueueInv, Handed
  <2> HIDE DEF list
  <2>5. ASSUME NEW i \in 1 .. Len(list')
        PROVE  /\ list'[i].ev \in 1 .. Len(made')
               /\ made'[list'[i].ev].kind = "call" /\ made'[list'[i].ev].by # Main
               /\ made'[list'[i].ev].delay = list'[i].delay
    <3>1. CASE i \in 1 .. Len(list)
      <4>1. list'[i] = list[i] /\ list[i].ev \in 1 .. Len(made) /\ made'[list[i].ev] = made[list[i].ev]
        BY <1>2, <2>1, <2>4, <3>1
      <4>2. QED
        BY <1>2, <2>4, <3>1, <4>1
    <3>2. CASE i = Len(list) + 1
      BY <1>2, <2>1, <2>2, <3>2
    <3>3. QED
      BY <2>1, <3>1, <3>2
  <2>6. ASSUME NEW i \in 1 .. Len(list'), NEW j \in 1 .. Len(list'), i < j
        PROVE  list'[i].ev < list'[j].ev
    <3>1. i \in 1 .. Len(list) /\ list'[i].ev = list[i].ev /\ list[i].ev \in 1 .. Len(made)
      BY <2>1, <2>4, <2>6
    <3>2. CASE j \in 1 .. Len(list)
      BY <2>1, <2>4, <2>6, <3>1, <3>2
    <3>3. CASE j = Len(list) + 1
      BY <1>2, <2>1, <3>1, <3>3
    <3>4. QED
      BY <2>1, <3>2, <3>3
  <2>7. QED
    BY <2>5, <2>6 DEF Handed, list
<1>8. QED
  BY <1>3, <1>5, <1>6, <1>7 DEF QueueInv, CountExact

\* The other steps leave the scheduler as it is.
LEMMA OtherQueue ==
  ASSUME CausalInv, QueueInv,
         UNCHANGED <<queue, clock, m_eventsWithContext, ids, made>>,
         m_cancel \subseteq m_cancel',
         UNCHANGED m_destroyEvents \/ DestroyOne
  PROVE  QueueInv'
<1>1. UNCHANGED <<m_events, m_uid, m_unscheduledEvents, ran, m_currentTs, m_currentUid>>
  BY DEF queue, clock
<1>2. m_destroyEvents' \in Seq(Key) /\ \A d \in Range(m_destroyEvents') : d.uid = DestroyUid
  <2>1. CASE DestroyOne
    <3>1. /\ m_destroyEvents \in Seq(Key) /\ m_destroyEvents # <<>>
          /\ m_destroyEvents' = Tail(m_destroyEvents)
          /\ \A i \in 1 .. Len(m_destroyEvents) : m_destroyEvents[i].uid = DestroyUid
      BY <2>1 DEF DestroyOne, QueueInv, Ids, Range
    <3>2. QED
      BY <3>1 DEF Range
  <2>2. QED
    BY <2>1 DEF QueueInv, Ids
<1>3. QED
  BY <1>1, <1>2 DEF QueueInv, Keys, Entered, Ids, Handed, CountExact, Before

LEMMA QueueInvariant == ASSUME NoWrap PROVE Spec => []QueueInv
<1>1. Init => QueueInv
  <2> SUFFICES ASSUME Init PROVE QueueInv
    OBVIOUS
  <2>1. Range(ran) = {} /\ Range(m_destroyEvents) = {}
    BY DEF Init, Range
  <2>2. IsFiniteSet(m_events) /\ Cardinality(m_events) = 0
    BY FS_EmptySet DEF Init
  <2>3. QED
    BY <2>1, <2>2 DEF Init, QueueInv, Keys, Entered, Ids, Handed, CountExact
<1>2. ASSUME CausalInv, CausalInv', QueueInv, [Next]_vars
      PROVE  QueueInv'
  <2>1. ASSUME NEW d \in Delays, Schedule(d) \/ ScheduleWithContext(d) \/ StopAfter(d)
        PROVE  QueueInv'
    BY <1>2, <2>1, InsertQueue, SimulatorAssumption DEF Schedule, ScheduleWithContext, StopAfter
  <2>2. CASE ScheduleNow
    BY <1>2, <2>2, InsertQueue DEF ScheduleNow
  <2>3. CASE ScheduleDestroy
    BY <1>2, <2>3, ScheduleDestroyQueue
  <2>4. ASSUME NEW t \in Threads, NEW d \in Delays, HandOver(t, d)
        PROVE  QueueInv'
    BY <1>2, <2>4, HandOverQueue
  <2>5. CASE Swap
    BY <1>2, <2>5, SwapQueue
  <2>6. CASE ProcessOneEvent
    BY <1>2, <2>6, ProcessOneEventQueue
  <2>7. ASSUME NEW id \in ids, Remove(id)
        PROVE  QueueInv'
    BY <1>2, <2>7, RemoveQueue
  <2>8. ASSUME NEW id \in ids, Cancel(id)
        PROVE  QueueInv'
    BY <1>2, <2>8, OtherQueue DEF Cancel, hand
  <2>9. CASE \/ Stop \/ Unlock \/ ReadFlag \/ Return \/ EndRun
             \/ Run \/ Destroy \/ DestroyOne \/ DoDispose \/ UNCHANGED vars
    <3>1. /\ UNCHANGED <<queue, clock, m_eventsWithContext, ids, made, m_cancel>>
          /\ UNCHANGED m_destroyEvents \/ DestroyOne
      BY <2>9 DEF Stop, Unlock, ReadFlag, Return, EndRun, Run, Destroy, DestroyOne, DoDispose,
                  vars, hand, marks
    <3>2. QED
      BY <1>2, <3>1, OtherQueue
  <2>10. QED
    BY <1>2, <2>1, <2>2, <2>3, <2>4, <2>5, <2>6, <2>7, <2>8, <2>9 DEF Next, MainStep
<1>3. QED
  BY <1>1, <1>2, CausalInvariant, PTL DEF Spec

\* The assertion at the end of Run (default-simulator-impl.cc:209) counts the
\* events of the scheduler, through every Remove and hand-over.
THEOREM CountsExact == ASSUME NoWrap PROVE Spec => []CountExact
<1>1. QueueInv => CountExact
  BY DEF QueueInv
<1>2. QED
  BY <1>1, QueueInvariant, PTL

\* IsExpired (default-simulator-impl.cc:371-401) tells from keys alone whether an
\* event will still be invoked, and is never wrong.
THEOREM ExpiryExact == ASSUME NoWrap PROVE Spec => []ExpiredExact
<1>1. CausalInv /\ QueueInv => ExpiredExact
  BY QueueExpired
<1>2. QED
  BY <1>1, CausalInvariant, QueueInvariant, PTL

-----------------------------------------------------------------------------
\* When the event of key e is due, by the call that made it.
Due(e) ==
  LET c == made[e.ev]
  IN  /\ e.ts >= c.at + c.delay /\ e.ts <= m_currentTs + c.delay
      /\ c.by = Main => e.ts = c.at + c.delay

\* No call is later than the clock, and no event is due later than its delay
\* from now.
TimesInv ==
  /\ \A i \in 1 .. Len(made) : made[i].at <= m_currentTs
  /\ \A e \in Entered : Due(e)

\* A call as it is kept in the history.
LEMMA CallType ==
  ASSUME CausalInv, NEW i \in 1 .. Len(made)
  PROVE  made[i] \in Calls /\ made[i].at \in Nat /\ made[i].delay \in Nat
<1>1. made[i] \in Calls
  BY ElementOfSeq DEF CausalInv, Numbered
<1>2. QED
  BY <1>1 DEF Calls

\* While the clock does not go back and no event gets a key, times stay right.
LEMMA TimesKept ==
  ASSUME CausalInv, CausalInv', QueueInv, TimesInv, Entered' \subseteq Entered,
         m_currentTs <= m_currentTs', Len(made) <= Len(made'),
         \A i \in 1 .. Len(made) : made'[i] = made[i],
         \A i \in 1 .. Len(made') : i > Len(made) => made'[i].at = m_currentTs
  PROVE  TimesInv'
<1>1. m_currentTs \in Nat /\ m_currentTs' \in Nat /\ Len(made) \in Nat /\ Len(made') \in Nat
  BY DEF CausalInv, Numbered
<1>2. ASSUME NEW i \in 1 .. Len(made')
      PROVE  made'[i].at <= m_currentTs'
  <2>1. CASE i \in 1 .. Len(made)
    <3>1. made[i].at \in Nat
      BY <2>1, CallType
    <3>2. QED
      BY <1>1, <2>1, <3>1 DEF TimesInv
  <2>2. CASE i > Len(made)
    BY <1>1, <2>2
  <2>3. QED
    BY <1>1, <2>1, <2>2
<1>3. ASSUME NEW e \in Entered'
      PROVE  Due(e)'
  <2>1. Due(e) /\ e.ev \in 1 .. Len(made) /\ e \in Key
    BY DEF TimesInv, QueueInv, Keys
  <2>2. made'[e.ev] = made[e.ev] /\ made[e.ev].at \in Nat /\ made[e.ev].delay \in Nat
    BY <2>1, CallType
  <2>3. e.ts \in Nat
    BY <2>1 DEF Key
  <2>4. QED
    BY <1>1, <2>1, <2>2, <2>3, SMTT(30) DEF Due
<1>4. QED
  BY <1>2, <1>3 DEF TimesInv

\* A call that gives no key yet.
LEMMA MakeTimes ==
  ASSUME CausalInv, CausalInv', QueueInv, TimesInv, NEW t, NEW kind, NEW delay,
         Make(t, kind, delay), Entered' = Entered, UNCHANGED m_currentTs
  PROVE  TimesInv'
<1>1. /\ Len(made) \in Nat /\ Len(made') = Len(made) + 1 /\ m_currentTs \in Nat
      /\ \A i \in 1 .. Len(made) : made'[i] = made[i]
      /\ made'[Len(made) + 1].at = m_currentTs
  BY MadeGrows DEF CausalInv, Numbered
<1>2. \A i \in 1 .. Len(made') : i > Len(made) => i = Len(made) + 1
  BY <1>1
<1>3. QED
  BY <1>1, <1>2, TimesKept

\* An event of the main thread is due exactly at its delay.
LEMMA InsertTimes ==
  ASSUME CausalInv, CausalInv', QueueInv, TimesInv, NEW kind, NEW delay \in Nat, Insert(kind, delay)
  PROVE  TimesInv'
<1>0. PICK new : new = NewEvent(delay)
  OBVIOUS
<1>1. Make(Main, kind, delay)
  BY DEF Insert
<1>2. /\ Len(made) \in Nat /\ Len(made') = Len(made) + 1
      /\ \A i \in 1 .. Len(made) : made'[i] = made[i]
      /\ made'[Len(made) + 1].by = Main /\ made'[Len(made) + 1].delay = delay
      /\ made'[Len(made) + 1].at = m_currentTs
  BY <1>1, MadeGrows
<1>4. Entered' = Entered \cup {new} /\ UNCHANGED m_currentTs /\ m_currentTs \in Nat
  BY <1>0 DEF Insert, Entered, clock, CausalInv, Numbered
<1>5. new.ts = m_currentTs + delay /\ new.ev = Len(made) + 1
  BY <1>0 DEF NewEvent
<1>6. ASSUME NEW i \in 1 .. Len(made')
      PROVE  made'[i].at <= m_currentTs'
  BY <1>2, <1>4 DEF TimesInv
<1>7. ASSUME NEW e \in Entered
      PROVE  Due(e)'
  <2>1. Due(e) /\ e.ev \in 1 .. Len(made)
    BY DEF TimesInv, QueueInv, Keys
  <2>2. made'[e.ev] = made[e.ev]
    BY <1>2, <2>1
  <2>3. QED
    BY <1>4, <2>1, <2>2 DEF Due
<1>8. Due(new)'
  BY <1>2, <1>4, <1>5 DEF Due
<1>9. QED
  BY <1>4, <1>6, <1>7, <1>8 DEF TimesInv

\* A thread's event counts from the moment at which the list is taken over.
LEMMA SwapTimes ==
  ASSUME NoWrap, CausalInv, QueueInv, TimesInv, Swap
  PROVE  TimesInv'
<1>1. Entered' = Entered \cup Keyed(m_eventsWithContext) /\ UNCHANGED <<m_currentTs, made>>
  BY DEF Swap, Entered, clock
<1>2. ASSUME NEW e \in Keyed(m_eventsWithContext)
      PROVE  Due(e)
  <2>1. PICK i \in 1 .. Len(m_eventsWithContext) :
          e = [ts |-> m_currentTs + m_eventsWithContext[i].delay, uid |-> m_uid + i - 1,
               ev |-> m_eventsWithContext[i].ev]
    BY KeyedList
  <2>2. /\ e.ev \in 1 .. Len(made) /\ made[e.ev].by # Main
        /\ e.ts = m_currentTs + made[e.ev].delay
    BY <2>1 DEF QueueInv, Handed
  <2>3. made[e.ev].at \in Nat /\ made[e.ev].delay \in Nat /\ m_currentTs \in Nat
    BY <2>2, CallType DEF CausalInv, Numbered
  <2>4. made[e.ev].at <= m_currentTs
    BY <2>2 DEF TimesInv
  <2>5. QED
    BY <2>2, <2>3, <2>4 DEF Due
<1>3. QED
  BY <1>1, <1>2 DEF TimesInv, Due

LEMMA TimesInvariant == ASSUME NoWrap PROVE Spec => []TimesInv
<1>1. Init => TimesInv
  BY DEF Init, TimesInv, Entered, Range
<1>2. ASSUME CausalInv, CausalInv', QueueInv, TimesInv, [Next]_vars
      PROVE  TimesInv'
  <2>1. Len(made) \in Nat /\ m_currentTs \in Nat
    BY <1>2 DEF CausalInv, Numbered
  <2>2. ASSUME NEW d \in Delays, Schedule(d) \/ ScheduleWithContext(d) \/ StopAfter(d)
        PROVE  TimesInv'
    BY <1>2, <2>2, InsertTimes, SimulatorAssumption DEF Schedule, ScheduleWithContext, StopAfter
  <2>3. CASE ScheduleNow
    BY <1>2, <2>3, InsertTimes DEF ScheduleNow
  <2>4. CASE ScheduleDestroy
    <3>1. Make(Main, "destroy", 0) /\ Entered' = Entered /\ UNCHANGED m_currentTs
      BY <2>4 DEF ScheduleDestroy, Entered, clock
    <3>2. QED
      BY <1>2, <3>1, MakeTimes
  <2>5. ASSUME NEW t \in Threads, NEW d \in Delays, HandOver(t, d)
        PROVE  TimesInv'
    <3>1. Make(t, "call", d) /\ Entered' = Entered /\ UNCHANGED m_currentTs
      BY <2>5 DEF HandOver, Entered, clock, queue
    <3>2. QED
      BY <1>2, <3>1, MakeTimes
  <2>6. CASE Swap
    BY <1>2, <2>6, SwapTimes
  <2>7. CASE ProcessOneEvent
    <3>1. PICK next \in m_events :
            m_events' = m_events \ {next} /\ m_currentTs' = next.ts /\ ran' = Append(ran, next)
      BY <2>7 DEF ProcessOneEvent
    <3>2. next \in Key /\ ran \in Seq(Key)
      BY <1>2 DEF QueueInv, Keys, Entered
    <3>3. Entered' \subseteq Entered
      BY <3>1, <3>2 DEF Entered, Range
    <3>4. m_currentTs <= m_currentTs'
      BY <1>2, <2>1, <3>1, <3>2, SMTT(30) DEF CausalInv, Causal, Before, Key
    <3>5. UNCHANGED made
      BY <2>7 DEF ProcessOneEvent
    <3>6. QED
      BY <1>2, <2>1, <3>3, <3>4, <3>5, TimesKept
  <2>8. CASE m_events' \subseteq m_events /\ UNCHANGED <<ran, m_currentTs, made>>
    BY <1>2, <2>1, <2>8, TimesKept DEF Entered
  <2>9. ASSUME NEW id \in ids, Remove(id) \/ Cancel(id)
        PROVE  TimesInv'
    BY <2>8, <2>9 DEF Remove, Cancel, queue, clock
  <2>10. CASE \/ Stop \/ Unlock \/ ReadFlag \/ Return \/ EndRun
              \/ Run \/ Destroy \/ DestroyOne \/ DoDispose \/ UNCHANGED vars
    BY <2>8, <2>10 DEF Stop, Unlock, ReadFlag, Return, EndRun, Run, Destroy, DestroyOne,
                       DoDispose, vars, queue, clock
  <2>11. QED
    BY <1>2, <2>2, <2>3, <2>4, <2>5, <2>6, <2>7, <2>9, <2>10 DEF Next, MainStep
<1>3. QED
  BY <1>1, <1>2, CausalInvariant, QueueInvariant, PTL DEF Spec

\* No event is early, and one that the main thread made is due exactly at its
\* delay, however late a thread's events are taken over
\* (default-simulator-impl.cc:184, 236, 272).
THEOREM DeadlinesKept == ASSUME NoWrap PROVE Spec => []DueOnTime
<1>1. TimesInv => DueOnTime
  BY DEF TimesInv, Due, DueOnTime, Entered
<1>2. QED
  BY <1>1, TimesInvariant, PTL

-----------------------------------------------------------------------------
\* Event i is to run before event j: the premise of CallerFifo.
Precedes(i, j) ==
  /\ i < j /\ i \notin m_cancel
  /\ made[i].by = made[j].by /\ made[i].kind # "destroy"
  /\ made[i].delay <= made[j].delay

\* No event is lost on its way: it has its key, or is in the list.
Accounted ==
  \A i \in 1 .. Len(made) :
    (made[i].kind # "destroy" /\ i \notin m_cancel)
      => \/ \E f \in Entered : f.ev = i
         \/ \E k \in 1 .. Len(m_eventsWithContext) : m_eventsWithContext[k].ev = i

\* The key of an event is after those of the events that are to run before it.
Ordered ==
  \A e \in Entered : \A i \in 1 .. Len(made) :
    Precedes(i, e.ev) => \E f \in Entered : f.ev = i /\ Before(f, e)

OrderInv == Accounted /\ Ordered /\ CallerFifo

\* An event that has its key already is before one that gets it now.
LEMMA EnteredBefore ==
  ASSUME CausalInv, QueueInv, TimesInv, NEW f \in Entered,
         NEW e \in Key, NEW delay \in Nat, e.ts = m_currentTs + delay, m_uid <= e.uid,
         made[f.ev].delay <= delay
  PROVE  Before(f, e)
<1>1. f \in Key /\ f.uid < m_uid /\ f.ev \in 1 .. Len(made) /\ m_uid \in Nat
  BY DEF QueueInv, Keys, CausalInv, Numbered
<1>2. made[f.ev].delay \in Nat /\ m_currentTs \in Nat
  BY <1>1, CallType DEF CausalInv, Numbered
<1>3. f.ts <= m_currentTs + made[f.ev].delay
  BY DEF TimesInv, Due
<1>4. f.ts \in Nat /\ f.uid \in Nat /\ e.ts \in Nat /\ e.uid \in Nat
  BY <1>1 DEF Key
<1>5. f.ts <= e.ts /\ f.uid < e.uid
  BY <1>1, <1>2, <1>3, <1>4, SMTT(30)
<1>6. QED
  BY <1>4, <1>5 DEF Before

\* Calls made, marks set and events removed leave the order of the others.
LEMMA OrderKept ==
  ASSUME CausalInv, CausalInv', QueueInv, OrderInv, UNCHANGED ran, Len(made) <= Len(made'),
         \A i \in 1 .. Len(made) : made'[i] = made[i], m_cancel \subseteq m_cancel',
         \A f \in Entered : f \in Entered' \/ f.ev \in m_cancel'
  PROVE  /\ CallerFifo'
         /\ \A e \in Entered : \A i \in 1 .. Len(made') :
              Precedes(i, e.ev)' => \E f \in Entered' : f.ev = i /\ Before(f, e)
<1>1. Len(made) \in Nat /\ Len(made') \in Nat /\ Events = 1 .. Len(made) /\ Events' = 1 .. Len(made')
  BY DEF CausalInv, Numbered, Events
<1>2. ASSUME NEW e \in Entered, NEW i \in 1 .. Len(made'), Precedes(i, e.ev)'
      PROVE  i \in 1 .. Len(made) /\ Precedes(i, e.ev)
  <2>1. e.ev \in 1 .. Len(made)
    BY DEF QueueInv, Keys
  <2>2. i < e.ev /\ i \notin m_cancel'
    BY <1>2 DEF Precedes
  <2>3. i \in 1 .. Len(made)
    BY <1>1, <2>1, <2>2
  <2>4. QED
    BY <1>2, <2>1, <2>2, <2>3 DEF Precedes
<1>3. ASSUME NEW e \in Entered, NEW i \in 1 .. Len(made'), Precedes(i, e.ev)'
      PROVE  \E f \in Entered' : f.ev = i /\ Before(f, e)
  <2>1. PICK f \in Entered : f.ev = i /\ Before(f, e)
    BY <1>2, <1>3 DEF OrderInv, Ordered
  <2>2. QED
    BY <1>3, <2>1 DEF Precedes
<1>4. CallerFifo'
  <2> SUFFICES ASSUME NEW k \in DOMAIN ran, NEW i \in 1 .. Len(made'), Precedes(i, ran[k].ev)'
               PROVE  \E l \in 1 .. k - 1 : ran[l].ev = i
    BY <1>1 DEF CallerFifo, Precedes
  <2>1. ran[k] \in Entered
    BY DEF Entered, Range
  <2>2. i \in Events /\ Precedes(i, ran[k].ev)
    BY <1>1, <1>2, <2>1
  <2>3. QED
    BY <2>2 DEF OrderInv, CallerFifo, Precedes
<1>5. QED
  BY <1>3, <1>4

\* An event of the main thread gets its key at once, and the others that the
\* main thread made have theirs.
LEMMA InsertOrder ==
  ASSUME NoWrap, CausalInv, CausalInv', QueueInv, TimesInv, OrderInv,
         NEW kind, NEW delay \in Nat, Insert(kind, delay)
  PROVE  OrderInv'
<1>0. PICK new : new = NewEvent(delay)
  OBVIOUS
<1>1. Make(Main, kind, delay)
  BY DEF Insert
<1>2. /\ Len(made) \in Nat /\ Len(made') = Len(made) + 1
      /\ \A i \in 1 .. Len(made) : made'[i] = made[i]
      /\ made'[Len(made) + 1].by = Main /\ made'[Len(made) + 1].delay = delay
  BY <1>1, MadeGrows
<1>3. /\ Entered' = Entered \cup {new}
      /\ UNCHANGED <<m_currentTs, ran, m_cancel, m_eventsWithContext>>
  BY <1>0 DEF Insert, Entered, clock, hand, marks
<1>4. new \in Key /\ new.ts = m_currentTs + delay /\ new.uid = m_uid /\ new.ev = Len(made) + 1
  BY <1>0, <1>2 DEF NewEvent, Key, CausalInv, Numbered
<1>5. CallerFifo' /\ \A e \in Entered : \A i \in 1 .. Len(made') :
                       Precedes(i, e.ev)' => \E f \in Entered' : f.ev = i /\ Before(f, e)
  BY <1>2, <1>3, OrderKept
<1>6. ASSUME NEW i \in 1 .. Len(made'), Precedes(i, new.ev)'
      PROVE  \E f \in Entered' : f.ev = i /\ Before(f, new)
  <2>1. i \in 1 .. Len(made) /\ i \notin m_cancel
    BY <1>2, <1>3, <1>4, <1>6 DEF Precedes
  <2>2. made[i].by = Main /\ made[i].kind # "destroy" /\ made[i].delay <= delay
    BY <1>2, <1>4, <1>6, <2>1 DEF Precedes
  <2>3. PICK f \in Entered : f.ev = i
    BY <2>1, <2>2 DEF OrderInv, Accounted, QueueInv, Handed
  <2>4. m_uid <= new.uid
    BY <1>4 DEF Numbered, CausalInv
  <2>5. Before(f, new)
    BY <1>4, <2>2, <2>3, <2>4, EnteredBefore
  <2>6. QED
    BY <1>3, <2>3, <2>5
<1>7. Ordered'
  BY <1>3, <1>5, <1>6 DEF Ordered
<1>8. Accounted'
  <2> SUFFICES ASSUME NEW i \in 1 .. Len(made'), made'[i].kind # "destroy", i \notin m_cancel
               PROVE  \/ \E f \in Entered' : f.ev = i
                      \/ \E k \in 1 .. Len(m_eventsWithContext) : m_eventsWithContext[k].ev = i
    BY <1>3 DEF Accounted
  <2>1. CASE i \in 1 .. Len(made)
    BY <1>2, <1>3, <2>1 DEF OrderInv, Accounted
  <2>2. CASE i = Len(made) + 1
    BY <1>3, <1>4, <2>2
  <2>3. QED
    BY <1>2, <2>1, <2>2
<1>9. QED
  BY <1>5, <1>7, <1>8 DEF OrderInv

\* A call that gives no key: of a destroy event, or of another thread.
LEMMA MakeOrder ==
  ASSUME CausalInv, CausalInv', QueueInv, OrderInv, NEW t, NEW kind, NEW delay,
         Make(t, kind, delay), Entered' = Entered, UNCHANGED <<ran, m_cancel>>,
         \A k \in 1 .. Len(m_eventsWithContext) :
           /\ k \in 1 .. Len(m_eventsWithContext')
           /\ m_eventsWithContext'[k].ev = m_eventsWithContext[k].ev,
         \/ kind = "destroy"
         \/ \E k \in 1 .. Len(m_eventsWithContext') : m_eventsWithContext'[k].ev = Len(made) + 1
  PROVE  OrderInv'
<1>1. /\ Len(made) \in Nat /\ Len(made') = Len(made) + 1
      /\ \A i \in 1 .. Len(made) : made'[i] = made[i]
      /\ made'[Len(made) + 1].kind = kind
  BY MadeGrows
<1>2. CallerFifo' /\ \A e \in Entered : \A i \in 1 .. Len(made') :
                       Precedes(i, e.ev)' => \E f \in Entered' : f.ev = i /\ Before(f, e)
  BY <1>1, OrderKept
<1>3. Accounted'
  <2> SUFFICES ASSUME NEW i \in 1 .. Len(made'), made'[i].kind # "destroy", i \notin m_cancel
               PROVE  \/ \E f \in Entered : f.ev = i
                      \/ \E k \in 1 .. Len(m_eventsWithContext') : m_eventsWithContext'[k].ev = i
    BY DEF Accounted
  <2>1. CASE i \in 1 .. Len(made)
    <3>1. \/ \E f \in Entered : f.ev = i
          \/ \E k \in 1 .. Len(m_eventsWithContext) : m_eventsWithContext[k].ev = i
      BY <1>1, <2>1 DEF OrderInv, Accounted
    <3>2. QED
      BY <3>1
  <2>2. CASE i = Len(made) + 1
    BY <1>1, <2>2
  <2>3. QED
    BY <1>1, <2>1, <2>2
<1>4. QED
  BY <1>2, <1>3 DEF OrderInv, Ordered

\* The events of the list get their keys in the order in which they were made,
\* after every event that has its key.
LEMMA SwapOrder ==
  ASSUME NoWrap, CausalInv, CausalInv', QueueInv, TimesInv, OrderInv, Swap
  PROVE  OrderInv'
<1>0. PICK list : list = m_eventsWithContext
  OBVIOUS
<1>1. /\ Entered' = Entered \cup Keyed(list)
      /\ UNCHANGED <<m_currentTs, made, ran, m_cancel>> /\ m_eventsWithContext' = <<>>
  BY <1>0 DEF Swap, Entered, clock, marks
<1>2. /\ list \in Seq([delay : Nat, ev : Nat]) /\ Len(list) \in Nat /\ m_uid \in Nat
      /\ m_currentTs \in Nat /\ Len(made) \in Nat
      /\ \A i \in 1 .. Len(list) :
           /\ list[i].ev \in 1 .. Len(made) /\ made[list[i].ev].delay = list[i].delay
      /\ \A i, j \in 1 .. Len(list) : i < j => list[i].ev < list[j].ev
  BY <1>0, SMTT(30) DEF CausalInv, Numbered, QueueInv, Handed
<1>3. Keyed(list) =
        {[ts |-> m_currentTs + list[i].delay, uid |-> m_uid + i - 1, ev |-> list[i].ev]
            : i \in 1 .. Len(list)}
  BY <1>0, KeyedList
<1>4. ASSUME NEW k \in 1 .. Len(list)
      PROVE  \E e \in Keyed(list) : e.ev = list[k].ev /\ e.uid = m_uid + k - 1
                                      /\ e.ts = m_currentTs + list[k].delay
  <2>1. PICK e : e = [ts |-> m_currentTs + list[k].delay, uid |-> m_uid + k - 1, ev |-> list[k].ev]
    OBVIOUS
  <2>2. e.ev = list[k].ev /\ e.uid = m_uid + k - 1 /\ e.ts = m_currentTs + list[k].delay
    BY <2>1
  <2>3. e \in Keyed(list)
    BY <1>3, <2>1
  <2>4. QED
    BY <2>2, <2>3
<1>5. CallerFifo' /\ \A e \in Entered : \A i \in 1 .. Len(made') :
                       Precedes(i, e.ev)' => \E f \in Entered' : f.ev = i /\ Before(f, e)
  BY <1>1, <1>2, OrderKept
<1>6. ASSUME NEW e \in Keyed(list), NEW i \in 1 .. Len(made), Precedes(i, e.ev)
      PROVE  \E f \in Entered' : f.ev = i /\ Before(f, e)
  <2>1. PICK k \in 1 .. Len(list) :
          e = [ts |-> m_currentTs + list[k].delay, uid |-> m_uid + k - 1, ev |-> list[k].ev]
    BY <1>3
  <2>2. list[k].delay \in Nat /\ list[k].ev \in Nat
    <3>1. list[k] \in [delay : Nat, ev : Nat]
      BY <1>2, ElementOfSeq
    <3>2. QED
      BY <3>1
  <2>3. /\ e.ts = m_currentTs + list[k].delay /\ e.uid = m_uid + k - 1 /\ e.ev = list[k].ev
        /\ m_uid + k - 1 \in Nat /\ m_uid <= e.uid
    BY <1>2, <2>1, <2>2
  <2>4. e \in Key
    <3>1. m_currentTs + list[k].delay \in Nat
      BY <1>2, <2>2, SMTT(30)
    <3>2. QED
      BY <2>1, <2>2, <2>3, <3>1 DEF Key
  <2>5. /\ i < list[k].ev /\ i \notin m_cancel /\ made[i].kind # "destroy"
        /\ made[i].delay <= list[k].delay
    BY <1>2, <1>6, <2>3 DEF Precedes
  <2>6. CASE \E f \in Entered : f.ev = i
    <3>1. PICK f \in Entered : f.ev = i
      BY <2>6
    <3>2. Before(f, e)
      BY <2>2, <2>3, <2>4, <2>5, <3>1, EnteredBefore
    <3>3. QED
      BY <1>1, <3>1, <3>2
  <2>7. CASE \E l \in 1 .. Len(list) : list[l].ev = i
    <3>1. PICK l \in 1 .. Len(list) : list[l].ev = i
      BY <2>7
    <3>2. l < k
      BY <1>2, <2>2, <2>5, <3>1, SMTT(30)
    <3>3. list[l].delay \in Nat /\ list[l].delay <= list[k].delay
      <4>1. list[l] \in [delay : Nat, ev : Nat]
        BY <1>2, ElementOfSeq
      <4>2. QED
        BY <1>2, <2>5, <3>1, <4>1
    <3>4. PICK f \in Keyed(list) : f.ev = list[l].ev /\ f.uid = m_uid + l - 1
                                     /\ f.ts = m_currentTs + list[l].delay
      BY <1>4
    <3>5. f.ts <= e.ts /\ f.uid < e.uid /\ f.ts \in Nat /\ e.ts \in Nat
      <4>1. m_uid \in Nat /\ m_currentTs \in Nat
        BY <1>2
      <4>2. f.uid < e.uid
        BY <4>1, <2>3, <3>2, <3>4
      <4>3. f.ts <= e.ts /\ f.ts \in Nat /\ e.ts \in Nat
        <5>1. PICK dl, dk : dl = list[l].delay /\ dk = list[k].delay
          OBVIOUS
        <5>2. f.ts = m_currentTs + dl /\ e.ts = m_currentTs + dk
          BY <2>3, <3>4, <5>1
        <5>3. dl \in Nat /\ dk \in Nat /\ dl <= dk
          BY <2>2, <3>3, <5>1
        <5>4. QED
          BY <4>1, <5>2, <5>3
      <4>4. QED
        BY <4>2, <4>3
    <3>6. Before(f, e)
      BY <3>5 DEF Before
    <3>7. QED
      BY <1>1, <3>1, <3>4, <3>6
  <2>8. QED
    BY <1>0, <2>5, <2>6, <2>7 DEF OrderInv, Accounted
<1>7. Ordered'
  <2> SUFFICES ASSUME NEW e \in Entered', NEW i \in 1 .. Len(made'), Precedes(i, e.ev)'
               PROVE  \E f \in Entered' : f.ev = i /\ Before(f, e)
    BY DEF Ordered
  <2>1. Precedes(i, e.ev)
    BY <1>1 DEF Precedes
  <2>2. QED
    BY <1>1, <1>5, <1>6, <2>1
<1>8. Accounted'
  <2> SUFFICES ASSUME NEW i \in 1 .. Len(made), made[i].kind # "destroy", i \notin m_cancel
               PROVE  \E f \in Entered' : f.ev = i
    BY <1>1 DEF Accounted
  <2>1. CASE \E f \in Entered : f.ev = i
    BY <1>1, <2>1
  <2>2. CASE \E k \in 1 .. Len(list) : list[k].ev = i
    BY <1>1, <1>4, <2>2
  <2>3. QED
    BY <1>0, <2>1, <2>2 DEF OrderInv, Accounted
<1>9. QED
  BY <1>5, <1>7, <1>8 DEF OrderInv

\* The least event of the scheduler runs, so that those before it have run.
LEMMA ProcessOneEventOrder ==
  ASSUME CausalInv, QueueInv, OrderInv, ProcessOneEvent
  PROVE  OrderInv'
<1>1. PICK next \in m_events :
        IsNext(next) /\ m_events' = m_events \ {next} /\ ran' = Append(ran, next)
  BY DEF ProcessOneEvent
<1>2. UNCHANGED <<made, m_cancel, m_eventsWithContext>>
  BY DEF ProcessOneEvent, hand, marks
<1>3. next \in Key /\ ran \in Seq(Key) /\ next \in Entered
  BY DEF QueueInv, Keys, Entered
<1>4. /\ Len(ran) \in Nat /\ Len(ran') = Len(ran) + 1 /\ DOMAIN ran = 1 .. Len(ran)
      /\ DOMAIN ran' = 1 .. Len(ran) + 1
      /\ \A k \in 1 .. Len(ran) : ran'[k] = ran[k]
      /\ ran'[Len(ran) + 1] = next
  BY <1>1, <1>3
<1>5. Entered' = Entered
  <2>1. Range(ran') = Range(ran) \cup {next}
    <3>1. ASSUME NEW e \in Range(ran') PROVE e \in Range(ran) \cup {next}
      BY <1>4 DEF Range
    <3>2. ASSUME NEW e \in Range(ran) PROVE e \in Range(ran')
      <4>1. PICK k \in 1 .. Len(ran) : e = ran[k]
        BY <1>4 DEF Range
      <4>2. k \in DOMAIN ran' /\ e = ran'[k]
        BY <1>4, <4>1
      <4>3. QED
        BY <4>2 DEF Range
    <3>3. next \in Range(ran')
      BY <1>4 DEF Range
    <3>4. QED
      BY <3>1, <3>2, <3>3
  <2>2. QED
    BY <1>1, <2>1 DEF Entered
<1>6. Accounted' /\ Ordered'
  BY <1>2, <1>5 DEF OrderInv, Accounted, Ordered, Precedes, Before
<1>7. CallerFifo'
  <2> SUFFICES ASSUME NEW k \in 1 .. Len(ran) + 1, NEW i \in Events, Precedes(i, ran'[k].ev)
               PROVE  \E l \in 1 .. k - 1 : ran'[l].ev = i
    BY <1>2, <1>4 DEF CallerFifo, Precedes, Events
  <2>1. CASE k \in 1 .. Len(ran)
    <3>1. PICK l \in 1 .. k - 1 : ran[l].ev = i
      BY <1>4, <2>1 DEF OrderInv, CallerFifo, Precedes
    <3>2. QED
      BY <1>4, <2>1, <3>1
  <2>2. CASE k = Len(ran) + 1
    <3>0. Precedes(i, next.ev) /\ i \in 1 .. Len(made)
      BY <1>4, <2>2 DEF Events, CausalInv, Numbered
    <3>1. PICK f \in Entered : f.ev = i /\ Before(f, next)
      BY <1>3, <3>0 DEF OrderInv, Ordered
    <3>2. f \in Key
      BY DEF QueueInv, Keys
    <3>3. f \notin m_events
      <4>1. f.ts \in Nat /\ f.uid \in Nat /\ next.ts \in Nat /\ next.uid \in Nat
        BY <1>3, <3>2 DEF Key
      <4>2. f # next /\ ~Before(next, f)
        BY <3>1, <4>1 DEF Before
      <4>3. QED
        BY <1>1, <4>2 DEF IsNext
    <3>4. PICK l \in 1 .. Len(ran) : f = ran[l]
      BY <1>4, <3>3 DEF Entered, Range
    <3>5. QED
      BY <1>4, <2>2, <3>1, <3>4
  <2>3. QED
    BY <1>4, <2>1, <2>2
<1>8. QED
  BY <1>6, <1>7 DEF OrderInv

LEMMA OrderInvariant == ASSUME NoWrap PROVE Spec => []OrderInv
<1>1. Init => OrderInv
  BY DEF Init, OrderInv, Accounted, Ordered, CallerFifo, Entered, Range
<1>2. ASSUME CausalInv, CausalInv', QueueInv, TimesInv, OrderInv, [Next]_vars
      PROVE  OrderInv'
  <2>1. ASSUME NEW d \in Delays, Schedule(d) \/ ScheduleWithContext(d) \/ StopAfter(d)
        PROVE  OrderInv'
    BY <1>2, <2>1, InsertOrder, SimulatorAssumption DEF Schedule, ScheduleWithContext, StopAfter
  <2>2. CASE ScheduleNow
    BY <1>2, <2>2, InsertOrder DEF ScheduleNow
  <2>3. CASE ScheduleDestroy
    <3>1. /\ Make(Main, "destroy", 0) /\ Entered' = Entered
          /\ UNCHANGED <<ran, m_cancel, m_eventsWithContext>>
      BY <2>3 DEF ScheduleDestroy, Entered, clock, hand
    <3>2. QED
      BY <1>2, <3>1, MakeOrder
  <2>4. ASSUME NEW t \in Threads, NEW d \in Delays, HandOver(t, d)
        PROVE  OrderInv'
    <3>1. /\ Make(t, "call", d) /\ Entered' = Entered /\ UNCHANGED <<ran, m_cancel>>
          /\ m_eventsWithContext' = Append(m_eventsWithContext, [delay |-> d, ev |-> Len(made) + 1])
      BY <2>4 DEF HandOver, Entered, clock, queue, marks
    <3>2. m_eventsWithContext \in Seq([delay : Nat, ev : Nat])
      BY <1>2 DEF CausalInv, Numbered
    <3>3. /\ \A k \in 1 .. Len(m_eventsWithContext) :
               /\ k \in 1 .. Len(m_eventsWithContext')
               /\ m_eventsWithContext'[k].ev = m_eventsWithContext[k].ev
          /\ Len(m_eventsWithContext) + 1 \in 1 .. Len(m_eventsWithContext')
          /\ m_eventsWithContext'[Len(m_eventsWithContext) + 1].ev = Len(made) + 1
      BY <3>1, <3>2
    <3>4. QED
      BY <1>2, <3>1, <3>3, MakeOrder
  <2>5. CASE Swap
    BY <1>2, <2>5, SwapOrder
  <2>6. CASE ProcessOneEvent
    BY <1>2, <2>6, ProcessOneEventOrder
  <2>7. CASE /\ UNCHANGED <<ran, made, m_eventsWithContext>> /\ m_cancel \subseteq m_cancel'
             /\ m_events' \subseteq m_events
             /\ \A f \in m_events : f \in m_events' \/ f.ev \in m_cancel'
    <3>1. /\ Entered' \subseteq Entered /\ Len(made) \in Nat
          /\ \A f \in Entered : f \in Entered' \/ f.ev \in m_cancel'
      BY <1>2, <2>7 DEF Entered, CausalInv, Numbered
    <3>2. CallerFifo' /\ \A e \in Entered : \A i \in 1 .. Len(made') :
                           Precedes(i, e.ev)' => \E f \in Entered' : f.ev = i /\ Before(f, e)
      BY <1>2, <2>7, <3>1, OrderKept
    <3>3. Accounted'
      BY <1>2, <2>7, <3>1 DEF OrderInv, Accounted
    <3>4. QED
      BY <3>1, <3>2, <3>3 DEF OrderInv, Ordered
  <2>8. ASSUME NEW id \in ids, Remove(id) \/ Cancel(id)
        PROVE  OrderInv'
    BY <2>7, <2>8 DEF Remove, Cancel, queue, clock, hand
  <2>9. CASE \/ Stop \/ Unlock \/ ReadFlag \/ Return \/ EndRun
             \/ Run \/ Destroy \/ DestroyOne \/ DoDispose \/ UNCHANGED vars
    BY <2>7, <2>9 DEF Stop, Unlock, ReadFlag, Return, EndRun, Run, Destroy, DestroyOne,
                      DoDispose, vars, queue, clock, hand, marks
  <2>10. QED
    BY <1>2, <2>1, <2>2, <2>3, <2>4, <2>5, <2>6, <2>8, <2>9 DEF Next, MainStep
<1>3. QED
  BY <1>1, <1>2, CausalInvariant, QueueInvariant, TimesInvariant, PTL DEF Spec

\* Of two events of one caller the one made first that is not to wait longer
\* runs first, through the list of the threads, removals and the ties of the
\* clock (default-simulator-impl.cc:164-191, scheduler.h:270-286).
THEOREM CallersServedInOrder == ASSUME NoWrap PROVE Spec => []CallerFifo
<1>1. OrderInv => CallerFifo
  BY DEF OrderInv
<1>2. QED
  BY <1>1, OrderInvariant, PTL
=============================================================================
