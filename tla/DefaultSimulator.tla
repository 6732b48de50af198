-------------------------- MODULE DefaultSimulator --------------------------
(***************************************************************************)
(* The event loop under every simulation of this repository,               *)
(* DefaultSimulatorImpl (src/src/core/model/default-simulator-impl.cc): a  *)
(* queue of events ordered by time and number, run one by one by the main  *)
(* thread, into which other threads hand events over through a list that a *)
(* mutex protects and a flag that is read without it.                      *)
(*                                                                         *)
(* An event is the number of the call that made it.  What an event does is *)
(* any sequence of calls of the simulator.  Contexts, reference counts and *)
(* the count of executed events are left out; SetScheduler, which moves    *)
(* every event to another container, leaves this state as it is.           *)
(***************************************************************************)
EXTENDS Integers, Sequences, FiniteSets, Functions

CONSTANTS Threads,      \* threads other than the main one
          Main,         \* the main thread
          Free,         \* the owner of a mutex that is not held
          Delays,       \* delays that clients ask for
          UidWidth,     \* bits of m_uid, 32 in the code
          MaxEvents,    \* bound on the calls that make an event
          MaxRuns       \* bound on the calls of Run

ASSUME SimulatorAssumption ==
  /\ Main \notin Threads /\ Free \notin Threads \cup {Main}
  /\ Delays \subseteq Nat
  /\ UidWidth \in Nat /\ UidWidth >= 3 /\ MaxEvents \in Nat /\ MaxRuns \in Nat

VARIABLES
  m_events,                  \* the scheduler: a set of [ts, uid, ev]
  m_uid, m_currentTs, m_currentUid, m_unscheduledEvents, m_stop,
  m_eventsWithContext,       \* events handed over, [delay, ev]
  m_eventsWithContextEmpty,  \* the flag read without the mutex
  mutex,                     \* who is in the critical section
  m_destroyEvents,           \* ids of the events that run at Destroy
  m_cancel,                  \* events whose m_cancel is set
  ids,                       \* EventIds that clients hold
  pc,                        \* where the main thread is
  runs,                      \* calls of Run
  made,                      \* history: every call that made an event
  ran                        \* history: events taken from the scheduler

queue == <<m_events, m_uid, m_unscheduledEvents>>
clock == <<m_currentTs, m_currentUid, ran>>
hand  == <<m_eventsWithContext, m_eventsWithContextEmpty, mutex>>
marks == <<m_destroyEvents, m_cancel>>
vars  == <<queue, clock, hand, marks, m_stop, ids, pc, runs, made>>

Events == DOMAIN made

\* The operator < of Scheduler::EventKey.
Before(a, b) == a.ts < b.ts \/ (a.ts = b.ts /\ a.uid < b.uid)

\* The event that Scheduler::RemoveNext takes.
IsNext(e) == e \in m_events /\ \A f \in m_events \ {e} : Before(e, f)

UidLimit == 2^UidWidth

NextUid(u) == (u + 1) % UidLimit

DestroyUid == 2

Init ==
  /\ m_events = {} /\ m_uid = 4 /\ m_unscheduledEvents = 0
  /\ m_currentTs = 0 /\ m_currentUid = 0 /\ ran = <<>>
  /\ m_eventsWithContext = <<>> /\ m_eventsWithContextEmpty = TRUE /\ mutex = Free
  /\ m_destroyEvents = <<>> /\ m_cancel = {}
  /\ m_stop = FALSE /\ ids = {} /\ pc = "outside" /\ runs = 0 /\ made = <<>>

-----------------------------------------------------------------------------
\* What the program outside Run, a running event and an event of Destroy may
\* call.
Calling == pc \in {"outside", "event", "destroyEvent"}

\* A call by thread t makes the next event.
Make(t, kind, delay) ==
  /\ Len(made) < MaxEvents
  /\ made' = Append(made, [by |-> t, kind |-> kind, delay |-> delay, at |-> m_currentTs])

NewEvent(delay) == [ts |-> m_currentTs + delay, uid |-> m_uid, ev |-> Len(made) + 1]

Insert(kind, delay) ==
  /\ Calling
  /\ Make(Main, kind, delay)
  /\ m_events' = m_events \cup {NewEvent(delay)}
  /\ m_uid' = NextUid(m_uid)
  /\ m_unscheduledEvents' = m_unscheduledEvents + 1
  /\ UNCHANGED <<clock, hand, marks, m_stop, pc, runs>>

Schedule(delay) == Insert("call", delay) /\ ids' = ids \cup {NewEvent(delay)}

ScheduleNow == Insert("call", 0) /\ ids' = ids \cup {NewEvent(0)}

\* ScheduleWithContext in the main thread gives no EventId.
ScheduleWithContext(delay) == Insert("call", delay) /\ UNCHANGED ids

\* Stop (delay) schedules Stop and drops the EventId.
StopAfter(delay) == Insert("stop", delay) /\ UNCHANGED ids

Stop ==
  /\ Calling /\ m_stop' = TRUE
  /\ UNCHANGED <<queue, clock, hand, marks, ids, pc, runs, made>>

\* ScheduleWithContext in another thread: in the critical section the event
\* is put into the list, then the flag is lowered.  A program joins its threads
\* before it calls Destroy.
HandOver(t, delay) ==
  /\ pc \notin {"destroy", "destroyEvent", "done"} /\ mutex = Free
  /\ Make(t, "call", delay)
  /\ mutex' = t
  /\ m_eventsWithContext' = Append(m_eventsWithContext, [delay |-> delay, ev |-> Len(made) + 1])
  /\ UNCHANGED <<queue, clock, marks, m_eventsWithContextEmpty, m_stop, ids, pc, runs>>

UnlockKeepsFlag ==
  /\ mutex # Free
  /\ mutex' = Free
  /\ UNCHANGED <<queue, clock, marks, m_eventsWithContext, m_eventsWithContextEmpty, m_stop,
                 ids, pc, runs, made>>

Unlock ==
  /\ mutex # Free
  /\ m_eventsWithContextEmpty' = FALSE
  /\ mutex' = Free
  /\ UNCHANGED <<queue, clock, marks, m_eventsWithContext, m_stop, ids, pc, runs, made>>

IsExpiredBelow(id) ==
  \/ id.ev \in m_cancel
  \/ IF id.uid = DestroyUid
     THEN id \notin Range(m_destroyEvents)
     ELSE \/ id.ts < m_currentTs
          \/ id.ts = m_currentTs /\ id.uid < m_currentUid

IsExpired(id) ==
  \/ id.ev \in m_cancel
  \/ IF id.uid = DestroyUid
     THEN id \notin Range(m_destroyEvents)
     ELSE \/ id.ts < m_currentTs
          \/ id.ts = m_currentTs /\ id.uid <= m_currentUid

\* The first loop of Remove looks for the event among the destroy events.
RemoveDestroyEvent(id) ==
  IF id \in Range(m_destroyEvents)
  THEN \E i \in DOMAIN m_destroyEvents :
         /\ m_destroyEvents[i] = id
         /\ m_destroyEvents' = SubSeq(m_destroyEvents, 1, i - 1)
                                \o SubSeq(m_destroyEvents, i + 1, Len(m_destroyEvents))
  ELSE UNCHANGED m_destroyEvents

RemoveKeepsCount(id) ==
  /\ Calling
  /\ IF id.uid = DestroyUid
     THEN RemoveDestroyEvent(id) /\ UNCHANGED <<queue, m_cancel>>
     ELSE /\ ~IsExpired(id)
          /\ m_events' = m_events \ {id}
          /\ m_cancel' = m_cancel \cup {id.ev}
          /\ UNCHANGED <<m_uid, m_unscheduledEvents, m_destroyEvents>>
  /\ UNCHANGED <<clock, hand, m_stop, ids, pc, runs, made>>

\* A destroy event leaves its list; any other pending event leaves the
\* scheduler and is cancelled.
Remove(id) ==
  /\ Calling
  /\ IF id.uid = DestroyUid
     THEN RemoveDestroyEvent(id) /\ UNCHANGED <<queue, m_cancel>>
     ELSE /\ ~IsExpired(id)
          /\ m_events' = m_events \ {id}
          /\ m_cancel' = m_cancel \cup {id.ev}
          /\ m_unscheduledEvents' = m_unscheduledEvents - 1
          /\ UNCHANGED <<m_uid, m_destroyEvents>>
  /\ UNCHANGED <<clock, hand, m_stop, ids, pc, runs, made>>

Cancel(id) ==
  /\ Calling /\ ~IsExpired(id)
  /\ m_cancel' = m_cancel \cup {id.ev}
  /\ UNCHANGED <<queue, clock, hand, m_destroyEvents, m_stop, ids, pc, runs, made>>

ScheduleDestroy ==
  /\ Calling
  /\ Make(Main, "destroy", 0)
  /\ LET id == [ts |-> m_currentTs, uid |-> DestroyUid, ev |-> Len(made) + 1] IN
       /\ m_destroyEvents' = Append(m_destroyEvents, id)
       /\ ids' = ids \cup {id}
  /\ m_uid' = NextUid(m_uid)
  /\ UNCHANGED <<m_events, m_unscheduledEvents, clock, hand, m_cancel, m_stop, pc, runs>>

-----------------------------------------------------------------------------
Run ==
  /\ pc = "outside" /\ runs < MaxRuns
  /\ pc' = "enter" /\ runs' = runs + 1
  /\ UNCHANGED <<queue, clock, hand, marks, m_stop, ids, made>>

\* ProcessEventsWithContext ends; at the beginning of Run a Stop that was
\* called before it is forgotten.
ToLoop ==
  /\ pc' = "loop"
  /\ m_stop' = (m_stop /\ pc \notin {"enter", "enterSwap"})

\* ProcessEventsWithContext first reads the flag.
ReadFlag ==
  /\ pc \in {"enter", "check"}
  /\ IF m_eventsWithContextEmpty
     THEN ToLoop
     ELSE pc' = (IF pc = "enter" THEN "enterSwap" ELSE "swap") /\ UNCHANGED m_stop
  /\ UNCHANGED <<queue, clock, hand, marks, ids, runs, made>>

KeyedAtDelay(list) ==
  {[ts |-> list[i].delay, uid |-> (m_uid + i - 1) % UidLimit, ev |-> list[i].ev]
      : i \in DOMAIN list}

KeyedFromBack(list) ==
  {[ts |-> m_currentTs + list[i].delay, uid |-> (m_uid + Len(list) - i) % UidLimit,
    ev |-> list[i].ev] : i \in DOMAIN list}

\* The keys that the events of the list get.
Keyed(list) ==
  {[ts |-> m_currentTs + list[i].delay, uid |-> (m_uid + i - 1) % UidLimit, ev |-> list[i].ev]
      : i \in DOMAIN list}

SwapFirst ==
  /\ pc \in {"enterSwap", "swap"} /\ mutex = Free
  /\ m_eventsWithContext' = SubSeq(m_eventsWithContext, 2, Len(m_eventsWithContext))
  /\ m_eventsWithContextEmpty' = TRUE
  /\ m_events' = m_events \cup Keyed(SubSeq(m_eventsWithContext, 1, 1))
  /\ m_uid' = NextUid(m_uid)
  /\ m_unscheduledEvents' = m_unscheduledEvents + 1
  /\ ToLoop
  /\ UNCHANGED <<clock, mutex, marks, ids, runs, made>>

\* The list is swapped for an empty one in the critical section and its
\* events are inserted after it.
Swap ==
  /\ pc \in {"enterSwap", "swap"} /\ mutex = Free
  /\ m_eventsWithContext' = <<>> /\ m_eventsWithContextEmpty' = TRUE
  /\ m_events' = m_events \cup Keyed(m_eventsWithContext)
  /\ m_uid' = (m_uid + Len(m_eventsWithContext)) % UidLimit
  /\ m_unscheduledEvents' = m_unscheduledEvents + Len(m_eventsWithContext)
  /\ ToLoop
  /\ UNCHANGED <<clock, mutex, marks, ids, runs, made>>

\* A cancelled event advances the clock and does nothing else.
ProcessOneEvent ==
  /\ pc = "loop" /\ ~m_stop
  /\ \E next \in m_events :
       LET invoked == next.ev \notin m_cancel IN
       /\ IsNext(next)
       /\ m_events' = m_events \ {next}
       /\ m_currentTs' = next.ts /\ m_currentUid' = next.uid
       /\ ran' = Append(ran, next)
       /\ m_stop' = (invoked /\ made[next.ev].kind = "stop")
       /\ pc' = IF invoked /\ made[next.ev].kind = "call" THEN "event" ELSE "check"
  /\ m_unscheduledEvents' = m_unscheduledEvents - 1
  /\ UNCHANGED <<m_uid, hand, marks, ids, runs, made>>

Return ==
  /\ pc \in {"event", "destroyEvent"}
  /\ pc' = IF pc = "event" THEN "check" ELSE "destroy"
  /\ UNCHANGED <<queue, clock, hand, marks, m_stop, ids, runs, made>>

EndRun ==
  /\ pc = "loop" /\ (m_events = {} \/ m_stop)
  /\ pc' = "outside"
  /\ UNCHANGED <<queue, clock, hand, marks, m_stop, ids, runs, made>>

Destroy ==
  /\ pc = "outside" /\ mutex = Free
  /\ pc' = "destroy"
  /\ UNCHANGED <<queue, clock, hand, marks, m_stop, ids, runs, made>>

DestroyOne ==
  /\ pc = "destroy" /\ m_destroyEvents # <<>>
  /\ m_destroyEvents' = Tail(m_destroyEvents)
  /\ pc' = IF Head(m_destroyEvents).ev \in m_cancel THEN "destroy" ELSE "destroyEvent"
  /\ UNCHANGED <<queue, clock, hand, m_cancel, m_stop, ids, runs, made>>

\* The simulator is disposed of, and with it every event that has not run.
DoDispose ==
  /\ pc = "destroy" /\ m_destroyEvents = <<>>
  /\ pc' = "done"
  /\ UNCHANGED <<queue, clock, hand, marks, m_stop, ids, runs, made>>

MainStep == ReadFlag \/ Swap \/ ProcessOneEvent \/ Return \/ EndRun

Next ==
  \/ \E d \in Delays : Schedule(d) \/ ScheduleWithContext(d) \/ StopAfter(d)
  \/ ScheduleNow \/ ScheduleDestroy \/ Stop
  \/ \E id \in ids : Remove(id) \/ Cancel(id)
  \/ \E t \in Threads, d \in Delays : HandOver(t, d)
  \/ Unlock
  \/ MainStep
  \/ Run \/ Destroy \/ DestroyOne \/ DoDispose

Spec == Init /\ [][Next]_vars

\* The main thread does not stop within Run, no event runs for ever, and a
\* thread leaves its critical section.
FairSpec == Spec /\ WF_vars(MainStep) /\ WF_vars(Unlock)

-----------------------------------------------------------------------------
HandedOver == {m_eventsWithContext[i].ev : i \in DOMAIN m_eventsWithContext}

\* Every event in the scheduler comes after the current one, so that the
\* clock never goes back (the assertion at default-simulator-impl.cc:143),
\* whatever the moment at which a thread handed it over.
Causal ==
  \A e \in m_events : Before([ts |-> m_currentTs, uid |-> m_currentUid], e)

\* m_unscheduledEvents is the number of events in the scheduler, which the
\* assertion at the end of Run takes as proof that none was lost
\* (default-simulator-impl.cc:209).
CountExact == m_unscheduledEvents = Cardinality(m_events)

\* IsExpired, which compares the key of an EventId with the current event and
\* never looks into the scheduler, is exact: an EventId is live if and only if
\* its event will still be invoked (default-simulator-impl.cc:371-401).
ExpiredExact ==
  \A id \in ids :
    ~IsExpired(id) <=> /\ id \in m_events \cup Range(m_destroyEvents)
                       /\ id.ev \notin m_cancel

\* No hand-over is missed: when no thread is in the critical section, a list
\* that is not empty has its flag lowered, so that the next
\* ProcessEventsWithContext sees it (default-simulator-impl.cc:166, 277).
HandOverSeen ==
  m_eventsWithContext # <<>> /\ mutex = Free => ~m_eventsWithContextEmpty

\* No event is due before its delay has passed since the call that made it,
\* and one that the main thread made is due exactly then; a thread's event
\* counts from the moment at which the main thread took it over
\* (default-simulator-impl.cc:184, 236, 272).
DueOnTime ==
  \A e \in m_events \cup Range(ran) :
    LET c == made[e.ev] IN
      /\ e.ts >= c.at + c.delay
      /\ c.by = Main => e.ts = c.at + c.delay

\* Of two events of one caller the one that was made first and is not to wait
\* longer runs first, unless it was removed: also for a thread, whose events
\* go through the list and may be taken over at different times
\* (default-simulator-impl.cc:164-191, scheduler.h:270-286).
CallerFifo ==
  \A k \in DOMAIN ran : \A i \in Events :
    LET j == ran[k].ev IN
      (/\ i < j /\ i \notin m_cancel
       /\ made[i].by = made[j].by /\ made[i].kind # "destroy"
       /\ made[i].delay <= made[j].delay)
      => \E l \in 1 .. k - 1 : ran[l].ev = i

\* An event in the list when the main thread is about to take the list over,
\* with no thread in the critical section, runs, unless Run is stopped before
\* (default-simulator-impl.cc:164-191).
HandedOverRuns ==
  \A i \in 1 .. MaxEvents :
    (pc \in {"enter", "check"} /\ mutex = Free /\ i \in HandedOver)
      ~> (m_stop \/ i \in {ran[k].ev : k \in DOMAIN ran})
=============================================================================
