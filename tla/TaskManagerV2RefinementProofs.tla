-------------------- MODULE TaskManagerV2RefinementProofs --------------------
(* TaskManagerV2 implements Scheduler, for every set of coroutines, every   *)
(* bound and every selection of calls that does not both cancel coroutines  *)
(* and use their addresses again.                                           *)
EXTENDS TaskManagerV2Refinement, TaskManagerV2Proofs

-----------------------------------------------------------------------------
(* What the mapping needs to know about reachable states.                   *)

IdleIsFresh ==
  pc = "idle" =>
    /\ ~is_running
    /\ wait_queue = {} /\ deferred_queue = <<>> /\ async_queue = NoAsyncs

NotFiringOutside == pc # "lua" => firing = NotFiring

MapInv == IdleIsFresh /\ NotFiringOutside

(* A push adds its event, unless the loop has exited.                       *)
LEMMA PushQueued ==
  ASSUME rx \in Seq(Event), NEW event \in Event, PushEvent(event)
  PROVE  \A v \in Event : Queued(v)' <=> Queued(v) \/ (v = event /\ pc # "exited")
<1>1. CASE pc = "exited"
  BY <1>1 DEF PushEvent, Queued
<1>2. CASE pc # "exited"
  <2>1. /\ Len(rx) \in Nat /\ DOMAIN rx = 1..Len(rx)
        /\ DOMAIN rx' = 1..(Len(rx) + 1) /\ rx'[Len(rx) + 1] = event
        /\ \A i \in DOMAIN rx : rx'[i] = rx[i]
    BY <1>2 DEF PushEvent
  <2>2. \A i \in DOMAIN rx' : i \in DOMAIN rx \/ i = Len(rx) + 1
    BY <2>1
  <2>3. QED
    BY <1>2, <2>1, <2>2 DEF Queued
<1>3. QED
  BY <1>1, <1>2

(* The elements of a sequence are its head and those of its tail.           *)
LEMMA HeadTail ==
  ASSUME NEW S, NEW s \in Seq(S), s # <<>>, NEW v
  PROVE  (\E i \in DOMAIN s : s[i] = v)
           <=> v = Head(s) \/ \E i \in DOMAIN Tail(s) : Tail(s)[i] = v
<1>1. /\ Len(s) \in Nat \ {0} /\ DOMAIN s = 1..Len(s) /\ Head(s) = s[1]
      /\ DOMAIN Tail(s) = 1..(Len(s) - 1)
      /\ \A i \in 1..(Len(s) - 1) : Tail(s)[i] = s[i + 1]
  OBVIOUS
<1>2. ASSUME NEW i \in DOMAIN s, s[i] = v, v # Head(s)
      PROVE  \E j \in DOMAIN Tail(s) : Tail(s)[j] = v
  <2>1. i - 1 \in 1..(Len(s) - 1) /\ (i - 1) + 1 = i
    BY <1>1, <1>2
  <2>2. QED
    BY <1>1, <1>2, <2>1
<1>3. ASSUME NEW j \in DOMAIN Tail(s) PROVE j + 1 \in DOMAIN s /\ s[j + 1] = Tail(s)[j]
  BY <1>1, <1>3
<1>4. 1 \in DOMAIN s
  BY <1>1
<1>5. QED
  BY <1>1, <1>2, <1>3, <1>4

(* Receiving takes out the first event and no other.                        *)
LEMMA ReceiveQueued ==
  ASSUME rx \in Seq(Event), NEW op, Receive(op)
  PROVE  \A v \in Event : Queued(v) <=> v = Head(rx) \/ Queued(v)'
<1>1. rx # <<>> /\ rx' = Tail(rx)
  BY DEF Receive
<1>2. \A v : (\E i \in DOMAIN rx : rx[i] = v)
               <=> v = Head(rx) \/ \E i \in DOMAIN Tail(rx) : Tail(rx)[i] = v
  BY <1>1, HeadTail
<1>3. QED
  BY <1>1, <1>2 DEF Queued

LEMMA TakeDeferredQueued ==
  ASSUME deferred_queue \in Seq(Thread), TakeDeferred, NEW t \in Thread
  PROVE  (\E i \in DOMAIN deferred_queue : deferred_queue[i] = t)
           <=> t = Head(deferred_queue)
           \/ \E i \in DOMAIN deferred_queue' : deferred_queue'[i] = t
<1>1. deferred_queue # <<>> /\ deferred_queue' = Tail(deferred_queue)
  BY DEF TakeDeferred
<1>2. \A v : (\E i \in DOMAIN deferred_queue : deferred_queue[i] = v)
               <=> v = Head(deferred_queue)
                   \/ \E i \in DOMAIN Tail(deferred_queue) : Tail(deferred_queue)[i] = v
  BY <1>1, HeadTail
<1>3. QED
  BY <1>1, <1>2

LEMMA MapInductive == TypeOK /\ MapInv /\ [Next]_vars => MapInv'
<1> SUFFICES ASSUME TypeOK, MapInv, [Next]_vars PROVE MapInv'
  OBVIOUS
<1> USE DEF MapInv, IdleIsFresh, NotFiringOutside, locals, flags, control
<1>1. ASSUME NEW t \in Thread,
             TaskSpawn(t) \/ TaskDelay(t) \/ TaskDefer(t) \/ TaskCancel(t)
             \/ CoroutineClose(t) \/ Collect(t)
      PROVE MapInv'
  BY <1>1 DEF TaskSpawn, TaskDelay, TaskDefer, TaskCancel, CoroutineClose, Collect
<1>2. CASE TaskWait \/ CallAsync \/ CoroutineYield \/ CoroutineEnds
  BY <1>2 DEF TaskWait, CallAsync, CoroutineYield, CoroutineEnds
<1>3. CASE Stop \/ Unstop \/ Clear \/ DropLua
  BY <1>3 DEF Stop, Unstop, Clear, DropLua
<1>4. CASE RunInTask \/ RunPanics \/ RunRefused \/ RunStarts \/ TopSelects
  BY <1>4 DEF RunInTask, RunPanics, RunRefused, RunStarts, TopSelects
<1>5. CASE TopReturns \/ ArmReturns \/ RecvDeferredPanics
  BY <1>5 DEF TopReturns, ArmReturns, RecvDeferredPanics, AtSelect, Return, Dropped
<1>6. CASE RecvWait \/ RecvDeferred \/ RecvAsync \/ RecvClear
  BY <1>6 DEF RecvWait, RecvDeferred, RecvAsync, RecvClear, Receive, AtSelect
<1>7. ASSUME NEW e \in wait_queue, SkipWait(e) \/ FireWait(e) PROVE MapInv'
  BY <1>7 DEF SkipWait, FireWait, AtSelect
<1>8. CASE SkipDeferred \/ DropDeferred \/ FireDeferred
  BY <1>8 DEF SkipDeferred, DropDeferred, FireDeferred, TakeDeferred, AtSelect
<1>9. ASSUME NEW t \in Thread, FireAsync(t) PROVE MapInv'
  BY <1>9 DEF FireAsync, AtSelect
<1>10. CASE AfterResume \/ Bottom \/ UNCHANGED vars
  BY <1>10 DEF AfterResume, Bottom, vars
<1>11. QED
  BY <1>1, <1>2, <1>3, <1>4, <1>5, <1>6, <1>7, <1>8, <1>9, <1>10
  DEF Next, Environment, Run

LEMMA MapCorrect == Spec => []MapInv
<1>1. Init => MapInv
  BY DEF Init, MapInv, IdleIsFresh, NotFiringOutside
<1>2. QED
  BY <1>1, MapInductive, TypeCorrect, PTL DEF Spec

-----------------------------------------------------------------------------
(* How the set of promises changes.                                         *)

LEMMA OwedMember ==
  ASSUME NEW t \in Thread, NEW k \in Kind
  PROVE  /\ <<t, k>> \in Owed <=> HasPromise(t, k)
         /\ <<t, k>> \in Owed' <=> HasPromise(t, k)'
BY DEF Owed

LEMMA OwedFrame ==
  ASSUME \A t \in Thread, k \in Kind : HasPromise(t, k)' <=> HasPromise(t, k)
  PROVE  Owed' = Owed
BY DEF Owed

LEMMA OwedGrows ==
  ASSUME NEW t \in Thread, NEW k \in Kind, HasPromise(t, k)',
         \A u \in Thread, j \in Kind :
           (u # t \/ j # k) => (HasPromise(u, j)' <=> HasPromise(u, j))
  PROVE  Owed' = Owed \cup {<<t, k>>}
BY DEF Owed

LEMMA OwedShrinks ==
  ASSUME NEW t \in Thread, NEW k \in Kind, HasPromise(t, k),
         \A u \in Thread, j \in Kind :
           (u # t \/ j # k) => (HasPromise(u, j)' <=> HasPromise(u, j))
  PROVE  Owed' \in {Owed, Owed \ {<<t, k>>}}
BY DEF Owed

LEMMA OwedNothing ==
  ASSUME \A t \in Thread, k \in Kind : ~HasPromise(t, k)
  PROVE  Owed = {}
BY DEF Owed

(* An action that leaves the queues alone leaves the promises alone.        *)
LEMMA QueuesFrame ==
  ASSUME UNCHANGED <<rx, wait_queue, async_queue, deferred_queue, known_deferred_threads, firing>>
  PROVE  Owed' = Owed
BY OwedFrame DEF HasPromise, HasWaitEntry, HasAsyncEntry, HasDeferredEntry, StillKnown,
                 Queued, HasFuture

(* It is pending that a clear takes effect while the channel holds one.     *)
LEMMA ClearingFrame ==
  ASSUME UNCHANGED rx, pc = "drain" <=> pc' = "drain"
  PROVE  Clearing' = Clearing
BY DEF Clearing, Queued

LEMMA ClearingPush ==
  ASSUME TypeOK, NEW t \in Thread, NEW op \in {"Wait", "DeferredThread", "AddAsync"},
         PushEvent([op |-> op, thread |-> t]), UNCHANGED pc
  PROVE  Clearing' = Clearing
<1> DEFINE clear == [op |-> "Clear", thread |-> NoThread]
<1>1. clear \in Event /\ [op |-> op, thread |-> t] \in Event /\ rx \in Seq(Event)
  BY EventType DEF TypeOK
<1>2. clear # [op |-> op, thread |-> t]
  <2>1. clear.op # op
    OBVIOUS
  <2>2. QED
    BY <2>1
<1>3. Queued(clear)' <=> Queued(clear)
  BY <1>1, <1>2, PushQueued
<1>4. QED
  BY <1>3 DEF Clearing

LEMMA ClearingReceive ==
  ASSUME TypeOK, NEW op, op # "Clear", Receive(op), pc' # "drain"
  PROVE  Clearing' = Clearing
<1> DEFINE clear == [op |-> "Clear", thread |-> NoThread]
<1>1. clear \in Event /\ rx \in Seq(Event)
  BY EventType DEF TypeOK
<1>2. clear # Head(rx) /\ pc # "drain"
  BY DEF Receive, AtSelect
<1>3. Queued(clear)' <=> Queued(clear)
  BY <1>1, <1>2, ReceiveQueued
<1>4. QED
  BY <1>2, <1>3 DEF Clearing

(* The promises do not depend on the arm that fires, except when it is the  *)
(* deferred one.                                                            *)
LEMMA KnownFrame ==
  ASSUME NEW t \in Thread, UNCHANGED known_deferred_threads,
         firing.arm # "deferred", firing'.arm # "deferred"
  PROVE  StillKnown(t)' <=> StillKnown(t)
BY DEF StillKnown

\* the kind of promise that an event makes
KindOf(op) == CASE op = "Wait" -> "waiting"
                [] op = "AddAsync" -> "awaiting"
                [] op = "DeferredThread" -> "deferred"

(* push_event makes the promise of its event, if the loop has not exited.   *)
LEMMA PushPromises ==
  ASSUME TypeOK, NEW t \in Thread, NEW op \in {"Wait", "DeferredThread", "AddAsync"},
         PushEvent([op |-> op, thread |-> t]),
         UNCHANGED <<wait_queue, async_queue, deferred_queue, known_deferred_threads, firing>>
  PROVE  Owed' = IF pc # "exited" THEN Owed \cup {<<t, KindOf(op)>>} ELSE Owed
<1> DEFINE event == [op |-> op, thread |-> t]
<1>1. event \in Event /\ rx \in Seq(Event)
  BY EventType DEF TypeOK
<1>2. \A v \in Event : Queued(v)' <=> Queued(v) \/ (v = event /\ pc # "exited")
  BY <1>1, PushQueued
<1>3. CASE pc = "exited"
  BY <1>3, QueuesFrame DEF PushEvent
<1>4. CASE pc # "exited"
  <2>1. KindOf(op) \in Kind
    BY DEF KindOf, Kind
  <2>2. HasPromise(t, KindOf(op))'
    <3>1. Queued(event)'
      BY <1>1, <1>2, <1>4
    <3>2. QED
      BY <3>1 DEF HasPromise, HasWaitEntry, HasAsyncEntry, HasDeferredEntry, KindOf
  <2>3. ASSUME NEW u \in Thread, NEW j \in Kind, u # t \/ j # KindOf(op)
        PROVE  HasPromise(u, j)' <=> HasPromise(u, j)
    <3>1. ASSUME NEW o \in {"Wait", "DeferredThread", "AddAsync"}, j = KindOf(o)
          PROVE  Queued([op |-> o, thread |-> u])' <=> Queued([op |-> o, thread |-> u])
      <4>1. [op |-> o, thread |-> u] \in Event
        BY EventType
      <4>2. o # op \/ u # t
        BY <2>3, <3>1 DEF KindOf
      <4>3. [op |-> o, thread |-> u] # event
        BY <4>2
      <4>4. QED
        BY <1>2, <4>1, <4>3
    <3>2. StillKnown(u)' <=> StillKnown(u)
      BY DEF StillKnown
    <3>3. QED
      BY <3>1, <3>2 DEF HasPromise, HasWaitEntry, HasAsyncEntry, HasDeferredEntry, KindOf,
                        Kind, HasFuture
  <2>4. QED
    BY <1>4, <2>1, <2>2, <2>3, OwedGrows
<1>5. QED
  BY <1>3, <1>4

-----------------------------------------------------------------------------
(* Every step of TaskManagerV2 is a step of Scheduler or changes nothing    *)
(* that Scheduler sees.                                                     *)

SchedStep == [Sched!Next]_(Sched!vars)

(* Scheduler and TaskManagerV2 agree about the Lua side.                    *)
LEMMA SameCoroutines ==
  /\ Sched!CoroutineInit <=> CoroutineInit
  /\ \A t : (Sched!Enter(t) <=> Enter(t)) /\ (Sched!Leave(t) <=> Leave(t))
          /\ (Sched!Resume(t) <=> Resume(t))
          /\ Sched!IntoThread(t) = IntoThread(t) /\ Sched!Close(t) = Close(t)
  /\ Sched!Resumable = Resumable /\ Sched!Ended = Ended
BY DEF Sched!CoroutineInit, CoroutineInit, Sched!coroutine, coroutine, Sched!Enter, Enter,
       Sched!Leave, Leave, Sched!Resume, Resume, Sched!IntoThread, IntoThread, Sched!Close,
       Close, Sched!Resumable, Resumable, Sched!Ended, Ended

LEMMA ScriptStep ==
  ASSUME TypeOK, Environment
  PROVE  SchedStep
<1> USE DEF flags, control, locals, Sched!rest
<1>1. ASSUME NEW t \in Thread, TaskSpawn(t) PROVE SchedStep
  <2>1. Owed' = Owed /\ Clearing' = Clearing
    BY <1>1, QueuesFrame, ClearingFrame DEF TaskSpawn
  <2>2. Sched!Runs
    BY <1>1, <2>1, SameCoroutines DEF TaskSpawn, Sched!Runs
  <2>3. QED
    BY <2>2 DEF SchedStep, Sched!Next
<1>2. CASE CoroutineYield \/ CoroutineEnds
  <2>1. Owed' = Owed /\ Clearing' = Clearing
    BY <1>2, QueuesFrame, ClearingFrame DEF CoroutineYield, CoroutineEnds
  <2>2. Sched!Runs
    BY <1>2, <2>1, SameCoroutines DEF CoroutineYield, CoroutineEnds, Sched!Runs
  <2>3. QED
    BY <2>2 DEF SchedStep, Sched!Next
<1>3. CASE TaskWait
  <2>1. current \in Thread
    BY <1>3 DEF TaskWait, TypeOK, CoroutineType
  <2>2. /\ Owed' = IF pc # "exited" THEN Owed \cup {<<current, "waiting">>} ELSE Owed
        /\ Clearing' = Clearing
    BY <1>3, <2>1, PushPromises, ClearingPush DEF TaskWait, KindOf
  <2>3. Sched!Suspend("waiting")
    BY <1>3, <2>2, SameCoroutines
    DEF TaskWait, PushEvent, Sched!Suspend, Sched!Promises, Sched!NotAnnounced
  <2>4. QED
    BY <2>3 DEF SchedStep, Sched!Next
<1>4. CASE CallAsync
  <2>1. current \in Thread
    BY <1>4 DEF CallAsync, TypeOK, CoroutineType
  <2>2. /\ Owed' = IF pc # "exited" THEN Owed \cup {<<current, "awaiting">>} ELSE Owed
        /\ Clearing' = Clearing
    BY <1>4, <2>1, PushPromises, ClearingPush DEF CallAsync, KindOf
  <2>3. Sched!Suspend("awaiting")
    BY <1>4, <2>2, SameCoroutines
    DEF CallAsync, PushEvent, Sched!Suspend, Sched!Promises, Sched!NotAnnounced
  <2>4. QED
    BY <2>3 DEF SchedStep, Sched!Next
<1>5. ASSUME NEW t \in Thread, TaskDelay(t) PROVE SchedStep
  <2>1. /\ Owed' = IF pc # "exited" THEN Owed \cup {<<t, "waiting">>} ELSE Owed
        /\ Clearing' = Clearing
    BY <1>5, PushPromises, ClearingPush DEF TaskDelay, KindOf
  <2>2. Sched!Schedule(t, "waiting")
    BY <1>5, <2>1, SameCoroutines
    DEF TaskDelay, PushEvent, Sched!Schedule, Sched!Promises, Sched!NotAnnounced
  <2>3. QED
    BY <2>2 DEF SchedStep, Sched!Next
<1>6. ASSUME NEW t \in Thread, TaskDefer(t) PROVE SchedStep
  <2>1. /\ Owed' = IF pc # "exited" THEN Owed \cup {<<t, "deferred">>} ELSE Owed
        /\ Clearing' = Clearing
    BY <1>6, PushPromises, ClearingPush DEF TaskDefer, KindOf
  <2>2. Sched!Schedule(t, "deferred")
    BY <1>6, <2>1, SameCoroutines
    DEF TaskDefer, PushEvent, Sched!Schedule, Sched!Promises, Sched!NotAnnounced
  <2>3. QED
    BY <2>2 DEF SchedStep, Sched!Next
<1>7. ASSUME NEW t \in Thread, TaskCancel(t) PROVE SchedStep
  <2>1. Owed' = Owed /\ Clearing' = Clearing
    BY <1>7, QueuesFrame, ClearingFrame DEF TaskCancel
  <2>2. Sched!Cancel(t)
    BY <1>7, <2>1, SameCoroutines DEF TaskCancel, Sched!Cancel
  <2>3. QED
    BY <2>2 DEF SchedStep, Sched!Next
<1>8. ASSUME NEW t \in Thread, Collect(t) PROVE SchedStep
  <2>1. Owed' = Owed /\ Clearing' = Clearing
    BY <1>8, QueuesFrame, ClearingFrame DEF Collect
  <2>2. ASSUME NEW k \in Kind PROVE <<t, k>> \notin Owed
    <3>1. \A op \in {"Wait", "DeferredThread", "AddAsync"} : ~Queued([op |-> op, thread |-> t])
      BY <1>8 DEF Collect, Queued
    <3>2. ~HasPromise(t, k)
      BY <1>8, <3>1
      DEF Collect, HasPromise, HasWaitEntry, HasAsyncEntry, HasDeferredEntry, HasFuture, TypeOK
    <3>3. QED
      BY <3>2, OwedMember
  <2>3. Sched!Collect(t)
    BY <1>8, <2>1, <2>2, SameCoroutines DEF Collect, Sched!Collect, Sched!Kind, Kind
  <2>4. QED
    BY <2>3 DEF SchedStep, Sched!Next
<1>9. CASE Stop \/ Unstop \/ DropLua
  <2>1. Owed' = Owed /\ Clearing' = Clearing
    BY <1>9, QueuesFrame, ClearingFrame DEF Stop, Unstop, DropLua
  <2>2. Sched!Control
    BY <1>9, <2>1, SameCoroutines DEF Stop, Unstop, DropLua, Sched!Control, coroutine,
                                      Sched!coroutine
  <2>3. QED
    BY <2>2 DEF SchedStep, Sched!Next
<1>10. CASE Clear
  <2>1. \A v \in Event : v.op # "Clear" => (Queued(v)' <=> Queued(v))
    BY <1>10, PushQueued, EventType DEF Clear, TypeOK
  <2>2. Owed' = Owed
    <3>1. ASSUME NEW t \in Thread, NEW op \in {"Wait", "DeferredThread", "AddAsync"}
          PROVE  Queued([op |-> op, thread |-> t])' <=> Queued([op |-> op, thread |-> t])
      BY <2>1, EventType
    <3>2. QED
      BY <1>10, <3>1, OwedFrame
      DEF Clear, HasPromise, HasWaitEntry, HasAsyncEntry, HasDeferredEntry, StillKnown,
          HasFuture
  <2>3. Clearing' \in {Clearing, TRUE}
    <3>1. Queued([op |-> "Clear", thread |-> NoThread])
            => Queued([op |-> "Clear", thread |-> NoThread])'
      BY <1>10, PushQueued, EventType DEF Clear, TypeOK
    <3>2. QED
      BY <1>10, <3>1 DEF Clear, Clearing
  <2>4. Sched!Clear
    BY <1>10, <2>2, <2>3, SameCoroutines
    DEF Clear, PushEvent, Sched!Clear, Sched!NotAnnounced, coroutine, Sched!coroutine
  <2>5. QED
    BY <2>4 DEF SchedStep, Sched!Next
<1>11. ASSUME NEW t \in Thread, CoroutineClose(t) PROVE SchedStep
  <2>1. Owed' = Owed /\ Clearing' = Clearing
    BY <1>11, QueuesFrame, ClearingFrame DEF CoroutineClose
  <2>2. Sched!CoroutineClose(t)
    BY <1>11, <2>1, SameCoroutines DEF CoroutineClose, Sched!CoroutineClose
  <2>3. QED
    BY <2>2 DEF SchedStep, Sched!Next
<1>12. QED
  BY <1>1, <1>2, <1>3, <1>4, <1>5, <1>6, <1>7, <1>8, <1>9, <1>10, <1>11 DEF Environment

(* run_in_task, the prologue and the parts of the loop that look at no      *)
(* entry.                                                                   *)
LEMMA ControlStep ==
  ASSUME TypeOK, MapInv,
         \/ RunInTask \/ RunPanics \/ RunRefused \/ RunStarts \/ TopReturns \/ TopSelects
         \/ ArmReturns \/ RecvDeferredPanics \/ AfterResume \/ Bottom
  PROVE  SchedStep
<1> USE DEF flags, control, locals, Sched!rest
<1>1. CASE RunInTask \/ RunPanics \/ RunStarts \/ TopSelects
  <2>1. Owed' = Owed /\ Clearing' = Clearing
    BY <1>1, QueuesFrame, ClearingFrame DEF RunInTask, RunPanics, RunStarts, TopSelects
  <2>2. UNCHANGED Sched!vars
    BY <1>1, <2>1, SameCoroutines DEF RunInTask, RunPanics, RunStarts, TopSelects, Sched!vars,
                                      coroutine, Sched!coroutine
  <2>3. QED
    BY <2>2 DEF SchedStep
<1>2. ASSUME rx = <<>>, wait_queue = {}, deferred_queue = <<>>, async_queue = NoAsyncs
      PROVE  Owed = {}
  <2>1. \A v : ~Queued(v)
    BY <1>2 DEF Queued
  <2>2. QED
    BY <1>2, <2>1, OwedNothing
    DEF NoAsyncs, HasPromise, HasWaitEntry, HasAsyncEntry, HasDeferredEntry, HasFuture
<1>3. ASSUME rx' = <<>>, wait_queue' = {}, deferred_queue' = <<>>, async_queue' = NoAsyncs
      PROVE  Owed' = {}
  <2>1. \A v : ~Queued(v)'
    BY <1>3 DEF Queued
  <2>2. \A t \in Thread, k \in Kind : ~HasPromise(t, k)'
    BY <1>3, <2>1
    DEF NoAsyncs, HasPromise, HasWaitEntry, HasAsyncEntry, HasDeferredEntry, HasFuture
  <2>3. QED
    BY <2>2 DEF Owed
<1>4. CASE RunRefused \/ TopReturns \/ ArmReturns \/ RecvDeferredPanics
  <2>1. Owed' = {} /\ rx' = <<>> /\ pc' = "exited"
    BY <1>3, <1>4
    DEF RunRefused, TopReturns, ArmReturns, RecvDeferredPanics, Return, Dropped, MapInv,
        IdleIsFresh
  <2>2. Clearing' = FALSE
    BY <2>1 DEF Clearing, Queued
  <2>3. UNCHANGED <<targeted, is_cancelled, lua, coroutine>>
    BY <1>4 DEF RunRefused, TopReturns, ArmReturns, RecvDeferredPanics, Return, Dropped
  <2>4. (is_cancelled \/ ~lua) /\ (done' = TRUE \/ (~lua /\ UNCHANGED done))
    BY <1>4
    DEF RunRefused, TopReturns, ArmReturns, RecvDeferredPanics, Return, Dropped, MustReturn,
        MapInv, IdleIsFresh
  <2>5. Sched!CloseDown
    BY <2>1, <2>2, <2>3, <2>4 DEF Sched!CloseDown, coroutine, Sched!coroutine
  <2>6. QED
    BY <2>5 DEF SchedStep, Sched!Next
<1>5. CASE AfterResume
  <2>1. \A t \in Thread : StillKnown(t)' <=> StillKnown(t)
    BY <1>5 DEF AfterResume, StillKnown, NotFiring
  <2>2. Owed' = Owed /\ Clearing' = Clearing
    BY <1>5, <2>1, OwedFrame, ClearingFrame
    DEF AfterResume, HasPromise, HasWaitEntry, HasAsyncEntry, HasDeferredEntry, Queued,
        HasFuture
  <2>3. UNCHANGED Sched!vars
    BY <1>5, <2>2, SameCoroutines DEF AfterResume, Sched!vars, coroutine, Sched!coroutine
  <2>4. QED
    BY <2>3 DEF SchedStep
<1>6. CASE Bottom
  <2>1. Owed' = Owed /\ Clearing' = Clearing
    BY <1>6, QueuesFrame, ClearingFrame DEF Bottom
  <2>2. NothingPending => Owed = {}
    BY <1>2 DEF NothingPending
  <2>3. done' \in BOOLEAN
    BY <1>6 DEF Bottom, NothingPending
  <2>4. Sched!Announce
    BY <1>6, <2>1, <2>2, <2>3, SameCoroutines DEF Bottom, Sched!Announce, coroutine,
                                                  Sched!coroutine
  <2>5. QED
    BY <2>4 DEF SchedStep, Sched!Next
<1>7. QED
  BY <1>1, <1>4, <1>5, <1>6

\* the events by which the promises of a coroutine are queued
QueuedOp(op, t) == Queued([op |-> op, thread |-> t])

LEMMA PromiseOps ==
  ASSUME NEW t
  PROVE  /\ HasWaitEntry(t) <=> QueuedOp("Wait", t) \/ \E e \in wait_queue : e.thread = t
         /\ HasAsyncEntry(t) <=> QueuedOp("AddAsync", t) \/ async_queue[t] > 0
         /\ HasDeferredEntry(t) <=>
              \/ QueuedOp("DeferredThread", t)
              \/ StillKnown(t) /\ \E i \in DOMAIN deferred_queue : deferred_queue[i] = t
         /\ HasWaitEntry(t)' <=> QueuedOp("Wait", t)' \/ \E e \in wait_queue' : e.thread = t
         /\ HasAsyncEntry(t)' <=> QueuedOp("AddAsync", t)' \/ async_queue'[t] > 0
         /\ HasDeferredEntry(t)' <=>
              \/ QueuedOp("DeferredThread", t)'
              \/ StillKnown(t)' /\ \E i \in DOMAIN deferred_queue' : deferred_queue'[i] = t
BY DEF HasWaitEntry, HasAsyncEntry, HasDeferredEntry, QueuedOp, HasFuture

LEMMA ReceivePromises ==
  ASSUME rx \in Seq(Event), NEW op, Receive(op)
  PROVE  \A o \in {"Wait", "DeferredThread", "AddAsync"}, t \in Thread :
           QueuedOp(o, t) <=> (o = op /\ t = Head(rx).thread) \/ QueuedOp(o, t)'
<1> SUFFICES ASSUME NEW o \in {"Wait", "DeferredThread", "AddAsync"}, NEW t \in Thread
             PROVE  QueuedOp(o, t) <=> (o = op /\ t = Head(rx).thread) \/ QueuedOp(o, t)'
  OBVIOUS
<1>1. Head(rx) \in Event /\ Head(rx).op = op
  BY DEF Receive
<1>2. Head(rx) = [op |-> o, thread |-> t] <=> o = op /\ t = Head(rx).thread
  <2>1. Head(rx) = [op |-> Head(rx).op, thread |-> Head(rx).thread]
    BY <1>1 DEF Event
  <2>2. QED
    BY <1>1, <2>1
<1>3. QED
  BY <1>2, EventType, ReceiveQueued DEF QueuedOp

(* Receiving an event moves a promise from the channel to a queue.          *)
LEMMA ReceiveStep ==
  ASSUME TypeOK, MapInv, RecvWait \/ RecvDeferred \/ RecvAsync
  PROVE  SchedStep
<1> USE DEF control, flags
<1>a. rx \in Seq(Event)
  BY DEF TypeOK
<1>1. Owed' = Owed
  <2> SUFFICES ASSUME NEW t \in Thread, NEW k \in Kind
               PROVE  HasPromise(t, k)' <=> HasPromise(t, k)
    BY OwedFrame
  <2>1. CASE RecvWait
    <3>1. Receive("Wait") /\ UNCHANGED <<async_queue, deferred_queue>>
          /\ (StillKnown(t)' <=> StillKnown(t))
      BY <2>1 DEF RecvWait, StillKnown
    <3>2. PICK key : wait_queue' = wait_queue \cup {[thread |-> Head(rx).thread, key |-> key]}
      BY <2>1 DEF RecvWait
    <3>3. \A o \in {"Wait", "DeferredThread", "AddAsync"} :
            QueuedOp(o, t) <=> (o = "Wait" /\ t = Head(rx).thread) \/ QueuedOp(o, t)'
      BY <1>a, <3>1, ReceivePromises
    <3>4. (\E e \in wait_queue' : e.thread = t)
             <=> t = Head(rx).thread \/ \E e \in wait_queue : e.thread = t
      <4>1. [thread |-> Head(rx).thread, key |-> key].thread = Head(rx).thread
            /\ [thread |-> Head(rx).thread, key |-> key] \in wait_queue'
        BY <3>2
      <4>2. QED
        BY <3>2, <4>1
    <3>5. /\ HasWaitEntry(t)' <=> HasWaitEntry(t)
          /\ HasAsyncEntry(t)' <=> HasAsyncEntry(t)
          /\ HasDeferredEntry(t)' <=> HasDeferredEntry(t)
      BY <3>1, <3>3, <3>4, PromiseOps
    <3>6. QED
      BY <3>5 DEF HasPromise
  <2>2. CASE RecvDeferred
    <3>1. Receive("DeferredThread") /\ UNCHANGED <<wait_queue, async_queue>>
      BY <2>2 DEF RecvDeferred
    <3>2. \A o \in {"Wait", "DeferredThread", "AddAsync"} :
            QueuedOp(o, t) <=> (o = "DeferredThread" /\ t = Head(rx).thread) \/ QueuedOp(o, t)'
      BY <1>a, <3>1, ReceivePromises
    <3>3. firing = NotFiring /\ firing' = NotFiring
      BY <2>2 DEF RecvDeferred, Receive, AtSelect, MapInv, NotFiringOutside
    <3>4. StillKnown(t)' <=> StillKnown(t) \/ t = Head(rx).thread
      BY <2>2, <3>3 DEF RecvDeferred, StillKnown, NotFiring
    <3>5. (\E i \in DOMAIN deferred_queue' : deferred_queue'[i] = t)
             <=> t = Head(rx).thread \/ \E i \in DOMAIN deferred_queue : deferred_queue[i] = t
      <4>1. /\ DOMAIN deferred_queue = 1..Len(deferred_queue) /\ Len(deferred_queue) \in Nat
            /\ DOMAIN deferred_queue' = 1..(Len(deferred_queue) + 1)
            /\ deferred_queue'[Len(deferred_queue) + 1] = Head(rx).thread
            /\ \A i \in DOMAIN deferred_queue : deferred_queue'[i] = deferred_queue[i]
        BY <2>2, <1>a DEF RecvDeferred, AddDeferred, TypeOK
      <4>2. \A i \in DOMAIN deferred_queue' :
              i \in DOMAIN deferred_queue \/ i = Len(deferred_queue) + 1
        BY <4>1
      <4>3. QED
        BY <4>1, <4>2
    <3>6. /\ HasWaitEntry(t)' <=> HasWaitEntry(t)
          /\ HasAsyncEntry(t)' <=> HasAsyncEntry(t)
      BY <3>1, <3>2, PromiseOps
    <3>7. HasDeferredEntry(t)' <=> HasDeferredEntry(t)
      <4>1. CASE t = Head(rx).thread
        BY <3>2, <3>4, <3>5, <4>1, PromiseOps
      <4>2. CASE t # Head(rx).thread
        BY <3>2, <3>4, <3>5, <4>2, PromiseOps
      <4>3. QED
        BY <4>1, <4>2
    <3>8. QED
      BY <3>6, <3>7 DEF HasPromise
  <2>3. CASE RecvAsync
    <3>1. Receive("AddAsync") /\ UNCHANGED <<wait_queue, deferred_queue>>
          /\ (StillKnown(t)' <=> StillKnown(t))
      BY <2>3 DEF RecvAsync, StillKnown
    <3>2. \A o \in {"Wait", "DeferredThread", "AddAsync"} :
            QueuedOp(o, t) <=> (o = "AddAsync" /\ t = Head(rx).thread) \/ QueuedOp(o, t)'
      BY <1>a, <3>1, ReceivePromises
    <3>3. async_queue'[t] > 0 <=> t = Head(rx).thread \/ async_queue[t] > 0
      BY <2>3 DEF RecvAsync, TypeOK
    <3>4. /\ HasWaitEntry(t)' <=> HasWaitEntry(t)
          /\ HasAsyncEntry(t)' <=> HasAsyncEntry(t)
          /\ HasDeferredEntry(t)' <=> HasDeferredEntry(t)
      BY <3>1, <3>2, <3>3, PromiseOps
    <3>5. QED
      BY <3>4 DEF HasPromise
  <2>4. QED
    BY <2>1, <2>2, <2>3
<1>2. Clearing' = Clearing
  BY ClearingReceive DEF RecvWait, RecvDeferred, RecvAsync
<1>3. UNCHANGED Sched!vars
  BY <1>1, <1>2 DEF RecvWait, RecvDeferred, RecvAsync, Receive, AtSelect, Sched!vars, coroutine,
              Sched!coroutine, Sched!rest
<1>4. QED
  BY <1>3 DEF SchedStep

(* The drain of Clear drops waiting and deferred coroutines, never futures. *)
LEMMA DrainStep ==
  ASSUME TypeOK, MapInv, RecvClear
  PROVE  SchedStep
<1>1. Clearing /\ Clearing' = FALSE
  <2>1. rx \in Seq(Event) /\ Head(rx) \in Event /\ Head(rx).op = "Clear"
    BY DEF RecvClear, Receive, TypeOK
  <2>2. Head(rx) = [op |-> "Clear", thread |-> NoThread]
    BY <2>1 DEF Event
  <2>3. Queued([op |-> "Clear", thread |-> NoThread])
    BY <2>1, <2>2, EventType, ReceiveQueued DEF RecvClear
  <2>4. QED
    BY <2>3 DEF Clearing, RecvClear, Receive, AtSelect
<1>2. \A o \in {"Wait", "DeferredThread", "AddAsync"}, t \in Thread :
        QueuedOp(o, t) <=> QueuedOp(o, t)'
  BY ReceivePromises DEF RecvClear, TypeOK
<1>3. ASSUME NEW t \in Thread
      PROVE  /\ HasWaitEntry(t)' => HasWaitEntry(t)
             /\ HasDeferredEntry(t)' => HasDeferredEntry(t)
             /\ HasAsyncEntry(t)' <=> HasAsyncEntry(t)
  BY <1>2, PromiseOps DEF RecvClear
<1>4. /\ Owed' \subseteq Owed
      /\ \A t \in Thread : <<t, "awaiting">> \in Owed => <<t, "awaiting">> \in Owed'
  BY <1>3 DEF Owed, HasPromise, Kind
<1>5. Sched!TakesEffect
  BY <1>1, <1>4
  DEF RecvClear, Receive, AtSelect, Sched!TakesEffect, flags, coroutine, Sched!coroutine,
      Sched!rest
<1>6. QED
  BY <1>5 DEF SchedStep, Sched!Next

(* An entry of the delay queue expires.                                     *)
LEMMA WaitArmStep ==
  ASSUME TypeOK, MapInv, MarksTargeted, NEW e \in wait_queue, SkipWait(e) \/ FireWait(e)
  PROVE  SchedStep
<1>1. e.thread \in Thread /\ "waiting" \in Kind
  BY DEF TypeOK, WaitEntry, Kind
<1>2. firing.arm # "deferred" /\ firing'.arm # "deferred"
  BY DEF SkipWait, FireWait, AtSelect, MapInv, NotFiringOutside, NotFiring
<1>3. \A t \in Thread : StillKnown(t)' <=> StillKnown(t)
  BY <1>2, KnownFrame DEF SkipWait, FireWait
<1>4. \A o, t : QueuedOp(o, t)' <=> QueuedOp(o, t)
  BY DEF SkipWait, FireWait, QueuedOp, Queued
<1>5. wait_queue' = wait_queue \ {e} /\ UNCHANGED <<async_queue, deferred_queue>>
  BY DEF SkipWait, FireWait
<1>6. HasPromise(e.thread, "waiting")
  BY DEF HasPromise, HasWaitEntry
<1>7. ASSUME NEW t \in Thread, NEW k \in Kind, t # e.thread \/ k # "waiting"
      PROVE  HasPromise(t, k)' <=> HasPromise(t, k)
  <2>1. (HasAsyncEntry(t)' <=> HasAsyncEntry(t)) /\ (HasDeferredEntry(t)' <=> HasDeferredEntry(t))
    BY <1>3, <1>4, <1>5, PromiseOps
  <2>2. t # e.thread => (HasWaitEntry(t)' <=> HasWaitEntry(t))
    BY <1>4, <1>5, PromiseOps
  <2>3. QED
    BY <1>7, <2>1, <2>2 DEF HasPromise
<1>8. Owed' \in {Owed, Owed \ {<<e.thread, "waiting">>}}
  BY <1>1, <1>6, <1>7, OwedShrinks
<1>c. Clearing' = Clearing
  BY ClearingFrame DEF SkipWait, FireWait, AtSelect
<1> USE <1>c DEF Sched!rest
<1>9. CASE SkipWait(e)
  <2>1. e.thread \in targeted
    BY <1>9 DEF SkipWait, Cancelled, MarksTargeted
  <2>2. Owed' = Owed => UNCHANGED Sched!vars
    BY <1>9 DEF SkipWait, AtSelect, Sched!vars, flags, coroutine, Sched!coroutine
  <2>3. Owed' = Owed \ {<<e.thread, "waiting">>} => Sched!Discard(e.thread, "waiting")
    BY <1>9, <2>1 DEF SkipWait, AtSelect, Sched!Discard, flags, coroutine, Sched!coroutine
  <2>4. QED
    BY <1>1, <1>8, <2>2, <2>3 DEF SchedStep, Sched!Next, Sched!Kind, Kind
<1>10. CASE FireWait(e)
  <2>1. <<e.thread, "waiting">> \in Owed
    BY <1>1, <1>6, OwedMember
  <2>2. Sched!Deliver(e.thread, "waiting")
    BY <1>8, <1>10, <2>1, SameCoroutines DEF FireWait, AtSelect, Sched!Deliver, flags
  <2>3. QED
    BY <1>1, <2>2 DEF SchedStep, Sched!Next, Sched!Kind, Kind
<1>11. QED
  BY <1>9, <1>10

(* A future completes.                                                      *)
LEMMA AsyncArmStep ==
  ASSUME TypeOK, MapInv, NEW t \in Thread, FireAsync(t)
  PROVE  SchedStep
<1>1. "awaiting" \in Kind
  BY DEF Kind
<1>2. firing.arm # "deferred" /\ firing'.arm # "deferred"
  BY DEF FireAsync, AtSelect, MapInv, NotFiringOutside, NotFiring
<1>3. \A u \in Thread : StillKnown(u)' <=> StillKnown(u)
  BY <1>2, KnownFrame DEF FireAsync
<1>4. \A o, u : QueuedOp(o, u)' <=> QueuedOp(o, u)
  BY DEF FireAsync, QueuedOp, Queued
<1>5. \A u \in Thread : u # t => async_queue'[u] = async_queue[u]
  BY DEF FireAsync, TypeOK
<1>6. HasPromise(t, "awaiting")
  BY DEF FireAsync, HasPromise, HasAsyncEntry
<1>7. ASSUME NEW u \in Thread, NEW k \in Kind, u # t \/ k # "awaiting"
      PROVE  HasPromise(u, k)' <=> HasPromise(u, k)
  <2>1. (HasWaitEntry(u)' <=> HasWaitEntry(u)) /\ (HasDeferredEntry(u)' <=> HasDeferredEntry(u))
    BY <1>3, <1>4, PromiseOps DEF FireAsync
  <2>2. u # t => (HasAsyncEntry(u)' <=> HasAsyncEntry(u))
    BY <1>4, <1>5, PromiseOps
  <2>3. QED
    BY <1>7, <2>1, <2>2 DEF HasPromise
<1>8. Owed' \in {Owed, Owed \ {<<t, "awaiting">>}}
  BY <1>1, <1>6, <1>7, OwedShrinks
<1>9. <<t, "awaiting">> \in Owed
  BY <1>1, <1>6, OwedMember
<1>c. Clearing' = Clearing
  BY ClearingFrame DEF FireAsync, AtSelect
<1>10. Sched!Deliver(t, "awaiting")
  BY <1>8, <1>9, <1>c, SameCoroutines DEF Sched!rest, FireAsync, AtSelect, Sched!Deliver, flags
<1>11. QED
  BY <1>1, <1>10 DEF SchedStep, Sched!Next, Sched!Kind, Kind

(* An entry of the deferred queue is taken.                                 *)
LEMMA DeferredArmStep ==
  ASSUME TypeOK, MapInv, MarksTargeted, SkipDeferred \/ DropDeferred \/ FireDeferred
  PROVE  SchedStep
<1> DEFINE InQueue(t) == \E i \in DOMAIN deferred_queue : deferred_queue[i] = t
<1>1. TakeDeferred /\ deferred_queue \in Seq(Thread) /\ deferred_queue # <<>> /\ "deferred" \in Kind
  BY DEF SkipDeferred, DropDeferred, FireDeferred, TakeDeferred, TypeOK, Kind
<1>2. PICK h \in Thread : h = Head(deferred_queue)
  BY <1>1
<1>3. \A t \in Thread : InQueue(t) <=> t = h \/ InQueue(t)'
  BY <1>1, <1>2, TakeDeferredQueued
<1> HIDE DEF InQueue
<1>4. firing = NotFiring /\ pc = "select" /\ current = NoThread /\ lua
  BY <1>1 DEF TakeDeferred, AtSelect, MapInv, NotFiringOutside
<1>5. \A o, t : QueuedOp(o, t)' <=> QueuedOp(o, t)
  BY <1>1 DEF TakeDeferred, QueuedOp, Queued
<1>6. UNCHANGED <<wait_queue, async_queue, known_deferred_threads>>
  BY <1>1 DEF TakeDeferred
<1>7. \A t \in Thread :
        /\ StillKnown(t) <=> t \in known_deferred_threads
        /\ t # h => (StillKnown(t)' <=> StillKnown(t))
  BY <1>2, <1>4, <1>6
  DEF StillKnown, NotFiring, SkipDeferred, DropDeferred, FireDeferred
<1>8. \A t \in Thread :
        /\ HasDeferredEntry(t) <=>
             QueuedOp("DeferredThread", t) \/ (StillKnown(t) /\ InQueue(t))
        /\ HasDeferredEntry(t)' <=>
             QueuedOp("DeferredThread", t)' \/ (StillKnown(t)' /\ InQueue(t)')
  BY PromiseOps DEF InQueue
<1>9. ASSUME NEW t \in Thread, NEW k \in Kind, t # h \/ k # "deferred"
      PROVE  HasPromise(t, k)' <=> HasPromise(t, k)
  <2>1. (HasWaitEntry(t)' <=> HasWaitEntry(t)) /\ (HasAsyncEntry(t)' <=> HasAsyncEntry(t))
    BY <1>5, <1>6, PromiseOps
  <2>2. t # h => (HasDeferredEntry(t)' <=> HasDeferredEntry(t))
    BY <1>3, <1>5, <1>7, <1>8
  <2>3. QED
    BY <1>9, <2>1, <2>2 DEF HasPromise
<1>10. HasPromise(h, "deferred") => Owed' \in {Owed, Owed \ {<<h, "deferred">>}}
  BY <1>1, <1>2, <1>9, OwedShrinks
<1>11. ~HasPromise(h, "deferred") /\ (StillKnown(h)' => StillKnown(h)) => Owed' = Owed
  <2> SUFFICES ASSUME ~HasPromise(h, "deferred"), StillKnown(h)' => StillKnown(h)
               PROVE  Owed' = Owed
    OBVIOUS
  <2>1. ~HasPromise(h, "deferred")'
    BY <1>2, <1>3, <1>5, <1>8 DEF HasPromise
  <2>2. QED
    BY <1>1, <1>2, <1>9, <2>1, OwedFrame
<1>c. Clearing' = Clearing
  BY <1>1, ClearingFrame DEF SkipDeferred, DropDeferred, FireDeferred, TakeDeferred, AtSelect
<1> USE <1>c DEF Sched!rest
<1>12. CASE SkipDeferred \/ DropDeferred
  <2>1. StillKnown(h)' <=> StillKnown(h)
    BY <1>6, <1>12 DEF SkipDeferred, DropDeferred, StillKnown
  <2>2. UNCHANGED <<targeted, done, is_cancelled, lua, coroutine>> /\ pc' # "exited"
    BY <1>1, <1>12 DEF SkipDeferred, DropDeferred, TakeDeferred, flags
  <2>3. Owed' = Owed => UNCHANGED Sched!vars
    BY <1>4, <2>2 DEF Sched!vars, coroutine, Sched!coroutine
  <2>4. CASE SkipDeferred
    <3>1. h \in targeted
      BY <1>2, <2>4 DEF SkipDeferred, Cancelled, MarksTargeted
    <3>2. Owed' = Owed \ {<<h, "deferred">>} => Sched!Discard(h, "deferred")
      BY <1>4, <2>2, <3>1 DEF Sched!Discard, coroutine, Sched!coroutine
    <3>3. QED
      BY <1>1, <1>2, <1>10, <1>11, <2>1, <2>3, <3>2 DEF SchedStep, Sched!Next, Sched!Kind, Kind
  <2>5. CASE DropDeferred
    <3>1. ~StillKnown(h)
      BY <1>2, <1>7, <2>5 DEF DropDeferred
    <3>2. HasPromise(h, "deferred")' <=> HasPromise(h, "deferred")
      BY <1>2, <1>5, <1>8, <2>1, <3>1 DEF HasPromise
    <3>3. Owed' = Owed
      BY <1>2, <1>9, <3>2, OwedFrame
    <3>4. QED
      BY <2>3, <3>3 DEF SchedStep
  <2>6. QED
    BY <1>12, <2>4, <2>5
<1>13. CASE FireDeferred
  <2>1. h \in known_deferred_threads /\ Resume(h)
    BY <1>2, <1>13 DEF FireDeferred
  <2>2. HasPromise(h, "deferred")
    BY <1>2, <1>3, <1>7, <1>8, <2>1 DEF HasPromise
  <2>3. <<h, "deferred">> \in Owed /\ Owed' \in {Owed, Owed \ {<<h, "deferred">>}}
    BY <1>1, <1>2, <1>10, <2>2, OwedMember
  <2>4. Sched!Deliver(h, "deferred")
    BY <1>4, <1>13, <2>1, <2>3, SameCoroutines
    DEF FireDeferred, TakeDeferred, Sched!Deliver, flags
  <2>5. QED
    BY <1>1, <1>2, <2>4 DEF SchedStep, Sched!Next, Sched!Kind, Kind
<1>14. QED
  BY <1>12, <1>13

LEMMA MapStep ==
  ASSUME MarksMeetTheirOwn, TypeOK, MapInv, MarksTargeted, [Next]_vars
  PROVE  SchedStep
<1>1. CASE UNCHANGED vars
  <2>1. Owed' = Owed /\ Clearing' = Clearing
    BY <1>1, QueuesFrame, ClearingFrame DEF vars, locals, control
  <2>2. QED
    BY <1>1, <2>1
    DEF vars, control, flags, SchedStep, Sched!vars, coroutine, Sched!coroutine, Sched!rest
<1>2. CASE Environment
  BY <1>2, ScriptStep
<1>3. CASE Run
  BY <1>3, ControlStep, ReceiveStep, DrainStep, WaitArmStep, AsyncArmStep, DeferredArmStep
  DEF Run
<1>4. QED
  BY <1>1, <1>2, <1>3 DEF Next

(* The v2 scheduler implements Scheduler, in every program that does not    *)
(* both cancel coroutines and use addresses again: it loses no promise to   *)
(* resume a coroutine, resumes none it does not owe, and reports done only  *)
(* when it owes nothing.                                                    *)
THEOREM V2ImplementsScheduler ==
  ASSUME MarksMeetTheirOwn
  PROVE  Spec => ImplementsScheduler
<1>1. Init => Sched!Init
  <2> SUFFICES ASSUME Init PROVE Sched!Init
    OBVIOUS
  <2>1. Owed = {}
    BY OwedNothing
    DEF Init, HasPromise, HasWaitEntry, HasAsyncEntry, HasDeferredEntry, Queued, NoAsyncs,
        HasFuture
  <2>2. Clearing = FALSE
    BY DEF Init, Clearing, Queued
  <2>3. QED
    BY <2>1, <2>2, SameCoroutines DEF Init, Sched!Init
<1>2. Init => MarksTargeted
  BY DEF Init, MarksTargeted
<1>3. TypeOK /\ MarksTargeted /\ [Next]_vars => MarksTargeted'
  BY MarksInductive
<1>4. TypeOK /\ MapInv /\ MarksTargeted /\ [Next]_vars => [Sched!Next]_(Sched!vars)
  BY MapStep DEF SchedStep
<1>5. QED
  BY <1>1, <1>2, <1>3, <1>4, TypeCorrect, MapCorrect, PTL DEF Spec, ImplementsScheduler,
                                                              Sched!Spec

-----------------------------------------------------------------------------
(* What follows for the v2 scheduler from theorems about Scheduler.         *)

SchedP == INSTANCE SchedulerProofs WITH
            owed <- Owed, cancelled <- targeted, finished <- done,
            open <- (pc # "exited"), clearing <- Clearing,
            ClearsAtOnce <- FALSE

\* Sched and SchedP are the same specification
LEMMA SameScheduler ==
  /\ Sched!Init <=> SchedP!Init
  /\ Sched!Next <=> SchedP!Next
  /\ Sched!vars = SchedP!vars
<1>1. Sched!Init <=> SchedP!Init
  BY DEF Sched!Init, SchedP!Init, Sched!CoroutineInit, SchedP!CoroutineInit
<1>2. Sched!vars = SchedP!vars
  BY DEF Sched!vars, SchedP!vars, Sched!coroutine, SchedP!coroutine, Sched!rest, SchedP!rest
<1>3. Sched!Next <=> SchedP!Next
  BY DEF
  Sched!Next, Sched!Suspend, Sched!Schedule, Sched!Runs, Sched!Control, Sched!Clear,
  Sched!CoroutineClose, Sched!Cancel, Sched!Collect, Sched!Deliver, Sched!Discard,
  Sched!TakesEffect, Sched!Announce, Sched!CloseDown, Sched!Promises, Sched!NotAnnounced,
  Sched!Kind, Sched!Enter, Sched!Leave, Sched!Resume, Sched!Resumable, Sched!Ended,
  Sched!IntoThread, Sched!Close, Sched!coroutine, Sched!rest,
  SchedP!Next, SchedP!Suspend, SchedP!Schedule, SchedP!Runs, SchedP!Control, SchedP!Clear,
  SchedP!CoroutineClose, SchedP!Cancel, SchedP!Collect, SchedP!Deliver, SchedP!Discard,
  SchedP!TakesEffect, SchedP!Announce, SchedP!CloseDown, SchedP!Promises, SchedP!NotAnnounced,
  SchedP!Kind, SchedP!Enter, SchedP!Leave, SchedP!Resume, SchedP!Resumable, SchedP!Ended,
  SchedP!IntoThread, SchedP!Close, SchedP!coroutine, SchedP!rest
<1>4. QED
  BY <1>1, <1>2, <1>3

(* done of the v2 scheduler becomes true, while the loop runs, only when no *)
(* coroutine is left suspended in task.wait or in an async function that    *)
(* was not cancelled, unless the program calls clear, or both cancels       *)
(* coroutines and uses addresses again: the same promise, inherited.        *)
THEOREM V2FinishesWithNobodySuspended ==
  ASSUME MarksMeetTheirOwn
  PROVE  Spec => FinishesWithNobodySuspended
<1>1. Spec => ImplementsScheduler
  BY V2ImplementsScheduler
<1>2. [Sched!Next]_(Sched!vars) => [SchedP!Next]_(SchedP!vars)
  <2>1. Sched!vars' = SchedP!vars'
    BY DEF Sched!vars, SchedP!vars, Sched!coroutine, SchedP!coroutine, Sched!rest, SchedP!rest
  <2>2. QED
    BY <2>1, SameScheduler
<1>3. ImplementsScheduler => SchedP!Spec
  BY <1>2, SameScheduler, PTL DEF ImplementsScheduler, Sched!Spec, SchedP!Spec
<1>4. SchedP!Spec => SchedP!FinishesWithNobodySuspended
  BY SchedP!SchedulerFinishes, ThreadAssumption
<1> DEFINE Nobody ==
      ~done /\ done' /\ lua' /\ (pc # "exited")' /\ ~is_cancelled /\ "clear" \notin Calls =>
        \A t \in Thread : /\ status[t] = "waiting" => t \in targeted
                          /\ status[t] # "awaiting"
<1>5. SchedP!FinishesWithNobodySuspended => FinishesWithNobodySuspended
  <2>1. [Nobody]_(SchedP!vars) => [Nobody]_(Sched!vars)
    BY DEF Sched!vars, SchedP!vars, Sched!coroutine, SchedP!coroutine, Sched!rest, SchedP!rest
  <2>2. QED
    BY <2>1, PTL
    DEF SchedP!FinishesWithNobodySuspended, FinishesWithNobodySuspended,
        Sched!FinishesWithNobodySuspended
<1>6. QED
  BY <1>1, <1>3, <1>4, <1>5
=============================================================================
