-------------------- MODULE TaskManagerV1RefinementProofs --------------------
(* TaskManagerV1 implements Scheduler, for every set of coroutines and      *)
(* futures, every bound and every selection of calls.                       *)
EXTENDS TaskManagerV1Refinement, TaskManagerV1Proofs

-----------------------------------------------------------------------------
(* How the set of promises changes.                                         *)

LEMMA OwedFrame ==
  ASSUME \A t \in Thread, k \in Kind : HasPromise(t, k)' <=> HasPromise(t, k)
  PROVE  Owed' = Owed
BY DEF Owed

LEMMA OwedGrows ==
  ASSUME NEW t \in Thread, NEW k \in Kind, HasPromise(t, k)',
         \A u \in Thread, j \in Kind :
           (u # t \/ j # k) => (HasPromise(u, j)' <=> HasPromise(u, j))
  PROVE  Owed' = Owed \cup {<<t, k>>}
BY DEF Owed

LEMMA OwedShrinks ==
  ASSUME NEW t \in Thread, NEW k \in Kind, HasPromise(t, k),
         \A u \in Thread, j \in Kind :
           (u # t \/ j # k) => (HasPromise(u, j)' <=> HasPromise(u, j))
  PROVE  <<t, k>> \in Owed /\ Owed' \in {Owed, Owed \ {<<t, k>>}}
BY DEF Owed

LEMMA OwedNothing ==
  ASSUME \A t \in Thread, k \in Kind : ~HasPromise(t, k)
  PROVE  Owed = {}
BY DEF Owed

(* An action that moves no entry changes no promise; whether a future has   *)
(* been lost makes no difference.                                           *)
LEMMA QueuesFrame ==
  ASSUME UNCHANGED queues,
         async_task_executor' \cup lost' = async_task_executor \cup lost
  PROVE  Owed' = Owed
BY OwedFrame DEF queues, HasPromise, HasWaitEntry, HasFuture, HasDeferredEntry

(* A new entry of the heap makes one promise.                               *)
LEMMA AddPromises ==
  ASSUME NEW t \in Thread, NEW duration, AddWaitingThread(t, duration),
         UNCHANGED <<deferred_queue, asyncs>>
  PROVE  Owed' = Owed \cup {<<t, "waiting">>}
<1>1. PICK slot : waiting_queue' = waiting_queue
                    \cup {[thread |-> t, wake_at |-> now + duration, slot |-> slot]}
  BY DEF AddWaitingThread
<1>2. [thread |-> t, wake_at |-> now + duration, slot |-> slot].thread = t
  OBVIOUS
<1>3. HasPromise(t, "waiting")'
  BY AddWaits DEF HasPromise
<1>4. ASSUME NEW u \in Thread, NEW j \in Kind, u # t \/ j # "waiting"
      PROVE  HasPromise(u, j)' <=> HasPromise(u, j)
  <2>1. u # t => (HasWaitEntry(u)' <=> HasWaitEntry(u))
    BY <1>1, <1>2 DEF HasWaitEntry
  <2>2. QED
    BY <1>4, <2>1 DEF HasPromise, HasFuture, HasDeferredEntry, asyncs
<1>5. "waiting" \in Kind
  BY DEF Kind
<1>6. QED
  BY <1>3, <1>4, <1>5, OwedGrows

-----------------------------------------------------------------------------
(* Every step of TaskManagerV1 is a step of Scheduler or changes nothing    *)
(* that Scheduler sees.                                                     *)

SchedStep == [Sched!Next]_(Sched!vars)

(* Scheduler and TaskManagerV1 agree about the Lua side.                    *)
LEMMA SameCoroutines ==
  /\ Sched!CoroutineInit <=> CoroutineInit
  /\ \A t : (Sched!Enter(t) <=> Enter(t)) /\ (Sched!Leave(t) <=> Leave(t))
          /\ (Sched!Resume(t) <=> Resume(t))
          /\ Sched!IntoThread(t) = IntoThread(t) /\ Sched!Close(t) = Close(t)
  /\ Sched!Resumable = Resumable /\ Sched!Ended = Ended
BY DEF Sched!CoroutineInit, CoroutineInit, Sched!coroutine, coroutine, Sched!Enter, Enter,
       Sched!Leave, Leave, Sched!Resume, Resume, Sched!IntoThread, IntoThread, Sched!Close, Close,
       Sched!Resumable, Resumable, Sched!Ended, Ended

(* A step that Scheduler does not see.                                      *)
LEMMA Stutter ==
  ASSUME UNCHANGED <<queues, is_cancelled, lua, coroutine>>, waiter' = waiter,
         async_task_executor' \cup lost' = async_task_executor \cup lost
  PROVE  SchedStep
<1>1. Owed' = Owed
  BY QueuesFrame
<1>2. QED
  BY <1>1 DEF SchedStep, Sched!vars, Sched!rest, coroutine, Sched!coroutine

(* Delivery of a promise of the heap, of the deque or of a future.          *)
LEMMA DeliverStep ==
  ASSUME NEW t \in Thread, NEW k \in Kind, lua, current = NoThread, Resume(t),
         <<t, k>> \in Owed, Owed' \in {Owed, Owed \ {<<t, k>>}},
         UNCHANGED <<is_cancelled, lua, waiter>>
  PROVE  SchedStep
<1>1. Sched!Deliver(t, k)
  BY SameCoroutines DEF Sched!Deliver, Sched!rest
<1>2. QED
  BY <1>1 DEF SchedStep, Sched!Next, Sched!Kind, Kind

(* An entry is dropped because the Lua state is gone.                       *)
LEMMA DiscardStep ==
  ASSUME NEW t \in Thread, NEW k \in {"waiting", "deferred"}, ~lua,
         Owed' \in {Owed, Owed \ {<<t, k>>}},
         UNCHANGED <<is_cancelled, lua, waiter, coroutine>>
  PROVE  SchedStep
<1>1. CASE Owed' = Owed
  BY <1>1 DEF SchedStep, Sched!vars, Sched!rest, coroutine, Sched!coroutine
<1>2. CASE Owed' = Owed \ {<<t, k>>}
  <2>1. Sched!Discard(t, k)
    BY <1>2 DEF Sched!Discard, Sched!rest, coroutine, Sched!coroutine
  <2>2. QED
    BY <2>1 DEF SchedStep, Sched!Next, Sched!Kind
<1>3. QED
  BY <1>1, <1>2

LEMMA ScriptStep ==
  ASSUME TypeOK, LoopInv, Environment
  PROVE  SchedStep
<1> USE DEF queues, asyncs, flags, outside, Sched!rest
<1>1. ASSUME NEW t \in Thread, TaskSpawn(t) PROVE SchedStep
  <2>1. Owed' = Owed
    BY <1>1, QueuesFrame DEF TaskSpawn
  <2>2. Sched!Runs
    BY <1>1, <2>1, SameCoroutines DEF TaskSpawn, Sched!Runs
  <2>3. QED
    BY <2>2 DEF SchedStep, Sched!Next
<1>2. CASE CoroutineYield \/ CoroutineEnds
  <2>1. Owed' = Owed
    BY <1>2, QueuesFrame DEF CoroutineYield, CoroutineEnds
  <2>2. Sched!Runs
    BY <1>2, <2>1, SameCoroutines DEF CoroutineYield, CoroutineEnds, Sched!Runs
  <2>3. QED
    BY <2>2 DEF SchedStep, Sched!Next
<1>3. CASE TaskWait
  <2>1. current \in Thread
    BY <1>3 DEF TaskWait, TypeOK, CoroutineType
  <2>2. Owed' = Owed \cup {<<current, "waiting">>}
    BY <1>3, <2>1, AddPromises DEF TaskWait
  <2>3. Sched!Suspend("waiting")
    BY <1>3, <2>2, SameCoroutines
    DEF TaskWait, Sched!Suspend, Sched!Promises, Sched!NotAnnounced
  <2>4. QED
    BY <2>3 DEF SchedStep, Sched!Next
<1>4. CASE CallAsync
  <2>1. PICK t \in Thread : t = current
    BY <1>4 DEF CallAsync, TypeOK, CoroutineType
  <2>2. PICK future : async_task_executor' = async_task_executor
                        \cup {[thread |-> t, future |-> future]}
    BY <1>4, <2>1 DEF CallAsync
  <2>3. [thread |-> t, future |-> future].thread = t
    OBVIOUS
  <2>4. HasPromise(t, "awaiting")' /\ "awaiting" \in Kind
    BY <2>2, <2>3 DEF HasPromise, HasFuture, Kind
  <2>5. ASSUME NEW u \in Thread, NEW j \in Kind, u # t \/ j # "awaiting"
        PROVE  HasPromise(u, j)' <=> HasPromise(u, j)
    <3>1. u # t => (HasFuture(u)' <=> HasFuture(u))
      BY <1>4, <2>2, <2>3 DEF CallAsync, HasFuture
    <3>2. QED
      BY <1>4, <2>5, <3>1 DEF CallAsync, HasPromise, HasWaitEntry, HasDeferredEntry
  <2>6. Owed' = Owed \cup {<<t, "awaiting">>}
    BY <2>4, <2>5, OwedGrows
  <2>7. Sched!Suspend("awaiting")
    BY <1>4, <2>1, <2>6, SameCoroutines
    DEF CallAsync, Sched!Suspend, Sched!Promises, Sched!NotAnnounced
  <2>8. QED
    BY <2>7 DEF SchedStep, Sched!Next
<1>5. ASSUME NEW t \in Thread, TaskDelay(t) PROVE SchedStep
  <2>1. Owed' = Owed \cup {<<t, "waiting">>}
    BY <1>5, AddPromises DEF TaskDelay
  <2>2. Sched!Schedule(t, "waiting")
    BY <1>5, <2>1, SameCoroutines
    DEF TaskDelay, Sched!Schedule, Sched!Promises, Sched!NotAnnounced
  <2>3. QED
    BY <2>2 DEF SchedStep, Sched!Next
<1>6. ASSUME NEW t \in Thread, TaskDefer(t) PROVE SchedStep
  <2>1. \A u : HasDeferredEntry(u)' <=> u = t \/ HasDeferredEntry(u)
    BY <1>6, PushKeeps DEF TaskDefer, TypeOK, HasDeferredEntry
  <2>2. HasPromise(t, "deferred")' /\ "deferred" \in Kind
    BY <2>1 DEF HasPromise, Kind
  <2>3. \A u \in Thread, j \in Kind :
          (u # t \/ j # "deferred") => (HasPromise(u, j)' <=> HasPromise(u, j))
    BY <1>6, <2>1 DEF TaskDefer, HasPromise, HasWaitEntry, HasFuture
  <2>4. Owed' = Owed \cup {<<t, "deferred">>}
    BY <2>2, <2>3, OwedGrows
  <2>5. Sched!Schedule(t, "deferred")
    BY <1>6, <2>4, SameCoroutines
    DEF TaskDefer, Sched!Schedule, Sched!Promises, Sched!NotAnnounced
  <2>6. QED
    BY <2>5 DEF SchedStep, Sched!Next
<1>7. ASSUME NEW t \in Thread, TaskCancel(t) PROVE SchedStep
  <2>1. \A u : HasDeferredEntry(u)' <=> u # t /\ HasDeferredEntry(u)
    BY <1>7, RetainKeeps DEF TaskCancel, TypeOK, HasDeferredEntry
  <2>2. \A u : HasWaitEntry(u)' <=> u # t /\ HasWaitEntry(u)
    BY <1>7 DEF TaskCancel, HasWaitEntry
  <2>3. \A u : HasFuture(u)' <=> HasFuture(u)
    BY <1>7 DEF TaskCancel, HasFuture
  <2>4. Owed' = Owed \ {<<t, "waiting">>, <<t, "deferred">>}
    BY <2>1, <2>2, <2>3 DEF Owed, HasPromise, Kind
  <2>5. Sched!Cancel(t)
    BY <1>7, <2>4, SameCoroutines DEF TaskCancel, Sched!Cancel
  <2>6. QED
    BY <2>5 DEF SchedStep, Sched!Next
<1>8. CASE Stop \/ Unstop \/ DropLua
  <2>1. Owed' = Owed
    BY <1>8, QueuesFrame DEF Stop, Unstop, DropLua
  <2>2. Sched!Control
    BY <1>8, <2>1 DEF Stop, Unstop, DropLua, Sched!Control, coroutine, Sched!coroutine
  <2>3. QED
    BY <2>2 DEF SchedStep, Sched!Next
<1>9. CASE Clear
  <2>1. \A t : ~HasWaitEntry(t)' /\ ~HasDeferredEntry(t)' /\ (HasFuture(t)' <=> HasFuture(t))
    BY <1>9 DEF Clear, HasWaitEntry, HasDeferredEntry, HasFuture
  <2>2. Owed' = {p \in Owed : p[2] = "awaiting"}
    BY <2>1 DEF Owed, HasPromise, Kind
  <2>3. Sched!Clear
    BY <1>9, <2>2 DEF Clear, Sched!Clear, Sched!NotAnnounced, coroutine, Sched!coroutine
  <2>4. QED
    BY <2>3 DEF SchedStep, Sched!Next
<1>10. CASE ClockTicks
  BY <1>10, Stutter DEF ClockTicks
<1>11. ASSUME NEW a \in async_task_executor, AsyncPanics(a) PROVE SchedStep
  BY <1>11, Stutter DEF AsyncPanics
<1>12. ASSUME NEW a \in async_task_executor, AsyncEnds(a) PROVE SchedStep
  <2>1. CASE ~lua
    BY <1>12, <2>1, Stutter DEF AsyncEnds
  <2>2. CASE lua
    <3>1. a.thread \in Thread /\ "awaiting" \in Kind
      BY DEF TypeOK, AsyncTask, Kind
    <3>2. PICK t \in Thread : t = a.thread
      BY <3>1
    <3>3. HasPromise(t, "awaiting")
      BY <3>2 DEF HasPromise, HasFuture
    <3>4. ASSUME NEW u \in Thread, NEW j \in Kind, u # t \/ j # "awaiting"
          PROVE  HasPromise(u, j)' <=> HasPromise(u, j)
      <4>1. u # t => (HasFuture(u)' <=> HasFuture(u))
        BY <1>12, <2>2, <3>2 DEF AsyncEnds, HasFuture
      <4>2. QED
        BY <1>12, <2>2, <3>4, <4>1 DEF AsyncEnds, HasPromise, HasWaitEntry, HasDeferredEntry
    <3>5. <<t, "awaiting">> \in Owed /\ Owed' \in {Owed, Owed \ {<<t, "awaiting">>}}
      BY <3>1, <3>3, <3>4, OwedShrinks
    <3>6. QED
      BY <1>12, <2>2, <3>1, <3>2, <3>5, DeliverStep DEF AsyncEnds, ExecutorTurn
  <2>3. QED
    BY <2>1, <2>2
<1>13. ASSUME NEW t \in Thread, CoroutineClose(t) PROVE SchedStep
  <2>1. Owed' = Owed
    BY <1>13, QueuesFrame DEF CoroutineClose
  <2>2. Sched!CoroutineClose(t)
    BY <1>13, <2>1, SameCoroutines DEF CoroutineClose, Sched!CoroutineClose
  <2>3. QED
    BY <2>2 DEF SchedStep, Sched!Next
<1>14. QED
  BY <1>1, <1>2, <1>3, <1>4, <1>5, <1>6, <1>7, <1>8, <1>9, <1>10, <1>11, <1>12, <1>13
  DEF Environment

(* An entry of the heap is popped.                                          *)
LEMMA WaitingStep ==
  ASSUME TypeOK, LoopInv, NEW e \in waiting_queue, DropWaiting(e) \/ FireWaiting(e)
  PROVE  SchedStep
<1>1. PICK t \in Thread : t = e.thread
  BY DEF TypeOK, WaitingThread
<1>2. waiting_queue' = waiting_queue \ {e} /\ UNCHANGED <<deferred_queue, asyncs, flags, outside>>
  BY DEF DropWaiting, FireWaiting, PopWaiting
<1>3. current = NoThread
  BY DEF DropWaiting, FireWaiting, PopWaiting, LoopInv
<1>4. HasPromise(t, "waiting") /\ "waiting" \in Kind
  BY <1>1 DEF HasPromise, HasWaitEntry, Kind
<1>5. ASSUME NEW u \in Thread, NEW j \in Kind, u # t \/ j # "waiting"
      PROVE  HasPromise(u, j)' <=> HasPromise(u, j)
  <2>1. u # t => (HasWaitEntry(u)' <=> HasWaitEntry(u))
    BY <1>1, <1>2 DEF HasWaitEntry
  <2>2. QED
    BY <1>2, <1>5, <2>1 DEF HasPromise, HasFuture, HasDeferredEntry, asyncs
<1>6. <<t, "waiting">> \in Owed /\ Owed' \in {Owed, Owed \ {<<t, "waiting">>}}
  BY <1>4, <1>5, OwedShrinks
<1>7. UNCHANGED <<is_cancelled, lua, waiter>>
  BY <1>2 DEF flags, outside
<1>8. CASE lua
  <2>1. Resume(t)
    BY <1>1, <1>8 DEF DropWaiting, FireWaiting, Resume, Resumable, Ended
  <2>2. QED
    BY <1>3, <1>4, <1>6, <1>7, <1>8, <2>1, DeliverStep
<1>9. CASE ~lua
  BY <1>6, <1>7, <1>9, DiscardStep DEF DropWaiting, FireWaiting
<1>10. QED
  BY <1>8, <1>9

(* An entry of the deque is popped.                                         *)
LEMMA DeferredStep ==
  ASSUME TypeOK, LoopInv, DropDeferred \/ FireDeferred
  PROVE  SchedStep
<1>1. PopDeferred /\ deferred_queue \in Seq(Thread)
  BY DEF DropDeferred, FireDeferred, TypeOK
<1>2. PICK t \in Thread : t = Last(deferred_queue)
  BY <1>1, PopKeeps
<1>3. \A u : HasDeferredEntry(u) <=> u = t \/ HasDeferredEntry(u)'
  BY <1>1, <1>2, PopKeeps DEF HasDeferredEntry
<1>4. current = NoThread /\ UNCHANGED <<waiting_queue, asyncs, is_cancelled, lua, waiter>>
  BY <1>1 DEF PopDeferred, LoopInv, flags, outside
<1>5. HasPromise(t, "deferred") /\ "deferred" \in Kind
  BY <1>3 DEF HasPromise, Kind
<1>6. \A u \in Thread, j \in Kind :
        (u # t \/ j # "deferred") => (HasPromise(u, j)' <=> HasPromise(u, j))
  BY <1>3, <1>4 DEF HasPromise, HasWaitEntry, HasFuture, asyncs
<1>7. <<t, "deferred">> \in Owed /\ Owed' \in {Owed, Owed \ {<<t, "deferred">>}}
  BY <1>5, <1>6, OwedShrinks
<1>8. CASE lua
  <2>1. Resume(t)
    BY <1>2, <1>8 DEF DropDeferred, FireDeferred, Resume, Resumable, Ended
  <2>2. QED
    BY <1>4, <1>5, <1>7, <1>8, <2>1, DeliverStep
<1>9. CASE ~lua
  BY <1>4, <1>7, <1>9, DiscardStep DEF DropDeferred, FireDeferred
<1>10. QED
  BY <1>8, <1>9

(* The caller of wait_till_done sees that nothing is queued.                *)
LEMMA WaiterStep ==
  ASSUME AsyncsInv, WaitTillDone \/ WaiterChecks
  PROVE  SchedStep
<1>1. UNCHANGED <<queues, asyncs, is_cancelled, lua, coroutine>>
  BY DEF WaitTillDone, WaiterChecks, flags
<1>2. Owed' = Owed
  BY <1>1, QueuesFrame DEF asyncs
<1>3. IsEmpty => Owed = {}
  <2> SUFFICES ASSUME IsEmpty PROVE Owed = {}
    OBVIOUS
  <2>1. Cardinality(async_task_executor) \in Nat /\ Cardinality(lost) \in Nat
    BY FS_CardinalityType DEF AsyncsInv
  <2>2. Cardinality(async_task_executor) = 0 /\ Cardinality(lost) = 0
    BY <2>1 DEF AsyncsInv, AsyncsCounted, IsEmpty
  <2>3. async_task_executor = {} /\ lost = {}
    BY <2>2, FS_EmptySet DEF AsyncsInv
  <2>4. QED
    BY <2>3, OwedNothing DEF IsEmpty, HasPromise, HasWaitEntry, HasFuture, HasDeferredEntry
<1>4. (waiter' = "returned") => IsEmpty \/ is_cancelled
  BY DEF WaitTillDone, WaiterChecks
<1>5. Sched!Announce
  BY <1>1, <1>2, <1>3, <1>4 DEF Sched!Announce, Sched!rest, coroutine, Sched!coroutine
<1>6. QED
  BY <1>5 DEF SchedStep, Sched!Next

LEMMA MapStep ==
  ASSUME TypeOK, LoopInv, AsyncsInv, [Next]_vars
  PROVE  SchedStep
<1>1. CASE \/ RunInTask \/ RunRefused \/ RunStarts \/ TopReturns \/ TopProcesses
           \/ NothingDue \/ NothingDeferred \/ AfterResume \/ AfterYield \/ TickerTicks
  BY <1>1, Stutter
  DEF RunInTask, RunRefused, RunStarts, TopReturns, TopProcesses, NothingDue, NothingDeferred,
      AfterResume, AfterYield, TickerTicks, Goto, asyncs, flags, outside
<1>2. CASE UNCHANGED vars
  BY <1>2, Stutter DEF vars, asyncs, flags, outside
<1>3. QED
  BY <1>1, <1>2, ScriptStep, WaitingStep, DeferredStep, WaiterStep DEF Next, Run

(* The v1 scheduler implements Scheduler: no step loses an entry without    *)
(* resuming its coroutine, nobody is resumed who is not owed it, and        *)
(* wait_till_done returns by itself only when nothing is owed.              *)
THEOREM V1ImplementsScheduler == Spec => ImplementsScheduler
<1>1. Init => Sched!Init
  <2> SUFFICES ASSUME Init PROVE Sched!Init
    OBVIOUS
  <2>1. Owed = {}
    BY OwedNothing DEF Init, HasPromise, HasWaitEntry, HasFuture, HasDeferredEntry
  <2>2. QED
    BY <2>1, SameCoroutines DEF Init, Sched!Init
<1>2. TypeOK /\ LoopInv /\ AsyncsInv /\ [Next]_vars => [Sched!Next]_(Sched!vars)
  BY MapStep DEF SchedStep
<1>3. QED
  BY <1>1, <1>2, TypeCorrect, LoopInvariant, AsyncsInvariant, PTL
  DEF Spec, ImplementsScheduler, Sched!Spec

-----------------------------------------------------------------------------
(* What follows for the v1 scheduler from theorems about Scheduler.         *)

SchedP == INSTANCE SchedulerProofs WITH
            owed <- Owed, cancelled <- {}, finished <- (waiter = "returned"),
            open <- TRUE, clearing <- FALSE, ClearsAtOnce <- TRUE

\* Sched and SchedP are the same specification
LEMMA SameScheduler ==
  /\ Sched!Init <=> SchedP!Init
  /\ Sched!Next <=> SchedP!Next
  /\ Sched!vars = SchedP!vars
<1>1. Sched!Init <=> SchedP!Init
  BY DEF Sched!Init, SchedP!Init, Sched!CoroutineInit, SchedP!CoroutineInit
<1>2. Sched!vars = SchedP!vars
  BY DEF Sched!vars, SchedP!vars, Sched!coroutine, SchedP!coroutine, Sched!rest, SchedP!rest
<1>3. Sched!Next <=> SchedP!Next
  BY DEF
  Sched!Next, Sched!Suspend, Sched!Schedule, Sched!Runs, Sched!Control, Sched!Clear,
  Sched!CoroutineClose, Sched!Cancel, Sched!Collect, Sched!Deliver, Sched!Discard,
  Sched!TakesEffect, Sched!Announce, Sched!CloseDown, Sched!Promises, Sched!NotAnnounced,
  Sched!Kind, Sched!Enter, Sched!Leave, Sched!Resume, Sched!Resumable, Sched!Ended,
  Sched!IntoThread, Sched!Close, Sched!coroutine, Sched!rest,
  SchedP!Next, SchedP!Suspend, SchedP!Schedule, SchedP!Runs, SchedP!Control, SchedP!Clear,
  SchedP!CoroutineClose, SchedP!Cancel, SchedP!Collect, SchedP!Deliver, SchedP!Discard,
  SchedP!TakesEffect, SchedP!Announce, SchedP!CloseDown, SchedP!Promises, SchedP!NotAnnounced,
  SchedP!Kind, SchedP!Enter, SchedP!Leave, SchedP!Resume, SchedP!Resumable, SchedP!Ended,
  SchedP!IntoThread, SchedP!Close, SchedP!coroutine, SchedP!rest
<1>4. QED
  BY <1>1, <1>2, <1>3

(* wait_till_done of the v1 scheduler returns by itself only when no        *)
(* coroutine is left suspended in task.wait or in an async function, unless *)
(* the program calls clear: the promise of Scheduler, inherited.            *)
THEOREM V1FinishesWithNobodySuspended == Spec => FinishesWithNobodySuspended
<1>1. Spec => ImplementsScheduler
  BY V1ImplementsScheduler
<1>2. [Sched!Next]_(Sched!vars) => [SchedP!Next]_(SchedP!vars)
  <2>1. Sched!vars' = SchedP!vars'
    BY DEF Sched!vars, SchedP!vars, Sched!coroutine, SchedP!coroutine, Sched!rest, SchedP!rest
  <2>2. QED
    BY <2>1, SameScheduler
<1>3. ImplementsScheduler => SchedP!Spec
  BY <1>2, SameScheduler, PTL DEF ImplementsScheduler, Sched!Spec, SchedP!Spec
<1>4. SchedP!Spec => SchedP!FinishesWithNobodySuspended
  BY SchedP!SchedulerFinishes, ThreadAssumption
<1> DEFINE Nobody ==
      ~(waiter = "returned") /\ (waiter = "returned")' /\ lua' /\ TRUE' /\ ~is_cancelled /\ "clear" \notin Calls =>
        \A t \in Thread : /\ status[t] = "waiting" => t \in {}
                          /\ status[t] # "awaiting"
<1>5. SchedP!FinishesWithNobodySuspended => FinishesWithNobodySuspended
  <2>1. [Nobody]_(SchedP!vars) => [Nobody]_(Sched!vars)
    BY DEF Sched!vars, SchedP!vars, Sched!coroutine, SchedP!coroutine, Sched!rest, SchedP!rest
  <2>2. QED
    BY <2>1, PTL
    DEF SchedP!FinishesWithNobodySuspended, FinishesWithNobodySuspended,
        Sched!FinishesWithNobodySuspended
<1>6. QED
  BY <1>1, <1>3, <1>4, <1>5
=============================================================================
