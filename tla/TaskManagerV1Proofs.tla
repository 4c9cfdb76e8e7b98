------------------------- MODULE TaskManagerV1Proofs -------------------------
(* Theorems about TaskManagerV1, for every set of coroutines and futures,   *)
(* every bound and every selection of calls.                                *)
EXTENDS TaskManagerV1, FiniteSetTheorems, TLAPS

-----------------------------------------------------------------------------
(* The counter of futures.                                                  *)

(* Counting is by sets of futures that are told apart: none is in both.     *)
AsyncsInv ==
  /\ AsyncsCounted
  /\ IsFiniteSet(async_task_executor) /\ IsFiniteSet(lost)
  /\ async_task_executor \cap lost = {}

(* The steps that are about no future.                                      *)
LEMMA AsyncsFrame ==
  ASSUME AsyncsInv, UNCHANGED asyncs
  PROVE  AsyncsInv'
BY DEF AsyncsInv, AsyncsCounted, asyncs

LEMMA AsyncsInductive == AsyncsInv /\ [Next]_vars => AsyncsInv'
<1> SUFFICES ASSUME AsyncsInv, [Next]_vars PROVE AsyncsInv'
  OBVIOUS
<1>1. CASE CallAsync
  <2>1. PICK a : /\ a.future \in FreeFutures
                 /\ async_task_executor' = async_task_executor \cup {a}
    <3>1. PICK future \in FreeFutures :
            async_task_executor' = async_task_executor \cup {[thread |-> current, future |-> future]}
      BY <1>1 DEF CallAsync
    <3>2. [thread |-> current, future |-> future].future = future
      OBVIOUS
    <3>3. QED
      BY <3>1, <3>2
  <2>2. a \notin async_task_executor \cup lost
    BY <2>1 DEF FreeFutures
  <2>3. lost' = lost /\ pending_asyncs' = pending_asyncs + 1
    BY <1>1 DEF CallAsync, IncrAsync
  <2>4. /\ IsFiniteSet(async_task_executor')
        /\ Cardinality(async_task_executor') = Cardinality(async_task_executor) + 1
    BY <2>1, <2>2, FS_AddElement DEF AsyncsInv
  <2>5. Cardinality(async_task_executor) \in Nat /\ Cardinality(lost) \in Nat
    BY FS_CardinalityType DEF AsyncsInv
  <2>6. pending_asyncs' = Cardinality(async_task_executor') + Cardinality(lost')
    BY <2>3, <2>4, <2>5 DEF AsyncsInv, AsyncsCounted
  <2>7. QED
    BY <2>1, <2>2, <2>3, <2>4, <2>6 DEF AsyncsInv, AsyncsCounted
<1>2. ASSUME NEW a \in async_task_executor, AsyncEnds(a) \/ AsyncPanics(a) PROVE AsyncsInv'
  <2>1. async_task_executor' = async_task_executor \ {a}
    BY <1>2 DEF AsyncEnds, AsyncPanics
  <2>2. /\ IsFiniteSet(async_task_executor')
        /\ Cardinality(async_task_executor') = Cardinality(async_task_executor) - 1
    BY <2>1, FS_RemoveElement DEF AsyncsInv
  <2>3. Cardinality(async_task_executor) \in Nat /\ Cardinality(lost) \in Nat
    BY FS_CardinalityType DEF AsyncsInv
  <2>4. CASE lost' = lost /\ pending_asyncs' = pending_asyncs - 1
    <3>1. pending_asyncs' = Cardinality(async_task_executor') + Cardinality(lost')
      BY <2>2, <2>3, <2>4 DEF AsyncsInv, AsyncsCounted
    <3>2. QED
      BY <2>1, <2>2, <2>4, <3>1 DEF AsyncsInv, AsyncsCounted
  <2>5. CASE lost' = lost \cup {a} /\ pending_asyncs' = pending_asyncs
    <3>1. a \notin lost
      BY DEF AsyncsInv
    <3>2. IsFiniteSet(lost') /\ Cardinality(lost') = Cardinality(lost) + 1
      BY <2>5, <3>1, FS_AddElement DEF AsyncsInv
    <3>3. pending_asyncs' = Cardinality(async_task_executor') + Cardinality(lost')
      BY <2>2, <2>3, <2>5, <3>2 DEF AsyncsInv, AsyncsCounted
    <3>4. QED
      BY <2>1, <2>2, <2>5, <3>1, <3>2, <3>3 DEF AsyncsInv, AsyncsCounted
  <2>6. QED
    BY <1>2, <2>4, <2>5 DEF AsyncEnds, AsyncPanics, DecrAsync
<1>3. ASSUME NEW t \in Thread, TaskSpawn(t) \/ TaskDelay(t) \/ TaskDefer(t) \/ TaskCancel(t)
             \/ CoroutineClose(t)
      PROVE  AsyncsInv'
  BY <1>3, AsyncsFrame DEF TaskSpawn, TaskDelay, TaskDefer, TaskCancel, CoroutineClose
<1>4. CASE TaskWait \/ CoroutineYield \/ CoroutineEnds \/ Stop \/ Unstop \/ Clear \/ DropLua
           \/ ClockTicks
  BY <1>4, AsyncsFrame
  DEF TaskWait, CoroutineYield, CoroutineEnds, Stop, Unstop, Clear, DropLua, ClockTicks
<1>5. CASE RunInTask \/ RunRefused \/ RunStarts \/ TopReturns \/ TopProcesses \/ NothingDue
           \/ NothingDeferred \/ AfterResume \/ AfterYield \/ TickerTicks
  BY <1>5, AsyncsFrame
  DEF RunInTask, RunRefused, RunStarts, TopReturns, TopProcesses, NothingDue, NothingDeferred,
      AfterResume, AfterYield, TickerTicks, Goto
<1>6. ASSUME NEW e \in waiting_queue, DropWaiting(e) \/ FireWaiting(e) PROVE AsyncsInv'
  BY <1>6, AsyncsFrame DEF DropWaiting, FireWaiting, PopWaiting
<1>7. CASE DropDeferred \/ FireDeferred
  BY <1>7, AsyncsFrame DEF DropDeferred, FireDeferred, PopDeferred
<1>8. CASE WaitTillDone \/ WaiterChecks \/ UNCHANGED vars
  BY <1>8, AsyncsFrame DEF WaitTillDone, WaiterChecks, vars
<1>9. QED
  BY <1>1, <1>2, <1>3, <1>4, <1>5, <1>6, <1>7, <1>8 DEF Next, Environment, Run

LEMMA AsyncsInvariant == Spec => []AsyncsInv
<1>1. Init => AsyncsInv
  BY FS_EmptySet DEF Init, AsyncsInv, AsyncsCounted
<1>2. QED
  BY <1>1, AsyncsInductive, PTL DEF Spec

(* pending_asyncs is the number of futures that have not ended and of those *)
(* that ended without decr_async: the subtraction never underflows.         *)
THEOREM AsyncsCorrect == Spec => []AsyncsCounted
BY AsyncsInvariant, PTL DEF AsyncsInv

-----------------------------------------------------------------------------
(* Types.                                                                   *)

(* Resuming, leaving, closing and creating keep the types.                  *)
LEMMA CoroutineSteps ==
  ASSUME CoroutineType
  PROVE  /\ \A t \in Thread : Enter(t) \/ Resume(t) => CoroutineType'
         /\ \A s \in Status : current # NoThread /\ Leave(s) => CoroutineType'
         /\ \A t \in Thread : IntoThread(t) \in [Thread -> Status] /\ Close(t) \in [Thread -> Status]
<1>1. \A t \in Thread : Enter(t) => CoroutineType'
  BY DEF Enter, CoroutineType, Status
<1>2. \A t \in Thread : Resume(t) => CoroutineType'
  BY <1>1 DEF Resume, coroutine, CoroutineType
<1>3. \A s \in Status : current # NoThread /\ Leave(s) => CoroutineType'
  BY DEF Leave, CoroutineType
<1>4. \A t \in Thread : IntoThread(t) \in [Thread -> Status] /\ Close(t) \in [Thread -> Status]
  BY DEF IntoThread, Close, CoroutineType, Status, Resumable, Ended
<1>5. QED
  BY <1>1, <1>2, <1>3, <1>4

(* What a push, a retain and a pop do to the deque.                         *)
LEMMA RetainKeeps ==
  ASSUME deferred_queue \in Seq(Thread), NEW t, RetainDeferred(t)
  PROVE  /\ deferred_queue' \in Seq(Thread)
         /\ \A u : (\E i \in DOMAIN deferred_queue' : deferred_queue'[i] = u)
                    <=> u # t /\ \E i \in DOMAIN deferred_queue : deferred_queue[i] = u
<1>0. PICK n \in 0..Len(deferred_queue) : \E kept \in [1..n -> DOMAIN deferred_queue] :
        /\ \A k \in DOMAIN deferred_queue : deferred_queue[k] # t <=> \E i \in 1..n : kept[i] = k
        /\ deferred_queue' = [i \in 1..n |-> deferred_queue[kept[i]]]
  BY DEF RetainDeferred
<1>1. PICK kept \in [1..n -> DOMAIN deferred_queue] :
        /\ \A k \in DOMAIN deferred_queue : deferred_queue[k] # t <=> \E i \in 1..n : kept[i] = k
        /\ deferred_queue' = [i \in 1..n |-> deferred_queue[kept[i]]]
  BY <1>0
<1>2. n \in Nat /\ \A i \in 1..n : deferred_queue[kept[i]] \in Thread
  BY <1>1
<1>3. deferred_queue' \in Seq(Thread) /\ DOMAIN deferred_queue' = 1..n
  BY <1>1, <1>2
<1>4. QED
  BY <1>1, <1>3

LEMMA PopKeeps ==
  ASSUME deferred_queue \in Seq(Thread), PopDeferred
  PROVE  /\ deferred_queue' \in Seq(Thread) /\ Last(deferred_queue) \in Thread
         /\ \A u : (\E i \in DOMAIN deferred_queue : deferred_queue[i] = u)
                    <=> \/ u = Last(deferred_queue)
                        \/ \E i \in DOMAIN deferred_queue' : deferred_queue'[i] = u
<1> DEFINE n == Len(deferred_queue)
<1>1. /\ n \in Nat \ {0} /\ DOMAIN deferred_queue = 1..n
      /\ deferred_queue' = SubSeq(deferred_queue, 1, n - 1)
      /\ Last(deferred_queue) = deferred_queue[n]
  BY DEF PopDeferred, Front, Last
<1>2. /\ deferred_queue' \in Seq(Thread) /\ DOMAIN deferred_queue' = 1..(n - 1)
      /\ \A i \in 1..(n - 1) : deferred_queue'[i] = deferred_queue[i]
  BY <1>1
<1>3. \A i \in DOMAIN deferred_queue : i = n \/ i \in DOMAIN deferred_queue'
  BY <1>1, <1>2
<1>4. /\ DOMAIN deferred_queue' \subseteq DOMAIN deferred_queue /\ n \in DOMAIN deferred_queue
      /\ \A i \in DOMAIN deferred_queue' : deferred_queue'[i] = deferred_queue[i]
  BY <1>1, <1>2
<1>5. Last(deferred_queue) \in Thread
  BY <1>1, <1>4
<1> HIDE DEF n
<1>6. QED
  BY <1>1, <1>2, <1>3, <1>4, <1>5

LEMMA PushKeeps ==
  ASSUME deferred_queue \in Seq(Thread), NEW t \in Thread,
         deferred_queue' = Append(deferred_queue, t)
  PROVE  /\ deferred_queue' \in Seq(Thread)
         /\ \A u : (\E i \in DOMAIN deferred_queue' : deferred_queue'[i] = u)
                    <=> u = t \/ \E i \in DOMAIN deferred_queue : deferred_queue[i] = u
<1>1. /\ Len(deferred_queue) \in Nat /\ DOMAIN deferred_queue = 1..Len(deferred_queue)
      /\ DOMAIN deferred_queue' = 1..(Len(deferred_queue) + 1)
      /\ deferred_queue'[Len(deferred_queue) + 1] = t
      /\ \A i \in DOMAIN deferred_queue : deferred_queue'[i] = deferred_queue[i]
  OBVIOUS
<1>2. \A i \in DOMAIN deferred_queue' : i \in DOMAIN deferred_queue
\/ i = Len(deferred_queue) + 1
  BY <1>1
<1>3. QED
  BY <1>1, <1>2

(* An entry that wakes its coroutine within the bound of the clock.         *)
LEMMA AddType ==
  ASSUME TypeOK, NEW t \in Thread, NEW duration \in Nat, AddWaitingThread(t, duration)
  PROVE  waiting_queue' \subseteq WaitingThread
<1>1. PICK slot \in Slot : waiting_queue' = waiting_queue
                    \cup {[thread |-> t, wake_at |-> now + duration, slot |-> slot]}
  BY DEF AddWaitingThread, FreeSlots
<1>2. now + duration \in 0..MaxTime
  BY TimeAssumption DEF AddWaitingThread, TypeOK
<1>3. QED
  BY <1>1, <1>2 DEF TypeOK, WaitingThread

(* Where the loop is when a coroutine runs, and where it goes back to.      *)
LoopInv ==
  /\ loop \in {"none", "waiting", "deferred"}
  /\ pc \in {"resume", "yield_now"} => loop # "none"
  /\ pc \in {"top", "waiting", "deferred"} => current = NoThread

LEMMA LoopInductive == LoopInv /\ [Next]_vars => LoopInv'
<1> SUFFICES ASSUME LoopInv, [Next]_vars PROVE LoopInv'
  OBVIOUS
<1> USE DEF LoopInv, control, outside, coroutine, ExecutorTurn, CallerTurn
<1>1. ASSUME NEW t \in Thread, TaskSpawn(t) \/ TaskDelay(t) \/ TaskDefer(t) \/ TaskCancel(t)
             \/ CoroutineClose(t)
      PROVE  LoopInv'
  BY <1>1 DEF TaskSpawn, TaskDelay, TaskDefer, TaskCancel, CoroutineClose
<1>2. CASE TaskWait \/ CallAsync \/ CoroutineYield \/ CoroutineEnds
  BY <1>2 DEF TaskWait, CallAsync, CoroutineYield, CoroutineEnds
<1>3. CASE Stop \/ Unstop \/ Clear \/ DropLua \/ ClockTicks \/ WaitTillDone \/ WaiterChecks
           \/ UNCHANGED vars
  BY <1>3 DEF Stop, Unstop, Clear, DropLua, ClockTicks, WaitTillDone, WaiterChecks, vars
<1>4. ASSUME NEW a \in async_task_executor, AsyncEnds(a) \/ AsyncPanics(a) PROVE LoopInv'
  BY <1>4 DEF AsyncEnds, AsyncPanics
<1>5. ASSUME NEW e \in waiting_queue, DropWaiting(e) \/ FireWaiting(e) PROVE LoopInv'
  BY <1>5 DEF DropWaiting, FireWaiting, PopWaiting
<1>6. CASE DropDeferred \/ FireDeferred
  BY <1>6 DEF DropDeferred, FireDeferred, PopDeferred
<1>7. CASE \/ RunInTask \/ RunRefused \/ RunStarts \/ TopReturns \/ TopProcesses
           \/ NothingDue \/ NothingDeferred \/ AfterResume \/ AfterYield \/ TickerTicks
  BY <1>7 DEF RunInTask, RunRefused, RunStarts, TopReturns, TopProcesses, NothingDue,
              NothingDeferred, AfterResume, AfterYield, TickerTicks, Goto
<1>8. QED
  BY <1>1, <1>2, <1>3, <1>4, <1>5, <1>6, <1>7 DEF Next, Environment, Run

LEMMA LoopInvariant == Spec => []LoopInv
<1>1. Init => LoopInv
  BY DEF Init, LoopInv
<1>2. QED
  BY <1>1, LoopInductive, PTL DEF Spec

LEMMA TypeInductive ==
  ASSUME TypeOK, LoopInv, AsyncsInv', [Next]_vars
  PROVE  TypeOK'
<1>a. pending_asyncs' \in Nat
  BY FS_CardinalityType DEF AsyncsInv, AsyncsCounted
<1>b. CoroutineType /\ deferred_queue \in Seq(Thread)
  BY DEF TypeOK, CoroutineType
<1> USE DEF queues, asyncs, flags, control, outside
<1>1. ASSUME NEW t \in Thread, TaskSpawn(t) PROVE TypeOK'
  <2>1. CoroutineType'
    BY <1>b, <1>1, CoroutineSteps DEF TaskSpawn
  <2>2. QED
    BY <1>a, <1>1, <2>1 DEF TaskSpawn, TypeOK
<1>2. ASSUME NEW t \in Thread, TaskDelay(t) PROVE TypeOK'
  <2>1. CoroutineType'
    BY <1>b, <1>2, CoroutineSteps DEF TaskDelay, CoroutineType
  <2>2. waiting_queue' \subseteq WaitingThread
    BY <1>2, AddType, TimeAssumption DEF TaskDelay
  <2>3. QED
    BY <1>a, <1>2, <2>1, <2>2 DEF TaskDelay, TypeOK
<1>3. ASSUME NEW t \in Thread, TaskDefer(t) PROVE TypeOK'
  <2>1. CoroutineType' /\ deferred_queue' \in Seq(Thread)
    BY <1>b, <1>3, CoroutineSteps, PushKeeps DEF TaskDefer, CoroutineType
  <2>2. QED
    BY <1>a, <1>3, <2>1 DEF TaskDefer, TypeOK
<1>c. ASSUME NEW t \in Thread, CoroutineClose(t) PROVE TypeOK'
  <2>1. CoroutineType'
    BY <1>b, <1>c, CoroutineSteps DEF CoroutineClose, CoroutineType
  <2>2. QED
    BY <1>a, <1>c, <2>1 DEF CoroutineClose, TypeOK
<1>4. ASSUME NEW t \in Thread, TaskCancel(t) PROVE TypeOK'
  <2>1. CoroutineType' /\ deferred_queue' \in Seq(Thread)
    BY <1>b, <1>4, CoroutineSteps, RetainKeeps DEF TaskCancel, CoroutineType
  <2>2. QED
    BY <1>a, <1>4, <2>1 DEF TaskCancel, TypeOK
<1>5. CASE TaskWait
  <2>1. CoroutineType'
    BY <1>b, <1>5, CoroutineSteps DEF TaskWait, Status, Resumable
  <2>2. waiting_queue' \subseteq WaitingThread
    BY <1>5, AddType DEF TaskWait, TypeOK, CoroutineType
  <2>3. QED
    BY <1>a, <1>5, <2>1, <2>2 DEF TaskWait, TypeOK
<1>6. CASE CallAsync
  <2>1. CoroutineType'
    BY <1>b, <1>6, CoroutineSteps DEF CallAsync, Status, Resumable
  <2>2. current \in Thread
    BY <1>b, <1>6 DEF CallAsync, CoroutineType
  <2>3. PICK future \in Future : async_task_executor' = async_task_executor
                        \cup {[thread |-> current, future |-> future]}
    BY <1>6 DEF CallAsync, FreeFutures
  <2>4. async_task_executor' \subseteq AsyncTask
    BY <2>2, <2>3 DEF TypeOK, AsyncTask
  <2>5. QED
    BY <1>a, <1>6, <2>1, <2>4 DEF CallAsync, TypeOK
<1>7. CASE CoroutineYield \/ CoroutineEnds
  <2>1. CoroutineType'
    BY <1>b, <1>7, CoroutineSteps DEF CoroutineYield, CoroutineEnds, Status, Resumable, Ended
  <2>2. QED
    BY <1>a, <1>7, <2>1 DEF CoroutineYield, CoroutineEnds, TypeOK
<1>8. ASSUME UNCHANGED coroutine PROVE CoroutineType'
  BY <1>b, <1>8 DEF CoroutineType, coroutine
<1>9. CASE Stop \/ Unstop \/ Clear \/ DropLua
  <2>1. CoroutineType'
    BY <1>8, <1>9 DEF Stop, Unstop, Clear, DropLua
  <2>2. <<>> \in Seq(Thread)
    OBVIOUS
  <2>3. deferred_queue' \in Seq(Thread) /\ waiting_queue' \subseteq WaitingThread
    BY <1>9, <2>2 DEF Stop, Unstop, Clear, DropLua, TypeOK
  <2>4. CASE Clear
    BY <1>a, <2>1, <2>3, <2>4 DEF Clear, TypeOK
  <2>5. CASE Stop \/ Unstop \/ DropLua
    BY <1>a, <2>1, <2>5 DEF Stop, Unstop, DropLua, TypeOK
  <2>6. QED
    BY <1>9, <2>4, <2>5
<1>10. CASE ClockTicks
  BY <1>a, <1>8, <1>10, TimeAssumption DEF ClockTicks, TypeOK
<1>11. ASSUME NEW a \in async_task_executor, AsyncEnds(a) PROVE TypeOK'
  <2>1. CoroutineType'
    BY <1>b, <1>8, <1>11, CoroutineSteps DEF AsyncEnds, TypeOK, AsyncTask, coroutine
  <2>2. QED
    BY <1>a, <1>11, <2>1 DEF AsyncEnds, TypeOK
<1>12. ASSUME NEW a \in async_task_executor, AsyncPanics(a) PROVE TypeOK'
  BY <1>a, <1>8, <1>12 DEF AsyncPanics, TypeOK
<1>13. CASE RunInTask \/ RunRefused \/ RunStarts \/ TopReturns
  BY <1>a, <1>8, <1>13 DEF RunInTask, RunRefused, RunStarts, TopReturns, TypeOK
<1>14. CASE TopProcesses \/ NothingDue \/ NothingDeferred \/ AfterResume \/ TickerTicks
  BY <1>a, <1>8, <1>14
  DEF TopProcesses, NothingDue, NothingDeferred, AfterResume, TickerTicks, Goto, TypeOK
<1>15. CASE AfterYield
  BY <1>a, <1>8, <1>15 DEF AfterYield, LoopInv, TypeOK
<1>16. ASSUME NEW e \in waiting_queue, DropWaiting(e) \/ FireWaiting(e) PROVE TypeOK'
  <2>1. CoroutineType'
    BY <1>b, <1>8, <1>16, CoroutineSteps DEF DropWaiting, FireWaiting, TypeOK, WaitingThread
  <2>2. QED
    BY <1>a, <1>16, <2>1 DEF DropWaiting, FireWaiting, PopWaiting, TypeOK
<1>17. CASE DropDeferred \/ FireDeferred
  <2>1. CoroutineType' /\ deferred_queue' \in Seq(Thread)
    BY <1>b, <1>8, <1>17, CoroutineSteps, PopKeeps DEF DropDeferred, FireDeferred
  <2>2. QED
    BY <1>a, <1>17, <2>1 DEF DropDeferred, FireDeferred, PopDeferred, TypeOK
<1>18. CASE WaitTillDone \/ WaiterChecks \/ UNCHANGED vars
  <2>1. CoroutineType'
    BY <1>8, <1>18 DEF WaitTillDone, WaiterChecks, vars
  <2>2. QED
    BY <1>a, <1>18, <2>1 DEF WaitTillDone, WaiterChecks, vars, TypeOK
<1>19. QED
  BY <1>1, <1>2, <1>3, <1>c, <1>4, <1>5, <1>6, <1>7, <1>9, <1>10, <1>11, <1>12, <1>13,
     <1>14, <1>15, <1>16, <1>17, <1>18
  DEF Next, Environment, Run

(* The specification is well typed; the counter is a natural number because *)
(* it counts a set.                                                         *)
THEOREM TypeCorrect == Spec => []TypeOK
<1>1. Init => TypeOK
  <2>1. <<>> \in Seq(Thread)
    OBVIOUS
  <2>2. CoroutineInit => CoroutineType
    BY DEF CoroutineInit, CoroutineType, Status
  <2>3. Init => deferred_queue \in Seq(Thread) /\ now \in 0..MaxTime
    BY <2>1, TimeAssumption DEF Init
  <2>4. ASSUME Init PROVE TypeOK
    <3>1. CoroutineType /\ deferred_queue \in Seq(Thread) /\ now \in 0..MaxTime
      BY <2>2, <2>3, <2>4 DEF Init
    <3>2. /\ pending_asyncs \in Nat /\ async_task_executor \subseteq AsyncTask
          /\ lost \subseteq AsyncTask /\ waiting_queue \subseteq WaitingThread
          /\ is_running \in BOOLEAN /\ is_cancelled \in BOOLEAN
      BY <2>4 DEF Init
    <3>3. pc = "idle" /\ loop = "none" /\ spawned = FALSE /\ waiter = "off" /\ lua = TRUE
      BY <2>4 DEF Init
    <3>4. QED
      BY <3>1, <3>2, <3>3 DEF TypeOK
  <2>5. QED
    BY <2>4
<1>2. TypeOK /\ LoopInv /\ AsyncsInv' /\ [Next]_vars => TypeOK'
  BY TypeInductive
<1>3. QED
  BY <1>1, <1>2, LoopInvariant, AsyncsInvariant, PTL DEF Spec

-----------------------------------------------------------------------------
(* Nobody is forgotten, in programs that do not call clear.                 *)

HasAsync(t) == HasRunningFuture(t) \/ Stranded(t)

HasEntry(t) ==
  /\ status[t] = "waiting" => HasWaitEntry(t)
  /\ status[t] = "awaiting" => HasAsync(t)

ForgottenInv ==
  /\ DOMAIN status = Thread
  /\ NobodyForgotten

(* Keeping the entries of a coroutine that is not suspended anew is enough. *)
LEMMA EntryFrame ==
  ASSUME NEW t \in Thread, HasEntry(t),
         status'[t] \in {"waiting", "awaiting"} => status'[t] = status[t],
         waiting_queue \subseteq waiting_queue',
         async_task_executor \subseteq async_task_executor', lost \subseteq lost'
  PROVE  HasEntry(t)'
BY DEF HasEntry, HasWaitEntry, HasAsync, HasRunningFuture, Stranded

(* Resuming a coroutine suspends nobody, and leaves none suspended that it  *)
(* names.                                                                   *)
LEMMA ResumeStatus ==
  ASSUME DOMAIN status = Thread, NEW t, Resume(t) \/ Enter(t)
  PROVE  /\ DOMAIN status' = Thread
         /\ \A u \in Thread :
              /\ status'[u] \in {"waiting", "awaiting"} => status'[u] = status[u]
              /\ u = t => status'[u] \notin {"waiting", "awaiting"}
BY DEF Resume, Enter, Resumable, coroutine

LEMMA AddWaits ==
  ASSUME NEW t, NEW duration, AddWaitingThread(t, duration)
  PROVE  waiting_queue \subseteq waiting_queue' /\ HasWaitEntry(t)'
<1>1. PICK slot : waiting_queue' = waiting_queue
                    \cup {[thread |-> t, wake_at |-> now + duration, slot |-> slot]}
  BY DEF AddWaitingThread
<1>2. [thread |-> t, wake_at |-> now + duration, slot |-> slot] \in waiting_queue'
  BY <1>1
<1>3. [thread |-> t, wake_at |-> now + duration, slot |-> slot].thread = t
  OBVIOUS
<1>4. QED
  BY <1>1, <1>2, <1>3 DEF HasWaitEntry

LEMMA ForgottenInductive ==
  ASSUME "clear" \notin Calls, ForgottenInv, [Next]_vars
  PROVE  ForgottenInv'
<1> USE DEF queues, asyncs, outside, coroutine
<1>a. DOMAIN status = Thread
  BY DEF ForgottenInv
<1>1. DOMAIN status' = Thread
  <2>1. ASSUME NEW t \in Thread,
               TaskSpawn(t) \/ TaskDelay(t) \/ TaskDefer(t) \/ TaskCancel(t)
               \/ CoroutineClose(t)
        PROVE  DOMAIN status' = Thread
    BY <1>a, <2>1 DEF TaskSpawn, TaskDelay, TaskDefer, TaskCancel, CoroutineClose, Enter,
                      IntoThread, Close
  <2>2. CASE TaskWait \/ CallAsync \/ CoroutineYield \/ CoroutineEnds
    BY <1>a, <2>2 DEF TaskWait, CallAsync, CoroutineYield, CoroutineEnds, Leave
  <2>3. ASSUME NEW a \in async_task_executor, AsyncEnds(a) \/ AsyncPanics(a)
        PROVE  DOMAIN status' = Thread
    BY <1>a, <2>3, ResumeStatus DEF AsyncEnds, AsyncPanics
  <2>4. ASSUME NEW e \in waiting_queue, DropWaiting(e) \/ FireWaiting(e)
        PROVE  DOMAIN status' = Thread
    BY <1>a, <2>4, ResumeStatus DEF DropWaiting, FireWaiting
  <2>5. CASE DropDeferred \/ FireDeferred
    BY <1>a, <2>5, ResumeStatus DEF DropDeferred, FireDeferred
  <2>6. CASE \/ Stop \/ Unstop \/ Clear \/ DropLua \/ ClockTicks \/ RunInTask \/ RunRefused
             \/ RunStarts \/ TopReturns \/ TopProcesses \/ NothingDue \/ NothingDeferred
             \/ AfterResume \/ AfterYield \/ TickerTicks \/ WaitTillDone \/ WaiterChecks
             \/ UNCHANGED vars
    BY <1>a, <2>6
    DEF Stop, Unstop, Clear, DropLua, ClockTicks, RunInTask, RunRefused, RunStarts, TopReturns,
        TopProcesses, NothingDue, NothingDeferred, AfterResume, AfterYield, TickerTicks, Goto,
        WaitTillDone, WaiterChecks, vars
  <2>7. QED
    BY <2>1, <2>2, <2>3, <2>4, <2>5, <2>6 DEF Next, Environment, Run
<1> SUFFICES ASSUME lua', NEW t \in Thread PROVE HasEntry(t)'
  BY <1>1 DEF ForgottenInv, NobodyForgotten, HasEntry, HasAsync
<1>2. lua
  <2>1. ASSUME NEW u \in Thread, TaskSpawn(u) \/ TaskDelay(u) \/ TaskDefer(u)
               \/ TaskCancel(u) \/ CoroutineClose(u)
        PROVE  lua
    BY <2>1 DEF TaskSpawn, TaskDelay, TaskDefer, TaskCancel, CoroutineClose
  <2>2. ASSUME NEW a \in async_task_executor, AsyncEnds(a) \/ AsyncPanics(a) PROVE lua
    BY <2>2 DEF AsyncEnds, AsyncPanics
  <2>3. ASSUME NEW e \in waiting_queue, DropWaiting(e) \/ FireWaiting(e) PROVE lua
    BY <2>3 DEF DropWaiting, FireWaiting, PopWaiting
  <2>4. CASE \/ TaskWait \/ CallAsync \/ CoroutineYield \/ CoroutineEnds
             \/ Stop \/ Unstop \/ Clear \/ DropLua \/ ClockTicks \/ WaitTillDone \/ WaiterChecks
    BY <2>4 DEF TaskWait, CallAsync, CoroutineYield, CoroutineEnds, Stop, Unstop, Clear,
                DropLua, ClockTicks, WaitTillDone, WaiterChecks
  <2>5. CASE \/ RunInTask \/ RunRefused \/ RunStarts \/ TopReturns \/ TopProcesses
             \/ NothingDue \/ NothingDeferred \/ DropDeferred \/ FireDeferred \/ AfterResume
             \/ AfterYield \/ TickerTicks \/ UNCHANGED vars
    BY <2>5 DEF RunInTask, RunRefused, RunStarts, TopReturns, TopProcesses, NothingDue,
                NothingDeferred, DropDeferred, FireDeferred, PopDeferred, AfterResume,
                AfterYield, TickerTicks, Goto, vars
  <2>6. QED
    BY <2>1, <2>2, <2>3, <2>4, <2>5 DEF Next, Environment, Run
<1>3. HasEntry(t)
  BY <1>2 DEF ForgottenInv, NobodyForgotten, HasEntry, HasAsync
<1>4. ASSUME NEW u \in Thread, TaskSpawn(u) PROVE HasEntry(t)'
  BY <1>a, <1>3, <1>4, EntryFrame, ResumeStatus DEF TaskSpawn
<1>5. ASSUME NEW u \in Thread, TaskDelay(u) PROVE HasEntry(t)'
  BY <1>a, <1>3, <1>5, EntryFrame, AddWaits DEF TaskDelay, IntoThread
<1>6. ASSUME NEW u \in Thread, TaskDefer(u) PROVE HasEntry(t)'
  BY <1>a, <1>3, <1>6, EntryFrame DEF TaskDefer, IntoThread
<1>7. ASSUME NEW u \in Thread, TaskCancel(u) PROVE HasEntry(t)'
  <2>1. CASE u = t
    BY <1>a, <1>3, <1>7, <2>1 DEF TaskCancel, Close, Resumable, HasEntry
  <2>2. CASE u # t
    BY <1>a, <1>3, <1>7, <2>2 DEF TaskCancel, Close, HasEntry, HasWaitEntry, HasAsync,
                                  HasRunningFuture, Stranded
  <2>3. QED
    BY <2>1, <2>2
<1>c. ASSUME NEW u \in Thread, CoroutineClose(u) PROVE HasEntry(t)'
  BY <1>a, <1>3, <1>c, EntryFrame DEF CoroutineClose, Close
<1>8. CASE TaskWait
  <2>1. waiting_queue \subseteq waiting_queue'
    BY <1>8 DEF TaskWait, AddWaitingThread
  <2>2. CASE t = current
    <3>1. HasWaitEntry(t)'
      BY <1>8, <2>2, AddWaits DEF TaskWait
    <3>2. status'[t] = "waiting"
      BY <1>a, <1>8, <2>2 DEF TaskWait, Leave
    <3>3. QED
      BY <3>1, <3>2 DEF HasEntry
  <2>3. CASE t # current
    BY <1>a, <1>3, <1>8, <2>1, <2>3, EntryFrame DEF TaskWait, Leave
  <2>4. QED
    BY <2>2, <2>3
<1>9. CASE CallAsync
  <2>1. PICK future : async_task_executor' = async_task_executor
                        \cup {[thread |-> current, future |-> future]}
    BY <1>9 DEF CallAsync
  <2>2. CASE t = current
    <3>1. status'[t] = "awaiting"
      BY <1>a, <1>9, <2>2 DEF CallAsync, Leave
    <3>2. [thread |-> current, future |-> future] \in async_task_executor'
          /\ [thread |-> current, future |-> future].thread = t
      BY <2>1, <2>2
    <3>3. QED
      BY <3>1, <3>2 DEF HasEntry, HasAsync, HasRunningFuture
  <2>3. CASE t # current
    BY <1>a, <1>3, <1>9, <2>1, <2>3, EntryFrame DEF CallAsync, Leave
  <2>4. QED
    BY <2>2, <2>3
<1>10. CASE CoroutineYield \/ CoroutineEnds
  BY <1>a, <1>3, <1>10, EntryFrame DEF CoroutineYield, CoroutineEnds, Leave
<1>11. CASE Clear
  BY <1>11 DEF Clear
<1>12. CASE Stop \/ Unstop \/ DropLua \/ ClockTicks \/ WaitTillDone \/ WaiterChecks
            \/ UNCHANGED vars
  BY <1>3, <1>12, EntryFrame
  DEF Stop, Unstop, DropLua, ClockTicks, WaitTillDone, WaiterChecks, vars
<1>13. CASE \/ RunInTask \/ RunRefused \/ RunStarts \/ TopReturns \/ TopProcesses
            \/ NothingDue \/ NothingDeferred \/ AfterResume \/ AfterYield \/ TickerTicks
  BY <1>3, <1>13, EntryFrame
  DEF RunInTask, RunRefused, RunStarts, TopReturns, TopProcesses, NothingDue, NothingDeferred,
      AfterResume, AfterYield, TickerTicks, Goto
<1>14. CASE DropDeferred \/ FireDeferred
  BY <1>a, <1>3, <1>14, EntryFrame, ResumeStatus DEF DropDeferred, FireDeferred, PopDeferred
<1>15. ASSUME NEW e \in waiting_queue, DropWaiting(e) PROVE HasEntry(t)'
  BY <1>2, <1>3, <1>15 DEF DropWaiting, Ended, PopWaiting, HasEntry, HasWaitEntry, HasAsync,
                           HasRunningFuture, Stranded
<1>16. ASSUME NEW e \in waiting_queue, FireWaiting(e) PROVE HasEntry(t)'
  <2>1. /\ status'[t] \in {"waiting", "awaiting"} => status'[t] = status[t]
        /\ t = e.thread => status'[t] \notin {"waiting", "awaiting"}
    BY <1>a, <1>16, ResumeStatus DEF FireWaiting
  <2>2. waiting_queue' = waiting_queue \ {e} /\ UNCHANGED <<async_task_executor, lost>>
    BY <1>16 DEF FireWaiting, PopWaiting
  <2>3. QED
    BY <1>3, <2>1, <2>2 DEF HasEntry, HasWaitEntry, HasAsync, HasRunningFuture, Stranded
<1>17. ASSUME NEW a \in async_task_executor, AsyncEnds(a) PROVE HasEntry(t)'
  <2>1. /\ status'[t] \in {"waiting", "awaiting"} => status'[t] = status[t]
        /\ t = a.thread => status'[t] \notin {"waiting", "awaiting"}
    BY <1>2, <1>a, <1>17, ResumeStatus DEF AsyncEnds
  <2>2. async_task_executor' = async_task_executor \ {a} /\ UNCHANGED <<waiting_queue, lost>>
    BY <1>2, <1>17 DEF AsyncEnds
  <2>3. QED
    BY <1>3, <2>1, <2>2 DEF HasEntry, HasWaitEntry, HasAsync, HasRunningFuture, Stranded
<1>18. ASSUME NEW a \in async_task_executor, AsyncPanics(a) PROVE HasEntry(t)'
  BY <1>3, <1>18 DEF AsyncPanics, HasEntry, HasWaitEntry, HasAsync, HasRunningFuture, Stranded
<1>19. QED
  BY <1>4, <1>5, <1>6, <1>7, <1>c, <1>8, <1>9, <1>10, <1>11, <1>12, <1>13, <1>14, <1>15, <1>16,
     <1>17, <1>18
  DEF Next, Environment, Run

(* As long as nobody calls clear, a coroutine suspended in task.wait has an *)
(* entry in the heap, and one suspended in an async function has a future   *)
(* that still runs, unless one of its futures has panicked.  Where futures  *)
(* do not panic, there is no exception.                                     *)
THEOREM ForgottenCorrect ==
  ASSUME "clear" \notin Calls
  PROVE  Spec => []NobodyForgotten
<1>1. Init => ForgottenInv
  BY DEF Init, CoroutineInit, ForgottenInv, NobodyForgotten
<1>2. ForgottenInv /\ [Next]_vars => ForgottenInv'
  BY ForgottenInductive
<1>3. ForgottenInv => NobodyForgotten
  BY DEF ForgottenInv
<1>4. QED
  BY <1>1, <1>2, <1>3, PTL DEF Spec

-----------------------------------------------------------------------------
(* When wait_till_done returns although the scheduler was not stopped, no   *)
(* coroutine is deferred, in task.wait or in an async function.             *)
THEOREM ReturnsWhenDoneCorrect ==
  ASSUME "clear" \notin Calls
  PROVE  Spec => ReturnsWhenDone
<1> DEFINE Nobody == deferred_queue = <<>> /\ \A t \in Thread : status[t] \notin {"waiting", "awaiting"}
           Step == waiter' = "returned" /\ waiter # "returned" /\ lua => is_cancelled \/ Nobody
<1>1. ASSUME AsyncsInv, NobodyForgotten, lua, IsEmpty PROVE Nobody
  <2>1. Cardinality(async_task_executor) \in Nat /\ Cardinality(lost) \in Nat
    BY <1>1, FS_CardinalityType DEF AsyncsInv
  <2>2. Cardinality(async_task_executor) = 0 /\ Cardinality(lost) = 0
    BY <1>1, <2>1 DEF AsyncsInv, AsyncsCounted, IsEmpty
  <2>3. async_task_executor = {} /\ lost = {}
    BY <1>1, <2>2, FS_EmptySet DEF AsyncsInv
  <2>4. QED
    BY <1>1, <2>3 DEF NobodyForgotten, HasWaitEntry, HasRunningFuture, Stranded, IsEmpty
<1>2. AsyncsInv /\ NobodyForgotten /\ [Next]_vars => Step
  <2> SUFFICES ASSUME AsyncsInv, NobodyForgotten, [Next]_vars, waiter' # waiter,
                      waiter' = "returned", lua
               PROVE  is_cancelled \/ Nobody
    OBVIOUS
  <2>1. WaitTillDone \/ WaiterChecks
    <3> USE DEF outside
    <3>1. ASSUME NEW t \in Thread, TaskSpawn(t) \/ TaskDelay(t) \/ TaskDefer(t)
                 \/ TaskCancel(t) \/ CoroutineClose(t)
          PROVE  FALSE
      BY <3>1 DEF TaskSpawn, TaskDelay, TaskDefer, TaskCancel, CoroutineClose
    <3>2. ASSUME NEW a \in async_task_executor, AsyncEnds(a) \/ AsyncPanics(a) PROVE FALSE
      BY <3>2 DEF AsyncEnds, AsyncPanics
    <3>3. ASSUME NEW e \in waiting_queue, DropWaiting(e) \/ FireWaiting(e) PROVE FALSE
      BY <3>3 DEF DropWaiting, FireWaiting, PopWaiting
    <3>4. ~(\/ TaskWait \/ CallAsync \/ CoroutineYield \/ CoroutineEnds
            \/ Stop \/ Unstop \/ Clear \/ DropLua \/ ClockTicks \/ UNCHANGED vars)
      BY DEF TaskWait, CallAsync, CoroutineYield, CoroutineEnds, Stop, Unstop, Clear, DropLua,
             ClockTicks, vars
    <3>5. ~(\/ RunInTask \/ RunRefused \/ RunStarts \/ TopReturns \/ TopProcesses
            \/ NothingDue \/ NothingDeferred \/ DropDeferred \/ FireDeferred \/ AfterResume
            \/ AfterYield \/ TickerTicks)
      BY DEF RunInTask, RunRefused, RunStarts, TopReturns, TopProcesses, NothingDue,
             NothingDeferred, DropDeferred, FireDeferred, PopDeferred, AfterResume, AfterYield,
             TickerTicks, Goto
    <3>6. QED
      BY <3>1, <3>2, <3>3, <3>4, <3>5 DEF Next, Environment, Run
  <2>2. is_cancelled \/ IsEmpty
    BY <2>1 DEF WaitTillDone, WaiterChecks
  <2>3. QED
    BY <1>1, <2>2
<1>3. Step => [waiter' = "returned" /\ waiter # "returned" /\ lua =>
                 \/ is_cancelled
                 \/ deferred_queue = <<>>
                    /\ \A t \in Thread : status[t] \notin {"waiting", "awaiting"}]_vars
  OBVIOUS
<1>4. Spec => []NobodyForgotten
  BY ForgottenCorrect
<1>5. QED
  BY <1>2, <1>3, <1>4, AsyncsInvariant, PTL DEF Spec, ReturnsWhenDone
=============================================================================
