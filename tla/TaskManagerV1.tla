---------------------------- MODULE TaskManagerV1 ----------------------------
(***************************************************************************)
(* The v1 scheduler (TaskManagerInner), the build without v2_taskmgr and   *)
(* without send: a loop that polls its queues at every tick, on the one OS *)
(* thread it shares with Lua, the futures of async functions and the host. *)
(* Control leaves the loop at the ticker, at the yield_now after a resume, *)
(* and while a coroutine it resumes is running.                            *)
(*                                                                         *)
(* Arguments, results and the on_response notifications are left out.      *)
(***************************************************************************)
EXTENDS Coroutines, Naturals, Sequences, FiniteSets, SequencesExt

CONSTANTS
  Slot,          (* entries of the waiting queue, told apart                *)
  Future,        (* tasks of the JoinSet, told apart                        *)
  Delay,         (* durations of task.delay                                 *)
  MaxTime,       (* bound: the clock                                        *)
  MaxDeferred,   (* bound: length of the deferred queue                     *)
  Calls          (* the optional calls that scripts and the host make       *)

ASSUME TimeAssumption  == MaxTime \in Nat /\ Delay \subseteq Nat
ASSUME BoundAssumption == MaxDeferred \in Nat /\ IsFiniteSet(Future)

VARIABLES
  \* fields of TaskManagerInner
  pending_asyncs, waiting_queue, deferred_queue, is_running, is_cancelled,
  async_task_executor,  \* the futures that have not ended
  \* the run() future
  pc,
  loop,          \* the inner loop of process() that resumed a coroutine
  spawned,       \* a task spawned by run_in_task has not been polled yet
  \* the caller of wait_till_done
  waiter,
  \* the Lua state and the clock
  lua, now,
  lost           \* history: futures that ended without decr_async

control == <<pc, loop>>
queues  == <<waiting_queue, deferred_queue>>
asyncs  == <<pending_asyncs, async_task_executor, lost>>
flags   == <<is_running, is_cancelled>>
outside == <<waiter, lua, now>>
vars == <<queues, asyncs, flags, control, spawned, outside, coroutine>>

WaitingThread == [thread : Thread, wake_at : 0..MaxTime, slot : Slot]
AsyncTask     == [thread : Thread, future : Future]

Init ==
  /\ pending_asyncs = 0 /\ async_task_executor = {} /\ lost = {}
  /\ waiting_queue = {} /\ deferred_queue = <<>>
  /\ is_running = FALSE /\ is_cancelled = FALSE
  /\ pc = "idle" /\ loop = "none" /\ spawned = FALSE
  /\ waiter = "off" /\ lua = TRUE /\ now = 0
  /\ CoroutineInit

-----------------------------------------------------------------------------
\* no code runs on the OS thread: the executor may poll any task
ExecutorTurn == current = NoThread /\ pc \in {"idle", "yield_now", "ticker"}

\* host code or a running coroutine can make a library call
CallerTurn == ExecutorTurn \/ current # NoThread

FreeSlots   == Slot \ {e.slot : e \in waiting_queue}
FreeFutures == Future \ {a.future : a \in async_task_executor \cup lost}

\* mutants: futures are not counted; ended futures are not discounted
IncrNothing == UNCHANGED pending_asyncs
DecrNothing == UNCHANGED pending_asyncs

IncrAsync == pending_asyncs' = pending_asyncs + 1
DecrAsync == pending_asyncs' = pending_asyncs - 1

-----------------------------------------------------------------------------
(* Calls of Lua scripts and of the host.                                    *)

\* task.spawn, coroutine.resume, Scheduler::spawn_thread
TaskSpawn(t) ==
  /\ CallerTurn /\ lua
  /\ status[t] \in Resumable \cup {"free"}
  /\ Enter(t)
  /\ UNCHANGED <<queues, asyncs, flags, control, spawned, outside>>

\* mutant: entries with the same wake_at are equal, and one replaces the other
AddWaitingThreadOnce(t, duration) ==
  /\ now + duration <= MaxTime
  /\ \E slot \in FreeSlots :
       waiting_queue' = {e \in waiting_queue : e.wake_at # now + duration}
         \cup {[thread |-> t, wake_at |-> now + duration, slot |-> slot]}

AddWaitingThread(t, duration) ==
  /\ now + duration <= MaxTime
  /\ \E slot \in FreeSlots :
       waiting_queue' = waiting_queue
         \cup {[thread |-> t, wake_at |-> now + duration, slot |-> slot]}

\* the shortest task.wait, 0.05 seconds, is one unit of the clock
TaskWait ==
  /\ "wait" \in Calls /\ current # NoThread
  /\ AddWaitingThread(current, 1)
  /\ Leave("waiting")
  /\ UNCHANGED <<deferred_queue, asyncs, flags, control, spawned, outside>>

TaskDelay(t) ==
  /\ "delay" \in Calls /\ current # NoThread
  /\ status' = IntoThread(t)
  /\ \E duration \in Delay : AddWaitingThread(t, duration)
  /\ UNCHANGED <<deferred_queue, asyncs, flags, control, spawned, outside,
                 current, resumer>>

\* task.defer, or push_thread of the host
TaskDefer(t) ==
  /\ "defer" \in Calls /\ CallerTurn /\ lua
  /\ Len(deferred_queue) < MaxDeferred
  /\ status' = IntoThread(t)
  /\ deferred_queue' = Append(deferred_queue, t)
  /\ UNCHANGED <<waiting_queue, asyncs, flags, control, spawned, outside,
                 current, resumer>>

\* a call of a function made by create_async_lua_function
CallAsync ==
  /\ "async" \in Calls /\ current # NoThread
  /\ IncrAsync
  /\ \E future \in FreeFutures :
       async_task_executor' = async_task_executor
         \cup {[thread |-> current, future |-> future]}
  /\ Leave("awaiting")
  /\ UNCHANGED <<lost, queues, flags, control, spawned, outside>>

\* retain: the entries of other coroutines, in their order
RetainDeferred(t) ==
  \E n \in 0..Len(deferred_queue) : \E kept \in [1..n -> DOMAIN deferred_queue] :
    /\ \A i, j \in 1..n : i < j => kept[i] < kept[j]
    /\ \A k \in DOMAIN deferred_queue :
         deferred_queue[k] # t <=> \E i \in 1..n : kept[i] = k
    /\ deferred_queue' = [i \in 1..n |-> deferred_queue[kept[i]]]

(* task.cancel takes the coroutine out of both queues, then closes it.      *)
TaskCancel(t) ==
  /\ "cancel" \in Calls /\ current # NoThread
  /\ status[t] # "free"
  /\ waiting_queue' = {e \in waiting_queue : e.thread # t}
  /\ RetainDeferred(t)
  /\ status' = Close(t)
  /\ UNCHANGED <<asyncs, flags, control, spawned, outside, current, resumer>>

CoroutineYield ==
  /\ "yield" \in Calls /\ current # NoThread
  /\ Leave("yielded")
  /\ UNCHANGED <<queues, asyncs, flags, control, spawned, outside>>

\* coroutine.close of a script: the entries of the coroutine stay
CoroutineClose(t) ==
  /\ "close" \in Calls /\ current # NoThread
  /\ status[t] # "free"
  /\ status' = Close(t)
  /\ UNCHANGED <<queues, asyncs, flags, control, spawned, outside, current, resumer>>

CoroutineEnds ==
  /\ current # NoThread
  /\ Leave("dead")
  /\ UNCHANGED <<queues, asyncs, flags, control, spawned, outside>>

Stop ==
  /\ "stop" \in Calls /\ CallerTurn
  /\ is_cancelled' = TRUE
  /\ UNCHANGED <<queues, asyncs, is_running, control, spawned, outside, coroutine>>

Unstop ==
  /\ "unstop" \in Calls /\ CallerTurn
  /\ is_cancelled' = FALSE
  /\ UNCHANGED <<queues, asyncs, is_running, control, spawned, outside, coroutine>>

Clear ==
  /\ "clear" \in Calls /\ CallerTurn
  /\ waiting_queue' = {} /\ deferred_queue' = <<>>
  /\ UNCHANGED <<asyncs, flags, control, spawned, outside, coroutine>>

\* the host drops its last handle of the Lua state
DropLua ==
  /\ "drop" \in Calls /\ ExecutorTurn
  /\ lua' = FALSE
  /\ UNCHANGED <<queues, asyncs, flags, control, spawned, waiter, now, coroutine>>

ClockTicks ==
  /\ now < MaxTime
  /\ now' = now + 1
  /\ UNCHANGED <<queues, asyncs, flags, control, spawned, waiter, lua, coroutine>>

-----------------------------------------------------------------------------
(* The futures of async functions.                                          *)

(* A future ends, with Ok or Err: it is discounted, then its coroutine is   *)
(* resumed.  If the Lua state is gone the task just returns.                *)
AsyncEnds(a) ==
  /\ ExecutorTurn
  /\ async_task_executor' = async_task_executor \ {a}
  /\ IF lua
     THEN DecrAsync /\ Resume(a.thread) /\ UNCHANGED lost
     ELSE UNCHANGED <<pending_asyncs, coroutine>> /\ lost' = lost \cup {a}
  /\ UNCHANGED <<queues, flags, control, spawned, outside>>

\* a panic ends the task of the future; nobody joins it
AsyncPanics(a) ==
  /\ "panic" \in Calls /\ ExecutorTurn
  /\ async_task_executor' = async_task_executor \ {a}
  /\ lost' = lost \cup {a}
  /\ UNCHANGED <<pending_asyncs, queues, flags, control, spawned, outside, coroutine>>

-----------------------------------------------------------------------------
(* run_in_task and run().                                                   *)

\* mutant: only the Lua state is checked
MustReturnWithoutLua == ~lua

\* mutant: a loop that ends when it has nothing to run at once
MustReturnWhenIdle ==
  is_cancelled \/ ~lua \/ (deferred_queue = <<>> /\ pending_asyncs = 0)

\* checked by run_in_task, the quick exit and the top of the loop
MustReturn == is_cancelled \/ ~lua

RunInTask ==
  /\ ExecutorTurn /\ ~spawned
  /\ ~is_running /\ ~MustReturn
  /\ spawned' = TRUE
  /\ UNCHANGED <<queues, asyncs, flags, control, outside, coroutine>>

\* the quick exit
RunRefused ==
  /\ ExecutorTurn /\ spawned
  /\ is_running \/ MustReturn
  /\ spawned' = FALSE
  /\ UNCHANGED <<queues, asyncs, flags, control, outside, coroutine>>

RunStarts ==
  /\ ExecutorTurn /\ spawned
  /\ ~is_running /\ ~MustReturn
  /\ spawned' = FALSE
  /\ is_running' = TRUE
  /\ pc' = "top"
  /\ UNCHANGED <<queues, asyncs, is_cancelled, loop, outside, coroutine>>

Goto(place) ==
  /\ pc' = place
  /\ UNCHANGED <<queues, asyncs, flags, loop, spawned, outside, coroutine>>

TopReturns ==
  /\ pc = "top" /\ MustReturn
  /\ is_running' = FALSE
  /\ pc' = "idle"
  /\ UNCHANGED <<queues, asyncs, is_cancelled, loop, spawned, outside, coroutine>>

TopProcesses == pc = "top" /\ ~MustReturn /\ Goto("waiting")

(* process(), first loop: the heap gives the entry that is due first.       *)

DueFirst(e) ==
  e.wake_at <= now /\ \A d \in waiting_queue : e.wake_at <= d.wake_at

NothingDue ==
  /\ pc = "waiting"
  /\ \A e \in waiting_queue : e.wake_at > now
  /\ Goto("deferred")

PopWaiting(e) ==
  /\ pc = "waiting" /\ DueFirst(e)
  /\ waiting_queue' = waiting_queue \ {e}
  /\ UNCHANGED <<deferred_queue, asyncs, flags, spawned, outside>>

\* the popped entry is dropped: the Lua state is gone, or the coroutine dead
DropWaiting(e) ==
  /\ PopWaiting(e)
  /\ ~lua \/ status[e.thread] \in Ended
  /\ pc' = IF lua THEN "waiting" ELSE "deferred"
  /\ UNCHANGED <<loop, coroutine>>

FireWaiting(e) ==
  /\ PopWaiting(e)
  /\ lua /\ status[e.thread] \notin Ended
  /\ Resume(e.thread)
  /\ loop' = "waiting" /\ pc' = "resume"

(* process(), second loop: the deque is emptied from the back.              *)

NothingDeferred == pc = "deferred" /\ deferred_queue = <<>> /\ Goto("ticker")

PopDeferred ==
  /\ pc = "deferred" /\ deferred_queue # <<>>
  /\ deferred_queue' = Front(deferred_queue)
  /\ UNCHANGED <<waiting_queue, asyncs, flags, spawned, outside>>

DropDeferred ==
  /\ PopDeferred
  /\ ~lua \/ status[Last(deferred_queue)] \in Ended
  /\ pc' = IF lua THEN "deferred" ELSE "ticker"
  /\ UNCHANGED <<loop, coroutine>>

FireDeferred ==
  /\ PopDeferred
  /\ lua /\ status[Last(deferred_queue)] \notin Ended
  /\ Resume(Last(deferred_queue))
  /\ loop' = "deferred" /\ pc' = "resume"

\* the resumed coroutine has returned control; the loop calls yield_now
AfterResume == pc = "resume" /\ current = NoThread /\ Goto("yield_now")

\* and goes on where it was
AfterYield ==
  /\ pc = "yield_now" /\ ExecutorTurn
  /\ pc' = loop /\ loop' = "none"
  /\ UNCHANGED <<queues, asyncs, flags, spawned, outside, coroutine>>

TickerTicks == pc = "ticker" /\ ExecutorTurn /\ Goto("top")

-----------------------------------------------------------------------------
(* wait_till_done: a loop of its own that polls is_empty().                 *)

\* mutant: the counter of futures is left out of len()
IsEmptyOfThreads == waiting_queue = {} /\ deferred_queue = <<>>

IsEmpty == waiting_queue = {} /\ deferred_queue = <<>> /\ pending_asyncs = 0

\* mutant: only an empty scheduler lets the waiter go
WaitTillEmpty ==
  /\ waiter \in {"off", "sleep"} /\ ExecutorTurn
  /\ waiter' = "yield_now"
  /\ UNCHANGED <<queues, asyncs, flags, control, spawned, lua, now, coroutine>>

WaitTillDone ==
  /\ waiter \in {"off", "sleep"} /\ ExecutorTurn
  /\ waiter' = IF is_cancelled THEN "returned" ELSE "yield_now"
  /\ UNCHANGED <<queues, asyncs, flags, control, spawned, lua, now, coroutine>>

WaiterChecks ==
  /\ waiter = "yield_now" /\ ExecutorTurn
  /\ waiter' = IF IsEmpty THEN "returned" ELSE "sleep"
  /\ UNCHANGED <<queues, asyncs, flags, control, spawned, lua, now, coroutine>>

-----------------------------------------------------------------------------
Environment ==
  \/ \E t \in Thread : TaskSpawn(t) \/ TaskDelay(t) \/ TaskDefer(t) \/ TaskCancel(t)
                       \/ CoroutineClose(t)
  \/ TaskWait \/ CallAsync \/ CoroutineYield \/ CoroutineEnds
  \/ Stop \/ Unstop \/ Clear \/ DropLua \/ ClockTicks
  \/ \E a \in async_task_executor : AsyncEnds(a) \/ AsyncPanics(a)

Run ==
  \/ RunInTask \/ RunRefused \/ RunStarts
  \/ TopReturns \/ TopProcesses
  \/ NothingDue \/ \E e \in waiting_queue : DropWaiting(e) \/ FireWaiting(e)
  \/ NothingDeferred \/ DropDeferred \/ FireDeferred
  \/ AfterResume \/ AfterYield \/ TickerTicks

Next == Environment \/ Run \/ WaitTillDone \/ WaiterChecks

Spec == Init /\ [][Next]_vars

(***************************************************************************)
(* Fairness.  The executor polls every ready task in turn, the ticker      *)
(* ticks, time passes, and a coroutine that runs yields or ends at some    *)
(* time.  A future need not end.                                           *)
(***************************************************************************)
Leaves == TaskWait \/ CallAsync \/ CoroutineYield \/ CoroutineEnds

Process ==
  \/ TopReturns \/ TopProcesses
  \/ NothingDue \/ \E e \in waiting_queue : DropWaiting(e) \/ FireWaiting(e)
  \/ NothingDeferred \/ DropDeferred \/ FireDeferred
  \/ AfterResume

FairSpec ==
  /\ Spec
  /\ WF_vars(ClockTicks)
  /\ WF_vars(Process)
  /\ SF_vars(AfterYield \/ TickerTicks)
  /\ SF_vars(RunInTask \/ RunRefused \/ RunStarts)
  /\ SF_vars(waiter # "off" /\ (WaitTillDone \/ WaiterChecks))
  /\ \A t \in Thread : SF_vars(current = t /\ Leaves)

-----------------------------------------------------------------------------
(* Properties.                                                              *)

\* the types of the variables
TypeOK ==
  /\ pending_asyncs \in Nat
  /\ async_task_executor \subseteq AsyncTask /\ lost \subseteq AsyncTask
  /\ waiting_queue \subseteq WaitingThread
  /\ deferred_queue \in Seq(Thread)
  /\ is_running \in BOOLEAN /\ is_cancelled \in BOOLEAN
  /\ pc \in {"idle", "top", "waiting", "deferred", "resume", "yield_now", "ticker"}
  /\ loop \in {"none", "waiting", "deferred"}
  /\ spawned \in BOOLEAN
  /\ waiter \in {"off", "yield_now", "sleep", "returned"}
  /\ lua \in BOOLEAN /\ now \in 0..MaxTime
  /\ CoroutineType

(* pending_asyncs counts the futures that have not ended, and those that    *)
(* ended without being discounted: decr_async never takes it below zero,    *)
(* and is_empty never overlooks a future.                                   *)
AsyncsCounted ==
  pending_asyncs = Cardinality(async_task_executor) + Cardinality(lost)

HasWaitEntry(t) == \E e \in waiting_queue : e.thread = t

HasRunningFuture(t) == \E a \in async_task_executor : a.thread = t

\* where futures can panic, one of t has
Stranded(t) == "panic" \in Calls /\ \E a \in lost : a.thread = t

(* A coroutine suspended in task.wait has an entry in the waiting queue,    *)
(* and one suspended in an async function has a future that still runs and  *)
(* will resume it, whoever resumes it in between.  The one exception: a     *)
(* future that panics takes its task with it, and leaves its coroutine      *)
(* suspended for ever.                                                      *)
NobodyForgotten ==
  lua =>
    \A t \in Thread :
      /\ status[t] = "waiting" => HasWaitEntry(t)
      /\ status[t] = "awaiting" => HasRunningFuture(t) \/ Stranded(t)

(* wait_till_done returns when the scheduler is stopped, or when no         *)
(* coroutine is suspended in task.wait, deferred, or in an async function:  *)
(* a coroutine popped from a queue has run before anybody looks.            *)
ReturnsWhenDone ==
  [][waiter' = "returned" /\ waiter # "returned" /\ lua =>
       \/ is_cancelled
       \/ deferred_queue = <<>> /\ \A t \in Thread : status[t] \notin {"waiting", "awaiting"}]_vars

(* process() empties the deque, and the heap of what is due, before it      *)
(* comes back to anything else: a coroutine that defers itself again and    *)
(* again, or delays itself by nothing, keeps it for ever.  This is the      *)
(* premise that such calls cease in the end.                                *)
AtOnceCeases ==
  <>[][/\ Len(deferred_queue') <= Len(deferred_queue)
       /\ \A e \in waiting_queue' \ waiting_queue : e.wake_at > now]_vars

(* A coroutine in task.wait is resumed when its time has come, as long as   *)
(* nobody stops or clears the scheduler or drops the Lua state, and the     *)
(* deferrals and the delays of nothing cease.                               *)
WaiterIsResumed ==
  AtOnceCeases =>
    \A t \in Thread :
      (status[t] = "waiting" /\ HasWaitEntry(t))
        ~> \/ status[t] # "waiting"
           \/ is_cancelled \/ ~lua
           \/ "clear" \in Calls /\ ~HasWaitEntry(t)

(* A stopped loop exits, if the deferrals and the delays of nothing cease,  *)
(* unless somebody calls unstop first.                                      *)
StopExits ==
  AtOnceCeases => (is_cancelled /\ is_running) ~> (~is_running \/ ~is_cancelled)

(* Whoever waits until the task manager is done returns after stop, whether *)
(* the loop exits or a coroutine that defers itself keeps it from exiting.  *)
StopReleasesWaiter ==
  (is_cancelled /\ waiter \in {"yield_now", "sleep"}) ~> (waiter = "returned" \/ ~is_cancelled)

-----------------------------------------------------------------------------
(* What a test says and the code does not do: violated by a run of its own. *)

Deferred(t) == \E i \in DOMAIN deferred_queue : deferred_queue[i] = t

(* A deferred coroutine runs or is dropped, as long as nobody stops         *)
(* the scheduler or drops the Lua state.                                    *)
DeferredRuns ==
  \A t \in Thread : Deferred(t) ~> (~Deferred(t) \/ current = t \/ is_cancelled \/ ~lua)
=============================================================================
