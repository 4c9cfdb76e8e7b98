----------------------- MODULE TaskManagerV1Refinement -----------------------
(* The v1 scheduler implements Scheduler: how its queues stand for promises.*)
EXTENDS TaskManagerV1

HasDeferredEntry(t) == \E i \in DOMAIN deferred_queue : deferred_queue[i] = t

\* a future that ended without decr_async is owed: pending_asyncs counts it
HasFuture(t) == \E a \in async_task_executor \cup lost : a.thread = t

HasPromise(t, kind) ==
  \/ kind = "waiting" /\ HasWaitEntry(t)
  \/ kind = "awaiting" /\ HasFuture(t)
  \/ kind = "deferred" /\ HasDeferredEntry(t)

Kind == {"waiting", "deferred", "awaiting"}
Owed == {p \in Thread \X Kind : HasPromise(p[1], p[2])}

Sched == INSTANCE Scheduler WITH
           owed <- Owed, cancelled <- {}, finished <- (waiter = "returned"),
           open <- TRUE, clearing <- FALSE, ClearsAtOnce <- TRUE

(* Whatever coroutines do, the loop keeps the promises of a task manager:   *)
(* no step of the loop loses an entry without resuming its coroutine, and   *)
(* wait_till_done returns only when nothing is owed.                        *)
ImplementsScheduler == Sched!Spec

(* wait_till_done returns by itself, as Scheduler promises, only when no    *)
(* coroutine is left suspended in task.wait or in an async function.        *)
FinishesWithNobodySuspended == Sched!FinishesWithNobodySuspended
=============================================================================
