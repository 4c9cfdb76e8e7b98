----------------------- MODULE TaskManagerV2Refinement -----------------------
(* The v2 scheduler implements Scheduler: how its queues stand for promises.*)
EXTENDS TaskManagerV2

\* the address is known, and not the one whose first entry is being fired
StillKnown(t) ==
  /\ t \in known_deferred_threads
  /\ ~(firing.arm = "deferred" /\ firing.thread = t)

(* The entries of the deferred queue count once for each coroutine, and no  *)
(* more when the address is not known: two deferrals of a coroutine before  *)
(* it runs are one promise.                                                 *)
HasDeferredEntry(t) ==
  \/ Queued([op |-> "DeferredThread", thread |-> t])
  \/ StillKnown(t) /\ \E i \in DOMAIN deferred_queue : deferred_queue[i] = t

HasPromise(t, kind) ==
  \/ kind = "waiting" /\ HasWaitEntry(t)
  \/ kind = "awaiting" /\ HasAsyncEntry(t)
  \/ kind = "deferred" /\ HasDeferredEntry(t)

Kind == {"waiting", "deferred", "awaiting"}
Owed == {p \in Thread \X Kind : HasPromise(p[1], p[2])}

\* a Clear event is in the channel, and the loop may still receive it
Clearing == pc # "drain" /\ Queued([op |-> "Clear", thread |-> NoThread])

Sched == INSTANCE Scheduler WITH
           owed <- Owed, cancelled <- targeted, finished <- done,
           open <- (pc # "exited"), clearing <- Clearing,
           ClearsAtOnce <- FALSE

(* Whatever coroutines do, the loop keeps the promises of a task manager:   *)
(* no step of the loop loses an entry without resuming its coroutine, and   *)
(* done is set only when nothing is owed.                                   *)
ImplementsScheduler == Sched!Spec

(* done becomes true, as Scheduler promises, only when no coroutine is left *)
(* suspended in task.wait (unless it was cancelled) or in an async function.*)
FinishesWithNobodySuspended == Sched!FinishesWithNobodySuspended
=============================================================================
