--------------------------------- MODULE Host ---------------------------------
(***************************************************************************)
(* A program that embeds the v2 scheduler with a ThreadTracker attached, as *)
(* the command line tool does: it starts the loop, runs scripts with       *)
(* spawn_thread_and_wait, waits after each of them until the task manager  *)
(* is done, then stops it and drops the Lua state.  The tool runs one      *)
(* script after the other, on a new coroutine each; a host may as well run *)
(* them in tasks of their own, and on coroutines that others know.         *)
(*                                                                         *)
(* The tasks of the host share the OS thread with the loop and with Lua.   *)
(***************************************************************************)
EXTENDS ThreadTracker, FiniteSets

CONSTANTS
  Key, Calls, MaxBacklog, MaxRuns,    (* of TaskManagerV2                   *)
  MaxResults                          (* bound: results not received yet    *)

ASSUME KeyAssumption     == NoThread \notin Key
ASSUME BacklogAssumption == MaxBacklog \in Nat
ASSUME RunsAssumption    == MaxRuns \in Nat \ {0}

VARIABLES
  rx, done, is_running, is_cancelled, cancel, pc, firing, wait_queue, wait_keys,
  deferred_queue, known_deferred_threads, async_queue, spawned, lua,
  targeted                            \* of TaskManagerV2

TM == INSTANCE TaskManagerV2

manager == <<rx, done, is_running, is_cancelled, cancel, pc, firing, wait_queue, wait_keys,
             deferred_queue, known_deferred_threads, async_queue, spawned, lua,
             targeted>>
vars == <<manager, coroutine, tracker>>

Init == TM!Init /\ TrackerInit

-----------------------------------------------------------------------------
(* Every resume reports to the tracker when it returns: those of the loop,  *)
(* task.spawn, the patched coroutine.resume, and spawn_thread.              *)

HasRoom(t) == \A c \in Receiver(t) : Len(results[c]) < MaxResults

\* t runs, and leaves with this step
Left(t) == current = t /\ status'[t] # "active"

\* the result of the resume that ends when t leaves
ResultOf(t) == IF status'[t] = "dead" THEN "end" ELSE "yield"

\* an arm of the loop resumes a coroutine that cannot be resumed
LoopRefused(t) ==
  /\ firing = TM!NotFiring /\ firing' # TM!NotFiring
  /\ firing'.thread = t /\ status[t] \notin Resumable

(* An arm of the loop whose future did not panic looks at the status first, *)
(* and reports nothing of a coroutine that has ended.                       *)
Report ==
  \/ \E t \in Thread : Left(t) /\ OnResponse(t, ResultOf(t))
  \/ \E t \in Thread :
       /\ LoopRefused(t) /\ HasRoom(t)
       /\ OnResponse(t, "refused") \/ (firing'.arm = "async" /\ UNCHANGED tracker)
  \/ /\ \A t \in Thread :
          /\ ~Left(t) /\ ~LoopRefused(t)
          /\ status[t] # "active" /\ status'[t] = "active" => HasRoom(t)
     /\ UNCHANGED tracker

\* a call keeps its coroutine from being collected
Held == {thread[c] : c \in Caller} \ {NoThread}
NotCollected == \A t \in Held : status'[t] # "free"

TaskManagerStep == TM!Next /\ Report /\ NotCollected

\* task.spawn or coroutine.resume of a coroutine that cannot be resumed
ResumeRefused(t) ==
  /\ current # NoThread /\ status[t] \in {"active"} \cup Ended
  /\ HasRoom(t)
  /\ OnResponse(t, "refused")
  /\ UNCHANGED <<manager, coroutine>>

-----------------------------------------------------------------------------
(* The tasks of the host.                                                   *)

SpawnThreadAndWait(c, t) ==
  /\ TM!ExecutorTurn /\ lua
  /\ Track(c, t)
  /\ IF status[t] \in Ended THEN UNCHANGED <<manager, coroutine>> ELSE TM!TaskSpawn(t)

\* "Lua state is not valid"
SpawnFails(c) ==
  /\ TM!ExecutorTurn /\ ~lua
  /\ call[c] = "new"
  /\ Returns(c)
  /\ UNCHANGED <<value, manager, coroutine>>

Receives(c) ==
  /\ TM!ExecutorTurn
  /\ IF lua THEN Recv(c) ELSE RecvWithoutLua(c)
  /\ UNCHANGED <<manager, coroutine>>

ReceivesNone(c) ==
  /\ TM!ExecutorTurn
  /\ RecvNone(c)
  /\ UNCHANGED <<manager, coroutine>>

\* mutant: the task manager is not waited for
WaitsForNothing(c) == call[c] = "returned"

\* wait_till_done of a task that has its result
WaitsTillDone(c) == call[c] = "returned" /\ done

(* The task goes on when done is set; the last one stops the task manager   *)
(* and drops the Lua state before anybody else runs.                        *)
Finishes(c) ==
  /\ TM!ExecutorTurn /\ WaitsTillDone(c)
  /\ call' = [call EXCEPT ![c] = "done"]
  /\ value' = [value EXCEPT ![c] = "none"]
  /\ IF \A d \in Caller \ {c} : call[d] = "done"
     THEN is_cancelled' = TRUE /\ lua' = FALSE
     ELSE UNCHANGED <<is_cancelled, lua>>
  /\ UNCHANGED <<returns, results, thread, rx, done, is_running, cancel, pc, firing,
                 wait_queue, wait_keys, deferred_queue, known_deferred_threads,
                 async_queue, spawned, targeted, coroutine>>

Next ==
  \/ TaskManagerStep
  \/ \E t \in Thread : ResumeRefused(t)
  \/ \E c \in Caller, t \in Thread : SpawnThreadAndWait(c, t)
  \/ \E c \in Caller : SpawnFails(c) \/ Receives(c) \/ ReceivesNone(c) \/ Finishes(c)

Spec == Init /\ [][Next]_vars

(* The executor polls a task whose channel has something for it; the loop   *)
(* goes on, and a coroutine that runs leaves at some time.                  *)
LoopGoesOn == TM!TopReturns \/ TM!TopSelects \/ TM!AfterResume \/ TM!Bottom

FairSpec ==
  /\ Spec
  /\ WF_vars(LoopGoesOn /\ Report)
  /\ \A t \in Thread : SF_vars(current = t /\ TM!Leaves /\ Report)
  /\ \A c \in Caller : SF_vars(Receives(c) \/ ReceivesNone(c))

-----------------------------------------------------------------------------
(* Properties.                                                              *)

TypeOK == TM!TypeOK /\ TrackerType

Returning(c) == call[c] = "recv" /\ call'[c] = "returned"

(* spawn_thread_and_wait gives the output of its coroutine: when it returns *)
(* while the Lua state lives, the coroutine has ended and its last result   *)
(* is returned, not one of its yields, although results arrive while the    *)
(* call is not polled.  The exceptions: another call has tracked the same   *)
(* coroutine since, or the coroutine did not end by itself (coroutine.close *)
(* or task.cancel has closed it: it has no output).  An error of a later    *)
(* attempt to resume the ended coroutine may take the place of the output.  *)
ReturnsOutput ==
  [][\A c \in Caller :
       Returning(c) /\ lua =>
         \/ status[thread[c]] = "dead" /\ value'[c] \in {"end", "refused"}
         \/ status[thread[c]] = "closed"
         \/ ~SenderKept(c)]_vars

(* A call never waits in vain: when its coroutine has ended by itself and   *)
(* the tracker would still send to it, its channel holds a result, although *)
(* the call takes results out while more of them arrive.  (A coroutine that *)
(* is closed while it is suspended reports nothing.)                        *)
NeverWaitsInVain ==
  \A c \in Caller :
    call[c] = "recv" /\ status[thread[c]] = "dead" /\ SenderKept(c) => results[c] # <<>>

\* a result for c that ends its call: of a coroutine that has ended by itself
\* it is there or will come, of a closed one, or without Lua, if there is any
Answered(c) ==
  \/ status[thread[c]] = "dead"
  \/ results[c] # <<>> /\ (status[thread[c]] = "closed" \/ ~lua)

\* somebody has tried to resume the ended coroutine behind the results of c
TriedAgain(c) == lua /\ Len(results[c]) > 1 /\ results[c][Len(results[c])] = "refused"

(* And it does return: when the coroutine has ended by itself, its result   *)
(* reaches the call; when it was closed, the next result does, if there is  *)
(* one; and when the Lua state is gone, any result that is left.  (Scripts  *)
(* that try to resume the ended coroutine again and again can keep the call *)
(* from returning: it takes a result for the last one only if no other has  *)
(* come.)                                                                   *)
CallReturns ==
  \A c \in Caller : (call[c] = "recv" /\ Answered(c)) ~> (call[c] # "recv" \/ TriedAgain(c))

AllDone == \A c \in Caller : call[c] = "done"

(* When the host stops the task manager, after every script has returned    *)
(* and wait_till_done too, no coroutine is left suspended in task.wait or   *)
(* in an async function, unless it was cancelled or the loop ended before.  *)
FinishLeavesNobody ==
  [][AllDone' /\ ~AllDone /\ TM!LoopAlive =>
       \A t \in Thread : status[t] \in {"waiting", "awaiting"} => t \in targeted]_vars
=============================================================================
