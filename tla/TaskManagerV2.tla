---------------------------- MODULE TaskManagerV2 ----------------------------
(***************************************************************************)
(* The v2 scheduler (CoreScheduler) of the default build: features         *)
(* v2_taskmgr without send, so every tokio task, the event loop of run()   *)
(* and all Lua code share one OS thread.  Control leaves run() only at an  *)
(* await (select!, or the drain of Clear) or while a coroutine it resumes  *)
(* is running; everything between two such points is one block of code.    *)
(*                                                                         *)
(* Lua scripts and the host are the environment: a coroutine that runs may *)
(* make any sequence of library calls before it yields or ends.  Calls     *)
(* names the calls they make in a given instance.                          *)
(*                                                                         *)
(* Data the properties do not tell apart is left out: arguments, results,  *)
(* durations (an entry of the delay queue may expire at any time) and the  *)
(* outcome of a future (Ok, Err and panic all resume its coroutine).       *)
(***************************************************************************)
EXTENDS Coroutines, Naturals, Sequences, FiniteSets, FiniteSetsExt

CONSTANTS
  Key,         (* slots of the delay queue                                 *)
  Calls,       (* the optional calls that scripts and the host make        *)
  MaxBacklog,  (* bound: entries pending in the scheduler at one time      *)
  MaxRuns      (* bound: run() tasks spawned and not polled yet            *)

ASSUME KeyAssumption     == NoThread \notin Key
ASSUME BacklogAssumption == MaxBacklog \in Nat
ASSUME RunsAssumption    == MaxRuns \in Nat \ {0}

VARIABLES
  \* fields of CoreScheduler
  rx,            \* the event channel
  done,          \* value of the done watch channel
  is_running, is_cancelled,
  cancel,        \* addresses marked by cancel_task
  \* the run() future: where it stands, and its local variables
  pc,
  firing,        \* the arm that is resuming a coroutine
  wait_queue, wait_keys, deferred_queue, known_deferred_threads, async_queue,
  \* tokio tasks that call run()
  spawned,       \* tasks spawned by run_in_task, not polled yet
  \* the Lua state
  lua,           \* the host still holds the Lua state
  targeted       \* history: coroutines some task.cancel was called on

locals    == <<wait_queue, wait_keys, deferred_queue, known_deferred_threads,
               async_queue>>
flags     == <<is_running, is_cancelled>>
control   == <<pc, firing>>
vars == <<rx, done, flags, cancel, control, locals, spawned, lua, coroutine,
          targeted>>

Event     == [op : {"Wait", "DeferredThread", "AddAsync"}, thread : Thread]
             \cup [op : {"Clear"}, thread : {NoThread}]
WaitEntry == [thread : Thread, key : Key]
NotFiring == [arm |-> "none", thread |-> NoThread, key |-> NoThread]
Firing    == [arm : {"wait"}, thread : Thread, key : Key]
             \cup [arm : {"deferred", "async"}, thread : Thread,
                   key : {NoThread}]

NoKeys   == [t \in Thread |-> {}]
NoAsyncs == [t \in Thread |-> 0]

\* mutant: the futures are left out
NothingButFutures ==
  wait_queue = {} /\ deferred_queue = <<>> /\ rx = <<>>

(* The four queues whose emptiness the loop reports through done.           *)
NothingPending ==
  /\ async_queue = NoAsyncs
  /\ wait_queue = {}
  /\ deferred_queue = <<>>
  /\ rx = <<>>

Backlog == Len(rx) + Cardinality(wait_queue) + Len(deferred_queue)
           + MapThenSumSet(LAMBDA t : async_queue[t], Thread)

Init ==
  /\ rx = <<>> /\ done = TRUE
  /\ is_running = FALSE /\ is_cancelled = FALSE
  /\ cancel = {}
  /\ pc = "idle" /\ firing = NotFiring
  /\ wait_queue = {} /\ wait_keys = NoKeys
  /\ deferred_queue = <<>> /\ known_deferred_threads = {}
  /\ async_queue = NoAsyncs
  /\ spawned = 0
  /\ lua = TRUE
  /\ CoroutineInit
  /\ targeted = {}

-----------------------------------------------------------------------------
(* Whose turn it is on the one OS thread.                                   *)

\* run() is not between two of its awaits and no coroutine runs
ExecutorTurn == current = NoThread /\ pc \notin {"top", "bottom", "lua"}

\* host code or a running coroutine can make a library call
CallerTurn == ExecutorTurn \/ current # NoThread

\* mutant: a push that does not clear done
PushEventKeepsDone(event) ==
  /\ Backlog < MaxBacklog
  /\ rx' = IF pc = "exited" THEN rx ELSE Append(rx, event)
  /\ UNCHANGED done

\* mutant: a channel with room for one event, and a send that does not wait
PushEventBounded(event) ==
  /\ Backlog < MaxBacklog
  /\ done' = FALSE
  /\ rx' = IF pc = "exited" \/ rx # <<>> THEN rx ELSE Append(rx, event)

(* push_event: once run() has returned, the receiver is gone and the send   *)
(* fails silently.                                                          *)
PushEvent(event) ==
  /\ Backlog < MaxBacklog
  /\ done' = FALSE
  /\ rx' = IF pc = "exited" THEN rx ELSE Append(rx, event)

-----------------------------------------------------------------------------
(* Calls of Lua scripts and of the host.                                    *)

\* task.spawn, coroutine.resume, Scheduler::spawn_thread
TaskSpawn(t) ==
  /\ CallerTurn /\ lua
  /\ status[t] \in Resumable \cup {"free"}
  /\ Enter(t)
  /\ UNCHANGED <<rx, done, flags, cancel, control, locals, spawned, lua, targeted>>

TaskWait ==
  /\ "wait" \in Calls /\ current # NoThread
  /\ PushEvent([op |-> "Wait", thread |-> current])
  /\ Leave("waiting")
  /\ UNCHANGED <<flags, cancel, control, locals, spawned, lua, targeted>>

TaskDelay(t) ==
  /\ "delay" \in Calls /\ current # NoThread
  /\ status' = IntoThread(t)
  /\ PushEvent([op |-> "Wait", thread |-> t])
  /\ UNCHANGED <<flags, cancel, control, locals, spawned, lua, current, resumer,
                 targeted>>

\* task.defer; push_thread of the ext crate does the same for the host
TaskDefer(t) ==
  /\ "defer" \in Calls /\ CallerTurn /\ lua
  /\ status' = IntoThread(t)
  /\ PushEvent([op |-> "DeferredThread", thread |-> t])
  /\ UNCHANGED <<flags, cancel, control, locals, spawned, lua, current, resumer,
                 targeted>>

\* a call of a function made by create_async_lua_function
CallAsync ==
  /\ "async" \in Calls /\ current # NoThread
  /\ PushEvent([op |-> "AddAsync", thread |-> current])
  /\ Leave("awaiting")
  /\ UNCHANGED <<flags, cancel, control, locals, spawned, lua, targeted>>

(* task.cancel marks the address first and closes the coroutine second;     *)
(* closing one that is running, or has resumed the caller, raises an error  *)
(* and leaves it alive.                                                     *)
TaskCancel(t) ==
  /\ "cancel" \in Calls /\ current # NoThread
  /\ status[t] # "free"
  /\ cancel' = cancel \cup {t}
  /\ targeted' = targeted \cup {t}
  /\ status' = Close(t)
  /\ UNCHANGED <<rx, done, flags, control, locals, spawned, lua, current, resumer>>

CoroutineYield ==
  /\ "yield" \in Calls /\ current # NoThread
  /\ Leave("yielded")
  /\ UNCHANGED <<rx, done, flags, cancel, control, locals, spawned, lua, targeted>>

(* coroutine.close of a script goes past the scheduler: there is no mark,   *)
(* and the entries of the coroutine stay where they are.                    *)
CoroutineClose(t) ==
  /\ "close" \in Calls /\ current # NoThread
  /\ status[t] # "free"
  /\ status' = Close(t)
  /\ UNCHANGED <<rx, done, flags, cancel, control, locals, spawned, lua, current,
                 resumer, targeted>>

\* the coroutine's function returns or raises an error
CoroutineEnds ==
  /\ current # NoThread
  /\ Leave("dead")
  /\ UNCHANGED <<rx, done, flags, cancel, control, locals, spawned, lua, targeted>>

(* The collector frees an ended coroutine that no queue refers to; the next *)
(* new coroutine may get its address.                                       *)
Collect(t) ==
  /\ "collect" \in Calls /\ CallerTurn /\ lua
  /\ status[t] \in Ended
  /\ \A i \in DOMAIN rx : rx[i].thread # t
  /\ \A e \in wait_queue : e.thread # t
  /\ \A i \in DOMAIN deferred_queue : deferred_queue[i] # t
  /\ async_queue[t] = 0
  /\ firing.thread # t
  /\ status' = [status EXCEPT ![t] = "free"]
  /\ targeted' = targeted \ {t}
  /\ UNCHANGED <<rx, done, flags, cancel, control, locals, spawned, lua, current,
                 resumer>>

Stop ==
  /\ "stop" \in Calls /\ CallerTurn
  /\ is_cancelled' = TRUE
  /\ UNCHANGED <<rx, done, is_running, cancel, control, locals, spawned, lua,
                 coroutine, targeted>>

Unstop ==
  /\ "unstop" \in Calls /\ CallerTurn
  /\ is_cancelled' = FALSE
  /\ UNCHANGED <<rx, done, is_running, cancel, control, locals, spawned, lua,
                 coroutine, targeted>>

Clear ==
  /\ "clear" \in Calls /\ CallerTurn
  /\ PushEvent([op |-> "Clear", thread |-> NoThread])
  /\ UNCHANGED <<flags, cancel, control, locals, spawned, lua, coroutine, targeted>>

\* the host drops its last handle of the Lua state
DropLua ==
  /\ "drop" \in Calls /\ ExecutorTurn
  /\ lua' = FALSE
  /\ UNCHANGED <<rx, done, flags, cancel, control, locals, spawned, coroutine,
                 targeted>>

-----------------------------------------------------------------------------
(* run_in_task and the prologue of run().                                   *)

RunInTask ==
  /\ ExecutorTurn
  /\ ~is_running /\ ~is_cancelled /\ lua
  /\ spawned < MaxRuns
  /\ spawned' = spawned + 1
  /\ UNCHANGED <<rx, done, flags, cancel, control, locals, lua,
                 coroutine, targeted>>

\* take().expect(..): an earlier run() has taken the receivers
RunPanics ==
  /\ ExecutorTurn /\ spawned > 0 /\ pc # "idle"
  /\ spawned' = spawned - 1
  /\ UNCHANGED <<rx, done, flags, cancel, control, locals, lua, coroutine,
                 targeted>>

\* mutant: only the Lua state is checked
MustReturnWithoutLua == ~lua

\* checked by the quick exit, and at the top of each round of the loop
MustReturn == is_cancelled \/ ~lua

\* the quick exit drops the receivers it has taken
RunRefused ==
  /\ ExecutorTurn /\ spawned > 0 /\ pc = "idle"
  /\ is_running \/ MustReturn
  /\ spawned' = spawned - 1
  /\ done' = TRUE
  /\ pc' = "exited" /\ rx' = <<>>
  /\ UNCHANGED <<flags, cancel, firing, locals, lua, coroutine,
                 targeted>>

RunStarts ==
  /\ ExecutorTurn /\ spawned > 0 /\ pc = "idle"
  /\ ~is_running /\ ~MustReturn
  /\ spawned' = spawned - 1
  /\ is_running' = TRUE
  /\ pc' = "top"
  /\ UNCHANGED <<rx, done, is_cancelled, cancel, firing, locals, lua,
                 coroutine, targeted>>

-----------------------------------------------------------------------------
(* The event loop.  An arm of select! may be taken at an executor turn.     *)

AtSelect == pc = "select" /\ current = NoThread

\* the future of run() ends: its local variables and its receivers are dropped
Dropped ==
  /\ pc' = "exited"
  /\ rx' = <<>>
  /\ wait_queue' = {} /\ wait_keys' = NoKeys
  /\ deferred_queue' = <<>> /\ known_deferred_threads' = {}
  /\ async_queue' = NoAsyncs
  /\ UNCHANGED <<is_cancelled, cancel, firing, spawned, lua, coroutine, targeted>>

\* return from run()
Return ==
  /\ is_running' = FALSE
  /\ done' = TRUE
  /\ Dropped

TopReturns ==
  /\ pc = "top" /\ MustReturn
  /\ Return

TopSelects ==
  /\ pc = "top" /\ ~MustReturn
  /\ pc' = "select"
  /\ UNCHANGED <<rx, done, flags, cancel, firing, locals, spawned, lua, coroutine,
                 targeted>>

\* mutant: completions are not matched with futures
HasFutureAlways(t) == TRUE

\* a future of t is in the queue, so that it may complete
HasFuture(t) == async_queue[t] > 0

\* an arm that needs the Lua state finds it gone
ArmReturns ==
  /\ AtSelect /\ ~lua
  /\ \/ rx # <<>> /\ Head(rx).op = "Wait"
     \/ wait_queue # {}
     \/ deferred_queue # <<>>
     \/ \E t \in Thread : HasFuture(t)
  /\ Return

Receive(op) ==
  /\ AtSelect
  /\ rx # <<>> /\ Head(rx).op = op
  /\ rx' = Tail(rx)

RecvWait ==
  /\ Receive("Wait") /\ lua
  /\ LET t == Head(rx).thread IN
     \E key \in Key \ {e.key : e \in wait_queue} :
       /\ wait_queue' = wait_queue \cup {[thread |-> t, key |-> key]}
       /\ wait_keys' = [wait_keys EXCEPT ![t] = @ \cup {key}]
  /\ pc' = "bottom"
  /\ UNCHANGED <<done, flags, cancel, firing, deferred_queue,
                 known_deferred_threads, async_queue, spawned, lua, coroutine,
                 targeted>>

\* mutant: to the front of the deferred queue
AddDeferredInFront(t) == <<t>> \o deferred_queue

\* to the back of the deferred queue
AddDeferred(t) == Append(deferred_queue, t)

RecvDeferred ==
  /\ Receive("DeferredThread")
  /\ LET t == Head(rx).thread IN
     /\ deferred_queue' = AddDeferred(t)
     /\ known_deferred_threads' = known_deferred_threads \cup {t}
  /\ pc' = "bottom"
  /\ UNCHANGED <<done, flags, cancel, firing, wait_queue, wait_keys,
                 async_queue, spawned, lua, coroutine, targeted>>

(* The arm takes the address without upgrading the Lua state first.  What   *)
(* mlua does when the state is gone is not known here: it may as well panic *)
(* and end the task, with is_running set and done as it is.                 *)
RecvDeferredPanics ==
  /\ AtSelect /\ ~lua
  /\ rx # <<>> /\ Head(rx).op = "DeferredThread"
  /\ Dropped
  /\ UNCHANGED <<done, is_running>>

RecvAsync ==
  /\ Receive("AddAsync")
  /\ async_queue' = [async_queue EXCEPT ![Head(rx).thread] = @ + 1]
  /\ pc' = "bottom"
  /\ UNCHANGED <<done, flags, cancel, firing, wait_queue, wait_keys,
                 deferred_queue, known_deferred_threads, spawned, lua, coroutine,
                 targeted>>

(* Clear drains the deferred channel until recv() returns None, which it    *)
(* does when every sender is dropped; run() itself owns the only sender, so *)
(* no step leaves "drain".                                                  *)
RecvClear ==
  /\ Receive("Clear")
  /\ wait_queue' = {} /\ wait_keys' = NoKeys
  /\ cancel' = {}
  /\ deferred_queue' = <<>>
  /\ pc' = "drain"
  /\ UNCHANGED <<done, flags, firing, known_deferred_threads, async_queue,
                 spawned, lua, coroutine, targeted>>

\* mutant: all addresses compare equal
CancelledAny(t) == cancel # {}

\* the arms look the address up among the marks
Cancelled(t) == t \in cancel

\* a cancelled entry: the mark is used up and `continue` goes to the loop top
SkipWait(e) ==
  /\ AtSelect /\ lua
  /\ e \in wait_queue /\ Cancelled(e.thread)
  /\ wait_queue' = wait_queue \ {e}
  /\ cancel' = cancel \ {e.thread}
  /\ pc' = "top"
  /\ UNCHANGED <<rx, done, flags, firing, wait_keys, deferred_queue,
                 known_deferred_threads, async_queue, spawned, lua, coroutine,
                 targeted>>

FireWait(e) ==
  /\ AtSelect /\ lua
  /\ e \in wait_queue /\ ~Cancelled(e.thread)
  /\ wait_queue' = wait_queue \ {e}
  /\ Resume(e.thread)
  /\ firing' = [arm |-> "wait", thread |-> e.thread, key |-> e.key]
  /\ pc' = "lua"
  /\ UNCHANGED <<rx, done, flags, cancel, wait_keys, deferred_queue,
                 known_deferred_threads, async_queue, spawned, lua, targeted>>

TakeDeferred ==
  /\ AtSelect /\ lua
  /\ deferred_queue # <<>>
  /\ deferred_queue' = Tail(deferred_queue)
  /\ UNCHANGED <<rx, done, flags, wait_queue, wait_keys, known_deferred_threads,
                 async_queue, spawned, lua, targeted>>

SkipDeferred ==
  /\ TakeDeferred
  /\ Cancelled(Head(deferred_queue))
  /\ cancel' = cancel \ {Head(deferred_queue)}
  /\ pc' = "top"
  /\ UNCHANGED <<firing, coroutine>>

\* an entry whose address is no longer known is dropped
DropDeferred ==
  /\ TakeDeferred
  /\ ~Cancelled(Head(deferred_queue))
  /\ Head(deferred_queue) \notin known_deferred_threads
  /\ pc' = "bottom"
  /\ UNCHANGED <<cancel, firing, coroutine>>

FireDeferred ==
  /\ TakeDeferred
  /\ LET t == Head(deferred_queue) IN
     /\ ~Cancelled(t) /\ t \in known_deferred_threads
     /\ Resume(t)
     /\ firing' = [arm |-> "deferred", thread |-> t, key |-> NoThread]
  /\ pc' = "lua"
  /\ UNCHANGED cancel

(* A future of t completes.  The arm does not consult cancel; a coroutine   *)
(* that has ended is not resumed (and cannot be, after a panic).            *)
FireAsync(t) ==
  /\ AtSelect /\ lua
  /\ HasFuture(t)
  /\ async_queue' = [async_queue EXCEPT ![t] = @ - 1]
  /\ Resume(t)
  /\ firing' = [arm |-> "async", thread |-> t, key |-> NoThread]
  /\ pc' = "lua"
  /\ UNCHANGED <<rx, done, flags, cancel, wait_queue, wait_keys, deferred_queue,
                 known_deferred_threads, spawned, lua, targeted>>

\* mutant: every key of the coroutine is forgotten
WithoutKeys == [wait_keys EXCEPT ![firing.thread] = {}]

\* new_keys of the wait arm: the key of the fired entry is taken out
WithoutKey == [wait_keys EXCEPT ![firing.thread] = @ \ {firing.key}]

\* the resumed coroutine has returned control to its arm
AfterResume ==
  /\ pc = "lua" /\ current = NoThread
  /\ wait_keys' = IF firing.arm = "wait" THEN WithoutKey ELSE wait_keys
  /\ known_deferred_threads' = IF firing.arm = "deferred"
                               THEN known_deferred_threads \ {firing.thread}
                               ELSE known_deferred_threads
  /\ firing' = NotFiring
  /\ pc' = "bottom"
  /\ UNCHANGED <<rx, done, flags, cancel, wait_queue, deferred_queue,
                 async_queue, spawned, lua, coroutine, targeted>>

\* mutant: the bottom of the loop clears done, and leaves setting it to the exits
BottomOnlyClears ==
  /\ pc = "bottom"
  /\ done' = (done /\ NothingPending)
  /\ pc' = "top"
  /\ UNCHANGED <<rx, flags, cancel, firing, locals, spawned, lua, coroutine,
                 targeted>>

Bottom ==
  /\ pc = "bottom"
  /\ done' = NothingPending
  /\ pc' = "top"
  /\ UNCHANGED <<rx, flags, cancel, firing, locals, spawned, lua, coroutine,
                 targeted>>

-----------------------------------------------------------------------------
Environment ==
  \/ \E t \in Thread : TaskSpawn(t) \/ TaskDelay(t) \/ TaskDefer(t)
                       \/ TaskCancel(t) \/ CoroutineClose(t) \/ Collect(t)
  \/ TaskWait \/ CallAsync \/ CoroutineYield \/ CoroutineEnds
  \/ Stop \/ Unstop \/ Clear \/ DropLua

Run ==
  \/ RunInTask \/ RunPanics \/ RunRefused \/ RunStarts
  \/ TopReturns \/ TopSelects \/ ArmReturns
  \/ RecvWait \/ RecvDeferred \/ RecvDeferredPanics \/ RecvAsync \/ RecvClear
  \/ \E e \in wait_queue : SkipWait(e) \/ FireWait(e)
  \/ SkipDeferred \/ DropDeferred \/ FireDeferred
  \/ \E t \in Thread : FireAsync(t)
  \/ AfterResume \/ Bottom

Next == Environment \/ Run

Spec == Init /\ [][Next]_vars

(***************************************************************************)
(* Fairness.  The executor polls a task that is ready.  select! starts at  *)
(* a random arm, so an arm that is ready again and again is taken, and     *)
(* every entry of the delay queue expires.  A coroutine that runs yields   *)
(* or ends at some time: a script that never does holds the one OS thread  *)
(* for ever.  A future need not complete.                                  *)
(***************************************************************************)
Leaves == TaskWait \/ CallAsync \/ CoroutineYield \/ CoroutineEnds

FairSpec ==
  /\ Spec
  /\ WF_vars(TopReturns \/ TopSelects \/ AfterResume \/ Bottom)
  /\ SF_vars(RunInTask \/ RunStarts)
  /\ SF_vars(RecvWait \/ RecvDeferred \/ RecvAsync \/ RecvClear \/ ArmReturns)
  /\ SF_vars(SkipDeferred \/ DropDeferred \/ FireDeferred)
  /\ \A t \in Thread :
       /\ SF_vars(\E e \in wait_queue : e.thread = t /\ (SkipWait(e) \/ FireWait(e)))
       /\ SF_vars(current = t /\ Leaves)

-----------------------------------------------------------------------------
(* Properties.                                                              *)

\* the types of the variables
TypeOK ==
  /\ rx \in Seq(Event) /\ done \in BOOLEAN
  /\ is_running \in BOOLEAN /\ is_cancelled \in BOOLEAN
  /\ cancel \subseteq Thread
  /\ pc \in {"idle", "top", "select", "lua", "bottom", "drain", "exited"}
  /\ firing \in Firing \cup {NotFiring}
  /\ wait_queue \subseteq WaitEntry
  /\ wait_keys \in [Thread -> SUBSET Key]
  /\ deferred_queue \in Seq(Thread)
  /\ known_deferred_threads \subseteq Thread
  /\ async_queue \in [Thread -> Nat]
  /\ spawned \in 0..MaxRuns
  /\ lua \in BOOLEAN
  /\ CoroutineType
  /\ targeted \subseteq Thread

(* wait_till_done returns when done is set.  It must not return early: done *)
(* is set only while none of the four queues holds anything, though events  *)
(* are pushed by coroutines at any point of the loop (push_event clears     *)
(* done, only the bottom of the loop and its exits set it).                 *)
DoneMeansNoWork == done => NothingPending

(* ... and it must return at all: when the loop is parked in select! with   *)
(* nothing left to do, done is set.                                         *)
IdleMeansDone == AtSelect /\ NothingPending => done

\* an event that the loop has not received yet
Queued(event) == \E i \in DOMAIN rx : rx[i] = event

HasWaitEntry(t) ==
  Queued([op |-> "Wait", thread |-> t]) \/ \E e \in wait_queue : e.thread = t

HasAsyncEntry(t) ==
  Queued([op |-> "AddAsync", thread |-> t]) \/ HasFuture(t)

LoopAlive == lua /\ pc \notin {"drain", "exited"}

(* A coroutine suspended in task.wait or in an async function is woken by   *)
(* an entry of its own, which stays in a queue until that coroutine runs    *)
(* again.  Only a script's task.cancel on that very coroutine forfeits it.  *)
NobodyForgotten ==
  LoopAlive =>
    \A t \in Thread :
      /\ status[t] = "waiting" => HasWaitEntry(t) \/ t \in targeted
      /\ status[t] = "awaiting" => HasAsyncEntry(t)

(* What wait_till_done promises its caller: when done is set, no coroutine  *)
(* is left suspended in task.wait (unless cancelled) or in an async         *)
(* function.                                                                *)
DoneMeansNobodySuspended ==
  done /\ LoopAlive =>
    \A t \in Thread :
      /\ status[t] = "waiting" => t \in targeted
      /\ status[t] # "awaiting"

(* The key of every entry of the delay queue is recorded for its            *)
(* coroutine.  An arm that fires the entry computes old_keys.len() - 1,     *)
(* which underflows if the record is empty; entries that were skipped leave *)
(* stale keys behind, and the delay queue uses keys again.                  *)
KeysRecorded ==
  /\ \A e \in wait_queue : e.key \in wait_keys[e.thread]
  /\ firing.arm = "wait" => firing.key \in wait_keys[firing.thread]

(* An entry leaves the delay queue by resuming its coroutine, unless that   *)
(* coroutine was cancelled or cannot be resumed, or the loop ends.          *)
WaitEntryResumes ==
  [][\A e \in wait_queue :
       \/ e \in wait_queue'
       \/ current' = e.thread
       \/ e.thread \in targeted
       \/ status[e.thread] \notin Resumable
       \/ pc' \in {"drain", "exited"}]_vars

(* The same for the deferred queue: an entry leaves it by resuming its      *)
(* coroutine, unless that was cancelled or cannot be resumed.               *)
DeferredEntryResumes ==
  [][Len(deferred_queue') < Len(deferred_queue) =>
       LET t == Head(deferred_queue) IN
       \/ current' = t
       \/ t \in targeted
       \/ status[t] \notin Resumable
       \/ pc' \in {"drain", "exited"}]_vars

\* those of the first i events of the channel that defer a coroutine
DeferralsUpTo(i) == {j \in 1..i : rx[j].op = "DeferredThread"}

\* the place of the last of them, behind the whole deferred queue
Place(i) == Len(deferred_queue) + Cardinality(DeferralsUpTo(i))

(* The line of deferred coroutines over the event channel and the deferred  *)
(* queue together: who stands at which place.                               *)
Line == {<<i, deferred_queue[i]>> : i \in 1..Len(deferred_queue)}
        \cup {<<Place(i), rx[i].thread>> : i \in DeferralsUpTo(Len(rx))}

(* Deferred coroutines get their turn in the order of the task.defer calls: *)
(* a coroutine joins the line behind everybody else, and the line moves on  *)
(* by one place when the one in front is taken.                             *)
DeferredInOrder ==
  [][\/ Line' = Line
     \/ \E t \in Thread : Line' = Line \cup {<<Place(Len(rx)) + 1, t>>}
     \/ Line # {} /\ Line' = {<<p[1] - 1, p[2]>> : p \in {q \in Line : q[1] > 1}}
     \/ pc' \in {"drain", "exited"}]_<<rx, deferred_queue>>

-----------------------------------------------------------------------------
\* reasons for the loop to end
LoopEnds == is_cancelled \/ ~lua \/ pc \in {"drain", "exited"}

(* A coroutine in task.wait is resumed, as long as nobody cancels it, stops *)
(* or clears the scheduler or drops the Lua state.                          *)
WaiterIsResumed ==
  \A t \in Thread :
    status[t] = "waiting" ~> (status[t] # "waiting" \/ t \in targeted \/ LoopEnds)

Deferred(t) == \E p \in Line : p[2] = t

(* An entry of the deferred queue gets its turn: coroutines that defer      *)
(* themselves again and again do not keep it waiting.  Its turn need not    *)
(* resume t (DeferredEntryResumes tells when it does not).                  *)
DeferredIsTaken ==
  \A t \in Thread :
    Deferred(t) ~> (~Deferred(t) \/ current = t \/ status[t] \in Ended \/ LoopEnds)

(* After stop, a loop that has an event, a waiting or a deferred coroutine  *)
(* left does exit (or somebody calls unstop first).                         *)
StopWithWorkExits ==
  (is_cancelled /\ pc = "select" /\ (rx # <<>> \/ wait_queue # {} \/ deferred_queue # <<>>))
    ~> (pc = "exited" \/ ~is_cancelled)

-----------------------------------------------------------------------------
(* What comments and tests say and the code does not do: each of these is   *)
(* violated by a run of its own.                                            *)

\* exit_with_code_clear: stop followed by clear ends the loop
StopAndClearExits ==
  (is_cancelled /\ is_running /\ \E i \in DOMAIN rx : rx[i].op = "Clear")
    ~> (pc = "exited" \/ ~is_cancelled)

(* task.cancel affects threads that wait in the task manager: one that was  *)
(* running when it was called, and waits later, still has its entry.        *)
EveryWaiterHasEntry ==
  LoopAlive => \A t \in Thread : status[t] = "waiting" => HasWaitEntry(t)
=============================================================================
