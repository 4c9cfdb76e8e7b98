------------------------------ MODULE DoneSignal ------------------------------
(***************************************************************************)
(* The done channel of the v2 scheduler in the send build.  Tasks of the   *)
(* host run on threads of their own: they push events and call             *)
(* wait_till_done beside the loop, so that the two steps of push_event and *)
(* the two steps of the bottom of the loop (the emptiness test, the store  *)
(* of done) interleave.  TaskManagerV2 has each of them as one step.       *)
(*                                                                         *)
(* What an event asks for is left out: it is received into one of the      *)
(* queues of the loop and fires at some time.  task.cancel, clear and the  *)
(* end of the Lua state are left to TaskManagerV2.                         *)
(***************************************************************************)
EXTENDS Naturals, Sequences

CONSTANTS
  Task,          (* tasks of the host                                       *)
  MaxBacklog     (* bound: events pending in the scheduler at one time      *)

ASSUME BacklogAssumption == MaxBacklog \in Nat

VARIABLES
  rx,            \* number of events in the channel
  queued,        \* number of entries in the queues of the loop
  done,          \* value of the done watch channel
  is_cancelled,
  pc,            \* where run() stands
  empty,         \* run(): outcome of the emptiness test
  pushing,       \* tasks inside push_event, before the send
  waiters        \* tasks inside wait_till_done: the first holds the lock

vars == <<rx, queued, done, is_cancelled, pc, empty, pushing, waiters>>

Init ==
  /\ rx = 0 /\ queued = 0 /\ done = TRUE
  /\ is_cancelled = FALSE
  /\ pc = "idle" /\ empty = FALSE
  /\ pushing = {} /\ waiters = <<>>

-----------------------------------------------------------------------------
(* The tasks of the host.                                                   *)

Waiting(t) == \E i \in DOMAIN waiters : waiters[i] = t

\* a task makes one call at a time
Free(t) == t \notin pushing /\ ~Waiting(t)

\* push_event clears done first
PushClears(t) ==
  /\ Free(t)
  /\ rx + queued < MaxBacklog
  /\ done' = FALSE
  /\ pushing' = pushing \cup {t}
  /\ UNCHANGED <<rx, queued, is_cancelled, pc, empty, waiters>>

\* ... and sends second; the send fails silently once run() has returned
Sent == IF pc = "exited" THEN rx ELSE rx + 1

PushSends(t) ==
  /\ t \in pushing
  /\ rx' = Sent
  /\ pushing' = pushing \ {t}
  /\ UNCHANGED <<queued, done, is_cancelled, pc, empty, waiters>>

\* write().await: the waiters get the lock in the order in which they ask
WaitTillDone(t) ==
  /\ Free(t)
  /\ waiters' = Append(waiters, t)
  /\ UNCHANGED <<rx, queued, done, is_cancelled, pc, empty, pushing>>

\* wait_for: the task that holds the lock sees done set, and drops the lock
WaiterReturns ==
  /\ waiters # <<>> /\ done
  /\ waiters' = Tail(waiters)
  /\ UNCHANGED <<rx, queued, done, is_cancelled, pc, empty, pushing>>

Stop ==
  /\ is_cancelled' = TRUE
  /\ UNCHANGED <<rx, queued, done, pc, empty, pushing, waiters>>

Unstop ==
  /\ is_cancelled' = FALSE
  /\ UNCHANGED <<rx, queued, done, pc, empty, pushing, waiters>>

-----------------------------------------------------------------------------
(* run(): the receiver is dropped one step after done is set.               *)

\* the quick exit, and the exit at the top of the loop
Exits ==
  /\ pc \in {"idle", "top"} /\ is_cancelled
  /\ done' = TRUE
  /\ pc' = "exiting"
  /\ UNCHANGED <<rx, queued, is_cancelled, empty, pushing, waiters>>

Drops ==
  /\ pc = "exiting"
  /\ rx' = 0 /\ queued' = 0
  /\ pc' = "exited"
  /\ UNCHANGED <<done, is_cancelled, empty, pushing, waiters>>

Starts ==
  /\ pc = "idle" /\ ~is_cancelled
  /\ pc' = "top"
  /\ UNCHANGED <<rx, queued, done, is_cancelled, empty, pushing, waiters>>

Selects ==
  /\ pc = "top" /\ ~is_cancelled
  /\ pc' = "select"
  /\ UNCHANGED <<rx, queued, done, is_cancelled, empty, pushing, waiters>>

Receives ==
  /\ pc = "select" /\ rx > 0
  /\ rx' = rx - 1 /\ queued' = queued + 1
  /\ pc' = "bottom"
  /\ UNCHANGED <<done, is_cancelled, empty, pushing, waiters>>

\* mutant: an arm is taken whatever the queues hold
MayFireAlways == TRUE

\* an entry of one of the queues is ready
MayFire == queued > 0

Fires ==
  /\ pc = "select" /\ MayFire
  /\ queued' = queued - 1
  /\ pc' = "lua"
  /\ UNCHANGED <<rx, done, is_cancelled, empty, pushing, waiters>>

\* the coroutine that the arm has resumed pushes an event itself
LuaClears ==
  /\ pc = "lua"
  /\ rx + queued < MaxBacklog
  /\ done' = FALSE
  /\ pc' = "luasend"
  /\ UNCHANGED <<rx, queued, is_cancelled, empty, pushing, waiters>>

LuaSends ==
  /\ pc = "luasend"
  /\ rx' = Sent
  /\ pc' = "lua"
  /\ UNCHANGED <<queued, done, is_cancelled, empty, pushing, waiters>>

LuaReturns ==
  /\ pc = "lua"
  /\ pc' = "bottom"
  /\ UNCHANGED <<rx, queued, done, is_cancelled, empty, pushing, waiters>>

\* the emptiness test: only the channel is shared with other threads
Tests ==
  /\ pc = "bottom"
  /\ empty' = (queued = 0 /\ rx = 0)
  /\ pc' = "store"
  /\ UNCHANGED <<rx, queued, done, is_cancelled, pushing, waiters>>

\* mutant: no else branch, since push_event clears done
StoredTrue == done \/ empty

\* mutant: no then branch, since the exits set done
StoredFalse == done /\ empty

\* what the bottom of the loop leaves in done
Stored == empty

Stores ==
  /\ pc = "store"
  /\ done' = Stored
  /\ pc' = "top"
  /\ UNCHANGED <<rx, queued, is_cancelled, empty, pushing, waiters>>

-----------------------------------------------------------------------------
Host ==
  \/ \E t \in Task : PushClears(t) \/ PushSends(t) \/ WaitTillDone(t)
  \/ WaiterReturns \/ Stop \/ Unstop

Loop ==
  \/ Exits \/ Drops \/ Starts \/ Selects \/ Receives \/ Fires
  \/ LuaSends \/ LuaReturns \/ Tests \/ Stores

Next == Host \/ Loop \/ LuaClears

Spec == Init /\ [][Next]_vars

(* Every thread goes on; an entry of a queue becomes ready at some time,    *)
(* and a coroutine that runs yields or ends.                                *)
FairSpec ==
  /\ Spec
  /\ WF_vars(Loop)
  /\ \A t \in Task : WF_vars(PushSends(t))
  /\ WF_vars(WaiterReturns)

-----------------------------------------------------------------------------
(* Properties.                                                              *)

\* the types of the variables
TypeOK ==
  /\ rx \in Nat /\ queued \in Nat
  /\ done \in BOOLEAN /\ is_cancelled \in BOOLEAN /\ empty \in BOOLEAN
  /\ pc \in {"idle", "top", "select", "lua", "luasend", "bottom", "store",
             "exiting", "exited"}
  /\ pushing \subseteq Task
  /\ waiters \in Seq(Task)

\* a push is between its two steps
Pushes == pushing # {} \/ pc = "luasend"

(* Whatever threads push around the bottom of the loop, a loop that is      *)
(* parked in select! with no event to receive and no push under way tells   *)
(* the truth: done is set exactly when its queues are empty.  So a store of *)
(* done that comes late is mended in the round of the event it overlooked,  *)
(* and wait_till_done neither hangs nor returns early from then on.         *)
ParkedTellsTruth ==
  pc = "select" /\ rx = 0 /\ ~Pushes => (done <=> queued = 0)

(* Every call of wait_till_done returns, in its turn for the lock, if only  *)
(* the pushes cease and the loop does not exit.                             *)
WaitersReturn ==
  <>[](~Pushes) =>
    \A t \in Task : Waiting(t) ~> (~Waiting(t) \/ pc \in {"exiting", "exited"})

(* What the README of the crate says of v2: wait_till_done does not return  *)
(* early.  In the send build it does, when an event is sent between the     *)
(* emptiness test and the store of done; a run of its own shows it.         *)
ReturnsWhenDone ==
  [][Len(waiters') < Len(waiters) /\ pc \notin {"exiting", "exited"} =>
       rx = 0 /\ queued = 0]_vars
=============================================================================
