------------------------------ MODULE Scheduler ------------------------------
(***************************************************************************)
(* What a task manager promises to scripts and to the host, without its    *)
(* queues, its loop and its threads.  A call that suspends or defers a     *)
(* coroutine creates a promise to resume it.  A promise is kept until the  *)
(* task manager tries to resume that coroutine, at a moment at which no    *)
(* other one runs; only a cancellation of that very coroutine, clear, or   *)
(* the end of the loop or of the Lua state set the task manager free of    *)
(* it.  And it announces that it is done only when it owes nothing.        *)
(*                                                                         *)
(* TaskManagerV1 and TaskManagerV2 both implement this specification.      *)
(***************************************************************************)
EXTENDS Coroutines

CONSTANTS
  Calls,         (* the optional calls that scripts and the host make      *)
  ClearsAtOnce   (* clear takes effect in the call, not at some later step *)

VARIABLES
  owed,          \* the promises: a coroutine and what it was promised for
  cancelled,     \* coroutines whose promises may be forgotten
  finished,      \* what wait_till_done sees
  open,          \* new promises are accepted
  clearing,      \* clear has been called, and has not taken effect
  is_cancelled,  \* stop has been called
  lua            \* the host holds the Lua state

rest == <<is_cancelled, lua>>
vars == <<owed, cancelled, finished, open, clearing, rest, coroutine>>

Kind    == {"waiting", "deferred", "awaiting"}
Promise == Thread \X Kind

Init ==
  /\ CoroutineInit
  /\ owed = {} /\ cancelled = {}
  /\ finished \in BOOLEAN /\ open = TRUE /\ clearing = FALSE
  /\ is_cancelled = FALSE /\ lua = TRUE

-----------------------------------------------------------------------------
(* Scripts and the host.                                                    *)

\* nothing is announced (an announcement may be taken back)
NotAnnounced == finished' \in {finished, FALSE}

Promises(t, kind) ==
  /\ owed' = IF open THEN owed \cup {<<t, kind>>} ELSE owed
  /\ NotAnnounced
  /\ UNCHANGED <<cancelled, open, clearing, rest>>

\* task.wait, a call of an async function
Suspend(kind) ==
  /\ current # NoThread
  /\ Leave(kind)
  /\ Promises(current, kind)

\* task.delay, task.defer
Schedule(t, kind) ==
  /\ status' = IntoThread(t)
  /\ Promises(t, kind)
  /\ UNCHANGED <<current, resumer>>

\* task.spawn, coroutine.resume, coroutine.yield, the end of a coroutine
Runs ==
  /\ \/ lua /\ \E t \in Thread : status[t] \in Resumable \cup {"free"} /\ Enter(t)
     \/ current # NoThread /\ \E s \in {"yielded", "dead"} : Leave(s)
  /\ UNCHANGED <<owed, cancelled, finished, open, clearing, rest>>

\* coroutine.close: the promises stay until the task manager looks at them
CoroutineClose(t) ==
  /\ status' = Close(t)
  /\ UNCHANGED <<owed, cancelled, finished, open, clearing, rest, current, resumer>>

(* task.cancel: the promises are dropped at once, or from now on they may   *)
(* be at any time.  A future is not among them.                             *)
Cancel(t) ==
  /\ status' = Close(t)
  /\ \/ /\ owed' = owed \ {<<t, "waiting">>, <<t, "deferred">>}
        /\ UNCHANGED cancelled
     \/ /\ cancelled' = cancelled \cup {t}
        /\ UNCHANGED owed
  /\ UNCHANGED <<finished, open, clearing, rest, current, resumer>>

(* The address of an ended coroutine that nobody owes anything may be used  *)
(* again: the next one at it has not been cancelled.                        *)
Collect(t) ==
  /\ "collect" \in Calls
  /\ status[t] \in Ended /\ \A kind \in Kind : <<t, kind>> \notin owed
  /\ status' = [status EXCEPT ![t] = "free"]
  /\ cancelled' = cancelled \ {t}
  /\ UNCHANGED <<owed, finished, open, clearing, rest, current, resumer>>

\* stop, unstop, the end of the Lua state
Control ==
  /\ \/ is_cancelled' \in BOOLEAN /\ UNCHANGED lua
     \/ lua' = FALSE /\ UNCHANGED is_cancelled
  /\ UNCHANGED <<owed, cancelled, finished, open, clearing, coroutine>>

(* clear: where it takes effect in the call, everything but the promises of *)
(* futures is forgotten; where it does not, it is pending from now on, if   *)
(* it gets through.                                                         *)
Clear ==
  /\ "clear" \in Calls
  /\ NotAnnounced
  /\ IF ClearsAtOnce
     THEN owed' = {p \in owed : p[2] = "awaiting"} /\ UNCHANGED clearing
     ELSE clearing' \in {clearing, TRUE} /\ UNCHANGED owed
  /\ UNCHANGED <<cancelled, open, rest, coroutine>>

-----------------------------------------------------------------------------
(* The task manager.                                                        *)

(* The coroutine is resumed, if it can be; a further promise of the same    *)
(* kind to the same coroutine may remain.                                   *)
Deliver(t, kind) ==
  /\ lua /\ open /\ current = NoThread
  /\ <<t, kind>> \in owed
  /\ owed' \in {owed, owed \ {<<t, kind>>}}
  /\ Resume(t)
  /\ UNCHANGED <<cancelled, finished, open, clearing, rest>>

\* a promise without a resume
Discard(t, kind) ==
  /\ kind # "awaiting"
  /\ t \in cancelled \/ ~lua
  /\ owed' = owed \ {<<t, kind>>}
  /\ UNCHANGED <<cancelled, finished, open, clearing, rest, coroutine>>

(* A pending clear takes effect, once: promises made before it are          *)
(* forgotten, those of futures are not.                                     *)
TakesEffect ==
  /\ clearing /\ clearing' = FALSE
  /\ owed' \subseteq owed
  /\ \A t \in Thread : <<t, "awaiting">> \in owed => <<t, "awaiting">> \in owed'
  /\ UNCHANGED <<cancelled, finished, open, rest, coroutine>>

Announce ==
  /\ finished' => owed = {} \/ is_cancelled
  /\ finished' \in BOOLEAN
  /\ UNCHANGED <<owed, cancelled, open, clearing, rest, coroutine>>

(* The loop ends for good and forgets everything.  It announces that, unless *)
(* it ends in a panic, which only the end of the Lua state can cause.       *)
CloseDown ==
  /\ is_cancelled \/ ~lua
  /\ open' = FALSE /\ owed' = {} /\ clearing' = FALSE
  /\ finished' = TRUE \/ (~lua /\ UNCHANGED finished)
  /\ UNCHANGED <<cancelled, rest, coroutine>>

Next ==
  \/ \E kind \in {"waiting", "awaiting"} : Suspend(kind)
  \/ \E t \in Thread, kind \in {"waiting", "deferred"} : Schedule(t, kind)
  \/ Runs \/ Control \/ Clear
  \/ \E t \in Thread : CoroutineClose(t) \/ Cancel(t) \/ Collect(t)
  \/ \E t \in Thread, kind \in Kind : Deliver(t, kind) \/ Discard(t, kind)
  \/ TakesEffect \/ Announce \/ CloseDown

Spec == Init /\ [][Next]_vars

-----------------------------------------------------------------------------
TypeOK ==
  /\ CoroutineType
  /\ owed \subseteq Promise /\ cancelled \subseteq Thread
  /\ finished \in BOOLEAN /\ open \in BOOLEAN /\ clearing \in BOOLEAN
  /\ is_cancelled \in BOOLEAN /\ lua \in BOOLEAN

(* A suspended coroutine is owed its resume, unless it was cancelled: none  *)
(* is ever forgotten, in either scheduler, while the task manager is open   *)
(* and nobody calls clear.                                                  *)
NobodyForgotten ==
  lua /\ open /\ "clear" \notin Calls =>
    \A t \in Thread :
      /\ status[t] = "waiting" => <<t, "waiting">> \in owed \/ t \in cancelled
      /\ status[t] = "awaiting" => <<t, "awaiting">> \in owed

(* What wait_till_done promises its caller, in either scheduler: when the   *)
(* task manager becomes finished without being stopped, no coroutine is     *)
(* left suspended in task.wait (unless cancelled) or in an async function.  *)
FinishesWithNobodySuspended ==
  [][~finished /\ finished' /\ lua' /\ open' /\ ~is_cancelled /\ "clear" \notin Calls =>
       \A t \in Thread :
         /\ status[t] = "waiting" => t \in cancelled
         /\ status[t] # "awaiting"]_vars
=============================================================================
