----------------------------- MODULE Coroutines -----------------------------
(* The coroutines of the Lua state, as mlua shows them to the schedulers:   *)
(* resume runs a coroutine until it yields or ends, and a coroutine that    *)
(* runs may resume another one.  mlua and Lua are not part of the           *)
(* repository; this is how its code uses them.                              *)
CONSTANTS
  Thread,      (* addresses of coroutines: an XId is such an address       *)
  NoThread     (* no coroutine                                             *)

ASSUME ThreadAssumption == NoThread \notin Thread

VARIABLES
  status,        \* status of the coroutine at each address
  current,       \* the coroutine that is running
  resumer        \* who resumed a coroutine that has not returned

coroutine == <<status, current, resumer>>

(* A coroutine is suspended in task.wait (waiting), in an async function    *)
(* (awaiting), or otherwise: not started, or in coroutine.yield (yielded).  *)
(* It ends by itself (dead), or coroutine.close ends it (closed).           *)
Resumable == {"yielded", "waiting", "awaiting"}
Ended     == {"dead", "closed"}
Status    == Resumable \cup Ended \cup {"free", "active"}

CoroutineType ==
  /\ status \in [Thread -> Status]
  /\ current \in Thread \cup {NoThread}
  /\ resumer \in [Thread -> Thread \cup {NoThread}]

CoroutineInit ==
  /\ status = [t \in Thread |-> "free"]
  /\ current = NoThread
  /\ resumer = [t \in Thread |-> NoThread]

Enter(t) ==
  /\ status' = [status EXCEPT ![t] = "active"]
  /\ current' = t
  /\ resumer' = [resumer EXCEPT ![t] = current]

Leave(s) ==
  /\ status' = [status EXCEPT ![current] = s]
  /\ current' = resumer[current]
  /\ resumer' = [resumer EXCEPT ![current] = NoThread]

\* resuming a coroutine that cannot be resumed returns an error at once
Resume(t) ==
  IF status[t] \in Resumable THEN Enter(t) ELSE UNCHANGED coroutine

\* the either of a function and a thread: a function gets a new coroutine
IntoThread(t) ==
  IF status[t] = "free" THEN [status EXCEPT ![t] = "yielded"] ELSE status

(* coroutine.close, called by a script or by task.cancel, raises an error   *)
(* for a coroutine that is running or has resumed the caller, and leaves it *)
(* alive.                                                                   *)
Close(t) ==
  IF status[t] \in Resumable THEN [status EXCEPT ![t] = "closed"] ELSE status
=============================================================================
