---------------------------- MODULE ThreadTracker ----------------------------
(***************************************************************************)
(* ThreadTracker of the ext crate, and the calls of spawn_thread_and_wait  *)
(* that read from it.  The tracker hands every result that a resume of a   *)
(* tracked coroutine gives to the call that tracked it last, over an       *)
(* unbounded channel; the call returns the last result it has received     *)
(* when the coroutine has ended.                                           *)
(*                                                                         *)
(* A coroutine is known by its address, and the map is never cleaned.      *)
(***************************************************************************)
EXTENDS Coroutines, Naturals, Sequences

CONSTANTS
  Caller,        (* calls of spawn_thread_and_wait                          *)
  NoCaller       (* no call                                                 *)

ASSUME CallerAssumption == NoCaller \notin Caller

VARIABLES
  returns,       \* ThreadTracker: the sender kept for each address
  results,       \* the channel of each call
  call,          \* where each call stands
  thread,        \* the coroutine that each call holds
  value          \* the last result that each call has received

tracker == <<returns, results, call, thread, value>>

\* resume returns the values of a yield, those of the end, or an error at once
Result == {"yield", "end", "refused"}

TrackerType ==
  /\ returns \in [Thread -> Caller \cup {NoCaller}]
  /\ results \in [Caller -> Seq(Result)]
  /\ call \in [Caller -> {"new", "recv", "returned", "done"}]
  /\ thread \in [Caller -> Thread \cup {NoThread}]
  /\ value \in [Caller -> Result \cup {"none"}]

TrackerInit ==
  /\ returns = [t \in Thread |-> NoCaller]
  /\ results = [c \in Caller |-> <<>>]
  /\ call = [c \in Caller |-> "new"]
  /\ thread = [c \in Caller |-> NoThread]
  /\ value = [c \in Caller |-> "none"]

\* the call whose channel takes the results of t: its receiver exists
Receiver(t) == {c \in Caller : returns[t] = c /\ call[c] = "recv"}

\* mutant: nothing is sent of a coroutine that has ended
SendWhileAlive(t, result) ==
  [c \in Caller |-> IF c \in Receiver(t) /\ result = "yield"
                    THEN Append(results[c], result) ELSE results[c]]

\* sending to a call that has returned fails silently
Send(t, result) ==
  [c \in Caller |-> IF c \in Receiver(t) THEN Append(results[c], result) ELSE results[c]]

OnResponse(t, result) ==
  /\ results' = Send(t, result)
  /\ UNCHANGED <<returns, call, thread, value>>

\* insert puts the new sender in the place of an older one, which is dropped
Insert(c, t) == [returns EXCEPT ![t] = c]

(* track_thread, then the first resume: a coroutine that cannot be resumed  *)
(* gives an error at once.                                                  *)
Track(c, t) ==
  /\ call[c] = "new"
  /\ returns' = Insert(c, t)
  /\ call' = [call EXCEPT ![c] = "recv"]
  /\ thread' = [thread EXCEPT ![c] = t]
  /\ results' = IF status[t] \in Ended THEN [results EXCEPT ![c] = <<"refused">>] ELSE results
  /\ UNCHANGED value

\* the sender is in the map
SenderKept(c) == returns[thread[c]] = c

\* the call returns what it has; its receiver and its handle are dropped
Returns(c) ==
  /\ call' = [call EXCEPT ![c] = "returned"]
  /\ results' = [results EXCEPT ![c] = <<>>]
  /\ thread' = [thread EXCEPT ![c] = NoThread]
  /\ UNCHANGED returns

\* mutant: whether more results have come is not looked at
EndsAtOnce(c) == status[thread[c]] \in Ended

\* the coroutine has ended and no further result has come
Ends(c) == status[thread[c]] \in Ended /\ Len(results[c]) = 1

\* one round of the loop: the next result
Recv(c) ==
  /\ call[c] = "recv" /\ results[c] # <<>>
  /\ value' = [value EXCEPT ![c] = Head(results[c])]
  /\ IF Ends(c)
     THEN Returns(c)
     ELSE /\ results' = [results EXCEPT ![c] = Tail(@)]
          /\ UNCHANGED <<returns, call, thread>>

\* recv() gives nothing, since another call has tracked the same coroutine
RecvNone(c) ==
  /\ call[c] = "recv" /\ results[c] = <<>> /\ ~SenderKept(c)
  /\ Returns(c)
  /\ UNCHANGED value

\* a result has come, but the Lua state is gone: it is not looked at
RecvWithoutLua(c) ==
  /\ call[c] = "recv" /\ results[c] # <<>>
  /\ Returns(c)
  /\ UNCHANGED value
=============================================================================
