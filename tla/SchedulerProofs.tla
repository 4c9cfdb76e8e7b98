--------------------------- MODULE SchedulerProofs ---------------------------
(* What every task manager that implements Scheduler guarantees.            *)
EXTENDS Scheduler, TLAPS

(* Resuming, leaving, closing and creating keep the types.                  *)
LEMMA CoroutineSteps ==
  ASSUME CoroutineType
  PROVE  /\ \A t \in Thread : Enter(t) \/ Resume(t) => CoroutineType'
         /\ \A s \in Status : current # NoThread /\ Leave(s) => CoroutineType'
         /\ \A t \in Thread : IntoThread(t) \in [Thread -> Status] /\ Close(t) \in [Thread -> Status]
<1>1. \A t \in Thread : Enter(t) => CoroutineType'
  BY DEF Enter, CoroutineType, Status
<1>2. \A t \in Thread : Resume(t) => CoroutineType'
  BY <1>1 DEF Resume, coroutine, CoroutineType
<1>3. \A s \in Status : current # NoThread /\ Leave(s) => CoroutineType'
  BY DEF Leave, CoroutineType
<1>4. \A t \in Thread : IntoThread(t) \in [Thread -> Status] /\ Close(t) \in [Thread -> Status]
  BY DEF IntoThread, Close, CoroutineType, Status, Resumable, Ended
<1>5. QED
  BY <1>1, <1>2, <1>3, <1>4

(* A new promise is a promise.                                              *)
LEMMA PromisesType ==
  ASSUME TypeOK, NEW t \in Thread, NEW kind \in Kind, Promises(t, kind)
  PROVE  /\ owed' \subseteq Promise /\ cancelled' \subseteq Thread
         /\ finished' \in BOOLEAN /\ open' \in BOOLEAN /\ clearing' \in BOOLEAN
         /\ is_cancelled' \in BOOLEAN /\ lua' \in BOOLEAN
<1>1. <<t, kind>> \in Promise
  BY DEF Promise
<1>2. QED
  BY <1>1 DEF Promises, NotAnnounced, TypeOK, rest

LEMMA TypeInductive == TypeOK /\ [Next]_vars => TypeOK'
<1> SUFFICES ASSUME TypeOK, [Next]_vars PROVE TypeOK'
  OBVIOUS
<1> USE DEF TypeOK, NotAnnounced, Promise, rest
<1>1. ASSUME NEW kind \in {"waiting", "awaiting"}, Suspend(kind) PROVE TypeOK'
  <2>1. CoroutineType'
    BY <1>1, CoroutineSteps DEF Suspend, Status, Resumable
  <2>2. current \in Thread
    BY <1>1 DEF Suspend, CoroutineType
  <2>3. QED
    BY <1>1, <2>1, <2>2, PromisesType DEF Suspend, Kind
<1>2. ASSUME NEW t \in Thread, NEW kind \in {"waiting", "deferred"}, Schedule(t, kind)
      PROVE  TypeOK'
  <2>1. CoroutineType'
    BY <1>2, CoroutineSteps DEF Schedule, CoroutineType
  <2>2. QED
    BY <1>2, <2>1, PromisesType DEF Schedule, Kind
<1>3. CASE Runs
  <2>1. CoroutineType'
    BY <1>3, CoroutineSteps DEF Runs, Status, Resumable, Ended
  <2>2. QED
    BY <1>3, <2>1 DEF Runs
<1>4. CASE Control \/ Clear \/ TakesEffect \/ Announce \/ CloseDown \/ UNCHANGED vars
  BY <1>4 DEF Control, Clear, TakesEffect, Announce, CloseDown, vars, coroutine, CoroutineType
<1>5. ASSUME NEW t \in Thread, CoroutineClose(t) \/ Cancel(t) PROVE TypeOK'
  BY <1>5, CoroutineSteps DEF CoroutineClose, Cancel, CoroutineType
<1>6. ASSUME NEW t \in Thread, NEW kind \in Kind, Deliver(t, kind) PROVE TypeOK'
  <2>1. CoroutineType'
    BY <1>6, CoroutineSteps DEF Deliver
  <2>2. QED
    BY <1>6, <2>1 DEF Deliver
<1>7. ASSUME NEW t \in Thread, NEW kind \in Kind, Discard(t, kind) PROVE TypeOK'
  BY <1>7 DEF Discard, coroutine, CoroutineType
<1>8. ASSUME NEW t \in Thread, Collect(t) PROVE TypeOK'
  BY <1>8 DEF Collect, CoroutineType, Status
<1>9. QED
  BY <1>1, <1>2, <1>3, <1>4, <1>5, <1>6, <1>7, <1>8 DEF Next

(* The specification is well typed.                                         *)
THEOREM SchedulerTypeCorrect == Spec => []TypeOK
<1>1. Init => TypeOK
  BY DEF Init, TypeOK, CoroutineInit, CoroutineType, Status
<1>2. QED
  BY <1>1, TypeInductive, PTL DEF Spec

\* a clear is pending only if somebody called it
ClearWasCalled == clearing => "clear" \in Calls

LEMMA ClearCalledStep == ClearWasCalled /\ [Next]_vars => ClearWasCalled'
<1> SUFFICES ASSUME ClearWasCalled, [Next]_vars, clearing' PROVE "clear" \in Calls
  BY DEF ClearWasCalled
<1>1. \/ clearing' = clearing \/ clearing' = FALSE \/ Clear
  BY DEF Next, Suspend, Schedule, Promises, Runs, Control, CoroutineClose, Cancel, Collect,
         Deliver, Discard, TakesEffect, Announce, CloseDown, vars
<1>2. QED
  BY <1>1 DEF ClearWasCalled, Clear

LEMMA ForgottenStep ==
  TypeOK /\ ClearWasCalled /\ NobodyForgotten /\ [Next]_vars => NobodyForgotten'
<1> SUFFICES ASSUME TypeOK, ClearWasCalled, NobodyForgotten, [Next]_vars, lua', open',
                    "clear" \notin Calls, NEW t \in Thread
             PROVE  /\ status'[t] = "waiting" => <<t, "waiting">> \in owed' \/ t \in cancelled'
                    /\ status'[t] = "awaiting" => <<t, "awaiting">> \in owed'
  BY DEF NobodyForgotten
<1> DEFINE Goal == /\ status'[t] = "waiting" => <<t, "waiting">> \in owed' \/ t \in cancelled'
                   /\ status'[t] = "awaiting" => <<t, "awaiting">> \in owed'
<1> USE DEF TypeOK, CoroutineType, rest
<1>1. lua /\ open
  BY DEF Next, Suspend, Schedule, Promises, Runs, Control, Clear, CoroutineClose, Cancel,
         Collect, Deliver, Discard, TakesEffect, Announce, CloseDown, vars
<1>2. /\ status[t] = "waiting" => <<t, "waiting">> \in owed \/ t \in cancelled
      /\ status[t] = "awaiting" => <<t, "awaiting">> \in owed
  BY <1>1 DEF NobodyForgotten
<1>3. ASSUME NEW kind \in {"waiting", "awaiting"}, Suspend(kind) PROVE Goal
  BY <1>1, <1>2, <1>3 DEF Suspend, Promises, Leave
<1>4. ASSUME NEW u \in Thread, NEW kind \in {"waiting", "deferred"}, Schedule(u, kind) PROVE Goal
  BY <1>2, <1>4 DEF Schedule, Promises, IntoThread
<1>5. CASE Runs
  BY <1>2, <1>5 DEF Runs, Enter, Leave
<1>6. CASE Control \/ Clear \/ TakesEffect \/ Announce \/ CloseDown \/ UNCHANGED vars
  BY <1>2, <1>6 DEF Control, Clear, ClearWasCalled, TakesEffect, Announce, CloseDown, vars,
                    coroutine
<1>7. ASSUME NEW u \in Thread, CoroutineClose(u) \/ Cancel(u) PROVE Goal
  <2>1. /\ status'[t] \in {status[t], "closed"}
        /\ t = u => status'[t] \notin Resumable
    BY <1>7 DEF CoroutineClose, Cancel, Close, Resumable
  <2>2. CASE CoroutineClose(u)
    BY <1>2, <2>1, <2>2 DEF CoroutineClose
  <2>3. CASE Cancel(u)
    BY <1>2, <2>1, <2>3 DEF Cancel, Resumable
  <2>4. QED
    BY <1>7, <2>2, <2>3
<1>8. ASSUME NEW u \in Thread, NEW kind \in Kind, Deliver(u, kind) PROVE Goal
  <2>1. CASE u = t
    BY <1>2, <1>8, <2>1 DEF Deliver, Resume, Enter, Resumable, coroutine
  <2>2. CASE u # t
    BY <1>2, <1>8, <2>2 DEF Deliver, Resume, Enter, coroutine
  <2>3. QED
    BY <2>1, <2>2
<1>9. ASSUME NEW u \in Thread, NEW kind \in Kind, Discard(u, kind) PROVE Goal
  BY <1>1, <1>2, <1>9 DEF Discard, coroutine
<1>10. ASSUME NEW u \in Thread, Collect(u) PROVE Goal
  BY <1>2, <1>10 DEF Collect
<1>11. QED
  BY <1>3, <1>4, <1>5, <1>6, <1>7, <1>8, <1>9, <1>10 DEF Next

(* A task manager that implements Scheduler forgets nobody: a suspended     *)
(* coroutine is owed its resume until it runs, unless it was cancelled.     *)
THEOREM SchedulerForgetsNobody == Spec => []NobodyForgotten
<1>1. Init => NobodyForgotten /\ ClearWasCalled
  BY DEF Init, CoroutineInit, NobodyForgotten, ClearWasCalled
<1>2. QED
  BY <1>1, ForgottenStep, ClearCalledStep, SchedulerTypeCorrect, PTL DEF Spec

(* A task manager that implements Scheduler becomes finished, unless it is  *)
(* stopped, only when no coroutine is left suspended that was not           *)
(* cancelled.                                                               *)
THEOREM SchedulerFinishes == Spec => FinishesWithNobodySuspended
<1> DEFINE Nobody ==
      ~finished /\ finished' /\ lua' /\ open' /\ ~is_cancelled /\ "clear" \notin Calls =>
        \A t \in Thread : /\ status[t] = "waiting" => t \in cancelled
                          /\ status[t] # "awaiting"
<1>1. NobodyForgotten /\ [Next]_vars => [Nobody]_vars
  <2> SUFFICES ASSUME NobodyForgotten, Next, ~finished, finished', lua', open',
                      ~is_cancelled, "clear" \notin Calls, NEW t \in Thread
               PROVE  /\ status[t] = "waiting" => t \in cancelled
                      /\ status[t] # "awaiting"
    OBVIOUS
  <2>1. CASE Announce
    BY <2>1 DEF Announce, NobodyForgotten, rest
  <2>2. CASE CloseDown
    BY <2>2 DEF CloseDown
  <2>3. CASE UNCHANGED finished \/ finished' = FALSE
    BY <2>3
  <2>4. CASE \E kind \in {"waiting", "awaiting"} : Suspend(kind)
    BY <2>3, <2>4 DEF Suspend, Promises, NotAnnounced
  <2>5. CASE \E u \in Thread, kind \in {"waiting", "deferred"} : Schedule(u, kind)
    BY <2>3, <2>5 DEF Schedule, Promises, NotAnnounced
  <2>6. CASE Runs \/ Control \/ Clear \/ TakesEffect
    BY <2>3, <2>6 DEF Runs, Control, Clear, NotAnnounced, TakesEffect
  <2>7. CASE \E u \in Thread : CoroutineClose(u) \/ Cancel(u) \/ Collect(u)
    BY <2>3, <2>7 DEF CoroutineClose, Cancel, Collect
  <2>8. CASE \E u \in Thread, kind \in Kind : Deliver(u, kind) \/ Discard(u, kind)
    BY <2>3, <2>8 DEF Deliver, Discard
  <2>9. QED
    BY <2>1, <2>2, <2>4, <2>5, <2>6, <2>7, <2>8 DEF Next
<1>2. QED
  BY <1>1, SchedulerForgetsNobody, PTL DEF Spec, FinishesWithNobodySuspended
=============================================================================
