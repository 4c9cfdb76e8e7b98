------------------------ MODULE TaskManagerV2Proofs ------------------------
(* Theorems about TaskManagerV2, for every set of coroutines, every bound   *)
(* and every selection of calls.                                            *)
EXTENDS TaskManagerV2, FiniteSetTheorems, TLAPS

-----------------------------------------------------------------------------
(* What the helpers of the specification do to the types of the variables.  *)

(* Resuming a coroutine keeps the types, whether it can be resumed or not.  *)
LEMMA ResumeType ==
  ASSUME CoroutineType, NEW t \in Thread, Enter(t) \/ Resume(t)
  PROVE  CoroutineType'
<1>1. CASE Enter(t)
  BY <1>1 DEF Enter, CoroutineType, Status
<1>2. CASE UNCHANGED coroutine
  BY <1>2 DEF coroutine, CoroutineType
<1>3. QED
  BY <1>1, <1>2 DEF Resume

(* A yield or an end of the running coroutine gives its resumer the turn.   *)
LEMMA LeaveType ==
  ASSUME CoroutineType, current # NoThread, NEW s \in Status, Leave(s)
  PROVE  CoroutineType'
BY DEF Leave, CoroutineType

(* A function passed to defer or delay becomes a coroutine.                 *)
LEMMA IntoThreadType ==
  ASSUME CoroutineType, NEW t \in Thread
  PROVE  IntoThread(t) \in [Thread -> Status]
BY DEF IntoThread, CoroutineType, Status, Resumable

(* A closed coroutine, or one that was not closed, has a status.            *)
LEMMA CloseType ==
  ASSUME CoroutineType, NEW t \in Thread
  PROVE  Close(t) \in [Thread -> Status]
BY DEF Close, CoroutineType, Status, Resumable, Ended

(* push_event appends one event or loses it.                                *)
LEMMA PushEventType ==
  ASSUME rx \in Seq(Event), NEW event \in Event, PushEvent(event)
  PROVE  rx' \in Seq(Event) /\ done' = FALSE
BY DEF PushEvent

\* the events of the three operations that name a coroutine, and Clear
LEMMA EventType ==
  /\ \A t \in Thread, op \in {"Wait", "DeferredThread", "AddAsync"} :
       [op |-> op, thread |-> t] \in Event
  /\ [op |-> "Clear", thread |-> NoThread] \in Event
BY DEF Event

(* An event received from the channel that names an operation with a        *)
(* coroutine names a coroutine, and the rest of the channel keeps its type. *)
LEMMA ReceiveType ==
  ASSUME rx \in Seq(Event), NEW op, Receive(op)
  PROVE  /\ rx' \in Seq(Event)
         /\ op # "Clear" => Head(rx).thread \in Thread
<1>1. Head(rx) \in Event /\ rx' \in Seq(Event)
  BY DEF Receive
<1>2. QED
  BY <1>1 DEF Receive, Event

\* what an arm resumes, and nothing, are values of firing
LEMMA FiringType ==
  /\ \A e \in WaitEntry : [arm |-> "wait", thread |-> e.thread, key |-> e.key] \in Firing
  /\ \A t \in Thread, arm \in {"deferred", "async"} :
       [arm |-> arm, thread |-> t, key |-> NoThread] \in Firing
BY DEF Firing, WaitEntry

(* The exits of the loop empty its local variables.                         *)
LEMMA DroppedType ==
  ASSUME TypeOK, Dropped, done' \in BOOLEAN, is_running' \in BOOLEAN
  PROVE  TypeOK'
<1>1. NoKeys \in [Thread -> SUBSET Key] /\ NoAsyncs \in [Thread -> Nat]
  BY DEF NoKeys, NoAsyncs
<1>2. /\ rx' \in Seq(Event) /\ wait_queue' \subseteq WaitEntry
      /\ deferred_queue' \in Seq(Thread) /\ known_deferred_threads' \subseteq Thread
  BY DEF Dropped
<1>3. QED
  BY <1>1, <1>2 DEF Dropped, TypeOK, CoroutineType, coroutine

-----------------------------------------------------------------------------
(* The type invariant is inductive.                                         *)
LEMMA TypeInductive == TypeOK /\ [Next]_vars => TypeOK'
<1> SUFFICES ASSUME TypeOK, [Next]_vars PROVE TypeOK'
  OBVIOUS
<1> USE DEF locals, flags, control, coroutine, AddDeferred, WithoutKey, HasFuture
<1>a. CoroutineType
  BY DEF TypeOK, CoroutineType
<1>1. ASSUME NEW t \in Thread, TaskSpawn(t) PROVE TypeOK'
  BY <1>a, <1>1, ResumeType
  DEF TaskSpawn, TypeOK, CoroutineType
<1>2. ASSUME NEW t \in Thread, TaskDelay(t) PROVE TypeOK'
  BY <1>a, <1>2, IntoThreadType, EventType, PushEventType
  DEF TaskDelay, TypeOK, CoroutineType
<1>3. ASSUME NEW t \in Thread, TaskDefer(t) PROVE TypeOK'
  BY <1>a, <1>3, IntoThreadType, EventType, PushEventType
  DEF TaskDefer, TypeOK, CoroutineType
<1>4. ASSUME NEW t \in Thread, TaskCancel(t) \/ CoroutineClose(t) PROVE TypeOK'
  BY <1>a, <1>4, CloseType
  DEF TaskCancel, CoroutineClose, TypeOK, CoroutineType
<1>5. ASSUME NEW t \in Thread, Collect(t) PROVE TypeOK'
  BY <1>a, <1>5
  DEF Collect, TypeOK, CoroutineType, Status, Resumable
<1>6. CASE TaskWait
  BY <1>a, <1>6, EventType, PushEventType, LeaveType
  DEF TaskWait, TypeOK, CoroutineType, Status, Resumable
<1>7. CASE CallAsync
  BY <1>a, <1>7, EventType, PushEventType, LeaveType
  DEF CallAsync, TypeOK, CoroutineType, Status, Resumable
<1>8. CASE CoroutineYield
  BY <1>a, <1>8, LeaveType
  DEF CoroutineYield, TypeOK, CoroutineType, Status, Resumable
<1>9. CASE CoroutineEnds
  BY <1>a, <1>9, LeaveType
  DEF CoroutineEnds, TypeOK, CoroutineType, Status, Ended
<1>10. CASE Stop
  BY <1>a, <1>10
  DEF Stop, TypeOK, CoroutineType
<1>11. CASE Unstop
  BY <1>a, <1>11
  DEF Unstop, TypeOK, CoroutineType
<1>12. CASE Clear
  BY <1>a, <1>12, EventType, PushEventType
  DEF Clear, TypeOK, CoroutineType
<1>13. CASE DropLua
  BY <1>a, <1>13
  DEF DropLua, TypeOK, CoroutineType
<1>14. CASE RunInTask
  BY <1>a, <1>14, RunsAssumption
  DEF RunInTask, TypeOK, CoroutineType
<1>15. CASE RunPanics
  BY <1>a, <1>15, RunsAssumption
  DEF RunPanics, TypeOK, CoroutineType
<1>16. CASE RunRefused
  BY <1>a, <1>16, RunsAssumption
  DEF RunRefused, TypeOK, CoroutineType
<1>17. CASE RunStarts
  BY <1>a, <1>17, RunsAssumption
  DEF RunStarts, TypeOK, CoroutineType
<1>18. CASE TopReturns
  BY <1>a, <1>18, DroppedType
  DEF TopReturns, Return, TypeOK, CoroutineType
<1>19. CASE TopSelects
  BY <1>a, <1>19
  DEF TopSelects, TypeOK, CoroutineType
<1>20. CASE ArmReturns \/ RecvDeferredPanics
  BY <1>a, <1>20, DroppedType
  DEF ArmReturns, RecvDeferredPanics, Return, TypeOK, CoroutineType
<1>21. CASE RecvWait
  BY <1>a, <1>21, ReceiveType
  DEF RecvWait, TypeOK, CoroutineType, WaitEntry
<1>22. CASE RecvDeferred
  BY <1>a, <1>22, ReceiveType
  DEF RecvDeferred, TypeOK, CoroutineType
<1>23. CASE RecvAsync
  BY <1>a, <1>23, ReceiveType
  DEF RecvAsync, TypeOK, CoroutineType
<1>24. CASE RecvClear
  BY <1>a, <1>24, ReceiveType
  DEF RecvClear, TypeOK, CoroutineType, NoKeys
<1>25. ASSUME NEW e \in wait_queue, SkipWait(e) PROVE TypeOK'
  BY <1>a, <1>25
  DEF SkipWait, TypeOK, CoroutineType
<1>26. ASSUME NEW e \in wait_queue, FireWait(e) PROVE TypeOK'
  BY <1>a, <1>26, ResumeType, FiringType
  DEF FireWait, TypeOK, CoroutineType, WaitEntry
<1>27. CASE SkipDeferred
  BY <1>a, <1>27
  DEF SkipDeferred, TypeOK, CoroutineType, TakeDeferred
<1>28. CASE DropDeferred
  BY <1>a, <1>28
  DEF DropDeferred, TypeOK, CoroutineType, TakeDeferred
<1>29. CASE FireDeferred
  <2>1. Head(deferred_queue) \in Thread /\ deferred_queue' \in Seq(Thread)
    BY <1>29 DEF FireDeferred, TakeDeferred, TypeOK
  <2>2. CoroutineType'
    BY <1>a, <1>29, <2>1, ResumeType DEF FireDeferred
  <2>3. firing' \in Firing
    BY <1>29, <2>1, FiringType DEF FireDeferred
  <2>4. QED
    BY <1>29, <2>1, <2>2, <2>3 DEF FireDeferred, TakeDeferred, TypeOK, CoroutineType
<1>30. ASSUME NEW t \in Thread, FireAsync(t) PROVE TypeOK'
  <2>1. async_queue' \in [Thread -> Nat]
    BY <1>30 DEF FireAsync, TypeOK
  <2>2. CoroutineType'
    BY <1>a, <1>30, ResumeType DEF FireAsync
  <2>3. firing' \in Firing
    BY <1>30, FiringType DEF FireAsync
  <2>4. QED
    BY <1>30, <2>1, <2>2, <2>3 DEF FireAsync, TypeOK, CoroutineType
<1>31. CASE AfterResume
  BY <1>a, <1>31
  DEF AfterResume, TypeOK, CoroutineType, Firing, NotFiring
<1>32. CASE Bottom
  BY <1>a, <1>32
  DEF Bottom, TypeOK, CoroutineType, NothingPending
<1>33. CASE UNCHANGED vars
  BY <1>33 DEF vars, TypeOK, CoroutineType
<1>34. QED
  BY <1>1, <1>2, <1>3, <1>4, <1>5, <1>6, <1>7, <1>8, <1>9, <1>10, <1>11,
     <1>12, <1>13, <1>14, <1>15, <1>16, <1>17, <1>18, <1>19, <1>20, <1>21,
     <1>22, <1>23, <1>24, <1>25, <1>26, <1>27, <1>28, <1>29, <1>30, <1>31,
     <1>32, <1>33
  DEF Next, Environment, Run

LEMMA TypeInit == Init => TypeOK
<1> SUFFICES ASSUME Init PROVE TypeOK
  OBVIOUS
<1>1. rx \in Seq(Event) /\ deferred_queue \in Seq(Thread)
  BY DEF Init
<1>2. wait_keys \in [Thread -> SUBSET Key] /\ async_queue \in [Thread -> Nat]
  BY DEF Init, NoKeys, NoAsyncs
<1>3. CoroutineType
  BY DEF Init, CoroutineInit, CoroutineType, Status
<1>4. spawned \in 0..MaxRuns
  BY RunsAssumption DEF Init
<1>5. QED
  BY <1>1, <1>2, <1>3, <1>4 DEF Init, TypeOK, CoroutineType

(* Every reachable state is well typed.                                     *)
THEOREM TypeCorrect == Spec => []TypeOK
BY TypeInit, TypeInductive, PTL DEF Spec

-----------------------------------------------------------------------------
(* done is set only while nothing is pending.                               *)

\* before run() starts its local queues do not exist
IdleEmpty ==
  pc = "idle" => wait_queue = {} /\ deferred_queue = <<>> /\ async_queue = NoAsyncs

DoneInv == DoneMeansNoWork /\ IdleEmpty

(* An action that leaves done and the queues alone and does not turn the    *)
(* run() future back to idle keeps the invariant.                           *)
LEMMA DoneFrame ==
  ASSUME DoneInv, UNCHANGED <<rx, done, wait_queue, deferred_queue, async_queue>>,
         pc' = "idle" => pc = "idle"
  PROVE  DoneInv'
BY DEF DoneInv, DoneMeansNoWork, IdleEmpty, NothingPending, NoAsyncs

(* An action that clears done, or takes from a queue that has something in  *)
(* it while the loop runs, keeps the invariant.                             *)
LEMMA DoneLoop ==
  ASSUME DoneInv, ~done', pc' # "idle"
  PROVE  DoneInv'
BY DEF DoneInv, DoneMeansNoWork, IdleEmpty

(* push_event clears done before it sends.                                  *)
LEMMA DonePush ==
  ASSUME DoneInv, NEW event, PushEvent(event), UNCHANGED <<control, locals>>
  PROVE  DoneInv'
BY DEF DoneInv, DoneMeansNoWork, IdleEmpty, PushEvent, control, locals, NoAsyncs

\* the exits of run() drop everything that was pending
LEMMA DoneReturn ==
  ASSUME Dropped
  PROVE  DoneInv'
BY DEF Dropped, DoneInv, DoneMeansNoWork, IdleEmpty, NothingPending, NoAsyncs

LEMMA DoneInductive == TypeOK /\ DoneInv /\ [Next]_vars => DoneInv'
<1> SUFFICES ASSUME TypeOK, DoneInv, [Next]_vars PROVE DoneInv'
  OBVIOUS
<1> USE DEF locals, flags, control, coroutine, AddDeferred, WithoutKey, HasFuture
<1>1. ASSUME NEW t \in Thread, TaskSpawn(t) PROVE DoneInv'
  BY <1>1, DoneFrame DEF TaskSpawn
<1>2. ASSUME NEW t \in Thread, TaskDelay(t) PROVE DoneInv'
  BY <1>2, DonePush DEF TaskDelay
<1>3. ASSUME NEW t \in Thread, TaskDefer(t) PROVE DoneInv'
  BY <1>3, DonePush DEF TaskDefer
<1>4. ASSUME NEW t \in Thread, TaskCancel(t) \/ CoroutineClose(t) PROVE DoneInv'
  BY <1>4, DoneFrame DEF TaskCancel, CoroutineClose
<1>5. ASSUME NEW t \in Thread, Collect(t) PROVE DoneInv'
  BY <1>5, DoneFrame DEF Collect
<1>6. CASE TaskWait
  BY <1>6, DonePush DEF TaskWait
<1>7. CASE CallAsync
  BY <1>7, DonePush DEF CallAsync
<1>8. CASE CoroutineYield \/ CoroutineEnds
  BY <1>8, DoneFrame DEF CoroutineYield, CoroutineEnds
<1>9. CASE Stop \/ Unstop \/ DropLua
  BY <1>9, DoneFrame DEF Stop, Unstop, DropLua
<1>10. CASE Clear
  BY <1>10, DonePush DEF Clear
<1>11. CASE RunInTask \/ RunPanics
  BY <1>11, DoneFrame DEF RunInTask, RunPanics
<1>12. CASE RunRefused
  BY <1>12 DEF RunRefused, DoneInv, DoneMeansNoWork, IdleEmpty, NothingPending
<1>13. CASE RunStarts \/ TopSelects
  BY <1>13, DoneFrame DEF RunStarts, TopSelects
<1>14. CASE TopReturns \/ ArmReturns \/ RecvDeferredPanics
  BY <1>14, DoneReturn DEF TopReturns, ArmReturns, RecvDeferredPanics, Return
<1>15. CASE RecvWait \/ RecvDeferred \/ RecvAsync \/ RecvClear
  <2>1. rx # <<>> /\ UNCHANGED done /\ pc' # "idle"
    BY <1>15 DEF RecvWait, RecvDeferred, RecvAsync, RecvClear, Receive
  <2>2. ~done'
    BY <2>1 DEF DoneInv, DoneMeansNoWork, NothingPending
  <2>3. QED
    BY <2>1, <2>2, DoneLoop
<1>16. ASSUME NEW e \in wait_queue, SkipWait(e) \/ FireWait(e) PROVE DoneInv'
  <2>1. ~done
    BY DEF DoneInv, DoneMeansNoWork, NothingPending
  <2>2. QED
    BY <1>16, <2>1, DoneLoop DEF SkipWait, FireWait
<1>17. CASE SkipDeferred \/ DropDeferred \/ FireDeferred
  <2>1. deferred_queue # <<>> /\ UNCHANGED done /\ pc' # "idle"
    BY <1>17 DEF SkipDeferred, DropDeferred, FireDeferred, TakeDeferred
  <2>2. ~done'
    BY <2>1 DEF DoneInv, DoneMeansNoWork, NothingPending
  <2>3. QED
    BY <2>1, <2>2, DoneLoop
<1>18. ASSUME NEW t \in Thread, FireAsync(t) PROVE DoneInv'
  <2>1. async_queue # NoAsyncs
    BY <1>18 DEF FireAsync, NoAsyncs
  <2>2. ~done
    BY <2>1 DEF DoneInv, DoneMeansNoWork, NothingPending
  <2>3. QED
    BY <1>18, <2>2, DoneLoop DEF FireAsync
<1>19. CASE AfterResume
  BY <1>19, DoneFrame DEF AfterResume
<1>20. CASE Bottom
  BY <1>20 DEF Bottom, DoneInv, DoneMeansNoWork, IdleEmpty, NothingPending, NoAsyncs
<1>21. CASE UNCHANGED vars
  BY <1>21, DoneFrame DEF vars
<1>22. QED
  BY <1>1, <1>2, <1>3, <1>4, <1>5, <1>6, <1>7, <1>8, <1>9, <1>10, <1>11,
     <1>12, <1>13, <1>14, <1>15, <1>16, <1>17, <1>18, <1>19, <1>20, <1>21
  DEF Next, Environment, Run

(* wait_till_done never returns early: in every reachable state in which    *)
(* done is set, the four queues are empty.                                  *)
THEOREM DoneCorrect == Spec => []DoneMeansNoWork
<1>1. Init => DoneInv
  BY DEF Init, DoneInv, DoneMeansNoWork, IdleEmpty, NothingPending
<1>2. DoneInv => DoneMeansNoWork
  BY DEF DoneInv
<1>3. QED
  BY <1>1, <1>2, TypeCorrect, DoneInductive, PTL DEF Spec

-----------------------------------------------------------------------------
(* The record of keys covers the delay queue.                               *)

\* a slot of the delay queue holds one entry
KeysUnique == \A d, e \in wait_queue : d.key = e.key => d = e

\* the slot of the entry that is being fired is free
FiringKeyFree == firing.arm = "wait" => \A e \in wait_queue : e.key # firing.key

\* an entry is being fired only while the loop is in that arm
FiringInLua == firing.arm # "none" => pc = "lua"

KeysInv == KeysRecorded /\ KeysUnique /\ FiringKeyFree /\ FiringInLua

(* An action that leaves the delay queue, its record and firing alone, and  *)
(* does not leave an arm, keeps the invariant.                              *)
LEMMA KeysFrame ==
  ASSUME KeysInv, UNCHANGED <<wait_queue, wait_keys, firing>>, pc = "lua" => pc' = "lua"
  PROVE  KeysInv'
BY DEF KeysInv, KeysRecorded, KeysUnique, FiringKeyFree, FiringInLua

(* So does one that empties the delay queue at select! or at the loop top.  *)
LEMMA KeysEmptied ==
  ASSUME KeysInv, pc # "lua", wait_queue' = {}, UNCHANGED firing
  PROVE  KeysInv'
BY DEF KeysInv, KeysRecorded, KeysUnique, FiringKeyFree, FiringInLua

LEMMA KeysInductive == TypeOK /\ KeysInv /\ [Next]_vars => KeysInv'
<1> SUFFICES ASSUME TypeOK, KeysInv, [Next]_vars PROVE KeysInv'
  OBVIOUS
<1> USE DEF locals, flags, control, coroutine, AddDeferred, WithoutKey, HasFuture
<1>1. ASSUME NEW t \in Thread,
             TaskSpawn(t) \/ TaskDelay(t) \/ TaskDefer(t) \/ TaskCancel(t)
             \/ CoroutineClose(t) \/ Collect(t)
      PROVE KeysInv'
  BY <1>1, KeysFrame DEF TaskSpawn, TaskDelay, TaskDefer, TaskCancel, CoroutineClose, Collect
<1>2. CASE TaskWait \/ CallAsync \/ CoroutineYield \/ CoroutineEnds
  BY <1>2, KeysFrame DEF TaskWait, CallAsync, CoroutineYield, CoroutineEnds
<1>3. CASE Stop \/ Unstop \/ Clear \/ DropLua
  BY <1>3, KeysFrame DEF Stop, Unstop, Clear, DropLua
<1>4. CASE RunInTask \/ RunPanics \/ RunRefused \/ RunStarts \/ TopSelects
  BY <1>4, KeysFrame DEF RunInTask, RunPanics, RunRefused, RunStarts, TopSelects
<1>5. CASE TopReturns \/ ArmReturns \/ RecvDeferredPanics
  BY <1>5, KeysEmptied DEF TopReturns, ArmReturns, RecvDeferredPanics, AtSelect, Return, Dropped
<1>6. CASE RecvClear
  BY <1>6, KeysEmptied DEF RecvClear, Receive, AtSelect
<1>7. CASE RecvWait
  <2>1. pc # "lua" /\ pc' # "lua" /\ UNCHANGED firing /\ firing.arm = "none"
    BY <1>7 DEF RecvWait, Receive, AtSelect, KeysInv, FiringInLua
  <2>2. Head(rx).thread \in Thread
    BY <1>7, ReceiveType DEF RecvWait, TypeOK
  <2>3. PICK key \in Key \ {e.key : e \in wait_queue} :
          /\ wait_queue' = wait_queue \cup {[thread |-> Head(rx).thread, key |-> key]}
          /\ wait_keys' = [wait_keys EXCEPT ![Head(rx).thread] = @ \cup {key}]
    BY <1>7 DEF RecvWait
  <2>4. KeysUnique'
    BY <2>3 DEF KeysInv, KeysUnique
  <2>5. \A e \in wait_queue' : e.key \in wait_keys'[e.thread]
    BY <2>2, <2>3 DEF KeysInv, KeysRecorded, TypeOK, WaitEntry
  <2>6. QED
    BY <2>1, <2>4, <2>5 DEF KeysInv, KeysRecorded, FiringKeyFree, FiringInLua
<1>8. CASE RecvDeferred \/ RecvAsync
  BY <1>8, KeysFrame DEF RecvDeferred, RecvAsync, Receive, AtSelect
<1>9. ASSUME NEW e \in wait_queue, SkipWait(e) PROVE KeysInv'
  BY <1>9 DEF SkipWait, AtSelect, KeysInv, KeysRecorded, KeysUnique, FiringKeyFree,
              FiringInLua
<1>10. ASSUME NEW e \in wait_queue, FireWait(e) PROVE KeysInv'
  BY <1>10 DEF FireWait, KeysInv, KeysRecorded, KeysUnique, FiringKeyFree, FiringInLua
<1>11. CASE SkipDeferred \/ DropDeferred
  BY <1>11, KeysFrame DEF SkipDeferred, DropDeferred, TakeDeferred, AtSelect
<1>12. CASE FireDeferred
  BY <1>12 DEF FireDeferred, TakeDeferred, KeysInv, KeysRecorded, KeysUnique,
               FiringKeyFree, FiringInLua
<1>13. ASSUME NEW t \in Thread, FireAsync(t) PROVE KeysInv'
  BY <1>13 DEF FireAsync, KeysInv, KeysRecorded, KeysUnique, FiringKeyFree, FiringInLua
<1>14. CASE AfterResume
  <2>1. firing'.arm = "none" /\ UNCHANGED wait_queue
    BY <1>14 DEF AfterResume, NotFiring
  <2>2. \A e \in wait_queue : e.key \in wait_keys'[e.thread]
    <3>1. CASE firing.arm = "wait"
      BY <1>14, <3>1 DEF AfterResume, KeysInv, KeysRecorded, FiringKeyFree, TypeOK, WaitEntry
    <3>2. CASE firing.arm # "wait"
      BY <1>14, <3>2 DEF AfterResume, KeysInv, KeysRecorded
    <3>3. QED
      BY <3>1, <3>2
  <2>3. QED
    BY <2>1, <2>2 DEF KeysInv, KeysRecorded, KeysUnique, FiringKeyFree, FiringInLua
<1>15. CASE Bottom
  BY <1>15, KeysFrame DEF Bottom
<1>16. CASE UNCHANGED vars
  BY <1>16, KeysFrame DEF vars
<1>17. QED
  BY <1>1, <1>2, <1>3, <1>4, <1>5, <1>6, <1>7, <1>8, <1>9, <1>10, <1>11,
     <1>12, <1>13, <1>14, <1>15, <1>16
  DEF Next, Environment, Run

(* The subtraction in the wait arm never underflows: the key of the entry   *)
(* being fired is always recorded for its coroutine.                        *)
THEOREM KeysCorrect == Spec => []KeysRecorded
<1>1. Init => KeysInv
  BY DEF Init, NotFiring, KeysInv, KeysRecorded, KeysUnique, FiringKeyFree, FiringInLua
<1>2. KeysInv => KeysRecorded
  BY DEF KeysInv
<1>3. QED
  BY <1>1, <1>2, TypeCorrect, KeysInductive, PTL DEF Spec

-----------------------------------------------------------------------------
(* Nobody is forgotten, as long as no mark of task.cancel meets a coroutine *)
(* that it was not made for.                                                *)

(* Addresses are used again only in programs that never call task.cancel.   *)
(* (With both, a mark that no entry has used up hits the next coroutine at  *)
(* its address, which is then forgotten.)                                   *)
MarksMeetTheirOwn == "collect" \notin Calls \/ "cancel" \notin Calls

\* a mark that is left was made for the coroutine that has the address now
MarksTargeted ==
  /\ cancel \subseteq targeted
  /\ "cancel" \notin Calls => targeted = {}

ForgottenInv == NobodyForgotten /\ MarksTargeted

(* Where there are targets, the collector does not run: a target stays a    *)
(* target.  Only the skipping arms and Clear use up marks.                  *)
LEMMA MarksInductive ==
  ASSUME MarksMeetTheirOwn, TypeOK, MarksTargeted, [Next]_vars
  PROVE  MarksTargeted' /\ targeted \subseteq targeted'
<1> USE DEF MarksMeetTheirOwn, MarksTargeted, flags, coroutine
<1>1. ASSUME NEW t \in Thread,
             TaskSpawn(t) \/ TaskDelay(t) \/ TaskDefer(t) \/ TaskCancel(t)
             \/ CoroutineClose(t) \/ Collect(t)
      PROVE MarksTargeted' /\ targeted \subseteq targeted'
  BY <1>1 DEF TaskSpawn, TaskDelay, TaskDefer, TaskCancel, CoroutineClose, Collect
<1>2. CASE TaskWait \/ CallAsync \/ CoroutineYield \/ CoroutineEnds
  BY <1>2 DEF TaskWait, CallAsync, CoroutineYield, CoroutineEnds
<1>3. CASE Stop \/ Unstop \/ Clear \/ DropLua
  BY <1>3 DEF Stop, Unstop, Clear, DropLua
<1>4. CASE RunInTask \/ RunPanics \/ RunRefused \/ RunStarts \/ TopSelects
  BY <1>4 DEF RunInTask, RunPanics, RunRefused, RunStarts, TopSelects
<1>5. CASE TopReturns \/ ArmReturns \/ RecvDeferredPanics
  BY <1>5 DEF TopReturns, ArmReturns, RecvDeferredPanics, Return, Dropped
<1>6. CASE RecvWait \/ RecvDeferred \/ RecvAsync \/ RecvClear
  BY <1>6 DEF RecvWait, RecvDeferred, RecvAsync, RecvClear
<1>7. ASSUME NEW e \in wait_queue, SkipWait(e) \/ FireWait(e)
      PROVE MarksTargeted' /\ targeted \subseteq targeted'
  BY <1>7 DEF SkipWait, FireWait
<1>8. CASE SkipDeferred \/ DropDeferred \/ FireDeferred
  BY <1>8 DEF SkipDeferred, DropDeferred, FireDeferred, TakeDeferred
<1>9. ASSUME NEW t \in Thread, FireAsync(t)
      PROVE MarksTargeted' /\ targeted \subseteq targeted'
  BY <1>9 DEF FireAsync
<1>10. CASE AfterResume \/ Bottom \/ UNCHANGED vars
  BY <1>10 DEF AfterResume, Bottom, vars
<1>11. QED
  BY <1>1, <1>2, <1>3, <1>4, <1>5, <1>6, <1>7, <1>8, <1>9, <1>10
  DEF Next, Environment, Run

\* the two kinds of entry that wake a suspended coroutine
HasEntry(t) ==
  /\ status[t] = "waiting" => HasWaitEntry(t) \/ t \in targeted
  /\ status[t] = "awaiting" => HasAsyncEntry(t)

(* A coroutine that an action does not suspend keeps its entry if the       *)
(* action keeps the queues that hold it.                                    *)
LEMMA EntryFrame ==
  ASSUME NEW t \in Thread, HasEntry(t), targeted \subseteq targeted',
         status'[t] \in {"waiting", "awaiting"} => status'[t] = status[t],
         UNCHANGED <<rx, wait_queue, async_queue>>
  PROVE  HasEntry(t)'
BY DEF HasEntry, HasWaitEntry, HasAsyncEntry, HasFuture, Queued

(* push_event to a live loop adds its event and keeps the others.           *)
LEMMA PushKeepsQueued ==
  ASSUME rx \in Seq(Event), pc # "exited", NEW event \in Event, PushEvent(event)
  PROVE  Queued(event)' /\ \A v \in Event : Queued(v) => Queued(v)'
<1>1. /\ Len(rx) \in Nat /\ DOMAIN rx = 1..Len(rx)
      /\ DOMAIN rx' = 1..(Len(rx) + 1) /\ rx'[Len(rx) + 1] = event
      /\ \A i \in DOMAIN rx : rx'[i] = rx[i]
  BY DEF PushEvent
<1>2. QED
  BY <1>1 DEF Queued

(* The loop receives the first event and keeps the others.                  *)
LEMMA ReceiveKeepsQueued ==
  ASSUME rx \in Seq(Event), NEW op, Receive(op)
  PROVE  \A v \in Event : Queued(v) => v = Head(rx) \/ Queued(v)'
<1>1. /\ Len(rx) \in Nat \ {0} /\ DOMAIN rx = 1..Len(rx) /\ Head(rx) = rx[1]
      /\ DOMAIN rx' = 1..(Len(rx) - 1)
      /\ \A i \in 1..(Len(rx) - 1) : rx'[i] = rx[i + 1]
  BY DEF Receive
<1>2. ASSUME NEW i \in DOMAIN rx, rx[i] # Head(rx)
      PROVE  i - 1 \in DOMAIN rx' /\ rx'[i - 1] = rx[i]
  <2>1. i \in Nat /\ i > 1
    BY <1>1, <1>2
  <2>2. QED
    BY <1>1, <2>1
<1>3. QED
  BY <1>2 DEF Queued

(* An ended loop stays ended, and a dropped Lua state stays dropped.        *)
LEMMA LoopAliveBefore ==
  ASSUME [Next]_vars, LoopAlive'
  PROVE  LoopAlive
<1> USE DEF LoopAlive, control
<1>1. ASSUME NEW t \in Thread,
             TaskSpawn(t) \/ TaskDelay(t) \/ TaskDefer(t) \/ TaskCancel(t)
             \/ CoroutineClose(t) \/ Collect(t)
      PROVE LoopAlive
  BY <1>1 DEF TaskSpawn, TaskDelay, TaskDefer, TaskCancel, CoroutineClose, Collect
<1>2. CASE TaskWait \/ CallAsync \/ CoroutineYield \/ CoroutineEnds
  BY <1>2 DEF TaskWait, CallAsync, CoroutineYield, CoroutineEnds
<1>3. CASE Stop \/ Unstop \/ Clear \/ DropLua
  BY <1>3 DEF Stop, Unstop, Clear, DropLua
<1>4. CASE RunInTask \/ RunPanics \/ RunRefused \/ RunStarts \/ TopSelects
  BY <1>4 DEF RunInTask, RunPanics, RunRefused, RunStarts, TopSelects
<1>5. CASE TopReturns \/ ArmReturns \/ RecvDeferredPanics
  BY <1>5 DEF TopReturns, ArmReturns, RecvDeferredPanics, Return, Dropped
<1>6. CASE RecvWait \/ RecvDeferred \/ RecvAsync \/ RecvClear
  BY <1>6 DEF RecvWait, RecvDeferred, RecvAsync, RecvClear, Receive, AtSelect
<1>7. ASSUME NEW e \in wait_queue, SkipWait(e) \/ FireWait(e) PROVE LoopAlive
  BY <1>7 DEF SkipWait, FireWait, AtSelect
<1>8. CASE SkipDeferred \/ DropDeferred \/ FireDeferred
  BY <1>8 DEF SkipDeferred, DropDeferred, FireDeferred, TakeDeferred, AtSelect
<1>9. ASSUME NEW t \in Thread, FireAsync(t) PROVE LoopAlive
  BY <1>9 DEF FireAsync, AtSelect
<1>10. CASE AfterResume \/ Bottom \/ UNCHANGED vars
  BY <1>10 DEF AfterResume, Bottom, vars
<1>11. QED
  BY <1>1, <1>2, <1>3, <1>4, <1>5, <1>6, <1>7, <1>8, <1>9, <1>10
  DEF Next, Environment, Run

LEMMA ForgottenInductive ==
  ASSUME MarksMeetTheirOwn, TypeOK, ForgottenInv, [Next]_vars
  PROVE  ForgottenInv'
<1>1. MarksTargeted' /\ targeted \subseteq targeted'
  BY MarksInductive DEF ForgottenInv
<1> SUFFICES ASSUME LoopAlive', NEW t \in Thread PROVE HasEntry(t)'
  BY <1>1 DEF ForgottenInv, NobodyForgotten, HasEntry
<1>2. LoopAlive /\ HasEntry(t)
  BY LoopAliveBefore DEF ForgottenInv, NobodyForgotten, HasEntry
<1>3. pc # "exited" /\ CoroutineType /\ rx \in Seq(Event)
  BY <1>2 DEF LoopAlive, TypeOK, CoroutineType
<1> USE DEF locals, control, coroutine, HasFuture
<1>4. ASSUME NEW u \in Thread, TaskSpawn(u) PROVE HasEntry(t)'
  BY <1>1, <1>2, <1>3, <1>4, EntryFrame DEF TaskSpawn, Enter, CoroutineType
<1>5. ASSUME NEW u \in Thread, TaskCancel(u) \/ CoroutineClose(u) PROVE HasEntry(t)'
  <2>1. status'[t] \in {status[t], "closed"}
    BY <1>3, <1>5 DEF TaskCancel, CoroutineClose, Close, CoroutineType
  <2>2. QED
    BY <1>1, <1>2, <1>5, <2>1, EntryFrame DEF TaskCancel, CoroutineClose
<1>6. ASSUME NEW u \in Thread, Collect(u) PROVE HasEntry(t)'
  BY <1>1, <1>2, <1>3, <1>6, EntryFrame DEF Collect, CoroutineType
<1>7. CASE CoroutineYield \/ CoroutineEnds
  BY <1>1, <1>2, <1>3, <1>7, EntryFrame DEF CoroutineYield, CoroutineEnds, Leave, CoroutineType
<1>8. CASE Stop \/ Unstop \/ DropLua
  BY <1>1, <1>2, <1>8, EntryFrame DEF Stop, Unstop, DropLua
<1>9. ASSUME NEW event \in Event, PushEvent(event), UNCHANGED <<wait_queue, async_queue>>,
             status'[t] \in {"waiting", "awaiting"} => status'[t] = status[t]
      PROVE  HasEntry(t)'
  <2>1. \A v \in Event : Queued(v) => Queued(v)'
    BY <1>3, <1>9, PushKeepsQueued
  <2>2. HasWaitEntry(t) => HasWaitEntry(t)'
    BY <1>9, <2>1, EventType DEF HasWaitEntry
  <2>3. HasAsyncEntry(t) => HasAsyncEntry(t)'
    BY <1>9, <2>1, EventType DEF HasAsyncEntry
  <2>4. QED
    BY <1>1, <1>2, <1>9, <2>2, <2>3 DEF HasEntry
<1>10. ASSUME NEW u \in Thread, TaskDelay(u) \/ TaskDefer(u) PROVE HasEntry(t)'
  BY <1>3, <1>9, <1>10, EventType DEF TaskDelay, TaskDefer, IntoThread, CoroutineType
<1>11. CASE Clear
  BY <1>9, <1>11, EventType DEF Clear
<1>12. CASE TaskWait
  <2>1. CASE t = current
    <3>1. Queued([op |-> "Wait", thread |-> t])'
      BY <1>3, <1>12, <2>1, EventType, PushKeepsQueued DEF TaskWait
    <3>2. status'[t] = "waiting"
      BY <1>3, <1>12, <2>1 DEF TaskWait, Leave, CoroutineType
    <3>3. QED
      BY <3>1, <3>2 DEF HasEntry, HasWaitEntry
  <2>2. CASE t # current
    BY <1>3, <1>9, <1>12, <2>2, EventType DEF TaskWait, Leave, CoroutineType
  <2>3. QED
    BY <2>1, <2>2
<1>13. CASE CallAsync
  <2>1. CASE t = current
    <3>1. Queued([op |-> "AddAsync", thread |-> t])'
      BY <1>3, <1>13, <2>1, EventType, PushKeepsQueued DEF CallAsync
    <3>2. status'[t] = "awaiting"
      BY <1>3, <1>13, <2>1 DEF CallAsync, Leave, CoroutineType
    <3>3. QED
      BY <3>1, <3>2 DEF HasEntry, HasAsyncEntry
  <2>2. CASE t # current
    BY <1>3, <1>9, <1>13, <2>2, EventType DEF CallAsync, Leave, CoroutineType
  <2>3. QED
    BY <2>1, <2>2
<1>14. CASE RunInTask \/ RunPanics \/ RunStarts \/ TopSelects
  BY <1>1, <1>2, <1>14, EntryFrame DEF RunInTask, RunPanics, RunStarts, TopSelects
<1>15. CASE RunRefused \/ TopReturns \/ ArmReturns \/ RecvDeferredPanics \/ RecvClear
  BY <1>15 DEF RunRefused, TopReturns, ArmReturns, RecvDeferredPanics, RecvClear, Return,
               Dropped, LoopAlive
<1>16. CASE RecvWait \/ RecvDeferred \/ RecvAsync
  <2> DEFINE w == [op |-> "Wait", thread |-> t]
             a == [op |-> "AddAsync", thread |-> t]
  <2>1. UNCHANGED status
    BY <1>16 DEF RecvWait, RecvDeferred, RecvAsync
  <2>2. /\ Queued(w) => w = Head(rx) \/ Queued(w)'
        /\ Queued(a) => a = Head(rx) \/ Queued(a)'
    <3>1. PICK op \in {"Wait", "DeferredThread", "AddAsync"} : Receive(op)
      BY <1>16 DEF RecvWait, RecvDeferred, RecvAsync
    <3>2. QED
      BY <1>3, <3>1, EventType, ReceiveKeepsQueued
  <2>3. w.op = "Wait" /\ a.op = "AddAsync" /\ w.thread = t /\ a.thread = t
    OBVIOUS
  <2> HIDE DEF w, a
  <2>4. (HasWaitEntry(t) <=> Queued(w) \/ \E e \in wait_queue : e.thread = t)
        /\ (HasAsyncEntry(t) <=> Queued(a) \/ async_queue[t] > 0)
    BY DEF HasWaitEntry, HasAsyncEntry, w, a
  <2>5. (HasWaitEntry(t)' <=> Queued(w)' \/ \E e \in wait_queue' : e.thread = t)
        /\ (HasAsyncEntry(t)' <=> Queued(a)' \/ async_queue'[t] > 0)
    BY DEF HasWaitEntry, HasAsyncEntry, w, a
  <2>6. (HasWaitEntry(t) => HasWaitEntry(t)') /\ (HasAsyncEntry(t) => HasAsyncEntry(t)')
    <3>1. CASE RecvWait
      <4>1. Head(rx).op = "Wait" /\ UNCHANGED async_queue
        BY <3>1 DEF RecvWait, Receive
      <4>2. PICK key \in Key :
              wait_queue' = wait_queue \cup {[thread |-> Head(rx).thread, key |-> key]}
        BY <3>1 DEF RecvWait
      <4>3. w = Head(rx) => \E e \in wait_queue' : e.thread = t
        <5>1. [thread |-> Head(rx).thread, key |-> key] \in wait_queue'
          BY <4>2
        <5>2. QED
          BY <2>3, <5>1
      <4>4. QED
        BY <2>2, <2>3, <2>4, <2>5, <4>1, <4>2, <4>3
    <3>2. CASE RecvDeferred
      BY <2>2, <2>3, <2>4, <2>5, <3>2 DEF RecvDeferred, Receive
    <3>3. CASE RecvAsync
      BY <2>2, <2>3, <2>4, <2>5, <3>3 DEF RecvAsync, Receive, TypeOK
    <3>4. QED
      BY <1>16, <3>1, <3>2, <3>3
  <2>7. QED
    BY <1>1, <1>2, <2>1, <2>6 DEF HasEntry
<1>17. ASSUME NEW e \in wait_queue, SkipWait(e) PROVE HasEntry(t)'
  BY <1>1, <1>2, <1>17
  DEF SkipWait, Cancelled, HasEntry, HasWaitEntry, HasAsyncEntry, Queued, ForgottenInv,
      MarksTargeted
<1>18. ASSUME NEW e \in wait_queue, FireWait(e) PROVE HasEntry(t)'
  <2>1. e.thread \in Thread
    BY DEF TypeOK, WaitEntry
  <2>2. CASE t = e.thread
    BY <1>3, <1>18, <2>1, <2>2 DEF FireWait, Resume, Enter, CoroutineType, HasEntry, Resumable
  <2>3. CASE t # e.thread
    BY <1>1, <1>2, <1>3, <1>18, <2>1, <2>3
    DEF FireWait, Resume, Enter, CoroutineType, HasEntry, HasWaitEntry, HasAsyncEntry, Queued
  <2>4. QED
    BY <2>2, <2>3
<1>19. CASE SkipDeferred \/ DropDeferred
  BY <1>1, <1>2, <1>19, EntryFrame DEF SkipDeferred, DropDeferred, TakeDeferred
<1>20. CASE FireDeferred
  BY <1>1, <1>2, <1>3, <1>20, EntryFrame
  DEF FireDeferred, TakeDeferred, Resume, Enter, CoroutineType
<1>21. ASSUME NEW u \in Thread, FireAsync(u) PROVE HasEntry(t)'
  <2>1. CASE t = u
    BY <1>3, <1>21, <2>1 DEF FireAsync, Resume, Enter, CoroutineType, HasEntry, Resumable
  <2>2. CASE t # u
    BY <1>1, <1>2, <1>3, <1>21, <2>2
    DEF FireAsync, Resume, Enter, CoroutineType, HasEntry, HasWaitEntry, HasAsyncEntry,
        Queued, TypeOK
  <2>3. QED
    BY <2>1, <2>2
<1>22. CASE AfterResume \/ Bottom \/ UNCHANGED vars
  BY <1>1, <1>2, <1>22, EntryFrame DEF AfterResume, Bottom, vars
<1>23. QED
  BY <1>4, <1>5, <1>6, <1>7, <1>8, <1>10, <1>11, <1>12, <1>13, <1>14, <1>15,
     <1>16, <1>17, <1>18, <1>19, <1>20, <1>21, <1>22
  DEF Next, Environment, Run

(* A coroutine suspended in task.wait or in an async function always has an *)
(* entry of its own in some queue, unless a script cancelled it: in every   *)
(* program that does not both cancel coroutines and use addresses again.    *)
THEOREM ForgottenCorrect ==
  ASSUME MarksMeetTheirOwn
  PROVE  Spec => []NobodyForgotten
<1>1. Init => ForgottenInv
  BY DEF Init, CoroutineInit, ForgottenInv, NobodyForgotten, MarksTargeted
<1>2. TypeOK /\ ForgottenInv /\ [Next]_vars => ForgottenInv'
  BY ForgottenInductive
<1>3. ForgottenInv => NobodyForgotten
  BY DEF ForgottenInv
<1>4. QED
  BY <1>1, <1>2, <1>3, TypeCorrect, PTL DEF Spec

\* with nothing in the queues there is no entry that would wake a coroutine
LEMMA DoneLeavesNobody == DoneMeansNoWork /\ NobodyForgotten => DoneMeansNobodySuspended
<1> SUFFICES ASSUME DoneMeansNoWork, NobodyForgotten, done, LoopAlive, NEW t \in Thread
             PROVE  /\ status[t] = "waiting" => t \in targeted
                    /\ status[t] # "awaiting"
  BY DEF DoneMeansNobodySuspended
<1>1. ~HasWaitEntry(t) /\ ~HasAsyncEntry(t)
  BY DEF DoneMeansNoWork, NothingPending, NoAsyncs, HasWaitEntry, HasAsyncEntry,
         HasFuture, Queued
<1>2. QED
  BY <1>1 DEF NobodyForgotten

(* When wait_till_done returns, no coroutine is left suspended in an async  *)
(* function, nor, unless it was cancelled, in task.wait.                    *)
THEOREM DoneMeansNobodySuspendedCorrect ==
  ASSUME MarksMeetTheirOwn
  PROVE  Spec => []DoneMeansNobodySuspended
<1>1. Spec => []NobodyForgotten
  BY ForgottenCorrect
<1>2. QED
  BY <1>1, DoneLeavesNobody, DoneCorrect, PTL

(* In such a program no step takes an entry out of the delay queue without  *)
(* resuming its coroutine, unless it was cancelled or cannot be resumed, or *)
(* the loop ends.                                                           *)
THEOREM WaitEntryResumesCorrect ==
  ASSUME MarksMeetTheirOwn
  PROVE  Spec => WaitEntryResumes
<1> DEFINE Served(e) == \/ e \in wait_queue'
                        \/ current' = e.thread
                        \/ e.thread \in targeted
                        \/ status[e.thread] \notin Resumable
                        \/ pc' \in {"drain", "exited"}
<1>1. Init => MarksTargeted
  BY DEF Init, MarksTargeted
<1>2. TypeOK /\ MarksTargeted /\ [Next]_vars => MarksTargeted'
  BY MarksInductive
<1>3. TypeOK /\ MarksTargeted /\ [Next]_vars => [\A e \in wait_queue : Served(e)]_vars
  <2> SUFFICES ASSUME TypeOK, MarksTargeted, Next, NEW e \in wait_queue PROVE Served(e)
    BY DEF vars
  <2> USE DEF locals
  <2>1. CASE UNCHANGED wait_queue
    BY <2>1
  <2>2. CASE Environment
    BY <2>1, <2>2
    DEF Environment, TaskSpawn, TaskDelay, TaskDefer, TaskCancel, CoroutineClose, Collect,
        TaskWait, CallAsync, CoroutineYield, CoroutineEnds, Stop, Unstop, Clear, DropLua
  <2>3. CASE RunInTask \/ RunPanics \/ RunRefused \/ RunStarts \/ TopSelects \/ Bottom
    BY <2>1, <2>3 DEF RunInTask, RunPanics, RunRefused, RunStarts, TopSelects, Bottom
  <2>4. CASE TopReturns \/ ArmReturns \/ RecvDeferredPanics \/ RecvClear
    BY <2>4 DEF TopReturns, ArmReturns, RecvDeferredPanics, RecvClear, Return, Dropped
  <2>5. CASE RecvWait
    BY <2>5 DEF RecvWait
  <2>6. CASE RecvDeferred \/ RecvAsync \/ AfterResume
    BY <2>1, <2>6 DEF RecvDeferred, RecvAsync, AfterResume
  <2>7. ASSUME NEW d \in wait_queue, SkipWait(d) PROVE Served(e)
    BY <2>7 DEF SkipWait, Cancelled, MarksTargeted
  <2>8. ASSUME NEW d \in wait_queue, FireWait(d) PROVE Served(e)
    BY <2>8 DEF FireWait, Resume, Enter
  <2>9. CASE SkipDeferred \/ DropDeferred \/ FireDeferred
    BY <2>1, <2>9 DEF SkipDeferred, DropDeferred, FireDeferred, TakeDeferred
  <2>10. ASSUME NEW t \in Thread, FireAsync(t) PROVE Served(e)
    BY <2>1, <2>10 DEF FireAsync
  <2>11. QED
    BY <2>2, <2>3, <2>4, <2>5, <2>6, <2>7, <2>8, <2>9, <2>10 DEF Next, Run
<1>4. QED
  BY <1>1, <1>2, <1>3, TypeCorrect, PTL DEF Spec, WaitEntryResumes

-----------------------------------------------------------------------------
(* Deferred coroutines stand in one line.                                   *)

\* the places are numbers
LEMMA PlaceType ==
  ASSUME TypeOK
  PROVE  /\ Len(rx) \in Nat /\ Len(deferred_queue) \in Nat
         /\ \A i \in 0..Len(rx) :
              /\ IsFiniteSet(DeferralsUpTo(i))
              /\ Cardinality(DeferralsUpTo(i)) \in Nat
              /\ Place(i) \in Nat
<1>1. Len(rx) \in Nat /\ Len(deferred_queue) \in Nat
  BY DEF TypeOK
<1>2. ASSUME NEW i \in 0..Len(rx)
      PROVE  IsFiniteSet(DeferralsUpTo(i)) /\ Cardinality(DeferralsUpTo(i)) \in Nat
  <2>1. IsFiniteSet(1..i)
    BY <1>1, FS_Interval
  <2>2. DeferralsUpTo(i) \in SUBSET (1..i)
    BY DEF DeferralsUpTo
  <2>3. IsFiniteSet(DeferralsUpTo(i))
    BY <2>1, <2>2, FS_Subset
  <2> QED
    BY <2>3, FS_CardinalityType
<1>3. ASSUME NEW i \in 0..Len(rx) PROVE Place(i) \in Nat
  BY <1>1, <1>2 DEF Place
<1> QED
  BY <1>1, <1>2, <1>3

(* An event at the back of the channel leaves the places of the others.     *)
LEMMA PlaceAppend ==
  ASSUME TypeOK, NEW event \in Event, rx' = Append(rx, event), UNCHANGED deferred_queue
  PROVE  /\ Len(rx') = Len(rx) + 1 /\ rx'[Len(rx) + 1] = event
         /\ \A i \in 1..Len(rx) : rx'[i] = rx[i]
         /\ \A i \in 0..Len(rx) :
              DeferralsUpTo(i)' = DeferralsUpTo(i) /\ Place(i)' = Place(i)
         /\ IF event.op = "DeferredThread"
            THEN /\ DeferralsUpTo(Len(rx))' = DeferralsUpTo(Len(rx)) \cup {Len(rx) + 1}
                 /\ Place(Len(rx))' = Place(Len(rx)) + 1
            ELSE DeferralsUpTo(Len(rx))' = DeferralsUpTo(Len(rx))
<1>1. PICK n \in Nat : n = Len(rx)
  BY DEF TypeOK
<1>2. /\ Len(rx') = n + 1 /\ rx'[n + 1] = event
      /\ \A i \in 1..n : rx'[i] = rx[i]
  BY <1>1 DEF TypeOK
<1>3. \A i \in 0..n : DeferralsUpTo(i)' = DeferralsUpTo(i)
  BY <1>2 DEF DeferralsUpTo
<1>4. DeferralsUpTo(Len(rx))' = IF event.op = "DeferredThread"
                                THEN DeferralsUpTo(n) \cup {n + 1} ELSE DeferralsUpTo(n)
  BY <1>2 DEF DeferralsUpTo
<1>5. n + 1 \notin DeferralsUpTo(n) /\ IsFiniteSet(DeferralsUpTo(n))
  BY <1>1, PlaceType DEF DeferralsUpTo
<1>6. Cardinality(DeferralsUpTo(n) \cup {n + 1}) = Cardinality(DeferralsUpTo(n)) + 1
  BY <1>5, FS_AddElement
<1>7. \A i \in 0..n : Place(i)' = Place(i)
  BY <1>3 DEF Place
<1>8. ASSUME event.op = "DeferredThread" PROVE Place(Len(rx))' = Place(n) + 1
  <2>1. Place(Len(rx))' = Len(deferred_queue) + (Cardinality(DeferralsUpTo(n)) + 1)
    BY <1>4, <1>6, <1>8 DEF Place
  <2>2. Cardinality(DeferralsUpTo(n)) \in Nat /\ Len(deferred_queue) \in Nat
    BY <1>1, PlaceType
  <2> QED
    BY <2>1, <2>2 DEF Place
<1> QED
  BY <1>1, <1>2, <1>3, <1>4, <1>7, <1>8

(* An event taken from the front of the channel: the others move by one     *)
(* position, and by one place if it was one that defers a coroutine.        *)
LEMMA PlaceTail ==
  ASSUME TypeOK, rx # <<>>, rx' = Tail(rx)
  PROVE  /\ Len(rx) > 0 /\ Len(rx') = Len(rx) - 1 /\ Head(rx) = rx[1]
         /\ \A i \in 1..(Len(rx) - 1) : rx'[i] = rx[i + 1]
         /\ \A i \in 1..Len(rx) :
              i \in DeferralsUpTo(Len(rx)) /\ i # 1 <=> i - 1 \in DeferralsUpTo(Len(rx))'
         /\ \A i \in 1..Len(rx) :
              /\ Cardinality(DeferralsUpTo(i - 1)') \in Nat
              /\ Cardinality(DeferralsUpTo(i)) =
                   Cardinality(DeferralsUpTo(i - 1)')
                     + (IF Head(rx).op = "DeferredThread" THEN 1 ELSE 0)
<1>1. /\ Len(rx) \in Nat /\ Len(rx) > 0 /\ Len(rx') = Len(rx) - 1 /\ Head(rx) = rx[1]
      /\ \A i \in 1..(Len(rx) - 1) : rx'[i] = rx[i + 1]
  BY DEF TypeOK
<1>2. ASSUME NEW i \in 1..Len(rx), NEW j \in 1..i
      PROVE  j \in DeferralsUpTo(i) /\ j # 1 <=> j - 1 \in DeferralsUpTo(i - 1)'
  BY <1>1 DEF DeferralsUpTo
<1>3. ASSUME NEW i \in 1..Len(rx)
      PROVE  i \in DeferralsUpTo(Len(rx)) /\ i # 1 <=> i - 1 \in DeferralsUpTo(Len(rx))'
  BY <1>1 DEF DeferralsUpTo
<1>4. ASSUME NEW i \in 1..Len(rx)
      PROVE  /\ Cardinality(DeferralsUpTo(i - 1)') \in Nat
             /\ Cardinality(DeferralsUpTo(i)) =
                  Cardinality(DeferralsUpTo(i - 1)')
                    + (IF Head(rx).op = "DeferredThread" THEN 1 ELSE 0)
  <2> DEFINE S == DeferralsUpTo(i) \ {1}
             T == DeferralsUpTo(i - 1)'
             f == [j \in S |-> j - 1]
  <2>1. S \subseteq 1..i /\ T \subseteq 1..(i - 1) /\ 1 \notin S
    BY DEF DeferralsUpTo
  <2>2. \A j \in S : j - 1 \in T
    BY <1>2, <2>1
  <2>3. \A k \in T : k + 1 \in S /\ (k + 1) - 1 = k
    BY <1>1, <1>2, <2>1 DEF DeferralsUpTo
  <2>4. f \in Bijection(S, T)
    <3>1. f \in [S -> T]
      BY <2>2
    <3>2. \A j, k \in S : f[j] = f[k] => j = k
      BY <2>1
    <3>3. \A k \in T : \E j \in S : f[j] = k
      BY <2>3
    <3> QED
      BY <3>1, <3>2, <3>3 DEF Bijection, Injection, Surjection, IsInjective
  <2>5. IsFiniteSet(DeferralsUpTo(i)) /\ Cardinality(DeferralsUpTo(i)) \in Nat
    BY <1>1, PlaceType
  <2>6. /\ IsFiniteSet(S)
        /\ Cardinality(S) = IF 1 \in DeferralsUpTo(i) THEN Cardinality(DeferralsUpTo(i)) - 1
                                                      ELSE Cardinality(DeferralsUpTo(i))
        /\ Cardinality(S) \in Nat
    BY <2>5, FS_RemoveElement, FS_CardinalityType
  <2>7. Cardinality(T) = Cardinality(S)
    BY <2>4, <2>6, FS_Bijection DEF ExistsBijection
  <2>8. 1 \in DeferralsUpTo(i) <=> Head(rx).op = "DeferredThread"
    BY <1>1 DEF DeferralsUpTo
  <2> QED
    BY <2>5, <2>6, <2>7, <2>8
<1> QED
  BY <1>1, <1>3, <1>4

InFront == {<<i, deferred_queue[i]>> : i \in 1..Len(deferred_queue)}
Behind  == {<<Place(i), rx[i].thread>> : i \in DeferralsUpTo(Len(rx))}

(* What a step may do to the line.                                          *)
LineStep ==
  \/ Line' = Line
  \/ \E t \in Thread : Line' = Line \cup {<<Place(Len(rx)) + 1, t>>}
  \/ Line # {} /\ Line' = {<<p[1] - 1, p[2]>> : p \in {q \in Line : q[1] > 1}}
  \/ pc' \in {"drain", "exited"}

LEMMA LineFrame == UNCHANGED <<rx, deferred_queue>> => LineStep
BY DEF LineStep, Line, Place, DeferralsUpTo

\* task.defer sends a coroutine to the end of the line, other calls nobody
LEMMA LinePush ==
  ASSUME TypeOK, NEW event \in Event, PushEvent(event), UNCHANGED deferred_queue
  PROVE  LineStep
<1>1. CASE rx' = Append(rx, event)
  <2>1. PICK n \in Nat : n = Len(rx)
    BY DEF TypeOK
  <2>2. /\ \A i \in 1..n : rx'[i] = rx[i] /\ Place(i)' = Place(i)
        /\ rx'[n + 1] = event
        /\ IF event.op = "DeferredThread"
           THEN /\ DeferralsUpTo(Len(rx))' = DeferralsUpTo(n) \cup {n + 1}
                /\ Place(n + 1)' = Place(n) + 1
           ELSE DeferralsUpTo(Len(rx))' = DeferralsUpTo(n)
    <3>1. \A i \in 1..n : rx'[i] = rx[i] /\ Place(i)' = Place(i)
      BY <1>1, <2>1, PlaceAppend
    <3>2. Len(rx') = n + 1 /\ rx'[n + 1] = event
      BY <1>1, <2>1, PlaceAppend
    <3>3. Place(Len(rx))' = Place(n + 1)'
      BY <3>2
    <3> QED
      BY <1>1, <2>1, <3>1, <3>2, <3>3, PlaceAppend
  <2>3. DeferralsUpTo(n) \subseteq 1..n
    BY DEF DeferralsUpTo
  <2>4. InFront' = InFront
    BY DEF InFront
  <2>5. CASE event.op # "DeferredThread"
    <3>1. Behind' = Behind
      BY <2>1, <2>2, <2>3, <2>5 DEF Behind
    <3> QED
      BY <2>4, <3>1 DEF LineStep, Line, InFront, Behind
  <2>6. CASE event.op = "DeferredThread"
    <3>1. Behind' = Behind \cup {<<Place(n) + 1, event.thread>>}
      BY <2>1, <2>2, <2>3, <2>6 DEF Behind
    <3>2. event.thread \in Thread
      BY <2>6 DEF Event
    <3> QED
      BY <2>1, <2>4, <3>1, <3>2 DEF LineStep, Line, InFront, Behind
  <2> QED
    BY <2>5, <2>6
<1>2. CASE UNCHANGED rx
  BY <1>2, LineFrame
<1> QED
  BY <1>1, <1>2 DEF PushEvent

(* An event that defers a coroutine goes from the front of the channel to   *)
(* the end of the deferred queue; another event leaves the line.            *)
LEMMA LineReceive ==
  ASSUME TypeOK, rx # <<>>, rx' = Tail(rx),
         deferred_queue' = IF Head(rx).op = "DeferredThread"
                           THEN Append(deferred_queue, Head(rx).thread)
                           ELSE deferred_queue
  PROVE  Line' = Line
<1> DEFINE deferral == Head(rx).op = "DeferredThread"
           one      == IF deferral THEN 1 ELSE 0
<1>1. PICK n \in Nat, m \in Nat : n = Len(rx) /\ m = Len(deferred_queue)
  BY DEF TypeOK
<1>2. /\ n > 0 /\ Len(rx') = n - 1 /\ Head(rx) = rx[1]
      /\ \A i \in 1..(n - 1) : rx'[i] = rx[i + 1]
      /\ \A i \in 1..n : i \in DeferralsUpTo(n) /\ i # 1 <=> i - 1 \in DeferralsUpTo(Len(rx))'
  BY <1>1, PlaceTail
<1>3. Len(deferred_queue') = m + one
  <2>1. CASE deferral
    <3>1. Head(rx).thread \in Thread
      BY <1>1, <1>2, <2>1 DEF TypeOK, Event
    <3> QED
      BY <1>1, <2>1, <3>1 DEF TypeOK
  <2>2. CASE ~deferral
    BY <1>1, <2>2
  <2> QED
    BY <2>1, <2>2
<1>4. \A i \in 1..n : Place(i) = Place(i - 1)'
  <2>1. \A i \in 1..n : /\ Cardinality(DeferralsUpTo(i - 1)') \in Nat
                        /\ Cardinality(DeferralsUpTo(i)) = Cardinality(DeferralsUpTo(i - 1)') + one
    BY <1>1, PlaceTail
  <2>2. ASSUME NEW i \in 1..n PROVE Place(i) = Place(i - 1)'
    <3>1. PICK c \in Nat : c = Cardinality(DeferralsUpTo(i - 1)')
      BY <2>1
    <3>2. PICK k \in Nat : k = one
      OBVIOUS
    <3>3. Place(i) = m + (c + k)
      BY <1>1, <2>1, <3>1, <3>2 DEF Place
    <3>4. Place(i - 1)' = (m + k) + c
      BY <1>3, <3>1, <3>2 DEF Place
    <3> HIDE DEF one
    <3> QED
      BY <3>3, <3>4
  <2> QED
    BY <2>2
<1>5. DeferralsUpTo(n) \subseteq 1..n /\ (1 \in DeferralsUpTo(n) <=> deferral)
  BY <1>1, <1>2 DEF DeferralsUpTo
<1>6. Behind' = {<<Place(i), rx[i].thread>> : i \in DeferralsUpTo(n) \ {1}}
  <2>1. ASSUME NEW i \in DeferralsUpTo(n) \ {1}
        PROVE  /\ i - 1 \in DeferralsUpTo(Len(rx))'
               /\ <<Place(i - 1)', rx'[i - 1].thread>> = <<Place(i), rx[i].thread>>
    BY <1>2, <1>4, <1>5
  <2>2. ASSUME NEW j \in DeferralsUpTo(Len(rx))'
        PROVE  /\ j + 1 \in DeferralsUpTo(n) \ {1}
               /\ <<Place(j)', rx'[j].thread>> = <<Place(j + 1), rx[j + 1].thread>>
    <3>1. j \in 1..(n - 1)
      BY <1>2 DEF DeferralsUpTo
    <3> QED
      BY <1>2, <1>4, <3>1
  <2> DEFINE rest == {<<Place(i), rx[i].thread>> : i \in DeferralsUpTo(n) \ {1}}
  <2>3. ASSUME NEW p \in rest PROVE p \in Behind'
    <3>1. PICK i \in DeferralsUpTo(n) \ {1} : p = <<Place(i), rx[i].thread>>
      OBVIOUS
    <3>2. i - 1 \in DeferralsUpTo(Len(rx))' /\ p = <<Place(i - 1)', rx'[i - 1].thread>>
      BY <2>1, <3>1
    <3> QED
      BY <3>2 DEF Behind
  <2>4. ASSUME NEW p \in Behind' PROVE p \in rest
    <3>1. PICK j \in DeferralsUpTo(Len(rx))' : p = <<Place(j)', rx'[j].thread>>
      BY DEF Behind
    <3>2. j + 1 \in DeferralsUpTo(n) \ {1} /\ p = <<Place(j + 1), rx[j + 1].thread>>
      BY <2>2, <3>1
    <3> QED
      BY <3>2
  <2> QED
    BY <2>3, <2>4
<1>7. CASE deferral
  <2>1. Place(1) = m + 1
    <3>1. DeferralsUpTo(0)' = {}
      BY DEF DeferralsUpTo
    <3>2. Cardinality(DeferralsUpTo(0)') = 0
      BY <3>1, FS_EmptySet
    <3>3. Cardinality(DeferralsUpTo(1)) = Cardinality(DeferralsUpTo(1 - 1)') + 1
      BY <1>1, <1>2, <1>7, PlaceTail
    <3> QED
      BY <1>1, <3>2, <3>3 DEF Place
  <2>2. InFront' = InFront \cup {<<m + 1, rx[1].thread>>}
    <3>1. rx[1].thread \in Thread
      BY <1>1, <1>2, <1>7 DEF TypeOK, Event
    <3>2. /\ Len(deferred_queue') = m + 1 /\ deferred_queue'[m + 1] = rx[1].thread
          /\ \A i \in 1..m : deferred_queue'[i] = deferred_queue[i]
      BY <1>1, <1>2, <1>7, <3>1 DEF TypeOK
    <3> QED
      BY <1>1, <3>2 DEF InFront
  <2>3. Behind = {<<Place(1), rx[1].thread>>} \cup Behind'
    BY <1>1, <1>5, <1>6, <1>7 DEF Behind
  <2> QED
    BY <2>1, <2>2, <2>3 DEF Line, InFront, Behind
<1>8. CASE ~deferral
  <2>1. Behind' = Behind
    BY <1>1, <1>5, <1>6, <1>8 DEF Behind
  <2>2. InFront' = InFront
    BY <1>8 DEF InFront
  <2> QED
    BY <2>1, <2>2 DEF Line, InFront, Behind
<1> QED
  BY <1>7, <1>8

\* the one in front is taken, and the others move on by one place
LEMMA LineTake ==
  ASSUME TypeOK, deferred_queue # <<>>, deferred_queue' = Tail(deferred_queue), UNCHANGED rx
  PROVE  Line # {} /\ Line' = {<<p[1] - 1, p[2]>> : p \in {q \in Line : q[1] > 1}}
<1>1. PICK m \in Nat : m = Len(deferred_queue)
  BY DEF TypeOK
<1>2. /\ m > 0 /\ Len(deferred_queue') = m - 1
      /\ \A i \in 1..(m - 1) : deferred_queue'[i] = deferred_queue[i + 1]
  BY <1>1 DEF TypeOK
<1>3. DeferralsUpTo(Len(rx))' = DeferralsUpTo(Len(rx)) /\ DeferralsUpTo(Len(rx)) \subseteq 1..Len(rx)
  BY DEF DeferralsUpTo
<1>4. ASSUME NEW i \in DeferralsUpTo(Len(rx))
      PROVE  Place(i) > 1 /\ Place(i) \in Nat /\ Place(i)' = Place(i) - 1
  <2>1. /\ Len(rx) \in Nat /\ i \in 1..Len(rx)
        /\ IsFiniteSet(DeferralsUpTo(i)) /\ Cardinality(DeferralsUpTo(i)) \in Nat
    BY <1>3, PlaceType
  <2>2. i \in DeferralsUpTo(i)
    BY <2>1 DEF DeferralsUpTo
  <2>3. Cardinality(DeferralsUpTo(i)) # 0
    BY <2>1, <2>2, FS_EmptySet
  <2>4. DeferralsUpTo(i)' = DeferralsUpTo(i)
    BY DEF DeferralsUpTo
  <2> QED
    BY <1>1, <1>2, <2>1, <2>3, <2>4 DEF Place
<1>5. Line # {}
  <2>1. <<1, deferred_queue[1]>> \in Line
    BY <1>1, <1>2 DEF Line
  <2> QED
    BY <2>1
<1>6. InFront' = {<<p[1] - 1, p[2]>> : p \in {q \in InFront : q[1] > 1}}
  <2>1. ASSUME NEW i \in 1..m, i > 1
        PROVE  i - 1 \in 1..(m - 1) /\ deferred_queue'[i - 1] = deferred_queue[i]
    BY <1>2, <2>1
  <2>2. ASSUME NEW i \in 1..(m - 1)
        PROVE  i + 1 \in 1..m /\ i + 1 > 1 /\ (i + 1) - 1 = i
               /\ deferred_queue'[i] = deferred_queue[i + 1]
    BY <1>2
  <2> DEFINE moved == {<<p[1] - 1, p[2]>> : p \in {q \in InFront : q[1] > 1}}
  <2>3. ASSUME NEW p \in moved PROVE p \in InFront'
    <3>1. PICK i \in 1..m : i > 1 /\ p = <<i - 1, deferred_queue[i]>>
      BY <1>1 DEF InFront
    <3> QED
      BY <1>2, <2>1, <3>1 DEF InFront
  <2>4. ASSUME NEW p \in InFront' PROVE p \in moved
    <3>1. PICK i \in 1..(m - 1) : p = <<i, deferred_queue'[i]>>
      BY <1>2 DEF InFront
    <3>2. /\ <<i + 1, deferred_queue[i + 1]>> \in InFront /\ i + 1 > 1
          /\ p = <<(i + 1) - 1, deferred_queue[i + 1]>>
      BY <1>1, <2>2, <3>1 DEF InFront
    <3> QED
      BY <3>2
  <2> QED
    BY <2>3, <2>4
<1>7. Behind' = {<<p[1] - 1, p[2]>> : p \in {q \in Behind : q[1] > 1}}
  <2> DEFINE moved == {<<p[1] - 1, p[2]>> : p \in {q \in Behind : q[1] > 1}}
  <2>1. \A i \in DeferralsUpTo(Len(rx)) :
          <<Place(i), rx[i].thread>> \in {q \in Behind : q[1] > 1}
    BY <1>4 DEF Behind
  <2>2. ASSUME NEW p \in Behind' PROVE p \in moved
    <3>1. PICK i \in DeferralsUpTo(Len(rx)) : p = <<Place(i)', rx[i].thread>>
      BY <1>3 DEF Behind
    <3>2. p = <<Place(i) - 1, rx[i].thread>>
      BY <1>4, <3>1
    <3>3. PICK q \in {q \in Behind : q[1] > 1} : q = <<Place(i), rx[i].thread>>
      BY <2>1
    <3>4. p = <<q[1] - 1, q[2]>>
      BY <3>2, <3>3
    <3> QED
      BY <3>4
  <2>3. ASSUME NEW p \in moved PROVE p \in Behind'
    <3>1. PICK i \in DeferralsUpTo(Len(rx)) : p = <<Place(i) - 1, rx[i].thread>>
      BY DEF Behind
    <3>2. p = <<Place(i)', rx'[i].thread>>
      BY <1>4, <3>1
    <3> QED
      BY <1>3, <3>2 DEF Behind
  <2> QED
    BY <2>2, <2>3
<1> QED
  BY <1>5, <1>6, <1>7 DEF Line, InFront, Behind

(* Deferred coroutines get their turn in the order of the task.defer calls, *)
(* although their entries travel over two channels one after the other and  *)
(* other events travel with them: nobody overtakes in the one line that the *)
(* channels make, and nobody drops out of it, until the loop ends.          *)
THEOREM DeferredInOrderCorrect == Spec => DeferredInOrder
<1>1. TypeOK /\ [Next]_vars => LineStep
  <2> SUFFICES ASSUME TypeOK, [Next]_vars PROVE LineStep
    OBVIOUS
  <2> USE DEF locals
  <2>1. ASSUME UNCHANGED <<rx, deferred_queue>> PROVE LineStep
    BY <2>1, LineFrame
  <2>2. ASSUME NEW event \in Event, PushEvent(event), UNCHANGED deferred_queue PROVE LineStep
    BY <2>2, LinePush
  <2>3. ASSUME NEW t \in Thread, TaskSpawn(t) \/ TaskCancel(t) \/ CoroutineClose(t)
               \/ Collect(t) PROVE LineStep
    BY <2>1, <2>3 DEF TaskSpawn, TaskCancel, CoroutineClose, Collect
  <2>4. ASSUME NEW t \in Thread, TaskDelay(t) \/ TaskDefer(t) PROVE LineStep
    BY <2>2, <2>4, EventType DEF TaskDelay, TaskDefer
  <2>5. CASE TaskWait \/ CallAsync \/ Clear
    BY <2>2, <2>5, EventType DEF TaskWait, CallAsync, Clear, TypeOK, CoroutineType
  <2>6. CASE CoroutineYield \/ CoroutineEnds \/ Stop \/ Unstop \/ DropLua
    BY <2>1, <2>6 DEF CoroutineYield, CoroutineEnds, Stop, Unstop, DropLua
  <2>7. CASE RunInTask \/ RunPanics \/ RunStarts \/ TopSelects
    BY <2>1, <2>7 DEF RunInTask, RunPanics, RunStarts, TopSelects
  <2>8. CASE RunRefused \/ TopReturns \/ ArmReturns \/ RecvDeferredPanics \/ RecvClear
    BY <2>8 DEF RunRefused, TopReturns, ArmReturns, RecvDeferredPanics, RecvClear, Return,
                Dropped, LineStep
  <2>9. CASE RecvWait \/ RecvDeferred \/ RecvAsync
    BY <2>9, LineReceive DEF RecvWait, RecvDeferred, RecvAsync, Receive, AddDeferred, LineStep
  <2>10. ASSUME NEW e \in wait_queue, SkipWait(e) \/ FireWait(e) PROVE LineStep
    BY <2>1, <2>10 DEF SkipWait, FireWait
  <2>11. CASE SkipDeferred \/ DropDeferred \/ FireDeferred
    BY <2>11, LineTake DEF SkipDeferred, DropDeferred, FireDeferred, TakeDeferred, LineStep
  <2>12. ASSUME NEW t \in Thread, FireAsync(t) PROVE LineStep
    BY <2>1, <2>12 DEF FireAsync
  <2>13. CASE AfterResume \/ Bottom \/ UNCHANGED vars
    BY <2>1, <2>13 DEF AfterResume, Bottom, vars
  <2> QED
    BY <2>3, <2>4, <2>5, <2>6, <2>7, <2>8, <2>9, <2>10, <2>11, <2>12, <2>13
    DEF Next, Environment, Run
<1>2. TypeOK /\ [Next]_vars => [LineStep]_<<rx, deferred_queue>>
  BY <1>1
<1> QED
  BY <1>2, TypeCorrect, PTL DEF Spec, DeferredInOrder, LineStep

-----------------------------------------------------------------------------
(* A parked loop with nothing to do has set done, if nobody cancels.        *)

\* wherever the loop may park or has not started
ParkedInv ==
  /\ cancel = {}
  /\ pc \in {"idle", "top", "select"} /\ NothingPending => done

(* An action that leaves the queues, done and cancel alone and moves the    *)
(* run() future among the places named above only.                          *)
LEMMA ParkedFrame ==
  ASSUME ParkedInv, UNCHANGED <<rx, done, cancel, wait_queue, deferred_queue, async_queue>>,
         pc' \in {"idle", "top", "select"} => pc \in {"idle", "top", "select"}
  PROVE  ParkedInv'
BY DEF ParkedInv, NothingPending, NoAsyncs

\* an action that ends at a place where done is not promised
LEMMA ParkedElsewhere ==
  ASSUME cancel' = {}, pc' \notin {"idle", "top", "select"}
  PROVE  ParkedInv'
BY DEF ParkedInv

\* push_event leaves an event in the channel unless run() has returned
LEMMA ParkedPush ==
  ASSUME ParkedInv, rx \in Seq(Event), NEW event \in Event, PushEvent(event),
         UNCHANGED <<pc, cancel>>
  PROVE  ParkedInv'
<1>1. pc # "exited" => rx' # <<>>
  BY DEF PushEvent
<1>2. QED
  BY <1>1 DEF ParkedInv, NothingPending

LEMMA ParkedInductive ==
  ASSUME "cancel" \notin Calls, TypeOK, ParkedInv, [Next]_vars
  PROVE  ParkedInv'
<1> USE DEF locals, flags, control, coroutine
<1>1. cancel = {} /\ rx \in Seq(Event) /\ current \in Thread \cup {NoThread}
  BY DEF ParkedInv, TypeOK, CoroutineType
<1>2. ASSUME NEW t \in Thread, TaskSpawn(t) \/ TaskCancel(t) \/ CoroutineClose(t) \/ Collect(t)
      PROVE ParkedInv'
  BY <1>2, ParkedFrame DEF TaskSpawn, TaskCancel, CoroutineClose, Collect
<1>3. ASSUME NEW t \in Thread, TaskDelay(t) \/ TaskDefer(t) PROVE ParkedInv'
  BY <1>1, <1>3, EventType, ParkedPush DEF TaskDelay, TaskDefer
<1>4. CASE TaskWait \/ CallAsync \/ Clear
  BY <1>1, <1>4, EventType, ParkedPush DEF TaskWait, CallAsync, Clear
<1>5. CASE CoroutineYield \/ CoroutineEnds \/ Stop \/ Unstop \/ DropLua
  BY <1>5, ParkedFrame DEF CoroutineYield, CoroutineEnds, Stop, Unstop, DropLua
<1>6. CASE RunInTask \/ RunPanics \/ RunStarts \/ TopSelects
  BY <1>6, ParkedFrame DEF RunInTask, RunPanics, RunStarts, TopSelects
<1>7. CASE RunRefused \/ TopReturns \/ ArmReturns \/ RecvDeferredPanics \/ RecvClear
  BY <1>1, <1>7, ParkedElsewhere DEF RunRefused, TopReturns, ArmReturns, RecvDeferredPanics,
                                     RecvClear, Return, Dropped
<1>8. CASE RecvWait \/ RecvDeferred \/ RecvAsync
  BY <1>1, <1>8, ParkedElsewhere DEF RecvWait, RecvDeferred, RecvAsync
<1>9. ASSUME NEW e \in wait_queue, SkipWait(e) \/ FireWait(e) PROVE ParkedInv'
  BY <1>1, <1>9, ParkedElsewhere DEF SkipWait, FireWait, Cancelled
<1>10. CASE SkipDeferred \/ DropDeferred \/ FireDeferred
  BY <1>1, <1>10, ParkedElsewhere DEF SkipDeferred, DropDeferred, FireDeferred, Cancelled
<1>11. ASSUME NEW t \in Thread, FireAsync(t) PROVE ParkedInv'
  BY <1>1, <1>11, ParkedElsewhere DEF FireAsync
<1>12. CASE AfterResume
  BY <1>1, <1>12, ParkedElsewhere DEF AfterResume
<1>13. CASE Bottom
  BY <1>1, <1>13 DEF Bottom, ParkedInv, NothingPending, NoAsyncs
<1>14. CASE UNCHANGED vars
  BY <1>14, ParkedFrame DEF vars
<1>15. QED
  BY <1>2, <1>3, <1>4, <1>5, <1>6, <1>7, <1>8, <1>9, <1>10, <1>11, <1>12, <1>13, <1>14
  DEF Next, Environment, Run

(* In a program that never calls task.cancel, a loop parked in select! with *)
(* nothing to do has set done, so that wait_till_done returns.              *)
THEOREM IdleMeansDoneCorrect ==
  ASSUME "cancel" \notin Calls
  PROVE  Spec => []IdleMeansDone
<1>1. Init => ParkedInv
  BY DEF Init, ParkedInv
<1>2. TypeOK /\ ParkedInv /\ [Next]_vars => ParkedInv'
  BY ParkedInductive
<1>3. ParkedInv => IdleMeansDone
  BY DEF ParkedInv, IdleMeansDone, AtSelect
<1>4. QED
  BY <1>1, <1>2, <1>3, TypeCorrect, PTL DEF Spec
-----------------------------------------------------------------------------
(* What keeps the two defects of cancelling and deferring away.             *)

(* In a program that never calls task.cancel, a coroutine in task.wait      *)
(* always has the entry that wakes it: the marks that task.cancel leaves on *)
(* running coroutines are all that v2_cancel_running needs.                 *)
THEOREM EveryWaiterHasEntryCorrect ==
  ASSUME "cancel" \notin Calls
  PROVE  Spec => []EveryWaiterHasEntry
<1>1. Init => ForgottenInv
  BY DEF Init, CoroutineInit, ForgottenInv, NobodyForgotten, MarksTargeted
<1>2. TypeOK /\ ForgottenInv /\ [Next]_vars => ForgottenInv'
  BY ForgottenInductive DEF MarksMeetTheirOwn
<1>3. ForgottenInv => EveryWaiterHasEntry
  BY DEF ForgottenInv, MarksTargeted, NobodyForgotten, EveryWaiterHasEntry
<1>4. QED
  BY <1>1, <1>2, <1>3, TypeCorrect, PTL DEF Spec

(* A program that defers a coroutine only when it is not in line already.   *)
DefersOnce == [][\A t \in Thread : TaskDefer(t) => ~Deferred(t)]_vars

(* Nobody stands in the deferred queue twice, everybody in it is known, and *)
(* the coroutine that is being resumed is not in it once more.              *)
QueueOnce ==
  /\ \A i, j \in DOMAIN deferred_queue : deferred_queue[i] = deferred_queue[j] => i = j
  /\ \A i \in DOMAIN deferred_queue : deferred_queue[i] \in known_deferred_threads
  /\ firing.arm = "deferred" =>
       \A i \in DOMAIN deferred_queue : deferred_queue[i] # firing.thread

(* The same of those in line in the event channel.                          *)
ChannelOnce ==
  \A i \in 1..Len(rx) : rx[i].op = "DeferredThread" =>
    /\ \A j \in 1..Len(rx) :
         rx[j].op = "DeferredThread" /\ rx[j].thread = rx[i].thread => j = i
    /\ \A j \in DOMAIN deferred_queue : deferred_queue[j] # rx[i].thread

OnceInv == QueueOnce /\ ChannelOnce

LEMMA OnceFrame ==
  ASSUME OnceInv, UNCHANGED <<rx, deferred_queue, known_deferred_threads>>,
         UNCHANGED firing \/ firing'.arm # "deferred"
  PROVE  OnceInv'
BY DEF OnceInv, QueueOnce, ChannelOnce

\* what Tail does to the event channel
LEMMA ChannelTail ==
  ASSUME rx \in Seq(Event), rx # <<>>, rx' = Tail(rx)
  PROVE  /\ 1 \in 1..Len(rx) /\ Head(rx) = rx[1]
         /\ \A i \in 1..Len(rx') : /\ i \in Nat /\ i + 1 \in 1..Len(rx) /\ i + 1 # 1
                                   /\ rx'[i] = rx[i + 1]
<1>1. PICK n \in Nat : n = Len(rx)
  OBVIOUS
<1>2. n > 0 /\ Len(rx') = n - 1 /\ Head(rx) = rx[1] /\ \A i \in 1..(n - 1) : rx'[i] = rx[i + 1]
  BY <1>1
<1> QED
  BY <1>1, <1>2

\* the event channel moves on, or is gone, and the deferred queue stays or is emptied
LEMMA OnceReceiveOther ==
  ASSUME TypeOK, OnceInv, rx' = <<>> \/ (rx # <<>> /\ rx' = Tail(rx)),
         \/ UNCHANGED <<deferred_queue, known_deferred_threads, firing>>
         \/ deferred_queue' = <<>>
  PROVE  OnceInv'
<1>1. QueueOnce'
  BY DEF OnceInv, QueueOnce
<1>2. \A j \in DOMAIN deferred_queue' :
        j \in DOMAIN deferred_queue /\ deferred_queue'[j] = deferred_queue[j]
  OBVIOUS
<1>3. CASE rx' = <<>>
  BY <1>1, <1>3 DEF OnceInv, ChannelOnce
<1>4. CASE rx # <<>> /\ rx' = Tail(rx)
  <2>1. \A i \in 1..Len(rx') : i \in Nat /\ i + 1 \in 1..Len(rx) /\ rx'[i] = rx[i + 1]
    BY <1>4, ChannelTail DEF TypeOK
  <2>2. ASSUME NEW i \in 1..Len(rx'), rx'[i].op = "DeferredThread"
        PROVE  /\ \A j \in 1..Len(rx') :
                    rx'[j].op = "DeferredThread" /\ rx'[j].thread = rx'[i].thread => j = i
               /\ \A j \in DOMAIN deferred_queue' : deferred_queue'[j] # rx'[i].thread
    <3>1. ASSUME NEW j \in 1..Len(rx'),
                 rx'[j].op = "DeferredThread", rx'[j].thread = rx'[i].thread
          PROVE  j = i
      <4>1. j + 1 = i + 1
        BY <2>1, <2>2, <3>1 DEF OnceInv, ChannelOnce
      <4> QED
        BY <2>1, <4>1
    <3>2. \A j \in DOMAIN deferred_queue : deferred_queue[j] # rx'[i].thread
      BY <2>1, <2>2 DEF OnceInv, ChannelOnce
    <3>3. \A j \in DOMAIN deferred_queue' : deferred_queue'[j] # rx'[i].thread
      BY <1>2, <3>2
    <3> QED
      BY <3>1, <3>3
  <2> QED
    BY <1>1, <2>2 DEF OnceInv, ChannelOnce
<1> QED
  BY <1>3, <1>4

\* who is in the channel or in the queue is in line
LEMMA InLine ==
  ASSUME TypeOK, NEW t \in Thread, ~Deferred(t)
  PROVE  /\ \A i \in 1..Len(rx) : rx[i].op = "DeferredThread" => rx[i].thread # t
         /\ \A j \in DOMAIN deferred_queue : deferred_queue[j] # t
<1>1. ASSUME NEW i \in 1..Len(rx), rx[i].op = "DeferredThread", rx[i].thread = t PROVE FALSE
  <2>1. <<Place(i), t>> \in Line
    BY <1>1 DEF Line, DeferralsUpTo
  <2> QED
    BY <2>1 DEF Deferred
<1>2. ASSUME NEW j \in DOMAIN deferred_queue, deferred_queue[j] = t PROVE FALSE
  <2>1. <<j, t>> \in Line
    BY <1>2 DEF Line, TypeOK
  <2> QED
    BY <2>1 DEF Deferred
<1> QED
  BY <1>1, <1>2

\* task.defer of a coroutine that is not in line, and any other call
LEMMA OncePush ==
  ASSUME TypeOK, OnceInv, NEW event \in Event, PushEvent(event),
         event.op = "DeferredThread" => ~Deferred(event.thread),
         UNCHANGED <<deferred_queue, known_deferred_threads, firing>>
  PROVE  OnceInv'
<1>1. CASE rx' = Append(rx, event)
  <2>1. PICK n \in Nat : n = Len(rx)
    BY DEF TypeOK
  <2>2. /\ Len(rx') = n + 1 /\ rx'[n + 1] = event
        /\ \A i \in 1..n : rx'[i] = rx[i]
    BY <1>1, <2>1 DEF TypeOK
  <2>3. event.op = "DeferredThread" =>
          /\ \A i \in 1..n : rx[i].op = "DeferredThread" => rx[i].thread # event.thread
          /\ \A j \in DOMAIN deferred_queue : deferred_queue[j] # event.thread
    BY <2>1, InLine DEF Event
  <2>4. QueueOnce'
    BY DEF OnceInv, QueueOnce
  <2>5. ChannelOnce'
    BY <2>1, <2>2, <2>3 DEF OnceInv, ChannelOnce
  <2> QED
    BY <2>4, <2>5 DEF OnceInv
<1>2. CASE UNCHANGED rx
  BY <1>2, OnceFrame
<1> QED
  BY <1>1, <1>2 DEF PushEvent

\* an event that defers a coroutine moves it into the queue, where it is known
LEMMA OnceReceive ==
  ASSUME TypeOK, OnceInv, rx # <<>>, rx' = Tail(rx), firing'.arm # "deferred",
         Head(rx).op = "DeferredThread",
         deferred_queue' = Append(deferred_queue, Head(rx).thread),
         known_deferred_threads' = known_deferred_threads \cup {Head(rx).thread}
  PROVE  OnceInv'
<1>1. /\ 1 \in 1..Len(rx) /\ Head(rx) = rx[1]
      /\ \A i \in 1..Len(rx') : /\ i \in Nat /\ i + 1 \in 1..Len(rx) /\ i + 1 # 1
                                /\ rx'[i] = rx[i + 1]
  BY ChannelTail DEF TypeOK
<1>2. PICK m \in Nat : m = Len(deferred_queue)
  BY DEF TypeOK
<1>3. rx[1].thread \in Thread
  BY <1>1 DEF TypeOK, Event
<1>4. /\ DOMAIN deferred_queue = 1..m /\ DOMAIN deferred_queue' = 1..(m + 1)
      /\ deferred_queue'[m + 1] = rx[1].thread
      /\ \A j \in 1..m : deferred_queue'[j] = deferred_queue[j]
  <2>1. deferred_queue' = Append(deferred_queue, rx[1].thread)
    BY <1>1
  <2> QED
    BY <1>2, <1>3, <2>1 DEF TypeOK
<1>5. \A j \in 1..m : deferred_queue[j] # rx[1].thread
  BY <1>1, <1>4 DEF OnceInv, ChannelOnce
<1>6. QueueOnce'
  BY <1>1, <1>4, <1>5 DEF OnceInv, QueueOnce
<1>7. ASSUME NEW i \in 1..Len(rx'), rx'[i].op = "DeferredThread"
      PROVE  /\ \A j \in 1..Len(rx') :
                  rx'[j].op = "DeferredThread" /\ rx'[j].thread = rx'[i].thread => j = i
             /\ \A j \in DOMAIN deferred_queue' : deferred_queue'[j] # rx'[i].thread
  <2>1. rx[i + 1].thread # rx[1].thread
    BY <1>1, <1>7 DEF OnceInv, ChannelOnce
  <2>2. \A j \in 1..Len(rx') :
          rx'[j].op = "DeferredThread" /\ rx'[j].thread = rx'[i].thread => j + 1 = i + 1
    BY <1>1, <1>7 DEF OnceInv, ChannelOnce
  <2>3. \A j \in 1..m : deferred_queue[j] # rx[i + 1].thread
    BY <1>1, <1>4, <1>7 DEF OnceInv, ChannelOnce
  <2> QED
    BY <1>1, <1>4, <2>1, <2>2, <2>3
<1> QED
  BY <1>6, <1>7 DEF OnceInv, ChannelOnce

\* the first in the queue is taken, and may be resumed
LEMMA OnceTake ==
  ASSUME TypeOK, OnceInv, deferred_queue # <<>>, deferred_queue' = Tail(deferred_queue),
         UNCHANGED <<rx, known_deferred_threads>>,
         firing'.arm = "deferred" => firing'.thread = Head(deferred_queue)
  PROVE  OnceInv'
<1>1. PICK m \in Nat : m = Len(deferred_queue)
  BY DEF TypeOK
<1>2. /\ m > 0 /\ Head(deferred_queue) = deferred_queue[1]
      /\ DOMAIN deferred_queue = 1..m /\ DOMAIN deferred_queue' = 1..(m - 1)
      /\ \A i \in 1..(m - 1) : deferred_queue'[i] = deferred_queue[i + 1]
  BY <1>1 DEF TypeOK
<1>3. \A i \in 1..(m - 1) : i \in Nat \ {0} /\ i + 1 \in 1..m /\ i + 1 # 1
  BY <1>1
<1>4. 1 \in 1..m
  BY <1>1, <1>2
<1>5. QueueOnce'
  BY <1>2, <1>3, <1>4 DEF OnceInv, QueueOnce
<1>6. ChannelOnce'
  BY <1>2, <1>3 DEF OnceInv, ChannelOnce
<1> QED
  BY <1>5, <1>6 DEF OnceInv

(* The address of a resumed coroutine is forgotten only after its resume,   *)
(* when an entry deferred meanwhile may be in the channel but not in the    *)
(* queue: nothing is received during a resume.                              *)
LEMMA OnceInductive ==
  ASSUME TypeOK, FiringInLua, OnceInv, [Next]_vars,
         [\A t \in Thread : TaskDefer(t) => ~Deferred(t)]_vars
  PROVE  OnceInv'
<1> USE DEF locals, control
<1>1. ASSUME NEW t \in Thread, TaskSpawn(t) \/ TaskCancel(t) \/ CoroutineClose(t) \/ Collect(t)
      PROVE OnceInv'
  BY <1>1, OnceFrame DEF TaskSpawn, TaskCancel, CoroutineClose, Collect
<1>2. ASSUME NEW t \in Thread, TaskDelay(t) PROVE OnceInv'
  BY <1>2, EventType, OncePush DEF TaskDelay
<1>3. ASSUME NEW t \in Thread, TaskDefer(t) PROVE OnceInv'
  <2>1. CASE UNCHANGED vars
    BY <2>1, OnceFrame DEF vars
  <2>2. CASE ~Deferred(t)
    BY <1>3, <2>2, EventType, OncePush DEF TaskDefer
  <2> QED
    BY <1>3, <2>1, <2>2
<1>4. CASE TaskWait \/ CallAsync \/ Clear
  BY <1>4, EventType, OncePush DEF TaskWait, CallAsync, Clear, TypeOK, CoroutineType
<1>5. CASE CoroutineYield \/ CoroutineEnds \/ Stop \/ Unstop \/ DropLua
  BY <1>5, OnceFrame DEF CoroutineYield, CoroutineEnds, Stop, Unstop, DropLua
<1>6. CASE RunInTask \/ RunPanics \/ RunStarts \/ TopSelects \/ Bottom \/ UNCHANGED vars
  BY <1>6, OnceFrame DEF RunInTask, RunPanics, RunStarts, TopSelects, Bottom, vars
<1>7. CASE RunRefused
  BY <1>7, OnceReceiveOther DEF RunRefused
<1>8. CASE TopReturns \/ ArmReturns \/ RecvDeferredPanics \/ RecvClear
  BY <1>8, OnceReceiveOther DEF TopReturns, ArmReturns, RecvDeferredPanics, RecvClear,
                                Receive, Return, Dropped
<1>9. CASE RecvWait \/ RecvAsync
  BY <1>9, OnceReceiveOther DEF RecvWait, RecvAsync, Receive
<1>10. CASE RecvDeferred
  BY <1>10, OnceReceive DEF RecvDeferred, Receive, AtSelect, AddDeferred, FiringInLua
<1>11. ASSUME NEW e \in wait_queue, SkipWait(e) \/ FireWait(e) PROVE OnceInv'
  BY <1>11, OnceFrame DEF SkipWait, FireWait
<1>12. CASE SkipDeferred \/ DropDeferred
  BY <1>12, OnceTake DEF SkipDeferred, DropDeferred, TakeDeferred, AtSelect, FiringInLua
<1>13. CASE FireDeferred
  BY <1>13, OnceTake DEF FireDeferred, TakeDeferred
<1>14. ASSUME NEW t \in Thread, FireAsync(t) PROVE OnceInv'
  BY <1>14, OnceFrame DEF FireAsync
<1>15. CASE AfterResume
  BY <1>15 DEF AfterResume, OnceInv, QueueOnce, ChannelOnce, NotFiring
<1> QED
  BY <1>1, <1>2, <1>3, <1>4, <1>5, <1>6, <1>7, <1>8, <1>9, <1>10, <1>11, <1>12, <1>13, <1>14,
     <1>15
  DEF Next, Environment, Run

(* A deferred coroutine is resumed when its entry is taken, unless it was   *)
(* cancelled or cannot be resumed, in every program that defers a coroutine *)
(* only when it is not in line already (and whose marks meet their own):    *)
(* v2_defer_twice needs a coroutine that is in line twice.                  *)
THEOREM DeferredEntryResumesCorrect ==
  ASSUME MarksMeetTheirOwn
  PROVE  Spec /\ DefersOnce => DeferredEntryResumes
<1> DEFINE Taken == Len(deferred_queue') < Len(deferred_queue) =>
                      LET t == Head(deferred_queue) IN
                      \/ current' = t
                      \/ t \in targeted
                      \/ status[t] \notin Resumable
                      \/ pc' \in {"drain", "exited"}
           Once  == \A t \in Thread : TaskDefer(t) => ~Deferred(t)
<1>1. Init => KeysInv /\ OnceInv /\ MarksTargeted
  BY DEF Init, KeysInv, KeysRecorded, KeysUnique, FiringKeyFree, FiringInLua, NotFiring,
         OnceInv, QueueOnce, ChannelOnce, MarksTargeted
<1>2. TypeOK /\ KeysInv /\ [Next]_vars => KeysInv'
  BY KeysInductive
<1>3. TypeOK /\ MarksTargeted /\ [Next]_vars => MarksTargeted'
  BY MarksInductive
<1>4. TypeOK /\ KeysInv /\ OnceInv /\ [Next]_vars /\ [Once]_vars => OnceInv'
  BY OnceInductive DEF KeysInv
<1>5. TypeOK /\ OnceInv /\ MarksTargeted /\ [Next]_vars => [Taken]_vars
  <2> SUFFICES ASSUME TypeOK, OnceInv, MarksTargeted, Next,
                      Len(deferred_queue') < Len(deferred_queue)
               PROVE  LET t == Head(deferred_queue) IN
                      \/ current' = t
                      \/ t \in targeted
                      \/ status[t] \notin Resumable
                      \/ pc' \in {"drain", "exited"}
    OBVIOUS
  <2> USE DEF locals
  <2>1. ~UNCHANGED deferred_queue
    BY DEF TypeOK
  <2>2. CASE Environment
    BY <2>1, <2>2
    DEF Environment, TaskSpawn, TaskDelay, TaskDefer, TaskCancel, CoroutineClose, Collect,
        TaskWait, CallAsync, CoroutineYield, CoroutineEnds, Stop, Unstop, Clear, DropLua
  <2>3. CASE RunInTask \/ RunPanics \/ RunRefused \/ RunStarts \/ TopSelects \/ Bottom
    BY <2>1, <2>3 DEF RunInTask, RunPanics, RunRefused, RunStarts, TopSelects, Bottom
  <2>4. CASE TopReturns \/ ArmReturns \/ RecvDeferredPanics \/ RecvClear
    BY <2>4 DEF TopReturns, ArmReturns, RecvDeferredPanics, RecvClear, Return, Dropped
  <2>5. CASE RecvWait \/ RecvAsync \/ AfterResume
    BY <2>1, <2>5 DEF RecvWait, RecvAsync, AfterResume
  <2>6. CASE RecvDeferred
    <3>1. Head(rx).thread \in Thread
      BY <2>6, ReceiveType DEF RecvDeferred, TypeOK
    <3>2. Len(deferred_queue') = Len(deferred_queue) + 1
      BY <2>6, <3>1 DEF RecvDeferred, AddDeferred, TypeOK
    <3> QED
      BY <3>2 DEF TypeOK
  <2>7. ASSUME NEW e \in wait_queue, SkipWait(e) \/ FireWait(e) PROVE FALSE
    BY <2>1, <2>7 DEF SkipWait, FireWait
  <2>8. CASE SkipDeferred
    BY <2>8 DEF SkipDeferred, Cancelled, MarksTargeted
  <2>9. CASE DropDeferred
    <3>1. 1 \in DOMAIN deferred_queue /\ Head(deferred_queue) = deferred_queue[1]
      BY <2>9 DEF DropDeferred, TakeDeferred, TypeOK
    <3> QED
      BY <2>9, <3>1 DEF DropDeferred, OnceInv, QueueOnce
  <2>10. CASE FireDeferred
    BY <2>10 DEF FireDeferred, Resume, Enter
  <2>11. ASSUME NEW t \in Thread, FireAsync(t) PROVE FALSE
    BY <2>1, <2>11 DEF FireAsync
  <2> QED
    BY <2>2, <2>3, <2>4, <2>5, <2>6, <2>7, <2>8, <2>9, <2>10, <2>11 DEF Next, Run
<1> QED
  BY <1>1, <1>2, <1>3, <1>4, <1>5, TypeCorrect, PTL
  DEF Spec, DefersOnce, DeferredEntryResumes
=============================================================================
