--------------------------- MODULE HostManagerProofs ---------------------------
(* What the task manager promises is kept in a host that runs scripts with  *)
(* spawn_thread_and_wait, for any number of coroutines, calls and slots:    *)
(* the inductive invariants of TaskManagerV2 hold of the composed system,   *)
(* whose steps are steps of the task manager or the end of the host's work. *)
EXTENDS HostProofs

\* TaskManagerV2 with its invariants and their proofs
TMP == INSTANCE TaskManagerV2Proofs

-----------------------------------------------------------------------------
(* TM and TMP are the same specification.                                   *)

LEMMA SameNext == TM!Next <=> TMP!Next
BY DEF
  TM!Next, TM!Environment, TM!Run, TM!locals, TM!flags, TM!control, TM!coroutine,
  TM!NotFiring, TM!NoKeys, TM!NoAsyncs, TM!NothingPending, TM!Backlog,
  TM!Cardinality, TM!IsFiniteSet, TM!MapThenSumSet, TM!MapThenFoldSet,
  TM!ExecutorTurn, TM!CallerTurn, TM!PushEvent, TM!Resumable, TM!Ended, TM!Enter,
  TM!Leave, TM!Resume, TM!IntoThread, TM!Close, TM!TaskSpawn, TM!TaskWait,
  TM!TaskDelay, TM!TaskDefer, TM!CallAsync, TM!TaskCancel, TM!CoroutineClose,
  TM!CoroutineYield, TM!CoroutineEnds, TM!Collect, TM!Stop, TM!Unstop, TM!Clear,
  TM!DropLua, TM!RunInTask, TM!RunPanics, TM!MustReturn, TM!RunRefused,
  TM!RunStarts, TM!AtSelect, TM!Return, TM!Dropped, TM!TopReturns, TM!TopSelects,
  TM!HasFuture, TM!ArmReturns, TM!RecvDeferredPanics, TM!Receive, TM!RecvWait,
  TM!AddDeferred, TM!RecvDeferred, TM!RecvAsync, TM!RecvClear, TM!Cancelled,
  TM!SkipWait, TM!FireWait, TM!TakeDeferred, TM!SkipDeferred, TM!DropDeferred,
  TM!FireDeferred, TM!FireAsync, TM!WithoutKey, TM!AfterResume, TM!Bottom,
  TMP!Next, TMP!Environment, TMP!Run, TMP!locals, TMP!flags, TMP!control,
  TMP!coroutine, TMP!NotFiring, TMP!NoKeys, TMP!NoAsyncs, TMP!NothingPending,
  TMP!Backlog, TMP!Cardinality, TMP!IsFiniteSet, TMP!MapThenSumSet,
  TMP!MapThenFoldSet, TMP!ExecutorTurn, TMP!CallerTurn, TMP!PushEvent,
  TMP!Resumable, TMP!Ended, TMP!Enter, TMP!Leave, TMP!Resume, TMP!IntoThread,
  TMP!Close, TMP!TaskSpawn, TMP!TaskWait, TMP!TaskDelay, TMP!TaskDefer,
  TMP!CallAsync, TMP!TaskCancel, TMP!CoroutineClose, TMP!CoroutineYield,
  TMP!CoroutineEnds, TMP!Collect, TMP!Stop, TMP!Unstop, TMP!Clear, TMP!DropLua,
  TMP!RunInTask, TMP!RunPanics, TMP!MustReturn, TMP!RunRefused, TMP!RunStarts,
  TMP!AtSelect, TMP!Return, TMP!Dropped, TMP!TopReturns, TMP!TopSelects,
  TMP!HasFuture, TMP!ArmReturns, TMP!RecvDeferredPanics, TMP!Receive,
  TMP!RecvWait, TMP!AddDeferred, TMP!RecvDeferred, TMP!RecvAsync, TMP!RecvClear,
  TMP!Cancelled, TMP!SkipWait, TMP!FireWait, TMP!TakeDeferred, TMP!SkipDeferred,
  TMP!DropDeferred, TMP!FireDeferred, TMP!FireAsync, TMP!WithoutKey,
  TMP!AfterResume, TMP!Bottom

LEMMA SameInit == TM!Init <=> TMP!Init
BY DEF TM!Init, TMP!Init, TM!NoKeys, TMP!NoKeys, TM!NoAsyncs, TMP!NoAsyncs,
       TM!NotFiring, TMP!NotFiring, TM!CoroutineInit, TMP!CoroutineInit

LEMMA SameTypeOK == TM!TypeOK <=> TMP!TypeOK
BY DEF TM!TypeOK, TMP!TypeOK, TM!Event, TMP!Event, TM!WaitEntry, TMP!WaitEntry,
       TM!Firing, TMP!Firing, TM!NotFiring, TMP!NotFiring, TM!CoroutineType,
       TMP!CoroutineType, TM!Status, TMP!Status, TM!Resumable, TMP!Resumable, TM!Ended,
       TMP!Ended

LEMMA SameProperties ==
  /\ TM!LoopAlive <=> TMP!LoopAlive
  /\ TM!DoneMeansNoWork <=> TMP!DoneMeansNoWork
  /\ TM!KeysRecorded <=> TMP!KeysRecorded
  /\ TM!NobodyForgotten <=> TMP!NobodyForgotten
BY DEF TM!NobodyForgotten, TMP!NobodyForgotten, TM!HasWaitEntry, TMP!HasWaitEntry,
       TM!HasAsyncEntry, TMP!HasAsyncEntry, TM!HasFuture, TMP!HasFuture, TM!Queued,
       TMP!Queued, TM!LoopAlive, TMP!LoopAlive, TM!DoneMeansNoWork, TMP!DoneMeansNoWork,
       TM!NothingPending, TMP!NothingPending, TM!NoAsyncs, TMP!NoAsyncs,
       TM!KeysRecorded, TMP!KeysRecorded

-----------------------------------------------------------------------------
(* A step of the host is a step of the task manager, or the last task stops *)
(* it and drops the Lua state.                                              *)

LEMMA HostStep ==
  [Next]_vars => [TMP!Next]_(TMP!vars) \/ \E c \in Caller : Finishes(c)
<1> SUFFICES ASSUME [Next]_vars, \A c \in Caller : ~Finishes(c)
             PROVE  [TMP!Next]_(TMP!vars)
  OBVIOUS
<1>1. UNCHANGED <<manager, coroutine>> => UNCHANGED TMP!vars
  BY DEF manager, coroutine, TMP!vars, TMP!flags, TMP!control, TMP!locals, TMP!coroutine
<1>2. CASE TaskManagerStep
  BY <1>2, SameNext DEF TaskManagerStep
<1>3. ASSUME NEW t \in Thread, ResumeRefused(t) PROVE UNCHANGED TMP!vars
  BY <1>1, <1>3 DEF ResumeRefused
<1>4. ASSUME NEW c \in Caller, NEW t \in Thread, SpawnThreadAndWait(c, t)
      PROVE  [TMP!Next]_(TMP!vars)
  <2>1. TM!TaskSpawn(t) => TM!Next
    BY DEF TM!Next, TM!Environment
  <2> QED
    BY <1>1, <1>4, <2>1, SameNext DEF SpawnThreadAndWait
<1>5. ASSUME NEW c \in Caller, SpawnFails(c) \/ Receives(c) \/ ReceivesNone(c)
      PROVE  UNCHANGED TMP!vars
  BY <1>1, <1>5 DEF SpawnFails, Receives, ReceivesNone
<1>6. CASE UNCHANGED vars
  BY <1>1, <1>6 DEF vars
<1> QED
  BY <1>2, <1>3, <1>4, <1>5, <1>6 DEF Next

-----------------------------------------------------------------------------
(* The invariants of the task manager, in the host.                         *)

ManagerInv == TMP!TypeOK /\ TMP!DoneInv /\ TMP!KeysInv

\* the last task changes nothing that they speak of but two flags
LEMMA FinishStep ==
  ASSUME ManagerInv, NEW c \in Caller, Finishes(c)
  PROVE  /\ ManagerInv'
         /\ TMP!ForgottenInv => TMP!ForgottenInv'
<1>1. /\ UNCHANGED <<rx, done, is_running, cancel, pc, firing, wait_queue, wait_keys,
                     deferred_queue, known_deferred_threads, async_queue, spawned,
                     targeted, status, current, resumer>>
      /\ is_cancelled' \in {TRUE, is_cancelled} /\ lua' \in {FALSE, lua}
  BY DEF Finishes, coroutine
<1>2. TMP!TypeOK'
  BY <1>1 DEF ManagerInv, TMP!TypeOK, TMP!CoroutineType
<1>3. TMP!DoneInv'
  BY <1>1 DEF ManagerInv, TMP!DoneInv, TMP!DoneMeansNoWork, TMP!IdleEmpty,
              TMP!NothingPending, TMP!NoAsyncs
<1>4. TMP!KeysInv'
  BY <1>1 DEF ManagerInv, TMP!KeysInv, TMP!KeysRecorded, TMP!KeysUnique,
              TMP!FiringKeyFree, TMP!FiringInLua
<1>5. TMP!ForgottenInv => TMP!ForgottenInv'
  BY <1>1 DEF ManagerInv, TMP!TypeOK, TMP!ForgottenInv, TMP!NobodyForgotten,
              TMP!LoopAlive, TMP!HasWaitEntry, TMP!HasAsyncEntry, TMP!HasFuture,
              TMP!Queued, TMP!MarksTargeted
<1> QED
  BY <1>2, <1>3, <1>4, <1>5 DEF ManagerInv

LEMMA ManagerInvCorrect == Spec => []ManagerInv
<1> USE ThreadAssumption, KeyAssumption, BacklogAssumption, RunsAssumption
<1>1. Init => ManagerInv
  <2>1. Init => TMP!Init
    BY SameInit DEF Init
  <2>2. TMP!Init => TMP!TypeOK
    BY TMP!TypeInit
  <2>3. TMP!Init => TMP!DoneInv /\ TMP!KeysInv
    BY DEF TMP!Init, TMP!DoneInv, TMP!DoneMeansNoWork, TMP!IdleEmpty, TMP!NothingPending,
           TMP!KeysInv, TMP!KeysRecorded, TMP!KeysUnique, TMP!FiringKeyFree,
           TMP!FiringInLua, TMP!NotFiring
  <2> QED
    BY <2>1, <2>2, <2>3 DEF ManagerInv
<1>2. ManagerInv /\ [TMP!Next]_(TMP!vars) => ManagerInv'
  BY TMP!TypeInductive, TMP!DoneInductive, TMP!KeysInductive DEF ManagerInv
<1>3. ManagerInv /\ [Next]_vars => ManagerInv'
  BY <1>2, HostStep, FinishStep
<1> QED
  BY <1>1, <1>3, PTL DEF Spec

(* Every reachable state of the host is well typed, the state of the task   *)
(* manager and of the tracker.                                              *)
THEOREM HostTypeCorrect == Spec => []TypeOK
<1>1. ManagerInv /\ HostInv => TypeOK
  BY SameTypeOK DEF ManagerInv, HostInv, TypeOK
<1> QED
  BY <1>1, ManagerInvCorrect, HostInvCorrect, PTL

(* With a host that waits for its scripts, stops the task manager and drops *)
(* the Lua state, done is still set only while nothing is pending, and      *)
(* old_keys.len() - 1 still does not underflow.                             *)
THEOREM ManagerInHostCorrect == Spec => [](TM!DoneMeansNoWork /\ TM!KeysRecorded)
<1>1. ManagerInv => TM!DoneMeansNoWork /\ TM!KeysRecorded
  BY SameProperties DEF ManagerInv, TMP!DoneInv, TMP!KeysInv
<1> QED
  BY <1>1, ManagerInvCorrect, PTL

-----------------------------------------------------------------------------
(* The host leaves no coroutine behind.                                     *)

LEMMA ForgottenInvCorrect ==
  ASSUME TMP!MarksMeetTheirOwn
  PROVE  Spec => []TMP!ForgottenInv
<1> USE ThreadAssumption, KeyAssumption, BacklogAssumption, RunsAssumption
<1>1. Init => TMP!ForgottenInv
  BY SameInit DEF Init, TMP!Init, TMP!CoroutineInit, TMP!ForgottenInv,
                  TMP!NobodyForgotten, TMP!MarksTargeted
<1>2. ManagerInv /\ TMP!ForgottenInv /\ [TMP!Next]_(TMP!vars) => TMP!ForgottenInv'
  BY TMP!ForgottenInductive DEF ManagerInv
<1>3. ManagerInv /\ TMP!ForgottenInv /\ [Next]_vars => TMP!ForgottenInv'
  BY <1>2, HostStep, FinishStep
<1> QED
  BY <1>1, <1>3, ManagerInvCorrect, PTL DEF Spec

(* In the host, too, a coroutine suspended in task.wait or in an async      *)
(* function has an entry of its own, unless a script cancelled it: the      *)
(* calls of the host lose none, nor does an attempt to resume that fails.   *)
THEOREM HostForgetsNobody ==
  ASSUME TMP!MarksMeetTheirOwn
  PROVE  Spec => []TM!NobodyForgotten
<1>1. TMP!ForgottenInv => TM!NobodyForgotten
  BY SameProperties DEF TMP!ForgottenInv
<1>2. Spec => []TMP!ForgottenInv
  BY ForgottenInvCorrect
<1> QED
  BY <1>1, <1>2, PTL

\* a call is over when its task has waited for the task manager
LEMMA OnlyFinishes ==
  ASSUME HostInv, [Next]_vars, NEW c \in Caller, call[c] # "done", call'[c] = "done"
  PROVE  done
<1>1. call \in [Caller -> {"new", "recv", "returned", "done"}]
  BY DEF HostInv, TrackerType
<1>2. CASE TaskManagerStep
  BY <1>2 DEF TaskManagerStep, Report, OnResponse, tracker
<1>3. ASSUME NEW t \in Thread, ResumeRefused(t) PROVE FALSE
  BY <1>3 DEF ResumeRefused, OnResponse
<1>4. ASSUME NEW d \in Caller, NEW t \in Thread, SpawnThreadAndWait(d, t) PROVE FALSE
  BY <1>1, <1>4 DEF SpawnThreadAndWait, Track
<1>5. ASSUME NEW d \in Caller, SpawnFails(d) PROVE FALSE
  BY <1>1, <1>5 DEF SpawnFails, Returns
<1>6. ASSUME NEW d \in Caller, Receives(d) \/ ReceivesNone(d) PROVE FALSE
  <2>1. UNCHANGED call \/ call' = [call EXCEPT ![d] = "returned"]
    BY <1>6 DEF Receives, ReceivesNone, Recv, RecvNone, RecvWithoutLua, Returns
  <2> QED
    BY <1>1, <2>1
<1>7. ASSUME NEW d \in Caller, Finishes(d) PROVE done
  BY <1>7 DEF Finishes, WaitsTillDone
<1>8. CASE UNCHANGED vars
  BY <1>8 DEF vars, tracker
<1> QED
  BY <1>2, <1>3, <1>4, <1>5, <1>6, <1>7, <1>8 DEF Next

(* When the last script has returned, wait_till_done too, and the host      *)
(* stops the task manager, no coroutine is left suspended in task.wait or   *)
(* in an async function that was not cancelled, unless the loop has ended   *)
(* before: in every program that does not both cancel coroutines and use    *)
(* addresses again.                                                         *)
THEOREM FinishLeavesNobodyCorrect ==
  ASSUME TMP!MarksMeetTheirOwn
  PROVE  Spec => FinishLeavesNobody
<1> DEFINE Clean == AllDone' /\ ~AllDone /\ TM!LoopAlive =>
                      \A t \in Thread : status[t] \in {"waiting", "awaiting"} => t \in targeted
<1> USE ThreadAssumption, KeyAssumption, BacklogAssumption, RunsAssumption
<1>1. ManagerInv /\ TMP!ForgottenInv => TMP!DoneMeansNobodySuspended
  BY TMP!DoneLeavesNobody DEF ManagerInv, TMP!DoneInv, TMP!ForgottenInv
<1>2. ManagerInv /\ HostInv /\ TMP!ForgottenInv /\ [Next]_vars => [Clean]_vars
  <2> SUFFICES ASSUME HostInv, [Next]_vars, TMP!DoneMeansNobodySuspended,
                      AllDone', ~AllDone, TM!LoopAlive, NEW t \in Thread,
                      status[t] \in {"waiting", "awaiting"}
               PROVE  t \in targeted
    BY <1>1
  <2>1. done
    BY OnlyFinishes DEF AllDone
  <2> QED
    BY <2>1, SameProperties DEF TMP!DoneMeansNobodySuspended
<1>3. Spec => []TMP!ForgottenInv
  BY ForgottenInvCorrect
<1> QED
  BY <1>2, <1>3, ManagerInvCorrect, HostInvCorrect, PTL DEF Spec, FinishLeavesNobody
================================================================================
