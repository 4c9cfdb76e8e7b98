------------------------------ MODULE HostProofs ------------------------------
(* spawn_thread_and_wait gives the output of its coroutine, for any number  *)
(* of coroutines, calls and slots, and whatever scripts and the host do.    *)
EXTENDS Host, TLAPS

Outputs == {"end", "refused"}

Last(s) == s[Len(s)]

\* the coroutine of c has ended by itself, and was not closed
EndedItself(c) == status[thread[c]] = "dead"

(* The last result of a coroutine that has ended stays at the end of the    *)
(* channel of the call until the call takes it and returns: the channel is  *)
(* not empty and ends with the output, so that its only element is the      *)
(* output.                                                                  *)
OutputLast ==
  \A c \in Caller :
    call[c] = "recv" /\ SenderKept(c) /\ EndedItself(c) =>
      results[c] # <<>> /\ Last(results[c]) \in Outputs

\* the tracker sends to a call only what its own coroutine gives
OwnResults ==
  \A c \in Caller : /\ call[c] = "new" => results[c] = <<>> /\ \A t \in Thread : returns[t] # c
                    /\ call[c] = "recv" => /\ thread[c] \in Thread
                                           /\ \A t \in Thread : returns[t] = c => t = thread[c]

StatusMap == status = [t \in Thread |-> status[t]]

HostInv == StatusMap /\ TrackerType /\ OwnResults /\ OutputLast

-----------------------------------------------------------------------------
(* What a step of the task manager does to the coroutines.                  *)

\* only the coroutine that runs can end by itself
OnlyCurrentEnds ==
  \A t \in Thread : status'[t] = "dead" => current = t \/ status[t] = "dead"

\* an arm resumes at an executor turn
FiresAlone == firing = TM!NotFiring /\ firing' # TM!NotFiring => current = NoThread

ManagerEffect == StatusMap' /\ OnlyCurrentEnds /\ FiresAlone

LEMMA EnterEffect ==
  ASSUME StatusMap, NEW t, TM!Enter(t)
  PROVE  StatusMap' /\ \A u \in Thread : status'[u] = "dead" => status[u] = "dead"
BY DEF StatusMap, TM!Enter

LEMMA LeaveEffect ==
  ASSUME StatusMap, NEW s, TM!Leave(s)
  PROVE  StatusMap' /\ \A u \in Thread : u # current => status'[u] = status[u]
BY DEF StatusMap, TM!Leave

LEMMA ResumeEffect ==
  ASSUME StatusMap, NEW t, TM!Resume(t)
  PROVE  StatusMap' /\ \A u \in Thread : status'[u] = "dead" => status[u] = "dead"
<1>1. CASE TM!Enter(t)
  BY <1>1, EnterEffect
<1>2. CASE UNCHANGED TM!coroutine
  BY <1>2 DEF StatusMap, TM!coroutine
<1> QED
  BY <1>1, <1>2 DEF TM!Resume

LEMMA ScriptEffect ==
  ASSUME StatusMap, TM!Environment
  PROVE  ManagerEffect
<1> USE DEF ManagerEffect, OnlyCurrentEnds, FiresAlone, TM!control
<1>1. ASSUME NEW t \in Thread, TM!TaskSpawn(t) PROVE ManagerEffect
  BY <1>1, EnterEffect DEF TM!TaskSpawn
<1>2. ASSUME NEW t \in Thread, TM!TaskDelay(t) \/ TM!TaskDefer(t) PROVE ManagerEffect
  <2>1. status' = TM!IntoThread(t) /\ UNCHANGED firing
    BY <1>2 DEF TM!TaskDelay, TM!TaskDefer
  <2>2. StatusMap' /\ \A u \in Thread : status'[u] = "dead" => status[u] = "dead"
    BY <2>1 DEF TM!IntoThread, StatusMap
  <2> QED
    BY <2>1, <2>2
<1>3. ASSUME NEW t \in Thread, TM!TaskCancel(t) \/ TM!CoroutineClose(t) PROVE ManagerEffect
  <2>1. status' = TM!Close(t) /\ UNCHANGED firing
    BY <1>3 DEF TM!TaskCancel, TM!CoroutineClose
  <2>2. StatusMap' /\ \A u \in Thread : status'[u] \in {"closed", status[u]}
    BY <2>1 DEF TM!Close, StatusMap
  <2> QED
    BY <2>1, <2>2
<1>4. ASSUME NEW t \in Thread, TM!Collect(t) PROVE ManagerEffect
  <2>1. status' = [status EXCEPT ![t] = "free"] /\ UNCHANGED firing
    BY <1>4 DEF TM!Collect
  <2>2. StatusMap' /\ status'[t] # "dead" /\ \A u \in Thread \ {t} : status'[u] = status[u]
    BY <2>1 DEF StatusMap
  <2> QED
    BY <2>1, <2>2
<1>5. ASSUME NEW s, TM!Leave(s), UNCHANGED firing PROVE ManagerEffect
  BY <1>5, LeaveEffect
<1>6. CASE TM!TaskWait \/ TM!CallAsync \/ TM!CoroutineYield \/ TM!CoroutineEnds
  BY <1>5, <1>6 DEF TM!TaskWait, TM!CallAsync, TM!CoroutineYield, TM!CoroutineEnds
<1>7. CASE TM!Stop \/ TM!Unstop \/ TM!Clear \/ TM!DropLua
  BY <1>7 DEF TM!Stop, TM!Unstop, TM!Clear, TM!DropLua, TM!coroutine, StatusMap
<1> QED
  BY <1>1, <1>2, <1>3, <1>4, <1>6, <1>7 DEF TM!Environment

LEMMA LoopEffect ==
  ASSUME StatusMap, TM!Run
  PROVE  ManagerEffect
<1> USE DEF ManagerEffect, OnlyCurrentEnds, FiresAlone
<1>1. ASSUME NEW t, TM!Resume(t), current = NoThread PROVE ManagerEffect
  BY <1>1, ResumeEffect
<1>2. CASE UNCHANGED <<TM!coroutine, firing>>
  BY <1>2 DEF TM!coroutine, StatusMap
<1>3. CASE TM!RunInTask \/ TM!RunPanics \/ TM!RunRefused \/ TM!RunStarts
  BY <1>2, <1>3 DEF TM!RunInTask, TM!RunPanics, TM!RunRefused, TM!RunStarts, TM!control
<1>4. CASE TM!TopReturns \/ TM!TopSelects \/ TM!ArmReturns \/ TM!RecvDeferredPanics
  BY <1>2, <1>4 DEF TM!TopReturns, TM!TopSelects, TM!ArmReturns, TM!RecvDeferredPanics,
                    TM!Return, TM!Dropped
<1>5. CASE TM!RecvWait \/ TM!RecvDeferred \/ TM!RecvAsync \/ TM!RecvClear
  BY <1>2, <1>5 DEF TM!RecvWait, TM!RecvDeferred, TM!RecvAsync, TM!RecvClear
<1>6. ASSUME NEW e \in wait_queue, TM!SkipWait(e) PROVE ManagerEffect
  BY <1>2, <1>6 DEF TM!SkipWait
<1>7. ASSUME NEW e \in wait_queue, TM!FireWait(e) PROVE ManagerEffect
  BY <1>1, <1>7 DEF TM!FireWait, TM!AtSelect
<1>8. CASE TM!SkipDeferred \/ TM!DropDeferred
  BY <1>2, <1>8 DEF TM!SkipDeferred, TM!DropDeferred, TM!TakeDeferred
<1>9. CASE TM!FireDeferred
  BY <1>1, <1>9 DEF TM!FireDeferred, TM!TakeDeferred, TM!AtSelect
<1>10. ASSUME NEW t \in Thread, TM!FireAsync(t) PROVE ManagerEffect
  BY <1>1, <1>10 DEF TM!FireAsync, TM!AtSelect
<1>11. CASE TM!AfterResume
  BY <1>11 DEF TM!AfterResume, TM!coroutine, StatusMap
<1>12. CASE TM!Bottom
  BY <1>2, <1>12 DEF TM!Bottom
<1> QED
  BY <1>3, <1>4, <1>5, <1>6, <1>7, <1>8, <1>9, <1>10, <1>11, <1>12 DEF TM!Run

LEMMA ManagerStepEffect ==
  ASSUME StatusMap, TM!Next
  PROVE  ManagerEffect
BY ScriptEffect, LoopEffect DEF TM!Next

-----------------------------------------------------------------------------
(* Sending and receiving.                                                   *)

LEMMA AppendLast ==
  ASSUME NEW s \in Seq(Result), NEW r \in Result
  PROVE  /\ Append(s, r) \in Seq(Result) /\ Append(s, r) # <<>>
         /\ Last(Append(s, r)) = r
<1>1. Append(s, r) \in Seq(Result) /\ Len(Append(s, r)) = Len(s) + 1 /\ Len(s) \in Nat
  OBVIOUS
<1>2. Append(s, r)[Len(s) + 1] = r
  OBVIOUS
<1> QED
  BY <1>1, <1>2 DEF Last

LEMMA TailLast ==
  ASSUME NEW s \in Seq(Result), s # <<>>
  PROVE  /\ Head(s) \in Result /\ Tail(s) \in Seq(Result)
         /\ Tail(s) # <<>> => Last(Tail(s)) = Last(s)
         /\ Len(s) = 1 => Head(s) = Last(s)
         /\ Len(s) # 1 => Tail(s) # <<>>
<1>1. Len(s) \in Nat /\ Len(s) > 0 /\ Head(s) = s[1] /\ Head(s) \in Result
  OBVIOUS
<1>2. Tail(s) \in Seq(Result) /\ Len(Tail(s)) = Len(s) - 1
  OBVIOUS
<1>3. ASSUME Tail(s) # <<>> PROVE Last(Tail(s)) = Last(s)
  <2>1. Len(Tail(s)) \in 1..(Len(s) - 1)
    BY <1>1, <1>2, <1>3
  <2>2. \A i \in 1..(Len(s) - 1) : Tail(s)[i] = s[i + 1]
    OBVIOUS
  <2> QED
    BY <1>1, <1>2, <2>1, <2>2 DEF Last
<1>4. ASSUME Len(s) # 1 PROVE Tail(s) # <<>>
  <2>1. Len(Tail(s)) # 0
    BY <1>1, <1>2, <1>4
  <2>2. Len(<<>>) = 0
    OBVIOUS
  <2> QED
    BY <2>1, <2>2, Zenon
<1>5. Len(s) = 1 => Head(s) = Last(s)
  BY <1>1 DEF Last
<1> QED
  BY <1>1, <1>2, <1>3, <1>4, <1>5

(* A result that is reported goes to the end of one channel, or nowhere.    *)
LEMMA ResponseEffect ==
  ASSUME TrackerType, NEW t \in Thread, NEW r \in Result, OnResponse(t, r)
  PROVE  /\ TrackerType'
         /\ UNCHANGED <<returns, call, thread>>
         /\ \A c \in Caller :
              IF returns[t] = c /\ call[c] = "recv"
              THEN results'[c] # <<>> /\ Last(results'[c]) = r
              ELSE results'[c] = results[c]
<1>1. UNCHANGED <<returns, call, thread, value>>
  BY DEF OnResponse
<1>2. \A c \in Caller :
        results'[c] = IF returns[t] = c /\ call[c] = "recv"
                      THEN Append(results[c], r) ELSE results[c]
  BY DEF OnResponse, Send, Receiver
<1>3. \A c \in Caller : results[c] \in Seq(Result)
  BY DEF TrackerType
<1>4. results' = [c \in Caller |-> results'[c]]
  BY DEF OnResponse, Send
<1>5. \A c \in Caller : results'[c] \in Seq(Result)
  BY <1>2, <1>3, AppendLast
<1>6. results' \in [Caller -> Seq(Result)]
  BY <1>4, <1>5
<1>7. TrackerType'
  BY <1>1, <1>6 DEF TrackerType
<1>8. ASSUME NEW c \in Caller, returns[t] = c, call[c] = "recv"
      PROVE  results'[c] # <<>> /\ Last(results'[c]) = r
  <2>1. results'[c] = Append(results[c], r)
    BY <1>2, <1>8
  <2>2. Append(results[c], r) # <<>> /\ Last(Append(results[c], r)) = r
    BY <1>3, AppendLast
  <2> QED
    BY <2>1, <2>2 DEF Last
<1>9. ASSUME NEW c \in Caller, ~(returns[t] = c /\ call[c] = "recv")
      PROVE  results'[c] = results[c]
  BY <1>2, <1>9
<1> QED
  BY <1>1, <1>7, <1>8, <1>9

-----------------------------------------------------------------------------
(* Every step keeps the last result where it is.                            *)

LEMMA ReportStep ==
  ASSUME HostInv, ManagerEffect, Report
  PROVE  HostInv'
<1> USE DEF HostInv, ManagerEffect
<1>1. ASSUME NEW t \in Thread, NEW r \in Result, OnResponse(t, r),
             r \in Outputs \/ status'[t] # "dead",
             \A u \in Thread \ {t} : current # u
      PROVE  HostInv'
  <2>1. /\ TrackerType' /\ UNCHANGED <<returns, call, thread>>
        /\ \A c \in Caller :
             IF returns[t] = c /\ call[c] = "recv"
             THEN results'[c] # <<>> /\ Last(results'[c]) = r
             ELSE results'[c] = results[c]
    BY <1>1, ResponseEffect
  <2>2. OwnResults'
    <3>1. \A c \in Caller : call[c] = "new" => results'[c] = results[c]
      BY <2>1
    <3> QED
      BY <2>1, <3>1 DEF OwnResults
  <2>3. ASSUME NEW c \in Caller, call[c] = "recv", returns[thread[c]] = c,
               status'[thread[c]] = "dead"
        PROVE  results'[c] # <<>> /\ Last(results'[c]) \in Outputs
    <3>1. thread[c] \in Thread
      BY <2>3 DEF OwnResults
    <3>2. CASE thread[c] = t
      BY <1>1, <2>1, <2>3, <3>2
    <3>3. CASE thread[c] # t
      <4>1. returns[t] # c
        BY <1>1, <2>3, <3>3 DEF OwnResults
      <4>2. results'[c] = results[c]
        BY <2>1, <4>1
      <4>3. EndedItself(c)
        BY <1>1, <2>3, <3>1, <3>3 DEF OnlyCurrentEnds, EndedItself
      <4>4. results[c] # <<>> /\ Last(results[c]) \in Outputs
        BY <2>3, <4>3 DEF OutputLast, SenderKept
      <4> QED
        BY <4>2, <4>4 DEF Last
    <3> QED
      BY <3>2, <3>3
  <2>4. OutputLast'
    BY <2>1, <2>3 DEF OutputLast, SenderKept, EndedItself, Last
  <2> QED
    BY <2>1, <2>2, <2>4
<1>2. ASSUME NEW t \in Thread, Left(t), OnResponse(t, ResultOf(t))
      PROVE  HostInv'
  <2>1. /\ ResultOf(t) \in Result
        /\ ResultOf(t) \in Outputs \/ status'[t] # "dead"
        /\ \A u \in Thread \ {t} : current # u
    BY <1>2 DEF ResultOf, Result, Outputs, Left
  <2> QED
    BY <1>1, <1>2, <2>1
<1>3. ASSUME NEW t \in Thread, LoopRefused(t), OnResponse(t, "refused")
      PROVE  HostInv'
  <2>1. \A u \in Thread : current # u
    BY <1>3, ThreadAssumption DEF LoopRefused, FiresAlone
  <2>2. "refused" \in Result /\ "refused" \in Outputs
    BY DEF Result, Outputs
  <2> QED
    BY <1>1, <1>3, <2>1, <2>2
<1>4. ASSUME UNCHANGED tracker,
             \A t \in Thread : current = t => status'[t] # "dead"
      PROVE  HostInv'
  <2>1. UNCHANGED <<returns, results, call, thread, value>>
    BY <1>4 DEF tracker
  <2>2. TrackerType' /\ OwnResults'
    BY <2>1 DEF TrackerType, OwnResults
  <2>3. ASSUME NEW c \in Caller, call[c] = "recv",
               status'[thread[c]] = "dead"
        PROVE  EndedItself(c)
    BY <1>4, <2>3 DEF OwnResults, OnlyCurrentEnds, EndedItself
  <2>4. OutputLast'
    BY <2>1, <2>3 DEF OutputLast, SenderKept, EndedItself, Last
  <2> QED
    BY <2>2, <2>4
<1>5. ASSUME NEW t \in Thread, LoopRefused(t), UNCHANGED tracker
      PROVE  HostInv'
  <2>1. \A u \in Thread : current # u
    BY <1>5, ThreadAssumption DEF LoopRefused, FiresAlone
  <2> QED
    BY <1>4, <1>5, <2>1
<1>6. ASSUME UNCHANGED tracker, \A t \in Thread : ~Left(t)
      PROVE  HostInv'
  <2>1. \A t \in Thread : current = t => status'[t] # "dead"
    BY <1>6 DEF Left
  <2> QED
    BY <1>4, <1>6, <2>1
<1> QED
  BY <1>2, <1>3, <1>5, <1>6 DEF Report

\* the call takes its first result, or ends
LEMMA RecvStep ==
  ASSUME HostInv, NEW c \in Caller, UNCHANGED status,
         Recv(c) \/ RecvNone(c) \/ RecvWithoutLua(c)
  PROVE  HostInv'
<1> USE DEF HostInv
<1>1. results[c] \in Seq(Result) /\ call[c] = "recv"
  BY DEF TrackerType, Recv, RecvNone, RecvWithoutLua
<1>2. <<>> \in Seq(Result)
  OBVIOUS
<1>3. UNCHANGED returns /\ StatusMap'
  BY DEF Recv, RecvNone, RecvWithoutLua, Returns, StatusMap
<1>4. \/ UNCHANGED value
      \/ results[c] # <<>> /\ value' = [value EXCEPT ![c] = Head(results[c])]
  BY DEF Recv, RecvNone, RecvWithoutLua
<1>5. value' \in [Caller -> Result \cup {"none"}]
  <2>1. results[c] # <<>> => Head(results[c]) \in Result
    BY <1>1, TailLast
  <2> QED
    BY <1>4, <2>1 DEF TrackerType
<1>6. CASE Returns(c)
  <2>1. /\ call' = [call EXCEPT ![c] = "returned"]
        /\ results' = [results EXCEPT ![c] = <<>>]
        /\ thread' = [thread EXCEPT ![c] = NoThread]
    BY <1>6 DEF Returns
  <2>2. results' \in [Caller -> Seq(Result)]
    BY <1>2, <2>1 DEF TrackerType
  <2>3. TrackerType'
    BY <1>3, <1>5, <2>1, <2>2 DEF TrackerType
  <2>4. \A d \in Caller : call'[d] \in {"new", "recv"} =>
          d # c /\ call[d] = call'[d] /\ results'[d] = results[d] /\ thread'[d] = thread[d]
    BY <2>1 DEF TrackerType
  <2>5. OwnResults'
    BY <1>3, <2>4 DEF OwnResults
  <2>6. OutputLast'
    BY <1>3, <2>4 DEF OutputLast, SenderKept, EndedItself, Last
  <2> QED
    BY <1>3, <2>3, <2>5, <2>6
<1>7. CASE /\ ~Ends(c) /\ results[c] # <<>> /\ results' = [results EXCEPT ![c] = Tail(@)]
           /\ UNCHANGED <<returns, call, thread>>
  <2>1. /\ Tail(results[c]) \in Seq(Result)
        /\ Tail(results[c]) # <<>> => Last(Tail(results[c])) = Last(results[c])
        /\ status[thread[c]] = "dead" => Tail(results[c]) # <<>>
    BY <1>1, <1>7, TailLast DEF Ends, Ended
  <2>2. TrackerType'
    BY <1>5, <1>7, <2>1 DEF TrackerType
  <2>3. \A d \in Caller : results'[d] = IF d = c THEN Tail(results[c]) ELSE results[d]
    BY <1>7 DEF TrackerType
  <2>4. OwnResults'
    BY <1>1, <1>7, <2>3 DEF OwnResults
  <2>5. ASSUME NEW d \in Caller, results[d] # <<>>, status[thread[d]] = "dead"
        PROVE  results'[d] # <<>> /\ Last(results'[d]) = Last(results[d])
    BY <2>1, <2>3, <2>5 DEF Last
  <2>6. OutputLast'
    BY <1>7, <2>5 DEF OutputLast, SenderKept, EndedItself, Last
  <2> QED
    BY <1>3, <2>2, <2>4, <2>6
<1> QED
  BY <1>6, <1>7 DEF Recv, RecvNone, RecvWithoutLua

\* a call starts with an empty channel, or with the error of an ended coroutine
LEMMA SpawnStep ==
  ASSUME HostInv, NEW c \in Caller, NEW t \in Thread, SpawnThreadAndWait(c, t)
  PROVE  HostInv'
<1> USE DEF HostInv
<1>1. /\ call[c] = "new"
      /\ returns' = [returns EXCEPT ![t] = c]
      /\ call' = [call EXCEPT ![c] = "recv"]
      /\ thread' = [thread EXCEPT ![c] = t]
      /\ results' = IF status[t] \in Ended THEN [results EXCEPT ![c] = <<"refused">>]
                                         ELSE results
      /\ UNCHANGED value
  BY DEF SpawnThreadAndWait, Track, Insert
<1>2. /\ StatusMap'
      /\ \A u \in Thread : status'[u] = "dead" => status[u] = "dead"
      /\ status[t] # "dead" => status'[t] # "dead"
  <2>1. CASE TM!TaskSpawn(t)
    <3>1. TM!Enter(t)
      BY <2>1 DEF TM!TaskSpawn
    <3> QED
      BY <3>1, EnterEffect
  <2>2. CASE UNCHANGED <<manager, coroutine>>
    BY <2>2 DEF manager, coroutine, StatusMap
  <2> QED
    BY <2>1, <2>2 DEF SpawnThreadAndWait
<1>3. <<"refused">> \in Seq(Result) /\ Len(<<"refused">>) = 1 /\ <<"refused">>[1] = "refused"
  BY DEF Result
<1>4. results' \in [Caller -> Seq(Result)]
  BY <1>1, <1>3 DEF TrackerType
<1>5. returns' \in [Thread -> Caller \cup {NoCaller}]
  BY <1>1 DEF TrackerType
<1>6. TrackerType'
  BY <1>1, <1>4, <1>5 DEF TrackerType
<1>7. /\ call'[c] = "recv" /\ thread'[c] = t
      /\ \A d \in Caller \ {c} : call'[d] = call[d] /\ thread'[d] = thread[d] /\ results'[d] = results[d]
      /\ \A u \in Thread : returns'[u] = IF u = t THEN c ELSE returns[u]
  BY <1>1 DEF TrackerType
<1>8. OwnResults'
  BY <1>1, <1>7 DEF OwnResults
<1>9. results[c] = <<>>
  BY <1>1 DEF OwnResults
<1>10. status[t] = "dead" => results'[c] # <<>> /\ Last(results'[c]) = "refused"
  BY <1>1, <1>3 DEF TrackerType, Last, Ended
<1>11. ASSUME NEW d \in Caller, call'[d] = "recv", returns'[thread'[d]] = d,
              status'[thread'[d]] = "dead"
       PROVE  results'[d] # <<>> /\ Last(results'[d]) \in Outputs
  <2>1. CASE d = c
    BY <1>2, <1>7, <1>10, <1>11, <2>1 DEF Outputs
  <2>2. CASE d # c
    <3>1. call[d] = "recv" /\ thread[d] = thread'[d] /\ results[d] = results'[d]
          /\ thread[d] \in Thread
      BY <1>7, <1>11, <2>2 DEF OwnResults
    <3>2. SenderKept(d) /\ EndedItself(d)
      BY <1>2, <1>7, <1>11, <2>2, <3>1 DEF SenderKept, EndedItself
    <3>3. results[d] # <<>> /\ Last(results[d]) \in Outputs
      BY <3>1, <3>2 DEF OutputLast
    <3> QED
      BY <3>1, <3>3 DEF Last
  <2> QED
    BY <2>1, <2>2
<1>12. OutputLast'
  BY <1>11 DEF OutputLast, SenderKept, EndedItself, Last
<1> QED
  BY <1>2, <1>6, <1>8, <1>12

\* a step that leaves the channels and the coroutines of the calls alone
LEMMA FrameStep ==
  ASSUME HostInv, TrackerType',
         UNCHANGED <<returns, results, thread, status>>,
         \A c \in Caller : call'[c] \in {"new", "recv"} => call[c] = call'[c]
  PROVE  HostInv'
BY DEF HostInv, StatusMap, OwnResults, OutputLast, SenderKept, EndedItself, Last

LEMMA HostInvStep ==
  ASSUME HostInv, [Next]_vars
  PROVE  HostInv'
<1> USE DEF HostInv
<1>1. CASE TaskManagerStep
  BY <1>1, ManagerStepEffect, ReportStep DEF TaskManagerStep
<1>2. ASSUME NEW t \in Thread, ResumeRefused(t) PROVE HostInv'
  <2>1. /\ OnResponse(t, "refused") /\ UNCHANGED <<status, current, firing>>
        /\ "refused" \in Result
    BY <1>2 DEF ResumeRefused, manager, coroutine, Result
  <2>2. /\ TrackerType' /\ UNCHANGED <<returns, call, thread>>
        /\ \A c \in Caller :
             IF returns[t] = c /\ call[c] = "recv"
             THEN results'[c] # <<>> /\ Last(results'[c]) = "refused"
             ELSE results'[c] = results[c]
    BY <1>2, <2>1, ResponseEffect
  <2>3. OwnResults' /\ StatusMap'
    <3>1. \A c \in Caller : call[c] = "new" => results'[c] = results[c]
      BY <2>2
    <3> QED
      BY <2>1, <2>2, <3>1 DEF OwnResults, StatusMap
  <2>4. ASSUME NEW c \in Caller, call[c] = "recv", SenderKept(c), EndedItself(c)
        PROVE  results'[c] # <<>> /\ Last(results'[c]) \in Outputs
    BY <2>2, <2>4 DEF OutputLast, Outputs, Last
  <2>5. OutputLast'
    BY <2>1, <2>2, <2>4 DEF OutputLast, SenderKept, EndedItself, Last
  <2> QED
    BY <2>2, <2>3, <2>5
<1>3. ASSUME NEW c \in Caller, NEW t \in Thread, SpawnThreadAndWait(c, t) PROVE HostInv'
  BY <1>3, SpawnStep
<1>4. ASSUME NEW c \in Caller, SpawnFails(c) PROVE HostInv'
  <2>1. /\ call[c] = "new" /\ call' = [call EXCEPT ![c] = "returned"]
        /\ results' = [results EXCEPT ![c] = <<>>]
        /\ thread' = [thread EXCEPT ![c] = NoThread]
        /\ UNCHANGED <<returns, value, status>>
    BY <1>4 DEF SpawnFails, Returns, manager, coroutine
  <2>2. <<>> \in Seq(Result)
    OBVIOUS
  <2>3. results' \in [Caller -> Seq(Result)]
    BY <2>1, <2>2 DEF TrackerType
  <2>4. TrackerType' /\ StatusMap'
    BY <2>1, <2>3 DEF TrackerType, StatusMap
  <2>5. \A d \in Caller : call'[d] \in {"new", "recv"} =>
          d # c /\ call[d] = call'[d] /\ results'[d] = results[d] /\ thread'[d] = thread[d]
    BY <2>1 DEF TrackerType
  <2>6. OwnResults'
    BY <2>1, <2>5 DEF OwnResults
  <2>7. OutputLast'
    BY <2>1, <2>5 DEF OutputLast, SenderKept, EndedItself, Last
  <2> QED
    BY <2>4, <2>6, <2>7
<1>5. ASSUME NEW c \in Caller, Receives(c) \/ ReceivesNone(c) PROVE HostInv'
  <2>1. UNCHANGED status
    BY <1>5 DEF Receives, ReceivesNone, manager, coroutine
  <2>2. Recv(c) \/ RecvNone(c) \/ RecvWithoutLua(c)
    BY <1>5 DEF Receives, ReceivesNone
  <2> QED
    BY <2>1, <2>2, RecvStep
<1>6. ASSUME NEW c \in Caller, Finishes(c) PROVE HostInv'
  <2>1. /\ call' = [call EXCEPT ![c] = "done"] /\ value' = [value EXCEPT ![c] = "none"]
        /\ UNCHANGED <<returns, results, thread, status>>
    BY <1>6 DEF Finishes, coroutine
  <2>2. TrackerType' /\ \A d \in Caller : call'[d] \in {"new", "recv"} => call[d] = call'[d]
    BY <2>1 DEF TrackerType
  <2> QED
    BY <2>1, <2>2, FrameStep
<1>7. CASE UNCHANGED vars
  <2>1. UNCHANGED <<returns, results, call, thread, value, status>>
    BY <1>7 DEF vars, manager, tracker, coroutine
  <2>2. TrackerType'
    BY <2>1 DEF TrackerType
  <2> QED
    BY <2>1, <2>2, FrameStep
<1> QED
  BY <1>1, <1>2, <1>3, <1>4, <1>5, <1>6, <1>7 DEF Next

LEMMA HostInvCorrect == Spec => []HostInv
<1>1. Init => HostInv
  <2> SUFFICES ASSUME Init PROVE HostInv
    OBVIOUS
  <2>1. StatusMap
    BY DEF Init, TM!Init, TM!CoroutineInit, StatusMap
  <2>2. <<>> \in Seq(Result)
    OBVIOUS
  <2>3. /\ returns = [t \in Thread |-> NoCaller] /\ results = [c \in Caller |-> <<>>]
        /\ call = [c \in Caller |-> "new"] /\ thread = [c \in Caller |-> NoThread]
        /\ value = [c \in Caller |-> "none"]
    BY DEF Init, TrackerInit
  <2>4. results \in [Caller -> Seq(Result)]
    BY <2>2, <2>3
  <2>5. TrackerType
    BY <2>3, <2>4 DEF TrackerType
  <2>6. OwnResults
    BY <2>3, CallerAssumption DEF OwnResults
  <2>7. OutputLast
    BY <2>3 DEF OutputLast
  <2> QED
    BY <2>1, <2>5, <2>6, <2>7 DEF HostInv
<1>2. HostInv /\ [Next]_vars => HostInv'
  BY HostInvStep
<1> QED
  BY <1>1, <1>2, PTL DEF Spec

(* When spawn_thread_and_wait returns while the Lua state lives, its        *)
(* coroutine has ended and the value is its output (or an error of a later  *)
(* attempt to resume it), never one of its yields, unless the coroutine did *)
(* not end by itself (coroutine.close or task.cancel closed it) or another  *)
(* call has tracked it since.                                               *)
THEOREM ReturnsOutputCorrect == Spec => ReturnsOutput
<1> DEFINE Output(c) ==
      Returning(c) /\ lua =>
        \/ status[thread[c]] = "dead" /\ value'[c] \in {"end", "refused"}
        \/ status[thread[c]] = "closed"
        \/ ~SenderKept(c)
<1>1. ASSUME HostInv, [Next]_vars, NEW c \in Caller PROVE Output(c)
  <2> SUFFICES ASSUME call[c] = "recv", call'[c] = "returned", lua,
                      status[thread[c]] # "closed", SenderKept(c)
               PROVE  status[thread[c]] = "dead" /\ value'[c] \in {"end", "refused"}
    BY DEF Returning
  <2>1. CASE Recv(c)
    <3>1. /\ status[thread[c]] = "dead" /\ Len(results[c]) = 1
          /\ results[c] # <<>> /\ value' = [value EXCEPT ![c] = Head(results[c])]
      BY <2>1 DEF Recv, Ends, Ended
    <3>2. Last(results[c]) \in Outputs
      BY <1>1, <3>1 DEF HostInv, OutputLast, EndedItself
    <3>3. Head(results[c]) = Last(results[c])
      BY <1>1, <3>1, TailLast DEF HostInv, TrackerType
    <3>4. value'[c] = Head(results[c])
      BY <1>1, <3>1 DEF HostInv, TrackerType
    <3> QED
      BY <3>1, <3>2, <3>3, <3>4 DEF Outputs
  <2>2. CASE TaskManagerStep
    <3>1. UNCHANGED call
      BY <2>2 DEF TaskManagerStep, Report, OnResponse, tracker
    <3> QED
      BY <3>1
  <2>3. ASSUME NEW t \in Thread, ResumeRefused(t) PROVE FALSE
    BY <2>3 DEF ResumeRefused, OnResponse
  <2>4. ASSUME NEW d \in Caller, NEW t \in Thread, SpawnThreadAndWait(d, t) PROVE FALSE
    BY <1>1, <2>4 DEF SpawnThreadAndWait, Track, HostInv, TrackerType
  <2>5. ASSUME NEW d \in Caller, SpawnFails(d) PROVE FALSE
    BY <2>5 DEF SpawnFails
  <2>6. ASSUME NEW d \in Caller, Finishes(d) PROVE FALSE
    BY <1>1, <2>6 DEF Finishes, HostInv, TrackerType
  <2>7. ASSUME NEW d \in Caller, d # c, Receives(d) \/ ReceivesNone(d) PROVE FALSE
    <3>1. UNCHANGED call \/ call' = [call EXCEPT ![d] = "returned"]
      BY <2>7 DEF Receives, ReceivesNone, Recv, RecvNone, RecvWithoutLua, Returns
    <3> QED
      BY <1>1, <2>7, <3>1 DEF HostInv, TrackerType
  <2>8. Receives(c) \/ ReceivesNone(c) => Recv(c)
    BY DEF Receives, ReceivesNone, RecvNone
  <2>9. CASE UNCHANGED vars
    BY <2>9 DEF vars, tracker
  <2> QED
    BY <1>1, <2>1, <2>2, <2>3, <2>4, <2>5, <2>6, <2>7, <2>8, <2>9 DEF Next
<1>2. HostInv /\ [Next]_vars => [\A c \in Caller : Output(c)]_vars
  BY <1>1
<1> QED
  BY <1>2, HostInvCorrect, PTL DEF Spec, ReturnsOutput

(* When the coroutine of a call has ended by itself and the tracker still   *)
(* sends to the call, its channel is not empty: the call does not wait for  *)
(* a result that was given to nobody, or that it has taken already.         *)
THEOREM NeverWaitsInVainCorrect == Spec => []NeverWaitsInVain
<1>1. HostInv => NeverWaitsInVain
  BY DEF HostInv, OutputLast, NeverWaitsInVain, EndedItself
<1> QED
  BY <1>1, HostInvCorrect, PTL
=============================================================================
