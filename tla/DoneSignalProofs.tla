--------------------------- MODULE DoneSignalProofs ---------------------------
(* The done channel of the send build, for any number of tasks and any      *)
(* backlog.                                                                 *)
EXTENDS DoneSignal, TLAPS

(* Why a parked loop tells the truth: the store of the last round is right  *)
(* about the queues, which only the loop changes; it is wrong about the     *)
(* channel only if an event has come since, which is then still there.      *)
StoreTellsTruth == pc = "store" /\ rx = 0 => (empty <=> queued = 0)

TopTellsTruth ==
  pc \in {"top", "select"} /\ rx = 0 /\ ~Pushes => (done <=> queued = 0)

\* before the first round the queues are empty, and only a push clears done
IdleIsEmpty ==
  pc = "idle" => queued = 0 /\ (rx = 0 /\ ~Pushes => done)

TruthInv == TypeOK /\ StoreTellsTruth /\ TopTellsTruth /\ IdleIsEmpty

LEMMA InitType == Init => TypeOK
<1>1. <<>> \in Seq(Task)
  OBVIOUS
<1>2. Init => waiters \in Seq(Task)
  BY <1>1, Zenon DEF Init
<1>3. Init => pushing \subseteq Task
  BY DEF Init
<1>4. Init => pc = "idle" /\ rx = 0 /\ queued = 0
  BY DEF Init
<1>5. Init => done \in BOOLEAN /\ is_cancelled \in BOOLEAN /\ empty \in BOOLEAN
  BY DEF Init
<1>6. 0 \in Nat
  OBVIOUS
<1> QED
  BY <1>2, <1>3, <1>4, <1>5, <1>6, Zenon DEF TypeOK

\* the types, for any set of tasks
THEOREM TypeCorrect == Spec => []TypeOK
<1>1. Init => TypeOK
  BY InitType
<1>2. TypeOK /\ [Next]_vars => TypeOK'
  <2> SUFFICES ASSUME TypeOK, [Next]_vars
               PROVE TypeOK'
    OBVIOUS
  <2> USE DEF TypeOK
  <2>1. ASSUME NEW t \in Task, PushClears(t) PROVE TypeOK'
    BY <2>1 DEF PushClears
  <2>2. ASSUME NEW t \in Task, PushSends(t) PROVE TypeOK'
    BY <2>2 DEF PushSends, Sent
  <2>3. ASSUME NEW t \in Task, WaitTillDone(t) PROVE TypeOK'
    BY <2>3 DEF WaitTillDone
  <2>4. CASE WaiterReturns
    BY <2>4 DEF WaiterReturns
  <2>5. CASE Stop \/ Unstop
    BY <2>5 DEF Stop, Unstop
  <2>6. CASE Exits \/ Starts \/ Selects
    BY <2>6 DEF Exits, Starts, Selects
  <2>13. CASE Drops
    BY <2>13 DEF Drops
  <2>7. CASE Receives
    BY <2>7 DEF Receives
  <2>8. CASE Fires
    BY <2>8 DEF Fires, MayFire
  <2>9. CASE LuaClears \/ LuaReturns
    BY <2>9 DEF LuaClears, LuaReturns
  <2>10. CASE LuaSends
    BY <2>10 DEF LuaSends, Sent
  <2>11. CASE Tests \/ Stores
    BY <2>11 DEF Tests, Stores, Stored
  <2>12. CASE UNCHANGED vars
    BY <2>12 DEF vars
  <2> QED
    BY <2>1, <2>2, <2>3, <2>4, <2>5, <2>6, <2>7, <2>8, <2>9, <2>10, <2>11, <2>12, <2>13
    DEF Next, Host, Loop
<1> QED
  BY <1>1, <1>2, PTL DEF Spec

\* the steps of the tasks of the host keep the truth of the last round
LEMMA HostStep ==
  ASSUME TruthInv, TypeOK', Host
  PROVE TruthInv'
<1> USE DEF TruthInv, TypeOK, StoreTellsTruth, TopTellsTruth, IdleIsEmpty, Pushes
<1>1. ASSUME NEW t \in Task, PushClears(t) PROVE TruthInv'
  BY <1>1 DEF PushClears
<1>2. ASSUME NEW t \in Task, PushSends(t) PROVE TruthInv'
  BY <1>2 DEF PushSends, Sent
<1>3. ASSUME NEW t \in Task, WaitTillDone(t) PROVE TruthInv'
  BY <1>3 DEF WaitTillDone
<1>4. CASE WaiterReturns \/ Stop \/ Unstop
  BY <1>4 DEF WaiterReturns, Stop, Unstop
<1> QED
  BY <1>1, <1>2, <1>3, <1>4 DEF Host

\* the steps of the loop establish it anew in each round
LEMMA LoopStep ==
  ASSUME TruthInv, TypeOK', Loop \/ LuaClears
  PROVE TruthInv'
<1> USE DEF TruthInv, TypeOK, StoreTellsTruth, TopTellsTruth, IdleIsEmpty, Pushes
<1>1. CASE Exits \/ Drops \/ Starts \/ Selects
  BY <1>1 DEF Exits, Drops, Starts, Selects
<1>2. CASE Receives \/ Fires
  BY <1>2 DEF Receives, Fires, MayFire
<1>3. CASE LuaClears \/ LuaSends \/ LuaReturns
  BY <1>3 DEF LuaClears, LuaSends, LuaReturns, Sent
<1>4. CASE Tests
  BY <1>4 DEF Tests
<1>5. CASE Stores
  BY <1>5 DEF Stores, Stored
<1> QED
  BY <1>1, <1>2, <1>3, <1>4, <1>5 DEF Loop

(* Whatever threads push around the bottom of the loop, a parked loop with  *)
(* no event to receive and no push under way has set done exactly when its  *)
(* queues are empty: a late store is mended in the next round.              *)
THEOREM ParkedTellsTruthCorrect == Spec => []ParkedTellsTruth
<1>1. Init => TruthInv
  <2>1. Init => StoreTellsTruth /\ TopTellsTruth /\ IdleIsEmpty
    BY DEF Init, StoreTellsTruth, TopTellsTruth, IdleIsEmpty
  <2> QED
    BY <2>1, InitType DEF TruthInv
<1>2. TruthInv /\ TypeOK' /\ [Next]_vars => TruthInv'
  <2> SUFFICES ASSUME TruthInv, TypeOK', [Next]_vars
               PROVE TruthInv'
    OBVIOUS
  <2>1. CASE Host
    BY <2>1, HostStep
  <2>2. CASE Loop \/ LuaClears
    BY <2>2, LoopStep
  <2>3. CASE UNCHANGED vars
    BY <2>3 DEF vars, TruthInv, TypeOK, StoreTellsTruth, TopTellsTruth, IdleIsEmpty, Pushes
  <2> QED
    BY <2>1, <2>2, <2>3 DEF Next
<1>3. TruthInv => ParkedTellsTruth
  BY DEF TruthInv, TopTellsTruth, ParkedTellsTruth
<1> QED
  BY <1>1, <1>2, <1>3, TypeCorrect, PTL DEF Spec

-----------------------------------------------------------------------------
(* What keeps wait_till_done from returning early.                          *)

(* No thread is within push_event between the emptiness test and the store. *)
QuietStore == pc = "store" => pushing = {}

Exiting == pc \in {"exiting", "exited"}

(* While done is set there is nothing to do and nobody is adding anything,  *)
(* and a test that found nothing is still true at the store.                *)
QuietInv ==
  /\ done /\ ~Exiting => rx = 0 /\ queued = 0 /\ pushing = {} /\ pc # "luasend"
  /\ pc = "store" /\ empty => rx = 0 /\ queued = 0

LEMMA QuietInductive ==
  ASSUME TypeOK, QuietStore, QuietInv, [Next]_vars
  PROVE  QuietInv'
<1> USE DEF TypeOK, QuietStore, QuietInv, Exiting
<1>1. ASSUME NEW t \in Task, PushClears(t) \/ PushSends(t) \/ WaitTillDone(t) PROVE QuietInv'
  BY <1>1 DEF PushClears, PushSends, WaitTillDone, Sent
<1>2. CASE WaiterReturns \/ Stop \/ Unstop \/ UNCHANGED vars
  BY <1>2 DEF WaiterReturns, Stop, Unstop, vars
<1>3. CASE Exits \/ Drops \/ Starts \/ Selects
  BY <1>3 DEF Exits, Drops, Starts, Selects
<1>4. CASE Receives \/ Fires
  BY <1>4 DEF Receives, Fires, MayFire
<1>5. CASE LuaClears \/ LuaSends \/ LuaReturns
  BY <1>5 DEF LuaClears, LuaSends, LuaReturns, Sent
<1>6. CASE Tests \/ Stores
  BY <1>6 DEF Tests, Stores, Stored
<1> QED
  BY <1>1, <1>2, <1>3, <1>4, <1>5, <1>6 DEF Next, Host, Loop

(* As long as no thread is within push_event between the emptiness test and *)
(* the store of done, wait_till_done returns only when nothing is left: the *)
(* window of send_early is the only one.  In the local build, where the     *)
(* loop does not give up its thread in between, it does not exist.          *)
THEOREM ReturnsWhenQuiet == Spec /\ []QuietStore => ReturnsWhenDone
<1> DEFINE NotEarly == Len(waiters') < Len(waiters) /\ pc \notin {"exiting", "exited"} =>
                         rx = 0 /\ queued = 0
<1>1. Init => QuietInv
  BY DEF Init, QuietInv
<1>2. TypeOK /\ QuietStore /\ QuietInv /\ [Next]_vars => QuietInv'
  BY QuietInductive
<1>3. TypeOK /\ QuietInv /\ [Next]_vars => [NotEarly]_vars
  <2> SUFFICES ASSUME TypeOK, QuietInv, Next, Len(waiters') < Len(waiters), ~Exiting
               PROVE  rx = 0 /\ queued = 0
    BY DEF Exiting
  <2>1. CASE WaiterReturns
    BY <2>1 DEF WaiterReturns, QuietInv
  <2>2. ASSUME NEW t \in Task, WaitTillDone(t) PROVE FALSE
    <3>1. Len(waiters') = Len(waiters) + 1
      BY <2>2 DEF WaitTillDone, TypeOK
    <3> QED
      BY <3>1 DEF TypeOK
  <2>3. CASE UNCHANGED waiters
    BY <2>3 DEF TypeOK
  <2>4. ASSUME NEW t \in Task, PushClears(t) \/ PushSends(t) PROVE UNCHANGED waiters
    BY <2>4 DEF PushClears, PushSends
  <2>5. CASE Stop \/ Unstop \/ Loop \/ LuaClears
    BY <2>3, <2>5 DEF Stop, Unstop, Loop, LuaClears, Exits, Drops, Starts, Selects, Receives,
                      Fires, LuaSends, LuaReturns, Tests, Stores
  <2> QED
    BY <2>1, <2>2, <2>3, <2>4, <2>5 DEF Next, Host
<1> QED
  BY <1>1, <1>2, <1>3, TypeCorrect, PTL DEF Spec, ReturnsWhenDone
=============================================================================
