# Verification of mlua_scheduler

TLA+ models, TLC runs and TLAPS proofs about `mlua_scheduler`, a task scheduler for
Luau coroutines on top of tokio. Source paths are relative to `src/crates/` of the
repository; `scheduler/src/` is left out where a file name is unique.

Contents: 1 inventory, 2 what is hard, 3 what makes each part correct, 4 the modules
and how they correspond to the code, 5 the runs, 6 the proofs, 7 what disagrees with
the comments and tests, 8 what is not modelled, 9 the plan.

## 1. Inventory

| Part | Source | State | Operations |
|---|---|---|---|
| v2 scheduler, `CoreScheduler` (default) | `taskmgr_v2.rs` | event channel, `done` watch channel, `is_running`, `is_cancelled`, set `cancel` of marked addresses; local to `run()`: delay queue, `wait_keys`, deferred channel, `known_deferred_threads`, futures | `run`, `push_event`, `cancel_task`, `stop`, `wait_till_done` |
| v1 scheduler, `TaskManagerInner` | `taskmgr_v1.rs` | binary heap of waiting coroutines, deque of deferred ones, counter `pending_asyncs`, `JoinSet`, flags | `run` (polling on a ticker), `process`, `incr_async`, `decr_async` |
| front end `TaskManager` | `taskmgr.rs` | a reference to either scheduler | `add_waiting_thread`, `add_deferred_thread`, `cancel_task`, `run_in_task`, `stop`, `unstop`, `clear`, `wait_till_done` |
| task library | `userdata.rs` | none | `task.wait`, `delay`, `defer`, `spawn`, `cancel`, patched `coroutine.resume` |
| async functions | `async.rs` | none | a call starts a future and yields; its completion resumes the coroutine |
| ext crate | `ext/src/*.rs` | `ThreadTracker`: address to result channel; exit code | `track_thread`, `on_response`, `spawn_thread_and_wait`, `exit_with_code[_clear]`, `push_thread` |
| command line tool | `cli/src/main.rs` | none | run, spawn scripts, wait until done, stop, drop Lua |
| wrappers | `lib.rs` | none | `XRc`, `XRefCell`, `XBool`, `XUsize`, `XId`, with a `send` and a local variant |

How the parts interact:

- A script calls the task library, which calls `TaskManager`. In the v2 build each
  call becomes an event on an unbounded channel (`push_event` clears `done`, then
  sends); in the v1 build it changes the queues directly. `task.cancel` goes past the
  event channel in both: it marks an address (v2) or filters the queues (v1), and then
  calls `coroutine.close`.
- The loop of the scheduler resumes coroutines from its queues. A coroutine that runs
  may call the library again, resume other coroutines, and yield: the schedulers and
  Lua call each other recursively on one stack.
- An async function hands its future to the v2 loop (`AddAsync`, polled in
  `FuturesUnordered`), or to the v1 `JoinSet`, where it is a tokio task of its own that
  resumes the coroutine itself.
- The host spawns `run()` with `run_in_task`, waits with `wait_till_done` (v2: the
  watch channel `done`; v1: a loop that polls `is_empty`), and ends with `stop` and by
  dropping the Lua state, which the schedulers hold weakly.
- Every resume reports its result to `SchedulerFeedback::on_response`, through which
  `ThreadTracker` feeds `spawn_thread_and_wait`.

## 2. What is hard

In the default build everything runs on one OS thread, so the hazards are not data
races but **what may happen at the points where control leaves the loop**: at an await
(`select!`, the drain of `Clear`; in v1 the ticker and `yield_now`), and inside each
resume, where scripts push events, cancel other coroutines, stop the scheduler or
resume a coroutine the loop is about to resume. Particular hazards, each with its line
in `PROJECT.json`:

- `done` is cleared by every push and set only at the bottom of the loop and at its
  exits: any path that skips the bottom (`continue`), or any push that is not cleared,
  makes `wait_till_done` hang or return early.
- A suspended coroutine is woken by exactly one entry, which travels over a channel, a
  queue and an arm: lost on the way, it sleeps for ever.
- Cancellation and deferral are keyed by address (`XId`): marks outlive coroutines, and
  addresses are used again.
- `wait_keys` is bookkeeping for a channel nobody sends on, but its subtraction
  `old_keys.len() - 1` is live code.
- The life cycle: two `run_in_task`, `stop` of a parked loop, `stop` then `unstop`,
  `clear`, events after the exit, the end of the Lua state at any await.
- v1: a counter of futures changed at distant places, with early returns and panics in
  between; a heap that is ordered in reverse; a deque used as a stack.
- The ext crate: results reach `spawn_thread_and_wait` over a channel, while the status
  of the coroutine is read when the call is polled; a yield that is read late looks like
  the output. The channels are found by address, and never forgotten.
- The `send` build: `push_event` and the bottom of the v2 loop each take two steps on
  different threads.

## 3. What makes each part correct

| Part | Correct when |
|---|---|
| v2 and v1 | no coroutine suspended in `task.wait` or in an async function loses the entry that wakes it; each is resumed when it is due; deferred coroutines run, in the order of deferral |
| `wait_till_done` | does not return while work is left, does return when none is |
| cancellation | takes out the coroutine it names, and no other |
| life cycle | `stop` ends the loop; a second `run()` is refused; the end of the Lua state ends the loop |
| async functions | each call is counted and discounted once, whatever becomes of its future |
| `ThreadTracker` | each result reaches the one who started that coroutine, and he does not wait for a result that cannot come |

## 4. The modules

| Module | Role |
|---|---|
| `Scheduler` | what a task manager promises: the abstract specification of both schedulers |
| `Coroutines` | the Lua side that both schedulers share: status of each coroutine, which one runs, who resumed whom |
| `TaskManagerV2` | the v2 scheduler with the task library, the async functions and the host around it |
| `TaskManagerV1` | the v1 scheduler, the same |
| `TaskManagerV2Refinement`, `TaskManagerV1Refinement` | how the queues of either stand for promises, and the property that it implements `Scheduler` |
| `ThreadTracker` | the tracker of the ext crate and the calls of `spawn_thread_and_wait` |
| `Host` | `TaskManagerV2` and `ThreadTracker` composed into a program, as the command line tool does |
| `DoneSignal` | the `done` channel of v2 in the `send` build |
| `SchedulerProofs`, `TaskManagerV2Proofs`, `TaskManagerV2RefinementProofs`, `TaskManagerV1Proofs`, `TaskManagerV1RefinementProofs`, `HostProofs`, `HostManagerProofs`, `DoneSignalProofs` | theorems |
| `MCTaskManagerV2`, `MCTaskManagerV1` | symmetry for TLC |

Who uses whom: the two task managers and `Scheduler` extend `Coroutines`; the refinement
modules extend a task manager and instantiate `Scheduler` with a mapping of its
variables; `Host` extends `ThreadTracker` and instantiates `TaskManagerV2`; `DoneSignal`
stands alone. Each proof module extends the module it is about. The proof modules of the
refinements also instantiate `SchedulerProofs`, and `HostManagerProofs` instantiates
`TaskManagerV2Proofs`: what is proved of a part is cited of the whole.

### 4.1 Coroutines

`status[t]` is `free` (no coroutine at that address), `active` (running, or has resumed
another), `yielded` (not started, or in `coroutine.yield`), `waiting` (in `task.wait`),
`awaiting` (in an async function), `dead` (it has returned or raised an error) or `closed`
(`coroutine.close` has ended it, called by a script or by `task.cancel`). mlua knows only
"resumable" where the model has three kinds of suspended coroutines, and "finished" or
"error" where it has `dead` and `closed` (`Ended`); the distinctions are there so that a
property can say what a coroutine is waiting for and whether it has an output. No guard
of a scheduler tells them apart. `Resume` does nothing to a coroutine that
cannot be resumed, as mlua returns an error; `Close` spares a coroutine that is active,
as `coroutine.close` raises an error.

### 4.2 TaskManagerV2

One step is one piece of code between two points where another actor can act. `pc` says
where `run()` stands: `idle` (never started), `top`, `select` (parked in `select!`),
`lua` (inside a resume), `bottom` (the update of `done`), `drain` (awaiting in `Clear`),
`exited`. `top` and `bottom` are steps of their own, without other actors in between,
so that each action matches a block of the code.

| Code | Model |
|---|---|
| `rx`, with `push_event` | sequence `rx`, `PushEvent`; after the exit the receiver is gone and a send is lost |
| `DelayQueue` | set `wait_queue` of entries with a `key`, a slot that no other entry holds; any entry may expire at any time |
| `wait_keys` | a set of keys for each address; an absent record and an empty one coincide (only an empty one makes the code underflow; `KeysRecorded` excludes both) |
| deferred channel, `known_deferred_threads` | sequence `deferred_queue`, set of addresses |
| `FuturesUnordered` | `async_queue[t]`, the number of futures of `t`; any may complete at any time |
| `cancel` | the set of marked addresses |
| `done_tx` | `done` |
| arms of `select!` | `Recv*` for events, `SkipWait`/`FireWait`, `SkipDeferred`/`DropDeferred`/`FireDeferred`, `FireAsync`, `ArmReturns` (the Lua state is gone) |
| code after a resume | `AfterResume` |
| lines 359-368 | `Bottom` with `NothingPending` |
| line 199, `to_pointer` before the Lua state is upgraded | `RecvDeferred`, or, when the state is gone, `RecvDeferredPanics`: what mlua does then is not in the repository, so that both may happen; the panic drops what the future owns and leaves `is_running` and `done` as they are |
| `coroutine.close` of a script (`examples/order.luau:48`, `tests/task.luau:85`) | `CoroutineClose`: no mark is set, and the entries of the coroutine stay |
| `run_in_task`, `take().expect` | `RunInTask`, `RunPanics`, `RunRefused`, `RunStarts` |

`Calls` names the calls that scripts and the host make in an instance: a run chooses a
part of the interface, and a theorem can say "in a program that never calls cancel".
`Collect` is the garbage collector together with the allocator: an address of an ended
coroutine that no queue refers to may be given to a new one. `Dropped` is what becomes
of the variables of `run()` when its future ends, by a return or by a panic. One variable
has no counterpart in the code and only serves properties: `targeted`, the coroutines named by
some `task.cancel`. A second `run()` panics in `take().expect` (`RunPanics`); as the
executor catches the panic of a task, nothing else changes.

### 4.3 TaskManagerV1

`pc` is `idle`, `top`, `waiting` and `deferred` (the two loops of `process`), `resume`
(inside a resume), `yield_now` (the await after it) or `ticker`; `loop` remembers to
which loop control returns. Entries of the heap carry `wake_at` on a bounded clock, so
that "the earliest entry is on top" is part of the model (`DueFirst`); equal times are
popped in any order, as a binary heap gives no guarantee. Futures are tasks of their
own (`AsyncEnds`, `AsyncPanics`), and so is the caller of `wait_till_done` (`waiter`).
`CoroutineClose` is as in v2: the entries stay, and the loop drops them when it meets them.
`lost` records the futures that ended without `decr_async`.

### 4.4 Scheduler and the two refinements

`Scheduler` has no queues and no loop. `owed` is a set of promises, each a coroutine and
what it was promised for (`waiting`, `deferred`, `awaiting`). `Suspend` and `Schedule`
make a promise; `Deliver` resumes the coroutine of a promise, and only when no other
coroutine runs; `Discard` drops a promise, but only of a cancelled coroutine or without
a Lua state, and never the promise of a future; `CloseDown` drops everything when the
loop ends; `Announce` sets `finished`, but only when nothing is owed or after `stop`;
`Collect` gives the address of an ended coroutine to a new one, but only when nothing is
owed to it, and the new one has not been cancelled. `CoroutineClose` touches no promise.

`clear` is a call (`Clear`). With `ClearsAtOnce` (v1) it drops the promises there and then,
those of futures excepted. Without it (v2) the call only makes `clearing` true, and the
promises go at a later step of the task manager, `TakesEffect`, which uses `clearing` up:
in v2 this is the receipt of the `Clear` event. At every other moment a promise is as safe
with `clear` among the calls as without.

So a step of an implementation that loses an entry, resumes a coroutine nobody asked
for, resumes one while another runs, or reports done too early is a step that
`Scheduler` does not have, in `v2_core` (which has `clear`) as in the other runs.

| `Scheduler` | v2 | v1 |
|---|---|---|
| `owed`, waiting | an event `Wait` in the channel, or an entry of the delay queue | an entry of the heap |
| `owed`, awaiting | an event `AddAsync`, or a future in `FuturesUnordered` | a future in the `JoinSet`, or one that was never discounted |
| `owed`, deferred | an event `DeferredThread`, or an entry of the deferred channel whose address is known | an entry of the deque |
| `cancelled` | coroutines named by some `task.cancel` | none: the queues are filtered at once |
| `finished` | `done` | `wait_till_done` has returned |
| `open` | `run()` has not exited | always |
| `clearing` | a `Clear` event is in the channel of a loop that is not in the drain | never: `clear` empties the queues itself |

The deferred promises of v2 are a set by coroutine: a coroutine deferred twice before
it runs is owed one resume, and `known_deferred_threads` is why (section 7).

### 4.5 ThreadTracker and Host

| Code | Model |
|---|---|
| `returns` | `returns[t]`, the call whose sender is kept for the address `t`; `Insert` replaces |
| the unbounded channel | `results[c]`, a sequence of `yield`, `end` and `refused` (an error at once: the coroutine cannot be resumed) |
| `on_response` | `OnResponse`; nothing arrives when the receiver is gone |
| `spawn_thread_and_wait` | `Track` (track, first resume), `Recv`, `RecvNone`, `RecvWithoutLua`; `value[c]` is the last result received |
| `thread.status()`, `rx.is_empty()` | `Ends` |

`Host` puts this on top of `TaskManagerV2`. A step of the task manager in which a
coroutine leaves (yields or ends) is the return of a resume, and reports its result
(`Report`); an arm that resumes a coroutine that cannot be resumed reports `refused`,
except that the async arm first looks at the status. A call of `spawn_thread_and_wait`
keeps its coroutine from being collected (`Held`); afterwards the address may be used
again, and the tracker then still has the old sender.

The command line tool runs one script after the other, each on a new coroutine. `Host`
allows more: calls are tasks of their own, at the same time, and on any coroutine,
another call's included. A script may close with `coroutine.close` what another call
waits for. What holds of `Host` holds of the tool. `Finishes` is the end
of `main`: `wait_till_done` has returned, and after the last script `stop` and the drop
of the Lua state follow in the same poll.

### 4.6 DoneSignal

In the `send` build other threads call `push_event` and `wait_till_done` while the loop
runs. `push_event` has two steps (`PushClears`, `PushSends`), so has the bottom of the
loop (`Tests`, `Stores`), and so have the exits (`Exits`, `Drops`). `rx` and `queued`
are numbers, because which coroutine an event is for does not matter to `done`.
`waiters` is the queue of the tokio `RwLock`: `wait_till_done` takes the write lock and
waits for `done` while it holds it.

## 5. The runs

`passing` runs check what the code guarantees, `violation` runs (section 7) what a
comment or test says and the code does not do. Deadlock is not checked: once the loop
has exited, or with every coroutine dead, a program may stop.

| Run | Question | Bounds |
|---|---|---|
| `v2_core` | scripts and the host against the loop: `TypeOK`, `NobodyForgotten`, `DoneMeansNoWork`, `DoneMeansNobodySuspended`, `KeysRecorded`, `WaitEntryResumes`, `DeferredInOrder`, `ImplementsScheduler`. Every call but `collect` and a plain `coroutine.yield` | 2 coroutines, 2 slots, 2 pending entries, 1 `run()` task |
| `v2_live` | two `run()` and addresses used again: `IdleMeansDone`, `ImplementsScheduler`, and `WaiterIsResumed`, `DeferredIsTaken`, `StopWithWorkExits` under `FairSpec`. Calls: wait, defer, yield, stop, unstop, drop, collect | the same, 2 `run()` tasks |
| `v1_core` | scripts, the polling loop, the clock, futures that may panic and a caller of `wait_till_done`: `TypeOK`, `NobodyForgotten`, `AsyncsCounted`, `ReturnsWhenDone`, `ImplementsScheduler`. Every call but stop, unstop and clear | 2 coroutines, 2 entries, 2 futures, 2 deferrals, delays of 0 and 1, clock to 1 |
| `v1_live` | `WaiterIsResumed`, `StopExits`, `StopReleasesWaiter` under `FairSpec`, with coroutines that defer themselves and delay themselves by nothing. Calls: wait, delay, defer, yield, stop, unstop, clear | 2 coroutines, 2 entries, 1 deferral, delays of 0 (a wait lasts 1), clock to 1 |
| `host` | two calls of `spawn_thread_and_wait` on the v2 loop: `TypeOK`, `NeverWaitsInVain`, `ReturnsOutput`, `FinishLeavesNobody`, and `CallReturns` under `FairSpec`. Calls: async, close, drop, collect | 2 coroutines, 2 calls, 1 slot, 1 pending entry, 2 results not received |
| `send` | `TypeOK`, `ParkedTellsTruth`, `WaitersReturn` under `FairSpec` | 3 tasks, 3 pending events |

What the properties say:

- `DoneMeansNoWork`, `DoneMeansNobodySuspended` (v2): when `done` is set, the four
  queues are empty, and no coroutine is suspended without being cancelled: `wait_till_done` does
  not return early. The second needs, besides the first, that no coroutine is suspended
  without an entry.
- `IdleMeansDone` (v2): it does return, when the loop is parked with nothing to do. It
  holds only in programs that never call `task.cancel` (section 7).
- `ImplementsScheduler`: every step of the loop, of a script or of the host is a step of
  `Scheduler` under the mapping of 4.4, or changes nothing that `Scheduler` sees. It is
  checked as a property of the specification, and proved (section 6).
- `NobodyForgotten`: the entry of a suspended coroutine exists until it runs again. In
  v2 a coroutine that a `task.cancel` named is excepted, because a mark on a running
  coroutine does lose its next entry (section 7). In v1 a coroutine in an async function
  has a future that *still runs*; excepted is only one of whose futures has panicked, and
  that only where futures can panic (`Stranded`): it is suspended for ever.
- `KeysRecorded`: every key of the delay queue is recorded, and so is the key that an
  arm is about to take out, although the coroutine it resumed may have done anything.
- `WaitEntryResumes`: an entry leaves the delay queue by resuming its coroutine.
- `DeferredInOrder`: `Line` is the one line that the event channel and the deferred queue
  make together, as a set of places and who stands at them (an event stands behind the
  whole queue, at a place that counts the deferrals before it). A step changes the line
  only by adding somebody at its end, or by taking the first, when all others move on by
  one place; receiving an event does not change it.
- `DeferredIsTaken`, `WaiterIsResumed`, `StopWithWorkExits` (v2): liveness.
- `WaiterIsResumed` and `StopExits` (v1) have a premise, `AtOnceCeases`: from some time on
  nothing is added to the deque, and nothing to the heap that is due at once. It is there
  because the code needs it. `process()` empties the deque (`taskmgr_v1.rs:132`) before it
  returns, so that a coroutine that defers itself each time it runs keeps it from ever
  looking at the heap again and from `is_cancelled` at line 83; a coroutine that delays
  itself by nothing does the same at line 101. Both are in the run, and without the premise
  TLC finds them. (As far as it speaks of delays, `WaiterIsResumed` needs the premise only
  because the clock of the model stops: with real time an older entry is on top of the heap
  in the end.)
- `StopReleasesWaiter` (v1) has no premise: whoever is in `wait_till_done` returns after
  `stop`, even when the loop itself never exits, because it reads `is_cancelled` on its own.
- `AsyncsCounted` (v1): `pending_asyncs` is the number of futures that are running or
  ended without being discounted, so that it is never decremented at zero and
  `is_empty` never overlooks a future.
- `ReturnsWhenDone` (v1): the polling `wait_till_done` returns only after `stop`, or with
  no coroutine deferred or suspended. The README of the repository (line 44) warns of an
  early return; in the local build there is none, because an entry is popped and its
  coroutine resumed with no await in between. The warning concerns the send build
  (section 8).
- `ReturnsOutput` (`Host`): when `spawn_thread_and_wait` returns while the Lua state
  lives, its coroutine has ended and the value is the output, although yields may have
  piled up in the channel. Excepted are a coroutine that did not end by itself but was
  closed, by `coroutine.close` or by `task.cancel` (its last result is a yield), and one
  that another call has tracked since. An error of a later
  attempt to resume the ended coroutine may stand in for the output.
- `NeverWaitsInVain` (`Host`): a call that still waits although its coroutine has ended
  by itself has a result to read: it does not wait for one that cannot come.
- `CallReturns` (`Host`): when the coroutine has ended by itself, the call returns. It also
  returns when the coroutine was closed, or the Lua state is gone, and a result is left in
  the channel. (With nothing in the channel a call on a closed coroutine waits for ever,
  section 7.) The exception was found by TLC: a script that tries to resume the ended
  coroutine again and again adds errors to the channel, so that `rx.is_empty()` is false
  each time the call looks.
- `FinishLeavesNobody` (`Host`): when the tool stops the task manager, no coroutine is
  left suspended in `task.wait` or in an async function.
- `ParkedTellsTruth` (`DoneSignal`): the store of `done` may come late and overlook an
  event, but then that event is in the channel, and the round that receives it stores
  the right value. So a loop parked with nothing to receive and no push under way has
  `done` set exactly when its queues are empty.
- `WaitersReturn` (`DoneSignal`): every caller of `wait_till_done` returns in its turn,
  if the pushes cease and the loop does not exit.

Bounds and why they are enough:

- **Two coroutines** are the smallest number for which one can resume, cancel or starve
  another; the code never relates three (queues hold entries of single coroutines).
  What the proofs cover they cover for any number.
- **`MaxBacklog`** bounds the entries in the v2 scheduler: two allow one entry in the
  channel behind another, two entries of one coroutine in one queue, and one entry in
  each of two queues. Pushes beyond the bound are not taken; the guard is in `PushEvent`.
  In `host` one entry is enough: what is new there are results, not entries.
- **`Key`/`Slot`** with two values lets a slot be used again while a stale key of it is
  recorded. **`MaxRuns`** = 2 in `v2_live` gives the second `run()`.
- **`MaxTime`** of the v1 clock is one: a wait lasts one unit and a delay zero or one, so
  that entries that are due, due later and due together exist at the same time. The clock
  stops at the bound; a wait that would end after it is not taken, which in the liveness
  run only ends a behaviour early (a coroutine can still yield or end).
- **`MaxDeferred`** bounds the v1 deque. One is enough for a coroutine to defer itself for
  ever: its entry is popped before it runs.
- **Calls left out of `v1_live`**: async functions (their coroutines are not in the heap,
  and futures need not end), `coroutine.close` and `task.cancel` (they only take entries
  away, or turn them into entries that are dropped), and the end of the Lua state, which
  is read together with `is_cancelled`. They multiply the states of a liveness check;
  `v1_core` and the theorems have them.
- **`MaxResults`** bounds a result channel: two is the least for which a yield is read
  with the output behind it. A coroutine is not resumed while its channel is full.
- **`Caller`** of two: one call can track the coroutine of the other. `task.wait` is left
  out of `host`: its arm resumes and reports as the async arm does, and more entries only
  multiply the states. So is `task.cancel`, which closes a coroutine as
  `coroutine.close` does (that call is in the run): with addresses used again, a stale mark (section 7) makes
  `FinishLeavesNobody` fail for a coroutine that nobody cancelled. The theorems cover both: the one about
  `ReturnsOutput` cancellation, the one about `FinishLeavesNobody` cancellation without
  addresses used again, and both `task.wait`.
- **`Task`** of three in `send`: one holds the lock, one waits for it, one pushes.

Fairness, and why the code justifies it: the executor polls a ready task (weak fairness
of the loop's own steps, strong fairness of the task's turn, since at an executor turn
other tasks may run first); `select!` without `biased` starts at a random arm, so an arm
that is ready again and again is taken (strong fairness of each group of arms, and of the
entries of each coroutine in the delay queue, which all expire); a coroutine that runs
yields or ends at some time, because a script that never does holds the only OS thread
for ever and no scheduler could help. The host is assumed to call
`run_in_task` in the end, if it can, and in v1 to go on polling in `wait_till_done`. No
fairness is assumed for futures, for `stop`,
or for any call of a script. In v1 the ticker ticks and time passes.

`Host` needs less: the loop goes on between two awaits, a coroutine that runs leaves, and
a call with something in its channel is polled (strong fairness, as above). Nothing is
assumed of timers, futures or of the scripts. `DoneSignal`: every thread goes on, so that
a push that has begun ends, the lock is handed on, and the loop is polled (weak fairness
of its steps together, so that an entry of its queues fires at some time).

## 6. The proofs

The proofs hold for every set of coroutines, slots, futures, tasks and calls, every bound
and every choice of `Calls`, except where an assumption is named.

| Module | Theorem | Property | Assumption |
|---|---|---|---|
| `TaskManagerV2Proofs` | `TypeCorrect` | `TypeOK` | |
| | `DoneCorrect` | `DoneMeansNoWork` | |
| | `KeysCorrect` | `KeysRecorded` | |
| | `DeferredInOrderCorrect` | `DeferredInOrder` | |
| | `ForgottenCorrect` | `NobodyForgotten` | `MarksMeetTheirOwn` |
| | `DoneMeansNobodySuspendedCorrect` | `DoneMeansNobodySuspended` | `MarksMeetTheirOwn` |
| | `WaitEntryResumesCorrect` | `WaitEntryResumes` | `MarksMeetTheirOwn` |
| | `IdleMeansDoneCorrect` | `IdleMeansDone` | no script cancels (`"cancel" \notin Calls`) |
| | `EveryWaiterHasEntryCorrect` | `EveryWaiterHasEntry` | no script cancels |
| | `DeferredEntryResumesCorrect` | `DeferredEntryResumes` | `MarksMeetTheirOwn`, and `DefersOnce`: nobody is deferred who is in line already |
| `TaskManagerV2RefinementProofs` | `V2ImplementsScheduler` | `ImplementsScheduler` | `MarksMeetTheirOwn` |
| | `V2FinishesWithNobodySuspended` | `FinishesWithNobodySuspended` (not a run of its own: `DoneMeansNobodySuspended` is stronger) | `MarksMeetTheirOwn` |
| `SchedulerProofs` | `SchedulerTypeCorrect`, `SchedulerForgetsNobody`, `SchedulerFinishes` | of `Scheduler` | |
| `TaskManagerV1Proofs` | `TypeCorrect` | `TypeOK` | |
| | `AsyncsCorrect` | `AsyncsCounted` | |
| | `ForgottenCorrect` | `NobodyForgotten` | nobody calls clear (`"clear" \notin Calls`) |
| | `ReturnsWhenDoneCorrect` | `ReturnsWhenDone` | the same |
| `TaskManagerV1RefinementProofs` | `V1ImplementsScheduler` | `ImplementsScheduler` | |
| | `V1FinishesWithNobodySuspended` | `FinishesWithNobodySuspended` (not a run of its own: `ReturnsWhenDone` is stronger) | |
| `HostProofs` | `ReturnsOutputCorrect` | `ReturnsOutput` | |
| | `NeverWaitsInVainCorrect` | `NeverWaitsInVain` | |
| `HostManagerProofs` | `HostTypeCorrect` | `TypeOK` | |
| | `ManagerInHostCorrect` | `TM!DoneMeansNoWork`, `TM!KeysRecorded` | |
| | `HostForgetsNobody` | `TM!NobodyForgotten` | `MarksMeetTheirOwn` |
| | `FinishLeavesNobodyCorrect` | `FinishLeavesNobody` | `MarksMeetTheirOwn` |
| `DoneSignalProofs` | `TypeCorrect`, `ParkedTellsTruthCorrect` | `TypeOK`, `ParkedTellsTruth` | |
| | `ReturnsWhenQuiet` | `ReturnsWhenDone` | no push is under way at the store of `done` (`[]QuietStore`) |

`MarksMeetTheirOwn` is `"collect" \notin Calls \/ "cancel" \notin Calls`: the program
does not both cancel coroutines and use addresses again. With both, a mark that no entry
used up hits the next coroutine at its address (section 7), and the properties fail.
Each theorem with this assumption so covers every program without `task.cancel`, however
addresses are used, and every program with it as long as no address returns.

**v2.** Type correctness is inductive by itself, with one lemma for each group of
helpers (`Enter`, `Leave`, `Resume`, `PushEvent`). None of the others is:

- `done` is set while the loop is at `top`, `bottom` or in a resume, and it is the
  position of `run()` that says whether the queues can have changed since. The
  strengthening says that whenever `done` holds nothing is pending; it survives a push
  because `push_event` clears `done`, and survives an arm because an arm needs a
  pending entry.
- `KeysRecorded` needs that slots are used by one entry at a time, and that the slot of
  the entry being fired is not used again before `AfterResume` (events are only received
  at `select`).
- `NobodyForgotten` needs that `current`, `resumer` and `status` agree, so that the
  coroutine that `Leave` suspends is the one that pushed the event; and that `cancel` is a
  subset of `targeted`. That subset is kept by `Collect`, which takes an address out of
  `targeted` and leaves `cancel`, only where nothing is ever marked: hence the assumption,
  and with it the second half of `MarksTargeted`.
- `DoneMeansNobodySuspended` follows from the two before it.
- `DeferredInOrder` is proved action by action, from types alone. The places of events are
  cardinalities, so the lemmas `PlaceAppend` and `PlaceTail` say how `Append` and `Tail`
  change them: the first by counting a new element, the second by a bijection between the
  deferrals of the channel and of its tail. `LinePush`, `LineReceive` and `LineTake` then
  say what each kind of step does to the line.
- `IdleMeansDone` needs that `done` is up to date when the loop is at `top`. The only
  step that breaks this is a skipped entry, which requires a mark, hence a cancel.

Four properties that the code violates (section 7) are proved of the programs that avoid
the defect, which shows that nothing else causes it. `IdleMeansDone` and
`EveryWaiterHasEntry` hold without `task.cancel`. `DeferredEntryResumes` holds of programs
that satisfy `DefersOnce`; its invariant says that nobody is in line twice, that everybody
in the queue is known, and that the coroutine being resumed is not in the queue, so that
forgetting its address after the resume hits nobody else. `ReturnsWhenDone` of the `send`
build holds as long as no `push_event` is under way between the test and the store.

**Refinement.** For each scheduler, lemmas say what a queue operation does to the set of
promises: a push adds one, taking an entry out removes at most one, everything else
leaves it. Then each action is matched with one action of `Scheduler` or with a stutter.
v2 needs, besides the invariants above, that an unstarted loop has empty queues, that
nothing is firing outside a resume, and that a `Clear` event in the channel comes from a
call of `clear` that has not taken effect: `Clearing` becomes true by that call, and
it becomes false only when the event is received, after which the loop stays in the drain
for ever, or when the loop ends. The promise of a deferred coroutine needs care: the entry leaves the queue when it fires,
but its address leaves `known_deferred_threads` only after the resume. The mapping
therefore does not count the address that is being fired, and an entry of the same
coroutine behind it stops being a promise at the resume, which is a delivery. v1 needs
no assumption at all: cancelled entries leave the queues at once, and futures that are
never discounted count as owed for ever, as `pending_asyncs` does.

With the refinements proved, a property of `Scheduler` need be proved only once.
`SchedulerFinishes` says of `Scheduler` that it never becomes finished with somebody
suspended, from its inductive invariant (a suspended coroutine that was not cancelled is
owed its resume, and no clear is pending unless one was called).
`V1FinishesWithNobodySuspended` and `V2FinishesWithNobodySuspended` cite it through the
instance `SchedP` of `SchedulerProofs`, under the mapping of 4.4, and the refinement
theorems do the rest. So one argument covers both an early set of the
channel `done` and an early end of the polling loop.

**v1.** `TypeOK` rests on `AsyncsCounted`: the counter is a natural number because it is
the size of a set, and `decr_async` is called for a member of it. `AsyncsCounted` needs
that the running and the lost futures are finite sets with nothing in common.
`NobodyForgotten` is inductive by itself as long as nobody calls `clear`: every step that
takes an entry out of a queue either resumes its coroutine at once, closes it, or finds
it ended or without a Lua state; and a future leaves the executor by resuming its coroutine,
without a Lua state, or by a panic, which is `Stranded`. `ReturnsWhenDone` follows from it
at the step that finds all queues empty and the counter at zero.

**Host.** A call returns at `Ends`: its coroutine has ended, and one result is left. The
strengthening says that this result is the output. The last element of the channel of a
call whose coroutine is `dead` is an `end` or a `refused`: a coroutine becomes `dead` only
by leaving, and the same step appends `end`; afterwards only errors can follow. That needs
that the tracker sends to a call nothing but results of its own coroutine, that only
the current coroutine becomes `dead` (`coroutine.close` and `task.cancel` make a suspended
one `closed`, and spare every other, a dead one included), and that an ended coroutine that
a call holds stays ended (it is not collected). `NeverWaitsInVain` needs the same of a call that
still waits: the channel of such a call is not empty, because the call returns at the very
receive that empties it.

`HostManagerProofs` lifts the invariants of the task manager to the program. Its one
argument is `HostStep`: each step of `Host` is a step of `TaskManagerV2`, leaves its
variables alone, or is `Finishes`, which changes two flags. So each invariant that
`TaskManagerV2Proofs` shows to be inductive is inductive in `Host` (`ManagerInv`), and
`DoneMeansNobodySuspended`, read at the step `Finishes`, is `FinishLeavesNobody`.

**DoneSignal.** The outcome of the emptiness test is true to the queues as long as the
channel is empty at the store, because only the loop changes its queues, and events leave
the channel only by the loop. From the store to `select!` only a push can make `done`
false, and a completed push leaves its event in the channel.

The runs follow the same division as the assumptions: `v2_core` has `cancel` and no
`collect`, `v2_live` and `host` the reverse. Both together, with stale keys at addresses and slots
that are used again, are covered by `KeysCorrect` and `DeferredInOrderCorrect`.

Every safety property of the passing runs, invariant or action property, is stated by a
theorem. Only model-checked is what depends on fairness: `WaiterIsResumed`,
`DeferredIsTaken`, `StopWithWorkExits`, `StopExits`, `StopReleasesWaiter`, `CallReturns` and `WaitersReturn`;
liveness is out of the reach of the provers here.

## 7. Where the code does not do what a comment or test says

Each of these is a run that TLC finds violated; the quoted line is in `PROJECT.json`.

| Run | Property | What happens |
|---|---|---|
| `v2_cancel_idle` | `IdleMeansDone` | a skipped cancelled entry bypasses the update of `done`: `wait_till_done` hangs |
| `v2_cancel_running` | `EveryWaiterHasEntry` | `task.cancel` of a running coroutine raises, but its mark stays: the entry of its next `task.wait` is skipped, and it never returns |
| `v2_defer_twice` | `DeferredEntryResumes` | a coroutine deferred twice is resumed once |
| `v2_stop_clear` | `StopAndClearExits` | `exit_with_code_clear` makes the loop wait for ever in `Clear` |
| `v1_defer_starves` | `DeferredRuns` | a coroutine that defers itself again runs before those deferred earlier, for ever |
| `send_early` | `ReturnsWhenDone` | send build: an event sent between the emptiness test and the store of `done` is overlooked, and `wait_till_done` returns while it is queued |

Further exceptions are visible in the shape of the passing properties, where they are
carved out:

- `DeferredInOrder`: v2 deferral is to the back of the queue, where the comment at
  `taskmgr.rs:134` says front; v1 deferral is last in, first out, where
  `ext/src/traits.rs:56` says back.
- `targeted` in `NobodyForgotten`, and the assumption `MarksMeetTheirOwn` of its theorem:
  a mark that no entry used up hits a later coroutine with the same address.
- the premise of `StopWithWorkExits`: `stop` does not wake a loop parked in `select!`
  with nothing pending.
- `LoopAlive` in `DoneMeansNobodySuspended`: an event pushed after the exit clears `done`,
  and nothing sets it again.
- `RunPanics`: a second `run()`, or one after `stop` and `unstop`, panics in
  `take().expect` (line 147) and never reaches the quick exit of line 163.
- the exceptions of `ReturnsOutput`, `NeverWaitsInVain` and `CallReturns` (section 5): a
  coroutine that a script closes with `coroutine.close`, or cancels, while it is suspended
  reports nothing, so that the call of `spawn_thread_and_wait` that holds it waits for ever,
  or returns a yield that was queued; one that is tracked again leaves the first call
  without its output.
- the premise `AtOnceCeases` of `StopExits` (v1): a stopped loop with a coroutine that defers
  itself never exits, where `ext/src/lib.rs:128-129` says that it "*will* exit before the
  next processing cycle". It has no violation run of its own: the cause is the one that
  `v1_defer_starves` shows, line 132 of `taskmgr_v1.rs`.
- `lost` in `AsyncsCounted`, and `Stranded` in `NobodyForgotten`: a v1 future that panics, or
  finds the Lua state gone, is counted for ever, its coroutine stays suspended, and
  `wait_till_done` polls until somebody calls `stop`.

## 8. Not modelled, and why

- **Arguments and values**: no control depends on them. Results are told apart only as
  far as `spawn_thread_and_wait` can tell them apart.
- **Durations in v2**: an entry may expire at any time, which is every order a clock
  allows. Not covered: that a wait lasts *at least* its duration (a promise of tokio's
  `DelayQueue`), and that `Duration::from_secs_f64` and `DelayQueue::insert` panic on some
  durations; which ones is decided by those libraries.
- **`Close` and the cancel channel**: nothing in the repository sends `Close` or sends on
  `cancel_tx`; the arm of `cancel_rx` is unreachable.
- **The send build of v1**: `incr_async` and `decr_async` read and write the counter in
  two steps. Lua is behind mlua's lock in that build, and which of the steps run outside
  it cannot be read from the repository.
- **The send build of v2, apart from `done`**: the queues are local to `run()`, and the
  set of cancellation marks is used under a lock of its own.
- **on_response in v1**: a delayed coroutine's result is reported after `yield_now`
  (line 221), so that results can overtake each other. `Host` composes the v2 scheduler,
  which the tool uses by default.
- **Builds that do not compile at this commit**: the flume variant (`cancel` has no
  initialiser under it), and the crate without `v2_taskmgr`, since line 11 of `lib.rs`
  exports `LuaSchedulerAsyncUserData`, a trait that `async.rs:171` declares only with that
  feature. `TaskManagerV1` models the v1 source as it stands: nothing else in it is missing.
- **`coroutine.wrap`**: a wrapped coroutine is resumed by Lua itself. For the task managers
  such a resume is `TaskSpawn`; but unlike the patched `coroutine.resume` it does not reach
  `on_response`. `Host` assumes that no call tracks a coroutine made by `coroutine.wrap`: a
  script would have to hand it to the host through `coroutine.running()`. The repository's
  scripts do not use it.
- **The ticker of v1**: the result of `recv()` is ignored, so that a closed or lagging
  channel only makes the loop turn faster.
- **The exit code**, reading scripts, `Lua::sandbox`, the proxy of the global table: no
  scheduling depends on them.
- **Examples, Luau tests**: clients. The calls of the task library and of `coroutine` that
  they make (`resume`, `yield`, `close`; `create`, `running` and `status` change nothing
  that is modelled) are actions of the models' environment, in any order.

## 9. Plan

Done: `Coroutines`, `TaskManagerV2`, `TaskManagerV1` (local build), `Scheduler` with both
refinements, `ThreadTracker`, `Host`, `DoneSignal`, and the proofs of section 6.

What is left, by importance:

1. A v1 variant of `Host`, with results reported after `yield_now`.
2. The lower bound of a wait, with a clock in v2.
3. The counter of v1 in the send build, once it is settled which steps mlua's lock
   covers.
