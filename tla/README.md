# Verification of CPP_Learning

TLA+ models of this repository's executors, coroutines, value types and parsers,
TLC runs that check them on small instances, and TLAPS proofs of the properties that matter most
for every value of the parameters.

Contents: [inventory](#inventory), [plan](#plan), [modules](#modules-and-code),
[runs and bounds](#runs-and-bounds), [fairness](#fairness),
[proofs](#proofs), [findings](#findings), [not modelled](#not-modelled).

## Inventory

The repository collects C++20 experiments.  Its own logic with shared state or
nontrivial control is in `executor/`, `coroutine/include/`, `meta/` and
`application/`; the rest are one-file demonstrations.

| Component | Source | State it keeps | Operations | What makes it correct |
|---|---|---|---|---|
| Looper executor | `coroutine/include/5dispatcher/executor.h` (same text in `6sleep/`, `test/`) | a queue, its mutex and condition variable, an atomic `is_active`, one thread | `execute`, `shutdown(wait)`, `join`, `run_loop` | accepted functions run once and in order; a graceful shutdown drains, a discarding one stays discarded; `join` returns |
| Thread pool | `executor/ThreadPool.h` | one global queue, one queue per worker, `stop_`, two thread-local members shared by all pools | `submit`, `run_pending_task`, worker loop, destructor | no task is lost or run twice; stealing only where it is enabled; a destroyed pool is quiet; destructors end |
| Thread-safe queue | `executor/ThreadPool.h` 21-87 | a deque, a mutex, a condition variable, `stop_` | `push`, `try_pop`, `try_steal`, `wait_pop`, `stop` | every item taken once, from either end in order; no wake-up lost |
| Scheduler | `coroutine/include/6sleep/scheduler.h` (same text in `test/`) | a priority queue of delayed functions, mutex, condition variable, `is_active`, one thread | `execute(func, delay)`, `shutdown`, `join`, `run_loop` | nothing runs early, twice or out of due order; `join` returns |
| Task and its promise | `coroutine/include/{4task,5dispatcher,6sleep,test}/task*.h`, `result.h` | result, completion lock and condition, callback list, the coroutine frame | `then`, `catching`, `finally`, `get_result`, `return_value`, `unhandled_exception`, `co_await`, destruction | every callback runs once with the final result; a waiter returns; a frame is not used after it is destroyed |
| Chains of tasks | `{5dispatcher,6sleep}/{dispatch,sleep,task}_awaiter.h`, the executors without a queue, `coroutine/test/{dispatcher,sleep_test*}.cpp` | which coroutine is suspended for what, and on which thread it goes on | `co_await` of a task or a duration | each await is resumed once; the chain ends; frames are not used late |
| Simple task | `coroutine/include/4task/stask.h`, `task.h` | result, callback, frame, one thread | call, `co_await`, `then`, destruction | chains nest without blocking; exceptions; no frame left |
| Parallel sort | `executor/test_threadpool.cpp` | the lists being sorted, one flag per recursion | `do_sort`, `par_quick_sort` | sorts, ends, its tasks write to live locals |
| Counted look-ups | `coroutine/cache/`, `coroutine/test/prefetch_test1.cpp` | two atomic counters, the search's range | `MultiLookUp`, `do_part`, `binary_search*` | the same answer as a plain search; the main thread returns the count |
| Future state | `executor/{FutureState,Future,Common}.h` | an atomic state and a result | `setResult`, `setContinuation`, `wait` | the state machine of result and continuation |
| Any | `meta/any.h` | a type tag, bytes, small or heap storage | construct, copy, move, assign, cast, destroy | storage owned once |
| JSON parser | `application/json_parser.cpp` | position in a text; the value read | recursive descent, printing, edits | reads what it writes; stays inside its text |
| Parser combinators | `meta/parser_combinator.cpp` | the input left | `combine`, `foldL`, `atLeast`, `option`, the leaves | consumes a word of its language; ends |
| Generators | `coroutine/generator*`, `include/2generator`, `coroutine_e1.cpp`, `coroutine_e2.cpp`, `fib.cpp`, `simulate_co.cpp` | a coroutine frame and the yielded value | `next`, `done`, `fill`, iterators, `listen`, `answer`, moves and copies | each value once and in order; the frame destroyed once |
| Joining thread | `coroutine/jthread.h`, `coroutine/task.cpp` | a thread | assignment, destruction, a coroutine that changes threads | joined once, frame not used late |
| Function, variant | `meta/function.h`, `meta/variant.h` | erased callable; index and bytes | call, `get` | |
| Demonstrations | `coroutine_e0.cpp`, `multithread/async.cpp`, `range/`, `reflection/`, `python/`, `concept/`, `ADT/`, `test/` | | | |

How they interact.  A `Task` coroutine owns an executor (its template argument)
and is started and resumed through it; awaiting another task registers a
`finally` callback on that task's promise, and the callback hands the resumption
to the executor of the awaiting task.  `co_await` of a duration hands the
resumption to a process-wide `Scheduler`, whose thread passes it on to the
executor.  `ThreadPoolExecutor` wraps a process-wide `ThreadPoolSimple`.  The
parallel sort is a client of the pool whose tasks submit tasks and help while
they wait.

Hard behaviours: unlocked reads in loop conditions; a flag stored outside the
lock its readers wait under; condition variables waited on without a predicate;
state copied before a wait and used after it; callbacks called with a lock held;
frames destroyed by another thread than the one that runs them; thread-local
state shared by several pools; tasks that help while they wait; references to
locals captured by tasks of another thread; unsigned arithmetic below zero;
objects copied, moved and destroyed in any order.

## Plan

1. `LooperExecutor` against the abstract `SerialExecutor` - done, proved.
2. `ThreadPool` with several pools - done, proved except the liveness.
3. `Scheduler` against the abstract `DelayedExecutor` - done; the safety proved for
   any delays, the refinement for equal ones.
4. `TaskPromise` against the abstract `Completion` - done, safety and refinement
   proved.
5. `TaskChain`: tasks that await tasks and sleep, over every executor - done, safety
   proved; `SimpleTask` for `4task` - done, safety proved.
6. `ParallelSort` and `MultiLookUp` as clients of a pool - done, the safety of both
   proved.
7. `WorkQueue` with `wait_pop` and `stop`, `FutureState`, `JoiningThread` - done,
   safety proved.
8. Sequential parts: `AnyStorage` against the abstract `ValueHolder`,
   `JsonParser`, `ParserCombinator`, `Generators`, `Fibonacci`, `LazyAwait`,
   `BinarySearch` - done; the safety of those without recursive operators
   (`AnyStorage` with its refinement, `Generators`, `Fibonacci`, `LazyAwait`,
   `BinarySearch`) proved.

What is not proved is out of the prover's reach (see the end of "Proofs").

## Modules and code

**`LooperExecutor`** (component), **`SerialExecutor`** (what it promises),
**`LooperExecutor_proofs`**, **`MCLooperExecutor`**.
A step of the model is one access to shared state or one critical section whose
inside nobody can see.  `holder` is the owner of `queue_lock` between two
steps.  `execute()` is split at its read of `is_active` (with the lock), the
push, and the notification (after the unlock), because `shutdown()` writes
`is_active` without the lock.  `run_loop` is split at the two reads of its
condition, which are made without the lock; while `shutdown(false)` swaps the
queue the read of `empty()` is a data race and may give either answer.
`shutdown(false)` is split at the swap for that reason.  Every function is
handed to `execute()` once, so that functions identify calls.  The owner calls
`join()` only after a `shutdown()`, as the destructor and the tests do.  The
order of relaxed accesses is that of the model: there is one flag and everything
else is ordered by the lock.

**`ThreadPool`**, **`ThreadPool_proofs`**, **`MCThreadPool`**.
Any number of pools exist at once, because `my_idx_` and
`local_work_queue_ptr_` are static thread-local members: a worker of pool A that
submits to pool B puts the task into its own queue of A, and helping B it looks
into its own queue, B's global queue, then B's local queues from its own index
on.  `scan` is the place in the chain of `run_pending_task`; a miss is an empty
queue or a failed `try_to_lock`.  `stack` holds the tasks a worker is inside of,
so that tasks submit and help.  A task's body is arbitrary: at any time it may
submit, help, or return.  `submit()` is split between its test of `stop_` and
its push.  The destructor runs when no thread of another pool and no client is
inside a member of the pool (`UnusedByOthers`); the pool's own workers may be.

**`Scheduler`**, **`DelayedExecutor`** (what it promises), **`MCScheduler`**.
As the looper, with a clock in ticks.  The priority queue is its top and the set
of the other items: a push changes the top only if the new item is due earlier,
and which of several earliest items comes up after a pop is left open, as it
depends on the layout of the heap.  The worker copies the top, waits for the
copy's delay and pops whatever is on top then.  `wait_for` reports a timeout
from the clock: a thread that was notified but got the lock back after its
deadline is told `timeout`.  `pop()` of an empty priority queue is undefined:
`pc = "undefined"` is a state of its own.

**`TaskPromise`**, **`Completion`** (what it promises), **`TaskPromise_proofs`**,
**`MCTaskPromise`**.
One `Task` with its promise, its owner, other threads that use it, and the thread
that ends its coroutine.  The lock is held across steps only while the completing
thread calls the callbacks (`Locked`); every other critical section is one step.
`on_completed()` stores the callback or, after the unlock, calls it itself: the
call is a step of its own (`CallDirectly`).  `get_result()` waits once and without
a predicate, so `SpuriousWake` (external: the condition variable) may send it on
to dereference an empty result, which is the state `undefined`.  The owner is a
thread that calls `get_result()` (`mode = "get"`), or a coroutine that awaits the
task, on an executor whose `execute()` returns when the function has ended
(`"blocking"`: `NoopExecutor`, `AsyncExecutor`) or at once (`"dispatch"`).  User
callbacks are taken to return normally and not to use the task.  `FinalSuspend`
is the write to the frame after the unlock; the frame may be gone by then.

**`WorkQueue`**.
The thread-safe queue by itself: critical sections are steps, a notification after
the unlock is one more.  `wait_pop` goes to sleep, wakes for a notification or
spuriously (external), and returns false when stopped.  No constructor of the class
sets `stop_`, so `Init` leaves its value open.  Calls of `try_pop` and `try_steal`
that fail change nothing and are not steps.

**`FutureState`**.
Each access to the atomic `state_` is a step: the load that tests whether to throw,
the load of the expected value, the two compare-exchanges.  A failed exchange loads
the state into the caller's `state`.  With assertions (`"debug"`) a wrong state
aborts the program; `"release"` goes on.  `wait()` of a `Future` spins.

**`ParallelSort`**, **`ParallelSort_proofs`**.
Stacks of frames per worker, because a call that waits runs other calls on top of
itself; a call is named by its path from the root.  The queues are those of
`ThreadPool` with two workers: an attempt to lock may miss, so any queue that has a
task may serve.  `local` holds what a call's task captures by reference; an access
to locals that are gone goes into `late`.  `seq_quick_sort` and the order in which
`std::list::splice` and `std::partition` leave the parts are the code's: `Lower` and `Higher` are all
orders of the elements below the pivot and of the others, as the library leaves them open.

**`MultiLookUp`**.
The tasks that add to `not_found_cnt` and count `count_down` down, and the main
thread that spins.  The step of `prefetch_test1` is `-targets.size() / fraction` in
`size_t`, cut to `int`; how many values each type has (`SizeValues`, `IntValues`) are
parameters, small in the runs.

**`TaskChain`**, **`TaskChain_proofs`**.
A program is a tree of tasks, each with an executor and a list of awaits.  `at` says
where a task's coroutine is, `stage` how far it is in an await, `inside` which
coroutine runs inside of a completing task's callback.  Executors differ in whether
`execute()` returns before the function has ended (`Blocking` do not) and in whose
functions exclude each other.  `late` collects accesses to a frame that is gone.
A promise holds its executor by value, so `~Task` of a task with a looper of its own is
`~LooperExecutor()`: `Get` and `GetMain` begin it, and whoever got the result stays in it
(`Destroying`) through `StopLooper` (the store to `is_active`), `NotifyAll` and
`JoinLooper`, while the looper's thread, with nothing left in its queue, tests
`is_active` and waits (`LoopTest`, `LoopWait`).  `missed` is a wait that began after the
`notify_all`.  The executors that programs share (`SharedLooperExecutor`, the pool, the
scheduler) are static; their ends, after `main()`, are in `LooperExecutor`, `ThreadPool`
and `Scheduler`.

**`SimpleTask`**.
The same for `4task`, where everything happens in the calling thread, with the stack
of calls, exceptions, and the frames each task leaves behind.  `Owned` is the least set
of frames that one frame keeps alive.

**`JoiningThread`**.
`slot` says which `jthread` object holds which thread, the temporaries of an
assignment included; the coroutine of `task.cpp` goes on in the thread it starts,
while `main()` is still in its `await_suspend`.

**`AnyStorage`**, **`ValueHolder`** (what it promises).
The three classes of `any.h` as one state: a slot per variable with its tag, and the
objects with their lifetimes.  `Category` decides where a value is kept; copies,
moves and destructors follow.  `undef` records a null pointer and, separately, an
object that is not live.  Self-assignment is left out: `operator=` builds a
temporary first, and the move of an object to itself is no operation of the program.

**`JsonParser`**.
The recursive descent as mutually recursive operators over positions, with the
numbers `stoi` and `stod` take and the exceptions of `value()`; the generator; the
edits of `main()`, in which an index gives a copy.  A read past the end of the text
is the result `undefined`.  The spellings that are read back have white space nowhere,
or around every comma, colon, bracket and brace (`Spaced`).

**`ParserCombinator`**.
A parser expression is a tree of combinators over two leaves and `Run` is its
meaning; a loop that does not end is the result `loops`.

**`Generators`**.
One coroutine and two objects of one of four classes over it, which may be copied,
moved, resumed and destroyed in any order the class allows; what the program did
wrong itself is recorded in `careless`.

**`Fibonacci`**.
The two coroutines and the two hand-written frames resumed side by side; a
`uint64_t` is four limbs of 16 bits, so that the limit of 94 is checked against the
real width.

**`LazyAwait`**.
The nesting of `lazy::await_suspend`, which resumes the awaited coroutine and then the
awaiting one in the same call.

**`BinarySearch`**.
The four searches with the indices they prefetch.

**`Concurrent`**, **`Concurrent_proofs`**, **`MCConcurrent`**; **`Sequential`**,
**`Sequential_proofs`**, **`MCSequential`**.
`Concurrent` and `Sequential` put independent components next to each other, so that
one run checks all: `which` is chosen at first, only that component takes steps, and
the others stay in one fixed state.  No component is composed with another here in the
sense of exchanging steps.  `Concurrent_proofs` proves about the composition what the
run checks of it, with the proofs of `FutureState`, `JoiningThread`, `MultiLookUp` and
`WorkQueue` in it and those of `TaskChain` and `ParallelSort` instantiated; `Sequential_proofs` has the
proofs of `AnyStorage`, `Generators`, `Fibonacci`, `LazyAwait`, `BinarySearch` and `SimpleTask`.  `MCConcurrent`
gives the lists and programs of the run.  `MCSequential` gives the values and programs and adds
`JsonParser` and `ParserCombinator`, which need recursive
operators: the theorems are about `Sequential` without them, which every behaviour of
the run in which another component is chosen leaves as it is at first.

## Runs and bounds

Where a run checks several statements about one component, they are named parts of one
property: `Safety` and the `...Safety` of a component, `ResultAndFrame` and
`Ownership` are conjunctions of invariants, `NothingElseLost` of action properties,
`Progress` of liveness properties.  Each part has its comment in its module, and the changes of the model that the properties are
known to detect (the operators named `...Mutant`) aim at the parts one by one.

| Run | Instance | Shows |
|---|---|---|
| `looper` | 1 client, 3 functions that call `execute()` too, 2 shutdowns, fair | FIFO exactly once, drain, discard, implements `SerialExecutor`; accepted functions run; `join` returns unless the wakeup was lost |
| `pool` | a stealing pool of 2 workers and a plain pool of 1, 1 client, 3 tasks | exactly once, own tasks oldest first unless stolen, routing, affinity, destruction |
| `pool_live` | two pools of 1 worker, 2 tasks, fair | accepted tasks run, destructors end |
| `scheduler_equal` | 1 client, 3 functions, delay 1, clock to 3, 2 shutdowns | each item once, in due order, never early (`DelayedExecutor`) |
| `scheduler_mixed` | 2 functions, delays -1, 1, 2, clock to 3, 1 shutdown, fair | nothing early; calls match pushes; where `pop()` is undefined; accepted items run; `join` returns unless the wakeup was lost |
| `scheduler_twice` | 2 functions, mixed delays | a function runs twice (finding) |
| `scheduler_join` | the same, clock to 2, fair | `join()` hangs (finding) |
| `promise` | 2 clients, a callback of each kind and the awaiter's, all modes, fair | each handler once, an awaiting coroutine finds the result, destruction after the callbacks, implements `Completion`; everybody goes on unless the completing thread blocks itself |
| `promise_destroy` | the same, `"dispatch"` only | a frame destroyed before its coroutine's last step (finding) |
| `sequential` | see below | ownership, round trips, order, undefined behaviour and results of the components that run in one thread |
| `concurrent` | see below, fair | every interleaving of the future state, the queue, the parallel sort, the look-ups, the chains and the joining thread, with their liveness |
| `future_assert` | one setter, one continuer, assertions on | the assertion of `FutureState` fails (finding) |

Why the bounds are enough.  One client and the worker's own functions are two
callers that compete for the looper's lock with the owner and the worker; three
functions give a queue in which front and back differ while one runs.  Two
shutdowns are a graceful one followed by the destructor's.  The parameters of the
looper's and the pool's safety properties are unbounded in the proofs.  A stealing
pool of two workers has a victim and a thief, the plain pool is the one where
stealing must not happen, and two pools are what the thread-local members need;
three tasks let a task wait for a submitted one while another is stolen.
Single-worker pools keep the liveness run small while helping still crosses pools.
Three items are the smallest heap in which the top, the popped item and the next
top all differ (`scheduler_equal`); two items with a shorter, a longer and a
negative delay are enough for a push that overtakes the copied top
(`scheduler_mixed`), and a clock one tick past the longest delay lets every wait
expire.  Two clients and the owner are two waiters and a registering thread at
once; three kinds of callbacks meet both outcomes.

`sequential`: two variables of each `any` class over three objects and values of
every storage (the third object is the temporary of an assignment); texts of four
characters for the parser, which hold every two-level nesting and every truncation,
and spelled-out values of three levels; three edits; combinators two deep over inputs
of four characters, so that a loop can go round several times; two objects for a
generator of two values and four reads, one more than it has; `fibonacci_sequence` at
0, 1, 2, 3, 10, 94 and 95, on both sides of each case distinction; two replies of two
awaits; every sorted vector of up to five of four values with every key; three tasks
with each order of awaiting and throwing.

`concurrent`: up to six targets, with fractions that divide the modulus and such that
do not, in types of 64 and 32 values (`LookUpAssumption` wants targets times fraction
below the smaller, as in the program, where they are below 2^31); lists up to four, one with equal elements, so that both workers and both kinds of
part occur; chains
of two tasks on all 36 pairs of executors with a sleep before or after the await,
and of three on executors of both kinds; three coroutines with one `jthread`; a queue
with two pushers, two items, two threads in `wait_pop`, one that takes items and one
that stops it: one waiter sleeps while the other is awake, two notifications are under
way at once, and the taker takes an item that a woken thread no longer finds.

Bounds in the modules: `MaxShutdowns` (calls of `shutdown()`), `MaxTime` (the
clock), and every function, task or callback is handed in once.
`CHECK_DEADLOCK FALSE` everywhere: every client may stop calling, and a joined
executor, a destroyed pool or a finished task has nothing left to do.  Symmetry is
declared in `pool` and `scheduler_equal` over tasks and functions, whose
safety properties do not tell them apart; the liveness runs use none.

## Fairness

`LooperExecutor` and `Scheduler`: weak fairness of the worker's loop, of every
call of `execute()` that has begun, of the owner's `shutdown()` and `join()`,
and of the clock.  It says that the operating system runs threads that can run,
that mutexes are not held for ever (every critical section of the code is finite
and calls are finitely many in the instance) and that functions return.  Nobody
has to begin a call and no spurious wakeup has to come.

`ThreadPool`: weak fairness of pushes, of the worker's loop and of the joins;
strong fairness of `TaskReturns` (a task stops submitting and helping some day)
and of `try_pop` on a queue that holds a task (`try_to_lock` may fail
spuriously, but not each time).

`TaskPromise`: weak fairness of the coroutine's end and the callbacks that follow,
of a caller that calls its callback itself, of a notified waiter, and of the
`await_resume()` of a coroutine that was resumed.  Nobody has to use the task.
`SelfBlocked` is the case in which the completing thread resumes the awaiting
coroutine inside of the callback and that coroutine asks for the lock its own
thread holds: the liveness properties state what is true otherwise.

`MCConcurrent`: weak fairness of what has begun: queued tasks of the look-ups, the steps
of each pool worker and of `main()`, notifications that are due, functions an executor
was handed, the thread of each looper and the thread that destroys it (separately), the
threads of `JoiningThread`, and the threads of the queue that woke; nobody has to push,
stop or pop, and no spurious wakeup has to come. Weak fairness is enough because a
worker that can take a task keeps being able to take one. A sleep ends, and nothing is
assumed about when.

`NeverTwice` of the scheduler, which `scheduler_twice` shows to fail with mixed delays, is
part of what `ImplementsDelayedExecutor` states with equal ones.  `EarlyRuns` holds unless an item was dropped: it is stated with
the exception that `NeverTwice` was broken (see the findings).

## Proofs

All theorems hold for every value of the constants under the modules' named
assumptions (`LooperAssumption`, `PoolAssumption`, `ThreadAssumption`,
`PromiseAssumption`, `SchedulerAssumption`, `AnyAssumption`, `FutureAssumption`,
`WorkQueueAssumption`, `LookUpAssumption`, `ChainAssumption`, `JoiningAssumption`,
`SortAssumption`, `ConcurrentAssumption`, which joins the last five, and `SequentialAssumption`, which joins those
of `Generators`, `LazyAwait`, `BinarySearch`, `Fibonacci` and `SimpleTask`): that threads, functions, queues,
values and `None` are different things, that every pool has a worker, that
`MaxShutdowns` is a natural number, that the awaiter's callback is one of the `finally`
kind, that `int` has fewer values than `size_t` and a divisor of their number, and
holds targets times fraction, that each task of a program is awaited at one place
(every `co_await` of the repository calls the task it awaits), that a search is given sorted
lists of integers and the parallel sort any lists of integers, and that the numbers of values, replies and awaits are natural,
and that no Fibonacci frame with `int` is resumed more than 44 times, after which it would
hold a number beyond `int` (`main()` resumes them ten times).  Only the refinement of
the scheduler asks for more: that all delays are one delay, because with mixed delays
it is false (see the findings).

For each composite property of a proved component there is a theorem that joins its
parts (`SafetyHolds` of the looper, the pool, the scheduler, the chains and the sort, `QueueIsSafe`,
`ResultAndFrameHolds`, `OwnershipHolds`, and the `...SafetyHolds` of `Concurrent_proofs` and `Sequential_proofs`).

`LooperExecutor_proofs`:
- `TypeCorrect`, from `TypeInv`: `TypeOK` and that a call past its first test
  has an argument.
- `SweptStaysEmptyHolds`, `NothingStartsAfterSweepHolds`: from `LockInv` (who is
  inside a critical section holds the lock, and only one is) and `SweepInv`: a
  call between its test of `is_active` and its push holds the lock, so after
  the sweep no such call is left, and `is_active` stays false.
- `FifoExactlyOnceHolds`: directly inductive, on two lemmas about sequences.
- `GracefulDrainHolds`, from `DrainInv`: as long as no shutdown was called the
  worker has not passed its test of `is_active`; afterwards whatever is in
  `early` was pushed before, so that an empty queue means it was started.
- `Refinement`: `LooperExecutor` implements `SerialExecutor`; the abstract
  backlog is given up when the sweep takes the lock.

`ThreadPool_proofs`:
- `TypeCorrect`; the index arithmetic of the stealing loop (`VictimIsWorker`).
- `RoutingHolds`, `AffinityHolds`: inductive together with the history of
  submitters.
- `ExactlyOnceHolds`, from `Once`: queue entries and stack entries are injective
  and disjoint; pops, steals and pushes are instances of two lemmas about
  sequences (`PushKeepsInjective`, `TakeKeepsInjective`).
- `FifoUnlessStolenHolds`, from `FifoInv`: every queue lists its tasks in the order of
  `order`, and a task accepted and not started is in a queue, its submitter's own if
  that is a worker; so what is taken from the front has nothing older of the same
  worker behind it.  The property speaks of positions chosen by `CHOOSE`; `Before`
  says the same by quantifiers and is what the steps preserve.
- `DestroyedQuietHolds`, `LeftoversNeverRunHolds`: from `DestroyInv`: an exited
  worker is at rest, and nobody enters a pool that is not alive.

`TaskPromise_proofs`:
- `TypeCorrect`, with the argument of a caller that calls its callback itself.
- `EachHandlerOnceHolds`, from `OnceInv`: a registered callback is in exactly one
  place, the list, the hands of one caller, or called once (`PlaceInv`), and
  nothing is called before the result is set, nor listed after the unlock
  (`ResultInv`).  Two lemmas about lists without repetition (`AppendElems`,
  `TailElems`) carry the steps of `on_completed()` and `notify_callbacks()`.
- `AwaitFindsResultHolds`, `DestroyAfterCallbacksHolds`, from `OwnerInv`: the owner
  is suspended exactly from the registration of its callback to the call, it alone
  uses the task then, and it got the result after the unlock.
- `UndefinedOnlySpuriousHolds`, directly inductive (`SpuriousInv`).
- `Refinement`: the promise implements `Completion`.

`Scheduler_proofs`:
- `TypeCorrect`, `NoEarlyRunHolds`, `CallsMatchPushesHolds`,
  `UndefinedOnlyAfterDiscardHolds`, from one invariant: a call on the way to its push
  holds the lock with a function nobody has pushed (`Pushing`), the queue has no item
  twice and only pushed ones, finitely many (`QueueOK`), and a thread that waits for
  a delay left a queue that is not empty unless it was swept (`Timed`).
  `CallsMatchPushes` counts: a push adds one item (`FS_AddElement`), a pop removes one,
  whichever item the code calls.
- `Refinement`, for equal delays: `SameInv` adds that no item can be pushed that is due
  before one in the queue, hence that the copied item is still the top when its wait is
  over (that the code pops another one is the finding for mixed delays), that
  `is_active` is false exactly after a shutdown, and that after a sweep nobody can be
  pushing.  Then the pop at the end of the wait is the abstract call, and the sweep the
  abstract discard.

`Sequential_proofs`, of each component and then, by `Parts` (a behaviour of `Sequential` is
one of each component), of the composition:
- `TypeCorrect`, `OwnedOnceHolds`, `NoDeadObjectUsedHolds` of `AnyStorage`: the properties are
  inductive together with `LiveHasValue`.  A lemma per way to fill a variable (a new
  value, a value moved over, a swap of the assignment's temporary) carries the steps.
- `LostOnlyByMoveHolds`, `Refinement` of `AnyStorage`: for each of these ways an `...Effect` lemma says
  what the variables hold after the step and which objects changed; `StepEffect` joins
  them.  A step of `ValueHolder` follows from what is held, the lost objects from which
  objects lose their owner while they are live.
- `SearchSafetyHolds`, from `SearchInv`: the elements before the range that is left are
  smaller than the key, those behind it greater (`Halves` keeps both with the list
  sorted), so that an empty range means there is no key; and of the two middles that
  `prefetch2` has prefetched one is the next.
- `LazySafetyHolds`, from `LazyInv`: on the stack of nested resumptions all calls but the
  top one or two only wait to return, so that the top says how many values the reply in
  progress has received and which lazy coroutine is where (`Going`); the other replies are
  over or not called; and a handle has one owner (`Handles`).
- `GeneratorSafetyHolds`, from `GenInv`: the frame is as far as its index says
  (`Progress`), has one owner unless the program copied it (`OneOwner`), and is as far
  ahead of what the program wanted as the class allows in the phase of its last answer
  (`InPhase`, with a predicate for each class).  A lemma per operation keeps it.
- `FibonacciSafetyHolds`, from `FibInv`: in every phase the locals are the last numbers yielded
  (`SeqInv`, `FibInt`, `SimInt`, `FrameInt`).  The sum of words of five limbs is exact
  (`PlusIsExact`), so the words of the definition have as values the Fibonacci numbers
  (`FibValues`).  These are computed up to the 91st in steps of ten (`FibTen`) and from there
  in halves, which shows that the 93rd is the last that fits into 64 bits and the 46th fits
  into an `int` (`FibLimits`); as the numbers do not shrink, 94 is the exact limit.
- `TaskSafetyHolds`, from `TaskInv`: what a task has still to call is fresh (`Fresh`), who is
  awaited lives, and who lives is awaited by one task or is `main()`'s (`AwaitsOK`, `OwnersOK`);
  whoever runs is on the stack above those that wait for it (`RunningOnStack`, `InOrder`);
  a callback is never notified, because a task has its result before it is awaited
  (`NoneNotified`); and a task that stays suspended has forgotten an exception
  (`ResultsOK`).  That `main()`'s object owns every frame that is left
  (`MainOwnsFrames`) follows by the least frame it would not own (`Least`): its owner
  was called before it.
- `NothingElseLostHolds`: `LostOnlyByMove` with the same of `sync`, where a lemma per
  operation also says that a reply that had an owner keeps one.
- `TypesCorrect`: the types, which `GenInv` and `LazyInv` imply.

`ParallelSort_proofs`:
- `SeqQuickSortSorts`: what `seq_quick_sort` gives back is the list in ascending order with each
  element as often as before, for every list of integers.  The recursive function is
  first shown to satisfy its recursion (`Computes`, on lists shorter than a bound), then
  the theorem follows by a least counterexample: the lists shorter than a list are
  ordered by a well-founded relation (`FS_StrictSubsetOrderingWellFounded` of the
  library), and a shortest list that is not sorted has two parts that are.  So this
  needs no induction rule with an operator as its parameter.
- `SafetyHolds`, from `SortInv`: there are lists `a[c]`, one for each call, such that
  every frame, queued task and local of the call `c` holds `a[c]`, its part in order, or
  what is left of it (`ListsOK`); every frame but the lowest is a call of the frame below or a
  task that one runs while it waits (`Stacked`); each call and each task is in one place
  (`Once`); and a call whose locals live is on a stack (`Held`).  A list has one
  ascending order, so the parts a call puts together are what `seq_quick_sort` gives
  (`SortsTheList`), a task's locals live because the call waits for its flag
  (`ReferencesLive`), and a call left on a stack at the end would have a shortest path,
  hence nobody that waits for it (`NothingLeftBehind`).

`TaskChain_proofs`:
- `SafetyHolds`, `ResumedOnceHolds`, from `IInv`, which says of each task what its next
  await has called and who is resumed for it: what is left to await has not been called
  (`NotCalled`), after the call of `await_suspend` the callback is stored or the awaited
  task has its result (`GetOK`), a stored callback is that of the coroutine that is
  suspended for it (`CallbackOK`), and a thread is inside of an `execute()` either for
  a task it calls or for one it completes (`InsideOK`).  That no final suspension is late
  where the executors exclude it needs two more: one function at a time is on the shared
  looper (`SharedOK`), and a task on a blocking executor that does not sleep has its user
  inside of its `execute()` until its end (`BlockingOK`).  The end of a looper changes none of what the
  invariant speaks of (`LooperAlone`).  There is a lemma per action and,
  under it, a step per part.

`Concurrent_proofs`, for the composition:
- `TypesCorrect`, `FutureSafetyHolds`, from `FutureInv`: nobody publishes
  `ONLY_CONTINUATION`, so a caller whose first compare-exchange fails has loaded the
  other's `ONLY_RESULT` (`Lost`), and only it can change the state after that.
- `WaitsForEverHolds`, from the same invariant: no step of a caller takes a result back
  (`KeepsWaiting`), so a thread in `wait()` never leaves it; this part of `Progress` needs no fairness.
- `NoLostWakeupHolds`, `StoppedGivesNothingHolds`: `NoLostWakeup` is inductive once the
  roles of the threads are known (`Roles`).  A push adds an item and a notification,
  a notification turns into an awake thread, an awake thread takes an item or finds
  none; the counts are cardinalities of finite sets.
- `EachItemOnceHolds`, from `OnceInv`: what was popped from the front followed by the
  deque has no item twice, none in common with what was popped from the back, and is
  in the order of the pushes; a pop from the front leaves that sequence as it is, a pop
  from the back takes its last item, a push appends to it.
- `ThreadSafetyHolds`, from `ThreadInv`: the first coroutine's thread is held by exactly
  the object that the place in `main()` says, a later coroutine is refused.
- `LookUpSafetyHolds`, from `LookUpInv`: the counter is the number of targets plus, for
  each task done, the step, modulo the values of an `int`; two lemmas on remainders turn
  "it is zero" into "all tasks are done" where the step is exact, and `EndsAtZeroIfExact`
  says that it is zero at the end only there.
- `QueueSafetyHolds`, `SortSafetyHolds`, `ChainSafetyHolds`, `ResumedOnceHolds`: what is proved of
  the component, here or in `ParallelSort_proofs` and `TaskChain_proofs`, and that a step of
  the composition is one of the component or leaves it alone (`Steps`).

Model-checked only: every liveness property (`EarlyRuns`, `JoinReturnsUnlessRaced`,
`AcceptedRuns`, `DestructionEnds`, `CallbacksRun`, `WaitersReturn`, `AwaitContinues`,
`MainReturns`, `SortEnds`, `WakesForAnItem`, `WakesToStop`, `ChainEnds`, `MainEnds`), which
the prover cannot treat under fairness; of `Progress`, only `WaitsForEver` is proved; and what
recursive operators compute (`JsonSafety`, `CombinatorSafety`): a module that declares one
loses the SMT prover, and these compute by recursion over texts, trees and expressions.

## Findings

- `Scheduler` runs a function twice and drops another (`scheduler_twice`):
  `run_loop` calls the copy it took before its wait but pops the top as it is
  after the wait.
- `Scheduler::join()` may never return (`scheduler_join`): `is_active` is stored
  and `notify_all` called without the lock, and the wait has no predicate.
  `LooperExecutor` has the same window; there `JoinReturnsUnlessRaced` states
  what remains true.

- A task's frame may be destroyed before its coroutine's last step
  (`promise_destroy`): `await_resume()` needs the result and the lock only, and the
  awaiter destroys the frame while the other thread, past its unlock, still has to
  suspend for the last time.

- The assertion of `FutureState` fails (`future_assert`): `setContinuation()` publishes
  `ONLY_RESULT`, and of two callers that both have read `START` the second finds it where
  it asserts `ONLY_CONTINUATION`.  What remains true is `OneGetsThrough`.

Not findings, because nothing in the repository says otherwise, but stated as the
exceptions of properties: the target's old object is not destroyed by `any`'s move
assignment (`LostOnlyByMove`); what the JSON generator prints is not always read back
(`RoundTrip`); an empty array or object with white space inside, at any depth, makes the
parser throw, because `parse_array` and `parse_object` look for the closing bracket before
they skip (`ReadsWhatWasWritten`); `atLeast(option(p))` does not end (`LoopsOnlyUnconsuming`); an iterator's
`begin()` after a move skips a value (`NoValueSkipped`); an exception in a chain of
`STask`s leaves `main()` waiting (`ThrowDecides`); a number of targets whose negation
`fraction` does not divide leaves `prefetch_test1` spinning or counting on dead
variables (`EndsAtZeroIfExact`); the sort's `notify_one` may come to a condition
variable that is gone (`OnlyTheNotifyIsLate`); `wait()` of a future that has its result
spins for ever (`WaitsForEver`).

A chain of tasks may also hang, in two ways, and `ChainEnds` says that there is no other
wait for ever in it:

- `SelfBlocked`, on `NoopExecutor` and `AsyncExecutor` only: a coroutine resumed inside of
  the callback of the task it awaits asks for the lock its own caller holds.  It is not
  listed as a finding because the repository knows it:
  `src/coroutine/test/sleep_test4.cpp:6`, whose tasks are all on `NoopExecutor`, is headed
  "deadlock".
- `LooperMissed`, for a task on a `LooperExecutor` of its own: `~Task` joins the looper,
  and its thread has tested `is_active` before the store and waits after the
  `notify_all`, the window of `JoinReturnsUnlessRaced` in a place where the owner is an
  awaiting coroutine or `main()`.

`src/coroutine/test/sleep_test5.cpp:11` says of a task on `NewThreadExecutor`, awaited by
one on `ThreadPoolExecutor`, that it "deadlocks" unless its `co_await 1s` is commented out
(and `src/coroutine/notes/note.md:112` names the deadlock of both tests, without more).  This pair of
executors, with that sleep, is in the run, and no thread of it waits for ever in a lock,
a condition variable or a queue.  What the run does have there is undefined behaviour:
the sleep makes the awaiting task store its callback and wait for the lock, so that it
destroys the frame just when the new thread has unlocked and has still to suspend for the
last time (`late`, an exception of `LateOnlyAtTheEnd`; the finding of `promise_destroy`, and
the test's own heading, line 6, is "destroyed several times").  After such an access the program may do anything, a hang included.
`ChainEnds` is therefore to be read as a statement about waiting: it takes late accesses to
do no harm, and the model does not contradict the observation in the test, nor explain which
step of the damaged program hangs.

## Not modelled

- `Promise` and the rest of `Future`: no code gives either a `FutureState`, and what
  uses `Try` needs its deleted copy, so no object of them can be at work.
- `many` of the parser combinators calls a `FoldL` that nobody declares and is never
  instantiated.
- `jthread::detach`, `ThreadSafeQueue::size` and `empty`, `scheduleById`: without callers,
  and the middle two only read.
- A pool of no threads, for which `queues_.size() - 1` wraps around, and
  `run_pending_task()` on a thread of no pool, whose local queue is null: the repository
  does neither.
- A looper that is destroyed on its own thread joins itself; the owner is a thread of
  its own in the model.
- `async.cpp` is a fork and join without shared state.  `Function` and `variant` are
  decided by their types; `coroutine_e0.cpp`, `io_utils.h`, `range/`, `python/`,
  `reflection/`, `ADT/`, `concept/`, `test/` have no state of their own or are examples
  of other languages.
- The depth of the stack that nested resumptions need, processor affinity, time
  measurement and output.
- Memory ordering weaker than sequential consistency: the flags are single words and
  the rest is under locks.
