----------------------------- MODULE Scheduler ------------------------------
(* Scheduler of coroutine/include/6sleep/scheduler.h (include/test holds the    *)
(* same text): one worker thread runs functions when their delay is over.  It   *)
(* copies the top of a priority queue, waits for the copy's delay and then      *)
(* pops whatever is on top by then.                                             *)
EXTENDS Integers, Sequences, FiniteSets

CONSTANTS Clients,       \* threads that call execute()
          Worker,        \* work_thread; the functions it runs may call execute() too
          Owner,         \* the thread that calls shutdown() and join()
          Funcs,         \* the functions handed to execute(), each one once
          Delays,        \* the delays they are given, in ticks
          None,          \* no function, no thread
          MaxTime,       \* bound: the clock stops here
          MaxShutdowns   \* bound: calls of shutdown()

ASSUME SchedulerAssumption ==
  /\ Worker \notin Clients
  /\ Owner \notin Clients \cup {Worker}
  /\ None \notin Funcs \cup Clients \cup {Worker, Owner}
  /\ Delays \subseteq Int
  /\ MaxTime \in Nat /\ MaxShutdowns \in Nat

Callers == Clients \cup {Worker}

(* DelayedExecutable: the function and scheduled_time_ *)
Items == [func : Funcs, time : 0..MaxTime]

VARIABLES
  now,               \* the clock, in ticks
  is_active,         \* std::atomic_bool
  executable_queue,  \* the heap: its top, and the set of the other items
  holder,            \* the thread that owns queue_lock between two steps, or None
  pc,                \* where run_loop is
  executable,        \* run_loop's copy of the top
  call,              \* where each caller's execute() is
  arg,               \* the function it was given, the delay, and need_notify
  owner,             \* where the owner's shutdown() or join() is
  shutdowns,         \* number of calls of shutdown()
  (* history, read by no guard of the code *)
  pushed,            \* the items pushed
  started,           \* the items run_loop called, in order
  early,             \* functions whose execute() returned before any shutdown()
  swept,             \* some shutdown(false) has emptied the queue
  raced              \* a notify_all came between run_loop's test and its wait

queueVars == <<is_active, executable_queue, holder>>
workVars  == <<pc, executable>>
callVars  == <<call, arg>>
ownerVars == <<owner, shutdowns>>
history   == <<pushed, started, early, swept, raced>>
vars == <<now, queueVars, workVars, callVars, ownerVars, history>>

NoItem == [func |-> None, time |-> 0]
NoArg == [func |-> None, delay |-> 0, need_notify |-> FALSE]
EmptyQueue == [top |-> NoItem, rest |-> {}]

TypeOK ==
  /\ now \in 0..MaxTime
  /\ is_active \in BOOLEAN
  /\ executable_queue \in [top : Items, rest : SUBSET Items] \cup {EmptyQueue}
  /\ holder \in Callers \cup {Owner, None}
  /\ pc \in {"active", "empty", "lock", "waiting", "woken", "timed", "timedWoken",
             "run", "exited", "undefined"}
  /\ executable \in Items \cup {NoItem}
  /\ call \in [Callers -> {"idle", "push", "notify"}]
  /\ arg \in [Callers -> [func : Funcs, delay : 0..MaxTime, need_notify : BOOLEAN]
                         \cup {NoArg}]
  /\ owner \in {"idle", "lock", "swap", "notify", "join", "joined"}
  /\ shutdowns \in 0..MaxShutdowns
  /\ pushed \subseteq Items
  /\ started \in Seq(Items)
  /\ early \subseteq Funcs
  /\ swept \in BOOLEAN
  /\ raced \in BOOLEAN

Init ==
  /\ now = 0
  /\ is_active = TRUE
  /\ executable_queue = EmptyQueue
  /\ holder = None
  /\ pc = "active"
  /\ executable = NoItem
  /\ call = [c \in Callers |-> "idle"]
  /\ arg = [c \in Callers |-> NoArg]
  /\ owner = "idle"
  /\ shutdowns = 0
  /\ pushed = {}
  /\ started = << >>
  /\ early = {}
  /\ swept = FALSE
  /\ raced = FALSE

Idle(c) == /\ call[c] = "idle"
           /\ c = Worker => pc = "run"

Fresh(f) == /\ \A x \in pushed : x.func # f
            /\ \A c \in Callers : arg[c].func # f

Delay(x) == x.time - now
ClampedDelay(d) == IF d < 0 THEN 0 ELSE d
-----------------------------------------------------------------------------
(* The priority queue.  A pushed item becomes the top only if it is due before  *)
(* it; which of several earliest items a pop brings up depends on the layout of *)
(* the heap and is left open.                                                    *)
IsEmpty(q) == q = EmptyQueue

Contents(q) == IF IsEmpty(q) THEN {} ELSE {q.top} \cup q.rest

PushedMutant(q, x) ==           \* mutant: an item due as early as the top displaces it
  IF IsEmpty(q) THEN [top |-> x, rest |-> {}]
  ELSE IF x.time <= q.top.time THEN [top |-> x, rest |-> q.rest \cup {q.top}]
  ELSE [q EXCEPT !.rest = @ \cup {x}]

Pushed(q, x) ==
  IF IsEmpty(q) THEN [top |-> x, rest |-> {}]
  ELSE IF x.time < q.top.time THEN [top |-> x, rest |-> q.rest \cup {q.top}]
  ELSE [q EXCEPT !.rest = @ \cup {x}]

Popped(q) ==
  IF q.rest = {} THEN {EmptyQueue}
  ELSE {[top |-> x, rest |-> q.rest \ {x}] :
          x \in {y \in q.rest : \A z \in q.rest : y.time <= z.time}}

(* notify_one and notify_all: run_loop is the only thread that ever waits *)
Notify == pc' = CASE pc = "waiting" -> "woken"
                  [] pc = "timed"   -> "timedWoken"
                  [] OTHER          -> pc
-----------------------------------------------------------------------------
ExecuteLockMutant(c, f, d) ==   \* mutant: no notification for the first item
  /\ Idle(c) /\ Fresh(f)
  /\ holder = None
  /\ is_active
  /\ holder' = c
  /\ call' = [call EXCEPT ![c] = "push"]
  /\ LET delay == ClampedDelay(d) IN
       /\ now + delay <= MaxTime
       /\ arg' = [arg EXCEPT ![c] =
            [func |-> f, delay |-> delay,
             need_notify |-> /\ ~IsEmpty(executable_queue)
                             /\ Delay(executable_queue.top) > delay]]
  /\ UNCHANGED <<now, is_active, executable_queue, workVars, ownerVars, history>>

(* execute(): negative delays count as 0; under the lock, is_active is read and *)
(* the need for a notification found out; refused if shut down                  *)
ExecuteLock(c, f, d) ==
  /\ Idle(c) /\ Fresh(f)
  /\ holder = None
  /\ is_active
  /\ holder' = c
  /\ call' = [call EXCEPT ![c] = "push"]
  /\ LET delay == ClampedDelay(d) IN
       /\ now + delay <= MaxTime
       /\ arg' = [arg EXCEPT ![c] =
            [func |-> f, delay |-> delay,
             need_notify |-> \/ IsEmpty(executable_queue)
                             \/ Delay(executable_queue.top) > delay]]
  /\ UNCHANGED <<now, is_active, executable_queue, workVars, ownerVars, history>>

ExecuteRefused(c) ==
  /\ Idle(c)
  /\ holder = None
  /\ ~is_active
  /\ UNCHANGED vars

(* the DelayedExecutable is built from the clock at the push *)
ExecutePush(c) ==
  /\ call[c] = "push"
  /\ LET x == [func |-> arg[c].func, time |-> now + arg[c].delay] IN
       /\ executable_queue' = Pushed(executable_queue, x)
       /\ pushed' = pushed \cup {x}
       /\ early' = IF shutdowns = 0 /\ ~arg[c].need_notify
                     THEN early \cup {x.func} ELSE early
  /\ holder' = None
  /\ call' = [call EXCEPT ![c] = IF arg[c].need_notify THEN "notify" ELSE "idle"]
  /\ UNCHANGED <<now, is_active, workVars, arg, ownerVars, started, swept, raced>>

ExecuteNotify(c) ==
  /\ call[c] = "notify"
  /\ Notify
  /\ call' = [call EXCEPT ![c] = "idle"]
  /\ early' = IF shutdowns = 0 THEN early \cup {arg[c].func} ELSE early
  /\ UNCHANGED <<now, queueVars, executable, arg, ownerVars, pushed, started, swept, raced>>
-----------------------------------------------------------------------------
(* the loop condition, read without the lock; during the swap of shutdown(false) *)
(* the size read may be either one                                              *)
ReadActive ==
  /\ pc = "active"
  /\ pc' = IF is_active THEN "lock" ELSE "empty"
  /\ UNCHANGED <<now, queueVars, executable, callVars, ownerVars, history>>

ReadEmpty ==
  /\ pc = "empty"
  /\ \E isEmpty \in BOOLEAN :
       /\ owner # "swap" => isEmpty = IsEmpty(executable_queue)
       /\ pc' = IF isEmpty THEN "exited" ELSE "lock"
  /\ UNCHANGED <<now, queueVars, executable, callVars, ownerVars, history>>

LockAndWait ==
  /\ pc = "lock" /\ holder = None
  /\ IsEmpty(executable_queue)
  /\ pc' = "waiting"
  /\ UNCHANGED <<now, queueVars, executable, callVars, ownerVars, history>>

WokenContinue ==
  /\ pc = "woken" /\ holder = None
  /\ IsEmpty(executable_queue)
  /\ pc' = "active"
  /\ UNCHANGED <<now, queueVars, executable, callVars, ownerVars, history>>

(* pop() of the queue as it is now, and the call of x *)
PopAndRun(x) ==
  /\ executable_queue' \in Popped(executable_queue)
  /\ started' = Append(started, x)
  /\ pc' = "run"

TopIsDueMutant ==               \* mutant: the queue is not looked at again after the wait
  /\ pc \in {"lock", "woken"} /\ holder = None
  /\ pc = "lock" => ~IsEmpty(executable_queue)
  /\ Delay(executable_queue.top) <= 0
  /\ executable' = executable_queue.top
  /\ PopAndRun(executable_queue.top)
  /\ UNCHANGED <<now, is_active, holder, callVars, ownerVars, pushed, early, swept, raced>>

TopIsSoonMutant ==              \* mutant: a delay of one tick is not waited for
  /\ pc \in {"lock", "woken"} /\ holder = None
  /\ ~IsEmpty(executable_queue)
  /\ Delay(executable_queue.top) <= 1
  /\ executable' = executable_queue.top
  /\ PopAndRun(executable_queue.top)
  /\ UNCHANGED <<now, is_active, holder, callVars, ownerVars, pushed, early, swept, raced>>

(* the top is copied; it is run at once or its delay is waited for *)
TopIsDue ==
  /\ pc \in {"lock", "woken"} /\ holder = None
  /\ ~IsEmpty(executable_queue)
  /\ Delay(executable_queue.top) <= 0
  /\ executable' = executable_queue.top
  /\ PopAndRun(executable_queue.top)
  /\ UNCHANGED <<now, is_active, holder, callVars, ownerVars, pushed, early, swept, raced>>

TopIsLaterMutant ==             \* mutant: the top is popped before the wait, and again after it
  /\ pc \in {"lock", "woken"} /\ holder = None
  /\ ~IsEmpty(executable_queue)
  /\ Delay(executable_queue.top) > 0
  /\ executable' = executable_queue.top
  /\ executable_queue' \in Popped(executable_queue)
  /\ pc' = "timed"
  /\ UNCHANGED <<now, is_active, holder, callVars, ownerVars, history>>

TopIsLater ==
  /\ pc \in {"lock", "woken"} /\ holder = None
  /\ ~IsEmpty(executable_queue)
  /\ Delay(executable_queue.top) > 0
  /\ executable' = executable_queue.top
  /\ pc' = "timed"
  /\ UNCHANGED <<now, queueVars, callVars, ownerVars, history>>

(* wait_for returns with the lock.  The status it reports is the clock's: a      *)
(* thread that was notified but came back after its deadline is told timeout.   *)
TimedContinue ==
  /\ pc = "timedWoken" /\ holder = None
  /\ now < executable.time
  /\ executable' = NoItem
  /\ pc' = "active"
  /\ UNCHANGED <<now, queueVars, callVars, ownerVars, history>>

TimedOutEarlyMutant ==          \* mutant: the status of wait_for is ignored
  /\ pc = "timedWoken" /\ holder = None
  /\ ~IsEmpty(executable_queue)
  /\ PopAndRun(executable)
  /\ UNCHANGED <<now, is_active, holder, executable, callVars, ownerVars,
                 pushed, early, swept, raced>>

TimedOutKeepsMutant ==          \* mutant: no pop() after a wait
  /\ pc = "timedWoken" /\ holder = None
  /\ now >= executable.time
  /\ ~IsEmpty(executable_queue)
  /\ started' = Append(started, executable)
  /\ pc' = "run"
  /\ UNCHANGED <<now, queueVars, executable, callVars, ownerVars,
                 pushed, early, swept, raced>>

TimedOut ==
  /\ pc = "timedWoken" /\ holder = None
  /\ now >= executable.time
  /\ ~IsEmpty(executable_queue)
  /\ PopAndRun(executable)
  /\ UNCHANGED <<now, is_active, holder, executable, callVars, ownerVars,
                 pushed, early, swept, raced>>

(* pop() of an empty priority_queue is undefined *)
TimedOutOnEmpty ==
  /\ pc = "timedWoken" /\ holder = None
  /\ now >= executable.time
  /\ IsEmpty(executable_queue)
  /\ pc' = "undefined"
  /\ UNCHANGED <<now, queueVars, executable, callVars, ownerVars, history>>

WaitExpires ==
  /\ pc = "timed"
  /\ now >= executable.time
  /\ pc' = "timedWoken"
  /\ UNCHANGED <<now, queueVars, executable, callVars, ownerVars, history>>

SpuriousWake ==
  /\ pc \in {"waiting", "timed"}
  /\ Notify
  /\ UNCHANGED <<now, queueVars, executable, callVars, ownerVars, history>>

FuncReturns ==
  /\ pc = "run"
  /\ call[Worker] = "idle"
  /\ executable' = NoItem
  /\ pc' = "active"
  /\ UNCHANGED <<now, queueVars, callVars, ownerVars, history>>
-----------------------------------------------------------------------------
Shutdown(wait) ==
  /\ owner = "idle"
  /\ shutdowns < MaxShutdowns
  /\ shutdowns' = shutdowns + 1
  /\ is_active' = FALSE
  /\ owner' = IF wait THEN "notify" ELSE "lock"
  /\ UNCHANGED <<now, executable_queue, holder, workVars, callVars, history>>

SwapBegin ==
  /\ owner = "lock" /\ holder = None
  /\ holder' = Owner
  /\ owner' = "swap"
  /\ UNCHANGED <<now, is_active, executable_queue, workVars, callVars, shutdowns, history>>

SwapEnd ==
  /\ owner = "swap"
  /\ executable_queue' = EmptyQueue
  /\ holder' = None
  /\ owner' = "notify"
  /\ swept' = TRUE
  /\ UNCHANGED <<now, is_active, workVars, callVars, shutdowns, pushed, started, early,
                 raced>>

ShutdownNotifyMutant ==         \* mutant: no notify_all
  /\ owner = "notify"
  /\ owner' = "idle"
  /\ UNCHANGED <<now, queueVars, workVars, callVars, shutdowns, history>>

ShutdownNotify ==
  /\ owner = "notify"
  /\ Notify
  /\ owner' = "idle"
  /\ raced' = (raced \/ pc = "lock")
  /\ UNCHANGED <<now, queueVars, executable, callVars, shutdowns,
                 pushed, started, early, swept>>

Join ==
  /\ owner = "idle"
  /\ shutdowns > 0
  /\ owner' = "join"
  /\ UNCHANGED <<now, queueVars, workVars, callVars, shutdowns, history>>

JoinReturns ==
  /\ owner = "join"
  /\ pc = "exited"
  /\ owner' = "joined"
  /\ UNCHANGED <<now, queueVars, workVars, callVars, shutdowns, history>>

(* bound: the clock stops at MaxTime, and before a push would pass it *)
Tick ==
  /\ now < MaxTime
  /\ \A c \in Callers : call[c] = "push" => now + arg[c].delay < MaxTime
  /\ now' = now + 1
  /\ UNCHANGED <<queueVars, workVars, callVars, ownerVars, history>>
-----------------------------------------------------------------------------
RunLoop == \/ ReadActive
           \/ ReadEmpty
           \/ LockAndWait
           \/ WokenContinue
           \/ TopIsDue
           \/ TopIsLater
           \/ TimedContinue
           \/ TimedOut
           \/ TimedOutOnEmpty
           \/ WaitExpires
           \/ FuncReturns

Execute(c) == \/ \E f \in Funcs, d \in Delays : ExecuteLock(c, f, d)
              \/ ExecuteRefused(c)
              \/ ExecutePush(c)
              \/ ExecuteNotify(c)

OwnerStep == \/ \E wait \in BOOLEAN : Shutdown(wait)
             \/ SwapBegin
             \/ SwapEnd
             \/ ShutdownNotify
             \/ Join
             \/ JoinReturns

Next == \/ RunLoop
        \/ SpuriousWake
        \/ \E c \in Callers : Execute(c)
        \/ OwnerStep
        \/ Tick

Spec == Init /\ [][Next]_vars

(* Threads that can run do run, functions return, the clock goes on and a wait   *)
(* ends when its time has come.  Nobody has to call execute() or shutdown().    *)
Fairness ==
  /\ WF_vars(RunLoop)
  /\ WF_vars(Tick)
  /\ \A c \in Callers : WF_vars(ExecutePush(c) \/ ExecuteNotify(c))
  /\ WF_vars(SwapBegin \/ SwapEnd \/ ShutdownNotify \/ JoinReturns)

FairSpec == Spec /\ Fairness
-----------------------------------------------------------------------------
(* No function is called before its scheduled time: every way through the        *)
(* waits and their status re-reads the clock.                                   *)
NoEarlyRun == pc = "run" => executable.time <= now

(* Each call of a function takes one item off the queue, and each push is        *)
(* answered by one call: in number nothing is lost, even when the item popped    *)
(* is not the one that is called.                                               *)
CallsMatchPushes ==
  ~swept => Len(started) + Cardinality(Contents(executable_queue)) = Cardinality(pushed)

(* pop() meets an empty queue only when shutdown(false) emptied it during the    *)
(* wait for a delay.                                                            *)
UndefinedOnlyAfterDiscard == pc = "undefined" => swept

(* Every function is called at most once.  It needs equal delays: an item pushed *)
(* during the wait and due before the copy is popped in its place if the         *)
(* notification reaches run_loop after the deadline.                            *)
NeverTwice ==
  \A i, j \in DOMAIN started : started[i].func = started[j].func => i = j

(* With equal delays the worker keeps the promise of the abstract executor: each *)
(* item once, in the order of the scheduled times, never early.                 *)
Abstract == INSTANCE DelayedExecutor WITH
  items   <- IF owner = "swap" THEN {} ELSE Contents(executable_queue),
  current <- IF pc = "run" THEN executable ELSE NoItem,
  None    <- NoItem,
  open    <- shutdowns = 0,
  swept   <- swept \/ owner = "swap",
  exited  <- pc = "exited"

ImplementsDelayedExecutor == Abstract!Spec

(* What was accepted before any shutdown() is run some day, or dropped by a      *)
(* shutdown(false), or popped in the place of an item that is run twice instead: *)
(* need_notify leaves out no notification that is needed.                        *)
EarlyRuns ==
  \A f \in Funcs :
    f \in early ~> \/ swept
                  \/ \E i \in DOMAIN started : started[i].func = f
                  \/ ~NeverTwice

(* join() returns after shutdown().  It need not: the wakeup can be lost. *)
JoinReturnsAlways == owner = "join" ~> owner = "joined"

(* It returns unless a notify_all fell between run_loop's test of is_active and  *)
(* its wait, or the undefined pop was reached.                                   *)
JoinReturnsUnlessRaced ==
  owner = "join" ~> (owner = "joined" \/ raced \/ pc = "undefined")

(* Whatever the delays: nothing early, a call for each push, and no undefined pop() but  *)
(* after a discarding shutdown; what is accepted runs, and join() returns.               *)
Safety   == NoEarlyRun /\ CallsMatchPushes /\ UndefinedOnlyAfterDiscard
Progress == EarlyRuns /\ JoinReturnsUnlessRaced
=============================================================================
