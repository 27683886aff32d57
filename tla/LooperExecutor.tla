--------------------------- MODULE LooperExecutor ---------------------------
(* LooperExecutor of coroutine/include/{5dispatcher,6sleep,test}/executor.h   *)
(* (the three copies have the same text): one worker thread drains a           *)
(* std::queue under queue_lock; execute(), shutdown() and join() are called    *)
(* from other threads.  A step of the model is one access to shared state or   *)
(* one critical section whose inside nobody can see.                           *)
EXTENDS Naturals, Sequences, Functions

CONSTANTS Clients,       \* threads that call execute()
          Looper,        \* work_thread; the functions it runs may call execute() too
          Owner,         \* the thread that calls shutdown() and join()
          Funcs,         \* the functions handed to execute(), each one once
          None,          \* no function, no thread
          MaxShutdowns   \* bound: calls of shutdown() (an explicit one, the destructor's)

ASSUME LooperAssumption ==
  /\ Looper \notin Clients
  /\ Owner \notin Clients \cup {Looper}
  /\ None \notin Funcs \cup Clients \cup {Looper, Owner}
  /\ MaxShutdowns \in Nat

Callers == Clients \cup {Looper}

VARIABLES
  is_active,         \* std::atomic_bool, read and written relaxed
  executable_queue,  \* the std::queue
  holder,            \* the thread that owns queue_lock between two steps, or None
  pc,                \* where run_loop is
  running,           \* the function run_loop is calling, or None
  call,              \* where each caller's execute() is
  arg,               \* the function that execute() was given
  owner,             \* where the owner's shutdown() or join() is
  joinable,          \* work_thread.joinable()
  shutdowns,         \* number of calls of shutdown()
  (* history, read by no guard of the code *)
  order,             \* every function pushed, in the order of the pushes
  started,           \* every function started, in order
  early,             \* functions whose execute() returned before any shutdown()
  swept,             \* some shutdown(false) has emptied the queue
  raced              \* a notify_all came between run_loop's test and its wait

queueVars == <<is_active, executable_queue, holder>>
workVars  == <<pc, running>>
callVars  == <<call, arg>>
ownerVars == <<owner, joinable, shutdowns>>
history   == <<order, started, early, swept, raced>>
vars == <<queueVars, workVars, callVars, ownerVars, history>>

TypeOK ==
  /\ is_active \in BOOLEAN
  /\ executable_queue \in Seq(Funcs)
  /\ holder \in Callers \cup {Owner, None}
  /\ pc \in {"active", "empty", "lock", "waiting", "woken", "run", "exited"}
  /\ running \in Funcs \cup {None}
  /\ call \in [Callers -> {"idle", "push", "notify"}]
  /\ arg \in [Callers -> Funcs \cup {None}]
  /\ owner \in {"idle", "lock", "swap", "notify", "join"}
  /\ joinable \in BOOLEAN
  /\ shutdowns \in 0..MaxShutdowns
  /\ order \in Seq(Funcs)
  /\ started \in Seq(Funcs)
  /\ early \subseteq Funcs
  /\ swept \in BOOLEAN
  /\ raced \in BOOLEAN

Init ==
  /\ is_active = TRUE
  /\ executable_queue = << >>
  /\ holder = None
  /\ pc = "active"
  /\ running = None
  /\ call = [c \in Callers |-> "idle"]
  /\ arg = [c \in Callers |-> None]
  /\ owner = "idle"
  /\ joinable = TRUE
  /\ shutdowns = 0
  /\ order = << >>
  /\ started = << >>
  /\ early = {}
  /\ swept = FALSE
  /\ raced = FALSE

Idle(c) == /\ call[c] = "idle"
           /\ c = Looper => running # None

(* f was in no call of execute() yet *)
Fresh(f) == f \notin Range(order) \cup {arg[c] : c \in Callers}

(* notify_one and notify_all: run_loop is the only thread that ever waits *)
Notify == pc' = IF pc = "waiting" THEN "woken" ELSE pc
-----------------------------------------------------------------------------
ExecuteLockMutant(c, f) ==      \* mutant: is_active is tested before the lock
  /\ Idle(c) /\ Fresh(f)
  /\ is_active
  /\ call' = [call EXCEPT ![c] = "push"]
  /\ arg' = [arg EXCEPT ![c] = f]
  /\ UNCHANGED <<queueVars, workVars, ownerVars, history>>

(* execute(): the lock is taken and is_active read; refused if shut down *)
ExecuteLock(c, f) ==
  /\ Idle(c) /\ Fresh(f)
  /\ holder = None
  /\ is_active
  /\ holder' = c
  /\ call' = [call EXCEPT ![c] = "push"]
  /\ arg' = [arg EXCEPT ![c] = f]
  /\ UNCHANGED <<is_active, executable_queue, workVars, ownerVars, history>>

ExecuteRefused(c) ==
  /\ Idle(c)
  /\ holder = None
  /\ ~is_active
  /\ UNCHANGED vars

ExecutePush(c) ==
  /\ call[c] = "push"
  /\ executable_queue' = Append(executable_queue, arg[c])
  /\ order' = Append(order, arg[c])
  /\ holder' = None
  /\ call' = [call EXCEPT ![c] = "notify"]
  /\ UNCHANGED <<is_active, workVars, arg, ownerVars, started, early, swept, raced>>

ExecuteNotifyMutant(c) ==       \* mutant: no notify_one
  /\ call[c] = "notify"
  /\ call' = [call EXCEPT ![c] = "idle"]
  /\ early' = IF shutdowns = 0 THEN early \cup {arg[c]} ELSE early
  /\ UNCHANGED <<queueVars, workVars, arg, ownerVars, order, started, swept, raced>>

ExecuteNotify(c) ==
  /\ call[c] = "notify"
  /\ Notify
  /\ call' = [call EXCEPT ![c] = "idle"]
  /\ early' = IF shutdowns = 0 THEN early \cup {arg[c]} ELSE early
  /\ UNCHANGED <<queueVars, running, arg, ownerVars, order, started, swept, raced>>
-----------------------------------------------------------------------------
ReadActiveMutant ==             \* mutant: while (is_active)
  /\ pc = "active"
  /\ pc' = IF is_active THEN "lock" ELSE "exited"
  /\ UNCHANGED <<queueVars, running, callVars, ownerVars, history>>

(* the loop condition: is_active, and if it is false executable_queue.empty() *)
ReadActive ==
  /\ pc = "active"
  /\ pc' = IF is_active THEN "lock" ELSE "empty"
  /\ UNCHANGED <<queueVars, running, callVars, ownerVars, history>>

(* empty() is called without the lock: while shutdown(false) swaps the queue   *)
(* the read races with the swap and may give either answer.                    *)
ReadEmpty ==
  /\ pc = "empty"
  /\ \E isEmpty \in BOOLEAN :
       /\ owner # "swap" => isEmpty = (executable_queue = << >>)
       /\ pc' = IF isEmpty THEN "exited" ELSE "lock"
  /\ UNCHANGED <<queueVars, running, callVars, ownerVars, history>>

TakeFrontMutant ==              \* mutant: back() and pop_back()
  /\ executable_queue # << >>
  /\ LET n == Len(executable_queue) IN
       /\ running' = executable_queue[n]
       /\ executable_queue' = SubSeq(executable_queue, 1, n - 1)
       /\ started' = Append(started, executable_queue[n])
  /\ pc' = "run"
  /\ UNCHANGED <<is_active, holder, callVars, ownerVars, order, early, swept, raced>>

(* front(), pop(), unlock(), and the call of the function *)
TakeFront ==
  /\ executable_queue # << >>
  /\ running' = Head(executable_queue)
  /\ executable_queue' = Tail(executable_queue)
  /\ started' = Append(started, Head(executable_queue))
  /\ pc' = "run"
  /\ UNCHANGED <<is_active, holder, callVars, ownerVars, order, early, swept, raced>>

LockAndWait ==
  /\ pc = "lock" /\ holder = None
  /\ executable_queue = << >>
  /\ pc' = "waiting"
  /\ UNCHANGED <<queueVars, running, callVars, ownerVars, history>>

LockAndTake == pc = "lock" /\ holder = None /\ TakeFront

WokenContinue ==
  /\ pc = "woken" /\ holder = None
  /\ executable_queue = << >>
  /\ pc' = "active"
  /\ UNCHANGED <<queueVars, running, callVars, ownerVars, history>>

WokenTakeMutant ==              \* mutant: the queue is not looked at again after the wait
  /\ pc = "woken" /\ holder = None
  /\ IF executable_queue = << >>
       THEN /\ running' = Looper /\ pc' = "run"
            /\ UNCHANGED <<queueVars, callVars, ownerVars, history>>
       ELSE TakeFront

WokenTake == pc = "woken" /\ holder = None /\ TakeFront

(* condition variables may wake a waiter nobody notified *)
SpuriousWake ==
  /\ pc = "waiting"
  /\ pc' = "woken"
  /\ UNCHANGED <<queueVars, running, callVars, ownerVars, history>>

FuncReturns ==
  /\ pc = "run"
  /\ call[Looper] = "idle"
  /\ running' = None
  /\ pc' = "active"
  /\ UNCHANGED <<queueVars, callVars, ownerVars, history>>
-----------------------------------------------------------------------------
(* shutdown(wait): the store is not under queue_lock *)
Shutdown(wait) ==
  /\ owner = "idle"
  /\ shutdowns < MaxShutdowns
  /\ shutdowns' = shutdowns + 1
  /\ is_active' = FALSE
  /\ owner' = IF wait THEN "notify" ELSE "lock"
  /\ UNCHANGED <<executable_queue, holder, workVars, callVars, joinable, history>>

SwapBegin ==
  /\ owner = "lock" /\ holder = None
  /\ holder' = Owner
  /\ owner' = "swap"
  /\ UNCHANGED <<is_active, executable_queue, workVars, callVars,
                 joinable, shutdowns, history>>

SwapEndMutant ==                \* mutant: the queue is copied, not swapped
  /\ owner = "swap"
  /\ holder' = None
  /\ owner' = "notify"
  /\ swept' = TRUE
  /\ UNCHANGED <<is_active, executable_queue, workVars, callVars, joinable, shutdowns,
                 order, started, early, raced>>

SwapEnd ==
  /\ owner = "swap"
  /\ executable_queue' = << >>
  /\ holder' = None
  /\ owner' = "notify"
  /\ swept' = TRUE
  /\ UNCHANGED <<is_active, workVars, callVars, joinable, shutdowns,
                 order, started, early, raced>>

ShutdownNotifyMutant ==         \* mutant: no notify_all
  /\ owner = "notify"
  /\ owner' = "idle"
  /\ UNCHANGED <<queueVars, workVars, callVars, joinable, shutdowns, history>>

ShutdownNotify ==
  /\ owner = "notify"
  /\ Notify
  /\ owner' = "idle"
  /\ raced' = (raced \/ pc = "lock")
  /\ UNCHANGED <<queueVars, running, callVars, joinable, shutdowns,
                 order, started, early, swept>>

(* join() after a shutdown; a second join() finds the thread not joinable *)
Join ==
  /\ owner = "idle"
  /\ shutdowns > 0
  /\ joinable
  /\ owner' = "join"
  /\ UNCHANGED <<queueVars, workVars, callVars, joinable, shutdowns, history>>

JoinReturns ==
  /\ owner = "join"
  /\ pc = "exited"
  /\ owner' = "idle"
  /\ joinable' = FALSE
  /\ UNCHANGED <<queueVars, workVars, callVars, shutdowns, history>>
-----------------------------------------------------------------------------
RunLoop == \/ ReadActive
           \/ ReadEmpty
           \/ LockAndWait
           \/ LockAndTake
           \/ WokenContinue
           \/ WokenTake
           \/ FuncReturns

Execute(c) == \/ \E f \in Funcs : ExecuteLock(c, f)
              \/ ExecuteRefused(c)
              \/ ExecutePush(c)
              \/ ExecuteNotify(c)

OwnerStep == \/ \E wait \in BOOLEAN : Shutdown(wait)
             \/ SwapBegin
             \/ SwapEnd
             \/ ShutdownNotify
             \/ Join
             \/ JoinReturns

Next == \/ RunLoop
        \/ SpuriousWake
        \/ \E c \in Callers : Execute(c)
        \/ OwnerStep

Spec == Init /\ [][Next]_vars

(* The scheduler runs every thread that can run, and the functions return.     *)
(* Nobody has to call execute(), shutdown() or join(), and no spurious wakeup   *)
(* has to come.                                                                 *)
Fairness ==
  /\ WF_vars(RunLoop)
  /\ \A c \in Callers : WF_vars(ExecutePush(c) \/ ExecuteNotify(c))
  /\ WF_vars(SwapBegin \/ SwapEnd \/ ShutdownNotify \/ JoinReturns)

FairSpec == Spec /\ Fairness
-----------------------------------------------------------------------------
(* Every function pushed was started or is still queued, each once and in the  *)
(* order of the pushes, until a shutdown(false) drops the queue.               *)
FifoExactlyOnce == ~swept => order = started \o executable_queue

(* What execute() accepted before shutdown() was called has run when run_loop  *)
(* returns, unless a shutdown(false) asked for the queue to be dropped: the    *)
(* unlocked reads of the loop condition miss no function.                      *)
NoDiscard == ~swept /\ owner \notin {"lock", "swap"}

GracefulDrain ==
  pc = "exited" /\ NoDiscard =>
    /\ early \subseteq Range(started)
    /\ running = None

(* After shutdown(false) has emptied the queue nothing gets into it, although  *)
(* is_active is stored without the lock: execute() holds queue_lock from its   *)
(* test of is_active to its push.                                              *)
SweptStaysEmpty == swept => executable_queue = << >>

(* No function starts once some shutdown(false) has swept the queue. *)
NothingStartsAfterSweep == [][swept => started' = started]_vars

(* The promise of the abstract executor.  The backlog is given up when the     *)
(* sweep takes the lock.                                                        *)
Abstract == INSTANCE SerialExecutor WITH
  backlog <- IF owner = "swap" THEN << >> ELSE executable_queue,
  current <- running,
  open    <- shutdowns = 0,
  swept   <- swept \/ owner = "swap",
  exited  <- pc = "exited"

ImplementsSerialExecutor == Abstract!Spec

(* What was accepted before any shutdown() is eventually run, or dropped by a  *)
(* shutdown(false).                                                             *)
EarlyRuns ==
  \A f \in Funcs : f \in early ~> (swept \/ f \in Range(started))

(* join() returns, unless a notify_all fell between run_loop's test of is_active  *)
(* and its wait: then the wakeup is lost, because the store is not under the lock *)
(* and the wait has no predicate.                                                *)
JoinReturnsUnlessRaced == owner = "join" ~> (pc = "exited" \/ raced)

(* Accepted functions run once and in order, a graceful shutdown drains, and nothing     *)
(* comes back after a discarding one; what is accepted runs, and join() returns.         *)
Safety   == FifoExactlyOnce /\ GracefulDrain /\ SweptStaysEmpty
Progress == EarlyRuns /\ JoinReturnsUnlessRaced
=============================================================================
