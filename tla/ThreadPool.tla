----------------------------- MODULE ThreadPool -----------------------------
(* executor::ThreadPoolSimple and the ThreadSafeQueue it is built from         *)
(* (executor/ThreadPool.h): every pool has a global queue and one queue per    *)
(* worker.  A worker runs tasks from the front of its own queue, then of the   *)
(* global queue, then steals from the back of the other workers' queues.  A    *)
(* task may submit tasks and may call run_pending_task() while it waits.       *)
(* Several pools exist at once: my_idx_ and local_work_queue_ptr_ are static   *)
(* thread_local members, shared by all of them.                                *)
EXTENDS Integers, Sequences

CONSTANTS Pools,     \* the ThreadPoolSimple objects
          Size,      \* Size[p]: threadNum_ of pool p
          Steal,     \* Steal[p]: enableSteal_ of pool p
          Clients,   \* threads of no pool
          Tasks,     \* the functions submitted, each one once
          None       \* no task, no thread

ASSUME PoolAssumption ==
  /\ Size \in [Pools -> Nat \ {0}]
  /\ Steal \in [Pools -> BOOLEAN]

Indices == UNION {0..(Size[p] - 1) : p \in Pools}
Workers == {w \in Pools \X Indices : w[2] < Size[w[1]]}
PoolOf(w) == w[1]      \* the pool whose queues_ local_work_queue_ptr_ points into
my_idx(w) == w[2]
WorkersOf(p) == {w \in Workers : PoolOf(w) = p}
Threads == Workers \cup Clients

(* global_work_queue_ of a pool is named by the pool, a local queue by its worker *)
Queues == Pools \cup Workers

ASSUME ThreadAssumption ==
  /\ Pools \cap Workers = {}
  /\ Clients \cap Workers = {}
  /\ None \notin Tasks \cup Threads \cup Pools

(* The places of run_pending_task: Local and Global, then probe i of the       *)
(* stealing loop is place 2 + i.                                               *)
Local  == 0
Global == 1

VARIABLES
  queue,      \* deque_ of every queue, front first
  stop,       \* stop_ of every pool
  dtor,       \* the destructor of every pool: "alive", "joining", "destroyed"
  pending,    \* the submit() a thread is in, after its test of stop_
  scan,       \* the run_pending_task() a worker is in, before it found a task
  stack,      \* the tasks a worker is inside of, innermost last
  exited,     \* workers that have returned
  (* history, read by no guard of the code *)
  done,       \* tasks that have returned
  order,      \* accepted tasks in the order of their pushes
  submitter,  \* the thread that submitted a task, once it is pushed
  runner,     \* the worker that started it
  stolen      \* tasks taken by try_steal

poolVars == <<stop, dtor>>
history  == <<order, submitter, runner, stolen>>
vars == <<queue, poolVars, pending, scan, stack, exited, done, history>>

NoCall == [pool |-> None, task |-> None]
NoScan == [pool |-> None, at |-> Local]

TypeOK ==
  /\ queue \in [Queues -> Seq(Tasks)]
  /\ stop \in [Pools -> BOOLEAN]
  /\ dtor \in [Pools -> {"alive", "joining", "destroyed"}]
  /\ pending \in [Threads -> [pool : Pools, task : Tasks] \cup {NoCall}]
  /\ scan \in [Workers -> [pool : Pools, at : Nat] \cup {NoScan}]
  /\ stack \in [Workers -> Seq(Tasks)]
  /\ exited \subseteq Workers
  /\ done \subseteq Tasks
  /\ order \in Seq(Tasks)
  /\ submitter \in [Tasks -> Threads \cup {None}]
  /\ runner \in [Tasks -> Workers \cup {None}]
  /\ stolen \subseteq Tasks

Init ==
  /\ queue = [q \in Queues |-> << >>]
  /\ stop = [p \in Pools |-> FALSE]
  /\ dtor = [p \in Pools |-> "alive"]
  /\ pending = [c \in Threads |-> NoCall]
  /\ scan = [w \in Workers |-> NoScan]
  /\ stack = [w \in Workers |-> << >>]
  /\ exited = {}
  /\ done = {}
  /\ order = << >>
  /\ submitter = [t \in Tasks |-> None]
  /\ runner = [t \in Tasks |-> None]
  /\ stolen = {}

(* A thread calls members of pools from its own code or from a task it runs.  *)
AtCallSite(c) == /\ pending[c] = NoCall
                 /\ c \in Workers => scan[c] = NoScan /\ stack[c] # << >>

(* Threads of other pools and clients use a pool only while it is not being    *)
(* destroyed; its own workers are joined by the destructor.                     *)
MayUse(c, p) == \/ dtor[p] = "alive"
                \/ c \in WorkersOf(p)

Fresh(t) == submitter[t] = None /\ \A c \in Threads : pending[c].task # t
-----------------------------------------------------------------------------
(* submit(): the test of stop_, then the push *)
SubmitCheck(c, p, t) ==
  /\ AtCallSite(c) /\ MayUse(c, p) /\ Fresh(t)
  /\ ~stop[p]
  /\ pending' = [pending EXCEPT ![c] = [pool |-> p, task |-> t]]
  /\ UNCHANGED <<queue, poolVars, scan, stack, exited, done, history>>

SubmitRefused(c, p) ==
  /\ AtCallSite(c) /\ MayUse(c, p)
  /\ stop[p]
  /\ UNCHANGED vars

TargetQueueMutant(c) == pending[c].pool   \* mutant: always the global queue of the pool

(* my_idx_ = -1 on the clients: only they reach the global queue of the pool.  *)
TargetQueue(c) == IF c \in Clients THEN pending[c].pool ELSE c

SubmitPush(c) ==
  /\ pending[c] # NoCall
  /\ LET t == pending[c].task IN
       /\ queue' = [queue EXCEPT ![TargetQueue(c)] = Append(@, t)]
       /\ order' = Append(order, t)
       /\ submitter' = [submitter EXCEPT ![t] = c]
  /\ pending' = [pending EXCEPT ![c] = NoCall]
  /\ UNCHANGED <<poolVars, scan, stack, exited, done, runner, stolen>>
-----------------------------------------------------------------------------
WorkerLoopMutant(w) ==          \* mutant: while (true)
  /\ w \notin exited
  /\ scan[w] = NoScan /\ stack[w] = << >>
  /\ scan' = [scan EXCEPT ![w] = [pool |-> PoolOf(w), at |-> Local]]
  /\ UNCHANGED <<queue, poolVars, pending, stack, exited, done, history>>

(* the worker's while (!stop_) run_pending_task() *)
WorkerLoop(w) ==
  /\ w \notin exited
  /\ scan[w] = NoScan /\ stack[w] = << >>
  /\ ~stop[PoolOf(w)]
  /\ scan' = [scan EXCEPT ![w] = [pool |-> PoolOf(w), at |-> Local]]
  /\ UNCHANGED <<queue, poolVars, pending, stack, exited, done, history>>

WorkerExit(w) ==
  /\ w \notin exited
  /\ scan[w] = NoScan /\ stack[w] = << >>
  /\ stop[PoolOf(w)]
  /\ exited' = exited \cup {w}
  /\ UNCHANGED <<queue, poolVars, pending, scan, stack, done, history>>

(* a task that waits for another calls run_pending_task(), of any pool *)
Help(w, p) ==
  /\ AtCallSite(w) /\ MayUse(w, p)
  /\ scan' = [scan EXCEPT ![w] = [pool |-> p, at |-> Local]]
  /\ UNCHANGED <<queue, poolVars, pending, stack, exited, done, history>>

(* The queue looked at: the thread's own local queue, the pool's global queue, *)
(* then the queues of the pool from the thread's index on.                     *)
Victim(p, w, i) == <<p, (my_idx(w) + i + 1) % Size[p]>>

Source(w) ==
  LET p == scan[w].pool
      at == scan[w].at
  IN IF at = Local THEN w
     ELSE IF at = Global THEN p
     ELSE Victim(p, w, at - 2)

AfterMissGlobalMutant(s) ==     \* mutant: the global queue is skipped
  IF Steal[s.pool] /\ s.at - 1 < Size[s.pool] - 1
    THEN [s EXCEPT !.at = IF @ = Local THEN 2 ELSE @ + 1]
  ELSE NoScan

(* where the || chain goes when a queue gave nothing *)
AfterMiss(s) ==
  IF s.at = Local THEN [s EXCEPT !.at = Global]
  ELSE IF Steal[s.pool] /\ s.at - 1 < Size[s.pool] - 1 THEN [s EXCEPT !.at = @ + 1]
  ELSE NoScan

(* try_pop and try_steal: empty, or try_to_lock failed, which it may do for     *)
(* any reason; after the last miss the thread yields.                           *)
Miss(w) ==
  /\ scan[w] # NoScan
  /\ scan' = [scan EXCEPT ![w] = AfterMiss(@)]
  /\ UNCHANGED <<queue, poolVars, pending, stack, exited, done, history>>

RunMutant(w, t) ==              \* mutant: the slot is read after it was popped
  /\ scan' = [scan EXCEPT ![w] = NoScan]
  /\ stack' = [stack EXCEPT ![w] = Append(@, None)]
  /\ runner' = [runner EXCEPT ![t] = w]

Run(w, t) ==
  /\ scan' = [scan EXCEPT ![w] = NoScan]
  /\ stack' = [stack EXCEPT ![w] = Append(@, t)]
  /\ runner' = [runner EXCEPT ![t] = w]

TryPopKeepsMutant(w) ==         \* mutant: no pop_front()
  LET q == Source(w) IN
  /\ scan[w] # NoScan /\ scan[w].at \in {Local, Global}
  /\ queue[q] # << >>
  /\ Run(w, Head(queue[q]))
  /\ UNCHANGED <<queue, poolVars, pending, exited, done, order, submitter, stolen>>

TryPopBackMutant(w) ==          \* mutant: back() and pop_back()
  LET q == Source(w)
      n == Len(queue[q])
  IN
  /\ scan[w] # NoScan /\ scan[w].at \in {Local, Global}
  /\ n > 0
  /\ queue' = [queue EXCEPT ![q] = SubSeq(@, 1, n - 1)]
  /\ Run(w, queue[q][n])
  /\ UNCHANGED <<poolVars, pending, exited, done, order, submitter, stolen>>

TryPop(w) ==
  LET q == Source(w) IN
  /\ scan[w] # NoScan /\ scan[w].at \in {Local, Global}
  /\ queue[q] # << >>
  /\ queue' = [queue EXCEPT ![q] = Tail(@)]
  /\ Run(w, Head(queue[q]))
  /\ UNCHANGED <<poolVars, pending, exited, done, order, submitter, stolen>>

TrySteal(w) ==
  LET q == Source(w)
      n == Len(queue[q])
  IN
  /\ scan[w] # NoScan /\ scan[w].at \notin {Local, Global}
  /\ n > 0
  /\ queue' = [queue EXCEPT ![q] = SubSeq(@, 1, n - 1)]
  /\ Run(w, queue[q][n])
  /\ stolen' = stolen \cup {queue[q][n]}
  /\ UNCHANGED <<poolVars, pending, exited, done, order, submitter>>

TaskReturns(w) ==
  /\ stack[w] # << >>
  /\ AtCallSite(w)
  /\ LET n == Len(stack[w]) IN
       /\ done' = done \cup {stack[w][n]}
       /\ stack' = [stack EXCEPT ![w] = SubSeq(@, 1, n - 1)]
  /\ UNCHANGED <<queue, poolVars, pending, scan, exited, history>>
-----------------------------------------------------------------------------
(* The destructor.  q->stop() sets a flag only wait_pop reads, and the pool     *)
(* never calls wait_pop.  The caller sees to it that no other thread is inside  *)
(* a member of the pool.                                                        *)
UnusedByOthers(p) ==
  /\ \A c \in Threads \ WorkersOf(p) : pending[c].pool # p
  /\ \A w \in Workers \ WorkersOf(p) : scan[w].pool # p

Stop(p) ==
  /\ dtor[p] = "alive"
  /\ UnusedByOthers(p)
  /\ dtor' = [dtor EXCEPT ![p] = "joining"]
  /\ stop' = [stop EXCEPT ![p] = TRUE]
  /\ UNCHANGED <<queue, pending, scan, stack, exited, done, history>>

DestroyMutant(p) ==             \* mutant: the threads are detached, not joined
  /\ dtor[p] = "joining"
  /\ dtor' = [dtor EXCEPT ![p] = "destroyed"]
  /\ UNCHANGED <<queue, stop, pending, scan, stack, exited, done, history>>

(* every join() has returned; the queues go, with the tasks still in them *)
Destroy(p) ==
  /\ dtor[p] = "joining"
  /\ WorkersOf(p) \subseteq exited
  /\ dtor' = [dtor EXCEPT ![p] = "destroyed"]
  /\ UNCHANGED <<queue, stop, pending, scan, stack, exited, done, history>>
-----------------------------------------------------------------------------
Submit(c) == \/ \E p \in Pools, t \in Tasks : SubmitCheck(c, p, t)
             \/ \E p \in Pools : SubmitRefused(c, p)
             \/ SubmitPush(c)

Work(w) == \/ WorkerLoop(w)
           \/ WorkerExit(w)
           \/ \E p \in Pools : Help(w, p)
           \/ Miss(w)
           \/ TryPop(w)
           \/ TrySteal(w)
           \/ TaskReturns(w)

Next == \/ \E c \in Threads : Submit(c)
        \/ \E w \in Workers : Work(w)
        \/ \E p \in Pools : Stop(p) \/ Destroy(p)

Spec == Init /\ [][Next]_vars

(* Threads that can run do run; a task stops helping and returns some day; a    *)
(* try_to_lock tried again and again on a queue that holds a task succeeds some *)
(* day.  Nobody has to submit a task or to destroy a pool.                      *)
Fairness ==
  /\ \A c \in Threads : WF_vars(SubmitPush(c))
  /\ \A w \in Workers :
       /\ WF_vars(WorkerLoop(w) \/ WorkerExit(w) \/ Miss(w) \/ TryPop(w) \/ TrySteal(w))
       /\ SF_vars(TaskReturns(w))
       /\ SF_vars(TryPop(w) /\ scan[w].at = Local)
       /\ SF_vars(TryPop(w) /\ scan[w].at = Global)
  /\ \A p \in Pools : WF_vars(Destroy(p))

FairSpec == Spec /\ Fairness
-----------------------------------------------------------------------------
Accepted == {t \in Tasks : submitter[t] # None}
Queued == {t \in Tasks : \E q \in Queues : \E i \in DOMAIN queue[q] : queue[q][i] = t}
Running == {t \in Tasks : \E w \in Workers : \E i \in DOMAIN stack[w] : stack[w][i] = t}

(* A task that submit() accepted is in exactly one place: queued, being run or  *)
(* done.  No interleaving of pops, steals, pushes, helping and destruction      *)
(* loses a task or runs it twice.                                               *)
ExactlyOnce ==
  /\ Accepted = Queued \cup Running \cup done
  /\ Queued \cap (Running \cup done) = {}
  /\ Running \cap done = {}
  /\ \A q, r \in Queues : \A i \in DOMAIN queue[q], j \in DOMAIN queue[r] :
       queue[q][i] = queue[r][j] => q = r /\ i = j
  /\ \A v, w \in Workers : \A i \in DOMAIN stack[v], j \in DOMAIN stack[w] :
       stack[v][i] = stack[w][j] => v = w /\ i = j

(* The queue a task was pushed to: its submitter's own, if that is a worker, of  *)
(* whatever pool; this is what the thread_local members decide.                  *)
HomeOk(t, q) == IF submitter[t] \in Workers THEN q = submitter[t] ELSE q \in Pools

(* A local queue holds only tasks its own worker submitted, a global queue only *)
(* tasks of clients: what a worker submits, to this pool or to another, stays    *)
(* with the worker until another one steals it.                                  *)
Routing ==
  \A q \in Queues : \A i \in DOMAIN queue[q] : HomeOk(queue[q][i], q)

(* Without enableSteal_ in its pool a worker runs every task it submitted       *)
(* itself, also those it submitted to another pool and those another pool's      *)
(* worker could reach by helping.                                                *)
Affinity ==
  \A t \in Tasks :
    /\ submitter[t] \in Workers
    /\ runner[t] # None
    /\ ~Steal[PoolOf(submitter[t])]
    => runner[t] = submitter[t]

Position(t) == CHOOSE i \in DOMAIN order : order[i] = t

(* Oldest first: of two tasks one worker submitted, the younger starts before    *)
(* the older only if it was stolen.                                              *)
FifoUnlessStolen ==
  \A s, t \in Accepted :
    /\ submitter[s] \in Workers
    /\ submitter[s] = submitter[t]
    /\ Position(s) < Position(t)
    /\ runner[t] # None
    /\ t \notin stolen
    => runner[s] # None

(* Once a pool is destroyed none of its workers runs anything, and no thread     *)
(* is about to touch one of its queues.                                          *)
DestroyedQuiet ==
  \A p \in Pools : dtor[p] = "destroyed" =>
    /\ \A w \in WorkersOf(p) :
         stack[w] = << >> /\ scan[w] = NoScan /\ pending[w] = NoCall
    /\ \A c \in Threads : pending[c].pool # p
    /\ \A w \in Workers : scan[w].pool # p

(* A task left over in a queue of a destroyed pool never starts. *)
LeftoversNeverRun ==
  [][\A p \in Pools : dtor[p] = "destroyed" =>
       \A q \in {p} \cup WorkersOf(p) : queue'[q] = queue[q]]_vars

(* An accepted task is run, unless the pool that owns the queue it is in - the    *)
(* submitting worker's pool, not the one submit() was called on - is stopped.    *)
AcceptedRuns ==
  \A t \in Tasks : t \in Accepted ~>
    \/ t \in done
    \/ \E q \in Queues : /\ \E i \in DOMAIN queue[q] : queue[q][i] = t
                         /\ stop[IF q \in Pools THEN q ELSE PoolOf(q)]

(* The destructor ends: every worker leaves its loop after stop_, whatever it    *)
(* was doing.                                                                    *)
DestructionEnds == \A p \in Pools : dtor[p] = "joining" ~> dtor[p] = "destroyed"

(* A worker's tasks wait in its own queue and, without stealing, run there; a pool that  *)
(* is destroyed is quiet; tasks run and destructors end.                                 *)
Safety   == Routing /\ Affinity /\ DestroyedQuiet
Progress == AcceptedRuns /\ DestructionEnds
=============================================================================
