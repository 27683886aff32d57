------------------------------ MODULE Concurrent -----------------------------
(* The small concurrent components in one specification: which says whose behaviour it   *)
(* is, and the other components stay in an initial state of theirs.                      *)
EXTENDS FutureState, Integers, Sequences

CONSTANTS Targets, Fractions, Misses, SizeValues, IntValues,      \* MultiLookUp
          Workers, Lists,                                         \* ParallelSort
          Items, Pushers, Takers, Triers, Stopper,                \* WorkQueue
          Programs, Sleep, Main, Sched,                           \* TaskChain
          Runs,                                                   \* JoiningThread
          None

VARIABLES which,
          n, fraction, task, not_found_cnt, count_down, main,
          input, stack, queue, global, local, sMain, mtx, done, ret, sLate,
          deque_, stop_, qPc, got, started, pushed, popped,
          prog, at, todo, stage, callback, alive, inside, cMain, loop, ending, cLate,
          slot, thread, frame, jPc, run, jLate, outcome

lookUpVars == <<n, fraction, task, not_found_cnt, count_down, main>>
sortVars   == <<input, stack, queue, global, local, sMain, mtx, done, ret, sLate>>
queueVars  == <<deque_, stop_, qPc, got, started, pushed, popped>>
chainVars  == <<prog, at, todo, stage, callback, alive, inside, cMain, loop, ending, cLate>>
threadVars == <<slot, thread, frame, jPc, run, jLate, outcome>>
futureVars == <<state_, result_, pc, state, build, aborted>>
allVars    == <<which, lookUpVars, sortVars, queueVars, chainVars, threadVars, futureVars>>
-----------------------------------------------------------------------------
M == INSTANCE MultiLookUp
S == INSTANCE ParallelSort WITH main <- sMain, late <- sLate
Q == INSTANCE WorkQueue WITH Waiters <- Takers, pc <- qPc
C == INSTANCE TaskChain WITH main <- cMain, late <- cLate
T == INSTANCE JoiningThread WITH pc <- jPc, late <- jLate

ASSUME ConcurrentAssumption ==
  M!LookUpAssumption /\ S!SortAssumption /\ Q!WorkQueueAssumption /\ C!ChainAssumption /\ T!JoiningAssumption

LookUps(A) == which = "lookup" /\ A
                /\ UNCHANGED <<which, sortVars, queueVars, chainVars, threadVars, futureVars>>
Sort(A)    == which = "sort" /\ A
                /\ UNCHANGED <<which, lookUpVars, queueVars, chainVars, threadVars, futureVars>>
Queue(A)   == which = "queue" /\ A
                /\ UNCHANGED <<which, lookUpVars, sortVars, chainVars, threadVars, futureVars>>
Chain(A)   == which = "chain" /\ A
                /\ UNCHANGED <<which, lookUpVars, sortVars, queueVars, threadVars, futureVars>>
Thread(A)  == which = "thread" /\ A
                /\ UNCHANGED <<which, lookUpVars, sortVars, queueVars, chainVars, futureVars>>
Future(A)  == which = "future" /\ A
                /\ UNCHANGED <<which, lookUpVars, sortVars, queueVars, chainVars, threadVars>>
-----------------------------------------------------------------------------
One(set) == CHOOSE x \in set : TRUE

ConcurrentInit ==
  /\ which \in {"lookup", "sort", "queue", "chain", "thread", "future"}
  /\ M!Init /\ S!Init /\ Q!Init /\ C!Init /\ T!Init /\ Init
  /\ which # "lookup" => n = One(Targets) /\ fraction = One(Fractions)
  /\ which # "sort" => input = One(Lists)
  /\ which # "queue" => ~stop_
  /\ which # "chain" => prog = One(Programs)
  /\ which # "future" => build = One(Builds)

ConcurrentNext == LookUps(M!Next) \/ Sort(S!Next) \/ Queue(Q!Next) \/ Chain(C!Next)
                  \/ Thread(T!Next) \/ Future(Next)

(* Tasks of a pool, threads in a call and queued functions go on; nobody has to call an *)
(* operation of the queue, and no spurious wakeup has to come.                          *)
ConcurrentFairness ==
  /\ \A i \in UNION {0..k - 1 : k \in Targets \cup Fractions} : WF_allVars(LookUps(i \in M!TaskSet /\ (M!LookUp(i) \/ M!CountDown(i))))
  /\ WF_allVars(LookUps(M!Return))
  /\ \A w \in Workers : WF_allVars(Sort(S!Work(w)))
  /\ WF_allVars(Sort(S!MainThread))
  /\ WF_allVars(Queue(Q!Notify))
  /\ \A w \in Takers : WF_allVars(Queue(Q!Woken(w)))
  /\ \A t \in UNION {DOMAIN p : p \in Programs} :
       /\ WF_allVars(Chain(t \in C!Tasks /\ C!Run(t)))
       /\ WF_allVars(Chain(t \in C!Tasks /\ C!Loop(t)))
       /\ WF_allVars(Chain(t \in C!Tasks /\ C!Destroy(t)))
  /\ \A x \in {Main, Sched} \cup UNION {DOMAIN p : p \in Programs} : WF_allVars(Chain(x \in C!Threads /\ C!Notify(x)))
  /\ WF_allVars(Chain(C!CallMain)) /\ WF_allVars(Chain(C!GetMain))
  /\ WF_allVars(Thread(T!MainStep))
  /\ \A r \in 1..Runs : WF_allVars(Thread(T!ThreadStep(r)))

ConcurrentSpec == ConcurrentInit /\ [][ConcurrentNext]_allVars /\ ConcurrentFairness
-----------------------------------------------------------------------------
(* The properties of the components, each stated and explained in its module; FutureState *)
(* has its own names.  The types of the variables:                                      *)
TypesOK == TypeOK /\ Q!TypeOK

(* MultiLookUp: the count; ParallelSort: the list and the references of its tasks;         *)
(* WorkQueue: items and wake-ups; TaskChain: callbacks and late accesses, and one           *)
(* resumption per await; JoiningThread: its thread and frame.                             *)
LookUpSafety        == M!Safety
SortSafety          == S!Safety
QueueSafety         == Q!Safety
ChainSafety         == C!Safety
ResumedOncePerAwait == C!ResumedOncePerAwait
ThreadSafety        == T!Safety

(* Everything comes to its end: the spin of main() in a look-up that is exact, the sort, a  *)
(* chain of tasks that neither blocks itself nor joins a looper whose thread has missed its   *)
(* wakeup, the joining thread's main(), and the sleep of a thread that waits for an item or   *)
(* a stop; but the wait() for a future does not.                                          *)
MainReturns == (which = "lookup" /\ M!Exact) ~> main # -1
SortEnds    == which = "sort" ~> sMain = "ended"
ChainEnds   == which = "chain" => C!ChainEnds
MainEnds    == which = "thread" ~> jPc = "ended"
Progress    == MainReturns /\ SortEnds /\ ChainEnds /\ MainEnds /\ Q!Progress /\ WaitsForEver
=============================================================================
