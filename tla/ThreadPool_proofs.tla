------------------------- MODULE ThreadPool_proofs --------------------------
(* Theorems about ThreadPool for every number of pools, workers, clients and    *)
(* tasks, with and without stealing.                                            *)
EXTENDS ThreadPool, SequenceTheorems, TLAPS

Calls == [pool : Pools, task : Tasks]
Scans == [pool : Pools, at : Nat]

(* A record that stands for no call or no scan is none of the real ones. *)
LEMMA NoneFacts ==
  /\ None \notin Pools /\ None \notin Tasks /\ None \notin Workers
  /\ None \notin Threads
  /\ NoCall \notin Calls /\ NoScan \notin Scans
  BY ThreadAssumption DEF Threads, NoCall, NoScan, Calls, Scans

(* A worker is its pool and an index below the size of the pool. *)
LEMMA WorkerFacts ==
  ASSUME NEW w \in Workers
  PROVE  /\ PoolOf(w) \in Pools /\ my_idx(w) \in Nat /\ my_idx(w) < Size[PoolOf(w)]
         /\ w \in Threads /\ w \notin Clients /\ w \notin Pools /\ w \in Queues
<1>1. w \in Pools \X Indices /\ w[2] < Size[w[1]]
  BY DEF Workers
<1>2. Indices \subseteq Nat
  BY PoolAssumption DEF Indices
<1> QED
  BY <1>1, <1>2, ThreadAssumption DEF PoolOf, my_idx, Threads, Queues

(* The index arithmetic of the stealing loop stays inside queues_. *)
LEMMA VictimIsWorker ==
  ASSUME NEW p \in Pools, NEW w \in Workers, NEW i \in Nat
  PROVE  Victim(p, w, i) \in Workers /\ PoolOf(Victim(p, w, i)) = p
<1> DEFINE k == (my_idx(w) + i + 1) % Size[p]
<1>1. Size[p] \in Nat \ {0} /\ my_idx(w) + i + 1 \in Nat
  BY PoolAssumption, WorkerFacts
<1>2. k \in 0..(Size[p] - 1)
  BY <1>1
<1>3. k \in Indices
  BY <1>2 DEF Indices
<1> QED
  BY <1>1, <1>2, <1>3 DEF Victim, Workers, PoolOf

(* The queue a worker looks at exists: its own, the pool's, or one of the pool's *)
(* workers'.                                                                     *)
LEMMA SourceFacts ==
  ASSUME TypeOK, NEW w \in Workers, scan[w] # NoScan
  PROVE  /\ scan[w] \in Scans
         /\ Source(w) \in Queues
         /\ scan[w].at = Local => Source(w) = w
         /\ scan[w].at = Global => Source(w) = scan[w].pool
         /\ scan[w].at \notin {Local, Global} =>
              Source(w) \in Workers /\ PoolOf(Source(w)) = scan[w].pool
<1>1. scan[w] \in Scans
  BY DEF TypeOK, Scans
<1>2. scan[w].pool \in Pools /\ scan[w].at \in Nat
  BY <1>1 DEF Scans
<1>3. CASE scan[w].at = Local
  BY <1>1, <1>3, WorkerFacts DEF Source, Local, Global
<1>4. CASE scan[w].at = Global
  BY <1>1, <1>2, <1>4 DEF Source, Local, Global, Queues
<1>5. CASE scan[w].at \notin {Local, Global}
  <2>1. scan[w].at - 2 \in Nat
    BY <1>2, <1>5 DEF Local, Global
  <2>2. Source(w) = Victim(scan[w].pool, w, scan[w].at - 2)
    BY <1>5 DEF Source
  <2>3. Source(w) \in Workers /\ PoolOf(Source(w)) = scan[w].pool
    BY <1>2, <2>1, <2>2, VictimIsWorker
  <2> QED
    BY <1>1, <1>5, <2>3 DEF Queues
<1> QED
  BY <1>3, <1>4, <1>5

(* A sequence of tasks stays one when a task is appended. *)
LEMMA AppendType ==
  ASSUME NEW S, NEW s \in Seq(S), NEW e \in S
  PROVE  Append(s, e) \in Seq(S)
  BY AppendProperties

(* All but the last entry of a sequence of tasks: its type, length and entries. *)
LEMMA FrontFacts ==
  ASSUME NEW S, NEW s \in Seq(S), s # << >>
  PROVE  /\ Len(s) \in Nat \ {0}
         /\ s[Len(s)] \in S
         /\ SubSeq(s, 1, Len(s) - 1) \in Seq(S)
         /\ Len(SubSeq(s, 1, Len(s) - 1)) = Len(s) - 1
         /\ \A i \in 1..(Len(s) - 1) : SubSeq(s, 1, Len(s) - 1)[i] = s[i]
<1>1. Len(s) \in Nat \ {0}
  BY EmptySeq
<1>2. \A i \in 1..Len(s) : s[i] \in S
  BY ElementOfSeq
<1> DEFINE n == Len(s) - 1
<1>3. 1 \in Int /\ n \in Int /\ \A i \in 1..n : s[i] \in S
  BY <1>1, <1>2
<1>4. /\ SubSeq(s, 1, n) \in Seq(S)
      /\ Len(SubSeq(s, 1, n)) = IF 1 <= n THEN n - 1 + 1 ELSE 0
      /\ \A i \in 1..(n - 1 + 1) : SubSeq(s, 1, n)[i] = s[1 + i - 1]
  BY <1>3, SubSeqProperties
<1>5. Len(SubSeq(s, 1, n)) = Len(s) - 1
  <2> DEFINE l == Len(SubSeq(s, 1, n))
             k == Len(s)
  <2>1. l = IF 1 <= k - 1 THEN k - 1 - 1 + 1 ELSE 0
    BY <1>4
  <2>2. k \in Nat \ {0}
    BY <1>1
  <2> HIDE DEF l, k
  <2>3. l = k - 1
    BY <2>1, <2>2
  <2> QED
    BY <2>3 DEF l, k
<1>6. ASSUME NEW i \in 1..n PROVE SubSeq(s, 1, n)[i] = s[i]
  <2>1. n - 1 + 1 = n /\ 1 + i - 1 = i
    BY <1>1
  <2> QED
    BY <1>4, <2>1
<1>7. s[Len(s)] \in S
  BY <1>1, <1>2
<1> QED
  BY <1>1, <1>4, <1>5, <1>6, <1>7
-----------------------------------------------------------------------------
(* Every variable of ThreadPool keeps its type. *)
THEOREM TypeCorrect == Spec => []TypeOK
<1>1. Init => TypeOK
  <2> SUFFICES ASSUME Init PROVE TypeOK
    OBVIOUS
  <2>1. queue \in [Queues -> Seq(Tasks)] /\ stack \in [Workers -> Seq(Tasks)]
        /\ order \in Seq(Tasks)
    BY EmptySeq DEF Init
  <2>2. /\ pending \in [Threads -> Calls \cup {NoCall}]
        /\ scan \in [Workers -> Scans \cup {NoScan}]
    BY DEF Init
  <2> QED
    BY <2>1, <2>2 DEF Init, TypeOK, Calls, Scans
<1>2. TypeOK /\ [Next]_vars => TypeOK'
  <2> SUFFICES ASSUME TypeOK, [Next]_vars PROVE TypeOK'
    OBVIOUS
  <2> USE DEF poolVars, history
  <2>1. CASE UNCHANGED vars
    BY <2>1 DEF vars, TypeOK
  <2>2. ASSUME NEW c \in Threads, NEW p \in Pools, NEW t \in Tasks, SubmitCheck(c, p, t)
        PROVE TypeOK'
    BY <2>2 DEF SubmitCheck, TypeOK
  <2>3. ASSUME NEW c \in Threads, NEW p \in Pools, SubmitRefused(c, p) PROVE TypeOK'
    BY <2>3 DEF SubmitRefused, vars, TypeOK
  <2>4. ASSUME NEW c \in Threads, SubmitPush(c) PROVE TypeOK'
    <3> DEFINE t == pending[c].task
    <3>1. pending[c] \in Calls /\ t \in Tasks /\ pending[c].pool \in Pools
      BY <2>4 DEF SubmitPush, TypeOK, Calls
    <3>2. TargetQueue(c) \in Queues
      BY <3>1 DEF TargetQueue, Queues, Threads
    <3>3. queue' \in [Queues -> Seq(Tasks)]
      <4>1. Append(queue[TargetQueue(c)], t) \in Seq(Tasks)
        BY <3>1, <3>2, AppendType DEF TypeOK
      <4> QED
        BY <2>4, <4>1 DEF SubmitPush, TypeOK
    <3>4. order' \in Seq(Tasks)
      BY <2>4, <3>1, AppendType DEF SubmitPush, TypeOK
    <3>5. pending' \in [Threads -> Calls \cup {NoCall}]
      BY <2>4 DEF SubmitPush, TypeOK, Calls
    <3>6. submitter' \in [Tasks -> Threads \cup {None}]
      BY <2>4 DEF SubmitPush, TypeOK
    <3> QED
      BY <2>4, <3>3, <3>4, <3>5, <3>6 DEF SubmitPush, TypeOK, Calls
  <2>5. ASSUME NEW w \in Workers, WorkerLoop(w) \/ WorkerExit(w) PROVE TypeOK'
    <3>1. PoolOf(w) \in Pools
      BY WorkerFacts
    <3>2. [pool |-> PoolOf(w), at |-> Local] \in Scans
      BY <3>1 DEF Scans, Local
    <3>3. CASE WorkerLoop(w)
      BY <3>2, <3>3 DEF WorkerLoop, TypeOK, Scans
    <3>4. CASE WorkerExit(w)
      BY <3>4 DEF WorkerExit, TypeOK
    <3> QED
      BY <2>5, <3>3, <3>4
  <2>6. ASSUME NEW w \in Workers, NEW p \in Pools, Help(w, p) PROVE TypeOK'
    <3>1. [pool |-> p, at |-> Local] \in Scans
      BY DEF Scans, Local
    <3> QED
      BY <2>6, <3>1 DEF Help, TypeOK, Scans
  <2>7. ASSUME NEW w \in Workers, Miss(w) PROVE TypeOK'
    <3>1. scan[w] \in Scans
      BY <2>7 DEF Miss, TypeOK, Scans
    <3>2. AfterMiss(scan[w]) \in Scans \cup {NoScan}
      BY <3>1 DEF AfterMiss, Scans, Local, Global
    <3> QED
      BY <2>7, <3>2 DEF Miss, TypeOK, Scans
  <2>8. ASSUME NEW w \in Workers, TryPop(w) PROVE TypeOK'
    <3> DEFINE q == Source(w)
               t == Head(queue[q])
    <3>1. q \in Queues /\ queue[q] \in Seq(Tasks)
      BY <2>8, SourceFacts DEF TryPop, TypeOK
    <3>2. t \in Tasks /\ Tail(queue[q]) \in Seq(Tasks)
      BY <2>8, <3>1, HeadTailProperties DEF TryPop
    <3>3. queue' \in [Queues -> Seq(Tasks)]
      BY <2>8, <3>2 DEF TryPop, TypeOK
    <3>4. stack' \in [Workers -> Seq(Tasks)]
      <4>1. Append(stack[w], t) \in Seq(Tasks)
        BY <3>2, AppendType DEF TypeOK
      <4> QED
        BY <2>8, <4>1 DEF TryPop, Run, TypeOK
    <3>5. scan' \in [Workers -> Scans \cup {NoScan}] /\ runner' \in [Tasks -> Workers \cup {None}]
      BY <2>8, <3>2 DEF TryPop, Run, TypeOK, Scans
    <3> QED
      BY <2>8, <3>3, <3>4, <3>5 DEF TryPop, TypeOK, Scans
  <2>9. ASSUME NEW w \in Workers, TrySteal(w) PROVE TypeOK'
    <3> DEFINE q == Source(w)
               t == queue[q][Len(queue[q])]
    <3>1. q \in Queues /\ queue[q] \in Seq(Tasks)
      BY <2>9, SourceFacts DEF TrySteal, TypeOK
    <3>2. t \in Tasks /\ SubSeq(queue[q], 1, Len(queue[q]) - 1) \in Seq(Tasks)
      <4>1. queue[q] # << >>
        BY <2>9, <3>1 DEF TrySteal
      <4> QED
        BY <3>1, <4>1, FrontFacts
    <3>3. queue' \in [Queues -> Seq(Tasks)]
      BY <2>9, <3>2 DEF TrySteal, TypeOK
    <3>4. stack' \in [Workers -> Seq(Tasks)]
      <4>1. Append(stack[w], t) \in Seq(Tasks)
        BY <3>2, AppendType DEF TypeOK
      <4> QED
        BY <2>9, <4>1 DEF TrySteal, Run, TypeOK
    <3>5. /\ scan' \in [Workers -> Scans \cup {NoScan}]
          /\ runner' \in [Tasks -> Workers \cup {None}]
          /\ stolen' \subseteq Tasks
      BY <2>9, <3>2 DEF TrySteal, Run, TypeOK, Scans
    <3> QED
      BY <2>9, <3>3, <3>4, <3>5 DEF TrySteal, TypeOK, Scans
  <2>10. ASSUME NEW w \in Workers, TaskReturns(w) PROVE TypeOK'
    <3>1. stack[w] \in Seq(Tasks) /\ stack[w] # << >>
      BY <2>10 DEF TaskReturns, TypeOK
    <3>2. /\ stack[w][Len(stack[w])] \in Tasks
          /\ SubSeq(stack[w], 1, Len(stack[w]) - 1) \in Seq(Tasks)
      BY <3>1, FrontFacts
    <3> QED
      BY <2>10, <3>2 DEF TaskReturns, TypeOK
  <2>11. ASSUME NEW p \in Pools, Stop(p) \/ Destroy(p) PROVE TypeOK'
    BY <2>11 DEF Stop, Destroy, TypeOK
  <2> QED
    BY <2>1, <2>2, <2>3, <2>4, <2>5, <2>6, <2>7, <2>8, <2>9, <2>10, <2>11
    DEF Next, Submit, Work
<1> QED
  BY <1>1, <1>2, PTL DEF Spec
-----------------------------------------------------------------------------
(* What try_pop and try_steal have in common: the task at position k of queue q *)
(* is gone, the others keep their order, and the worker runs it.                *)
Taken(w, q, k) ==
  /\ scan[w] # NoScan
  /\ q = Source(w) /\ q \in Queues
  /\ k \in 1..Len(queue[q])
  /\ DOMAIN queue' = Queues
  /\ \A r \in Queues : r # q => queue'[r] = queue[r]
  /\ DOMAIN queue'[q] = 1..(Len(queue[q]) - 1)
  /\ \A j \in 1..(Len(queue[q]) - 1) :
       queue'[q][j] = queue[q][IF j < k THEN j ELSE j + 1]
  /\ queue[q][k] \in Tasks
  /\ Run(w, queue[q][k])
  /\ UNCHANGED <<poolVars, pending, exited, done, order, submitter>>

(* try_pop() takes the first entry of the queue it looks at. *)
LEMMA TryPopTakes ==
  ASSUME TypeOK, NEW w \in Workers, TryPop(w)
  PROVE  Taken(w, Source(w), 1)
<1> DEFINE q == Source(w)
<1>1. scan[w] # NoScan /\ q \in Queues
  BY SourceFacts DEF TryPop
<1>2. queue[q] \in Seq(Tasks) /\ queue[q] # << >>
  BY <1>1 DEF TypeOK, TryPop
<1>3. Len(queue[q]) \in Nat \ {0} /\ queue[q][1] \in Tasks /\ Head(queue[q]) = queue[q][1]
  BY <1>2, EmptySeq, ElementOfSeq
<1>4. queue' = [queue EXCEPT ![q] = Tail(@)]
  BY DEF TryPop
<1>5. queue'[q] = Tail(queue[q])
  BY <1>1, <1>4 DEF TypeOK
<1>6. /\ Tail(queue[q]) \in Seq(Tasks)
      /\ Len(Tail(queue[q])) = Len(queue[q]) - 1
      /\ \A j \in 1..Len(Tail(queue[q])) : Tail(queue[q])[j] = queue[q][j + 1]
  BY <1>2, HeadTailProperties
<1>7. DOMAIN queue'[q] = 1..(Len(queue[q]) - 1)
  BY <1>5, <1>6, LenProperties
<1>8. ASSUME NEW j \in 1..(Len(queue[q]) - 1)
      PROVE queue'[q][j] = queue[q][IF j < 1 THEN j ELSE j + 1]
  BY <1>3, <1>5, <1>6
<1>9. DOMAIN queue' = Queues /\ \A r \in Queues : r # q => queue'[r] = queue[r]
  BY <1>1, <1>4 DEF TypeOK
<1>10. Run(w, queue[q][1]) /\ UNCHANGED <<poolVars, pending, exited, done, order, submitter>>
  BY <1>3 DEF TryPop
<1> HIDE DEF q
<1>11. 1 \in 1..Len(queue[q])
  BY <1>3
<1> QED
  BY <1>1, <1>3, <1>7, <1>8, <1>9, <1>10, <1>11 DEF Taken, q

(* try_steal() takes the last entry of the queue it looks at. *)
LEMMA TryStealTakes ==
  ASSUME TypeOK, NEW w \in Workers, TrySteal(w)
  PROVE  Taken(w, Source(w), Len(queue[Source(w)]))
<1> DEFINE q == Source(w)
           n == Len(queue[q])
<1>1. scan[w] # NoScan /\ q \in Queues
  BY SourceFacts DEF TrySteal
<1>2. queue[q] \in Seq(Tasks) /\ queue[q] # << >>
  BY <1>1 DEF TypeOK, TrySteal
<1>3. /\ n \in Nat \ {0} /\ queue[q][n] \in Tasks
      /\ SubSeq(queue[q], 1, n - 1) \in Seq(Tasks)
      /\ Len(SubSeq(queue[q], 1, n - 1)) = n - 1
      /\ \A i \in 1..(n - 1) : SubSeq(queue[q], 1, n - 1)[i] = queue[q][i]
  BY <1>2, FrontFacts
<1>4. queue' = [queue EXCEPT ![q] = SubSeq(@, 1, n - 1)]
  BY DEF TrySteal
<1>5. queue'[q] = SubSeq(queue[q], 1, n - 1)
  BY <1>1, <1>4 DEF TypeOK
<1>6. DOMAIN queue'[q] = 1..(n - 1)
  BY <1>3, <1>5, LenProperties
<1>7. DOMAIN queue' = Queues /\ \A r \in Queues : r # q => queue'[r] = queue[r]
  BY <1>1, <1>4 DEF TypeOK
<1>8. Run(w, queue[q][n]) /\ UNCHANGED <<poolVars, pending, exited, done, order, submitter>>
  BY DEF TrySteal
<1>9. \A j \in 1..(n - 1) : queue'[q][j] = queue[q][j]
  BY <1>3, <1>5
<1> HIDE DEF n
<1>10. \A j \in 1..(n - 1) : queue'[q][j] = queue[q][IF j < n THEN j ELSE j + 1]
  BY <1>3, <1>9
<1>11. n \in 1..n
  BY <1>3
<1> QED
  BY <1>1, <1>3, <1>6, <1>7, <1>8, <1>10, <1>11 DEF Taken, n
-----------------------------------------------------------------------------
(* A task is pushed before it is queued or run, a submit() in progress has a     *)
(* task nobody else has, and only a stealing pool is probed beyond its global     *)
(* queue.                                                                        *)
HistoryInv ==
  /\ \A t \in Tasks : runner[t] # None => submitter[t] # None
  /\ \A c \in Threads : pending[c] # NoCall => submitter[pending[c].task] = None
  /\ \A c, d \in Threads :
       pending[c] # NoCall /\ pending[c].task = pending[d].task => c = d
  /\ \A q \in Queues : \A i \in DOMAIN queue[q] : submitter[queue[q][i]] # None
  /\ \A w \in Workers :
       scan[w] # NoScan /\ scan[w].at \notin {Local, Global} => Steal[scan[w].pool]

RouteInv == HistoryInv /\ Routing /\ Affinity

(* What the push of submit() adds: one entry, at the end of the target queue. *)
LEMMA PushFacts ==
  ASSUME TypeOK, NEW c \in Threads, SubmitPush(c)
  PROVE  /\ pending[c] \in Calls /\ pending[c].task \in Tasks
         /\ TargetQueue(c) \in Queues
         /\ TargetQueue(c) = IF c \in Workers THEN c ELSE pending[c].pool
         /\ pending[c].pool \in Pools
         /\ DOMAIN queue' = Queues
         /\ \A r \in Queues : r # TargetQueue(c) => queue'[r] = queue[r]
         /\ Len(queue[TargetQueue(c)]) \in Nat
         /\ DOMAIN queue[TargetQueue(c)] = 1..Len(queue[TargetQueue(c)])
         /\ DOMAIN queue'[TargetQueue(c)] = 1..(Len(queue[TargetQueue(c)]) + 1)
         /\ \A i \in 1..Len(queue[TargetQueue(c)]) :
              queue'[TargetQueue(c)][i] = queue[TargetQueue(c)][i]
         /\ queue'[TargetQueue(c)][Len(queue[TargetQueue(c)]) + 1] = pending[c].task
<1> DEFINE q == TargetQueue(c)
           t == pending[c].task
<1>1. pending[c] \in Calls /\ t \in Tasks /\ pending[c].pool \in Pools
  BY DEF SubmitPush, TypeOK, Calls
<1>2. q \in Queues /\ q = IF c \in Workers THEN c ELSE pending[c].pool
  BY <1>1, ThreadAssumption DEF TargetQueue, Queues, Threads
<1>3. queue[q] \in Seq(Tasks)
  BY <1>2 DEF TypeOK
<1>4. queue' = [queue EXCEPT ![q] = Append(@, t)]
  BY DEF SubmitPush
<1>5. queue'[q] = Append(queue[q], t)
  BY <1>2, <1>4 DEF TypeOK
<1>6. DOMAIN queue' = Queues /\ \A r \in Queues : r # q => queue'[r] = queue[r]
  BY <1>2, <1>4 DEF TypeOK
<1>7. Len(queue[q]) \in Nat /\ DOMAIN queue[q] = 1..Len(queue[q])
  BY <1>3, LenProperties
<1>8. /\ Append(queue[q], t) \in Seq(Tasks)
      /\ Len(Append(queue[q], t)) = Len(queue[q]) + 1
      /\ \A i \in 1..Len(queue[q]) : Append(queue[q], t)[i] = queue[q][i]
      /\ Append(queue[q], t)[Len(queue[q]) + 1] = t
  BY <1>1, <1>3, AppendProperties
<1>9. DOMAIN queue'[q] = 1..(Len(queue[q]) + 1)
  BY <1>5, <1>8, LenProperties
<1> QED
  BY <1>1, <1>2, <1>5, <1>6, <1>7, <1>8, <1>9

(* The routing of tasks to queues, and the affinity it gives, are inductive      *)
(* together with HistoryInv.                                                     *)
LEMMA RouteInvariant == Spec => []RouteInv
<1>1. Init => RouteInv
  <2> SUFFICES ASSUME Init PROVE RouteInv
    OBVIOUS
  <2>1. \A q \in Queues : DOMAIN queue[q] = {}
    BY DEF Init
  <2>2. \A c \in Threads : pending[c] = NoCall
    BY DEF Init
  <2>3. \A w \in Workers : scan[w] = NoScan
    BY DEF Init
  <2>4. \A t \in Tasks : runner[t] = None /\ submitter[t] = None
    BY DEF Init
  <2> QED
    BY <2>1, <2>2, <2>3, <2>4 DEF RouteInv, HistoryInv, Routing, Affinity
<1>2. TypeOK /\ RouteInv /\ [Next]_vars => RouteInv'
  <2> SUFFICES ASSUME TypeOK, RouteInv, [Next]_vars PROVE RouteInv'
    OBVIOUS
  <2> USE DEF poolVars, history
  <2>1. CASE UNCHANGED vars
    BY <2>1 DEF vars, RouteInv, HistoryInv, Routing, Affinity, HomeOk
  <2>2. ASSUME NEW c \in Threads, NEW p \in Pools, NEW t \in Tasks, SubmitCheck(c, p, t)
        PROVE RouteInv'
    <3>1. /\ pending' = [pending EXCEPT ![c] = [pool |-> p, task |-> t]]
          /\ UNCHANGED <<queue, scan, submitter, runner>>
          /\ submitter[t] = None /\ \A d \in Threads : pending[d].task # t
      BY <2>2 DEF SubmitCheck, Fresh
    <3>2. \A d \in Threads : pending'[d] = IF d = c THEN [pool |-> p, task |-> t] ELSE pending[d]
      BY <3>1 DEF TypeOK
    <3>3. HistoryInv'
      BY <3>1, <3>2 DEF RouteInv, HistoryInv
    <3>4. Routing' /\ Affinity'
      BY <3>1 DEF RouteInv, Routing, Affinity, HomeOk
    <3> QED
      BY <3>3, <3>4 DEF RouteInv
  <2>3. ASSUME NEW c \in Threads, NEW p \in Pools, SubmitRefused(c, p) PROVE RouteInv'
    BY <2>3 DEF SubmitRefused, vars, RouteInv, HistoryInv, Routing, Affinity, HomeOk
  <2>4. ASSUME NEW c \in Threads, SubmitPush(c) PROVE RouteInv'
    <3> DEFINE t == pending[c].task
               q == TargetQueue(c)
               n == Len(queue[q])
    <3>1. /\ pending[c] # NoCall
          /\ submitter' = [submitter EXCEPT ![t] = c]
          /\ pending' = [pending EXCEPT ![c] = NoCall]
          /\ UNCHANGED <<scan, runner>>
      BY <2>4 DEF SubmitPush
    <3>2. \A s \in Tasks : submitter'[s] = IF s = t THEN c ELSE submitter[s]
      BY <3>1 DEF TypeOK
    <3>3. \A d \in Threads : pending'[d] = IF d = c THEN NoCall ELSE pending[d]
      BY <3>1 DEF TypeOK
    <3>4. /\ t \in Tasks /\ q \in Queues /\ c # None
          /\ q = IF c \in Workers THEN c ELSE pending[c].pool
          /\ pending[c].pool \in Pools
      BY <2>4, PushFacts, NoneFacts
    <3>5. \A r \in Queues : \A i \in DOMAIN queue'[r] :
            \/ i \in DOMAIN queue[r] /\ queue'[r][i] = queue[r][i]
            \/ r = q /\ queue'[r][i] = t
      <4> TAKE r \in Queues
      <4> TAKE i \in DOMAIN queue'[r]
      <4>1. CASE r # q
        BY <2>4, <4>1, PushFacts
      <4>2. CASE r = q
        <5>1. n \in Nat /\ i \in 1..(n + 1) /\ DOMAIN queue[q] = 1..n
          BY <2>4, <4>2, PushFacts
        <5>2. i \in 1..n \/ i = n + 1
          BY <5>1
        <5> QED
          BY <2>4, <4>2, <5>1, <5>2, PushFacts
      <4> QED
        BY <4>1, <4>2
    <3>6. \A r \in Queues : \A i \in DOMAIN queue[r] :
            queue[r][i] \in Tasks /\ queue[r][i] # t
      <4> TAKE r \in Queues
      <4> TAKE i \in DOMAIN queue[r]
      <4>1. queue[r] \in Seq(Tasks)
        BY DEF TypeOK
      <4>2. queue[r][i] \in Tasks
        BY <4>1, LenProperties, ElementOfSeq
      <4> QED
        BY <3>1, <4>2 DEF RouteInv, HistoryInv
    <3> HIDE DEF t, q, n
    <3>7. HistoryInv'
      <4>1. \A s \in Tasks : runner'[s] # None => submitter'[s] # None
        BY <3>1, <3>2, <3>4 DEF RouteInv, HistoryInv
      <4>2. \A d \in Threads : pending'[d] # NoCall => submitter'[pending'[d].task] = None
        <5> TAKE d \in Threads
        <5> HAVE pending'[d] # NoCall
        <5>1. d # c /\ pending'[d] = pending[d] /\ pending[d] # NoCall
          BY <3>3
        <5>2. pending[d].task \in Tasks /\ pending[d].task # t
          BY <3>1, <5>1 DEF RouteInv, HistoryInv, TypeOK, Calls, t
        <5> QED
          BY <3>2, <5>1, <5>2 DEF RouteInv, HistoryInv
      <4>3. \A d, e \in Threads :
              pending'[d] # NoCall /\ pending'[d].task = pending'[e].task => d = e
        <5> TAKE d, e \in Threads
        <5> HAVE pending'[d] # NoCall /\ pending'[d].task = pending'[e].task
        <5>1. d # c /\ pending'[d] = pending[d] /\ pending[d].task \in Tasks
          BY <3>3 DEF TypeOK, Calls
        <5>2. e # c
          BY <3>3, <5>1, NoneFacts DEF NoCall
        <5> QED
          BY <3>3, <5>1, <5>2 DEF RouteInv, HistoryInv
      <4>4. \A r \in Queues : \A i \in DOMAIN queue'[r] : submitter'[queue'[r][i]] # None
        BY <3>2, <3>4, <3>5, <3>6 DEF RouteInv, HistoryInv
      <4> QED
        BY <3>1, <4>1, <4>2, <4>3, <4>4 DEF RouteInv, HistoryInv
    <3>8. Routing'
      <4> SUFFICES ASSUME NEW r \in Queues, NEW i \in DOMAIN queue'[r]
                   PROVE HomeOk(queue[r][i], r)'
        BY DEF Routing
      <4>1. CASE i \in DOMAIN queue[r] /\ queue'[r][i] = queue[r][i]
        BY <3>2, <3>6, <4>1 DEF RouteInv, Routing, HomeOk
      <4>2. CASE r = q /\ queue'[r][i] = t
        BY <3>2, <3>4, <4>2 DEF HomeOk
      <4> QED
        BY <3>5, <4>1, <4>2
    <3>9. Affinity'
      <4> SUFFICES ASSUME NEW s \in Tasks, runner'[s] # None, submitter'[s] \in Workers,
                          ~Steal[PoolOf(submitter'[s])]
                   PROVE runner'[s] = submitter'[s]
        BY DEF Affinity
      <4>1. s # t
        BY <3>1 DEF RouteInv, HistoryInv, t
      <4> QED
        BY <3>1, <3>2, <4>1 DEF RouteInv, Affinity
    <3> QED
      BY <3>7, <3>8, <3>9 DEF RouteInv
  <2>5. ASSUME NEW w \in Workers, NEW q, NEW k, Taken(w, q, k) PROVE RouteInv'
    <3> DEFINE t == queue[q][k]
    <3>1. /\ t \in Tasks /\ q \in Queues /\ k \in DOMAIN queue[q]
          /\ UNCHANGED <<pending, submitter>>
      <4>1. q \in Queues /\ k \in 1..Len(queue[q])
        BY <2>5 DEF Taken
      <4> QED
        BY <2>5, <4>1, LenProperties DEF Taken, TypeOK
    <3>2. /\ scan' = [scan EXCEPT ![w] = NoScan]
          /\ runner' = [runner EXCEPT ![t] = w]
      BY <2>5 DEF Taken, Run
    <3>3. \A r \in Queues : \A i \in DOMAIN queue'[r] :
            \E j \in DOMAIN queue[r] : queue'[r][i] = queue[r][j]
      <4> TAKE r \in Queues
      <4> TAKE i \in DOMAIN queue'[r]
      <4>1. CASE r # q
        BY <2>5, <4>1 DEF Taken
      <4>2. CASE r = q
        <5>1. queue[q] \in Seq(Tasks)
          BY <3>1 DEF TypeOK
        <5>2. Len(queue[q]) \in Nat /\ DOMAIN queue[q] = 1..Len(queue[q])
          BY <5>1, LenProperties
        <5>3. i \in 1..(Len(queue[q]) - 1) /\ k \in 1..Len(queue[q])
          BY <2>5, <4>2 DEF Taken
        <5>4. (IF i < k THEN i ELSE i + 1) \in 1..Len(queue[q])
          BY <5>2, <5>3
        <5>5. queue'[q][i] = queue[q][IF i < k THEN i ELSE i + 1]
          BY <2>5, <5>3 DEF Taken
        <5> QED
          BY <4>2, <5>2, <5>4, <5>5
      <4> QED
        BY <4>1, <4>2
    <3>4. submitter[t] # None
      BY <3>1 DEF RouteInv, HistoryInv
    <3>5. HistoryInv'
      <4>1. \A s \in Tasks : runner'[s] # None => submitter'[s] # None
        BY <3>1, <3>2, <3>4 DEF RouteInv, HistoryInv, TypeOK
      <4>2. \A r \in Queues : \A i \in DOMAIN queue'[r] : submitter'[queue'[r][i]] # None
        BY <3>1, <3>3 DEF RouteInv, HistoryInv
      <4>3. \A v \in Workers : scan'[v] # NoScan => scan'[v] = scan[v]
        BY <3>2 DEF TypeOK
      <4>4. \A v \in Workers :
              scan'[v] # NoScan /\ scan'[v].at \notin {Local, Global} => Steal[scan'[v].pool]
        BY <4>3 DEF RouteInv, HistoryInv
      <4> QED
        BY <3>1, <4>1, <4>2, <4>4 DEF RouteInv, HistoryInv
    <3>6. Routing'
      <4> SUFFICES ASSUME NEW r \in Queues, NEW i \in DOMAIN queue'[r]
                   PROVE HomeOk(queue[r][i], r)'
        BY DEF Routing
      <4>1. PICK j \in DOMAIN queue[r] : queue'[r][i] = queue[r][j]
        BY <3>3
      <4>2. HomeOk(queue[r][j], r)
        BY DEF RouteInv, Routing
      <4> QED
        BY <3>1, <4>1, <4>2 DEF HomeOk
    <3>7. Affinity'
      <4>1. ASSUME submitter[t] \in Workers, ~Steal[PoolOf(submitter[t])]
            PROVE submitter[t] = w
        <5>1. q = submitter[t]
          BY <3>1, <4>1 DEF RouteInv, Routing, HomeOk
        <5>2. scan[w] # NoScan /\ q = Source(w)
          BY <2>5 DEF Taken
        <5>3. scan[w].at # Global
          BY <4>1, <5>1, <5>2, SourceFacts, WorkerFacts DEF Scans
        <5>4. scan[w].at \in {Local, Global}
          BY <4>1, <5>1, <5>2, SourceFacts DEF RouteInv, HistoryInv
        <5> QED
          BY <5>1, <5>2, <5>3, <5>4, SourceFacts
      <4> SUFFICES ASSUME NEW s \in Tasks, runner'[s] # None, submitter'[s] \in Workers,
                          ~Steal[PoolOf(submitter'[s])]
                   PROVE runner'[s] = submitter'[s]
        BY DEF Affinity
      <4> HIDE DEF t
      <4>2. CASE s = t
        BY <3>1, <3>2, <4>1, <4>2 DEF TypeOK
      <4>3. CASE s # t
        BY <3>1, <3>2, <4>3 DEF TypeOK, RouteInv, Affinity
      <4> QED
        BY <4>2, <4>3
    <3> QED
      BY <3>5, <3>6, <3>7 DEF RouteInv
  <2>6. ASSUME NEW w \in Workers, NEW s \in Scans \cup {NoScan},
               s # NoScan /\ s.at \notin {Local, Global} => Steal[s.pool],
               scan' = [scan EXCEPT ![w] = s],
               UNCHANGED <<queue, pending, submitter, runner>>
        PROVE RouteInv'
    <3>1. \A v \in Workers : scan'[v] = IF v = w THEN s ELSE scan[v]
      BY <2>6 DEF TypeOK
    <3>2. HistoryInv'
      BY <2>6, <3>1 DEF RouteInv, HistoryInv
    <3> QED
      BY <2>6, <3>2 DEF RouteInv, Routing, Affinity, HomeOk
  <2>7. ASSUME NEW w \in Workers, NEW p \in Pools, WorkerLoop(w) \/ Help(w, p)
        PROVE RouteInv'
    <3>1. PICK r \in Pools : scan' = [scan EXCEPT ![w] = [pool |-> r, at |-> Local]]
      BY <2>7, WorkerFacts DEF WorkerLoop, Help
    <3>2. [pool |-> r, at |-> Local] \in Scans
      BY DEF Scans, Local
    <3> QED
      BY <2>6, <2>7, <3>1, <3>2 DEF WorkerLoop, Help
  <2>8. ASSUME NEW w \in Workers, Miss(w) PROVE RouteInv'
    <3>1. scan[w] \in Scans
      BY <2>8 DEF Miss, TypeOK, Scans
    <3>2. AfterMiss(scan[w]) \in Scans \cup {NoScan}
      BY <3>1 DEF AfterMiss, Scans, Local, Global
    <3>3. AfterMiss(scan[w]) # NoScan /\ AfterMiss(scan[w]).at \notin {Local, Global}
            => Steal[AfterMiss(scan[w]).pool]
      BY <3>1 DEF AfterMiss, Scans, Local, Global
    <3> QED
      BY <2>6, <2>8, <3>2, <3>3 DEF Miss
  <2>9. ASSUME NEW w \in Workers, WorkerExit(w) \/ TaskReturns(w) PROVE RouteInv'
    BY <2>9 DEF WorkerExit, TaskReturns, RouteInv, HistoryInv, Routing, Affinity, HomeOk
  <2>10. ASSUME NEW p \in Pools, Stop(p) \/ Destroy(p) PROVE RouteInv'
    BY <2>10 DEF Stop, Destroy, RouteInv, HistoryInv, Routing, Affinity, HomeOk
  <2> QED
    <3>1. ASSUME NEW w \in Workers, TryPop(w) PROVE RouteInv'
      BY <2>5, <3>1, TryPopTakes
    <3>2. ASSUME NEW w \in Workers, TrySteal(w) PROVE RouteInv'
      BY <2>5, <3>2, TryStealTakes
    <3>3. ASSUME NEW w \in Workers, WorkerLoop(w) PROVE RouteInv'
      BY <2>7, <3>3, WorkerFacts
    <3> QED
      BY <2>1, <2>2, <2>3, <2>4, <2>7, <2>8, <2>9, <2>10, <3>1, <3>2, <3>3
      DEF Next, Submit, Work
<1> QED
  BY <1>1, <1>2, TypeCorrect, PTL DEF Spec

(* What a worker submits waits in its own queue, what a client submits in the     *)
(* global queue of the pool it submitted to.                                     *)
THEOREM RoutingHolds == Spec => []Routing
<1>1. RouteInv => Routing
  BY DEF RouteInv
<1> QED
  BY <1>1, RouteInvariant, PTL

(* A worker of a pool that does not steal runs every task it submitted itself.   *)
THEOREM AffinityHolds == Spec => []Affinity
<1>1. RouteInv => Affinity
  BY DEF RouteInv
<1> QED
  BY <1>1, RouteInvariant, PTL
-----------------------------------------------------------------------------
(* The three ways a sequence of the model changes: a task is added at the end,   *)
(* taken from the end, or taken from position k.                                 *)
LEMMA PushedSequence ==
  ASSUME NEW S, NEW s \in Seq(S), NEW t \in S
  PROVE  /\ Len(s) \in Nat
         /\ DOMAIN s = 1..Len(s)
         /\ DOMAIN Append(s, t) = 1..(Len(s) + 1)
         /\ \A i \in 1..Len(s) : Append(s, t)[i] = s[i]
         /\ Append(s, t)[Len(s) + 1] = t
  BY AppendProperties, LenProperties

(* The second way: the last entry is taken. *)
LEMMA PoppedSequence ==
  ASSUME NEW S, NEW s \in Seq(S), s # << >>
  PROVE  /\ Len(s) \in Nat \ {0} /\ s[Len(s)] \in S
         /\ DOMAIN s = 1..Len(s)
         /\ DOMAIN SubSeq(s, 1, Len(s) - 1) = 1..(Len(s) - 1)
         /\ \A i \in 1..(Len(s) - 1) : SubSeq(s, 1, Len(s) - 1)[i] = s[i]
<1>1. SubSeq(s, 1, Len(s) - 1) \in Seq(S) /\ Len(SubSeq(s, 1, Len(s) - 1)) = Len(s) - 1
  BY FrontFacts
<1>2. DOMAIN SubSeq(s, 1, Len(s) - 1) = 1..Len(SubSeq(s, 1, Len(s) - 1))
  BY <1>1, LenProperties
<1> QED
  BY <1>1, <1>2, FrontFacts, LenProperties

(* The positions at which a family of sequences holds something, and the fact     *)
(* that no two of them hold the same: ExactlyOnce says this of the queues and of  *)
(* the stacks.                                                                   *)
Held(f, D, t) == \E q \in D : \E i \in DOMAIN f[q] : f[q][i] = t
Injective(f, D) ==
  \A q, r \in D : \A i \in DOMAIN f[q], j \in DOMAIN f[r] :
    f[q][i] = f[r][j] => q = r /\ i = j

(* g is f with t added at the end of the sequence of q. *)
LEMMA PushKeepsInjective ==
  ASSUME NEW S, NEW D, NEW f \in [D -> Seq(S)], NEW q \in D, NEW t \in S,
         NEW g, \A r \in D : r # q => g[r] = f[r],
         g[q] = Append(f[q], t),
         Injective(f, D), ~Held(f, D, t)
  PROVE  /\ Injective(g, D)
         /\ \A s \in S : Held(g, D, s) <=> Held(f, D, s) \/ s = t
<1> DEFINE n == Len(f[q])
<1>1. /\ n \in Nat /\ DOMAIN f[q] = 1..n
      /\ g[q] = Append(f[q], t)
      /\ DOMAIN g[q] = 1..(n + 1)
      /\ \A i \in 1..n : g[q][i] = f[q][i]
      /\ g[q][n + 1] = t
  BY PushedSequence
<1>2. \A r \in D : r # q => g[r] = f[r]
  OBVIOUS
<1> HIDE DEF n
<1>3. \A r \in D : \A i \in DOMAIN g[r] :
        \/ i \in DOMAIN f[r] /\ g[r][i] = f[r][i]
        \/ r = q /\ i = n + 1 /\ g[r][i] = t
  BY <1>1, <1>2
<1>4. \A r \in D : \A i \in DOMAIN f[r] : i \in DOMAIN g[r] /\ g[r][i] = f[r][i]
  <2>1. \A i \in DOMAIN f[q] : i \in DOMAIN g[q] /\ g[q][i] = f[q][i]
    BY <1>1
  <2> QED
    BY <1>2, <2>1
<1>5. n + 1 \in DOMAIN g[q]
  BY <1>1
<1>6. Injective(g, D)
  BY <1>3 DEF Injective, Held
<1>7. ASSUME NEW s \in S PROVE Held(g, D, s) <=> Held(f, D, s) \/ s = t
  BY <1>1, <1>3, <1>4, <1>5 DEF Held
<1> QED
  BY <1>6, <1>7

(* g is f with the entry at position k of the sequence of q taken out. *)
LEMMA TakeKeepsInjective ==
  ASSUME NEW S, NEW D, NEW f \in [D -> Seq(S)], NEW q \in D, NEW k \in 1..Len(f[q]),
         NEW g, \A r \in D : r # q => g[r] = f[r],
         DOMAIN g[q] = 1..(Len(f[q]) - 1),
         \A j \in 1..(Len(f[q]) - 1) : g[q][j] = f[q][IF j < k THEN j ELSE j + 1],
         Injective(f, D)
  PROVE  /\ Injective(g, D)
         /\ \A s \in S : Held(g, D, s) <=> Held(f, D, s) /\ s # f[q][k]
<1> DEFINE n == Len(f[q])
           old(r, j) == IF r = q /\ ~(j < k) THEN j + 1 ELSE j
<1>1. n \in Nat /\ DOMAIN f[q] = 1..n /\ k \in DOMAIN f[q]
  BY LenProperties
<1>2. ASSUME NEW r \in D, NEW j \in DOMAIN g[r]
      PROVE  /\ old(r, j) \in DOMAIN f[r] /\ g[r][j] = f[r][old(r, j)]
             /\ ~(r = q /\ old(r, j) = k)
             /\ r = q => j \in Int
  <2>1. CASE r # q
    BY <2>1
  <2>2. CASE r = q
    <3>1. j \in 1..(n - 1)
      BY <2>2
    <3>2. old(r, j) \in 1..n /\ old(r, j) # k /\ j \in Int
      BY <1>1, <2>2, <3>1
    <3>3. old(r, j) = IF j < k THEN j ELSE j + 1
      BY <2>2
    <3> QED
      BY <1>1, <2>2, <3>1, <3>2, <3>3
  <2> QED
    BY <2>1, <2>2
<1>3. ASSUME NEW r \in D, NEW i \in DOMAIN f[r], ~(r = q /\ i = k)
      PROVE \E j \in DOMAIN g[r] : g[r][j] = f[r][i]
  <2>1. CASE r # q
    BY <2>1
  <2>2. CASE r = q
    <3>1. i \in 1..n /\ i # k
      BY <1>1, <1>3, <2>2
    <3>2. CASE i < k
      <4>1. i \in 1..(n - 1)
        BY <1>1, <3>1, <3>2
      <4> QED
        BY <2>2, <3>2, <4>1
    <3>3. CASE ~(i < k)
      <4>1. i - 1 \in 1..(n - 1) /\ ~(i - 1 < k) /\ i - 1 + 1 = i
        BY <1>1, <3>1, <3>3
      <4> QED
        BY <2>2, <4>1
    <3> QED
      BY <3>2, <3>3
  <2> QED
    BY <2>1, <2>2
<1>4. Injective(g, D)
  <2> SUFFICES ASSUME NEW r \in D, NEW s \in D, NEW i \in DOMAIN g[r], NEW j \in DOMAIN g[s],
                      g[r][i] = g[s][j]
               PROVE r = s /\ i = j
    BY DEF Injective
  <2>1. /\ old(r, i) \in DOMAIN f[r] /\ old(s, j) \in DOMAIN f[s]
        /\ f[r][old(r, i)] = f[s][old(s, j)]
    BY <1>2
  <2>2. r = s /\ old(r, i) = old(s, j)
    BY <2>1 DEF Injective
  <2>3. CASE r # q
    BY <2>2, <2>3
  <2>4. CASE r = q
    <3>1. i \in Int /\ j \in Int /\ k \in Int
      BY <1>1, <1>2, <2>2, <2>4
    <3> QED
      BY <2>2, <2>4, <3>1
  <2> QED
    BY <2>3, <2>4
<1>5. ASSUME NEW s \in S PROVE Held(g, D, s) <=> Held(f, D, s) /\ s # f[q][k]
  <2>1. ASSUME Held(g, D, s) PROVE Held(f, D, s) /\ s # f[q][k]
    <3>0. PICK r \in D : \E j \in DOMAIN g[r] : g[r][j] = s
      BY <2>1 DEF Held
    <3>1. PICK j \in DOMAIN g[r] : g[r][j] = s
      BY <3>0
    <3>2. old(r, j) \in DOMAIN f[r] /\ f[r][old(r, j)] = s /\ ~(r = q /\ old(r, j) = k)
      BY <1>2, <3>1
    <3> HIDE DEF old
    <3> QED
      BY <1>1, <3>2 DEF Held, Injective
  <2>2. ASSUME Held(f, D, s), s # f[q][k] PROVE Held(g, D, s)
    <3>0. PICK r \in D : \E i \in DOMAIN f[r] : f[r][i] = s
      BY <2>2 DEF Held
    <3>1. PICK i \in DOMAIN f[r] : f[r][i] = s
      BY <3>0
    <3> QED
      BY <1>3, <2>2, <3>1 DEF Held
  <2> QED
    BY <2>1, <2>2
<1> QED
  BY <1>4, <1>5

(* ExactlyOnce, said with Held and Injective *)
Once ==
  /\ \A t \in Tasks : submitter[t] # None <=>
       Held(queue, Queues, t) \/ Held(stack, Workers, t) \/ t \in done
  /\ done \subseteq Tasks
  /\ \A t \in Tasks : Held(queue, Queues, t) => ~Held(stack, Workers, t) /\ t \notin done
  /\ \A t \in Tasks : Held(stack, Workers, t) => t \notin done
  /\ Injective(queue, Queues)
  /\ Injective(stack, Workers)

(* The inductive form of the invariant implies the one the runs check. *)
LEMMA OnceIsExactlyOnce == Once => ExactlyOnce
<1>1. /\ Queued = {t \in Tasks : Held(queue, Queues, t)}
      /\ Running = {t \in Tasks : Held(stack, Workers, t)}
      /\ Accepted = {t \in Tasks : submitter[t] # None}
  BY DEF Queued, Running, Accepted, Held
<1>2. /\ Injective(queue, Queues) <=>
           \A q, r \in Queues : \A i \in DOMAIN queue[q], j \in DOMAIN queue[r] :
             queue[q][i] = queue[r][j] => q = r /\ i = j
      /\ Injective(stack, Workers) <=>
           \A v, w \in Workers : \A i \in DOMAIN stack[v], j \in DOMAIN stack[w] :
             stack[v][i] = stack[w][j] => v = w /\ i = j
  BY DEF Injective
<1>3. /\ Accepted = Queued \cup Running \cup done <=>
           /\ \A t \in Tasks : submitter[t] # None <=>
                Held(queue, Queues, t) \/ Held(stack, Workers, t) \/ t \in done
           /\ done \subseteq Tasks
      /\ Queued \cap (Running \cup done) = {} <=>
           \A t \in Tasks : Held(queue, Queues, t) =>
             ~Held(stack, Workers, t) /\ (t \in Tasks => t \notin done)
      /\ Running \cap done = {} <=>
           \A t \in Tasks : Held(stack, Workers, t) => t \notin done
  BY <1>1
<1> QED
  BY <1>2, <1>3 DEF Once, ExactlyOnce

(* Once is an invariant. *)
LEMMA OnceInvariant == Spec => []Once
<1>1. Init => Once
  <2> SUFFICES ASSUME Init PROVE Once
    OBVIOUS
  <2>1. /\ \A q \in Queues : DOMAIN queue[q] = {}
        /\ \A w \in Workers : DOMAIN stack[w] = {}
        /\ done = {} /\ \A t \in Tasks : submitter[t] = None
    BY DEF Init
  <2> QED
    BY <2>1 DEF Once, Held, Injective
<1>2. TypeOK /\ TypeOK' /\ RouteInv /\ Once /\ [Next]_vars => Once'
  <2> SUFFICES ASSUME TypeOK, TypeOK', RouteInv, Once, [Next]_vars PROVE Once'
    OBVIOUS
  <2> USE DEF poolVars, history
  <2>1. ASSUME UNCHANGED <<queue, stack, done, submitter>> PROVE Once'
    BY <2>1 DEF Once, Held, Injective
  <2>2. ASSUME NEW c \in Threads, SubmitPush(c) PROVE Once'
    <3> DEFINE t == pending[c].task
               q == TargetQueue(c)
    <3>1. t \in Tasks /\ q \in Queues /\ c # None
      BY <2>2, PushFacts, NoneFacts
    <3>2. /\ queue' = [queue EXCEPT ![q] = Append(@, t)]
          /\ submitter' = [submitter EXCEPT ![t] = c]
          /\ submitter[t] = None
          /\ UNCHANGED <<stack, done>>
      BY <2>2 DEF SubmitPush, RouteInv, HistoryInv
    <3> HIDE DEF t, q
    <3>3. ~Held(queue, Queues, t) /\ ~Held(stack, Workers, t) /\ t \notin done
      BY <3>1, <3>2 DEF Once
    <3>4. /\ Injective(queue', Queues)
          /\ \A s \in Tasks : Held(queue', Queues, s) <=> Held(queue, Queues, s) \/ s = t
      <4> DEFINE f == queue
                 g == queue'
      <4>1. /\ f \in [Queues -> Seq(Tasks)]
            /\ \A r \in Queues : r # q => g[r] = f[r]
            /\ g[q] = Append(f[q], t)
            /\ Injective(f, Queues) /\ ~Held(f, Queues, t)
        BY <3>1, <3>2, <3>3 DEF TypeOK, Once
      <4> HIDE DEF f, g
      <4>2. /\ Injective(g, Queues)
            /\ \A s \in Tasks : Held(g, Queues, s) <=> Held(f, Queues, s) \/ s = t
        BY <3>1, <4>1, PushKeepsInjective, SMTT(60)
      <4> QED
        BY <4>2 DEF f, g
    <3>5. \A s \in Tasks : submitter'[s] # None <=> submitter[s] # None \/ s = t
      BY <3>1, <3>2 DEF TypeOK
    <3>6. /\ \A s \in Tasks : submitter'[s] # None <=>
               Held(queue', Queues, s) \/ Held(stack', Workers, s) \/ s \in done'
          /\ done' \subseteq Tasks
          /\ \A s \in Tasks : Held(queue', Queues, s) =>
               ~Held(stack', Workers, s) /\ s \notin done'
          /\ \A s \in Tasks : Held(stack', Workers, s) => s \notin done'
          /\ Injective(stack', Workers)
      BY <3>2, <3>3, <3>4, <3>5 DEF Once
    <3> QED
      BY <3>4, <3>6 DEF Once
  <2>3. ASSUME NEW w \in Workers, NEW q, NEW k, Taken(w, q, k) PROVE Once'
    <3> DEFINE t == queue[q][k]
    <3>1. t \in Tasks /\ q \in Queues /\ k \in 1..Len(queue[q]) /\ k \in DOMAIN queue[q]
      <4>1. q \in Queues /\ k \in 1..Len(queue[q])
        BY <2>3 DEF Taken
      <4> QED
        BY <2>3, <4>1, LenProperties DEF Taken, TypeOK
    <3>2. stack' = [stack EXCEPT ![w] = Append(@, t)] /\ UNCHANGED <<submitter, done>>
      BY <2>3 DEF Taken, Run
    <3>3. /\ Injective(queue', Queues)
          /\ \A s \in Tasks : Held(queue', Queues, s) <=> Held(queue, Queues, s) /\ s # t
      <4> DEFINE f == queue
                 g == queue'
      <4>1. f \in [Queues -> Seq(Tasks)] /\ Injective(f, Queues) /\ k \in 1..Len(f[q])
        BY <3>1 DEF TypeOK, Once
      <4>2. /\ \A r \in Queues : r # q => g[r] = f[r]
            /\ DOMAIN g[q] = 1..(Len(f[q]) - 1)
            /\ \A j \in 1..(Len(f[q]) - 1) : g[q][j] = f[q][IF j < k THEN j ELSE j + 1]
        BY <2>3 DEF Taken
      <4> HIDE DEF f, g
      <4>3. /\ Injective(g, Queues)
            /\ \A s \in Tasks : Held(g, Queues, s) <=> Held(f, Queues, s) /\ s # f[q][k]
        BY <3>1, <4>1, <4>2, TakeKeepsInjective, SMTT(60)
      <4> QED
        BY <4>3 DEF f, g
    <3>4. Held(queue, Queues, t)
      BY <3>1 DEF Held
    <3> HIDE DEF t
    <3>5. /\ Injective(stack', Workers)
          /\ \A s \in Tasks : Held(stack', Workers, s) <=> Held(stack, Workers, s) \/ s = t
      <4> DEFINE f == stack
                 g == stack'
      <4>1. /\ f \in [Workers -> Seq(Tasks)]
            /\ \A v \in Workers : v # w => g[v] = f[v]
            /\ g[w] = Append(f[w], t)
            /\ Injective(f, Workers) /\ ~Held(f, Workers, t)
        BY <3>1, <3>2, <3>4 DEF TypeOK, Once
      <4> HIDE DEF f, g
      <4>2. /\ Injective(g, Workers)
            /\ \A s \in Tasks : Held(g, Workers, s) <=> Held(f, Workers, s) \/ s = t
        BY <3>1, <4>1, PushKeepsInjective, SMTT(60)
      <4> QED
        BY <4>2 DEF f, g
    <3>6. /\ \A s \in Tasks : submitter'[s] # None <=>
               Held(queue', Queues, s) \/ Held(stack', Workers, s) \/ s \in done'
          /\ done' \subseteq Tasks
          /\ \A s \in Tasks : Held(queue', Queues, s) =>
               ~Held(stack', Workers, s) /\ s \notin done'
          /\ \A s \in Tasks : Held(stack', Workers, s) => s \notin done'
      BY <3>1, <3>2, <3>3, <3>4, <3>5 DEF Once
    <3> QED
      BY <3>3, <3>5, <3>6 DEF Once
  <2>4. ASSUME NEW w \in Workers, TaskReturns(w) PROVE Once'
    <3> DEFINE n == Len(stack[w])
               t == stack[w][n]
    <3>1. stack \in [Workers -> Seq(Tasks)] /\ stack[w] \in Seq(Tasks) /\ stack[w] # << >>
      BY <2>4 DEF TaskReturns, TypeOK
    <3>2. /\ n \in Nat \ {0} /\ t \in Tasks /\ DOMAIN stack[w] = 1..n
          /\ DOMAIN SubSeq(stack[w], 1, n - 1) = 1..(n - 1)
          /\ \A i \in 1..(n - 1) : SubSeq(stack[w], 1, n - 1)[i] = stack[w][i]
      BY <3>1, PoppedSequence
    <3>3. /\ stack' = [stack EXCEPT ![w] = SubSeq(@, 1, n - 1)]
          /\ done' = done \cup {t}
          /\ UNCHANGED <<queue, submitter>>
      BY <2>4 DEF TaskReturns
    <3>4. stack'[w] = SubSeq(stack[w], 1, n - 1) /\ \A v \in Workers : v # w => stack'[v] = stack[v]
      BY <3>1, <3>3
    <3>5. /\ DOMAIN stack'[w] = 1..(Len(stack[w]) - 1)
          /\ \A j \in 1..(n - 1) : stack'[w][j] = stack[w][j]
          /\ Len(stack[w]) = n /\ n \in 1..n
      BY <3>2, <3>4
    <3>6. \A j \in 1..(Len(stack[w]) - 1) :
            stack'[w][j] = stack[w][IF j < n THEN j ELSE j + 1]
      <4> HIDE DEF n
      <4> QED
        BY <3>2, <3>5
    <3>7. Held(stack, Workers, t)
      BY <3>2, <3>5 DEF Held
    <3>8. /\ Injective(stack', Workers)
          /\ \A s \in Tasks : Held(stack', Workers, s) <=> Held(stack, Workers, s) /\ s # t
      <4> DEFINE f == stack
                 g == stack'
      <4>1. /\ f \in [Workers -> Seq(Tasks)] /\ Injective(f, Workers)
            /\ n \in 1..Len(f[w]) /\ t = f[w][n]
            /\ \A v \in Workers : v # w => g[v] = f[v]
            /\ DOMAIN g[w] = 1..(Len(f[w]) - 1)
            /\ \A j \in 1..(Len(f[w]) - 1) : g[w][j] = f[w][IF j < n THEN j ELSE j + 1]
        BY <3>1, <3>4, <3>5, <3>6 DEF Once
      <4> HIDE DEF f, g, t, n
      <4>2. /\ Injective(g, Workers)
            /\ \A s \in Tasks : Held(g, Workers, s) <=> Held(f, Workers, s) /\ s # f[w][n]
        BY <4>1, TakeKeepsInjective
      <4> QED
        BY <4>1, <4>2 DEF f, g
    <3> HIDE DEF t, n
    <3>9. /\ \A s \in Tasks : submitter'[s] # None <=>
               Held(queue', Queues, s) \/ Held(stack', Workers, s) \/ s \in done'
          /\ done' \subseteq Tasks
          /\ \A s \in Tasks : Held(queue', Queues, s) =>
               ~Held(stack', Workers, s) /\ s \notin done'
          /\ \A s \in Tasks : Held(stack', Workers, s) => s \notin done'
          /\ Injective(queue', Queues)
      BY <3>2, <3>3, <3>7, <3>8 DEF Once
    <3> QED
      BY <3>8, <3>9 DEF Once
  <2>5. ASSUME NEW c \in Threads, NEW p \in Pools, NEW t \in Tasks,
               SubmitCheck(c, p, t) \/ SubmitRefused(c, p)
        PROVE Once'
    BY <2>1, <2>5 DEF SubmitCheck, SubmitRefused, vars
  <2>6. ASSUME NEW c \in Threads, NEW p \in Pools, SubmitRefused(c, p) PROVE Once'
    BY <2>1, <2>6 DEF SubmitRefused, vars
  <2>7. ASSUME NEW w \in Workers, WorkerLoop(w) \/ WorkerExit(w) \/ Miss(w) PROVE Once'
    BY <2>1, <2>7 DEF WorkerLoop, WorkerExit, Miss
  <2>8. ASSUME NEW w \in Workers, NEW p \in Pools, Help(w, p) PROVE Once'
    BY <2>1, <2>8 DEF Help
  <2>9. ASSUME NEW p \in Pools, Stop(p) \/ Destroy(p) PROVE Once'
    BY <2>1, <2>9 DEF Stop, Destroy
  <2>10. ASSUME NEW w \in Workers, TryPop(w) PROVE Once'
    BY <2>3, <2>10, TryPopTakes
  <2>11. ASSUME NEW w \in Workers, TrySteal(w) PROVE Once'
    BY <2>3, <2>11, TryStealTakes
  <2>12. CASE UNCHANGED vars
    BY <2>1, <2>12 DEF vars
  <2> QED
    BY <2>2, <2>4, <2>5, <2>6, <2>7, <2>8, <2>9, <2>10, <2>11, <2>12 DEF Next, Submit, Work
<1> QED
  BY <1>1, <1>2, TypeCorrect, RouteInvariant, PTL DEF Spec

(* A task that submit() accepted is in exactly one place: queued, being run or    *)
(* done.                                                                         *)
THEOREM ExactlyOnceHolds == Spec => []ExactlyOnce
  BY OnceInvariant, OnceIsExactlyOnce, PTL
-----------------------------------------------------------------------------
(* s stands before t in the sequence o. *)
Before(o, s, t) == \E i, j \in DOMAIN o : i < j /\ o[i] = s /\ o[j] = t

(* Nothing stands in a sequence twice. *)
Distinct(o) == \A i, j \in DOMAIN o : o[i] = o[j] => i = j

(* Before is asymmetric in a sequence without repetitions. *)
LEMMA BeforeAsymmetric ==
  ASSUME NEW S, NEW o \in Seq(S), Distinct(o), NEW s, NEW t, Before(o, s, t)
  PROVE  s # t /\ ~Before(o, t, s)
<1>1. DOMAIN o \subseteq Int
  BY LenProperties
<1> QED
  BY <1>1 DEF Before, Distinct

(* A new entry at the end of a sequence stands behind every other one. *)
LEMMA BeforeAppended ==
  ASSUME NEW S, NEW o \in Seq(S), Distinct(o), NEW t \in S, \A i \in DOMAIN o : o[i] # t
  PROVE  /\ Distinct(Append(o, t))
         /\ \A s : (\E i \in DOMAIN Append(o, t) : Append(o, t)[i] = s)
                     <=> s = t \/ \E i \in DOMAIN o : o[i] = s
         /\ \A s, r : Before(Append(o, t), s, r)
                        <=> Before(o, s, r) \/ (r = t /\ \E i \in DOMAIN o : o[i] = s)
<1> DEFINE n == Len(o)
           a == Append(o, t)
<1>1. /\ n \in Nat /\ DOMAIN o = 1..n /\ DOMAIN a = 1..(n + 1)
      /\ \A i \in 1..n : a[i] = o[i]
      /\ a[n + 1] = t
  BY PushedSequence
<1> HIDE DEF n, a
<1>2. ASSUME NEW i \in DOMAIN a PROVE (i \in DOMAIN o /\ a[i] = o[i]) \/ (i = n + 1 /\ a[i] = t)
  <2>1. i \in 1..n \/ i = n + 1
    BY <1>1
  <2> QED
    BY <1>1, <2>1
<1>3. \A i \in DOMAIN o : i \in DOMAIN a /\ a[i] = o[i] /\ i < n + 1 /\ i # n + 1
  BY <1>1
<1>4. n + 1 \in DOMAIN a /\ a[n + 1] = t
  BY <1>1
<1>5. Distinct(a)
  BY <1>2, <1>3 DEF Distinct
<1>6. ASSUME NEW s PROVE (\E i \in DOMAIN a : a[i] = s) <=> s = t \/ \E i \in DOMAIN o : o[i] = s
  BY <1>2, <1>3, <1>4
<1>7. ASSUME NEW s, NEW r
      PROVE Before(a, s, r) <=> Before(o, s, r) \/ (r = t /\ \E i \in DOMAIN o : o[i] = s)
  <2>1. ASSUME Before(a, s, r)
        PROVE  Before(o, s, r) \/ (r = t /\ \E i \in DOMAIN o : o[i] = s)
    <3>1. PICK i, j \in DOMAIN a : i < j /\ a[i] = s /\ a[j] = r
      BY <2>1 DEF Before
    <3>2. i \in DOMAIN o /\ o[i] = s
      BY <1>1, <1>2, <3>1
    <3> QED
      BY <1>2, <3>1, <3>2 DEF Before
  <2>2. ASSUME Before(o, s, r) PROVE Before(a, s, r)
    BY <1>3, <2>2 DEF Before
  <2>3. ASSUME r = t, \E i \in DOMAIN o : o[i] = s PROVE Before(a, s, r)
    BY <1>3, <1>4, <2>3 DEF Before
  <2> QED
    BY <2>1, <2>2, <2>3
<1> QED
  BY <1>5, <1>6, <1>7 DEF a

(* Why a worker starts its tasks oldest first: every queue lists its tasks in    *)
(* the order of their pushes, and an accepted task that did not start is queued. *)
FifoInv ==
  /\ Distinct(order)
  /\ \A t \in Tasks : submitter[t] # None <=> \E i \in DOMAIN order : order[i] = t
  /\ \A t \in Tasks : Held(queue, Queues, t) <=> submitter[t] # None /\ runner[t] = None
  /\ \A q \in Queues : \A i, j \in DOMAIN queue[q] :
       i < j => Before(order, queue[q][i], queue[q][j])
  /\ \A s, t \in Tasks :
       /\ submitter[s] \in Workers /\ submitter[s] = submitter[t]
       /\ Before(order, s, t)
       /\ runner[t] # None /\ t \notin stolen
       => runner[s] # None

(* FifoInv implies the property the runs check: Position is a position. *)
LEMMA FifoInvIsFifo == TypeOK /\ FifoInv => FifoUnlessStolen
<1> SUFFICES ASSUME TypeOK, FifoInv, NEW s \in Accepted, NEW t \in Accepted,
                    Position(s) < Position(t)
             PROVE  Before(order, s, t)
  BY DEF FifoInv, FifoUnlessStolen, Accepted
<1>1. \A r \in Accepted : Position(r) \in DOMAIN order /\ order[Position(r)] = r
  BY DEF FifoInv, Accepted, Position
<1> QED
  BY <1>1 DEF Before

(* What the push does to the order of the queues. *)
LEMMA PushKeepsFifo ==
  ASSUME TypeOK, RouteInv, FifoInv, Once, NEW c \in Threads, SubmitPush(c)
  PROVE  FifoInv'
<1> DEFINE t == pending[c].task
           q == TargetQueue(c)
<1>1. t \in Tasks /\ q \in Queues /\ c # None
  BY PushFacts, NoneFacts
<1>2. /\ order' = Append(order, t)
      /\ submitter' = [submitter EXCEPT ![t] = c]
      /\ submitter[t] = None /\ runner[t] = None
      /\ UNCHANGED <<runner, stolen>>
  <2>1. submitter[t] = None
    BY DEF SubmitPush, RouteInv, HistoryInv
  <2>2. runner[t] = None
    BY <1>1, <2>1 DEF RouteInv, HistoryInv
  <2> QED
    BY <2>1, <2>2 DEF SubmitPush
<1>3. \A s \in Tasks : submitter'[s] = IF s = t THEN c ELSE submitter[s]
  BY <1>2 DEF TypeOK
<1>4. /\ Distinct(order')
      /\ \A s : (\E i \in DOMAIN order' : order'[i] = s) <=> s = t \/ \E i \in DOMAIN order : order[i] = s
      /\ \A s, r : Before(order', s, r)
                     <=> Before(order, s, r) \/ (r = t /\ \E i \in DOMAIN order : order[i] = s)
  <2>1. \A i \in DOMAIN order : order[i] # t
    BY <1>1, <1>2 DEF FifoInv
  <2>2. order \in Seq(Tasks) /\ Distinct(order)
    BY DEF TypeOK, FifoInv
  <2> HIDE DEF t
  <2> QED
    BY <1>1, <1>2, <2>1, <2>2, BeforeAppended
<1>5. \A r \in Queues : \A i \in DOMAIN queue[r] :
        /\ queue[r][i] \in Tasks /\ \E k \in DOMAIN order : order[k] = queue[r][i]
  <2> TAKE r \in Queues
  <2> TAKE i \in DOMAIN queue[r]
  <2>1. queue[r] \in Seq(Tasks)
    BY DEF TypeOK
  <2>2. queue[r][i] \in Tasks
    BY <2>1, LenProperties, ElementOfSeq
  <2>3. submitter[queue[r][i]] # None
    BY DEF RouteInv, HistoryInv
  <2> QED
    BY <2>2, <2>3 DEF FifoInv
<1>6. \A r \in Queues : \A i \in DOMAIN queue'[r] :
        \/ i \in DOMAIN queue[r] /\ queue'[r][i] = queue[r][i]
        \/ r = q /\ queue'[r][i] = t /\ \A j \in DOMAIN queue'[r] : ~(i < j)
  <2> TAKE r \in Queues
  <2> TAKE i \in DOMAIN queue'[r]
  <2>1. CASE r # q
    BY <2>1, PushFacts
  <2>2. CASE r = q
    <3>1. /\ Len(queue[q]) \in Nat /\ DOMAIN queue[q] = 1..Len(queue[q])
          /\ DOMAIN queue'[q] = 1..(Len(queue[q]) + 1)
      BY PushFacts
    <3>2. i \in 1..Len(queue[q]) \/ i = Len(queue[q]) + 1
      BY <2>2, <3>1
    <3> QED
      BY <2>2, <3>1, <3>2, PushFacts
  <2> QED
    BY <2>1, <2>2
<1>7. \A r \in Queues : \A i \in DOMAIN queue[r] :
        i \in DOMAIN queue'[r] /\ queue'[r][i] = queue[r][i]
  <2> TAKE r \in Queues
  <2> TAKE i \in DOMAIN queue[r]
  <2>1. CASE r # q
    BY <2>1, PushFacts
  <2>2. CASE r = q
    BY <2>2, PushFacts
  <2> QED
    BY <2>1, <2>2
<1>8. Held(queue', Queues, t)
  <2>1. Len(queue[q]) \in Nat /\ DOMAIN queue'[q] = 1..(Len(queue[q]) + 1)
        /\ queue'[q][Len(queue[q]) + 1] = t
    BY PushFacts
  <2>2. Len(queue[q]) + 1 \in DOMAIN queue'[q]
    BY <2>1
  <2> QED
    BY <1>1, <2>1, <2>2 DEF Held
<1> HIDE DEF t, q
<1>9. \A s \in Tasks : Held(queue', Queues, s) <=> Held(queue, Queues, s) \/ s = t
  BY <1>6, <1>7, <1>8 DEF Held
<1>10. \A s \in Tasks : submitter'[s] # None <=> \E i \in DOMAIN order' : order'[i] = s
  BY <1>1, <1>3, <1>4 DEF FifoInv
<1>11. \A s \in Tasks : Held(queue', Queues, s) <=> submitter'[s] # None /\ runner'[s] = None
  BY <1>1, <1>2, <1>3, <1>9 DEF FifoInv
<1>12. ASSUME NEW r \in Queues, NEW i \in DOMAIN queue'[r], NEW j \in DOMAIN queue'[r], i < j
       PROVE  Before(order', queue'[r][i], queue'[r][j])
  <2>1. i \in DOMAIN queue[r] /\ queue'[r][i] = queue[r][i]
    BY <1>6, <1>12
  <2>2. CASE j \in DOMAIN queue[r] /\ queue'[r][j] = queue[r][j]
    <3>1. Before(order, queue[r][i], queue[r][j])
      BY <1>12, <2>1, <2>2 DEF FifoInv
    <3> QED
      BY <1>4, <2>1, <2>2, <3>1
  <2>3. CASE queue'[r][j] = t
    BY <1>4, <1>5, <2>1, <2>3
  <2> QED
    BY <1>6, <2>2, <2>3
<1>13. ASSUME NEW s \in Tasks, NEW r \in Tasks, submitter'[s] \in Workers,
              submitter'[s] = submitter'[r], Before(order', s, r),
              runner'[r] # None, r \notin stolen'
       PROVE  runner'[s] # None
  <2>1. r # t
    BY <1>2, <1>13
  <2>2. Before(order, s, r)
    BY <1>4, <1>13, <2>1
  <2>3. s # t
    <3>1. \E i \in DOMAIN order : order[i] = s
      BY <2>2 DEF Before
    <3> QED
      BY <1>1, <1>2, <3>1 DEF FifoInv
  <2> QED
    BY <1>2, <1>3, <1>13, <2>1, <2>2, <2>3 DEF FifoInv
<1> QED
  BY <1>4, <1>10, <1>11, <1>12, <1>13 DEF FifoInv

(* What taking a task does: unless it is stolen, it is the first of its queue. *)
LEMMA TakeKeepsFifo ==
  ASSUME TypeOK, RouteInv, FifoInv, Once,
         NEW w \in Workers, NEW q, NEW k, Taken(w, q, k),
         stolen \subseteq stolen', k # 1 => queue[q][k] \in stolen'
  PROVE  FifoInv'
<1> DEFINE t == queue[q][k]
<1>1. t \in Tasks /\ q \in Queues /\ k \in 1..Len(queue[q]) /\ k \in DOMAIN queue[q]
  <2>1. q \in Queues /\ k \in 1..Len(queue[q])
    BY DEF Taken
  <2> QED
    BY <2>1, LenProperties DEF Taken, TypeOK
<1>2. /\ runner' = [runner EXCEPT ![t] = w]
      /\ UNCHANGED <<order, submitter>>
  BY DEF Taken, Run
<1>3. \A s \in Tasks : runner'[s] = IF s = t THEN w ELSE runner[s]
  BY <1>2 DEF TypeOK
<1>4. \A s \in Tasks : Held(queue', Queues, s) <=> Held(queue, Queues, s) /\ s # t
  <2> DEFINE f == queue
             g == queue'
  <2>1. q \in Queues /\ f \in [Queues -> Seq(Tasks)] /\ Injective(f, Queues) /\ k \in 1..Len(f[q])
    BY <1>1 DEF TypeOK, Once
  <2>2. /\ \A r \in Queues : r # q => g[r] = f[r]
        /\ DOMAIN g[q] = 1..(Len(f[q]) - 1)
        /\ \A j \in 1..(Len(f[q]) - 1) : g[q][j] = f[q][IF j < k THEN j ELSE j + 1]
    BY DEF Taken
  <2> HIDE DEF t, f, g
  <2>3. /\ Injective(g, Queues)
        /\ \A s \in Tasks : Held(g, Queues, s) <=> Held(f, Queues, s) /\ s # f[q][k]
    BY <2>1, <2>2, TakeKeepsInjective, SMTT(60)
  <2> QED
    BY <2>3 DEF t, f, g
<1>5. w # None
  BY NoneFacts
<1>6. \A s \in Tasks : Held(queue', Queues, s) <=> submitter'[s] # None /\ runner'[s] = None
  <2> HIDE DEF t
  <2> QED
    BY <1>2, <1>3, <1>4, <1>5 DEF FifoInv
<1>7. ASSUME NEW r \in Queues, NEW i \in DOMAIN queue'[r], NEW j \in DOMAIN queue'[r], i < j
      PROVE  Before(order', queue'[r][i], queue'[r][j])
  <2>1. CASE r # q
    <3>1. queue'[r] = queue[r]
      BY <1>1, <2>1 DEF Taken
    <3> QED
      BY <1>2, <1>7, <3>1 DEF FifoInv
  <2>2. CASE r = q
    <3> DEFINE old(m) == IF m < k THEN m ELSE m + 1
    <3>1. queue[q] \in Seq(Tasks)
      BY <1>1 DEF TypeOK
    <3>2. Len(queue[q]) \in Nat /\ DOMAIN queue[q] = 1..Len(queue[q])
      BY <3>1, LenProperties
    <3>3. i \in 1..(Len(queue[q]) - 1) /\ j \in 1..(Len(queue[q]) - 1)
      BY <2>2 DEF Taken
    <3>4. old(i) \in DOMAIN queue[q] /\ old(j) \in DOMAIN queue[q] /\ old(i) < old(j)
      BY <1>1, <1>7, <3>2, <3>3
    <3>5. queue'[q][i] = queue[q][old(i)] /\ queue'[q][j] = queue[q][old(j)]
      BY <3>3 DEF Taken
    <3> HIDE DEF old
    <3> QED
      BY <1>1, <1>2, <2>2, <3>4, <3>5 DEF FifoInv
  <2> QED
    BY <2>1, <2>2
<1>8. ASSUME NEW s \in Tasks, NEW r \in Tasks, submitter'[s] \in Workers,
             submitter'[s] = submitter'[r], Before(order', s, r),
             runner'[r] # None, r \notin stolen'
      PROVE  runner'[s] # None
  <2>1. submitter[s] \in Workers /\ submitter[s] = submitter[r] /\ Before(order, s, r)
    BY <1>2, <1>8
  <2>2. CASE s = t
    BY <1>3, <1>5, <2>2
  <2>3. CASE s # t /\ r # t
    BY <1>3, <1>8, <2>1, <2>3 DEF FifoInv
  <2>4. CASE s # t /\ r = t
    <3>1. k = 1
      BY <1>8, <2>4
    <3>2. q = submitter[s]
      BY <1>1, <2>1, <2>4 DEF RouteInv, Routing, HomeOk
    <3>3. SUFFICES ASSUME runner[s] = None PROVE FALSE
      BY <1>3, <2>4
    <3>4. submitter[s] # None
      BY <2>1, NoneFacts
    <3>5. Held(queue, Queues, s)
      BY <3>3, <3>4 DEF FifoInv
    <3>6a. PICK p \in Queues : \E i \in DOMAIN queue[p] : queue[p][i] = s
      BY <3>5 DEF Held
    <3>6. PICK i \in DOMAIN queue[p] : queue[p][i] = s
      BY <3>6a
    <3>7. p = q
      BY <2>1, <3>2, <3>6 DEF RouteInv, Routing, HomeOk
    <3>8. k < i
      <4>1. i # k
        BY <2>4, <3>6, <3>7
      <4>2. queue[q] \in Seq(Tasks)
        BY <1>1 DEF TypeOK
      <4>3. Len(queue[q]) \in Nat /\ DOMAIN queue[q] = 1..Len(queue[q])
        BY <4>2, LenProperties
      <4> QED
        BY <3>1, <3>7, <4>1, <4>3
    <3>9. Before(order, t, s)
      BY <1>1, <3>6, <3>7, <3>8 DEF FifoInv
    <3>10. order \in Seq(Tasks) /\ Distinct(order)
      BY DEF TypeOK, FifoInv
    <3> HIDE DEF t
    <3> QED
      BY <2>1, <2>4, <3>9, <3>10, BeforeAsymmetric
  <2> QED
    BY <2>2, <2>3, <2>4
<1> QED
  BY <1>2, <1>6, <1>7, <1>8 DEF FifoInv

(* Oldest first: of two tasks one worker submitted, the younger starts before    *)
(* the older only if another worker stole it.                                    *)
THEOREM FifoUnlessStolenHolds == Spec => []FifoUnlessStolen
<1>1. Init => FifoInv
  <2> SUFFICES ASSUME Init PROVE FifoInv
    OBVIOUS
  <2>1. /\ \A q \in Queues : DOMAIN queue[q] = {}
        /\ order = << >> /\ DOMAIN order = {}
        /\ \A t \in Tasks : submitter[t] = None /\ runner[t] = None
    BY DEF Init
  <2> QED
    BY <2>1 DEF FifoInv, Distinct, Held
<1>2. TypeOK /\ RouteInv /\ Once /\ FifoInv /\ [Next]_vars => FifoInv'
  <2> SUFFICES ASSUME TypeOK, RouteInv, Once, FifoInv, [Next]_vars PROVE FifoInv'
    OBVIOUS
  <2> USE DEF poolVars, history
  <2>1. ASSUME UNCHANGED <<queue, order, submitter, runner, stolen>> PROVE FifoInv'
    BY <2>1 DEF FifoInv, Distinct, Before, Held
  <2>2. ASSUME NEW c \in Threads, SubmitPush(c) PROVE FifoInv'
    BY <2>2, PushKeepsFifo
  <2>3. ASSUME NEW w \in Workers, TryPop(w) PROVE FifoInv'
    <3>1. stolen' = stolen
      BY <2>3 DEF TryPop
    <3> QED
      BY <2>3, <3>1, TryPopTakes, TakeKeepsFifo
  <2>4. ASSUME NEW w \in Workers, TrySteal(w) PROVE FifoInv'
    <3>1. stolen' = stolen \cup {queue[Source(w)][Len(queue[Source(w)])]}
      BY <2>4 DEF TrySteal
    <3> QED
      BY <2>4, <3>1, TryStealTakes, TakeKeepsFifo
  <2>5. ASSUME NEW c \in Threads, NEW p \in Pools, NEW t \in Tasks, SubmitCheck(c, p, t)
        PROVE FifoInv'
    BY <2>1, <2>5 DEF SubmitCheck
  <2>6. ASSUME NEW c \in Threads, NEW p \in Pools, SubmitRefused(c, p) PROVE FifoInv'
    BY <2>1, <2>6 DEF SubmitRefused, vars
  <2>7. ASSUME NEW w \in Workers, WorkerLoop(w) \/ WorkerExit(w) \/ Miss(w) \/ TaskReturns(w)
        PROVE FifoInv'
    BY <2>1, <2>7 DEF WorkerLoop, WorkerExit, Miss, TaskReturns
  <2>8. ASSUME NEW w \in Workers, NEW p \in Pools, Help(w, p) PROVE FifoInv'
    BY <2>1, <2>8 DEF Help
  <2>9. ASSUME NEW p \in Pools, Stop(p) \/ Destroy(p) PROVE FifoInv'
    BY <2>1, <2>9 DEF Stop, Destroy
  <2>10. CASE UNCHANGED vars
    BY <2>1, <2>10 DEF vars
  <2> QED
    BY <2>2, <2>3, <2>4, <2>5, <2>6, <2>7, <2>8, <2>9, <2>10 DEF Next, Submit, Work
<1> QED
  BY <1>1, <1>2, TypeCorrect, RouteInvariant, OnceInvariant, FifoInvIsFifo, PTL DEF Spec
-----------------------------------------------------------------------------
(* Why the destructor leaves nobody behind: an exited worker is in no call, a     *)
(* destroyed pool has only exited workers, and from the store of stop_ on no       *)
(* other thread is inside a member of the pool.                                   *)
DestroyInv ==
  /\ \A w \in Workers : pending[w] # NoCall => scan[w] = NoScan /\ stack[w] # << >>
  /\ \A w \in exited : scan[w] = NoScan /\ stack[w] = << >>
  /\ \A p \in Pools : dtor[p] # "alive" => UnusedByOthers(p)
  /\ \A p \in Pools : dtor[p] = "destroyed" => WorkersOf(p) \subseteq exited

(* DestroyInv is an invariant. *)
LEMMA DestroyInvariant == Spec => []DestroyInv
<1>1. Init => DestroyInv
  <2> SUFFICES ASSUME Init PROVE DestroyInv
    OBVIOUS
  <2>1. /\ \A w \in Workers : pending[w] = NoCall
        /\ exited = {}
        /\ \A p \in Pools : dtor[p] = "alive"
    BY DEF Init, Threads
  <2> QED
    BY <2>1 DEF DestroyInv
<1>2. TypeOK /\ DestroyInv /\ [Next]_vars => DestroyInv'
  <2> SUFFICES ASSUME TypeOK, DestroyInv, [Next]_vars PROVE DestroyInv'
    OBVIOUS
  <2>a. \A w \in Workers : w \in Threads /\ PoolOf(w) \in Pools /\ w \in WorkersOf(PoolOf(w))
    BY WorkerFacts DEF WorkersOf
  <2> USE DEF poolVars, history, WorkersOf
  <2>1. CASE UNCHANGED vars
    BY <2>1 DEF vars, DestroyInv, UnusedByOthers
  <2>2. ASSUME NEW c \in Threads, NEW p \in Pools, NEW t \in Tasks, SubmitCheck(c, p, t)
        PROVE DestroyInv'
    <3>1. \A d \in Threads : pending'[d] = IF d = c THEN [pool |-> p, task |-> t] ELSE pending[d]
      BY <2>2 DEF SubmitCheck, TypeOK
    <3>2. UNCHANGED <<scan, stack, exited, dtor>> /\ AtCallSite(c) /\ MayUse(c, p)
      BY <2>2 DEF SubmitCheck
    <3>3. \A r \in Pools : dtor'[r] # "alive" => UnusedByOthers(r)'
      <4> SUFFICES ASSUME NEW r \in Pools, dtor[r] # "alive", NEW d \in Threads \ WorkersOf(r),
                          pending'[d].pool = r
                   PROVE FALSE
        BY <3>2 DEF DestroyInv, UnusedByOthers
      <4>1. d = c /\ p = r
        BY <3>1 DEF DestroyInv, UnusedByOthers
      <4> QED
        BY <3>2, <4>1 DEF MayUse
    <3>4. \A w \in Workers : pending'[w] # NoCall => scan'[w] = NoScan /\ stack'[w] # << >>
      BY <2>a, <3>1, <3>2 DEF DestroyInv, AtCallSite
    <3> QED
      BY <3>2, <3>3, <3>4 DEF DestroyInv
  <2>3. ASSUME NEW c \in Threads, NEW p \in Pools, SubmitRefused(c, p) PROVE DestroyInv'
    BY <2>3 DEF SubmitRefused, vars, DestroyInv, UnusedByOthers
  <2>4. ASSUME NEW c \in Threads, SubmitPush(c) PROVE DestroyInv'
    <3>1. /\ \A d \in Threads : pending'[d] = IF d = c THEN NoCall ELSE pending[d]
          /\ UNCHANGED <<scan, stack, exited, dtor>>
      BY <2>4 DEF SubmitPush, TypeOK
    <3>2. \A r \in Pools : dtor'[r] # "alive" => UnusedByOthers(r)'
      BY <3>1, NoneFacts DEF DestroyInv, UnusedByOthers, NoCall
    <3> QED
      BY <2>a, <3>1, <3>2 DEF DestroyInv
  <2>5. ASSUME NEW w \in Workers, NEW p \in Pools,
               scan' = [scan EXCEPT ![w] = [pool |-> p, at |-> Local]],
               UNCHANGED <<pending, stack, exited, dtor>>,
               pending[w] = NoCall, w \notin exited, MayUse(w, p)
        PROVE DestroyInv'
    <3>1. \A v \in Workers : scan'[v] = IF v = w THEN [pool |-> p, at |-> Local] ELSE scan[v]
      BY <2>5 DEF TypeOK
    <3>2. \A r \in Pools : dtor'[r] # "alive" => UnusedByOthers(r)'
      <4> SUFFICES ASSUME NEW r \in Pools, dtor[r] # "alive", NEW v \in Workers \ WorkersOf(r),
                          scan'[v].pool = r
                   PROVE FALSE
        BY <2>5 DEF DestroyInv, UnusedByOthers
      <4>1. v = w /\ p = r
        BY <3>1 DEF DestroyInv, UnusedByOthers
      <4> QED
        BY <2>5, <4>1 DEF MayUse
    <3>3. \A v \in exited' : v \in Workers /\ scan'[v] = NoScan /\ stack'[v] = << >>
      BY <2>5, <3>1 DEF DestroyInv, TypeOK
    <3> QED
      BY <2>5, <3>1, <3>2, <3>3 DEF DestroyInv
  <2>6. ASSUME NEW w \in Workers, WorkerLoop(w) PROVE DestroyInv'
    <3>1. pending[w] = NoCall /\ MayUse(w, PoolOf(w))
      BY <2>6, <2>a DEF WorkerLoop, DestroyInv, MayUse
    <3> QED
      BY <2>5, <2>6, <2>a, <3>1 DEF WorkerLoop
  <2>7. ASSUME NEW w \in Workers, NEW p \in Pools, Help(w, p) PROVE DestroyInv'
    <3>1. pending[w] = NoCall /\ w \notin exited /\ MayUse(w, p)
      BY <2>7 DEF Help, AtCallSite, DestroyInv
    <3> QED
      BY <2>5, <2>7, <3>1 DEF Help
  <2>8. ASSUME NEW w \in Workers, WorkerExit(w) PROVE DestroyInv'
    BY <2>8 DEF WorkerExit, DestroyInv, UnusedByOthers
  <2>9. ASSUME NEW w \in Workers, NEW s,
               scan[w] # NoScan, s = NoScan \/ s.pool = scan[w].pool,
               scan' = [scan EXCEPT ![w] = s],
               \A v \in Workers : v # w => stack'[v] = stack[v],
               UNCHANGED <<pending, exited, dtor>>
        PROVE DestroyInv'
    <3>1. \A v \in Workers : scan'[v] = IF v = w THEN s ELSE scan[v]
      BY <2>9 DEF TypeOK
    <3>2. w \notin exited /\ pending[w] = NoCall
      BY <2>9 DEF DestroyInv
    <3>3. \A r \in Pools : dtor'[r] # "alive" => UnusedByOthers(r)'
      <4> SUFFICES ASSUME NEW r \in Pools, dtor[r] # "alive", NEW v \in Workers \ WorkersOf(r),
                          scan'[v].pool = r
                   PROVE FALSE
        BY <2>9 DEF DestroyInv, UnusedByOthers
      <4>1. scan[v].pool = r
        BY <2>9, <3>1, NoneFacts DEF NoScan
      <4> QED
        BY <4>1 DEF DestroyInv, UnusedByOthers
    <3>4. \A v \in exited' : v \in Workers /\ scan'[v] = NoScan /\ stack'[v] = << >>
      BY <2>9, <3>1, <3>2 DEF DestroyInv, TypeOK
    <3> QED
      BY <2>9, <3>1, <3>2, <3>3, <3>4 DEF DestroyInv
  <2>10. ASSUME NEW w \in Workers, Miss(w) PROVE DestroyInv'
    <3>1. AfterMiss(scan[w]) = NoScan \/ AfterMiss(scan[w]).pool = scan[w].pool
      <4>1. scan[w] \in Scans
        BY <2>10 DEF Miss, TypeOK, Scans
      <4> QED
        BY <4>1 DEF AfterMiss, Scans
    <3> QED
      BY <2>9, <2>10, <3>1 DEF Miss
  <2>11. ASSUME NEW w \in Workers, NEW q, NEW k, Taken(w, q, k) PROVE DestroyInv'
    <3>1. \A v \in Workers : v # w => stack'[v] = stack[v]
      BY <2>11 DEF Taken, Run, TypeOK
    <3> QED
      BY <2>9, <2>11, <3>1 DEF Taken, Run
  <2>12. ASSUME NEW w \in Workers, TaskReturns(w) PROVE DestroyInv'
    <3>1. /\ \A v \in Workers : v # w => stack'[v] = stack[v]
          /\ pending[w] = NoCall /\ stack[w] # << >>
          /\ UNCHANGED <<pending, scan, exited, dtor>>
      BY <2>12 DEF TaskReturns, AtCallSite, TypeOK
    <3>2. \A v \in exited : v \in Workers /\ v # w
      BY <3>1 DEF DestroyInv, TypeOK
    <3> QED
      BY <3>1, <3>2 DEF DestroyInv, UnusedByOthers
  <2>13. ASSUME NEW p \in Pools, Stop(p) \/ Destroy(p) PROVE DestroyInv'
    <3>1. /\ UNCHANGED <<pending, scan, stack, exited>>
          /\ \A r \in Pools : r # p => dtor'[r] = dtor[r]
          /\ dtor'[p] \in {"joining", "destroyed"}
          /\ dtor'[p] = "destroyed" => WorkersOf(p) \subseteq exited
          /\ UnusedByOthers(p)
      BY <2>13 DEF Stop, Destroy, TypeOK, DestroyInv
    <3> QED
      BY <3>1 DEF DestroyInv, UnusedByOthers
  <2> QED
    <3>1. ASSUME NEW w \in Workers, TryPop(w) PROVE DestroyInv'
      BY <2>11, <3>1, TryPopTakes
    <3>2. ASSUME NEW w \in Workers, TrySteal(w) PROVE DestroyInv'
      BY <2>11, <3>2, TryStealTakes
    <3> QED
      BY <2>1, <2>2, <2>3, <2>4, <2>6, <2>7, <2>8, <2>10, <2>12, <2>13, <3>1, <3>2
      DEF Next, Submit, Work
<1> QED
  BY <1>1, <1>2, TypeCorrect, PTL DEF Spec

(* Once a pool is destroyed none of its workers runs anything and no thread is    *)
(* about to touch one of its queues.                                              *)
THEOREM DestroyedQuietHolds == Spec => []DestroyedQuiet
<1>1. TypeOK /\ DestroyInv => DestroyedQuiet
  <2> SUFFICES ASSUME TypeOK, DestroyInv, NEW p \in Pools, dtor[p] = "destroyed"
               PROVE /\ \A w \in WorkersOf(p) :
                          stack[w] = << >> /\ scan[w] = NoScan /\ pending[w] = NoCall
                     /\ \A c \in Threads : pending[c].pool # p
                     /\ \A w \in Workers : scan[w].pool # p
    BY DEF DestroyedQuiet
  <2>1. \A w \in WorkersOf(p) : stack[w] = << >> /\ scan[w] = NoScan /\ pending[w] = NoCall
    BY DEF DestroyInv, WorkersOf
  <2>2. UnusedByOthers(p)
    BY DEF DestroyInv
  <2> QED
    BY <2>1, <2>2, NoneFacts DEF UnusedByOthers, NoCall, NoScan
<1> QED
  BY <1>1, TypeCorrect, DestroyInvariant, PTL

(* A task left over in a queue of a destroyed pool never starts. *)
THEOREM LeftoversNeverRunHolds == Spec => LeftoversNeverRun
<1> DEFINE Frozen == \A p \in Pools : dtor[p] = "destroyed" =>
                       \A q \in {p} \cup WorkersOf(p) : queue'[q] = queue[q]
<1>1. TypeOK /\ DestroyedQuiet /\ [Next]_vars => [Frozen]_vars
  <2> SUFFICES ASSUME TypeOK, DestroyedQuiet, Next,
                      NEW p \in Pools, dtor[p] = "destroyed",
                      NEW q \in {p} \cup WorkersOf(p)
               PROVE queue'[q] = queue[q]
    OBVIOUS
  <2>a. q \in Queues
    BY DEF Queues, WorkersOf
  <2>b. /\ \A w \in WorkersOf(p) : scan[w] = NoScan /\ pending[w] = NoCall
        /\ \A c \in Threads : pending[c].pool # p
        /\ \A w \in Workers : scan[w].pool # p
    BY DEF DestroyedQuiet
  <2>c. \A w \in Workers : w \in WorkersOf(PoolOf(w))
    BY DEF WorkersOf
  <2>d. p \notin Workers
    BY ThreadAssumption
  <2> USE DEF poolVars, history
  <2>1. ASSUME NEW c \in Threads, SubmitPush(c) PROVE queue'[q] = queue[q]
    <3>1. pending[c] # NoCall /\ TargetQueue(c) = IF c \in Workers THEN c ELSE pending[c].pool
      BY <2>1, PushFacts DEF SubmitPush
    <3>2. TargetQueue(c) # q
      <4>1. CASE c \in Workers
        <5>1. c \notin WorkersOf(p)
          BY <2>b, <3>1
        <5> QED
          BY <2>d, <3>1, <4>1, <5>1
      <4>2. CASE c \notin Workers
        <5>1. TargetQueue(c) \in Pools /\ TargetQueue(c) # p
          BY <2>1, <2>b, <3>1, <4>2, PushFacts
        <5> QED
          BY <5>1, ThreadAssumption DEF WorkersOf
      <4> QED
        BY <4>1, <4>2
    <3> QED
      BY <2>1, <2>a, <3>2, PushFacts
  <2>2. ASSUME NEW w \in Workers, NEW r, NEW k, Taken(w, r, k) PROVE queue'[q] = queue[q]
    <3>1. scan[w] # NoScan /\ r = Source(w)
      BY <2>2 DEF Taken
    <3>2. r # q
      <4>1. CASE scan[w].at = Local
        BY <2>b, <2>d, <3>1, <4>1, SourceFacts
      <4>2. CASE scan[w].at = Global
        <5>1. r = scan[w].pool /\ r \in Pools
          BY <3>1, <4>2, SourceFacts DEF Scans
        <5> QED
          BY <2>b, <5>1, ThreadAssumption DEF WorkersOf
      <4>3. CASE scan[w].at \notin {Local, Global}
        <5>1. r \in Workers /\ PoolOf(r) = scan[w].pool
          BY <3>1, <4>3, SourceFacts
        <5> QED
          BY <2>b, <2>d, <5>1 DEF WorkersOf
      <4> QED
        BY <4>1, <4>2, <4>3
    <3> QED
      BY <2>2, <2>a, <3>2 DEF Taken
  <2>3. ASSUME UNCHANGED queue PROVE queue'[q] = queue[q]
    BY <2>3
  <2>4. ASSUME NEW c \in Threads, Submit(c) PROVE queue'[q] = queue[q]
    BY <2>1, <2>3, <2>4 DEF Submit, SubmitCheck, SubmitRefused, vars
  <2>5. ASSUME NEW w \in Workers, Work(w) PROVE queue'[q] = queue[q]
    <3>1. CASE TryPop(w)
      BY <2>2, <3>1, TryPopTakes
    <3>2. CASE TrySteal(w)
      BY <2>2, <3>2, TryStealTakes
    <3>3. CASE WorkerLoop(w) \/ WorkerExit(w) \/ Miss(w) \/ TaskReturns(w)
      BY <2>3, <3>3 DEF WorkerLoop, WorkerExit, Miss, TaskReturns
    <3>4. ASSUME NEW s \in Pools, Help(w, s) PROVE UNCHANGED queue
      BY <3>4 DEF Help
    <3> QED
      BY <2>3, <2>5, <3>1, <3>2, <3>3, <3>4 DEF Work
  <2>6. ASSUME NEW s \in Pools, Stop(s) \/ Destroy(s) PROVE queue'[q] = queue[q]
    BY <2>3, <2>6 DEF Stop, Destroy
  <2> QED
    BY <2>4, <2>5, <2>6 DEF Next
<1> QED
  BY <1>1, TypeCorrect, DestroyedQuietHolds, PTL DEF Spec, LeftoversNeverRun

(* A task waits where its submitter's thread_local members send it, without stealing a   *)
(* worker runs what it submitted itself, and a destroyed pool has nobody at work in it.  *)
THEOREM SafetyHolds == Spec => []Safety
  BY RoutingHolds, AffinityHolds, DestroyedQuietHolds, PTL DEF Safety
=============================================================================
