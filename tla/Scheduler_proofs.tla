--------------------------- MODULE Scheduler_proofs --------------------------
(* Proofs about Scheduler, for any number of clients, functions, delays and shutdowns.   *)
(* The invariant: whoever pushes holds the lock with a function never pushed before,      *)
(* the queue has no item twice and only pushed ones, and a wait for a delay leaves the     *)
(* queue non-empty unless a shutdown has discarded it.  With equal delays the copied item  *)
(* stays the top, and the scheduler implements DelayedExecutor.                           *)
EXTENDS Scheduler, FiniteSetTheorems, SequenceTheorems, TLAPS

Queues == [top : Items, rest : SUBSET Items] \cup {EmptyQueue}
Args   == [func : Funcs, delay : 0..MaxTime, need_notify : BOOLEAN]

(* execute() between its critical section and its return *)
Pushing ==
  \A c \in Callers :
    /\ call[c] # "idle" => arg[c] \in Args
    /\ call[c] = "push" => /\ holder = c /\ now + arg[c].delay <= MaxTime
                           /\ \A x \in pushed : x.func # arg[c].func

Swapping == owner = "swap" => holder = Owner

(* run_loop after it has copied the top *)
Timed ==
  pc \in {"timed", "timedWoken"} => executable \in Items /\ (IsEmpty(executable_queue) => swept)

Distinct(q) == ~IsEmpty(q) => q.top \notin q.rest

QueueOK ==
  /\ Distinct(executable_queue)
  /\ Contents(executable_queue) \subseteq pushed
  /\ IsFiniteSet(pushed)

IInv ==
  /\ TypeOK /\ Pushing /\ Swapping /\ Timed /\ QueueOK
  /\ NoEarlyRun /\ UndefinedOnlyAfterDiscard /\ CallsMatchPushes
-----------------------------------------------------------------------------
(* The priority queue.  No item is the NoItem of the empty queue. *)
LEMMA ItemTypes == NoItem \notin Items /\ \A x \in Items : x.func \in Funcs /\ x.time \in 0..MaxTime
BY SchedulerAssumption DEF Items, NoItem

(* The queue as the set of its items. *)
LEMMA QueueTypes ==
  ASSUME NEW q \in Queues, ~IsEmpty(q)
  PROVE  q \in [top : Items, rest : SUBSET Items] /\ q.top \in Items /\ q.rest \subseteq Items
BY DEF Queues, IsEmpty

(* A push adds the new item and no other. *)
LEMMA NewQueue ==
  ASSUME NEW x \in Items, NEW R \in SUBSET Items, x \notin R
  PROVE  LET q == [top |-> x, rest |-> R]
         IN  q \in Queues /\ ~IsEmpty(q) /\ Distinct(q) /\ Contents(q) = R \cup {x}
<1> DEFINE q == [top |-> x, rest |-> R]
<1>1. q \in Queues /\ q.top = x /\ q.rest = R
  BY DEF Queues
<1>2. ~IsEmpty(q)
  <2>1. q # EmptyQueue
    <3>1. SUFFICES ASSUME q = EmptyQueue PROVE FALSE
      OBVIOUS
    <3>2. q.top = EmptyQueue.top
      BY <3>1
    <3>3. EmptyQueue.top = NoItem
      BY DEF EmptyQueue
    <3> QED
      BY <1>1, <3>2, <3>3, ItemTypes
  <2> QED
    BY <2>1 DEF IsEmpty
<1> QED
  BY <1>1, <1>2 DEF Distinct, Contents

(* A push adds the item and nothing else. *)
LEMMA PushedQueue ==
  ASSUME NEW q \in Queues, NEW x \in Items, Distinct(q), x \notin Contents(q)
  PROVE  /\ Pushed(q, x) \in Queues /\ ~IsEmpty(Pushed(q, x)) /\ Distinct(Pushed(q, x))
         /\ Contents(Pushed(q, x)) = Contents(q) \cup {x}
<1>1. CASE IsEmpty(q)
  <2>1. Pushed(q, x) = [top |-> x, rest |-> {}] /\ Contents(q) = {}
    BY <1>1 DEF Pushed, Contents
  <2> QED
    BY <2>1, NewQueue
<1>2. CASE ~IsEmpty(q)
  <2>1. q.top \in Items /\ q.rest \subseteq Items /\ q \in [top : Items, rest : SUBSET Items]
    BY <1>2, QueueTypes
  <2>2. Contents(q) = {q.top} \cup q.rest /\ q.top \notin q.rest
    BY <1>2 DEF Contents, Distinct
  <2>3. CASE x.time < q.top.time
    <3>1. Pushed(q, x) = [top |-> x, rest |-> q.rest \cup {q.top}]
      BY <1>2, <2>3 DEF Pushed
    <3>2. x \notin q.rest \cup {q.top} /\ q.rest \cup {q.top} \in SUBSET Items
      BY <2>1, <2>2
    <3> QED
      BY <2>2, <3>1, <3>2, NewQueue
  <2>4. CASE ~(x.time < q.top.time)
    <3>1. Pushed(q, x) = [top |-> q.top, rest |-> q.rest \cup {x}]
      BY <1>2, <2>1, <2>4 DEF Pushed
    <3>2. q.top \notin q.rest \cup {x} /\ q.rest \cup {x} \in SUBSET Items
      BY <2>1, <2>2
    <3>3. Contents(Pushed(q, x)) = (q.rest \cup {x}) \cup {q.top}
      BY <2>1, <3>1, <3>2, NewQueue
    <3> QED
      BY <2>1, <2>2, <3>1, <3>2, <3>3, NewQueue
  <2> QED
    BY <2>3, <2>4
<1> QED
  BY <1>1, <1>2

(* A pop takes the top off and nothing else. *)
LEMMA PoppedQueue ==
  ASSUME NEW q \in Queues, Distinct(q), ~IsEmpty(q), NEW r \in Popped(q)
  PROVE  /\ r \in Queues /\ Distinct(r)
         /\ q.top \in Contents(q) /\ Contents(r) = Contents(q) \ {q.top}
<1>1. q.top \in Items /\ q.rest \subseteq Items /\ q.top \notin q.rest /\ Contents(q) = {q.top} \cup q.rest
  BY QueueTypes DEF Contents, Distinct
<1>2. CASE q.rest = {}
  <2>1. r = EmptyQueue
    BY <1>2 DEF Popped
  <2> QED
    BY <1>1, <1>2, <2>1 DEF Queues, Distinct, Contents, IsEmpty
<1>3. CASE q.rest # {}
  <2>1. PICK x \in q.rest : r = [top |-> x, rest |-> q.rest \ {x}]
    BY <1>3 DEF Popped
  <2>2. r \in Queues /\ Distinct(r) /\ Contents(r) = (q.rest \ {x}) \cup {x}
    BY <1>1, <2>1, NewQueue
  <2> QED
    BY <1>1, <2>1, <2>2
<1> QED
  BY <1>2, <1>3
-----------------------------------------------------------------------------
(* The invariant holds at first. *)
LEMMA InitInv == Init => IInv
<1> SUFFICES ASSUME Init PROVE IInv
  OBVIOUS
<1>1. Contents(executable_queue) = {} /\ IsEmpty(executable_queue)
  BY DEF Init, Contents, IsEmpty
<1>2. TypeOK
  <2>1. 0 \in 0..MaxTime /\ 0 \in 0..MaxShutdowns
    BY SchedulerAssumption
  <2>2. started \in Seq(Items)
    BY DEF Init
  <2>3. call \in [Callers -> {"idle", "push", "notify"}] /\ arg \in [Callers -> {NoArg}]
    BY DEF Init
  <2>4. arg \in [Callers -> Args \cup {NoArg}]
    BY <2>3
  <2> QED
    BY <2>1, <2>2, <2>3, <2>4 DEF Init, TypeOK, Args
<1>3. Cardinality({}) = 0 /\ IsFiniteSet({}) /\ Len(<< >>) = 0
  BY FS_EmptySet
<1>4. Pushing /\ Swapping /\ Timed /\ NoEarlyRun /\ UndefinedOnlyAfterDiscard
  BY DEF Init, Pushing, Swapping, Timed, NoEarlyRun, UndefinedOnlyAfterDiscard
<1>5. QueueOK
  BY <1>1, <1>3 DEF Init, QueueOK, Distinct
<1>6. CallsMatchPushes
  BY <1>1, <1>3 DEF Init, CallsMatchPushes
<1> QED
  BY <1>2, <1>4, <1>5, <1>6 DEF IInv

(* A step of run_loop or a wake-up that takes nothing off the queue. *)
LEMMA LoopInv ==
  ASSUME IInv,
         UNCHANGED <<now, queueVars, callVars, ownerVars, history>>,
         pc' \in {"active", "empty", "lock", "waiting", "woken", "timed", "timedWoken", "run", "exited", "undefined"},
         executable' \in Items \cup {NoItem},
         Timed', NoEarlyRun', UndefinedOnlyAfterDiscard'
  PROVE  IInv'
<1>1. TypeOK'
  BY DEF IInv, TypeOK, queueVars, callVars, ownerVars, history
<1>2. Pushing' /\ Swapping' /\ QueueOK'
  BY DEF IInv, Pushing, Swapping, QueueOK, queueVars, callVars, ownerVars, history
<1>3. CallsMatchPushes'
  BY DEF IInv, CallsMatchPushes, queueVars, history
<1> QED
  BY <1>1, <1>2, <1>3 DEF IInv

(* The functions called are one more, the items queued one less. *)
LEMMA CalledInv ==
  ASSUME IInv, ~IsEmpty(executable_queue), NEW x \in Items, x.time <= now, PopAndRun(x),
         executable' = x, UNCHANGED <<now, is_active, holder, callVars, ownerVars, pushed, early, swept, raced>>
  PROVE  IInv'
<1> DEFINE q == executable_queue
<1>1. executable_queue \in Queues /\ Distinct(q) /\ Contents(q) \subseteq pushed /\ IsFiniteSet(pushed)
  BY DEF IInv, TypeOK, QueueOK, Queues
<1>2. /\ executable_queue' \in Queues /\ Distinct(q')
      /\ q.top \in Contents(q) /\ Contents(q') = Contents(q) \ {q.top}
  BY <1>1, PoppedQueue DEF PopAndRun
<1>3. started' = Append(started, x) /\ pc' = "run" /\ started \in Seq(Items)
  BY DEF PopAndRun, IInv, TypeOK
<1>4. started' \in Seq(Items) /\ Len(started') = Len(started) + 1 /\ Len(started) \in Nat
  BY <1>3, AppendProperties, LenProperties
<1>5. TypeOK'
  BY <1>2, <1>3, <1>4 DEF IInv, TypeOK, Queues, callVars, ownerVars
<1>6. Pushing' /\ Swapping'
  BY DEF IInv, Pushing, Swapping, callVars, ownerVars
<1>7. Timed' /\ UndefinedOnlyAfterDiscard'
  BY <1>3 DEF Timed, UndefinedOnlyAfterDiscard
<1>8. NoEarlyRun'
  BY DEF NoEarlyRun
<1>9. QueueOK'
  BY <1>1, <1>2 DEF QueueOK
<1>10. CallsMatchPushes'
  <2>1. IsFiniteSet(Contents(q))
    BY <1>1, FS_Subset
  <2>2. Cardinality(Contents(q')) = Cardinality(Contents(q)) - 1 /\ Cardinality(Contents(q)) \in Nat
    BY <1>2, <2>1, FS_RemoveElement, FS_CardinalityType
  <2> QED
    BY <1>4, <2>2 DEF IInv, CallsMatchPushes
<1> QED
  BY <1>5, <1>6, <1>7, <1>8, <1>9, <1>10 DEF IInv

(* The item pushed is new. *)
LEMMA ExecutePushInv ==
  ASSUME IInv, NEW c \in Callers, ExecutePush(c)
  PROVE  IInv'
<1> DEFINE q == executable_queue
           x == [func |-> arg[c].func, time |-> now + arg[c].delay]
<1>1. /\ call[c] = "push" /\ holder = c /\ arg[c] \in Args
      /\ now + arg[c].delay <= MaxTime /\ now \in 0..MaxTime
      /\ \A y \in pushed : y.func # arg[c].func
  BY DEF ExecutePush, IInv, Pushing, TypeOK
<1>2. x \in Items /\ x.func \in Funcs
  BY <1>1, SchedulerAssumption DEF Args, Items
<1>3. x \notin pushed
  BY <1>1
<1>4. executable_queue \in Queues /\ Distinct(q) /\ Contents(q) \subseteq pushed /\ IsFiniteSet(pushed)
  BY DEF IInv, TypeOK, QueueOK, Queues
<1>5. /\ executable_queue' = Pushed(q, x) /\ pushed' = pushed \cup {x}
      /\ early' = IF shutdowns = 0 /\ ~arg[c].need_notify THEN early \cup {x.func} ELSE early
      /\ holder' = None
      /\ call' = [call EXCEPT ![c] = IF arg[c].need_notify THEN "notify" ELSE "idle"]
      /\ UNCHANGED <<now, is_active, workVars, arg, ownerVars, started, swept, raced>>
  BY DEF ExecutePush
<1> HIDE DEF x
<1>6. Pushed(q, x) \in Queues /\ ~IsEmpty(Pushed(q, x)) /\ Distinct(Pushed(q, x))
      /\ Contents(Pushed(q, x)) = Contents(q) \cup {x}
  BY <1>2, <1>3, <1>4, PushedQueue
<1>7. /\ \A d \in Callers : d # c => call'[d] = call[d] /\ call[d] # "push"
      /\ call'[c] # "push" /\ call' \in [Callers -> {"idle", "push", "notify"}]
  BY <1>1, <1>5 DEF IInv, TypeOK, Pushing
<1>8. TypeOK'
  BY <1>2, <1>5, <1>6, <1>7 DEF IInv, TypeOK, Queues, workVars, ownerVars
<1>9. Pushing'
  BY <1>1, <1>5, <1>7 DEF IInv, Pushing
<1>10. Swapping'
  BY <1>1, <1>5, SchedulerAssumption DEF IInv, Swapping, ownerVars, Callers
<1>11. Timed' /\ NoEarlyRun' /\ UndefinedOnlyAfterDiscard'
  BY <1>5, <1>6 DEF IInv, Timed, NoEarlyRun, UndefinedOnlyAfterDiscard, workVars
<1>12. QueueOK'
  BY <1>4, <1>5, <1>6, FS_AddElement DEF QueueOK
<1>13. CallsMatchPushes'
  <2>1. IsFiniteSet(Contents(q)) /\ x \notin Contents(q)
    BY <1>3, <1>4, FS_Subset
  <2>2. Cardinality(Contents(q')) = Cardinality(Contents(q)) + 1 /\ Cardinality(Contents(q)) \in Nat
    BY <1>5, <1>6, <2>1, FS_AddElement, FS_CardinalityType
  <2>3. Cardinality(pushed') = Cardinality(pushed) + 1 /\ Cardinality(pushed) \in Nat
    BY <1>3, <1>4, <1>5, FS_AddElement, FS_CardinalityType
  <2>4. Len(started) \in Nat
    BY LenProperties DEF IInv, TypeOK
  <2> QED
    BY <1>5, <2>2, <2>3, <2>4 DEF IInv, CallsMatchPushes
<1> QED
  BY <1>8, <1>9, <1>10, <1>11, <1>12, <1>13 DEF IInv

(* execute(), with the lock *)
LEMMA ExecuteLockInv ==
  ASSUME IInv, NEW c \in Callers, NEW f \in Funcs, NEW d \in Delays, ExecuteLock(c, f, d)
  PROVE  IInv'
<1>1. /\ Fresh(f) /\ holder = None /\ holder' = c
      /\ call' = [call EXCEPT ![c] = "push"]
      /\ UNCHANGED <<now, is_active, executable_queue, workVars, ownerVars, history>>
  BY DEF ExecuteLock
<1> DEFINE need_notify == IsEmpty(executable_queue) \/ Delay(executable_queue.top) > ClampedDelay(d)
           a == [func |-> f, delay |-> ClampedDelay(d), need_notify |-> need_notify]
<1>2. arg' = [arg EXCEPT ![c] = a] /\ now + ClampedDelay(d) <= MaxTime
  BY DEF ExecuteLock
<1>3. ClampedDelay(d) \in 0..MaxTime
  <2>1. ClampedDelay(d) \in Nat /\ now \in 0..MaxTime
    BY SchedulerAssumption DEF ClampedDelay, IInv, TypeOK
  <2> QED
    BY <1>2, <2>1, SchedulerAssumption
<1>4. need_notify \in BOOLEAN
  OBVIOUS
<1>5. a \in Args /\ a.func = f /\ now + a.delay <= MaxTime
  BY <1>2, <1>3, <1>4 DEF Args
<1> HIDE DEF a
<1>6. /\ \A e \in Callers : e # c => call'[e] = call[e] /\ arg'[e] = arg[e]
      /\ call'[c] = "push" /\ arg'[c] = a
      /\ call' \in [Callers -> {"idle", "push", "notify"}]
      /\ arg' \in [Callers -> Args \cup {NoArg}]
  BY <1>1, <1>2, <1>5 DEF IInv, TypeOK, Args
<1>7. TypeOK'
  BY <1>1, <1>6 DEF IInv, TypeOK, Args, workVars, ownerVars, history
<1>8. \A e \in Callers : call[e] # "push"
  BY <1>1, SchedulerAssumption DEF IInv, Pushing, Callers
<1>9. Pushing'
  BY <1>1, <1>5, <1>6, <1>8 DEF IInv, Pushing, Fresh, history
<1>10. Swapping'
  BY <1>1, SchedulerAssumption DEF IInv, Swapping, ownerVars
<1>11. Timed' /\ NoEarlyRun' /\ UndefinedOnlyAfterDiscard' /\ QueueOK' /\ CallsMatchPushes'
  BY <1>1 DEF IInv, Timed, NoEarlyRun, UndefinedOnlyAfterDiscard, QueueOK, CallsMatchPushes, workVars, history
<1> QED
  BY <1>7, <1>9, <1>10, <1>11 DEF IInv

(* A notification moves run_loop within its waits only. *)
LEMMA NotifyMoves ==
  ASSUME IInv, Notify
  PROVE  /\ pc' \in {"active", "empty", "lock", "waiting", "woken", "timed", "timedWoken", "run", "exited", "undefined"}
         /\ pc' = "run" <=> pc = "run"
         /\ pc' = "undefined" <=> pc = "undefined"
         /\ pc' \in {"timed", "timedWoken"} => pc \in {"timed", "timedWoken"}
BY DEF Notify, IInv, TypeOK

(* execute(), after the unlock *)
LEMMA ExecuteNotifyInv ==
  ASSUME IInv, NEW c \in Callers, ExecuteNotify(c)
  PROVE  IInv'
<1>1. /\ call[c] = "notify" /\ call' = [call EXCEPT ![c] = "idle"] /\ arg[c] \in Args
      /\ early' = IF shutdowns = 0 THEN early \cup {arg[c].func} ELSE early
      /\ UNCHANGED <<now, queueVars, executable, arg, ownerVars, pushed, started, swept, raced>>
  BY DEF ExecuteNotify, IInv, Pushing
<1>2. Notify
  BY DEF ExecuteNotify
<1>3. /\ \A e \in Callers : e # c => call'[e] = call[e]
      /\ call'[c] = "idle" /\ call' \in [Callers -> {"idle", "push", "notify"}]
  BY <1>1 DEF IInv, TypeOK
<1>4. early' \subseteq Funcs
  BY <1>1 DEF IInv, TypeOK, Args
<1>5. TypeOK'
  BY <1>1, <1>2, <1>3, <1>4, NotifyMoves DEF IInv, TypeOK, queueVars, ownerVars
<1>6. Pushing' /\ Swapping'
  BY <1>1, <1>3 DEF IInv, Pushing, Swapping, queueVars, ownerVars
<1>7. Timed' /\ NoEarlyRun' /\ UndefinedOnlyAfterDiscard'
  BY <1>1, <1>2, NotifyMoves DEF IInv, Timed, NoEarlyRun, UndefinedOnlyAfterDiscard, queueVars
<1>8. QueueOK' /\ CallsMatchPushes'
  BY <1>1 DEF IInv, QueueOK, CallsMatchPushes, queueVars
<1> QED
  BY <1>5, <1>6, <1>7, <1>8 DEF IInv

(* run_loop, and the wake-ups nobody sends *)
LEMMA RunLoopInv == IInv /\ (RunLoop \/ SpuriousWake) => IInv'
<1> SUFFICES ASSUME IInv, RunLoop \/ SpuriousWake PROVE IInv'
  OBVIOUS
<1> DEFINE Same == UNCHANGED <<now, queueVars, callVars, ownerVars, history>>
<1>1. CASE ReadActive
  BY <1>1, LoopInv DEF ReadActive, IInv, TypeOK, Timed, NoEarlyRun, UndefinedOnlyAfterDiscard
<1>2. CASE ReadEmpty
  BY <1>2, LoopInv DEF ReadEmpty, IInv, TypeOK, Timed, NoEarlyRun, UndefinedOnlyAfterDiscard
<1>3. CASE LockAndWait
  BY <1>3, LoopInv DEF LockAndWait, IInv, TypeOK, Timed, NoEarlyRun, UndefinedOnlyAfterDiscard
<1>4. CASE WokenContinue
  BY <1>4, LoopInv DEF WokenContinue, IInv, TypeOK, Timed, NoEarlyRun, UndefinedOnlyAfterDiscard
<1>5. CASE TopIsDue
  <2>1. executable_queue.top \in Items /\ executable_queue.top.time \in Int /\ now \in Int
    BY <1>5, QueueTypes, ItemTypes DEF TopIsDue, IInv, TypeOK, Queues
  <2>2. executable_queue.top.time <= now
    BY <1>5, <2>1 DEF TopIsDue, Delay
  <2> QED
    BY <1>5, <2>1, <2>2, CalledInv DEF TopIsDue
<1>6. CASE TopIsLater
  <2>1. executable_queue.top \in Items
    BY <1>6, QueueTypes DEF TopIsLater, IInv, TypeOK, Queues
  <2>2. Timed' /\ NoEarlyRun' /\ UndefinedOnlyAfterDiscard'
    BY <1>6, <2>1 DEF TopIsLater, Timed, NoEarlyRun, UndefinedOnlyAfterDiscard, queueVars
  <2> QED
    BY <1>6, <2>1, <2>2, LoopInv DEF TopIsLater
<1>7. CASE TimedContinue
  BY <1>7, LoopInv DEF TimedContinue, Timed, NoEarlyRun, UndefinedOnlyAfterDiscard
<1>8. CASE TimedOut
  <2>1. executable \in Items /\ executable.time \in Int /\ now \in Int
    BY <1>8, ItemTypes DEF TimedOut, IInv, Timed, TypeOK
  <2>2. executable.time <= now /\ executable' = executable
    BY <1>8, <2>1 DEF TimedOut
  <2> QED
    BY <1>8, <2>1, <2>2, CalledInv DEF TimedOut
<1>9. CASE TimedOutOnEmpty
  <2>1. swept
    BY <1>9 DEF TimedOutOnEmpty, IInv, Timed
  <2>2. Timed' /\ NoEarlyRun' /\ UndefinedOnlyAfterDiscard'
    BY <1>9, <2>1 DEF TimedOutOnEmpty, Timed, NoEarlyRun, UndefinedOnlyAfterDiscard, history
  <2> QED
    BY <1>9, <2>2, LoopInv DEF TimedOutOnEmpty, IInv, TypeOK
<1>10. CASE WaitExpires
  <2>1. Timed' /\ NoEarlyRun' /\ UndefinedOnlyAfterDiscard'
    BY <1>10 DEF WaitExpires, IInv, Timed, NoEarlyRun, UndefinedOnlyAfterDiscard, queueVars, history
  <2> QED
    BY <1>10, <2>1, LoopInv DEF WaitExpires, IInv, TypeOK
<1>11. CASE FuncReturns
  BY <1>11, LoopInv DEF FuncReturns, Timed, NoEarlyRun, UndefinedOnlyAfterDiscard
<1>12. CASE SpuriousWake
  <2>1. Timed' /\ NoEarlyRun' /\ UndefinedOnlyAfterDiscard'
    BY <1>12, NotifyMoves DEF SpuriousWake, IInv, Timed, NoEarlyRun, UndefinedOnlyAfterDiscard, queueVars, history
  <2> QED
    BY <1>12, <2>1, NotifyMoves, LoopInv DEF SpuriousWake, IInv, TypeOK
<1> QED
  BY <1>1, <1>2, <1>3, <1>4, <1>5, <1>6, <1>7, <1>8, <1>9, <1>10, <1>11, <1>12 DEF RunLoop

(* shutdown() and join() *)
LEMMA OwnerInv == IInv /\ OwnerStep => IInv'
<1> SUFFICES ASSUME IInv, OwnerStep PROVE IInv'
  OBVIOUS
<1>1. ASSUME NEW wait \in BOOLEAN, Shutdown(wait) PROVE IInv'
  <2>1. shutdowns' \in 0..MaxShutdowns /\ owner' \in {"notify", "lock"}
    BY <1>1, SchedulerAssumption DEF Shutdown, IInv, TypeOK
  <2>2. TypeOK'
    BY <1>1, <2>1 DEF Shutdown, IInv, TypeOK, workVars, callVars, history
  <2>3. Pushing' /\ Swapping'
    BY <1>1, <2>1 DEF Shutdown, IInv, Pushing, Swapping, callVars, history
  <2>4. Timed' /\ NoEarlyRun' /\ UndefinedOnlyAfterDiscard' /\ QueueOK' /\ CallsMatchPushes'
    BY <1>1 DEF Shutdown, IInv, Timed, NoEarlyRun, UndefinedOnlyAfterDiscard, QueueOK, CallsMatchPushes, workVars, history
  <2> QED
    BY <2>2, <2>3, <2>4 DEF IInv
<1>2. CASE SwapBegin
  <2>1. TypeOK'
    BY <1>2 DEF SwapBegin, IInv, TypeOK, workVars, callVars, history
  <2>2. \A c \in Callers : call[c] # "push"
    BY <1>2, SchedulerAssumption DEF SwapBegin, IInv, Pushing, Callers
  <2>3. Pushing' /\ Swapping'
    BY <1>2, <2>2 DEF SwapBegin, IInv, Pushing, Swapping, callVars, history
  <2>4. Timed' /\ NoEarlyRun' /\ UndefinedOnlyAfterDiscard' /\ QueueOK' /\ CallsMatchPushes'
    BY <1>2 DEF SwapBegin, IInv, Timed, NoEarlyRun, UndefinedOnlyAfterDiscard, QueueOK, CallsMatchPushes, workVars, history
  <2> QED
    BY <2>1, <2>3, <2>4 DEF IInv
<1>3. CASE SwapEnd
  <2>1. TypeOK'
    BY <1>3 DEF SwapEnd, IInv, TypeOK, workVars, callVars
  <2>2. \A c \in Callers : call[c] # "push"
    BY <1>3, SchedulerAssumption DEF SwapEnd, IInv, Pushing, Swapping, Callers
  <2>3. Pushing' /\ Swapping'
    BY <1>3, <2>2 DEF SwapEnd, IInv, Pushing, Swapping, callVars
  <2>4. Timed' /\ NoEarlyRun' /\ UndefinedOnlyAfterDiscard' /\ CallsMatchPushes'
    BY <1>3 DEF SwapEnd, IInv, Timed, NoEarlyRun, UndefinedOnlyAfterDiscard, CallsMatchPushes, workVars
  <2>5. QueueOK'
    BY <1>3 DEF SwapEnd, IInv, QueueOK, Distinct, Contents, IsEmpty
  <2> QED
    BY <2>1, <2>3, <2>4, <2>5 DEF IInv
<1>4. CASE ShutdownNotify
  <2>1. Notify /\ owner' = "idle" /\ raced' \in BOOLEAN
        /\ UNCHANGED <<now, queueVars, executable, callVars, shutdowns, pushed, started, early, swept>>
    BY <1>4 DEF ShutdownNotify, IInv, TypeOK
  <2>2. TypeOK'
    BY <2>1, NotifyMoves DEF IInv, TypeOK, queueVars, callVars
  <2>3. Pushing' /\ Swapping'
    BY <2>1 DEF IInv, Pushing, Swapping, queueVars, callVars
  <2>4. Timed' /\ NoEarlyRun' /\ UndefinedOnlyAfterDiscard'
    BY <2>1, NotifyMoves DEF IInv, Timed, NoEarlyRun, UndefinedOnlyAfterDiscard, queueVars
  <2>5. QueueOK' /\ CallsMatchPushes'
    BY <2>1 DEF IInv, QueueOK, CallsMatchPushes, queueVars
  <2> QED
    BY <2>2, <2>3, <2>4, <2>5 DEF IInv
<1>5. CASE Join \/ JoinReturns
  <2>1. TypeOK'
    BY <1>5 DEF Join, JoinReturns, IInv, TypeOK, queueVars, workVars, callVars, history
  <2>2. Pushing' /\ Swapping'
    BY <1>5 DEF Join, JoinReturns, IInv, Pushing, Swapping, queueVars, callVars, history
  <2>3. Timed' /\ NoEarlyRun' /\ UndefinedOnlyAfterDiscard' /\ QueueOK' /\ CallsMatchPushes'
    BY <1>5 DEF Join, JoinReturns, IInv, Timed, NoEarlyRun, UndefinedOnlyAfterDiscard, QueueOK, CallsMatchPushes,
                queueVars, workVars, history
  <2> QED
    BY <2>1, <2>2, <2>3 DEF IInv
<1> QED
  BY <1>1, <1>2, <1>3, <1>4, <1>5 DEF OwnerStep

(* The clock may not pass the time an item is being pushed for. *)
LEMMA TickInv == IInv /\ Tick => IInv'
<1> SUFFICES ASSUME IInv, Tick PROVE IInv'
  OBVIOUS
<1>1. now \in 0..MaxTime /\ now' = now + 1 /\ now' \in 0..MaxTime
      /\ UNCHANGED <<queueVars, workVars, callVars, ownerVars, history>>
  BY SchedulerAssumption DEF Tick, IInv, TypeOK
<1>2. TypeOK'
  BY <1>1 DEF IInv, TypeOK, queueVars, workVars, callVars, ownerVars, history
<1>3. \A c \in Callers : call[c] = "push" => now' + arg[c].delay <= MaxTime
  <2> SUFFICES ASSUME NEW c \in Callers, call[c] = "push" PROVE now' + arg[c].delay <= MaxTime
    OBVIOUS
  <2>1. now + arg[c].delay < MaxTime /\ arg[c].delay \in 0..MaxTime
    BY DEF Tick, IInv, Pushing, Args
  <2> QED
    BY <1>1, <2>1, SchedulerAssumption
<1>4. Pushing' /\ Swapping'
  BY <1>1, <1>3 DEF IInv, Pushing, Swapping, queueVars, callVars, ownerVars, history
<1>5. NoEarlyRun'
  <2> SUFFICES ASSUME pc = "run" PROVE executable.time <= now'
    BY <1>1 DEF NoEarlyRun, workVars
  <2>1. executable \in Items \cup {NoItem} /\ executable.time <= now
    BY DEF IInv, TypeOK, NoEarlyRun
  <2>2. executable.time \in Int
    BY <2>1, ItemTypes DEF NoItem
  <2> QED
    BY <1>1, <2>1, <2>2
<1>6. Timed' /\ UndefinedOnlyAfterDiscard' /\ QueueOK' /\ CallsMatchPushes'
  BY <1>1 DEF IInv, Timed, UndefinedOnlyAfterDiscard, QueueOK, CallsMatchPushes, queueVars, workVars, history
<1> QED
  BY <1>2, <1>4, <1>5, <1>6 DEF IInv

(* Every step keeps it. *)
LEMMA NextInv == IInv /\ [Next]_vars => IInv'
<1> SUFFICES ASSUME IInv, [Next]_vars PROVE IInv'
  OBVIOUS
<1>1. ASSUME NEW c \in Callers, Execute(c) PROVE IInv'
  <2>1. CASE ExecuteRefused(c)
    BY <2>1 DEF ExecuteRefused, IInv, TypeOK, Pushing, Swapping, Timed, QueueOK, NoEarlyRun,
      UndefinedOnlyAfterDiscard, CallsMatchPushes, vars, queueVars, workVars, callVars, ownerVars, history
  <2> QED
    BY <1>1, <2>1, ExecuteLockInv, ExecutePushInv, ExecuteNotifyInv DEF Execute
<1>2. CASE UNCHANGED vars
  BY <1>2 DEF IInv, TypeOK, Pushing, Swapping, Timed, QueueOK, NoEarlyRun,
    UndefinedOnlyAfterDiscard, CallsMatchPushes, vars, queueVars, workVars, callVars, ownerVars, history
<1> QED
  BY <1>1, <1>2, RunLoopInv, OwnerInv, TickInv DEF Next

(* It holds for ever. *)
LEMMA Invariant == Spec => []IInv
<1> QED
  BY InitInv, NextInv, PTL DEF Spec
-----------------------------------------------------------------------------
(* Every variable of Scheduler keeps its type: what is run and popped is an item. *)
THEOREM TypeCorrect == Spec => []TypeOK
<1>1. IInv => TypeOK
  BY DEF IInv
<1> QED
  BY <1>1, Invariant, PTL

(* No function is called before its time, whatever the delays and the wake-ups. *)
THEOREM NoEarlyRunHolds == Spec => []NoEarlyRun
<1>1. IInv => NoEarlyRun
  BY DEF IInv
<1> QED
  BY <1>1, Invariant, PTL

(* Calls and pushes stay one to one until a shutdown discards the queue, though the item *)
(* popped need not be the one called.                                                  *)
THEOREM CallsMatchPushesHolds == Spec => []CallsMatchPushes
<1>1. IInv => CallsMatchPushes
  BY DEF IInv
<1> QED
  BY <1>1, Invariant, PTL

(* pop() meets an empty queue only if a shutdown discarded it during the wait. *)
THEOREM UndefinedOnlyAfterDiscardHolds == Spec => []UndefinedOnlyAfterDiscard
<1>1. IInv => UndefinedOnlyAfterDiscard
  BY DEF IInv
<1> QED
  BY <1>1, Invariant, PTL

(* Whatever the delays and shutdowns: nothing runs before its time unless an item was    *)
(* called twice, calls and pops account for the pushes, and pop() meets an empty queue   *)
(* only after a discarding shutdown.                                                     *)
THEOREM SafetyHolds == Spec => []Safety
  BY NoEarlyRunHolds, CallsMatchPushesHolds, UndefinedOnlyAfterDiscardHolds, PTL DEF Safety
-----------------------------------------------------------------------------
(* All delays are one delay, once the negative ones are 0. *)
SameDelay == \A d, e \in Delays : ClampedDelay(d) = ClampedDelay(e)

TopFirst(q) == ~IsEmpty(q) => \A y \in q.rest : q.top.time <= y.time

(* What nobody is pushing, or can be pushing later, after a discarding shutdown *)
Discarded == IsEmpty(executable_queue) /\ shutdowns > 0 /\ \A c \in Callers : call[c] # "push"

(* With one delay no item pushed during the wait is due before the copy that run_loop     *)
(* waits for, so the copy is still the top when the wait is over.                         *)
SameInv ==
  /\ \A x \in pushed : \A e \in Delays : x.time <= now + ClampedDelay(e)
  /\ \A c \in Callers : call[c] = "push" => \E e \in Delays : arg[c].delay = ClampedDelay(e)
  /\ TopFirst(executable_queue)
  /\ pc \in {"timed", "timedWoken"} => IsEmpty(executable_queue) \/ executable = executable_queue.top
  /\ pc = "run" => executable \in Items
  /\ is_active <=> shutdowns = 0
  /\ owner # "idle" \/ pc = "empty" => shutdowns > 0
  /\ swept => Discarded

(* A push keeps an earliest item on top, and the same one if it is due no later. *)
LEMMA PushKeepsTop ==
  ASSUME NEW q \in Queues, NEW x \in Items, TopFirst(q)
  PROVE  /\ TopFirst(Pushed(q, x))
         /\ ~IsEmpty(q) /\ q.top.time <= x.time => Pushed(q, x).top = q.top
<1>1. x.time \in Int
  BY ItemTypes
<1>2. CASE IsEmpty(q)
  BY <1>2 DEF Pushed, TopFirst
<1>3. CASE ~IsEmpty(q)
  <2>1. /\ q \in [top : Items, rest : SUBSET Items] /\ q.top.time \in Int
        /\ \A y \in q.rest : q.top.time <= y.time /\ y.time \in Int
    BY <1>3, QueueTypes, ItemTypes DEF TopFirst
  <2>2. CASE x.time < q.top.time
    <3>1. Pushed(q, x) = [top |-> x, rest |-> q.rest \cup {q.top}]
      BY <1>3, <2>2 DEF Pushed
    <3>2. \A y \in q.rest \cup {q.top} : x.time <= y.time
      BY <1>1, <2>1, <2>2
    <3> QED
      BY <1>1, <2>1, <2>2, <3>1, <3>2 DEF TopFirst
  <2>3. CASE ~(x.time < q.top.time)
    <3>1. Pushed(q, x) = [top |-> q.top, rest |-> q.rest \cup {x}]
      BY <1>3, <2>1, <2>3 DEF Pushed
    <3>2. \A y \in q.rest \cup {x} : q.top.time <= y.time
      BY <1>1, <2>1, <2>3
    <3> QED
      BY <3>1, <3>2 DEF TopFirst
  <2> QED
    BY <2>2, <2>3
<1> QED
  BY <1>2, <1>3

(* A pop brings up an earliest item. *)
LEMMA PopKeepsTop ==
  ASSUME NEW q \in Queues, ~IsEmpty(q), TopFirst(q), NEW r \in Popped(q)
  PROVE  /\ TopFirst(r)
         /\ \A y \in Contents(q) : q.top.time <= y.time
<1>1. q.top.time \in Int
  BY QueueTypes, ItemTypes
<1>2. \A y \in Contents(q) : q.top.time <= y.time
  BY <1>1 DEF TopFirst, Contents
<1>3. TopFirst(r)
  BY DEF Popped, TopFirst, IsEmpty
<1> QED
  BY <1>2, <1>3

(* It holds at first. *)
LEMMA InitSame == Init => SameInv
BY DEF Init, SameInv, TopFirst, Discarded, IsEmpty

(* The item pushed is due a delay from now, and so no earlier than any other. *)
LEMMA PushSame ==
  ASSUME SameDelay, IInv, SameInv, NEW c \in Callers, ExecutePush(c)
  PROVE  SameInv'
<1> DEFINE q == executable_queue
           x == [func |-> arg[c].func, time |-> now + arg[c].delay]
<1>1. /\ call[c] = "push" /\ holder = c /\ arg[c] \in Args /\ now \in 0..MaxTime
      /\ now + arg[c].delay <= MaxTime
  BY DEF ExecutePush, IInv, Pushing, TypeOK
<1>2. x \in Items
  BY <1>1, SchedulerAssumption DEF Args, Items
<1>3. q \in Queues /\ TopFirst(q)
  BY DEF IInv, TypeOK, Queues, SameInv
<1>4. \A e \in Delays : arg[c].delay = ClampedDelay(e)
  BY <1>1 DEF SameInv, SameDelay
<1>5. /\ executable_queue' = Pushed(q, x) /\ pushed' = pushed \cup {x}
      /\ call' = [call EXCEPT ![c] = IF arg[c].need_notify THEN "notify" ELSE "idle"]
      /\ UNCHANGED <<now, is_active, workVars, arg, ownerVars, swept>>
  BY DEF ExecutePush
<1>6. \A e \in Callers : call'[e] = "push" => call[e] = "push"
  BY <1>5 DEF IInv, TypeOK
<1>7. ~swept
  BY <1>1 DEF SameInv, Discarded
<1>8. \A y \in pushed' : \A e \in Delays : y.time <= now' + ClampedDelay(e)
  <2>1. \A e \in Delays : x.time <= now + ClampedDelay(e)
    BY <1>1, <1>4 DEF Args
  <2> HIDE DEF x
  <2> QED
    BY <1>5, <2>1 DEF SameInv
<1>9. TopFirst(executable_queue')
  BY <1>2, <1>3, <1>5, PushKeepsTop
<1>10. pc \in {"timed", "timedWoken"} => executable = Pushed(q, x).top
  <2> SUFFICES ASSUME pc \in {"timed", "timedWoken"} PROVE executable = Pushed(q, x).top
    OBVIOUS
  <2>1. ~IsEmpty(q) /\ executable = q.top
    BY <1>7 DEF IInv, Timed, SameInv
  <2>2. q.top \in pushed
    BY <2>1 DEF IInv, QueueOK, Contents
  <2>3. q.top.time <= x.time
    <3>1. PICK e \in Delays : arg[c].delay = ClampedDelay(e)
      BY <1>1 DEF SameInv
    <3> QED
      BY <2>2, <3>1 DEF SameInv
  <2> QED
    BY <1>2, <1>3, <2>1, <2>3, PushKeepsTop
<1> HIDE DEF q, x
<1> QED
  BY <1>5, <1>6, <1>7, <1>8, <1>9, <1>10 DEF SameInv, workVars, ownerVars

(* A step that takes the top off and calls it. *)
LEMMA CallSame ==
  ASSUME IInv, SameInv, ~IsEmpty(executable_queue), PopAndRun(executable_queue.top),
         executable' = executable_queue.top,
         UNCHANGED <<now, is_active, holder, callVars, ownerVars, pushed, early, swept, raced>>
  PROVE  SameInv'
<1>1. executable_queue \in Queues /\ TopFirst(executable_queue)
  BY DEF IInv, TypeOK, Queues, SameInv
<1>2. TopFirst(executable_queue') /\ pc' = "run" /\ executable_queue.top \in Items
  BY <1>1, PopKeepsTop, QueueTypes DEF PopAndRun
<1>3. ~swept
  BY DEF SameInv, Discarded
<1> QED
  BY <1>2, <1>3 DEF SameInv, callVars, ownerVars

(* Every step of run_loop keeps it: the item called is the top. *)
LEMMA RunLoopSame == IInv /\ SameInv /\ (RunLoop \/ SpuriousWake) => SameInv'
<1> SUFFICES ASSUME IInv, SameInv, RunLoop \/ SpuriousWake PROVE SameInv'
  OBVIOUS
<1>1. ASSUME UNCHANGED <<now, queueVars, callVars, ownerVars, history>>,
             pc' \in {"timed", "timedWoken"} =>
               IsEmpty(executable_queue) \/ executable' = executable_queue.top,
             pc' = "run" => executable' \in Items,
             pc' = "empty" => ~is_active
      PROVE  SameInv'
  <2>1. shutdowns \in 0..MaxShutdowns
    BY DEF IInv, TypeOK
  <2>2. pc' = "empty" => shutdowns > 0
    BY <1>1, <2>1, SchedulerAssumption DEF SameInv
  <2> QED
    BY <1>1, <2>2 DEF SameInv, Discarded, queueVars, callVars, ownerVars, history
<1>2. CASE TopIsDue
  BY <1>2, CallSame DEF TopIsDue
<1>3. CASE TimedOut
  BY <1>3, CallSame DEF TimedOut, SameInv
<1>4. CASE SpuriousWake
  BY <1>1, <1>4, NotifyMoves DEF SpuriousWake, Notify, SameInv
<1>5. CASE ReadActive \/ ReadEmpty \/ LockAndWait \/ WokenContinue
  BY <1>1, <1>5 DEF ReadActive, ReadEmpty, LockAndWait, WokenContinue
<1>6. CASE TopIsLater \/ TimedContinue \/ TimedOutOnEmpty \/ WaitExpires \/ FuncReturns
  BY <1>1, <1>6 DEF TopIsLater, TimedContinue, TimedOutOnEmpty, WaitExpires, FuncReturns, SameInv
<1> QED
  BY <1>2, <1>3, <1>4, <1>5, <1>6 DEF RunLoop

(* shutdown() and join() *)
LEMMA OwnerSame == IInv /\ SameInv /\ OwnerStep => SameInv'
<1> SUFFICES ASSUME IInv, SameInv, OwnerStep PROVE SameInv'
  OBVIOUS
<1>a. shutdowns \in Nat
  BY DEF IInv, TypeOK
<1>1. ASSUME NEW wait \in BOOLEAN, Shutdown(wait) PROVE SameInv'
  <2>1. shutdowns' = shutdowns + 1 /\ is_active' = FALSE
        /\ UNCHANGED <<now, executable_queue, holder, workVars, callVars, history>>
    BY <1>1 DEF Shutdown
  <2>2. shutdowns' > 0 /\ shutdowns' # 0
    BY <1>a, <2>1
  <2>3. Discarded => Discarded'
    BY <2>1, <2>2 DEF Discarded, callVars
  <2> QED
    BY <2>1, <2>2, <2>3 DEF SameInv, workVars, callVars, history
<1>2. CASE SwapBegin \/ Join \/ JoinReturns
  BY <1>a, <1>2 DEF SwapBegin, Join, JoinReturns, SameInv, Discarded, queueVars, workVars, callVars, history
<1>3. CASE SwapEnd
  <2>1. \A c \in Callers : call[c] # "push"
    BY <1>3, SchedulerAssumption DEF SwapEnd, IInv, Pushing, Swapping, Callers
  <2>2. shutdowns > 0
    BY <1>3 DEF SwapEnd, SameInv
  <2>3. IsEmpty(executable_queue')
    BY <1>3 DEF SwapEnd, IsEmpty
  <2>4. TopFirst(executable_queue')
    BY <2>3 DEF TopFirst
  <2> QED
    BY <1>3, <2>1, <2>2, <2>3, <2>4 DEF SwapEnd, SameInv, Discarded, workVars, callVars
<1>4. CASE ShutdownNotify
  <2>1. Notify /\ owner' = "idle" /\ shutdowns > 0
        /\ UNCHANGED <<now, queueVars, executable, callVars, shutdowns, pushed, swept>>
    BY <1>4 DEF ShutdownNotify, SameInv
  <2>2. pc' = "empty" => pc = "empty"
    BY <2>1 DEF Notify
  <2> QED
    BY <2>1, <2>2, NotifyMoves DEF SameInv, Discarded, queueVars, callVars
<1> QED
  BY <1>1, <1>2, <1>3, <1>4 DEF OwnerStep

(* Every step keeps SameInv. *)
LEMMA NextSame == ASSUME SameDelay PROVE IInv /\ SameInv /\ [Next]_vars => SameInv'
<1> SUFFICES ASSUME IInv, SameInv, [Next]_vars PROVE SameInv'
  OBVIOUS
<1>1. ASSUME NEW c \in Callers, NEW f \in Funcs, NEW d \in Delays, ExecuteLock(c, f, d) PROVE SameInv'
  <2>1. /\ is_active
        /\ \A e \in Callers : e # c => call'[e] = call[e] /\ arg'[e] = arg[e]
        /\ arg'[c].delay = ClampedDelay(d)
        /\ UNCHANGED <<now, is_active, executable_queue, workVars, ownerVars, history>>
    BY <1>1 DEF ExecuteLock, IInv, TypeOK
  <2>2. \A e \in Callers : call'[e] = "push" => \E g \in Delays : arg'[e].delay = ClampedDelay(g)
    BY <2>1 DEF SameInv
  <2>3. ~swept
    BY <2>1 DEF SameInv, Discarded
  <2> QED
    BY <2>1, <2>2, <2>3 DEF SameInv, workVars, ownerVars, history
<1>2. ASSUME NEW c \in Callers, ExecuteNotify(c) PROVE SameInv'
  <2>1. /\ Notify /\ \A e \in Callers : call'[e] = "push" => call[e] = "push"
        /\ UNCHANGED <<now, queueVars, executable, arg, ownerVars, pushed, swept>>
    BY <1>2 DEF ExecuteNotify, IInv, TypeOK
  <2>2. pc' = "empty" => pc = "empty"
    BY <2>1 DEF Notify
  <2> QED
    BY <2>1, <2>2, NotifyMoves DEF SameInv, Discarded, queueVars, ownerVars
<1>3. CASE Tick
  <2>1. now' = now + 1 /\ now \in Int /\ UNCHANGED <<queueVars, workVars, callVars, ownerVars, history>>
    BY <1>3 DEF Tick, IInv, TypeOK
  <2>2. ASSUME NEW x \in pushed, NEW e \in Delays PROVE x.time <= now' + ClampedDelay(e)
    <3>1. x.time \in Int /\ ClampedDelay(e) \in Int /\ x.time <= now + ClampedDelay(e)
      BY ItemTypes, SchedulerAssumption DEF IInv, TypeOK, ClampedDelay, SameInv
    <3> QED
      BY <2>1, <3>1
  <2> QED
    BY <2>1, <2>2 DEF SameInv, Discarded, queueVars, workVars, callVars, ownerVars, history
<1>4. ASSUME NEW c \in Callers, Execute(c) PROVE SameInv'
  <2>1. CASE ExecuteRefused(c)
    BY <2>1 DEF ExecuteRefused, SameInv, Discarded, vars, queueVars, workVars, callVars, ownerVars, history
  <2> QED
    BY <1>1, <1>2, <1>4, <2>1, PushSame DEF Execute
<1>5. CASE UNCHANGED vars
  BY <1>5 DEF SameInv, Discarded, vars, queueVars, workVars, callVars, ownerVars, history
<1> QED
  BY <1>3, <1>4, <1>5, RunLoopSame, OwnerSame DEF Next

(* It holds for ever, whatever the one delay is. *)
LEMMA SameInvariant == ASSUME SameDelay PROVE Spec => []SameInv
<1>1. IInv /\ SameInv /\ [Next]_vars => SameInv'
  BY NextSame
<1> QED
  BY <1>1, InitSame, Invariant, PTL DEF Spec
-----------------------------------------------------------------------------
(* The abstract executor's items and the item it runs *)
items   == IF owner = "swap" THEN {} ELSE Contents(executable_queue)
current == IF pc = "run" THEN executable ELSE NoItem

(* The step that calls the top is the abstract Start: no item is due before it. *)
LEMMA CallStarts ==
  ASSUME IInv, SameInv, ~IsEmpty(executable_queue), PopAndRun(executable_queue.top),
         pc \notin {"run", "exited"}, holder = None, executable_queue.top.time <= now,
         executable' = executable_queue.top,
         UNCHANGED <<now, ownerVars, swept>>
  PROVE  Abstract!Next
<1> DEFINE x == executable_queue.top
           gone == swept \/ owner = "swap"
           left == pc = "exited"
           up   == shutdowns = 0
<1>1. executable_queue \in Queues /\ TopFirst(executable_queue) /\ Distinct(executable_queue)
  BY DEF IInv, TypeOK, Queues, SameInv, QueueOK
<1>2. /\ x \in Items /\ x \in Contents(executable_queue)
      /\ Contents(executable_queue') = Contents(executable_queue) \ {x}
      /\ \A y \in Contents(executable_queue) : x.time <= y.time
  BY <1>1, PopKeepsTop, PoppedQueue, QueueTypes DEF PopAndRun
<1>3. owner # "swap"
  BY SchedulerAssumption DEF IInv, Swapping
<1>4. items = Contents(executable_queue) /\ items' = items \ {x} /\ current = NoItem /\ current' = x
  BY <1>2, <1>3 DEF items, current, PopAndRun, ownerVars
<1>5. UNCHANGED <<now, gone, left, up>> /\ ~left
  BY DEF PopAndRun, ownerVars
<1>a. x \in items /\ \A y \in items : x.time <= y.time
  BY <1>2, <1>4
<1> HIDE DEF x
<1>6. Abstract!Start(x)
  BY <1>4, <1>5, <1>a DEF Abstract!Start, items, current, x
<1> QED
  BY <1>2, <1>6 DEF Abstract!Next

(* With one delay the worker keeps the promise of the abstract executor: each item once,  *)
(* in the order of the scheduled times, never early, and none after a discard.            *)
THEOREM Refinement == ASSUME SameDelay PROVE Spec => ImplementsDelayedExecutor
<1>1. Init => Abstract!Init
  BY DEF Init, Abstract!Init, Contents, IsEmpty
<1>2. IInv /\ IInv' /\ SameInv /\ [Next]_vars => [Abstract!Next]_(Abstract!vars)
  <2> SUFFICES ASSUME IInv, IInv', SameInv, [Next]_vars
               PROVE  Abstract!Next \/ UNCHANGED Abstract!vars
    OBVIOUS
  <2> DEFINE gone == swept \/ owner = "swap"
             left == pc = "exited"
             up   == shutdowns = 0
  <2>1. ASSUME UNCHANGED <<items, current, now, gone, left, up>> PROVE UNCHANGED Abstract!vars
    BY <2>1 DEF Abstract!vars, items, current
  <2>2. ASSUME UNCHANGED <<executable_queue, executable, now, ownerVars, swept>>,
               (pc = "run" \/ pc' = "run") => pc' = pc, (pc = "exited" \/ pc' = "exited") => pc' = pc
        PROVE  UNCHANGED Abstract!vars
    <3>1. UNCHANGED <<items, current, gone, left, up>>
      BY <2>2 DEF items, current, ownerVars
    <3> QED
      BY <2>1, <2>2, <3>1
  <2>3. ASSUME NEW c \in Callers, Execute(c) PROVE Abstract!Next \/ UNCHANGED Abstract!vars
    <3>1. ASSUME NEW f \in Funcs, NEW d \in Delays, ExecuteLock(c, f, d) PROVE UNCHANGED Abstract!vars
      BY <2>2, <3>1 DEF ExecuteLock, workVars, history
    <3>2. CASE ExecuteRefused(c)
      BY <2>2, <3>2 DEF ExecuteRefused, vars, queueVars, workVars, history
    <3>3. CASE ExecuteNotify(c)
      BY <2>2, <3>3 DEF ExecuteNotify, Notify, queueVars
    <3>4. CASE ExecutePush(c)
      <4> DEFINE q == executable_queue
                 x == [func |-> arg[c].func, time |-> now + arg[c].delay]
      <4>1. /\ call[c] = "push" /\ holder = c /\ arg[c] \in Args /\ now \in 0..MaxTime
            /\ now + arg[c].delay <= MaxTime
            /\ \A y \in pushed : y.func # arg[c].func
        BY <3>4 DEF ExecutePush, IInv, Pushing, TypeOK
      <4>2. x \in Items /\ x.time >= now /\ x \notin pushed
        BY <4>1, SchedulerAssumption DEF Args, Items
      <4>3. q \in Queues /\ Distinct(q) /\ x \notin Contents(q)
        BY <4>2 DEF IInv, TypeOK, Queues, QueueOK
      <4>4. executable_queue' = Pushed(q, x) /\ UNCHANGED <<now, workVars, ownerVars, swept>>
        BY <3>4 DEF ExecutePush
      <4> HIDE DEF x
      <4>5. Contents(q') = Contents(q) \cup {x}
        BY <4>2, <4>3, <4>4, PushedQueue
      <4>6. ~swept /\ owner # "swap"
        BY <4>1, SchedulerAssumption DEF SameInv, Discarded, IInv, Swapping, Callers
      <4>7. items = Contents(q) /\ items' = Contents(q) \cup {x}
        BY <4>4, <4>5, <4>6 DEF items, ownerVars
      <4>8. UNCHANGED <<current, now, gone, left, up>>
        BY <4>4 DEF current, workVars, ownerVars
      <4>9. Abstract!Accept(x)
        BY <4>2, <4>3, <4>6, <4>7, <4>8 DEF Abstract!Accept, items, current
      <4> QED
        BY <4>2, <4>9 DEF Abstract!Next
    <3> QED
      BY <2>3, <3>1, <3>2, <3>3, <3>4 DEF Execute
  <2>4. CASE RunLoop
    <3>1. CASE ReadActive \/ LockAndWait \/ WokenContinue \/ TopIsLater \/ TimedContinue
               \/ TimedOutOnEmpty \/ WaitExpires
      <4>1. /\ UNCHANGED <<executable_queue, now, ownerVars, swept>>
            /\ pc \notin {"run", "exited"} /\ pc' \notin {"run", "exited"}
        BY <3>1 DEF ReadActive, LockAndWait, WokenContinue, TopIsLater, TimedContinue,
                    TimedOutOnEmpty, WaitExpires, queueVars, history
      <4>2. UNCHANGED <<items, current, gone, left, up>>
        BY <4>1 DEF items, current, ownerVars
      <4> QED
        BY <2>1, <4>1, <4>2
    <3>2. CASE ReadEmpty
      <4>1. /\ pc = "empty" /\ UNCHANGED <<now, queueVars, executable, ownerVars, history>>
            /\ shutdowns > 0
        BY <3>2 DEF ReadEmpty, SameInv
      <4>2. CASE pc' = "exited"
        <5>1. items = {} /\ current = NoItem
          BY <3>2, <4>1, <4>2 DEF ReadEmpty, items, current, Contents
        <5>2. UNCHANGED <<items, current, now, gone, up>> /\ ~up
          BY <4>1, <4>2 DEF items, current, queueVars, ownerVars, history
        <5>3. Abstract!Exit
          BY <4>2, <5>1, <5>2 DEF Abstract!Exit, items, current
        <5> QED
          BY <5>3 DEF Abstract!Next
      <4>3. CASE pc' # "exited"
        <5>1. pc' = "lock"
          BY <3>2, <4>3 DEF ReadEmpty
        <5> QED
          BY <2>2, <4>1, <5>1 DEF queueVars, history
      <4> QED
        BY <4>2, <4>3
    <3>3. CASE TopIsDue
      <4>1. executable_queue.top.time \in Int /\ now \in Int
        BY <3>3, QueueTypes, ItemTypes DEF TopIsDue, IInv, TypeOK, Queues
      <4>2. executable_queue.top.time <= now
        BY <3>3, <4>1 DEF TopIsDue, Delay
      <4> QED
        BY <3>3, <4>2, CallStarts DEF TopIsDue
    <3>4. CASE TimedOut
      <4>1. executable = executable_queue.top
        BY <3>4 DEF TimedOut, SameInv
      <4>2. executable.time \in Int /\ now \in Int
        BY <3>4, ItemTypes DEF TimedOut, IInv, Timed, TypeOK
      <4>3. executable_queue.top.time <= now
        BY <3>4, <4>1, <4>2 DEF TimedOut
      <4> QED
        BY <3>4, <4>1, <4>3, CallStarts DEF TimedOut
    <3>5. CASE FuncReturns
      <4>1. current \in Items /\ current' = NoItem
        BY <3>5 DEF FuncReturns, SameInv, current
      <4>2. UNCHANGED <<items, now, gone, left, up>>
        BY <3>5 DEF FuncReturns, items, queueVars, ownerVars, history
      <4>3. Abstract!Finish
        BY <4>1, <4>2, ItemTypes DEF Abstract!Finish, items, current
      <4> QED
        BY <4>3 DEF Abstract!Next
    <3> QED
      BY <2>4, <3>1, <3>2, <3>3, <3>4, <3>5 DEF RunLoop
  <2>5. CASE SpuriousWake
    BY <2>2, <2>5 DEF SpuriousWake, Notify, queueVars, history
  <2>6. CASE OwnerStep
    <3>1. ASSUME NEW wait \in BOOLEAN, Shutdown(wait) PROVE Abstract!Next
      <4>1. /\ owner = "idle" /\ owner' # "swap" /\ shutdowns' = shutdowns + 1 /\ shutdowns \in Nat
            /\ UNCHANGED <<now, executable_queue, workVars, history>>
        BY <3>1 DEF Shutdown, IInv, TypeOK
      <4>2. UNCHANGED <<items, current, now, gone, left>> /\ up' = FALSE
        BY <4>1 DEF items, current, workVars, history
      <4>3. Abstract!Close
        BY <4>2 DEF Abstract!Close, items, current
      <4> QED
        BY <4>3 DEF Abstract!Next
    <3>2. CASE SwapBegin
      <4>1. ~up /\ owner' = "swap" /\ UNCHANGED <<now, workVars, shutdowns>>
        BY <3>2 DEF SwapBegin, SameInv
      <4>2. items' = {} /\ gone' = TRUE /\ UNCHANGED <<current, now, left, up>>
        BY <4>1 DEF items, current, workVars
      <4>3. Abstract!Discard
        BY <4>1, <4>2 DEF Abstract!Discard, items, current
      <4> QED
        BY <4>3 DEF Abstract!Next
    <3>3. CASE SwapEnd
      <4>1. owner = "swap" /\ executable_queue' = EmptyQueue /\ swept' = TRUE
            /\ UNCHANGED <<now, workVars, shutdowns>> /\ owner' # "swap"
        BY <3>3 DEF SwapEnd
      <4>2. UNCHANGED <<items, current, now, left, up>> /\ gone' = gone
        BY <4>1 DEF items, current, workVars, Contents, IsEmpty
      <4> QED
        BY <2>1, <4>2
    <3>4. CASE ShutdownNotify
      <4>1. /\ Notify /\ owner = "notify" /\ owner' = "idle"
            /\ UNCHANGED <<now, queueVars, executable, shutdowns, swept>>
        BY <3>4 DEF ShutdownNotify
      <4>2. (pc' = "run" <=> pc = "run") /\ (pc' = "exited" <=> pc = "exited")
        BY <4>1 DEF Notify
      <4>3. UNCHANGED <<items, current, now, gone, left, up>>
        BY <4>1, <4>2 DEF items, current, queueVars
      <4> QED
        BY <2>1, <4>3
    <3>5. CASE Join \/ JoinReturns
      <4>1. /\ owner # "swap" /\ owner' # "swap"
            /\ UNCHANGED <<now, queueVars, workVars, shutdowns, history>>
        BY <3>5 DEF Join, JoinReturns
      <4>2. UNCHANGED <<items, current, now, gone, left, up>>
        BY <4>1 DEF items, current, queueVars, workVars, history
      <4> QED
        BY <2>1, <4>2
    <3> QED
      BY <2>6, <3>1, <3>2, <3>3, <3>4, <3>5 DEF OwnerStep
  <2>7. CASE Tick
    <3>1. now' = now + 1 /\ UNCHANGED <<items, current, gone, left, up>>
      BY <2>7 DEF Tick, items, current, queueVars, workVars, ownerVars, history
    <3>2. Abstract!Tick
      BY <3>1 DEF Abstract!Tick, items, current
    <3> QED
      BY <3>2 DEF Abstract!Next
  <2>8. CASE UNCHANGED vars
    BY <2>2, <2>8 DEF vars, queueVars, workVars, history
  <2> QED
    BY <2>3, <2>4, <2>5, <2>6, <2>7, <2>8 DEF Next
<1>3. Spec => []SameInv
  BY SameInvariant
<1> QED
  BY <1>1, <1>2, <1>3, Invariant, PTL DEF Spec, ImplementsDelayedExecutor, Abstract!Spec
=============================================================================
