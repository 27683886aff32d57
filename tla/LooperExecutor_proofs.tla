----------------------- MODULE LooperExecutor_proofs ------------------------
(* Theorems about LooperExecutor for every set of clients and functions and     *)
(* every number of shutdowns.                                                    *)
EXTENDS LooperExecutor, SequenceTheorems, TLAPS

(* TypeOK alone is not inductive: ExecutePush appends arg[c]. *)
ArgOK == \A c \in Callers : call[c] # "idle" => arg[c] \in Funcs
TypeInv == TypeOK /\ ArgOK

(* Type correctness, at every step: a call past its first test has an argument. *)
LEMMA TypeInvariant == Spec => []TypeInv
<1>1. Init => TypeInv
  <2> SUFFICES ASSUME Init PROVE TypeInv
    OBVIOUS
  <2>1. /\ is_active \in BOOLEAN /\ joinable \in BOOLEAN /\ swept \in BOOLEAN
        /\ executable_queue \in Seq(Funcs) /\ order \in Seq(Funcs) /\ started \in Seq(Funcs)
        /\ early \subseteq Funcs
    BY EmptySeq DEF Init
  <2>2. /\ call \in [Callers -> {"idle", "push", "notify"}]
        /\ arg \in [Callers -> Funcs \cup {None}]
        /\ ArgOK
    BY DEF Init, ArgOK
  <2>3. shutdowns \in 0..MaxShutdowns
    BY LooperAssumption DEF Init
  <2> QED
    BY <2>1, <2>2, <2>3 DEF Init, TypeInv, TypeOK
<1>2. TypeInv /\ [Next]_vars => TypeInv'
  <2> SUFFICES ASSUME TypeInv, [Next]_vars PROVE TypeInv'
    OBVIOUS
  <2> USE LooperAssumption DEF TypeInv, TypeOK, ArgOK, queueVars, workVars, callVars, ownerVars, history
  <2>1. CASE UNCHANGED vars
    BY <2>1 DEF vars
  <2>2. ASSUME NEW c \in Callers, NEW f \in Funcs, ExecuteLock(c, f) PROVE TypeInv'
    BY <2>2 DEF ExecuteLock
  <2>3. ASSUME NEW c \in Callers, ExecuteRefused(c) PROVE TypeInv'
    BY <2>3 DEF ExecuteRefused, vars
  <2>4. ASSUME NEW c \in Callers, ExecutePush(c) PROVE TypeInv'
    BY <2>4 DEF ExecutePush
  <2>5. ASSUME NEW c \in Callers, ExecuteNotify(c) PROVE TypeInv'
    BY <2>5 DEF ExecuteNotify, Notify
  <2>6. CASE ReadActive
    BY <2>6 DEF ReadActive
  <2>7. CASE ReadEmpty
    BY <2>7 DEF ReadEmpty
  <2>8. CASE TakeFront
    <3>1. /\ Head(executable_queue) \in Funcs
          /\ Tail(executable_queue) \in Seq(Funcs)
      BY <2>8, HeadTailProperties DEF TakeFront
    <3>2. started' \in Seq(Funcs)
      BY <2>8, <3>1, AppendProperties DEF TakeFront
    <3> QED
      BY <2>8, <3>1, <3>2 DEF TakeFront
  <2>9. CASE LockAndWait \/ WokenContinue \/ SpuriousWake
    BY <2>9 DEF LockAndWait, WokenContinue, SpuriousWake
  <2>10. CASE FuncReturns
    BY <2>10 DEF FuncReturns
  <2>11. ASSUME NEW wait \in BOOLEAN, Shutdown(wait) PROVE TypeInv'
    <3>1. shutdowns' \in 0..MaxShutdowns
      BY <2>11 DEF Shutdown
    <3>2. owner' \in {"notify", "lock"}
      BY <2>11 DEF Shutdown
    <3> QED
      BY <2>11, <3>1, <3>2 DEF Shutdown
  <2>12. CASE SwapBegin \/ ShutdownNotify
    BY <2>12 DEF SwapBegin, ShutdownNotify, Notify
  <2>14. CASE SwapEnd
    BY <2>14, EmptySeq DEF SwapEnd
  <2>13. CASE Join \/ JoinReturns
    BY <2>13 DEF Join, JoinReturns
  <2> QED
    BY <2>1, <2>2, <2>3, <2>4, <2>5, <2>6, <2>7, <2>8, <2>9, <2>10, <2>11, <2>12, <2>13, <2>14
    DEF Next, RunLoop, LockAndTake, WokenTake, Execute, OwnerStep
<1> QED
  BY <1>1, <1>2, PTL DEF Spec

(* Every variable of LooperExecutor keeps its type. *)
THEOREM TypeCorrect == Spec => []TypeOK
<1>1. TypeInv => TypeOK
  BY DEF TypeInv
<1> QED
  BY <1>1, TypeInvariant, PTL
-----------------------------------------------------------------------------
(* Who holds queue_lock is decided by where the threads are, and the owner has  *)
(* stored is_active before it goes anywhere else.                               *)
LockInv ==
  /\ \A c \in Callers : call[c] = "push" <=> holder = c
  /\ owner = "swap" <=> holder = Owner
  /\ is_active <=> shutdowns = 0
  /\ owner # "idle" => ~is_active

(* A sweep finds no execute() between its test and its push, and is_active is     *)
(* false by then.                                                               *)
SweepInv ==
  swept => /\ executable_queue = << >>
           /\ ~is_active
           /\ \A c \in Callers : call[c] # "push"

(* The lock discipline of execute() and shutdown() is an invariant. *)
LEMMA LockInvariant == Spec => []LockInv
<1>1. Init => LockInv
  BY LooperAssumption DEF Init, LockInv, Callers
<1>2. TypeInv /\ LockInv /\ [Next]_vars => LockInv'
  <2> SUFFICES ASSUME TypeInv, LockInv, [Next]_vars PROVE LockInv'
    OBVIOUS
  <2>a. None \notin Callers /\ Owner \notin Callers /\ None # Owner
    BY LooperAssumption DEF Callers
  <2>b. call \in [Callers -> {"idle", "push", "notify"}] /\ shutdowns \in Nat
    BY LooperAssumption DEF TypeInv, TypeOK
  <2> USE DEF LockInv, queueVars, workVars, callVars, ownerVars, history
  <2>1. CASE UNCHANGED vars
    BY <2>1 DEF vars
  <2>2. ASSUME NEW c \in Callers, NEW f \in Funcs, ExecuteLock(c, f) PROVE LockInv'
    BY <2>2, <2>a, <2>b DEF ExecuteLock, Idle
  <2>3. ASSUME NEW c \in Callers, ExecuteRefused(c) PROVE LockInv'
    BY <2>3 DEF ExecuteRefused, vars
  <2>4. ASSUME NEW c \in Callers, ExecutePush(c) PROVE LockInv'
    BY <2>4, <2>a, <2>b DEF ExecutePush
  <2>5. ASSUME NEW c \in Callers, ExecuteNotify(c) PROVE LockInv'
    BY <2>5, <2>b DEF ExecuteNotify
  <2>6. CASE RunLoop \/ SpuriousWake
    BY <2>6 DEF RunLoop, ReadActive, ReadEmpty, LockAndWait, LockAndTake, WokenContinue,
                WokenTake, TakeFront, SpuriousWake, FuncReturns
  <2>7. ASSUME NEW wait \in BOOLEAN, Shutdown(wait) PROVE LockInv'
    <3>1. /\ owner' \in {"notify", "lock"} /\ owner = "idle"
          /\ UNCHANGED <<holder, call>> /\ ~is_active'
          /\ shutdowns' = shutdowns + 1
      BY <2>7 DEF Shutdown
    <3> QED
      BY <3>1, <2>b
  <2>8. CASE SwapBegin \/ SwapEnd
    BY <2>8, <2>a DEF SwapBegin, SwapEnd
  <2>9. CASE ShutdownNotify \/ JoinReturns
    BY <2>9 DEF ShutdownNotify, JoinReturns
  <2>10. CASE Join
    BY <2>10, <2>b DEF Join
  <2> QED
    BY <2>1, <2>2, <2>3, <2>4, <2>5, <2>6, <2>7, <2>8, <2>9, <2>10 DEF Next, Execute, OwnerStep
<1> QED
  BY <1>1, <1>2, TypeInvariant, PTL DEF Spec

(* What a sweep leaves behind is an invariant. *)
LEMMA SweepInvariant == Spec => []SweepInv
<1>1. Init => SweepInv
  BY DEF Init, SweepInv
<1>2. LockInv /\ TypeInv /\ SweepInv /\ [Next]_vars => SweepInv'
  <2> SUFFICES ASSUME LockInv, TypeInv, SweepInv, [Next]_vars PROVE SweepInv'
    OBVIOUS
  <2>a. Owner \notin Callers
    BY LooperAssumption DEF Callers
  <2>b. call \in [Callers -> {"idle", "push", "notify"}]
    BY DEF TypeInv, TypeOK
  <2> USE DEF SweepInv, queueVars, workVars, callVars, ownerVars, history
  <2>1. CASE UNCHANGED vars
    BY <2>1 DEF vars
  <2>2. ASSUME NEW c \in Callers, NEW f \in Funcs, ExecuteLock(c, f) PROVE SweepInv'
    BY <2>2 DEF ExecuteLock
  <2>3. ASSUME NEW c \in Callers, ExecuteRefused(c) PROVE SweepInv'
    BY <2>3 DEF ExecuteRefused, vars
  <2>4. ASSUME NEW c \in Callers, ExecutePush(c) PROVE SweepInv'
    BY <2>4 DEF ExecutePush
  <2>5. ASSUME NEW c \in Callers, ExecuteNotify(c) PROVE SweepInv'
    BY <2>5, <2>b DEF ExecuteNotify
  <2>6. CASE TakeFront
    BY <2>6 DEF TakeFront
  <2>7. CASE ReadActive \/ ReadEmpty \/ LockAndWait \/ WokenContinue \/ SpuriousWake
             \/ FuncReturns
    BY <2>7 DEF ReadActive, ReadEmpty, LockAndWait, WokenContinue, SpuriousWake, FuncReturns
  <2>8. ASSUME NEW wait \in BOOLEAN, Shutdown(wait) PROVE SweepInv'
    BY <2>8 DEF Shutdown
  <2>9. CASE SwapEnd
    BY <2>9, <2>a DEF SwapEnd, LockInv
  <2>10. CASE SwapBegin \/ ShutdownNotify \/ Join \/ JoinReturns
    BY <2>10 DEF SwapBegin, ShutdownNotify, Join, JoinReturns
  <2> QED
    BY <2>1, <2>2, <2>3, <2>4, <2>5, <2>6, <2>7, <2>8, <2>9, <2>10
    DEF Next, RunLoop, LockAndTake, WokenTake, Execute, OwnerStep
<1> QED
  BY <1>1, <1>2, LockInvariant, TypeInvariant, PTL DEF Spec

(* After shutdown(false) has emptied the queue nothing gets into it. *)
THEOREM SweptStaysEmptyHolds == Spec => []SweptStaysEmpty
<1>1. SweepInv => SweptStaysEmpty
  BY DEF SweepInv, SweptStaysEmpty
<1> QED
  BY <1>1, SweepInvariant, PTL

(* No function starts once some shutdown(false) has swept the queue. *)
THEOREM NothingStartsAfterSweepHolds == Spec => NothingStartsAfterSweep
<1>1. SweepInv /\ [Next]_vars => [swept => started' = started]_vars
  <2> SUFFICES ASSUME SweepInv, Next, swept PROVE started' = started
    BY DEF vars, history
  <2>1. executable_queue = << >>
    BY DEF SweepInv
  <2> QED
    BY <2>1 DEF Next, RunLoop, Execute, OwnerStep, ExecuteLock, ExecuteRefused, ExecutePush,
      ExecuteNotify, ReadActive, ReadEmpty, LockAndWait, LockAndTake, WokenContinue,
      WokenTake, TakeFront, SpuriousWake, FuncReturns, Shutdown, SwapBegin, SwapEnd,
      ShutdownNotify, Join, JoinReturns, vars, history
<1> QED
  BY <1>1, SweepInvariant, PTL DEF Spec, NothingStartsAfterSweep
-----------------------------------------------------------------------------
(* Moving the head of a queue to the end of what was started keeps the sequence *)
(* of both.                                                                     *)
LEMMA MoveHead ==
  ASSUME NEW S, NEW s \in Seq(S), NEW q \in Seq(S), q # << >>
  PROVE  Append(s, Head(q)) \o Tail(q) = s \o q
<1>1. Head(q) \in S /\ Tail(q) \in Seq(S) /\ Head(q) = q[1]
  BY HeadTailProperties
<1>2. << Head(q) >> \in Seq(S)
  BY <1>1
<1>3. Len(q) \in Nat \ {0}
  BY EmptySeq
<1>4. q = << Head(q) >> \o Tail(q)
  <2>1. 1 \in 1..Len(q) /\ Len(q) \in 1..Len(q)
    BY <1>3
  <2>2. SubSeq(q, 1, Len(q)) = << q[1] >> \o SubSeq(q, 1 + 1, Len(q))
    BY <2>1, SubSeqRecursiveFirst
  <2>3. SubSeq(q, 1, Len(q)) = q
    BY SubSeqFull
  <2>4. Tail(q) = SubSeq(q, 2, Len(q))
    BY TailIsSubSeq
  <2> QED
    BY <1>1, <2>2, <2>3, <2>4
<1>5. Append(s, Head(q)) = s \o << Head(q) >>
  BY <1>1, AppendIsConcat
<1>6. (s \o << Head(q) >>) \o Tail(q) = s \o (<< Head(q) >> \o Tail(q))
  BY <1>1, <1>2, ConcatAssociative
<1> QED
  BY <1>4, <1>5, <1>6

(* Appending to the queue and to the order of the pushes keeps them in step. *)
LEMMA AppendBoth ==
  ASSUME NEW S, NEW s \in Seq(S), NEW q \in Seq(S), NEW f \in S
  PROVE  s \o Append(q, f) = Append(s \o q, f)
<1>1. << f >> \in Seq(S)
  OBVIOUS
<1>2. s \o q \in Seq(S)
  BY ConcatProperties
<1>3. Append(q, f) = q \o << f >> /\ Append(s \o q, f) = (s \o q) \o << f >>
  BY <1>2, AppendIsConcat
<1> QED
  BY <1>1, <1>3, ConcatAssociative

(* Until a sweep, every function pushed was started or is queued, once and in    *)
(* order.                                                                        *)
THEOREM FifoExactlyOnceHolds == Spec => []FifoExactlyOnce
<1>1. Init => FifoExactlyOnce
  <2>1. << >> \o << >> = << >>
    BY EmptySeq, ConcatEmptySeq
  <2> QED
    BY <2>1 DEF Init, FifoExactlyOnce
<1>2. TypeInv /\ SweepInv /\ FifoExactlyOnce /\ [Next]_vars => FifoExactlyOnce'
  <2> SUFFICES ASSUME TypeInv, SweepInv, FifoExactlyOnce, [Next]_vars
               PROVE FifoExactlyOnce'
    OBVIOUS
  <2>a. executable_queue \in Seq(Funcs) /\ started \in Seq(Funcs)
    BY DEF TypeInv, TypeOK
  <2> USE DEF FifoExactlyOnce, queueVars, workVars, callVars, ownerVars, history
  <2>1. CASE UNCHANGED vars
    BY <2>1 DEF vars
  <2>2. ASSUME NEW c \in Callers, ExecutePush(c) PROVE FifoExactlyOnce'
    <3>1. arg[c] \in Funcs
      BY <2>2 DEF ExecutePush, TypeInv, ArgOK
    <3>2. ~swept
      BY <2>2 DEF ExecutePush, SweepInv
    <3>3. started \o Append(executable_queue, arg[c])
            = Append(started \o executable_queue, arg[c])
      BY <2>a, <3>1, AppendBoth
    <3> QED
      BY <2>2, <3>2, <3>3 DEF ExecutePush
  <2>3. CASE TakeFront
    <3>1. ~swept
      BY <2>3 DEF TakeFront, SweepInv
    <3>2. started' \o executable_queue' = started \o executable_queue
      BY <2>3, <2>a, MoveHead DEF TakeFront
    <3> QED
      BY <2>3, <3>1, <3>2 DEF TakeFront
  <2>4. CASE SwapEnd
    BY <2>4 DEF SwapEnd
  <2>5. ASSUME NEW c \in Callers, NEW f \in Funcs, ExecuteLock(c, f) PROVE FifoExactlyOnce'
    BY <2>5 DEF ExecuteLock
  <2>6. ASSUME NEW c \in Callers, ExecuteRefused(c) \/ ExecuteNotify(c)
        PROVE FifoExactlyOnce'
    BY <2>6 DEF ExecuteRefused, ExecuteNotify, vars
  <2>7. CASE ReadActive \/ ReadEmpty \/ LockAndWait \/ WokenContinue \/ SpuriousWake
             \/ FuncReturns
    BY <2>7 DEF ReadActive, ReadEmpty, LockAndWait, WokenContinue, SpuriousWake, FuncReturns
  <2>8. ASSUME NEW wait \in BOOLEAN, Shutdown(wait) PROVE FifoExactlyOnce'
    BY <2>8 DEF Shutdown
  <2>9. CASE SwapBegin \/ ShutdownNotify \/ Join \/ JoinReturns
    BY <2>9 DEF SwapBegin, ShutdownNotify, Join, JoinReturns
  <2> QED
    BY <2>1, <2>2, <2>3, <2>4, <2>5, <2>6, <2>7, <2>8, <2>9
    DEF Next, RunLoop, LockAndTake, WokenTake, Execute, OwnerStep
<1> QED
  BY <1>1, <1>2, TypeInvariant, SweepInvariant, PTL DEF Spec
-----------------------------------------------------------------------------
(* Why the unlocked loop condition misses no function: run_loop reads the queue  *)
(* only after it has read is_active as false, nothing gets early after that, and *)
(* what is early was pushed.                                                     *)
DrainInv ==
  /\ pc \in {"empty", "exited"} => ~is_active
  /\ running # None <=> pc = "run"
  /\ early \subseteq Range(order)
  /\ \A c \in Callers : call[c] = "notify" => arg[c] \in Range(order)
  /\ pc = "exited" /\ NoDiscard => early \subseteq Range(started)

(* The range of a sequence grows by the value appended. *)
LEMMA RangeAppend ==
  ASSUME NEW S, NEW s \in Seq(S), NEW f \in S
  PROVE  Range(Append(s, f)) = Range(s) \cup {f}
<1>1. << f >> \in Seq(S)
  OBVIOUS
<1>2. Range(<< f >>) = {f}
  BY DEF Range
<1>3. Append(s, f) = s \o << f >>
  BY AppendIsConcat
<1> DEFINE t == << f >>
<1>4. t \in Seq(S)
  BY <1>1
<1> HIDE DEF t
<1>5. Range(s \o t) = Range(s) \cup Range(t)
  BY <1>4, RangeConcatenation, SMTT(30)
<1> QED
  BY <1>2, <1>3, <1>5 DEF t

(* DrainInv is an invariant. *)
LEMMA DrainInvariant == Spec => []DrainInv
<1>1. Init => DrainInv
  BY DEF Init, DrainInv, NoDiscard
<1>2. TypeInv /\ LockInv /\ FifoExactlyOnce /\ DrainInv /\ [Next]_vars => DrainInv'
  <2> SUFFICES ASSUME TypeInv, LockInv, FifoExactlyOnce, DrainInv, [Next]_vars
               PROVE DrainInv'
    OBVIOUS
  <2>a. /\ order \in Seq(Funcs) /\ started \in Seq(Funcs)
        /\ executable_queue \in Seq(Funcs)
        /\ call \in [Callers -> {"idle", "push", "notify"}]
        /\ shutdowns \in Nat
        /\ None \notin Funcs
    BY LooperAssumption DEF TypeInv, TypeOK
  <2> USE DEF DrainInv, NoDiscard, queueVars, workVars, callVars, ownerVars, history
  <2>1. CASE UNCHANGED vars
    BY <2>1 DEF vars
  <2>2. ASSUME NEW c \in Callers, NEW f \in Funcs, ExecuteLock(c, f) PROVE DrainInv'
    <3>1. \A d \in Callers : call'[d] = "notify" => call[d] = "notify" /\ arg'[d] = arg[d]
      BY <2>2, <2>a DEF ExecuteLock, TypeInv, TypeOK
    <3> QED
      BY <2>2, <3>1 DEF ExecuteLock
  <2>3. ASSUME NEW c \in Callers, ExecuteRefused(c) PROVE DrainInv'
    BY <2>3 DEF ExecuteRefused, vars
  <2>4. ASSUME NEW c \in Callers, ExecutePush(c) PROVE DrainInv'
    <3>1. arg[c] \in Funcs
      BY <2>4 DEF ExecutePush, TypeInv, ArgOK
    <3>2. Range(order') = Range(order) \cup {arg[c]}
      BY <2>4, <2>a, <3>1, RangeAppend DEF ExecutePush
    <3>3. \A d \in Callers : call'[d] = "notify" => d = c \/ call[d] = "notify"
      BY <2>4, <2>a DEF ExecutePush
    <3> QED
      BY <2>4, <3>2, <3>3 DEF ExecutePush
  <2>5. ASSUME NEW c \in Callers, ExecuteNotify(c) PROVE DrainInv'
    <3>1. arg[c] \in Range(order)
      BY <2>5 DEF ExecuteNotify
    <3>2. early' \subseteq early \cup {arg[c]} /\ early' \subseteq Range(order')
      BY <2>5, <3>1 DEF ExecuteNotify
    <3>3. pc' = "exited" => pc = "exited" /\ early' = early
      BY <2>5 DEF ExecuteNotify, Notify, LockInv
    <3>4. \A d \in Callers : call'[d] = "notify" => call[d] = "notify"
      BY <2>5, <2>a DEF ExecuteNotify
    <3>6. (pc' = "run" <=> pc = "run") /\ (pc' = "empty" <=> pc = "empty")
      BY <2>5 DEF ExecuteNotify, Notify
    <3> QED
      BY <2>5, <3>2, <3>3, <3>4, <3>6 DEF ExecuteNotify
  <2>6. CASE ReadActive
    BY <2>6 DEF ReadActive
  <2>7. CASE ReadEmpty
    <3>1. ASSUME pc' = "exited", NoDiscard' PROVE early \subseteq Range(started)
      <4>1. executable_queue = << >> /\ ~swept
        BY <2>7, <3>1 DEF ReadEmpty
      <4>2. order = started
        BY <4>1, <2>a, ConcatEmptySeq DEF FifoExactlyOnce
      <4> QED
        BY <4>2
    <3> QED
      BY <2>7, <3>1 DEF ReadEmpty
  <2>8. CASE TakeFront /\ pc \in {"lock", "woken"}
    BY <2>8, <2>a, HeadTailProperties DEF TakeFront
  <2>9. CASE LockAndWait \/ WokenContinue \/ SpuriousWake \/ FuncReturns
    BY <2>9 DEF LockAndWait, WokenContinue, SpuriousWake, FuncReturns
  <2>10. ASSUME NEW wait \in BOOLEAN, Shutdown(wait) PROVE DrainInv'
    <3>1. owner = "idle" /\ owner' \in {"notify", "lock"} /\ ~is_active'
      BY <2>10 DEF Shutdown
    <3> QED
      BY <2>10, <3>1 DEF Shutdown
  <2>11. CASE SwapBegin
    BY <2>11 DEF SwapBegin
  <2>12. CASE SwapEnd
    BY <2>12 DEF SwapEnd
  <2>13. CASE ShutdownNotify
    <3>1. \A x \in {"run", "exited", "empty"} : pc' = x <=> pc = x
      BY <2>13 DEF ShutdownNotify, Notify
    <3> QED
      BY <2>13, <3>1 DEF ShutdownNotify
  <2>14. CASE Join \/ JoinReturns
    BY <2>14 DEF Join, JoinReturns
  <2> QED
    BY <2>1, <2>2, <2>3, <2>4, <2>5, <2>6, <2>7, <2>8, <2>9, <2>10, <2>11, <2>12, <2>13,
       <2>14
    DEF Next, RunLoop, LockAndTake, WokenTake, Execute, OwnerStep
<1> QED
  BY <1>1, <1>2, TypeInvariant, LockInvariant, FifoExactlyOnceHolds, PTL DEF Spec

(* When run_loop returns it has run everything execute() accepted before the     *)
(* shutdown, unless a shutdown(false) asked for the queue to be dropped.         *)
THEOREM GracefulDrainHolds == Spec => []GracefulDrain
<1>1. DrainInv => GracefulDrain
  BY DEF DrainInv, GracefulDrain
<1> QED
  BY <1>1, DrainInvariant, PTL
-----------------------------------------------------------------------------
(* LooperExecutor implements SerialExecutor: every step of the threads is a step *)
(* of the abstract executor, or none.  The sweep is the abstract Discard when it *)
(* takes the lock, because from then on nobody can see what the queue held.      *)
THEOREM Refinement == Spec => ImplementsSerialExecutor
<1> DEFINE mbacklog == IF owner = "swap" THEN << >> ELSE executable_queue
<1>1. Init => Abstract!Init
  BY DEF Init, Abstract!Init
<1>2. /\ TypeInv /\ TypeInv' /\ LockInv /\ LockInv' /\ SweepInv /\ DrainInv
      /\ [Next]_vars
      => [Abstract!Next]_(Abstract!vars)
  <2> SUFFICES ASSUME TypeInv, TypeInv', LockInv, LockInv', SweepInv, DrainInv, [Next]_vars
               PROVE Abstract!Next \/ UNCHANGED Abstract!vars
    OBVIOUS
  <2>a. None \notin Callers /\ Owner \notin Callers /\ None # Owner
    BY LooperAssumption DEF Callers
  <2>b. shutdowns \in Nat
    BY LooperAssumption DEF TypeInv, TypeOK
  <2> USE DEF queueVars, workVars, callVars, ownerVars, history
  <2>1. CASE UNCHANGED vars
    BY <2>1 DEF vars, Abstract!vars
  <2>2. ASSUME NEW c \in Callers, NEW f \in Funcs, ExecuteLock(c, f)
        PROVE UNCHANGED Abstract!vars
    BY <2>2 DEF ExecuteLock, Abstract!vars
  <2>3. ASSUME NEW c \in Callers, ExecuteRefused(c) PROVE UNCHANGED Abstract!vars
    BY <2>3 DEF ExecuteRefused, vars, Abstract!vars
  <2>4. ASSUME NEW c \in Callers, ExecutePush(c) PROVE Abstract!Next
    <3>1. ~swept
      BY <2>4 DEF ExecutePush, SweepInv
    <3>2. holder = c /\ owner # "swap"
      BY <2>4, <2>a DEF ExecutePush, LockInv
    <3>3. Abstract!Accept(arg[c])
      BY <2>4, <3>1, <3>2 DEF ExecutePush, Abstract!Accept
    <3>4. arg[c] \in Funcs
      BY <2>4 DEF ExecutePush, TypeInv, ArgOK
    <3> QED
      BY <3>3, <3>4 DEF Abstract!Next
  <2>5. ASSUME NEW c \in Callers, ExecuteNotify(c) PROVE UNCHANGED Abstract!vars
    BY <2>5 DEF ExecuteNotify, Notify, Abstract!vars
  <2>6. CASE TakeFront /\ pc \in {"lock", "woken"} /\ holder = None
    <3>1. owner # "swap" /\ running = None
      BY <2>6, <2>a DEF LockInv, DrainInv
    <3> QED
      BY <2>6, <3>1 DEF TakeFront, Abstract!Next, Abstract!Start
  <2>7. CASE ReadEmpty
    <3>1. CASE pc' = "exited"
      <4>1. mbacklog = << >> /\ shutdowns # 0 /\ running = None
        BY <2>7, <3>1 DEF ReadEmpty, LockInv, DrainInv
      <4> QED
        BY <2>7, <3>1, <4>1 DEF ReadEmpty, Abstract!Next, Abstract!Exit
    <3>2. CASE pc' # "exited"
      BY <2>7, <3>2 DEF ReadEmpty, Abstract!vars
    <3> QED
      BY <3>1, <3>2
  <2>8. CASE FuncReturns
    BY <2>8 DEF FuncReturns, DrainInv, Abstract!Next, Abstract!Finish
  <2>9. CASE ReadActive \/ LockAndWait \/ WokenContinue \/ SpuriousWake
    BY <2>9 DEF ReadActive, LockAndWait, WokenContinue, SpuriousWake, Abstract!vars
  <2>10. ASSUME NEW wait \in BOOLEAN, Shutdown(wait) PROVE Abstract!Next
    <3>1. /\ owner = "idle" /\ owner' \in {"notify", "lock"}
          /\ shutdowns' = shutdowns + 1
          /\ UNCHANGED <<executable_queue, running, swept, pc>>
      BY <2>10 DEF Shutdown
    <3> QED
      BY <3>1, <2>b DEF Abstract!Next, Abstract!Close
  <2>11. CASE SwapBegin
    <3>1. shutdowns # 0
      BY <2>11 DEF SwapBegin, LockInv
    <3> QED
      BY <2>11, <3>1 DEF SwapBegin, Abstract!Next, Abstract!Discard
  <2>12. CASE SwapEnd
    BY <2>12 DEF SwapEnd, Abstract!vars
  <2>13. CASE ShutdownNotify
    BY <2>13 DEF ShutdownNotify, Notify, Abstract!vars
  <2>14. CASE Join \/ JoinReturns
    BY <2>14 DEF Join, JoinReturns, Abstract!vars
  <2> QED
    BY <2>1, <2>2, <2>3, <2>4, <2>5, <2>6, <2>7, <2>8, <2>9, <2>10, <2>11, <2>12, <2>13, <2>14
    DEF Next, RunLoop, LockAndTake, WokenTake, Execute, OwnerStep
<1> QED
  BY <1>1, <1>2, TypeInvariant, LockInvariant, SweepInvariant, DrainInvariant, PTL
  DEF Spec, ImplementsSerialExecutor, Abstract!Spec

(* run_loop() starts what execute() pushed in the order of the pushes, each function     *)
(* once, misses none that was accepted before a graceful shutdown, and finds nothing in  *)
(* a queue that shutdown(false) has emptied.                                             *)
THEOREM SafetyHolds == Spec => []Safety
  BY FifoExactlyOnceHolds, GracefulDrainHolds, SweptStaysEmptyHolds, PTL DEF Safety
=============================================================================
