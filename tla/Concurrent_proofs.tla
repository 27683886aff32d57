-------------------------- MODULE Concurrent_proofs --------------------------
(* Proofs about Concurrent, for every value of its constants: each component behaves in   *)
(* the composition as its own specification says, and what is proved of that holds here.   *)
(* FutureState, JoiningThread, MultiLookUp and WorkQueue are proved correct below; the      *)
(* proofs of TaskChain and ParallelSort are in modules of their own and are instantiated.  *)
EXTENDS Concurrent, FiniteSetTheorems, SequenceTheorems, TLAPS

(* FutureState: nobody publishes ONLY_CONTINUATION, so whoever loses the first            *)
(* compare_exchange has loaded the other's ONLY_RESULT, and only the loser can change      *)
(* state_ after that.                                                                   *)
OtherOf(t) == IF t = Setter THEN Continuer ELSE Setter

(* Before anything is published nobody has got past the first compare_exchange. *)
BeforeFirst == state_ = "START" => \A t \in Callers : pc[t] \in {"call", "write", "load", "first"}

(* A published state is that of one caller, or of both. *)
Published ==
  /\ state_ \in {"START", "ONLY_RESULT", "DONE"}
  /\ state_ = "ONLY_RESULT" => \E t \in Callers : pc[t] = "returned" /\ pc[OtherOf(t)] # "returned"
  /\ state_ = "DONE" => \A t \in Callers : pc[t] = "returned"
  /\ state_ = "DONE" => build = "release"

(* The loser has loaded what the other published, and goes on only without assert. *)
Lost ==
  \A t \in Callers : pc[t] \in {"assert", "second"} =>
    /\ state_ = "ONLY_RESULT" /\ state[t] = "ONLY_RESULT"
    /\ pc[OtherOf(t)] = "returned"
    /\ pc[t] = "second" /\ ~aborted => build = "release"

(* setResult() writes before it publishes. *)
Written == result_ = "empty" => pc[Setter] \in {"call", "write", "threw"}

FutureInv == TypeOK /\ BeforeFirst /\ Published /\ Lost /\ Written
-----------------------------------------------------------------------------
(* What a step of one caller leaves to the others. *)
LEMMA OtherCaller ==
  ASSUME NEW t \in Callers
  PROVE  /\ OtherOf(t) \in Callers /\ OtherOf(t) # t /\ OtherOf(OtherOf(t)) = t
         /\ Callers = {t, OtherOf(t)} /\ t \notin Waiters
BY FutureAssumption DEF OtherOf, Callers

(* Nothing is published at first. *)
LEMMA FutureInit == Init => FutureInv
<1> SUFFICES ASSUME Init PROVE FutureInv
  OBVIOUS
<1>1. \A t \in Callers : pc[t] = "call"
  BY DEF Init, Callers
<1>2. \A w \in Waiters : pc[w] = "idle"
  BY FutureAssumption DEF Init, Callers
<1>3. Setter \in Callers
  BY DEF Callers
<1>4. TypeOK
  BY <1>1, <1>2, <1>3 DEF Init, TypeOK, Ended
<1> QED
  BY <1>1, <1>3, <1>4 DEF Init, FutureInv, BeforeFirst, Published, Lost, Written

(* A step of a caller leaves everyone else where they are. *)
LEMMA FutureNext == FutureInv /\ [Next]_vars => FutureInv'
<1> SUFFICES ASSUME FutureInv, [Next]_vars PROVE FutureInv'
  OBVIOUS
<1> USE FutureAssumption
<1>0. TypeOK /\ BeforeFirst /\ Published /\ Lost /\ Written /\ Setter \in Callers
  BY DEF FutureInv, Callers
<1>1. ASSUME NEW t \in Callers, Call(t) PROVE FutureInv'
  <2>1. /\ pc' = [pc EXCEPT ![t] = IF IF t = Setter THEN hasResult ELSE hasContinuation THEN "threw"
                                   ELSE IF t = Setter THEN "write" ELSE "load"]
        /\ pc[t] = "call" /\ UNCHANGED <<state_, result_, state, build, aborted>>
    BY <1>1 DEF Call, Goto
  <2>2. TypeOK'
    BY <1>0, <2>1, OtherCaller DEF TypeOK, Ended
  <2>3. state_ = "START" => pc'[t] \in {"write", "load"}
    BY <1>0, <2>1 DEF TypeOK, hasResult, hasContinuation
  <2>4. \A u \in Callers : u # t => pc'[u] = pc[u]
    BY <1>0, <2>1 DEF TypeOK
  <2>5. pc'[t] \in {"threw", "write", "load"}
    BY <1>0, <2>1 DEF TypeOK
  <2>6. BeforeFirst'
    BY <1>0, <2>1, <2>3, <2>4 DEF BeforeFirst
  <2>7. Published'
    BY <1>0, <2>1, <2>4, <2>5, OtherCaller DEF Published
  <2>8. Lost'
    BY <1>0, <2>1, <2>4, <2>5, OtherCaller DEF Lost
  <2>9. Written'
    BY <1>0, <2>1, <2>4, <2>5 DEF Written, TypeOK, Callers
  <2> QED
    BY <2>2, <2>6, <2>7, <2>8, <2>9 DEF FutureInv
<1>2. CASE Write
  <2>1. /\ pc' = [pc EXCEPT ![Setter] = "load"] /\ pc[Setter] = "write"
        /\ result_' = "set" /\ UNCHANGED <<state_, state, build, aborted>>
    BY <1>2 DEF Write, Goto
  <2>2. TypeOK'
    BY <1>0, <2>1, OtherCaller DEF TypeOK, Ended
  <2>3. pc'[Setter] = "load" /\ \A u \in Callers : u # Setter => pc'[u] = pc[u]
    BY <1>0, <2>1 DEF TypeOK
  <2>4. BeforeFirst' /\ Written'
    BY <1>0, <2>1, <2>3 DEF BeforeFirst, Written
  <2>5. Published' /\ Lost'
    BY <1>0, <2>1, <2>3, OtherCaller DEF Published, Lost
  <2> QED
    BY <2>2, <2>4, <2>5 DEF FutureInv
<1>3. ASSUME NEW t \in Callers, Load(t) PROVE FutureInv'
  <2>1. /\ pc' = [pc EXCEPT ![t] = IF state_ = "START" THEN "first" ELSE "threw"] /\ pc[t] = "load"
        /\ state' = [state EXCEPT ![t] = state_] /\ UNCHANGED <<state_, result_, build, aborted>>
    BY <1>0, <1>3 DEF Load, Goto, Published
  <2>2. TypeOK'
    BY <1>0, <2>1, OtherCaller DEF TypeOK, Ended
  <2>3. /\ pc'[t] = IF state_ = "START" THEN "first" ELSE "threw"
        /\ \A u \in Callers : u # t => pc'[u] = pc[u] /\ state'[u] = state[u]
    BY <1>0, <2>1 DEF TypeOK
  <2>4. BeforeFirst'
    BY <1>0, <2>1, <2>3 DEF BeforeFirst
  <2>5. Published' /\ Lost'
    BY <1>0, <2>1, <2>3, OtherCaller DEF Published, Lost
  <2>6. Written'
    BY <1>0, <2>1, <2>3 DEF Written
  <2> QED
    BY <2>2, <2>4, <2>5, <2>6 DEF FutureInv
<1>4. ASSUME NEW t \in Callers, First(t), state_ = "START" PROVE FutureInv'
  <2>1. /\ pc' = [pc EXCEPT ![t] = "returned"] /\ pc[t] = "first" /\ state_' = "ONLY_RESULT"
        /\ UNCHANGED <<state, result_, build, aborted>>
    BY <1>4 DEF First, Goto, Publishes
  <2>2. TypeOK'
    BY <1>0, <2>1, OtherCaller DEF TypeOK, Ended
  <2>3. pc'[t] = "returned" /\ \A u \in Callers : u # t => pc'[u] = pc[u]
    BY <1>0, <2>1 DEF TypeOK
  <2>4. pc[OtherOf(t)] \in {"call", "write", "load", "first"}
    BY <1>0, <1>4, OtherCaller DEF BeforeFirst
  <2>5. BeforeFirst' /\ Published' /\ Lost'
    BY <1>0, <2>1, <2>3, <2>4, OtherCaller DEF BeforeFirst, Published, Lost
  <2>6. Written'
    BY <1>0, <2>1, <2>3 DEF Written
  <2> QED
    BY <2>2, <2>5, <2>6 DEF FutureInv
<1>5. ASSUME NEW t \in Callers, First(t), state_ # "START" PROVE FutureInv'
  <2>1. /\ pc' = [pc EXCEPT ![t] = "assert"] /\ pc[t] = "first" /\ state' = [state EXCEPT ![t] = state_]
        /\ UNCHANGED <<state_, result_, build, aborted>>
    BY <1>5 DEF First, Goto
  <2>2. TypeOK'
    BY <1>0, <2>1, OtherCaller DEF TypeOK, Ended
  <2>3. /\ pc'[t] = "assert" /\ state'[t] = state_
        /\ \A u \in Callers : u # t => pc'[u] = pc[u] /\ state'[u] = state[u]
    BY <1>0, <2>1 DEF TypeOK
  <2>4. state_ = "ONLY_RESULT" /\ pc[OtherOf(t)] = "returned"
    BY <1>0, <1>5, <2>1, OtherCaller DEF Published
  <2>5. BeforeFirst' /\ Published' /\ Lost'
    BY <1>0, <2>1, <2>3, <2>4, OtherCaller DEF BeforeFirst, Published, Lost
  <2>6. Written'
    BY <1>0, <2>1, <2>3 DEF Written
  <2> QED
    BY <2>2, <2>5, <2>6 DEF FutureInv
<1>6. ASSUME NEW t \in Callers, Assert(t) PROVE FutureInv'
  <2>1. /\ pc' = [pc EXCEPT ![t] = "second"] /\ pc[t] = "assert"
        /\ aborted' = (build = "debug" /\ state_ # "ONLY_CONTINUATION")
        /\ UNCHANGED <<state_, result_, state, build>>
    BY <1>6 DEF Assert, Goto
  <2>2. aborted' \in BOOLEAN
    BY <2>1
  <2>3. TypeOK'
    BY <1>0, <2>1, <2>2, OtherCaller DEF TypeOK, Ended
  <2>4. pc'[t] = "second" /\ \A u \in Callers : u # t => pc'[u] = pc[u]
    BY <1>0, <2>1 DEF TypeOK
  <2>5. state_ = "ONLY_RESULT" /\ state[t] = "ONLY_RESULT" /\ pc[OtherOf(t)] = "returned"
    BY <1>0, <2>1 DEF Lost
  <2>6. ~aborted' => build = "release"
    BY <1>0, <2>1, <2>5 DEF TypeOK
  <2>7. BeforeFirst' /\ Published'
    BY <1>0, <2>1, <2>4, <2>5, OtherCaller DEF BeforeFirst, Published
  <2>8. Lost'
    BY <2>1, <2>4, <2>5, <2>6, OtherCaller DEF Lost
  <2>9. Written'
    BY <1>0, <2>1, <2>4 DEF Written
  <2> QED
    BY <2>3, <2>7, <2>8, <2>9 DEF FutureInv
<1>7. ASSUME NEW t \in Callers, Second(t) PROVE FutureInv'
  <2>1. state_ = "ONLY_RESULT" /\ state[t] = "ONLY_RESULT" /\ pc[OtherOf(t)] = "returned" /\ build = "release"
    BY <1>0, <1>7 DEF Second, Lost
  <2>2. /\ pc' = [pc EXCEPT ![t] = "returned"] /\ pc[t] = "second" /\ state_' = "DONE"
        /\ UNCHANGED <<result_, state, build, aborted>>
    BY <1>7, <2>1 DEF Second, Goto
  <2>3. TypeOK'
    BY <1>0, <2>2, OtherCaller DEF TypeOK, Ended
  <2>4. \A u \in Callers : pc'[u] = "returned"
    BY <1>0, <2>1, <2>2, OtherCaller DEF TypeOK
  <2>5. BeforeFirst' /\ Published' /\ Lost'
    BY <2>1, <2>2, <2>4 DEF BeforeFirst, Published, Lost
  <2>6. Written'
    BY <1>0, <2>1, <2>2, OtherCaller DEF Written, OtherOf
  <2> QED
    BY <2>3, <2>5, <2>6 DEF FutureInv
<1>8. ASSUME NEW w \in Waiters, Wait(w) \/ WaitEnds(w) PROVE FutureInv'
  <2>1. /\ pc' = [pc EXCEPT ![w] = "wait"] \/ pc' = [pc EXCEPT ![w] = "returned"]
        /\ UNCHANGED <<state_, result_, state, build, aborted>>
    BY <1>8 DEF Wait, WaitEnds, Goto
  <2>2. TypeOK'
    BY <1>0, <2>1, OtherCaller DEF TypeOK, Ended
  <2>3. \A u \in Callers : pc'[u] = pc[u]
    BY <1>0, <2>1, OtherCaller DEF TypeOK
  <2>4. BeforeFirst' /\ Published' /\ Lost' /\ Written'
    BY <1>0, <2>1, <2>3, OtherCaller DEF BeforeFirst, Published, Lost, Written
  <2> QED
    BY <2>2, <2>4 DEF FutureInv
<1>9. CASE UNCHANGED vars
  BY <1>0, <1>9 DEF vars, FutureInv, TypeOK, BeforeFirst, Published, Lost, Written
<1> QED
  BY <1>1, <1>2, <1>3, <1>4, <1>5, <1>6, <1>7, <1>8, <1>9 DEF Next, Step

(* Of setResult() and setContinuation() one gets through, and a result that hasResult()   *)
(* A result is not taken back, and a wait() goes on while there is one. *)
LEMMA KeepsWaiting ==
  ASSUME FutureInv, [Next]_vars, NEW w \in Waiters, hasResult, pc[w] = "wait"
  PROVE  hasResult' /\ pc'[w] = "wait"
<1> USE FutureAssumption
<1>0. TypeOK /\ Published /\ Lost /\ w \notin Callers /\ w \in DOMAIN pc
  BY DEF FutureInv, Callers, TypeOK
<1>1. ASSUME NEW t \in Callers, Step(t) PROVE hasResult' /\ pc'[w] = "wait"
  <2>1. pc'[w] = pc[w]
    BY <1>0, <1>1 DEF Step, Call, Load, First, Assert, Second, Goto
  <2>2. hasResult'
    BY <1>0, <1>1 DEF Step, Call, Load, First, Assert, Second, hasResult
  <2> QED
    BY <2>1, <2>2
<1>2. ASSUME Write PROVE hasResult' /\ pc'[w] = "wait"
  <2>1. Setter \in Callers
    BY DEF Callers
  <2> QED
    BY <1>0, <1>2, <2>1 DEF Write, Goto, hasResult
<1>3. ASSUME NEW v \in Waiters, Wait(v) PROVE hasResult' /\ pc'[w] = "wait"
  BY <1>0, <1>3 DEF Wait, Goto, hasResult
<1>4. ASSUME NEW v \in Waiters, WaitEnds(v) PROVE hasResult' /\ pc'[w] = "wait"
  BY <1>4 DEF WaitEnds
<1>5. ASSUME UNCHANGED vars PROVE hasResult' /\ pc'[w] = "wait"
  BY <1>5 DEF vars, hasResult
<1> QED
  BY <1>1, <1>2, <1>3, <1>4, <1>5 DEF Next

(* sees is written or the other's state.                                                 *)
LEMMA FutureInvIsSafe == FutureInv => Safety
<1> SUFFICES ASSUME FutureInv PROVE Safety
  OBVIOUS
<1> DEFINE Through == {t \in Callers : pc[t] = "returned"}
<1>0. Setter \in Callers /\ Continuer \in Callers
  BY DEF Callers
<1>1. PublishedIsWritten
  <2> SUFFICES ASSUME hasResult, result_ = "empty" PROVE pc[Continuer] = "returned"
    BY DEF PublishedIsWritten
  <2>1. pc[Setter] # "returned"
    BY DEF FutureInv, Written
  <2>2. state_ = "ONLY_RESULT"
    BY <1>0, <2>1 DEF FutureInv, Published, hasResult
  <2>3. PICK t \in Callers : pc[t] = "returned"
    BY <2>2 DEF FutureInv, Published
  <2> QED
    BY <2>1, <2>3 DEF Callers
<1>2. ASSUME \A t \in Callers : pc[t] \in Ended PROVE Through # {}
  <2>1. state_ # "START"
    BY <1>0, <1>2 DEF FutureInv, BeforeFirst, Ended
  <2> QED
    BY <1>0, <2>1 DEF FutureInv, Published
<1>3. state_ = "DONE" => Through = Callers
  BY DEF FutureInv, Published
<1>4. ASSUME Through = Callers PROVE state_ = "DONE"
  <2>1. \A t \in Callers : pc[t] = "returned"
    BY <1>4
  <2>2. state_ # "START"
    BY <1>0, <2>1 DEF FutureInv, BeforeFirst
  <2>3. state_ # "ONLY_RESULT"
    BY <2>1, OtherCaller DEF FutureInv, Published
  <2> QED
    BY <2>2, <2>3 DEF FutureInv, Published
<1>5. ASSUME state_ = "DONE" PROVE build = "release" /\ result_ = "set"
  <2>1. pc[Setter] = "returned"
    BY <1>0, <1>5 DEF FutureInv, Published
  <2> QED
    BY <1>5, <2>1 DEF FutureInv, Published, Written, TypeOK
<1>6. OneGetsThrough
  BY <1>2, <1>3, <1>4, <1>5 DEF OneGetsThrough
<1> QED
  BY <1>1, <1>6 DEF Safety
-----------------------------------------------------------------------------
(* JoiningThread: the thread of the first coroutine moves from `new` to `out`, and every   *)
(* later coroutine is refused.                   *)
(* Who owns that thread: a jthread o, or nobody *)
OwnedBy(o) == slot = [x \in T!Slots |-> IF x = o THEN 1 ELSE None]
Nobody     == slot = [x \in T!Slots |-> None]

(* the first coroutine while its thread is not joined *)
Going ==
  \/ thread[1] = "running" /\ frame[1] \in {"suspended", "resumed"}
  \/ thread[1] \in {"running", "ended"} /\ frame[1] = "gone" /\ outcome[1] = "resumed"

FirstRun ==
  \/ /\ run = 1 /\ jPc \in {"call", "suspend"} /\ Nobody
     /\ thread[1] = "none" /\ outcome[1] = "none"
     /\ frame[1] = IF jPc = "call" THEN "none" ELSE "suspended"
  \/ run = 1 /\ jPc = "assign" /\ OwnedBy("new") /\ Going
  \/ run = 1 /\ jPc \in {"destroy tmp", "destroy new", "print"} /\ OwnedBy("out") /\ Going
  \/ (jPc = "returned" \/ (run > 1 /\ jPc \in {"call", "suspend"})) /\ OwnedBy("out") /\ Going
  \/ /\ run = Runs /\ jPc = "ended" /\ Nobody
     /\ thread[1] = "joined" /\ frame[1] = "gone" /\ outcome[1] = "resumed"

(* a later one is refused, or has not been called yet *)
LaterRuns ==
  \A r \in 2..Runs :
    /\ thread[r] = "none"
    /\ IF r < run \/ (r = run /\ jPc \in {"returned", "ended"})
       THEN frame[r] = "gone" /\ outcome[r] = "threw"
       ELSE /\ outcome[r] = "none"
            /\ frame[r] = IF r = run /\ jPc = "suspend" THEN "suspended" ELSE "none"

ThreadTypes ==
  /\ thread \in [T!Ids -> {"none", "running", "ended", "joined"}]
  /\ frame \in [T!Ids -> {"none", "suspended", "resumed", "gone"}]
  /\ outcome \in [T!Ids -> {"none", "resumed", "threw"}]
  /\ run \in T!Ids

ThreadInv == ThreadTypes /\ FirstRun /\ LaterRuns /\ jLate = {}

(* It holds at first. *)
LEMMA ThreadInit == T!Init => ThreadInv
<1> SUFFICES ASSUME T!Init PROVE ThreadInv
  OBVIOUS
<1>1. 1 \in T!Ids /\ \A r \in 2..Runs : r \in T!Ids /\ r # 1
  BY ConcurrentAssumption DEF T!JoiningAssumption, T!Ids
<1> QED
  BY <1>1 DEF T!Init, ThreadInv, ThreadTypes, FirstRun, LaterRuns, Nobody

(* Every step of main() and of the threads keeps it. *)
LEMMA ThreadNext == ThreadInv /\ [T!Next]_(T!vars) => ThreadInv'
<1> SUFFICES ASSUME ThreadInv, [T!Next]_(T!vars) PROVE ThreadInv'
  OBVIOUS
<1>1. /\ 1 \in T!Ids /\ run \in T!Ids /\ T!Ids = 1..Runs /\ Runs \in Nat
      /\ \A r \in T!Ids : None # r
      /\ \A r \in 2..Runs : r \in T!Ids /\ r # 1 /\ r \in Int
  BY ConcurrentAssumption DEF T!JoiningAssumption, T!Ids, ThreadInv, ThreadTypes
<1> USE DEF ThreadInv, ThreadTypes, FirstRun, LaterRuns, Going, OwnedBy, Nobody, T!Slots, T!joinable, T!Goto
<1>2. CASE UNCHANGED T!vars
  BY <1>2 DEF T!vars
<1>3. CASE T!Call
  BY <1>1, <1>3 DEF T!Call
<1>4. CASE T!Refuse
  BY <1>1, <1>4 DEF T!Refuse, T!Using
<1>5. CASE T!StartThread
  BY <1>1, <1>5 DEF T!StartThread, T!Using
<1>6. CASE T!Assign
  <2> DEFINE moved == [out |-> slot["new"], new |-> None, tmp |-> slot["out"]]
  <2>0. jPc = "assign" /\ slot' = moved
    BY <1>6 DEF T!Assign
  <2>1. slot = [x \in T!Slots |-> IF x = "new" THEN 1 ELSE None] /\ run = 1
    BY <2>0
  <2>2. moved = [x \in T!Slots |-> IF x = "out" THEN 1 ELSE None]
    <3>1. slot["new"] = 1 /\ slot["out"] = None
      BY <2>1
    <3> HIDE DEF ThreadInv, FirstRun, LaterRuns, Going
    <3> QED
      BY <3>1
  <2> HIDE DEF moved
  <2> QED
    BY <1>1, <1>6, <2>0, <2>1, <2>2 DEF T!Assign, T!Using, T!UsesFrame
<1>7. CASE T!DestroyTmp
  <2>0. jPc = "destroy tmp"
    BY <1>7 DEF T!DestroyTmp, T!Destroy
  <2>1. slot["tmp"] = None /\ run = 1
    BY <2>0
  <2>2. slot' = slot /\ thread' = thread
    BY <1>1, <1>7, <2>1 DEF T!DestroyTmp, T!Destroy
  <2> QED
    BY <1>1, <1>7, <2>1, <2>2 DEF T!DestroyTmp, T!Destroy
<1>8. CASE T!DestroyNew
  <2>0. jPc = "destroy new"
    BY <1>8 DEF T!DestroyNew, T!Destroy
  <2>1. slot["new"] = None /\ run = 1
    BY <2>0
  <2>2. slot' = slot /\ thread' = thread
    BY <1>1, <1>8, <2>1 DEF T!DestroyNew, T!Destroy
  <2> QED
    BY <1>1, <1>8, <2>1, <2>2 DEF T!DestroyNew, T!Destroy
<1>9. CASE T!PrintId
  BY <1>1, <1>9 DEF T!PrintId, T!Using, T!UsesFrame
<1>10. CASE T!CallAgain
  BY <1>1, <1>10 DEF T!CallAgain
<1>11. CASE T!DestroyOut
  <2>1. slot = [x \in T!Slots |-> IF x = "out" THEN 1 ELSE None] /\ run = Runs /\ Going
    BY <1>1, <1>11 DEF T!DestroyOut, T!Destroy
  <2>2. slot' = [x \in T!Slots |-> None] /\ thread' = [thread EXCEPT ![1] = "joined"] /\ thread[1] = "ended"
    BY <1>1, <1>11, <2>1 DEF T!DestroyOut, T!Destroy
  <2>3. /\ run' = Runs /\ jPc' = "ended" /\ thread'[1] = "joined" /\ frame'[1] = "gone" /\ outcome'[1] = "resumed"
        /\ UNCHANGED <<frame, run, outcome, jLate>> /\ jPc = "returned"
    BY <1>1, <1>11, <2>1, <2>2 DEF T!DestroyOut, T!Destroy
  <2>4. thread' \in [T!Ids -> {"none", "running", "ended", "joined"}] /\ \A r \in 2..Runs : thread'[r] = thread[r]
    BY <1>1, <2>2
  <2> QED
    BY <1>1, <2>1, <2>2, <2>3, <2>4
<1>12. ASSUME NEW r \in T!Ids, T!ResumeRun(r) PROVE ThreadInv'
  BY <1>1, <1>12 DEF T!ResumeRun
<1>13. ASSUME NEW r \in T!Ids, T!ReturnRun(r) PROVE ThreadInv'
  BY <1>1, <1>13 DEF T!ReturnRun
<1>14. ASSUME NEW r \in T!Ids, T!EndThread(r) PROVE ThreadInv'
  BY <1>1, <1>14 DEF T!EndThread
<1> QED
  BY <1>2, <1>3, <1>4, <1>5, <1>6, <1>7, <1>8, <1>9, <1>10, <1>11, <1>12, <1>13, <1>14
     DEF T!Next, T!MainStep, T!ThreadStep

(* The set operators that an instance brings with it are the same ones. *)
LEMMA ThreadCardinality == \A s : T!Cardinality(s) = Cardinality(s)
BY DEF T!Cardinality, Cardinality

(* The thread is owned by one jthread until it is joined, and no frame is used late. *)
LEMMA ThreadInvIsSafe == ThreadInv => T!Safety
<1> SUFFICES ASSUME ThreadInv PROVE T!Safety
  OBVIOUS
<1>1. /\ 1 \in T!Ids /\ T!Ids = 1..Runs /\ Runs \in Nat
      /\ \A r \in T!Ids : None # r
  BY ConcurrentAssumption DEF T!JoiningAssumption, T!Ids
<1>2. T!FrameNotUsedLate
  BY DEF T!FrameNotUsedLate, ThreadInv
<1>3. T!FirstOnly
  <2> SUFFICES ASSUME jPc = "ended", NEW r \in T!Ids
               PROVE  /\ outcome[r] = IF r = 1 THEN "resumed" ELSE "threw"
                      /\ frame[r] = "gone" /\ thread[r] = IF r = 1 THEN "joined" ELSE "none"
    BY DEF T!FirstOnly
  <2>1. run = Runs /\ (r # 1 => r \in 2..Runs)
    BY <1>1 DEF ThreadInv, FirstRun
  <2> QED
    BY <1>1, <2>1 DEF ThreadInv, FirstRun, LaterRuns
<1>4. T!ThreadOwnedOnce
  <2> SUFFICES ASSUME NEW r \in T!Ids
               PROVE  Cardinality({o \in T!Slots : slot[o] = r})
                        = IF thread[r] \in {"running", "ended"} THEN 1 ELSE 0
    BY ThreadCardinality DEF T!ThreadOwnedOnce
  <2>1. CASE r # 1
    <3>1. {o \in T!Slots : slot[o] = r} = {}
      BY <1>1, <2>1 DEF ThreadInv, FirstRun, OwnedBy, Nobody
    <3>2. thread[r] = "none"
      BY <1>1, <2>1 DEF ThreadInv, LaterRuns
    <3> QED
      BY <3>1, <3>2, FS_EmptySet
  <2>2. CASE r = 1 /\ Nobody
    <3>1. {o \in T!Slots : slot[o] = r} = {}
      BY <1>1, <2>2 DEF Nobody
    <3>2. thread[r] \in {"none", "joined"}
      BY <1>1, <2>2 DEF ThreadInv, FirstRun, Nobody, OwnedBy, T!Slots
    <3> QED
      BY <3>1, <3>2, FS_EmptySet
  <2>3. ASSUME NEW o \in {"out", "new"}, OwnedBy(o), r = 1, Going
        PROVE  Cardinality({u \in T!Slots : slot[u] = r}) = IF thread[r] \in {"running", "ended"} THEN 1 ELSE 0
    <3>1. {u \in T!Slots : slot[u] = r} = {o}
      BY <1>1, <2>3 DEF OwnedBy, T!Slots
    <3>2. thread[r] \in {"running", "ended"}
      BY <2>3 DEF Going
    <3> QED
      BY <3>1, <3>2, FS_Singleton
  <2> QED
    BY <2>1, <2>2, <2>3 DEF ThreadInv, FirstRun
<1> QED
  BY <1>2, <1>3, <1>4 DEF T!Safety
-----------------------------------------------------------------------------
(* MultiLookUp: the counter is n plus a step for each task that has counted, modulo the    *)
(* width of an int; it comes to 0 with the last task or, where fraction does not divide,    *)
(* never at the end.                                                                     *)
(* The task that looks target j up, the targets looked up, and the tasks that have counted *)
Of(j)  == IF fraction = 0 THEN j ELSE j % fraction
Looked == {j \in 0..n - 1 : task[Of(j)] # "queued"}
Done   == {i \in M!TaskSet : task[i] = "done"}
Width  == IF fraction = 0 THEN n ELSE fraction     \* the number of tasks

LookUpTypes ==
  /\ n \in Targets /\ fraction \in Fractions
  /\ task \in [M!TaskSet -> {"queued", "counted", "done"}]

(* What has been counted is what the tasks that have run have missed, and the spin of      *)
(* main() has ended with that of all of them, where the step is exact.                     *)
LookUpInv ==
  /\ LookUpTypes
  /\ count_down = (n + Cardinality(Done) * M!Step) % IntValues
  /\ not_found_cnt = Cardinality(Misses \cap Looked)
  /\ M!Exact /\ main # -1 => Done = M!TaskSet /\ main = Cardinality(Misses \cap 0..n - 1)
(* What division and remainder are *)
LEMMA DivMod ==
  \A a \in Int, b \in Nat \ {0} :
    /\ a \div b \in Int /\ a % b \in Nat
    /\ a = b * (a \div b) + (a % b) /\ (a % b) < b
OBVIOUS

(* A multiple of m between 0 and m is 0. *)
LEMMA SmallMultiple ==
  ASSUME NEW m \in Nat \ {0}, NEW k \in Int, m * k < m, -m < m * k
  PROVE  k = 0
<1>1. CASE k >= 1
  <2>1. m * k = m + m * (k - 1) /\ m * (k - 1) >= 0
    BY <1>1, SMT
  <2> QED
    BY <2>1
<1>2. CASE k <= -1
  <2>1. m * k = m * (k + 1) - m /\ m * (k + 1) <= 0
    BY <1>2, SMT
  <2> QED
    BY <2>1
<1> QED
  BY <1>1, <1>2

(* The remainder is the one between 0 and m. *)
LEMMA ModUnique ==
  ASSUME NEW m \in Nat \ {0}, NEW q \in Int, NEW r \in Nat, r < m
  PROVE  (m * q + r) % m = r
<1> DEFINE a == m * q + r
<1>1. a \in Int
  OBVIOUS
<1>2. /\ a \div m \in Int /\ a % m \in Nat
      /\ a = m * (a \div m) + (a % m) /\ (a % m) < m
  BY <1>1, DivMod
<1>3. m * (q - (a \div m)) = (a % m) - r
  BY <1>1, <1>2
<1>4. q - (a \div m) = 0
  BY <1>2, <1>3, SmallMultiple
<1> QED
  BY <1>2, <1>3, <1>4

(* An addition may take the remainder before or after. *)
LEMMA ModAdd ==
  ASSUME NEW m \in Nat \ {0}, NEW a \in Int, NEW s \in Int
  PROVE  ((a % m) + s) % m = (a + s) % m
<1> DEFINE t == (a % m) + s
<1>1. a % m \in Nat /\ a \div m \in Int /\ a = m * (a \div m) + (a % m)
  BY DivMod
<1>2. t \in Int /\ t \div m \in Int /\ t % m \in Nat /\ t = m * (t \div m) + (t % m) /\ (t % m) < m
  BY <1>1, DivMod
<1>3. a + s = m * ((a \div m) + (t \div m)) + (t % m)
  BY <1>1, <1>2
<1>4. (m * ((a \div m) + (t \div m)) + (t % m)) % m = t % m
  <2> DEFINE k == (a \div m) + (t \div m)   r == t % m
  <2>1. k \in Int /\ r \in Nat /\ r < m
    BY <1>1, <1>2
  <2> HIDE DEF k, r
  <2>2. (m * k + r) % m = r
    BY <2>1, ModUnique
  <2> QED
    BY <2>2 DEF k, r
<1> QED
  BY <1>3, <1>4

(* The set operators that this instance brings with it are the same ones, too. *)
LEMMA LookUpCardinality == \A s : M!Cardinality(s) = Cardinality(s)
BY DEF M!Cardinality, Cardinality

(* The parameters are numbers, and the tasks as many as the width. *)
LEMMA LookUpNumbers ==
  ASSUME LookUpTypes
  PROVE  /\ n \in Nat \ {0} /\ fraction \in Nat /\ Width \in Nat \ {0}
         /\ IntValues \in Nat \ {0} /\ SizeValues \in Nat \ {0}
         /\ n < IntValues /\ n * fraction < IntValues
         /\ M!TaskSet = 0..Width - 1 /\ IsFiniteSet(M!TaskSet) /\ Cardinality(M!TaskSet) = Width
         /\ M!Step \in Int
<1>1. /\ n \in Nat \ {0} /\ fraction \in Nat /\ IntValues \in Nat \ {0} /\ SizeValues \in Nat \ {0}
      /\ n < IntValues /\ n * fraction < IntValues
  BY ConcurrentAssumption DEF M!LookUpAssumption, LookUpTypes
<1>2. Width \in Nat \ {0} /\ M!TaskSet = 0..Width - 1
  BY <1>1 DEF Width, M!TaskSet
<1>3. IsFiniteSet(M!TaskSet) /\ Cardinality(M!TaskSet) = Width
  BY <1>2, FS_Interval
<1>4. M!Step \in Int
  <2>1. CASE fraction # 0
    <3>1. (SizeValues - n) % SizeValues \in Int
      BY <1>1
    <3> QED
      BY <1>1, <2>1, <3>1 DEF M!Step
  <2> QED
    BY <2>1 DEF M!Step
<1> QED
  BY <1>1, <1>2, <1>3, <1>4

(* The tasks that have counted are some of all. *)
LEMMA DoneTasks ==
  ASSUME LookUpTypes
  PROVE  /\ IsFiniteSet(Done) /\ Cardinality(Done) \in 0..Width
         /\ Done = M!TaskSet <=> Cardinality(Done) = Width
<1>1. IsFiniteSet(M!TaskSet) /\ Cardinality(M!TaskSet) = Width /\ Done \in SUBSET M!TaskSet /\ Width \in Nat
  BY LookUpNumbers DEF Done
<1>2. IsFiniteSet(Done) /\ Cardinality(Done) <= Width /\ (Width = Cardinality(Done) => M!TaskSet = Done)
  BY <1>1, FS_Subset
<1>3. Cardinality(Done) \in Nat
  BY <1>2, FS_CardinalityType
<1> QED
  BY <1>1, <1>2, <1>3

(* Where the step is exact, the count is 0 when the last task has counted and not before;  *)
(* where it is not, the count is not 0 then.                                           *)
LEMMA CountsDown ==
  ASSUME LookUpTypes, NEW d \in 0..Width
  PROVE  /\ M!Exact => ((n + d * M!Step) % IntValues = 0 <=> d = Width)
         /\ ~M!Exact /\ d = Width => (n + d * M!Step) % IntValues # 0
<1> DEFINE m == IntValues   W == SizeValues   f == fraction   q == M!Step   w == W \div m
           sum == n + d * q
<1>1. /\ n \in Nat \ {0} /\ f \in Nat /\ m \in Nat \ {0} /\ W \in Nat \ {0} /\ q \in Int
      /\ n < m /\ n * f < m
  BY LookUpNumbers
<1>2. CASE f = 0
  <2>1. q = -1 /\ Width = n /\ M!Exact
    BY <1>2 DEF M!Step, Width, M!Exact
  <2>2. sum = n - d /\ n - d \in Nat /\ n - d < m /\ d \in Nat
    BY <1>1, <2>1
  <2>3. (m * 0 + (n - d)) % m = n - d
    BY <1>1, <2>2, ModUnique
  <2>4. sum % m = n - d
    BY <1>1, <2>2, <2>3
  <2> QED
    BY <1>1, <2>1, <2>2, <2>4
<1>3. CASE f # 0
  <2>1. W % m = 0
    BY ConcurrentAssumption DEF M!LookUpAssumption
  <2>2. w \in Int /\ W = m * w
    BY <1>1, <2>1, DivMod
  <2>3. w >= 1
    BY <1>1, <2>2
  <2>4. W >= m
    <3>1. W = m + m * (w - 1) /\ m * (w - 1) >= 0
      BY <1>1, <2>2, <2>3
    <3> QED
      BY <1>1, <3>1
  <2>5. (W - n) % W = W - n
    <3>1. W - n \in Nat /\ W - n < W
      BY <1>1, <2>4
    <3>2. (W * 0 + (W - n)) % W = W - n
      BY <1>1, <3>1, ModUnique
    <3> QED
      BY <1>1, <3>1, <3>2
  <2>6. q = (W - n) \div f /\ Width = f /\ d \in Nat /\ d <= f
    BY <1>1, <1>3, <2>5 DEF M!Step, Width
  <2> DEFINE r == (W - n) % f
  <2>7. r \in Nat /\ r < f /\ W - n = f * q + r
    BY <1>1, <1>3, <2>4, <2>6, DivMod
  <2>8. M!Exact <=> r = 0
    BY <1>3 DEF M!Exact
  <2>9. d = f => sum = m * w - r
    BY <1>1, <2>2, <2>6, <2>7
  <2>10. ASSUME d = f, r = 0 PROVE sum % m = 0
    <3>1. (m * w + 0) % m = 0
      BY <1>1, <2>2, ModUnique
    <3> QED
      BY <1>1, <2>2, <2>9, <2>10, <3>1
  <2>11. ASSUME d = f, r # 0 PROVE sum % m # 0
    <3>1. f <= n * f
      <4>1. n * f = f + (n - 1) * f /\ (n - 1) * f >= 0
        BY <1>1
      <4> QED
        BY <1>1, <4>1
    <3>2. m - r \in Nat /\ m - r < m /\ m - r # 0
      BY <1>1, <2>7, <2>11, <3>1
    <3>3. (m * (w - 1) + (m - r)) % m = m - r
      <4> DEFINE k == w - 1   s == m - r
      <4>1. k \in Int /\ s \in Nat /\ s < m
        BY <2>2, <3>2
      <4> HIDE DEF k, s, w, r
      <4>2. (m * k + s) % m = s
        BY <1>1, <4>1, ModUnique
      <4> QED
        BY <4>2 DEF k, s
    <3>4. sum = m * (w - 1) + (m - r)
      BY <1>1, <2>2, <2>7, <2>9, <2>11
    <3> QED
      BY <3>2, <3>3, <3>4
  <2>12. ASSUME sum % m = 0, r = 0 PROVE d = f
    <3> DEFINE z == sum \div m
    <3>1. sum \in Int
      BY <1>1, <2>6
    <3>2. z \in Int /\ sum = m * z
      BY <1>1, <2>12, <3>1, DivMod
    <3>3. f * sum = n * (f - d) + d * W
      <4>1. f * q = W - n
        BY <1>1, <2>6, <2>7, <2>12
      <4>2. f * sum = f * n + d * (f * q)
        BY <1>1, <2>6
      <4>3. d * (f * q) = d * W - d * n
        BY <1>1, <2>6, <4>1
      <4> QED
        BY <1>1, <2>6, <4>2, <4>3
    <3>4. n * (f - d) = m * (f * z - d * w)
      <4>1. f * sum = m * (f * z)
        BY <1>1, <3>2
      <4>2. d * W = m * (d * w)
        BY <1>1, <2>2, <2>6
      <4> QED
        BY <1>1, <2>2, <2>6, <3>2, <3>3, <4>1, <4>2
    <3>5. 0 <= n * (f - d) /\ n * (f - d) <= n * f
      BY <1>1, <2>6
    <3>6. f * z - d * w = 0
      <4>1. f * z - d * w \in Int
        BY <1>1, <2>2, <2>6, <3>2
      <4> HIDE DEF z, w
      <4> QED
        BY <1>1, <2>6, <3>4, <3>5, <4>1, SmallMultiple
    <3>7. n * (f - d) = 0
      BY <1>1, <3>4, <3>6
    <3> QED
      BY <1>1, <2>6, <3>7
  <2> QED
    BY <2>6, <2>8, <2>10, <2>11, <2>12
<1> QED
  BY <1>2, <1>3

(* The targets of a task are those it is the task of. *)
LEMMA ShareOf ==
  ASSUME LookUpTypes
  PROVE  /\ \A j \in 0..n - 1 : Of(j) \in M!TaskSet
         /\ \A i \in M!TaskSet : M!Share(i) = {j \in 0..n - 1 : Of(j) = i}
<1>1. n \in Nat \ {0} /\ fraction \in Nat /\ M!TaskSet = 0..Width - 1
  BY LookUpNumbers
<1>2. CASE fraction = 0
  BY <1>1, <1>2 DEF Of, M!Share, Width
<1>3. CASE fraction # 0
  <2>1. \A j \in 0..n - 1 : Of(j) = j % fraction /\ j \in Nat
    BY <1>1, <1>3 DEF Of
  <2>2. \A j \in 0..n - 1 : j % fraction \in 0..fraction - 1
    BY <1>1, <1>3
  <2> QED
    BY <1>1, <1>3, <2>1, <2>2 DEF M!Share, Width
<1> QED
  BY <1>2, <1>3

(* It holds at first. *)
LEMMA LookUpInit == M!Init => LookUpInv
<1> SUFFICES ASSUME M!Init PROVE LookUpInv
  OBVIOUS
<1>1. LookUpTypes
  BY DEF M!Init, LookUpTypes
<1>2. n \in Nat \ {0} /\ n < IntValues /\ IntValues \in Nat \ {0} /\ M!Step \in Int
  BY <1>1, LookUpNumbers
<1>3. Done = {}
  BY DEF M!Init, Done
<1>4. \A j \in 0..n - 1 : task[Of(j)] = "queued"
  BY <1>1, ShareOf DEF M!Init
<1>5. Misses \cap Looked = {}
  BY <1>4 DEF Looked
<1>6. count_down = (n + Cardinality(Done) * M!Step) % IntValues
  <2>1. (IntValues * 0 + n) % IntValues = n
    BY <1>2, ModUnique
  <2>2. n + Cardinality(Done) * M!Step = IntValues * 0 + n
    BY <1>2, <1>3, FS_EmptySet
  <2> QED
    BY <2>1, <2>2 DEF M!Init
<1> QED
  BY <1>1, <1>5, <1>6, FS_EmptySet DEF M!Init, LookUpInv

(* Every step of a task and of the main thread keeps it. *)
LEMMA LookUpNext == LookUpInv /\ [M!Next]_(M!vars) => LookUpInv'
<1> SUFFICES ASSUME LookUpInv, [M!Next]_(M!vars) PROVE LookUpInv'
  OBVIOUS
<1>1. LookUpTypes /\ n \in Nat \ {0} /\ fraction \in Nat /\ IntValues \in Nat \ {0} /\ M!Step \in Int
  BY LookUpNumbers DEF LookUpInv
<1>2. CASE UNCHANGED M!vars
  BY <1>2 DEF M!vars, LookUpInv, LookUpTypes, Looked, Done, Of, M!TaskSet, M!Step, M!Exact
<1>3. ASSUME NEW i \in M!TaskSet, M!LookUp(i) PROVE LookUpInv'
  <2>1. /\ task[i] = "queued" /\ task' = [task EXCEPT ![i] = "counted"]
        /\ UNCHANGED <<n, fraction, count_down, main>>
        /\ not_found_cnt' = not_found_cnt + Cardinality(M!Share(i) \cap Misses)
    BY <1>3, LookUpCardinality DEF M!LookUp
  <2>2. LookUpTypes'
    BY <1>1, <2>1 DEF LookUpTypes, M!TaskSet
  <2>3. Done' = Done /\ M!TaskSet' = M!TaskSet /\ Done # M!TaskSet
    BY <1>1, <1>3, <2>1 DEF Done, M!TaskSet, LookUpTypes
  <2>4. Looked' = Looked \cup M!Share(i) /\ Looked \cap M!Share(i) = {}
    <3>1. Of(0)' = Of(0) /\ \A j : Of(j)' = Of(j)
      BY <2>1 DEF Of
    <3>2. Looked' = {j \in 0..n - 1 : task'[Of(j)] # "queued"}
      BY <2>1, <3>1 DEF Looked
    <3>3. \A j \in 0..n - 1 : task'[Of(j)] # "queued" <=> task[Of(j)] # "queued" \/ Of(j) = i
      BY <1>1, <2>1, ShareOf DEF LookUpTypes
    <3>4. M!Share(i) = {j \in 0..n - 1 : Of(j) = i}
      BY <1>1, ShareOf
    <3> QED
      BY <2>1, <3>2, <3>3, <3>4 DEF Looked
  <2>5. not_found_cnt' = Cardinality(Misses \cap Looked')
    <3> DEFINE old == Misses \cap Looked   new == M!Share(i) \cap Misses
    <3>1. IsFiniteSet(0..n - 1)
      BY <1>1, FS_Interval
    <3>2. old \in SUBSET (0..n - 1) /\ new \in SUBSET (0..n - 1)
      BY <1>1, ShareOf DEF Looked
    <3>3. IsFiniteSet(old) /\ IsFiniteSet(new)
      BY <3>1, <3>2, FS_Subset
    <3>4. Misses \cap Looked' = old \cup new /\ old \cap new = {}
      BY <2>4
    <3>5. Cardinality(old) \in Nat /\ Cardinality(new) \in Nat /\ Cardinality({}) = 0
      BY <3>3, FS_CardinalityType, FS_EmptySet
    <3>6. Cardinality(old \cup new) = Cardinality(old) + Cardinality(new) - Cardinality(old \cap new)
      BY <3>3, FS_Union
    <3>7. not_found_cnt = Cardinality(old)
      BY DEF LookUpInv
    <3>8. Cardinality(old \cap new) = 0
      BY <3>4, <3>5
    <3> HIDE DEF old, new
    <3>9. Cardinality(old \cup new) = Cardinality(old) + Cardinality(new)
      BY <3>5, <3>6, <3>8
    <3> QED
      BY <2>1, <3>4, <3>7, <3>9 DEF old, new
  <2> QED
    BY <2>1, <2>2, <2>3, <2>5 DEF LookUpInv, M!Step, M!Exact
<1>4. ASSUME NEW i \in M!TaskSet, M!CountDown(i) PROVE LookUpInv'
  <2>1. /\ task[i] = "counted" /\ task' = [task EXCEPT ![i] = "done"]
        /\ count_down' = (count_down + M!Step) % IntValues
        /\ UNCHANGED <<n, fraction, not_found_cnt, main>>
    BY <1>4 DEF M!CountDown
  <2>2. LookUpTypes'
    BY <1>1, <2>1 DEF LookUpTypes, M!TaskSet
  <2>3. Done' = Done \cup {i} /\ i \notin Done /\ M!TaskSet' = M!TaskSet
    BY <1>1, <1>4, <2>1 DEF Done, M!TaskSet, LookUpTypes
  <2>4. Cardinality(Done') = Cardinality(Done) + 1 /\ Cardinality(Done) \in Nat
    BY <1>1, <2>3, DoneTasks, FS_AddElement, FS_CardinalityType
  <2>5. Looked' = Looked
    <3>1. \A j : Of(j)' = Of(j)
      BY <2>1 DEF Of
    <3>2. \A j \in 0..n - 1 : task'[Of(j)] # "queued" <=> task[Of(j)] # "queued"
      BY <1>1, <2>1, ShareOf DEF LookUpTypes
    <3> QED
      BY <2>1, <3>1, <3>2 DEF Looked
  <2>6. count_down' = (n + Cardinality(Done') * M!Step) % IntValues
    <3> DEFINE a == n + Cardinality(Done) * M!Step
    <3>1. a \in Int /\ count_down = a % IntValues
      BY <1>1, <2>4 DEF LookUpInv
    <3>2. ((a % IntValues) + M!Step) % IntValues = (a + M!Step) % IntValues
      BY <1>1, <3>1, ModAdd
    <3>3. a + M!Step = n + Cardinality(Done') * M!Step
      BY <1>1, <2>4
    <3> QED
      BY <2>1, <3>1, <3>2, <3>3
  <2>7. M!Step' = M!Step /\ M!Exact' = M!Exact /\ Done # M!TaskSet
    BY <1>4, <2>1, <2>3 DEF M!Step, M!Exact
  <2> QED
    BY <2>1, <2>2, <2>3, <2>5, <2>6, <2>7 DEF LookUpInv
<1>5. CASE M!Return
  <2>1. /\ main' = not_found_cnt /\ count_down = 0
        /\ UNCHANGED <<n, fraction, task, not_found_cnt, count_down>>
    BY <1>5 DEF M!Return
  <2>2. LookUpTypes' /\ Done' = Done /\ Looked' = Looked /\ M!TaskSet' = M!TaskSet
        /\ M!Step' = M!Step /\ M!Exact' = M!Exact
    BY <1>1, <2>1 DEF LookUpTypes, Done, Looked, Of, M!TaskSet, M!Step, M!Exact
  <2>3. M!Exact => Done = M!TaskSet
    BY <1>1, <2>1, CountsDown, DoneTasks DEF LookUpInv
  <2>4. Done = M!TaskSet => Looked = 0..n - 1
    BY <1>1, ShareOf DEF Looked, Done
  <2> QED
    BY <2>1, <2>2, <2>3, <2>4 DEF LookUpInv
<1> QED
  BY <1>2, <1>3, <1>4, <1>5 DEF M!Next

(* The invariant gives the count and the end of the spin. *)
LEMMA LookUpInvIsSafe == LookUpInv => M!Safety
<1> SUFFICES ASSUME LookUpInv PROVE M!Safety
  OBVIOUS
<1>1. LookUpTypes
  BY DEF LookUpInv
<1>2. (\A i \in M!TaskSet : task[i] = "done") <=> Done = M!TaskSet
  BY DEF Done
<1>3. M!ReturnsTheCount
  BY <1>2, LookUpCardinality DEF LookUpInv, M!ReturnsTheCount
<1>4. M!EndsAtZeroIfExact
  BY <1>1, <1>2, CountsDown, DoneTasks DEF LookUpInv, M!EndsAtZeroIfExact
<1> QED
  BY <1>3, <1>4 DEF M!Safety
-----------------------------------------------------------------------------
(* WorkQueue: the sequence and set operators that the instance brings with it are those    *)
(* of this module.                                                                       *)
LEMMA QueueOperators ==
  /\ \A s : Q!Range(s) = Range(s)
  /\ \A s : Q!IsInjective(s) <=> IsInjective(s)
  /\ \A s : Q!Cardinality(s) = Cardinality(s)
BY DEF Q!Range, Range, Q!IsInjective, IsInjective, Q!Cardinality, Cardinality

(* What is assumed of the threads. *)
LEMMA QueueAssumed ==
  /\ IsFiniteSet(Pushers) /\ IsFiniteSet(Takers)
  /\ Takers \cap (Pushers \cup Triers) = {} /\ Stopper \notin Pushers \cup Takers
BY ConcurrentAssumption DEF Q!WorkQueueAssumption, Q!IsFiniteSet, IsFiniteSet

Asleep   == {w \in Takers : qPc[w] = "asleep"}
Awake    == {w \in Takers : qPc[w] = "awake"}
Notifies == {p \in Pushers : qPc[p] = "notify"}

(* Only pushers and the stopper notify, and a stop is for good. *)
QueueRoles ==
  /\ \A p \in Pushers : qPc[p] \in {"idle", "notify"}
  /\ \A w \in Takers : qPc[w] \in {"idle", "asleep", "awake", "stopped"}
  /\ qPc[Stopper] # "idle" => stop_
  /\ started => stop_

QueueInv == Q!TypeOK /\ QueueRoles /\ Q!NoLostWakeup /\ Q!StoppedGivesNothing
-----------------------------------------------------------------------------
(* The counts of NoLostWakeup are natural numbers. *)
LEMMA QueueCounts ==
  /\ IsFiniteSet(Awake) /\ IsFiniteSet(Notifies)
  /\ Cardinality(Awake) \in Nat /\ Cardinality(Notifies) \in Nat
  /\ IsFiniteSet(Awake') /\ IsFiniteSet(Notifies')
  /\ Cardinality(Awake') \in Nat /\ Cardinality(Notifies') \in Nat
<1>1. \A D : D \subseteq Takers \/ D \subseteq Pushers => IsFiniteSet(D) /\ Cardinality(D) \in Nat
  BY FS_Subset, FS_CardinalityType, QueueAssumed
<1>2. Awake \subseteq Takers /\ Notifies \subseteq Pushers /\ Awake' \subseteq Takers /\ Notifies' \subseteq Pushers
  BY DEF Awake, Notifies
<1> QED
  BY <1>1, <1>2

(* The property, in the names of the sets that are counted. *)
LEMMA NoLostWakeupCounts ==
  Q!NoLostWakeup <=> (Asleep # {} /\ ~stop_ => Len(deque_) <= Cardinality(Awake) + Cardinality(Notifies))
BY QueueOperators DEF Q!NoLostWakeup, Asleep, Awake, Notifies

(* The invariant holds at first. *)
LEMMA QueueInit == Q!Init => QueueInv
<1> SUFFICES ASSUME Q!Init PROVE QueueInv
  OBVIOUS
<1>1. Q!TypeOK
  <2>1. deque_ \in Seq(Items)
    BY DEF Q!Init
  <2> QED
    BY <2>1 DEF Q!Init, Q!TypeOK
<1>2. \A t \in Q!Threads : qPc[t] = "idle" /\ got[t] = "none"
  BY DEF Q!Init
<1>3. QueueRoles
  BY <1>2 DEF Q!Init, QueueRoles, Q!Threads
<1>4. Q!NoLostWakeup
  BY <1>2, QueueOperators DEF Q!NoLostWakeup, Q!Threads
<1>5. Q!StoppedGivesNothing
  BY <1>2 DEF Q!StoppedGivesNothing, Q!Threads
<1> QED
  BY <1>1, <1>3, <1>4, <1>5 DEF QueueInv

(* push() *)
LEMMA PushInv ==
  ASSUME QueueInv, NEW p \in Pushers, Q!push(p)
  PROVE  QueueInv'
<1>1. PICK x \in Items : deque_' = Append(deque_, x)
  BY QueueOperators DEF Q!push
<1>2. /\ qPc[p] = "idle" /\ qPc' = [qPc EXCEPT ![p] = "notify"]
      /\ UNCHANGED <<stop_, got, started, popped>>
  BY QueueOperators DEF Q!push, Q!Goto
<1>3. deque_ \in Seq(Items) /\ deque_' \in Seq(Items) /\ Len(deque_') = Len(deque_) + 1 /\ Len(deque_) \in Nat
  BY <1>1 DEF QueueInv, Q!TypeOK
<1>4. p \in Q!Threads /\ p \notin Takers /\ p # Stopper
  BY QueueAssumed DEF Q!Threads
<1>5. qPc'[p] = "notify" /\ \A t \in Q!Threads : t # p => qPc'[t] = qPc[t]
  BY <1>2, <1>4 DEF QueueInv, Q!TypeOK
<1>6. Q!TypeOK'
  BY <1>2, <1>3, <1>4 DEF QueueInv, Q!TypeOK
<1>7. QueueRoles'
  BY <1>2, <1>4, <1>5 DEF QueueInv, QueueRoles, Q!Threads
<1>8. Q!NoLostWakeup'
  <2>1. Asleep' = Asleep /\ Awake' = Awake
    BY <1>4, <1>5 DEF Asleep, Awake, Q!Threads
  <2>2. Notifies' = Notifies \cup {p} /\ p \notin Notifies
    BY <1>2, <1>5 DEF Notifies, Q!Threads
  <2>3. Cardinality(Notifies') = Cardinality(Notifies) + 1
    BY <2>2, QueueCounts, FS_AddElement
  <2>4. Asleep' # {} /\ ~stop_' => Len(deque_') <= Cardinality(Awake') + Cardinality(Notifies')
    BY <1>2, <1>3, <2>1, <2>3, QueueCounts, NoLostWakeupCounts DEF QueueInv
  <2> QED
    BY <2>4, QueueOperators DEF Q!NoLostWakeup, Asleep, Awake, Notifies
<1>9. Q!StoppedGivesNothing'
  BY <1>2, <1>4, <1>5 DEF QueueInv, Q!StoppedGivesNothing, Q!Threads
<1> QED
  BY <1>6, <1>7, <1>8, <1>9 DEF QueueInv

(* notify_one of a push *)
LEMMA NotifyOneInv ==
  ASSUME QueueInv, NEW p \in Pushers, Q!NotifyOne(p)
  PROVE  QueueInv'
<1>1. p \in Q!Threads /\ p \notin Takers /\ p # Stopper
  BY QueueAssumed DEF Q!Threads
<1>2. qPc[p] = "notify" /\ UNCHANGED <<deque_, stop_, got, started>>
  BY DEF Q!NotifyOne
<1>3. Len(deque_) \in Nat
  BY DEF QueueInv, Q!TypeOK
<1>4. CASE Asleep = {}
  <2>1. qPc' = [qPc EXCEPT ![p] = "idle"]
    BY <1>4 DEF Q!NotifyOne, Asleep, Q!Goto
  <2>2. qPc'[p] = "idle" /\ \A t \in Q!Threads : t # p => qPc'[t] = qPc[t]
    BY <1>1, <2>1 DEF QueueInv, Q!TypeOK
  <2>3. Q!TypeOK' /\ QueueRoles' /\ Q!StoppedGivesNothing'
    BY <1>1, <1>2, <2>1, <2>2 DEF QueueInv, Q!TypeOK, QueueRoles, Q!StoppedGivesNothing, Q!Threads
  <2>4. Q!NoLostWakeup'
    BY <1>1, <1>4, <2>2, QueueOperators DEF Q!NoLostWakeup, Asleep, Q!Threads
  <2> QED
    BY <2>3, <2>4 DEF QueueInv
<1>5. CASE Asleep # {}
  <2>1. PICK w \in Asleep : qPc' = [qPc EXCEPT ![p] = "idle", ![w] = "awake"]
    BY <1>5 DEF Q!NotifyOne, Asleep
  <2>2. w \in Takers /\ w \in Q!Threads /\ w # p /\ w # Stopper /\ qPc[w] = "asleep"
    BY <1>1, QueueAssumed DEF Asleep, Q!Threads
  <2>3. qPc'[p] = "idle" /\ qPc'[w] = "awake" /\ \A t \in Q!Threads : t # p /\ t # w => qPc'[t] = qPc[t]
    BY <1>1, <2>1, <2>2 DEF QueueInv, Q!TypeOK
  <2>4. Q!TypeOK'
    BY <1>2, <2>1 DEF QueueInv, Q!TypeOK
  <2>5. QueueRoles' /\ Q!StoppedGivesNothing'
    BY <1>1, <1>2, <2>2, <2>3 DEF QueueInv, QueueRoles, Q!StoppedGivesNothing, Q!Threads
  <2>6. Awake' = Awake \cup {w} /\ w \notin Awake
    BY <1>1, <2>2, <2>3 DEF Awake, Q!Threads
  <2>7. Notifies' = Notifies \ {p} /\ p \in Notifies
    BY <1>1, <1>2, <2>2, <2>3, QueueAssumed DEF Notifies, Q!Threads
  <2>8. Cardinality(Awake') = Cardinality(Awake) + 1 /\ Cardinality(Notifies') = Cardinality(Notifies) - 1
    BY <2>6, <2>7, QueueCounts, FS_AddElement, FS_RemoveElement
  <2>9. ~stop_' => Len(deque_') <= Cardinality(Awake') + Cardinality(Notifies')
    BY <1>2, <1>3, <1>5, <2>8, QueueCounts, NoLostWakeupCounts DEF QueueInv
  <2>10. Q!NoLostWakeup'
    BY <2>9, QueueOperators DEF Q!NoLostWakeup, Awake, Notifies
  <2> QED
    BY <2>4, <2>5, <2>10 DEF QueueInv
<1> QED
  BY <1>4, <1>5

(* An item is taken off either end by a thread that stays where it is, or by a waiting one *)
(* that was awake or came from outside.                                                  *)
LEMMA TakenInv ==
  ASSUME QueueInv, NEW t \in Q!Threads, NEW x \in Items,
         deque_ # << >>, deque_' \in Seq(Items), Len(deque_') = Len(deque_) - 1,
         got' = [got EXCEPT ![t] = x], UNCHANGED <<stop_, started>>,
         started => t \notin Takers,
         \/ qPc' = qPc
         \/ t \in Takers /\ qPc[t] \in {"idle", "awake"} /\ qPc' = [qPc EXCEPT ![t] = "idle"]
  PROVE  QueueInv'
<1>1. Q!TypeOK'
  BY DEF QueueInv, Q!TypeOK
<1>2. Len(deque_) \in Nat
  BY DEF QueueInv, Q!TypeOK
<1>3. /\ \A u \in Q!Threads : u # t => qPc'[u] = qPc[u] /\ got'[u] = got[u]
      /\ qPc'[t] = qPc[t] \/ (t \in Takers /\ qPc'[t] = "idle" /\ qPc[t] \in {"idle", "awake"})
  BY DEF QueueInv, Q!TypeOK
<1>4. QueueRoles'
  BY <1>3, QueueAssumed DEF QueueInv, QueueRoles, Q!Threads
<1>5. Q!StoppedGivesNothing'
  BY <1>3 DEF QueueInv, Q!StoppedGivesNothing, Q!Threads
<1>6. Asleep' \subseteq Asleep /\ Notifies' = Notifies /\ (Awake' = Awake \/ Awake' = Awake \ {t})
  BY <1>3, QueueAssumed DEF Asleep, Notifies, Awake, Q!Threads
<1>7. Cardinality(Awake') >= Cardinality(Awake) - 1
  <2>1. CASE Awake' = Awake
    BY <2>1, QueueCounts
  <2>2. CASE Awake' = Awake \ {t} /\ t \in Awake
    <3>1. Cardinality(Awake \ {t}) = Cardinality(Awake) - 1
      BY <2>2, QueueCounts, FS_RemoveElement
    <3> QED
      BY <2>2, <3>1, QueueCounts
  <2> QED
    BY <1>6, <2>1, <2>2
<1>8. Asleep' # {} /\ ~stop_' => Len(deque_') <= Cardinality(Awake') + Cardinality(Notifies')
  BY <1>2, <1>6, <1>7, QueueCounts, NoLostWakeupCounts DEF QueueInv
<1>9. Q!NoLostWakeup'
  BY <1>8, QueueOperators DEF Q!NoLostWakeup, Asleep, Awake, Notifies
<1> QED
  BY <1>1, <1>4, <1>5, <1>9 DEF QueueInv

(* wait_pop(): an item is taken, or the thread goes to sleep or leaves *)
LEMMA WaitPopInv ==
  ASSUME QueueInv, NEW w \in Takers, Q!wait_pop(w)
  PROVE  QueueInv'
<1>1. w \in Q!Threads /\ w \notin Pushers /\ w # Stopper /\ qPc[w] \in {"idle", "awake"} /\ deque_ \in Seq(Items)
  BY QueueAssumed DEF Q!Threads, Q!wait_pop, QueueInv, Q!TypeOK
<1>2. CASE ~stop_ /\ deque_ # << >>
  <2>1. /\ got' = [got EXCEPT ![w] = Head(deque_)] /\ deque_' = Tail(deque_)
        /\ qPc' = [qPc EXCEPT ![w] = "idle"] /\ UNCHANGED <<stop_, started>>
    BY <1>2 DEF Q!wait_pop, Q!PopFront, Q!Goto
  <2>2. Head(deque_) \in Items /\ deque_' \in Seq(Items) /\ Len(deque_') = Len(deque_) - 1
    BY <1>1, <1>2, <2>1
  <2>3. ~started
    BY <1>2 DEF QueueInv, QueueRoles
  <2> QED
    BY <1>1, <1>2, <2>1, <2>2, <2>3, TakenInv
<1>3. CASE stop_ \/ deque_ = << >>
  <2>1. /\ qPc' = [qPc EXCEPT ![w] = IF stop_ THEN "stopped" ELSE "asleep"]
        /\ UNCHANGED <<got, deque_, stop_, started>>
    BY <1>3 DEF Q!wait_pop, Q!Goto
  <2>2. /\ qPc'[w] = (IF stop_ THEN "stopped" ELSE "asleep")
        /\ \A u \in Q!Threads : u # w => qPc'[u] = qPc[u]
    BY <1>1, <2>1 DEF QueueInv, Q!TypeOK
  <2>3. Q!TypeOK'
    BY <2>1 DEF QueueInv, Q!TypeOK
  <2>4. QueueRoles' /\ Q!StoppedGivesNothing'
    BY <1>1, <2>1, <2>2 DEF QueueInv, QueueRoles, Q!StoppedGivesNothing, Q!Threads
  <2>5. ~stop_' => Len(deque_') <= Cardinality(Awake') + Cardinality(Notifies')
    <3>1. ~stop_' => Len(deque_') = 0
      BY <1>3, <2>1
    <3> QED
      BY <3>1, QueueCounts
  <2>6. Q!NoLostWakeup'
    BY <2>5, QueueOperators DEF Q!NoLostWakeup, Awake, Notifies
  <2> QED
    BY <2>3, <2>4, <2>6 DEF QueueInv
<1> QED
  BY <1>2, <1>3

(* A thread that wakes for nothing counts as awake. *)
LEMMA SpuriousWakeInv ==
  ASSUME QueueInv, NEW w \in Takers, Q!SpuriousWake(w)
  PROVE  QueueInv'
<1>1. w \in Q!Threads /\ w \notin Pushers /\ w # Stopper
  BY QueueAssumed DEF Q!Threads
<1>2. qPc[w] = "asleep" /\ qPc' = [qPc EXCEPT ![w] = "awake"] /\ UNCHANGED <<deque_, stop_, got, started>>
  BY DEF Q!SpuriousWake, Q!Goto
<1>3. qPc'[w] = "awake" /\ \A u \in Q!Threads : u # w => qPc'[u] = qPc[u]
  BY <1>1, <1>2 DEF QueueInv, Q!TypeOK
<1>4. Q!TypeOK'
  BY <1>2 DEF QueueInv, Q!TypeOK
<1>5. QueueRoles' /\ Q!StoppedGivesNothing'
  BY <1>1, <1>2, <1>3 DEF QueueInv, QueueRoles, Q!StoppedGivesNothing, Q!Threads
<1>6. Asleep' \subseteq Asleep /\ Notifies' = Notifies /\ Awake' = Awake \cup {w} /\ w \notin Awake
  BY <1>1, <1>2, <1>3 DEF Asleep, Notifies, Awake, Q!Threads
<1>7. Cardinality(Awake') = Cardinality(Awake) + 1
  BY <1>6, QueueCounts, FS_AddElement
<1>8. Len(deque_) \in Nat
  BY DEF QueueInv, Q!TypeOK
<1>9. Asleep' # {} /\ ~stop_' => Len(deque_') <= Cardinality(Awake') + Cardinality(Notifies')
  BY <1>2, <1>6, <1>7, <1>8, QueueCounts, NoLostWakeupCounts DEF QueueInv
<1>10. Q!NoLostWakeup'
  BY <1>9, QueueOperators DEF Q!NoLostWakeup, Asleep, Awake, Notifies
<1> QED
  BY <1>4, <1>5, <1>10 DEF QueueInv

(* stop(), which leaves nobody asleep once it has notified *)
LEMMA StopInv ==
  ASSUME QueueInv, Q!stop \/ Q!NotifyAll
  PROVE  QueueInv'
<1>1. Stopper \in Q!Threads /\ Stopper \notin Pushers \cup Takers
  BY QueueAssumed DEF Q!Threads
<1>2. CASE Q!stop
  <2>1. stop_' = TRUE /\ qPc' = [qPc EXCEPT ![Stopper] = "notify"] /\ UNCHANGED <<deque_, got, started>>
    BY <1>2 DEF Q!stop, Q!Goto
  <2>2. \A u \in Q!Threads : u # Stopper => qPc'[u] = qPc[u]
    BY <1>1, <2>1 DEF QueueInv, Q!TypeOK
  <2>3. Q!TypeOK'
    BY <2>1 DEF QueueInv, Q!TypeOK
  <2>4. QueueRoles' /\ Q!StoppedGivesNothing' /\ Q!NoLostWakeup'
    BY <1>1, <2>1, <2>2, QueueOperators DEF QueueInv, QueueRoles, Q!StoppedGivesNothing, Q!NoLostWakeup, Q!Threads
  <2> QED
    BY <2>3, <2>4 DEF QueueInv
<1>3. CASE Q!NotifyAll
  <2>1. /\ qPc[Stopper] = "notify"
        /\ qPc' = [t \in Q!Threads |-> IF t = Stopper THEN "ended" ELSE IF qPc[t] = "asleep" THEN "awake" ELSE qPc[t]]
        /\ UNCHANGED <<deque_, stop_, got, started>>
    BY <1>3 DEF Q!NotifyAll
  <2>2. \A u \in Q!Threads : u # Stopper => qPc'[u] = IF qPc[u] = "asleep" THEN "awake" ELSE qPc[u]
    BY <2>1
  <2>3. Q!TypeOK'
    BY <2>1 DEF QueueInv, Q!TypeOK
  <2>4. QueueRoles'
    BY <1>1, <2>1, <2>2 DEF QueueInv, QueueRoles, Q!Threads
  <2>5. \A w \in Takers : qPc'[w] # "asleep"
    BY <1>1, <2>2 DEF Q!Threads
  <2>6. Q!StoppedGivesNothing' /\ Q!NoLostWakeup'
    BY <2>1, <2>5, QueueOperators DEF QueueInv, Q!StoppedGivesNothing, Q!NoLostWakeup
  <2> QED
    BY <2>3, <2>4, <2>6 DEF QueueInv
<1> QED
  BY <1>2, <1>3

(* Prefixes of a sequence *)
LEMMA PrefixOf ==
  ASSUME NEW D, NEW s \in Seq(D), NEW len \in Nat, len <= Len(s)
  PROVE  SubSeq(s, 1, len) \in Seq(D) /\ Len(SubSeq(s, 1, len)) = len
OBVIOUS

(* pop_back() *)
LEMMA FrontOf ==
  ASSUME NEW D, NEW s \in Seq(D), s # << >>
  PROVE  Q!Front(s) \in Seq(D) /\ Len(Q!Front(s)) = Len(s) - 1
<1>1. Len(s) - 1 \in Nat /\ Len(s) - 1 <= Len(s)
  OBVIOUS
<1>2. Q!Front(s) = SubSeq(s, 1, Len(s) - 1)
  BY DEF Q!Front
<1> QED
  BY <1>1, <1>2, PrefixOf

(* try_pop() and try_steal() *)
LEMMA TryInv ==
  ASSUME QueueInv, NEW t \in Triers, t \notin Takers, Q!try_pop(t) \/ Q!try_steal(t)
  PROVE  QueueInv'
<1>1. t \in Q!Threads /\ deque_ # << >> /\ deque_ \in Seq(Items) /\ UNCHANGED <<stop_, qPc, started>>
  BY QueueOperators DEF Q!Threads, Q!try_pop, Q!try_steal, QueueInv, Q!TypeOK
<1>2. CASE Q!try_pop(t)
  <2>1. got' = [got EXCEPT ![t] = Head(deque_)] /\ deque_' = Tail(deque_)
    BY <1>2 DEF Q!try_pop, Q!PopFront
  <2>2. Head(deque_) \in Items /\ deque_' \in Seq(Items) /\ Len(deque_') = Len(deque_) - 1
    BY <1>1, <2>1
  <2> QED
    BY <1>1, <2>1, <2>2, TakenInv
<1>3. CASE Q!try_steal(t)
  <2>1. got' = [got EXCEPT ![t] = Q!Last(deque_)] /\ deque_' = Q!Front(deque_)
    BY <1>3, QueueOperators DEF Q!try_steal
  <2>2. Len(deque_) \in Nat \ {0} /\ Q!Last(deque_) = deque_[Len(deque_)]
    BY <1>1 DEF Q!Last
  <2>3. Q!Last(deque_) \in Items
    BY <1>1, <2>2
  <2>4. deque_' \in Seq(Items) /\ Len(deque_') = Len(deque_) - 1
    BY <1>1, <2>1, FrontOf
  <2> QED
    BY <1>1, <2>1, <2>3, <2>4, TakenInv
<1> QED
  BY <1>1, <1>2, <1>3

(* Every step keeps it. *)
LEMMA QueueNext == QueueInv /\ [Q!Next]_(Q!vars) => QueueInv'
<1> SUFFICES ASSUME QueueInv, [Q!Next]_(Q!vars) PROVE QueueInv'
  OBVIOUS
<1>1. CASE UNCHANGED Q!vars
  BY <1>1, QueueOperators DEF Q!vars, QueueInv, Q!TypeOK, QueueRoles, Q!NoLostWakeup, Q!StoppedGivesNothing
<1>2. ASSUME NEW t \in Triers, Q!try_pop(t) \/ Q!try_steal(t) PROVE QueueInv'
  BY <1>2, TryInv, QueueAssumed
<1> QED
  BY <1>1, <1>2, PushInv, NotifyOneInv, WaitPopInv, SpuriousWakeInv, StopInv DEF Q!Next

(* It holds for ever. *)
LEMMA QueueInvHolds == Q!Spec => []QueueInv
<1>1. Q!Init => QueueInv
  BY QueueInit
<1>2. QueueInv /\ [Q!Next]_(Q!vars) => QueueInv'
  BY QueueNext
<1> QED
  BY <1>1, <1>2, PTL DEF Q!Spec
-----------------------------------------------------------------------------
(* A thread that sleeps in wait_pop() leaves no item that nobody is on the way to. *)
THEOREM NoLostWakeupHolds == Q!Spec => []Q!NoLostWakeup
<1>1. Q!Spec => []QueueInv
  BY QueueInvHolds
<1>2. QueueInv => Q!NoLostWakeup
  BY DEF QueueInv
<1> QED
  BY <1>1, <1>2, PTL

(* wait_pop() gives nothing for ever if stop_ happens to be set at first. *)
THEOREM StoppedGivesNothingHolds == Q!Spec => []Q!StoppedGivesNothing
<1>1. Q!Spec => []QueueInv
  BY QueueInvHolds
<1>2. QueueInv => Q!StoppedGivesNothing
  BY DEF QueueInv
<1> QED
  BY <1>1, <1>2, PTL
-----------------------------------------------------------------------------
(* What a pop from the back leaves: the items popped from the front, then the deque. *)
KeptItems == popped[1] \o deque_

(* The sequences have no item twice or in common, together they have what was pushed, and *)
(* what is kept is in the order of the pushes.                                           *)
ItemsOnce ==
  /\ pushed \in Seq(Items) /\ popped \in [1..2 -> Seq(Items)]
  /\ IsInjective(pushed) /\ IsInjective(KeptItems) /\ IsInjective(popped[2])
  /\ Range(KeptItems) \cap Range(popped[2]) = {}
  /\ Range(KeptItems) \cup Range(popped[2]) = Range(pushed)
  /\ \A i, j \in DOMAIN KeptItems : i < j => Q!Before(pushed, KeptItems[i], KeptItems[j])

(* An item is added at the end of a sequence. *)
LEMMA Appended ==
  ASSUME NEW D, NEW s \in Seq(D), NEW x \in D
  PROVE  /\ Append(s, x) \in Seq(D)
         /\ DOMAIN s \subseteq DOMAIN Append(s, x)
         /\ \A i \in DOMAIN s : Append(s, x)[i] = s[i]
         /\ \A i \in DOMAIN Append(s, x) : i \in DOMAIN s \/ Append(s, x)[i] = x
         /\ Range(Append(s, x)) = Range(s) \cup {x}
         /\ x \notin Range(s) => (IsInjective(Append(s, x)) <=> IsInjective(s))
         /\ IsInjective(Append(s, x)) => x \notin Range(s)
<1> DEFINE a == Append(s, x)
           len == Len(s)
<1>1. /\ len \in Nat /\ DOMAIN s = 1..len /\ a \in Seq(D) /\ DOMAIN a = 1..(len + 1)
      /\ \A i \in 1..len : a[i] = s[i]
      /\ a[len + 1] = x
  BY AppendProperties, LenProperties
<1> HIDE DEF a, len
<1>2. ASSUME NEW i \in DOMAIN a
      PROVE (i \in DOMAIN s /\ a[i] = s[i]) \/ (i = len + 1 /\ a[i] = x)
  <2>1. i \in 1..len \/ i = len + 1
    BY <1>1
  <2> QED
    BY <1>1, <2>1
<1>3. \A i \in DOMAIN s : i \in DOMAIN a /\ a[i] = s[i] /\ i # len + 1
  BY <1>1
<1>4. len + 1 \in DOMAIN a /\ a[len + 1] = x
  BY <1>1
<1>5. Range(a) = Range(s) \cup {x}
  BY <1>2, <1>3, <1>4 DEF Range
<1>6. x \notin Range(s) => (IsInjective(a) <=> IsInjective(s))
  BY <1>2, <1>3 DEF Range, IsInjective
<1>7. IsInjective(a) => x \notin Range(s)
  BY <1>3, <1>4 DEF Range, IsInjective
<1> QED
  BY <1>1, <1>2, <1>3, <1>5, <1>6, <1>7 DEF a

(* pop_back() undoes a push. *)
LEMMA LastOf ==
  ASSUME NEW D, NEW s \in Seq(D), s # << >>
  PROVE  Q!Front(s) \in Seq(D) /\ Q!Last(s) \in D /\ s = Append(Q!Front(s), Q!Last(s))
<1>1. Q!Front(s) \in Seq(D) /\ Len(Q!Front(s)) = Len(s) - 1
  BY FrontOf
<1>2. Len(s) \in Nat \ {0} /\ Q!Last(s) = s[Len(s)] /\ Q!Last(s) \in D
  BY DEF Q!Last
<1>3. \A i \in 1..(Len(s) - 1) : Q!Front(s)[i] = s[i]
  BY <1>2 DEF Q!Front
<1> DEFINE a == Append(Q!Front(s), Q!Last(s))
<1>4. /\ a \in Seq(D) /\ Len(a) = Len(s)
      /\ \A i \in 1..(Len(s) - 1) : a[i] = Q!Front(s)[i]
      /\ a[Len(s)] = Q!Last(s)
  BY <1>1, <1>2, AppendProperties
<1>5. \A i \in 1..Len(s) : s[i] = a[i]
  BY <1>2, <1>3, <1>4
<1>6. s = a
  BY <1>4, <1>5, SeqEqual
<1> QED
  BY <1>1, <1>2, <1>6

(* Appending to the second of two sequences appends to both. *)
LEMMA ConcatAppend ==
  ASSUME NEW D, NEW a \in Seq(D), NEW s \in Seq(D), NEW x \in D
  PROVE  a \o Append(s, x) = Append(a \o s, x)
<1>1. /\ <<x>> \in Seq(D) /\ Append(s, x) = s \o <<x>>
      /\ a \o s \in Seq(D) /\ Append(a \o s, x) = (a \o s) \o <<x>>
  BY ConcatProperties, AppendIsConcat
<1> QED
  BY <1>1, ConcatAssociative

(* pop_front() moves an item from the deque to what was popped. *)
LEMMA ConcatHead ==
  ASSUME NEW D, NEW a \in Seq(D), NEW s \in Seq(D), s # << >>
  PROVE  /\ Head(s) \in D /\ Tail(s) \in Seq(D) /\ Append(a, Head(s)) \in Seq(D)
         /\ Append(a, Head(s)) \o Tail(s) = a \o s
<1>1. /\ Head(s) \in D /\ Tail(s) \in Seq(D) /\ <<Head(s)>> \in Seq(D)
      /\ Append(a, Head(s)) = a \o <<Head(s)>> /\ Append(a, Head(s)) \in Seq(D)
  BY HeadTailProperties, AppendIsConcat, AppendProperties
<1>2. <<Head(s)>> \o Tail(s) = s
  BY <1>1
<1> QED
  BY <1>1, <1>2, ConcatAssociative

(* ItemsOnce implies what the runs check. *)
LEMMA ItemsOnceIsEachItemOnce == Q!TypeOK /\ ItemsOnce => Q!EachItemOnce
<1> SUFFICES ASSUME Q!TypeOK, ItemsOnce PROVE Q!EachItemOnce
  OBVIOUS
<1> DEFINE k == KeptItems
           b == popped[2]
<1>1. k \in Seq(Items) /\ b \in Seq(Items)
  BY ConcatProperties DEF Q!TypeOK, ItemsOnce, KeptItems
<1>2. /\ IsInjective(k) /\ IsInjective(b) /\ Range(k) \cap Range(b) = {}
      /\ Range(k) \cup Range(b) = Range(pushed)
  BY DEF ItemsOnce
<1> HIDE DEF k, b
<1>3. /\ Len(k) \in Nat /\ Len(b) \in Nat /\ DOMAIN k = 1..Len(k) /\ DOMAIN b = 1..Len(b)
      /\ DOMAIN (k \o b) = 1..(Len(k) + Len(b))
      /\ \A i \in 1..(Len(k) + Len(b)) : (k \o b)[i] = IF i <= Len(k) THEN k[i] ELSE b[i - Len(k)]
  BY <1>1, ConcatProperties, LenProperties
<1>4. \A i \in 1..(Len(k) + Len(b)) :
        IF i <= Len(k) THEN i \in DOMAIN k /\ (k \o b)[i] \in Range(k)
        ELSE i - Len(k) \in DOMAIN b /\ (k \o b)[i] \in Range(b)
  BY <1>3 DEF Range
<1>5. IsInjective(k \o b)
  <2> SUFFICES ASSUME NEW i \in 1..(Len(k) + Len(b)), NEW j \in 1..(Len(k) + Len(b)),
                      (k \o b)[i] = (k \o b)[j]
               PROVE  i = j
    BY <1>3 DEF IsInjective
  <2>1. (i <= Len(k)) <=> (j <= Len(k))
    BY <1>2, <1>4
  <2>2. CASE i <= Len(k)
    BY <1>2, <1>3, <1>4, <2>1, <2>2 DEF IsInjective
  <2>3. CASE ~(i <= Len(k))
    <3>1. b[i - Len(k)] = b[j - Len(k)] /\ i - Len(k) \in DOMAIN b /\ j - Len(k) \in DOMAIN b
      BY <1>3, <1>4, <2>1, <2>3
    <3>2. i - Len(k) = j - Len(k)
      BY <1>2, <3>1 DEF IsInjective
    <3> QED
      BY <1>3, <3>2
  <2> QED
    BY <2>2, <2>3
<1>6. Range(k \o b) = Range(pushed)
  <2>1. Range(k \o b) = Range(k) \cup Range(b)
    BY <1>1, RangeConcatenation
  <2> QED
    BY <1>2, <2>1
<1> QED
  BY <1>5, <1>6, QueueOperators DEF Q!EachItemOnce, ItemsOnce, KeptItems, k, b

(* An item is pushed that was not pushed before. *)
LEMMA PushOnce ==
  ASSUME Q!TypeOK, ItemsOnce, NEW p \in Pushers, Q!push(p)
  PROVE  ItemsOnce'
<1>1. PICK x \in Items \ Range(pushed) : deque_' = Append(deque_, x) /\ pushed' = Append(pushed, x)
  BY QueueOperators DEF Q!push
<1>2. popped' = popped
  BY QueueOperators DEF Q!push
<1>3. KeptItems \in Seq(Items) /\ pushed \in Seq(Items) /\ KeptItems' = Append(KeptItems, x)
  BY <1>1, <1>2, ConcatProperties, ConcatAppend DEF Q!TypeOK, ItemsOnce, KeptItems
<1>4. x \notin Range(KeptItems) /\ x \notin Range(popped[2])
  BY DEF ItemsOnce
<1>5. Range(KeptItems') = Range(KeptItems) \cup {x} /\ Range(pushed') = Range(pushed) \cup {x}
  BY <1>1, <1>3, Appended
<1>6. IsInjective(pushed') /\ IsInjective(KeptItems')
  <2>1. IsInjective(pushed) /\ IsInjective(KeptItems)
    BY DEF ItemsOnce
  <2> QED
    BY <1>1, <1>3, <1>4, <2>1, Appended
<1>7. ASSUME NEW i \in DOMAIN KeptItems', NEW j \in DOMAIN KeptItems', i < j
      PROVE  Q!Before(pushed', KeptItems'[i], KeptItems'[j])
  <2>1. DOMAIN pushed \subseteq DOMAIN pushed' /\ \A m \in DOMAIN pushed : pushed'[m] = pushed[m]
    BY <1>1, <1>3, Appended
  <2>2. i \in DOMAIN KeptItems /\ KeptItems'[i] = KeptItems[i]
    <3>1. /\ DOMAIN KeptItems = 1..Len(KeptItems) /\ DOMAIN KeptItems' = 1..(Len(KeptItems) + 1) /\ Len(KeptItems) \in Nat
          /\ \A m \in 1..Len(KeptItems) : KeptItems'[m] = KeptItems[m]
      BY <1>3, AppendProperties, LenProperties
    <3>2. i \in 1..Len(KeptItems)
      BY <1>7, <3>1
    <3> QED
      BY <3>1, <3>2
  <2>3. CASE j \in DOMAIN KeptItems
    <3>1. KeptItems'[j] = KeptItems[j]
      BY <1>3, <2>3, Appended
    <3>2. Q!Before(pushed, KeptItems[i], KeptItems[j])
      BY <1>7, <2>2, <2>3 DEF ItemsOnce
    <3> QED
      BY <2>1, <2>2, <3>1, <3>2 DEF Q!Before
  <2>4. CASE j \notin DOMAIN KeptItems
    <3>1. KeptItems'[j] = x
      BY <1>3, <2>4, Appended
    <3>2. KeptItems[i] \in Range(pushed)
      BY <2>2 DEF ItemsOnce, Range
    <3>3. PICK m \in DOMAIN pushed : pushed[m] = KeptItems[i]
      BY <3>2 DEF Range
    <3>4. /\ Len(pushed) \in Nat /\ DOMAIN pushed = 1..Len(pushed) /\ DOMAIN pushed' = 1..(Len(pushed) + 1)
          /\ pushed'[Len(pushed) + 1] = x
      BY <1>1, <1>3, AppendProperties, LenProperties
    <3>5. Len(pushed) + 1 \in DOMAIN pushed' /\ m < Len(pushed) + 1
      BY <3>4
    <3> QED
      BY <2>1, <2>2, <3>1, <3>3, <3>4, <3>5 DEF Q!Before
  <2> QED
    BY <2>3, <2>4
<1>8. pushed' \in Seq(Items) /\ popped' \in [1..2 -> Seq(Items)]
  BY <1>1, <1>2, <1>3, Appended DEF ItemsOnce
<1>9. /\ IsInjective(popped'[2]) /\ Range(KeptItems') \cap Range(popped'[2]) = {}
      /\ Range(KeptItems') \cup Range(popped'[2]) = Range(pushed')
  BY <1>2, <1>4, <1>5 DEF ItemsOnce
<1> QED
  BY <1>6, <1>7, <1>8, <1>9 DEF ItemsOnce

(* wait_pop() and try_pop() take the first of the deque. *)
LEMMA PopFrontOnce ==
  ASSUME Q!TypeOK, ItemsOnce, NEW t \in Q!Threads, deque_ # << >>, Q!PopFront(t), UNCHANGED pushed
  PROVE  ItemsOnce'
<1>1. popped'[1] = Append(popped[1], Head(deque_)) /\ popped'[2] = popped[2] /\ deque_' = Tail(deque_)
  BY DEF Q!PopFront, ItemsOnce
<1>2. KeptItems' = KeptItems
  BY <1>1, ConcatHead DEF Q!TypeOK, ItemsOnce, KeptItems
<1>3. popped' \in [1..2 -> Seq(Items)]
  <2>1. popped[1] \in Seq(Items) /\ Append(popped[1], Head(deque_)) \in Seq(Items)
    BY ConcatHead DEF Q!TypeOK, ItemsOnce
  <2> QED
    BY <2>1 DEF Q!PopFront, ItemsOnce
<1> QED
  BY <1>1, <1>2, <1>3 DEF ItemsOnce

(* try_steal() takes the last of the deque. *)
LEMMA StealOnce ==
  ASSUME Q!TypeOK, ItemsOnce, NEW t \in Triers, Q!try_steal(t)
  PROVE  ItemsOnce'
<1> DEFINE x == Q!Last(deque_)
<1>1. /\ popped'[1] = popped[1] /\ popped'[2] = Append(popped[2], x)
      /\ deque_' = Q!Front(deque_) /\ pushed' = pushed /\ deque_ # << >>
  BY QueueOperators DEF Q!try_steal, ItemsOnce
<1>2. /\ deque_' \in Seq(Items) /\ x \in Items /\ deque_ = Append(deque_', x)
      /\ popped[1] \in Seq(Items) /\ popped[2] \in Seq(Items)
  <2>1. popped[1] \in Seq(Items) /\ popped[2] \in Seq(Items)
    BY DEF ItemsOnce
  <2> QED
    BY <1>1, <2>1, LastOf DEF Q!TypeOK
<1>a. popped' \in [1..2 -> Seq(Items)]
  <2>1. Append(popped[2], x) \in Seq(Items)
    BY <1>2, Appended
  <2> QED
    BY <2>1, QueueOperators DEF Q!try_steal, ItemsOnce
<1> HIDE DEF x
<1>3. KeptItems' \in Seq(Items) /\ KeptItems = Append(KeptItems', x)
  <2>1. KeptItems' = popped[1] \o deque_'
    BY <1>1 DEF KeptItems
  <2>2. KeptItems = popped[1] \o Append(deque_', x)
    <3>1. deque_ = Append(deque_', x)
      BY <1>2
    <3> QED
      BY <3>1, Zenon DEF KeptItems
  <2>3. popped[1] \o Append(deque_', x) = Append(popped[1] \o deque_', x)
    <3>1. popped[1] \in Seq(Items) /\ deque_' \in Seq(Items) /\ x \in Items
      BY <1>2
    <3>2. \A a, s \in Seq(Items) : \A y \in Items : a \o Append(s, y) = Append(a \o s, y)
      BY ConcatAppend
    <3> QED
      BY <3>1, <3>2
  <2>4. popped[1] \o deque_' \in Seq(Items)
    BY <1>2, ConcatProperties
  <2> QED
    BY <2>1, <2>2, <2>3, <2>4
<1>4. Range(KeptItems) = Range(KeptItems') \cup {x} /\ IsInjective(KeptItems) /\ x \notin Range(KeptItems') /\ IsInjective(KeptItems')
  BY <1>2, <1>3, Appended DEF ItemsOnce
<1>5. x \notin Range(popped[2]) /\ IsInjective(popped[2])
  BY <1>4 DEF ItemsOnce
<1>6. Range(popped'[2]) = Range(popped[2]) \cup {x} /\ IsInjective(popped'[2])
  BY <1>1, <1>2, <1>5, Appended
<1>7. \A i, j \in DOMAIN KeptItems' : i < j => Q!Before(pushed', KeptItems'[i], KeptItems'[j])
  <2>1. DOMAIN KeptItems' \subseteq DOMAIN KeptItems /\ \A i \in DOMAIN KeptItems' : KeptItems'[i] = KeptItems[i]
    BY <1>2, <1>3, Appended
  <2> QED
    BY <1>1, <2>1 DEF ItemsOnce
<1>8. /\ Range(KeptItems') \cap Range(popped'[2]) = {}
      /\ Range(KeptItems') \cup Range(popped'[2]) = Range(pushed')
      /\ IsInjective(pushed') /\ pushed' \in Seq(Items)
  BY <1>1, <1>4, <1>6 DEF ItemsOnce
<1> QED
  BY <1>4, <1>6, <1>7, <1>8, <1>a DEF ItemsOnce

(* Every item pushed is in the deque or was popped, once; what the pops from the back leave *)
(* is in the order it was pushed.                                                         *)
THEOREM EachItemOnceHolds == Q!Spec => []Q!EachItemOnce
<1>1. Q!Init => ItemsOnce
  <2> SUFFICES ASSUME Q!Init PROVE ItemsOnce
    OBVIOUS
  <2>1. popped[1] = << >> /\ popped[2] = << >> /\ deque_ = << >> /\ pushed = << >>
    BY DEF Q!Init
  <2>2. KeptItems = << >>
    BY <2>1, EmptySeq, ConcatEmptySeq DEF KeptItems
  <2>3. DOMAIN << >> = {}
    OBVIOUS
  <2>4. popped \in [1..2 -> Seq(Items)] /\ pushed \in Seq(Items)
    <3>1. << >> \in Seq(Items)
      BY EmptySeq
    <3>2. popped = << << >>, << >> >> /\ pushed = << >>
      BY DEF Q!Init
    <3>3. popped \in Seq(Seq(Items)) /\ Len(popped) = 2
      BY <3>1, <3>2
    <3> QED
      BY <3>1, <3>2, <3>3, LenProperties
  <2> QED
    BY <2>1, <2>2, <2>3, <2>4 DEF ItemsOnce, IsInjective, Range
<1>2. QueueInv /\ ItemsOnce /\ [Q!Next]_(Q!vars) => ItemsOnce'
  <2> SUFFICES ASSUME QueueInv, ItemsOnce, [Q!Next]_(Q!vars) PROVE ItemsOnce'
    OBVIOUS
  <2>a. Q!TypeOK
    BY DEF QueueInv
  <2>1. ASSUME UNCHANGED <<deque_, pushed, popped>> PROVE ItemsOnce'
    BY <2>1 DEF ItemsOnce, KeptItems
  <2>2. ASSUME NEW p \in Pushers, Q!push(p) PROVE ItemsOnce'
    BY <2>2, <2>a, PushOnce
  <2>3. ASSUME NEW p \in Pushers, Q!NotifyOne(p) PROVE ItemsOnce'
    BY <2>1, <2>3 DEF Q!NotifyOne
  <2>4. ASSUME NEW w \in Takers, Q!wait_pop(w) PROVE ItemsOnce'
    <3>1. w \in Q!Threads
      BY DEF Q!Threads
    <3>2. CASE ~stop_ /\ deque_ # << >> /\ Q!PopFront(w)
      <4>1. pushed' = pushed
        BY <2>4 DEF Q!wait_pop
      <4> QED
        BY <2>a, <3>1, <3>2, <4>1, PopFrontOnce
    <3>3. CASE UNCHANGED <<got, deque_, popped>>
      BY <2>1, <2>4, <3>3 DEF Q!wait_pop
    <3> QED
      BY <2>4, <3>2, <3>3 DEF Q!wait_pop
  <2>5. ASSUME NEW w \in Takers, Q!SpuriousWake(w) PROVE ItemsOnce'
    BY <2>1, <2>5 DEF Q!SpuriousWake
  <2>6. ASSUME NEW t \in Triers, Q!try_pop(t) PROVE ItemsOnce'
    <3>1. t \in Q!Threads /\ deque_ # << >> /\ Q!PopFront(t) /\ pushed' = pushed
      BY <2>6 DEF Q!Threads, Q!try_pop
    <3> QED
      BY <2>a, <3>1, PopFrontOnce
  <2>7. ASSUME NEW t \in Triers, Q!try_steal(t) PROVE ItemsOnce'
    BY <2>7, <2>a, StealOnce
  <2>8. ASSUME Q!stop \/ Q!NotifyAll PROVE ItemsOnce'
    BY <2>1, <2>8 DEF Q!stop, Q!NotifyAll
  <2>9. CASE UNCHANGED Q!vars
    BY <2>1, <2>9 DEF Q!vars
  <2> QED
    BY <2>2, <2>3, <2>4, <2>5, <2>6, <2>7, <2>8, <2>9 DEF Q!Next
<1>3. QueueInv => Q!TypeOK
  BY DEF QueueInv
<1> QED
  BY <1>1, <1>2, <1>3, QueueInvHolds, ItemsOnceIsEachItemOnce, PTL DEF Q!Spec

(* Nothing is lost: no item, whichever end it is taken from, and no wake-up, unless the     *)
(* queue was stopped.                                                                     *)
THEOREM QueueIsSafe == Q!Spec => []Q!Safety
  BY EachItemOnceHolds, NoLostWakeupHolds, StoppedGivesNothingHolds, PTL DEF Q!Safety
-----------------------------------------------------------------------------
(* TaskChain: what its proofs are about is the same instance. *)
CP == INSTANCE TaskChain_proofs WITH main <- cMain, late <- cLate

(* Operators, *)
LEMMA ChainOperators ==
  /\ \A s : C!Range(s) = CP!Range(s)
  /\ C!Tasks = CP!Tasks /\ C!Threads = CP!Threads /\ C!Blocking = CP!Blocking /\ C!vars = CP!vars
  /\ \A t : C!Kind(t) = CP!Kind(t)
BY DEF C!Range, CP!Range, C!Tasks, CP!Tasks, C!Threads, CP!Threads, C!Blocking, CP!Blocking,
       C!vars, CP!vars, C!Kind, CP!Kind

(* ... initial states, *)
LEMMA ChainInit == C!Init => CP!Init
BY ChainOperators DEF C!Init, CP!Init

(* ... steps, *)
LEMMA ChainNext == [C!Next]_(C!vars) => [CP!Next]_(CP!vars)
<1> USE ChainOperators DEF C!Late, CP!Late, C!Handed, CP!Handed, C!Released, CP!Released, C!Create, CP!Create,
        C!GoesOn, CP!GoesOn, C!Running, CP!Running, C!Completed, CP!Completed, C!Destroying, CP!Destroying,
        C!Destroyed, CP!Destroyed, C!Woken, CP!Woken
<1>1. C!CallMain => CP!CallMain
  BY DEF C!CallMain, CP!CallMain
<1>2. C!GetMain => CP!GetMain
  BY DEF C!GetMain, CP!GetMain
<1>3. ASSUME NEW x, C!Notify(x) PROVE CP!Notify(x)
  BY <1>3 DEF C!Notify, CP!Notify
<1>4. ASSUME NEW t, C!Resume(t) PROVE CP!Resume(t)
  BY <1>4 DEF C!Resume, CP!Resume, C!OnShared, CP!OnShared
<1>5. ASSUME NEW t, C!StartSleep(t) PROVE CP!StartSleep(t)
  BY <1>5 DEF C!StartSleep, CP!StartSleep
<1>6. ASSUME NEW t, C!EndSleep(t) PROVE CP!EndSleep(t)
  BY <1>6 DEF C!EndSleep, CP!EndSleep
<1>7. ASSUME NEW t, C!CallTask(t) PROVE CP!CallTask(t)
  BY <1>7 DEF C!CallTask, CP!CallTask
<1>8. ASSUME NEW t, C!AwaitTask(t) PROVE CP!AwaitTask(t)
  BY <1>8 DEF C!AwaitTask, CP!AwaitTask
<1>9. ASSUME NEW t, C!Get(t) PROVE CP!Get(t)
  BY <1>9 DEF C!Get, CP!Get
<1>10. ASSUME NEW t, C!Complete(t) PROVE CP!Complete(t)
  BY <1>10 DEF C!Complete, CP!Complete
<1>11. ASSUME NEW t, C!NotifyCallback(t) PROVE CP!NotifyCallback(t)
  BY <1>11 DEF C!NotifyCallback, CP!NotifyCallback
<1>12. ASSUME NEW t, C!Unlock(t) PROVE CP!Unlock(t)
  BY <1>12 DEF C!Unlock, CP!Unlock
<1>13. ASSUME NEW t, C!FinalSuspend(t) PROVE CP!FinalSuspend(t)
  BY <1>13 DEF C!FinalSuspend, CP!FinalSuspend
<1>14. ASSUME NEW t, C!Run(t) PROVE CP!Run(t)
  BY <1>4, <1>5, <1>6, <1>7, <1>8, <1>9, <1>10, <1>11, <1>12, <1>13, <1>14 DEF C!Run, CP!Run
<1>15. ASSUME NEW t, C!Loop(t) \/ C!SpuriousWake(t) PROVE CP!Loop(t) \/ CP!SpuriousWake(t)
  BY <1>15 DEF C!Loop, CP!Loop, C!LoopTest, CP!LoopTest, C!LoopWait, CP!LoopWait, C!SpuriousWake, CP!SpuriousWake,
               C!Looping, CP!Looping
<1>16. ASSUME NEW t, C!Destroy(t) PROVE CP!Destroy(t)
  BY <1>16 DEF C!Destroy, CP!Destroy, C!StopLooper, CP!StopLooper, C!NotifyAll, CP!NotifyAll,
               C!JoinLooper, CP!JoinLooper, C!Ending, CP!Ending
<1>17. C!Next => CP!Next
  BY <1>1, <1>2, <1>3, <1>14, <1>15, <1>16 DEF C!Next, CP!Next
<1>18. UNCHANGED C!vars => UNCHANGED CP!vars
  BY DEF C!vars, CP!vars
<1> QED
  BY <1>17, <1>18

(* ... and what is safe. *)
LEMMA ChainSafe ==
  /\ CP!Safety => C!Safety
  /\ CP!ChainAssumption
<1> USE ChainOperators
<1>1. CP!AwaitedHasCallback => C!AwaitedHasCallback
  BY DEF CP!AwaitedHasCallback, C!AwaitedHasCallback
<1>2. CP!LateOnlyAtTheEnd => C!LateOnlyAtTheEnd
  BY DEF CP!LateOnlyAtTheEnd, C!LateOnlyAtTheEnd
<1>3. CP!SameThreadIsSafe => C!SameThreadIsSafe
  BY DEF CP!SameThreadIsSafe, C!SameThreadIsSafe
<1>4. CP!ChainAssumption
  BY ConcurrentAssumption DEF CP!ChainAssumption, C!ChainAssumption, CP!Kinds, C!Kinds
<1> QED
  BY <1>1, <1>2, <1>3, <1>4 DEF C!Safety, CP!Safety
-----------------------------------------------------------------------------
(* ParallelSort: the same. *)
SP == INSTANCE ParallelSort_proofs WITH main <- sMain, late <- sLate

(* Operators, *)
LEMMA SortOperators ==
  /\ \A s : S!Range(s) = SP!Range(s) /\ S!Last(s) = SP!Last(s) /\ S!Front(s) = SP!Front(s)
  /\ \A s : S!Cardinality(s) = SP!Cardinality(s)
  /\ \A s, t : S!Bijection(s, t) = SP!Bijection(s, t)
BY DEF S!Range, SP!Range, S!Last, SP!Last, S!Front, SP!Front, S!Cardinality, SP!Cardinality,
       S!Bijection, SP!Bijection, S!Injection, SP!Injection, S!Surjection, SP!Surjection, S!IsInjective, SP!IsInjective

(* the orders and the sequential sort, *)
LEMMA SortOrders ==
  /\ \A s : S!Lower(s) = SP!Lower(s) /\ S!Higher(s) = SP!Higher(s)
  /\ S!seq_quick_sort = SP!seq_quick_sort
<1>1. \A s : S!Lower(s) = SP!Lower(s) /\ S!Higher(s) = SP!Higher(s)
  BY SortOperators DEF S!Lower, SP!Lower, S!Higher, SP!Higher, S!Orders, SP!Orders
<1>2. S!seq_quick_sort = SP!seq_quick_sort
  BY DEF S!seq_quick_sort, SP!seq_quick_sort, S!Lower, SP!Lower, S!Higher, SP!Higher, S!Orders, SP!Orders,
         S!Bijection, SP!Bijection, S!Injection, SP!Injection, S!Surjection, SP!Surjection,
         S!IsInjective, SP!IsInjective, S!Cardinality, SP!Cardinality
<1> QED
  BY <1>1, <1>2

(* ... initial states, *)
LEMMA SortInit == S!Init => SP!Init
BY DEF S!Init, SP!Init

(* ... steps, *)
LEMMA SortNext == [S!Next]_(S!vars) => [SP!Next]_(SP!vars)
<1> USE SortOperators DEF S!Root, SP!Root, S!Top, SP!Top, S!In, SP!In, S!mainVars, SP!mainVars,
        S!Alive, SP!Alive, S!Parent, SP!Parent, S!Touch, SP!Touch
<1>1. ASSUME NEW w \in Workers, S!Enter(w) PROVE SP!Enter(w)
  <2>1. S!In(w, "sort", "enter") /\ UNCHANGED <<input, global, S!mainVars, sLate>>
    BY <1>1 DEF S!Enter
  <2>2. CASE S!Top(w).list = << >>
    BY <1>1, <2>1, <2>2 DEF S!Enter, SP!Enter, S!Returns, SP!Returns
  <2>3. CASE S!Top(w).list # << >>
    <3>1. PICK l \in S!Lower(S!Top(w).list), h \in S!Higher(S!Top(w).list) :
            /\ queue' = [queue EXCEPT ![w] = Append(@, S!TaskFrame(Append(S!Top(w).call, 1), l))]
            /\ local' = [c \in DOMAIN local \cup {S!Top(w).call} |->
                           IF c = S!Top(w).call THEN [lower_sorted |-> << >>, done |-> FALSE] ELSE local[c]]
            /\ stack' = [stack EXCEPT ![w] = S!Front(@)
                           \o <<[S!Top(w) EXCEPT !.list = <<@[1]>>, !.pc = "call"],
                                S!SortFrame(Append(S!Top(w).call, 2), h)>>]
      BY <1>1, <2>3 DEF S!Enter
    <3>2. l \in SP!Lower(SP!Top(w).list) /\ h \in SP!Higher(SP!Top(w).list)
      BY SortOrders
    <3> QED
      BY <2>1, <2>3, <3>1, <3>2 DEF SP!Enter, S!TaskFrame, SP!TaskFrame, S!SortFrame, SP!SortFrame
  <2> QED
    BY <2>2, <2>3
<1>2. ASSUME NEW w \in Workers, S!Merge(w) PROVE SP!Merge(w)
  BY <1>2 DEF S!Merge, SP!Merge, S!Returns, SP!Returns
<1>3. ASSUME NEW w \in Workers, S!RunPending(w) PROVE SP!RunPending(w)
  BY <1>3 DEF S!RunPending, SP!RunPending, S!MayRun, SP!MayRun, S!Pushed, SP!Pushed
<1>4. ASSUME NEW w \in Workers, S!Start(w) PROVE SP!Start(w)
  BY <1>4 DEF S!Start, SP!Start, S!Pushed, SP!Pushed, S!SortFrame, SP!SortFrame
<1>5. ASSUME NEW w \in Workers, S!Write(w) PROVE SP!Write(w)
  BY <1>5 DEF S!Write, SP!Write, S!Replaced, SP!Replaced
<1>6. ASSUME NEW w \in Workers, S!Store(w) PROVE SP!Store(w)
  BY <1>6 DEF S!Store, SP!Store, S!Replaced, SP!Replaced
<1>7. ASSUME NEW w \in Workers, S!Unlock(w) PROVE SP!Unlock(w)
  BY <1>7 DEF S!Unlock, SP!Unlock, S!Replaced, SP!Replaced
<1>8. ASSUME NEW w \in Workers, S!Notify(w) PROVE SP!Notify(w)
  BY <1>8 DEF S!Notify, SP!Notify
<1>9. ASSUME NEW w \in Workers, S!Work(w) PROVE SP!Work(w)
  BY <1>1, <1>2, <1>3, <1>4, <1>5, <1>6, <1>7, <1>8, <1>9 DEF S!Work, SP!Work
<1>10. S!MainThread \/ S!SpuriousWake => SP!MainThread \/ SP!SpuriousWake
  BY DEF S!MainThread, SP!MainThread, S!Submit, SP!Submit, S!WaitDone, SP!WaitDone, S!Stop, SP!Stop,
         S!Join, SP!Join, S!SpuriousWake, SP!SpuriousWake, S!TaskFrame, SP!TaskFrame
<1>11. S!Next => SP!Next
  BY <1>9, <1>10 DEF S!Next, SP!Next
<1>12. UNCHANGED S!vars => UNCHANGED SP!vars
  BY DEF S!vars, SP!vars
<1> QED
  BY <1>11, <1>12

(* ... and what is safe. *)
LEMMA SortSafe ==
  /\ SP!Safety => S!Safety
  /\ SP!SortAssumption
<1> USE SortOperators
<1>1. SP!SortsTheList => S!SortsTheList
  BY SortOrders DEF SP!SortsTheList, S!SortsTheList
<1>2. SP!ReferencesLive => S!ReferencesLive
  BY DEF SP!ReferencesLive, S!ReferencesLive, SP!Tasks, S!Tasks, SP!Alive, S!Alive, SP!Parent, S!Parent,
         SP!Root, S!Root
<1>3. SP!OnlyTheNotifyIsLate => S!OnlyTheNotifyIsLate
  BY DEF SP!OnlyTheNotifyIsLate, S!OnlyTheNotifyIsLate
<1>4. SP!NothingLeftBehind => S!NothingLeftBehind
  BY DEF SP!NothingLeftBehind, S!NothingLeftBehind
<1>5. SP!SortAssumption
  BY ConcurrentAssumption DEF SP!SortAssumption, S!SortAssumption
<1> QED
  BY <1>1, <1>2, <1>3, <1>4, <1>5 DEF S!Safety, SP!Safety
-----------------------------------------------------------------------------
(* A step of the composition is a step of one component, and no change to the others. *)
LEMMA Steps ==
  ASSUME [ConcurrentNext]_allVars
  PROVE  /\ [Next]_vars
         /\ [M!Next]_(M!vars) /\ [S!Next]_(S!vars) /\ [Q!Next]_(Q!vars) /\ [C!Next]_(C!vars)
         /\ [T!Next]_(T!vars)
<1>1. UNCHANGED futureVars => UNCHANGED vars
  BY DEF futureVars, vars
<1>2. UNCHANGED lookUpVars => UNCHANGED M!vars
  BY DEF lookUpVars, M!vars
<1>3. UNCHANGED queueVars => UNCHANGED Q!vars
  BY DEF queueVars, Q!vars
<1>4. UNCHANGED chainVars => UNCHANGED C!vars
  BY DEF chainVars, C!vars
<1>5. UNCHANGED threadVars => UNCHANGED T!vars
  BY DEF threadVars, T!vars
<1>6. UNCHANGED sortVars => UNCHANGED S!vars
  BY DEF sortVars, S!vars
<1>7. /\ Next \/ UNCHANGED futureVars
      /\ M!Next \/ UNCHANGED lookUpVars
      /\ S!Next \/ UNCHANGED sortVars
      /\ Q!Next \/ UNCHANGED queueVars
      /\ C!Next \/ UNCHANGED chainVars
      /\ T!Next \/ UNCHANGED threadVars
  BY DEF ConcurrentNext, allVars, LookUps, Sort, Queue, Chain, Thread, Future
<1> QED
  BY <1>1, <1>2, <1>3, <1>4, <1>5, <1>6, <1>7

(* FutureState's variables and WorkQueue's keep their types. *)
THEOREM TypesCorrect == ConcurrentSpec => []TypesOK
<1>1. ConcurrentInit => FutureInv /\ QueueInv
  BY FutureInit, QueueInit DEF ConcurrentInit
<1>2. FutureInv /\ QueueInv /\ [ConcurrentNext]_allVars => FutureInv' /\ QueueInv'
  BY Steps, FutureNext, QueueNext
<1>3. FutureInv /\ QueueInv => TypesOK
  BY DEF FutureInv, QueueInv, TypesOK
<1> QED
  BY <1>1, <1>2, <1>3, PTL DEF ConcurrentSpec

(* FutureState: a state that says "result" follows the write of the result, and of a       *)
(* setResult() and a setContinuation() that race one gets through.                        *)
THEOREM FutureSafetyHolds == ConcurrentSpec => []Safety
<1>1. ConcurrentInit => FutureInv
  BY FutureInit DEF ConcurrentInit
<1>2. FutureInv /\ [ConcurrentNext]_allVars => FutureInv'
  BY Steps, FutureNext
<1> QED
  BY <1>1, <1>2, FutureInvIsSafe, PTL DEF ConcurrentSpec

(* FutureState: wait() does the opposite of waiting for the result: once there is one, who *)
(* is in wait() stays there.                                                             *)
THEOREM WaitsForEverHolds == ConcurrentSpec => WaitsForEver
<1>1. ConcurrentInit => FutureInv
  BY FutureInit DEF ConcurrentInit
<1>2. FutureInv /\ [ConcurrentNext]_allVars => FutureInv'
  BY Steps, FutureNext
<1>3. ASSUME NEW w \in Waiters
      PROVE  ConcurrentSpec => [](hasResult /\ pc[w] = "wait" => [](pc[w] = "wait"))
  <2>1. FutureInv /\ [ConcurrentNext]_allVars /\ hasResult /\ pc[w] = "wait"
          => hasResult' /\ (pc[w] = "wait")'
    BY Steps, KeepsWaiting
  <2> QED
    BY <1>1, <1>2, <2>1, PTL DEF ConcurrentSpec
<1> QED
  BY <1>3 DEF WaitsForEver

(* JoiningThread: the thread is owned once and joined, the coroutines after the first are   *)
(* refused, and no frame is used when it is gone, for any number of runs.                  *)
THEOREM ThreadSafetyHolds == ConcurrentSpec => []ThreadSafety
<1>1. ConcurrentInit => ThreadInv
  BY ThreadInit DEF ConcurrentInit
<1>2. ThreadInv /\ [ConcurrentNext]_allVars => ThreadInv'
  BY Steps, ThreadNext
<1>3. ThreadInv => ThreadSafety
  BY ThreadInvIsSafe DEF ThreadSafety
<1> QED
  BY <1>1, <1>2, <1>3, PTL DEF ConcurrentSpec

(* MultiLookUp: main() ends its spin with the number of all that was missed, and can end    *)
(* it after the last task if and only if fraction divides what it is to divide; for any     *)
(* numbers of targets and any widths of size_t and int that hold them.                     *)
THEOREM LookUpSafetyHolds == ConcurrentSpec => []LookUpSafety
<1>1. ConcurrentInit => LookUpInv
  BY LookUpInit DEF ConcurrentInit
<1>2. LookUpInv /\ [ConcurrentNext]_allVars => LookUpInv'
  BY Steps, LookUpNext
<1>3. LookUpInv => LookUpSafety
  BY LookUpInvIsSafe DEF LookUpSafety
<1> QED
  BY <1>1, <1>2, <1>3, PTL DEF ConcurrentSpec

(* WorkQueue: every item is there or popped, once and in order, no wake-up is lost, and a   *)
(* queue that is stopped from the start gives nothing, for any numbers of threads.         *)
THEOREM QueueSafetyHolds == ConcurrentSpec => []QueueSafety
<1>1. ConcurrentInit => Q!Init
  BY DEF ConcurrentInit
<1>2. [ConcurrentNext]_allVars => [Q!Next]_(Q!vars)
  BY Steps
<1>3. Q!Spec => []Q!Safety
  BY QueueIsSafe
<1> QED
  BY <1>1, <1>2, <1>3, PTL DEF ConcurrentSpec, Q!Spec, QueueSafety

(* ParallelSort: do_sort() returns its list sorted, with no access to locals that are gone  *)
(* but the last notify, and leaves an empty pool, for any workers and any lists of integers. *)
THEOREM SortSafetyHolds == ConcurrentSpec => []SortSafety
<1>1. ConcurrentInit => SP!Init
  BY SortInit DEF ConcurrentInit
<1>2. [ConcurrentNext]_allVars => [SP!Next]_(SP!vars)
  BY Steps, SortNext
<1>3. SP!Spec => []SP!Safety
  BY SortSafe, SP!SafetyHolds
<1>4. SP!Safety => SortSafety
  BY SortSafe DEF SortSafety
<1> QED
  BY <1>1, <1>2, <1>3, <1>4, PTL DEF ConcurrentSpec, SP!Spec

(* TaskChain: an awaited task has its callback, and only the accesses at a task's end are   *)
(* late, in any programs in which each task is awaited once.                              *)
THEOREM ChainSafetyHolds == ConcurrentSpec => []ChainSafety
<1>1. ConcurrentInit => CP!Init
  BY ChainInit DEF ConcurrentInit
<1>2. [ConcurrentNext]_allVars => [CP!Next]_(CP!vars)
  BY Steps, ChainNext
<1>3. CP!Spec => []CP!Safety
  BY ChainSafe, CP!SafetyHolds
<1>4. CP!Safety => ChainSafety
  BY ChainSafe DEF ChainSafety
<1> QED
  BY <1>1, <1>2, <1>3, <1>4, PTL DEF ConcurrentSpec, CP!Spec

(* TaskChain: a coroutine is resumed once for each of its suspensions, with its frame.     *)
THEOREM ResumedOnceHolds == ConcurrentSpec => ResumedOncePerAwait
<1>1. ConcurrentInit => CP!Init
  BY ChainInit DEF ConcurrentInit
<1>2. [ConcurrentNext]_allVars => [CP!Next]_(CP!vars)
  BY Steps, ChainNext
<1>3. CP!Spec => CP!ResumedOncePerAwait
  BY ChainSafe, CP!ResumedOnceHolds
<1>4. [\A t \in CP!Tasks :
         at'[t] = "queued" /\ at[t] # "queued" =>
           /\ t \in alive'
           /\ at[t] \in {"none", "sleeping", "awaiting"} \/ stage[t] = "await"]_(CP!vars)
      => [\A t \in C!Tasks :
            at'[t] = "queued" /\ at[t] # "queued" =>
              /\ t \in alive'
              /\ at[t] \in {"none", "sleeping", "awaiting"} \/ stage[t] = "await"]_(C!vars)
  BY DEF C!Tasks, CP!Tasks, C!vars, CP!vars
<1> QED
  BY <1>1, <1>2, <1>3, <1>4, PTL DEF ConcurrentSpec, CP!Spec, ResumedOncePerAwait, C!ResumedOncePerAwait, CP!ResumedOncePerAwait
=============================================================================
