----------------------------- MODULE FutureState -----------------------------
(* The state that a promise and its future share: executor/FutureState.h, with      *)
(* Future::wait().  One thread sets the result and another the continuation; each    *)
(* access to state_ is a step.                                                      *)
EXTENDS Naturals

CONSTANTS Setter, Continuer, Waiters,   \* the threads
          Builds                        \* "debug", and "release": without assert

ASSUME FutureAssumption ==
  /\ Setter # Continuer /\ {Setter, Continuer} \cap Waiters = {}
  /\ Builds \subseteq {"debug", "release"}

VARIABLES state_,    \* "START", "ONLY_RESULT", "ONLY_CONTINUATION" or "DONE"
          result_,   \* "empty" or "set"
          pc,        \* where each thread is
          state,     \* the local of that name
          build,
          aborted    \* an assert has failed

vars == <<state_, result_, pc, state, build, aborted>>

Callers == {Setter, Continuer}
Ended == {"returned", "threw"}

Init ==
  /\ state_ = "START" /\ result_ = "empty"
  /\ pc = [t \in Callers \cup Waiters |-> IF t \in Callers THEN "call" ELSE "idle"]
  /\ state = [t \in Callers |-> "START"]
  /\ build \in Builds
  /\ aborted = FALSE

hasResult       == state_ \in {"ONLY_RESULT", "DONE"}
hasContinuation == state_ \in {"ONLY_CONTINUATION", "DONE"}

Goto(t, l) == pc' = [pc EXCEPT ![t] = l]

CallWritesMutant(t) ==    \* mutant: setContinuation() writes a result too
  /\ ~aborted /\ pc[t] = "call"
  /\ Goto(t, IF IF t = Setter THEN hasResult ELSE hasContinuation THEN "threw" ELSE "write")
  /\ UNCHANGED <<state_, result_, state, build, aborted>>

(* logicAssert(!hasResult()), logicAssert(!hasContinuation()): std::logic_error *)
Call(t) ==
  /\ ~aborted /\ pc[t] = "call"
  /\ Goto(t, IF IF t = Setter THEN hasResult ELSE hasContinuation THEN "threw"
             ELSE IF t = Setter THEN "write" ELSE "load")
  /\ UNCHANGED <<state_, result_, state, build, aborted>>

WriteLateMutant ==    \* mutant: the result is written after the state is published
  /\ ~aborted
  /\ \/ pc[Setter] = "write" /\ Goto(Setter, "load") /\ result_' = result_
     \/ pc[Setter] = "returned" /\ result_' = "set" /\ pc' = pc
  /\ UNCHANGED <<state_, state, build, aborted>>

Write ==
  /\ ~aborted /\ pc[Setter] = "write"
  /\ result_' = "set"
  /\ Goto(Setter, "load")
  /\ UNCHANGED <<state_, state, build, aborted>>

Load(t) ==
  /\ ~aborted /\ pc[t] = "load"
  /\ state' = [state EXCEPT ![t] = state_]
  /\ Goto(t, CASE state_ = "START"             -> "first"
               [] state_ = "ONLY_CONTINUATION" -> "second"
               [] OTHER                        -> "threw")
  /\ UNCHANGED <<state_, result_, build, aborted>>

(* what the first compare_exchange publishes, in setContinuation() too *)
Publishes(t) == "ONLY_RESULT"

FirstStoreMutant(t) ==   \* mutant: a store instead of a compare_exchange
  /\ ~aborted /\ pc[t] = "first"
  /\ state_' = Publishes(t) /\ Goto(t, "returned")
  /\ UNCHANGED <<result_, state, build, aborted>>

(* compare_exchange START; the failed one loads state_ *)
First(t) ==
  /\ ~aborted /\ pc[t] = "first"
  /\ IF state_ = "START"
     THEN state_' = Publishes(t) /\ Goto(t, "returned") /\ UNCHANGED state
     ELSE state' = [state EXCEPT ![t] = state_] /\ Goto(t, "assert") /\ UNCHANGED state_
  /\ UNCHANGED <<result_, build, aborted>>

(* assert(state_.load() == ONLY_CONTINUATION), and the case falls through *)
Assert(t) ==
  /\ ~aborted /\ pc[t] = "assert"
  /\ aborted' = (build = "debug" /\ state_ # "ONLY_CONTINUATION")
  /\ Goto(t, "second")
  /\ UNCHANGED <<state_, result_, state, build>>

(* compare_exchange the loaded state for DONE, else logicAssert(false) *)
Second(t) ==
  /\ ~aborted /\ pc[t] = "second"
  /\ IF state_ = state[t] THEN state_' = "DONE" /\ Goto(t, "returned")
                          ELSE Goto(t, "threw") /\ UNCHANGED state_
  /\ UNCHANGED <<result_, state, build, aborted>>

Wait(w) ==
  /\ ~aborted /\ pc[w] = "idle"
  /\ Goto(w, "wait")
  /\ UNCHANGED <<state_, result_, state, build, aborted>>

WaitEndsMutant(w) ==    \* mutant: what wait() is there for
  /\ ~aborted /\ pc[w] = "wait" /\ hasResult
  /\ Goto(w, "returned")
  /\ UNCHANGED <<state_, result_, state, build, aborted>>

(* while (sharedState_->hasResult()); *)
WaitEnds(w) ==
  /\ ~aborted /\ pc[w] = "wait" /\ ~hasResult
  /\ Goto(w, "returned")
  /\ UNCHANGED <<state_, result_, state, build, aborted>>

Step(t) == Call(t) \/ Load(t) \/ First(t) \/ Assert(t) \/ Second(t)

Next == \/ \E t \in Callers : Step(t)
        \/ Write
        \/ \E w \in Waiters : Wait(w) \/ WaitEnds(w)

Spec == Init /\ [][Next]_vars
-----------------------------------------------------------------------------
TypeOK ==
  /\ state_ \in {"START", "ONLY_RESULT", "ONLY_CONTINUATION", "DONE"}
  /\ result_ \in {"empty", "set"}
  /\ pc \in [Callers \cup Waiters ->
       {"call", "write", "load", "first", "assert", "second", "idle", "wait"} \cup Ended]
  /\ \A t \in Callers : pc[t] \notin {"idle", "wait"} /\ (pc[t] = "write" => t = Setter)
  /\ \A w \in Waiters : pc[w] \in {"idle", "wait", "returned"}
  /\ state \in [Callers -> {"START", "ONLY_RESULT", "ONLY_CONTINUATION", "DONE"}]
  /\ build \in Builds /\ aborted \in BOOLEAN

(* hasResult() is true before there is a result only if setContinuation() made it so:  *)
(* what setResult() publishes is written.                                             *)
PublishedIsWritten ==
  hasResult /\ result_ = "empty" => pc[Continuer] = "returned"

(* Of one setResult() and one setContinuation(), which the class is to bring together, *)
(* one gets through and the other throws or, if both read START, aborts.  Both return   *)
(* only without assert, when the lost compare_exchange has loaded the other's state:    *)
(* that alone leads to DONE, with the result written.                                 *)
OneGetsThrough ==
  LET Through == {t \in Callers : pc[t] = "returned"}
  IN  /\ (\A t \in Callers : pc[t] \in Ended) => Through # {}
      /\ Through = Callers <=> state_ = "DONE"
      /\ state_ = "DONE" => build = "release" /\ result_ = "set"

(* The race of the two callers: what is published is written, and one gets through.     *)
Safety == PublishedIsWritten /\ OneGetsThrough

(* A wait() that meets a result does not end: hasResult() stays true, and wait() spins  *)
(* while it is.                                                                      *)
WaitsForEver ==
  \A w \in Waiters : [](hasResult /\ pc[w] = "wait" => [](pc[w] = "wait"))

(* assert(state_ == ONLY_CONTINUATION): "if assert fails, it means there is a bug in   *)
(* the library".                                                                     *)
AssertHolds == ~aborted
=============================================================================
