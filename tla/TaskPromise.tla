---------------------------- MODULE TaskPromise -----------------------------
(* A Task, its promise and the coroutine that awaits it or the thread that asks *)
(* for its result: coroutine/include/6sleep/{task,task_promise,task_awaiter}.h  *)
(* (4task, 5dispatcher and test differ in the executor only).  The promise      *)
(* keeps the result and the callbacks under completion_lock_; return_value and   *)
(* unhandled_exception hold the lock while they call the callbacks.              *)
EXTENDS Naturals, Sequences

CONSTANTS Clients,     \* threads other than the owner that use the Task
          Owner,       \* the thread or the coroutine that owns the Task
          Callbacks,   \* what is handed to on_completed, each one once
          Resume,      \* the callback of TaskAwaiter
          Kind,        \* Kind[f]: "then", "catching" or "finally"
          Modes,       \* what the owner may do with its Task, see mode
          None         \* no callback

Outcomes == {"value", "exception"}
Callers == Clients \cup {Owner}

ASSUME PromiseAssumption ==
  /\ Owner \notin Clients
  /\ None \notin Callbacks
  /\ Resume \in Callbacks
  /\ Kind \in [Callbacks -> {"then", "catching", "finally"}]
  /\ Kind[Resume] = "finally"
  /\ Modes \subseteq {"get", "blocking", "dispatch"}

VARIABLES
  result_,     \* "unset" or the outcome
  callbacks,   \* completion_callbacks_
  co,          \* where the thread that ends the task's coroutine is
  call,        \* the on_completed() or get_result() each caller is in
  arg,         \* the callback of an on_completed() that calls it itself
  mode,        \* "get": the owner calls get_result(); otherwise it is a coroutine
               \* that awaits the Task, on an executor whose execute() returns when
               \* the function has ended ("blocking": Noop, Async), or at once
               \* ("dispatch": NewThread, Looper, SharedLooper, ThreadPool)
  owner,       \* where the owner is
  (* history, read by no guard of the code *)
  registered,  \* callbacks handed to on_completed
  calls,       \* how often each callback was called
  ran,         \* callbacks whose user function was called
  got,         \* what get_result() gave each caller last, or "none"
  spurious     \* some wait ended without a notification

promiseVars == <<result_, callbacks>>
callVars == <<call, arg>>
history  == <<registered, calls, ran, got, spurious>>
vars == <<promiseVars, co, callVars, mode, owner, history>>

TypeOK ==
  /\ result_ \in Outcomes \cup {"unset"}
  /\ callbacks \in Seq(Callbacks)
  /\ co \in {"body", "notifying", "returned", "final", "undefined"}
  /\ call \in [Callers -> {"idle", "calling", "waiting", "woken", "undefined"}]
  /\ arg \in [Callers -> Callbacks \cup {None}]
  /\ mode \in Modes
  /\ owner \in {"using", "suspended", "resumed", "got", "gone", "terminated"}
  /\ registered \subseteq Callbacks
  /\ calls \in [Callbacks -> Nat]
  /\ ran \subseteq Callbacks
  /\ got \in [Callers -> Outcomes \cup {"none"}]
  /\ spurious \in BOOLEAN

Init ==
  /\ result_ = "unset"
  /\ callbacks = << >>
  /\ co = "body"
  /\ call = [c \in Callers |-> "idle"]
  /\ arg = [c \in Callers |-> None]
  /\ mode \in Modes
  /\ owner = "using"
  /\ registered = {}
  /\ calls = [f \in Callbacks |-> 0]
  /\ ran = {}
  /\ got = [c \in Callers |-> "none"]
  /\ spurious = FALSE

LockedMutant == FALSE           \* mutant: the callbacks are called without the lock

(* completion_lock_ is held across steps only while callbacks are called *)
Locked == co = "notifying"

(* The Task lives until a get_result() of its owner has returned and the owner    *)
(* destroys it, or until it is moved into an awaiter.                             *)
Usable(c) ==
  /\ call[c] = "idle"
  /\ owner = "using" \/ (owner = "got" /\ mode = "get")

Unused == \A c \in Clients : call[c] = "idle"
-----------------------------------------------------------------------------
(* which user functions the wrappers of then(), catching() and finally() call *)
Handles(f, r) ==
  \/ Kind[f] = "finally"
  \/ Kind[f] = "then" /\ r = "value"
  \/ Kind[f] = "catching" /\ r = "exception"

(* The callback f is called with the result.  The awaiter's hands the owner to    *)
(* its executor.                                                                  *)
Called(f) ==
  /\ calls' = [calls EXCEPT ![f] = @ + 1]
  /\ ran' = IF Handles(f, result_) THEN ran \cup {f} ELSE ran
  /\ owner' = IF f = Resume THEN "resumed" ELSE owner

OnCompletedDirectMutant(c, f) ==  \* mutant: the callback is always called at once
  /\ ~Locked
  /\ f \notin registered
  /\ registered' = registered \cup {f}
  /\ call' = [call EXCEPT ![c] = "calling"]
  /\ arg' = [arg EXCEPT ![c] = f]
  /\ UNCHANGED callbacks

OnCompletedLateMutant(c, f) ==  \* mutant: the result is not looked at
  /\ ~Locked
  /\ f \notin registered
  /\ registered' = registered \cup {f}
  /\ callbacks' = Append(callbacks, f)
  /\ UNCHANGED callVars

(* on_completed(): stored, or called by the caller after the unlock *)
OnCompleted(c, f) ==
  /\ ~Locked
  /\ f \notin registered
  /\ registered' = registered \cup {f}
  /\ \/ /\ result_ = "unset"
        /\ callbacks' = Append(callbacks, f)
        /\ UNCHANGED callVars
     \/ /\ result_ # "unset"
        /\ call' = [call EXCEPT ![c] = "calling"]
        /\ arg' = [arg EXCEPT ![c] = f]
        /\ UNCHANGED callbacks

(* then(), catching(), finally() *)
AddCallback(c, f) ==
  /\ Usable(c)
  /\ f # Resume
  /\ OnCompleted(c, f)
  /\ UNCHANGED <<result_, co, mode, owner, calls, ran, got, spurious>>

(* the Task is moved into a TaskAwaiter and its await_suspend() called *)
AwaitSuspend ==
  /\ mode # "get" /\ owner = "using"
  /\ call[Owner] = "idle" /\ Unused
  /\ OnCompleted(Owner, Resume)
  /\ owner' = "suspended"
  /\ UNCHANGED <<result_, co, mode, calls, ran, got, spurious>>

CallDirectly(c) ==
  /\ call[c] = "calling"
  /\ Called(arg[c])
  /\ call' = [call EXCEPT ![c] = "idle"]
  /\ UNCHANGED <<promiseVars, co, arg, mode, registered, got, spurious>>
-----------------------------------------------------------------------------
(* get_result() gives its result.  await_resume() is noexcept: an exception ends   *)
(* the program.                                                                   *)
Gets(c) ==
  /\ call' = [call EXCEPT ![c] = "idle"]
  /\ got' = [got EXCEPT ![c] = result_]
  /\ owner' = IF c # Owner THEN owner
              ELSE IF mode # "get" /\ result_ = "exception" THEN "terminated"
              ELSE "got"

MayGet(c) == IF c = Owner /\ mode # "get" THEN owner = "resumed" /\ call[c] = "idle"
             ELSE Usable(c)

GetResultMutant(c) ==           \* mutant: no wait
  /\ MayGet(c)
  /\ ~Locked
  /\ Gets(c)
  /\ UNCHANGED <<promiseVars, co, arg, mode, registered, calls, ran, spurious>>

GetResult(c) ==
  /\ MayGet(c)
  /\ ~Locked
  /\ \/ result_ # "unset" /\ Gets(c)
     \/ /\ result_ = "unset"
        /\ call' = [call EXCEPT ![c] = "waiting"]
        /\ UNCHANGED <<owner, got>>
  /\ UNCHANGED <<promiseVars, co, arg, mode, registered, calls, ran, spurious>>

(* The wait is not repeated: an empty result_ is dereferenced.                    *)
WaitEnds(c) ==
  /\ call[c] = "woken"
  /\ ~Locked
  /\ \/ result_ # "unset" /\ Gets(c)
     \/ /\ result_ = "unset"
        /\ call' = [call EXCEPT ![c] = "undefined"]
        /\ UNCHANGED <<owner, got>>
  /\ UNCHANGED <<promiseVars, co, arg, mode, registered, calls, ran, spurious>>

SpuriousWake(c) ==
  /\ call[c] = "waiting"
  /\ call' = [call EXCEPT ![c] = "woken"]
  /\ spurious' = TRUE
  /\ UNCHANGED <<promiseVars, co, arg, mode, owner, registered, calls, ran, got>>
-----------------------------------------------------------------------------
CompleteOneMutant(r) ==         \* mutant: notify_one()
  /\ co = "body"
  /\ result_' = r
  /\ \/ (\A c \in Callers : call[c] # "waiting") /\ UNCHANGED call
     \/ \E c \in Callers : call[c] = "waiting" /\ call' = [call EXCEPT ![c] = "woken"]
  /\ co' = "notifying"
  /\ UNCHANGED <<callbacks, arg, mode, owner, history>>

CompleteEarlyMutant(r) ==       \* mutant: the waiters are notified before the lock is taken
  /\ co = "body"
  /\ call' = [c \in Callers |-> IF call[c] = "waiting" THEN "woken" ELSE call[c]]
  /\ \/ UNCHANGED <<result_, co>>
     \/ result_' = r /\ co' = "notifying"
  /\ UNCHANGED <<callbacks, arg, mode, owner, history>>

(* return_value(), unhandled_exception(): the result is set and every waiter       *)
(* notified; the lock is kept.                                                    *)
Complete(r) ==
  /\ co = "body"
  /\ result_' = r
  /\ call' = [c \in Callers |-> IF call[c] = "waiting" THEN "woken" ELSE call[c]]
  /\ co' = "notifying"
  /\ UNCHANGED <<callbacks, arg, mode, owner, history>>

(* The resumed owner has not suspended or ended yet, inside of execute().          *)
OwnerInside == mode = "blocking" /\ owner = "resumed"

NotifyCallbackMutant ==         \* mutant: the list is not advanced
  /\ co = "notifying" /\ ~OwnerInside
  /\ callbacks # << >>
  /\ calls[Head(callbacks)] < 2
  /\ Called(Head(callbacks))
  /\ callbacks' \in {callbacks, Tail(callbacks)}
  /\ UNCHANGED <<result_, co, callVars, mode, registered, got, spurious>>

NotifyCallback ==
  /\ co = "notifying" /\ ~OwnerInside
  /\ callbacks # << >>
  /\ Called(Head(callbacks))
  /\ callbacks' = Tail(callbacks)
  /\ UNCHANGED <<result_, co, callVars, mode, registered, got, spurious>>

Unlock ==
  /\ co = "notifying" /\ ~OwnerInside
  /\ callbacks = << >>
  /\ co' = "returned"
  /\ UNCHANGED <<promiseVars, callVars, mode, owner, history>>

(* The coroutine writes to its frame when it suspends for the last time. *)
FinalSuspend ==
  /\ co = "returned"
  /\ owner # "terminated"
  /\ co' = IF owner = "gone" THEN "undefined" ELSE "final"
  /\ UNCHANGED <<promiseVars, callVars, mode, owner, history>>

(* ~Task() of the owner's object or of the awaiter's destroys the frame. *)
Destroy ==
  /\ owner = "got" /\ Unused
  /\ call[Owner] = "idle"
  /\ owner' = "gone"
  /\ UNCHANGED <<promiseVars, co, callVars, mode, history>>
-----------------------------------------------------------------------------
UseTask(c) == \/ \E f \in Callbacks : AddCallback(c, f)
              \/ CallDirectly(c)
              \/ GetResult(c)
              \/ WaitEnds(c)

EndTask == \/ \E r \in Outcomes : Complete(r)
           \/ NotifyCallback
           \/ Unlock
           \/ FinalSuspend

Next == \/ \E c \in Callers : UseTask(c) \/ SpuriousWake(c)
        \/ EndTask
        \/ AwaitSuspend
        \/ Destroy

Spec == Init /\ [][Next]_vars

(* Threads that can run do run; the coroutine's body ends; a resumed owner asks    *)
(* for the result.  Nobody has to use the Task and no spurious wakeup has to come. *)
Fairness ==
  /\ WF_vars(EndTask)
  /\ \A c \in Callers : WF_vars(CallDirectly(c)) /\ WF_vars(WaitEnds(c))
  /\ WF_vars(owner = "resumed" /\ GetResult(Owner))

FairSpec == Spec /\ Fairness
-----------------------------------------------------------------------------
(* Once the lock is free after completion and no call is under way, every          *)
(* callback was called once, and of the user functions those that fit the result   *)
(* ran: none registered while the result was being set is forgotten or doubled.     *)
EachHandlerOnce ==
  co \in {"returned", "final"} =>
    \A f \in registered :
      (\A c \in Callers : call[c] = "calling" => arg[c] # f) =>
        /\ calls[f] = 1
        /\ f \in ran <=> Kind[f] \in {"finally", IF result_ = "value" THEN "then" ELSE "catching"}

(* A coroutine that awaits the Task is resumed only when the result is there: its  *)
(* get_result() never waits.                                                       *)
AwaitFindsResult ==
  owner = "resumed" => result_ # "unset" /\ call[Owner] = "idle"

(* The frame is destroyed only when the callbacks are all called and nobody is in  *)
(* a member of the promise.                                                        *)
DestroyAfterCallbacks ==
  owner = "gone" =>
    /\ co \notin {"body", "notifying"}
    /\ callbacks = << >>
    /\ \A c \in Callers : call[c] = "idle"

(* get_result() dereferences an empty result only after a spurious wakeup. *)
UndefinedOnlySpurious == (\E c \in Callers : call[c] = "undefined") => spurious

(* The promise of the abstract completion. *)
Abstract == INSTANCE Completion WITH
  Readers <- Callers,
  Unset   <- "unset",
  outcome <- result_,
  waiting <- {f \in registered : calls[f] = 0},
  called  <- {f \in registered : calls[f] > 0},
  got     <- [c \in Callers |-> IF got[c] = "none" THEN "unset" ELSE got[c]]

ImplementsCompletion == Abstract!Spec

(* "When the coroutine resumes, the awaited task has run to its end."  It has set   *)
(* its result, but the frame may be destroyed before it suspends for the last time. *)
DestroyedFinished == owner = "gone" => co = "final"

(* On a blocking executor the owner is resumed inside of the callback and asks for  *)
(* the lock its own caller holds.                                                   *)
SelfBlocked == OwnerInside /\ Locked

(* A registered callback is called and a waiting caller returns, unless the         *)
(* completing thread blocked itself.                                                *)
CallbacksRun ==
  \A f \in Callbacks : f \in registered ~> (calls[f] > 0 \/ SelfBlocked \/ owner = "terminated")

WaitersReturn ==
  \A c \in Callers :
    call[c] = "waiting" ~> (call[c] \in {"idle", "undefined"} \/ SelfBlocked
                            \/ owner = "terminated")

(* The awaiting coroutine goes on. *)
AwaitContinues ==
  owner = "suspended" ~> (owner \in {"got", "terminated"} \/ SelfBlocked)

(* The result is there for an awaiting coroutine, and for others but after a spurious     *)
(* wakeup, and the frame as long as somebody needs it for the callbacks; everybody goes on. *)
ResultAndFrame == AwaitFindsResult /\ DestroyAfterCallbacks /\ UndefinedOnlySpurious
Progress       == CallbacksRun /\ WaitersReturn /\ AwaitContinues
=============================================================================
