------------------------------ MODULE SimpleTask -----------------------------
(* The tasks of coroutine/include/4task, which run in the thread that calls them:     *)
(* STask of stask.h, which ignores exceptions, and Task of task.h, which keeps them.   *)
(* A body runs when it is called; an await_suspend() that finds the result resumes the *)
(* awaiting coroutine in the call of on_completed().  Task 1 is main()'s.              *)
EXTENDS Naturals, Sequences

CONSTANTS Programs,   \* what each task does: call and await a task, or Throw
          Throw, None

(* Each task is called at one place, by a task that was called before it. *)
SimpleTaskAssumption ==
  \A p \in Programs :
    /\ p # << >> /\ p \in Seq(Seq(DOMAIN p \cup {Throw})) /\ {Throw, None} \cap DOMAIN p = {}
    /\ \A t, u \in DOMAIN p : \A i \in DOMAIN p[t], j \in DOMAIN p[u] :
         /\ p[t][i] = Throw \/ p[t][i] > t
         /\ p[t][i] = p[u][j] /\ p[t][i] # Throw => t = u /\ i = j

VARIABLES kind,       \* "STask" or "Task"
          prog,
          stack,      \* the calls in progress, the last one runs: see Call
          at,         \* where each coroutine is
          todo,       \* what it has still to do
          stage,      \* of Head(todo): "call" it, "await" it, "get" its result
          result,     \* the promise's: "none", "value" or "error"
          callback,   \* the task whose callback the promise has, or None
          main,       \* where main() is
          handled     \* calls of the handler that main() has given to then()

vars == <<kind, prog, stack, at, todo, stage, result, callback, main, handled>>

Tasks == DOMAIN prog

Init ==
  /\ kind \in {"STask", "Task"}
  /\ prog \in Programs
  /\ stack = << >>
  /\ at = [t \in Tasks |-> "none"]
  /\ todo = prog
  /\ stage = [t \in Tasks |-> "call"]
  /\ result = [t \in Tasks |-> "none"]
  /\ callback = [t \in Tasks |-> None]
  /\ main = "call" /\ handled = 0

(* "body": an activation of coroutine t; "call" and "notify": a callback of t is being *)
(* called, by on_completed() without and by notify_callbacks() with the lock           *)
Call(what, t) == [what |-> what, t |-> t]
Top    == stack[Len(stack)]
Popped == SubSeq(stack, 1, Len(stack) - 1)

Active(t) == main # "terminated" /\ stack # << >> /\ Top = Call("body", t) /\ at[t] = "running"
Locked(t) == \E i \in DOMAIN stack : stack[i] = Call("notify", t)

Create(t) == at' = [at EXCEPT ![t] = "running"] /\ stack' = Append(stack, Call("body", t))

CallMain ==
  /\ main = "call"
  /\ Create(1)
  /\ main' = "then"
  /\ UNCHANGED <<kind, prog, todo, stage, result, callback, handled>>

(* what t still has to do, as far as the current await goes *)
CallTask(t) ==
  /\ Active(t) /\ todo[t] # << >> /\ stage[t] = "call" /\ Head(todo[t]) # Throw
  /\ Create(Head(todo[t]))
  /\ stage' = [stage EXCEPT ![t] = "await"]
  /\ UNCHANGED <<kind, prog, todo, result, callback, main, handled>>

AwaitLockedMutant(t) ==    \* mutant: on_completed() calls the function before it unlocks
  /\ Active(t) /\ stage[t] = "await" /\ result[Head(todo[t])] # "none"
  /\ stack' = stack \o <<Call("notify", Head(todo[t])), Call("body", t)>>
  /\ stage' = [stage EXCEPT ![t] = "get"]
  /\ UNCHANGED <<kind, prog, at, todo, result, callback, main, handled>>

(* TaskAwaiter::await_suspend(), finally() and on_completed(): the callback resumes t   *)
(* in a nested activation, or is stored                                              *)
Await(t) ==
  /\ Active(t) /\ stage[t] = "await"
  /\ stage' = [stage EXCEPT ![t] = "get"]
  /\ LET u == Head(todo[t]) IN
     IF result[u] # "none"
     THEN /\ stack' = stack \o <<Call("call", u), Call("body", t)>>
          /\ UNCHANGED <<at, callback>>
     ELSE /\ stack' = Popped
          /\ at' = [at EXCEPT ![t] = "suspended"]
          /\ callback' = [callback EXCEPT ![u] = t]
  /\ UNCHANGED <<kind, prog, todo, result, main, handled>>

GetKeepMutant(t) ==        \* mutant: the awaiter does not destroy the task's frame
  /\ Active(t) /\ stage[t] = "get" /\ ~Locked(Head(todo[t])) /\ result[Head(todo[t])] = "value"
  /\ todo' = [todo EXCEPT ![t] = Tail(@)]
  /\ stage' = [stage EXCEPT ![t] = "call"]
  /\ UNCHANGED <<kind, prog, stack, at, result, callback, main, handled>>

(* await_resume() is noexcept and get_result() throws the exception that was kept; else *)
(* the awaiter goes, and the task's frame with it                                     *)
Get(t) ==
  /\ Active(t) /\ stage[t] = "get"
  /\ LET u == Head(todo[t]) IN
     /\ ~Locked(u)
     /\ IF result[u] = "error"
        THEN main' = "terminated" /\ UNCHANGED <<at, todo, stage>>
        ELSE /\ at' = [at EXCEPT ![u] = "destroyed"]
             /\ todo' = [todo EXCEPT ![t] = Tail(@)]
             /\ stage' = [stage EXCEPT ![t] = "call"]
             /\ UNCHANGED main
  /\ UNCHANGED <<kind, prog, stack, result, callback, handled>>

(* The body ends with the result r: it is set and the callbacks called under the lock,   *)
(* and the coroutine is suspended for the last time.                                   *)
Ends(t, r) ==
  /\ at' = [at EXCEPT ![t] = "done"]
  /\ result' = [result EXCEPT ![t] = r]
  /\ IF r = "none" \/ callback[t] = None THEN stack' = Popped /\ UNCHANGED callback
     ELSE /\ stack' = Popped \o <<Call("notify", t), Call("body", callback[t])>>
          /\ callback' = [callback EXCEPT ![t] = None]
  /\ UNCHANGED <<kind, prog, todo, stage, main, handled>>

return_value(t) == Active(t) /\ todo[t] = << >> /\ Ends(t, "value")

KeptMutant == "none"        \* mutant: Task keeps no exception either

(* unhandled_exception() of STask does nothing *)
Kept == IF kind = "STask" THEN "none" ELSE "error"

unhandled_exception(t) == Active(t) /\ todo[t] # << >> /\ Head(todo[t]) = Throw /\ Ends(t, Kept)

(* on_completed(), notify_callbacks() and the activation that has awaited return *)
Returns ==
  /\ stack # << >> /\ main # "terminated"
  /\ Top.what = "body" => at[Top.t] # "running"
  /\ stack' = Popped
  /\ UNCHANGED <<kind, prog, at, todo, stage, result, callback, main, handled>>
-----------------------------------------------------------------------------
(* then() of main(): called at once, or stored *)
Then ==
  /\ main = "then" /\ stack = << >>
  /\ handled' = IF result[1] = "none" THEN 0 ELSE 1
  /\ main' = "get"
  /\ UNCHANGED <<kind, prog, stack, at, todo, stage, result, callback>>

(* the frames a Task owns: its own and, from the awaiter in it, those it waits for *)
Owned(t) ==
  {u \in Tasks : \A F \in SUBSET Tasks :
     t \in F /\ (\A v \in F : at[v] = "suspended" => Head(todo[v]) \in F) => u \in F}

(* main() leaves its block: ~STask *)
Leave == /\ main' = "ended"
         /\ at' = [t \in Tasks |-> IF t \in Owned(1) THEN "destroyed" ELSE at[t]]

(* get_result() of main(), which catches what it throws *)
GetMain ==
  /\ main = "get"
  /\ IF result[1] = "none" THEN main' = "waiting" /\ UNCHANGED at ELSE Leave
  /\ UNCHANGED <<kind, prog, stack, todo, stage, result, callback, handled>>

(* a spurious wakeup: result_.value() of an empty optional throws *)
SpuriousWake ==
  /\ main = "waiting"
  /\ Leave
  /\ UNCHANGED <<kind, prog, stack, todo, stage, result, callback, handled>>

Next == \/ CallMain \/ Then \/ GetMain \/ SpuriousWake \/ Returns
        \/ \E t \in Tasks : CallTask(t) \/ Await(t) \/ Get(t) \/ return_value(t) \/ unhandled_exception(t)

Spec == Init /\ [][Next]_vars
-----------------------------------------------------------------------------
(* The lock of a promise is free whenever its result is asked for: on_completed() has     *)
(* released it before it resumes the awaiting coroutine, and no coroutine is resumed by    *)
(* notify_callbacks(), because a task has ended before anybody awaits it.                *)
NoSelfDeadlock == \A t \in Tasks : Active(t) /\ stage[t] = "get" => ~Locked(Head(todo[t]))

Threw(t) == at[t] \in {"done", "destroyed"} /\ todo[t] # << >> /\ Head(todo[t]) = Throw

(* One exception decides how the program ends: in an STask it is forgotten, and main()    *)
(* waits for ever; in a Task that another one awaits it meets the noexcept of             *)
(* await_resume(), and the program terminates.  Without, main() gets its result at once    *)
(* and its handler has been called.                                                    *)
ThrowDecides ==
  /\ main = "waiting" => kind = "STask" /\ \E t \in Tasks : Threw(t)
  /\ main = "terminated" => kind = "Task" /\ \E t \in Tasks \ {1} : Threw(t)
  /\ (main = "ended" /\ ~\E t \in Tasks : Threw(t)) => result[1] = "value" /\ handled = 1

(* When main() has left its block no frame is left, those of tasks that are still          *)
(* suspended in a chain of awaits included.                                             *)
NoFrameLeft == main = "ended" => \A t \in Tasks : at[t] \in {"none", "destroyed"}

(* A chain of tasks in one thread never blocks on its own lock, one exception decides how  *)
(* it ends, and no frame is left.                                                       *)
Safety == NoSelfDeadlock /\ ThrowDecides /\ NoFrameLeft
=============================================================================
