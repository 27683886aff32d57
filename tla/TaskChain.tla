------------------------------ MODULE TaskChain ------------------------------
(* Tasks that await tasks and sleep, on executors: the programs of coroutine/test     *)
(* (dispatcher.cpp, sleep_test2..5.cpp) on include/5dispatcher and include/6sleep.     *)
(* Task 1 is main()'s; a task calls each task it awaits right before.  A promise keeps  *)
(* its executor by value: ~Task stops and joins a task's own looper.  The promise is     *)
(* TaskPromise's with one callback, the executors' queues and the scheduler are those    *)
(* of their own modules.                                                              *)
EXTENDS Naturals, Sequences, SequencesExt, FiniteSets

CONSTANTS Programs,    \* each task's executor and what it awaits: tasks or Sleep
          Sleep,
          Main, Sched, \* threads: main()'s and the scheduler's
          None         \* no task

Kinds    == {"noop", "async", "newthread", "looper", "shared", "pool"}
Blocking == {"noop", "async"}      \* execute() returns when the function has

(* Every co_await of a task calls that task: nobody else awaits it, and nobody main()'s. *)
ChainAssumption ==
  /\ Main # Sched
  /\ \A p \in Programs :
       /\ 1 \in DOMAIN p /\ {Main, Sched, None, Sleep} \cap DOMAIN p = {}
       /\ \A t \in DOMAIN p : /\ p[t].executor \in Kinds
                              /\ p[t].awaits \in Seq((DOMAIN p \ {1}) \cup {Sleep})
       /\ \A t, u \in DOMAIN p : \A i \in DOMAIN p[t].awaits, j \in DOMAIN p[u].awaits :
            p[t].awaits[i] = p[u].awaits[j] /\ p[t].awaits[i] # Sleep => t = u /\ i = j

VARIABLES prog,
          at,        \* where each coroutine is
          todo,      \* what it has still to await
          stage,     \* of Head(todo): "call" it, "await" it, "get" its result
          callback,  \* callback[t]: the task resumed when t ends, None: nobody
          alive,     \* the frames that nobody has begun to destroy
          inside,    \* inside[x]: the task whose execute() the thread of x is in
          main,      \* where main() is
          loop,      \* where the thread of t's own looper is after the last of its functions
          ending,    \* how far the destructor of t's own looper is
          late       \* what was done to a task's frame or executor after its end

vars == <<prog, at, todo, stage, callback, alive, inside, main, loop, ending, late>>

Tasks   == DOMAIN prog
Threads == Tasks \cup {Main, Sched}
Kind(t) == prog[t].executor

Init ==
  /\ prog \in Programs
  /\ at = [t \in Tasks |-> "none"]
  /\ todo = [t \in Tasks |-> prog[t].awaits]
  /\ stage = [t \in Tasks |-> "call"]
  /\ callback = [t \in Tasks |-> None]
  /\ alive = {}
  /\ inside = [x \in Threads |-> None]
  /\ main = "call" /\ late = {}
  /\ loop = [t \in Tasks |-> "busy"]
  /\ ending = [t \in Tasks |-> "no"]

Late(t, what) == late' = IF t \in alive THEN late ELSE late \cup {<<what, t>>}

(* Thread x hands t to its executor: it stays in execute() until t suspends (Noop and  *)
(* Async) or until it has notified (Looper); the others' executors are static.          *)
Handed(x, t) == [inside EXCEPT ![x] = IF Kind(t) \in Blocking \cup {"looper"} THEN t ELSE None]

(* t suspends: who is in its blocking execute() returns. *)
Released(t) == [x \in Threads |-> IF inside[x] = t /\ Kind(t) \in Blocking THEN None ELSE inside[x]]

(* main() or the task x calls task t: DispatchAwaiter of its initial suspension *)
Create(x, t) ==
  /\ at' = [at EXCEPT ![t] = "queued"]
  /\ alive' = alive \cup {t}
  /\ inside' = Handed(x, t)

CallMain ==
  /\ main = "call"
  /\ main' = "get"
  /\ Create(Main, 1)
  /\ UNCHANGED <<prog, todo, stage, callback, late, loop, ending>>

Destroying(t) == ending[t] \in {"stop", "notify", "join"}

Woken(t) == [loop EXCEPT ![t] = IF @ \in {"waiting", "missed"} THEN "busy" ELSE @]

(* LooperExecutor::execute() after the unlock: the executor may be gone *)
Notify(x) ==
  /\ inside[x] # None /\ Kind(inside[x]) = "looper"
  /\ IF Destroying(inside[x]) THEN late' = late
     ELSE Late(inside[x], IF x = Sched THEN "notify after sleep" ELSE "notify")
  /\ loop' = Woken(inside[x])
  /\ inside' = [inside EXCEPT ![x] = None]
  /\ UNCHANGED <<prog, at, todo, stage, callback, alive, main, ending>>

(* The looper that tasks share runs one at a time. *)
OnShared(t) == Kind(t) = "shared" /\ at[t] \in {"running", "completing", "unlocked"}

Resume(t) ==
  /\ at[t] = "queued"
  /\ Kind(t) = "shared" => ~\E u \in Tasks : OnShared(u)
  /\ Late(t, "resume")
  /\ at' = [at EXCEPT ![t] = "running"]
  /\ UNCHANGED <<prog, todo, stage, callback, alive, inside, main, loop, ending>>

(* t goes on, and is not in the ~Task of one it has awaited *)
GoesOn(t) == /\ at[t] = "running" /\ inside[t] = None
             /\ ~\E u \in Tasks \cap Range(prog[t].awaits) : Destroying(u)
Running(t) == GoesOn(t) /\ todo[t] # << >>

(* co_await of a duration: the scheduler gets a function that uses the awaiter *)
StartSleep(t) ==
  /\ Running(t) /\ Head(todo[t]) = Sleep
  /\ at' = [at EXCEPT ![t] = "sleeping"]
  /\ todo' = [todo EXCEPT ![t] = Tail(@)]
  /\ inside' = Released(t)
  /\ UNCHANGED <<prog, stage, callback, alive, main, late, loop, ending>>

EndSleep(t) ==
  /\ at[t] = "sleeping" /\ inside[Sched] = None
  /\ Late(t, "awaiter")
  /\ at' = [at EXCEPT ![t] = "queued"]
  /\ inside' = Handed(Sched, t)
  /\ UNCHANGED <<prog, todo, stage, callback, alive, main, loop, ending>>

CallTask(t) ==
  /\ Running(t) /\ Head(todo[t]) # Sleep /\ stage[t] = "call"
  /\ Create(t, Head(todo[t]))
  /\ stage' = [stage EXCEPT ![t] = "await"]
  /\ UNCHANGED <<prog, todo, callback, main, late, loop, ending>>

Completed(t) == at[t] \in {"unlocked", "final"}

OnCompletedStoreMutant(t) ==     \* mutant: the callback is stored even when it is called
  /\ Running(t) /\ stage[t] = "await"
  /\ LET u == Head(todo[t]) IN
       /\ at[u] # "completing"
       /\ at' = [at EXCEPT ![t] = IF at[u] # "running" THEN "queued" ELSE "awaiting"]
       /\ callback' = [callback EXCEPT ![u] = t]
       /\ inside' = Released(t)
  /\ stage' = [stage EXCEPT ![t] = "get"]
  /\ UNCHANGED <<prog, todo, alive, main, late, loop, ending>>

StoreOnlyMutant(t) ==            \* mutant: the callback is stored and never called if too late
  /\ Running(t) /\ stage[t] = "await"
  /\ LET u == Head(todo[t]) IN
       /\ at[u] # "completing"
       /\ at' = [at EXCEPT ![t] = "awaiting"]
       /\ callback' = [callback EXCEPT ![u] = t]
       /\ inside' = Released(t)
  /\ stage' = [stage EXCEPT ![t] = "get"]
  /\ UNCHANGED <<prog, todo, alive, main, late, loop, ending>>

(* TaskAwaiter::await_suspend(): on_completed() stores the callback, or calls it when   *)
(* the result is there; then the own thread's execute() is the last it does            *)
AwaitTask(t) ==
  /\ Running(t) /\ stage[t] = "await"
  /\ LET u == Head(todo[t]) IN
       /\ at[u] # "completing"
       /\ at' = [at EXCEPT ![t] = IF Completed(u) THEN "queued" ELSE "awaiting"]
       /\ callback' = IF Completed(u) THEN callback ELSE [callback EXCEPT ![u] = t]
       /\ inside' = IF Completed(u) THEN inside ELSE Released(t)
  /\ stage' = [stage EXCEPT ![t] = "get"]
  /\ UNCHANGED <<prog, todo, alive, main, late, loop, ending>>

(* handle_.destroy(): the frame, and for a task's own looper ~LooperExecutor() in it *)
Destroyed(u) == [ending EXCEPT ![u] = IF Kind(u) = "looper" THEN "stop" ELSE @]

GetUnlockedMutant(t) ==          \* mutant: get_result() does not take the lock
  /\ Running(t) /\ stage[t] = "get"
  /\ LET u == Head(todo[t]) IN
       /\ Completed(u) \/ at[u] = "completing"
       /\ alive' = alive \ {u}
       /\ ending' = Destroyed(u)
  /\ stage' = [stage EXCEPT ![t] = "call"]
  /\ todo' = [todo EXCEPT ![t] = Tail(@)]
  /\ UNCHANGED <<prog, at, callback, inside, main, loop, late>>

(* TaskAwaiter::await_resume(): get_result(), and the awaiter's Task destroys its frame *)
Get(t) ==
  /\ Running(t) /\ stage[t] = "get"
  /\ LET u == Head(todo[t]) IN
       /\ Completed(u)
       /\ alive' = alive \ {u}
       /\ ending' = Destroyed(u)
  /\ stage' = [stage EXCEPT ![t] = "call"]
  /\ todo' = [todo EXCEPT ![t] = Tail(@)]
  /\ UNCHANGED <<prog, at, callback, inside, main, loop, late>>

(* co_return: the result is set, with the lock kept for the callbacks *)
Complete(t) ==
  /\ GoesOn(t) /\ todo[t] = << >>
  /\ at' = [at EXCEPT ![t] = "completing"]
  /\ UNCHANGED <<prog, todo, stage, callback, alive, inside, main, late, loop, ending>>

NotifyCallback(t) ==
  /\ at[t] = "completing" /\ callback[t] # None
  /\ Late(callback[t], "awaiter")
  /\ at' = [at EXCEPT ![callback[t]] = "queued"]
  /\ inside' = Handed(t, callback[t])
  /\ callback' = [callback EXCEPT ![t] = None]
  /\ UNCHANGED <<prog, todo, stage, alive, main, loop, ending>>

Unlock(t) ==
  /\ at[t] = "completing" /\ callback[t] = None /\ inside[t] = None
  /\ Late(t, "unlock")
  /\ at' = [at EXCEPT ![t] = "unlocked"]
  /\ UNCHANGED <<prog, todo, stage, callback, alive, inside, main, loop, ending>>

FinalSuspend(t) ==
  /\ at[t] = "unlocked"
  /\ Late(t, "suspend")
  /\ at' = [at EXCEPT ![t] = "final"]
  /\ inside' = Released(t)
  /\ UNCHANGED <<prog, todo, stage, callback, alive, main, loop, ending>>

(* get_result() of main(), and ~Task *)
GetMain ==
  /\ main = "get" /\ inside[Main] = None
  /\ Completed(1)
  /\ main' = "ended"
  /\ alive' = alive \ {1}
  /\ ending' = Destroyed(1)
  /\ UNCHANGED <<prog, at, todo, stage, callback, inside, loop, late>>

Ending(t, from, to) == ending[t] = from /\ ending' = [ending EXCEPT ![t] = to]

(* shutdown(false): is_active is stored without the lock ...                            *)
StopLooper(t) ==
  /\ Ending(t, "stop", "notify")
  /\ UNCHANGED <<prog, at, todo, stage, callback, alive, inside, main, loop, late>>

NotifyNobodyMutant(t) ==         \* mutant: the sleeping thread is not notified
  /\ Ending(t, "notify", "join")
  /\ UNCHANGED <<prog, at, todo, stage, callback, alive, inside, main, loop, late>>

(* ... and the thread notified once the queue, in which nothing is left, is swept *)
NotifyAll(t) ==
  /\ Ending(t, "notify", "join")
  /\ loop' = Woken(t)
  /\ UNCHANGED <<prog, at, todo, stage, callback, alive, inside, main, late>>

JoinLooper(t) ==
  /\ loop[t] = "ended" /\ Ending(t, "join", "gone")
  /\ UNCHANGED <<prog, at, todo, stage, callback, alive, inside, main, loop, late>>

Looping(t, from, to) ==
  /\ Kind(t) = "looper" /\ at[t] = "final" /\ loop[t] = from
  /\ loop' = [loop EXCEPT ![t] = to]
  /\ UNCHANGED <<prog, at, todo, stage, callback, alive, inside, main, ending, late>>

(* run_loop() with nothing in its queue: the loop test reads is_active ...               *)
LoopTest(t) == Looping(t, "busy", IF ending[t] \in {"no", "stop"} THEN "tested" ELSE "ended")

(* ... and wait() follows; it has missed notify_all() if that was in between.            *)
LoopWait(t) == Looping(t, "tested", IF ending[t] = "join" THEN "missed" ELSE "waiting")

SpuriousWake(t) == \E w \in {"waiting", "missed"} : Looping(t, w, "busy")

Run(t) == Resume(t) \/ StartSleep(t) \/ EndSleep(t) \/ CallTask(t) \/ AwaitTask(t) \/ Get(t)
          \/ Complete(t) \/ NotifyCallback(t) \/ Unlock(t) \/ FinalSuspend(t)
Loop(t) == LoopTest(t) \/ LoopWait(t)
Destroy(t) == StopLooper(t) \/ NotifyAll(t) \/ JoinLooper(t)
Next == \/ CallMain \/ GetMain \/ \E x \in Threads : Notify(x)
        \/ \E t \in Tasks : Run(t) \/ Loop(t) \/ Destroy(t) \/ SpuriousWake(t)

Spec == Init /\ [][Next]_vars
-----------------------------------------------------------------------------
(* A coroutine is handed to its executor only when it is suspended, for its first time, a *)
(* sleep or a task, and with its frame alive: it is never resumed twice for one await.     *)
ResumedOncePerAwait ==
  [][\A t \in Tasks :
       at'[t] = "queued" /\ at[t] # "queued" =>
         /\ t \in alive'
         /\ at[t] \in {"none", "sleeping", "awaiting"} \/ stage[t] = "await"]_vars

(* Every callback stored belongs to a coroutine that is suspended for it, and a task that  *)
(* somebody awaits still has its callback or has called it.                              *)
AwaitedHasCallback ==
  /\ \A t \in Tasks : callback[t] # None => /\ at[callback[t]] = "awaiting" /\ callback[t] \in alive
                                         /\ Head(todo[callback[t]]) = t
  /\ \A t \in Tasks : at[t] = "awaiting" => callback[Head(todo[t])] = t

(* Only two accesses can meet a frame that is gone: the final suspension, and the          *)
(* notify_one with which the scheduler's thread has handed a task that slept to its own     *)
(* looper.  That of main(), of a calling task and of a completing one is always in time.    *)
LateOnlyAtTheEnd ==
  \A l \in late :
    \/ l[1] = "suspend"
    \/ l[1] = "notify after sleep" /\ Sleep \in Range(prog[l[2]].awaits)

(* The final suspension is not late where it cannot be: for two tasks on the one shared    *)
(* looper, and for a task whose execute() its user is in until then, which it is if the     *)
(* executor blocks and the task does not sleep.                                          *)
SameThreadIsSafe ==
  \A l \in late : l[1] = "suspend" =>
    /\ Kind(l[2]) = "shared" =>
         \A u \in Tasks : l[2] \in Range(prog[u].awaits) => Kind(u) # "shared"
    /\ Kind(l[2]) \in Blocking => Sleep \in Range(prog[l[2]].awaits)

(* A task that is resumed inside of the callback of the task it awaits asks for the lock its *)
(* own caller holds.                                                                     *)
SelfBlocked == \E t \in Tasks : LET u == inside[t] IN
  u # None /\ Kind(u) \in Blocking /\ at[t] = "completing" /\ at[u] = "running" /\ stage[u] = "get"

(* ~Task joins a looper whose thread has read is_active before it was stored and begun to *)
(* wait after notify_all(), which wakes nobody.                                          *)
LooperMissed == \E t \in Tasks : ending[t] = "join" /\ loop[t] = "missed"

MainEnded == main = "ended" /\ ~Destroying(1)

(* main() has its result and its task is destroyed, unless a coroutine blocks itself, only *)
(* for Noop and Async, or a ~Task waits for a looper's thread that has missed its wakeup;   *)
(* no other wait of a chain is for ever.  What is late is taken to do no harm, although     *)
(* anything can follow an access to a frame that is gone.                                 *)
ChainEnds == <>(MainEnded \/ SelfBlocked) \/ <>[]LooperMissed

(* Suspended coroutines have their callbacks, and only accesses at a task's end are late.  *)
Safety == AwaitedHasCallback /\ LateOnlyAtTheEnd /\ SameThreadIsSafe
=============================================================================
