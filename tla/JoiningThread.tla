---------------------------- MODULE JoiningThread ----------------------------
(* mystl::jthread of coroutine/jthread.h and the coroutine of coroutine/task.cpp,      *)
(* which goes on in a thread that it puts into the jthread main() has passed.  The      *)
(* coroutine never suspends at its end: its frame goes when it returns, in the new       *)
(* thread, while main() may still be in await_suspend().                              *)
EXTENDS Naturals, FiniteSets

CONSTANTS Runs,    \* coroutines main() starts with the same jthread, 1 in the code
          None     \* no thread

JoiningAssumption == Runs \in Nat \ {0} /\ None \notin 1..Runs

VARIABLES slot,     \* slot[o]: the thread of the jthread o: out and the temporaries
          thread,   \* thread[r]: "none", "running", "ended" or "joined"
          frame,    \* frame[r]: "none", "body", "suspended", "resumed" or "gone"
          pc, run,  \* where main() is, and with which coroutine
          late,     \* runs whose frame was used after it was gone
          outcome   \* outcome[r]: "none", "resumed" or "threw"

vars == <<slot, thread, frame, pc, run, late, outcome>>

Slots == {"out", "new", "tmp"}
Ids   == 1..Runs

Init ==
  /\ slot = [o \in Slots |-> None]
  /\ thread = [r \in Ids |-> "none"] /\ frame = [r \in Ids |-> "none"]
  /\ pc = "call" /\ run = 1
  /\ late = {} /\ outcome = [r \in Ids |-> "none"]

joinable(o) == slot[o] # None
Goto(a, b) == pc = a /\ pc' = b

UsesFrameMutant(l) == TRUE   \* mutant: out is p_out of the awaiter throughout

(* where await_suspend() reads the awaiter, which is in the frame: for p_out, at first *)
UsesFrame(l) == l = "suspend"

Using == late' = IF UsesFrame(pc) /\ frame[run] = "gone" THEN late \cup {run} ELSE late

(* resuming_on_new_thread(out) runs at once, as far as its co_await *)
Call ==
  /\ Goto("call", "suspend")
  /\ frame' = [frame EXCEPT ![run] = "suspended"]
  /\ UNCHANGED <<slot, thread, run, late, outcome>>

(* await_suspend(): it throws if out has a thread, which unhandled_exception() ignores *)
Refuse ==
  /\ Goto("suspend", "returned") /\ joinable("out")
  /\ outcome' = [outcome EXCEPT ![run] = "threw"]
  /\ frame' = [frame EXCEPT ![run] = "gone"]
  /\ Using
  /\ UNCHANGED <<slot, thread, run>>

StartUncheckedMutant ==      \* mutant: out is not looked at
  /\ Goto("suspend", "assign")
  /\ slot' = [slot EXCEPT !["new"] = run]
  /\ thread' = [thread EXCEPT ![run] = "running"]
  /\ UNCHANGED <<frame, run, late, outcome>>

(* jthread([h] { h.resume(); }): the thread starts *)
StartThread ==
  /\ Goto("suspend", "assign") /\ ~joinable("out")
  /\ slot' = [slot EXCEPT !["new"] = run]
  /\ thread' = [thread EXCEPT ![run] = "running"]
  /\ Using
  /\ UNCHANGED <<frame, run, outcome>>

AssignCopyMutant ==          \* mutant: the temporary keeps what was moved from it
  /\ Goto("assign", "destroy tmp")
  /\ slot' = [slot EXCEPT !["out"] = slot["new"], !["tmp"] = slot["new"]]
  /\ UNCHANGED <<thread, frame, run, late, outcome>>

(* operator=(jthread &&): out swaps with a temporary made from the other *)
Assign ==
  /\ Goto("assign", "destroy tmp")
  /\ slot' = [out |-> slot["new"], new |-> None, tmp |-> slot["out"]]
  /\ Using
  /\ UNCHANGED <<thread, frame, run, outcome>>

(* ~jthread(): join() if joinable() *)
Destroy(o, from, to) ==
  /\ Goto(from, to)
  /\ joinable(o) => thread[slot[o]] = "ended"
  /\ thread' = IF joinable(o) THEN [thread EXCEPT ![slot[o]] = "joined"] ELSE thread
  /\ slot' = [slot EXCEPT ![o] = None]
  /\ UNCHANGED <<frame, run, late, outcome>>

DestroyTmp == Destroy("tmp", "destroy tmp", "destroy new")
DestroyNew == Destroy("new", "destroy new", "print")

(* out.get_id() by the reference copied before the thread was started *)
PrintId ==
  /\ Goto("print", "returned")
  /\ Using
  /\ UNCHANGED <<slot, thread, frame, run, outcome>>

CallAgain ==
  /\ Goto("returned", "call") /\ run < Runs
  /\ run' = run + 1
  /\ UNCHANGED <<slot, thread, frame, late, outcome>>

DestroyOut == run = Runs /\ Destroy("out", "returned", "ended")

(* the new thread resumes the coroutine, and its frame goes with its return *)
ResumeRun(r) ==
  /\ thread[r] = "running" /\ frame[r] = "suspended"
  /\ frame' = [frame EXCEPT ![r] = "resumed"]
  /\ UNCHANGED <<slot, thread, pc, run, late, outcome>>

ReturnRun(r) ==
  /\ frame[r] = "resumed"
  /\ frame' = [frame EXCEPT ![r] = "gone"]
  /\ outcome' = [outcome EXCEPT ![r] = "resumed"]
  /\ UNCHANGED <<slot, thread, pc, run, late>>

EndThread(r) ==
  /\ thread[r] = "running" /\ frame[r] = "gone"
  /\ thread' = [thread EXCEPT ![r] = "ended"]
  /\ UNCHANGED <<slot, frame, pc, run, late, outcome>>

MainStep == Call \/ Refuse \/ StartThread \/ Assign \/ DestroyTmp \/ DestroyNew \/ PrintId
            \/ CallAgain \/ DestroyOut
ThreadStep(r) == ResumeRun(r) \/ ReturnRun(r) \/ EndThread(r)
Next == MainStep \/ \E r \in Ids : ThreadStep(r)

Spec == Init /\ [][Next]_vars
-----------------------------------------------------------------------------
(* A thread that runs is in exactly one jthread, so that it is joined once and no          *)
(* std::thread is destroyed or overwritten while it is joinable.                        *)
ThreadOwnedOnce ==
  \A r \in Ids : Cardinality({o \in Slots : slot[o] = r})
                 = IF thread[r] \in {"running", "ended"} THEN 1 ELSE 0

(* What main() still does in await_suspend() uses no frame the new thread has ended.      *)
FrameNotUsedLate == late = {}

(* Only the first coroutine gets the jthread: out keeps its thread until main() ends, so a *)
(* later one throws, and its frame goes without having gone on.                         *)
FirstOnly == pc = "ended" => \A r \in Ids :
  /\ outcome[r] = IF r = 1 THEN "resumed" ELSE "threw"
  /\ frame[r] = "gone" /\ thread[r] = IF r = 1 THEN "joined" ELSE "none"

(* main() ends: the join waits for a coroutine that returns.                           *)
MainEnds == <>(pc = "ended")

(* One thread, joined once, that uses no frame late.                                    *)
Safety == ThreadOwnedOnce /\ FrameNotUsedLate /\ FirstOnly
=============================================================================
