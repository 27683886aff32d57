------------------------------ MODULE LazyAwait ------------------------------
(* coroutine_e1.cpp: a sync coroutine runs at once and awaits lazy ones.            *)
(* lazy::await_suspend() resumes the lazy coroutine and then, still in the call, the *)
(* awaiting one, which may await again: the calls nest on one stack.                *)
EXTENDS Naturals, Sequences

CONSTANTS Replies,   \* calls of reply() in a program
          Awaits,    \* lazy coroutines each awaits, read_data() and write_data()
          Syncs,     \* variables of type sync
          None,      \* no handle
          Dead       \* no object: a variable outside its lifetime

LazyAssumption ==
  /\ Replies \in Nat /\ Awaits \in Nat
  /\ None # Dead /\ {None, Dead} \cap (1..Replies) = {}

VARIABLES stack,    \* the calls in progress, the last one runs: see Call
          frame,    \* frame[r][0]: reply r; frame[r][i]: the i-th coroutine it awaits
          got,      \* got[r]: the lazy coroutines whose value reply r has received
          sync,     \* the handle of each variable: Dead, None, or a reply
          answer,   \* what get() gave last
          undef     \* a coroutine was resumed, read or destroyed that must not be

vars == <<stack, frame, got, sync, answer, undef>>

(* "reply": the coroutine r runs; "lazy": its i-th; "resume", "awaiting": the two     *)
(* halves of await_suspend() for its i-th                                           *)
Call(what, r, i) == [what |-> what, r |-> r, i |-> i]

States == {"none", "running", "suspended", "done", "destroyed"}

TypeOK ==
  /\ stack \in Seq([what : {"reply", "lazy", "resume", "awaiting"}, r : 1..Replies, i : 0..Awaits + 1])
  /\ frame \in [1..Replies -> [0..Awaits -> States]]
  /\ got \in [1..Replies -> Seq(1..Awaits)]
  /\ sync \in [Syncs -> {Dead, None} \cup 1..Replies]
  /\ answer \in {None} \cup 1..Replies
  /\ undef \in BOOLEAN

Init ==
  /\ stack = << >>
  /\ frame = [r \in 1..Replies |-> [i \in 0..Awaits |-> "none"]]
  /\ got = [r \in 1..Replies |-> << >>]
  /\ sync = [v \in Syncs |-> Dead]
  /\ answer = None
  /\ undef = FALSE

Top == stack[Len(stack)]
Below == SubSeq(stack, 1, Len(stack) - 1)
Runs(what) == ~undef /\ stack # << >> /\ Top.what = what
MainRuns == ~undef /\ stack = << >>
-----------------------------------------------------------------------------
(* reply() creates its frame and, initial_suspend being suspend_never, runs.  The   *)
(* sync it returns initialises v or is moved to it, which forgets what v held.      *)
reply(v) ==
  /\ MainRuns
  /\ \E r \in 1..Replies :
       /\ \A q \in 1..Replies : frame[q][0] = "none" <=> q >= r
       /\ frame' = [frame EXCEPT ![r][0] = "running"]
       /\ sync' = [sync EXCEPT ![v] = r]
       /\ stack' = <<Call("reply", r, 1)>>
  /\ UNCHANGED <<got, answer, undef>>

(* co_await of the next lazy coroutine: its frame is created suspended, await_ready() *)
(* finds it not done, reply is suspended and await_suspend() called                  *)
co_await ==
  /\ Runs("reply") /\ Top.i <= Awaits
  /\ frame' = [frame EXCEPT ![Top.r][0] = "suspended", ![Top.r][Top.i] = "suspended"]
  /\ stack' = Append(Below, Call("reply", Top.r, Awaits + 1)) \o <<Call("resume", Top.r, Top.i)>>
  /\ UNCHANGED <<got, sync, answer, undef>>

(* await_suspend(): this->coro.resume() *)
resume_lazy ==
  /\ Runs("resume")
  /\ stack' = Append(Below, Call("awaiting", Top.r, Top.i)) \o <<Call("lazy", Top.r, Top.i)>>
  /\ undef' = (frame[Top.r][Top.i] # "suspended")
  /\ frame' = [frame EXCEPT ![Top.r][Top.i] = "running"]
  /\ UNCHANGED <<got, sync, answer>>

(* return_value() and final_suspend() of the lazy coroutine: back to await_suspend() *)
co_return_lazy ==
  /\ Runs("lazy")
  /\ stack' = Below
  /\ frame' = [frame EXCEPT ![Top.r][Top.i] = "done"]
  /\ UNCHANGED <<got, sync, answer, undef>>

AwaiterKeptMutant ==       \* mutant: the lazy object does not destroy its coroutine
  /\ Runs("awaiting") /\ Top.i <= Awaits
  /\ undef' = ~(frame[Top.r][0] = "suspended" /\ frame[Top.r][Top.i] = "done")
  /\ frame' = [frame EXCEPT ![Top.r][0] = "running"]
  /\ got' = [got EXCEPT ![Top.r] = Append(@, Top.i)]
  /\ stack' = Append(Below, Call("awaiting", Top.r, Awaits + 1)) \o <<Call("reply", Top.r, Top.i + 1)>>
  /\ UNCHANGED <<sync, answer>>

(* awaiting.resume(): the awaiting coroutine takes the value in await_resume() and,   *)
(* at the end of the co_await expression, destroys the lazy object whose             *)
(* await_suspend() is still running; that call touches it no more.                   *)
awaiting_resume ==
  /\ Runs("awaiting") /\ Top.i <= Awaits
  /\ undef' = ~(frame[Top.r][0] = "suspended" /\ frame[Top.r][Top.i] = "done")
  /\ frame' = [frame EXCEPT ![Top.r][0] = "running", ![Top.r][Top.i] = "destroyed"]
  /\ got' = [got EXCEPT ![Top.r] = Append(@, Top.i)]
  /\ stack' = Append(Below, Call("awaiting", Top.r, Awaits + 1)) \o <<Call("reply", Top.r, Top.i + 1)>>
  /\ UNCHANGED <<sync, answer>>

(* await_suspend() returns, to the call that has resumed the awaiting coroutine       *)
await_suspend_returns ==
  /\ Runs("awaiting") /\ Top.i = Awaits + 1
  /\ stack' = Below
  /\ UNCHANGED <<frame, got, sync, answer, undef>>

(* co_return 42 and final_suspend(), by the innermost of the nested calls *)
co_return ==
  /\ Runs("reply") /\ Top.i = Awaits + 1 /\ frame[Top.r][0] = "running"
  /\ stack' = Below
  /\ frame' = [frame EXCEPT ![Top.r][0] = "done"]
  /\ UNCHANGED <<got, sync, answer, undef>>

(* the outer calls find reply suspended or done and return *)
reply_returns ==
  /\ Runs("reply") /\ Top.i = Awaits + 1 /\ frame[Top.r][0] # "running"
  /\ stack' = Below
  /\ UNCHANGED <<frame, got, sync, answer, undef>>
-----------------------------------------------------------------------------
get(v) ==
  /\ MainRuns /\ sync[v] # Dead
  /\ undef' = (sync[v] = None \/ (sync[v] # None /\ frame[sync[v]][0] # "done"))
  /\ answer' = IF undef' THEN answer ELSE sync[v]
  /\ UNCHANGED <<stack, frame, got, sync>>

(* sync(sync &&) and operator=(sync &&): the handle that v had is not destroyed.  A    *)
(* move to itself ends with no handle.                                               *)
MoveKeepMutant(v, w) ==     \* mutant: s.coro is not reset
  /\ MainRuns /\ sync[w] # Dead /\ v # w
  /\ sync' = [sync EXCEPT ![v] = sync[w]]
  /\ UNCHANGED <<stack, frame, got, answer, undef>>

Move(v, w) ==
  /\ MainRuns /\ sync[w] # Dead
  /\ sync' = [[sync EXCEPT ![v] = sync[w]] EXCEPT ![w] = None]
  /\ UNCHANGED <<stack, frame, got, answer, undef>>

DestructLeakMutant(v) ==    \* mutant: coro.destroy() is not called
  /\ MainRuns /\ sync[v] # Dead
  /\ sync' = [sync EXCEPT ![v] = Dead]
  /\ UNCHANGED <<stack, frame, got, answer, undef>>

Destruct(v) ==
  /\ MainRuns /\ sync[v] # Dead
  /\ sync' = [sync EXCEPT ![v] = Dead]
  /\ IF sync[v] = None THEN UNCHANGED <<frame, undef>>
     ELSE /\ undef' = (frame[sync[v]][0] = "destroyed")
          /\ frame' = [frame EXCEPT ![sync[v]][0] = "destroyed"]
  /\ UNCHANGED <<stack, got, answer>>

Next ==
  \/ co_await \/ resume_lazy \/ co_return_lazy \/ awaiting_resume
  \/ await_suspend_returns \/ co_return \/ reply_returns
  \/ \E v \in Syncs : reply(v) \/ get(v) \/ Destruct(v) \/ (\E w \in Syncs : Move(v, w))

Spec == Init /\ [][Next]_vars
-----------------------------------------------------------------------------
(* The nested resumptions keep to the life of each coroutine: it is resumed only when *)
(* suspended, read only when done and destroyed once; the one thing a program can do  *)
(* wrong is to ask an empty sync for its answer.                                      *)
UndefinedOnlyEmptyGet == undef => stack = << >> /\ \E v \in Syncs : sync[v] = None

(* Once a call of reply() is over, it has the values of all it awaited, in order, and  *)
(* their frames are gone: main never sees it half done.                               *)
ReplyIsComplete ==
  MainRuns => \A r \in 1..Replies : frame[r][0] # "none" =>
    /\ frame[r][0] \in {"done", "destroyed"}
    /\ got[r] = [i \in 1..Awaits |-> i]
    /\ \A i \in 1..Awaits : frame[r][i] = "destroyed"

(* A finished coroutine that no sync has is forgotten: only an assignment to a         *)
(* variable that had it does that.                                                   *)
Held(r) == frame[r][0] \in {"running", "suspended", "done"} => \E v \in Syncs : sync[v] = r
LostOnlyByAssignment ==
  [][\A r \in 1..Replies : Held(r) /\ ~Held(r)' =>
       \E v \in Syncs : sync[v] = r /\ sync'[v] \notin {r, Dead}]_vars

(* However deep the resumptions nest, a reply is complete and no frame misused.          *)
Safety == UndefinedOnlyEmptyGet /\ ReplyIsComplete
=============================================================================
