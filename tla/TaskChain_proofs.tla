--------------------------- MODULE TaskChain_proofs --------------------------
(* Proofs about TaskChain, for any programs in which each task is awaited once: a        *)
(* coroutine is resumed once per await, and only the accesses at a task's end are late.   *)
EXTENDS TaskChain, SequenceTheorems, TLAPS

(* What t is calling, awaiting or getting *)
Now(t) == todo[t][1]

(* where a coroutine is between its first call and its result *)
Busy == {"queued", "running", "sleeping", "awaiting", "completing"}

Types ==
  /\ prog \in Programs
  /\ at \in [Tasks -> Busy \cup {"none", "unlocked", "final"}]
  /\ todo \in [Tasks -> Seq((Tasks \ {1}) \cup {Sleep})]
  /\ stage \in [Tasks -> {"call", "await", "get"}]
  /\ callback \in [Tasks -> Tasks \cup {None}]
  /\ alive \subseteq Tasks
  /\ inside \in [Threads -> Tasks \cup {None}]
  /\ main \in {"call", "get", "ended"}

(* What is left to await is in the program, and no task twice. *)
TodoOK(t) ==
  /\ \A i \in 1..Len(todo[t]) : todo[t][i] \in Range(prog[t].awaits)
  /\ \A i, j \in 1..Len(todo[t]) : todo[t][i] = todo[t][j] /\ todo[t][i] # Sleep => i = j

(* Nobody has called what t has still to call. *)
NotCalled(t) ==
  \A i \in 1..Len(todo[t]) :
    (stage[t] = "call" \/ i > 1) /\ todo[t][i] # Sleep => at[todo[t][i]] = "none"

(* A coroutine that is busy has its frame, and one at its end nothing to await. *)
BusyOK(t) ==
  /\ at[t] \in Busy => t \in alive
  /\ at[t] \in {"completing", "unlocked", "final"} => todo[t] = << >>
  /\ at[t] = "awaiting" => stage[t] = "get"
  /\ at[t] = "sleeping" => Sleep \in Range(prog[t].awaits)

(* Between the call of a task and the await, the caller runs. *)
AwaitOK(t) ==
  stage[t] = "await" =>
    /\ at[t] = "running" /\ todo[t] # << >> /\ Now(t) \in Tasks \ {t}
    /\ at[Now(t)] # "none" /\ Now(t) \in alive

(* After the await, either the callback is stored, or it was called because the result is *)
(* there, and t waits for the lock.                                                    *)
GetOK(t) ==
  stage[t] = "get" =>
    /\ at[t] \in {"queued", "running", "awaiting"} /\ todo[t] # << >> /\ Now(t) \in Tasks
    /\ Now(t) \in alive
    /\ IF at[t] = "awaiting" THEN callback[Now(t)] = t /\ at[Now(t)] \in Busy
       ELSE callback[Now(t)] = None /\ at[Now(t)] \in {"completing", "unlocked", "final"}

CallbackOK(t) ==
  callback[t] # None =>
    /\ at[callback[t]] = "awaiting" /\ todo[callback[t]] # << >> /\ Now(callback[t]) = t

(* A thread in the execute() of a task has called it, or completes for it. *)
InsideOK(t) ==
  inside[t] # None =>
    \/ at[t] = "running" /\ stage[t] = "await" /\ inside[t] = Now(t)
    \/ /\ at[t] = "completing" /\ callback[t] = None
       /\ stage[inside[t]] = "get" /\ Now(inside[t]) = t /\ at[inside[t]] \in {"queued", "running"}

MainOK ==
  /\ main = "call" <=> at[1] = "none"
  /\ inside[Main] # None => inside[Main] = 1 /\ main = "get"
  /\ main = "get" => 1 \in alive
  /\ inside[Sched] # None => Sleep \in Range(prog[inside[Sched]].awaits)

(* One task at a time is on the looper that they share. *)
SharedOK == \A t, u \in Tasks : OnShared(t) /\ OnShared(u) => t = u

(* where a coroutine is between its first call and its last suspension, unless it waits *)
Open == {"queued", "running", "completing", "unlocked"}

Sleeps(t) == Sleep \in Range(prog[t].awaits)

(* Who uses t is in the execute() of t if that blocks and t does not sleep, unless t was    *)
(* resumed by the callback of the task it awaits, whose lock it waits for.                *)
BlockingOK(t) ==
  Kind(t) \in Blocking /\ ~Sleeps(t) /\ at[t] \in Open =>
    \/ t = 1 /\ inside[Main] = 1
    \/ \E u \in Tasks : inside[u] = t /\ t \in Range(prog[u].awaits)
    \/ stage[t] = "get" /\ inside[Now(t)] = t /\ at[Now(t)] = "completing"

(* The coroutine whose frame goes before its final suspension *)
LateSuspend(t) ==
  /\ Kind(t) = "shared" => \A u \in Tasks : t \in Range(prog[u].awaits) => Kind(u) # "shared"
  /\ Kind(t) \in Blocking => Sleeps(t)

(* What may be late: a final suspension, and the notify_one for a task that slept *)
Excused(l) ==
  \E t \in Tasks : \/ l = <<"suspend", t>> /\ LateSuspend(t)
                   \/ l = <<"notify after sleep", t>> /\ Sleeps(t)

LateOK ==
  /\ \A t \in Tasks : at[t] = "unlocked" /\ t \notin alive => LateSuspend(t)
  /\ \A l \in late : Excused(l)

Chain(t) ==
  /\ TodoOK(t) /\ NotCalled(t) /\ BusyOK(t) /\ AwaitOK(t) /\ GetOK(t)
  /\ CallbackOK(t) /\ InsideOK(t) /\ BlockingOK(t)

IInv == Types /\ (\A t \in Tasks : Chain(t)) /\ MainOK /\ SharedOK /\ LateOK
-----------------------------------------------------------------------------
(* The threads and tasks of a program are different, and a task is awaited by one task. *)
LEMMA Program ==
  ASSUME ChainAssumption, Types
  PROVE  /\ 1 \in Tasks /\ Main \notin Tasks /\ Sched \notin Tasks /\ None \notin Tasks /\ Sleep \notin Tasks
         /\ Main # Sched
         /\ \A t \in Tasks : Kind(t) \in Kinds /\ 1 \notin Range(prog[t].awaits)
         /\ \A t, u \in Tasks, x \in Tasks : x \in Range(prog[t].awaits) /\ x \in Range(prog[u].awaits) => t = u
<1>1. prog \in Programs /\ Tasks = DOMAIN prog
  BY DEF Types, Tasks
<1>2. 1 \in Tasks /\ {Main, Sched, None, Sleep} \cap Tasks = {} /\ Main # Sched
  BY <1>1 DEF ChainAssumption
<1>3. ASSUME NEW t \in Tasks PROVE Kind(t) \in Kinds /\ 1 \notin Range(prog[t].awaits)
  <2>1. Kind(t) \in Kinds /\ prog[t].awaits \in Seq((Tasks \ {1}) \cup {Sleep})
    BY <1>1 DEF ChainAssumption, Kind
  <2>2. \A i \in DOMAIN prog[t].awaits : prog[t].awaits[i] \in (Tasks \ {1}) \cup {Sleep}
    BY <2>1
  <2> QED
    BY <1>2, <2>1, <2>2 DEF Range
<1>5. \A t, u \in Tasks : \A i \in DOMAIN prog[t].awaits, j \in DOMAIN prog[u].awaits :
        prog[t].awaits[i] = prog[u].awaits[j] /\ prog[t].awaits[i] # Sleep => t = u /\ i = j
  BY <1>1, Zenon DEF ChainAssumption
<1>4. ASSUME NEW t \in Tasks, NEW u \in Tasks, NEW x \in Tasks,
             x \in Range(prog[t].awaits), x \in Range(prog[u].awaits)
      PROVE  t = u
  <2>1. PICK i \in DOMAIN prog[t].awaits : prog[t].awaits[i] = x
    BY <1>4 DEF Range
  <2>2. PICK j \in DOMAIN prog[u].awaits : prog[u].awaits[j] = x
    BY <1>4 DEF Range
  <2>3. x # Sleep
    BY <1>2, <1>4
  <2> QED
    BY <1>5, <2>1, <2>2, <2>3
<1> QED
  BY <1>2, <1>3, <1>4

(* What is to be awaited is a task or a sleep, a task in one list and once. *)
LEMMA Todo ==
  ASSUME ChainAssumption, IInv
  PROVE  /\ \A t \in Tasks : /\ Len(todo[t]) \in Nat
                             /\ \A i \in 1..Len(todo[t]) : todo[t][i] \in (Tasks \ {1}) \cup {Sleep}
                             /\ todo[t] # << >> => 1 \in 1..Len(todo[t]) /\ Head(todo[t]) = Now(t)
                             /\ todo[t] = << >> => Len(todo[t]) = 0
                             /\ todo[t] # << >> =>
                                  /\ Tail(todo[t]) \in Seq((Tasks \ {1}) \cup {Sleep})
                                  /\ Len(Tail(todo[t])) = Len(todo[t]) - 1
                                  /\ \A i \in 1..Len(Tail(todo[t])) :
                                       i + 1 \in 2..Len(todo[t]) /\ Tail(todo[t])[i] = todo[t][i + 1]
         /\ \A t, u \in Tasks : \A i \in 1..Len(todo[t]), j \in 1..Len(todo[u]) :
              todo[t][i] = todo[u][j] /\ todo[t][i] # Sleep => t = u /\ i = j
<1>1. ASSUME NEW t \in Tasks
      PROVE  /\ Len(todo[t]) \in Nat
             /\ \A i \in 1..Len(todo[t]) : todo[t][i] \in (Tasks \ {1}) \cup {Sleep}
             /\ todo[t] # << >> => 1 \in 1..Len(todo[t]) /\ Head(todo[t]) = Now(t)
             /\ todo[t] = << >> => Len(todo[t]) = 0
             /\ todo[t] # << >> =>
                  /\ Tail(todo[t]) \in Seq((Tasks \ {1}) \cup {Sleep})
                  /\ Len(Tail(todo[t])) = Len(todo[t]) - 1
                  /\ \A i \in 1..Len(Tail(todo[t])) :
                       i + 1 \in 2..Len(todo[t]) /\ Tail(todo[t])[i] = todo[t][i + 1]
  <2> DEFINE s == todo[t]  S == (Tasks \ {1}) \cup {Sleep}
  <2>1. s \in Seq(S)
    BY DEF IInv, Types
  <2> HIDE DEF S
  <2>2. /\ Len(s) \in Nat /\ (\A i \in 1..Len(s) : s[i] \in S) /\ (s = << >> => Len(s) = 0)
        /\ s # << >> => 1 \in 1..Len(s) /\ Head(s) = s[1]
    BY <2>1
  <2>3. s # << >> => /\ Tail(s) \in Seq(S) /\ Len(Tail(s)) = Len(s) - 1
                     /\ \A i \in 1..Len(Tail(s)) : i + 1 \in 2..Len(s) /\ Tail(s)[i] = s[i + 1]
    BY <2>1
  <2> QED
    BY <2>2, <2>3 DEF S, Now
<1>2. ASSUME NEW t \in Tasks, NEW u \in Tasks, NEW i \in 1..Len(todo[t]), NEW j \in 1..Len(todo[u]),
             todo[t][i] = todo[u][j], todo[t][i] # Sleep
      PROVE  t = u /\ i = j
  <2>1. todo[t][i] \in Tasks
    BY <1>1, <1>2
  <2>2. todo[t][i] \in Range(prog[t].awaits) /\ todo[u][j] \in Range(prog[u].awaits)
    BY DEF IInv, Chain, TodoOK
  <2>3. t = u
    BY <1>2, <2>1, <2>2, Program DEF IInv
  <2> QED
    BY <1>2, <2>3 DEF IInv, Chain, TodoOK
<1> QED
  BY <1>1, <1>2

(* What is late stays excused in a step that adds only what is excused. *)
LEMMA LateKept ==
  ASSUME LateOK, prog' = prog, late' \subseteq late \cup {l \in late' : Excused(l)},
         \A u \in Tasks : at'[u] = "unlocked" /\ u \notin alive' => LateSuspend(u)
  PROVE  LateOK'
<1>1. Tasks' = Tasks
  BY DEF Tasks
<1>2. \A u \in Tasks : (Sleeps(u)' <=> Sleeps(u)) /\ (LateSuspend(u)' <=> LateSuspend(u))
  BY <1>1 DEF Sleeps, LateSuspend, Kind
<1>3. ASSUME NEW l, Excused(l) PROVE Excused(l)'
  BY <1>1, <1>2, <1>3 DEF Excused
<1> QED
  BY <1>1, <1>2, <1>3 DEF LateOK

(* What t has still to call stays uncalled if its list does not change. *)
LEMMA NotCalledKept ==
  ASSUME ChainAssumption, IInv, NEW u \in Tasks, todo'[u] = todo[u], stage'[u] = stage[u],
         \A z \in Tasks \ {1} : at[z] = "none" => at'[z] = "none"
  PROVE  NotCalled(u)'
<1>1. \A i \in 1..Len(todo[u]) : todo[u][i] \in (Tasks \ {1}) \cup {Sleep}
  BY Todo
<1>2. NotCalled(u)
  BY DEF IInv, Chain
<1> QED
  BY <1>1, <1>2 DEF NotCalled

(* Who is in the execute() of a task stays there in a step that releases nobody. *)
LEMMA BlockingKept ==
  ASSUME NEW t \in Tasks, BlockingOK(t), prog' = prog, at'[t] \in Open => at[t] \in Open,
         at'[t] \in Open /\ Kind(t) \in Blocking => \A x \in Threads : inside[x] = t => inside'[x] = t,
         stage[t] = "get" /\ inside[Now(t)] = t /\ at[Now(t)] = "completing"
         => stage'[t] = "get" /\ todo'[t] = todo[t] /\ at'[Now(t)] = "completing" /\ Now(t) \in Threads
  PROVE  BlockingOK(t)'
<1>1. Kind(t)' = Kind(t) /\ Sleeps(t)' = Sleeps(t) /\ Tasks' = Tasks /\ Main \in Threads /\ Tasks \subseteq Threads
  BY DEF Kind, Sleeps, Tasks, Threads
<1> SUFFICES ASSUME Kind(t) \in Blocking, ~Sleeps(t), at'[t] \in Open
             PROVE  \/ t = 1 /\ inside'[Main] = 1
                    \/ \E u \in Tasks : inside'[u] = t /\ t \in Range(prog[u].awaits)
                    \/ stage'[t] = "get" /\ inside'[Now(t)'] = t /\ at'[Now(t)'] = "completing"
  BY <1>1 DEF BlockingOK
<1>2. \/ t = 1 /\ inside[Main] = 1
      \/ \E u \in Tasks : inside[u] = t /\ t \in Range(prog[u].awaits)
      \/ stage[t] = "get" /\ inside[Now(t)] = t /\ at[Now(t)] = "completing"
  BY DEF BlockingOK
<1>3. todo'[t] = todo[t] => Now(t)' = Now(t)
  BY DEF Now
<1> QED
  BY <1>1, <1>2, <1>3

(* Two tasks await the same one only when they are one. *)
LEMMA OneAwaiter ==
  ASSUME ChainAssumption, IInv, NEW t \in Tasks, NEW u \in Tasks,
         todo[t] # << >>, todo[u] # << >>, Now(t) = Now(u), Now(t) \in Tasks
  PROVE  t = u
<1>1. 1 \in 1..Len(todo[t]) /\ 1 \in 1..Len(todo[u])
  BY Todo
<1>2. Now(t) # Sleep
  BY Program DEF IInv
<1> QED
  BY <1>1, <1>2, Todo DEF Now

(* main() calls its task, which nobody has called before. *)
LEMMA CallMainKeeps ==
  ASSUME ChainAssumption, IInv, CallMain
  PROVE  IInv'
<1>1. /\ at' = [at EXCEPT ![1] = "queued"] /\ alive' = alive \cup {1}
      /\ main = "call" /\ main' = "get" /\ at[1] = "none"
      /\ inside' = [inside EXCEPT ![Main] = IF Kind(1) \in Blocking \cup {"looper"} THEN 1 ELSE None]
      /\ UNCHANGED <<prog, todo, stage, callback, late>>
  BY DEF CallMain, Create, Handed, IInv, MainOK
<1>2. \A u \in Tasks : /\ at'[u] = IF u = 1 THEN "queued" ELSE at[u]
                       /\ inside'[u] = inside[u]
  BY <1>1, Program DEF IInv, Types, Threads
<1>3. Tasks' = Tasks /\ Threads' = Threads
  BY <1>1 DEF Tasks, Threads
<1>4. Types'
  BY <1>1, <1>2, <1>3, Program, Todo DEF IInv, Types, Busy, Blocking, Kinds, Threads
<1>5. ASSUME NEW u \in Tasks PROVE Chain(u)'
  <2>1. TodoOK(u)'
    BY <1>1 DEF IInv, Chain, TodoOK
  <2>2. NotCalled(u)'
    <3>1. \A z \in Tasks \ {1} : at[z] = "none" => at'[z] = "none"
      BY <1>1, <1>2, Program DEF IInv, Types
    <3> QED
      BY <1>1, <1>2, <3>1, NotCalledKept
  <2>3. BusyOK(u)'
    BY <1>1, <1>2, <1>3, Program, Todo DEF IInv, Types, Chain, BusyOK, Busy
  <2>4. AwaitOK(u)'
    BY <1>1, <1>2, <1>3, Program, Todo DEF IInv, Types, Chain, AwaitOK, Now
  <2>5. GetOK(u)'
    BY <1>1, <1>2, <1>3, Program, Todo DEF IInv, Types, Chain, GetOK, Now, Busy
  <2>6. CallbackOK(u)'
    BY <1>1, <1>2, <1>3, Program, Todo DEF IInv, Types, Chain, CallbackOK, Now, GetOK, AwaitOK, BusyOK, Busy
  <2>7. InsideOK(u)'
    BY <1>1, <1>2, <1>3, Program, Todo DEF IInv, Types, Chain, InsideOK, Now, GetOK, AwaitOK, BusyOK, CallbackOK, Busy
  <2>8. BlockingOK(u)'
    BY <1>1, <1>2, <1>3, Program, Todo DEF IInv, Types, Chain, BlockingOK, Kind, Sleeps, Now, InsideOK, GetOK, AwaitOK, MainOK, BusyOK, Busy, Threads
  <2> QED
    BY <2>1, <2>2, <2>3, <2>4, <2>5, <2>6, <2>7, <2>8 DEF Chain
<1>6. MainOK'
  BY <1>1, <1>2, <1>3, Program DEF IInv, Types, Chain, MainOK, BusyOK, Busy, Threads
<1>7. SharedOK'
  BY <1>1, <1>2, <1>3 DEF IInv, Types, SharedOK, OnShared, Kind
<1>8. LateOK'
  <2>1. \A u \in Tasks : at'[u] = "unlocked" /\ u \notin alive' => at[u] = "unlocked" /\ u \notin alive
    BY <1>1, <1>2
  <2> QED
    BY <1>1, <1>2, <2>1, LateKept DEF IInv, LateOK
<1> QED
  BY <1>3, <1>4, <1>5, <1>6, <1>7, <1>8 DEF IInv

(* main() gets the result: its task is unlocked, and late only if that is excused. *)
LEMMA GetMainKeeps ==
  ASSUME ChainAssumption, IInv, GetMain
  PROVE  IInv'
<1>1. /\ main = "get" /\ main' = "ended" /\ inside[Main] = None /\ at[1] \in {"unlocked", "final"}
      /\ alive' = alive \ {1}
      /\ UNCHANGED <<prog, at, todo, stage, callback, inside, late>>
  BY DEF GetMain, Completed
<1>2. \A u \in Tasks : at'[u] = at[u] /\ inside'[u] = inside[u]
  BY <1>1
<1>3. Tasks' = Tasks /\ Threads' = Threads
  BY <1>1 DEF Tasks, Threads
<1>4. Types'
  BY <1>1, <1>2, <1>3, Program, Todo DEF IInv, Types, Busy, Blocking, Kinds, Threads
<1>5. ASSUME NEW u \in Tasks PROVE Chain(u)'
  <2>1. TodoOK(u)'
    BY <1>1 DEF IInv, Chain, TodoOK
  <2>2. NotCalled(u)'
    <3>1. \A z \in Tasks \ {1} : at[z] = "none" => at'[z] = "none"
      BY <1>1, <1>2, Program DEF IInv, Types
    <3> QED
      BY <1>1, <1>2, <3>1, NotCalledKept
  <2>3. BusyOK(u)'
    BY <1>1, <1>2, <1>3, Program, Todo DEF IInv, Types, Chain, BusyOK, Busy
  <2>4. AwaitOK(u)'
    BY <1>1, <1>2, <1>3, Program, Todo DEF IInv, Types, Chain, AwaitOK, Now
  <2>5. GetOK(u)'
    BY <1>1, <1>2, <1>3, Program, Todo DEF IInv, Types, Chain, GetOK, Now, Busy
  <2>6. CallbackOK(u)'
    BY <1>1, <1>2, <1>3, Program, Todo DEF IInv, Types, Chain, CallbackOK, Now, GetOK, AwaitOK, BusyOK, Busy
  <2>7. InsideOK(u)'
    BY <1>1, <1>2, <1>3, Program, Todo DEF IInv, Types, Chain, InsideOK, Now, GetOK, AwaitOK, BusyOK, CallbackOK, Busy
  <2>8. BlockingOK(u)'
    BY <1>1, <1>2, <1>3, Program, Todo DEF IInv, Types, Chain, BlockingOK, Kind, Sleeps, Now, InsideOK, GetOK, AwaitOK, MainOK, BusyOK, Busy, Threads
  <2> QED
    BY <2>1, <2>2, <2>3, <2>4, <2>5, <2>6, <2>7, <2>8 DEF Chain
<1>6. MainOK'
  BY <1>1, <1>2, <1>3, Program DEF IInv, Types, Chain, MainOK, BusyOK, Busy, Threads
<1>7. SharedOK'
  BY <1>1, <1>2, <1>3 DEF IInv, Types, SharedOK, OnShared, Kind
<1>8. LateOK'
  <2>1. at[1] = "unlocked" => LateSuspend(1)
    <3> SUFFICES ASSUME at[1] = "unlocked" PROVE LateSuspend(1)
      OBVIOUS
    <3>1. stage[1] # "get" /\ BlockingOK(1)
      BY Program DEF IInv, Chain, BusyOK, GetOK
    <3> QED
      BY <1>1, <3>1, Program DEF BlockingOK, LateSuspend, Open, IInv
  <2> QED
    BY <1>1, <1>2, <2>1, LateKept DEF IInv, LateOK
<1> QED
  BY <1>3, <1>4, <1>5, <1>6, <1>7, <1>8 DEF IInv

(* An execute() of a looper ends: its task is alive, unless it has slept. *)
LEMMA NotifyKeeps ==
  ASSUME ChainAssumption, IInv, NEW x \in Threads, Notify(x)
  PROVE  IInv'
<1>1. /\ inside[x] # None /\ Kind(inside[x]) = "looper" /\ inside' = [inside EXCEPT ![x] = None]
      /\ UNCHANGED <<prog, at, todo, stage, callback, alive, main>>
  BY DEF Notify
<1>2. \A u \in Tasks : at'[u] = at[u] /\ inside'[u] = IF u = x THEN None ELSE inside[u]
  BY <1>1, Program DEF IInv, Types, Threads
<1>3. Tasks' = Tasks /\ Threads' = Threads
  BY <1>1 DEF Tasks, Threads
<1>4. Types'
  BY <1>1, <1>2, <1>3, Program, Todo DEF IInv, Types, Busy, Blocking, Kinds, Threads
<1>5. ASSUME NEW u \in Tasks PROVE Chain(u)'
  <2>1. TodoOK(u)'
    BY <1>1 DEF IInv, Chain, TodoOK
  <2>2. NotCalled(u)'
    <3>1. \A z \in Tasks \ {1} : at[z] = "none" => at'[z] = "none"
      BY <1>1, <1>2, Program DEF IInv, Types
    <3> QED
      BY <1>1, <1>2, <3>1, NotCalledKept
  <2>3. BusyOK(u)'
    BY <1>1, <1>2, <1>3, Program, Todo DEF IInv, Types, Chain, BusyOK, Busy
  <2>4. AwaitOK(u)'
    BY <1>1, <1>2, <1>3, Program, Todo DEF IInv, Types, Chain, AwaitOK, Now
  <2>5. GetOK(u)'
    BY <1>1, <1>2, <1>3, Program, Todo DEF IInv, Types, Chain, GetOK, Now, Busy
  <2>6. CallbackOK(u)'
    BY <1>1, <1>2, <1>3, Program, Todo DEF IInv, Types, Chain, CallbackOK, Now, GetOK, AwaitOK, BusyOK, Busy
  <2>7. InsideOK(u)'
    BY <1>1, <1>2, <1>3, Program, Todo DEF IInv, Types, Chain, InsideOK, Now, GetOK, AwaitOK, BusyOK, CallbackOK, Busy
  <2>8. BlockingOK(u)'
    <3>1. /\ at'[u] \in Open => at[u] \in Open
          /\ at'[u] \in Open /\ Kind(u) \in Blocking => \A y \in Threads : inside[y] = u => inside'[y] = u
      BY <1>1, <1>2, <1>3, <1>5, Program DEF Open, Completed, Blocking, Threads, IInv, Types
    <3>2. /\ stage[u] = "get" /\ inside[Now(u)] = u /\ at[Now(u)] = "completing"
          => stage'[u] = "get" /\ todo'[u] = todo[u] /\ at'[Now(u)] = "completing" /\ Now(u) \in Threads
      BY <1>1, <1>2, <1>3, <1>5, Program DEF IInv, Types, Chain, GetOK, Threads
    <3> QED
      BY <1>1, <1>5, <3>1, <3>2, BlockingKept DEF IInv, Chain
  <2> QED
    BY <2>1, <2>2, <2>3, <2>4, <2>5, <2>6, <2>7, <2>8 DEF Chain
<1>6. MainOK'
  BY <1>1, <1>2, <1>3, Program DEF IInv, Types, Chain, MainOK, BusyOK, Busy, Threads
<1>7. SharedOK'
  BY <1>1, <1>2, <1>3 DEF IInv, Types, SharedOK, OnShared, Kind
<1>8. LateOK'
  <2> DEFINE e == inside[x]
  <2>1. e \in Tasks
    BY <1>1 DEF IInv, Types
  <2>2. x # Sched => e \in alive
    BY <1>1, <2>1, Program DEF IInv, Chain, InsideOK, AwaitOK, BusyOK, Busy, MainOK, Threads
  <2>3. x = Sched => Sleeps(e)
    BY <1>1 DEF IInv, MainOK, Sleeps
  <2>4. late' \subseteq late \cup {l \in late' : Excused(l)}
    BY <2>1, <2>2, <2>3 DEF Notify, Late, Excused
  <2> QED
    BY <1>1, <1>2, <2>4, LateKept DEF IInv, LateOK
<1> QED
  BY <1>3, <1>4, <1>5, <1>6, <1>7, <1>8 DEF IInv

(* A task starts to run; one on the shared looper when no other does. *)
LEMMA ResumeKeeps ==
  ASSUME ChainAssumption, IInv, NEW t \in Tasks, Resume(t)
  PROVE  IInv'
<1>1. /\ at[t] = "queued" /\ at' = [at EXCEPT ![t] = "running"] /\ t \in alive
      /\ Kind(t) = "shared" => ~\E u \in Tasks : OnShared(u)
      /\ UNCHANGED <<prog, todo, stage, callback, alive, inside, main, late>>
  BY DEF Resume, Late, IInv, Chain, BusyOK, Busy
<1>2. \A u \in Tasks : at'[u] = (IF u = t THEN "running" ELSE at[u]) /\ inside'[u] = inside[u]
  BY <1>1 DEF IInv, Types
<1>3. Tasks' = Tasks /\ Threads' = Threads
  BY <1>1 DEF Tasks, Threads
<1>4. Types'
  BY <1>1, <1>2, <1>3, Program, Todo DEF IInv, Types, Busy, Blocking, Kinds, Threads
<1>5. ASSUME NEW u \in Tasks PROVE Chain(u)'
  <2>1. TodoOK(u)'
    BY <1>1 DEF IInv, Chain, TodoOK
  <2>2. NotCalled(u)'
    <3>1. \A z \in Tasks \ {1} : at[z] = "none" => at'[z] = "none"
      BY <1>1, <1>2, Program DEF IInv, Types
    <3> QED
      BY <1>1, <1>2, <3>1, NotCalledKept
  <2>3. BusyOK(u)'
    BY <1>1, <1>2, <1>3, Program, Todo DEF IInv, Types, Chain, BusyOK, Busy
  <2>4. AwaitOK(u)'
    BY <1>1, <1>2, <1>3, Program, Todo DEF IInv, Types, Chain, AwaitOK, Now
  <2>5. GetOK(u)'
    BY <1>1, <1>2, <1>3, Program, Todo DEF IInv, Types, Chain, GetOK, Now, Busy
  <2>6. CallbackOK(u)'
    BY <1>1, <1>2, <1>3, Program, Todo DEF IInv, Types, Chain, CallbackOK, Now, GetOK, AwaitOK, BusyOK, Busy
  <2>7. InsideOK(u)'
    BY <1>1, <1>2, <1>3, Program, Todo DEF IInv, Types, Chain, InsideOK, Now, GetOK, AwaitOK, BusyOK, CallbackOK, Busy
  <2>8. BlockingOK(u)'
    <3>1. /\ at'[u] \in Open => at[u] \in Open
          /\ at'[u] \in Open /\ Kind(u) \in Blocking => \A y \in Threads : inside[y] = u => inside'[y] = u
      BY <1>1, <1>2, <1>3, <1>5, Program DEF Open
    <3>2. /\ stage[u] = "get" /\ inside[Now(u)] = u /\ at[Now(u)] = "completing"
          => stage'[u] = "get" /\ todo'[u] = todo[u] /\ at'[Now(u)] = "completing" /\ Now(u) \in Threads
      BY <1>1, <1>2, <1>3, <1>5, Program DEF IInv, Types, Chain, GetOK, Threads
    <3> QED
      BY <1>1, <1>5, <3>1, <3>2, BlockingKept DEF IInv, Chain
  <2> QED
    BY <2>1, <2>2, <2>3, <2>4, <2>5, <2>6, <2>7, <2>8 DEF Chain
<1>6. MainOK'
  BY <1>1, <1>2, <1>3, Program DEF IInv, Types, Chain, MainOK, BusyOK, Busy, Threads
<1>7. SharedOK'
  BY <1>1, <1>2, <1>3 DEF IInv, Types, SharedOK, OnShared, Kind
<1>8. LateOK'
  <2>1. \A u \in Tasks : at'[u] = "unlocked" /\ u \notin alive' => LateSuspend(u)
    BY <1>1, <1>2, Program DEF IInv, LateOK, Chain, BusyOK, Busy
  <2> QED
    BY <1>1, <1>2, <2>1, LateKept DEF IInv
<1> QED
  BY <1>3, <1>4, <1>5, <1>6, <1>7, <1>8 DEF IInv

(* A task sleeps: nobody awaits through it, and who is in its execute() returns. *)
LEMMA StartSleepKeeps ==
  ASSUME ChainAssumption, IInv, NEW t \in Tasks, StartSleep(t)
  PROVE  IInv'
<1>1. /\ at[t] = "running" /\ inside[t] = None /\ todo[t] # << >> /\ Now(t) = Sleep
      /\ at' = [at EXCEPT ![t] = "sleeping"] /\ todo' = [todo EXCEPT ![t] = Tail(@)]
      /\ inside' = Released(t)
      /\ UNCHANGED <<prog, stage, callback, alive, main, late>>
  BY Todo DEF StartSleep, Running, GoesOn
<1>2. /\ \A u \in Tasks : /\ at'[u] = IF u = t THEN "sleeping" ELSE at[u]
                          /\ todo'[u] = IF u = t THEN Tail(todo[t]) ELSE todo[u]
      /\ \A x \in Threads : inside'[x] = IF inside[x] = t /\ Kind(t) \in Blocking THEN None ELSE inside[x]
      /\ stage[t] = "call" /\ Sleeps(t)
  <2>1. stage[t] = "call"
    BY <1>1, Program DEF IInv, Types, Chain, AwaitOK, GetOK
  <2>2. Sleeps(t)
    BY <1>1, Todo DEF IInv, Chain, TodoOK, Sleeps, Now
  <2> QED
    BY <1>1, <2>1, <2>2 DEF IInv, Types, Released
<1>3. Tasks' = Tasks /\ Threads' = Threads
  BY <1>1 DEF Tasks, Threads
<1>4. Types'
  <2>1. inside' \in [Threads -> Tasks \cup {None}]
    BY <1>1 DEF IInv, Types, Released
  <2> QED
    BY <1>1, <1>2, <1>3, <2>1, Program, Todo DEF IInv, Types, Busy
<1>5. ASSUME NEW u \in Tasks PROVE Chain(u)'
  <2>1. TodoOK(u)'
    <3>1. TodoOK(u) /\ TodoOK(t) /\ Len(todo[t]) \in Nat
      BY Todo DEF IInv, Chain
    <3>2. CASE u # t
      BY <1>1, <1>2, <3>1, <3>2 DEF TodoOK
    <3>3. CASE u = t
      <4>1. /\ Len(Tail(todo[t])) = Len(todo[t]) - 1
            /\ \A i \in 1..Len(Tail(todo[t])) :
                 i + 1 \in 2..Len(todo[t]) /\ Tail(todo[t])[i] = todo[t][i + 1]
        BY <1>1, Todo
      <4>2. todo'[u] = Tail(todo[t]) /\ prog' = prog
        BY <1>1, <1>2, <3>3
      <4> QED
        BY <3>1, <3>3, <4>1, <4>2 DEF TodoOK
    <3> QED
      BY <3>2, <3>3
  <2>2. NotCalled(u)'
    <3>1. NotCalled(u) /\ \A i \in 1..Len(todo[u]) : todo[u][i] \in (Tasks \ {1}) \cup {Sleep}
      BY Todo DEF IInv, Chain
    <3>2. \A z \in Tasks \ {1} : at[z] = "none" => at'[z] = "none"
      BY <1>1, <1>2
    <3>3. CASE u # t
      BY <1>1, <1>2, <3>2, <3>3, NotCalledKept
    <3>4. CASE u = t
      <4>1. /\ Len(Tail(todo[u])) = Len(todo[u]) - 1 /\ Len(todo[u]) \in Nat
            /\ \A i \in 1..Len(Tail(todo[u])) :
                 i + 1 \in 2..Len(todo[u]) /\ Tail(todo[u])[i] = todo[u][i + 1]
        BY <1>1, <3>4, Todo
      <4>2. todo'[u] = Tail(todo[u]) /\ stage[u] = "call"
        BY <1>1, <1>2, <3>4
      <4> QED
        BY <3>1, <3>2, <4>1, <4>2 DEF NotCalled
    <3> QED
      BY <3>3, <3>4
  <2>3. BusyOK(u)'
    BY <1>1, <1>2, <1>3 DEF IInv, Types, Chain, BusyOK, Busy, Sleeps
  <2>4. AwaitOK(u)'
    BY <1>1, <1>2, <1>3, Program, Todo DEF IInv, Types, Chain, AwaitOK, Now
  <2>5. GetOK(u)'
    BY <1>1, <1>2, <1>3, Program, Todo DEF IInv, Types, Chain, GetOK, Now, Busy
  <2>6. CallbackOK(u)'
    BY <1>1, <1>2, <1>3, Program, Todo DEF IInv, Types, Chain, CallbackOK, Now, GetOK, AwaitOK, BusyOK, Busy
  <2>7. InsideOK(u)'
    <3> SUFFICES ASSUME inside'[u] # None
                 PROVE  \/ at'[u] = "running" /\ stage'[u] = "await" /\ inside'[u] = todo'[u][1]
                        \/ /\ at'[u] = "completing" /\ callback'[u] = None
                           /\ stage'[inside'[u]] = "get" /\ todo'[inside'[u]][1] = u
                           /\ at'[inside'[u]] \in {"queued", "running"}
      BY DEF InsideOK, Now
    <3>1. inside'[u] = inside[u] /\ u # t /\ inside[u] \in Tasks
      BY <1>1, <1>2, <1>5 DEF IInv, Types, Threads
    <3>2. \/ at[u] = "running" /\ stage[u] = "await" /\ inside[u] = todo[u][1]
          \/ /\ at[u] = "completing" /\ callback[u] = None
             /\ stage[inside[u]] = "get" /\ todo[inside[u]][1] = u /\ at[inside[u]] \in {"queued", "running"}
      BY <1>5, <3>1 DEF IInv, Chain, InsideOK, Now
    <3>3. todo'[u] = todo[u] /\ at'[u] = at[u] /\ stage'[u] = stage[u]
      BY <1>1, <1>2, <1>5, <3>1
    <3>4. at[u] = "completing" => inside[u] # t /\ callback'[u] = callback[u]
      BY <1>1, <1>2, <3>1, <3>2 
    <3>5. inside[u] # t => /\ todo'[inside[u]] = todo[inside[u]]
                          /\ at'[inside[u]] = at[inside[u]] /\ stage'[inside[u]] = stage[inside[u]]
      BY <1>1, <1>2, <3>1
    <3> QED
      BY <3>1, <3>2, <3>3, <3>4, <3>5
  <2>8. BlockingOK(u)'
    <3>1. /\ at'[u] \in Open => at[u] \in Open
          /\ at'[u] \in Open /\ Kind(u) \in Blocking => \A y \in Threads : inside[y] = u => inside'[y] = u
      BY <1>1, <1>2, <1>3, <1>5, Program DEF Open, Completed, Blocking, Threads, IInv, Types
    <3>2. /\ stage[u] = "get" /\ inside[Now(u)] = u /\ at[Now(u)] = "completing"
          => stage'[u] = "get" /\ todo'[u] = todo[u] /\ at'[Now(u)] = "completing" /\ Now(u) \in Threads
      BY <1>1, <1>2, <1>3, <1>5, Program DEF IInv, Types, Chain, GetOK, Threads
    <3> QED
      BY <1>1, <1>5, <3>1, <3>2, BlockingKept DEF IInv, Chain
  <2> QED
    BY <2>1, <2>2, <2>3, <2>4, <2>5, <2>6, <2>7, <2>8 DEF Chain
<1>6. MainOK'
  BY <1>1, <1>2, <1>3, Program DEF IInv, Types, Chain, MainOK, BusyOK, Busy, Threads
<1>7. SharedOK'
  BY <1>1, <1>2, <1>3 DEF IInv, Types, SharedOK, OnShared, Kind
<1>8. LateOK'
  <2>1. \A u \in Tasks : at'[u] = "unlocked" /\ u \notin alive' => LateSuspend(u)
    BY <1>1, <1>2, Program DEF IInv, LateOK, Chain, BusyOK, Busy
  <2> QED
    BY <1>1, <1>2, <2>1, LateKept DEF IInv
<1> QED
  BY <1>3, <1>4, <1>5, <1>6, <1>7, <1>8 DEF IInv

(* The scheduler's thread hands a task that slept to its executor. *)
LEMMA EndSleepKeeps ==
  ASSUME ChainAssumption, IInv, NEW t \in Tasks, EndSleep(t)
  PROVE  IInv'
<1>1. /\ at[t] = "sleeping" /\ inside[Sched] = None /\ at' = [at EXCEPT ![t] = "queued"] /\ t \in alive
      /\ inside' = [inside EXCEPT ![Sched] = IF Kind(t) \in Blocking \cup {"looper"} THEN t ELSE None]
      /\ UNCHANGED <<prog, todo, stage, callback, alive, main, late>>
  BY DEF EndSleep, Late, Handed, IInv, Chain, BusyOK, Busy
<1>2. /\ \A u \in Tasks : at'[u] = (IF u = t THEN "queued" ELSE at[u]) /\ inside'[u] = inside[u]
      /\ inside'[Main] = inside[Main] /\ inside'[Sched] \in {t, None}
      /\ Sleeps(t) /\ stage[t] = "call"
  <2>1. Sleeps(t) /\ stage[t] = "call"
    BY <1>1 DEF IInv, Types, Chain, BusyOK, AwaitOK, GetOK, Sleeps
  <2> QED
    BY <1>1, <2>1, Program DEF IInv, Types, Threads
<1>3. Tasks' = Tasks /\ Threads' = Threads
  BY <1>1 DEF Tasks, Threads
<1>4. Types'
  BY <1>1, <1>2, <1>3, Program, Todo DEF IInv, Types, Busy, Blocking, Kinds, Threads
<1>5. ASSUME NEW u \in Tasks PROVE Chain(u)'
  <2>1. TodoOK(u)'
    BY <1>1 DEF IInv, Chain, TodoOK
  <2>2. NotCalled(u)'
    <3>1. \A z \in Tasks \ {1} : at[z] = "none" => at'[z] = "none"
      BY <1>1, <1>2, Program DEF IInv, Types
    <3> QED
      BY <1>1, <1>2, <3>1, NotCalledKept
  <2>3. BusyOK(u)'
    BY <1>1, <1>2, <1>3, Program, Todo DEF IInv, Types, Chain, BusyOK, Busy
  <2>4. AwaitOK(u)'
    BY <1>1, <1>2, <1>3, Program, Todo DEF IInv, Types, Chain, AwaitOK, Now
  <2>5. GetOK(u)'
    BY <1>1, <1>2, <1>3, Program, Todo DEF IInv, Types, Chain, GetOK, Now, Busy
  <2>6. CallbackOK(u)'
    BY <1>1, <1>2, <1>3, Program, Todo DEF IInv, Types, Chain, CallbackOK, Now, GetOK, AwaitOK, BusyOK, Busy
  <2>7. InsideOK(u)'
    BY <1>1, <1>2, <1>3, Program, Todo DEF IInv, Types, Chain, InsideOK, Now, GetOK, AwaitOK, BusyOK, CallbackOK, Busy
  <2>8. BlockingOK(u)'
    BY <1>1, <1>2, <1>3, Program, Todo DEF IInv, Types, Chain, BlockingOK, Kind, Sleeps, Now, InsideOK, GetOK, AwaitOK, MainOK, BusyOK, Busy, Threads
  <2> QED
    BY <2>1, <2>2, <2>3, <2>4, <2>5, <2>6, <2>7, <2>8 DEF Chain
<1>6. MainOK'
  BY <1>1, <1>2, <1>3, Program DEF IInv, Types, Chain, MainOK, BusyOK, Busy, Threads
<1>7. SharedOK'
  BY <1>1, <1>2, <1>3 DEF IInv, Types, SharedOK, OnShared, Kind
<1>8. LateOK'
  <2>1. \A u \in Tasks : at'[u] = "unlocked" /\ u \notin alive' => LateSuspend(u)
    BY <1>1, <1>2, Program DEF IInv, LateOK, Chain, BusyOK, Busy
  <2> QED
    BY <1>1, <1>2, <2>1, LateKept DEF IInv
<1> QED
  BY <1>3, <1>4, <1>5, <1>6, <1>7, <1>8 DEF IInv

(* A task calls the next task of its list, which nobody has called. *)
LEMMA CallTaskKeeps ==
  ASSUME ChainAssumption, IInv, NEW t \in Tasks, CallTask(t)
  PROVE  IInv'
<1>1. /\ at[t] = "running" /\ inside[t] = None /\ todo[t] # << >> /\ Now(t) # Sleep /\ stage[t] = "call"
      /\ at' = [at EXCEPT ![Now(t)] = "queued"] /\ alive' = alive \cup {Now(t)}
      /\ inside' = [inside EXCEPT ![t] = IF Kind(Now(t)) \in Blocking \cup {"looper"} THEN Now(t) ELSE None]
      /\ stage' = [stage EXCEPT ![t] = "await"]
      /\ UNCHANGED <<prog, todo, callback, main, late>>
  BY Todo DEF CallTask, Running, GoesOn, Create, Handed
<1>2. /\ Now(t) \in Tasks \ {1} /\ at[Now(t)] = "none" /\ Now(t) # t /\ Now(t) \in Range(prog[t].awaits)
      /\ \A u \in Tasks : /\ at'[u] = IF u = Now(t) THEN "queued" ELSE at[u]
                          /\ stage'[u] = IF u = t THEN "await" ELSE stage[u]
                          /\ u # t => inside'[u] = inside[u]
      /\ inside'[Main] = inside[Main] /\ inside'[Sched] = inside[Sched] /\ inside'[t] \in {Now(t), None}
  BY <1>1, Program, Todo DEF IInv, Types, Threads, Chain, NotCalled, TodoOK, Now
<1>3. Tasks' = Tasks /\ Threads' = Threads
  BY <1>1 DEF Tasks, Threads
<1>4. Types'
  BY <1>1, <1>2, <1>3, Program, Todo DEF IInv, Types, Busy, Blocking, Kinds, Threads
<1>5. ASSUME NEW u \in Tasks PROVE Chain(u)'
  <2>1. TodoOK(u)'
    BY <1>1 DEF IInv, Chain, TodoOK
  <2>2. NotCalled(u)'
    <3>1. ASSUME NEW i \in 1..Len(todo[u]), stage'[u] = "call" \/ i > 1, todo[u][i] # Sleep
          PROVE  at'[todo[u][i]] = "none"
      <4>1. todo[u][i] \in Tasks /\ (stage[u] = "call" \/ i > 1)
        BY <1>1, <1>2, <3>1, Todo
      <4>2. at[todo[u][i]] = "none"
        BY <3>1, <4>1 DEF IInv, Chain, NotCalled
      <4>3. todo[u][i] # Now(t)
        <5>1. 1 \in 1..Len(todo[t]) /\ Now(t) = todo[t][1]
          BY <1>1, Todo DEF Now
        <5>2. todo[u][i] = todo[t][1] => u = t /\ i = 1
          <6>1. \A k \in 1..Len(todo[u]), j \in 1..Len(todo[t]) :
                  todo[u][k] = todo[t][j] /\ todo[u][k] # Sleep => u = t /\ k = j
            BY Todo
          <6> QED
            BY <3>1, <5>1, <6>1
        <5>3. ~(u = t /\ i = 1)
          BY <1>2, <3>1
        <5> QED
          BY <5>1, <5>2, <5>3
      <4> QED
        BY <1>2, <4>1, <4>2, <4>3
    <3> QED
      BY <1>1, <3>1 DEF NotCalled
  <2>3. BusyOK(u)'
    BY <1>1, <1>2, <1>3, Program, Todo DEF IInv, Types, Chain, BusyOK, Busy
  <2>4. AwaitOK(u)'
    BY <1>1, <1>2, <1>3, Program, Todo DEF IInv, Types, Chain, AwaitOK, Now
  <2>5. GetOK(u)'
    BY <1>1, <1>2, <1>3, Program, Todo DEF IInv, Types, Chain, GetOK, Now, Busy
  <2>6. CallbackOK(u)'
    BY <1>1, <1>2, <1>3, Program, Todo DEF IInv, Types, Chain, CallbackOK, Now, GetOK, AwaitOK, BusyOK, Busy
  <2>7. InsideOK(u)'
    BY <1>1, <1>2, <1>3, Program, Todo DEF IInv, Types, Chain, InsideOK, Now, GetOK, AwaitOK, BusyOK, CallbackOK, Busy
  <2>8. BlockingOK(u)'
    <3>1. CASE u = Now(t)
      <4>1. Kind(u)' = Kind(u) /\ (Kind(u) \in Blocking => inside'[t] = u)
        BY <1>1, <1>2, <3>1 DEF Kind, IInv, Types, Threads
      <4>2. t \in Tasks' /\ u \in Range(prog'[t].awaits)
        BY <1>1, <1>2, <1>3, <3>1
      <4> QED
        BY <4>1, <4>2 DEF BlockingOK
    <3>2. CASE u # Now(t)
      <4>1. at'[u] = at[u] /\ \A y \in Threads : inside[y] = u => inside'[y] = u
        BY <1>1, <1>2, <1>5, <3>2, Program DEF IInv, Types, Threads
      <4>2. /\ stage[u] = "get" /\ inside[Now(u)] = u /\ at[Now(u)] = "completing"
            => stage'[u] = "get" /\ todo'[u] = todo[u] /\ at'[Now(u)] = "completing" /\ Now(u) \in Threads
        BY <1>1, <1>2, <1>5 DEF IInv, Chain, GetOK, Threads
      <4> QED
        BY <1>1, <1>5, <4>1, <4>2, BlockingKept DEF IInv, Chain
    <3> QED
      BY <3>1, <3>2
  <2> QED
    BY <2>1, <2>2, <2>3, <2>4, <2>5, <2>6, <2>7, <2>8 DEF Chain
<1>6. MainOK'
  BY <1>1, <1>2, <1>3, Program DEF IInv, Types, Chain, MainOK, BusyOK, Busy, Threads
<1>7. SharedOK'
  BY <1>1, <1>2, <1>3 DEF IInv, Types, SharedOK, OnShared, Kind
<1>8. LateOK'
  <2>1. \A u \in Tasks : at'[u] = "unlocked" /\ u \notin alive' => at[u] = "unlocked" /\ u \notin alive
    BY <1>1, <1>2
  <2> QED
    BY <1>1, <1>2, <2>1, LateKept DEF IInv, LateOK
<1> QED
  BY <1>3, <1>4, <1>5, <1>6, <1>7, <1>8 DEF IInv

(* A task awaits the one it called: the callback is stored, or called at once. *)
LEMMA AwaitTaskKeeps ==
  ASSUME ChainAssumption, IInv, NEW t \in Tasks, AwaitTask(t)
  PROVE  IInv'
<1> DEFINE c == Completed(Now(t))
<1>1. /\ at[t] = "running" /\ inside[t] = None /\ todo[t] # << >> /\ stage[t] = "await"
      /\ at[Now(t)] # "completing"
      /\ at' = [at EXCEPT ![t] = IF c THEN "queued" ELSE "awaiting"]
      /\ callback' = IF c THEN callback ELSE [callback EXCEPT ![Now(t)] = t]
      /\ inside' = IF c THEN inside ELSE Released(t)
      /\ stage' = [stage EXCEPT ![t] = "get"]
      /\ UNCHANGED <<prog, todo, alive, main, late>>
  BY Todo DEF AwaitTask, Running, GoesOn
<1>2. /\ Now(t) \in Tasks \ {t} /\ at[Now(t)] # "none" /\ Now(t) \in alive
      /\ \A u \in Tasks : /\ at'[u] = IF u # t THEN at[u] ELSE IF c THEN "queued" ELSE "awaiting"
                          /\ stage'[u] = IF u = t THEN "get" ELSE stage[u]
                          /\ callback'[u] = IF ~c /\ u = Now(t) THEN t ELSE callback[u]
      /\ \A x \in Threads : inside'[x] = IF ~c /\ inside[x] = t /\ Kind(t) \in Blocking THEN None ELSE inside[x]
  BY <1>1 DEF IInv, Types, Released, Chain, AwaitOK
<1>3. Tasks' = Tasks /\ Threads' = Threads
  BY <1>1 DEF Tasks, Threads
<1>4. Types'
  <2>1. inside' \in [Threads -> Tasks \cup {None}]
    BY <1>1 DEF IInv, Types, Released
  <2> QED
    BY <1>1, <1>2, <1>3, <2>1, Program, Todo DEF IInv, Types, Busy
<1>5. ASSUME NEW u \in Tasks PROVE Chain(u)'
  <2>1. TodoOK(u)'
    BY <1>1 DEF IInv, Chain, TodoOK
  <2>2. NotCalled(u)'
    <3>1. stage'[u] = "call" => stage[u] = "call"
      BY <1>1, <1>2
    <3>2. \A z \in Tasks \ {1} : at[z] = "none" => at'[z] = "none"
      BY <1>1, <1>2, Program DEF IInv, Types
    <3>3. NotCalled(u) /\ \A i \in 1..Len(todo[u]) : todo[u][i] \in (Tasks \ {1}) \cup {Sleep}
      BY Todo DEF IInv, Chain
    <3> QED
      BY <1>1, <3>1, <3>2, <3>3 DEF NotCalled
  <2>3. BusyOK(u)'
    BY <1>1, <1>2, <1>3, Program, Todo DEF IInv, Types, Chain, BusyOK, Busy
  <2>4. AwaitOK(u)'
    BY <1>1, <1>2, <1>3, Program, Todo DEF IInv, Types, Chain, AwaitOK, Now
  <2>5. GetOK(u)'
    <3>1. CASE u = t
      <4>1. callback[Now(t)] = None
        <5> SUFFICES ASSUME callback[Now(t)] # None PROVE FALSE
          OBVIOUS
        <5>1. callback[Now(t)] \in Tasks
          BY <1>2 DEF IInv, Types
        <5>2. at[callback[Now(t)]] = "awaiting" /\ todo[callback[Now(t)]] # << >> /\ Now(callback[Now(t)]) = Now(t)
          BY <1>2 DEF IInv, Chain, CallbackOK
        <5> QED
          BY <1>1, <1>2, <5>1, <5>2, OneAwaiter
      <4>2. Now(u)' = Now(t) /\ stage'[u] = "get" /\ Now(t) # t
        BY <1>1, <1>2, <3>1 DEF Now
      <4> QED
        BY <1>1, <1>2, <1>3, <3>1, <4>1, <4>2, Program DEF GetOK, Busy, Completed, IInv, Types
    <3>2. CASE u # t
      <4>1. Now(u)' = Now(u) /\ at'[u] = at[u] /\ stage'[u] = stage[u]
        BY <1>1, <1>2, <1>5, <3>2 DEF Now
      <4>2. stage[u] = "get" => Now(u) # Now(t)
        BY <1>1, <1>2, <1>5, <3>2, OneAwaiter DEF IInv, Chain, GetOK
      <4> QED
        BY <1>1, <1>2, <1>3, <1>5, <3>2, <4>1, <4>2 DEF GetOK, Busy, IInv, Chain
    <3> QED
      BY <3>1, <3>2
  <2>6. CallbackOK(u)'
    BY <1>1, <1>2, <1>3, Program, Todo DEF IInv, Types, Chain, CallbackOK, Now, GetOK, AwaitOK, BusyOK, Busy
  <2>7. InsideOK(u)'
    <3> SUFFICES ASSUME inside'[u] # None
                 PROVE  \/ at'[u] = "running" /\ stage'[u] = "await" /\ inside'[u] = todo'[u][1]
                        \/ /\ at'[u] = "completing" /\ callback'[u] = None
                           /\ stage'[inside'[u]] = "get" /\ todo'[inside'[u]][1] = u
                           /\ at'[inside'[u]] \in {"queued", "running"}
      BY DEF InsideOK, Now
    <3>1. inside'[u] = inside[u] /\ u # t /\ inside[u] \in Tasks
      <4>1. inside'[u] = inside[u] /\ inside[u] \in Tasks
        BY <1>2, <1>5 DEF IInv, Types, Threads
      <4> QED
        BY <1>1, <4>1, Program DEF IInv
    <3>2. \/ at[u] = "running" /\ stage[u] = "await" /\ inside[u] = todo[u][1]
          \/ /\ at[u] = "completing" /\ callback[u] = None
             /\ stage[inside[u]] = "get" /\ todo[inside[u]][1] = u /\ at[inside[u]] \in {"queued", "running"}
      BY <1>5, <3>1 DEF IInv, Chain, InsideOK, Now
    <3>3. todo'[u] = todo[u] /\ at'[u] = at[u] /\ stage'[u] = stage[u]
      BY <1>1, <1>2, <1>5, <3>1
    <3>4. at[u] = "completing" => inside[u] # t /\ callback'[u] = callback[u]
      BY <1>1, <1>2, <3>1, <3>2 DEF Now
    <3>5. inside[u] # t => /\ todo'[inside[u]] = todo[inside[u]]
                          /\ at'[inside[u]] = at[inside[u]] /\ stage'[inside[u]] = stage[inside[u]]
      BY <1>1, <1>2, <3>1
    <3> QED
      BY <3>1, <3>2, <3>3, <3>4, <3>5
  <2>8. BlockingOK(u)'
    <3>1. /\ at'[u] \in Open => at[u] \in Open
          /\ at'[u] \in Open /\ Kind(u) \in Blocking => \A y \in Threads : inside[y] = u => inside'[y] = u
      BY <1>1, <1>2, <1>3, <1>5, Program DEF Open, Completed, Blocking, Threads, IInv, Types
    <3>2. /\ stage[u] = "get" /\ inside[Now(u)] = u /\ at[Now(u)] = "completing"
          => stage'[u] = "get" /\ todo'[u] = todo[u] /\ at'[Now(u)] = "completing" /\ Now(u) \in Threads
      BY <1>1, <1>2, <1>3, <1>5, Program DEF IInv, Types, Chain, GetOK, Threads
    <3> QED
      BY <1>1, <1>5, <3>1, <3>2, BlockingKept DEF IInv, Chain
  <2> QED
    BY <2>1, <2>2, <2>3, <2>4, <2>5, <2>6, <2>7, <2>8 DEF Chain
<1>6. MainOK'
  BY <1>1, <1>2, <1>3, Program DEF IInv, Types, Chain, MainOK, BusyOK, Busy, Threads
<1>7. SharedOK'
  BY <1>1, <1>2, <1>3 DEF IInv, Types, SharedOK, OnShared, Kind
<1>8. LateOK'
  <2>1. \A u \in Tasks : at'[u] = "unlocked" /\ u \notin alive' => at[u] = "unlocked" /\ u \notin alive
    BY <1>1, <1>2
  <2> QED
    BY <1>1, <1>2, <2>1, LateKept DEF IInv, LateOK
<1> QED
  BY <1>3, <1>4, <1>5, <1>6, <1>7, <1>8 DEF IInv

(* A task gets the result of the one it awaited, whose frame goes. *)
LEMMA GetKeeps ==
  ASSUME ChainAssumption, IInv, NEW t \in Tasks, Get(t)
  PROVE  IInv'
<1>1. /\ at[t] = "running" /\ inside[t] = None /\ todo[t] # << >> /\ stage[t] = "get"
      /\ at[Now(t)] \in {"unlocked", "final"} /\ alive' = alive \ {Now(t)}
      /\ stage' = [stage EXCEPT ![t] = "call"] /\ todo' = [todo EXCEPT ![t] = Tail(@)]
      /\ UNCHANGED <<prog, at, callback, inside, main, late>>
  BY Todo DEF Get, Running, GoesOn, Completed
<1>2. /\ Now(t) \in Tasks \ {1} /\ Now(t) # t /\ Now(t) \in Range(prog[t].awaits)
      /\ callback[Now(t)] = None
      /\ \A u \in Tasks : /\ at'[u] = at[u] /\ inside'[u] = inside[u]
                          /\ stage'[u] = IF u = t THEN "call" ELSE stage[u]
                          /\ todo'[u] = IF u = t THEN Tail(todo[t]) ELSE todo[u]
  <2>1. /\ Now(t) \in Tasks /\ Now(t) # t /\ callback[Now(t)] = None
    BY <1>1 DEF IInv, Chain, GetOK
  <2>2. Now(t) # 1 /\ Now(t) \in Range(prog[t].awaits)
    BY <1>1, <2>1, Todo, Program DEF IInv, Chain, TodoOK, Now
  <2> QED
    BY <1>1, <2>1, <2>2 DEF IInv, Types
<1>3. Tasks' = Tasks /\ Threads' = Threads
  BY <1>1 DEF Tasks, Threads
<1>4. Types'
  BY <1>1, <1>2, <1>3, Program, Todo DEF IInv, Types, Busy, Blocking, Kinds, Threads
<1>5. ASSUME NEW u \in Tasks PROVE Chain(u)'
  <2>1. TodoOK(u)'
    BY <1>1, <1>2, <1>3, Program, Todo DEF IInv, Types, Chain, TodoOK
  <2>2. NotCalled(u)'
    BY <1>1, <1>2, <1>3, Program, Todo DEF IInv, Types, Chain, NotCalled
  <2>3. BusyOK(u)'
    BY <1>1, <1>2, <1>3, Program, Todo DEF IInv, Types, Chain, BusyOK, Busy
  <2>4. AwaitOK(u)'
    BY <1>1, <1>2, <1>3, Program, Todo DEF IInv, Types, Chain, AwaitOK, Now
  <2>5. GetOK(u)'
    BY <1>1, <1>2, <1>3, Program, Todo DEF IInv, Types, Chain, GetOK, Now, Busy
  <2>6. CallbackOK(u)'
    BY <1>1, <1>2, <1>3, Program, Todo DEF IInv, Types, Chain, CallbackOK, Now, GetOK, AwaitOK, BusyOK, Busy
  <2>7. InsideOK(u)'
    <3> SUFFICES ASSUME inside'[u] # None
                 PROVE  \/ at'[u] = "running" /\ stage'[u] = "await" /\ inside'[u] = todo'[u][1]
                        \/ /\ at'[u] = "completing" /\ callback'[u] = None
                           /\ stage'[inside'[u]] = "get" /\ todo'[inside'[u]][1] = u
                           /\ at'[inside'[u]] \in {"queued", "running"}
      BY DEF InsideOK, Now
    <3>1. inside'[u] = inside[u] /\ u # t /\ inside[u] \in Tasks
      BY <1>1, <1>2, <1>5 DEF IInv, Types, Threads
    <3>2. \/ at[u] = "running" /\ stage[u] = "await" /\ inside[u] = todo[u][1]
          \/ /\ at[u] = "completing" /\ callback[u] = None
             /\ stage[inside[u]] = "get" /\ todo[inside[u]][1] = u /\ at[inside[u]] \in {"queued", "running"}
      BY <1>5, <3>1 DEF IInv, Chain, InsideOK, Now
    <3>3. todo'[u] = todo[u] /\ at'[u] = at[u] /\ stage'[u] = stage[u]
      BY <1>1, <1>2, <1>5, <3>1
    <3>4. at[u] = "completing" => inside[u] # t /\ callback'[u] = callback[u]
      BY <1>1, <1>2, <3>1, <3>2 DEF Now
    <3>5. inside[u] # t => /\ todo'[inside[u]] = todo[inside[u]]
                          /\ at'[inside[u]] = at[inside[u]] /\ stage'[inside[u]] = stage[inside[u]]
      BY <1>1, <1>2, <3>1
    <3> QED
      BY <3>1, <3>2, <3>3, <3>4, <3>5
  <2>8. BlockingOK(u)'
    <3>1. /\ at'[u] \in Open => at[u] \in Open
          /\ at'[u] \in Open /\ Kind(u) \in Blocking => \A y \in Threads : inside[y] = u => inside'[y] = u
      BY <1>1, <1>2, <1>3, <1>5, Program DEF Open, Completed, Blocking, Threads, IInv, Types
    <3>2. /\ stage[u] = "get" /\ inside[Now(u)] = u /\ at[Now(u)] = "completing"
          => stage'[u] = "get" /\ todo'[u] = todo[u] /\ at'[Now(u)] = "completing" /\ Now(u) \in Threads
      BY <1>1, <1>2, <1>3, <1>5, Program DEF IInv, Types, Chain, GetOK, Threads
    <3> QED
      BY <1>1, <1>5, <3>1, <3>2, BlockingKept DEF IInv, Chain
  <2> QED
    BY <2>1, <2>2, <2>3, <2>4, <2>5, <2>6, <2>7, <2>8 DEF Chain
<1>6. MainOK'
  BY <1>1, <1>2, <1>3, Program DEF IInv, Types, Chain, MainOK, BusyOK, Busy, Threads
<1>7. SharedOK'
  BY <1>1, <1>2, <1>3 DEF IInv, Types, SharedOK, OnShared, Kind
<1>8. LateOK'
  <2>1. at[Now(t)] = "unlocked" => LateSuspend(Now(t))
    <3> SUFFICES ASSUME at[Now(t)] = "unlocked" PROVE LateSuspend(Now(t))
      OBVIOUS
    <3>1. stage[Now(t)] # "get" /\ BlockingOK(Now(t))
      BY <1>2 DEF IInv, Chain, BusyOK, GetOK
    <3>2. \A u \in Tasks : Now(t) \in Range(prog[u].awaits) => u = t
      BY <1>2, Program DEF IInv
    <3>3. Kind(Now(t)) = "shared" => Kind(t) # "shared"
      BY <1>1, <1>2 DEF IInv, SharedOK, OnShared
    <3> QED
      BY <1>1, <1>2, <3>1, <3>2, <3>3, Program DEF BlockingOK, LateSuspend, Open, IInv
  <2> QED
    BY <1>1, <1>2, <2>1, LateKept DEF IInv, LateOK
<1> QED
  BY <1>3, <1>4, <1>5, <1>6, <1>7, <1>8 DEF IInv

(* A task returns, with the lock kept for its callback. *)
LEMMA CompleteKeeps ==
  ASSUME ChainAssumption, IInv, NEW t \in Tasks, Complete(t)
  PROVE  IInv'
<1>1. /\ at[t] = "running" /\ inside[t] = None /\ todo[t] = << >> /\ at' = [at EXCEPT ![t] = "completing"]
      /\ UNCHANGED <<prog, todo, stage, callback, alive, inside, main, late>>
  BY DEF Complete, GoesOn
<1>2. /\ \A u \in Tasks : at'[u] = (IF u = t THEN "completing" ELSE at[u]) /\ inside'[u] = inside[u]
      /\ stage[t] = "call"
  BY <1>1 DEF IInv, Types, Chain, AwaitOK, GetOK
<1>3. Tasks' = Tasks /\ Threads' = Threads
  BY <1>1 DEF Tasks, Threads
<1>4. Types'
  BY <1>1, <1>2, <1>3, Program, Todo DEF IInv, Types, Busy, Blocking, Kinds, Threads
<1>5. ASSUME NEW u \in Tasks PROVE Chain(u)'
  <2>1. TodoOK(u)'
    BY <1>1 DEF IInv, Chain, TodoOK
  <2>2. NotCalled(u)'
    <3>1. \A z \in Tasks \ {1} : at[z] = "none" => at'[z] = "none"
      BY <1>1, <1>2, Program DEF IInv, Types
    <3> QED
      BY <1>1, <1>2, <3>1, NotCalledKept
  <2>3. BusyOK(u)'
    BY <1>1, <1>2, <1>3, Program, Todo DEF IInv, Types, Chain, BusyOK, Busy
  <2>4. AwaitOK(u)'
    BY <1>1, <1>2, <1>3, Program, Todo DEF IInv, Types, Chain, AwaitOK, Now
  <2>5. GetOK(u)'
    BY <1>1, <1>2, <1>3, Program, Todo DEF IInv, Types, Chain, GetOK, Now, Busy
  <2>6. CallbackOK(u)'
    BY <1>1, <1>2, <1>3, Program, Todo DEF IInv, Types, Chain, CallbackOK, Now, GetOK, AwaitOK, BusyOK, Busy
  <2>7. InsideOK(u)'
    BY <1>1, <1>2, <1>3, Program, Todo DEF IInv, Types, Chain, InsideOK, Now, GetOK, AwaitOK, BusyOK, CallbackOK, Busy
  <2>8. BlockingOK(u)'
    <3>1. /\ at'[u] \in Open => at[u] \in Open
          /\ at'[u] \in Open /\ Kind(u) \in Blocking => \A y \in Threads : inside[y] = u => inside'[y] = u
      BY <1>1, <1>2, <1>3, <1>5, Program DEF Open, Completed, Blocking, Threads, IInv, Types
    <3>2. /\ stage[u] = "get" /\ inside[Now(u)] = u /\ at[Now(u)] = "completing"
          => stage'[u] = "get" /\ todo'[u] = todo[u] /\ at'[Now(u)] = "completing" /\ Now(u) \in Threads
      BY <1>1, <1>2, <1>3, <1>5, Program DEF IInv, Types, Chain, GetOK, Threads
    <3> QED
      BY <1>1, <1>5, <3>1, <3>2, BlockingKept DEF IInv, Chain
  <2> QED
    BY <2>1, <2>2, <2>3, <2>4, <2>5, <2>6, <2>7, <2>8 DEF Chain
<1>6. MainOK'
  BY <1>1, <1>2, <1>3, Program DEF IInv, Types, Chain, MainOK, BusyOK, Busy, Threads
<1>7. SharedOK'
  BY <1>1, <1>2, <1>3 DEF IInv, Types, SharedOK, OnShared, Kind
<1>8. LateOK'
  <2>1. \A u \in Tasks : at'[u] = "unlocked" /\ u \notin alive' => LateSuspend(u)
    BY <1>1, <1>2, Program DEF IInv, LateOK, Chain, BusyOK, Busy
  <2> QED
    BY <1>1, <1>2, <2>1, LateKept DEF IInv
<1> QED
  BY <1>3, <1>4, <1>5, <1>6, <1>7, <1>8 DEF IInv

(* A task that completes hands the one that awaits it to its executor. *)
LEMMA NotifyCallbackKeeps ==
  ASSUME ChainAssumption, IInv, NEW t \in Tasks, NotifyCallback(t)
  PROVE  IInv'
<1> DEFINE c == callback[t]
<1>1. /\ at[t] = "completing" /\ c # None
      /\ at' = [at EXCEPT ![c] = "queued"] /\ callback' = [callback EXCEPT ![t] = None]
      /\ inside' = [inside EXCEPT ![t] = IF Kind(c) \in Blocking \cup {"looper"} THEN c ELSE None]
      /\ UNCHANGED <<prog, todo, stage, alive, main>>
      /\ Late(c, "awaiter")
  BY DEF NotifyCallback, Handed
<1>2. /\ c \in Tasks /\ at[c] = "awaiting" /\ stage[c] = "get" /\ todo[c] # << >> /\ Now(c) = t
      /\ c \in alive /\ c # t /\ late' = late /\ inside[t] = None
      /\ \A u \in Tasks : /\ at'[u] = IF u = c THEN "queued" ELSE at[u]
                          /\ callback'[u] = IF u = t THEN None ELSE callback[u]
                          /\ u # t => inside'[u] = inside[u]
      /\ inside'[Main] = inside[Main] /\ inside'[Sched] = inside[Sched] /\ inside'[t] \in {c, None}
      /\ Kind(c) \in Blocking => inside'[t] = c
  BY <1>1, Program DEF IInv, Types, Threads, Chain, CallbackOK, BusyOK, Busy, InsideOK, Late
<1>3. Tasks' = Tasks /\ Threads' = Threads
  BY <1>1 DEF Tasks, Threads
<1>4. Types'
  BY <1>1, <1>2, <1>3, Program, Todo DEF IInv, Types, Busy, Blocking, Kinds, Threads
<1>5. ASSUME NEW u \in Tasks PROVE Chain(u)'
  <2>1. TodoOK(u)'
    BY <1>1 DEF IInv, Chain, TodoOK
  <2>2. NotCalled(u)'
    <3>1. \A z \in Tasks \ {1} : at[z] = "none" => at'[z] = "none"
      BY <1>1, <1>2, Program DEF IInv, Types
    <3> QED
      BY <1>1, <1>2, <3>1, NotCalledKept
  <2>3. BusyOK(u)'
    BY <1>1, <1>2, <1>3, Program, Todo DEF IInv, Types, Chain, BusyOK, Busy
  <2>4. AwaitOK(u)'
    BY <1>1, <1>2, <1>3, Program, Todo DEF IInv, Types, Chain, AwaitOK, Now
  <2>5. GetOK(u)'
    BY <1>1, <1>2, <1>3, Program, Todo DEF IInv, Types, Chain, GetOK, Now, Busy
  <2>6. CallbackOK(u)'
    BY <1>1, <1>2, <1>3, Program, Todo DEF IInv, Types, Chain, CallbackOK, Now, GetOK, AwaitOK, BusyOK, Busy
  <2>7. InsideOK(u)'
    BY <1>1, <1>2, <1>3, Program, Todo DEF IInv, Types, Chain, InsideOK, Now, GetOK, AwaitOK, BusyOK, CallbackOK, Busy
  <2>8. BlockingOK(u)'
    <3>1. CASE u = c
      <4>1. Now(u)' = t /\ stage'[u] = "get" /\ Kind(u)' = Kind(c) /\ at'[t] = "completing"
        BY <1>1, <1>2, <3>1 DEF Kind, Now
      <4> QED
        BY <1>2, <3>1, <4>1 DEF BlockingOK
    <3>2. CASE u # c
      <4>1. at'[u] = at[u] /\ \A y \in Threads : inside[y] = u => inside'[y] = u
        BY <1>1, <1>2, <1>5, <3>2, Program DEF IInv, Types, Threads
      <4>2. /\ stage[u] = "get" /\ inside[Now(u)] = u /\ at[Now(u)] = "completing"
            => stage'[u] = "get" /\ todo'[u] = todo[u] /\ at'[Now(u)] = "completing" /\ Now(u) \in Threads
        BY <1>1, <1>2, <1>5 DEF IInv, Chain, GetOK, Threads
      <4> QED
        BY <1>1, <1>5, <4>1, <4>2, BlockingKept DEF IInv, Chain
    <3> QED
      BY <3>1, <3>2
  <2> QED
    BY <2>1, <2>2, <2>3, <2>4, <2>5, <2>6, <2>7, <2>8 DEF Chain
<1>6. MainOK'
  BY <1>1, <1>2, <1>3, Program DEF IInv, Types, Chain, MainOK, BusyOK, Busy, Threads
<1>7. SharedOK'
  BY <1>1, <1>2, <1>3 DEF IInv, Types, SharedOK, OnShared, Kind
<1>8. LateOK'
  <2>1. \A u \in Tasks : at'[u] = "unlocked" /\ u \notin alive' => at[u] = "unlocked" /\ u \notin alive
    BY <1>1, <1>2
  <2> QED
    BY <1>1, <1>2, <2>1, LateKept DEF IInv, LateOK
<1> QED
  BY <1>3, <1>4, <1>5, <1>6, <1>7, <1>8 DEF IInv

(* A task has called its callback and gives the lock back. *)
LEMMA UnlockKeeps ==
  ASSUME ChainAssumption, IInv, NEW t \in Tasks, Unlock(t)
  PROVE  IInv'
<1>1. /\ at[t] = "completing" /\ callback[t] = None /\ inside[t] = None
      /\ at' = [at EXCEPT ![t] = "unlocked"] /\ t \in alive
      /\ UNCHANGED <<prog, todo, stage, callback, alive, inside, main, late>>
  BY DEF Unlock, Late, IInv, Chain, BusyOK, Busy
<1>2. \A u \in Tasks : at'[u] = (IF u = t THEN "unlocked" ELSE at[u]) /\ inside'[u] = inside[u]
  BY <1>1 DEF IInv, Types
<1>3. Tasks' = Tasks /\ Threads' = Threads
  BY <1>1 DEF Tasks, Threads
<1>4. Types'
  BY <1>1, <1>2, <1>3, Program, Todo DEF IInv, Types, Busy, Blocking, Kinds, Threads
<1>5. ASSUME NEW u \in Tasks PROVE Chain(u)'
  <2>1. TodoOK(u)'
    BY <1>1 DEF IInv, Chain, TodoOK
  <2>2. NotCalled(u)'
    <3>1. \A z \in Tasks \ {1} : at[z] = "none" => at'[z] = "none"
      BY <1>1, <1>2, Program DEF IInv, Types
    <3> QED
      BY <1>1, <1>2, <3>1, NotCalledKept
  <2>3. BusyOK(u)'
    BY <1>1, <1>2, <1>3, Program, Todo DEF IInv, Types, Chain, BusyOK, Busy
  <2>4. AwaitOK(u)'
    BY <1>1, <1>2, <1>3, Program, Todo DEF IInv, Types, Chain, AwaitOK, Now
  <2>5. GetOK(u)'
    BY <1>1, <1>2, <1>3, Program, Todo DEF IInv, Types, Chain, GetOK, Now, Busy
  <2>6. CallbackOK(u)'
    BY <1>1, <1>2, <1>3, Program, Todo DEF IInv, Types, Chain, CallbackOK, Now, GetOK, AwaitOK, BusyOK, Busy
  <2>7. InsideOK(u)'
    BY <1>1, <1>2, <1>3, Program, Todo DEF IInv, Types, Chain, InsideOK, Now, GetOK, AwaitOK, BusyOK, CallbackOK, Busy
  <2>8. BlockingOK(u)'
    <3>1. /\ at'[u] \in Open => at[u] \in Open
          /\ at'[u] \in Open /\ Kind(u) \in Blocking => \A y \in Threads : inside[y] = u => inside'[y] = u
      BY <1>1, <1>2, <1>3, <1>5, Program DEF Open, Completed, Blocking, Threads, IInv, Types
    <3>2. /\ stage[u] = "get" /\ inside[Now(u)] = u /\ at[Now(u)] = "completing"
          => stage'[u] = "get" /\ todo'[u] = todo[u] /\ at'[Now(u)] = "completing" /\ Now(u) \in Threads
      BY <1>1, <1>2, <1>3, <1>5, Program DEF IInv, Types, Chain, GetOK, Threads
    <3> QED
      BY <1>1, <1>5, <3>1, <3>2, BlockingKept DEF IInv, Chain
  <2> QED
    BY <2>1, <2>2, <2>3, <2>4, <2>5, <2>6, <2>7, <2>8 DEF Chain
<1>6. MainOK'
  BY <1>1, <1>2, <1>3, Program DEF IInv, Types, Chain, MainOK, BusyOK, Busy, Threads
<1>7. SharedOK'
  BY <1>1, <1>2, <1>3 DEF IInv, Types, SharedOK, OnShared, Kind
<1>8. LateOK'
  <2>1. \A u \in Tasks : at'[u] = "unlocked" /\ u \notin alive' => LateSuspend(u)
    BY <1>1, <1>2, Program DEF IInv, LateOK, Chain, BusyOK, Busy
  <2> QED
    BY <1>1, <1>2, <2>1, LateKept DEF IInv
<1> QED
  BY <1>3, <1>4, <1>5, <1>6, <1>7, <1>8 DEF IInv

(* The final suspension of a task, late when the frame is gone. *)
LEMMA FinalSuspendKeeps ==
  ASSUME ChainAssumption, IInv, NEW t \in Tasks, FinalSuspend(t)
  PROVE  IInv'
<1>1. /\ at[t] = "unlocked" /\ at' = [at EXCEPT ![t] = "final"] /\ inside' = Released(t)
      /\ late' = IF t \in alive THEN late ELSE late \cup {<<"suspend", t>>}
      /\ UNCHANGED <<prog, todo, stage, callback, alive, main>>
  BY DEF FinalSuspend, Late
<1>2. /\ \A u \in Tasks : at'[u] = IF u = t THEN "final" ELSE at[u]
      /\ \A x \in Threads : inside'[x] = IF inside[x] = t /\ Kind(t) \in Blocking THEN None ELSE inside[x]
  BY <1>1 DEF IInv, Types, Released
<1>3. Tasks' = Tasks /\ Threads' = Threads
  BY <1>1 DEF Tasks, Threads
<1>4. Types'
  <2>1. inside' \in [Threads -> Tasks \cup {None}]
    BY <1>1 DEF IInv, Types, Released
  <2> QED
    BY <1>1, <1>2, <1>3, <2>1, Program, Todo DEF IInv, Types, Busy
<1>5. ASSUME NEW u \in Tasks PROVE Chain(u)'
  <2>1. TodoOK(u)'
    BY <1>1 DEF IInv, Chain, TodoOK
  <2>2. NotCalled(u)'
    <3>1. \A z \in Tasks \ {1} : at[z] = "none" => at'[z] = "none"
      BY <1>1, <1>2, Program DEF IInv, Types
    <3> QED
      BY <1>1, <1>2, <3>1, NotCalledKept
  <2>3. BusyOK(u)'
    BY <1>1, <1>2, <1>3, Program, Todo DEF IInv, Types, Chain, BusyOK, Busy
  <2>4. AwaitOK(u)'
    BY <1>1, <1>2, <1>3, Program, Todo DEF IInv, Types, Chain, AwaitOK, Now
  <2>5. GetOK(u)'
    BY <1>1, <1>2, <1>3, Program, Todo DEF IInv, Types, Chain, GetOK, Now, Busy
  <2>6. CallbackOK(u)'
    BY <1>1, <1>2, <1>3, Program, Todo DEF IInv, Types, Chain, CallbackOK, Now, GetOK, AwaitOK, BusyOK, Busy
  <2>7. InsideOK(u)'
    <3> SUFFICES ASSUME inside'[u] # None
                 PROVE  \/ at'[u] = "running" /\ stage'[u] = "await" /\ inside'[u] = todo'[u][1]
                        \/ /\ at'[u] = "completing" /\ callback'[u] = None
                           /\ stage'[inside'[u]] = "get" /\ todo'[inside'[u]][1] = u
                           /\ at'[inside'[u]] \in {"queued", "running"}
      BY DEF InsideOK, Now
    <3>1. inside'[u] = inside[u] /\ u # t /\ inside[u] \in Tasks
      <4>1. u # t
        BY <1>1, <1>2, <1>5 DEF IInv, Types, Threads, Chain, InsideOK, BusyOK
      <4> QED
        BY <1>2, <1>5, <4>1 DEF IInv, Types, Threads
    <3>2. \/ at[u] = "running" /\ stage[u] = "await" /\ inside[u] = todo[u][1]
          \/ /\ at[u] = "completing" /\ callback[u] = None
             /\ stage[inside[u]] = "get" /\ todo[inside[u]][1] = u /\ at[inside[u]] \in {"queued", "running"}
      BY <1>5, <3>1 DEF IInv, Chain, InsideOK, Now
    <3>3. todo'[u] = todo[u] /\ at'[u] = at[u] /\ stage'[u] = stage[u]
      BY <1>1, <1>2, <1>5, <3>1
    <3>4. at[u] = "completing" => inside[u] # t /\ callback'[u] = callback[u]
      BY <1>1, <1>2, <3>1, <3>2 
    <3>5. inside[u] # t => /\ todo'[inside[u]] = todo[inside[u]]
                          /\ at'[inside[u]] = at[inside[u]] /\ stage'[inside[u]] = stage[inside[u]]
      BY <1>1, <1>2, <3>1
    <3> QED
      BY <3>1, <3>2, <3>3, <3>4, <3>5
  <2>8. BlockingOK(u)'
    <3>1. /\ at'[u] \in Open => at[u] \in Open
          /\ at'[u] \in Open /\ Kind(u) \in Blocking => \A y \in Threads : inside[y] = u => inside'[y] = u
      BY <1>1, <1>2, <1>3, <1>5, Program DEF Open, Completed, Blocking, Threads, IInv, Types
    <3>2. /\ stage[u] = "get" /\ inside[Now(u)] = u /\ at[Now(u)] = "completing"
          => stage'[u] = "get" /\ todo'[u] = todo[u] /\ at'[Now(u)] = "completing" /\ Now(u) \in Threads
      BY <1>1, <1>2, <1>3, <1>5, Program DEF IInv, Types, Chain, GetOK, Threads
    <3> QED
      BY <1>1, <1>5, <3>1, <3>2, BlockingKept DEF IInv, Chain
  <2> QED
    BY <2>1, <2>2, <2>3, <2>4, <2>5, <2>6, <2>7, <2>8 DEF Chain
<1>6. MainOK'
  BY <1>1, <1>2, <1>3, Program DEF IInv, Types, Chain, MainOK, BusyOK, Busy, Threads
<1>7. SharedOK'
  BY <1>1, <1>2, <1>3 DEF IInv, Types, SharedOK, OnShared, Kind
<1>8. LateOK'
  <2>1. LateSuspend(t) \/ t \in alive
    BY <1>1 DEF IInv, LateOK
  <2>2. late' \subseteq late \cup {l \in late' : Excused(l)}
    <3>1. \A l \in late' : l \in late \/ (l = <<"suspend", t>> /\ LateSuspend(t))
      <4>1. CASE t \in alive
        BY <1>1, <4>1
      <4>2. CASE t \notin alive
        BY <1>1, <2>1, <4>2
      <4> QED
        BY <4>1, <4>2
    <3>2. \A l \in late' : l \in late \/ Excused(l)
      BY <3>1 DEF Excused
    <3> QED
      BY <3>2
  <2>3. \A u \in Tasks : at'[u] = "unlocked" /\ u \notin alive' => LateSuspend(u)
    BY <1>1, <1>2 DEF IInv, LateOK
  <2> QED
    BY <1>1, <2>2, <2>3, LateKept DEF IInv
<1> QED
  BY <1>3, <1>4, <1>5, <1>6, <1>7, <1>8 DEF IInv
-----------------------------------------------------------------------------
(* Nothing is called at first. *)
LEMMA InitInv ==
  ASSUME ChainAssumption, Init
  PROVE  IInv
<1>1. prog \in Programs /\ Tasks = DOMAIN prog /\ 1 \in Tasks
  BY DEF Init, Tasks, ChainAssumption
<1>2. ASSUME NEW t \in Tasks
      PROVE  /\ prog[t].awaits \in Seq((Tasks \ {1}) \cup {Sleep})
             /\ \A i \in 1..Len(prog[t].awaits) : prog[t].awaits[i] \in Range(prog[t].awaits)
             /\ \A i, j \in 1..Len(prog[t].awaits) :
                  prog[t].awaits[i] = prog[t].awaits[j] /\ prog[t].awaits[i] # Sleep => i = j
  <2>1. prog[t].awaits \in Seq((Tasks \ {1}) \cup {Sleep})
    BY <1>1 DEF ChainAssumption
  <2>2. DOMAIN prog[t].awaits = 1..Len(prog[t].awaits)
    BY <2>1
  <2>3. \A i, j \in DOMAIN prog[t].awaits :
          prog[t].awaits[i] = prog[t].awaits[j] /\ prog[t].awaits[i] # Sleep => t = t /\ i = j
    BY <1>1, Zenon DEF ChainAssumption
  <2> QED
    BY <2>1, <2>2, <2>3 DEF Range
<1>3. Types
  BY <1>1, <1>2 DEF Init, Types, Busy, Threads
<1>4. ASSUME NEW t \in Tasks PROVE Chain(t)
  <2>1. TodoOK(t)
    BY <1>2 DEF Init, TodoOK
  <2>2. NotCalled(t)
    <3>1. \A i \in 1..Len(todo[t]) : todo[t][i] # Sleep => at[todo[t][i]] = "none"
      BY <1>2 DEF Init
    <3> QED
      BY <1>3, <3>1 DEF NotCalled, Init
  <2>3. BusyOK(t) /\ AwaitOK(t) /\ GetOK(t) /\ CallbackOK(t) /\ InsideOK(t) /\ BlockingOK(t)
    BY DEF Init, BusyOK, Busy, AwaitOK, GetOK, CallbackOK, InsideOK, Threads, BlockingOK, Open
  <2> QED
    BY <2>1, <2>2, <2>3 DEF Chain
<1>5. MainOK /\ SharedOK /\ LateOK
  BY <1>1 DEF Init, MainOK, Threads, SharedOK, OnShared, LateOK
<1> QED
  BY <1>3, <1>4, <1>5 DEF IInv

(* What the invariant is about: all but the loopers' threads and their ends *)
taskVars == <<prog, at, todo, stage, callback, alive, inside, main, late>>

(* A looper's thread after its last function, and its destructor, change nothing else. *)
LEMMA LooperAlone ==
  ASSUME NEW t, Loop(t) \/ Destroy(t) \/ SpuriousWake(t)
  PROVE  UNCHANGED taskVars
BY DEF Loop, LoopTest, LoopWait, SpuriousWake, Looping, Destroy, StopLooper, NotifyAll, JoinLooper, taskVars

(* Every action keeps the invariant, and so does a step that changes nothing. *)
LEMMA NextInv ==
  ASSUME ChainAssumption, IInv, [Next]_vars
  PROVE  IInv'
<1>1. CASE CallMain
  BY <1>1, CallMainKeeps
<1>2. CASE GetMain
  BY <1>2, GetMainKeeps
<1>3. ASSUME NEW x \in Threads, Notify(x) PROVE IInv'
  BY <1>3, NotifyKeeps
<1>4. ASSUME NEW t \in Tasks, Run(t) PROVE IInv'
  BY <1>4, ResumeKeeps, StartSleepKeeps, EndSleepKeeps, CallTaskKeeps, AwaitTaskKeeps, GetKeeps,
     CompleteKeeps, NotifyCallbackKeeps, UnlockKeeps, FinalSuspendKeeps DEF Run
<1>5. CASE UNCHANGED taskVars
  <2>1. Tasks' = Tasks /\ Threads' = Threads /\ \A t \in Tasks : Kind(t)' = Kind(t) /\ (Sleeps(t)' <=> Sleeps(t))
    BY <1>5 DEF taskVars, Tasks, Threads, Kind, Sleeps
  <2>2. Types'
    BY <1>5, <2>1 DEF taskVars, IInv, Types
  <2>3. ASSUME NEW t \in Tasks PROVE Chain(t)'
    <3>1. Chain(t)
      BY DEF IInv
    <3>2. (TodoOK(t) /\ NotCalled(t) /\ BusyOK(t))'
      BY <1>5, <3>1 DEF taskVars, Chain, TodoOK, NotCalled, BusyOK
    <3>3. (AwaitOK(t) /\ GetOK(t))'
      BY <1>5, <2>1, <3>1 DEF taskVars, Chain, AwaitOK, GetOK, Now
    <3>4. (CallbackOK(t) /\ InsideOK(t))'
      BY <1>5, <3>1 DEF taskVars, Chain, CallbackOK, InsideOK, Now
    <3>5. BlockingOK(t)'
      BY <1>5, <2>1, <3>1 DEF taskVars, Chain, BlockingOK, Now
    <3> QED
      BY <3>2, <3>3, <3>4, <3>5 DEF Chain
  <2>4. MainOK'
    BY <1>5 DEF taskVars, IInv, MainOK
  <2>5. SharedOK'
    BY <1>5, <2>1 DEF taskVars, IInv, SharedOK, OnShared, Kind
  <2>6. LateOK'
    BY <1>5, LateKept DEF taskVars, IInv, LateOK
  <2> QED
    BY <2>1, <2>2, <2>3, <2>4, <2>5, <2>6 DEF IInv
<1>6. ASSUME NEW t \in Tasks, Loop(t) \/ Destroy(t) \/ SpuriousWake(t) PROVE IInv'
  BY <1>5, <1>6, LooperAlone
<1>7. CASE UNCHANGED vars
  BY <1>5, <1>7 DEF vars, taskVars
<1> QED
  BY <1>1, <1>2, <1>3, <1>4, <1>6, <1>7 DEF Next

(* Who awaits a task has its callback there, and what the invariant calls late is excused. *)
LEMMA InvIsSafe ==
  ASSUME ChainAssumption, IInv
  PROVE  Safety
<1>1. AwaitedHasCallback
  <2>1. ASSUME NEW t \in Tasks, callback[t] # None
        PROVE  /\ at[callback[t]] = "awaiting" /\ callback[t] \in alive
               /\ Head(todo[callback[t]]) = t
    <3>1. callback[t] \in Tasks
      BY <2>1 DEF IInv, Types
    <3> QED
      BY <2>1, <3>1, Todo DEF IInv, Chain, CallbackOK, BusyOK, Busy
  <2>2. ASSUME NEW t \in Tasks, at[t] = "awaiting" PROVE callback[Head(todo[t])] = t
    BY <2>2, Todo DEF IInv, Chain, BusyOK, GetOK
  <2> QED
    BY <2>1, <2>2 DEF AwaitedHasCallback
<1>2. ASSUME NEW l \in late
      PROVE  \/ l[1] = "suspend" /\ LateSuspend(l[2])
             \/ l[1] = "notify after sleep" /\ Sleeps(l[2])
  <2>1. PICK t \in Tasks : \/ l = <<"suspend", t>> /\ LateSuspend(t)
                           \/ l = <<"notify after sleep", t>> /\ Sleeps(t)
    BY DEF IInv, LateOK, Excused
  <2>2. CASE l = <<"suspend", t>> /\ LateSuspend(t)
    <3>1. l[1] = "suspend" /\ l[2] = t
      BY <2>2
    <3> QED
      BY <2>2, <3>1
  <2>3. CASE l = <<"notify after sleep", t>> /\ Sleeps(t)
    <3>1. l[1] = "notify after sleep" /\ l[2] = t
      BY <2>3
    <3> QED
      BY <2>3, <3>1
  <2> QED
    BY <2>1, <2>2, <2>3
<1>3. LateOnlyAtTheEnd
  BY <1>2 DEF Sleeps, LateOnlyAtTheEnd
<1>4. SameThreadIsSafe
  BY <1>2 DEF LateSuspend, Sleeps, SameThreadIsSafe
<1> QED
  BY <1>1, <1>3, <1>4 DEF Safety

(* The inductive invariant holds in every reachable state. *)
THEOREM Invariant ==
  ASSUME ChainAssumption
  PROVE  Spec => []IInv
<1>1. Init => IInv
  BY InitInv
<1>2. IInv /\ [Next]_vars => IInv'
  BY NextInv
<1> QED
  BY <1>1, <1>2, PTL DEF Spec

(* In any program in which each task is awaited once, a stored callback belongs to the     *)
(* coroutine that awaits, a coroutine that awaits has its callback stored, and only the     *)
(* final suspension and the scheduler's notify_one can come after a task's end.            *)
THEOREM SafetyHolds ==
  ASSUME ChainAssumption
  PROVE  Spec => []Safety
<1>1. IInv => Safety
  BY InvIsSafe
<1> QED
  BY <1>1, Invariant, PTL

(* A coroutine is handed to its executor once for each of its suspensions. *)
LEMMA StepResumesOnce ==
  ASSUME ChainAssumption, IInv, [Next]_vars, NEW u \in Tasks, at'[u] = "queued", at[u] # "queued"
  PROVE  /\ u \in alive'
         /\ at[u] \in {"none", "sleeping", "awaiting"} \/ stage[u] = "await"
<1> USE DEF IInv, Types
<1>1. CASE CallMain
  BY <1>1, Program DEF CallMain, Create, MainOK
<1>2. CASE UNCHANGED vars \/ GetMain \/ \E x \in Threads : Notify(x)
  BY <1>2 DEF vars, GetMain, Notify
<1>8. ASSUME NEW t \in Tasks, Loop(t) \/ Destroy(t) \/ SpuriousWake(t)
      PROVE  at'[u] # "queued" \/ at[u] = "queued"
  BY <1>8, LooperAlone DEF taskVars
<1>3. ASSUME NEW t \in Tasks, Resume(t) \/ StartSleep(t) \/ Get(t) \/ Complete(t) \/ Unlock(t) \/ FinalSuspend(t)
      PROVE  at'[u] # "queued" \/ at[u] = "queued"
  BY <1>3 DEF Resume, StartSleep, Get, Complete, Unlock, FinalSuspend
<1>4. ASSUME NEW t \in Tasks, EndSleep(t) PROVE u = t /\ at[u] = "sleeping" /\ u \in alive'
  BY <1>4 DEF EndSleep, Chain, BusyOK, Busy
<1>5. ASSUME NEW t \in Tasks, CallTask(t) PROVE at[u] = "none" /\ u \in alive'
  <2>1. Now(t) = Head(todo[t]) /\ todo[t] # << >> /\ at[Now(t)] = "none" /\ Now(t) \in Tasks
    BY <1>5, Todo DEF CallTask, Running, GoesOn, Chain, NotCalled, Now
  <2> QED
    BY <1>5, <2>1 DEF CallTask, Create
<1>6. ASSUME NEW t \in Tasks, AwaitTask(t) PROVE stage[u] = "await" /\ u \in alive'
  BY <1>6 DEF AwaitTask, Running, GoesOn, Chain, BusyOK, Busy
<1>7. ASSUME NEW t \in Tasks, NotifyCallback(t) PROVE at[u] = "awaiting" /\ u \in alive'
  BY <1>7 DEF NotifyCallback, Chain, CallbackOK, BusyOK, Busy
<1> QED
  BY <1>1, <1>2, <1>3, <1>4, <1>5, <1>6, <1>7, <1>8 DEF Next, Run

(* No coroutine is resumed twice for one await, or after its frame is gone. *)
THEOREM ResumedOnceHolds ==
  ASSUME ChainAssumption
  PROVE  Spec => ResumedOncePerAwait
<1>1. IInv /\ [Next]_vars =>
        [\A t \in Tasks :
           at'[t] = "queued" /\ at[t] # "queued" =>
             /\ t \in alive'
             /\ at[t] \in {"none", "sleeping", "awaiting"} \/ stage[t] = "await"]_vars
  BY StepResumesOnce
<1> QED
  BY <1>1, Invariant, PTL DEF Spec, ResumedOncePerAwait
=============================================================================
