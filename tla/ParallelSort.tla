---------------------------- MODULE ParallelSort -----------------------------
(* The quicksort of executor/test_threadpool.cpp on its pool of two stealing workers. *)
(* par_quick_sort() hands its lower part to the pool as a task that writes to locals   *)
(* of the submitting call, sorts the higher part itself and runs pending tasks until  *)
(* the lower one is done.  A call is named by its path from the root: 1 is the lower    *)
(* and 2 the higher part.  The queues are those of ThreadPool: a try_lock may miss, so  *)
(* any of the three may be served.                                                    *)
EXTENDS Integers, Sequences, FiniteSets, SequencesExt

CONSTANTS Workers,   \* threads of the pool
          Lists      \* lists to sort

SortAssumption == Lists \subseteq Seq(Int)

VARIABLES input,      \* the list
          stack,      \* stack[w]: the frames of worker w, the innermost last
          queue,      \* queue[w]: its local queue, of calls for the lower parts
          global,     \* the global queue, of the root task
          local,      \* local[c]: lower_sorted and done of the live call c
          main,       \* where do_sort() and the pool's destructor are
          mtx,        \* who holds do_sort's mutex: "main", "task" or "none"
          done, ret,  \* locals of do_sort
          late        \* what has been touched after it was destroyed

vars == <<input, stack, queue, global, local, main, mtx, done, ret, late>>
mainVars == <<main, mtx, done, ret>>

Root == << >>

(* the orders std::partition may leave those elements of s in whose places are in I *)
Orders(s, I) == {[i \in 1..Cardinality(I) |-> s[p[i]]] : p \in Bijection(1..Cardinality(I), I)}

Lower(s)  == Orders(s, {i \in 2..Len(s) : s[i] < s[1]})
Higher(s) == Orders(s, {i \in 2..Len(s) : s[i] >= s[1]})

(* seq_quick_sort *)
seq_quick_sort[s \in Seq(Int)] ==
  IF s = << >> THEN s
  ELSE LET l == CHOOSE t \in Lower(s) : TRUE   h == CHOOSE t \in Higher(s) : TRUE
       IN  seq_quick_sort[l] \o <<s[1]>> \o seq_quick_sort[h]

Init ==
  /\ input \in Lists
  /\ stack = [w \in Workers |-> << >>] /\ queue = [w \in Workers |-> << >>]
  /\ global = << >>
  /\ local = << >>
  /\ main = "submit" /\ mtx = "none" /\ done = FALSE /\ ret = << >>
  /\ late = {}
-----------------------------------------------------------------------------
(* frames: of the root's or a lower part's task, and of a call of par_quick_sort *)
TaskFrame(c, s) == [kind |-> "task", call |-> c, list |-> s, pc |-> "start"]
SortFrame(c, s) == [kind |-> "sort", call |-> c, list |-> s, pc |-> "enter", higher |-> << >>]

Top(w)      == Last(stack[w])
In(w, k, l) == stack[w] # << >> /\ Top(w).kind = k /\ Top(w).pc = l
Replaced(w, f) == [stack EXCEPT ![w] = Append(Front(@), f)]
Pushed(w, f)   == [stack EXCEPT ![w] = Append(@, f)]

(* The locals of a lower part's task are its parent's; the root's are do_sort's.  A call *)
(* that has returned has none.                                                         *)
Parent(c) == Front(c)
Alive(c)  == IF c = Root THEN main \in {"lock", "asleep"} ELSE Parent(c) \in DOMAIN local
Touch(c, what) == late' = IF Alive(c) THEN late ELSE late \cup {what}

(* Call c of worker w returns the list r: its frame goes, and the frame below takes r.  *)
Returns(w, r) ==
  LET below == Front(stack[w])  f == Last(below)
  IN  stack' = [stack EXCEPT ![w] = Append(Front(below),
                    IF f.kind = "sort" THEN [f EXCEPT !.higher = r, !.pc = "wait"]
                                       ELSE [f EXCEPT !.list = r, !.pc = "write"])]

(* an empty list is returned at once; otherwise it is split and the lower part submitted *)
Enter(w) ==
  /\ In(w, "sort", "enter")
  /\ LET f == Top(w) IN
     IF f.list = << >>
     THEN Returns(w, << >>) /\ UNCHANGED <<queue, local>>
     ELSE \E l \in Lower(f.list), h \in Higher(f.list) :
            /\ queue' = [queue EXCEPT ![w] = Append(@, TaskFrame(Append(f.call, 1), l))]
            /\ local' = [c \in DOMAIN local \cup {f.call} |->
                           IF c = f.call THEN [lower_sorted |-> << >>, done |-> FALSE] ELSE local[c]]
            /\ stack' = [stack EXCEPT ![w] = Front(@)
                           \o <<[f EXCEPT !.list = <<@[1]>>, !.pc = "call"],
                                SortFrame(Append(f.call, 2), h)>>]
  /\ UNCHANGED <<input, global, mainVars, late>>

MergeEarlyMutant(w) ==      \* mutant: does not wait for the lower part
  /\ In(w, "sort", "wait")
  /\ LET f == Top(w) IN
       /\ Returns(w, local[f.call].lower_sorted \o f.list \o f.higher)
       /\ local' = [c \in DOMAIN local \ {f.call} |-> local[c]]
  /\ UNCHANGED <<input, queue, global, mainVars, late>>

MergeSwapMutant(w) ==       \* mutant: spliced at the wrong ends
  /\ In(w, "sort", "wait")
  /\ LET f == Top(w) IN
       /\ local[f.call].done
       /\ Returns(w, f.list \o local[f.call].lower_sorted \o f.higher)
       /\ local' = [c \in DOMAIN local \ {f.call} |-> local[c]]
  /\ UNCHANGED <<input, queue, global, mainVars, late>>

(* done is read as true: the parts are spliced and the call returns *)
Merge(w) ==
  /\ In(w, "sort", "wait")
  /\ LET f == Top(w) IN
       /\ local[f.call].done
       /\ Returns(w, local[f.call].lower_sorted \o f.list \o f.higher)
       /\ local' = [c \in DOMAIN local \ {f.call} |-> local[c]]
  /\ UNCHANGED <<input, queue, global, mainVars, late>>

MayRunMutant(w) == stack[w] = << >>      \* mutant: a waiting call runs no pending task

(* run_pending_task() is called by an idle worker and by a call that waits *)
MayRun(w) == IF stack[w] = << >> THEN main # "stopped" /\ main # "ended"
             ELSE In(w, "sort", "wait") /\ ~local[Top(w).call].done

RunPending(w) ==
  /\ MayRun(w)
  /\ \/ /\ queue[w] # << >>
        /\ stack' = Pushed(w, Head(queue[w]))
        /\ queue' = [queue EXCEPT ![w] = Tail(@)]
        /\ UNCHANGED global
     \/ /\ global # << >>
        /\ stack' = Pushed(w, Head(global))
        /\ global' = Tail(global)
        /\ UNCHANGED queue
     \/ \E v \in Workers \ {w} :
          /\ queue[v] # << >>
          /\ stack' = Pushed(w, Last(queue[v]))
          /\ queue' = [queue EXCEPT ![v] = Front(@)]
          /\ UNCHANGED global
  /\ UNCHANGED <<input, local, mainVars, late>>

(* a task calls par_quick_sort; the root's locks mtx before *)
Start(w) ==
  /\ In(w, "task", "start")
  /\ Top(w).call = Root => mtx = "none"
  /\ mtx' = IF Top(w).call = Root THEN "task" ELSE mtx
  /\ stack' = Pushed(w, SortFrame(Top(w).call, Top(w).list))
  /\ UNCHANGED <<input, queue, global, local, main, done, ret, late>>

(* lower_sorted = ..., ret = ... *)
Write(w) ==
  /\ In(w, "task", "write")
  /\ LET f == Top(w) IN
       /\ Touch(f.call, "result")
       /\ IF f.call = Root
          THEN ret' = f.list /\ UNCHANGED local
          ELSE /\ local' = IF Alive(f.call) THEN [local EXCEPT ![Parent(f.call)].lower_sorted = f.list] ELSE local
               /\ UNCHANGED ret
       /\ stack' = Replaced(w, [f EXCEPT !.pc = "store"])
  /\ UNCHANGED <<input, queue, global, main, mtx, done>>

(* done = true; that is the last a lower part's task does *)
Store(w) ==
  /\ In(w, "task", "store")
  /\ LET f == Top(w) IN
       /\ Touch(f.call, "done")
       /\ IF f.call = Root
          THEN done' = TRUE /\ stack' = Replaced(w, [f EXCEPT !.pc = "unlock"]) /\ UNCHANGED local
          ELSE /\ local' = IF Alive(f.call) THEN [local EXCEPT ![Parent(f.call)].done = TRUE] ELSE local
               /\ stack' = [stack EXCEPT ![w] = Front(@)]
               /\ UNCHANGED done
  /\ UNCHANGED <<input, queue, global, main, mtx, ret>>

Unlock(w) ==
  /\ In(w, "task", "unlock")
  /\ mtx' = "none"
  /\ stack' = Replaced(w, [Top(w) EXCEPT !.pc = "notify"])
  /\ UNCHANGED <<input, queue, global, local, main, done, ret, late>>

(* cv.notify_one(), on a condition variable that may be gone *)
Notify(w) ==
  /\ In(w, "task", "notify")
  /\ Touch(Root, "cv")
  /\ main' = IF main = "asleep" THEN "lock" ELSE main
  /\ stack' = [stack EXCEPT ![w] = Front(@)]
  /\ UNCHANGED <<input, queue, global, local, mtx, done, ret>>
-----------------------------------------------------------------------------
(* do_sort(): an empty list is returned, otherwise the root task submitted *)
Submit ==
  /\ main = "submit"
  /\ IF input = << >> THEN main' = "returned" /\ UNCHANGED global
                      ELSE main' = "lock" /\ global' = <<TaskFrame(Root, input)>>
  /\ UNCHANGED <<input, stack, queue, local, mtx, done, ret, late>>

(* lock, then cv.wait(lk, done) *)
WaitDone ==
  /\ main = "lock" /\ mtx = "none"
  /\ main' = IF done THEN "returned" ELSE "asleep"
  /\ UNCHANGED <<input, stack, queue, global, local, mtx, done, ret, late>>

SpuriousWake ==
  /\ main = "asleep"
  /\ main' = "lock"
  /\ UNCHANGED <<input, stack, queue, global, local, mtx, done, ret, late>>

(* ~ThreadPoolSimple: stop_, and the join of the workers *)
Stop ==
  /\ main = "returned"
  /\ main' = "stopped"
  /\ UNCHANGED <<input, stack, queue, global, local, mtx, done, ret, late>>

Join ==
  /\ main = "stopped" /\ \A w \in Workers : stack[w] = << >>
  /\ main' = "ended"
  /\ UNCHANGED <<input, stack, queue, global, local, mtx, done, ret, late>>

Work(w) == Enter(w) \/ Merge(w) \/ RunPending(w) \/ Start(w) \/ Write(w) \/ Store(w)
           \/ Unlock(w) \/ Notify(w)
MainThread == Submit \/ WaitDone \/ Stop \/ Join
Next == (\E w \in Workers : Work(w)) \/ MainThread \/ SpuriousWake

Spec == Init /\ [][Next]_vars
-----------------------------------------------------------------------------
(* do_sort() returns its list sorted, as seq_quick_sort() does: with the same elements,  *)
(* in order.                                                                          *)
SortsTheList ==
  main \in {"returned", "stopped", "ended"} =>
    /\ ret = seq_quick_sort[input]
    /\ \A i \in 1..Len(ret) - 1 : ret[i] <= ret[i + 1]
    /\ \A x \in Range(input) \cup Range(ret) :
         Cardinality({i \in DOMAIN ret : ret[i] = x}) = Cardinality({i \in DOMAIN input : input[i] = x})

(* The tasks queued and running write to locals of calls that are still on a stack: the   *)
(* references they capture do not outlive the frames.                                   *)
Tasks == (UNION {Range(queue[w]) : w \in Workers}) \cup Range(global)
         \cup {f \in UNION {Range(stack[w]) : w \in Workers} : f.kind = "task"}
ReferencesLive ==
  /\ \A f \in Tasks : f.pc # "notify" => Alive(f.call)
  /\ DOMAIN local = {f.call : f \in {g \in UNION {Range(stack[w]) : w \in Workers} :
                                       g.kind = "sort" /\ g.pc # "enter"}}

(* Only the notify_one after the unlock may come too late: when do_sort() has seen done   *)
(* and returned, its condition variable is gone.                                        *)
OnlyTheNotifyIsLate == late \subseteq {"cv"}

(* The pool stops with nothing queued: no task is refused or dropped, though the result   *)
(* of submit() is not looked at.                                                        *)
NothingLeftBehind ==
  main \in {"stopped", "ended"} =>
    /\ \A w \in Workers : queue[w] = << >>
    /\ global = << >> /\ local = << >>

(* The list is sorted, with no access to locals that are gone but the last notify, and     *)
(* the pool is empty when it stops.                                                     *)
Safety == SortsTheList /\ ReferencesLive /\ OnlyTheNotifyIsLate /\ NothingLeftBehind

(* Workers that wait for a part in another's stack run what is queued, so nobody waits in *)
(* a circle: the program ends.                                                          *)
SortEnds == <>(main = "ended")
=============================================================================
