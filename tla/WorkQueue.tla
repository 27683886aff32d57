------------------------------ MODULE WorkQueue ------------------------------
(* ThreadSafeQueue of executor/ThreadPool.h by itself, with wait_pop(), size(),     *)
(* empty() and stop().  A critical section of mutex_ is a step, and so is a notify    *)
(* after the unlock.                                                                *)
EXTENDS Naturals, Sequences, FiniteSets, SequencesExt

CONSTANTS Items,                          \* what is pushed, each once
          Pushers, Waiters, Triers, Stopper  \* threads

WorkQueueAssumption ==
  /\ IsFiniteSet(Pushers) /\ IsFiniteSet(Waiters)
  /\ Waiters \cap (Pushers \cup Triers) = {} /\ Stopper \notin Pushers \cup Waiters

VARIABLES deque_, stop_,
          pc,      \* where each thread is
          got,     \* got[t]: what t popped last, or "none"
          started, \* the value stop_ had at first: no constructor sets it
          pushed,  \* history: the items pushed, in order
          popped   \* history: by pops from the front, from the back

vars == <<deque_, stop_, pc, got, started, pushed, popped>>

Threads == Pushers \cup Waiters \cup Triers \cup {Stopper}

Init ==
  /\ deque_ = << >>
  /\ stop_ \in BOOLEAN
  /\ pc = [t \in Threads |-> "idle"]
  /\ got = [t \in Threads |-> "none"]
  /\ started = stop_
  /\ pushed = << >> /\ popped = << << >>, << >> >>

Goto(t, l) == pc' = [pc EXCEPT ![t] = l]

NotifyIfEmptyMutant(p) ==    \* mutant: notifies only when the deque was empty
  /\ pc[p] = "idle"
  /\ \E x \in Items \ Range(pushed) : deque_' = Append(deque_, x) /\ pushed' = Append(pushed, x)
  /\ Goto(p, IF deque_ = << >> THEN "notify" ELSE "idle")
  /\ UNCHANGED <<stop_, got, started, popped>>

push(p) ==
  /\ pc[p] = "idle"
  /\ \E x \in Items \ Range(pushed) : deque_' = Append(deque_, x) /\ pushed' = Append(pushed, x)
  /\ Goto(p, "notify")
  /\ UNCHANGED <<stop_, got, started, popped>>

(* cond_.notify_one(): one of the sleeping threads, if there is one *)
NotifyOne(p) ==
  /\ pc[p] = "notify"
  /\ LET asleep == {w \in Waiters : pc[w] = "asleep"}
     IN  IF asleep = {} THEN Goto(p, "idle")
         ELSE \E w \in asleep : pc' = [pc EXCEPT ![p] = "idle", ![w] = "awake"]
  /\ UNCHANGED <<deque_, stop_, got, started, pushed, popped>>

PopFront(t) ==
  /\ got' = [got EXCEPT ![t] = Head(deque_)]
  /\ deque_' = Tail(deque_)
  /\ popped' = [popped EXCEPT ![1] = Append(@, Head(deque_))]

WaitPopDrainMutant(w) ==     \* mutant: what is left is popped after stop()
  /\ pc[w] \in {"idle", "awake"}
  /\ IF deque_ # << >> THEN PopFront(w) /\ Goto(w, "idle")
     ELSE Goto(w, IF stop_ THEN "stopped" ELSE "asleep") /\ UNCHANGED <<got, deque_, popped>>
  /\ UNCHANGED <<stop_, started, pushed>>

(* wait_pop(), from the lock or from a wake-up; it returns false when stopped, with *)
(* items in the deque too                                                          *)
wait_pop(w) ==
  /\ pc[w] \in {"idle", "awake"}
  /\ \/ stop_ /\ Goto(w, "stopped") /\ UNCHANGED <<got, deque_, popped>>
     \/ ~stop_ /\ deque_ = << >> /\ Goto(w, "asleep") /\ UNCHANGED <<got, deque_, popped>>
     \/ ~stop_ /\ deque_ # << >> /\ PopFront(w) /\ Goto(w, "idle")
  /\ UNCHANGED <<stop_, started, pushed>>

SpuriousWake(w) ==
  /\ pc[w] = "asleep"
  /\ Goto(w, "awake")
  /\ UNCHANGED <<deque_, stop_, got, started, pushed, popped>>

try_pop(t) ==
  /\ deque_ # << >>
  /\ PopFront(t)
  /\ UNCHANGED <<stop_, pc, started, pushed>>

StealKeepMutant(t) ==        \* mutant: no pop_back()
  /\ deque_ # << >>
  /\ got' = [got EXCEPT ![t] = Last(deque_)]
  /\ popped' = [popped EXCEPT ![2] = Append(@, Last(deque_))]
  /\ UNCHANGED <<deque_, stop_, pc, started, pushed>>

(* From a failed try_to_lock or an empty deque nothing changes: the calls that return *)
(* false are not steps.                                                             *)
try_steal(t) ==
  /\ deque_ # << >>
  /\ got' = [got EXCEPT ![t] = Last(deque_)]
  /\ deque_' = Front(deque_)
  /\ popped' = [popped EXCEPT ![2] = Append(@, Last(deque_))]
  /\ UNCHANGED <<stop_, pc, started, pushed>>

stop ==
  /\ pc[Stopper] = "idle"
  /\ stop_' = TRUE
  /\ Goto(Stopper, "notify")
  /\ UNCHANGED <<deque_, got, started, pushed, popped>>

NotifyOneOnStopMutant ==     \* mutant: stop() notifies one
  /\ pc[Stopper] = "notify"
  /\ LET asleep == {w \in Waiters : pc[w] = "asleep"}
     IN  IF asleep = {} THEN Goto(Stopper, "ended")
         ELSE \E w \in asleep : pc' = [pc EXCEPT ![Stopper] = "ended", ![w] = "awake"]
  /\ UNCHANGED <<deque_, stop_, got, started, pushed, popped>>

NotifyAll ==
  /\ pc[Stopper] = "notify"
  /\ pc' = [t \in Threads |-> IF t = Stopper THEN "ended"
                              ELSE IF pc[t] = "asleep" THEN "awake" ELSE pc[t]]
  /\ UNCHANGED <<deque_, stop_, got, started, pushed, popped>>

Next == \/ \E p \in Pushers : push(p) \/ NotifyOne(p)
        \/ \E w \in Waiters : wait_pop(w) \/ SpuriousWake(w)
        \/ \E t \in Triers : try_pop(t) \/ try_steal(t)
        \/ stop \/ NotifyAll

Spec == Init /\ [][Next]_vars

(* Threads that are in a call go on; nobody has to call push(), stop() or try_pop(). *)
Notify == (\E p \in Pushers : NotifyOne(p)) \/ NotifyAll
Woken(w) == pc[w] = "awake" /\ wait_pop(w)
-----------------------------------------------------------------------------
TypeOK ==
  /\ deque_ \in Seq(Items) /\ stop_ \in BOOLEAN
  /\ pc \in [Threads -> {"idle", "notify", "asleep", "awake", "stopped", "ended"}]
  /\ got \in [Threads -> Items \cup {"none"}]

(* x stands before y in the sequence s. *)
Before(s, x, y) == \E i, j \in DOMAIN s : i < j /\ s[i] = x /\ s[j] = y

(* Every item pushed is in the deque or was popped, once.  What the pops from the back   *)
(* leave, popped from the front or still there, is in the order it was pushed.            *)
EachItemOnce ==
  LET kept == popped[1] \o deque_
  IN  /\ IsInjective(kept \o popped[2])
      /\ Range(kept \o popped[2]) = Range(pushed)
      /\ \A i, j \in DOMAIN kept : i < j => Before(pushed, kept[i], kept[j])

(* No wake-up is lost: the items that nobody is on the way to, a thread that is awake or *)
(* one still to be notified, are there only if no thread sleeps.                        *)
NoLostWakeup ==
  (\E w \in Waiters : pc[w] = "asleep") /\ ~stop_ =>
    Len(deque_) <= Cardinality({w \in Waiters : pc[w] = "awake"})
                   + Cardinality({p \in Pushers : pc[p] = "notify"})

(* A queue whose stop_ happens to be set at first gives nothing: wait_pop() returns     *)
(* false however much is pushed.                                                      *)
StoppedGivesNothing ==
  started => \A w \in Waiters : got[w] = "none" /\ pc[w] # "asleep"

(* A sleeping thread wakes for an item, unless another takes it, and for stop().        *)
WakesForAnItem ==
  \A w \in Waiters : pc[w] = "asleep" /\ deque_ # << >> ~> pc[w] # "asleep" \/ deque_ = << >>
WakesToStop == \A w \in Waiters : stop_ /\ pc[w] = "asleep" ~> pc[w] = "stopped"

(* Nothing is lost: no item, whichever end it is taken from, and no wake-up, unless the    *)
(* queue was stopped; who sleeps wakes.                                                 *)
Safety   == EachItemOnce /\ NoLostWakeup /\ StoppedGivesNothing
Progress == WakesForAnItem /\ WakesToStop
=============================================================================
