------------------------- MODULE TaskPromise_proofs -------------------------
(* Theorems about TaskPromise for every set of clients and callbacks.           *)
EXTENDS TaskPromise, SequenceTheorems, TLAPS

(* A caller that calls its callback itself has one. *)
ArgOK == \A c \in Callers : call[c] = "calling" => arg[c] \in Callbacks
TypeInv == TypeOK /\ ArgOK

(* TypeInv is an invariant. *)
LEMMA TypeInvariant == Spec => []TypeInv
<1>1. Init => TypeInv
  <2> SUFFICES ASSUME Init PROVE TypeInv
    OBVIOUS
  <2>1. ArgOK
    BY DEF Init, ArgOK
  <2>2. /\ call \in [Callers -> {"idle", "calling", "waiting", "woken", "undefined"}]
        /\ arg \in [Callers -> Callbacks \cup {None}]
        /\ got \in [Callers -> Outcomes \cup {"none"}]
        /\ calls \in [Callbacks -> Nat]
    BY DEF Init
  <2>3. result_ \in Outcomes \cup {"unset"} /\ callbacks \in Seq(Callbacks)
    BY EmptySeq DEF Init
  <2>4. /\ co \in {"body", "notifying", "returned", "final", "undefined"}
        /\ owner \in {"using", "suspended", "resumed", "got", "gone", "terminated"}
        /\ mode \in Modes
        /\ registered \subseteq Callbacks /\ ran \subseteq Callbacks
        /\ spurious \in BOOLEAN
    BY DEF Init
  <2>5. TypeOK
    BY <2>2, <2>3, <2>4 DEF TypeOK
  <2> QED
    BY <2>1, <2>5 DEF TypeInv
<1>2. TypeInv /\ [Next]_vars => TypeInv'
  <2> SUFFICES ASSUME TypeInv, [Next]_vars PROVE TypeInv'
    OBVIOUS
  <2> USE DEF TypeInv
  <2>0. Owner \in Callers
    BY DEF Callers
  <2>1. ASSUME NEW c \in Callers, NEW f \in Callbacks, OnCompleted(c, f)
        PROVE  /\ registered' \subseteq Callbacks
               /\ callbacks' \in Seq(Callbacks)
               /\ call' \in [Callers -> {"idle", "calling", "waiting", "woken", "undefined"}]
               /\ arg' \in [Callers -> Callbacks \cup {None}]
               /\ ArgOK'
    <3>1. Append(callbacks, f) \in Seq(Callbacks)
      BY AppendProperties DEF TypeOK
    <3> QED
      BY <2>1, <3>1 DEF OnCompleted, TypeOK, ArgOK, callVars
  <2>2. ASSUME NEW c \in Callers, NEW f \in Callbacks, AddCallback(c, f) PROVE TypeInv'
    BY <2>1, <2>2 DEF AddCallback, TypeOK
  <2>3. CASE AwaitSuspend
    BY <2>0, <2>1, <2>3, PromiseAssumption DEF AwaitSuspend, TypeOK
  <2>4. ASSUME NEW f \in Callbacks, Called(f)
        PROVE  /\ calls' \in [Callbacks -> Nat]
               /\ ran' \subseteq Callbacks
               /\ owner' \in {"using", "suspended", "resumed", "got", "gone", "terminated"}
    BY <2>4 DEF Called, TypeOK
  <2>5. ASSUME NEW c \in Callers, CallDirectly(c) PROVE TypeInv'
    <3>1. arg[c] \in Callbacks
      BY <2>5 DEF CallDirectly, ArgOK
    <3> QED
      BY <2>4, <2>5, <3>1 DEF CallDirectly, TypeOK, ArgOK, promiseVars
  <2>6. ASSUME NEW c \in Callers, Gets(c), result_ # "unset"
        PROVE  /\ call' \in [Callers -> {"idle", "calling", "waiting", "woken", "undefined"}]
               /\ got' \in [Callers -> Outcomes \cup {"none"}]
               /\ owner' \in {"using", "suspended", "resumed", "got", "gone", "terminated"}
               /\ \A d \in Callers : call'[d] = "calling" => call[d] = "calling"
    BY <2>6 DEF Gets, TypeOK
  <2>7. ASSUME NEW c \in Callers, GetResult(c) \/ WaitEnds(c) PROVE TypeInv'
    <3>1. /\ call' \in [Callers -> {"idle", "calling", "waiting", "woken", "undefined"}]
          /\ got' \in [Callers -> Outcomes \cup {"none"}]
          /\ owner' \in {"using", "suspended", "resumed", "got", "gone", "terminated"}
          /\ \A d \in Callers : call'[d] = "calling" => call[d] = "calling"
      BY <2>6, <2>7 DEF GetResult, WaitEnds, TypeOK
    <3> QED
      BY <2>7, <3>1 DEF GetResult, WaitEnds, TypeOK, ArgOK, promiseVars
  <2>8. ASSUME NEW c \in Callers, SpuriousWake(c) PROVE TypeInv'
    BY <2>8 DEF SpuriousWake, TypeOK, ArgOK, promiseVars
  <2>9. ASSUME NEW r \in Outcomes, Complete(r) PROVE TypeInv'
    <3>1. call' \in [Callers -> {"idle", "calling", "waiting", "woken", "undefined"}]
      BY <2>9 DEF Complete, TypeOK
    <3> QED
      BY <2>9, <3>1 DEF Complete, TypeOK, ArgOK, history
  <2>10. CASE NotifyCallback
    <3>1. Head(callbacks) \in Callbacks /\ Tail(callbacks) \in Seq(Callbacks)
      BY <2>10, HeadTailProperties DEF NotifyCallback, TypeOK
    <3> QED
      BY <2>4, <2>10, <3>1 DEF NotifyCallback, TypeOK, ArgOK, callVars
  <2>11. CASE Unlock \/ FinalSuspend \/ Destroy
    BY <2>11 DEF Unlock, FinalSuspend, Destroy, TypeOK, ArgOK, promiseVars, callVars, history
  <2>12. CASE UNCHANGED vars
    BY <2>12 DEF vars, TypeOK, ArgOK, promiseVars, callVars, history
  <2> QED
    BY <2>2, <2>3, <2>5, <2>7, <2>8, <2>9, <2>10, <2>11, <2>12
    DEF Next, UseTask, EndTask
<1> QED
  BY <1>1, <1>2, PTL DEF Spec

(* Every variable of TaskPromise keeps its type. *)
THEOREM TypeCorrect == Spec => []TypeOK
<1>1. TypeInv => TypeOK
  BY DEF TypeInv
<1> QED
  BY <1>1, TypeInvariant, PTL
-----------------------------------------------------------------------------
(* the callbacks in a list, and a list without repetition *)
Elems(s) == {s[i] : i \in 1..Len(s)}
Distinct(s) == \A i, j \in 1..Len(s) : s[i] = s[j] => i = j

(* on_completed() stores a callback that is not in the list. *)
LEMMA AppendElems ==
  ASSUME NEW S, NEW s \in Seq(S), NEW f \in S, f \notin Elems(s), Distinct(s)
  PROVE  Elems(Append(s, f)) = Elems(s) \cup {f} /\ Distinct(Append(s, f))
<1> DEFINE t == Append(s, f)
           n == Len(s)
<1>1. /\ n \in Nat
      /\ Len(t) = n + 1
      /\ \A i \in 1..n : t[i] = s[i]
      /\ t[n + 1] = f
  BY AppendProperties, LenProperties
<1> HIDE DEF t, n
<1>2. \A i \in 1..Len(t) : i \in 1..n \/ i = n + 1
  BY <1>1
<1>3. Elems(t) \subseteq Elems(s) \cup {f}
  BY <1>1, <1>2 DEF Elems, n
<1>4. Elems(s) \subseteq Elems(t) /\ f \in Elems(t)
  BY <1>1 DEF Elems, n
<1>5. ASSUME NEW i \in 1..Len(t), NEW j \in 1..Len(t), t[i] = t[j] PROVE i = j
  BY <1>1, <1>2, <1>5 DEF Elems, Distinct, n
<1> QED
  BY <1>3, <1>4, <1>5 DEF Distinct, t

(* notify_callbacks() takes the first callback out of the list. *)
LEMMA TailElems ==
  ASSUME NEW S, NEW s \in Seq(S), s # << >>, Distinct(s)
  PROVE  /\ Head(s) \in Elems(s)
         /\ Elems(Tail(s)) = Elems(s) \ {Head(s)}
         /\ Distinct(Tail(s))
<1> DEFINE t == Tail(s)
           n == Len(s)
<1>1. /\ n \in Nat \ {0}
      /\ Len(t) = n - 1
      /\ \A i \in 1..Len(t) : t[i] = s[i + 1]
  BY HeadTailProperties, EmptySeq
<1>2. Head(s) = s[1]
  OBVIOUS
<1> HIDE DEF t, n
<1>3. \A i \in 1..n : i = 1 \/ (i - 1 \in 1..Len(t) /\ t[i - 1] = s[i])
  BY <1>1
<1>4. \A i \in 1..Len(t) : i + 1 \in 1..n /\ i + 1 # 1
  BY <1>1
<1>5. Elems(t) \subseteq Elems(s) \ {s[1]}
  BY <1>1, <1>4 DEF Elems, Distinct, n
<1>6. Elems(s) \ {s[1]} \subseteq Elems(t)
  BY <1>3 DEF Elems, n
<1>7. Distinct(t)
  <2> SUFFICES ASSUME NEW i \in 1..Len(t), NEW j \in 1..Len(t), t[i] = t[j] PROVE i = j
    BY DEF Distinct
  <2>1. i + 1 = j + 1
    BY <1>1, <1>4 DEF Distinct, n
  <2> QED
    BY <2>1, <1>1
<1>8. Head(s) \in Elems(s)
  BY <1>1, <1>2 DEF Elems, n
<1> QED
  BY <1>2, <1>5, <1>6, <1>7, <1>8 DEF t

(* the callbacks that a caller is about to call itself *)
Directs == {f \in Callbacks : \E c \in Callers : call[c] = "calling" /\ arg[c] = f}

(* A registered callback is in exactly one place: the list, the hands of one       *)
(* caller, or called once.                                                        *)
PlaceInv ==
  /\ Distinct(callbacks)
  /\ \A c, d \in Callers :
       call[c] = "calling" /\ call[d] = "calling" /\ arg[c] = arg[d] => c = d
  /\ Elems(callbacks) \cap Directs = {}
  /\ Elems(callbacks) \cup Directs \subseteq registered
  /\ \A f \in Callbacks :
       /\ f \in Elems(callbacks) \cup Directs => calls[f] = 0
       /\ f \in registered => f \in Elems(callbacks) \cup Directs \/ calls[f] = 1
       /\ f \notin registered => calls[f] = 0

(* The result is there from the completion on, and nothing is called before; after *)
(* the unlock the list is empty for good.                                          *)
ResultInv ==
  /\ co = "body" <=> result_ = "unset"
  /\ co \notin {"body", "notifying"} => callbacks = << >>
  /\ result_ = "unset" => Directs = {}
  /\ \A f \in Callbacks :
       /\ calls[f] # 0 => result_ # "unset" /\ (f \in ran <=> Handles(f, result_))
       /\ calls[f] = 0 => f \notin ran

OnceInv == PlaceInv /\ ResultInv

(* OnceInv is an invariant. *)
LEMMA OnceInvariant == Spec => []OnceInv
<1>1. Init => OnceInv
  <2> SUFFICES ASSUME Init PROVE OnceInv
    OBVIOUS
  <2>1. callbacks \in Seq(Callbacks) /\ Len(callbacks) = 0
    BY EmptySeq DEF Init
  <2>2. Elems(callbacks) = {} /\ Distinct(callbacks)
    BY <2>1 DEF Elems, Distinct
  <2>3. Directs = {}
    BY DEF Init, Directs
  <2>4. PlaceInv
    BY <2>2, <2>3 DEF Init, PlaceInv
  <2>5. ResultInv
    BY <2>3 DEF Init, ResultInv
  <2> QED
    BY <2>4, <2>5 DEF OnceInv
<1>2. TypeInv /\ OnceInv /\ [Next]_vars => OnceInv'
  <2> SUFFICES ASSUME TypeInv, OnceInv, [Next]_vars PROVE OnceInv'
    OBVIOUS
  <2>1. ASSUME NEW c \in Callers, NEW f \in Callbacks, OnCompleted(c, f), call[c] = "idle",
               UNCHANGED <<co, result_, calls, ran>>
        PROVE  OnceInv'
    <3> f \notin Elems(callbacks) /\ f \notin Directs /\ calls[f] = 0
      BY <2>1 DEF OnCompleted, OnceInv, PlaceInv
    <3> registered' = registered \cup {f}
      BY <2>1 DEF OnCompleted
    <3>1. CASE result_ = "unset"
      <4>1. callbacks' = Append(callbacks, f) /\ UNCHANGED callVars
        BY <2>1, <3>1 DEF OnCompleted
      <4>2. Elems(callbacks') = Elems(callbacks) \cup {f} /\ Distinct(callbacks')
        BY <4>1, AppendElems DEF TypeInv, TypeOK, OnceInv, PlaceInv
      <4>3. Directs' = Directs
        BY <4>1 DEF Directs, callVars
      <4>4. PlaceInv'
        BY <2>1, <4>1, <4>2, <4>3 DEF OnceInv, PlaceInv, callVars
      <4>5. ResultInv'
        BY <2>1, <3>1, <4>3 DEF OnceInv, ResultInv, Handles
      <4> QED
        BY <4>4, <4>5 DEF OnceInv
    <3>2. CASE result_ # "unset"
      <4>1. /\ call' = [call EXCEPT ![c] = "calling"]
            /\ arg' = [arg EXCEPT ![c] = f]
            /\ UNCHANGED callbacks
        BY <2>1, <3>2 DEF OnCompleted
      <4>2. Directs' = Directs \cup {f}
        BY <2>1, <4>1 DEF Directs, TypeInv, TypeOK
      <4>3. ASSUME NEW d \in Callers, NEW e \in Callers, call'[d] = "calling",
                   call'[e] = "calling", arg'[d] = arg'[e]
            PROVE  d = e
        BY <4>1, <4>3 DEF OnceInv, PlaceInv, Directs, TypeInv, TypeOK
      <4>4. PlaceInv'
        BY <2>1, <4>1, <4>2, <4>3 DEF OnceInv, PlaceInv
      <4>5. ResultInv'
        BY <2>1, <3>2, <4>1, <4>2 DEF OnceInv, ResultInv, Handles
      <4> QED
        BY <4>4, <4>5 DEF OnceInv
    <3> QED
      BY <3>1, <3>2
  <2>2. ASSUME NEW c \in Callers, NEW f \in Callbacks, AddCallback(c, f) PROVE OnceInv'
    BY <2>1, <2>2 DEF AddCallback, Usable
  <2>3. CASE AwaitSuspend
    BY <2>1, <2>3, PromiseAssumption DEF AwaitSuspend, Callers
  <2>4. ASSUME NEW f \in Callbacks, Called(f), f \in registered, calls[f] = 0,
               result_ # "unset", UNCHANGED <<result_, registered, co>>,
               Distinct(callbacks'), co \notin {"body", "notifying"} => callbacks' = << >>,
               \A c, d \in Callers : call'[c] = "calling" /\ call'[d] = "calling"
                                     /\ arg'[c] = arg'[d] => c = d,
               Elems(callbacks') \cap Directs' = {},
               Elems(callbacks') \cup Directs' = (Elems(callbacks) \cup Directs) \ {f}
        PROVE  OnceInv'
    <3>1. /\ calls'[f] = 1
          /\ \A g \in Callbacks \ {f} : calls'[g] = calls[g]
          /\ f \in ran' <=> Handles(f, result_)
          /\ \A g \in Callbacks \ {f} : g \in ran' <=> g \in ran
      BY <2>4 DEF Called, TypeInv, TypeOK, OnceInv, ResultInv
    <3>2. PlaceInv'
      BY <2>4, <3>1 DEF OnceInv, PlaceInv
    <3>3. ResultInv'
      BY <2>4, <3>1 DEF OnceInv, ResultInv, Handles
    <3> QED
      BY <3>2, <3>3 DEF OnceInv
  <2>5. ASSUME NEW c \in Callers, CallDirectly(c) PROVE OnceInv'
    <3> DEFINE f == arg[c]
    <3>1. call[c] = "calling" /\ f \in Callbacks /\ f \in Directs
      BY <2>5 DEF CallDirectly, TypeInv, ArgOK, Directs
    <3>2. \A d \in Callers : call'[d] = IF d = c THEN "idle" ELSE call[d]
      BY <2>5 DEF CallDirectly, TypeInv, TypeOK
    <3>3. UNCHANGED <<arg, callbacks, result_, registered, co>> /\ Called(f)
      BY <2>5 DEF CallDirectly, promiseVars
    <3> HIDE DEF f
    <3>4. Directs' = Directs \ {f}
      BY <3>1, <3>2, <3>3 DEF Directs, f, OnceInv, PlaceInv
    <3> QED
      BY <2>4, <3>1, <3>2, <3>3, <3>4 DEF OnceInv, PlaceInv, ResultInv
  <2>6. CASE NotifyCallback
    <3> DEFINE f == Head(callbacks)
    <3>1. /\ f \in Elems(callbacks) /\ f \in Callbacks
          /\ Elems(callbacks') = Elems(callbacks) \ {f}
          /\ Distinct(callbacks')
      BY <2>6, TailElems, HeadTailProperties DEF NotifyCallback, TypeInv, TypeOK, OnceInv, PlaceInv
    <3>2. UNCHANGED <<call, arg, result_, registered, co>> /\ Called(f) /\ co = "notifying"
      BY <2>6 DEF NotifyCallback, callVars
    <3> HIDE DEF f
    <3>3. Directs' = Directs
      BY <3>2 DEF Directs
    <3> QED
      BY <2>4, <3>1, <3>2, <3>3 DEF OnceInv, PlaceInv, ResultInv
  <2>7. ASSUME NEW r \in Outcomes, Complete(r) PROVE OnceInv'
    <3>1. /\ \A c \in Callers : call'[c] = "calling" <=> call[c] = "calling"
          /\ UNCHANGED <<callbacks, arg, registered, calls, ran>>
          /\ result_ = "unset" /\ result_' # "unset" /\ co' = "notifying"
      BY <2>7 DEF Complete, history, OnceInv, ResultInv, Outcomes
    <3>2. Directs' = Directs
      BY <3>1 DEF Directs
    <3>3. PlaceInv'
      BY <3>1, <3>2 DEF OnceInv, PlaceInv
    <3>4. ResultInv'
      BY <3>1, <3>2 DEF OnceInv, ResultInv
    <3> QED
      BY <3>3, <3>4 DEF OnceInv
  <2>8. ASSUME \A c \in Callers : call'[c] = "calling" <=> call[c] = "calling",
               UNCHANGED <<callbacks, arg, registered, calls, ran, result_>>,
               co = "body" <=> co' = "body",
               co' \in {"body", "notifying"} \/ callbacks = << >>
        PROVE  OnceInv'
    <3>1. Directs' = Directs
      BY <2>8 DEF Directs
    <3>2. PlaceInv'
      BY <2>8, <3>1 DEF OnceInv, PlaceInv
    <3>3. ResultInv'
      BY <2>8, <3>1 DEF OnceInv, ResultInv, Handles
    <3> QED
      BY <3>2, <3>3 DEF OnceInv
  <2>9. ASSUME NEW c \in Callers, GetResult(c) \/ WaitEnds(c) \/ SpuriousWake(c) PROVE OnceInv'
    <3>1. /\ call[c] # "calling"
          /\ \A d \in Callers : d # c => call'[d] = call[d]
          /\ call'[c] # "calling"
      BY <2>9 DEF GetResult, MayGet, Usable, Gets, WaitEnds, SpuriousWake, TypeInv, TypeOK
    <3>2. UNCHANGED <<callbacks, arg, registered, calls, ran, result_, co>>
      BY <2>9 DEF GetResult, WaitEnds, SpuriousWake, promiseVars
    <3> QED
      BY <2>8, <3>1, <3>2 DEF OnceInv, ResultInv
  <2>10. CASE Unlock \/ FinalSuspend \/ Destroy \/ UNCHANGED vars
    <3>1. UNCHANGED <<call, arg, callbacks, registered, calls, ran, result_>>
      BY <2>10 DEF Unlock, FinalSuspend, Destroy, vars, promiseVars, callVars, history
    <3>2. /\ co = "body" <=> co' = "body"
          /\ co' \in {"body", "notifying"} \/ callbacks = << >>
      BY <2>10 DEF Unlock, FinalSuspend, Destroy, vars, OnceInv, ResultInv
    <3> QED
      BY <2>8, <3>1, <3>2
  <2> QED
    BY <2>2, <2>3, <2>5, <2>6, <2>7, <2>9, <2>10 DEF Next, UseTask, EndTask
<1> QED
  BY <1>1, <1>2, TypeInvariant, PTL DEF Spec

(* Every registered callback is called exactly once, with the result that was set, *)
(* and the user functions that run are those which fit it.                         *)
THEOREM EachHandlerOnceHolds == Spec => []EachHandlerOnce
<1>1. TypeInv /\ OnceInv => EachHandlerOnce
  <2> SUFFICES ASSUME TypeInv, OnceInv, co \in {"returned", "final"}, NEW f \in registered,
                      \A c \in Callers : call[c] = "calling" => arg[c] # f
               PROVE  /\ calls[f] = 1
                      /\ f \in ran <=> Kind[f] \in {"finally", IF result_ = "value" THEN "then" ELSE "catching"}
    BY DEF EachHandlerOnce
  <2>1. f \in Callbacks /\ f \notin Directs
    BY DEF TypeInv, TypeOK, Directs
  <2>2. f \notin Elems(callbacks)
    BY EmptySeq DEF OnceInv, ResultInv, Elems
  <2>3. calls[f] = 1 /\ (f \in ran <=> Handles(f, result_)) /\ result_ # "unset"
    BY <2>1, <2>2 DEF OnceInv, PlaceInv, ResultInv
  <2>4. result_ \in {"value", "exception"}
    BY <2>3 DEF TypeInv, TypeOK, Outcomes
  <2> QED
    BY <2>1, <2>3, <2>4, PromiseAssumption DEF Handles
<1> QED
  BY <1>1, TypeInvariant, OnceInvariant, PTL
-----------------------------------------------------------------------------
(* An owner that awaits its Task is suspended from the registration of its         *)
(* callback to the call; it alone uses the Task then.  An owner that got the       *)
(* result got it after the unlock.                                                 *)
OwnerInv ==
  /\ owner \in {"suspended", "resumed"} => mode # "get"
  /\ Resume \in registered <=> mode # "get" /\ owner # "using"
  /\ owner = "suspended" <=> Resume \in registered /\ calls[Resume] = 0
  /\ mode # "get" =>
       /\ call[Owner] \in {"idle", "calling"}
       /\ owner # "using" => Unused
  /\ owner = "suspended" /\ call[Owner] = "calling" => arg[Owner] = Resume
  /\ owner \in {"resumed", "gone"} => call[Owner] = "idle"
  /\ owner = "gone" => Unused
  /\ owner = "resumed" => result_ # "unset"
  /\ owner \in {"got", "gone", "terminated"} => co \notin {"body", "notifying"}

(* OwnerInv is an invariant. *)
LEMMA OwnerInvariant == Spec => []OwnerInv
<1>0. Owner \in Callers /\ Clients \subseteq Callers /\ Owner \notin Clients
      /\ \A c \in Callers : c # Owner => c \in Clients
  BY PromiseAssumption DEF Callers
<1>1. Init => OwnerInv
  BY <1>0, PromiseAssumption DEF Init, OwnerInv, Unused
<1>2. TypeInv /\ OnceInv /\ OwnerInv /\ [Next]_vars => OwnerInv'
  <2> SUFFICES ASSUME TypeInv, OnceInv, OwnerInv, [Next]_vars PROVE OwnerInv'
    OBVIOUS
  <2>1. ASSUME NEW c \in Callers, NEW f \in Callbacks, AddCallback(c, f) PROVE OwnerInv'
    <3>1. /\ f # Resume
          /\ registered' = registered \cup {f}
          /\ owner = "using" \/ (owner = "got" /\ mode = "get")
          /\ call[c] = "idle"
          /\ call'[c] \in {"idle", "calling"}
          /\ \A d \in Callers : d # c => call'[d] = call[d]
          /\ UNCHANGED <<result_, co, mode, owner, calls>>
      BY <2>1 DEF AddCallback, OnCompleted, Usable, callVars, TypeInv, TypeOK
    <3> QED
      BY <1>0, <3>1 DEF OwnerInv, Unused
  <2>2. CASE AwaitSuspend
    <3>1. /\ mode # "get" /\ owner = "using" /\ owner' = "suspended" /\ Unused
          /\ call[Owner] = "idle"
          /\ registered' = registered \cup {Resume}
          /\ call'[Owner] = "idle" \/ (call'[Owner] = "calling" /\ arg'[Owner] = Resume)
          /\ \A d \in Callers : d # Owner => call'[d] = call[d]
          /\ UNCHANGED <<result_, co, mode, calls>>
      BY <1>0, <2>2 DEF AwaitSuspend, OnCompleted, callVars, TypeInv, TypeOK
    <3>2. calls[Resume] = 0
      BY <3>1, PromiseAssumption DEF OwnerInv, OnceInv, PlaceInv
    <3> QED
      BY <1>0, <3>1, <3>2 DEF OwnerInv, Unused
  <2>3. ASSUME NEW f \in Callbacks, Called(f), f \in Elems(callbacks) \cup Directs, result_ # "unset",
               UNCHANGED <<result_, mode, registered, co>>,
               \A d \in Callers : call'[d] \in {"idle", call[d]},
               f = Resume => call'[Owner] = "idle",
               UNCHANGED arg
        PROVE  OwnerInv'
    <3>1. f \in registered /\ calls[f] = 0
      BY <2>3 DEF OnceInv, PlaceInv
    <3>2. Unused => Unused'
      BY <1>0, <2>3 DEF Unused
    <3>3. CASE f = Resume
      <4>1. owner = "suspended" /\ owner' = "resumed" /\ calls'[Resume] = 1
        BY <2>3, <3>1, <3>3 DEF Called, OwnerInv, TypeInv, TypeOK
      <4> QED
        BY <1>0, <2>3, <3>2, <3>3, <4>1 DEF OwnerInv
    <3>4. CASE f # Resume
      <4>1. owner' = owner /\ calls'[Resume] = calls[Resume]
        BY <2>3, <3>4, PromiseAssumption DEF Called, TypeInv, TypeOK
      <4> QED
        BY <1>0, <2>3, <3>2, <4>1 DEF OwnerInv
    <3> QED
      BY <3>3, <3>4
  <2>4. ASSUME NEW c \in Callers, CallDirectly(c) PROVE OwnerInv'
    <3>1. /\ call[c] = "calling" /\ arg[c] \in Callbacks /\ arg[c] \in Directs
          /\ \A d \in Callers : call'[d] = IF d = c THEN "idle" ELSE call[d]
          /\ UNCHANGED <<arg, result_, mode, registered, co>> /\ Called(arg[c])
      BY <2>4 DEF CallDirectly, TypeInv, TypeOK, ArgOK, Directs, promiseVars
    <3>2. result_ # "unset" /\ arg[c] \in registered /\ calls[arg[c]] = 0
      BY <3>1 DEF OnceInv, ResultInv, PlaceInv
    <3>3. arg[c] = Resume => c = Owner
      BY <1>0, <3>1, <3>2 DEF OwnerInv, Unused
    <3> QED
      BY <1>0, <2>3, <3>1, <3>2, <3>3
  <2>5. CASE NotifyCallback
    <3> DEFINE f == Head(callbacks)
    <3>1. f \in Elems(callbacks) /\ f \in Callbacks
      BY <2>5, TailElems, HeadTailProperties DEF NotifyCallback, TypeInv, TypeOK, OnceInv, PlaceInv
    <3>2. /\ UNCHANGED <<call, arg, result_, mode, registered, co>> /\ Called(f)
          /\ result_ # "unset"
      BY <2>5 DEF NotifyCallback, callVars, OnceInv, ResultInv
    <3> HIDE DEF f
    <3>3. f = Resume => call[Owner] = "idle"
      <4> SUFFICES ASSUME f = Resume, call[Owner] # "idle" PROVE FALSE
        OBVIOUS
      <4>1. f \in registered /\ calls[f] = 0 /\ f \notin Directs
        BY <3>1 DEF OnceInv, PlaceInv
      <4>2. call[Owner] = "calling" /\ arg[Owner] = Resume
        BY <4>1 DEF OwnerInv
      <4> QED
        BY <1>0, <3>1, <4>1, <4>2 DEF Directs
    <3> QED
      BY <2>3, <3>1, <3>2, <3>3
  <2>6. ASSUME NEW c \in Callers, GetResult(c) PROVE OwnerInv'
    <3>1. /\ MayGet(c) /\ co # "notifying" /\ call[c] = "idle"
          /\ call'[c] = (IF result_ = "unset" THEN "waiting" ELSE "idle")
          /\ \A d \in Callers : d # c => call'[d] = call[d]
          /\ UNCHANGED <<arg, result_, co, mode, registered, calls>>
      BY <2>6 DEF GetResult, MayGet, Usable, Gets, Locked, TypeInv, TypeOK, promiseVars
    <3>2. CASE c # Owner
      <4>1. owner' = owner /\ (owner = "using" \/ (owner = "got" /\ mode = "get"))
        BY <2>6, <3>2 DEF GetResult, Gets, MayGet, Usable
      <4> QED
        BY <1>0, <3>1, <3>2, <4>1 DEF OwnerInv, Unused
    <3>3. CASE c = Owner
      <4>1. Unused' <=> Unused
        BY <1>0, <3>1, <3>3 DEF Unused
      <4>2. CASE result_ = "unset"
        <5>1. owner' = owner /\ owner # "resumed"
          BY <2>6, <4>2 DEF GetResult, OwnerInv
        <5>2. mode = "get" \/ owner = "resumed"
          BY <2>6, <3>3 DEF GetResult, MayGet
        <5>3. owner = "using" \/ owner = "got"
          BY <5>1, <5>2, <3>1, <3>3 DEF MayGet, Usable
        <5> QED
          BY <3>1, <4>1, <4>2, <5>1, <5>2, <5>3 DEF OwnerInv
      <4>3. CASE result_ # "unset"
        <5>1. owner' \in {"got", "terminated"} /\ (owner' = "terminated" => mode # "get")
          BY <2>6, <3>3, <4>3 DEF GetResult, Gets
        <5>2. owner = "resumed" \/ mode = "get"
          BY <3>1, <3>3 DEF MayGet
        <5>3. co \notin {"body", "notifying"}
          BY <3>1, <4>3 DEF OnceInv, ResultInv
        <5> QED
          BY <3>1, <3>3, <4>1, <4>3, <5>1, <5>2, <5>3 DEF OwnerInv
      <4> QED
        BY <4>2, <4>3
    <3> QED
      BY <3>2, <3>3
  <2>7. ASSUME NEW c \in Callers, WaitEnds(c) PROVE OwnerInv'
    <3>1. /\ co # "notifying" /\ call[c] = "woken"
          /\ \A d \in Callers : d # c => call'[d] = call[d]
          /\ UNCHANGED <<arg, result_, co, mode, registered, calls>>
      BY <2>7 DEF WaitEnds, Gets, Locked, TypeInv, TypeOK, promiseVars
    <3>2. owner # "gone" /\ (mode # "get" => c # Owner /\ owner = "using")
      BY <1>0, <3>1 DEF OwnerInv, Unused
    <3>3. CASE owner' = owner
      BY <1>0, <3>1, <3>2, <3>3 DEF OwnerInv, Unused
    <3>4. CASE owner' # owner
      <4>1. result_ # "unset" /\ c = Owner /\ owner' = "got" /\ mode = "get"
        BY <2>7, <3>2, <3>4 DEF WaitEnds, Gets
      <4>2. co \notin {"body", "notifying"}
        BY <3>1, <4>1 DEF OnceInv, ResultInv
      <4>3. Unused' <=> Unused
        BY <1>0, <3>1, <4>1 DEF Unused
      <4> QED
        BY <3>1, <3>2, <4>1, <4>2, <4>3 DEF OwnerInv
    <3> QED
      BY <3>3, <3>4
  <2>8. ASSUME NEW c \in Callers, SpuriousWake(c) PROVE OwnerInv'
    <3>1. /\ call[c] = "waiting"
          /\ \A d \in Callers : d # c => call'[d] = call[d]
          /\ UNCHANGED <<arg, result_, co, mode, owner, registered, calls>>
      BY <2>8 DEF SpuriousWake, TypeInv, TypeOK, promiseVars
    <3> QED
      BY <1>0, <3>1 DEF OwnerInv, Unused
  <2>9. ASSUME NEW r \in Outcomes, Complete(r) PROVE OwnerInv'
    <3>1. /\ \A d \in Callers : call'[d] = call[d] \/ (call[d] = "waiting" /\ call'[d] = "woken")
          /\ result_' # "unset" /\ co = "body"
          /\ UNCHANGED <<arg, mode, owner, registered, calls>>
      BY <2>9 DEF Complete, history, Outcomes
    <3> QED
      BY <1>0, <3>1 DEF OwnerInv, Unused
  <2>10. CASE Unlock \/ FinalSuspend \/ UNCHANGED vars
    <3>1. /\ UNCHANGED <<call, arg, result_, mode, owner, registered, calls>>
          /\ co' = co \/ co' \notin {"body", "notifying"}
      BY <2>10 DEF Unlock, FinalSuspend, vars, promiseVars, callVars, history
    <3> QED
      BY <3>1 DEF OwnerInv, Unused
  <2>11. CASE Destroy
    BY <2>11 DEF Destroy, promiseVars, callVars, history, OwnerInv, Unused
  <2> QED
    BY <2>1, <2>2, <2>4, <2>5, <2>6, <2>7, <2>8, <2>9, <2>10, <2>11 DEF Next, UseTask, EndTask
<1> QED
  BY <1>1, <1>2, TypeInvariant, OnceInvariant, PTL DEF Spec

(* A coroutine that awaits a Task is resumed only when the result is there. *)
THEOREM AwaitFindsResultHolds == Spec => []AwaitFindsResult
<1>1. OwnerInv => AwaitFindsResult
  BY DEF OwnerInv, AwaitFindsResult
<1> QED
  BY <1>1, OwnerInvariant, PTL

(* The frame is destroyed only after every callback, with nobody in the promise. *)
THEOREM DestroyAfterCallbacksHolds == Spec => []DestroyAfterCallbacks
<1>1. OwnerInv /\ OnceInv => DestroyAfterCallbacks
  BY PromiseAssumption DEF OwnerInv, OnceInv, ResultInv, DestroyAfterCallbacks, Unused, Callers
<1> QED
  BY <1>1, OwnerInvariant, OnceInvariant, PTL
-----------------------------------------------------------------------------
(* A caller that left its wait without a result left it spuriously. *)
SpuriousInv ==
  \A c \in Callers :
    \/ call[c] \notin {"woken", "undefined"}
    \/ call[c] = "woken" /\ result_ # "unset"
    \/ spurious

(* An empty result is dereferenced only after a spurious wakeup. *)
THEOREM UndefinedOnlySpuriousHolds == Spec => []UndefinedOnlySpurious
<1>1. Init => SpuriousInv
  BY DEF Init, SpuriousInv
<1>2. TypeInv /\ OnceInv /\ SpuriousInv /\ [Next]_vars => SpuriousInv'
  <2> SUFFICES ASSUME TypeInv, OnceInv, SpuriousInv, [Next]_vars PROVE SpuriousInv'
    OBVIOUS
  <2>0. Owner \in Callers
    BY DEF Callers
  <2>1. ASSUME NEW c \in Callers, NEW f \in Callbacks, AddCallback(c, f) PROVE SpuriousInv'
    BY <2>1 DEF AddCallback, OnCompleted, callVars, TypeInv, TypeOK, SpuriousInv
  <2>2. CASE AwaitSuspend
    BY <2>0, <2>2 DEF AwaitSuspend, OnCompleted, callVars, TypeInv, TypeOK, SpuriousInv
  <2>3. ASSUME NEW c \in Callers, CallDirectly(c) \/ GetResult(c) \/ WaitEnds(c) \/ SpuriousWake(c)
        PROVE SpuriousInv'
    BY <2>3 DEF CallDirectly, GetResult, WaitEnds, Gets, SpuriousWake, promiseVars,
                TypeInv, TypeOK, SpuriousInv
  <2>4. ASSUME NEW r \in Outcomes, Complete(r) PROVE SpuriousInv'
    BY <2>4 DEF Complete, history, Outcomes, SpuriousInv
  <2>5. CASE NotifyCallback \/ Unlock \/ FinalSuspend \/ Destroy \/ UNCHANGED vars
    BY <2>5 DEF NotifyCallback, Unlock, FinalSuspend, Destroy, vars, promiseVars, callVars,
                history, SpuriousInv
  <2> QED
    BY <2>1, <2>2, <2>3, <2>4, <2>5 DEF Next, UseTask, EndTask
<1>3. SpuriousInv => UndefinedOnlySpurious
  BY DEF SpuriousInv, UndefinedOnlySpurious
<1> QED
  BY <1>1, <1>2, <1>3, TypeInvariant, OnceInvariant, PTL DEF Spec
-----------------------------------------------------------------------------
(* The promise implements Completion: on_completed() registers, the call of a      *)
(* callback is the abstract one, and get_result() reads what was set once.         *)
THEOREM Refinement == Spec => ImplementsCompletion
<1> DEFINE mwaiting == {f \in registered : calls[f] = 0}
           mcalled == {f \in registered : calls[f] > 0}
           mgot == [c \in Callers |-> IF got[c] = "none" THEN "unset" ELSE got[c]]
<1>1. Init => Abstract!Init
  BY DEF Init, Abstract!Init
<1>2. TypeInv /\ OnceInv /\ [Next]_vars => [Abstract!Next]_(Abstract!vars)
  <2> SUFFICES ASSUME TypeInv, OnceInv, [Next]_vars
               PROVE  Abstract!Next \/ UNCHANGED Abstract!vars
    OBVIOUS
  <2>1. ASSUME NEW c \in Callers, NEW f \in Callbacks, OnCompleted(c, f),
               UNCHANGED <<result_, calls, got>>
        PROVE  Abstract!Next
    <3>1. f \notin registered /\ calls[f] = 0 /\ registered' = registered \cup {f}
      BY <2>1 DEF OnCompleted, OnceInv, PlaceInv
    <3>2. mwaiting' = mwaiting \cup {f} /\ mcalled' = mcalled /\ f \notin mwaiting \cup mcalled
      BY <2>1, <3>1 DEF TypeInv, TypeOK
    <3>3. mgot' = mgot
      BY <2>1
    <3>4. Abstract!Register(f)
      BY <2>1, <3>2, <3>3 DEF Abstract!Register
    <3> QED
      BY <3>4 DEF Abstract!Next
  <2>2. ASSUME NEW f \in Callbacks, Called(f), f \in Elems(callbacks) \cup Directs,
               UNCHANGED <<result_, registered, got>>
        PROVE  result_ # "unset" => Abstract!Next
    <3> SUFFICES ASSUME result_ # "unset" PROVE Abstract!Next
      OBVIOUS
    <3>1. f \in registered /\ calls[f] = 0
      BY <2>2 DEF OnceInv, PlaceInv
    <3>2. calls'[f] = 1 /\ \A g \in Callbacks : g # f => calls'[g] = calls[g]
      BY <2>2, <3>1 DEF Called, TypeInv, TypeOK
    <3>3. registered \subseteq Callbacks
      BY DEF TypeInv, TypeOK
    <3>4. mwaiting' = mwaiting \ {f} /\ mcalled' = mcalled \cup {f} /\ f \in mwaiting
      BY <2>2, <3>1, <3>2, <3>3
    <3>5. mgot' = mgot
      BY <2>2
    <3>6. Abstract!Call(f)
      BY <2>2, <3>4, <3>5 DEF Abstract!Call
    <3> QED
      BY <3>6 DEF Abstract!Next
  <2>3. ASSUME NEW c \in Callers, result_ # "unset", got' = [got EXCEPT ![c] = result_],
               UNCHANGED <<result_, registered, calls>>
        PROVE  Abstract!Next
    <3>1. mgot' = [mgot EXCEPT ![c] = result_]
      BY <2>3 DEF TypeInv, TypeOK, Outcomes
    <3>2. Abstract!Read(c)
      BY <2>3, <3>1 DEF Abstract!Read
    <3> QED
      BY <3>2 DEF Abstract!Next
  <2>4. ASSUME UNCHANGED <<result_, registered, calls, got>> PROVE UNCHANGED Abstract!vars
    BY <2>4 DEF Abstract!vars
  <2>5. ASSUME NEW c \in Callers, NEW f \in Callbacks, AddCallback(c, f) PROVE Abstract!Next
    BY <2>1, <2>5 DEF AddCallback
  <2>6. CASE AwaitSuspend
    BY <2>1, <2>6, PromiseAssumption DEF AwaitSuspend, Callers
  <2>7. ASSUME NEW c \in Callers, CallDirectly(c) PROVE Abstract!Next
    <3>1. arg[c] \in Callbacks /\ arg[c] \in Directs /\ Called(arg[c])
          /\ UNCHANGED <<result_, registered, got>>
      BY <2>7 DEF CallDirectly, TypeInv, ArgOK, Directs, promiseVars
    <3>2. result_ # "unset"
      BY <3>1 DEF OnceInv, ResultInv
    <3> QED
      BY <2>2, <3>1, <3>2
  <2>8. CASE NotifyCallback
    <3>1. Head(callbacks) \in Elems(callbacks) /\ Head(callbacks) \in Callbacks
      BY <2>8, TailElems, HeadTailProperties DEF NotifyCallback, TypeInv, TypeOK, OnceInv, PlaceInv
    <3>2. Called(Head(callbacks)) /\ UNCHANGED <<result_, registered, got>> /\ result_ # "unset"
      BY <2>8 DEF NotifyCallback, OnceInv, ResultInv
    <3> QED
      BY <2>2, <3>1, <3>2
  <2>9. ASSUME NEW c \in Callers, GetResult(c) \/ WaitEnds(c)
        PROVE  Abstract!Next \/ UNCHANGED Abstract!vars
    <3>1. \/ result_ # "unset" /\ got' = [got EXCEPT ![c] = result_]
          \/ UNCHANGED got
      BY <2>9 DEF GetResult, WaitEnds, Gets
    <3>2. UNCHANGED <<result_, registered, calls>>
      BY <2>9 DEF GetResult, WaitEnds, promiseVars
    <3> QED
      BY <2>3, <2>4, <3>1, <3>2
  <2>10. ASSUME NEW r \in Outcomes, Complete(r) PROVE Abstract!Next
    <3>1. result_ = "unset" /\ result_' = r /\ UNCHANGED <<registered, calls, got>>
      BY <2>10 DEF Complete, history, OnceInv, ResultInv
    <3>2. Abstract!Complete(r)
      BY <3>1 DEF Abstract!Complete
    <3> QED
      BY <3>2 DEF Abstract!Next
  <2>11. ASSUME NEW c \in Callers, SpuriousWake(c) PROVE UNCHANGED Abstract!vars
    BY <2>4, <2>11 DEF SpuriousWake, promiseVars
  <2>12. CASE Unlock \/ FinalSuspend \/ Destroy \/ UNCHANGED vars
    BY <2>4, <2>12 DEF Unlock, FinalSuspend, Destroy, vars, promiseVars, history
  <2> QED
    BY <2>5, <2>6, <2>7, <2>8, <2>9, <2>10, <2>11, <2>12 DEF Next, UseTask, EndTask
<1> QED
  BY <1>1, <1>2, TypeInvariant, OnceInvariant, PTL DEF Spec, ImplementsCompletion, Abstract!Spec

(* A coroutine that is resumed finds the result, the frame goes only after the callbacks, *)
(* and an empty result is read only after a spurious wakeup.                              *)
THEOREM ResultAndFrameHolds == Spec => []ResultAndFrame
  BY AwaitFindsResultHolds, DestroyAfterCallbacksHolds, UndefinedOnlySpuriousHolds, PTL
  DEF ResultAndFrame
=============================================================================
