-------------------------- MODULE Sequential_proofs --------------------------
(* Proofs about the components of Sequential, for all values of their constants.          *)
(*   AnyStorage: no sequence of operations shares an object between two variables or uses  *)
(*     one that is not live, an object is lost in a move assignment only, and the storage  *)
(*     implements ValueHolder.                                                           *)
(*   BinarySearch: what is before the range that is left is smaller than the key and what  *)
(*     is behind it greater, and the middle of either half has been prefetched.             *)
(*   LazyAwait: on the stack of nested resumptions all calls but the top ones only wait to  *)
(*     return, so that the top says how far the reply in progress is.                       *)
(*   Generators: the coroutine is as far as the program has asked, which the invariant      *)
(*     follows for each class from what the program was told last.                          *)
(*   Fibonacci: the numbers the coroutines and frames hold are those of the definition, whose *)
(*     values up to the 94th are computed in steps of ten.                                  *)
(*   SimpleTask: a task that was suspended is never resumed, since what it awaits was left    *)
(*     by an exception; so every call is made in the order of the stack, and the frames are   *)
(*     those that main() owns.                                                            *)
(* Each part has its invariant, shown to hold at first and to be kept by one lemma for each  *)
(* action; the last part puts them together.                                              *)
EXTENDS Sequential, SequenceTheorems, FiniteSetTheorems, WellFoundedInduction, TLAPS

(* What a variable owns is live, so it has a value to copy and to cast. *)
LiveHasValue == \A o \in Objs : obj[o].st = "live" => obj[o].val \in Values

IInv == TypeOK /\ OwnedOnce /\ NoDeadObjectUsed /\ LiveHasValue
-----------------------------------------------------------------------------
(* The invariant holds at first. *)
LEMMA InitInv == Init => IInv
BY DEF Init, IInv, TypeOK, OwnedOnce, NoDeadObjectUsed, LiveHasValue, Contents, Dead, Free, Owns

(* Under the invariant no operand is gone. *)
LEMMA NobodyGone ==
  ASSUME IInv, NEW v \in Vars
  PROVE  /\ ~Gone(slot[v])
         /\ Holding(v) => ValueOf(slot[v]) \in Values
         /\ Owns(slot[v]) => slot[v].obj \in Objs /\ slot[v].val = None
         /\ slot[v].tag \in {"dead", "empty", "trivial", "small", "heap"}
<1>1. slot[v] \in Contents
  BY DEF IInv, TypeOK
<1>2. Owns(slot[v]) => slot[v].obj \in Objs /\ obj[slot[v].obj].st = "live" /\ obj[slot[v].obj].val \in Values
  BY DEF IInv, OwnedOnce, LiveHasValue
<1>3. /\ slot[v].tag \in {"dead", "empty", "trivial", "small", "heap"}
      /\ slot[v].tag = "trivial" => slot[v].val \in Values
      /\ Owns(slot[v]) => slot[v].val = None
  BY <1>1 DEF Contents, Owns
<1> QED
  BY <1>2, <1>3 DEF Gone, Holding, ValueOf, Owns

(* A variable that takes a new value at an unused object, when what it owned before, if *)
(* anything, is destroyed.                                                            *)
LEMMA NewValue ==
  ASSUME IInv, NEW v \in Vars, NEW x \in Values, NEW o \in Unused, NEW c,
         c = slot[v] \/ c = Dead,
         slot' = [slot EXCEPT ![v] = Keep(x, o)], obj' = Made(x, o, c),
         class' = class, cast' = cast, undef' = undef
  PROVE  IInv'
<1>1. o \in Objs /\ obj[o].st = "free"
  BY DEF Unused
<1>2. Category(x) \in {"trivial", "small", "heap"}
  BY DEF Category
<1>3. Keep(x, o) \in Contents /\ (Owns(Keep(x, o)) => Category(x) # "trivial" /\ Keep(x, o).obj = o)
  BY <1>1, <1>2 DEF Keep, Contents, Owns
<1>4. /\ slot'[v] = Keep(x, o)
      /\ \A w \in Vars : w # v => slot'[w] = slot[w]
  BY DEF IInv, TypeOK
<1>5. \A p \in Objs : obj'[p] = IF p = o /\ Category(x) # "trivial" THEN [st |-> "live", val |-> x]
                                ELSE IF Owns(c) /\ p = c.obj THEN Free ELSE obj[p]
  BY DEF Made
<1>6. \A w \in Vars : w # v /\ Owns(slot[w]) =>
        slot[w].obj \in Objs /\ slot[w].obj # o /\ (Owns(c) => slot[w].obj # c.obj)
  BY <1>1 DEF IInv, OwnedOnce, Owns, Dead
<1>7. TypeOK'
  <2>1. slot' \in [Vars -> Contents]
    BY <1>3 DEF IInv, TypeOK
  <2>2. \A p \in Objs : obj'[p] \in [st : {"free", "live", "moved"}, val : Values \cup {None}]
    BY <1>5 DEF IInv, TypeOK, Free
  <2>3. obj' \in [Objs -> [st : {"free", "live", "moved"}, val : Values \cup {None}]]
    BY <2>2 DEF Made
  <2> QED
    BY <2>1, <2>3 DEF IInv, TypeOK
<1>8. OwnedOnce'
  <2>1. \A w \in Vars : Owns(slot'[w]) => slot'[w].obj \in Objs /\ obj'[slot'[w].obj].st = "live"
    BY <1>1, <1>3, <1>4, <1>5, <1>6 DEF IInv, OwnedOnce
  <2>2. \A w, u \in Vars : Owns(slot'[w]) /\ Owns(slot'[u]) /\ slot'[w].obj = slot'[u].obj => w = u
    BY <1>3, <1>4, <1>6 DEF IInv, OwnedOnce
  <2> QED
    BY <2>1, <2>2 DEF OwnedOnce, Owns
<1>9. LiveHasValue'
  BY <1>5 DEF IInv, LiveHasValue, Free
<1> QED
  BY <1>7, <1>8, <1>9 DEF IInv, NoDeadObjectUsed

(* A variable that takes what owns nothing, when what it owned, if anything, is destroyed. *)
LEMMA NoValue ==
  ASSUME IInv, NEW v \in Vars, NEW e \in {Dead, Empty}, NEW c,
         c = slot[v] \/ c = Dead,
         slot' = [slot EXCEPT ![v] = e], obj' = Unmade(c),
         class' = class, cast' = cast, undef' = undef
  PROVE  IInv'
<1>1. e \in Contents /\ ~Owns(e)
  BY DEF Contents, Owns, Dead, Empty
<1>2. /\ slot'[v] = e
      /\ \A w \in Vars : w # v => slot'[w] = slot[w]
  BY DEF IInv, TypeOK
<1>3. \A p \in Objs : obj'[p] = IF Owns(c) /\ p = c.obj THEN Free ELSE obj[p]
  BY DEF Unmade
<1>4. \A w \in Vars : w # v /\ Owns(slot[w]) => slot[w].obj \in Objs /\ (Owns(c) => slot[w].obj # c.obj)
  BY DEF IInv, OwnedOnce, Owns, Dead
<1>5. TypeOK'
  <2>1. slot' \in [Vars -> Contents]
    BY <1>1 DEF IInv, TypeOK
  <2>2. \A p \in Objs : obj'[p] \in [st : {"free", "live", "moved"}, val : Values \cup {None}]
    BY <1>3 DEF IInv, TypeOK, Free
  <2>3. obj' \in [Objs -> [st : {"free", "live", "moved"}, val : Values \cup {None}]]
    BY <2>2 DEF Unmade
  <2> QED
    BY <2>1, <2>3 DEF IInv, TypeOK
<1>6. OwnedOnce'
  BY <1>1, <1>2, <1>3, <1>4 DEF IInv, OwnedOnce, Owns
<1>7. LiveHasValue'
  BY <1>3 DEF IInv, LiveHasValue, Free
<1> QED
  BY <1>5, <1>6, <1>7 DEF IInv, NoDeadObjectUsed

(* A variable that takes over the storage of another, which is empty then. *)
LEMMA Moved ==
  ASSUME IInv, NEW v \in Vars, NEW w \in Vars, v # w,
         slot' = [slot EXCEPT ![v] = slot[w], ![w] = Empty],
         UNCHANGED <<class, obj, cast, undef>>
  PROVE  IInv'
<1>1. Empty \in Contents /\ ~Owns(Empty)
  BY DEF Contents, Owns, Empty
<1>2. /\ slot'[v] = slot[w] /\ slot'[w] = Empty
      /\ \A u \in Vars : u # v /\ u # w => slot'[u] = slot[u]
  BY DEF IInv, TypeOK
<1>3. TypeOK'
  BY <1>1 DEF IInv, TypeOK
<1>4. \A u \in Vars : Owns(slot'[u]) => \/ u = v /\ slot'[u] = slot[w]
                                        \/ u # v /\ u # w /\ slot'[u] = slot[u]
  BY <1>1, <1>2
<1>5. \A u \in Vars : Owns(slot'[u]) => slot'[u].obj \in Objs /\ obj[slot'[u].obj].st = "live"
  BY <1>4 DEF IInv, OwnedOnce
<1>6. ASSUME NEW u \in Vars, NEW z \in Vars, Owns(slot'[u]), Owns(slot'[z]), slot'[u].obj = slot'[z].obj
      PROVE  u = z
  BY <1>4, <1>6 DEF IInv, OwnedOnce
<1>7. OwnedOnce'
  BY <1>5, <1>6 DEF OwnedOnce, Owns
<1> QED
  BY <1>3, <1>7 DEF IInv, NoDeadObjectUsed, LiveHasValue

(* A small object is moved from q into the unused o: what the step does to each variable  *)
(* and to each object is enough.                                                        *)
LEMMA SmallMoved ==
  ASSUME IInv, NEW v \in Vars, NEW w \in Vars, v # w, NEW o \in Unused, NEW q \in Objs,
         Owns(slot[w]), slot[w].obj = q,
         slot' \in [Vars -> Contents], slot'[v].obj = o, ~Owns(slot'[w]),
         \A u \in Vars : u # v /\ u # w => slot'[u] = slot[u],
         obj' \in [Objs -> [st : {"free", "live", "moved"}, val : Values \cup {None}]],
         obj'[o] = obj[q], obj'[q].st = "moved",
         \A p \in Objs : p # o /\ p # q => obj'[p] = obj[p],
         UNCHANGED <<class, cast, undef>>
  PROVE  IInv'
<1>1. o \in Objs /\ obj[o].st = "free"
  BY DEF Unused
<1>2. obj[q].st = "live" /\ q # o
  BY <1>1 DEF IInv, OwnedOnce
<1>3. TypeOK'
  BY DEF IInv, TypeOK
<1>4. \A u \in Vars : u # w /\ Owns(slot[u]) => slot[u].obj \in Objs \ {o, q} /\ obj[slot[u].obj].st = "live"
  BY <1>1, <1>2 DEF IInv, OwnedOnce
<1>5. OwnedOnce'
  <2>1. ASSUME NEW u \in Vars, Owns(slot'[u]) PROVE slot'[u].obj \in Objs /\ obj'[slot'[u].obj].st = "live"
    BY <1>1, <1>2, <1>4, <2>1
  <2>2. ASSUME NEW u \in Vars, NEW z \in Vars, Owns(slot'[u]), Owns(slot'[z]), slot'[u].obj = slot'[z].obj
        PROVE  u = z
    <3>1. CASE u # v /\ z # v
      BY <2>2, <3>1 DEF IInv, OwnedOnce
    <3>2. u = v <=> z = v
      BY <1>4, <2>2
    <3> QED
      BY <3>1, <3>2
  <2> QED
    BY <2>1, <2>2 DEF OwnedOnce, Owns
<1>6. LiveHasValue'
  BY <1>1, <1>2 DEF IInv, LiveHasValue
<1> QED
  BY <1>3, <1>5, <1>6 DEF IInv, NoDeadObjectUsed

(* A copy, into a new variable or over an old one. *)
LEMMA Copied ==
  ASSUME IInv, NEW v \in Vars, NEW w \in Vars, NEW c, c = slot[v] \/ c = Dead,
         CopyTo(v, w, c) \/ CopyEmptyTo(v, w, c)
  PROVE  IInv'
<1>1. CASE CopyTo(v, w, c)
  <2>1. Holding(w) /\ ValueOf(slot[w]) \in Values
    BY <1>1, NobodyGone DEF CopyTo
  <2>2. PICK o \in Unused : slot' = [slot EXCEPT ![v] = Keep(ValueOf(slot[w]), o)]
                            /\ obj' = Made(ValueOf(slot[w]), o, c)
                            /\ UNCHANGED <<class, cast, undef>>
    BY <1>1, NobodyGone DEF CopyTo
  <2> QED
    BY <2>1, <2>2, NewValue
<1>2. CASE CopyEmptyTo(v, w, c) /\ class = "any"
  BY <1>2, NoValue DEF CopyEmptyTo
<1>3. CASE CopyEmptyTo(v, w, c) /\ class # "any"
  BY <1>3 DEF CopyEmptyTo, Undefined, IInv, TypeOK, OwnedOnce, NoDeadObjectUsed, LiveHasValue
<1> QED
  BY <1>1, <1>2, <1>3

(* An assignment through any_cast's reference. *)
LEMMA Written ==
  ASSUME IInv, NEW v \in Vars, NEW x \in Values, Write(v, x)
  PROVE  IInv'
<1> DEFINE q == slot[v].obj
<1>1. slot[v].tag \in {"trivial", "small", "heap"}
  BY DEF Write, Holding
<1>2. CASE ~Owns(slot[v])
  <2>1. slot[v].obj = None
    BY <1>1, <1>2 DEF IInv, TypeOK, Contents, Owns
  <2>2. obj' = obj
    BY <2>1, AnyAssumption DEF Write, IInv, TypeOK
  <2> QED
    BY <2>2 DEF Write, IInv, TypeOK, OwnedOnce, NoDeadObjectUsed, LiveHasValue
<1>3. CASE Owns(slot[v])
  <2>1. q \in Objs /\ obj[q] \in [st : {"free", "live", "moved"}, val : Values \cup {None}]
    BY <1>3, NobodyGone DEF IInv, TypeOK
  <2>2. /\ obj'[q] = [obj[q] EXCEPT !.val = x]
        /\ \A p \in Objs : p # q => obj'[p] = obj[p]
    BY <2>1 DEF Write, IInv, TypeOK
  <2>3. obj'[q].st = obj[q].st /\ obj'[q].val = x
        /\ obj'[q] \in [st : {"free", "live", "moved"}, val : Values \cup {None}]
    BY <2>1, <2>2
  <2>4. obj' \in [Objs -> [st : {"free", "live", "moved"}, val : Values \cup {None}]]
    BY <2>1, <2>2, <2>3 DEF Write, IInv, TypeOK
  <2>5. \A p \in Objs : obj'[p].st = obj[p].st
    BY <2>1, <2>2, <2>3
  <2>6. TypeOK'
    BY <2>4 DEF Write, IInv, TypeOK
  <2>7. OwnedOnce'
    BY <2>5 DEF Write, IInv, OwnedOnce
  <2>8. LiveHasValue'
    BY <2>2, <2>3, <2>5 DEF IInv, LiveHasValue
  <2> QED
    BY <2>6, <2>7, <2>8 DEF Write, IInv, NoDeadObjectUsed
<1> QED
  BY <1>2, <1>3

(* Every step keeps it. *)
LEMMA NextInv == IInv /\ [Next]_vars => IInv'
<1> SUFFICES ASSUME IInv, [Next]_vars PROVE IInv'
  OBVIOUS
<1>1. CASE UNCHANGED vars
  BY <1>1 DEF vars, IInv, TypeOK, OwnedOnce, NoDeadObjectUsed, LiveHasValue
<1>2. CASE Operation
  <2>1. PICK v \in Vars :
          \/ Default(v) \/ Destruct(v)
          \/ \E x \in Values : Construct(v, x) \/ Write(v, x)
          \/ \E t \in {TypeOf[x] : x \in Values} : any_cast(v, t)
          \/ \E w \in Vars : CopyConstruct(v, w) \/ MoveConstruct(v, w) \/ CopyAssign(v, w) \/ MoveAssign(v, w)
    BY <1>2 DEF Operation
  <2>2. CASE Default(v)
    <3>1. obj = Unmade(Dead)
      BY DEF Unmade, Dead, Owns, IInv, TypeOK
    <3> QED
      BY <2>2, <3>1, NoValue DEF Default
  <2>3. CASE Destruct(v)
    BY <2>3, NobodyGone, NoValue DEF Destruct
  <2>4. ASSUME NEW x \in Values, Construct(v, x) PROVE IInv'
    BY <2>4, NewValue DEF Construct
  <2>5. ASSUME NEW x \in Values, Write(v, x) PROVE IInv'
    BY <2>5, Written
  <2>6. ASSUME NEW t, any_cast(v, t) PROVE IInv'
    <3>1. CASE slot[v] = Empty /\ Undefined("null")
      BY <3>1 DEF Undefined, IInv, TypeOK, OwnedOnce, NoDeadObjectUsed, LiveHasValue
    <3>2. CASE Holding(v) /\ cast' = (IF TypeOf[ValueOf(slot[v])] = t THEN ValueOf(slot[v]) ELSE None)
               /\ UNCHANGED <<class, slot, obj, undef>>
      <4>1. cast' \in Values \cup {None}
        BY <3>2, NobodyGone
      <4> QED
        BY <3>2, <4>1 DEF IInv, TypeOK, OwnedOnce, NoDeadObjectUsed, LiveHasValue
    <3> QED
      BY <2>6, <3>1, <3>2, NobodyGone DEF any_cast
  <2>7. ASSUME NEW w \in Vars, CopyConstruct(v, w) PROVE IInv'
    BY <2>7, Copied DEF CopyConstruct
  <2>8. ASSUME NEW w \in Vars, MoveConstruct(v, w) PROVE IInv'
    <3>1. v # w
      BY <2>8 DEF MoveConstruct
    <3>2. CASE slot[w].tag # "small"
      BY <2>8, <3>1, <3>2, Moved DEF MoveConstruct
    <3>3. CASE slot[w].tag = "small"
      <4>1. slot[w] \in [tag : {"small", "heap"}, obj : Objs, val : {None}]
        BY <3>3 DEF IInv, TypeOK, Contents
      <4>2. PICK o \in Unused :
              /\ slot' = [slot EXCEPT ![v] = [slot[w] EXCEPT !.obj = o], ![w] = Empty]
              /\ obj' = [obj EXCEPT ![o] = obj[slot[w].obj], ![slot[w].obj].st = "moved"]
              /\ UNCHANGED <<class, cast, undef>>
        BY <2>8, <3>3 DEF MoveConstruct
      <4> DEFINE q == slot[w].obj
                 Object == [st : {"free", "live", "moved"}, val : Values \cup {None}]
      <4>3. [slot[w] EXCEPT !.obj = o] \in [tag : {"small", "heap"}, obj : {o}, val : {None}]
        BY <4>1
      <4>4. /\ o \in Objs /\ q \in Objs /\ o # q /\ Owns(slot[w])
            /\ obj \in [Objs -> Object]
        BY <3>3, <4>1, NobodyGone DEF Unused, Gone, Owns, IInv, TypeOK
      <4>5. [obj[q] EXCEPT !.st = "moved"] \in [st : {"moved"}, val : Values \cup {None}]
        BY <4>4
      <4>6. /\ slot'[v] = [slot[w] EXCEPT !.obj = o] /\ slot'[w] = Empty
            /\ \A u \in Vars : u # v /\ u # w => slot'[u] = slot[u]
        BY <3>1, <4>2 DEF IInv, TypeOK
      <4>7. slot'[v].obj = o /\ slot'[v] \in Contents /\ Empty \in Contents /\ ~Owns(slot'[w])
        BY <4>3, <4>4, <4>6 DEF Contents, Owns, Empty
      <4>8. slot' \in [Vars -> Contents]
        BY <4>2, <4>6, <4>7 DEF IInv, TypeOK
      <4>9. /\ obj'[o] = obj[q] /\ obj'[q] = [obj[q] EXCEPT !.st = "moved"]
            /\ \A p \in Objs : p # o /\ p # q => obj'[p] = obj[p]
        BY <4>2, <4>4
      <4>10. obj'[q].st = "moved" /\ obj'[q] \in Object
        BY <4>5, <4>9
      <4>11. \A p \in Objs : obj'[p] \in Object
        BY <4>4, <4>9, <4>10
      <4>12. obj' \in [Objs -> Object]
        BY <4>2, <4>4, <4>11
      <4> QED
        BY <3>1, <4>2, <4>4, <4>6, <4>7, <4>8, <4>9, <4>10, <4>12, SmallMoved, SMTT(30)
    <3> QED
      BY <3>2, <3>3
  <2>9. ASSUME NEW w \in Vars, CopyAssign(v, w) PROVE IInv'
    <3>1. CopyTo(v, w, slot[v]) \/ CopyEmptyTo(v, w, slot[v])
      BY <2>9, NobodyGone DEF CopyAssign
    <3> QED
      BY <3>1, Copied
  <2>10. ASSUME NEW w \in Vars, MoveAssign(v, w) PROVE IInv'
    BY <2>10, Moved DEF MoveAssign
  <2> QED
    BY <2>1, <2>2, <2>3, <2>4, <2>5, <2>6, <2>7, <2>8, <2>9, <2>10
<1> QED
  BY <1>1, <1>2 DEF Next, any_vf, any_base, any

(* It holds for ever. *)
LEMMA Invariant == Spec => []IInv
<1> QED
  BY InitInv, NextInv, PTL DEF Spec
-----------------------------------------------------------------------------
(* Every variable of AnyStorage keeps its type: what owns nothing has no object. *)
THEOREM TypeCorrect == Spec => []TypeOK
<1>1. IInv => TypeOK
  BY DEF IInv
<1> QED
  BY <1>1, Invariant, PTL

(* No sequence of copies, moves, assignments and destructions leaves an object in two  *)
(* variables, or in one that would destroy it again.                                  *)
THEOREM OwnedOnceHolds == Spec => []OwnedOnce
<1>1. IInv => OwnedOnce
  BY DEF IInv
<1> QED
  BY <1>1, Invariant, PTL

(* No operation meets an object that was destroyed or moved from. *)
THEOREM NoDeadObjectUsedHolds == Spec => []NoDeadObjectUsed
<1>1. IInv => NoDeadObjectUsed
  BY DEF IInv
<1> QED
  BY <1>1, Invariant, PTL

(* Through any sequence of constructions, copies, moves, assignments and destructions     *)
(* every object has one owner and none is used after it is gone.                          *)
THEOREM OwnershipHolds == Spec => []Ownership
  BY OwnedOnceHolds, NoDeadObjectUsedHolds, PTL DEF Ownership
-----------------------------------------------------------------------------
(* What a step does to what the variables hold, and that it forgets no object. *)
NothingLost == \A o \in Objs : Lost(o)' => Lost(o)

Puts(v, x) == Held' = [Held EXCEPT ![v] = x] /\ NothingLost

(* A new value is held, and what the variable owned before was destroyed. *)
LEMMA NewValueEffect ==
  ASSUME IInv, NEW v \in Vars, NEW x \in Values, NEW o \in Unused, NEW c,
         c = slot[v] \/ (c = Dead /\ ~Alive(v)),
         slot' = [slot EXCEPT ![v] = Keep(x, o)], obj' = Made(x, o, c)
  PROVE  Puts(v, x)
<1>1. o \in Objs /\ obj[o].st = "free"
  BY DEF Unused
<1>2. Category(x) \in {"trivial", "small", "heap"}
  BY DEF Category
<1>3. /\ slot'[v] = Keep(x, o)
      /\ \A w \in Vars : w # v => slot'[w] = slot[w]
  BY DEF IInv, TypeOK
<1>4. \A p \in Objs : obj'[p] = IF p = o /\ Category(x) # "trivial" THEN [st |-> "live", val |-> x]
                                ELSE IF Owns(c) /\ p = c.obj THEN Free ELSE obj[p]
  BY DEF Made
<1>5. \A w \in Vars : w # v /\ Owns(slot[w]) =>
        slot[w].obj \in Objs /\ slot[w].obj # o /\ (Owns(c) => slot[w].obj # c.obj)
  BY <1>1 DEF IInv, OwnedOnce, Owns, Dead
<1>6. Holding(v)' /\ ValueOf(slot[v])' = x
  BY <1>1, <1>2, <1>3, <1>4 DEF Holding, ValueOf, Keep
<1>7. ASSUME NEW w \in Vars, w # v PROVE Held'[w] = Held[w]
  <2>1. Holding(w)' <=> Holding(w)
    BY <1>3, <1>7 DEF Holding
  <2>2. Holding(w) /\ slot[w].tag # "trivial" => obj'[slot[w].obj] = obj[slot[w].obj]
    BY <1>4, <1>5, <1>7 DEF Holding, Owns
  <2>3. Holding(w) => ValueOf(slot[w])' = ValueOf(slot[w])
    BY <1>3, <1>7, <2>2 DEF ValueOf
  <2> QED
    BY <1>3, <1>7, <2>1, <2>3 DEF Held
<1>8. Held'[v] = x
  BY <1>6 DEF Held
<1>9. Held' = [Held EXCEPT ![v] = x]
  BY <1>7, <1>8 DEF Held
<1>10. ASSUME NEW p \in Objs, Lost(p)' PROVE Lost(p)
  <2>1. obj'[p].st # "free" /\ \A w \in Vars : Owns(slot'[w]) => slot'[w].obj # p
    BY <1>10 DEF Lost, Owns
  <2>2. ~(p = o /\ Category(x) # "trivial")
    BY <1>2, <1>3, <2>1 DEF Keep, Owns
  <2>3. ~(Owns(c) /\ p = c.obj) /\ obj'[p] = obj[p]
    BY <1>4, <2>1, <2>2 DEF Free
  <2>4. Owns(slot[v]) => slot[v].obj # p
    BY <2>3 DEF Alive, Owns, Dead
  <2> QED
    BY <1>3, <2>1, <2>3, <2>4 DEF Lost, Owns
<1> QED
  BY <1>9, <1>10 DEF Puts, NothingLost

(* The variable holds nothing, and what it owned before was destroyed. *)
LEMMA NoValueEffect ==
  ASSUME IInv, NEW v \in Vars, NEW e \in {Dead, Empty}, NEW c,
         c = slot[v] \/ (c = Dead /\ ~Alive(v)),
         slot' = [slot EXCEPT ![v] = e], obj' = Unmade(c)
  PROVE  Puts(v, e.tag)
<1>1. ~Owns(e) /\ e.tag \in {"dead", "empty"}
  BY DEF Owns, Dead, Empty
<1>2. /\ slot'[v] = e
      /\ \A w \in Vars : w # v => slot'[w] = slot[w]
  BY DEF IInv, TypeOK
<1>3. \A p \in Objs : obj'[p] = IF Owns(c) /\ p = c.obj THEN Free ELSE obj[p]
  BY DEF Unmade
<1>4. \A w \in Vars : w # v /\ Owns(slot[w]) =>
        slot[w].obj \in Objs /\ (Owns(c) => slot[w].obj # c.obj)
  BY DEF IInv, OwnedOnce, Owns, Dead
<1>5. ASSUME NEW w \in Vars, w # v PROVE Held'[w] = Held[w]
  <2>1. Holding(w)' <=> Holding(w)
    BY <1>2, <1>5 DEF Holding
  <2>2. Holding(w) /\ slot[w].tag # "trivial" => obj'[slot[w].obj] = obj[slot[w].obj]
    BY <1>3, <1>4, <1>5 DEF Holding, Owns
  <2>3. Holding(w) => ValueOf(slot[w])' = ValueOf(slot[w])
    BY <1>2, <1>5, <2>2 DEF ValueOf
  <2> QED
    BY <1>2, <1>5, <2>1, <2>3 DEF Held
<1>6. Held'[v] = e.tag
  BY <1>1, <1>2 DEF Held, Holding
<1>7. Held' = [Held EXCEPT ![v] = e.tag]
  BY <1>5, <1>6 DEF Held
<1>8. ASSUME NEW p \in Objs, Lost(p)' PROVE Lost(p)
  <2>1. obj'[p].st # "free" /\ \A w \in Vars : Owns(slot'[w]) => slot'[w].obj # p
    BY <1>8 DEF Lost, Owns
  <2>2. ~(Owns(c) /\ p = c.obj) /\ obj'[p] = obj[p]
    BY <1>3, <2>1 DEF Free
  <2>3. Owns(slot[v]) => slot[v].obj # p
    BY <2>2 DEF Alive, Owns, Dead
  <2> QED
    BY <1>2, <2>1, <2>2, <2>3 DEF Lost, Owns
<1> QED
  BY <1>7, <1>8 DEF Puts, NothingLost

(* What an operation may do: no value is put or moved by an undefined one, a value is put   *)
(* or written, a variable ends or is emptied, a value moves to another variable, or is cast. *)
Stays == UNCHANGED <<slot, obj, cast>>

Moves(v, w) ==
  /\ v # w /\ Alive(w) /\ UNCHANGED cast
  /\ Held' = [Held EXCEPT ![v] = Held[w], ![w] = "empty"]
  /\ (slot'[v] # slot[v] /\ slot'[w] = Empty) \/ NothingLost

Casts(v, t) ==
  /\ Holding(v) /\ UNCHANGED <<slot, obj>>
  /\ cast' = IF TypeOf[ValueOf(slot[v])] = t THEN ValueOf(slot[v]) ELSE None

(* The storage of a variable is taken over. *)
LEMMA MovedEffect ==
  ASSUME IInv, NEW v \in Vars, NEW w \in Vars, v # w, Alive(w),
         slot' = [slot EXCEPT ![v] = slot[w], ![w] = Empty], UNCHANGED <<obj, cast>>
  PROVE  Moves(v, w)
<1>1. /\ slot'[v] = slot[w] /\ slot'[w] = Empty
      /\ \A u \in Vars : u # v /\ u # w => slot'[u] = slot[u]
  BY DEF IInv, TypeOK
<1>2. ASSUME NEW u \in Vars
      PROVE  Held'[u] = IF u = v THEN Held[w] ELSE IF u = w THEN "empty" ELSE Held[u]
  <2>1. CASE u = v
    BY <1>1, <2>1 DEF Held, Holding, ValueOf
  <2>2. CASE u = w
    BY <1>1, <2>2 DEF Held, Holding, Empty
  <2>3. CASE u # v /\ u # w
    <3>1. slot'[u] = slot[u] /\ obj' = obj
      BY <1>1, <2>3
    <3> QED
      BY <2>3, <3>1 DEF Held, Holding, ValueOf
  <2> QED
    BY <2>1, <2>2, <2>3
<1>3. Held' = [Held EXCEPT ![v] = Held[w], ![w] = "empty"]
  BY <1>2 DEF Held
<1>4. ASSUME slot'[v] = slot[v], NEW p \in Objs, Lost(p)' PROVE Lost(p)
  <2>1. obj[p].st # "free" /\ \A u \in Vars : Owns(slot'[u]) => slot'[u].obj # p
    BY <1>4 DEF Lost, Owns
  <2>2. Owns(slot[w]) => slot[w].obj # p
    BY <1>1, <2>1
  <2> QED
    BY <1>1, <1>4, <2>1, <2>2 DEF Lost, Owns
<1> QED
  BY <1>1, <1>3, <1>4 DEF Moves, NothingLost

(* A small object is moved into a new one. *)
LEMMA SmallMovedEffect ==
  ASSUME IInv, NEW v \in Vars, NEW w \in Vars, ~Alive(v), NEW o \in Unused, slot[w].tag = "small",
         slot' = [slot EXCEPT ![v] = [slot[w] EXCEPT !.obj = o], ![w] = Empty],
         obj' = [obj EXCEPT ![o] = obj[slot[w].obj], ![slot[w].obj].st = "moved"],
         UNCHANGED cast
  PROVE  Moves(v, w)
<1> DEFINE q == slot[w].obj
<1>1. v # w /\ Alive(w) /\ Owns(slot[w])
  BY DEF Alive, Owns
<1>2. slot[w] \in [tag : {"small", "heap"}, obj : Objs, val : {None}]
  BY <1>1 DEF IInv, TypeOK, Contents
<1>3. o \in Objs /\ q \in Objs /\ o # q
  BY <1>1, <1>2, NobodyGone DEF Unused, Gone
<1>4. /\ slot'[v] = [slot[w] EXCEPT !.obj = o] /\ slot'[w] = Empty
      /\ \A u \in Vars : u # v /\ u # w => slot'[u] = slot[u]
  BY <1>1 DEF IInv, TypeOK
<1>5. slot'[v].tag = "small" /\ slot'[v].obj = o
  BY <1>2, <1>4
<1>6. /\ obj'[o] = obj[q]
      /\ \A p \in Objs : p # o /\ p # q => obj'[p] = obj[p]
  BY <1>3 DEF IInv, TypeOK
<1>7. \A u \in Vars : u # v /\ u # w /\ Owns(slot[u]) => slot[u].obj \in Objs \ {o, q}
  BY <1>1, <1>3 DEF IInv, OwnedOnce, Unused
<1>8. ASSUME NEW u \in Vars
      PROVE  Held'[u] = IF u = v THEN Held[w] ELSE IF u = w THEN "empty" ELSE Held[u]
  <2>1. CASE u = v
    BY <1>5, <1>6, <2>1 DEF Held, Holding, ValueOf
  <2>2. CASE u = w
    BY <1>1, <1>4, <2>2 DEF Held, Holding, Empty
  <2>3. CASE u # v /\ u # w
    <3>1. slot'[u] = slot[u] /\ (Owns(slot[u]) => obj'[slot[u].obj] = obj[slot[u].obj])
      BY <1>4, <1>6, <1>7, <2>3
    <3> QED
      BY <2>3, <3>1 DEF Held, Holding, ValueOf, Owns
  <2> QED
    BY <2>1, <2>2, <2>3
<1>9. Held' = [Held EXCEPT ![v] = Held[w], ![w] = "empty"]
  BY <1>1, <1>8 DEF Held
<1>10. slot'[v] # slot[v]
  BY <1>5 DEF Alive
<1> QED
  BY <1>1, <1>4, <1>9, <1>10 DEF Moves

(* A write through a reference changes what the variable holds and nothing else. *)
LEMMA WriteEffect ==
  ASSUME IInv, NEW v \in Vars, NEW x \in Values, Write(v, x)
  PROVE  (Puts(v, x) \/ (Held' = Held /\ NothingLost)) /\ cast' = cast
<1> DEFINE q == slot[v].obj
<1>1. UNCHANGED <<class, slot, cast, undef>> /\ slot[v].tag \in {"trivial", "small", "heap"}
  BY DEF Write, Holding
<1>2. CASE ~Owns(slot[v])
  <2>1. q = None
    BY <1>1, <1>2 DEF IInv, TypeOK, Contents, Owns
  <2>2. obj' = obj
    BY <2>1, AnyAssumption DEF Write, IInv, TypeOK
  <2>3. Held' = Held
    BY <1>1, <2>2 DEF Held, Holding, ValueOf
  <2>4. NothingLost
    BY <1>1, <2>2 DEF NothingLost, Lost, Owns
  <2> QED
    BY <1>1, <2>3, <2>4
<1>3. CASE Owns(slot[v])
  <2>1. q \in Objs /\ obj[q] \in [st : {"free", "live", "moved"}, val : Values \cup {None}]
    BY <1>3, NobodyGone DEF IInv, TypeOK
  <2>2. /\ obj'[q] = [obj[q] EXCEPT !.val = x]
        /\ \A p \in Objs : p # q => obj'[p] = obj[p]
    BY <2>1 DEF Write, IInv, TypeOK
  <2>3. obj'[q].val = x /\ \A p \in Objs : obj'[p].st = obj[p].st
    BY <2>1, <2>2
  <2>4. \A u \in Vars : u # v /\ Owns(slot[u]) => slot[u].obj \in Objs /\ slot[u].obj # q
    BY <1>3 DEF IInv, OwnedOnce
  <2>5. Held'[v] = x
    BY <1>1, <1>3, <2>3 DEF Held, Holding, ValueOf, Owns
  <2>6. ASSUME NEW u \in Vars, u # v PROVE Held'[u] = Held[u]
    <3>1. Owns(slot[u]) => obj'[slot[u].obj] = obj[slot[u].obj]
      BY <2>2, <2>4, <2>6
    <3> QED
      BY <1>1, <3>1 DEF Held, Holding, ValueOf, Owns
  <2>7. Held' = [Held EXCEPT ![v] = x]
    BY <2>5, <2>6 DEF Held
  <2>8. NothingLost
    BY <1>1, <2>3 DEF NothingLost, Lost, Owns
  <2> QED
    BY <1>1, <2>7, <2>8 DEF Puts
<1> QED
  BY <1>2, <1>3

(* A copy puts the value of its source, or empties the variable as its source is. *)
LEMMA CopyEffect ==
  ASSUME IInv, NEW v \in Vars, NEW w \in Vars, NEW c, c = slot[v] \/ (c = Dead /\ ~Alive(v)),
         CopyTo(v, w, c) \/ CopyEmptyTo(v, w, c)
  PROVE  Stays \/ (Puts(v, Held[w]) /\ Alive(w) /\ cast' = cast)
<1>1. CASE CopyTo(v, w, c)
  <2>1. Holding(w) /\ ValueOf(slot[w]) \in Values
    BY <1>1, NobodyGone DEF CopyTo
  <2>2. PICK o \in Unused : slot' = [slot EXCEPT ![v] = Keep(ValueOf(slot[w]), o)]
                            /\ obj' = Made(ValueOf(slot[w]), o, c)
                            /\ UNCHANGED <<class, cast, undef>>
    BY <1>1, NobodyGone DEF CopyTo
  <2>3. Held[w] = ValueOf(slot[w]) /\ Alive(w)
    BY <2>1 DEF Held, Alive, Holding
  <2>4. Puts(v, ValueOf(slot[w]))
    BY <2>1, <2>2, NewValueEffect
  <2> QED
    BY <2>2, <2>3, <2>4
<1>2. CASE CopyEmptyTo(v, w, c) /\ class = "any"
  <2>1. Held[w] = Empty.tag /\ Alive(w)
    BY <1>2 DEF CopyEmptyTo, Held, Holding, Alive, Empty
  <2>2. Puts(v, Empty.tag) /\ cast' = cast
    BY <1>2, NoValueEffect DEF CopyEmptyTo
  <2> QED
    BY <2>1, <2>2
<1>3. CASE CopyEmptyTo(v, w, c) /\ class # "any"
  BY <1>3 DEF CopyEmptyTo, Undefined, Stays
<1> QED
  BY <1>1, <1>2, <1>3

(* Every step has one of these effects. *)
Effect(v) ==
  \/ Stays
  \/ Held' = Held /\ NothingLost /\ cast' = cast
  \/ ~Alive(v) /\ cast' = cast /\ \E x \in Values \cup {"empty"} : Puts(v, x)
  \/ Alive(v) /\ cast' = cast /\ Puts(v, "dead")
  \/ Holding(v) /\ cast' = cast /\ \E x \in Values : TypeOf[Held[v]] = TypeOf[x] /\ Puts(v, x)
  \/ \E x \in Values : Casts(v, TypeOf[x])
  \/ \E w \in Vars \ {v} : Moves(v, w) \/ (Puts(v, Held[w]) /\ Alive(w) /\ cast' = cast)

(* A step of AnyStorage leaves everything as it is or is one operation on one variable. *)
LEMMA StepEffect ==
  ASSUME IInv, [Next]_vars
  PROVE  Stays \/ \E v \in Vars : Effect(v)
<1>1. CASE UNCHANGED vars
  BY <1>1 DEF vars, Stays
<1>2. CASE Operation
  <2>1. PICK v \in Vars :
          \/ Default(v) \/ Destruct(v)
          \/ \E x \in Values : Construct(v, x) \/ Write(v, x)
          \/ \E t \in {TypeOf[x] : x \in Values} : any_cast(v, t)
          \/ \E w \in Vars : CopyConstruct(v, w) \/ MoveConstruct(v, w) \/ CopyAssign(v, w) \/ MoveAssign(v, w)
    BY <1>2 DEF Operation
  <2> SUFFICES Effect(v)
    OBVIOUS
  <2>2. CASE Default(v)
    <3>1. obj = Unmade(Dead)
      BY DEF Unmade, Dead, Owns, IInv, TypeOK
    <3>2. Puts(v, Empty.tag) /\ cast' = cast /\ ~Alive(v)
      BY <2>2, <3>1, NoValueEffect DEF Default
    <3> QED
      BY <3>2 DEF Effect, Empty
  <2>3. CASE Destruct(v)
    <3>1. Puts(v, Dead.tag) /\ cast' = cast /\ Alive(v)
      BY <2>3, NobodyGone, NoValueEffect DEF Destruct
    <3> QED
      BY <3>1 DEF Effect, Dead
  <2>4. ASSUME NEW x \in Values, Construct(v, x) PROVE Effect(v)
    BY <2>4, NewValueEffect DEF Construct, Effect
  <2>5. ASSUME NEW x \in Values, Write(v, x) PROVE Effect(v)
    <3>1. Holding(v) /\ TypeOf[Held[v]] = TypeOf[x]
      BY <2>5 DEF Write, Held
    <3> QED
      BY <2>5, <3>1, WriteEffect DEF Effect
  <2>6. ASSUME NEW x \in Values, any_cast(v, TypeOf[x]) PROVE Effect(v)
    BY <2>6, NobodyGone DEF any_cast, Undefined, Casts, Stays, Effect
  <2>7. ASSUME NEW w \in Vars, CopyConstruct(v, w) PROVE Effect(v)
    <3>1. ~Alive(v) /\ (Stays \/ (Puts(v, Held[w]) /\ Alive(w) /\ cast' = cast))
      BY <2>7, CopyEffect DEF CopyConstruct
    <3> QED
      BY <3>1 DEF Effect
  <2>8. ASSUME NEW w \in Vars, MoveConstruct(v, w) PROVE Effect(v)
    <3>1. v # w
      BY <2>8 DEF MoveConstruct
    <3>2. CASE slot[w].tag # "small"
      BY <2>8, <3>1, <3>2, MovedEffect DEF MoveConstruct, Effect
    <3>3. CASE slot[w].tag = "small"
      <4>1. Moves(v, w)
        BY <2>8, <3>3, SmallMovedEffect DEF MoveConstruct
      <4> QED
        BY <3>1, <4>1 DEF Effect
    <3> QED
      BY <3>2, <3>3
  <2>9. ASSUME NEW w \in Vars, CopyAssign(v, w) PROVE Effect(v)
    <3>1. v # w /\ (CopyTo(v, w, slot[v]) \/ CopyEmptyTo(v, w, slot[v]))
      BY <2>9, NobodyGone DEF CopyAssign
    <3>2. Stays \/ (Puts(v, Held[w]) /\ Alive(w) /\ cast' = cast)
      BY <3>1, CopyEffect
    <3> QED
      BY <3>1, <3>2 DEF Effect
  <2>10. ASSUME NEW w \in Vars, MoveAssign(v, w) PROVE Effect(v)
    BY <2>10, MovedEffect DEF MoveAssign, Effect
  <2> QED
    BY <2>1, <2>2, <2>3, <2>4, <2>5, <2>6, <2>7, <2>8, <2>9, <2>10
<1> QED
  BY <1>1, <1>2 DEF Next, any_vf, any_base, any
-----------------------------------------------------------------------------
(* An object is forgotten without its destructor only by a move that empties another      *)
(* variable: copies, copy assignments and destructors destroy all that they replace.       *)
THEOREM LostOnlyByMoveHolds == Spec => LostOnlyByMove
<1> DEFINE Forgets == \A o \in Objs : Lost(o)' /\ ~Lost(o) =>
                        \E v, w \in Vars : /\ v # w /\ slot'[v] # slot[v]
                                           /\ slot[w].tag # "dead" /\ slot'[w] = Empty
<1>1. ASSUME IInv, [Next]_vars PROVE [Forgets]_vars
  <2>1. CASE Stays
    BY <2>1 DEF Stays, Lost, Owns
  <2>2. ASSUME NEW v \in Vars, Effect(v), ~Stays PROVE Forgets
    <3>1. ASSUME NEW x, Casts(v, x) PROVE NothingLost
      BY <3>1 DEF Casts, NothingLost, Lost, Owns
    <3>2. ASSUME NEW w \in Vars \ {v}, Moves(v, w) PROVE Forgets
      BY <3>2 DEF Moves, NothingLost, Alive
    <3>3. NothingLost => Forgets
      BY DEF NothingLost
    <3> QED
      BY <2>2, <3>1, <3>2, <3>3 DEF Effect, Puts
  <2> QED
    BY <1>1, <2>1, <2>2, StepEffect
<1> QED
  BY <1>1, Invariant, PTL DEF Spec, LostOnlyByMove

(* The storage implements ValueHolder: whatever keeps a value, a copy is independent of its *)
(* source, a moved-from variable is empty, and a cast gives the value last put in.         *)
THEOREM Refinement == Spec => ImplementsValueHolder
<1>1. Init => Holder!Init
  BY DEF Init, Holder!Init, Held, Holding, Dead
<1>2. ASSUME IInv, [Next]_vars PROVE [Holder!Next]_(Holder!vars)
  <2>1. CASE Stays
    <3>1. Held' = Held /\ cast' = cast
      BY <2>1 DEF Stays, Held, Holding, ValueOf
    <3> QED
      BY <3>1 DEF Holder!vars
  <2>2. ASSUME NEW v \in Vars, Effect(v), ~Stays PROVE [Holder!Next]_(Holder!vars)
    <3>1. /\ Held \in [Vars -> Values \cup {"dead", "empty"}]
          /\ \A u \in Vars : /\ Alive(u) <=> Held[u] # "dead"
                             /\ Holding(u) <=> Held[u] \in Values
                             /\ Holding(u) => Held[u] = ValueOf(slot[u])
      <4>1. ASSUME NEW u \in Vars
            PROVE  /\ Held[u] \in Values \cup {"dead", "empty"}
                   /\ Alive(u) <=> Held[u] # "dead"
                   /\ Holding(u) <=> Held[u] \in Values
                   /\ Holding(u) => Held[u] = ValueOf(slot[u])
        BY <1>2, NobodyGone, AnyAssumption DEF Held, Alive, Holding
      <4> QED
        BY <4>1 DEF Held
    <3>2. CASE Held' = Held /\ NothingLost /\ cast' = cast
      BY <3>2 DEF Holder!vars
    <3>3. CASE ~Alive(v) /\ cast' = cast /\ \E x \in Values \cup {"empty"} : Puts(v, x)
      BY <3>1, <3>3 DEF Puts, Holder!Next, Holder!Set
    <3>4. CASE Alive(v) /\ cast' = cast /\ Puts(v, "dead")
      BY <3>1, <3>4 DEF Puts, Holder!Next, Holder!Set
    <3>5. CASE Holding(v) /\ cast' = cast /\ \E x \in Values : TypeOf[Held[v]] = TypeOf[x] /\ Puts(v, x)
      BY <3>1, <3>5 DEF Puts, Holder!Next, Holder!Set, Holder!Write
    <3>6. CASE \E x \in Values : Casts(v, TypeOf[x])
      <4>1. PICK x \in Values : Casts(v, TypeOf[x])
        BY <3>6
      <4>2. Held' = Held
        BY <4>1 DEF Casts, Held, Holding, ValueOf
      <4>3. Holder!Cast(v, TypeOf[x])
        BY <3>1, <4>1, <4>2 DEF Casts, Holder!Cast
      <4> QED
        BY <4>3 DEF Holder!Next
    <3>7. ASSUME NEW w \in Vars \ {v}, Moves(v, w) PROVE Holder!Next
      <4>1. Holder!Move(v, w)
        BY <3>1, <3>7 DEF Moves, Holder!Move
      <4> QED
        BY <3>7, <4>1 DEF Holder!Next
    <3>8. ASSUME NEW w \in Vars \ {v}, Puts(v, Held[w]), Alive(w), cast' = cast PROVE Holder!Next
      <4>1. Holder!Copy(v, w)
        BY <3>1, <3>8 DEF Puts, Holder!Copy, Holder!Set
      <4> QED
        BY <3>8, <4>1 DEF Holder!Next
    <3> QED
      BY <2>2, <3>2, <3>3, <3>4, <3>5, <3>6, <3>7, <3>8 DEF Effect
  <2> QED
    BY <1>2, <2>1, <2>2, StepEffect
<1> QED
  BY <1>1, <1>2, Invariant, PTL DEF Spec, ImplementsValueHolder, Holder!Spec
-----------------------------------------------------------------------------
(* BinarySearch: what is before the range that is left is smaller than the key, what is    *)
(* behind it greater, and prefetch2 has prefetched the middle of what is left.            *)
Sorted(s) == \A i, j \in 1..Len(s) : i < j => s[i] <= s[j]
KeyIsThere == \E i \in 1..Len(nums) : nums[i] = val

SearchTypes ==
  /\ variant \in B!Variants /\ state \in {"idle", "loop", "returned"}
  /\ nums \in Seq(Int) /\ Sorted(nums) /\ val \in Int
  /\ first \in Nat /\ len \in Nat /\ ret \in Int

SearchInv ==
  /\ SearchTypes
  /\ state # "returned" => ret = -1
  /\ state = "loop" => /\ first + len <= Len(nums)
                       /\ \A i \in 1..first : nums[i] < val
                       /\ \A i \in (first + len + 1)..Len(nums) : nums[i] > val
  /\ state = "returned" => IF KeyIsThere THEN ret \in 0..Len(nums) - 1 /\ nums[ret + 1] = val
                                         ELSE ret = -1
  /\ B!NextMiddleIsWarm

(* It holds at first. *)
LEMMA SearchInit == B!Init => SearchInv
<1> SUFFICES ASSUME B!Init PROVE SearchInv
  OBVIOUS
<1>1. nums = << >> /\ nums \in Seq(Int) /\ Len(nums) = 0
  BY EmptySeq DEF B!Init
<1>2. SearchTypes
  BY <1>1 DEF B!Init, B!Variants, SearchTypes, Sorted
<1> QED
  BY <1>1, <1>2 DEF B!Init, SearchInv, B!NextMiddleIsWarm

(* An iteration leaves the half that the key can be in, with its middle prefetched. *)
LEMMA Halves ==
  ASSUME SearchInv, NEW v \in B!Variants, B!Iterate(v)
  PROVE  SearchInv'
<1> DEFINE h == len \div 2
           m == first + h
<1>1. /\ nums \in Seq(Int) /\ Len(nums) \in Nat /\ first \in Nat /\ len \in Nat /\ val \in Int /\ len > 0
      /\ \A i \in 1..Len(nums) : nums[i] \in Int
      /\ first + len <= Len(nums) /\ ret = -1
      /\ \A i \in 1..first : nums[i] < val
      /\ \A i \in (first + len + 1)..Len(nums) : nums[i] > val
  BY ElementOfSeq, LenProperties DEF SearchInv, SearchTypes, B!Iterate
<1>2. h \in Nat /\ h < len /\ 2 * h <= len /\ len <= 2 * h + 1
  BY <1>1, Z3
<1> HIDE DEF h
<1>3. m + 1 \in 1..Len(nums) /\ nums[m + 1] \in Int /\ m \in Nat
  BY <1>1, <1>2
<1>4. /\ B!half = h /\ B!middle = m /\ B!At(m) = nums[m + 1]
      /\ IF nums[m + 1] < val THEN first' = m + 1 /\ len' = len - h - 1 ELSE first' = first /\ len' = h
      /\ IF nums[m + 1] = val THEN ret' = m /\ state' = "returned" ELSE UNCHANGED <<ret, state>>
      /\ hints' = B!Prefetched
      /\ state = "loop" /\ UNCHANGED <<variant, nums, val>>
  BY DEF B!Iterate, B!Halve, B!half, B!middle, B!At, h
<1>5. /\ first' \in Nat /\ len' \in Nat /\ ret' \in Int /\ state' \in {"loop", "returned"}
      /\ SearchTypes'
  BY <1>1, <1>2, <1>3, <1>4 DEF SearchInv, SearchTypes, Sorted
<1>6. state' = "returned" => KeyIsThere' /\ ret' \in 0..Len(nums) - 1 /\ nums[ret' + 1] = val /\ nums' = nums /\ val' = val
  BY <1>1, <1>3, <1>4 DEF KeyIsThere
<1>7. ASSUME state' = "loop"
      PROVE  /\ ret' = -1 /\ first' + len' <= Len(nums)
             /\ \A i \in 1..first' : nums[i] < val
             /\ \A i \in (first' + len' + 1)..Len(nums) : nums[i] > val
  <2>1. nums[m + 1] # val /\ ret' = -1
    BY <1>1, <1>4, <1>7
  <2>2. \A i, j \in 1..Len(nums) : i < j => nums[i] <= nums[j]
    BY DEF SearchInv, SearchTypes, Sorted
  <2>3. CASE nums[m + 1] < val
    <3>1. \A i \in 1..(m + 1) : nums[i] < val
      BY <1>1, <1>3, <2>2, <2>3, SMTT(30)
    <3>2. first' = m + 1 /\ len' = len - h - 1 /\ first' + len' = first + len
      BY <1>1, <1>2, <1>4, <2>3
    <3> QED
      BY <1>1, <2>1, <3>1, <3>2
  <2>4. CASE ~(nums[m + 1] < val)
    <3>1. nums[m + 1] > val
      BY <1>1, <1>3, <2>1, <2>4
    <3>2. \A i \in (m + 1)..Len(nums) : nums[i] > val
      BY <1>1, <1>3, <2>2, <3>1
    <3>3. first' = first /\ len' = h
      BY <1>4, <2>4
    <3> QED
      BY <1>1, <1>2, <2>1, <3>2, <3>3
  <2> QED
    BY <2>3, <2>4
<1>8. B!NextMiddleIsWarm'
  <2> SUFFICES ASSUME variant = "prefetch2"
               PROVE  B!middle' \in hints'
    BY <1>4 DEF B!NextMiddleIsWarm
  <2>1. hints' = {m + 1 + (len - h - 1) \div 2, first + h \div 2}
    BY <1>4 DEF B!Prefetched
  <2>2. B!middle' = first' + len' \div 2
    BY DEF B!middle, B!half
  <2> QED
    BY <1>4, <2>1, <2>2
<1> QED
  BY <1>4, <1>5, <1>6, <1>7, <1>8 DEF SearchInv, KeyIsThere

(* Every step keeps the invariant. *)
LEMMA SearchNext == SearchInv /\ [B!Next]_(B!vars) => SearchInv'
<1> SUFFICES ASSUME SearchInv, [B!Next]_(B!vars) PROVE SearchInv'
  OBVIOUS
<1>1. CASE B!Call
  <2>1. /\ nums' \in Lists /\ val' \in Keys /\ first' = 0 /\ len' = Len(nums') /\ variant' \in B!Variants
        /\ state' = "loop" /\ ret' = -1
    BY <1>1 DEF B!Call, SearchInv
  <2>2. nums' \in Seq(Int) /\ Sorted(nums)' /\ val' \in Int /\ Len(nums') \in Nat
    BY <2>1, SequentialAssumption, LenProperties DEF B!SearchAssumption, Sorted
  <2>3. SearchTypes'
    BY <2>1, <2>2 DEF SearchTypes
  <2>4. B!NextMiddleIsWarm'
    BY <2>1, <2>2 DEF B!NextMiddleIsWarm
  <2> QED
    BY <2>1, <2>2, <2>3, <2>4 DEF SearchInv
<1>2. CASE B!Return
  <2>1. /\ state = "loop" /\ len = 0 /\ state' = "returned"
        /\ UNCHANGED <<variant, nums, val, first, len, ret, hints>>
    BY <1>2 DEF B!Return
  <2>2. ~KeyIsThere /\ ret = -1
    <3>1. \A i \in 1..Len(nums) : nums[i] # val
      <4>1. /\ Len(nums) \in Nat /\ first \in Nat /\ val \in Int /\ \A i \in 1..Len(nums) : nums[i] \in Int
            /\ \A i \in 1..first : nums[i] < val
            /\ \A i \in (first + 1)..Len(nums) : nums[i] > val
        BY <2>1, ElementOfSeq, LenProperties DEF SearchInv, SearchTypes
      <4> QED
        BY <4>1
    <3> QED
      BY <2>1, <3>1 DEF KeyIsThere, SearchInv
  <2>3. SearchTypes' /\ KeyIsThere' = KeyIsThere
    BY <2>1 DEF SearchInv, SearchTypes, Sorted, KeyIsThere
  <2>4. B!NextMiddleIsWarm'
    BY <2>1 DEF B!NextMiddleIsWarm
  <2> QED
    BY <2>1, <2>2, <2>3, <2>4 DEF SearchInv
<1>3. ASSUME NEW v \in B!Variants, B!Iterate(v) PROVE SearchInv'
  BY <1>3, Halves
<1>4. CASE UNCHANGED B!vars
  BY <1>4 DEF B!vars, SearchInv, SearchTypes, Sorted, KeyIsThere, B!NextMiddleIsWarm, B!middle, B!half
<1> QED
  BY <1>1, <1>2, <1>3, <1>4 DEF B!Next, B!binary_search, B!binary_search_prefetch1, B!binary_search_prefetch2,
     B!binary_search_prefetch, B!Variants

(* The key is where the range that is left is, or found. *)
LEMMA SearchInvIsSafe == SearchInv => B!Safety
<1> SUFFICES ASSUME SearchInv PROVE B!FindsTheKey
  BY DEF B!Safety, SearchInv
<1>1. /\ Len(nums) \in Nat /\ first \in Nat /\ len \in Nat /\ ret \in Int /\ val \in Int
      /\ \A i \in 1..Len(nums) : nums[i] \in Int
  BY ElementOfSeq, LenProperties DEF SearchInv, SearchTypes
<1>2. \A i \in Int : B!Present(i) <=> i \in 0..Len(nums) - 1 /\ nums[i + 1] = val
  BY DEF B!Present, B!At
<1>3. (\E i \in 0..Len(nums) - 1 : B!Present(i)) <=> KeyIsThere
  <2>1. ASSUME NEW i \in 0..Len(nums) - 1, B!Present(i) PROVE KeyIsThere
    BY <1>1, <1>2, <2>1 DEF KeyIsThere
  <2>2. ASSUME NEW i \in 1..Len(nums), nums[i] = val PROVE \E j \in 0..Len(nums) - 1 : B!Present(j)
    <3>1. i - 1 \in 0..Len(nums) - 1 /\ (i - 1) + 1 = i /\ i - 1 \in Int
      BY <1>1
    <3> QED
      BY <1>2, <2>2, <3>1
  <2> QED
    BY <2>1, <2>2 DEF KeyIsThere
<1>4. ASSUME state = "loop", NEW i \in 0..Len(nums) - 1, B!Present(i)
      PROVE  i \in first..(first + len - 1)
  <2>1. /\ \A j \in 1..first : nums[j] < val
        /\ \A j \in (first + len + 1)..Len(nums) : nums[j] > val
        /\ nums[i + 1] = val /\ i + 1 \in 1..Len(nums)
    BY <1>1, <1>2, <1>4 DEF SearchInv
  <2> QED
    BY <1>1, <2>1
<1>5. state = "returned" => IF KeyIsThere THEN B!Present(ret) ELSE ret = -1
  BY <1>1, <1>2 DEF SearchInv
<1>6. state = "loop" => first >= 0 /\ first + len <= Len(nums)
  BY <1>1 DEF SearchInv
<1> QED
  BY <1>3, <1>4, <1>5, <1>6 DEF B!FindsTheKey
-----------------------------------------------------------------------------
(* LazyAwait: below the top of the stack there are only calls that wait to return, and     *)
(* what the top is says how far the reply has come.                                     *)
Calls  == [what : {"reply", "lazy", "resume", "awaiting"}, r : 1..Replies, i : 0..Awaits + 1]
UpTo(k) == [i \in 1..k |-> i]

(* what waits to return, in the first m calls *)
Outers(m, r) ==
  \A j \in 1..m : stack[j] \in {L!Call("reply", r, Awaits + 1), L!Call("awaiting", r, Awaits + 1)}

(* Reply r has received the values of k lazy coroutines. *)
Received(r, k) ==
  /\ got[r] = UpTo(k)
  /\ \A i \in 1..k : lFrame[r][i] = "destroyed"
  /\ \A i \in (k + 2)..Awaits : lFrame[r][i] = "none"

AtReply(r, k) ==
  /\ L!Top = L!Call("reply", r, k + 1) /\ Outers(Len(stack) - 1, r)
  /\ lFrame[r][0] = "running" /\ (k < Awaits => lFrame[r][k + 1] = "none")
AtResume(r, k) ==
  /\ k < Awaits /\ L!Top = L!Call("resume", r, k + 1) /\ Outers(Len(stack) - 1, r)
  /\ lFrame[r][0] = "suspended" /\ lFrame[r][k + 1] = "suspended"
AtLazy(r, k) ==
  /\ k < Awaits /\ L!Top = L!Call("lazy", r, k + 1) /\ Outers(Len(stack) - 2, r)
  /\ Len(stack) > 1 /\ stack[Len(stack) - 1] = L!Call("awaiting", r, k + 1)
  /\ lFrame[r][0] = "suspended" /\ lFrame[r][k + 1] = "running"
AtAwaiting(r, k) ==
  /\ k < Awaits /\ L!Top = L!Call("awaiting", r, k + 1) /\ Outers(Len(stack) - 1, r)
  /\ lFrame[r][0] = "suspended" /\ lFrame[r][k + 1] = "done"
Unwinding(r, k) ==
  k = Awaits /\ lFrame[r][0] = "done" /\ Outers(Len(stack), r)

Going(r) ==
  \E k \in 0..Awaits :
    Received(r, k) /\ (AtReply(r, k) \/ AtResume(r, k) \/ AtLazy(r, k) \/ AtAwaiting(r, k) \/ Unwinding(r, k))

NotCalled(r) == got[r] = << >> /\ \A i \in 0..Awaits : lFrame[r][i] = "none"
Over(r)  == lFrame[r][0] \in {"done", "destroyed"} /\ Received(r, Awaits)

(* A handle is that of a coroutine that has not been destroyed, and has one owner. *)
Handles ==
  /\ \A v \in Syncs : sync[v] \in 1..Replies => lFrame[sync[v]][0] \in {"running", "suspended", "done"}
  /\ \A v, w \in Syncs : sync[v] \in 1..Replies /\ sync[v] = sync[w] => v = w

LazyInv ==
  /\ L!TypeOK
  /\ stack = << >> => \A q \in 1..Replies : NotCalled(q) \/ Over(q)
  /\ stack # << >> => \E r \in 1..Replies : Going(r) /\ \A q \in 1..Replies \ {r} : NotCalled(q) \/ Over(q)
  /\ Handles
  /\ L!UndefinedOnlyEmptyGet

(* The top of the stack is taken off, replaced, and put another call on. *)
LEMMA StackOps ==
  ASSUME NEW S, NEW s \in Seq(S), s # << >>, NEW x \in S, NEW y \in S
  PROVE  LET b == SubSeq(s, 1, Len(s) - 1)
             a == Append(b, x) \o <<y>>
         IN  /\ Len(s) \in Nat \ {0} /\ s[Len(s)] \in S
             /\ b \in Seq(S) /\ Len(b) = Len(s) - 1 /\ \A i \in 1..Len(b) : b[i] = s[i]
             /\ a \in Seq(S) /\ Len(a) = Len(s) + 1 /\ a # << >>
             /\ a[Len(s)] = x /\ a[Len(s) + 1] = y /\ \A i \in 1..(Len(s) - 1) : a[i] = s[i]
<1>1. PICK n \in Nat \ {0} : n = Len(s) /\ s[n] \in S
  BY EmptySeq, ElementOfSeq
<1>2. PICK b : b = SubSeq(s, 1, n - 1)
  OBVIOUS
<1>3. 1 \in Int /\ n - 1 \in Int /\ \A i \in 1..(n - 1) : s[i] \in S
  BY <1>1, ElementOfSeq
<1>4. /\ b \in Seq(S) /\ Len(b) = IF 1 <= n - 1 THEN n - 1 - 1 + 1 ELSE 0
      /\ \A i \in 1..(n - 1 - 1 + 1) : b[i] = s[1 + i - 1]
  BY <1>2, <1>3, SubSeqProperties
<1>5. Len(b) = n - 1
  BY <1>4
<1>6. ASSUME NEW i \in 1..(n - 1) PROVE b[i] = s[i]
  <2>1. i \in 1..(n - 1 - 1 + 1) /\ 1 + i - 1 = i
    OBVIOUS
  <2>2. b[i] = s[1 + i - 1]
    BY <1>4, <2>1
  <2> QED
    BY <2>1, <2>2
<1>7. PICK c \in Seq(S) : c = Append(b, x) /\ Len(c) = n /\ c[n] = x /\ \A i \in 1..(n - 1) : c[i] = s[i]
  <2>1. Append(b, x) \in Seq(S) /\ Len(Append(b, x)) = n /\ Append(b, x)[n] = x
    BY <1>4, <1>5, AppendProperties
  <2>2. \A i \in 1..(n - 1) : Append(b, x)[i] = s[i]
    BY <1>4, <1>5, <1>6, AppendProperties
  <2> QED
    BY <2>1, <2>2
<1>8. PICK a \in Seq(S) : /\ a = c \o <<y>> /\ Len(a) = n + 1
                          /\ \A i \in 1..(n + 1) : a[i] = IF i <= n THEN c[i] ELSE <<y>>[i - n]
  <2>1. <<y>> \in Seq(S) /\ Len(<<y>>) = 1
    OBVIOUS
  <2>2. /\ c \o <<y>> \in Seq(S) /\ Len(c \o <<y>>) = Len(c) + Len(<<y>>)
        /\ \A i \in 1..(Len(c) + Len(<<y>>)) :
             (c \o <<y>>)[i] = IF i <= Len(c) THEN c[i] ELSE <<y>>[i - Len(c)]
    BY <2>1, ConcatProperties
  <2> QED
    BY <1>7, <2>1, <2>2, ZenonT(40)
<1>9. a # << >> /\ a[n] = x /\ a[n + 1] = y /\ \A i \in 1..(n - 1) : a[i] = s[i]
  BY <1>7, <1>8, EmptySeq
<1> QED
  BY <1>1, <1>2, <1>4, <1>5, <1>6, <1>7, <1>8, <1>9

(* One more value has been received. *)
LEMMA OneMore ==
  ASSUME NEW k \in 0..Awaits
  PROVE  /\ UpTo(k) \in Seq(1..Awaits) /\ Len(UpTo(k)) = k
         /\ k < Awaits => Append(UpTo(k), k + 1) = UpTo(k + 1)
         /\ UpTo(0) = << >>
<1>0. Awaits \in Nat
  BY SequentialAssumption DEF L!LazyAssumption
<1>1. UpTo(k) \in Seq(1..Awaits) /\ Len(UpTo(k)) = k
  BY <1>0, IsASeq, LenProperties DEF UpTo
<1>2. ASSUME k < Awaits PROVE Append(UpTo(k), k + 1) = UpTo(k + 1)
  <2>1. /\ Append(UpTo(k), k + 1) \in Seq(1..Awaits) /\ Len(Append(UpTo(k), k + 1)) = k + 1
        /\ \A i \in 1..k : Append(UpTo(k), k + 1)[i] = i
        /\ Append(UpTo(k), k + 1)[k + 1] = k + 1
    BY <1>0, <1>1, <1>2, AppendProperties DEF UpTo
  <2>2. Append(UpTo(k), k + 1) = [i \in 1..(k + 1) |-> Append(UpTo(k), k + 1)[i]]
    BY <2>1, LenProperties
  <2> QED
    BY <2>1, <2>2 DEF UpTo
<1>3. UpTo(0) = << >>
  BY DEF UpTo
<1> QED
  BY <1>1, <1>2, <1>3

(* The constants, and the parts of the type that the steps use. *)
LEMMA LazyConstants ==
  /\ Replies \in Nat /\ Awaits \in Nat /\ 0 \in 0..Awaits /\ None # NoObject
  /\ None \notin 1..Replies /\ NoObject \notin 1..Replies
BY SequentialAssumption DEF L!LazyAssumption

(* The typing of LazyAwait, conjunct by conjunct. *)
LEMMA LazyTypes ==
  L!TypeOK <=> /\ stack \in Seq(Calls)
               /\ lFrame \in [1..Replies -> [0..Awaits -> L!States]]
               /\ got \in [1..Replies -> Seq(1..Awaits)]
               /\ sync \in [Syncs -> {NoObject, None} \cup 1..Replies]
               /\ answer \in {None} \cup 1..Replies
               /\ lUndef \in BOOLEAN
BY DEF L!TypeOK, Calls

(* The records LazyAwait puts on its stack are calls, with the fields they were made of. *)
LEMMA CallTypes ==
  ASSUME NEW r \in 1..Replies, NEW i \in 0..Awaits + 1,
         NEW what \in {"reply", "lazy", "resume", "awaiting"}
  PROVE  /\ L!Call(what, r, i) \in Calls
         /\ L!Call(what, r, i).what = what /\ L!Call(what, r, i).r = r /\ L!Call(what, r, i).i = i
BY DEF Calls, L!Call

(* It holds at first. *)
LEMMA LazyInit == L!Init => LazyInv
<1> SUFFICES ASSUME L!Init PROVE LazyInv
  OBVIOUS
<1>1. L!TypeOK
  <2>1. << >> \in Seq(Calls) /\ << >> \in Seq(1..Awaits)
    BY EmptySeq
  <2> QED
    BY <2>1, LazyConstants, LazyTypes DEF L!Init, L!States
<1>2. \A q \in 1..Replies : NotCalled(q)
  BY DEF L!Init, NotCalled
<1>3. Handles
  BY LazyConstants DEF L!Init, Handles
<1> QED
  BY <1>1, <1>2, <1>3 DEF LazyInv, L!Init, L!UndefinedOnlyEmptyGet

(* What has an owner keeps one. *)
OwnersKept == \A q \in 1..Replies : L!Held(q) => L!Held(q)'

(* A step inside of a call of reply r leaves the other replies and the variables alone. *)
LEMMA Inside ==
  ASSUME LazyInv, stack # << >>, NEW r \in 1..Replies, Going(r),
         \A q \in 1..Replies \ {r} : NotCalled(q) \/ Over(q),
         NEW f \in [0..Awaits -> L!States], NEW g \in Seq(1..Awaits),
         lFrame' = [lFrame EXCEPT ![r] = f], got' = [got EXCEPT ![r] = g],
         f[0] \in {"running", "suspended", "done"},
         stack' \in Seq(Calls), lUndef' = FALSE, UNCHANGED <<sync, answer>>,
         IF stack' = << >> THEN Over(r)' ELSE Going(r)'
  PROVE  LazyInv' /\ OwnersKept
<1>1. /\ lFrame \in [1..Replies -> [0..Awaits -> L!States]] /\ got \in [1..Replies -> Seq(1..Awaits)]
      /\ 0 \in 0..Awaits /\ sync \in [Syncs -> {NoObject, None} \cup 1..Replies]
      /\ answer \in {None} \cup 1..Replies
  <2>1. L!TypeOK
    BY DEF LazyInv
  <2> QED
    BY <2>1, LazyTypes, LazyConstants
<1>2. L!TypeOK'
  <2>1. /\ lFrame' \in [1..Replies -> [0..Awaits -> L!States]]
        /\ got' \in [1..Replies -> Seq(1..Awaits)]
    BY <1>1
  <2> QED
    BY <1>1, <2>1, LazyTypes DEF L!TypeOK, Calls
<1>3. ASSUME NEW q \in 1..Replies \ {r}
      PROVE  (NotCalled(q) \/ Over(q))'
  <2>1. lFrame'[q] = lFrame[q] /\ got'[q] = got[q]
    BY <1>1
  <2> QED
    BY <2>1 DEF NotCalled, Over, Received
<1>4. lFrame'[r] = f
  BY <1>1
<1>5. Handles'
  BY <1>1, <1>4 DEF Handles, LazyInv
<1>6. L!UndefinedOnlyEmptyGet'
  BY DEF L!UndefinedOnlyEmptyGet
<1>7. OwnersKept
  <2>1. lFrame[r][0] \in {"running", "suspended", "done"}
    BY DEF Going, AtReply, AtResume, AtLazy, AtAwaiting, Unwinding
  <2>2. \A q \in 1..Replies : L!Held(q)' <=> L!Held(q)
    BY <1>1, <1>4, <2>1 DEF L!Held
  <2> QED
    BY <2>2 DEF OwnersKept
<1> QED
  BY <1>2, <1>3, <1>5, <1>6, <1>7 DEF LazyInv

(* How far the reply in progress has come. *)
LEMMA Where ==
  ASSUME LazyInv, stack # << >>
  PROVE  \E r \in 1..Replies, k \in 0..Awaits :
           /\ Going(r) /\ \A q \in 1..Replies \ {r} : NotCalled(q) \/ Over(q)
           /\ Received(r, k)
           /\ AtReply(r, k) \/ AtResume(r, k) \/ AtLazy(r, k) \/ AtAwaiting(r, k) \/ Unwinding(r, k)
<1>1. PICK r \in 1..Replies : Going(r) /\ \A q \in 1..Replies \ {r} : NotCalled(q) \/ Over(q)
  BY DEF LazyInv
<1> QED
  BY <1>1 DEF Going

(* The call at the top makes another one, or returns. *)
LEMMA Pushed ==
  ASSUME L!TypeOK, stack # << >>, NEW x \in Calls, NEW y \in Calls,
         stack' = Append(L!Below, x) \o <<y>>
  PROVE  /\ Len(stack) \in Nat \ {0}
         /\ stack' \in Seq(Calls) /\ Len(stack') = Len(stack) + 1 /\ stack' # << >>
         /\ stack'[Len(stack)] = x /\ L!Top' = y
         /\ \A j \in 1..(Len(stack) - 1) : stack'[j] = stack[j]
<1>1. stack \in Seq(Calls)
  BY LazyTypes
<1> QED
  BY <1>1, StackOps DEF L!Below, L!Top

(* What is left of the stack when its top returns. *)
LEMMA Popped ==
  ASSUME L!TypeOK, stack # << >>, stack' = L!Below
  PROVE  /\ Len(stack) \in Nat \ {0}
         /\ stack' \in Seq(Calls) /\ Len(stack') = Len(stack) - 1 /\ (stack' # << >> <=> Len(stack) > 1)
         /\ \A j \in 1..(Len(stack) - 1) : stack'[j] = stack[j]
<1>1. stack \in Seq(Calls)
  BY LazyTypes
<1>2. PICK x \in Calls : x = stack[Len(stack)]
  BY <1>1, EmptySeq, ElementOfSeq
<1>3. /\ Len(stack) \in Nat \ {0} /\ stack' \in Seq(Calls) /\ Len(stack') = Len(stack) - 1
      /\ \A j \in 1..Len(stack') : stack'[j] = stack[j]
  BY <1>1, <1>2, StackOps, ZenonT(40) DEF L!Below
<1>4. stack' # << >> <=> Len(stack) > 1
  BY <1>3, EmptySeq
<1> QED
  BY <1>3, <1>4

(* The steps of the calls. *)
LEMMA CoAwaitKeeps == LazyInv /\ L!co_await => LazyInv' /\ OwnersKept
<1> SUFFICES ASSUME LazyInv, L!co_await PROVE LazyInv' /\ OwnersKept
  OBVIOUS
<1>1. L!TypeOK /\ stack # << >> /\ ~lUndef
  BY DEF LazyInv, L!co_await, L!Runs
<1>2. PICK r \in 1..Replies, k \in 0..Awaits :
        /\ Going(r) /\ \A q \in 1..Replies \ {r} : NotCalled(q) \/ Over(q)
        /\ Received(r, k)
        /\ AtReply(r, k) \/ AtResume(r, k) \/ AtLazy(r, k) \/ AtAwaiting(r, k) \/ Unwinding(r, k)
  BY <1>1, Where
<1>3. AtReply(r, k) /\ k < Awaits /\ L!Top.r = r /\ L!Top.i = k + 1
  <2>1. L!Top.what = "reply" /\ L!Top.i <= Awaits
    BY DEF L!co_await, L!Runs
  <2>2. ~AtResume(r, k) /\ ~AtLazy(r, k) /\ ~AtAwaiting(r, k)
    BY <2>1 DEF AtResume, AtLazy, AtAwaiting, L!Call
  <2>3. ~Unwinding(r, k)
    <3>1. Len(stack) \in 1..Len(stack)
      BY <1>1, LazyTypes, EmptySeq
    <3> QED
      BY <2>1, <3>1, LazyConstants DEF Unwinding, Outers, L!Call, L!Top
  <2> QED
    BY <1>2, <2>1, <2>2, <2>3, LazyConstants DEF AtReply, L!Call
<1>4. /\ stack' \in Seq(Calls) /\ Len(stack') = Len(stack) + 1 /\ stack' # << >>
      /\ stack'[Len(stack)] = L!Call("reply", r, Awaits + 1) /\ L!Top' = L!Call("resume", r, k + 1)
      /\ \A j \in 1..(Len(stack) - 1) : stack'[j] = stack[j]
      /\ Len(stack) \in Nat \ {0}
  <2>1. L!Call("reply", r, Awaits + 1) \in Calls /\ L!Call("resume", r, k + 1) \in Calls
    BY <1>3, LazyConstants, CallTypes
  <2>2. stack' = Append(L!Below, L!Call("reply", r, Awaits + 1)) \o <<L!Call("resume", r, k + 1)>>
    BY <1>3 DEF L!co_await
  <2> QED
    BY <1>1, <2>1, <2>2, Pushed
<1> DEFINE f == [lFrame[r] EXCEPT ![0] = "suspended", ![k + 1] = "suspended"]
<1>5. /\ f \in [0..Awaits -> L!States] /\ lFrame' = [lFrame EXCEPT ![r] = f]
      /\ f[0] = "suspended" /\ f[k + 1] = "suspended"
      /\ \A i \in 1..Awaits : i # k + 1 => f[i] = lFrame[r][i]
      /\ lFrame'[r] = f
  <2>1. /\ lFrame \in [1..Replies -> [0..Awaits -> L!States]] /\ lFrame[r] \in [0..Awaits -> L!States]
        /\ k + 1 \in 0..Awaits /\ k + 1 # 0 /\ 0 \in 0..Awaits
        /\ \A i \in 1..Awaits : i \in 0..Awaits /\ i # 0
    BY <1>1, <1>3, LazyTypes, LazyConstants
  <2>2. lFrame' = [lFrame EXCEPT ![r][0] = "suspended", ![r][k + 1] = "suspended"]
    BY <1>3 DEF L!co_await
  <2>3. f \in [0..Awaits -> L!States]
    BY <2>1 DEF L!States
  <2>4. lFrame' = [lFrame EXCEPT ![r] = f]
    BY <2>1, <2>2
  <2>5. f[0] = "suspended" /\ f[k + 1] = "suspended" /\ \A i \in 1..Awaits : i # k + 1 => f[i] = lFrame[r][i]
    BY <2>1
  <2> QED
    BY <2>1, <2>3, <2>4, <2>5
<1> HIDE DEF f
<1>6. got' = [got EXCEPT ![r] = got[r]] /\ got[r] \in Seq(1..Awaits) /\ got'[r] = got[r]
  BY <1>1, LazyTypes DEF L!co_await
<1>7. Going(r)'
  <2>1. Received(r, k)'
    <3>1. \A i \in 1..k : i \in 1..Awaits /\ i # k + 1
      BY LazyConstants
    <3>2. \A i \in (k + 2)..Awaits : i \in 1..Awaits /\ i # k + 1
      BY LazyConstants
    <3> QED
      BY <1>2, <1>5, <1>6, <3>1, <3>2 DEF Received, UpTo
  <2>2. Outers(Len(stack) - 1, r)'
    BY <1>3, <1>4 DEF AtReply, Outers
  <2>3. AtResume(r, k)'
    BY <1>3, <1>4, <1>5, <2>2 DEF AtResume
  <2> QED
    BY <2>1, <2>3 DEF Going
<1>8. lUndef' = FALSE /\ UNCHANGED <<sync, answer>>
  BY <1>1, LazyTypes DEF L!co_await
<1> QED
  BY <1>1, <1>2, <1>4, <1>5, <1>6, <1>7, <1>8, Inside

(* awaiting::resume(): lazy.resume() *)
LEMMA ResumeLazyKeeps == LazyInv /\ L!resume_lazy => LazyInv' /\ OwnersKept
<1> SUFFICES ASSUME LazyInv, L!resume_lazy PROVE LazyInv' /\ OwnersKept
  OBVIOUS
<1>1. L!TypeOK /\ stack # << >> /\ ~lUndef /\ Len(stack) \in 1..Len(stack)
  <2>1. L!TypeOK /\ stack # << >> /\ ~lUndef
    BY DEF LazyInv, L!resume_lazy, L!Runs
  <2> QED
    BY <2>1, LazyTypes, EmptySeq
<1>2. PICK r \in 1..Replies, k \in 0..Awaits :
        /\ Going(r) /\ \A q \in 1..Replies \ {r} : NotCalled(q) \/ Over(q)
        /\ Received(r, k)
        /\ AtReply(r, k) \/ AtResume(r, k) \/ AtLazy(r, k) \/ AtAwaiting(r, k) \/ Unwinding(r, k)
  BY <1>1, Where
<1>3. AtResume(r, k) /\ L!Top.r = r /\ L!Top.i = k + 1
  <2>1. L!Top.what = "resume"
    BY DEF L!resume_lazy, L!Runs
  <2>2. AtResume(r, k)
    BY <1>1, <1>2, <2>1 DEF AtReply, AtLazy, AtAwaiting, Unwinding, Outers, L!Call, L!Top
  <2> QED
    BY <2>2 DEF AtResume, L!Call
<1>4. /\ stack' \in Seq(Calls) /\ Len(stack') = Len(stack) + 1 /\ stack' # << >>
      /\ stack'[Len(stack)] = L!Call("awaiting", r, k + 1) /\ L!Top' = L!Call("lazy", r, k + 1)
      /\ \A j \in 1..(Len(stack) - 1) : stack'[j] = stack[j]
      /\ Len(stack) \in Nat \ {0}
  <2>1. L!Call("awaiting", r, k + 1) \in Calls /\ L!Call("lazy", r, k + 1) \in Calls
    BY LazyConstants, CallTypes
  <2>2. stack' = Append(L!Below, L!Call("awaiting", r, k + 1)) \o <<L!Call("lazy", r, k + 1)>>
    BY <1>3 DEF L!resume_lazy
  <2> QED
    BY <1>1, <2>1, <2>2, Pushed
<1> DEFINE f == [lFrame[r] EXCEPT ![k + 1] = "running"]
<1>5. /\ f \in [0..Awaits -> L!States] /\ lFrame' = [lFrame EXCEPT ![r] = f]
      /\ f[0] = "suspended" /\ f[k + 1] = "running"
      /\ \A i \in 1..Awaits : i # k + 1 => f[i] = lFrame[r][i]
      /\ lFrame'[r] = f
  <2>1. /\ lFrame \in [1..Replies -> [0..Awaits -> L!States]] /\ lFrame[r] \in [0..Awaits -> L!States]
        /\ 0 \in 0..Awaits /\ \A i \in 1..Awaits : i \in 0..Awaits /\ i # 0
    BY <1>1, LazyTypes, LazyConstants
  <2>2. k + 1 \in 1..Awaits /\ lFrame' = [lFrame EXCEPT ![r][k + 1] = "running"]
    <3>1. k + 1 \in 1..Awaits
      BY <1>3, LazyConstants DEF AtResume
    <3> QED
      BY <1>3, <3>1 DEF L!resume_lazy
  <2>3. f \in [0..Awaits -> L!States]
    BY <2>1 DEF L!States
  <2>4. lFrame' = [lFrame EXCEPT ![r] = f]
    BY <2>1, <2>2
  <2>5. f[0] = "suspended" /\ f[k + 1] = "running" /\ \A i \in 1..Awaits : i # k + 1 => f[i] = lFrame[r][i]
    BY <1>3, <2>1, <2>2 DEF AtResume
  <2> QED
    BY <2>1, <2>3, <2>4, <2>5
<1> HIDE DEF f
<1>6. got' = [got EXCEPT ![r] = got[r]] /\ got[r] \in Seq(1..Awaits) /\ got'[r] = got[r]
  BY <1>1, LazyTypes DEF L!resume_lazy
<1>7. Going(r)'
  <2>1. Received(r, k)'
    <3>1. \A i \in 1..k : i \in 1..Awaits /\ i # k + 1
      BY LazyConstants
    <3>2. \A i \in (k + 2)..Awaits : i \in 1..Awaits /\ i # k + 1
      BY LazyConstants
    <3> QED
      BY <1>2, <1>5, <1>6, <3>1, <3>2 DEF Received, UpTo
  <2>2. Outers(Len(stack) - 2, r)'
    BY <1>3, <1>4 DEF AtResume, Outers
  <2>3. Len(stack') - 1 = Len(stack) /\ Len(stack') - 2 = Len(stack) - 1 /\ Len(stack') > 1
    BY <1>4
  <2>4. Outers(Len(stack) - 2, r)' /\ stack'[Len(stack') - 1] = L!Call("awaiting", r, k + 1)
    BY <1>4, <2>2, <2>3
  <2>5. AtLazy(r, k)'
    BY <1>3, <1>4, <1>5, <2>3, <2>4 DEF AtLazy, AtResume, L!Call
  <2> QED
    BY <2>1, <2>5 DEF Going
<1>8. lUndef' = FALSE /\ UNCHANGED <<sync, answer>>
  BY <1>1, <1>3 DEF L!resume_lazy, AtResume
<1> QED
  BY <1>1, <1>2, <1>4, <1>5, <1>6, <1>7, <1>8, Inside

(* lazy's co_return *)
LEMMA CoReturnLazyKeeps == LazyInv /\ L!co_return_lazy => LazyInv' /\ OwnersKept
<1> SUFFICES ASSUME LazyInv, L!co_return_lazy PROVE LazyInv' /\ OwnersKept
  OBVIOUS
<1>1. L!TypeOK /\ stack # << >> /\ ~lUndef /\ Len(stack) \in 1..Len(stack)
  <2>1. L!TypeOK /\ stack # << >> /\ ~lUndef
    BY DEF LazyInv, L!co_return_lazy, L!Runs
  <2> QED
    BY <2>1, LazyTypes, EmptySeq
<1>2. PICK r \in 1..Replies, k \in 0..Awaits :
        /\ Going(r) /\ \A q \in 1..Replies \ {r} : NotCalled(q) \/ Over(q)
        /\ Received(r, k)
        /\ AtReply(r, k) \/ AtResume(r, k) \/ AtLazy(r, k) \/ AtAwaiting(r, k) \/ Unwinding(r, k)
  BY <1>1, Where
<1>3. AtLazy(r, k) /\ L!Top.r = r /\ L!Top.i = k + 1
  <2>1. L!Top.what = "lazy"
    BY DEF L!co_return_lazy, L!Runs
  <2>2. AtLazy(r, k)
    BY <1>1, <1>2, <2>1 DEF AtReply, AtResume, AtAwaiting, Unwinding, Outers, L!Call, L!Top
  <2> QED
    BY <2>2 DEF AtLazy, L!Call
<1>4. /\ stack' \in Seq(Calls) /\ Len(stack') = Len(stack) - 1 /\ stack' # << >> /\ Len(stack) > 1
      /\ \A j \in 1..(Len(stack) - 1) : stack'[j] = stack[j]
      /\ Len(stack) \in Nat \ {0}
  BY <1>1, <1>3, Popped DEF AtLazy, L!co_return_lazy
<1> DEFINE f == [lFrame[r] EXCEPT ![k + 1] = "done"]
<1>5. /\ f \in [0..Awaits -> L!States] /\ lFrame' = [lFrame EXCEPT ![r] = f]
      /\ f[0] = "suspended" /\ f[k + 1] = "done"
      /\ \A i \in 1..Awaits : i # k + 1 => f[i] = lFrame[r][i]
      /\ lFrame'[r] = f
  <2>1. /\ lFrame \in [1..Replies -> [0..Awaits -> L!States]] /\ lFrame[r] \in [0..Awaits -> L!States]
        /\ 0 \in 0..Awaits /\ \A i \in 1..Awaits : i \in 0..Awaits /\ i # 0
    BY <1>1, LazyTypes, LazyConstants
  <2>2. k + 1 \in 1..Awaits /\ lFrame' = [lFrame EXCEPT ![r][k + 1] = "done"]
    <3>1. k + 1 \in 1..Awaits
      BY <1>3, LazyConstants DEF AtLazy
    <3> QED
      BY <1>3, <3>1 DEF L!co_return_lazy
  <2>3. f \in [0..Awaits -> L!States]
    BY <2>1 DEF L!States
  <2>4. lFrame' = [lFrame EXCEPT ![r] = f]
    BY <2>1, <2>2
  <2>5. f[0] = "suspended" /\ f[k + 1] = "done" /\ \A i \in 1..Awaits : i # k + 1 => f[i] = lFrame[r][i]
    BY <1>3, <2>1, <2>2 DEF AtLazy
  <2> QED
    BY <2>1, <2>3, <2>4, <2>5
<1> HIDE DEF f
<1>6. got' = [got EXCEPT ![r] = got[r]] /\ got[r] \in Seq(1..Awaits) /\ got'[r] = got[r]
  BY <1>1, LazyTypes DEF L!co_return_lazy
<1>7. Going(r)'
  <2>1. Received(r, k)'
    <3>1. \A i \in 1..k : i \in 1..Awaits /\ i # k + 1
      BY LazyConstants
    <3>2. \A i \in (k + 2)..Awaits : i \in 1..Awaits /\ i # k + 1
      BY LazyConstants
    <3> QED
      BY <1>2, <1>5, <1>6, <3>1, <3>2 DEF Received, UpTo
  <2>2. Outers(Len(stack) - 1, r)'
    BY <1>3, <1>4, SMTT(30) DEF AtLazy, Outers
  <2>3. L!Top' = L!Call("awaiting", r, k + 1)
    BY <1>3, <1>4 DEF AtLazy, L!Top
  <2>4. AtAwaiting(r, k)'
    BY <1>3, <1>4, <1>5, <2>2, <2>3 DEF AtLazy, AtAwaiting, L!Call
  <2> QED
    BY <2>1, <2>4 DEF Going
<1>8. lUndef' = FALSE /\ UNCHANGED <<sync, answer>>
  BY <1>1, LazyTypes DEF L!co_return_lazy
<1> QED
  BY <1>1, <1>2, <1>4, <1>5, <1>6, <1>7, <1>8, Inside

(* awaiting.resume(), where lazy has ended *)
LEMMA AwaitingResumeKeeps == LazyInv /\ L!awaiting_resume => LazyInv' /\ OwnersKept
<1> SUFFICES ASSUME LazyInv, L!awaiting_resume PROVE LazyInv' /\ OwnersKept
  OBVIOUS
<1>1. L!TypeOK /\ stack # << >> /\ ~lUndef /\ Len(stack) \in 1..Len(stack)
  <2>1. L!TypeOK /\ stack # << >> /\ ~lUndef
    BY DEF LazyInv, L!awaiting_resume, L!Runs
  <2> QED
    BY <2>1, LazyTypes, EmptySeq
<1>2. PICK r \in 1..Replies, k \in 0..Awaits :
        /\ Going(r) /\ \A q \in 1..Replies \ {r} : NotCalled(q) \/ Over(q)
        /\ Received(r, k)
        /\ AtReply(r, k) \/ AtResume(r, k) \/ AtLazy(r, k) \/ AtAwaiting(r, k) \/ Unwinding(r, k)
  BY <1>1, Where
<1>3. AtAwaiting(r, k) /\ L!Top.r = r /\ L!Top.i = k + 1
  <2>1. L!Top.what = "awaiting" /\ L!Top.i <= Awaits
    BY DEF L!awaiting_resume, L!Runs
  <2>2. AtAwaiting(r, k)
    BY <1>1, <1>2, <2>1, LazyConstants DEF AtReply, AtResume, AtLazy, Unwinding, Outers, L!Call, L!Top
  <2> QED
    BY <2>2 DEF AtAwaiting, L!Call
<1>4. /\ stack' \in Seq(Calls) /\ Len(stack') = Len(stack) + 1 /\ stack' # << >>
      /\ stack'[Len(stack)] = L!Call("awaiting", r, Awaits + 1) /\ L!Top' = L!Call("reply", r, k + 1 + 1)
      /\ \A j \in 1..(Len(stack) - 1) : stack'[j] = stack[j]
      /\ Len(stack) \in Nat \ {0}
  <2>1. L!Call("awaiting", r, Awaits + 1) \in Calls /\ L!Call("reply", r, k + 1 + 1) \in Calls
    BY <1>3, LazyConstants, CallTypes DEF AtAwaiting
  <2>2. stack' = Append(L!Below, L!Call("awaiting", r, Awaits + 1)) \o <<L!Call("reply", r, k + 1 + 1)>>
    BY <1>3 DEF L!awaiting_resume
  <2> QED
    BY <1>1, <2>1, <2>2, Pushed
<1> DEFINE f == [lFrame[r] EXCEPT ![0] = "running", ![k + 1] = "destroyed"]
<1>5. /\ f \in [0..Awaits -> L!States] /\ lFrame' = [lFrame EXCEPT ![r] = f]
      /\ f[0] = "running" /\ f[k + 1] = "destroyed"
      /\ \A i \in 1..Awaits : i # k + 1 => f[i] = lFrame[r][i]
      /\ lFrame'[r] = f
  <2>1. /\ lFrame \in [1..Replies -> [0..Awaits -> L!States]] /\ lFrame[r] \in [0..Awaits -> L!States]
        /\ 0 \in 0..Awaits /\ \A i \in 1..Awaits : i \in 0..Awaits /\ i # 0
    BY <1>1, LazyTypes, LazyConstants
  <2>2. k + 1 \in 1..Awaits /\ lFrame' = [lFrame EXCEPT ![r][0] = "running", ![r][k + 1] = "destroyed"]
    <3>1. k + 1 \in 1..Awaits
      BY <1>3, LazyConstants DEF AtAwaiting
    <3> QED
      BY <1>3, <3>1 DEF L!awaiting_resume
  <2>3. f \in [0..Awaits -> L!States]
    BY <2>1 DEF L!States
  <2>4. lFrame' = [lFrame EXCEPT ![r] = f]
    BY <2>1, <2>2
  <2>5. f[0] = "running" /\ f[k + 1] = "destroyed" /\ \A i \in 1..Awaits : i # k + 1 => f[i] = lFrame[r][i]
    BY <1>3, <2>1, <2>2
  <2> QED
    BY <2>1, <2>3, <2>4, <2>5
<1> HIDE DEF f
<1>6. LET g == Append(got[r], k + 1)
      IN  got' = [got EXCEPT ![r] = g] /\ g \in Seq(1..Awaits) /\ got'[r] = g /\ g = UpTo(k + 1)
  <2>1. got \in [1..Replies -> Seq(1..Awaits)] /\ got[r] = UpTo(k) /\ k + 1 \in 0..Awaits
    BY <1>1, <1>2, <1>3, LazyTypes, LazyConstants DEF Received, AtAwaiting
  <2>2. Append(got[r], k + 1) = UpTo(k + 1) /\ UpTo(k + 1) \in Seq(1..Awaits)
    BY <1>3, <2>1, OneMore DEF AtAwaiting
  <2>3. got' = [got EXCEPT ![r] = Append(got[r], k + 1)]
    BY <1>3 DEF L!awaiting_resume
  <2> QED
    BY <2>1, <2>2, <2>3
<1>7. Going(r)'
  <2>0. k + 1 \in 0..Awaits /\ k < Awaits
    BY <1>3, LazyConstants DEF AtAwaiting
  <2>1. Received(r, k + 1)'
    <3>1. \A i \in 1..(k + 1) : i = k + 1 \/ (i \in 1..k /\ i \in 1..Awaits)
      BY <2>0, LazyConstants
    <3>2. \A i \in (k + 1 + 2)..Awaits : i \in 1..Awaits /\ i # k + 1 /\ i \in (k + 2)..Awaits
      BY LazyConstants
    <3> QED
      BY <1>2, <1>5, <1>6, <3>1, <3>2 DEF Received, UpTo
  <2>2. Outers(Len(stack) - 1, r)'
    BY <1>3, <1>4 DEF AtAwaiting, Outers
  <2>3. k + 1 < Awaits => lFrame'[r][k + 1 + 1] = "none"
    <3>1. k + 1 < Awaits => k + 1 + 1 \in (k + 2)..Awaits /\ k + 1 + 1 \in 1..Awaits /\ k + 1 + 1 # k + 1
      BY <2>0, LazyConstants
    <3> QED
      BY <1>2, <1>5, <3>1 DEF Received
  <2>4. AtReply(r, k + 1)'
    BY <1>4, <1>5, <2>2, <2>3 DEF AtReply, L!Call
  <2> QED
    BY <2>0, <2>1, <2>4 DEF Going
<1>8. lUndef' = FALSE /\ UNCHANGED <<sync, answer>>
  BY <1>1, <1>3 DEF L!awaiting_resume, AtAwaiting
<1> QED
  BY <1>1, <1>2, <1>4, <1>5, <1>6, <1>7, <1>8, Inside

(* await_suspend returns to the coroutine's resumer *)
LEMMA AwaitSuspendReturnsKeeps == LazyInv /\ L!await_suspend_returns => LazyInv' /\ OwnersKept
<1> SUFFICES ASSUME LazyInv, L!await_suspend_returns PROVE LazyInv' /\ OwnersKept
  OBVIOUS
<1>1. L!TypeOK /\ stack # << >> /\ ~lUndef /\ Len(stack) \in 1..Len(stack)
  <2>1. L!TypeOK /\ stack # << >> /\ ~lUndef
    BY DEF LazyInv, L!await_suspend_returns, L!Runs
  <2> QED
    BY <2>1, LazyTypes, EmptySeq
<1>2. PICK r \in 1..Replies, k \in 0..Awaits :
        /\ Going(r) /\ \A q \in 1..Replies \ {r} : NotCalled(q) \/ Over(q)
        /\ Received(r, k)
        /\ AtReply(r, k) \/ AtResume(r, k) \/ AtLazy(r, k) \/ AtAwaiting(r, k) \/ Unwinding(r, k)
  BY <1>1, Where
<1>3. Unwinding(r, k)
  <2>1. L!Top.what = "awaiting" /\ L!Top.i = Awaits + 1 
    BY DEF L!await_suspend_returns, L!Runs
  <2>2. ~AtAwaiting(r, k)
    BY <2>1, LazyConstants DEF AtAwaiting, L!Call
  <2> QED
    BY <1>2, <2>1, <2>2 DEF AtReply, AtResume, AtLazy, L!Call
<1>4. /\ stack' \in Seq(Calls) /\ Len(stack') = Len(stack) - 1 /\ (stack' # << >> <=> Len(stack) > 1)
      /\ \A j \in 1..(Len(stack) - 1) : stack'[j] = stack[j]
      /\ Len(stack) \in Nat \ {0}
  BY <1>1, Popped DEF L!await_suspend_returns
<1>5. /\ lFrame[r] \in [0..Awaits -> L!States] /\ lFrame' = [lFrame EXCEPT ![r] = lFrame[r]]
      /\ lFrame'[r] = lFrame[r] /\ lFrame[r][0] = "done"
  BY <1>1, <1>3, LazyTypes DEF L!await_suspend_returns, Unwinding
<1>6. got' = [got EXCEPT ![r] = got[r]] /\ got[r] \in Seq(1..Awaits) /\ got'[r] = got[r]
  BY <1>1, LazyTypes DEF L!await_suspend_returns
<1>7. /\ stack' = << >> => Over(r)'
      /\ stack' # << >> => Going(r)'
  <2>1. Received(r, k)'
    BY <1>2, <1>5, <1>6 DEF Received, UpTo
  <2>2. Outers(Len(stack), r)'
    BY <1>3, <1>4 DEF Unwinding, Outers
  <2>3. Unwinding(r, k)'
    BY <1>3, <1>5, <2>2 DEF Unwinding
  <2> QED
    BY <1>3, <1>5, <2>1, <2>3 DEF Going, Over, Unwinding
<1>8. lUndef' = FALSE /\ UNCHANGED <<sync, answer>>
  BY <1>1, LazyTypes DEF L!await_suspend_returns
<1> QED
  BY <1>1, <1>2, <1>4, <1>5, <1>6, <1>7, <1>8, Inside

(* reply() returns its sync *)
LEMMA ReplyReturnsKeeps == LazyInv /\ L!reply_returns => LazyInv' /\ OwnersKept
<1> SUFFICES ASSUME LazyInv, L!reply_returns PROVE LazyInv' /\ OwnersKept
  OBVIOUS
<1>1. L!TypeOK /\ stack # << >> /\ ~lUndef /\ Len(stack) \in 1..Len(stack)
  <2>1. L!TypeOK /\ stack # << >> /\ ~lUndef
    BY DEF LazyInv, L!reply_returns, L!Runs
  <2> QED
    BY <2>1, LazyTypes, EmptySeq
<1>2. PICK r \in 1..Replies, k \in 0..Awaits :
        /\ Going(r) /\ \A q \in 1..Replies \ {r} : NotCalled(q) \/ Over(q)
        /\ Received(r, k)
        /\ AtReply(r, k) \/ AtResume(r, k) \/ AtLazy(r, k) \/ AtAwaiting(r, k) \/ Unwinding(r, k)
  BY <1>1, Where
<1>3. Unwinding(r, k)
  <2>1. L!Top.what = "reply" /\ L!Top.i = Awaits + 1 /\ lFrame[L!Top.r][0] # "running"
    BY DEF L!reply_returns, L!Runs
  <2>2. ~AtReply(r, k)
    BY <2>1 DEF AtReply, L!Call
  <2> QED
    BY <1>2, <2>1, <2>2 DEF AtResume, AtLazy, AtAwaiting, L!Call
<1>4. /\ stack' \in Seq(Calls) /\ Len(stack') = Len(stack) - 1 /\ (stack' # << >> <=> Len(stack) > 1)
      /\ \A j \in 1..(Len(stack) - 1) : stack'[j] = stack[j]
      /\ Len(stack) \in Nat \ {0}
  BY <1>1, Popped DEF L!reply_returns
<1>5. /\ lFrame[r] \in [0..Awaits -> L!States] /\ lFrame' = [lFrame EXCEPT ![r] = lFrame[r]]
      /\ lFrame'[r] = lFrame[r] /\ lFrame[r][0] = "done"
  BY <1>1, <1>3, LazyTypes DEF L!reply_returns, Unwinding
<1>6. got' = [got EXCEPT ![r] = got[r]] /\ got[r] \in Seq(1..Awaits) /\ got'[r] = got[r]
  BY <1>1, LazyTypes DEF L!reply_returns
<1>7. /\ stack' = << >> => Over(r)'
      /\ stack' # << >> => Going(r)'
  <2>1. Received(r, k)'
    BY <1>2, <1>5, <1>6 DEF Received, UpTo
  <2>2. Outers(Len(stack), r)'
    BY <1>3, <1>4 DEF Unwinding, Outers
  <2>3. Unwinding(r, k)'
    BY <1>3, <1>5, <2>2 DEF Unwinding
  <2> QED
    BY <1>3, <1>5, <2>1, <2>3 DEF Going, Over, Unwinding
<1>8. lUndef' = FALSE /\ UNCHANGED <<sync, answer>>
  BY <1>1, LazyTypes DEF L!reply_returns
<1> QED
  BY <1>1, <1>2, <1>4, <1>5, <1>6, <1>7, <1>8, Inside

(* reply's co_return *)
LEMMA CoReturnKeeps == LazyInv /\ L!co_return => LazyInv' /\ OwnersKept
<1> SUFFICES ASSUME LazyInv, L!co_return PROVE LazyInv' /\ OwnersKept
  OBVIOUS
<1>1. L!TypeOK /\ stack # << >> /\ ~lUndef /\ Len(stack) \in 1..Len(stack)
  <2>1. L!TypeOK /\ stack # << >> /\ ~lUndef
    BY DEF LazyInv, L!co_return, L!Runs
  <2> QED
    BY <2>1, LazyTypes, EmptySeq
<1>2. PICK r \in 1..Replies, k \in 0..Awaits :
        /\ Going(r) /\ \A q \in 1..Replies \ {r} : NotCalled(q) \/ Over(q)
        /\ Received(r, k)
        /\ AtReply(r, k) \/ AtResume(r, k) \/ AtLazy(r, k) \/ AtAwaiting(r, k) \/ Unwinding(r, k)
  BY <1>1, Where
<1>3. AtReply(r, k) /\ k = Awaits /\ L!Top.r = r
  <2>1. L!Top.what = "reply" /\ L!Top.i = Awaits + 1 /\ lFrame[L!Top.r][0] = "running"
    BY DEF L!co_return, L!Runs
  <2>2. ~Unwinding(r, k)
    BY <1>1, <2>1 DEF Unwinding, Outers, L!Call, L!Top
  <2>3. AtReply(r, k)
    BY <1>2, <2>1, <2>2 DEF AtResume, AtLazy, AtAwaiting, L!Call
  <2> QED
    BY <2>1, <2>3, LazyConstants DEF AtReply, L!Call
<1>4. /\ stack' \in Seq(Calls) /\ Len(stack') = Len(stack) - 1 /\ (stack' # << >> <=> Len(stack) > 1)
      /\ \A j \in 1..(Len(stack) - 1) : stack'[j] = stack[j]
      /\ Len(stack) \in Nat \ {0}
  BY <1>1, Popped DEF L!co_return
<1> DEFINE f == [lFrame[r] EXCEPT ![0] = "done"]
<1>5. /\ f \in [0..Awaits -> L!States] /\ lFrame' = [lFrame EXCEPT ![r] = f]
      /\ f[0] = "done" /\ \A i \in 1..Awaits : f[i] = lFrame[r][i]
      /\ lFrame'[r] = f
  <2>1. /\ lFrame \in [1..Replies -> [0..Awaits -> L!States]] /\ lFrame[r] \in [0..Awaits -> L!States]
        /\ 0 \in 0..Awaits /\ \A i \in 1..Awaits : i \in 0..Awaits /\ i # 0
    BY <1>1, LazyTypes, LazyConstants
  <2>2. lFrame' = [lFrame EXCEPT ![r][0] = "done"]
    BY <1>3 DEF L!co_return
  <2>3. f \in [0..Awaits -> L!States]
    BY <2>1 DEF L!States
  <2>4. lFrame' = [lFrame EXCEPT ![r] = f]
    BY <2>1, <2>2
  <2>5. f[0] = "done" /\ \A i \in 1..Awaits : f[i] = lFrame[r][i]
    BY <2>1
  <2> QED
    BY <2>1, <2>3, <2>4, <2>5
<1> HIDE DEF f
<1>6. got' = [got EXCEPT ![r] = got[r]] /\ got[r] \in Seq(1..Awaits) /\ got'[r] = got[r]
  BY <1>1, LazyTypes DEF L!co_return
<1>7. /\ stack' = << >> => Over(r)'
      /\ stack' # << >> => Going(r)'
  <2>1. Received(r, k)'
    <3>1. \A i \in 1..k : i \in 1..Awaits /\ i # k + 1
      BY LazyConstants
    <3>2. \A i \in (k + 2)..Awaits : i \in 1..Awaits /\ i # k + 1
      BY LazyConstants
    <3> QED
      BY <1>2, <1>5, <1>6, <3>1, <3>2 DEF Received, UpTo
  <2>2. Outers(Len(stack), r)'
    BY <1>3, <1>4 DEF AtReply, Outers
  <2>3. Unwinding(r, k)'
    BY <1>3, <1>5, <2>2 DEF Unwinding
  <2> QED
    BY <1>3, <1>5, <2>1, <2>3 DEF Going, Over
<1>8. lUndef' = FALSE /\ UNCHANGED <<sync, answer>>
  BY <1>1, LazyTypes DEF L!co_return
<1> QED
  BY <1>1, <1>2, <1>4, <1>5, <1>6, <1>7, <1>8, Inside

(* What main does between the calls: no reply is in progress, and the handles that it has *)
(* are those of replies that are done.                                                  *)
Overwritten(q) == \E v \in Syncs : sync[v] = q /\ sync'[v] \notin {q, NoObject}

(* While main() runs no call is in progress: every reply has ended or was never called. *)
LEMMA MainHas ==
  ASSUME LazyInv, L!MainRuns
  PROVE  /\ \A q \in 1..Replies : NotCalled(q) \/ Over(q)
         /\ \A v \in Syncs : sync[v] \in 1..Replies => lFrame[sync[v]][0] = "done" /\ Over(sync[v])
         /\ \A v, w \in Syncs : sync[v] \in 1..Replies /\ sync[v] = sync[w] => v = w
         /\ stack = << >> /\ stack \in Seq(Calls) /\ lUndef = FALSE
         /\ lFrame \in [1..Replies -> [0..Awaits -> L!States]]
         /\ got \in [1..Replies -> Seq(1..Awaits)]
         /\ sync \in [Syncs -> {NoObject, None} \cup 1..Replies]
         /\ answer \in {None} \cup 1..Replies
<1>1. stack = << >> /\ L!TypeOK /\ lUndef = FALSE
  <2>1. L!TypeOK /\ stack = << >> /\ ~lUndef
    BY DEF LazyInv, L!MainRuns
  <2> QED
    BY <2>1, LazyTypes
<1>2. \A q \in 1..Replies : NotCalled(q) \/ Over(q)
  BY <1>1 DEF LazyInv
<1>3. ASSUME NEW v \in Syncs, sync[v] \in 1..Replies
      PROVE  lFrame[sync[v]][0] = "done" /\ Over(sync[v])
  <2>1. lFrame[sync[v]][0] \in {"running", "suspended", "done"}
    BY <1>3 DEF LazyInv, Handles
  <2>2. NotCalled(sync[v]) => lFrame[sync[v]][0] = "none"
    BY LazyConstants DEF NotCalled
  <2> QED
    BY <1>2, <1>3, <2>1, <2>2 DEF Over
<1>4. \A v, w \in Syncs : sync[v] \in 1..Replies /\ sync[v] = sync[w] => v = w
  BY DEF LazyInv, Handles
<1> QED
  BY <1>1, <1>2, <1>3, <1>4, LazyTypes

(* main() calls reply() *)
LEMMA ReplyKeeps ==
  ASSUME LazyInv, NEW v \in Syncs, L!reply(v)
  PROVE  LazyInv' /\ \A q \in 1..Replies : L!Held(q) /\ ~L!Held(q)' => Overwritten(q)
<1>1. L!MainRuns
  BY DEF L!reply
<1>2. PICK r \in 1..Replies :
        /\ \A q \in 1..Replies : lFrame[q][0] = "none" <=> q >= r
        /\ lFrame' = [lFrame EXCEPT ![r][0] = "running"]
        /\ sync' = [sync EXCEPT ![v] = r]
        /\ stack' = <<L!Call("reply", r, 1)>>
  BY DEF L!reply
<1>3. UNCHANGED <<got, answer, lUndef>>
  BY DEF L!reply
<1>4. lFrame[r][0] = "none" /\ NotCalled(r)
  <2>1. lFrame[r][0] = "none"
    BY <1>2
  <2> QED
    BY <1>1, <2>1, MainHas DEF Over
<1>5. \A w \in Syncs : sync[w] # r
  BY <1>1, <1>4, MainHas
<1>6. /\ lFrame' \in [1..Replies -> [0..Awaits -> L!States]]
      /\ lFrame'[r][0] = "running" /\ \A i \in 1..Awaits : lFrame'[r][i] = lFrame[r][i]
      /\ \A q \in 1..Replies : q # r => lFrame'[q] = lFrame[q]
  <2>1. /\ lFrame \in [1..Replies -> [0..Awaits -> L!States]] /\ 0 \in 0..Awaits
        /\ \A i \in 1..Awaits : i \in 0..Awaits /\ i # 0
    BY <1>1, MainHas, LazyConstants
  <2> QED
    BY <1>2, <2>1 DEF L!States
<1>7. /\ stack' \in Seq(Calls) /\ stack' # << >> /\ Len(stack') = 1 /\ L!Top' = L!Call("reply", r, 0 + 1)
  <2>1. L!Call("reply", r, 1) \in Calls
    BY LazyConstants, CallTypes
  <2>2. stack' \in Seq(Calls) /\ stack' # << >> /\ Len(stack') = 1 /\ stack'[1] = L!Call("reply", r, 1)
    BY <1>2, <2>1
  <2> QED
    BY <2>2 DEF L!Top
<1>8. L!TypeOK'
  BY <1>1, <1>2, <1>3, <1>6, <1>7, MainHas DEF L!TypeOK, Calls
<1>9. Going(r)'
  <2>1. Received(r, 0)'
    <3>1. got'[r] = UpTo(0)
      BY <1>3, <1>4, OneMore, LazyConstants DEF NotCalled
    <3>2. \A i \in (0 + 2)..Awaits : i \in 1..Awaits /\ i \in 0..Awaits
      BY LazyConstants
    <3> QED
      BY <1>4, <1>6, <3>1, <3>2 DEF Received, NotCalled, UpTo
  <2>2. Outers(Len(stack) - 1, r)'
    BY <1>7 DEF Outers
  <2>3. 0 < Awaits => lFrame'[r][0 + 1] = "none"
    <3>1. 0 < Awaits => 0 + 1 \in 1..Awaits /\ 0 + 1 \in 0..Awaits
      BY LazyConstants
    <3> QED
      BY <1>4, <1>6, <3>1 DEF NotCalled
  <2>4. AtReply(r, 0)'
    BY <1>6, <1>7, <2>2, <2>3 DEF AtReply, L!Call
  <2> QED
    BY <2>1, <2>4, LazyConstants DEF Going
<1>10. \A q \in 1..Replies \ {r} : (NotCalled(q) \/ Over(q))'
  BY <1>1, <1>3, <1>6, MainHas DEF NotCalled, Over, Received, UpTo
<1>11. Handles'
  BY <1>1, <1>2, <1>5, <1>6, MainHas DEF Handles
<1>12. LazyInv'
  BY <1>1, <1>3, <1>7, <1>8, <1>9, <1>10, <1>11, MainHas DEF LazyInv, L!UndefinedOnlyEmptyGet
<1>13. ASSUME NEW q \in 1..Replies, L!Held(q), ~L!Held(q)' PROVE Overwritten(q)
  <2>1. q # r
    BY <1>1, <1>2, <1>13, MainHas DEF L!Held
  <2>2. PICK w \in Syncs : sync[w] = q
    BY <1>6, <1>13, <2>1 DEF L!Held
  <2>3. sync'[w] # q
    BY <1>13, <2>2 DEF L!Held
  <2>4. sync'[w] = r
    BY <1>1, <1>2, <2>2, <2>3, MainHas
  <2> QED
    BY <2>1, <2>2, <2>4, LazyConstants DEF Overwritten
<1> QED
  BY <1>12, <1>13

(* sync::get() *)
LEMMA SyncGetKeeps ==
  ASSUME LazyInv, NEW v \in Syncs, L!get(v)
  PROVE  LazyInv' /\ OwnersKept
<1>1. L!MainRuns /\ sync[v] # NoObject /\ UNCHANGED <<stack, lFrame, got, sync>>
  BY DEF L!get
<1>2. sync[v] # None => lFrame[sync[v]][0] = "done" /\ sync[v] \in 1..Replies
  BY <1>1, MainHas
<1>3. lUndef' = (sync[v] = None) /\ answer' \in {None} \cup 1..Replies
  <2>1. /\ lUndef' = (sync[v] = None \/ (sync[v] # None /\ lFrame[sync[v]][0] # "done"))
        /\ answer' = IF lUndef' THEN answer ELSE sync[v]
    BY DEF L!get
  <2>2. lUndef' = (sync[v] = None)
    BY <1>2, <2>1
  <2> QED
    BY <1>1, <1>2, <2>1, <2>2, MainHas
<1>4. L!TypeOK'
  BY <1>1, <1>3, MainHas DEF L!TypeOK, Calls
<1>5. /\ \A q \in 1..Replies : (NotCalled(q) \/ Over(q))'
      /\ Handles' /\ stack' = << >> /\ L!UndefinedOnlyEmptyGet'
  <2>1. \A q \in 1..Replies : (NotCalled(q) \/ Over(q))'
    BY <1>1, MainHas DEF NotCalled, Over, Received, UpTo
  <2>2. Handles'
    BY <1>1 DEF LazyInv, Handles
  <2>3. stack' = << >> /\ L!UndefinedOnlyEmptyGet'
    BY <1>1, <1>3, MainHas DEF L!UndefinedOnlyEmptyGet
  <2> QED
    BY <2>1, <2>2, <2>3
<1>6. OwnersKept
  BY <1>1 DEF OwnersKept, L!Held
<1> QED
  BY <1>4, <1>5, <1>6 DEF LazyInv

(* sync's move *)
LEMMA SyncMoveKeeps ==
  ASSUME LazyInv, NEW v \in Syncs, NEW w \in Syncs, L!Move(v, w)
  PROVE  LazyInv' /\ \A q \in 1..Replies : L!Held(q) /\ ~L!Held(q)' => Overwritten(q)
<1>1. /\ L!MainRuns /\ sync[w] # NoObject
      /\ sync' = [[sync EXCEPT ![v] = sync[w]] EXCEPT ![w] = None]
      /\ UNCHANGED <<stack, lFrame, got, answer, lUndef>>
  BY DEF L!Move
<1>2. /\ sync' \in [Syncs -> {NoObject, None} \cup 1..Replies] /\ sync'[w] = None
      /\ v # w => sync'[v] = sync[w]
      /\ \A u \in Syncs : u \notin {v, w} => sync'[u] = sync[u]
  BY <1>1, MainHas
<1>3. L!TypeOK'
  BY <1>1, <1>2, MainHas DEF L!TypeOK, Calls
<1>4. \A q \in 1..Replies : (NotCalled(q) \/ Over(q))'
  BY <1>1, MainHas DEF NotCalled, Over, Received, UpTo
<1>5. Handles'
  <2>1. ASSUME NEW u \in Syncs, sync'[u] \in 1..Replies
        PROVE  u # w /\ (u = v => sync'[u] = sync[w]) /\ (u # v => sync'[u] = sync[u])
    BY <1>2, <2>1, LazyConstants
  <2>2. ASSUME NEW u \in Syncs, sync'[u] \in 1..Replies
        PROVE  lFrame'[sync'[u]][0] \in {"running", "suspended", "done"}
    BY <1>1, <2>1, <2>2, MainHas
  <2>3. ASSUME NEW u \in Syncs, NEW x \in Syncs, sync'[u] \in 1..Replies, sync'[u] = sync'[x]
        PROVE  u = x
    BY <1>1, <2>1, <2>3, MainHas
  <2> QED
    BY <2>2, <2>3 DEF Handles
<1>6. LazyInv'
  BY <1>1, <1>3, <1>4, <1>5, MainHas DEF LazyInv, L!UndefinedOnlyEmptyGet
<1>7. ASSUME NEW q \in 1..Replies, L!Held(q), ~L!Held(q)' PROVE Overwritten(q)
  <2>1. PICK u \in Syncs : sync[u] = q
    BY <1>1, <1>7 DEF L!Held
  <2>2. \A x \in Syncs : sync'[x] # q
    BY <1>7 DEF L!Held
  <2>3. u = v
    BY <1>2, <2>1, <2>2
  <2>4. sync'[u] # NoObject
    BY <1>1, <1>2, <2>3, LazyConstants
  <2> QED
    BY <2>1, <2>2, <2>4 DEF Overwritten
<1> QED
  BY <1>6, <1>7

(* ~sync() *)
LEMMA SyncDestructKeeps ==
  ASSUME LazyInv, NEW v \in Syncs, L!Destruct(v)
  PROVE  LazyInv' /\ OwnersKept
<1>1. /\ L!MainRuns /\ sync[v] # NoObject /\ sync' = [sync EXCEPT ![v] = NoObject]
      /\ UNCHANGED <<stack, got, answer>>
  BY DEF L!Destruct
<1>2. /\ sync' \in [Syncs -> {NoObject, None} \cup 1..Replies] /\ sync'[v] = NoObject
      /\ \A u \in Syncs : u # v => sync'[u] = sync[u]
  BY <1>1, MainHas
<1>3. /\ lFrame' \in [1..Replies -> [0..Awaits -> L!States]] /\ lUndef' = FALSE
      /\ \A q \in 1..Replies : /\ q # sync[v] => lFrame'[q] = lFrame[q]
                               /\ q = sync[v] => /\ lFrame'[q][0] = "destroyed" /\ lFrame[q][0] = "done"
                                                 /\ \A i \in 1..Awaits : lFrame'[q][i] = lFrame[q][i]
  <2>1. CASE sync[v] = None
    BY <1>1, <2>1, MainHas, LazyConstants DEF L!Destruct
  <2>2. CASE sync[v] # None
    <3>1. sync[v] \in 1..Replies /\ lFrame[sync[v]][0] = "done"
      BY <1>1, <2>2, MainHas
    <3>2. /\ lUndef' = (lFrame[sync[v]][0] = "destroyed")
          /\ lFrame' = [lFrame EXCEPT ![sync[v]][0] = "destroyed"]
      BY <2>2 DEF L!Destruct
    <3>3. /\ lFrame \in [1..Replies -> [0..Awaits -> L!States]] /\ 0 \in 0..Awaits
          /\ \A i \in 1..Awaits : i \in 0..Awaits /\ i # 0
      BY <1>1, MainHas, LazyConstants
    <3> QED
      BY <3>1, <3>2, <3>3 DEF L!States
  <2> QED
    BY <2>1, <2>2
<1>4. L!TypeOK'
  BY <1>1, <1>2, <1>3, MainHas DEF L!TypeOK, Calls
<1>5. ASSUME NEW q \in 1..Replies PROVE (NotCalled(q) \/ Over(q))'
  <2>1. CASE q # sync[v]
    BY <1>1, <1>3, <2>1, MainHas DEF NotCalled, Over, Received, UpTo
  <2>2. CASE q = sync[v]
    <3>1. Over(q)
      BY <1>1, <2>2, MainHas
    <3>2. \A i \in (Awaits + 2)..Awaits : FALSE
      BY LazyConstants
    <3>3. got'[q] = UpTo(Awaits) /\ \A i \in 1..Awaits : lFrame'[q][i] = "destroyed"
      BY <1>1, <1>3, <2>2, <3>1 DEF Over, Received
    <3>4. Received(q, Awaits)'
      BY <3>2, <3>3 DEF Received, UpTo
    <3> QED
      BY <1>3, <2>2, <3>4 DEF Over
  <2> QED
    BY <2>1, <2>2
<1>6. Handles'
  <2>1. ASSUME NEW u \in Syncs, sync'[u] \in 1..Replies
        PROVE  u # v /\ sync'[u] = sync[u] /\ sync[u] # sync[v]
    BY <1>1, <1>2, <2>1, MainHas, LazyConstants
  <2> QED
    BY <1>1, <1>3, <2>1, MainHas DEF Handles
<1>7. OwnersKept
  <2>1. ASSUME NEW q \in 1..Replies, L!Held(q), lFrame'[q][0] \in {"running", "suspended", "done"}
        PROVE  \E u \in Syncs : sync'[u] = q
    <3>1. q # sync[v]
      BY <1>3, <2>1
    <3> QED
      BY <1>2, <1>3, <2>1, <3>1 DEF L!Held
  <2> QED
    BY <2>1 DEF OwnersKept, L!Held
<1> QED
  BY <1>1, <1>3, <1>4, <1>5, <1>6, <1>7, MainHas DEF LazyInv, L!UndefinedOnlyEmptyGet

(* Every step keeps it, and a coroutine that loses its owner loses it to an assignment. *)
LEMMA LazyNext ==
  LazyInv /\ [L!Next]_lazyVars =>
    LazyInv' /\ \A q \in 1..Replies : L!Held(q) /\ ~L!Held(q)' => Overwritten(q)
<1> SUFFICES ASSUME LazyInv, [L!Next]_lazyVars
             PROVE  LazyInv' /\ \A q \in 1..Replies : L!Held(q) /\ ~L!Held(q)' => Overwritten(q)
  OBVIOUS
<1>1. CASE L!co_await
  BY <1>1, CoAwaitKeeps DEF OwnersKept
<1>2. CASE L!resume_lazy
  BY <1>2, ResumeLazyKeeps DEF OwnersKept
<1>3. CASE L!co_return_lazy
  BY <1>3, CoReturnLazyKeeps DEF OwnersKept
<1>4. CASE L!awaiting_resume
  BY <1>4, AwaitingResumeKeeps DEF OwnersKept
<1>5. CASE L!await_suspend_returns
  BY <1>5, AwaitSuspendReturnsKeeps DEF OwnersKept
<1>6. CASE L!co_return
  BY <1>6, CoReturnKeeps DEF OwnersKept
<1>7. CASE L!reply_returns
  BY <1>7, ReplyReturnsKeeps DEF OwnersKept
<1>8. ASSUME NEW v \in Syncs, L!reply(v) \/ L!get(v) \/ L!Destruct(v) \/ (\E w \in Syncs : L!Move(v, w))
      PROVE  LazyInv' /\ \A q \in 1..Replies : L!Held(q) /\ ~L!Held(q)' => Overwritten(q)
  BY <1>8, ReplyKeeps, SyncGetKeeps, SyncDestructKeeps, SyncMoveKeeps DEF OwnersKept
<1>9. CASE UNCHANGED lazyVars
  <2>1. UNCHANGED <<stack, lFrame, got, sync, answer, lUndef>>
    BY <1>9 DEF lazyVars
  <2>2. L!TypeOK'
    BY <2>1 DEF LazyInv, L!TypeOK
  <2>3. \A q \in 1..Replies : (NotCalled(q)' <=> NotCalled(q)) /\ (Over(q)' <=> Over(q)) /\ (Going(q)' <=> Going(q))
    BY <2>1 DEF NotCalled, Over, Going, Received, UpTo, AtReply, AtResume, AtLazy, AtAwaiting, Unwinding,
                Outers, L!Top, L!Call
  <2>4. Handles' /\ L!UndefinedOnlyEmptyGet'
    BY <2>1 DEF LazyInv, Handles, L!UndefinedOnlyEmptyGet
  <2>5. LazyInv'
    BY <2>1, <2>2, <2>3, <2>4 DEF LazyInv
  <2>6. \A q \in 1..Replies : L!Held(q)' <=> L!Held(q)
    BY <2>1 DEF L!Held
  <2> QED
    BY <2>5, <2>6
<1> QED
  BY <1>1, <1>2, <1>3, <1>4, <1>5, <1>6, <1>7, <1>8, <1>9 DEF L!Next

(* What a program sees of it. *)
LEMMA LazyInvIsSafe == LazyInv => L!TypeOK /\ LazySafety
<1> SUFFICES ASSUME LazyInv PROVE L!TypeOK /\ LazySafety
  OBVIOUS
<1>1. L!ReplyIsComplete
  <2> SUFFICES ASSUME L!MainRuns, NEW r \in 1..Replies, lFrame[r][0] # "none"
               PROVE  /\ lFrame[r][0] \in {"done", "destroyed"}
                      /\ got[r] = [i \in 1..Awaits |-> i]
                      /\ \A i \in 1..Awaits : lFrame[r][i] = "destroyed"
    BY DEF L!ReplyIsComplete
  <2>1. Over(r)
    BY MainHas, LazyConstants DEF NotCalled
  <2> QED
    BY <2>1 DEF Over, Received, UpTo
<1> QED
  BY <1>1 DEF LazyInv, LazySafety, L!Safety
-----------------------------------------------------------------------------
(* Generators: how far the coroutine is, who has its handle, and, for a program that has   *)
(* asked before each value, how that fits with what it was told last.                     *)
Has(v) == gObj[v].h = "frame"

GenTypes ==
  G!TypeOK /\ gUndef \in BOOLEAN /\ careless \in BOOLEAN /\ rewound \in BOOLEAN /\ wanted \in Nat

Progress ==
  /\ gFrame.k <= G!Yields + 1
  /\ gFrame.st = "suspended" => gFrame.k <= G!Yields
  /\ G!Finished => gFrame.k = G!Yields + 1 /\ (throws <=> gFrame.st = "failed")
  /\ kind # "chat" => gFrame.val = IF gFrame.k <= G!Yields THEN gFrame.k ELSE G!Yields

Flags == \A v \in Objects : /\ kind = "call" => gObj[v].h # "null"
                            /\ kind # "call" => ~gObj[v].full_
                            /\ kind # "iter" => ~gObj[v].begin_

OneOwner ==
  /\ G!NothingLeaks
  /\ kind # "call" \/ ~rewound =>
       \A v \in Objects : Has(v) => gFrame.st # "destroyed" /\ \A w \in Objects : Has(w) => w = v

NextPhase == wanted = gFrame.k /\ (known \in {"start", "more"} => gFrame.st = "suspended")

IterPhase == (known # "start" => gFrame.k > 0) /\ \A v \in Objects : Has(v) => (gObj[v].begin_ <=> gFrame.k > 0)

CallPhase ==
  \A v \in Objects : Has(v) =>
    /\ gFrame.st = "suspended" => gFrame.k = wanted + (IF gObj[v].full_ THEN 1 ELSE 0)
    /\ gFrame.st = "done" => gObj[v].full_ /\ gFrame.k = wanted + 1
    /\ known = "more" => gFrame.st = "suspended" /\ gObj[v].full_

ChatPhase ==
  \/ wanted = 0 /\ known = "start" /\ gFrame.k = 0 /\ gFrame.st = "suspended"
  \/ wanted = 1 /\ known = "more" /\ gFrame.k = 1 /\ gFrame.st = "suspended"
  \/ wanted = 1 /\ known = "unknown" /\ G!Finished /\ (~throws => gFrame.val = 2)
  \/ wanted >= 2 /\ G!Finished

InPhase ==
  ~careless /\ ~rewound /\ gFrame.st # "destroyed" =>
    /\ kind \in {"next", "iter"} => NextPhase
    /\ kind = "iter" => IterPhase
    /\ kind = "call" => CallPhase
    /\ kind = "chat" => ChatPhase

GenInv ==
  /\ GenTypes /\ Progress /\ Flags /\ OneOwner /\ InPhase
  /\ G!UndefinedOnlyMisuse /\ G!ReadsInOrder

(* The types, of what the steps read. *)
LEMMA GenFacts ==
  ASSUME GenTypes
  PROVE  /\ Length \in Nat /\ First \in Objects
         /\ kind \in {"next", "call", "iter", "chat"} /\ throws \in BOOLEAN
         /\ G!Yields \in Nat /\ G!Yields <= Length + 1
         /\ gFrame.st \in {"suspended", "done", "failed", "destroyed"}
         /\ gFrame.k \in Nat /\ gFrame.val \in Nat /\ wanted \in Nat
         /\ gObj \in [Objects -> [h : {"dead", "null", "frame"}, full_ : BOOLEAN, begin_ : BOOLEAN]]
         /\ \A v \in Objects : gObj[v].h \in {"dead", "null", "frame"}
         /\ gUndef \in BOOLEAN /\ careless \in BOOLEAN /\ rewound \in BOOLEAN
<1>1. Length \in Nat /\ First \in Objects /\ kind \in {"next", "call", "iter", "chat"} /\ throws \in BOOLEAN
  BY SequentialAssumption DEF G!GeneratorsAssumption, GenTypes, G!TypeOK
<1>2. G!Yields \in Nat /\ G!Yields <= Length + 1
  BY <1>1 DEF G!Yields
<1>3. /\ gFrame.st \in {"suspended", "done", "failed", "destroyed"}
      /\ gFrame.k \in Nat /\ gFrame.val \in Nat
  <2>1. gFrame.k \in 0..Length + 2 /\ gFrame.val \in 0..Length + 2
        /\ gFrame.st \in {"suspended", "done", "failed", "destroyed"}
    BY DEF GenTypes, G!TypeOK
  <2> QED
    BY <1>1, <2>1
<1>4. gObj \in [Objects -> [h : {"dead", "null", "frame"}, full_ : BOOLEAN, begin_ : BOOLEAN]]
  BY DEF GenTypes, G!TypeOK
<1>5. \A v \in Objects : gObj[v].h \in {"dead", "null", "frame"}
  BY <1>4
<1> QED
  BY <1>1, <1>2, <1>3, <1>4, <1>5 DEF GenTypes

(* One more resumption of a suspended coroutine. *)
LEMMA ResumedIs ==
  ASSUME GenInv, gFrame.st = "suspended"
  PROVE  /\ G!Resumed \in [st : {"suspended", "done", "failed", "destroyed"},
                           k : 0..Length + 2, val : 0..Length + 2]
         /\ G!Resumed.k = gFrame.k + 1 /\ gFrame.k <= G!Yields
         /\ G!Resumed.st = IF gFrame.k + 1 <= G!Yields THEN "suspended" ELSE IF throws THEN "failed" ELSE "done"
         /\ G!Resumed.val = IF gFrame.k + 1 <= G!Yields \/ (kind = "chat" /\ ~throws)
                            THEN gFrame.k + 1 ELSE gFrame.val
<1>1. GenTypes /\ gFrame.k <= G!Yields
  BY DEF GenInv, Progress
<1>2. gFrame.val \in 0..Length + 2
  BY <1>1 DEF GenTypes, G!TypeOK
<1>3. gFrame.k + 1 \in 0..Length + 2
  BY <1>1, GenFacts
<1> QED
  BY <1>1, <1>2, <1>3 DEF G!Resumed

(* An operation that leaves the handles where they are. *)
LEMMA Operated ==
  ASSUME GenInv, GenTypes', Progress', Flags', InPhase', G!ReadsInOrder',
         UNCHANGED <<kind, throws, rewound>>, gUndef' = FALSE,
         \A w \in Objects : gObj'[w].h = gObj[w].h,
         gFrame.st # "destroyed" <=> gFrame'.st # "destroyed"
  PROVE  GenInv'
<1>1. OneOwner'
  BY DEF GenInv, OneOwner, G!NothingLeaks, Has
<1>2. G!UndefinedOnlyMisuse'
  BY DEF G!UndefinedOnlyMisuse
<1> QED
  BY <1>1, <1>2 DEF GenInv

(* Nothing but the blame changes when something undefined is done. *)
LEMMA Broken ==
  ASSUME GenInv, G!Breaks, G!Fixed, careless' \in BOOLEAN, careless => careless',
         careless' \/ rewound
  PROVE  GenInv'
<1>1. UNCHANGED <<kind, throws, gFrame, gObj, known, rewound, wanted, read>> /\ gUndef' = TRUE
  BY DEF G!Breaks, G!Fixed
<1>2. GenTypes' /\ Progress' /\ Flags' /\ OneOwner'
  BY <1>1 DEF GenInv, GenTypes, G!TypeOK, Progress, G!Yields, G!Finished, Flags, OneOwner, G!NothingLeaks, Has
<1>3. InPhase'
  BY <1>1 DEF InPhase
<1>4. G!UndefinedOnlyMisuse' /\ G!ReadsInOrder'
  BY <1>1 DEF G!UndefinedOnlyMisuse, G!ReadsInOrder, GenInv
<1> QED
  BY <1>2, <1>3, <1>4 DEF GenInv

(* The object that an operation uses, when nothing breaks and when it has been blamed for  *)
(* nothing.                                                                              *)
LEMMA Used ==
  ASSUME GenInv, NEW v \in Objects, G!Uses(v)
  PROVE  /\ ~G!Dangling(v) => Has(v) /\ gFrame.st \in {"suspended", "done", "failed"}
         /\ gObj[v].h # "null" /\ (~rewound \/ kind # "call") => ~G!Dangling(v)
         /\ gUndef = FALSE
<1>1. GenTypes /\ OneOwner
  BY DEF GenInv
<1> QED
  BY <1>1, GenFacts DEF G!Uses, G!Dangling, OneOwner, Has

(* What Blame records of a call on a generator object. *)
LEMMA Blamed ==
  ASSUME GenTypes, NEW v \in Objects, NEW asked \in BOOLEAN, G!Blame(v, asked)
  PROVE  /\ careless' \in BOOLEAN /\ (careless => careless')
         /\ ~careless' => ~careless /\ asked /\ gObj[v].h # "null"
BY GenFacts DEF G!Blame

(* next() *)
LEMMA NextKeeps ==
  ASSUME GenInv, NEW v \in Objects, G!next(v), G!Fixed
  PROVE  GenInv'
<1>1. GenTypes /\ G!Uses(v) /\ kind \in {"next", "iter"}
      /\ G!Blame(v, kind = "next" /\ known \in {"start", "more"})
  BY DEF GenInv, G!next
<1>2. /\ careless' \in BOOLEAN /\ (careless => careless')
      /\ ~careless' => ~careless /\ kind = "next" /\ known \in {"start", "more"} /\ gObj[v].h # "null"
  <2>1. (kind = "next" /\ known \in {"start", "more"}) \in BOOLEAN
    OBVIOUS
  <2> QED
    BY <1>1, <2>1, Blamed
<1>3. CASE (G!Dangling(v) \/ G!Finished) /\ G!Breaks
  <2>1. careless' \/ rewound
    <3> SUFFICES ASSUME ~careless', ~rewound PROVE FALSE
      OBVIOUS
    <3>1. ~G!Dangling(v) /\ gFrame.st \in {"suspended", "done", "failed"}
      BY <1>1, <1>2, Used
    <3>2. gFrame.st = "suspended"
      BY <1>2, <3>1 DEF GenInv, InPhase, NextPhase
    <3> QED
      BY <1>3, <3>1, <3>2 DEF G!Finished
  <2> QED
    BY <1>2, <1>3, <2>1, Broken
<1>4. CASE ~(G!Dangling(v) \/ G!Finished) /\ gFrame' = G!Resumed
           /\ known' = "unknown" /\ wanted' = wanted + 1 /\ UNCHANGED <<gObj, gUndef, rewound, read>>
  <2>1. gFrame.st = "suspended" /\ Has(v) /\ gUndef = FALSE
    BY <1>1, <1>4, Used DEF G!Finished
  <2>2. UNCHANGED <<kind, throws>>
    BY DEF G!Fixed
  <2>3. GenTypes'
    BY <1>1, <1>2, <1>4, <2>1, <2>2, ResumedIs, GenFacts DEF GenTypes, G!TypeOK
  <2>4. Progress'
    BY <1>1, <1>4, <2>1, <2>2, ResumedIs, GenFacts DEF GenInv, Progress, G!Yields, G!Finished
  <2>5. Flags' /\ G!ReadsInOrder'
    BY <1>2, <1>4, <2>2 DEF GenInv, Flags, G!ReadsInOrder
  <2>6. InPhase'
    BY <1>1, <1>2, <1>4, <2>1, <2>2, ResumedIs, GenFacts DEF GenInv, InPhase, NextPhase
  <2>7. gFrame'.st # "destroyed"
    BY <1>4, <2>1, ResumedIs
  <2> QED
    BY <1>4, <2>1, <2>2, <2>3, <2>4, <2>5, <2>6, <2>7, Operated
<1> QED
  BY <1>3, <1>4 DEF G!next

(* done() *)
LEMMA DoneKeeps ==
  ASSUME GenInv, NEW v \in Objects, G!done(v), G!Fixed
  PROVE  GenInv'
<1>1. GenTypes /\ G!Uses(v) /\ kind \in {"next", "iter"} /\ G!Blame(v, TRUE)
  BY DEF GenInv, G!done
<1>2. /\ careless' \in BOOLEAN /\ (careless => careless')
      /\ ~careless' => ~careless /\ gObj[v].h # "null"
  BY <1>1, Blamed
<1>3. CASE G!Dangling(v) /\ G!Breaks
  <2>1. careless' \/ rewound
    BY <1>1, <1>2, <1>3, Used
  <2> QED
    BY <1>2, <1>3, <2>1, Broken
<1>4. CASE /\ ~G!Dangling(v)
           /\ known' = IF G!Finished THEN "end" ELSE IF known = "start" THEN known ELSE "more"
           /\ UNCHANGED <<gFrame, gObj, gUndef, rewound, wanted, read>>
  <2>1. gFrame.st \in {"suspended", "done", "failed"} /\ Has(v) /\ gUndef = FALSE
    BY <1>1, <1>4, Used
  <2>2. UNCHANGED <<kind, throws>>
    BY DEF G!Fixed
  <2>3. GenTypes'
    <3>1. wanted' \in Nat /\ gUndef' \in BOOLEAN /\ rewound' \in BOOLEAN
      BY <1>1, <1>4, <2>1, GenFacts
    <3>2. known' \in {"start", "more", "end", "unknown"}
      BY <1>1, <1>4 DEF GenTypes, G!TypeOK
    <3>3. kind' \in Kinds /\ throws' \in BOOLEAN
      BY <1>1, <2>2 DEF GenTypes, G!TypeOK
    <3>4. gFrame' = gFrame /\ gObj' = gObj /\ read' = read
      BY <1>4
    <3> QED
      BY <1>1, <1>2, <3>1, <3>2, <3>3, <3>4 DEF GenTypes, G!TypeOK
  <2>4. Progress' /\ Flags' /\ G!ReadsInOrder'
    BY <1>2, <1>4, <2>2 DEF GenInv, Progress, G!Yields, G!Finished, Flags, G!ReadsInOrder
  <2>5. InPhase'
    <3> SUFFICES ASSUME ~careless', ~rewound' PROVE (NextPhase /\ (kind = "iter" => IterPhase))'
      BY <1>1, <2>2 DEF InPhase
    <3>1. NextPhase /\ (kind = "iter" => IterPhase)
      BY <1>1, <1>2, <1>4, <2>1 DEF GenInv, InPhase
    <3>2. NextPhase'
      BY <1>4, <2>1, <3>1 DEF NextPhase, G!Finished
    <3>3. kind = "iter" /\ G!Finished => gFrame.k > 0
      BY <1>1, GenFacts DEF GenInv, Progress
    <3>4. kind = "iter" => IterPhase'
      BY <1>4, <2>1, <3>1, <3>3 DEF IterPhase, Has
    <3> QED
      BY <2>2, <3>2, <3>4
  <2> QED
    BY <1>4, <2>1, <2>2, <2>3, <2>4, <2>5, Operated
<1> QED
  BY <1>3, <1>4 DEF G!done

(* get() *)
LEMMA GetKeeps ==
  ASSUME GenInv, NEW v \in Objects, G!get(v), G!Fixed
  PROVE  GenInv'
<1>1. GenTypes /\ G!Uses(v) /\ kind \in {"next", "iter"} /\ G!Blame(v, known = "more")
  BY DEF GenInv, G!get
<1>2. /\ careless' \in BOOLEAN /\ (careless => careless')
      /\ ~careless' => ~careless /\ known = "more" /\ gObj[v].h # "null"
  BY <1>1, Blamed
<1>3. CASE G!Dangling(v) /\ G!Breaks
  <2>1. careless' \/ rewound
    BY <1>1, <1>2, <1>3, Used
  <2> QED
    BY <1>2, <1>3, <2>1, Broken
<1>4. CASE ~G!Dangling(v) /\ G!Reads(gFrame.val, wanted) /\ UNCHANGED <<gFrame, gObj, gUndef, known, rewound>>
  <2>1. gFrame.st \in {"suspended", "done", "failed"} /\ Has(v) /\ gUndef = FALSE
    BY <1>1, <1>4, Used
  <2>2. UNCHANGED <<kind, throws, wanted>> /\ read' = [val |-> gFrame.val, at |-> wanted]
    BY <1>4 DEF G!Fixed, G!Reads
  <2>3. GenTypes'
    BY <1>1, <1>2, <1>4, <2>1, <2>2, GenFacts DEF GenTypes, G!TypeOK
  <2>4. Progress' /\ Flags'
    BY <1>4, <2>2 DEF GenInv, Progress, G!Yields, G!Finished, Flags
  <2>5. InPhase'
    BY <1>1, <1>2, <1>4, <2>2 DEF GenInv, InPhase, NextPhase, IterPhase, Has
  <2>6. G!ReadsInOrder'
    <3> SUFFICES ASSUME ~careless', ~rewound' PROVE gFrame.val = wanted
      BY <2>2 DEF G!ReadsInOrder
    <3>1. wanted = gFrame.k /\ gFrame.st = "suspended"
      BY <1>1, <1>2, <1>4, <2>1 DEF GenInv, InPhase, NextPhase
    <3> QED
      BY <1>1, <3>1 DEF GenInv, Progress
  <2> QED
    BY <1>4, <2>1, <2>2, <2>3, <2>4, <2>5, <2>6, Operated
<1> QED
  BY <1>3, <1>4 DEF G!get

(* What fill() does to the coroutine and to full_. *)
LEMMA FillIs ==
  ASSUME GenInv, NEW v \in Objects
  PROVE  /\ G!Fill(v).ok <=> ~G!Dangling(v) /\ (gObj[v].full_ \/ ~G!Finished)
         /\ gObj[v].full_ => G!Fill(v).frame = gFrame /\ G!Fill(v).full = TRUE
         /\ ~gObj[v].full_ => G!Fill(v).frame = G!Resumed /\ G!Fill(v).full = (G!Resumed.st # "failed")
BY DEF G!Fill

(* operator bool() *)
LEMMA OperatorBoolKeeps ==
  ASSUME GenInv, NEW v \in Objects, G!operator_bool(v), G!Fixed
  PROVE  GenInv'
<1>1. GenTypes /\ G!Uses(v) /\ kind = "call" /\ G!Blame(v, gFrame.st # "failed")
  BY DEF GenInv, G!operator_bool
<1>2. /\ careless' \in BOOLEAN /\ (careless => careless')
      /\ ~careless' => ~careless /\ gFrame.st # "failed" /\ gObj[v].h # "null"
  BY <1>1, Blamed
<1>3. CASE ~G!Fill(v).ok /\ G!Breaks
  <2>1. careless' \/ rewound
    <3> SUFFICES ASSUME ~careless', ~rewound PROVE G!Fill(v).ok
      BY <1>3
    <3>1. ~G!Dangling(v) /\ Has(v) /\ gFrame.st \in {"suspended", "done"}
      BY <1>1, <1>2, Used
    <3>2. gFrame.st = "done" => gObj[v].full_
      BY <1>1, <1>2, <3>1 DEF GenInv, InPhase, CallPhase
    <3> QED
      BY <3>1, <3>2, FillIs DEF G!Finished
  <2> QED
    BY <1>2, <1>3, <2>1, Broken
<1>4. CASE /\ G!Fill(v).ok
           /\ gFrame' = G!Fill(v).frame
           /\ gObj' = [gObj EXCEPT ![v].full_ = G!Fill(v).full]
           /\ known' = IF gFrame'.st = "suspended" THEN "more" ELSE "end"
           /\ UNCHANGED <<gUndef, rewound, wanted, read>>
  <2>1. gFrame.st \in {"suspended", "done", "failed"} /\ Has(v) /\ gUndef = FALSE
    BY <1>1, <1>4, Used, FillIs
  <2>2. UNCHANGED <<kind, throws>>
    BY DEF G!Fixed
  <2>3. /\ gObj' \in [Objects -> [h : {"dead", "null", "frame"}, full_ : BOOLEAN, begin_ : BOOLEAN]]
        /\ gObj'[v].full_ = G!Fill(v).full
        /\ \A w \in Objects : gObj'[w].h = gObj[w].h /\ gObj'[w].begin_ = gObj[w].begin_
    <3>1. G!Fill(v).full \in BOOLEAN
      BY <1>1, GenFacts, FillIs
    <3> QED
      BY <1>1, <1>4, <3>1, GenFacts
  <2>4. /\ gFrame' \in [st : {"suspended", "done", "failed", "destroyed"},
                        k : 0..Length + 2, val : 0..Length + 2]
        /\ gFrame'.st # "destroyed" /\ Progress'
    <3>1. CASE gObj[v].full_
      <4>1. gFrame' = gFrame
        BY <1>4, <3>1, FillIs
      <4> QED
        BY <1>1, <2>1, <2>2, <4>1 DEF GenTypes, G!TypeOK, GenInv, Progress, G!Yields, G!Finished
    <3>2. CASE ~gObj[v].full_
      <4>1. gFrame' = G!Resumed /\ gFrame.st = "suspended"
        BY <1>4, <2>1, <3>2, FillIs DEF G!Finished
      <4> QED
        BY <1>1, <2>2, <4>1, ResumedIs, GenFacts DEF GenInv, Progress, G!Yields, G!Finished
    <3> QED
      BY <3>1, <3>2
  <2>5. GenTypes'
    BY <1>1, <1>2, <1>4, <2>1, <2>2, <2>3, <2>4 DEF GenTypes, G!TypeOK
  <2>6. Flags' /\ G!ReadsInOrder'
    BY <1>1, <1>2, <1>4, <2>2, <2>3 DEF GenInv, Flags, G!ReadsInOrder
  <2>7. InPhase'
    <3> SUFFICES ASSUME ~careless', ~rewound' PROVE CallPhase'
      BY <1>1, <2>2 DEF InPhase
    <3>1. ~careless /\ ~rewound /\ gFrame.st \in {"suspended", "done"}
      BY <1>2, <1>4, <2>1
    <3>2. \A w \in Objects : Has(w)' => w = v
      BY <1>1, <2>1, <2>3, <3>1 DEF GenInv, OneOwner, Has
    <3>3. /\ gFrame.st = "suspended" => gFrame.k = wanted + (IF gObj[v].full_ THEN 1 ELSE 0)
          /\ gFrame.st = "done" => gObj[v].full_ /\ gFrame.k = wanted + 1
      BY <1>1, <2>1, <3>1 DEF GenInv, InPhase, CallPhase
    <3>4. CASE gObj[v].full_
      <4>1. gFrame' = gFrame /\ gObj'[v].full_ = TRUE
        BY <1>4, <2>3, <3>4, FillIs
      <4> QED
        BY <1>4, <3>1, <3>2, <3>3, <3>4, <4>1 DEF CallPhase
    <3>5. CASE ~gObj[v].full_
      <4>1. gFrame' = G!Resumed /\ gFrame.st = "suspended" /\ gObj'[v].full_ = (gFrame'.st # "failed")
        <5>1. gFrame' = G!Resumed /\ G!Fill(v).full = (G!Resumed.st # "failed")
          BY <1>4, <3>5, FillIs
        <5>2. gObj'[v].full_ = (G!Resumed.st # "failed")
          BY <2>3, <5>1
        <5>3. gFrame.st = "suspended"
          BY <3>1, <3>3, <3>5
        <5> QED
          BY <5>1, <5>2, <5>3
      <4>2. gFrame'.k = wanted + 1
        BY <1>1, <3>3, <3>5, <4>1, ResumedIs, GenFacts
      <4> QED
        BY <1>4, <3>2, <4>1, <4>2 DEF CallPhase
    <3> QED
      BY <3>4, <3>5
  <2> QED
    BY <1>4, <2>1, <2>2, <2>3, <2>4, <2>5, <2>6, <2>7, Operated
<1> QED
  BY <1>3, <1>4 DEF G!operator_bool

(* operator()() *)
LEMMA OperatorCallKeeps ==
  ASSUME GenInv, NEW v \in Objects, G!operator_call(v), G!Fixed
  PROVE  GenInv'
<1>1. GenTypes /\ G!Uses(v) /\ kind = "call" /\ G!Blame(v, known = "more")
  BY DEF GenInv, G!operator_call
<1>2. /\ careless' \in BOOLEAN /\ (careless => careless')
      /\ ~careless' => ~careless /\ known = "more" /\ gObj[v].h # "null"
  BY <1>1, Blamed
<1>3. ASSUME ~careless', ~rewound
      PROVE  /\ ~G!Dangling(v) /\ Has(v) /\ gFrame.st = "suspended" /\ gObj[v].full_
             /\ gFrame.k = wanted + 1 /\ gFrame.val = wanted + 1
  <2>1. ~G!Dangling(v) /\ Has(v) /\ gFrame.st # "destroyed"
    BY <1>1, <1>2, <1>3, Used
  <2>2. gFrame.st = "suspended" /\ gObj[v].full_ /\ gFrame.k = wanted + 1
    BY <1>1, <1>2, <1>3, <2>1 DEF GenInv, InPhase, CallPhase
  <2> QED
    BY <1>1, <2>1, <2>2 DEF GenInv, Progress
<1>4. CASE ~G!Fill(v).ok /\ G!Breaks
  <2>1. careless' \/ rewound
    BY <1>3, <1>4, FillIs
  <2> QED
    BY <1>2, <1>4, <2>1, Broken
<1>5. CASE /\ G!Fill(v).ok
           /\ gFrame' = G!Fill(v).frame
           /\ gObj' = [gObj EXCEPT ![v].full_ = FALSE]
           /\ known' = "unknown"
           /\ IF G!Fill(v).full THEN G!Reads(gFrame'.val, wanted + 1) ELSE UNCHANGED <<wanted, read>>
           /\ UNCHANGED <<gUndef, rewound>>
  <2>1. gFrame.st \in {"suspended", "done", "failed"} /\ Has(v) /\ gUndef = FALSE
    BY <1>1, <1>5, Used, FillIs
  <2>2. UNCHANGED <<kind, throws>>
    BY DEF G!Fixed
  <2>3. /\ gObj' \in [Objects -> [h : {"dead", "null", "frame"}, full_ : BOOLEAN, begin_ : BOOLEAN]]
        /\ gObj'[v].full_ = FALSE
        /\ \A w \in Objects : gObj'[w].h = gObj[w].h /\ gObj'[w].begin_ = gObj[w].begin_
    BY <1>1, <1>5, GenFacts
  <2>4. /\ gFrame' \in [st : {"suspended", "done", "failed", "destroyed"},
                        k : 0..Length + 2, val : 0..Length + 2]
        /\ gFrame'.st # "destroyed" /\ Progress'
    <3>1. CASE gObj[v].full_
      <4>1. gFrame' = gFrame
        BY <1>5, <3>1, FillIs
      <4> QED
        BY <1>1, <2>1, <2>2, <4>1 DEF GenTypes, G!TypeOK, GenInv, Progress, G!Yields, G!Finished
    <3>2. CASE ~gObj[v].full_
      <4>1. gFrame' = G!Resumed /\ gFrame.st = "suspended"
        BY <1>5, <2>1, <3>2, FillIs DEF G!Finished
      <4> QED
        BY <1>1, <2>2, <4>1, ResumedIs, GenFacts DEF GenInv, Progress, G!Yields, G!Finished
    <3> QED
      BY <3>1, <3>2
  <2>5. wanted' \in Nat /\ read' \in [val : Nat, at : Nat]
    <3>1. CASE G!Fill(v).full
      <4>1. wanted' = wanted + 1 /\ read' = [val |-> gFrame'.val, at |-> wanted + 1]
        BY <1>5, <3>1 DEF G!Reads
      <4>2. gFrame'.val \in 0..Length + 2
        BY <2>4
      <4> QED
        BY <1>1, <4>1, <4>2, GenFacts
    <3>2. CASE ~G!Fill(v).full
      BY <1>1, <1>5, <3>2 DEF GenTypes, G!TypeOK
    <3> QED
      BY <3>1, <3>2
  <2>6. GenTypes'
    BY <1>1, <1>2, <1>5, <2>1, <2>2, <2>3, <2>4, <2>5 DEF GenTypes, G!TypeOK
  <2>7. Flags'
    BY <1>1, <2>2, <2>3 DEF GenInv, Flags
  <2>8. ASSUME ~careless', ~rewound'
        PROVE  gFrame' = gFrame /\ wanted' = wanted + 1 /\ read' = [val |-> wanted + 1, at |-> wanted + 1]
    BY <1>3, <1>5, <2>8, FillIs DEF G!Reads
  <2>9. G!ReadsInOrder'
    BY <2>8 DEF G!ReadsInOrder
  <2>10. InPhase'
    <3> SUFFICES ASSUME ~careless', ~rewound' PROVE CallPhase'
      BY <1>1, <2>2 DEF InPhase
    <3>1. \A w \in Objects : Has(w)' => w = v
      BY <1>1, <1>5, <2>1, <2>3 DEF GenInv, OneOwner, Has
    <3>2. gFrame'.st = "suspended" /\ gFrame'.k = wanted' + 0
      BY <1>1, <1>3, <1>5, <2>8, GenFacts
    <3> QED
      BY <1>5, <2>3, <3>1, <3>2 DEF CallPhase
  <2> QED
    BY <1>5, <2>1, <2>2, <2>3, <2>4, <2>6, <2>7, <2>9, <2>10, Operated
<1> QED
  BY <1>4, <1>5 DEF G!operator_call

(* begin() *)
LEMMA BeginKeeps ==
  ASSUME GenInv, NEW v \in Objects, G!begin(v), G!Fixed
  PROVE  GenInv'
<1>1. GenTypes /\ G!Uses(v) /\ kind = "iter" /\ G!Blame(v, TRUE)
  BY DEF GenInv, G!begin
<1>2. /\ careless' \in BOOLEAN /\ (careless => careless')
      /\ ~careless' => ~careless /\ gObj[v].h # "null"
  BY <1>1, Blamed
<1>3. UNCHANGED <<kind, throws>>
  BY DEF G!Fixed
<1>4. ~G!Dangling(v) => Has(v) /\ gFrame.st \in {"suspended", "done", "failed"}
  BY <1>1, Used
<1>5. ASSUME ~careless', ~rewound
      PROVE  /\ ~G!Dangling(v) /\ NextPhase /\ IterPhase /\ (gObj[v].begin_ <=> gFrame.k > 0)
             /\ \A w \in Objects : Has(w) => w = v
  <2>1. ~G!Dangling(v)
    BY <1>1, <1>2, <1>5, Used
  <2>2. NextPhase /\ IterPhase
    BY <1>1, <1>2, <1>4, <1>5, <2>1 DEF GenInv, InPhase
  <2> QED
    BY <1>4, <1>5, <2>1, <2>2 DEF IterPhase, GenInv, OneOwner
<1>6. CASE gObj[v].begin_ /\ known' = "unknown" /\ UNCHANGED <<gFrame, gObj, gUndef, rewound, wanted, read>>
  <2>1. GenTypes'
    BY <1>1, <1>2, <1>3, <1>6 DEF GenTypes, G!TypeOK
  <2>2. Progress' /\ Flags' /\ G!ReadsInOrder'
    BY <1>2, <1>3, <1>6 DEF GenInv, Progress, G!Yields, G!Finished, Flags, G!ReadsInOrder
  <2>3. InPhase'
    <3> SUFFICES ASSUME ~careless', ~rewound' PROVE (NextPhase /\ IterPhase)'
      BY <1>1, <1>3 DEF InPhase
    <3> QED
      BY <1>5, <1>6 DEF NextPhase, IterPhase, Has
  <2>4. gUndef' = FALSE
    BY <1>1, <1>6, Used
  <2> QED
    BY <1>3, <1>6, <2>1, <2>2, <2>3, <2>4, Operated
<1>7. CASE ~gObj[v].begin_ /\ (G!Dangling(v) \/ G!Finished) /\ G!Breaks
  <2>1. careless' \/ rewound
    <3> SUFFICES ASSUME ~careless', ~rewound PROVE FALSE
      BY <1>2
    <3>1. ~(gFrame.k > 0) /\ G!Finished
      BY <1>5, <1>7
    <3> QED
      BY <1>1, <3>1, GenFacts DEF GenInv, Progress
  <2> QED
    BY <1>2, <1>7, <2>1, Broken
<1>8. CASE /\ ~gObj[v].begin_ /\ ~(G!Dangling(v) \/ G!Finished)
           /\ gFrame' = G!Resumed
           /\ gObj' = [gObj EXCEPT ![v].begin_ = TRUE]
           /\ known' = "unknown"
           /\ wanted' = IF wanted = 0 THEN 1 ELSE wanted
           /\ UNCHANGED <<gUndef, rewound, read>>
  <2>1. gFrame.st = "suspended" /\ Has(v) /\ gUndef = FALSE
    BY <1>1, <1>4, <1>8, Used DEF G!Finished
  <2>2. /\ gObj' \in [Objects -> [h : {"dead", "null", "frame"}, full_ : BOOLEAN, begin_ : BOOLEAN]]
        /\ gObj'[v].begin_ = TRUE
        /\ \A w \in Objects : gObj'[w].h = gObj[w].h /\ gObj'[w].full_ = gObj[w].full_
    BY <1>1, <1>8, GenFacts
  <2>3. GenTypes'
    BY <1>1, <1>2, <1>3, <1>8, <2>1, <2>2, ResumedIs, GenFacts DEF GenTypes, G!TypeOK
  <2>4. Progress'
    BY <1>1, <1>3, <1>8, <2>1, ResumedIs, GenFacts DEF GenInv, Progress, G!Yields, G!Finished
  <2>5. Flags' /\ G!ReadsInOrder'
    BY <1>1, <1>2, <1>3, <1>8, <2>2 DEF GenInv, Flags, G!ReadsInOrder
  <2>6. InPhase'
    <3> SUFFICES ASSUME ~careless', ~rewound' PROVE (NextPhase /\ IterPhase)'
      BY <1>1, <1>3 DEF InPhase
    <3>1. wanted = gFrame.k /\ gFrame.k = 0
      BY <1>1, <1>5, <1>8, GenFacts DEF NextPhase
    <3>2. wanted' = 1 /\ gFrame'.k = 1
      BY <1>8, <2>1, <3>1, ResumedIs
    <3>3. \A w \in Objects : Has(w)' => gObj'[w].begin_ = TRUE
      BY <1>5, <1>8, <2>2 DEF Has
    <3> QED
      BY <1>8, <3>2, <3>3 DEF NextPhase, IterPhase
  <2>7. gFrame'.st # "destroyed"
    BY <1>8, <2>1, ResumedIs
  <2> QED
    BY <1>3, <1>8, <2>1, <2>2, <2>3, <2>4, <2>5, <2>6, <2>7, Operated
<1> QED
  BY <1>6, <1>7, <1>8 DEF G!begin

(* iterator::operator++() *)
LEMMA IncrementKeeps ==
  ASSUME GenInv, NEW v \in Objects, G!increment(v), G!Fixed
  PROVE  GenInv'
<1>1. GenTypes /\ G!Uses(v) /\ kind = "iter" /\ G!Blame(v, known = "more")
  BY DEF GenInv, G!increment
<1>2. /\ careless' \in BOOLEAN /\ (careless => careless')
      /\ ~careless' => ~careless /\ known = "more" /\ gObj[v].h # "null"
  BY <1>1, Blamed
<1>3. ASSUME ~careless', ~rewound
      PROVE  ~G!Dangling(v) /\ gFrame.st = "suspended" /\ NextPhase /\ IterPhase
  <2>1. ~G!Dangling(v) /\ gFrame.st \in {"suspended", "done", "failed"}
    BY <1>1, <1>2, <1>3, Used
  <2>2. NextPhase /\ IterPhase
    BY <1>1, <1>2, <1>3, <2>1 DEF GenInv, InPhase
  <2> QED
    BY <1>2, <1>3, <2>1, <2>2 DEF NextPhase
<1>4. CASE (G!Dangling(v) \/ G!Finished) /\ G!Breaks
  <2>1. careless' \/ rewound
    BY <1>3, <1>4 DEF G!Finished
  <2> QED
    BY <1>2, <1>4, <2>1, Broken
<1>5. CASE ~(G!Dangling(v) \/ G!Finished) /\ gFrame' = G!Resumed
           /\ known' = "unknown" /\ wanted' = wanted + 1 /\ UNCHANGED <<gObj, gUndef, rewound, read>>
  <2>1. gFrame.st = "suspended" /\ Has(v) /\ gUndef = FALSE
    BY <1>1, <1>5, Used DEF G!Finished
  <2>2. UNCHANGED <<kind, throws>>
    BY DEF G!Fixed
  <2>3. GenTypes'
    BY <1>1, <1>2, <1>5, <2>1, <2>2, ResumedIs, GenFacts DEF GenTypes, G!TypeOK
  <2>4. Progress'
    BY <1>1, <1>5, <2>1, <2>2, ResumedIs, GenFacts DEF GenInv, Progress, G!Yields, G!Finished
  <2>5. Flags' /\ G!ReadsInOrder'
    BY <1>2, <1>5, <2>2 DEF GenInv, Flags, G!ReadsInOrder
  <2>6. InPhase'
    <3> SUFFICES ASSUME ~careless', ~rewound' PROVE (NextPhase /\ IterPhase)'
      BY <1>1, <2>2 DEF InPhase
    <3>1. NextPhase /\ IterPhase /\ known = "more" /\ gFrame.k > 0
      BY <1>2, <1>3, <1>5 DEF IterPhase
    <3>2. gFrame'.k = gFrame.k + 1 /\ gFrame'.k > 0
      BY <1>1, <1>5, <2>1, ResumedIs, GenFacts
    <3> QED
      BY <1>5, <3>1, <3>2 DEF NextPhase, IterPhase, Has
  <2>7. gFrame'.st # "destroyed"
    BY <1>5, <2>1, ResumedIs
  <2> QED
    BY <1>5, <2>1, <2>2, <2>3, <2>4, <2>5, <2>6, <2>7, Operated
<1> QED
  BY <1>4, <1>5 DEF G!increment

(* listen() *)
LEMMA ListenKeeps ==
  ASSUME GenInv, NEW v \in Objects, G!listen(v), G!Fixed
  PROVE  GenInv'
<1>1. GenTypes /\ G!Uses(v) /\ kind = "chat" /\ G!Blame(v, known # "more")
  BY DEF GenInv, G!listen
<1>2. /\ careless' \in BOOLEAN /\ (careless => careless')
      /\ ~careless' => ~careless /\ known # "more" /\ gObj[v].h # "null"
  BY <1>1, Blamed
<1>3. CASE G!Dangling(v) /\ G!Breaks
  <2>1. careless' \/ rewound
    BY <1>1, <1>2, <1>3, Used
  <2> QED
    BY <1>2, <1>3, <2>1, Broken
<1>4. ASSUME NEW f, f = IF G!Finished THEN gFrame ELSE G!Resumed,
             ~G!Dangling(v), gFrame' = [f EXCEPT !.val = 0], G!Reads(f.val, wanted + 1),
             known' = "more", UNCHANGED <<gObj, gUndef, rewound>>
      PROVE  GenInv'
  <2>1. gFrame.st \in {"suspended", "done", "failed"} /\ Has(v) /\ gUndef = FALSE
    BY <1>1, <1>4, Used
  <2>2. UNCHANGED <<kind, throws>> /\ wanted' = wanted + 1 /\ read' = [val |-> f.val, at |-> wanted + 1]
    BY <1>4 DEF G!Fixed, G!Reads
  <2>3. G!Yields = 1 /\ G!Yields' = 1
    BY <1>1, <2>2 DEF G!Yields
  <2>4. f \in [st : {"suspended", "done", "failed", "destroyed"}, k : 0..Length + 2, val : 0..Length + 2]
    BY <1>1, <1>4, <2>1, ResumedIs DEF GenTypes, G!TypeOK, G!Finished
  <2>5. /\ gFrame' \in [st : {"suspended", "done", "failed", "destroyed"}, k : 0..Length + 2, val : 0..Length + 2]
        /\ gFrame'.st = f.st /\ gFrame'.k = f.k /\ gFrame'.val = 0
    BY <1>1, <1>4, <2>4, GenFacts
  <2>6. CASE G!Finished
    <3>1. f = gFrame
      BY <1>4, <2>6
    <3>2. GenTypes'
      BY <1>1, <1>2, <1>4, <2>1, <2>2, <2>4, <2>5, GenFacts DEF GenTypes, G!TypeOK
    <3>3. Progress' /\ Flags'
      BY <1>1, <1>4, <2>2, <2>3, <2>5, <3>1 DEF GenInv, Progress, G!Finished, Flags
    <3>4. ASSUME ~careless', ~rewound PROVE wanted >= 1 /\ (wanted = 1 => (~throws => gFrame.val = 2))
      <4>1. ChatPhase
        BY <1>1, <1>2, <2>1, <3>4 DEF GenInv, InPhase
      <4> QED
        BY <1>1, <2>6, <4>1, GenFacts DEF ChatPhase, G!Finished
    <3>5. InPhase'
      BY <1>1, <1>4, <2>2, <2>5, <2>6, <3>1, <3>4, GenFacts DEF InPhase, ChatPhase, G!Finished
    <3>6. G!ReadsInOrder'
      BY <1>1, <1>4, <2>2, <3>1, <3>4, GenFacts DEF G!ReadsInOrder
    <3> QED
      BY <1>4, <2>1, <2>2, <2>5, <3>1, <3>2, <3>3, <3>5, <3>6, Operated
  <2>7. CASE ~G!Finished
    <3>1. f = G!Resumed /\ gFrame.st = "suspended"
      BY <1>4, <2>1, <2>7 DEF G!Finished
    <3>2. GenTypes'
      BY <1>1, <1>2, <1>4, <2>1, <2>2, <2>4, <2>5, GenFacts DEF GenTypes, G!TypeOK
    <3>3. Progress' /\ Flags'
      BY <1>1, <1>4, <2>2, <2>3, <2>5, <3>1, ResumedIs, GenFacts DEF GenInv, Progress, G!Finished, Flags
    <3>4. ASSUME ~careless', ~rewound PROVE wanted = 0 /\ gFrame.k = 0
      <4>1. ChatPhase
        BY <1>1, <1>2, <2>1, <3>4 DEF GenInv, InPhase
      <4> QED
        BY <1>1, <1>2, <2>7, <3>4, <4>1, GenFacts DEF ChatPhase
    <3>5. ASSUME ~careless', ~rewound PROVE f.k = 1 /\ f.st = "suspended" /\ f.val = 1
      BY <2>3, <3>1, <3>4, <3>5, ResumedIs
    <3>6. InPhase'
      BY <1>1, <1>4, <2>2, <2>5, <3>4, <3>5 DEF InPhase, ChatPhase
    <3>7. G!ReadsInOrder'
      BY <1>1, <1>4, <2>2, <3>4, <3>5 DEF G!ReadsInOrder
    <3>8. gFrame'.st # "destroyed"
      BY <2>5, <3>1, ResumedIs
    <3> QED
      BY <1>4, <2>1, <2>2, <3>2, <3>3, <3>6, <3>7, <3>8, Operated
  <2> QED
    BY <2>6, <2>7
<1> QED
  BY <1>3, <1>4 DEF G!listen

(* answer() *)
LEMMA AnswerKeeps ==
  ASSUME GenInv, NEW v \in Objects, G!answer(v), G!Fixed
  PROVE  GenInv'
<1>1. GenTypes /\ G!Uses(v) /\ kind = "chat" /\ G!Blame(v, known = "more")
  BY DEF GenInv, G!answer
<1>2. /\ careless' \in BOOLEAN /\ (careless => careless')
      /\ ~careless' => ~careless /\ known = "more" /\ gObj[v].h # "null"
  BY <1>1, Blamed
<1>3. CASE G!Dangling(v) /\ G!Breaks
  <2>1. careless' \/ rewound
    BY <1>1, <1>2, <1>3, Used
  <2> QED
    BY <1>2, <1>3, <2>1, Broken
<1>4. CASE /\ ~G!Dangling(v)
           /\ gFrame' = IF G!Finished THEN gFrame ELSE G!Resumed
           /\ known' = "unknown"
           /\ UNCHANGED <<gObj, gUndef, rewound, wanted, read>>
  <2>1. gFrame.st \in {"suspended", "done", "failed"} /\ Has(v) /\ gUndef = FALSE
    BY <1>1, <1>4, Used
  <2>2. UNCHANGED <<kind, throws>>
    BY DEF G!Fixed
  <2>3. G!Yields = 1 /\ G!Yields' = 1
    BY <1>1, <2>2 DEF G!Yields
  <2>4. Flags' /\ G!ReadsInOrder'
    BY <1>2, <1>4, <2>2 DEF GenInv, Flags, G!ReadsInOrder
  <2>5. ASSUME ~careless', ~rewound
        PROVE  \/ wanted = 1 /\ gFrame.k = 1 /\ gFrame.st = "suspended"
               \/ wanted >= 2 /\ G!Finished
    <3>1. ChatPhase
      BY <1>1, <1>2, <2>1, <2>5 DEF GenInv, InPhase
    <3> QED
      BY <1>2, <2>5, <3>1 DEF ChatPhase
  <2>6. CASE G!Finished
    <3>1. gFrame' = gFrame
      BY <1>4, <2>6
    <3>2. GenTypes' /\ Progress'
      BY <1>1, <1>2, <1>4, <2>1, <2>2, <2>3, <3>1 DEF GenTypes, G!TypeOK, GenInv, Progress, G!Finished
    <3>3. InPhase'
      BY <1>1, <1>4, <2>2, <2>5, <2>6, <3>1 DEF InPhase, ChatPhase, G!Finished
    <3> QED
      BY <1>4, <2>1, <2>2, <2>4, <3>1, <3>2, <3>3, Operated
  <2>7. CASE ~G!Finished
    <3>1. gFrame' = G!Resumed /\ gFrame.st = "suspended"
      BY <1>4, <2>1, <2>7 DEF G!Finished
    <3>2. GenTypes'
      BY <1>1, <1>2, <1>4, <2>1, <2>2, <3>1, ResumedIs DEF GenTypes, G!TypeOK
    <3>3. Progress'
      BY <1>1, <2>2, <2>3, <3>1, ResumedIs, GenFacts DEF Progress, G!Finished
    <3>4. ASSUME ~careless', ~rewound
          PROVE  /\ wanted = 1 /\ gFrame'.st \in {"done", "failed"}
                 /\ ~throws => gFrame'.val = 2
      <4>1. wanted = 1 /\ gFrame.k = 1
        BY <2>5, <2>7, <3>4
      <4> QED
        BY <1>1, <2>3, <3>1, <4>1, ResumedIs
    <3>5. InPhase'
      BY <1>1, <1>4, <2>2, <3>4 DEF InPhase, ChatPhase, G!Finished
    <3>6. gFrame'.st # "destroyed"
      BY <3>1, ResumedIs
    <3> QED
      BY <1>4, <2>1, <2>2, <2>4, <3>1, <3>2, <3>3, <3>5, <3>6, Operated
  <2> QED
    BY <2>6, <2>7
<1> QED
  BY <1>3, <1>4 DEF G!answer

(* The handle goes from one object to another, is copied, or is destroyed with its object.  *)
LEMMA MoveKeeps ==
  ASSUME GenInv, NEW v \in Objects, NEW w \in Objects, G!Move(v, w)
  PROVE  GenInv'
<1>1. /\ GenTypes /\ kind # "call" /\ gUndef = FALSE /\ gObj[v].h = "dead" /\ gObj[w].h # "dead" /\ v # w
      /\ gObj' = [gObj EXCEPT ![v] = [G!Holding EXCEPT !.h = gObj[w].h], ![w].h = "null"]
      /\ rewound' = (rewound \/ gObj[w].begin_)
      /\ UNCHANGED <<kind, throws, gFrame, gUndef, known, careless, wanted, read>>
  BY GenFacts DEF GenInv, G!Move
<1>2. /\ gObj' \in [Objects -> [h : {"dead", "null", "frame"}, full_ : BOOLEAN, begin_ : BOOLEAN]]
      /\ gObj'[v] = [h |-> gObj[w].h, full_ |-> FALSE, begin_ |-> FALSE]
      /\ gObj'[w].h = "null" /\ gObj'[w].full_ = gObj[w].full_ /\ gObj'[w].begin_ = gObj[w].begin_
      /\ \A x \in Objects : x # v /\ x # w => gObj'[x] = gObj[x]
  BY <1>1, GenFacts DEF G!Holding
<1>3. \A x \in Objects : IF x = v THEN Has(x)' <=> Has(w) ELSE IF x = w THEN ~Has(x)' ELSE Has(x)' <=> Has(x)
  BY <1>1, <1>2 DEF Has
<1>4. GenTypes'
  BY <1>1, <1>2, GenFacts DEF GenTypes, G!TypeOK
<1>5. Progress' /\ G!UndefinedOnlyMisuse'
  BY <1>1 DEF GenInv, Progress, G!Yields, G!Finished, G!UndefinedOnlyMisuse
<1>6. rewound => rewound'
  BY <1>1
<1>7. G!ReadsInOrder'
  BY <1>1, <1>6 DEF GenInv, G!ReadsInOrder
<1>8. Flags'
  BY <1>1, <1>2 DEF GenInv, Flags
<1>9. OneOwner'
  <2>1. \A x \in Objects : Has(x) => gFrame.st # "destroyed" /\ \A y \in Objects : Has(y) => y = x
    BY <1>1 DEF GenInv, OneOwner
  <2>2. (\A x \in Objects : ~Has(x)) => gFrame.st = "destroyed"
    BY DEF GenInv, OneOwner, G!NothingLeaks, Has
  <2>3. (\A x \in Objects : ~Has(x)') => \A x \in Objects : ~Has(x)
    BY <1>1, <1>3 DEF Has
  <2>4. \A x \in Objects : Has(x)' => gFrame.st # "destroyed" /\ \A y \in Objects : Has(y)' => y = x
    BY <1>1, <1>3, <2>1 DEF Has
  <2> QED
    BY <1>1, <2>2, <2>3, <2>4 DEF OneOwner, G!NothingLeaks, Has
<1>10. InPhase'
  <2> SUFFICES ASSUME ~careless', ~rewound', gFrame'.st # "destroyed"
               PROVE  /\ kind \in {"next", "iter"} => NextPhase'
                      /\ kind = "iter" => IterPhase'
                      /\ kind = "chat" => ChatPhase'
    BY <1>1 DEF InPhase
  <2>1. /\ kind \in {"next", "iter"} => NextPhase
        /\ kind = "iter" => IterPhase
        /\ kind = "chat" => ChatPhase
    BY <1>1, <1>6 DEF GenInv, InPhase
  <2>2. kind \in {"next", "iter"} => NextPhase'
    BY <1>1, <2>1 DEF NextPhase
  <2>3. kind = "chat" => ChatPhase'
    BY <1>1, <2>1 DEF ChatPhase, G!Finished
  <2>4. kind = "iter" => IterPhase'
    <3> SUFFICES ASSUME kind = "iter", NEW x \in Objects, Has(x)' PROVE gObj'[x].begin_ <=> gFrame.k > 0
      BY <1>1, <2>1 DEF IterPhase
    <3>1. CASE x = v
      <4>1. Has(w) /\ ~gObj[w].begin_ /\ gObj'[x].begin_ = FALSE
        BY <1>1, <1>2, <1>3, <3>1
      <4> QED
        BY <2>1, <4>1 DEF IterPhase
    <3>2. CASE x # v
      <4>1. Has(x) /\ gObj'[x] = gObj[x]
        BY <1>2, <1>3, <3>2
      <4> QED
        BY <2>1, <4>1 DEF IterPhase
    <3> QED
      BY <3>1, <3>2
  <2> QED
    BY <2>2, <2>3, <2>4
<1> QED
  BY <1>4, <1>5, <1>7, <1>8, <1>9, <1>10 DEF GenInv

(* Generator3's copy *)
LEMMA CopyKeeps ==
  ASSUME GenInv, NEW v \in Objects, NEW w \in Objects, G!Copy(v, w)
  PROVE  GenInv'
<1>1. /\ GenTypes /\ kind = "call" /\ gUndef = FALSE /\ gObj[v].h = "dead"
      /\ gObj' = [gObj EXCEPT ![v] = gObj[w]] /\ rewound' = TRUE
      /\ UNCHANGED <<kind, throws, gFrame, gUndef, known, careless, wanted, read>>
  BY GenFacts DEF GenInv, G!Copy
<1>2. /\ gObj' \in [Objects -> [h : {"dead", "null", "frame"}, full_ : BOOLEAN, begin_ : BOOLEAN]]
      /\ \A x \in Objects : gObj'[x] = IF x = v THEN gObj[w] ELSE gObj[x]
  BY <1>1, GenFacts
<1>3. GenTypes'
  BY <1>1, <1>2 DEF GenTypes, G!TypeOK
<1>4. Progress' /\ G!UndefinedOnlyMisuse' /\ G!ReadsInOrder' /\ InPhase'
  BY <1>1 DEF GenInv, Progress, G!Yields, G!Finished, G!UndefinedOnlyMisuse, G!ReadsInOrder, InPhase
<1>5. Flags'
  BY <1>1, <1>2 DEF GenInv, Flags
<1>6. OneOwner'
  BY <1>1, <1>2 DEF GenInv, OneOwner, G!NothingLeaks, Has
<1> QED
  BY <1>3, <1>4, <1>5, <1>6 DEF GenInv

(* ~Generator() *)
LEMMA DestructKeeps ==
  ASSUME GenInv, NEW v \in Objects, G!Destruct(v)
  PROVE  GenInv'
<1>1. GenTypes /\ gUndef = FALSE /\ gObj[v].h # "dead"
      /\ UNCHANGED <<kind, throws, known, careless, rewound, wanted, read>>
  BY GenFacts DEF GenInv, G!Destruct, G!history
<1>2. CASE gObj[v].h = "null" /\ kind \in {"iter", "chat"}
           /\ gObj' = [gObj EXCEPT ![v] = G!Absent] /\ UNCHANGED <<gFrame, gUndef>>
  <2>1. /\ gObj' \in [Objects -> [h : {"dead", "null", "frame"}, full_ : BOOLEAN, begin_ : BOOLEAN]]
        /\ \A x \in Objects : gObj'[x] = IF x = v THEN [h |-> "dead", full_ |-> FALSE, begin_ |-> FALSE] ELSE gObj[x]
    BY <1>1, <1>2, GenFacts DEF G!Absent
  <2>2. \A x \in Objects : (Has(x)' <=> Has(x)) /\ (Has(x) => gObj'[x] = gObj[x])
    BY <1>2, <2>1 DEF Has
  <2>3. GenTypes'
    BY <1>1, <1>2, <2>1 DEF GenTypes, G!TypeOK
  <2>4. Progress' /\ G!ReadsInOrder' /\ G!UndefinedOnlyMisuse'
    BY <1>1, <1>2 DEF GenInv, Progress, G!Yields, G!Finished, G!ReadsInOrder, G!UndefinedOnlyMisuse
  <2>5. Flags'
    BY <1>1, <1>2, <2>1 DEF GenInv, Flags
  <2>6. OneOwner'
    BY <1>1, <1>2, <2>2 DEF GenInv, OneOwner, G!NothingLeaks, Has
  <2>7. InPhase'
    BY <1>1, <1>2, <2>2 DEF GenInv, InPhase, NextPhase, IterPhase, ChatPhase, G!Finished
  <2> QED
    BY <2>3, <2>4, <2>5, <2>6, <2>7 DEF GenInv
<1>3. CASE gObj[v].h = "frame" /\ gFrame.st # "destroyed"
           /\ gObj' = [gObj EXCEPT ![v] = G!Absent] /\ gFrame' = [gFrame EXCEPT !.st = "destroyed"]
           /\ UNCHANGED gUndef
  <2>1. /\ gObj' \in [Objects -> [h : {"dead", "null", "frame"}, full_ : BOOLEAN, begin_ : BOOLEAN]]
        /\ \A x \in Objects : gObj'[x] = IF x = v THEN [h |-> "dead", full_ |-> FALSE, begin_ |-> FALSE] ELSE gObj[x]
    BY <1>1, <1>3, GenFacts DEF G!Absent
  <2>2. /\ gFrame' \in [st : {"suspended", "done", "failed", "destroyed"}, k : 0..Length + 2, val : 0..Length + 2]
        /\ gFrame'.st = "destroyed" /\ gFrame'.k = gFrame.k /\ gFrame'.val = gFrame.val
    BY <1>1, <1>3 DEF GenTypes, G!TypeOK
  <2>3. GenTypes'
    BY <1>1, <1>3, <2>1, <2>2 DEF GenTypes, G!TypeOK
  <2>4. Progress' /\ G!ReadsInOrder' /\ G!UndefinedOnlyMisuse' /\ InPhase'
    BY <1>1, <1>3, <2>2 DEF GenInv, Progress, G!Yields, G!Finished, G!ReadsInOrder, G!UndefinedOnlyMisuse, InPhase
  <2>5. Flags'
    BY <1>1, <2>1 DEF GenInv, Flags
  <2>6. OneOwner'
    <3>1. G!NothingLeaks'
      BY <2>2 DEF G!NothingLeaks
    <3>2. ASSUME kind # "call" \/ ~rewound, NEW x \in Objects, Has(x)' PROVE FALSE
      <4>1. x # v /\ Has(x) /\ Has(v)
        BY <1>3, <2>1, <3>2 DEF Has
      <4> QED
        BY <3>2, <4>1 DEF GenInv, OneOwner
    <3> QED
      BY <1>1, <3>1, <3>2 DEF OneOwner, Has
  <2> QED
    BY <2>3, <2>4, <2>5, <2>6 DEF GenInv
<1>4. CASE /\ \/ gObj[v].h = "null" /\ kind \in {"next", "call"}
              \/ gObj[v].h = "frame" /\ gFrame.st = "destroyed"
           /\ gUndef' = TRUE /\ UNCHANGED <<gFrame, gObj>>
  <2>1. GenTypes' /\ Progress' /\ Flags' /\ OneOwner' /\ G!ReadsInOrder'
    BY <1>1, <1>4 DEF GenInv, GenTypes, G!TypeOK, Progress, G!Yields, G!Finished, Flags, OneOwner, G!NothingLeaks,
                      Has, G!ReadsInOrder
  <2>2. InPhase'
    BY <1>1, <1>4 DEF GenInv, InPhase, NextPhase, IterPhase, CallPhase, ChatPhase, G!Finished, Has
  <2>3. rewound \/ (kind = "next" /\ gObj[v].h = "null")
    BY <1>1, <1>4, GenFacts DEF GenInv, Flags, OneOwner, Has
  <2>4. G!UndefinedOnlyMisuse'
    BY <1>1, <1>4, <2>3 DEF G!UndefinedOnlyMisuse
  <2> QED
    BY <2>1, <2>2, <2>4 DEF GenInv
<1> QED
  BY <1>2, <1>3, <1>4 DEF G!Destruct

(* It holds at first, and every step keeps it. *)
LEMMA GenInit == G!Init => GenInv
<1> SUFFICES ASSUME G!Init PROVE GenInv
  OBVIOUS
<1>1. /\ Length \in Nat /\ First \in Objects /\ kind \in Kinds /\ kind \in {"next", "call", "iter", "chat"}
      /\ throws \in BOOLEAN
      /\ gFrame = [st |-> "suspended", k |-> 0, val |-> 0]
      /\ gObj = [x \in Objects |-> IF x = First THEN G!Holding ELSE G!Absent]
      /\ gUndef = FALSE /\ known = "start" /\ careless = FALSE /\ rewound = FALSE
      /\ wanted = 0 /\ read = [val |-> 0, at |-> 0]
  BY SequentialAssumption DEF G!GeneratorsAssumption, G!Init
<1>2. /\ gObj \in [Objects -> [h : {"dead", "null", "frame"}, full_ : BOOLEAN, begin_ : BOOLEAN]]
      /\ \A x \in Objects : (Has(x) <=> x = First) /\ ~gObj[x].full_ /\ ~gObj[x].begin_ /\ gObj[x].h # "null"
  BY <1>1 DEF G!Holding, G!Absent, Has
<1>3. GenTypes
  <2>1. gFrame \in [st : {"suspended", "done", "failed", "destroyed"}, k : 0..Length + 2, val : 0..Length + 2]
    BY <1>1
  <2> QED
    BY <1>1, <1>2, <2>1 DEF GenTypes, G!TypeOK
<1>4. G!Yields \in Nat
  BY <1>3, GenFacts
<1>5. Progress /\ Flags /\ G!UndefinedOnlyMisuse /\ G!ReadsInOrder
  BY <1>1, <1>2, <1>4 DEF Progress, G!Finished, Flags, G!UndefinedOnlyMisuse, G!ReadsInOrder
<1>6. OneOwner
  BY <1>1, <1>2 DEF OneOwner, G!NothingLeaks, Has
<1>7. InPhase
  BY <1>1, <1>2 DEF InPhase, NextPhase, IterPhase, CallPhase, ChatPhase
<1> QED
  BY <1>3, <1>5, <1>6, <1>7 DEF GenInv

(* Every step of Generators keeps the invariant. *)
LEMMA GenNext == GenInv /\ [G!Next]_genVars => GenInv'
<1> SUFFICES ASSUME GenInv, [G!Next]_genVars PROVE GenInv'
  OBVIOUS
<1>1. ASSUME NEW v \in Objects, G!Generator2(v) PROVE GenInv'
  BY <1>1, NextKeeps, DoneKeeps, GetKeeps DEF G!Generator2
<1>2. ASSUME NEW v \in Objects, G!Generator1(v) PROVE GenInv'
  BY <1>2, OperatorBoolKeeps, OperatorCallKeeps DEF G!Generator1
<1>3. ASSUME NEW v \in Objects, G!Generator_(v) PROVE GenInv'
  BY <1>3, BeginKeeps, IncrementKeeps DEF G!Generator_
<1>4. ASSUME NEW v \in Objects, G!Chat(v) PROVE GenInv'
  BY <1>4, ListenKeeps, AnswerKeeps DEF G!Chat
<1>5. ASSUME NEW v \in Objects, G!Destruct(v) PROVE GenInv'
  BY <1>5, DestructKeeps
<1>6. ASSUME NEW v \in Objects, NEW w \in Objects, G!Move(v, w) \/ G!Copy(v, w) PROVE GenInv'
  BY <1>6, MoveKeeps, CopyKeeps
<1>7. CASE UNCHANGED genVars
  BY <1>7 DEF genVars, GenInv, GenTypes, G!TypeOK, Progress, G!Yields, G!Finished, Flags, OneOwner, G!NothingLeaks,
              Has, InPhase, NextPhase, IterPhase, CallPhase, ChatPhase, G!UndefinedOnlyMisuse, G!ReadsInOrder
<1> QED
  BY <1>1, <1>2, <1>3, <1>4, <1>5, <1>6, <1>7 DEF G!Next

(* What a program sees of it. *)
LEMMA GenInvIsSafe == GenInv => G!TypeOK /\ GeneratorSafety
<1> SUFFICES ASSUME GenInv PROVE G!TypeOK /\ GeneratorSafety
  OBVIOUS
<1>1. G!NoValueSkipped
  <2> SUFFICES ASSUME ~careless, ~rewound, kind # "chat", gFrame.st \in {"suspended", "done"}
               PROVE  gFrame.k = wanted + (IF G!Ahead THEN 1 ELSE 0)
    BY DEF G!NoValueSkipped
  <2>1. PICK v \in Objects : Has(v) /\ \A w \in Objects : Has(w) => w = v
    BY DEF GenInv, OneOwner, G!NothingLeaks, Has
  <2>2. G!Ahead <=> gObj[v].full_
    BY <2>1 DEF G!Ahead, Has
  <2>3. GenTypes
    BY DEF GenInv
  <2>4. CASE kind = "call"
    BY <2>1, <2>2, <2>4 DEF GenInv, InPhase, CallPhase
  <2>5. CASE kind \in {"next", "iter"}
    BY <2>2, <2>3, <2>5, GenFacts DEF GenInv, InPhase, NextPhase, Flags
  <2> QED
    BY <2>3, <2>4, <2>5, GenFacts
<1> QED
  BY <1>1 DEF GenInv, GenTypes, OneOwner, GeneratorSafety, G!Safety
-----------------------------------------------------------------------------
(* Every set of naturals that is not empty has a least element. *)
LEMMA Least ==
  ASSUME NEW A \in SUBSET Nat, A # {}
  PROVE  \E m \in A : \A k \in A : m <= k
<1>1. PICK top \in A : TRUE
  OBVIOUS
<1> DEFINE R == StrictSubsetOrdering(0..top)
           U == {0..k : k \in {i \in A : i <= top}}
<1>2. IsFiniteSet(0..top)
  BY FS_Interval
<1>3. IsWellFoundedOn(R, SUBSET (0..top))
  BY <1>2, FS_StrictSubsetOrderingWellFounded, FS_FiniteSubsetsOfFinite
<1>4. \A a, b \in SUBSET (0..top) : a \subseteq b /\ a # b => <<a, b>> \in R
  BY DEF StrictSubsetOrdering
<1>5. U # {} /\ U \subseteq SUBSET (0..top)
  BY <1>1
<1> HIDE DEF R
<1>6. PICK x \in U : \A y \in U : ~ (<<y, x>> \in R)
  BY <1>3, <1>5, WFMin
<1>7. PICK m \in A : m <= top /\ x = 0..m
  OBVIOUS
<1>8. ASSUME NEW k \in A, k < m PROVE FALSE
  <2>1. 0..k \in U
    BY <1>7, <1>8
  <2>2. 0..k \subseteq 0..m /\ 0..k # 0..m
    <3>1. m \in 0..m /\ m \notin 0..k
      BY <1>8
    <3>2. \A i \in 0..k : i \in 0..m
      BY <1>8
    <3> QED
      BY <3>1, <3>2
  <2> QED
    BY <1>4, <1>5, <1>6, <1>7, <2>1, <2>2
<1> QED
  BY <1>8

(* SimpleTask.  Its frames are those of calls in progress, in the order of the calls; no     *)
(* suspended task is ever resumed, since only an exception that was forgotten suspends one.  *)
TaskCalls == [what : {"body", "call", "notify"}, t : T!Tasks]
Frame == {"running", "suspended", "done"}

TaskTypes ==
  /\ tKind \in {"STask", "Task"} /\ prog \in Programs
  /\ tStack \in Seq(TaskCalls)
  /\ at \in [T!Tasks -> Frame \cup {"none", "destroyed"}]
  /\ todo \in [T!Tasks -> Seq(T!Tasks \cup {Throw})]
  /\ stage \in [T!Tasks -> {"call", "await", "get"}]
  /\ result \in [T!Tasks -> {"none", "value", "error"}]
  /\ callback \in [T!Tasks -> T!Tasks \cup {None}]
  /\ main \in {"call", "then", "get", "waiting", "ended", "terminated"} /\ handled \in {0, 1}

(* Each task is called at one place, later than its caller; what is left to call is fresh. *)
CalledOnce ==
  \A t, u \in T!Tasks : \A i \in 1..Len(todo[t]), j \in 1..Len(todo[u]) :
    /\ todo[t][i] = Throw \/ todo[t][i] > t
    /\ todo[t][i] = todo[u][j] /\ todo[t][i] # Throw => t = u /\ i = j
Fresh ==
  /\ \A t \in T!Tasks : \A i \in 1..Len(todo[t]) :
       todo[t][i] # Throw /\ (i > 1 \/ stage[t] = "call") => at[todo[t][i]] = "none"
  /\ \A t \in T!Tasks : at[t] = "none" =>
       /\ stage[t] = "call" /\ result[t] = "none" /\ callback[t] = None
       /\ \A i \in 1..Len(tStack) : tStack[i].t # t

(* Who awaits and who is awaited. *)
Awaiting(t, u) == at[t] \in {"running", "suspended"} /\ stage[t] # "call" /\ Head(todo[t]) = u
AwaitsOK ==
  \A t \in T!Tasks :
    /\ stage[t] # "call" => todo[t] # << >> /\ Head(todo[t]) \in T!Tasks
    /\ \A u \in T!Tasks : Awaiting(t, u) => at[u] \in Frame
    /\ at[t] = "suspended" => stage[t] = "get" /\ tKind = "STask" /\ \E u \in T!Tasks : T!Threw(u)
    /\ at[t] = "running" /\ stage[t] = "get" => result[Head(todo[t])] # "none"
OwnersOK == \A u \in T!Tasks \ {1} : at[u] \in Frame => \E t \in T!Tasks : Awaiting(t, u)

(* Who runs is on the stack, above those that await it. *)
RunningOnStack ==
  \A t \in T!Tasks : at[t] = "running" => \E i \in 1..Len(tStack) : tStack[i] = T!Call("body", t)
InOrder ==
  \A t, u \in T!Tasks : \A i, j \in 1..Len(tStack) :
    /\ stage[t] # "call" /\ Head(todo[t]) = u /\ at[u] = "running"
    /\ tStack[i] = T!Call("body", t) /\ tStack[j] = T!Call("body", u)
    => i < j
NoneNotified ==
  /\ \A i \in 1..Len(tStack) : tStack[i].what # "notify"
  /\ \A t \in T!Tasks : callback[t] # None => at[t] # "running"

ResultsOK ==
  \A t \in T!Tasks :
    /\ result[t] # "none" => at[t] \in {"done", "destroyed"}
    /\ result[t] = "error" => tKind = "Task" /\ T!Threw(t)
    /\ at[t] = "done" /\ result[t] = "none" => tKind = "STask" /\ T!Threw(t)

TaskMainOK ==
  /\ main \in {"call", "get", "waiting", "ended"} => tStack = << >>
  /\ main = "call" <=> at[1] = "none"
  /\ main # "ended" => at[1] # "destroyed"
  /\ main \in {"get", "waiting", "ended"} => handled = IF result[1] = "none" THEN 0 ELSE 1
  /\ main = "ended" /\ ~(\E t \in T!Tasks : T!Threw(t)) => result[1] = "value"
  /\ main = "waiting" => tKind = "STask" /\ \E t \in T!Tasks : T!Threw(t)
  /\ main = "terminated" => tKind = "Task" /\ \E t \in T!Tasks \ {1} : T!Threw(t)
  /\ T!NoFrameLeft

TaskInv ==
  /\ TaskTypes /\ CalledOnce /\ Fresh /\ AwaitsOK /\ OwnersOK
  /\ RunningOnStack /\ InOrder /\ NoneNotified /\ ResultsOK /\ TaskMainOK
-----------------------------------------------------------------------------
(* The tasks of a program. *)
LEMMA ProgramFacts ==
  ASSUME NEW p \in Programs
  PROVE  /\ p \in Seq(Seq(DOMAIN p \cup {Throw})) /\ Len(p) \in Nat \ {0} /\ DOMAIN p = 1..Len(p)
         /\ 1 \in DOMAIN p /\ DOMAIN p \subseteq Nat \ {0} /\ Throw \notin DOMAIN p /\ None \notin DOMAIN p
         /\ \A t \in DOMAIN p : p[t] \in Seq(DOMAIN p \cup {Throw}) /\ DOMAIN p[t] = 1..Len(p[t])
         /\ \A t, u \in DOMAIN p : \A i \in 1..Len(p[t]), j \in 1..Len(p[u]) :
              /\ p[t][i] = Throw \/ p[t][i] > t
              /\ p[t][i] = p[u][j] /\ p[t][i] # Throw => t = u /\ i = j
<1> DEFINE X == DOMAIN p \cup {Throw}
<1>1. p \in Seq(Seq(X)) /\ p # << >> /\ {Throw, None} \cap DOMAIN p = {}
  BY SequentialAssumption DEF T!SimpleTaskAssumption
<1>2. Len(p) \in Nat \ {0}
  BY <1>1, EmptySeq
<1>3. DOMAIN p = 1..Len(p) /\ p \in [1..Len(p) -> Seq(X)]
  BY <1>1, LenProperties
<1>4. \A t \in DOMAIN p : p[t] \in Seq(X)
  BY <1>3
<1>5. \A t \in DOMAIN p : DOMAIN p[t] = 1..Len(p[t])
  BY <1>4, LenProperties
<1>6. \A t, u \in DOMAIN p : \A i \in DOMAIN p[t], j \in DOMAIN p[u] :
        /\ p[t][i] = Throw \/ p[t][i] > t
        /\ p[t][i] = p[u][j] /\ p[t][i] # Throw => t = u /\ i = j
  BY SequentialAssumption DEF T!SimpleTaskAssumption
<1>7. 1 \in DOMAIN p /\ DOMAIN p \subseteq Nat \ {0}
  BY <1>2, <1>3
<1> HIDE DEF X
<1>8. \A t, u \in DOMAIN p : \A i \in 1..Len(p[t]), j \in 1..Len(p[u]) :
        /\ p[t][i] = Throw \/ p[t][i] > t
        /\ p[t][i] = p[u][j] /\ p[t][i] # Throw => t = u /\ i = j
  BY <1>5, <1>6
<1> QED
  BY <1>1, <1>2, <1>3, <1>4, <1>5, <1>7, <1>8 DEF X

(* What the typing of SimpleTask says of a task's program and of the stack. *)
LEMMA TaskFacts ==
  ASSUME TaskTypes
  PROVE  /\ 1 \in T!Tasks /\ T!Tasks \subseteq Nat \ {0} /\ Throw \notin T!Tasks /\ None \notin T!Tasks
         /\ \A t \in T!Tasks :
              /\ todo[t] \in Seq(T!Tasks \cup {Throw}) /\ Len(todo[t]) \in Nat
              /\ \A i \in 1..Len(todo[t]) : todo[t][i] \in T!Tasks \cup {Throw}
              /\ todo[t] # << >> => 1 \in 1..Len(todo[t]) /\ Head(todo[t]) = todo[t][1]
         /\ Len(tStack) \in Nat
         /\ tStack # << >> => Len(tStack) \in 1..Len(tStack)
         /\ \A i \in 1..Len(tStack) : tStack[i] \in TaskCalls
<1>1. 1 \in T!Tasks /\ T!Tasks \subseteq Nat \ {0} /\ Throw \notin T!Tasks /\ None \notin T!Tasks
  BY ProgramFacts DEF TaskTypes, T!Tasks
<1>2. \A t \in T!Tasks : todo[t] \in Seq(T!Tasks \cup {Throw})
  BY DEF TaskTypes
<1>3. ASSUME NEW t \in T!Tasks
      PROVE  /\ Len(todo[t]) \in Nat
             /\ \A i \in 1..Len(todo[t]) : todo[t][i] \in T!Tasks \cup {Throw}
             /\ todo[t] # << >> => 1 \in 1..Len(todo[t]) /\ Head(todo[t]) = todo[t][1]
  <2>1. PICK s \in Seq(T!Tasks \cup {Throw}) : s = todo[t]
    BY <1>2
  <2>2. Len(s) \in Nat /\ \A i \in 1..Len(s) : s[i] \in T!Tasks \cup {Throw}
    BY LenProperties, ElementOfSeq
  <2>3. s # << >> => Len(s) \in Nat \ {0} /\ Head(s) = s[1]
    BY EmptySeq
  <2> QED
    BY <2>1, <2>2, <2>3
<1>4. Len(tStack) \in Nat /\ \A i \in 1..Len(tStack) : tStack[i] \in TaskCalls
  BY LenProperties, ElementOfSeq DEF TaskTypes
<1>5. tStack # << >> => Len(tStack) \in 1..Len(tStack)
  BY EmptySeq, <1>4 DEF TaskTypes
<1> QED
  BY <1>1, <1>2, <1>3, <1>4, <1>5

(* The task that runs, and what it awaits: that is not running. *)
LEMMA ActiveFacts ==
  ASSUME TaskInv, NEW t \in T!Tasks, T!Active(t)
  PROVE  /\ tStack # << >> /\ Len(tStack) \in 1..Len(tStack) /\ tStack[Len(tStack)] = T!Call("body", t)
         /\ at[t] = "running" /\ main = "then"
         /\ stage[t] # "call" => /\ todo[t] # << >> /\ Head(todo[t]) \in T!Tasks
                                 /\ at[Head(todo[t])] \in {"suspended", "done"}
         /\ stage[t] = "get" => result[Head(todo[t])] # "none" /\ at[Head(todo[t])] = "done"
<1>1. /\ tStack # << >> /\ Len(tStack) \in 1..Len(tStack) /\ tStack[Len(tStack)] = T!Call("body", t)
      /\ at[t] = "running" /\ Len(tStack) \in Nat
  BY TaskFacts DEF TaskInv, T!Active, T!Top
<1>2. main = "then"
  BY <1>1 DEF TaskInv, TaskMainOK, TaskTypes, T!Active
<1>3. ASSUME stage[t] # "call"
      PROVE  /\ todo[t] # << >> /\ Head(todo[t]) \in T!Tasks
             /\ at[Head(todo[t])] \in {"suspended", "done"}
  <2>1. todo[t] # << >> /\ Head(todo[t]) \in T!Tasks /\ at[Head(todo[t])] \in Frame
    BY <1>1, <1>3 DEF TaskInv, AwaitsOK, Awaiting
  <2>2. ASSUME at[Head(todo[t])] = "running" PROVE FALSE
    <3>1. PICK j \in 1..Len(tStack) : tStack[j] = T!Call("body", Head(todo[t]))
      BY <2>1, <2>2 DEF TaskInv, RunningOnStack
    <3>2. Len(tStack) < j
      BY <1>1, <1>3, <2>1, <2>2, <3>1 DEF TaskInv, InOrder
    <3> QED
      BY <1>1, <3>1, <3>2
  <2> QED
    BY <2>1, <2>2 DEF Frame
<1>4. stage[t] = "get" => result[Head(todo[t])] # "none" /\ at[Head(todo[t])] = "done"
  <2> SUFFICES ASSUME stage[t] = "get" PROVE result[Head(todo[t])] # "none" /\ at[Head(todo[t])] = "done"
    OBVIOUS
  <2>1. result[Head(todo[t])] # "none"
    BY <1>1 DEF TaskInv, AwaitsOK
  <2> QED
    BY <1>3, <2>1 DEF TaskInv, ResultsOK
<1> QED
  BY <1>1, <1>2, <1>3, <1>4

(* What threw has thrown. *)
LEMMA ThrewStays ==
  ASSUME TaskTypes, UNCHANGED prog,
         \A t \in T!Tasks : at[t] \in {"done", "destroyed"} => at'[t] \in {"done", "destroyed"} /\ todo'[t] = todo[t]
  PROVE  \A t \in T!Tasks : T!Threw(t) => T!Threw(t)'
BY DEF T!Threw, T!Tasks

(* The stack: a call ends, or one or two begin. *)
LEMMA TaskPops ==
  ASSUME TaskTypes, tStack # << >>, tStack' = T!Popped
  PROVE  /\ tStack' \in Seq(TaskCalls) /\ Len(tStack') = Len(tStack) - 1 /\ Len(tStack) \in Nat \ {0}
         /\ \A i \in 1..Len(tStack') : i \in 1..Len(tStack) /\ i < Len(tStack) /\ tStack'[i] = tStack[i]
         /\ \A i \in 1..Len(tStack) : i # Len(tStack) => i \in 1..Len(tStack')
<1>1. tStack \in Seq(TaskCalls) /\ Len(tStack) \in Nat \ {0}
  BY EmptySeq DEF TaskTypes
<1>2. \A i \in 1..(Len(tStack) - 1) : tStack[i] \in TaskCalls
  BY <1>1, ElementOfSeq
<1>3. /\ tStack' \in Seq(TaskCalls)
      /\ Len(tStack') = (IF 1 <= Len(tStack) - 1 THEN Len(tStack) - 1 - 1 + 1 ELSE 0)
      /\ \A i \in 1..(Len(tStack) - 1 - 1 + 1) : tStack'[i] = tStack[1 + i - 1]
  BY <1>1, <1>2, SubSeqProperties DEF T!Popped
<1>4. Len(tStack') = Len(tStack) - 1
  <2>1. PICK n \in Nat \ {0} : n = Len(tStack)
    BY <1>1
  <2>2. (IF 1 <= n - 1 THEN n - 1 - 1 + 1 ELSE 0) = n - 1
    OBVIOUS
  <2> QED
    BY <1>3, <2>1, <2>2
<1>5. \A i \in 1..Len(tStack') : i \in 1..(Len(tStack) - 1 - 1 + 1) /\ 1 + i - 1 = i
  BY <1>1, <1>4
<1>6. \A i \in 1..Len(tStack') : i \in 1..Len(tStack) /\ i < Len(tStack)
  BY <1>1, <1>4
<1>7. \A i \in 1..Len(tStack) : i # Len(tStack) => i \in 1..Len(tStack')
  BY <1>1, <1>4
<1> QED
  BY <1>1, <1>3, <1>4, <1>5, <1>6, <1>7

(* The stack with one more call on it. *)
LEMMA TaskPushes ==
  ASSUME TaskTypes, NEW c \in TaskCalls, tStack' = Append(tStack, c)
  PROVE  /\ tStack' \in Seq(TaskCalls) /\ Len(tStack') = Len(tStack) + 1 /\ Len(tStack) \in Nat
         /\ tStack'[Len(tStack) + 1] = c /\ Len(tStack) + 1 \in 1..Len(tStack')
         /\ \A i \in 1..Len(tStack) : i \in 1..Len(tStack') /\ tStack'[i] = tStack[i]
         /\ \A i \in 1..Len(tStack') : i # Len(tStack) + 1 => i \in 1..Len(tStack)
<1>1. tStack \in Seq(TaskCalls) /\ Len(tStack) \in Nat
  BY LenProperties DEF TaskTypes
<1>2. /\ tStack' \in Seq(TaskCalls) /\ Len(tStack') = Len(tStack) + 1
      /\ \A i \in 1..Len(tStack) : tStack'[i] = tStack[i]
      /\ tStack'[Len(tStack) + 1] = c
  BY <1>1, AppendProperties
<1> QED
  BY <1>1, <1>2

(* The stack with two more calls on it. *)
LEMMA TaskPushesTwo ==
  ASSUME TaskTypes, NEW c \in TaskCalls, NEW d \in TaskCalls, tStack' = tStack \o <<c, d>>
  PROVE  /\ tStack' \in Seq(TaskCalls) /\ Len(tStack') = Len(tStack) + 2 /\ Len(tStack) \in Nat
         /\ tStack'[Len(tStack) + 1] = c /\ tStack'[Len(tStack) + 2] = d /\ Len(tStack) + 2 \in 1..Len(tStack')
         /\ \A i \in 1..Len(tStack) : i \in 1..Len(tStack') /\ tStack'[i] = tStack[i]
         /\ \A i \in 1..Len(tStack') : i \notin {Len(tStack) + 1, Len(tStack) + 2} => i \in 1..Len(tStack)
<1>1. tStack \in Seq(TaskCalls) /\ Len(tStack) \in Nat
  BY LenProperties DEF TaskTypes
<1>2. <<c, d>> \in Seq(TaskCalls) /\ Len(<<c, d>>) = 2 /\ <<c, d>>[1] = c /\ <<c, d>>[2] = d
  OBVIOUS
<1>3. /\ tStack' \in Seq(TaskCalls) /\ Len(tStack') = Len(tStack) + 2
      /\ \A i \in 1..(Len(tStack) + 2) : tStack'[i] = IF i <= Len(tStack) THEN tStack[i] ELSE <<c, d>>[i - Len(tStack)]
  BY <1>1, <1>2, ConcatProperties
<1>4. tStack'[Len(tStack) + 1] = c /\ tStack'[Len(tStack) + 2] = d
  BY <1>1, <1>2, <1>3
<1> QED
  BY <1>1, <1>3, <1>4
-----------------------------------------------------------------------------
(* The steps: main() calls its task, *)
LEMMA CallMainKeeps == TaskInv /\ T!CallMain => TaskInv'
<1> SUFFICES ASSUME TaskInv, T!CallMain PROVE TaskInv'
  OBVIOUS
<1> DEFINE c == T!Call("body", 1)
<1>0. T!Tasks' = T!Tasks /\ TaskCalls' = TaskCalls /\ TaskTypes
  BY DEF T!CallMain, T!Tasks, TaskCalls, TaskInv
<1>1. /\ at[1] = "none" /\ tStack = << >> /\ 1 \in T!Tasks /\ c \in TaskCalls
      /\ at' = [at EXCEPT ![1] = "running"] /\ tStack' = Append(tStack, c) /\ main' = "then"
      /\ UNCHANGED <<tKind, prog, todo, stage, result, callback, handled>>
  BY <1>0, TaskFacts DEF TaskInv, TaskMainOK, T!CallMain, T!Create, T!Call, TaskCalls
<1>2. /\ at'[1] = "running" /\ \A u \in T!Tasks : u # 1 => at'[u] = at[u]
      /\ at' \in [T!Tasks -> Frame \cup {"none", "destroyed"}]
  BY <1>0, <1>1 DEF TaskTypes, Frame
<1>3. /\ tStack' \in Seq(TaskCalls) /\ tStack' = <<c>> /\ Len(tStack') = 1 /\ tStack'[1] = c
  BY <1>1
<1>4. TaskTypes'
  BY <1>0, <1>1, <1>2, <1>3 DEF TaskTypes
<1>5. \A u \in T!Tasks : T!Threw(u) => T!Threw(u)'
  BY <1>0, <1>1, <1>2, ThrewStays
<1>6. CalledOnce'
  <2>1. todo' = todo
    BY <1>1
  <2> QED
    BY <1>0, <2>1 DEF TaskInv, CalledOnce
<1>7. \A t \in T!Tasks : \A i \in 1..Len(todo[t]) : todo[t][i] # 1
  <2> SUFFICES ASSUME NEW t \in T!Tasks, NEW i \in 1..Len(todo[t]), todo[t][i] = 1 PROVE FALSE
    OBVIOUS
  <2>1. t \in Nat /\ 1 # Throw
    BY <1>0, <1>1, TaskFacts
  <2>2. t < 1
    BY <2>1 DEF TaskInv, CalledOnce
  <2>3. t # 0
    BY <1>0, TaskFacts
  <2> QED
    BY <2>1, <2>2, <2>3
<1>8. Fresh'
  <2>1. ASSUME NEW t \in T!Tasks, NEW i \in 1..Len(todo[t]), todo[t][i] # Throw, i > 1 \/ stage[t] = "call"
        PROVE  at'[todo[t][i]] = "none"
    <3>1. todo[t][i] \in T!Tasks /\ todo[t][i] # 1 /\ at[todo[t][i]] = "none"
      BY <1>0, <1>7, <2>1, TaskFacts DEF TaskInv, Fresh
    <3> QED
      BY <1>2, <3>1
  <2>2. ASSUME NEW t \in T!Tasks, at'[t] = "none"
        PROVE  /\ stage[t] = "call" /\ result[t] = "none" /\ callback[t] = None
               /\ \A i \in 1..Len(tStack') : tStack'[i].t # t
    <3>1. t # 1 /\ at[t] = "none"
      BY <1>2, <2>2
    <3>2. \A i \in 1..Len(tStack') : tStack'[i].t # t
      BY <1>3, <3>1 DEF T!Call
    <3> QED
      BY <3>1, <3>2 DEF TaskInv, Fresh
  <2> QED
    BY <1>0, <1>1, <2>1, <2>2 DEF Fresh
<1>9. \A t \in T!Tasks : at[t] = "none" => stage[t] = "call" /\ result[t] = "none" /\ callback[t] = None
  BY DEF TaskInv, Fresh
<1>10. AwaitsOK'
  <2>1. \A t \in T!Tasks : stage[t] # "call" => todo[t] # << >> /\ Head(todo[t]) \in T!Tasks
    BY DEF TaskInv, AwaitsOK
  <2>2. ASSUME NEW t \in T!Tasks, NEW u \in T!Tasks, Awaiting(t, u)' PROVE at'[u] \in Frame
    <3>1. Awaiting(t, u)
      BY <1>1, <1>2, <1>9, <2>2 DEF Awaiting
    <3>2. at[u] \in Frame
      BY <3>1 DEF TaskInv, AwaitsOK
    <3> QED
      BY <1>2, <3>2 DEF Frame
  <2>3. ASSUME NEW t \in T!Tasks, at'[t] = "suspended"
        PROVE  stage[t] = "get" /\ tKind = "STask" /\ \E u \in T!Tasks : T!Threw(u)
    <3>1. at[t] = "suspended"
      BY <1>2, <2>3
    <3> QED
      BY <3>1 DEF TaskInv, AwaitsOK
  <2>4. ASSUME NEW t \in T!Tasks, at'[t] = "running", stage[t] = "get" PROVE result[Head(todo[t])] # "none"
    BY <1>1, <1>2, <1>9, <2>4 DEF TaskInv, AwaitsOK
  <2> QED
    BY <1>0, <1>1, <1>5, <2>1, <2>2, <2>3, <2>4 DEF AwaitsOK
<1>11. OwnersOK'
  <2> SUFFICES ASSUME NEW u \in T!Tasks \ {1}, at'[u] \in Frame PROVE \E t \in T!Tasks : Awaiting(t, u)'
    BY <1>0 DEF OwnersOK
  <2>1. PICK t \in T!Tasks : Awaiting(t, u)
    BY <1>2 DEF TaskInv, OwnersOK
  <2> QED
    BY <1>1, <1>2, <2>1 DEF Awaiting
<1>12. RunningOnStack'
  <2> SUFFICES ASSUME NEW t \in T!Tasks, at'[t] = "running"
               PROVE  \E i \in 1..Len(tStack') : tStack'[i] = T!Call("body", t)
    BY <1>0 DEF RunningOnStack, T!Call
  <2>1. t = 1
    <3> SUFFICES ASSUME t # 1 PROVE FALSE
      OBVIOUS
    <3>1. at[t] = "running"
      BY <1>2
    <3>2. PICK i \in 1..Len(tStack) : TRUE
      BY <3>1 DEF TaskInv, RunningOnStack
    <3> QED
      BY <1>1, <3>2
  <2> QED
    BY <1>3, <2>1
<1>13. InOrder'
  <2> SUFFICES ASSUME NEW t \in T!Tasks, NEW i \in 1..Len(tStack'),
                      stage[t] # "call", tStack'[i] = T!Call("body", t)
               PROVE  FALSE
    BY <1>0, <1>1 DEF InOrder, T!Call
  <2>1. t = 1
    BY <1>3 DEF T!Call
  <2> QED
    BY <1>1, <1>9, <2>1
<1>14. NoneNotified'
  BY <1>0, <1>1, <1>2, <1>3, <1>9 DEF TaskInv, NoneNotified, T!Call
<1>15. ResultsOK'
  <2> SUFFICES ASSUME NEW t \in T!Tasks
               PROVE  /\ result[t] # "none" => at'[t] \in {"done", "destroyed"}
                      /\ result[t] = "error" => tKind = "Task" /\ T!Threw(t)'
                      /\ at'[t] = "done" /\ result[t] = "none" => tKind = "STask" /\ T!Threw(t)'
    BY <1>0, <1>1 DEF ResultsOK
  <2>1. CASE t = 1
    BY <1>1, <1>2, <1>9, <2>1
  <2>2. CASE t # 1
    BY <1>2, <1>5, <2>2 DEF TaskInv, ResultsOK
  <2> QED
    BY <2>1, <2>2
<1>16. TaskMainOK'
  BY <1>0, <1>1, <1>2 DEF TaskMainOK, T!NoFrameLeft
<1> QED
  BY <1>4, <1>6, <1>8, <1>10, <1>11, <1>12, <1>13, <1>14, <1>15, <1>16 DEF TaskInv

(* a task calls one, *)
LEMMA CallTaskKeeps == ASSUME TaskInv, NEW t \in T!Tasks, T!CallTask(t) PROVE TaskInv'
<1> DEFINE c == T!Call("body", Head(todo[t]))
<1>0. T!Tasks' = T!Tasks /\ TaskCalls' = TaskCalls /\ TaskTypes
  BY DEF T!CallTask, T!Tasks, TaskCalls, TaskInv
<1>1. /\ at[t] = "running" /\ main = "then" /\ todo[t] # << >> /\ Head(todo[t]) # Throw /\ stage[t] = "call"
      /\ tStack[Len(tStack)] = T!Call("body", t) /\ Len(tStack) \in 1..Len(tStack) /\ tStack # << >>
  BY ActiveFacts DEF T!CallTask
<1>2. PICK u \in T!Tasks : u = Head(todo[t]) /\ 1 \in 1..Len(todo[t]) /\ u = todo[t][1]
  BY <1>0, <1>1, TaskFacts
<1>3. /\ at' = [at EXCEPT ![u] = "running"] /\ tStack' = Append(tStack, T!Call("body", u))
      /\ stage' = [stage EXCEPT ![t] = "await"] /\ T!Call("body", u) \in TaskCalls
      /\ UNCHANGED <<tKind, prog, todo, result, callback, main, handled>>
  BY <1>2 DEF T!CallTask, T!Create, T!Call, TaskCalls
<1>4. /\ at[u] = "none" /\ u # t /\ u \in Nat /\ t \in Nat /\ u > t /\ u # Throw /\ u # 1
  <2>1. u # Throw /\ u \in Nat /\ t \in Nat
    BY <1>0, TaskFacts
  <2>2. at[u] = "none"
    BY <1>1, <1>2, <2>1 DEF TaskInv, Fresh
  <2>3. u > t
    BY <1>2, <2>1 DEF TaskInv, CalledOnce
  <2>4. t # 0
    BY <1>0, TaskFacts
  <2> QED
    BY <2>1, <2>2, <2>3, <2>4
<1>5. /\ at'[u] = "running" /\ \A v \in T!Tasks : v # u => at'[v] = at[v]
      /\ at' \in [T!Tasks -> Frame \cup {"none", "destroyed"}]
      /\ stage'[t] = "await" /\ \A v \in T!Tasks : v # t => stage'[v] = stage[v]
      /\ stage' \in [T!Tasks -> {"call", "await", "get"}]
  BY <1>0, <1>3 DEF TaskTypes, Frame
<1>6. /\ tStack' \in Seq(TaskCalls) /\ Len(tStack') = Len(tStack) + 1 /\ Len(tStack) \in Nat
      /\ tStack'[Len(tStack) + 1] = T!Call("body", u) /\ Len(tStack) + 1 \in 1..Len(tStack')
      /\ \A i \in 1..Len(tStack) : i \in 1..Len(tStack') /\ tStack'[i] = tStack[i]
      /\ \A i \in 1..Len(tStack') : i # Len(tStack) + 1 => i \in 1..Len(tStack)
  BY <1>0, <1>3, TaskPushes
<1>7. TaskTypes'
  BY <1>0, <1>3, <1>5, <1>6 DEF TaskTypes
<1>8. \A v \in T!Tasks : T!Threw(v) => T!Threw(v)'
  BY <1>0, <1>3, <1>4, <1>5, ThrewStays
<1>9. CalledOnce'
  <2>1. todo' = todo
    BY <1>3
  <2> QED
    BY <1>0, <2>1 DEF TaskInv, CalledOnce
<1>10. \A v \in T!Tasks : at[v] = "none" =>
         /\ stage[v] = "call" /\ result[v] = "none" /\ callback[v] = None
         /\ \A i \in 1..Len(tStack) : tStack[i].t # v
  BY DEF TaskInv, Fresh
<1>11. \A v \in T!Tasks : \A i \in 1..Len(todo[v]) : todo[v][i] = u => v = t /\ i = 1
  BY <1>2, <1>4 DEF TaskInv, CalledOnce
<1>12. Fresh'
  <2>1. ASSUME NEW v \in T!Tasks, NEW i \in 1..Len(todo[v]), todo[v][i] # Throw, i > 1 \/ stage'[v] = "call"
        PROVE  at'[todo[v][i]] = "none"
    <3>1. todo[v][i] \in T!Tasks
      BY <1>0, <2>1, TaskFacts
    <3>2. todo[v][i] # u
      BY <1>5, <1>11, <2>1
    <3>3. at[todo[v][i]] = "none"
      BY <1>5, <2>1 DEF TaskInv, Fresh
    <3> QED
      BY <1>5, <3>1, <3>2, <3>3
  <2>2. ASSUME NEW v \in T!Tasks, at'[v] = "none"
        PROVE  /\ stage'[v] = "call" /\ result[v] = "none" /\ callback[v] = None
               /\ \A i \in 1..Len(tStack') : tStack'[i].t # v
    <3>1. v # u /\ v # t /\ at[v] = "none"
      BY <1>1, <1>5, <2>2
    <3>2. \A i \in 1..Len(tStack') : tStack'[i].t # v
      BY <1>6, <1>10, <3>1 DEF T!Call
    <3> QED
      BY <1>5, <1>10, <3>1, <3>2
  <2> QED
    BY <1>0, <1>3, <2>1, <2>2 DEF Fresh
<1>13. \A v, w \in T!Tasks : Awaiting(v, w)' <=> (Awaiting(v, w) \/ (v = t /\ w = u))
  <2> SUFFICES ASSUME NEW v \in T!Tasks, NEW w \in T!Tasks
               PROVE  Awaiting(v, w)' <=> (Awaiting(v, w) \/ (v = t /\ w = u))
    OBVIOUS
  <2>1. CASE v = t
    BY <1>1, <1>2, <1>3, <1>4, <1>5, <2>1 DEF Awaiting
  <2>2. CASE v = u
    BY <1>3, <1>4, <1>5, <1>10, <2>2 DEF Awaiting
  <2>3. CASE v # t /\ v # u
    BY <1>3, <1>5, <2>3 DEF Awaiting
  <2> QED
    BY <2>1, <2>2, <2>3
<1>14. AwaitsOK'
  <2>1. \A v \in T!Tasks : stage'[v] # "call" => todo[v] # << >> /\ Head(todo[v]) \in T!Tasks
    BY <1>1, <1>2, <1>5 DEF TaskInv, AwaitsOK
  <2>2. ASSUME NEW v \in T!Tasks, NEW w \in T!Tasks, Awaiting(v, w)' PROVE at'[w] \in Frame
    <3>1. w = u \/ at[w] \in Frame
      BY <1>13, <2>2 DEF TaskInv, AwaitsOK
    <3> QED
      BY <1>5, <3>1 DEF Frame
  <2>3. ASSUME NEW v \in T!Tasks, at'[v] = "suspended"
        PROVE  stage'[v] = "get" /\ tKind = "STask" /\ \E w \in T!Tasks : T!Threw(w)
    <3>1. at[v] = "suspended" /\ v # t
      BY <1>1, <1>5, <2>3
    <3> QED
      BY <1>5, <3>1 DEF TaskInv, AwaitsOK
  <2>4. ASSUME NEW v \in T!Tasks, at'[v] = "running", stage'[v] = "get" PROVE result[Head(todo[v])] # "none"
    BY <1>4, <1>5, <1>10, <2>4, ZenonT(60) DEF TaskInv, AwaitsOK
  <2> QED
    BY <1>0, <1>3, <1>8, <2>1, <2>2, <2>3, <2>4 DEF AwaitsOK
<1>15. OwnersOK'
  <2> SUFFICES ASSUME NEW w \in T!Tasks \ {1}, at'[w] \in Frame PROVE \E v \in T!Tasks : Awaiting(v, w)'
    BY <1>0 DEF OwnersOK
  <2>1. w = u \/ \E v \in T!Tasks : Awaiting(v, w)
    BY <1>5 DEF TaskInv, OwnersOK
  <2> QED
    BY <1>13, <2>1
<1>16. RunningOnStack'
  <2> SUFFICES ASSUME NEW v \in T!Tasks, at'[v] = "running"
               PROVE  \E i \in 1..Len(tStack') : tStack'[i] = T!Call("body", v)
    BY <1>0 DEF RunningOnStack, T!Call
  <2>1. CASE v = u
    BY <1>6, <2>1
  <2>2. CASE v # u
    <3>1. PICK i \in 1..Len(tStack) : tStack[i] = T!Call("body", v)
      BY <1>5, <2>2 DEF TaskInv, RunningOnStack
    <3> QED
      BY <1>6, <3>1
  <2> QED
    BY <2>1, <2>2
<1>17. InOrder'
  <2> SUFFICES ASSUME NEW v \in T!Tasks, NEW w \in T!Tasks, NEW i \in 1..Len(tStack'), NEW j \in 1..Len(tStack'),
                      stage'[v] # "call", Head(todo[v]) = w, at'[w] = "running",
                      tStack'[i] = T!Call("body", v), tStack'[j] = T!Call("body", w)
               PROVE  i < j
    BY <1>0, <1>3 DEF InOrder, T!Call
  <2>1. v # u
    BY <1>4, <1>5, <1>10
  <2>2. i # Len(tStack) + 1 /\ i \in 1..Len(tStack) /\ tStack[i] = T!Call("body", v)
    BY <1>6, <2>1 DEF T!Call
  <2>3. CASE j = Len(tStack) + 1
    BY <1>6, <2>2, <2>3
  <2>4. CASE j # Len(tStack) + 1
    <3>1. j \in 1..Len(tStack) /\ tStack[j] = T!Call("body", w)
      BY <1>6, <2>4
    <3>2. w # u
      BY <1>4, <1>10, <3>1 DEF T!Call
    <3>3. v # t
      BY <1>2, <3>2
    <3>4. stage[v] # "call" /\ at[w] = "running"
      BY <1>5, <3>2, <3>3
    <3> QED
      BY <2>2, <3>1, <3>4 DEF TaskInv, InOrder
  <2> QED
    BY <2>3, <2>4
<1>18. NoneNotified'
  <2>1. \A i \in 1..Len(tStack') : tStack'[i].what # "notify"
    BY <1>6 DEF TaskInv, NoneNotified, T!Call
  <2>2. \A v \in T!Tasks : callback[v] # None => at'[v] # "running"
    BY <1>4, <1>5, <1>10 DEF TaskInv, NoneNotified
  <2> QED
    BY <1>0, <1>3, <2>1, <2>2 DEF NoneNotified
<1>19. ResultsOK'
  <2> SUFFICES ASSUME NEW v \in T!Tasks
               PROVE  /\ result[v] # "none" => at'[v] \in {"done", "destroyed"}
                      /\ result[v] = "error" => tKind = "Task" /\ T!Threw(v)'
                      /\ at'[v] = "done" /\ result[v] = "none" => tKind = "STask" /\ T!Threw(v)'
    BY <1>0, <1>3 DEF ResultsOK
  <2>1. CASE v = u
    BY <1>4, <1>5, <1>10, <2>1
  <2>2. CASE v # u
    BY <1>5, <1>8, <2>2 DEF TaskInv, ResultsOK
  <2> QED
    BY <2>1, <2>2
<1>20. TaskMainOK'
  <2>1. 1 \in T!Tasks /\ at[1] # "none" /\ at[1] # "destroyed"
    BY <1>0, <1>1, TaskFacts DEF TaskInv, TaskMainOK
  <2>2. at'[1] = at[1]
    BY <1>4, <1>5, <2>1
  <2> QED
    BY <1>0, <1>1, <1>3, <2>1, <2>2 DEF TaskMainOK, T!NoFrameLeft
<1> QED
  BY <1>7, <1>9, <1>12, <1>14, <1>15, <1>16, <1>17, <1>18, <1>19, <1>20 DEF TaskInv

(* a task awaits one that has its result, and goes on in a nested activation, *)
LEMMA AwaitDoneKeeps ==
  ASSUME TaskInv, NEW t \in T!Tasks, T!Await(t), result[Head(todo[t])] # "none" PROVE TaskInv'
<1>0. T!Tasks' = T!Tasks /\ TaskCalls' = TaskCalls /\ TaskTypes
  BY DEF T!Await, T!Tasks, TaskCalls, TaskInv
<1>1. T!Active(t) /\ stage[t] = "await"
  BY DEF T!Await
<1>2. PICK u \in T!Tasks : u = Head(todo[t]) /\ at[u] \in {"suspended", "done"} /\ result[u] # "none"
  BY <1>1, ActiveFacts
<1>3. /\ tStack' = tStack \o <<T!Call("call", u), T!Call("body", t)>> /\ stage' = [stage EXCEPT ![t] = "get"]
      /\ T!Call("call", u) \in TaskCalls /\ T!Call("body", t) \in TaskCalls
      /\ UNCHANGED <<tKind, prog, at, todo, result, callback, main, handled>>
  BY <1>2 DEF T!Await, T!Call, TaskCalls
<1>4. at[t] = "running" /\ main = "then"
  BY <1>1, ActiveFacts
<1>5. /\ stage'[t] = "get" /\ \A v \in T!Tasks : v # t => stage'[v] = stage[v]
      /\ stage' \in [T!Tasks -> {"call", "await", "get"}]
      /\ \A v \in T!Tasks : stage'[v] # "call" <=> stage[v] # "call"
  BY <1>0, <1>1, <1>3 DEF TaskTypes
<1>6. /\ tStack' \in Seq(TaskCalls) /\ Len(tStack') = Len(tStack) + 2 /\ Len(tStack) \in Nat
      /\ tStack'[Len(tStack) + 1] = T!Call("call", u) /\ tStack'[Len(tStack) + 2] = T!Call("body", t)
      /\ Len(tStack) + 2 \in 1..Len(tStack')
      /\ \A i \in 1..Len(tStack) : i \in 1..Len(tStack') /\ tStack'[i] = tStack[i]
      /\ \A i \in 1..Len(tStack') : i \notin {Len(tStack) + 1, Len(tStack) + 2} => i \in 1..Len(tStack)
  BY <1>0, <1>3, TaskPushesTwo
<1>7. TaskTypes'
  BY <1>0, <1>3, <1>5, <1>6 DEF TaskTypes
<1>8. \A v \in T!Tasks : T!Threw(v) <=> T!Threw(v)'
  BY <1>0, <1>3 DEF T!Threw
<1>9. CalledOnce'
  <2>1. todo' = todo
    BY <1>3
  <2> QED
    BY <1>0, <2>1 DEF TaskInv, CalledOnce
<1>10. Fresh'
  <2>1. ASSUME NEW v \in T!Tasks, NEW i \in 1..Len(todo[v]), todo[v][i] # Throw, i > 1 \/ stage'[v] = "call"
        PROVE  at[todo[v][i]] = "none"
    BY <1>5, <2>1 DEF TaskInv, Fresh
  <2>2. ASSUME NEW v \in T!Tasks, at[v] = "none"
        PROVE  /\ stage'[v] = "call" /\ result[v] = "none" /\ callback[v] = None
               /\ \A i \in 1..Len(tStack') : tStack'[i].t # v
    <3>1. v # u /\ v # t
      BY <1>2, <1>4, <2>2
    <3>2. \A i \in 1..Len(tStack') : tStack'[i].t # v
      BY <1>6, <2>2, <3>1 DEF T!Call, TaskInv, Fresh
    <3> QED
      BY <1>5, <2>2, <3>1, <3>2 DEF TaskInv, Fresh
  <2> QED
    BY <1>0, <1>3, <2>1, <2>2 DEF Fresh
<1>11. \A v, w : v \in T!Tasks => (Awaiting(v, w)' <=> Awaiting(v, w))
  BY <1>3, <1>5 DEF Awaiting
<1>12. AwaitsOK'
  <2>1. \A v \in T!Tasks : stage'[v] # "call" => todo[v] # << >> /\ Head(todo[v]) \in T!Tasks
    BY <1>5 DEF TaskInv, AwaitsOK
  <2>2. \A v, w \in T!Tasks : Awaiting(v, w)' => at[w] \in Frame
    BY <1>11 DEF TaskInv, AwaitsOK
  <2>3. ASSUME NEW v \in T!Tasks, at[v] = "suspended"
        PROVE  stage'[v] = "get" /\ tKind = "STask" /\ \E w \in T!Tasks : T!Threw(w)
    BY <1>4, <1>5, <2>3 DEF TaskInv, AwaitsOK
  <2>4. ASSUME NEW v \in T!Tasks, at[v] = "running", stage'[v] = "get" PROVE result[Head(todo[v])] # "none"
    BY <1>2, <1>5, <2>4 DEF TaskInv, AwaitsOK
  <2> QED
    BY <1>0, <1>3, <1>8, <2>1, <2>2, <2>3, <2>4 DEF AwaitsOK
<1>13. OwnersOK'
  BY <1>0, <1>3, <1>11 DEF TaskInv, OwnersOK
<1>14. RunningOnStack'
  <2> SUFFICES ASSUME NEW v \in T!Tasks, at[v] = "running"
               PROVE  \E i \in 1..Len(tStack') : tStack'[i] = T!Call("body", v)
    BY <1>0, <1>3 DEF RunningOnStack, T!Call
  <2>1. PICK i \in 1..Len(tStack) : tStack[i] = T!Call("body", v)
    BY DEF TaskInv, RunningOnStack
  <2> QED
    BY <1>6, <2>1
<1>15. InOrder'
  <2> SUFFICES ASSUME NEW v \in T!Tasks, NEW w \in T!Tasks, NEW i \in 1..Len(tStack'), NEW j \in 1..Len(tStack'),
                      stage'[v] # "call", Head(todo[v]) = w, at[w] = "running",
                      tStack'[i] = T!Call("body", v), tStack'[j] = T!Call("body", w)
               PROVE  i < j
    BY <1>0, <1>3 DEF InOrder, T!Call
  <2>1. i # Len(tStack) + 1 /\ j # Len(tStack) + 1
    BY <1>6 DEF T!Call
  <2>2. i # Len(tStack) + 2
    <3>1. v # t
      BY <1>2
    <3> QED
      BY <1>6, <3>1 DEF T!Call
  <2>3. i \in 1..Len(tStack) /\ tStack[i] = T!Call("body", v)
    BY <1>6, <2>1, <2>2
  <2>4. CASE j = Len(tStack) + 2
    BY <1>6, <2>3, <2>4
  <2>5. CASE j # Len(tStack) + 2
    <3>1. j \in 1..Len(tStack) /\ tStack[j] = T!Call("body", w)
      BY <1>6, <2>1, <2>5
    <3>2. stage[v] # "call"
      BY <1>5
    <3> QED
      BY <2>3, <3>1, <3>2 DEF TaskInv, InOrder
  <2> QED
    BY <2>4, <2>5
<1>16. NoneNotified'
  <2>1. \A i \in 1..Len(tStack') : tStack'[i].what # "notify"
    BY <1>6 DEF TaskInv, NoneNotified, T!Call
  <2> QED
    BY <1>0, <1>3, <2>1 DEF TaskInv, NoneNotified
<1>17. ResultsOK'
  BY <1>0, <1>3, <1>8 DEF TaskInv, ResultsOK
<1>18. TaskMainOK'
  <2>1. 1 \in T!Tasks /\ at[1] # "none" /\ at[1] # "destroyed"
    BY <1>0, <1>4, TaskFacts DEF TaskInv, TaskMainOK
  <2> QED
    BY <1>0, <1>3, <1>4, <2>1 DEF TaskMainOK, T!NoFrameLeft
<1> QED
  BY <1>7, <1>9, <1>10, <1>12, <1>13, <1>14, <1>15, <1>16, <1>17, <1>18 DEF TaskInv

(* or one that an exception has left without a result, and is suspended, *)
LEMMA AwaitSuspendKeeps ==
  ASSUME TaskInv, NEW t \in T!Tasks, T!Await(t), result[Head(todo[t])] = "none" PROVE TaskInv'
<1>0. T!Tasks' = T!Tasks /\ TaskCalls' = TaskCalls /\ TaskTypes
  BY DEF T!Await, T!Tasks, TaskCalls, TaskInv
<1>1. T!Active(t) /\ stage[t] = "await"
  BY DEF T!Await
<1>2. PICK u \in T!Tasks : u = Head(todo[t]) /\ at[u] \in {"suspended", "done"} /\ result[u] = "none"
  BY <1>1, ActiveFacts
<1>3. /\ tStack' = T!Popped /\ stage' = [stage EXCEPT ![t] = "get"]
      /\ at' = [at EXCEPT ![t] = "suspended"] /\ callback' = [callback EXCEPT ![u] = t]
      /\ UNCHANGED <<tKind, prog, todo, result, main, handled>>
  BY <1>2 DEF T!Await
<1>4. /\ at[t] = "running" /\ main = "then" /\ tStack # << >>
      /\ tStack[Len(tStack)] = T!Call("body", t)
  BY <1>1, ActiveFacts
<1>5. /\ stage'[t] = "get" /\ \A v \in T!Tasks : v # t => stage'[v] = stage[v]
      /\ stage' \in [T!Tasks -> {"call", "await", "get"}]
      /\ \A v \in T!Tasks : stage'[v] # "call" <=> stage[v] # "call"
      /\ at'[t] = "suspended" /\ \A v \in T!Tasks : v # t => at'[v] = at[v]
      /\ at' \in [T!Tasks -> Frame \cup {"none", "destroyed"}]
      /\ \A v \in T!Tasks : v # u => callback'[v] = callback[v]
      /\ callback' \in [T!Tasks -> T!Tasks \cup {None}]
  BY <1>0, <1>1, <1>3 DEF TaskTypes, Frame
<1>6. /\ tStack' \in Seq(TaskCalls) /\ Len(tStack') = Len(tStack) - 1 /\ Len(tStack) \in Nat \ {0}
      /\ \A i \in 1..Len(tStack') : i \in 1..Len(tStack) /\ i < Len(tStack) /\ tStack'[i] = tStack[i]
      /\ \A i \in 1..Len(tStack) : i # Len(tStack) => i \in 1..Len(tStack')
  BY <1>0, <1>3, <1>4, TaskPops
<1>7. TaskTypes'
  BY <1>0, <1>3, <1>5, <1>6 DEF TaskTypes
<1>8. \A v \in T!Tasks : T!Threw(v) => T!Threw(v)'
  BY <1>0, <1>3, <1>4, <1>5, ThrewStays
<1>9. CalledOnce'
  <2>1. todo' = todo
    BY <1>3
  <2> QED
    BY <1>0, <2>1 DEF TaskInv, CalledOnce
<1>10. Fresh'
  <2>1. ASSUME NEW v \in T!Tasks, NEW i \in 1..Len(todo[v]), todo[v][i] # Throw, i > 1 \/ stage'[v] = "call"
        PROVE  at'[todo[v][i]] = "none"
    <3>1. todo[v][i] \in T!Tasks
      BY <1>0, <2>1, TaskFacts
    <3>2. i > 1 \/ stage[v] = "call"
      BY <1>5, <2>1
    <3>3. at[todo[v][i]] = "none"
      BY <2>1, <3>2 DEF TaskInv, Fresh
    <3> QED
      BY <1>4, <1>5, <3>1, <3>3
  <2>2. ASSUME NEW v \in T!Tasks, at'[v] = "none"
        PROVE  /\ stage'[v] = "call" /\ result[v] = "none" /\ callback'[v] = None
               /\ \A i \in 1..Len(tStack') : tStack'[i].t # v
    <3>1. v # u /\ v # t /\ at[v] = "none"
      BY <1>2, <1>5, <2>2
    <3>2. \A i \in 1..Len(tStack) : tStack[i].t # v
      BY <3>1 DEF TaskInv, Fresh
    <3>3. \A i \in 1..Len(tStack') : tStack'[i].t # v
      BY <1>6, <3>2
    <3> QED
      BY <1>5, <3>1, <3>3 DEF TaskInv, Fresh
  <2> QED
    BY <1>0, <1>3, <2>1, <2>2 DEF Fresh
<1>11. \A v, w : v \in T!Tasks => (Awaiting(v, w)' <=> Awaiting(v, w))
  BY <1>3, <1>4, <1>5 DEF Awaiting
<1>12. \A v \in T!Tasks : at'[v] \in Frame <=> at[v] \in Frame
  BY <1>4, <1>5 DEF Frame
<1>13. tKind = "STask" /\ \E w \in T!Tasks : T!Threw(w)
  BY <1>2 DEF TaskInv, AwaitsOK, ResultsOK
<1>14. AwaitsOK'
  <2>1. \A v \in T!Tasks : stage'[v] # "call" => todo[v] # << >> /\ Head(todo[v]) \in T!Tasks
    BY <1>5 DEF TaskInv, AwaitsOK
  <2>2. \A v, w \in T!Tasks : Awaiting(v, w)' => at'[w] \in Frame
    BY <1>11, <1>12 DEF TaskInv, AwaitsOK
  <2>3. ASSUME NEW v \in T!Tasks, at'[v] = "suspended" PROVE stage'[v] = "get"
    BY <1>5, <2>3 DEF TaskInv, AwaitsOK
  <2>4. ASSUME NEW v \in T!Tasks, at'[v] = "running", stage'[v] = "get" PROVE result[Head(todo[v])] # "none"
    BY <1>5, <2>4 DEF TaskInv, AwaitsOK
  <2> QED
    BY <1>0, <1>3, <1>8, <1>13, <2>1, <2>2, <2>3, <2>4 DEF AwaitsOK
<1>15. OwnersOK'
  BY <1>0, <1>11, <1>12 DEF TaskInv, OwnersOK
<1>16. RunningOnStack'
  <2> SUFFICES ASSUME NEW v \in T!Tasks, at'[v] = "running"
               PROVE  \E i \in 1..Len(tStack') : tStack'[i] = T!Call("body", v)
    BY <1>0 DEF RunningOnStack, T!Call
  <2>1. at[v] = "running" /\ v # t
    BY <1>5
  <2>2. PICK i \in 1..Len(tStack) : tStack[i] = T!Call("body", v)
    BY <2>1 DEF TaskInv, RunningOnStack
  <2>3. i # Len(tStack)
    BY <1>4, <2>1, <2>2 DEF T!Call
  <2> QED
    BY <1>6, <2>2, <2>3
<1>17. InOrder'
  <2> SUFFICES ASSUME NEW v \in T!Tasks, NEW w \in T!Tasks, NEW i \in 1..Len(tStack'), NEW j \in 1..Len(tStack'),
                      stage'[v] # "call", Head(todo[v]) = w, at'[w] = "running",
                      tStack'[i] = T!Call("body", v), tStack'[j] = T!Call("body", w)
               PROVE  i < j
    BY <1>0, <1>3 DEF InOrder, T!Call
  <2>1. stage[v] # "call" /\ at[w] = "running"
    BY <1>5
  <2>2. i \in 1..Len(tStack) /\ j \in 1..Len(tStack) /\ tStack[i] = T!Call("body", v) /\ tStack[j] = T!Call("body", w)
    BY <1>6
  <2> QED
    BY <2>1, <2>2 DEF TaskInv, InOrder
<1>18. NoneNotified'
  <2>1. \A i \in 1..Len(tStack') : tStack'[i].what # "notify"
    BY <1>6 DEF TaskInv, NoneNotified
  <2>2. ASSUME NEW v \in T!Tasks, callback'[v] # None PROVE at'[v] # "running"
    <3>1. CASE v = u
      BY <1>2, <1>4, <1>5, <3>1
    <3>2. CASE v # u
      BY <1>5, <2>2, <3>2 DEF TaskInv, NoneNotified
    <3> QED
      BY <3>1, <3>2
  <2> QED
    BY <1>0, <2>1, <2>2 DEF NoneNotified
<1>19. ResultsOK'
  <2> SUFFICES ASSUME NEW v \in T!Tasks
               PROVE  /\ result[v] # "none" => at'[v] \in {"done", "destroyed"}
                      /\ result[v] = "error" => tKind = "Task" /\ T!Threw(v)'
                      /\ at'[v] = "done" /\ result[v] = "none" => tKind = "STask" /\ T!Threw(v)'
    BY <1>0, <1>3 DEF ResultsOK
  <2>1. CASE v = t
    BY <1>4, <1>5, <2>1 DEF TaskInv, ResultsOK
  <2>2. CASE v # t
    BY <1>5, <1>8, <2>2 DEF TaskInv, ResultsOK
  <2> QED
    BY <2>1, <2>2
<1>20. TaskMainOK'
  <2>1. 1 \in T!Tasks /\ at[1] # "none" /\ at[1] # "destroyed"
    BY <1>0, <1>4, TaskFacts DEF TaskInv, TaskMainOK
  <2>2. at'[1] # "none" /\ at'[1] # "destroyed"
    BY <1>5, <2>1
  <2> QED
    BY <1>0, <1>3, <1>4, <2>2 DEF TaskMainOK, T!NoFrameLeft
<1> QED
  BY <1>7, <1>9, <1>10, <1>14, <1>15, <1>16, <1>17, <1>18, <1>19, <1>20 DEF TaskInv

(* a task gets a result: an exception ends the program, a value lets the other's frame go, *)
LEMMA GetErrorKeeps ==
  ASSUME TaskInv, NEW t \in T!Tasks, T!Get(t), result[Head(todo[t])] = "error" PROVE TaskInv'
<1>0. T!Tasks' = T!Tasks /\ TaskCalls' = TaskCalls /\ TaskTypes
  BY DEF T!Get, T!Tasks, TaskCalls, TaskInv
<1>1. T!Active(t) /\ stage[t] = "get" /\ main' = "terminated"
      /\ UNCHANGED <<tKind, prog, tStack, at, todo, stage, result, callback, handled>>
  BY DEF T!Get
<1>2. PICK u \in T!Tasks : u = Head(todo[t])
  BY <1>1, ActiveFacts
<1>3. at[t] = "running" /\ main = "then" /\ todo[t] # << >>
  BY <1>1, ActiveFacts
<1>4. T!Threw(u) /\ tKind = "Task"
  BY <1>2 DEF TaskInv, ResultsOK
<1>5. u # 1
  <2>1. t \in Nat /\ u \in Nat /\ u = todo[t][1] /\ 1 \in 1..Len(todo[t]) /\ u # Throw
    BY <1>0, <1>2, <1>3, TaskFacts
  <2>2. u > t
    BY <2>1 DEF TaskInv, CalledOnce
  <2>3. t # 0
    BY <1>0, TaskFacts
  <2> QED
    BY <2>1, <2>2, <2>3
<1>6. \A v \in T!Tasks : T!Threw(v) <=> T!Threw(v)'
  BY <1>0, <1>1 DEF T!Threw
<1>7. \A v, w : Awaiting(v, w)' <=> Awaiting(v, w)
  BY <1>1 DEF Awaiting
<1>8. TaskTypes'
  BY <1>0, <1>1 DEF TaskTypes
<1>9. CalledOnce' /\ Fresh' /\ RunningOnStack' /\ NoneNotified'
  <2>1. CalledOnce'
    BY <1>0, <1>1 DEF TaskInv, CalledOnce
  <2>2. Fresh'
    BY <1>0, <1>1 DEF TaskInv, Fresh
  <2>3. RunningOnStack'
    BY <1>0, <1>1 DEF TaskInv, RunningOnStack, T!Call
  <2>4. NoneNotified'
    BY <1>0, <1>1 DEF TaskInv, NoneNotified
  <2> QED
    BY <2>1, <2>2, <2>3, <2>4
<1>10. AwaitsOK'
  BY <1>0, <1>1, <1>6, <1>7 DEF TaskInv, AwaitsOK
<1>11. OwnersOK'
  BY <1>0, <1>1, <1>7 DEF TaskInv, OwnersOK
<1>12. InOrder'
  BY <1>0, <1>1 DEF TaskInv, InOrder, T!Call
<1>13. ResultsOK'
  BY <1>0, <1>1, <1>6 DEF TaskInv, ResultsOK
<1>14. TaskMainOK'
  <2>1. at[1] # "none" /\ at[1] # "destroyed"
    BY <1>3 DEF TaskInv, TaskMainOK
  <2> QED
    BY <1>0, <1>1, <1>4, <1>5, <1>6, <2>1 DEF TaskMainOK, T!NoFrameLeft
<1> QED
  BY <1>8, <1>9, <1>10, <1>11, <1>12, <1>13, <1>14 DEF TaskInv

(* getResult() of a task that has returned *)
LEMMA GetValueKeeps ==
  ASSUME TaskInv, NEW t \in T!Tasks, T!Get(t), result[Head(todo[t])] # "error" PROVE TaskInv'
<1>0. T!Tasks' = T!Tasks /\ TaskCalls' = TaskCalls /\ TaskTypes
  BY DEF T!Get, T!Tasks, TaskCalls, TaskInv
<1>1. T!Active(t) /\ stage[t] = "get"
  BY DEF T!Get
<1>2. PICK u \in T!Tasks : u = Head(todo[t]) /\ at[u] = "done"
  BY <1>1, ActiveFacts
<1>3. /\ at' = [at EXCEPT ![u] = "destroyed"] /\ todo' = [todo EXCEPT ![t] = Tail(todo[t])]
      /\ stage' = [stage EXCEPT ![t] = "call"]
      /\ UNCHANGED <<tKind, prog, tStack, result, callback, main, handled>>
  BY <1>2 DEF T!Get
<1>4. at[t] = "running" /\ main = "then" /\ todo[t] # << >>
  BY <1>1, ActiveFacts
<1>5. /\ stage'[t] = "call" /\ \A v \in T!Tasks : v # t => stage'[v] = stage[v]
      /\ stage' \in [T!Tasks -> {"call", "await", "get"}]
      /\ at'[u] = "destroyed" /\ \A v \in T!Tasks : v # u => at'[v] = at[v]
      /\ at' \in [T!Tasks -> Frame \cup {"none", "destroyed"}]
      /\ todo'[t] = Tail(todo[t]) /\ \A v \in T!Tasks : v # t => todo'[v] = todo[v]
  BY <1>0, <1>3 DEF TaskTypes, Frame
<1>6. /\ Tail(todo[t]) \in Seq(T!Tasks \cup {Throw}) /\ Len(Tail(todo[t])) = Len(todo[t]) - 1 /\ Len(todo[t]) \in Nat
      /\ \A i \in 1..Len(Tail(todo[t])) : i + 1 \in 1..Len(todo[t]) /\ i + 1 > 1 /\ Tail(todo[t])[i] = todo[t][i + 1]
  <2>1. PICK s \in Seq(T!Tasks \cup {Throw}) : s = todo[t] /\ s # << >> /\ Len(s) \in Nat
    BY <1>0, <1>4, TaskFacts
  <2>2. /\ Tail(s) \in Seq(T!Tasks \cup {Throw}) /\ Len(Tail(s)) = Len(s) - 1
        /\ \A i \in 1..Len(Tail(s)) : Tail(s)[i] = s[i + 1]
    BY <2>1, HeadTailProperties
  <2> QED
    BY <2>1, <2>2
<1>7. TaskTypes'
  <2>1. todo' \in [T!Tasks -> Seq(T!Tasks \cup {Throw})]
    BY <1>0, <1>3, <1>6 DEF TaskTypes
  <2> QED
    BY <1>0, <1>3, <1>5, <2>1 DEF TaskTypes
<1>8. u \in Nat /\ t \in Nat /\ u > t /\ u # 1 /\ u = todo[t][1] /\ 1 \in 1..Len(todo[t]) /\ u # Throw
  <2>1. t \in Nat /\ u \in Nat /\ u = todo[t][1] /\ 1 \in 1..Len(todo[t]) /\ u # Throw
    BY <1>0, <1>2, <1>4, TaskFacts
  <2>2. u > t
    BY <2>1 DEF TaskInv, CalledOnce
  <2>3. t # 0
    BY <1>0, TaskFacts
  <2> QED
    BY <2>1, <2>2, <2>3
<1>9. \A v \in T!Tasks : T!Threw(v) => T!Threw(v)'
  BY <1>0, <1>2, <1>3, <1>4, <1>5, ThrewStays
<1>10. ASSUME NEW v \in T!Tasks, NEW i \in 1..Len(todo'[v])
       PROVE  \E k \in 1..Len(todo[v]) : /\ todo'[v][i] = todo[v][k] /\ k = (IF v = t THEN i + 1 ELSE i)
                                         /\ v = t => k > 1
  <2>1. CASE v = t
    BY <1>5, <1>6, <2>1
  <2>2. CASE v # t
    BY <1>5, <2>2
  <2> QED
    BY <2>1, <2>2
<1>11. CalledOnce'
  <2> SUFFICES ASSUME NEW v \in T!Tasks, NEW w \in T!Tasks, NEW i \in 1..Len(todo'[v]), NEW j \in 1..Len(todo'[w])
               PROVE  /\ todo'[v][i] = Throw \/ todo'[v][i] > v
                      /\ todo'[v][i] = todo'[w][j] /\ todo'[v][i] # Throw => v = w /\ i = j
    BY <1>0 DEF CalledOnce
  <2>1. PICK k \in 1..Len(todo[v]) : todo'[v][i] = todo[v][k] /\ k = (IF v = t THEN i + 1 ELSE i)
    BY <1>10
  <2>2. PICK l \in 1..Len(todo[w]) : todo'[w][j] = todo[w][l] /\ l = (IF w = t THEN j + 1 ELSE j)
    BY <1>10
  <2>3. /\ todo[v][k] = Throw \/ todo[v][k] > v
        /\ todo[v][k] = todo[w][l] /\ todo[v][k] # Throw => v = w /\ k = l
    BY DEF TaskInv, CalledOnce
  <2>4. v = w /\ k = l => i = j
    BY <2>1, <2>2
  <2> QED
    BY <2>1, <2>2, <2>3, <2>4
<1>12. Fresh'
  <2>1. ASSUME NEW v \in T!Tasks, NEW i \in 1..Len(todo'[v]), todo'[v][i] # Throw, i > 1 \/ stage'[v] = "call"
        PROVE  at'[todo'[v][i]] = "none"
    <3>1. PICK k \in 1..Len(todo[v]) : /\ todo'[v][i] = todo[v][k] /\ k = (IF v = t THEN i + 1 ELSE i)
                                       /\ v = t => k > 1
      BY <1>10, <2>1
    <3>2. k > 1 \/ stage[v] = "call"
      BY <1>5, <2>1, <3>1
    <3>3. at[todo[v][k]] = "none" /\ todo[v][k] \in T!Tasks
      BY <1>0, <2>1, <3>1, <3>2, TaskFacts, ZenonT(60) DEF TaskInv, Fresh
    <3>4. todo[v][k] # u
      BY <1>2, <3>3
    <3> QED
      BY <1>5, <3>1, <3>3, <3>4
  <2>2. ASSUME NEW v \in T!Tasks, at'[v] = "none"
        PROVE  /\ stage'[v] = "call" /\ result[v] = "none" /\ callback[v] = None
               /\ \A i \in 1..Len(tStack) : tStack[i].t # v
    <3>1. v # u /\ v # t /\ at[v] = "none"
      BY <1>4, <1>5, <2>2
    <3> QED
      BY <1>5, <3>1 DEF TaskInv, Fresh
  <2> QED
    BY <1>0, <1>3, <2>1, <2>2, ZenonT(60) DEF Fresh
<1>13. \A v, w \in T!Tasks : Awaiting(v, w)' <=> Awaiting(v, w) /\ v # t
  <2> SUFFICES ASSUME NEW v \in T!Tasks, NEW w \in T!Tasks PROVE Awaiting(v, w)' <=> Awaiting(v, w) /\ v # t
    OBVIOUS
  <2>1. CASE v = t
    BY <1>5, <2>1 DEF Awaiting
  <2>2. CASE v = u /\ v # t
    BY <1>2, <1>5, <2>2 DEF Awaiting
  <2>3. CASE v # t /\ v # u
    BY <1>5, <2>3 DEF Awaiting
  <2> QED
    BY <2>1, <2>2, <2>3
<1>14. \A v \in T!Tasks : v # t /\ stage[v] # "call" => Head(todo[v]) # u
  <2> SUFFICES ASSUME NEW v \in T!Tasks, v # t, stage[v] # "call", Head(todo[v]) = u PROVE FALSE
    OBVIOUS
  <2>1. 1 \in 1..Len(todo[v]) /\ todo[v][1] = u
    BY <1>0, TaskFacts DEF TaskInv, AwaitsOK
  <2> QED
    BY <1>8, <2>1 DEF TaskInv, CalledOnce
<1>15. AwaitsOK'
  <2>1. \A v \in T!Tasks : stage'[v] # "call" => todo'[v] # << >> /\ Head(todo'[v]) \in T!Tasks
    BY <1>5 DEF TaskInv, AwaitsOK
  <2>2. ASSUME NEW v \in T!Tasks, NEW w \in T!Tasks, Awaiting(v, w)' PROVE at'[w] \in Frame
    <3>1. v # t /\ Awaiting(v, w) /\ at[w] \in Frame
      BY <1>13, <2>2 DEF TaskInv, AwaitsOK
    <3>2. w # u
      BY <1>14, <3>1 DEF Awaiting
    <3> QED
      BY <1>5, <3>1, <3>2
  <2>3. ASSUME NEW v \in T!Tasks, at'[v] = "suspended"
        PROVE  stage'[v] = "get" /\ tKind = "STask" /\ \E w \in T!Tasks : T!Threw(w)
    <3>1. at[v] = "suspended" /\ v # t
      BY <1>4, <1>5, <2>3
    <3> QED
      BY <1>5, <3>1 DEF TaskInv, AwaitsOK
  <2>4. ASSUME NEW v \in T!Tasks, at'[v] = "running", stage'[v] = "get" PROVE result[Head(todo'[v])] # "none"
    <3>1. at[v] = "running" /\ v # t
      BY <1>5, <2>4
    <3> QED
      BY <1>5, <2>4, <3>1 DEF TaskInv, AwaitsOK
  <2> QED
    BY <1>0, <1>3, <1>9, <2>1, <2>2, <2>3, <2>4 DEF AwaitsOK
<1>16. OwnersOK'
  <2> SUFFICES ASSUME NEW w \in T!Tasks \ {1}, at'[w] \in Frame PROVE \E v \in T!Tasks : Awaiting(v, w)'
    BY <1>0 DEF OwnersOK
  <2>1. w # u /\ at[w] \in Frame
    BY <1>5 DEF Frame
  <2>2. PICK v \in T!Tasks : Awaiting(v, w)
    BY <2>1 DEF TaskInv, OwnersOK
  <2>3. v # t
    BY <1>2, <2>1, <2>2 DEF Awaiting
  <2> QED
    BY <1>13, <2>2, <2>3
<1>17. \A v \in T!Tasks : at'[v] = "running" <=> at[v] = "running"
  BY <1>2, <1>5
<1>18. RunningOnStack'
  BY <1>0, <1>3, <1>17 DEF TaskInv, RunningOnStack, T!Call
<1>19. InOrder'
  <2> SUFFICES ASSUME NEW v \in T!Tasks, NEW w \in T!Tasks, NEW i \in 1..Len(tStack), NEW j \in 1..Len(tStack),
                      stage'[v] # "call", Head(todo'[v]) = w, at'[w] = "running",
                      tStack[i] = T!Call("body", v), tStack[j] = T!Call("body", w)
               PROVE  i < j
    <3>1. tStack' = tStack
      BY <1>3
    <3> QED
      BY <1>0, <3>1 DEF InOrder, T!Call
  <2>1. v # t /\ stage[v] # "call" /\ Head(todo[v]) = w /\ at[w] = "running"
    BY <1>5, <1>17
  <2> QED
    BY <2>1 DEF TaskInv, InOrder
<1>20. NoneNotified'
  BY <1>0, <1>3, <1>17 DEF TaskInv, NoneNotified
<1>21. ResultsOK'
  <2> SUFFICES ASSUME NEW v \in T!Tasks
               PROVE  /\ result[v] # "none" => at'[v] \in {"done", "destroyed"}
                      /\ result[v] = "error" => tKind = "Task" /\ T!Threw(v)'
                      /\ at'[v] = "done" /\ result[v] = "none" => tKind = "STask" /\ T!Threw(v)'
    BY <1>0, <1>3 DEF ResultsOK
  <2>1. (result[v] = "error" => tKind = "Task" /\ T!Threw(v)')
    BY <1>9 DEF TaskInv, ResultsOK
  <2>2. CASE v = u
    BY <1>5, <2>1, <2>2
  <2>3. CASE v # u
    BY <1>5, <1>9, <2>1, <2>3 DEF TaskInv, ResultsOK
  <2> QED
    BY <2>2, <2>3
<1>22. TaskMainOK'
  <2>1. 1 \in T!Tasks /\ at[1] # "none" /\ at[1] # "destroyed"
    BY <1>0, <1>4, TaskFacts DEF TaskInv, TaskMainOK
  <2>2. at'[1] = at[1]
    BY <1>5, <1>8, <2>1
  <2> QED
    BY <1>0, <1>3, <1>4, <2>1, <2>2 DEF TaskMainOK, T!NoFrameLeft
<1> QED
  BY <1>7, <1>11, <1>12, <1>15, <1>16, <1>18, <1>19, <1>20, <1>21, <1>22 DEF TaskInv

(* a body ends, with a value or by an exception: nobody has registered a callback, *)
LEMMA EndsKeeps ==
  ASSUME TaskInv, NEW t \in T!Tasks, T!return_value(t) \/ T!unhandled_exception(t) PROVE TaskInv'
<1>0. T!Tasks' = T!Tasks /\ TaskCalls' = TaskCalls /\ TaskTypes
  BY DEF T!return_value, T!unhandled_exception, T!Ends, T!Tasks, TaskCalls, TaskInv
<1>1. PICK r \in {"none", "value", "error"} :
        /\ T!Active(t) /\ T!Ends(t, r)
        /\ \/ r = "value" /\ todo[t] = << >>
           \/ r = T!Kept /\ todo[t] # << >> /\ Head(todo[t]) = Throw
  <2>1. T!Kept \in {"none", "error"}
    BY DEF T!Kept
  <2> QED
    BY <2>1 DEF T!return_value, T!unhandled_exception
<1>2. /\ at[t] = "running" /\ main = "then" /\ tStack # << >>
      /\ tStack[Len(tStack)] = T!Call("body", t)
      /\ stage[t] # "call" => todo[t] # << >> /\ Head(todo[t]) \in T!Tasks
  BY <1>1, ActiveFacts
<1>3. stage[t] = "call" /\ callback[t] = None
  <2>1. Throw \notin T!Tasks
    BY <1>0, TaskFacts
  <2> QED
    BY <1>1, <1>2, <2>1 DEF TaskInv, NoneNotified
<1>4. /\ tStack' = T!Popped /\ at' = [at EXCEPT ![t] = "done"] /\ result' = [result EXCEPT ![t] = r]
      /\ UNCHANGED <<tKind, prog, todo, stage, callback, main, handled>>
  BY <1>1, <1>3 DEF T!Ends
<1>5. /\ at'[t] = "done" /\ \A v \in T!Tasks : v # t => at'[v] = at[v]
      /\ at' \in [T!Tasks -> Frame \cup {"none", "destroyed"}]
      /\ result'[t] = r /\ \A v \in T!Tasks : v # t => result'[v] = result[v]
      /\ result' \in [T!Tasks -> {"none", "value", "error"}]
  BY <1>0, <1>4 DEF TaskTypes, Frame
<1>6. /\ tStack' \in Seq(TaskCalls) /\ Len(tStack') = Len(tStack) - 1 /\ Len(tStack) \in Nat \ {0}
      /\ \A i \in 1..Len(tStack') : i \in 1..Len(tStack) /\ i < Len(tStack) /\ tStack'[i] = tStack[i]
      /\ \A i \in 1..Len(tStack) : i # Len(tStack) => i \in 1..Len(tStack')
  BY <1>0, <1>2, <1>4, TaskPops
<1>7. TaskTypes'
  BY <1>0, <1>4, <1>5, <1>6 DEF TaskTypes
<1>8. \A v \in T!Tasks : T!Threw(v) => T!Threw(v)'
  BY <1>0, <1>4, <1>5, ThrewStays
<1>9. /\ r # "value" => T!Threw(t)' /\ r = T!Kept
      /\ r = "error" => tKind = "Task"
      /\ r = "none" => tKind = "STask"
  <2>1. r = "error" => tKind # "STask"
    BY <1>1 DEF T!Kept
  <2>2. r = "none" => tKind = "STask"
    BY <1>1 DEF T!Kept
  <2>3. r # "value" => T!Threw(t)' /\ r = T!Kept
    BY <1>1, <1>4, <1>5 DEF T!Threw
  <2> QED
    BY <1>0, <2>1, <2>2, <2>3 DEF TaskTypes
<1>10. CalledOnce'
  <2>1. todo' = todo
    BY <1>4
  <2> QED
    BY <1>0, <2>1 DEF TaskInv, CalledOnce
<1>11. Fresh'
  <2>1. ASSUME NEW v \in T!Tasks, NEW i \in 1..Len(todo[v]), todo[v][i] # Throw, i > 1 \/ stage[v] = "call"
        PROVE  at'[todo[v][i]] = "none"
    <3>1. at[todo[v][i]] = "none" /\ todo[v][i] \in T!Tasks
      BY <1>0, <2>1, TaskFacts, SMTT(30) DEF TaskInv, Fresh
    <3> QED
      BY <1>2, <1>5, <3>1
  <2>2. ASSUME NEW v \in T!Tasks, at'[v] = "none"
        PROVE  /\ stage[v] = "call" /\ result'[v] = "none" /\ callback[v] = None
               /\ \A i \in 1..Len(tStack') : tStack'[i].t # v
    <3>1. v # t /\ at[v] = "none"
      BY <1>5, <2>2
    <3>2. \A i \in 1..Len(tStack) : tStack[i].t # v
      BY <3>1 DEF TaskInv, Fresh
    <3>3. \A i \in 1..Len(tStack') : tStack'[i].t # v
      BY <1>6, <3>2
    <3> QED
      BY <1>5, <3>1, <3>3 DEF TaskInv, Fresh
  <2> QED
    BY <1>0, <1>4, <2>1, <2>2 DEF Fresh
<1>12. \A v, w : v \in T!Tasks => (Awaiting(v, w)' <=> Awaiting(v, w))
  BY <1>3, <1>4, <1>5 DEF Awaiting
<1>13. \A v \in T!Tasks : at'[v] \in Frame <=> at[v] \in Frame
  BY <1>2, <1>5 DEF Frame
<1>14. AwaitsOK'
  <2>1. \A v \in T!Tasks : stage[v] # "call" => todo[v] # << >> /\ Head(todo[v]) \in T!Tasks
    BY DEF TaskInv, AwaitsOK
  <2>2. \A v, w \in T!Tasks : Awaiting(v, w)' => at'[w] \in Frame
    BY <1>12, <1>13 DEF TaskInv, AwaitsOK
  <2>3. ASSUME NEW v \in T!Tasks, at'[v] = "suspended"
        PROVE  stage[v] = "get" /\ tKind = "STask" /\ \E w \in T!Tasks : T!Threw(w)
    BY <1>5, <2>3 DEF TaskInv, AwaitsOK
  <2>4. ASSUME NEW v \in T!Tasks, at'[v] = "running", stage[v] = "get" PROVE result'[Head(todo[v])] # "none"
    <3>1. result[Head(todo[v])] # "none" /\ Head(todo[v]) \in T!Tasks
      BY <1>5, <2>1, <2>4 DEF TaskInv, AwaitsOK
    <3>2. Head(todo[v]) # t
      BY <1>2, <3>1 DEF TaskInv, ResultsOK
    <3> QED
      BY <1>5, <3>1, <3>2
  <2> QED
    BY <1>0, <1>4, <1>8, <2>1, <2>2, <2>3, <2>4 DEF AwaitsOK
<1>15. OwnersOK'
  BY <1>0, <1>12, <1>13 DEF TaskInv, OwnersOK
<1>16. RunningOnStack'
  <2> SUFFICES ASSUME NEW v \in T!Tasks, at'[v] = "running"
               PROVE  \E i \in 1..Len(tStack') : tStack'[i] = T!Call("body", v)
    BY <1>0 DEF RunningOnStack, T!Call
  <2>1. at[v] = "running" /\ v # t
    BY <1>5
  <2>2. PICK i \in 1..Len(tStack) : tStack[i] = T!Call("body", v)
    BY <2>1 DEF TaskInv, RunningOnStack
  <2>3. i # Len(tStack)
    BY <1>2, <2>1, <2>2 DEF T!Call
  <2> QED
    BY <1>6, <2>2, <2>3
<1>17. InOrder'
  <2> SUFFICES ASSUME NEW v \in T!Tasks, NEW w \in T!Tasks, NEW i \in 1..Len(tStack'), NEW j \in 1..Len(tStack'),
                      stage[v] # "call", Head(todo[v]) = w, at'[w] = "running",
                      tStack'[i] = T!Call("body", v), tStack'[j] = T!Call("body", w)
               PROVE  i < j
    BY <1>0, <1>4 DEF InOrder, T!Call
  <2>1. at[w] = "running"
    BY <1>5
  <2>2. i \in 1..Len(tStack) /\ j \in 1..Len(tStack) /\ tStack[i] = T!Call("body", v) /\ tStack[j] = T!Call("body", w)
    BY <1>6
  <2> QED
    BY <2>1, <2>2 DEF TaskInv, InOrder
<1>18. NoneNotified'
  <2>1. \A i \in 1..Len(tStack') : tStack'[i].what # "notify"
    BY <1>6 DEF TaskInv, NoneNotified
  <2>2. \A v \in T!Tasks : callback[v] # None => at'[v] # "running"
    BY <1>5 DEF TaskInv, NoneNotified
  <2> QED
    BY <1>0, <1>4, <2>1, <2>2 DEF NoneNotified
<1>19. ResultsOK'
  <2> SUFFICES ASSUME NEW v \in T!Tasks
               PROVE  /\ result'[v] # "none" => at'[v] \in {"done", "destroyed"}
                      /\ result'[v] = "error" => tKind = "Task" /\ T!Threw(v)'
                      /\ at'[v] = "done" /\ result'[v] = "none" => tKind = "STask" /\ T!Threw(v)'
    BY <1>0, <1>4 DEF ResultsOK
  <2>1. CASE v = t
    BY <1>5, <1>9, <2>1
  <2>2. CASE v # t
    BY <1>5, <1>8, <2>2 DEF TaskInv, ResultsOK
  <2> QED
    BY <2>1, <2>2
<1>20. TaskMainOK'
  <2>1. 1 \in T!Tasks /\ at[1] # "none" /\ at[1] # "destroyed"
    BY <1>0, <1>2, TaskFacts DEF TaskInv, TaskMainOK
  <2>2. at'[1] # "none" /\ at'[1] # "destroyed"
    BY <1>5, <2>1
  <2> QED
    BY <1>0, <1>2, <1>4, <2>2 DEF TaskMainOK, T!NoFrameLeft
<1> QED
  BY <1>7, <1>10, <1>11, <1>14, <1>15, <1>16, <1>17, <1>18, <1>19, <1>20 DEF TaskInv

(* and a call returns. *)
LEMMA ReturnsKeeps == TaskInv /\ T!Returns => TaskInv'
<1> SUFFICES ASSUME TaskInv, T!Returns PROVE TaskInv'
  OBVIOUS
<1>0. T!Tasks' = T!Tasks /\ TaskCalls' = TaskCalls /\ TaskTypes
  BY DEF T!Returns, T!Tasks, TaskCalls, TaskInv
<1>1. /\ tStack # << >> /\ main # "terminated" /\ tStack' = T!Popped
      /\ tStack[Len(tStack)].what = "body" => at[tStack[Len(tStack)].t] # "running"
      /\ UNCHANGED <<tKind, prog, at, todo, stage, result, callback, main, handled>>
  BY DEF T!Returns, T!Top
<1>2. main = "then"
  BY <1>0, <1>1 DEF TaskInv, TaskMainOK, TaskTypes
<1>3. /\ tStack' \in Seq(TaskCalls) /\ Len(tStack') = Len(tStack) - 1 /\ Len(tStack) \in Nat \ {0}
      /\ \A i \in 1..Len(tStack') : i \in 1..Len(tStack) /\ i < Len(tStack) /\ tStack'[i] = tStack[i]
      /\ \A i \in 1..Len(tStack) : i # Len(tStack) => i \in 1..Len(tStack')
  BY <1>0, <1>1, TaskPops
<1>4. TaskTypes'
  BY <1>0, <1>1, <1>3 DEF TaskTypes
<1>5. \A v \in T!Tasks : T!Threw(v) <=> T!Threw(v)'
  BY <1>0, <1>1 DEF T!Threw
<1>6. \A v, w : Awaiting(v, w)' <=> Awaiting(v, w)
  BY <1>1 DEF Awaiting
<1>7. CalledOnce'
  <2>1. todo' = todo
    BY <1>1
  <2> QED
    BY <1>0, <2>1 DEF TaskInv, CalledOnce
<1>8. Fresh'
  BY <1>0, <1>1, <1>3 DEF TaskInv, Fresh
<1>9. AwaitsOK'
  BY <1>0, <1>1, <1>5, <1>6 DEF TaskInv, AwaitsOK
<1>10. OwnersOK'
  BY <1>0, <1>1, <1>6 DEF TaskInv, OwnersOK
<1>11. RunningOnStack'
  <2> SUFFICES ASSUME NEW v \in T!Tasks, at[v] = "running"
               PROVE  \E i \in 1..Len(tStack') : tStack'[i] = T!Call("body", v)
    BY <1>0, <1>1 DEF RunningOnStack, T!Call
  <2>1. PICK i \in 1..Len(tStack) : tStack[i] = T!Call("body", v)
    BY DEF TaskInv, RunningOnStack
  <2>2. i # Len(tStack)
    BY <1>1, <2>1 DEF T!Call
  <2> QED
    BY <1>3, <2>1, <2>2
<1>12. InOrder'
  <2> SUFFICES ASSUME NEW v \in T!Tasks, NEW w \in T!Tasks, NEW i \in 1..Len(tStack'), NEW j \in 1..Len(tStack'),
                      stage[v] # "call", Head(todo[v]) = w, at[w] = "running",
                      tStack'[i] = T!Call("body", v), tStack'[j] = T!Call("body", w)
               PROVE  i < j
    BY <1>0, <1>1 DEF InOrder, T!Call
  <2>1. i \in 1..Len(tStack) /\ j \in 1..Len(tStack) /\ tStack[i] = T!Call("body", v) /\ tStack[j] = T!Call("body", w)
    BY <1>3
  <2> QED
    BY <2>1 DEF TaskInv, InOrder
<1>13. NoneNotified'
  BY <1>0, <1>1, <1>3 DEF TaskInv, NoneNotified
<1>14. ResultsOK'
  BY <1>0, <1>1, <1>5 DEF TaskInv, ResultsOK
<1>15. TaskMainOK'
  <2>1. at[1] # "none" /\ at[1] # "destroyed"
    BY <1>2 DEF TaskInv, TaskMainOK
  <2> QED
    BY <1>0, <1>1, <1>2, <2>1 DEF TaskMainOK, T!NoFrameLeft
<1> QED
  BY <1>4, <1>7, <1>8, <1>9, <1>10, <1>11, <1>12, <1>13, <1>14, <1>15 DEF TaskInv

-----------------------------------------------------------------------------
(* main(): then(); *)
LEMMA ThenKeeps == TaskInv /\ T!Then => TaskInv'
<1> SUFFICES ASSUME TaskInv, T!Then PROVE TaskInv'
  OBVIOUS
<1>0. T!Tasks' = T!Tasks /\ TaskCalls' = TaskCalls /\ TaskTypes
  BY DEF T!Then, T!Tasks, TaskCalls, TaskInv
<1>1. /\ main = "then" /\ main' = "get" /\ tStack = << >> /\ handled' = IF result[1] = "none" THEN 0 ELSE 1
      /\ UNCHANGED <<tKind, prog, tStack, at, todo, stage, result, callback>>
  BY DEF T!Then
<1>2. \A v \in T!Tasks : T!Threw(v) <=> T!Threw(v)'
  BY <1>0, <1>1 DEF T!Threw
<1>3. \A v, w : Awaiting(v, w)' <=> Awaiting(v, w)
  BY <1>1 DEF Awaiting
<1>4. TaskTypes'
  BY <1>0, <1>1 DEF TaskTypes
<1>5. CalledOnce' /\ Fresh' /\ RunningOnStack' /\ NoneNotified' /\ InOrder'
  <2>1. CalledOnce'
    BY <1>0, <1>1 DEF TaskInv, CalledOnce
  <2>2. Fresh'
    BY <1>0, <1>1 DEF TaskInv, Fresh
  <2>3. RunningOnStack'
    BY <1>0, <1>1 DEF TaskInv, RunningOnStack, T!Call
  <2>4. NoneNotified'
    BY <1>0, <1>1 DEF TaskInv, NoneNotified
  <2>5. InOrder'
    BY <1>0, <1>1 DEF TaskInv, InOrder, T!Call
  <2> QED
    BY <2>1, <2>2, <2>3, <2>4, <2>5
<1>6. AwaitsOK'
  BY <1>0, <1>1, <1>2, <1>3 DEF TaskInv, AwaitsOK
<1>7. OwnersOK'
  BY <1>0, <1>1, <1>3 DEF TaskInv, OwnersOK
<1>8. ResultsOK'
  BY <1>0, <1>1, <1>2 DEF TaskInv, ResultsOK
<1>9. TaskMainOK'
  BY <1>0, <1>1 DEF TaskInv, TaskMainOK, T!NoFrameLeft
<1> QED
  BY <1>4, <1>5, <1>6, <1>7, <1>8, <1>9 DEF TaskInv

(* get_result(): when no call is in progress, what has no result was left by an exception, *)
LEMMA NoResultThrew ==
  ASSUME TaskInv, tStack = << >>, at[1] \notin {"none", "destroyed"}, result[1] = "none"
  PROVE  tKind = "STask" /\ \E t \in T!Tasks : T!Threw(t)
<1>1. TaskTypes /\ 1 \in T!Tasks
  BY TaskFacts DEF TaskInv
<1>2. at[1] # "running"
  BY <1>1 DEF TaskInv, RunningOnStack
<1>3. at[1] \in {"suspended", "done"}
  BY <1>1, <1>2 DEF TaskTypes, Frame
<1> QED
  BY <1>1, <1>3 DEF TaskInv, AwaitsOK, ResultsOK

(* get_result() of main(), which has to wait *)
LEMMA WaitKeeps == ASSUME TaskInv, T!GetMain, result[1] = "none" PROVE TaskInv'
<1>0. T!Tasks' = T!Tasks /\ TaskCalls' = TaskCalls /\ TaskTypes
  BY DEF T!GetMain, T!Tasks, TaskCalls, TaskInv
<1>1. /\ main = "get" /\ main' = "waiting"
      /\ UNCHANGED <<tKind, prog, tStack, at, todo, stage, result, callback, handled>>
  BY DEF T!GetMain
<1>2. \A v \in T!Tasks : T!Threw(v) <=> T!Threw(v)'
  BY <1>0, <1>1 DEF T!Threw
<1>3. \A v, w : Awaiting(v, w)' <=> Awaiting(v, w)
  BY <1>1 DEF Awaiting
<1>4. TaskTypes'
  BY <1>0, <1>1 DEF TaskTypes
<1>5. CalledOnce' /\ Fresh' /\ RunningOnStack' /\ NoneNotified' /\ InOrder'
  <2>1. CalledOnce'
    BY <1>0, <1>1 DEF TaskInv, CalledOnce
  <2>2. Fresh'
    BY <1>0, <1>1 DEF TaskInv, Fresh
  <2>3. RunningOnStack'
    BY <1>0, <1>1 DEF TaskInv, RunningOnStack, T!Call
  <2>4. NoneNotified'
    BY <1>0, <1>1 DEF TaskInv, NoneNotified
  <2>5. InOrder'
    BY <1>0, <1>1 DEF TaskInv, InOrder, T!Call
  <2> QED
    BY <2>1, <2>2, <2>3, <2>4, <2>5
<1>6. AwaitsOK'
  BY <1>0, <1>1, <1>2, <1>3 DEF TaskInv, AwaitsOK
<1>7. OwnersOK'
  BY <1>0, <1>1, <1>3 DEF TaskInv, OwnersOK
<1>8. ResultsOK'
  BY <1>0, <1>1, <1>2 DEF TaskInv, ResultsOK
<1>9. TaskMainOK'
  <2>1. /\ tStack = << >> /\ at[1] \notin {"none", "destroyed"}
        /\ handled = IF result[1] = "none" THEN 0 ELSE 1
    BY <1>1 DEF TaskInv, TaskMainOK
  <2>2. tKind = "STask" /\ \E t \in T!Tasks : T!Threw(t)
    BY <2>1, NoResultThrew
  <2> QED
    BY <1>0, <1>1, <1>2, <2>1, <2>2 DEF TaskMainOK, T!NoFrameLeft
<1> QED
  BY <1>4, <1>5, <1>6, <1>7, <1>8, <1>9 DEF TaskInv

(* and the frames main() owns are all there are: the first one that it does not own would   *)
(* have an owner called before it.                                                       *)
LEMMA MainOwnsFrames ==
  ASSUME TaskInv, tStack = << >>, at[1] \in Frame
  PROVE  \A t \in T!Tasks : t \in T!Owned(1) <=> at[t] \in Frame
<1>1. TaskTypes /\ 1 \in T!Tasks /\ T!Tasks \subseteq Nat \ {0}
  BY TaskFacts DEF TaskInv
<1>2. \A t \in T!Tasks : at[t] # "running"
  BY <1>1 DEF TaskInv, RunningOnStack
<1>3. \A t \in T!Tasks : at[t] = "suspended" =>
        stage[t] # "call" /\ Awaiting(t, Head(todo[t])) /\ Head(todo[t]) \in T!Tasks /\ at[Head(todo[t])] \in Frame
  BY DEF TaskInv, AwaitsOK, Awaiting
<1>4. ASSUME NEW t \in T!Owned(1), t \in T!Tasks PROVE at[t] \in Frame
  <2> DEFINE F == {v \in T!Tasks : at[v] \in Frame}
  <2>1. F \in SUBSET T!Tasks /\ 1 \in F
    BY <1>1
  <2>2. \A v \in F : at[v] = "suspended" => Head(todo[v]) \in F
    BY <1>3
  <2>3. t \in F
    BY <1>4, <2>1, <2>2 DEF T!Owned
  <2> QED
    BY <2>3
<1>5. ASSUME NEW F \in SUBSET T!Tasks, 1 \in F, \A v \in F : at[v] = "suspended" => Head(todo[v]) \in F,
             NEW t \in T!Tasks, at[t] \in Frame, t \notin F
      PROVE  FALSE
  <2> DEFINE A == {v \in T!Tasks : at[v] \in Frame /\ v \notin F}
  <2>1. A \in SUBSET Nat /\ A # {}
    BY <1>1, <1>5
  <2>2. PICK u \in A : \A v \in A : u <= v
    BY <2>1, Least
  <2>3. u \in T!Tasks \ {1} /\ at[u] \in Frame
    BY <1>5, <2>2
  <2>4. PICK v \in T!Tasks : Awaiting(v, u)
    BY <2>3 DEF TaskInv, OwnersOK
  <2>5. at[v] = "suspended" /\ at[v] \in Frame /\ Head(todo[v]) = u /\ stage[v] # "call"
    BY <1>2, <2>4 DEF Awaiting, Frame
  <2>6. v < u
    <3>1. todo[v] # << >>
      BY <2>5 DEF TaskInv, AwaitsOK
    <3>2. 1 \in 1..Len(todo[v]) /\ todo[v][1] = u /\ u # Throw
      BY <1>1, <2>3, <2>5, <3>1, TaskFacts
    <3>3. u > v
      BY <3>2 DEF TaskInv, CalledOnce
    <3> QED
      BY <1>1, <2>3, <3>3
  <2>7. v \in F
    BY <1>1, <2>2, <2>3, <2>5, <2>6
  <2> QED
    BY <1>5, <2>2, <2>5, <2>7
<1>6. ASSUME NEW t \in T!Tasks, at[t] \in Frame PROVE t \in T!Owned(1)
  BY <1>5, <1>6 DEF T!Owned
<1> QED
  BY <1>4, <1>6

(* get_result() of main(), which goes on *)
LEMMA LeaveKeeps ==
  ASSUME TaskInv, T!GetMain \/ T!SpuriousWake, main = "get" => result[1] # "none" PROVE TaskInv'
<1>0. T!Tasks' = T!Tasks /\ TaskCalls' = TaskCalls /\ TaskTypes
  BY DEF T!GetMain, T!SpuriousWake, T!Tasks, TaskCalls, TaskInv
<1>1. /\ main \in {"get", "waiting"} /\ main' = "ended"
      /\ at' = [t \in T!Tasks |-> IF t \in T!Owned(1) THEN "destroyed" ELSE at[t]]
      /\ UNCHANGED <<tKind, prog, tStack, todo, stage, result, callback, handled>>
  BY DEF T!GetMain, T!SpuriousWake, T!Leave
<1>2. /\ tStack = << >> /\ at[1] \in Frame /\ 1 \in T!Tasks
      /\ handled = IF result[1] = "none" THEN 0 ELSE 1
      /\ main = "waiting" => \E t \in T!Tasks : T!Threw(t)
  <2>1. 1 \in T!Tasks
    BY <1>0, TaskFacts
  <2>2. at[1] \notin {"none", "destroyed"} /\ at[1] \in Frame \cup {"none", "destroyed"}
    BY <1>0, <1>1, <2>1 DEF TaskInv, TaskMainOK, TaskTypes
  <2>3. at[1] \in Frame
    BY <2>2
  <2> QED
    BY <1>1, <2>1, <2>3 DEF TaskInv, TaskMainOK
<1>3. \A t \in T!Tasks : at'[t] = IF at[t] \in Frame THEN "destroyed" ELSE at[t]
  BY <1>1, <1>2, MainOwnsFrames
<1>4. /\ \A t \in T!Tasks : at'[t] \in {"none", "destroyed"} /\ (at'[t] = "none" <=> at[t] = "none")
      /\ at' \in [T!Tasks -> Frame \cup {"none", "destroyed"}]
  BY <1>0, <1>1, <1>3 DEF TaskTypes, Frame
<1>5. TaskTypes'
  BY <1>0, <1>1, <1>4 DEF TaskTypes
<1>6. \A v \in T!Tasks : T!Threw(v) => T!Threw(v)'
  <2>1. \A v \in T!Tasks : at[v] \in {"done", "destroyed"} => at'[v] \in {"done", "destroyed"}
    BY <1>4
  <2> QED
    BY <1>0, <1>1, <2>1, ThrewStays
<1>7. CalledOnce'
  <2>1. todo' = todo
    BY <1>1
  <2> QED
    BY <1>0, <2>1 DEF TaskInv, CalledOnce
<1>8. Fresh'
  <2>1. ASSUME NEW v \in T!Tasks, NEW i \in 1..Len(todo[v]), todo[v][i] # Throw, i > 1 \/ stage[v] = "call"
        PROVE  at'[todo[v][i]] = "none"
    <3>1. at[todo[v][i]] = "none" /\ todo[v][i] \in T!Tasks
      BY <1>0, <2>1, TaskFacts DEF TaskInv, Fresh
    <3> QED
      BY <1>4, <3>1
  <2>2. \A v \in T!Tasks : at'[v] = "none" =>
          /\ stage[v] = "call" /\ result[v] = "none" /\ callback[v] = None
          /\ \A i \in 1..Len(tStack) : tStack[i].t # v
    BY <1>4 DEF TaskInv, Fresh
  <2> QED
    BY <1>0, <1>1, <2>1, <2>2 DEF Fresh
<1>9. AwaitsOK'
  <2>1. \A v \in T!Tasks : stage[v] # "call" => todo[v] # << >> /\ Head(todo[v]) \in T!Tasks
    BY DEF TaskInv, AwaitsOK
  <2>2. \A v \in T!Tasks : at'[v] \notin {"running", "suspended"}
    BY <1>4
  <2> QED
    BY <1>0, <1>1, <2>1, <2>2 DEF AwaitsOK, Awaiting
<1>10. OwnersOK' /\ RunningOnStack' /\ InOrder' /\ NoneNotified'
  <2>1. \A v \in T!Tasks : at'[v] \notin Frame /\ at'[v] # "running"
    BY <1>4 DEF Frame
  <2>2. OwnersOK' /\ RunningOnStack'
    BY <1>0, <2>1 DEF OwnersOK, RunningOnStack
  <2>3. InOrder'
    BY <1>0, <2>1 DEF InOrder
  <2>4. NoneNotified'
    BY <1>0, <1>1, <2>1 DEF TaskInv, NoneNotified
  <2> QED
    BY <2>2, <2>3, <2>4
<1>11. ResultsOK'
  <2> SUFFICES ASSUME NEW v \in T!Tasks
               PROVE  /\ result[v] # "none" => at'[v] \in {"done", "destroyed"}
                      /\ result[v] = "error" => tKind = "Task" /\ T!Threw(v)'
                      /\ at'[v] # "done"
    BY <1>0, <1>1 DEF ResultsOK
  <2> QED
    BY <1>4, <1>6 DEF TaskInv, ResultsOK
<1>12. TaskMainOK'
  <2>1. result[1] = "value" \/ \E t \in T!Tasks : T!Threw(t)
    <3>1. result[1] \in {"none", "value", "error"} /\ (result[1] = "error" => T!Threw(1))
      BY <1>0, <1>2 DEF TaskTypes, TaskInv, ResultsOK
    <3> QED
      BY <1>1, <1>2, <3>1
  <2>2. ~(\E t \in T!Tasks : T!Threw(t)') => result[1] = "value"
    BY <1>6, <2>1
  <2>3. at'[1] = "destroyed"
    BY <1>2, <1>3
  <2>4. T!NoFrameLeft'
    BY <1>0, <1>4 DEF T!NoFrameLeft
  <2> QED
    BY <1>0, <1>1, <1>2, <2>2, <2>3, <2>4 DEF TaskMainOK
<1> QED
  BY <1>5, <1>7, <1>8, <1>9, <1>10, <1>11, <1>12 DEF TaskInv
-----------------------------------------------------------------------------
(* The invariant holds at first, and every step keeps it. *)
LEMMA TaskInit == T!Init => TaskInv
<1> SUFFICES ASSUME T!Init PROVE TaskInv
  OBVIOUS
<1>1. /\ tKind \in {"STask", "Task"} /\ prog \in Programs /\ tStack = << >>
      /\ at = [t \in T!Tasks |-> "none"] /\ todo = prog
      /\ stage = [t \in T!Tasks |-> "call"] /\ result = [t \in T!Tasks |-> "none"]
      /\ callback = [t \in T!Tasks |-> None] /\ main = "call" /\ handled = 0
  BY DEF T!Init
<1>2. /\ todo \in [T!Tasks -> Seq(T!Tasks \cup {Throw})] /\ 1 \in T!Tasks
      /\ CalledOnce
  <2>1. /\ todo \in Seq(Seq(T!Tasks \cup {Throw})) /\ 1 \in T!Tasks
        /\ \A t \in T!Tasks : todo[t] \in Seq(T!Tasks \cup {Throw})
    BY <1>1, ProgramFacts DEF T!Tasks
  <2>2. todo \in [T!Tasks -> Seq(T!Tasks \cup {Throw})]
    BY <1>1, <2>1, LenProperties DEF T!Tasks
  <2>3. CalledOnce
    <3> SUFFICES ASSUME NEW t \in T!Tasks, NEW u \in T!Tasks, NEW i \in 1..Len(prog[t]), NEW j \in 1..Len(prog[u])
                 PROVE  /\ prog[t][i] = Throw \/ prog[t][i] > t
                        /\ prog[t][i] = prog[u][j] /\ prog[t][i] # Throw => t = u /\ i = j
      BY <1>1 DEF CalledOnce
    <3>1. \A v, w \in DOMAIN prog : \A k \in 1..Len(prog[v]), l \in 1..Len(prog[w]) :
            /\ prog[v][k] = Throw \/ prog[v][k] > v
            /\ prog[v][k] = prog[w][l] /\ prog[v][k] # Throw => v = w /\ k = l
      BY <1>1, ProgramFacts
    <3> QED
      BY <3>1 DEF T!Tasks
  <2> QED
    BY <2>1, <2>2, <2>3
<1>3. Len(tStack) = 0 /\ tStack \in Seq(TaskCalls)
  BY <1>1, EmptySeq
<1>4. TaskTypes
  BY <1>1, <1>2, <1>3 DEF TaskTypes
<1>5. Fresh
  <2>1. ASSUME NEW t \in T!Tasks, NEW i \in 1..Len(todo[t]), todo[t][i] # Throw PROVE at[todo[t][i]] = "none"
    <3>1. todo[t][i] \in T!Tasks
      BY <1>4, <2>1, TaskFacts
    <3> QED
      BY <1>1, <3>1
  <2> QED
    BY <1>1, <1>3, <2>1 DEF Fresh
<1>6. AwaitsOK /\ OwnersOK
  BY <1>1 DEF AwaitsOK, OwnersOK, Awaiting, Frame
<1>7. RunningOnStack /\ InOrder /\ NoneNotified /\ ResultsOK
  BY <1>1, <1>3 DEF RunningOnStack, InOrder, NoneNotified, ResultsOK
<1>8. TaskMainOK
  BY <1>1, <1>2 DEF TaskMainOK, T!NoFrameLeft
<1> QED
  BY <1>2, <1>4, <1>5, <1>6, <1>7, <1>8 DEF TaskInv

(* Every step of SimpleTask keeps the invariant. *)
LEMMA TaskNext == TaskInv /\ [T!Next]_(T!vars) => TaskInv'
<1> SUFFICES ASSUME TaskInv, [T!Next]_(T!vars) PROVE TaskInv'
  OBVIOUS
<1>1. ASSUME NEW t \in T!Tasks, T!Await(t) PROVE TaskInv'
  BY <1>1, AwaitDoneKeeps, AwaitSuspendKeeps
<1>2. ASSUME NEW t \in T!Tasks, T!Get(t) PROVE TaskInv'
  BY <1>2, GetErrorKeeps, GetValueKeeps
<1>3. ASSUME NEW t \in T!Tasks, T!CallTask(t) \/ T!return_value(t) \/ T!unhandled_exception(t) PROVE TaskInv'
  BY <1>3, CallTaskKeeps, EndsKeeps
<1>4. CASE T!CallMain \/ T!Then \/ T!Returns
  BY <1>4, CallMainKeeps, ThenKeeps, ReturnsKeeps
<1>5. CASE T!GetMain
  BY <1>5, WaitKeeps, LeaveKeeps
<1>6. CASE T!SpuriousWake
  <2>1. main = "get" => result[1] # "none"
    BY <1>6 DEF T!SpuriousWake
  <2> QED
    BY <1>6, <2>1, LeaveKeeps
<1>7. CASE UNCHANGED T!vars
  <2>1. UNCHANGED <<tKind, prog, tStack, at, todo, stage, result, callback, main, handled>>
    BY <1>7 DEF T!vars
  <2>2. T!Tasks' = T!Tasks /\ TaskCalls' = TaskCalls
    BY <2>1 DEF T!Tasks, TaskCalls
  <2>3. \A v : T!Threw(v)' <=> T!Threw(v)
    BY <2>1 DEF T!Threw
  <2>4. TaskTypes' /\ CalledOnce' /\ Fresh'
    <3>1. TaskTypes'
      BY <2>1, <2>2 DEF TaskInv, TaskTypes
    <3>2. CalledOnce'
      BY <2>1, <2>2 DEF TaskInv, CalledOnce
    <3>3. Fresh'
      BY <2>1, <2>2 DEF TaskInv, Fresh
    <3> QED
      BY <3>1, <3>2, <3>3
  <2>5. RunningOnStack' /\ NoneNotified' /\ InOrder'
    <3>1. RunningOnStack'
      BY <2>1, <2>2 DEF TaskInv, RunningOnStack, T!Call
    <3>2. NoneNotified'
      BY <2>1, <2>2 DEF TaskInv, NoneNotified
    <3>3. InOrder'
      BY <2>1, <2>2 DEF TaskInv, InOrder, T!Call
    <3> QED
      BY <3>1, <3>2, <3>3
  <2>6. AwaitsOK' /\ OwnersOK' /\ ResultsOK'
    <3>1. AwaitsOK'
      BY <2>1, <2>2, <2>3 DEF TaskInv, AwaitsOK, Awaiting
    <3>2. OwnersOK'
      BY <2>1, <2>2, <2>3 DEF TaskInv, OwnersOK, Awaiting
    <3>3. ResultsOK'
      BY <2>1, <2>2, <2>3 DEF TaskInv, ResultsOK
    <3> QED
      BY <3>1, <3>2, <3>3
  <2>7. TaskMainOK'
    BY <2>1, <2>2, <2>3 DEF TaskInv, TaskMainOK, T!NoFrameLeft
  <2> QED
    BY <2>4, <2>5, <2>6, <2>7 DEF TaskInv
<1> QED
  BY <1>1, <1>2, <1>3, <1>4, <1>5, <1>6, <1>7 DEF T!Next

(* The invariant of SimpleTask implies its safety. *)
LEMMA TaskInvIsSafe == TaskInv => T!Safety
<1> SUFFICES ASSUME TaskInv PROVE T!Safety
  OBVIOUS
<1>1. T!NoSelfDeadlock
  <2> SUFFICES ASSUME NEW u, T!Locked(u) PROVE FALSE
    BY DEF T!NoSelfDeadlock
  <2>1. PICK i \in DOMAIN tStack : tStack[i] = T!Call("notify", u)
    BY DEF T!Locked
  <2>2. DOMAIN tStack = 1..Len(tStack)
    BY LenProperties DEF TaskInv, TaskTypes
  <2> QED
    BY <2>1, <2>2 DEF TaskInv, NoneNotified, T!Call
<1>2. T!ThrowDecides
  BY DEF TaskInv, TaskMainOK, T!ThrowDecides
<1>3. T!NoFrameLeft
  BY DEF TaskInv, TaskMainOK
<1> QED
  BY <1>1, <1>2, <1>3 DEF T!Safety
-----------------------------------------------------------------------------
(* Fibonacci.  A number of five limbs, its lower and its upper half and its value.             *)
IsWord(w) ==
  /\ w[1] \in Nat /\ w[2] \in Nat /\ w[3] \in Nat /\ w[4] \in Nat /\ w[5] \in Nat
  /\ w[1] < 65536 /\ w[2] < 65536 /\ w[3] < 65536 /\ w[4] < 65536
  /\ w = <<w[1], w[2], w[3], w[4], w[5]>>
Lower(w) == w[1] + 65536 * w[2]
Upper(w) == w[3] + 65536 * (w[4] + 65536 * w[5])
Val(w)   == Lower(w) + 4294967296 * Upper(w)

(* The addition in five limbs is exact, and the limb that a uint64_t has no room for does    *)
(* not shrink.                                                                             *)
LEMMA PlusIsExact ==
  ASSUME NEW v, NEW w, IsWord(v), IsWord(w)
  PROVE  /\ IsWord(Fb!Plus(v, w))
         /\ Lower(Fb!Plus(v, w)) = IF Lower(v) + Lower(w) < 4294967296 THEN Lower(v) + Lower(w)
                                  ELSE Lower(v) + Lower(w) - 4294967296
         /\ Upper(Fb!Plus(v, w)) = IF Lower(v) + Lower(w) < 4294967296 THEN Upper(v) + Upper(w)
                                  ELSE Upper(v) + Upper(w) + 1
         /\ v[5] <= Fb!Plus(v, w)[5] /\ w[5] <= Fb!Plus(v, w)[5]
<1> DEFINE s1 == v[1] + w[1]
           s2 == v[2] + w[2] + s1 \div 65536
           s3 == v[3] + w[3] + s2 \div 65536
           s4 == v[4] + w[4] + s3 \div 65536
           sum == <<s1 % 65536, s2 % 65536, s3 % 65536, s4 % 65536, v[5] + w[5] + s4 \div 65536>>
<1>1. /\ v[1] \in Nat /\ v[2] \in Nat /\ v[3] \in Nat /\ v[4] \in Nat /\ v[5] \in Nat
      /\ w[1] \in Nat /\ w[2] \in Nat /\ w[3] \in Nat /\ w[4] \in Nat /\ w[5] \in Nat
      /\ v[1] < 65536 /\ v[2] < 65536 /\ w[1] < 65536 /\ w[2] < 65536
  BY SMT DEF IsWord
<1>2. Fb!Plus(v, w) = sum
  BY SMT DEF Fb!Plus, Fb!Base
<1>3. ASSUME NEW x \in Nat
      PROVE  /\ x % 65536 \in Nat /\ x % 65536 < 65536 /\ x \div 65536 \in Nat
             /\ x = 65536 * (x \div 65536) + (x % 65536)
  BY SMT
<1>4. /\ s1 \in Nat /\ s1 % 65536 \in Nat /\ s1 % 65536 < 65536 /\ s1 \div 65536 \in Nat
      /\ s1 = 65536 * (s1 \div 65536) + (s1 % 65536)
  <2>1. s1 \in Nat
    BY <1>1, SMT
  <2> HIDE DEF s1
  <2> QED
    BY <1>3, <2>1, SMT
<1>5. /\ s2 \in Nat /\ s2 % 65536 \in Nat /\ s2 % 65536 < 65536 /\ s2 \div 65536 \in Nat
      /\ s2 = 65536 * (s2 \div 65536) + (s2 % 65536)
  <2>1. s2 \in Nat
    <3> HIDE DEF s1
    <3> QED
      BY <1>1, <1>4, SMT
  <2> HIDE DEF s2
  <2> QED
    BY <1>3, <2>1, SMT
<1>6. /\ s3 \in Nat /\ s3 % 65536 \in Nat /\ s3 % 65536 < 65536 /\ s3 \div 65536 \in Nat
      /\ s3 = 65536 * (s3 \div 65536) + (s3 % 65536)
  <2>1. s3 \in Nat
    <3> HIDE DEF s2
    <3> QED
      BY <1>1, <1>5, SMT
  <2> HIDE DEF s3
  <2> QED
    BY <1>3, <2>1, SMT
<1>7. /\ s4 \in Nat /\ s4 % 65536 \in Nat /\ s4 % 65536 < 65536 /\ s4 \div 65536 \in Nat
      /\ s4 = 65536 * (s4 \div 65536) + (s4 % 65536)
  <2>1. s4 \in Nat
    <3> HIDE DEF s3
    <3> QED
      BY <1>1, <1>6, SMT
  <2> HIDE DEF s4
  <2> QED
    BY <1>3, <2>1, SMT
<1> DEFINE m1 == s1 % 65536  m2 == s2 % 65536  m3 == s3 % 65536  m4 == s4 % 65536
           d1 == s1 \div 65536  d2 == s2 \div 65536  d3 == s3 \div 65536  d4 == s4 \div 65536
<1>8. /\ m1 \in Nat /\ m2 \in Nat /\ m3 \in Nat /\ m4 \in Nat
      /\ d1 \in Nat /\ d2 \in Nat /\ d3 \in Nat /\ d4 \in Nat
      /\ m1 < 65536 /\ m2 < 65536 /\ m3 < 65536 /\ m4 < 65536
      /\ v[1] + w[1] = 65536 * d1 + m1 /\ v[2] + w[2] + d1 = 65536 * d2 + m2
      /\ v[3] + w[3] + d2 = 65536 * d3 + m3 /\ v[4] + w[4] + d3 = 65536 * d4 + m4
  BY <1>4, <1>5, <1>6, <1>7, SMT
<1>9. sum = <<m1, m2, m3, m4, v[5] + w[5] + d4>>
  BY SMT
<1> HIDE DEF s1, s2, s3, s4, sum, m1, m2, m3, m4, d1, d2, d3, d4
<1>10. /\ sum[1] = m1 /\ sum[2] = m2 /\ sum[3] = m3 /\ sum[4] = m4 /\ sum[5] = v[5] + w[5] + d4
  BY <1>9, SMT
<1>11. IsWord(sum) /\ v[5] <= sum[5] /\ w[5] <= sum[5]
  <2>1. sum[5] \in Nat /\ v[5] <= sum[5] /\ w[5] <= sum[5]
    BY <1>1, <1>8, <1>10, SMT
  <2>2. sum = <<sum[1], sum[2], sum[3], sum[4], sum[5]>>
    BY <1>9, <1>10, SMT
  <2> QED
    BY <1>8, <1>10, <2>1, <2>2, SMT DEF IsWord
<1>12. d2 = 0 <=> Lower(v) + Lower(w) < 4294967296
  BY <1>1, <1>8, SMT DEF Lower
<1>13. d2 \in {0, 1}
  BY <1>1, <1>8, SMT
<1>14. Lower(sum) = Lower(v) + Lower(w) - 4294967296 * d2
  BY <1>1, <1>8, <1>10, SMT DEF Lower
<1>15. Upper(sum) = Upper(v) + Upper(w) + d2
  <2>1. /\ v[3] \in Nat /\ v[4] \in Nat /\ v[5] \in Nat /\ w[3] \in Nat /\ w[4] \in Nat /\ w[5] \in Nat
        /\ m3 \in Nat /\ m4 \in Nat /\ d2 \in Nat /\ d3 \in Nat /\ d4 \in Nat
        /\ v[3] + w[3] + d2 = 65536 * d3 + m3 /\ v[4] + w[4] + d3 = 65536 * d4 + m4
    BY <1>1, <1>8, SMT
  <2>2. ASSUME NEW v3 \in Nat, NEW v4 \in Nat, NEW v5 \in Nat, NEW w3 \in Nat, NEW w4 \in Nat, NEW w5 \in Nat,
               NEW x3 \in Nat, NEW x4 \in Nat, NEW y2 \in Nat, NEW y3 \in Nat, NEW y4 \in Nat,
               v3 + w3 + y2 = 65536 * y3 + x3, v4 + w4 + y3 = 65536 * y4 + x4
        PROVE  x3 + 65536 * (x4 + 65536 * (v5 + w5 + y4))
                 = v3 + 65536 * (v4 + 65536 * v5) + (w3 + 65536 * (w4 + 65536 * w5)) + y2
    BY <2>2, SMT
  <2>3. m3 + 65536 * (m4 + 65536 * (v[5] + w[5] + d4))
          = v[3] + 65536 * (v[4] + 65536 * v[5]) + (w[3] + 65536 * (w[4] + 65536 * w[5])) + d2
    BY <2>1, <2>2, SMT
  <2> QED
    BY <1>10, <2>3, SMT DEF Upper
<1>16. /\ Lower(v) \in Nat /\ Lower(w) \in Nat /\ Upper(v) \in Nat /\ Upper(w) \in Nat
  BY <1>1, SMT DEF Lower, Upper
<1> QED
  <2>1. CASE d2 = 0
    BY <1>2, <1>11, <1>12, <1>14, <1>15, <1>16, <2>1, SMT
  <2>2. CASE d2 = 1
    BY <1>2, <1>11, <1>12, <1>14, <1>15, <1>16, <2>2, SMT
  <2> QED
    BY <1>13, <2>1, <2>2, SMT

(* The recursion of Pair, up to a bound. *)
First2 == <<Fb!Word(0), Fb!Word(1)>>
PairStep(g, k)  == IF k = 0 THEN First2 ELSE <<g[k - 1][2], Fb!Plus(g[k - 1][1], g[k - 1][2])>>
Pairs(g, m)     == g = [k \in 0..m |-> PairStep(g, k)]

(* Functions that obey it agree. *)
LEMMA PairsAgree ==
  ASSUME NEW i \in Nat, NEW j \in Nat, NEW g, NEW h, Pairs(g, i), Pairs(h, j)
  PROVE  \A k \in Nat : k <= i /\ k <= j => g[k] = h[k]
<1> DEFINE D == {k \in Nat : k <= i /\ k <= j /\ g[k] # h[k]}
<1> SUFFICES ASSUME D # {} PROVE FALSE
  OBVIOUS
<1>1. PICK k \in D : \A m \in D : k <= m
  <2>1. D \in SUBSET Nat
    OBVIOUS
  <2> HIDE DEF D
  <2> QED
    BY <2>1, Least
<1>2. k \in 0..i /\ k \in 0..j
  BY <1>1
<1>3. g[k] = PairStep(g, k) /\ h[k] = PairStep(h, k)
  BY <1>2 DEF Pairs
<1>4. k # 0
  BY <1>1, <1>3 DEF PairStep
<1>5. g[k - 1] = h[k - 1]
  BY <1>1, <1>4
<1> QED
  BY <1>1, <1>3, <1>5 DEF PairStep

(* There is one for each bound. *)
LEMMA PairsExist ==
  ASSUME NEW m \in Nat
  PROVE  \E g : Pairs(g, m)
<1> DEFINE D == {i \in Nat : ~ \E g : Pairs(g, i)}
<1> SUFFICES ASSUME D # {} PROVE FALSE
  OBVIOUS
<1>1. PICK i \in D : \A j \in D : i <= j
  <2>1. D \in SUBSET Nat
    OBVIOUS
  <2> HIDE DEF D
  <2> QED
    BY <2>1, Least
<1>2. i # 0
  <2>1. Pairs([k \in 0..0 |-> First2], 0)
    BY DEF Pairs, PairStep
  <2> QED
    BY <1>1, <2>1
<1>3. i - 1 \in Nat /\ i - 1 \notin D
  BY <1>1, <1>2
<1>4. PICK g : Pairs(g, i - 1)
  BY <1>3
<1> DEFINE h == [k \in 0..i |-> PairStep(g, k)]
<1>5. ASSUME NEW k \in 0..i - 1 PROVE h[k] = g[k]
  BY <1>1, <1>3, <1>4 DEF Pairs
<1>6. ASSUME NEW k \in 0..i PROVE PairStep(g, k) = PairStep(h, k)
  <2>1. k # 0 => k - 1 \in 0..i - 1
    BY <1>1
  <2> HIDE DEF h
  <2> QED
    BY <1>5, <2>1 DEF PairStep
<1>7. Pairs(h, i)
  BY <1>6 DEF Pairs
<1> QED
  BY <1>1, <1>7

(* So Pair obeys it. *)
LEMMA PairDef ==
  /\ Fb!Pair[0] = First2
  /\ \A k \in Nat : Fb!Pair[k + 1] = <<Fb!Pair[k][2], Fb!Plus(Fb!Pair[k][1], Fb!Pair[k][2])>>
<1> DEFINE Q(m) == CHOOSE g : Pairs(g, m)
           f == [k \in Nat |-> Q(k)[k]]
<1>1. \A m \in Nat : Pairs(Q(m), m)
  BY PairsExist
<1>2. ASSUME NEW k \in Nat PROVE f[k] = PairStep(f, k)
  <2>1. Q(k)[k] = PairStep(Q(k), k)
    <3>1. k \in 0..k
      OBVIOUS
    <3> HIDE DEF Q, f
    <3> QED
      BY <1>1, <3>1 DEF Pairs
  <2>2. k # 0 => Q(k)[k - 1] = Q(k - 1)[k - 1]
    <3> HIDE DEF Q
    <3> QED
      BY <1>1, PairsAgree
  <2>3. f[k] = Q(k)[k] /\ (k # 0 => f[k - 1] = Q(k - 1)[k - 1])
    OBVIOUS
  <2> HIDE DEF f, Q
  <2> QED
    BY <2>1, <2>2, <2>3 DEF PairStep
<1>3. f = [k \in Nat |-> PairStep(f, k)]
  BY <1>2, Zenon
<1>4. Fb!Pair = [k \in Nat |-> PairStep(Fb!Pair, k)]
  <2> HIDE DEF f
  <2> QED
    BY <1>3, Zenon DEF Fb!Pair, PairStep, First2
<1> QED
  BY <1>4 DEF PairStep
(* The Fibonacci numbers of the reference definition are words, each the sum of the two      *)
(* before it.                                                                              *)
LEMMA FibWords ==
  /\ Fb!F(0) = Fb!Word(0) /\ Fb!F(1) = Fb!Word(1)
  /\ \A k \in Nat : IsWord(Fb!F(k)) /\ Fb!F(k + 2) = Fb!Plus(Fb!F(k), Fb!F(k + 1))
<1>1. /\ Fb!F(0) = Fb!Word(0) /\ Fb!F(1) = Fb!Word(1)
      /\ \A k \in Nat : Fb!F(k + 1) = Fb!Pair[k][2]
  <2>1. \A k \in Nat : Fb!F(k + 1) = Fb!Pair[k][2]
    BY PairDef DEF Fb!F
  <2>2. Fb!F(0 + 1) = Fb!Pair[0][2] /\ 0 + 1 = 1
    BY <2>1
  <2> QED
    BY <2>1, <2>2, PairDef DEF Fb!F, First2
<1>2. \A k \in Nat : Fb!F(k + 2) = Fb!Plus(Fb!F(k), Fb!F(k + 1))
  <2> SUFFICES ASSUME NEW k \in Nat PROVE Fb!F(k + 2) = Fb!Plus(Fb!F(k), Fb!F(k + 1))
    OBVIOUS
  <2>1. Fb!F((k + 1) + 1) = Fb!Pair[k + 1][2] /\ Fb!F(k + 1) = Fb!Pair[k][2] /\ (k + 1) + 1 = k + 2
    BY <1>1
  <2>2. Fb!Pair[k + 1][2] = Fb!Plus(Fb!Pair[k][1], Fb!Pair[k][2])
    BY PairDef
  <2> QED
    BY <2>1, <2>2 DEF Fb!F
<1>3. IsWord(Fb!Word(0)) /\ IsWord(Fb!Word(1))
  BY SMT DEF IsWord, Fb!Word
<1> DEFINE D == {k \in Nat : ~(IsWord(Fb!F(k)) /\ IsWord(Fb!F(k + 1)))}
<1>4. D = {}
  <2> SUFFICES ASSUME D # {} PROVE FALSE
    OBVIOUS
  <2>1. PICK k \in D : \A j \in D : k <= j
    <3>1. D \in SUBSET Nat
      OBVIOUS
    <3> HIDE DEF D
    <3> QED
      BY <3>1, Least
  <2>2. k # 0
    BY <1>1, <1>3, <2>1
  <2>3. k - 1 \in Nat /\ k - 1 \notin D /\ (k - 1) + 1 = k /\ (k - 1) + 2 = k + 1
    BY <2>1, <2>2
  <2>4. IsWord(Fb!F(k - 1)) /\ IsWord(Fb!F(k))
    BY <2>3
  <2>5. Fb!F(k + 1) = Fb!Plus(Fb!F(k - 1), Fb!F(k))
    BY <1>2, <2>3
  <2> QED
    BY <2>1, <2>4, <2>5, PlusIsExact, SMT
<1> QED
  BY <1>1, <1>2, <1>4

(* So the values are the Fibonacci numbers, and none is smaller than the one before it.      *)
V(k) == Val(Fb!F(k))

LEMMA FibValues ==
  /\ V(0) = 0 /\ V(1) = 1
  /\ \A k \in Nat : V(k) \in Nat /\ V(k + 2) = V(k) + V(k + 1)
  /\ \A j, k \in Nat : j <= k => V(j) <= V(k) /\ Fb!F(j)[5] <= Fb!F(k)[5]
<1>1. V(0) = 0 /\ V(1) = 1
  <2>1. Val(Fb!Word(0)) = 0 /\ Val(Fb!Word(1)) = 1
    BY SMT DEF Val, Lower, Upper, Fb!Word
  <2> QED
    BY <2>1, FibWords DEF V
<1>2. ASSUME NEW w, IsWord(w) PROVE Lower(w) \in Nat /\ Upper(w) \in Nat /\ w[5] \in Nat /\ Val(w) \in Nat
  BY <1>2, SMT DEF IsWord, Lower, Upper, Val
<1>3. ASSUME NEW k \in Nat PROVE V(k) \in Nat /\ Fb!F(k)[5] \in Nat
  BY <1>2, FibWords DEF V
<1>4. ASSUME NEW k \in Nat
      PROVE  /\ V(k + 2) = V(k) + V(k + 1)
             /\ Fb!F(k)[5] <= Fb!F(k + 2)[5] /\ Fb!F(k + 1)[5] <= Fb!F(k + 2)[5]
  <2>1. IsWord(Fb!F(k)) /\ IsWord(Fb!F(k + 1)) /\ Fb!F(k + 2) = Fb!Plus(Fb!F(k), Fb!F(k + 1)) /\ k + 1 \in Nat
    BY FibWords
  <2>2. ASSUME NEW v, NEW w, IsWord(v), IsWord(w) PROVE Val(Fb!Plus(v, w)) = Val(v) + Val(w)
    <3>1. /\ Lower(v) \in Nat /\ Lower(w) \in Nat /\ Upper(v) \in Nat /\ Upper(w) \in Nat
      BY <1>2, <2>2
    <3> HIDE DEF Lower, Upper
    <3> QED
      BY <2>2, <3>1, PlusIsExact, SMT DEF Val
  <2> QED
    BY <2>1, <2>2, PlusIsExact, SMT DEF V
<1>5. ASSUME NEW k \in Nat PROVE V(k) <= V(k + 1) /\ Fb!F(k)[5] <= Fb!F(k + 1)[5]
  <2>1. CASE k = 0
    <3>1. Fb!F(0)[5] = 0 /\ Fb!F(1)[5] = 0
      BY FibWords, SMT DEF Fb!Word
    <3> QED
      BY <1>1, <2>1, <3>1
  <2>2. CASE k # 0
    <3>1. k - 1 \in Nat /\ (k - 1) + 1 = k /\ (k - 1) + 2 = k + 1 /\ k + 1 \in Nat
      BY <2>2
    <3>2. V((k - 1) + 2) = V(k - 1) + V((k - 1) + 1) /\ Fb!F((k - 1) + 1)[5] <= Fb!F((k - 1) + 2)[5]
      BY <1>4, <3>1
    <3>3. V(k - 1) \in Nat /\ V(k) \in Nat
      BY <1>3, <3>1
    <3> QED
      BY <3>1, <3>2, <3>3
  <2> QED
    BY <2>1, <2>2
<1>6. ASSUME NEW j \in Nat, NEW k \in Nat, j <= k PROVE V(j) <= V(k) /\ Fb!F(j)[5] <= Fb!F(k)[5]
  <2> DEFINE D == {i \in Nat : j <= i /\ ~(V(j) <= V(i) /\ Fb!F(j)[5] <= Fb!F(i)[5])}
  <2> SUFFICES ASSUME D # {} PROVE FALSE
    BY <1>6
  <2>1. PICK i \in D : \A m \in D : i <= m
    <3>1. D \in SUBSET Nat
      OBVIOUS
    <3> HIDE DEF D
    <3> QED
      BY <3>1, Least
  <2>2. i # j
    BY <1>3, <2>1
  <2>3. i - 1 \in Nat /\ j <= i - 1 /\ i - 1 \notin D /\ (i - 1) + 1 = i
    BY <2>1, <2>2
  <2>4. V(j) <= V(i - 1) /\ Fb!F(j)[5] <= Fb!F(i - 1)[5]
    BY <2>3
  <2>5. V(i - 1) <= V(i) /\ Fb!F(i - 1)[5] <= Fb!F(i)[5]
    BY <1>5, <2>3
  <2>6. /\ V(j) \in Nat /\ V(i - 1) \in Nat /\ V(i) \in Nat
        /\ Fb!F(j)[5] \in Nat /\ Fb!F(i - 1)[5] \in Nat /\ Fb!F(i)[5] \in Nat
    BY <1>3, <2>1, <2>3
  <2>7. V(j) <= V(i) /\ Fb!F(j)[5] <= Fb!F(i)[5]
    BY <2>4, <2>5, <2>6
  <2> QED
    BY <2>1, <2>7
<1> QED
  BY <1>1, <1>3, <1>4, <1>6

(* Ten numbers further. *)
LEMMA FibTen ==
  ASSUME NEW k \in Nat
  PROVE  V(k + 10) = 34 * V(k) + 55 * V(k + 1) /\ V(k + 11) = 55 * V(k) + 89 * V(k + 1)
<1>1. ASSUME NEW i \in Nat PROVE V(i + 5) = 3 * V(i) + 5 * V(i + 1) /\ V(i + 6) = 5 * V(i) + 8 * V(i + 1)
  <2>1. /\ V(i + 2) = V(i) + V(i + 1) /\ V(i + 3) = V(i + 1) + V(i + 2) /\ V(i + 4) = V(i + 2) + V(i + 3)
        /\ V(i + 5) = V(i + 3) + V(i + 4) /\ V(i + 6) = V(i + 4) + V(i + 5)
    <3>1. /\ (i + 1) + 2 = i + 3 /\ (i + 2) + 2 = i + 4 /\ (i + 3) + 2 = i + 5 /\ (i + 4) + 2 = i + 6
          /\ (i + 1) + 1 = i + 2 /\ (i + 2) + 1 = i + 3 /\ (i + 3) + 1 = i + 4 /\ (i + 4) + 1 = i + 5
          /\ i + 1 \in Nat /\ i + 2 \in Nat /\ i + 3 \in Nat /\ i + 4 \in Nat
      OBVIOUS
    <3> QED
      BY <3>1, FibValues
  <2>2. V(i) \in Nat /\ V(i + 1) \in Nat
    BY i + 1 \in Nat, FibValues
  <2> QED
    BY <2>1, <2>2
<1>2. V(k + 5) = 3 * V(k) + 5 * V(k + 1) /\ V(k + 6) = 5 * V(k) + 8 * V(k + 1)
  BY <1>1
<1>3. V(k + 10) = 3 * V(k + 5) + 5 * V(k + 6) /\ V(k + 11) = 5 * V(k + 5) + 8 * V(k + 6)
  <2>1. k + 5 \in Nat /\ (k + 5) + 5 = k + 10 /\ (k + 5) + 1 = k + 6 /\ (k + 5) + 6 = k + 11
    OBVIOUS
  <2> QED
    BY <1>1, <2>1
<1>4. V(k) \in Nat /\ V(k + 1) \in Nat
  BY k + 1 \in Nat, FibValues
<1> QED
  BY <1>2, <1>3, <1>4

(* F(46) fits into an int, F(93) into a uint64_t, and F(94) does not. *)
LEMMA FibLimits ==
  /\ \A k \in Nat : k <= 46 => Fb!Low(Fb!F(k)) = V(k)
  /\ \A k \in Nat : Fb!F(k)[5] \in Nat /\ (Fb!F(k)[5] = 0 <=> k <= 93)
<1>0. ASSUME NEW j \in Nat, NEW k \in Nat, j <= k PROVE V(j) <= V(k) /\ Fb!F(j)[5] <= Fb!F(k)[5]
  BY <1>0, FibValues
<1>1. V(10) = 55 /\ V(11) = 89
  BY FibTen, FibValues, 0 \in Nat, SMT
<1>2. V(9) = 34 /\ V(10) = 55
  BY <1>1, FibValues, 9 \in Nat, SMT
<1>3. V(19) = 4181 /\ V(20) = 6765
  BY <1>2, 9 \in Nat, FibTen, SMT
<1>4. V(29) = 514229 /\ V(30) = 832040
  BY <1>3, 19 \in Nat, FibTen, SMT
<1>5. V(39) = 63245986 /\ V(40) = 102334155
  BY <1>4, 29 \in Nat, FibTen, SMT
<1>6. V(49) = 7778742049 /\ V(50) = 12586269025
  BY <1>5, 39 \in Nat, FibTen, SMT
<1>7. V(59) = 956722026041 /\ V(60) = 1548008755920
  BY <1>6, 49 \in Nat, FibTen, SMT
<1>8. V(69) = 117669030460994 /\ V(70) = 190392490709135
  BY <1>7, 59 \in Nat, FibTen, SMT
<1>9. V(79) = 14472334024676221 /\ V(80) = 23416728348467685
  BY <1>8, 69 \in Nat, FibTen, SMT
<1>10. V(89) = 1779979416004714189 /\ V(90) = 2880067194370816120
  BY <1>9, 79 \in Nat, FibTen, SMT
(* what does not fit into four limbs, from the halves of the numbers *)
<1>11. ASSUME NEW k \in Nat
       PROVE  /\ Lower(Fb!F(k)) \in Nat /\ Lower(Fb!F(k)) < 4294967296 /\ Upper(Fb!F(k)) \in Nat
              /\ Fb!F(k)[5] \in Nat /\ V(k) = Lower(Fb!F(k)) + 4294967296 * Upper(Fb!F(k))
              /\ Fb!F(k)[5] = 0 <=> Upper(Fb!F(k)) < 4294967296
  <2>1. IsWord(Fb!F(k))
    BY FibWords, SMT
  <2>2. ASSUME NEW w, IsWord(w)
        PROVE  /\ Lower(w) \in Nat /\ Lower(w) < 4294967296 /\ Upper(w) \in Nat /\ w[5] \in Nat
               /\ w[5] = 0 <=> Upper(w) < 4294967296
    <3>1. Lower(w) \in Nat /\ Lower(w) < 4294967296 /\ Upper(w) \in Nat /\ w[5] \in Nat
      BY <2>2, SMT DEF IsWord, Lower, Upper
    <3>2. w[5] = 0 => Upper(w) < 4294967296
      BY <2>2, SMT DEF IsWord, Upper
    <3>3. w[5] # 0 => Upper(w) >= 4294967296
      <4>1. ASSUME NEW x \in Nat, NEW y \in Nat, NEW z \in Nat, z # 0
            PROVE  x + 65536 * (y + 65536 * z) >= 4294967296
        BY <4>1, SMT
      <4>2. w[3] \in Nat /\ w[4] \in Nat /\ w[5] \in Nat
        BY <2>2, SMT DEF IsWord
      <4> QED
        BY <4>1, <4>2, SMT DEF Upper
    <3> QED
      BY <3>1, <3>2, <3>3, SMT
  <2> QED
    BY <2>1, <2>2, SMT DEF V, Val
<1> DEFINE lo(k) == Lower(Fb!F(k))
           up(k) == Upper(Fb!F(k))
<1>12. ASSUME NEW k \in Nat
       PROVE  /\ lo(k + 2) = IF lo(k) + lo(k + 1) < 4294967296 THEN lo(k) + lo(k + 1)
                             ELSE lo(k) + lo(k + 1) - 4294967296
              /\ up(k + 2) = IF lo(k) + lo(k + 1) < 4294967296 THEN up(k) + up(k + 1)
                             ELSE up(k) + up(k + 1) + 1
  BY k + 1 \in Nat, FibWords, PlusIsExact, SMT
<1>13. \A k \in Nat : /\ lo(k) \in Nat /\ lo(k) < 4294967296 /\ up(k) \in Nat
                      /\ V(k) = lo(k) + 4294967296 * up(k)
                      /\ Fb!F(k)[5] \in Nat /\ (Fb!F(k)[5] = 0 <=> up(k) < 4294967296)
  BY <1>11, SMT
<1> HIDE DEF lo, up
<1>14. lo(89) = 511172301 /\ up(89) = 414433753 /\ lo(90) = 2713352312 /\ up(90) = 670567898
  <2>1. ASSUME NEW l \in Nat, NEW u \in Nat, l < 4294967296, 1779979416004714189 = l + 4294967296 * u
        PROVE  l = 511172301 /\ u = 414433753
    BY <2>1, SMT
  <2>2. ASSUME NEW l \in Nat, NEW u \in Nat, l < 4294967296, 2880067194370816120 = l + 4294967296 * u
        PROVE  l = 2713352312 /\ u = 670567898
    BY <2>2, SMT
  <2>3. /\ lo(89) \in Nat /\ up(89) \in Nat /\ lo(89) < 4294967296 /\ V(89) = lo(89) + 4294967296 * up(89)
        /\ lo(90) \in Nat /\ up(90) \in Nat /\ lo(90) < 4294967296 /\ V(90) = lo(90) + 4294967296 * up(90)
    BY <1>13, 89 \in Nat, 90 \in Nat, SMT
  <2> QED
    BY <1>10, <2>1, <2>2, <2>3, SMT
<1>15. lo(91) = 3224524613 /\ up(91) = 1085001651
  BY <1>12, <1>14, 89 \in Nat, SMT
<1>16. lo(92) = 1642909629 /\ up(92) = 1755569550
  BY <1>12, <1>14, <1>15, 90 \in Nat, SMT
<1>17. lo(93) = 572466946 /\ up(93) = 2840571202
  BY <1>12, <1>15, <1>16, 91 \in Nat, SMT
<1>18. up(94) = 4596140752
  BY <1>12, <1>16, <1>17, 92 \in Nat, SMT
<1>19. Fb!F(93)[5] = 0 /\ Fb!F(94)[5] # 0
  <2>1. (Fb!F(93)[5] = 0 <=> up(93) < 4294967296) /\ (Fb!F(94)[5] = 0 <=> up(94) < 4294967296)
    BY <1>13, 93 \in Nat, 94 \in Nat, SMT
  <2> QED
    BY <1>17, <1>18, <2>1, SMT
<1>20. ASSUME NEW k \in Nat PROVE Fb!F(k)[5] \in Nat /\ (Fb!F(k)[5] = 0 <=> k <= 93)
  <2>1. Fb!F(k)[5] \in Nat /\ Fb!F(93)[5] \in Nat /\ Fb!F(94)[5] \in Nat
    BY <1>11, 93 \in Nat, 94 \in Nat, SMT
  <2>2. /\ k <= 93 => Fb!F(k)[5] <= Fb!F(93)[5]
        /\ 94 <= k => Fb!F(94)[5] <= Fb!F(k)[5]
    BY <1>0, 93 \in Nat, 94 \in Nat, SMT
  <2> QED
    BY <1>19, <2>1, <2>2, SMT
(* what fits into two limbs *)
<1>21. V(46) = 1836311903
  <2>1. V(46 + 2) = V(46) + V(46 + 1) /\ V(47 + 2) = V(47) + V(47 + 1) /\ V(48 + 2) = V(48) + V(48 + 1)
    BY 46 \in Nat, 47 \in Nat, 48 \in Nat, FibValues
  <2>2. V(46) \in Nat /\ V(47) \in Nat /\ V(48) \in Nat
    BY 46 \in Nat, 47 \in Nat, 48 \in Nat, FibValues
  <2> QED
    BY <1>6, <2>1, <2>2, SMT
<1>22. ASSUME NEW k \in Nat, k <= 46 PROVE Fb!Low(Fb!F(k)) = V(k)
  <2>1. V(k) <= V(46)
    BY <1>0, <1>22, 46 \in Nat, SMT
  <2>2. up(k) = 0
    <3>1. ASSUME NEW l \in Nat, NEW u \in Nat, l + 4294967296 * u <= 1836311903 PROVE u = 0
      BY <3>1, SMT
    <3>2. lo(k) \in Nat /\ up(k) \in Nat /\ V(k) = lo(k) + 4294967296 * up(k)
      BY <1>13, SMT
    <3> QED
      BY <1>21, <2>1, <3>1, <3>2, SMT
  <2>3. V(k) = lo(k)
    BY <1>13, <2>2, SMT
  <2> QED
    BY <2>3, SMT DEF lo, Lower, Fb!Low, Fb!Base
<1> QED
  BY <1>20, <1>22, SMT

(* Where the coroutine and the frames are after so many resumptions. *)
FibTypes == fibN \in Nat /\ calls \in Nat

SeqInv ==
  /\ seq = [at |-> seq.at, a |-> seq.a, b |-> seq.b, i |-> seq.i, out |-> seq.out]
  /\ seq.at \in {"start", "0", "1", "loop", "done", "throws"}
  /\ seq.at = "start" <=> calls = 0
  /\ seq.at \in {"start", "0", "1"} => seq.a = Fb!F(0) /\ seq.b = Fb!F(1) /\ seq.i = 2
  /\ seq.at = "0" => calls = 1 /\ fibN >= 1 /\ seq.out = Fb!F(0)
  /\ seq.at = "1" => calls = 2 /\ fibN >= 2 /\ seq.out = Fb!F(1)
  /\ seq.at = "loop" => /\ seq.i \in Nat /\ seq.i >= 2 /\ seq.i < fibN /\ calls = seq.i + 1
                        /\ seq.a = Fb!F(seq.i - 2) /\ seq.b = Fb!F(seq.i - 1) /\ seq.out = Fb!F(seq.i)
  /\ seq.at = "done" => calls > fibN
  /\ seq.at \in {"0", "1", "loop", "done"} => fibN <= 94
  /\ seq.at = "throws" => fibN > 94

FibInt ==
  /\ fib = [at |-> fib.at, a |-> fib.a, b |-> fib.b, i |-> fib.i, out |-> fib.out]
  /\ fib.at \in {"start", "a", "b", "loop", "done"}
  /\ fib.at = "start" <=> calls = 0
  /\ fib.at \in {"start", "a", "b"} => fib.a = 0 /\ fib.b = 1 /\ fib.i = 2
  /\ fib.at = "a" => calls = 1 /\ fib.out = 0
  /\ fib.at = "b" => calls = 2 /\ fib.out = 1
  /\ fib.at = "loop" => /\ fib.i \in Nat /\ fib.i >= 2 /\ fib.i <= fibN /\ calls = fib.i + 1
                        /\ fib.a = V(fib.i - 2) /\ fib.b = V(fib.i - 1) /\ fib.out = V(fib.i)
  /\ fib.at \in {"a", "b", "loop"} => fibN >= 2
  /\ fib.at = "done" => fibN \in {0, 1} \/ calls > fibN + 1

SimInt ==
  /\ sim = [state |-> sim.state, a |-> sim.a, b |-> sim.b, c |-> sim.c, out |-> sim.out]
  /\ sim.state = IF calls <= 3 THEN calls ELSE 3
  /\ calls \in {1, 2} => sim.a = 1 /\ sim.b = 1 /\ sim.out = 1
  /\ calls >= 3 => sim.a = V(calls - 2) /\ sim.b = V(calls - 1) /\ sim.c = V(calls) /\ sim.out = V(calls)

FrameInt ==
  /\ frm.a = V(calls + 2) /\ frm.b = V(calls + 1)
  /\ calls >= 1 => frm.out = V(calls + 1)

FibInv ==
  /\ FibTypes /\ SeqInv
  /\ calls <= Resumptions => FibInt /\ SimInt /\ FrameInt

(* The invariant holds at first. *)
LEMMA FibInit == Fb!Init => FibInv
<1> SUFFICES ASSUME Fb!Init PROVE FibInv
  OBVIOUS
<1>1. fibN \in Nat /\ calls = 0
  BY SequentialAssumption DEF Fb!Init, Fb!FibonacciAssumption
<1>2. SeqInv
  BY <1>1, FibWords DEF Fb!Init, SeqInv
<1>3. FibInt /\ SimInt
  BY <1>1 DEF Fb!Init, FibInt, SimInt
<1>4. V(0 + 2) = 1 /\ V(0 + 1) = 1
  BY 0 \in Nat, FibValues
<1>5. FrameInt
  BY <1>1, <1>4 DEF Fb!Init, FrameInt
<1> QED
  BY <1>1, <1>2, <1>3, <1>5 DEF FibInv, FibTypes

(* A word that fits is not changed by leaving out its fifth limb. *)
LEMMA WrappedIsExact ==
  ASSUME NEW w, IsWord(w), w[5] = 0
  PROVE  Fb!Wrapped(w) = w
<1>1. ASSUME NEW p, NEW q, NEW r, NEW s, NEW x, x = <<p, q, r, s, 0>> PROVE [x EXCEPT ![5] = 0] = x
  BY <1>1, SMT
<1>2. w = <<w[1], w[2], w[3], w[4], 0>>
  BY SMT DEF IsWord
<1> QED
  BY <1>1, <1>2 DEF Fb!Wrapped

(* fibonacci_sequence() and Fib() resumed outside their loops, where the locals stay. *)
LEMMA NotInLoop ==
  ASSUME NEW s, NEW p, NEW a, NEW b, NEW i, NEW x,
         s = [at |-> p, a |-> a, b |-> b, i |-> i, out |-> x], p # "loop"
  PROVE  /\ Fb!fibonacci_sequence(s) =
              [at |-> Fb!SeqNext(s), a |-> a, b |-> b, i |-> i,
               out |-> CASE Fb!SeqNext(s) = "0" -> Fb!Word(0)
                         [] Fb!SeqNext(s) = "1" -> Fb!Word(1)
                         [] Fb!SeqNext(s) = "loop" -> Fb!Wrapped(Fb!Plus(a, b))
                         [] OTHER -> x]
         /\ p = "start" => Fb!Fib(s) = IF fibN \in {0, 1}
                                       THEN [at |-> "done", a |-> a, b |-> b, i |-> i, out |-> x]
                                       ELSE [at |-> "a", a |-> a, b |-> b, i |-> i, out |-> a]
         /\ p = "a" => Fb!Fib(s) = [at |-> "b", a |-> a, b |-> b, i |-> i, out |-> b]
         /\ p = "b" => Fb!Fib(s) = IF i <= fibN
                                   THEN [at |-> "loop", a |-> a, b |-> b, i |-> i, out |-> a + b]
                                   ELSE [at |-> "done", a |-> a, b |-> b, i |-> i, out |-> x]
         /\ p = "done" => Fb!Fib(s) = s
<1>1. s.at = p /\ s.a = a /\ s.b = b /\ s.i = i /\ s.out = x
  OBVIOUS
<1>2. ASSUME NEW to, NEW out
      PROVE  [s EXCEPT !.at = to, !.out = out] = [at |-> to, a |-> a, b |-> b, i |-> i, out |-> out]
  <2> DEFINE t == [s EXCEPT !.at = to]
  <2>1. t = [at |-> to, a |-> a, b |-> b, i |-> i, out |-> x]
    OBVIOUS
  <2> HIDE DEF t
  <2>2. [t EXCEPT !.out = out] = [at |-> to, a |-> a, b |-> b, i |-> i, out |-> out]
    BY <2>1
  <2> QED
    BY <2>2 DEF t
<1>3. Fb!fibonacci_sequence(s) =
        [at |-> Fb!SeqNext(s), a |-> a, b |-> b, i |-> i,
         out |-> CASE Fb!SeqNext(s) = "0" -> Fb!Word(0)
                   [] Fb!SeqNext(s) = "1" -> Fb!Word(1)
                   [] Fb!SeqNext(s) = "loop" -> Fb!Wrapped(Fb!Plus(a, b))
                   [] OTHER -> x]
  BY <1>1, <1>2 DEF Fb!fibonacci_sequence
<1>4. CASE p = "start"
  <2>1. [s EXCEPT !.at = "done", !.out = s.out] = [at |-> "done", a |-> a, b |-> b, i |-> i, out |-> x]
    BY <1>1, <1>2
  <2>2. [s EXCEPT !.at = "a", !.out = s.a] = [at |-> "a", a |-> a, b |-> b, i |-> i, out |-> a]
    BY <1>1, <1>2
  <2>3. Fb!Fib(s) = IF fibN \in {0, 1} THEN [s EXCEPT !.at = "done", !.out = s.out] ELSE [s EXCEPT !.at = "a", !.out = s.a]
    <3>1. CASE fibN \in {0, 1}
      BY <1>1, <1>4, <3>1 DEF Fb!Fib
    <3>2. CASE fibN \notin {0, 1}
      BY <1>1, <1>4, <3>2 DEF Fb!Fib
    <3> QED
      BY <3>1, <3>2
  <2> QED
    BY <1>3, <1>4, <2>1, <2>2, <2>3
<1>5. CASE p = "a"
  BY <1>1, <1>2, <1>3, <1>5 DEF Fb!Fib
<1>6. CASE p = "b"
  <2>1. [s EXCEPT !.at = "done", !.out = s.out] = [at |-> "done", a |-> a, b |-> b, i |-> i, out |-> x]
    BY <1>1, <1>2
  <2>2. [s EXCEPT !.at = "loop", !.out = s.a + s.b] = [at |-> "loop", a |-> a, b |-> b, i |-> i, out |-> a + b]
    BY <1>1, <1>2
  <2>3. Fb!Fib(s) = IF s.i <= fibN THEN [s EXCEPT !.at = "loop", !.out = s.a + s.b]
                                  ELSE [s EXCEPT !.at = "done", !.out = s.out]
    <3>1. CASE s.i <= fibN
      BY <1>1, <1>6, <3>1 DEF Fb!Fib
    <3>2. CASE ~(s.i <= fibN)
      BY <1>1, <1>6, <3>2 DEF Fb!Fib
    <3> QED
      BY <3>1, <3>2
  <2> QED
    BY <1>1, <1>3, <1>6, <2>1, <2>2, <2>3
<1>7. CASE p = "done"
  BY <1>1, <1>2, <1>3, <1>7 DEF Fb!Fib
<1> QED
  BY <1>3, <1>4, <1>5, <1>6, <1>7

(* fibonacci_sequence() resumed *)
LEMMA SeqKeeps ==
  ASSUME FibInv, Fb!resume
  PROVE  SeqInv'
<1>1. FibTypes /\ SeqInv /\ seq' = Fb!fibonacci_sequence(seq) /\ calls' = calls + 1 /\ fibN' = fibN
  BY DEF FibInv, Fb!resume
<1>2. seq = [at |-> seq.at, a |-> seq.a, b |-> seq.b, i |-> seq.i, out |-> seq.out]
  BY <1>1 DEF SeqInv
<1>3. Fb!Word(0) = Fb!F(0) /\ Fb!Word(1) = Fb!F(1)
  BY FibWords
<1>4. CASE seq.at = "start"
  <2>1. calls = 0 /\ fibN \in Nat /\ seq.a = Fb!F(0) /\ seq.b = Fb!F(1) /\ seq.i = 2
    BY <1>1, <1>4 DEF FibTypes, SeqInv
  <2>2. Fb!SeqNext(seq) = IF fibN = 0 THEN "done" ELSE IF fibN > 94 THEN "throws" ELSE "0"
    BY <1>4 DEF Fb!SeqNext
  <2>3. seq' = [at |-> Fb!SeqNext(seq), a |-> Fb!F(0), b |-> Fb!F(1), i |-> 2,
                out |-> IF Fb!SeqNext(seq) = "0" THEN Fb!F(0) ELSE seq.out]
    BY <1>1, <1>2, <1>3, <1>4, <2>1, <2>2, NotInLoop
  <2> QED
    BY <1>1, <2>1, <2>2, <2>3 DEF SeqInv
<1>5. CASE seq.at = "0"
  <2>1. /\ calls = 1 /\ fibN \in Nat /\ fibN >= 1 /\ fibN <= 94
        /\ seq.a = Fb!F(0) /\ seq.b = Fb!F(1) /\ seq.i = 2
    BY <1>1, <1>5 DEF FibTypes, SeqInv
  <2>2. Fb!SeqNext(seq) = IF fibN = 1 THEN "done" ELSE "1"
    BY <1>5 DEF Fb!SeqNext
  <2>3. seq' = [at |-> Fb!SeqNext(seq), a |-> Fb!F(0), b |-> Fb!F(1), i |-> 2,
                out |-> IF Fb!SeqNext(seq) = "1" THEN Fb!F(1) ELSE seq.out]
    BY <1>1, <1>2, <1>3, <1>5, <2>1, <2>2, NotInLoop
  <2> QED
    BY <1>1, <2>1, <2>2, <2>3 DEF SeqInv
<1>6. ASSUME NEW i \in Nat, i <= 91 PROVE Fb!Wrapped(Fb!Plus(Fb!F(i), Fb!F(i + 1))) = Fb!F(i + 2)
  <2>1. IsWord(Fb!F(i + 2)) /\ Fb!F(i + 2)[5] = 0
    BY <1>6, i + 2 \in Nat, FibWords, FibLimits
  <2> QED
    BY <2>1, FibWords, WrappedIsExact
<1>7. CASE seq.at = "1"
  <2>1. Fb!Wrapped(Fb!Plus(Fb!F(0), Fb!F(0 + 1))) = Fb!F(0 + 2)
    BY <1>6
  <2>2. /\ calls = 2 /\ fibN \in Nat /\ fibN >= 2 /\ fibN <= 94
        /\ seq.a = Fb!F(0) /\ seq.b = Fb!F(1) /\ seq.i = 2
    BY <1>1, <1>7 DEF FibTypes, SeqInv
  <2>3. Fb!SeqNext(seq) = IF fibN = 2 THEN "done" ELSE "loop"
    BY <1>7 DEF Fb!SeqNext
  <2>4. seq' = [at |-> Fb!SeqNext(seq), a |-> Fb!F(0), b |-> Fb!F(1), i |-> 2,
                out |-> IF Fb!SeqNext(seq) = "loop" THEN Fb!F(2) ELSE seq.out]
    <3>1. Fb!Wrapped(Fb!Plus(seq.a, seq.b)) = Fb!F(2)
      BY <2>1, <2>2
    <3> QED
      BY <1>1, <1>2, <1>7, <2>2, <2>3, <3>1, NotInLoop
  <2> QED
    BY <1>1, <2>2, <2>3, <2>4, 2 - 2 = 0, 2 - 1 = 1 DEF SeqInv
<1>8. CASE seq.at = "loop"
  <2>1. /\ seq.i \in Nat /\ seq.i >= 2 /\ seq.i < fibN /\ fibN <= 94 /\ calls = seq.i + 1
        /\ seq.b = Fb!F(seq.i - 1) /\ seq.out = Fb!F(seq.i)
    BY <1>1, <1>8 DEF SeqInv
  <2>2. CASE seq.i + 1 < fibN
    <3>1. Fb!Wrapped(Fb!Plus(Fb!F(seq.i - 1), Fb!F((seq.i - 1) + 1))) = Fb!F((seq.i - 1) + 2)
      BY <1>1, <1>6, <2>1, <2>2 DEF FibTypes
    <3>2. (seq.i - 1) + 1 = seq.i /\ (seq.i - 1) + 2 = seq.i + 1
      BY <2>1
    <3>3. seq' = [at |-> "loop", a |-> seq.b, b |-> seq.out, i |-> seq.i + 1,
                  out |-> Fb!Wrapped(Fb!Plus(seq.b, seq.out))]
      BY <1>1, <1>2, <1>8, <2>2 DEF Fb!fibonacci_sequence, Fb!SeqNext
    <3> QED
      BY <1>1, <2>1, <2>2, <3>1, <3>2, <3>3 DEF FibTypes, SeqInv
  <2>3. CASE ~(seq.i + 1 < fibN)
    <3>1. seq' = [at |-> "done", a |-> seq.b, b |-> seq.out, i |-> seq.i + 1, out |-> seq.out]
      BY <1>1, <1>2, <1>8, <2>3 DEF Fb!fibonacci_sequence, Fb!SeqNext
    <3> QED
      BY <1>1, <2>1, <2>3, <3>1 DEF FibTypes, SeqInv
  <2> QED
    BY <2>2, <2>3
<1>9. CASE seq.at \in {"done", "throws"}
  <2>1. seq' = seq
    <3>1. Fb!SeqNext(seq) = seq.at
      BY <1>9 DEF Fb!SeqNext
    <3> QED
      BY <1>1, <1>2, <1>9, <3>1, NotInLoop
  <2>2. /\ calls \in Nat /\ fibN \in Nat /\ calls # 0 /\ (seq.at = "done" => calls > fibN /\ fibN <= 94)
        /\ (seq.at = "throws" => fibN > 94)
    BY <1>1, <1>9 DEF FibTypes, SeqInv
  <2> QED
    BY <1>1, <1>2, <1>9, <2>1, <2>2 DEF SeqInv
<1> QED
  BY <1>1, <1>4, <1>5, <1>7, <1>8, <1>9 DEF SeqInv

(* Fib() resumed *)
LEMMA FibKeeps ==
  ASSUME FibTypes, FibInt, fib' = Fb!Fib(fib), calls' = calls + 1, fibN' = fibN
  PROVE  FibInt'
<1>1. fib = [at |-> fib.at, a |-> fib.a, b |-> fib.b, i |-> fib.i, out |-> fib.out]
  BY DEF FibInt
<1>2. V(0) = 0 /\ V(1) = 1 /\ \A k \in Nat : V(k) \in Nat /\ V(k + 2) = V(k) + V(k + 1)
  BY FibValues
<1>3. CASE fib.at \in {"start", "a", "done"}
  <2>1. CASE fib.at = "start"
    <3>1. fib.a = 0 /\ fib.b = 1 /\ fib.i = 2 /\ calls = 0 /\ fibN \in Nat
      BY <2>1 DEF FibTypes, FibInt
    <3>2. fib' = IF fibN \in {0, 1} THEN [at |-> "done", a |-> 0, b |-> 1, i |-> 2, out |-> fib.out]
                                    ELSE [at |-> "a", a |-> 0, b |-> 1, i |-> 2, out |-> 0]
      BY <1>1, <2>1, <3>1, NotInLoop
    <3> QED
      BY <3>1, <3>2 DEF FibInt
  <2>2. CASE fib.at = "a"
    <3>1. fib.a = 0 /\ fib.b = 1 /\ fib.i = 2 /\ calls = 1 /\ fibN \in Nat /\ fibN >= 2
      BY <2>2 DEF FibTypes, FibInt
    <3>2. fib' = [at |-> "b", a |-> 0, b |-> 1, i |-> 2, out |-> 1]
      BY <1>1, <2>2, <3>1, NotInLoop
    <3> QED
      BY <3>1, <3>2 DEF FibInt
  <2>3. CASE fib.at = "done"
    <3>1. calls \in Nat /\ calls # 0 /\ fibN \in Nat /\ (fibN \in {0, 1} \/ calls > fibN + 1)
      BY <2>3 DEF FibTypes, FibInt
    <3>2. fib' = fib
      BY <1>1, <2>3, NotInLoop
    <3> QED
      BY <1>1, <2>3, <3>1, <3>2 DEF FibInt
  <2> QED
    BY <1>3, <2>1, <2>2, <2>3
<1>4. CASE fib.at = "b"
  <2>1. V(2) = 1
    BY <1>2, 0 + 2 = 2, 0 + 1 = 1
  <2>2. fib.a = 0 /\ fib.b = 1 /\ fib.i = 2 /\ calls = 2 /\ fibN \in Nat /\ fibN >= 2
    BY <1>4 DEF FibTypes, FibInt
  <2>3. fib' = [at |-> "loop", a |-> 0, b |-> 1, i |-> 2, out |-> 1]
    BY <1>1, <1>4, <2>2, NotInLoop
  <2>4. V(2 - 2) = 0 /\ V(2 - 1) = 1
    BY <1>2, 2 - 2 = 0, 2 - 1 = 1
  <2> QED
    BY <2>1, <2>2, <2>3, <2>4 DEF FibInt
<1>5. CASE fib.at = "loop"
  <2>1. /\ fib.i \in Nat /\ fib.i >= 2 /\ fib.i <= fibN /\ calls = fib.i + 1
        /\ fib.a = V(fib.i - 2) /\ fib.b = V(fib.i - 1) /\ fib.out = V(fib.i)
    BY <1>5 DEF FibInt
  <2>2. V(fib.i) = fib.a + fib.b /\ V(fib.i + 1) = V(fib.i - 1) + V(fib.i)
    <3>1. fib.i - 2 \in Nat /\ (fib.i - 2) + 1 = fib.i - 1 /\ (fib.i - 2) + 2 = fib.i
      BY <2>1
    <3>2. fib.i - 1 \in Nat /\ (fib.i - 1) + 1 = fib.i /\ (fib.i - 1) + 2 = fib.i + 1
      BY <2>1
    <3> QED
      BY <1>2, <2>1, <3>1, <3>2, ZenonT(40)
  <2>3. fib' = [at |-> IF fib.i + 1 <= fibN THEN "loop" ELSE "done",
                a |-> fib.b, b |-> fib.a + fib.b, i |-> fib.i + 1,
                out |-> IF fib.i + 1 <= fibN THEN fib.b + (fib.a + fib.b) ELSE fib.out]
    BY <1>1, <1>5 DEF Fb!Fib
  <2>4. /\ (fib.i + 1) - 2 = fib.i - 1 /\ (fib.i + 1) - 1 = fib.i
    BY <2>1
  <2> QED
    BY <2>1, <2>2, <2>3, <2>4 DEF FibTypes, FibInt
<1> QED
  BY <1>3, <1>4, <1>5 DEF FibInt

(* Fib::resume() in each of its states. *)
LEMMA SimSteps ==
  ASSUME NEW s, NEW p, NEW a, NEW b, NEW c, NEW x,
         s = [state |-> p, a |-> a, b |-> b, c |-> c, out |-> x]
  PROVE  /\ p = 0 => Fb!SimResume(s) = [state |-> 1, a |-> 1, b |-> 1, c |-> c, out |-> 1]
         /\ p = 1 => Fb!SimResume(s) = [state |-> 2, a |-> a, b |-> b, c |-> c, out |-> b]
         /\ p = 2 => Fb!SimResume(s) = [state |-> 3, a |-> a, b |-> b, c |-> a + b, out |-> a + b]
         /\ p = 3 => Fb!SimResume(s) = [state |-> 3, a |-> b, b |-> c, c |-> b + c, out |-> b + c]
<1>1. s.state = p /\ s.a = a /\ s.b = b /\ s.c = c /\ s.out = x
  OBVIOUS
<1>2. CASE p = 0
  <2>1. [s EXCEPT !.state = 1]
          = [state |-> 1, a |-> a, b |-> b, c |-> c, out |-> x]
    BY <1>2
  <2>2. [[state |-> 1, a |-> a, b |-> b, c |-> c, out |-> x] EXCEPT !.a = 1]
          = [state |-> 1, a |-> 1, b |-> b, c |-> c, out |-> x]
    OBVIOUS
  <2>3. [[state |-> 1, a |-> 1, b |-> b, c |-> c, out |-> x] EXCEPT !.b = 1]
          = [state |-> 1, a |-> 1, b |-> 1, c |-> c, out |-> x]
    OBVIOUS
  <2>4. [[state |-> 1, a |-> 1, b |-> 1, c |-> c, out |-> x] EXCEPT !.out = 1]
          = [state |-> 1, a |-> 1, b |-> 1, c |-> c, out |-> 1]
    OBVIOUS
  <2>5. [s EXCEPT !.state = 1, !.a = 1, !.b = 1, !.out = 1]
          = [state |-> 1, a |-> 1, b |-> 1, c |-> c, out |-> 1]
    BY <2>1, <2>2, <2>3, <2>4
  <2> QED
    BY <1>1, <1>2, <2>5 DEF Fb!SimResume
<1>3. CASE p = 1
  <2>1. [s EXCEPT !.state = 2]
          = [state |-> 2, a |-> a, b |-> b, c |-> c, out |-> x]
    BY <1>3
  <2>2. [[state |-> 2, a |-> a, b |-> b, c |-> c, out |-> x] EXCEPT !.out = b]
          = [state |-> 2, a |-> a, b |-> b, c |-> c, out |-> b]
    OBVIOUS
  <2>3. [s EXCEPT !.state = 2, !.out = b]
          = [state |-> 2, a |-> a, b |-> b, c |-> c, out |-> b]
    BY <2>1, <2>2
  <2> QED
    BY <1>1, <1>3, <2>3 DEF Fb!SimResume
<1>4. CASE p = 2
  <2>1. [s EXCEPT !.state = 3]
          = [state |-> 3, a |-> a, b |-> b, c |-> c, out |-> x]
    BY <1>4
  <2>2. [[state |-> 3, a |-> a, b |-> b, c |-> c, out |-> x] EXCEPT !.c = a + b]
          = [state |-> 3, a |-> a, b |-> b, c |-> a + b, out |-> x]
    OBVIOUS
  <2>3. [[state |-> 3, a |-> a, b |-> b, c |-> a + b, out |-> x] EXCEPT !.out = a + b]
          = [state |-> 3, a |-> a, b |-> b, c |-> a + b, out |-> a + b]
    OBVIOUS
  <2>4. [s EXCEPT !.state = 3, !.c = a + b, !.out = a + b]
          = [state |-> 3, a |-> a, b |-> b, c |-> a + b, out |-> a + b]
    BY <2>1, <2>2, <2>3
  <2> QED
    BY <1>1, <1>4, <2>4 DEF Fb!SimResume
<1>5. CASE p = 3
  <2>1. [s EXCEPT !.a = b]
          = [state |-> 3, a |-> b, b |-> b, c |-> c, out |-> x]
    BY <1>5
  <2>2. [[state |-> 3, a |-> b, b |-> b, c |-> c, out |-> x] EXCEPT !.b = c]
          = [state |-> 3, a |-> b, b |-> c, c |-> c, out |-> x]
    OBVIOUS
  <2>3. [[state |-> 3, a |-> b, b |-> c, c |-> c, out |-> x] EXCEPT !.c = b + c]
          = [state |-> 3, a |-> b, b |-> c, c |-> b + c, out |-> x]
    OBVIOUS
  <2>4. [[state |-> 3, a |-> b, b |-> c, c |-> b + c, out |-> x] EXCEPT !.out = b + c]
          = [state |-> 3, a |-> b, b |-> c, c |-> b + c, out |-> b + c]
    OBVIOUS
  <2>5. [s EXCEPT !.a = b, !.b = c, !.c = b + c, !.out = b + c]
          = [state |-> 3, a |-> b, b |-> c, c |-> b + c, out |-> b + c]
    BY <2>1, <2>2, <2>3, <2>4
  <2> QED
    BY <1>1, <1>5, <2>5 DEF Fb!SimResume
<1> QED
  BY <1>2, <1>3, <1>4, <1>5

(* Fib::resume() *)
LEMMA SimKeeps ==
  ASSUME FibTypes, SimInt, sim' = Fb!SimResume(sim), calls' = calls + 1
  PROVE  SimInt'
<1>1. sim = [state |-> sim.state, a |-> sim.a, b |-> sim.b, c |-> sim.c, out |-> sim.out]
  BY DEF SimInt
<1>2. V(0) = 0 /\ V(1) = 1 /\ \A k \in Nat : V(k) \in Nat /\ V(k + 2) = V(k) + V(k + 1)
  BY FibValues
<1>3. V(2) = 1 /\ V(3) = 2
  BY <1>2, 0 + 2 = 2, 0 + 1 = 1, 1 + 2 = 3, 1 + 1 = 2
<1>4. CASE calls \in {0, 1}
  <2>1. CASE calls = 0
    <3>1. sim' = [state |-> 1, a |-> 1, b |-> 1, c |-> sim.c, out |-> 1]
      BY <1>1, <2>1, SimSteps DEF SimInt
    <3> QED
      BY <2>1, <3>1 DEF SimInt
  <2>2. CASE calls = 1
    <3>1. sim.a = 1 /\ sim.b = 1 /\ sim.state = 1
      BY <2>2 DEF SimInt
    <3>2. sim' = [state |-> 2, a |-> 1, b |-> 1, c |-> sim.c, out |-> 1]
      BY <1>1, <3>1, SimSteps
    <3> QED
      BY <2>2, <3>2 DEF SimInt
  <2> QED
    BY <1>4, <2>1, <2>2
<1>5. CASE calls = 2
  <2>1. sim.a = 1 /\ sim.b = 1 /\ sim.state = 2
    BY <1>5 DEF SimInt
  <2>2. sim' = [state |-> 3, a |-> 1, b |-> 1, c |-> 2, out |-> 2]
    BY <1>1, <2>1, 1 + 1 = 2, SimSteps
  <2> QED
    BY <1>2, <1>3, <1>5, <2>2, 3 - 2 = 1, 3 - 1 = 2 DEF SimInt
<1>6. CASE calls >= 3
  <2>1. V(calls + 1) = V(calls - 1) + V(calls)
    <3>1. calls - 1 \in Nat /\ (calls - 1) + 1 = calls /\ (calls - 1) + 2 = calls + 1
      BY <1>6 DEF FibTypes
    <3> QED
      BY <1>2, <3>1
  <2>2. (calls + 1) - 2 = calls - 1 /\ (calls + 1) - 1 = calls
    BY DEF FibTypes
  <2>3. sim.state = 3
    BY <1>6 DEF FibTypes, SimInt
  <2>4. sim' = [state |-> 3, a |-> sim.b, b |-> sim.c, c |-> sim.b + sim.c, out |-> sim.b + sim.c]
    BY <1>1, <2>3, SimSteps
  <2> QED
    BY <1>6, <2>1, <2>2, <2>4 DEF FibTypes, SimInt
<1> QED
  BY <1>4, <1>5, <1>6 DEF FibTypes

(* fib_frame::resume() *)
LEMMA FrameKeeps ==
  ASSUME FibTypes, FrameInt, frm' = Fb!FrameResume(frm), calls' = calls + 1
  PROVE  FrameInt'
<1>1. V((calls + 1) + 2) = V(calls + 1) + V((calls + 1) + 1) /\ (calls + 1) + 1 = calls + 2
  BY calls + 1 \in Nat, FibValues DEF FibTypes
<1>2. V(calls + 1) \in Nat /\ V(calls + 2) \in Nat
  BY calls + 1 \in Nat, calls + 2 \in Nat, FibValues DEF FibTypes
<1> QED
  BY <1>1, <1>2 DEF FibTypes, FrameInt, Fb!FrameResume

(* Every step of Fibonacci keeps the invariant. *)
LEMMA FibNext == FibInv /\ [Fb!Next]_(Fb!vars) => FibInv'
<1> SUFFICES ASSUME FibInv, [Fb!Next]_(Fb!vars) PROVE FibInv'
  OBVIOUS
<1>1. CASE UNCHANGED Fb!vars
  BY <1>1 DEF Fb!vars, FibInv, FibTypes, SeqInv, FibInt, SimInt, FrameInt
<1>2. CASE Fb!resume
  <2>1. FibTypes /\ FibTypes' /\ fibN' = fibN /\ calls' = calls + 1
    BY <1>2 DEF FibInv, FibTypes, Fb!resume
  <2>2. ASSUME calls' <= Resumptions PROVE FibInt' /\ SimInt' /\ FrameInt'
    <3>1. calls < Resumptions /\ calls <= Resumptions
      BY <2>1, <2>2, SequentialAssumption DEF FibTypes, Fb!FibonacciAssumption
    <3>2. /\ FibInt /\ SimInt /\ FrameInt
          /\ fib' = Fb!Fib(fib) /\ sim' = Fb!SimResume(sim) /\ frm' = Fb!FrameResume(frm)
      BY <1>2, <3>1 DEF FibInv, Fb!resume
    <3> QED
      BY <2>1, <3>2, FibKeeps, SimKeeps, FrameKeeps
  <2> QED
    BY <1>2, <2>1, <2>2, SeqKeeps DEF FibInv
<1> QED
  BY <1>1, <1>2 DEF Fb!Next

(* The invariant of Fibonacci implies its safety. *)
LEMMA FibInvIsSafe == FibInv => Fb!Safety
<1> SUFFICES ASSUME FibInv PROVE Fb!Safety
  OBVIOUS
<1>1. FibTypes /\ SeqInv /\ (calls <= Resumptions => FibInt /\ SimInt /\ FrameInt)
  BY DEF FibInv
<1>2. Fb!YieldsTheSequence
  <2>1. CASE seq.at \in {"0", "1"}
    BY <1>1, <2>1 DEF FibTypes, SeqInv, Fb!YieldsTheSequence
  <2>2. CASE seq.at = "loop"
    <3>1. calls - 1 = seq.i /\ calls <= fibN /\ seq.out = Fb!F(seq.i)
      BY <1>1, <2>2 DEF FibTypes, SeqInv
    <3> QED
      BY <2>2, <3>1 DEF Fb!YieldsTheSequence
  <2> QED
    BY <1>1, <2>1, <2>2 DEF SeqInv, Fb!YieldsTheSequence
<1>3. Fb!RefusesWhatOverflows
  <2> SUFFICES ASSUME calls >= 1, fibN >= 1 PROVE seq.at = "throws" <=> Fb!F(fibN - 1)[5] # 0
    BY DEF Fb!RefusesWhatOverflows
  <2>1. fibN - 1 \in Nat /\ (fibN - 1 <= 93 <=> fibN <= 94)
    BY <1>1 DEF FibTypes
  <2>2. Fb!F(fibN - 1)[5] = 0 <=> fibN <= 94
    BY <2>1, FibLimits
  <2>3. seq.at = "throws" <=> ~(fibN <= 94)
    BY <1>1 DEF FibTypes, SeqInv
  <2> QED
    BY <2>2, <2>3
<1>4. Fb!FramesAgree
  <2> SUFFICES ASSUME calls \in 1..Resumptions
               PROVE  /\ fib.at \notin {"start", "done"} => fib.out = Fb!Low(Fb!F(calls - 1)) /\ calls <= fibN + 1
                      /\ fib.at = "done" => fibN \in {0, 1} \/ calls > fibN + 1
                      /\ sim.out = Fb!Low(Fb!F(calls))
                      /\ frm.out = Fb!Low(Fb!F(calls + 1))
    BY DEF Fb!FramesAgree
  <2>1. /\ FibInt /\ SimInt /\ FrameInt
        /\ calls \in Nat /\ calls >= 1 /\ calls <= 44 /\ fibN \in Nat
    BY <1>1, SequentialAssumption DEF FibTypes, Fb!FibonacciAssumption
  <2>2. /\ Fb!Low(Fb!F(calls - 1)) = V(calls - 1) /\ Fb!Low(Fb!F(calls)) = V(calls)
        /\ Fb!Low(Fb!F(calls + 1)) = V(calls + 1)
    <3>1. calls - 1 \in Nat /\ calls + 1 \in Nat /\ calls - 1 <= 46 /\ calls <= 46 /\ calls + 1 <= 46
      BY <2>1
    <3> QED
      BY <2>1, <3>1, FibLimits
  <2>3. V(0) = 0 /\ V(1) = 1 /\ V(2) = 1
    BY FibValues, 0 \in Nat, 0 + 2 = 2, 0 + 1 = 1
  <2>4. fib.at \notin {"start", "done"} => fib.out = V(calls - 1) /\ calls <= fibN + 1
    <3>1. CASE fib.at \in {"a", "b"}
      BY <2>1, <2>3, <3>1 DEF FibInt
    <3>2. CASE fib.at = "loop"
      <4>1. calls - 1 = fib.i
        BY <2>1, <3>2 DEF FibInt
      <4> QED
        BY <2>1, <3>2, <4>1 DEF FibInt
    <3> QED
      BY <2>1, <3>1, <3>2 DEF FibInt
  <2>5. fib.at = "done" => fibN \in {0, 1} \/ calls > fibN + 1
    BY <2>1 DEF FibInt
  <2>6. sim.out = V(calls)
    BY <2>1, <2>3 DEF SimInt
  <2>7. frm.out = V(calls + 1)
    BY <2>1 DEF FrameInt
  <2> QED
    BY <2>2, <2>4, <2>5, <2>6, <2>7
<1> QED
  BY <1>2, <1>3, <1>4 DEF Fb!Safety
-----------------------------------------------------------------------------
(* What Sequential does is what each of its components does. *)
LEMMA Parts == SequentialSpec => Spec /\ G!Spec /\ L!Spec /\ B!Spec /\ Fb!Spec /\ T!Spec
<1>1. SequentialInit => Init /\ G!Init /\ L!Init /\ B!Init /\ Fb!Init /\ T!Init
  BY DEF SequentialInit
<1>2. ASSUME [SequentialNext]_<<which, partVars>>
      PROVE  /\ [Next]_vars /\ [G!Next]_(G!vars) /\ [L!Next]_(L!vars) /\ [B!Next]_(B!vars)
             /\ [Fb!Next]_(Fb!vars) /\ [T!Next]_(T!vars)
  <2>1. /\ (UNCHANGED anyVars => UNCHANGED vars) /\ (UNCHANGED genVars => UNCHANGED G!vars)
        /\ (UNCHANGED lazyVars => UNCHANGED L!vars) /\ (UNCHANGED searchVars => UNCHANGED B!vars)
        /\ (UNCHANGED fibVars => UNCHANGED Fb!vars) /\ (UNCHANGED taskVars => UNCHANGED T!vars)
    BY DEF anyVars, vars, genVars, G!vars, G!history, lazyVars, L!vars, searchVars, B!vars,
           fibVars, Fb!vars, taskVars, T!vars
  <2>2. CASE UNCHANGED <<which, partVars>>
    BY <2>1, <2>2 DEF partVars
  <2>3. CASE Next /\ UNCHANGED <<genVars, lazyVars, searchVars, fibVars, taskVars>>
    BY <2>1, <2>3
  <2>4. CASE G!Next /\ UNCHANGED <<anyVars, lazyVars, searchVars, fibVars, taskVars>>
    BY <2>1, <2>4
  <2>5. CASE L!Next /\ UNCHANGED <<anyVars, genVars, searchVars, fibVars, taskVars>>
    BY <2>1, <2>5
  <2>6. CASE B!Next /\ UNCHANGED <<anyVars, genVars, lazyVars, fibVars, taskVars>>
    BY <2>1, <2>6
  <2>7. CASE T!Next /\ UNCHANGED <<anyVars, genVars, lazyVars, searchVars, fibVars>>
    BY <2>1, <2>7
  <2>8. CASE Fb!Next /\ UNCHANGED <<anyVars, genVars, lazyVars, searchVars, taskVars>>
    BY <2>1, <2>8
  <2> QED
    BY <1>2, <2>2, <2>3, <2>4, <2>5, <2>6, <2>7, <2>8 DEF SequentialNext
<1> QED
  BY <1>1, <1>2, PTL DEF SequentialSpec, Spec, G!Spec, L!Spec, B!Spec, Fb!Spec, T!Spec

(* Their invariants hold for ever. *)
LEMMA SearchInvariant == B!Spec => []SearchInv
<1> QED
  BY SearchInit, SearchNext, PTL DEF B!Spec

(* The invariant of LazyAwait holds throughout. *)
LEMMA LazyInvariant == L!Spec => []LazyInv
<1>1. LazyInv /\ [L!Next]_(L!vars) => LazyInv'
  BY LazyNext DEF lazyVars, L!vars
<1> QED
  BY <1>1, LazyInit, PTL DEF L!Spec

(* The invariant of Generators holds throughout. *)
LEMMA GenInvariant == G!Spec => []GenInv
<1>1. GenInv /\ [G!Next]_(G!vars) => GenInv'
  BY GenNext DEF genVars, G!vars, G!history
<1> QED
  BY <1>1, GenInit, PTL DEF G!Spec

(* The invariant of Fibonacci holds throughout. *)
LEMMA FibInvariant == Fb!Spec => []FibInv
<1> QED
  BY FibInit, FibNext, PTL DEF Fb!Spec

(* The invariant of SimpleTask holds throughout. *)
LEMMA TaskInvariant == T!Spec => []TaskInv
<1> QED
  BY TaskInit, TaskNext, PTL DEF T!Spec

(* The variables of AnyStorage, Generators and LazyAwait keep their types: no coroutine is   *)
(* resumed beyond its end, and no call but those of the nested resumptions is on the stack.  *)
THEOREM TypesCorrect == SequentialSpec => []TypesOK
<1>1. IInv => TypeOK
  BY DEF IInv
<1>2. GenInv => G!TypeOK
  BY GenInvIsSafe
<1>3. LazyInv => L!TypeOK
  BY LazyInvIsSafe
<1> QED
  BY <1>1, <1>2, <1>3, Parts, Invariant, GenInvariant, LazyInvariant, PTL DEF TypesOK

(* However a program moves, copies and asks the four generators, a misuse is its own, the    *)
(* values are read each once and in order, and the frame goes with its last owner.           *)
THEOREM GeneratorSafetyHolds == SequentialSpec => []GeneratorSafety
<1>1. GenInv => GeneratorSafety
  BY GenInvIsSafe
<1> QED
  BY <1>1, Parts, GenInvariant, PTL

(* However deep the resumptions of coroutine_e1.cpp nest, a coroutine is resumed only when   *)
(* suspended and read only when done, and main finds a reply complete.                        *)
THEOREM LazySafetyHolds == SequentialSpec => []LazySafety
<1>1. LazyInv => LazySafety
  BY LazyInvIsSafe
<1> QED
  BY <1>1, Parts, LazyInvariant, PTL

(* Each of the four binary searches finds the key if and only if it is in the list, and the  *)
(* middle that an iteration of prefetch2 reads has been prefetched by the one before.         *)
THEOREM SearchSafetyHolds == SequentialSpec => []SearchSafety
<1>1. SearchInv => SearchSafety
  BY SearchInvIsSafe DEF SearchSafety
<1> QED
  BY <1>1, Parts, SearchInvariant, PTL

(* However often the two Fibonacci coroutines and the two hand-written frames are resumed:   *)
(* all yield the Fibonacci numbers, for any lengths, and 94 is the most fibonacci_sequence()  *)
(* can yield in 64 bits.                                                                   *)
THEOREM FibonacciSafetyHolds == SequentialSpec => []FibonacciSafety
<1>1. FibInv => FibonacciSafety
  BY FibInvIsSafe DEF FibonacciSafety
<1> QED
  BY <1>1, Parts, FibInvariant, PTL

(* However the tasks of 4task call, await and throw in one thread: no coroutine asks for a   *)
(* lock that its own thread holds, one exception decides how the program ends, and main()    *)
(* leaves no frame behind.                                                               *)
THEOREM TaskSafetyHolds == SequentialSpec => []TaskSafety
<1>1. TaskInv => TaskSafety
  BY TaskInvIsSafe DEF TaskSafety
<1> QED
  BY <1>1, Parts, TaskInvariant, PTL

(* An any forgets an object, and a sync a finished coroutine, only where a move or an         *)
(* assignment replaces it.                                                                  *)
THEOREM NothingElseLostHolds == SequentialSpec => NothingElseLost
<1>1. LazyInv /\ [L!Next]_(L!vars) =>
        [\A r \in 1..Replies : L!Held(r) /\ ~L!Held(r)' =>
           \E v \in Syncs : sync[v] = r /\ sync'[v] \notin {r, NoObject}]_(L!vars)
  BY LazyNext DEF lazyVars, L!vars, Overwritten
<1>2. L!Spec => L!LostOnlyByAssignment
  BY <1>1, LazyInvariant, PTL DEF L!Spec, L!LostOnlyByAssignment
<1> QED
  BY <1>2, Parts, LostOnlyByMoveHolds, PTL DEF NothingElseLost
=============================================================================
