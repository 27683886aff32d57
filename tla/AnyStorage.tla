----------------------------- MODULE AnyStorage ------------------------------
(* The type-erased values of meta/any.h.  any_vf and any_base own a heap object  *)
(* through a pointer; any keeps a trivially copyable value in its bytes, a small *)
(* object in place and any other on the heap.  The objects a program makes live  *)
(* until their owner destroys them; nothing runs concurrently.                   *)
EXTENDS Naturals

CONSTANTS Classes,   \* which of "any_vf", "any_base" and "any" a program uses
          Vars,      \* its variables of that class
          Objs,      \* memory for objects: bounds those not destroyed
          Values,    \* what it stores
          TypeOf,    \* TypeOf[x]: the type of the value x
          Traits,    \* Traits[t]: what decides where an object of type t is kept
          None

ASSUME AnyAssumption ==
  /\ Classes \subseteq {"any_vf", "any_base", "any"}
  /\ None \notin Objs \cup Values
  /\ Values \cap {"dead", "empty"} = {}
  /\ \A x \in Values : Traits[TypeOf[x]] \in
       [aligned : BOOLEAN, words : Nat, nothrow : BOOLEAN, trivial : BOOLEAN]

VARIABLES class,   \* the class of the variables
          slot,    \* storage: its tag, the object it owns, the bytes of a trivial value
          obj,     \* the objects: "moved" has been moved from and not destroyed
          cast,    \* the last result of any_cast, or None for bad_any_cast
          undef    \* "null": a null pointer used, "lifetime": an object that is not live

vars == <<class, slot, obj, cast, undef>>

(* A variable owns an object, has the bytes of a value, or neither. *)
Contents == [tag : {"dead", "empty"}, obj : {None}, val : {None}]
            \cup [tag : {"trivial"}, obj : {None}, val : Values]
            \cup [tag : {"small", "heap"}, obj : Objs, val : {None}]

Dead  == [tag |-> "dead", obj |-> None, val |-> None]
Empty == [tag |-> "empty", obj |-> None, val |-> None]
Free  == [st |-> "free", val |-> None]

TypeOK ==
  /\ class \in Classes
  /\ slot \in [Vars -> Contents]
  /\ obj \in [Objs -> [st : {"free", "live", "moved"}, val : Values \cup {None}]]
  /\ cast \in Values \cup {None}
  /\ undef \in {"no", "null", "lifetime"}

Init ==
  /\ class \in Classes
  /\ slot = [v \in Vars |-> Dead]
  /\ obj = [o \in Objs |-> Free]
  /\ cast = None
  /\ undef = "no"
-----------------------------------------------------------------------------
(* small_space_size and trivial_space_size in words *)
is_small(t) == Traits[t].aligned /\ Traits[t].words <= 2 /\ Traits[t].nothrow

is_trival(t) == Traits[t].aligned /\ Traits[t].words <= 3 /\ Traits[t].trivial

(* how the class keeps the value x *)
Category(x) == IF class # "any" THEN "heap"
               ELSE IF is_trival(TypeOf[x]) THEN "trivial"
               ELSE IF is_small(TypeOf[x]) THEN "small"
               ELSE "heap"

Owns(c) == c.tag \in {"small", "heap"}
Alive(v) == slot[v].tag # "dead"
Holding(v) == slot[v].tag \in {"trivial", "small", "heap"}
ValueOf(c) == IF c.tag = "trivial" THEN c.val ELSE obj[c.obj].val

Defined == undef = "no"
Gone(c) == Owns(c) /\ obj[c.obj].st # "live"   \* to use it is undefined

KeepBothMutant(x, o) ==    \* mutant: an object in the trivial storage too
  [tag |-> Category(x), obj |-> o, val |-> IF Category(x) = "trivial" THEN x ELSE None]

(* storage that keeps x, as the object o unless x is trivial *)
Keep(x, o) ==
  [tag |-> Category(x),
   obj |-> IF Category(x) = "trivial" THEN None ELSE o,
   val |-> IF Category(x) = "trivial" THEN x ELSE None]

(* The objects once x has been constructed at o and what c owns destroyed *)
Made(x, o, c) ==
  [p \in Objs |-> IF p = o /\ Category(x) # "trivial" THEN [st |-> "live", val |-> x]
                  ELSE IF Owns(c) /\ p = c.obj THEN Free ELSE obj[p]]

Unmade(c) == [p \in Objs |-> IF Owns(c) /\ p = c.obj THEN Free ELSE obj[p]]

Unused == {o \in Objs : obj[o].st = "free"}

Undefined(kind) == undef' = kind /\ UNCHANGED <<class, slot, obj, cast>>
-----------------------------------------------------------------------------
Default(v) ==
  /\ ~Alive(v)
  /\ slot' = [slot EXCEPT ![v] = Empty]
  /\ UNCHANGED <<class, obj, cast, undef>>

Construct(v, x) ==
  /\ ~Alive(v)
  /\ \E o \in Unused :
       /\ slot' = [slot EXCEPT ![v] = Keep(x, o)]
       /\ obj' = Made(x, o, Dead)
  /\ UNCHANGED <<class, cast, undef>>

(* v becomes a copy of w; what c owns is destroyed after that *)
CopyTo(v, w, c) ==
  \/ Gone(slot[w]) /\ Undefined("lifetime")
  \/ /\ Holding(w) /\ ~Gone(slot[w])
     /\ \E o \in Unused :
          /\ slot' = [slot EXCEPT ![v] = Keep(ValueOf(slot[w]), o)]
          /\ obj' = Made(ValueOf(slot[w]), o, c)
     /\ UNCHANGED <<class, cast, undef>>

(* any_vf and any_base clone through a pointer that is null when w is empty *)
CopyEmptyTo(v, w, c) ==
  /\ slot[w] = Empty
  /\ IF class = "any"
     THEN /\ slot' = [slot EXCEPT ![v] = Empty]
          /\ obj' = Unmade(c)
          /\ UNCHANGED <<class, cast, undef>>
     ELSE Undefined("null")

CopyConstruct(v, w) ==
  /\ ~Alive(v)
  /\ CopyTo(v, w, Dead) \/ CopyEmptyTo(v, w, Dead)

MoveConstructKeepMutant(v, w) ==   \* mutant: no other.clear()
  /\ ~Alive(v) /\ Alive(w)
  /\ slot' = [slot EXCEPT ![v] = slot[w]]
  /\ UNCHANGED <<class, obj, cast, undef>>

(* A small object is moved into a new one and stays behind, never destroyed *)
MoveConstruct(v, w) ==
  /\ ~Alive(v) /\ Alive(w)
  /\ \/ /\ slot[w].tag # "small"
        /\ slot' = [slot EXCEPT ![v] = slot[w], ![w] = Empty]
        /\ UNCHANGED obj
     \/ /\ slot[w].tag = "small"
        /\ \E o \in Unused :
             /\ slot' = [slot EXCEPT ![v] = [slot[w] EXCEPT !.obj = o], ![w] = Empty]
             /\ obj' = [obj EXCEPT ![o] = obj[slot[w].obj], ![slot[w].obj].st = "moved"]
  /\ UNCHANGED <<class, cast, undef>>

CopyAssignLeakMutant(v, w) ==      \* mutant: tmp is swapped out and not destroyed
  /\ v # w /\ Alive(v)
  /\ CopyTo(v, w, Dead) \/ CopyEmptyTo(v, w, Dead)

CopyAssignShareMutant(v, w) ==     \* mutant: the storage is copied, nothing cloned
  /\ v # w /\ Alive(v) /\ Alive(w)
  /\ slot' = [slot EXCEPT ![v] = slot[w]]
  /\ obj' = Unmade(slot[v])
  /\ UNCHANGED <<class, cast, undef>>

(* a copy in tmp, swapped with *this, whose destructor ends what v held before *)
CopyAssign(v, w) ==
  /\ v # w /\ Alive(v)
  /\ \/ Gone(slot[v]) /\ Undefined("lifetime")
     \/ ~Gone(slot[v]) /\ (CopyTo(v, w, slot[v]) \/ CopyEmptyTo(v, w, slot[v]))

MoveAssignSwapMutant(v, w) ==      \* mutant: no clear() after the swap
  /\ v # w /\ Alive(v) /\ Alive(w)
  /\ slot' = [slot EXCEPT ![v] = slot[w], ![w] = slot[v]]
  /\ UNCHANGED <<class, obj, cast, undef>>

(* swap and clear(): what v held before is forgotten, not destroyed.  A small     *)
(* object changes its address without its move constructor.                      *)
MoveAssign(v, w) ==
  /\ v # w /\ Alive(v) /\ Alive(w)
  /\ slot' = [slot EXCEPT ![v] = slot[w], ![w] = Empty]
  /\ UNCHANGED <<class, obj, cast, undef>>

Destruct(v) ==
  /\ Alive(v)
  /\ \/ Gone(slot[v]) /\ Undefined("lifetime")
     \/ /\ ~Gone(slot[v])
        /\ slot' = [slot EXCEPT ![v] = Dead]
        /\ obj' = Unmade(slot[v])
        /\ UNCHANGED <<class, cast, undef>>

(* any_cast<T>: the type_info of an empty operand is a null reference *)
any_cast(v, t) ==
  \/ slot[v] = Empty /\ Undefined("null")
  \/ Gone(slot[v]) /\ Undefined("lifetime")
  \/ /\ Holding(v) /\ ~Gone(slot[v])
     /\ cast' = IF TypeOf[ValueOf(slot[v])] = t THEN ValueOf(slot[v]) ELSE None
     /\ UNCHANGED <<class, slot, obj, undef>>

(* an assignment through the reference that any_cast of any_vf and any_base gives *)
Write(v, x) ==
  /\ class # "any" /\ Holding(v) /\ ~Gone(slot[v])
  /\ TypeOf[ValueOf(slot[v])] = TypeOf[x]
  /\ obj' = [obj EXCEPT ![slot[v].obj].val = x]
  /\ UNCHANGED <<class, slot, cast, undef>>
-----------------------------------------------------------------------------
Operation ==
  \E v \in Vars :
     \/ Default(v) \/ Destruct(v)
     \/ \E x \in Values : Construct(v, x) \/ Write(v, x)
     \/ \E t \in {TypeOf[x] : x \in Values} : any_cast(v, t)
     \/ \E w \in Vars : \/ CopyConstruct(v, w) \/ MoveConstruct(v, w)
                        \/ CopyAssign(v, w) \/ MoveAssign(v, w)

any_vf   == class = "any_vf" /\ Operation
any_base == class = "any_base" /\ Operation
any      == class = "any" /\ Operation

Next == Defined /\ (any_vf \/ any_base \/ any)

Spec == Init /\ [][Next]_vars
-----------------------------------------------------------------------------
(* Every object that storage owns is live and owned by one variable only, so that *)
(* no sequence of copies, moves, assignments and destructions destroys it twice.  *)
OwnedOnce ==
  /\ \A v \in Vars : Owns(slot[v]) => slot[v].obj \in Objs /\ obj[slot[v].obj].st = "live"
  /\ \A v, w \in Vars : Owns(slot[v]) /\ Owns(slot[w]) /\ slot[v].obj = slot[w].obj => v = w

(* Nothing but the null pointer of an empty variable makes an operation undefined: *)
(* no destructor, copy or cast meets an object destroyed or moved from before.     *)
NoDeadObjectUsed == undef # "lifetime"

(* an object that nothing will destroy *)
Lost(o) == obj[o].st # "free" /\ \A v \in Vars : Owns(slot[v]) => slot[v].obj # o

(* An object is forgotten without its destructor in one kind of step only: a move   *)
(* that empties another variable.  A copy, a copy assignment, a destructor, and the *)
(* temporary that operator= swaps with, destroy what they replace.                  *)
LostOnlyByMove ==
  [][\A o \in Objs : Lost(o)' /\ ~Lost(o) =>
       \E v, w \in Vars : /\ v # w /\ slot'[v] # slot[v]
                          /\ slot[w].tag # "dead" /\ slot'[w] = Empty]_vars

(* What a variable holds, whatever keeps it: ValueHolder *)
Held == [v \in Vars |-> IF Holding(v) THEN ValueOf(slot[v]) ELSE slot[v].tag]

Holder == INSTANCE ValueHolder WITH holds <- Held, Dead <- "dead", Empty <- "empty", Failed <- None

(* The storage implements ValueHolder: the kind of storage cannot be told from      *)
(* outside, copies are independent, a moved-from variable is empty, and any_cast     *)
(* gives the value last put in.                                                     *)
ImplementsValueHolder == Holder!Spec

(* No sequence of operations destroys an object twice or uses it after its end.          *)
Ownership == OwnedOnce /\ NoDeadObjectUsed
=============================================================================
