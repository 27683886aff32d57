----------------------------- MODULE ValueHolder -----------------------------
(* What the three classes of meta/any.h promise: variables that each hold one   *)
(* value or nothing.  A copy is independent of its source, a move empties it,    *)
(* and a cast gives the value held.                                              *)
CONSTANTS Vars, Values, TypeOf, Dead, Empty, Failed

VARIABLES holds,   \* what each variable holds: Dead outside its lifetime
          cast     \* the last result of any_cast, or Failed

vars == <<holds, cast>>

Init == holds = [v \in Vars |-> Dead] /\ cast = Failed

Set(v, x) == holds' = [holds EXCEPT ![v] = x] /\ UNCHANGED cast

Copy(v, w) == holds[w] # Dead /\ Set(v, holds[w])

Move(v, w) == /\ holds[w] # Dead
              /\ holds' = [holds EXCEPT ![v] = holds[w], ![w] = Empty]
              /\ UNCHANGED cast

Cast(v, t) == /\ holds[v] \in Values
              /\ cast' = IF TypeOf[holds[v]] = t THEN holds[v] ELSE Failed
              /\ UNCHANGED holds

(* a write through a reference to the value *)
Write(v, x) == /\ holds[v] \in Values
               /\ TypeOf[holds[v]] = TypeOf[x]
               /\ Set(v, x)

Next == \E v \in Vars :
          \/ holds[v] = Dead /\ \E x \in Values \cup {Empty} : Set(v, x)
          \/ holds[v] # Dead /\ Set(v, Dead)
          \/ \E x \in Values : Write(v, x) \/ Cast(v, TypeOf[x])
          \/ \E w \in Vars \ {v} : Copy(v, w) \/ Move(v, w)

Spec == Init /\ [][Next]_vars
=============================================================================
