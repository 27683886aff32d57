----------------------------- MODULE Completion -----------------------------
(* What a one-shot completion promises: the outcome is set once, a callback is *)
(* called once and only after that, and a reader gets the outcome.              *)
CONSTANTS Callbacks,   \* what can be registered, each once
          Readers,     \* who may ask for the outcome
          Outcomes,    \* how the work can end
          Unset        \* "no outcome yet"

VARIABLES outcome,   \* Unset, then an outcome
          waiting,   \* callbacks registered and not called
          called,    \* callbacks called
          got        \* what each reader got last, or Unset

vars == <<outcome, waiting, called, got>>

Init == /\ outcome = Unset
        /\ waiting = {}
        /\ called = {}
        /\ got = [c \in Readers |-> Unset]

Register(f) == /\ f \notin waiting \cup called
               /\ waiting' = waiting \cup {f}
               /\ UNCHANGED <<outcome, called, got>>

Complete(r) == /\ outcome = Unset
               /\ outcome' = r
               /\ UNCHANGED <<waiting, called, got>>

Call(f) == /\ outcome # Unset
           /\ f \in waiting
           /\ waiting' = waiting \ {f}
           /\ called' = called \cup {f}
           /\ UNCHANGED <<outcome, got>>

Read(c) == /\ outcome # Unset
           /\ got' = [got EXCEPT ![c] = outcome]
           /\ UNCHANGED <<outcome, waiting, called>>

Next == \/ \E f \in Callbacks : Register(f) \/ Call(f)
        \/ \E r \in Outcomes : Complete(r)
        \/ \E c \in Readers : Read(c)

Spec == Init /\ [][Next]_vars
=============================================================================
