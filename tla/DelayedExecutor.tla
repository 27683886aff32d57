-------------------------- MODULE DelayedExecutor ---------------------------
(* What a delaying executor with one worker promises: an accepted item starts  *)
(* once, not before its time and not before an item that was due earlier.      *)
EXTENDS Integers

CONSTANTS Items,   \* records with a field "time"
          None     \* "no item"

VARIABLES items,     \* accepted, not started
          current,   \* the item being run, or None
          now,       \* the clock
          open,      \* shutdown() has not been called
          swept,     \* shutdown(false) has thrown the items away
          exited     \* the worker thread has returned

vars == <<items, current, now, open, swept, exited>>

Init == /\ items = {}
        /\ current = None
        /\ now = 0
        /\ open = TRUE
        /\ swept = FALSE
        /\ exited = FALSE

Accept(x) == /\ ~swept
             /\ x \notin items
             /\ x.time >= now
             /\ items' = items \cup {x}
             /\ UNCHANGED <<current, now, open, swept, exited>>

Start(x) == /\ ~exited
            /\ current = None
            /\ x \in items
            /\ x.time <= now
            /\ \A y \in items : x.time <= y.time
            /\ current' = x
            /\ items' = items \ {x}
            /\ UNCHANGED <<now, open, swept, exited>>

Finish == /\ current # None
          /\ current' = None
          /\ UNCHANGED <<items, now, open, swept, exited>>

Tick == /\ now' = now + 1
        /\ UNCHANGED <<items, current, open, swept, exited>>

Close == /\ open' = FALSE
         /\ UNCHANGED <<items, current, now, swept, exited>>

Discard == /\ ~open
           /\ items' = {}
           /\ swept' = TRUE
           /\ UNCHANGED <<current, now, open, exited>>

Exit == /\ ~open
        /\ current = None
        /\ items = {}
        /\ exited' = TRUE
        /\ UNCHANGED <<items, current, now, open, swept>>

Next == \/ \E x \in Items : Accept(x) \/ Start(x)
        \/ Finish
        \/ Tick
        \/ Close
        \/ Discard
        \/ Exit

Spec == Init /\ [][Next]_vars
=============================================================================
