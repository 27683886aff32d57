--------------------------- MODULE SerialExecutor ---------------------------
(* What an executor with one worker thread promises its callers: accepted     *)
(* functions run one at a time, in the order in which they were accepted, each *)
(* at most once; after a discarding shutdown nothing is accepted or started;   *)
(* the worker leaves only when it is closed and nothing is left to run.        *)
EXTENDS Sequences

CONSTANTS Funcs,   \* the functions callers may hand to execute()
          None     \* "no function"

VARIABLES backlog,   \* accepted, not started, oldest first
          current,   \* the function being run, or None
          open,      \* shutdown() has not been called
          swept,     \* shutdown(false) has thrown the backlog away
          exited     \* the worker thread has returned

vars == <<backlog, current, open, swept, exited>>

Init == /\ backlog = << >>
        /\ current = None
        /\ open = TRUE
        /\ swept = FALSE
        /\ exited = FALSE

(* A call of execute() that began before the shutdown may still add its       *)
(* function after it, but never once the backlog was swept.                    *)
Accept(f) == /\ ~swept
             /\ backlog' = Append(backlog, f)
             /\ UNCHANGED <<current, open, swept, exited>>

Start == /\ ~exited
         /\ current = None
         /\ backlog # << >>
         /\ current' = Head(backlog)
         /\ backlog' = Tail(backlog)
         /\ UNCHANGED <<open, swept, exited>>

Finish == /\ current # None
          /\ current' = None
          /\ UNCHANGED <<backlog, open, swept, exited>>

Close == /\ open' = FALSE
         /\ UNCHANGED <<backlog, current, swept, exited>>

Discard == /\ ~open
           /\ backlog' = << >>
           /\ swept' = TRUE
           /\ UNCHANGED <<current, open, exited>>

Exit == /\ ~open
        /\ current = None
        /\ backlog = << >>
        /\ exited' = TRUE
        /\ UNCHANGED <<backlog, current, open, swept>>

Next == \/ \E f \in Funcs : Accept(f)
        \/ Start
        \/ Finish
        \/ Close
        \/ Discard
        \/ Exit

Spec == Init /\ [][Next]_vars
=============================================================================
