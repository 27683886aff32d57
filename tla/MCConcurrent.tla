----------------------------- MODULE MCConcurrent ----------------------------
(* Concurrent for TLC: up to six targets, lists of up to four numbers, two threads that  *)
(* push, two that wait and one that tries, chains of two and three tasks, and three      *)
(* runs with the same jthread.                                                         *)
EXTENDS Concurrent

MCLists == {<< >>, <<1, 2, 1>>, <<3, 1, 2, 4>>}

Kinds == {"noop", "async", "newthread", "looper", "shared", "pool"}
Task(k, a) == [executor |-> k, awaits |-> a]
MCPrograms ==
  {<<Task(k, a), Task(l, b)>> : k \in Kinds, l \in Kinds, a \in {<<Sleep, 2>>, <<2, Sleep>>},
                                b \in {<< >>, <<Sleep>>}}
  \cup {<<Task(k, <<2, 3>>), Task(l, << >>), Task(m, << >>)>> : k \in Kinds, l \in Kinds, m \in {"newthread", "looper"}}
=============================================================================
