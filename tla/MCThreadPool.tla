---------------------------- MODULE MCThreadPool ----------------------------
(* Model-checking instances of ThreadPool: a stealing pool and a plain one,     *)
(* whose workers submit to each other and help each other.                      *)
EXTENDS ThreadPool, TLC

CONSTANTS A, B, c1, t1, t2, t3

MCTasks == {t1, t2, t3}
TwoTasks == {t1, t2}
MCSymmetry == Permutations(MCTasks)

TwoPools == {A, B}
TwoSizes == A :> 2 @@ B :> 1
SingleSizes == A :> 1 @@ B :> 1
MixedSteal == A :> TRUE @@ B :> FALSE
=============================================================================
