---------------------------- MODULE MCScheduler -----------------------------
(* Model-checking instances of Scheduler: equal delays, and mixed ones. *)
EXTENDS Scheduler, TLC

CONSTANTS c1, f1, f2, f3

MCFuncs == {f1, f2, f3}
MCSymmetry == Permutations(MCFuncs)
TwoFuncs == {f1, f2}

EqualDelays == {1}
MixedDelays == {-1, 1, 2}
=============================================================================
