-------------------------- MODULE MCLooperExecutor --------------------------
(* Model-checking instance of LooperExecutor: one client, and the functions the *)
(* looper runs call execute() too.                                              *)
EXTENDS LooperExecutor

CONSTANTS c1, f1, f2, f3

MCClients == {c1}
MCFuncs == {f1, f2, f3}
=============================================================================
