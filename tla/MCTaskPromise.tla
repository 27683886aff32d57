--------------------------- MODULE MCTaskPromise ----------------------------
(* Model-checking instances of TaskPromise: two other threads, one callback of  *)
(* each kind besides the awaiter's.                                             *)
EXTENDS TaskPromise, TLC

CONSTANTS c1, c2, f1, f2, f3

MCClients == {c1, c2}
MCKind == f1 :> "then" @@ f2 :> "catching" @@ f3 :> "finally" @@ Resume :> "finally"
AllModes == {"get", "blocking", "dispatch"}
=============================================================================
