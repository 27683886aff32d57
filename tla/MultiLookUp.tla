----------------------------- MODULE MultiLookUp -----------------------------
(* The look-ups that prefetcht0.cpp and test/prefetch_test1.cpp submit to a pool,   *)
(* and the main thread that spins until count_down is 0.  prefetcht0 submits a task *)
(* per target, prefetch_test1 one per residue of the index modulo fraction.  The    *)
(* tasks run in any order (ThreadPool) and look up as BinarySearch does.            *)
EXTENDS Integers, FiniteSets, Sequences

CONSTANTS Targets,     \* numbers of targets
          Fractions,   \* values of fraction; 0: a task per target
          Misses,      \* the targets that are not in nums
          SizeValues,  \* values of size_t, 2^64 in the code
          IntValues    \* values of int, 2^32 in the code

(* Some target, and the counts fit into an int. *)
LookUpAssumption ==
  /\ Targets \subseteq Nat \ {0} /\ Fractions \subseteq Nat
  /\ IntValues \in Nat \ {0} /\ SizeValues \in Nat \ {0} /\ SizeValues % IntValues = 0
  /\ \A k \in Targets, f \in Fractions : k < IntValues /\ k * f < IntValues

VARIABLES n, fraction,     \* targets.size() and fraction
          task,            \* task[i]: "queued", "counted": not_found_cnt added to, "done"
          not_found_cnt,
          count_down,      \* modulo IntValues
          main             \* "spinning" or what it has returned

vars == <<n, fraction, task, not_found_cnt, count_down, main>>

TaskSet == 0..(IF fraction = 0 THEN n ELSE fraction) - 1

Init ==
  /\ n \in Targets /\ fraction \in Fractions
  /\ task = [i \in TaskSet |-> "queued"]
  /\ not_found_cnt = 0
  /\ count_down = n
  /\ main = -1

(* the targets task i looks up: for (i = remain; i < targets.size(); i += fraction) *)
Share(i) == IF fraction = 0 THEN {i} ELSE {j \in 0..n - 1 : j % fraction = i}

StepSignedMutant == IF fraction = 0 THEN -1 ELSE -1 - (n \div fraction)   \* mutant: off by one

(* what a task adds to count_down: -1, or -targets.size() / fraction, where the minus *)
(* sign is applied to a size_t before the division                                   *)
Step == IF fraction = 0 THEN -1 ELSE ((SizeValues - n) % SizeValues) \div fraction

CountFirstMutant(i) ==     \* mutant: counted down before the look-up
  /\ task[i] = "queued"
  /\ count_down' = (count_down + Step) % IntValues
  /\ not_found_cnt' = not_found_cnt
  /\ task' = [task EXCEPT ![i] = "counted"]
  /\ UNCHANGED <<n, fraction, main>>

LookUp(i) ==
  /\ task[i] = "queued"
  /\ not_found_cnt' = not_found_cnt + Cardinality(Share(i) \cap Misses)
  /\ task' = [task EXCEPT ![i] = "counted"]
  /\ UNCHANGED <<n, fraction, count_down, main>>

CountDown(i) ==
  /\ task[i] = "counted"
  /\ count_down' = (count_down + Step) % IntValues
  /\ task' = [task EXCEPT ![i] = "done"]
  /\ UNCHANGED <<n, fraction, not_found_cnt, main>>

(* while (count_down.load()); *)
Return ==
  /\ main = -1 /\ count_down = 0
  /\ main' = not_found_cnt
  /\ UNCHANGED <<n, fraction, task, not_found_cnt, count_down>>

Next == (\E i \in TaskSet : LookUp(i) \/ CountDown(i)) \/ Return

Spec == Init /\ [][Next]_vars
-----------------------------------------------------------------------------
(* The minus sign in size_t is harmless if fraction divides 2^64 - n, as the 2 of the *)
(* program does for its even number of targets.                                      *)
Exact == fraction = 0 \/ (SizeValues - n) % fraction = 0

(* Then the main thread returns the number of targets that are not there, and not      *)
(* before the last task has made its last access to the counters, which are locals of   *)
(* the main thread.                                                                  *)
ReturnsTheCount ==
  Exact /\ main # -1 => /\ main = Cardinality(Misses \cap 0..n - 1)
                        /\ \A i \in TaskSet : task[i] = "done"

(* Otherwise the count does not come down to 0 with the last task: the spin goes on for *)
(* ever, or has ended while tasks still use the counters.                            *)
EndsAtZeroIfExact ==
  (\A i \in TaskSet : task[i] = "done") => (count_down = 0 <=> Exact)

(* A main thread that can return does: every queued task is run.                      *)
MainReturns == Exact ~> main # -1

(* Main counts all tasks if and only if the step of the counter is exact.                *)
Safety == ReturnsTheCount /\ EndsAtZeroIfExact
=============================================================================
