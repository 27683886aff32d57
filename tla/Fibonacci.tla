------------------------------ MODULE Fibonacci ------------------------------
(* The Fibonacci sequence as the coroutines of generator.cpp and generator_.cpp    *)
(* and as the hand-written frames of simulate_co.cpp and fib.cpp compute it, one    *)
(* resumption each per step.  A uint64_t is four 16-bit limbs, the lowest         *)
(* first; the int of the others stays small, as in the programs.             *)
EXTENDS Naturals, Sequences

CONSTANTS Lengths,   \* the n fibonacci_sequence() and Fib() are called with
          Calls      \* resumptions of the frames with int, 10 in their main()

(* The frames with int have no overflow: none is resumed after it holds F(46).         *)
FibonacciAssumption == Lengths \subseteq Nat /\ Calls \in 0..44

VARIABLES n,
          seq,    \* fibonacci_sequence(n): where it is suspended, its locals, its value
          fib,    \* Fib(n) of generator_.cpp and generator_1.cpp
          sim,    \* struct Fib of simulate_co.cpp
          frm,    \* struct fib_frame of fib.cpp
          calls   \* resumptions so far

vars == <<n, seq, fib, sim, frm, calls>>

Base == 65536
Word(x) == <<x, 0, 0, 0, 0>>     \* the fifth limb is what a uint64_t has no room for

(* the exact sum, and the sum in a uint64_t *)
Plus(a, b) ==
  LET sum1 == a[1] + b[1]
      sum2 == a[2] + b[2] + sum1 \div Base
      sum3 == a[3] + b[3] + sum2 \div Base
      sum4 == a[4] + b[4] + sum3 \div Base
  IN <<sum1 % Base, sum2 % Base, sum3 % Base, sum4 % Base, a[5] + b[5] + sum4 \div Base>>

Wrapped(x) == [x EXCEPT ![5] = 0]

Init ==
  /\ n \in Lengths
  /\ seq = [at |-> "start", a |-> Word(0), b |-> Word(1), i |-> 2, out |-> Word(0)]
  /\ fib = [at |-> "start", a |-> 0, b |-> 1, i |-> 2, out |-> 0]
  /\ sim = [state |-> 0, a |-> 0, b |-> 0, c |-> 0, out |-> 0]
  /\ frm = [a |-> 1, b |-> 1, out |-> 0]
  /\ calls = 0
-----------------------------------------------------------------------------
SeqGuardMutant(s) ==       \* mutant: one too many is allowed
  CASE s.at = "start" -> IF n = 0 THEN "done" ELSE IF n > 95 THEN "throws" ELSE "0"
    [] s.at = "0" -> IF n = 1 THEN "done" ELSE "1"
    [] s.at = "1" -> IF n = 2 THEN "done" ELSE "loop"
    [] s.at = "loop" -> IF s.i + 1 < n THEN "loop" ELSE "done"
    [] OTHER -> s.at

SeqLoopMutant(s) ==        \* mutant: the loop goes on for one value too many
  CASE s.at = "start" -> IF n = 0 THEN "done" ELSE IF n > 94 THEN "throws" ELSE "0"
    [] s.at = "0" -> IF n = 1 THEN "done" ELSE "1"
    [] s.at = "1" -> IF n = 2 THEN "done" ELSE "loop"
    [] s.at = "loop" -> IF s.i < n THEN "loop" ELSE "done"
    [] OTHER -> s.at

(* where fibonacci_sequence(n) is suspended next *)
SeqNext(s) ==
  CASE s.at = "start" -> IF n = 0 THEN "done" ELSE IF n > 94 THEN "throws" ELSE "0"
    [] s.at = "0" -> IF n = 1 THEN "done" ELSE "1"
    [] s.at = "1" -> IF n = 2 THEN "done" ELSE "loop"
    [] s.at = "loop" -> IF s.i + 1 < n THEN "loop" ELSE "done"
    [] OTHER -> s.at

(* fibonacci_sequence() resumed: s = a + b is yielded, then a = b and b = s *)
fibonacci_sequence(s) ==
  LET to == SeqNext(s)
      r  == IF s.at = "loop" THEN [s EXCEPT !.a = s.b, !.b = s.out, !.i = s.i + 1] ELSE s
  IN [r EXCEPT !.at = to,
               !.out = CASE to = "0" -> Word(0)
                         [] to = "1" -> Word(1)
                         [] to = "loop" -> Wrapped(Plus(r.a, r.b))
                         [] OTHER -> r.out]

FibSwapMutant(s) ==        \* mutant: a is overwritten before b needs it
  LET r == IF s.at = "loop" THEN [s EXCEPT !.a = s.b, !.b = s.b + s.b, !.i = s.i + 1] ELSE s
      to == CASE s.at = "start" -> IF n \in {0, 1} THEN "done" ELSE "a"
              [] s.at = "a" -> "b"
              [] s.at \in {"b", "loop"} -> IF r.i <= n THEN "loop" ELSE "done"
              [] OTHER -> s.at
  IN [r EXCEPT !.at = to,
               !.out = CASE to = "a" -> r.a [] to = "b" -> r.b [] to = "loop" -> r.a + r.b
                         [] OTHER -> r.out]

(* Fib(n): after a co_yield of a + b, b = a + b and a = b - a *)
Fib(s) ==
  LET r == IF s.at = "loop" THEN [s EXCEPT !.a = s.b, !.b = s.a + s.b, !.i = s.i + 1] ELSE s
      to == CASE s.at = "start" -> IF n \in {0, 1} THEN "done" ELSE "a"
              [] s.at = "a" -> "b"
              [] s.at \in {"b", "loop"} -> IF r.i <= n THEN "loop" ELSE "done"
              [] OTHER -> s.at
  IN [r EXCEPT !.at = to,
               !.out = CASE to = "a" -> r.a [] to = "b" -> r.b [] to = "loop" -> r.a + r.b
                         [] OTHER -> r.out]

(* Fib::resume(): the switch jumps to where it stopped, sum3 into the loop *)
SimResume(s) ==
  CASE s.state = 0 -> [s EXCEPT !.state = 1, !.a = 1, !.b = 1, !.out = 1]
    [] s.state = 1 -> [s EXCEPT !.state = 2, !.out = s.b]
    [] s.state = 2 -> [s EXCEPT !.state = 3, !.c = s.a + s.b, !.out = s.a + s.b]
    [] s.state = 3 -> [s EXCEPT !.a = s.b, !.b = s.c, !.c = s.b + s.c, !.out = s.b + s.c]

(* fib_frame::resume(): b += a, swap(a, b) *)
FrameResume(s) == [a |-> s.a + s.b, b |-> s.a, out |-> s.a]

resume ==
  /\ seq.at \notin {"done", "throws"} \/ calls < Calls
  /\ seq' = fibonacci_sequence(seq)
  /\ IF calls < Calls
     THEN /\ fib' = Fib(fib)
          /\ sim' = SimResume(sim)
          /\ frm' = FrameResume(frm)
     ELSE UNCHANGED <<fib, sim, frm>>
  /\ calls' = calls + 1
  /\ UNCHANGED n

Next == resume

Spec == Init /\ [][Next]_vars
-----------------------------------------------------------------------------
(* F(k) and F(k + 1), exact up to the 96th number *)
Pair[k \in Nat] == IF k = 0 THEN <<Word(0), Word(1)>>
                   ELSE LET p == Pair[k - 1] IN <<p[2], Plus(p[1], p[2])>>
F(k) == Pair[k][1]
Low(x) == x[1] + Base * x[2]

(* fibonacci_sequence(n) yields F(0), ..., F(n - 1), and nothing else before it ends *)
YieldsTheSequence ==
  /\ seq.at \in {"0", "1", "loop"} => calls <= n /\ seq.out = F(calls - 1)
  /\ seq.at = "done" /\ calls >= 1 => calls > n

(* Its limit of 94 is exact: it refuses n if and only if F(n - 1) does not fit into   *)
(* 64 bits, so that no value it yields has wrapped around.                           *)
RefusesWhatOverflows == calls >= 1 /\ n >= 1 => (seq.at = "throws" <=> F(n - 1)[5] # 0)

(* The three programs with int agree with it: resumed for the k-th time, Fib(n) gives *)
(* F(k - 1), the state machine F(k) and the frame F(k + 1).                           *)
FramesAgree ==
  calls \in 1..Calls =>
    /\ fib.at \notin {"start", "done"} => fib.out = Low(F(calls - 1)) /\ calls <= n + 1
    /\ fib.at = "done" => n \in {0, 1} \/ calls > n + 1
    /\ sim.out = Low(F(calls))
    /\ frm.out = Low(F(calls + 1))

(* All four compute the Fibonacci numbers as far as they fit.                            *)
Safety == YieldsTheSequence /\ RefusesWhatOverflows /\ FramesAgree
=============================================================================
