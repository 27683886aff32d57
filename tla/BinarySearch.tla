----------------------------- MODULE BinarySearch ----------------------------
(* The binary searches of coroutine/cache/prefetch.h and of prefetch_test1.cpp.     *)
(* They halve the same way and differ in what they prefetch before they look at the *)
(* middle: nothing, the middle itself, the two middles that may come next, or, in    *)
(* the coroutine, the middle by a co_await that is resumed at once.                  *)
(* An index counts from 0, as in the code.                                          *)
EXTENDS Integers, Sequences

CONSTANTS Lists,   \* sorted vectors
          Keys     \* what is looked for in them

SearchAssumption ==
  /\ Lists \subseteq Seq(Int) /\ Keys \subseteq Int
  /\ \A l \in Lists : \A i, j \in 1..Len(l) : i < j => l[i] <= l[j]

Variants == {"plain", "prefetch1", "prefetch2", "coroutine"}

VARIABLES variant,
          nums, val,     \* the arguments
          first, len,    \* the range that is left
          ret,           \* -1 until the key is found
          hints,         \* indices prefetched in the last iteration
          state          \* "idle", "loop" or "returned"

vars == <<variant, nums, val, first, len, ret, hints, state>>

Init ==
  /\ variant = "plain" /\ nums = << >> /\ val = 0
  /\ first = 0 /\ len = 0 /\ ret = -1
  /\ hints = {} /\ state = "idle"

At(i) == nums[i + 1]
half == len \div 2
middle == first + half

Call ==
  /\ state = "idle"
  /\ variant' \in Variants
  /\ nums' \in Lists /\ val' \in Keys
  /\ first' = 0 /\ len' = Len(nums')
  /\ state' = "loop"
  /\ UNCHANGED <<ret, hints>>

PrefetchedHalfMutant ==   \* mutant: the middle of the upper half off by one
  CASE variant \in {"prefetch1", "coroutine"} -> {middle}
    [] variant = "prefetch2" -> {middle + 1 + (len - half) \div 2, first + half \div 2}
    [] OTHER -> {}

(* what is prefetched before *middle is read *)
Prefetched ==
  CASE variant \in {"prefetch1", "coroutine"} -> {middle}
    [] variant = "prefetch2" -> {middle + 1 + (len - half - 1) \div 2, first + half \div 2}
    [] OTHER -> {}

HalveOverMutant ==        \* mutant: the upper half is one too long
  IF At(middle) < val THEN first' = middle + 1 /\ len' = len - half ELSE first' = first /\ len' = half

Halve ==
  IF At(middle) < val
  THEN first' = middle + 1 /\ len' = len - half - 1
  ELSE first' = first /\ len' = half

(* one iteration of the loop; the range is halved before the key is compared *)
Iterate(v) ==
  /\ variant = v /\ state = "loop" /\ len > 0
  /\ Halve
  /\ hints' = Prefetched
  /\ IF At(middle) = val THEN ret' = middle /\ state' = "returned"
                         ELSE UNCHANGED <<ret, state>>
  /\ UNCHANGED <<variant, nums, val>>

binary_search           == Iterate("plain")
binary_search_prefetch1 == Iterate("prefetch1")
binary_search_prefetch2 == Iterate("prefetch2")
binary_search_prefetch  == Iterate("coroutine")

Return ==
  /\ state = "loop" /\ len = 0
  /\ state' = "returned"
  /\ UNCHANGED <<variant, nums, val, first, len, ret, hints>>

Next == \/ Call \/ Return
        \/ binary_search \/ binary_search_prefetch1
        \/ binary_search_prefetch2 \/ binary_search_prefetch

Spec == Init /\ [][Next]_vars
-----------------------------------------------------------------------------
Present(i) == i \in 0..Len(nums) - 1 /\ At(i) = val

(* The search returns an index that has the key, or -1 if none has; until then the   *)
(* range that is left is inside the vector and has the key if the vector has it.     *)
FindsTheKey ==
  /\ state = "loop" =>
       /\ first >= 0 /\ first + len <= Len(nums)
       /\ (\E i \in 0..Len(nums) - 1 : Present(i)) => \E i \in first..(first + len - 1) : Present(i)
  /\ state = "returned" =>
       IF \E i \in 0..Len(nums) - 1 : Present(i) THEN Present(ret) ELSE ret = -1

(* prefetch2 is always a step ahead: whichever half it goes on with, the middle it    *)
(* will read has been prefetched.                                                    *)
NextMiddleIsWarm ==
  variant = "prefetch2" /\ state = "loop" /\ 0 < len /\ len < Len(nums) => middle \in hints

(* The searches find the key, and the one that prefetches two middles reads only warm ones. *)
Safety == FindsTheKey /\ NextMiddleIsWarm
=============================================================================
