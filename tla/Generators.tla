------------------------------ MODULE Generators -----------------------------
(* Objects that own the handle of a coroutine and resume it for its next value:   *)
(*   "next"  include/2generator/generator.h   next(), get(), done()               *)
(*   "call"  generator.cpp                    operator bool, operator()           *)
(*   "iter"  generator_.h                     begin(), ++, !=, *                  *)
(*   "chat"  coroutine_e2.cpp                 listen(), answer()                  *)
(* One coroutine and the objects that hold its handle over time; the program may   *)
(* call any operation at any moment.                                              *)
EXTENDS Naturals

CONSTANTS Kinds,     \* the classes to look at
          Objects,   \* variables of the class
          First,     \* the one the coroutine is returned into
          Length,    \* how many values a generator's coroutine yields
          MaxReads   \* number of values the program reads

GeneratorsAssumption ==
  First \in Objects /\ Length \in Nat /\ Kinds \subseteq {"next", "call", "iter", "chat"}

VARIABLES kind,
          throws,     \* the body throws after its last co_yield
          frame,      \* the coroutine: where it is, resumptions so far, the promise's value
          obj,        \* per object: handle, full_, begin_
          undef,      \* something undefined was done
          (* history *)
          known,      \* what the program was told last: "more" values, the "end"
          careless,   \* it did not ask first, or used an object it had moved from
          rewound,    \* the object whose begin_ was lost in a move, or a copied handle
          wanted,     \* values it has asked for
          read        \* the last value read, and wanted then

history == <<known, careless, rewound, wanted, read>>
vars == <<kind, throws, frame, obj, undef, history>>

(* Fun() of "chat" yields once and returns a message *)
Yields == IF kind = "chat" THEN 1 ELSE Length

TypeOK ==
  /\ kind \in Kinds /\ throws \in BOOLEAN
  /\ frame \in [st : {"suspended", "done", "failed", "destroyed"},
                k : 0..Length + 2, val : 0..Length + 2]
  /\ obj \in [Objects -> [h : {"dead", "null", "frame"}, full_ : BOOLEAN, begin_ : BOOLEAN]]
  /\ known \in {"start", "more", "end", "unknown"}
  /\ read \in [val : Nat, at : Nat]

Absent == [h |-> "dead", full_ |-> FALSE, begin_ |-> FALSE]
Holding == [h |-> "frame", full_ |-> FALSE, begin_ |-> FALSE]

Init ==
  /\ kind \in Kinds
  /\ throws \in BOOLEAN
  /\ frame = [st |-> "suspended", k |-> 0, val |-> 0]
  /\ obj = [v \in Objects |-> IF v = First THEN Holding ELSE Absent]
  /\ undef = FALSE
  /\ known = "start" /\ careless = FALSE /\ rewound = FALSE
  /\ wanted = 0 /\ read = [val |-> 0, at |-> 0]
-----------------------------------------------------------------------------
Finished == frame.st \in {"done", "failed"}
Dangling(v) == obj[v].h = "null" \/ frame.st = "destroyed"

(* the promise after one more resumption.  co_return of "chat" gives a value too *)
Resumed ==
  LET k == frame.k + 1
  IN [st |-> IF k <= Yields THEN "suspended" ELSE IF throws THEN "failed" ELSE "done",
      k |-> k,
      val |-> IF k <= Yields \/ (kind = "chat" /\ ~throws) THEN k ELSE frame.val]

Uses(v) == ~undef /\ obj[v].h # "dead" /\ wanted < MaxReads

(* a null or destroyed handle is used, or a finished coroutine resumed *)
Breaks == undef' = TRUE /\ UNCHANGED <<frame, obj, known, rewound, wanted, read>>

(* what the program does wrong when it calls an operation on v without `asked` *)
Blame(v, asked) == careless' = (careless \/ ~asked \/ obj[v].h = "null")

Reads(x, at) == wanted' = at /\ read' = [val |-> x, at |-> at]

Fixed == UNCHANGED <<kind, throws>>
-----------------------------------------------------------------------------
(* include/2generator/generator.h.  generator_.h has next() too, for those who do  *)
(* not iterate.                                                                   *)
next(v) ==
  /\ kind \in {"next", "iter"} /\ Uses(v)
  /\ Blame(v, kind = "next" /\ known \in {"start", "more"})
  /\ \/ (Dangling(v) \/ Finished) /\ Breaks
     \/ /\ ~(Dangling(v) \/ Finished)
        /\ frame' = Resumed
        /\ known' = "unknown" /\ wanted' = wanted + 1
        /\ UNCHANGED <<obj, undef, rewound, read>>

done(v) ==
  /\ kind \in {"next", "iter"} /\ Uses(v)
  /\ Blame(v, TRUE)
  /\ \/ Dangling(v) /\ Breaks
     \/ /\ ~Dangling(v)
        /\ known' = IF Finished THEN "end" ELSE IF known = "start" THEN known ELSE "more"
        /\ UNCHANGED <<frame, obj, undef, rewound, wanted, read>>

(* get() of "next", operator* of "iter" *)
get(v) ==
  /\ kind \in {"next", "iter"} /\ Uses(v)
  /\ Blame(v, known = "more")
  /\ \/ Dangling(v) /\ Breaks
     \/ ~Dangling(v) /\ Reads(frame.val, wanted) /\ UNCHANGED <<frame, obj, undef, known, rewound>>
-----------------------------------------------------------------------------
(* generator.cpp: fill() resumes unless a value is there already; an exception of  *)
(* the body is thrown again and full_ stays false                                  *)
FillAlwaysMutant(v) == [frame |-> Resumed, full |-> TRUE, ok |-> ~Dangling(v) /\ ~Finished]  \* mutant

Fill(v) ==
  IF obj[v].full_ THEN [frame |-> frame, full |-> TRUE, ok |-> ~Dangling(v)]
  ELSE [frame |-> Resumed, full |-> Resumed.st # "failed", ok |-> ~Dangling(v) /\ ~Finished]

operator_bool(v) ==
  /\ kind = "call" /\ Uses(v)
  /\ Blame(v, frame.st # "failed")
  /\ \/ ~Fill(v).ok /\ Breaks
     \/ /\ Fill(v).ok
        /\ frame' = Fill(v).frame
        /\ obj' = [obj EXCEPT ![v].full_ = Fill(v).full]
        /\ known' = IF frame'.st = "suspended" THEN "more" ELSE "end"
        /\ UNCHANGED <<undef, rewound, wanted, read>>

(* At the end the last value is given once more *)
operator_call(v) ==
  /\ kind = "call" /\ Uses(v)
  /\ Blame(v, known = "more")
  /\ \/ ~Fill(v).ok /\ Breaks
     \/ /\ Fill(v).ok
        /\ frame' = Fill(v).frame
        /\ obj' = [obj EXCEPT ![v].full_ = FALSE]
        /\ known' = "unknown"
        /\ IF Fill(v).full THEN Reads(frame'.val, wanted + 1) ELSE UNCHANGED <<wanted, read>>
        /\ UNCHANGED <<undef, rewound>>
-----------------------------------------------------------------------------
beginTwiceMutant(v) ==     \* mutant: begin_ is not set
  /\ kind = "iter" /\ Uses(v) /\ Blame(v, TRUE) /\ ~(Dangling(v) \/ Finished)
  /\ frame' = Resumed /\ wanted' = IF obj[v].begin_ \/ rewound \/ wanted > 0 THEN wanted ELSE 1
  /\ known' = "unknown"
  /\ UNCHANGED <<kind, throws, obj, undef, rewound, read>>

(* generator_.h: the first begin() of an object resumes *)
begin(v) ==
  /\ kind = "iter" /\ Uses(v)
  /\ Blame(v, TRUE)
  /\ \/ /\ obj[v].begin_
        /\ known' = "unknown"
        /\ UNCHANGED <<frame, obj, undef, rewound, wanted, read>>
     \/ ~obj[v].begin_ /\ (Dangling(v) \/ Finished) /\ Breaks
     \/ /\ ~obj[v].begin_ /\ ~(Dangling(v) \/ Finished)
        /\ frame' = Resumed
        /\ obj' = [obj EXCEPT ![v].begin_ = TRUE]
        /\ known' = "unknown"
        /\ wanted' = IF wanted = 0 THEN 1 ELSE wanted
        /\ UNCHANGED <<undef, rewound, read>>

increment(v) ==
  /\ kind = "iter" /\ Uses(v)
  /\ Blame(v, known = "more")
  /\ \/ (Dangling(v) \/ Finished) /\ Breaks
     \/ /\ ~(Dangling(v) \/ Finished)
        /\ frame' = Resumed
        /\ known' = "unknown" /\ wanted' = wanted + 1
        /\ UNCHANGED <<obj, undef, rewound, read>>
-----------------------------------------------------------------------------
(* coroutine_e2.cpp: neither resumes a finished coroutine.  In turn, listen() first  *)
listenAlwaysMutant(v) ==    \* mutant: done() is not asked
  /\ kind = "chat" /\ Uses(v) /\ Blame(v, known # "more")
  /\ \/ (Dangling(v) \/ Finished) /\ Breaks
     \/ /\ ~(Dangling(v) \/ Finished)
        /\ frame' = [Resumed EXCEPT !.val = 0]
        /\ Reads(Resumed.val, wanted + 1)
        /\ known' = "more"
        /\ UNCHANGED <<obj, undef, rewound>>

listen(v) ==
  /\ kind = "chat" /\ Uses(v)
  /\ Blame(v, known # "more")
  /\ \/ Dangling(v) /\ Breaks
     \/ /\ ~Dangling(v)
        /\ LET f == IF Finished THEN frame ELSE Resumed
           IN frame' = [f EXCEPT !.val = 0] /\ Reads(f.val, wanted + 1)
        /\ known' = "more"
        /\ UNCHANGED <<obj, undef, rewound>>

answer(v) ==
  /\ kind = "chat" /\ Uses(v)
  /\ Blame(v, known = "more")
  /\ \/ Dangling(v) /\ Breaks
     \/ /\ ~Dangling(v)
        /\ frame' = IF Finished THEN frame ELSE Resumed
        /\ known' = "unknown"
        /\ UNCHANGED <<obj, undef, rewound, wanted, read>>
-----------------------------------------------------------------------------
(* The move constructors take the handle and leave begin_ behind *)
Move(v, w) ==
  /\ kind # "call" /\ ~undef /\ obj[v].h = "dead" /\ obj[w].h # "dead"
  /\ obj' = [obj EXCEPT ![v] = [Holding EXCEPT !.h = obj[w].h], ![w].h = "null"]
  /\ rewound' = (rewound \/ obj[w].begin_)
  /\ UNCHANGED <<kind, throws, frame, undef, known, careless, wanted, read>>

(* generator.cpp declares no copy or move: the handle is copied *)
Copy(v, w) ==
  /\ kind = "call" /\ ~undef /\ obj[v].h = "dead" /\ obj[w].h # "dead"
  /\ obj' = [obj EXCEPT ![v] = obj[w]]
  /\ rewound' = TRUE
  /\ UNCHANGED <<kind, throws, frame, undef, known, careless, wanted, read>>

DestructUnownedMutant(v) ==     \* mutant: the frame is left alone
  /\ ~undef /\ obj[v].h # "dead"
  /\ obj' = [obj EXCEPT ![v] = Absent]
  /\ UNCHANGED <<kind, throws, frame, undef, history>>

(* The destructors of "next" and "call" do not ask whether there is a handle *)
Destruct(v) ==
  /\ ~undef /\ obj[v].h # "dead"
  /\ \/ /\ obj[v].h = "null" /\ kind \in {"iter", "chat"}
        /\ obj' = [obj EXCEPT ![v] = Absent]
        /\ UNCHANGED <<frame, undef>>
     \/ /\ obj[v].h = "frame" /\ frame.st # "destroyed"
        /\ obj' = [obj EXCEPT ![v] = Absent]
        /\ frame' = [frame EXCEPT !.st = "destroyed"]
        /\ UNCHANGED undef
     \/ /\ \/ obj[v].h = "null" /\ kind \in {"next", "call"}
           \/ obj[v].h = "frame" /\ frame.st = "destroyed"
        /\ undef' = TRUE
        /\ UNCHANGED <<frame, obj>>
  /\ UNCHANGED <<kind, throws, history>>

Generator2(v) == (next(v) \/ done(v) \/ get(v)) /\ Fixed
Generator1(v) == (operator_bool(v) \/ operator_call(v)) /\ Fixed
Generator_(v) == (begin(v) \/ increment(v)) /\ Fixed
Chat(v) == (listen(v) \/ answer(v)) /\ Fixed

Next == \E v \in Objects :
          \/ Generator2(v) \/ Generator1(v) \/ Generator_(v) \/ Chat(v)
          \/ Destruct(v)
          \/ \E w \in Objects : Move(v, w) \/ Copy(v, w)

Spec == Init /\ [][Next]_vars
-----------------------------------------------------------------------------
(* A program that asks before each value and uses no object it has moved from never *)
(* does anything undefined, with three exceptions the classes leave open: a copied   *)
(* handle, a begin_ lost in a move, and an empty object of "next" that is destroyed. *)
UndefinedOnlyMisuse ==
  undef => careless \/ rewound \/ (kind = "next" /\ \E v \in Objects : obj[v].h = "null")

Ahead == \E v \in Objects : obj[v].h = "frame" /\ obj[v].full_

(* Such a program resumes the coroutine as often as it wants a value, but for the    *)
(* one fill() has ready: however often it asks, begins or moves, no value is skipped. *)
NoValueSkipped ==
  ~careless /\ ~rewound /\ kind # "chat" /\ frame.st \in {"suspended", "done"} =>
    frame.k = wanted + (IF Ahead THEN 1 ELSE 0)

(* and the value it reads is the one it wants; of "chat", each of the two messages    *)
ReadsInOrder ==
  ~careless /\ ~rewound /\ (kind = "chat" => read.at <= 2 /\ ~throws) => read.val = read.at

(* The frame does not outlive the last object that has its handle                    *)
NothingLeaks == (\A v \in Objects : obj[v].h # "frame") => frame.st = "destroyed"

(* Whatever is moved and copied: no misuse but the program's own, each value once and in   *)
(* order, and the frame destroyed with its last owner.                                   *)
Safety == UndefinedOnlyMisuse /\ NoValueSkipped /\ ReadsInOrder /\ NothingLeaks
=============================================================================
