----------------------------- MODULE Sequential ------------------------------
(* The components that run in one thread and whose operators need no recursion, in one   *)
(* specification: which says whose behaviour it is, and the other components stay as     *)
(* they are at first.                                                                  *)
EXTENDS AnyStorage, Integers, Sequences

CONSTANTS Kinds, Objects, First, Length, MaxReads,   \* Generators
          Replies, Awaits, Syncs,                    \* LazyAwait
          NoObject,                                  \* a variable of it outside its lifetime
          Lists, Keys,                               \* BinarySearch
          Lengths, Resumptions,                      \* Fibonacci
          Programs, Throw,                           \* SimpleTask
          Others                                     \* components put next to these

VARIABLES which,
          kind, throws, gFrame, gObj, gUndef, known, careless, rewound, wanted, read,
          stack, lFrame, got, sync, answer, lUndef,
          variant, nums, val, first, len, ret, hints, state,
          fibN, seq, fib, sim, frm, calls,
          tKind, prog, tStack, at, todo, stage, result, callback, main, handled

anyVars    == <<class, slot, obj, cast, undef>>
genVars    == <<kind, throws, gFrame, gObj, gUndef, known, careless, rewound, wanted, read>>
lazyVars   == <<stack, lFrame, got, sync, answer, lUndef>>
searchVars == <<variant, nums, val, first, len, ret, hints, state>>
fibVars    == <<fibN, seq, fib, sim, frm, calls>>
taskVars   == <<tKind, prog, tStack, at, todo, stage, result, callback, main, handled>>
partVars   == <<anyVars, genVars, lazyVars, searchVars, fibVars, taskVars>>
-----------------------------------------------------------------------------
G == INSTANCE Generators WITH frame <- gFrame, obj <- gObj, undef <- gUndef
L == INSTANCE LazyAwait WITH Dead <- NoObject, frame <- lFrame, undef <- lUndef
B == INSTANCE BinarySearch
Fb == INSTANCE Fibonacci WITH n <- fibN, Calls <- Resumptions
T == INSTANCE SimpleTask WITH kind <- tKind, stack <- tStack

ASSUME SequentialAssumption ==
  /\ G!GeneratorsAssumption /\ L!LazyAssumption /\ B!SearchAssumption /\ Fb!FibonacciAssumption
  /\ T!SimpleTaskAssumption
-----------------------------------------------------------------------------
SequentialInit ==
  /\ which \in {"any", "generator", "lazy", "search", "fibonacci", "task"} \cup Others
  /\ Init /\ G!Init /\ L!Init /\ B!Init /\ Fb!Init /\ T!Init
  /\ which # "any" => class = CHOOSE c \in Classes : TRUE
  /\ which # "generator" => kind = (CHOOSE k \in Kinds : TRUE) /\ ~throws
  /\ which # "fibonacci" => fibN = CHOOSE l \in Lengths : TRUE
  /\ which # "task" => tKind = "Task" /\ prog = CHOOSE p \in Programs : TRUE

SequentialNext ==
  /\ UNCHANGED which
  /\ \/ which = "any" /\ Next /\ UNCHANGED <<genVars, lazyVars, searchVars, fibVars, taskVars>>
     \/ which = "generator" /\ G!Next /\ UNCHANGED <<anyVars, lazyVars, searchVars, fibVars, taskVars>>
     \/ which = "lazy" /\ L!Next /\ UNCHANGED <<anyVars, genVars, searchVars, fibVars, taskVars>>
     \/ which = "search" /\ B!Next /\ UNCHANGED <<anyVars, genVars, lazyVars, fibVars, taskVars>>
     \/ which = "fibonacci" /\ Fb!Next /\ UNCHANGED <<anyVars, genVars, lazyVars, searchVars, taskVars>>
     \/ which = "task" /\ T!Next /\ UNCHANGED <<anyVars, genVars, lazyVars, searchVars, fibVars>>

SequentialSpec == SequentialInit /\ [][SequentialNext]_<<which, partVars>>
-----------------------------------------------------------------------------
(* The properties of the components, each stated and explained in its module.  The types *)
(* of the variables:                                                                  *)
TypesOK == TypeOK /\ G!TypeOK /\ L!TypeOK

(* what an assignment or a move forgets, of AnyStorage and LazyAwait;                    *)
NothingElseLost == LostOnlyByMove /\ L!LostOnlyByAssignment

(* Generators: each value once; LazyAwait: nested resumptions; BinarySearch: the key and   *)
(* the prefetches; Fibonacci: the numbers; SimpleTask: chains in one thread.              *)
GeneratorSafety == G!Safety
LazySafety      == L!Safety
SearchSafety    == B!Safety
FibonacciSafety == Fb!Safety
TaskSafety      == T!Safety
=============================================================================
