----------------------------- MODULE MCSequential ----------------------------
(* Sequential with the components that need recursion next to its own, and the values of  *)
(* its constants.                                                                       *)
EXTENDS Sequential, TLC

CONSTANTS i1, p1, p2, b1            \* values of AnyStorage

VARIABLES text, jResult, meant, edits,
          parser, input, pResult

jsonVars   == <<text, jResult, meant, edits>>
combVars   == <<parser, input, pResult>>
allVars    == <<which, partVars, jsonVars, combVars>>
-----------------------------------------------------------------------------
(* an int, a pointer with a destructor and a long string: kept in the trivial, the small *)
(* and the big storage                                                                 *)
MCTypeOf == (i1 :> "int") @@ (p1 :> "ptr") @@ (p2 :> "ptr") @@ (b1 :> "string")
MCTraits == LET Trait(w, t) == [aligned |-> TRUE, words |-> w, nothrow |-> TRUE, trivial |-> t]
            IN  [int |-> Trait(1, TRUE), ptr |-> Trait(2, FALSE), string |-> Trait(4, FALSE)]

MCAlphabet == {"{", "}", "[", "]", ",", ":", "\"", "1", "0", ".", " ", "null", "-", "a"}
MCKeys     == {<<"a">>, <<"1">>}

Integer(s)  == [int |-> s]
Float(s, f) == [whole |-> s, fraction |-> f]
Arr(s)     == [arr |-> s]
Empties    == {[null |-> TRUE], [bool |-> TRUE], [arr |-> << >>]}
MCWritten  == Empties \cup
  {Integer(<<"1">>), [str |-> <<"a", "1">>], [str |-> << >>], [obj |-> << >>], Float(<<"1", "0">>, << >>),
   Arr(<<Integer(<<"1">>), [bool |-> TRUE], Float(<<"0">>, <<"1">>)>>),
   [obj |-> (<<"a">> :> Arr(<<[obj |-> << >>], Arr(<<[null |-> TRUE]>>)>>)) @@ (<<"1">> :> [str |-> <<"a">>])]}
MCPuts     == Empties \cup
  {Integer(<<"-", "1">>), Integer(<<"1", "0", "0">>), Float(<<"1">>, <<"0", "0", "1">>), Float(<<"1">>, <<"1">>),
   [str |-> <<"\"">>]}

MCLists == {s \in UNION {[1..m -> 0..3] : m \in 0..5} : \A i \in 1..Len(s) - 1 : s[i] <= s[i + 1]}

MCTasks == {<<a, b, c>> : a \in {<<2, 3>>, <<2>>, <<2, Throw>>, <<Throw>>},
                          b \in {<< >>, <<Throw>>, <<3>>, <<3, Throw>>}, c \in {<< >>, <<Throw>>}}
           \ {<<a, b, c>> : a \in {<<2, 3>>}, b \in {<<3>>, <<3, Throw>>}, c \in {<< >>, <<Throw>>}}

J == INSTANCE JsonParser WITH Alphabet <- MCAlphabet, MaxText <- 4, Written <- MCWritten, Keys <- MCKeys,
       Puts <- MCPuts, MaxEdits <- 3, IntDigits <- 2, Decimals <- 2, result <- jResult
P == INSTANCE ParserCombinator WITH Chars <- {"1", "a"}, MaxInput <- 4, Depth <- 2, IntDigits <- 2,
       result <- pResult
-----------------------------------------------------------------------------
MCInit == SequentialInit /\ J!Init /\ P!Init

MCNext ==
  \/ SequentialNext /\ UNCHANGED <<jsonVars, combVars>>
  \/ /\ UNCHANGED <<which, partVars>>
     /\ \/ which = "json" /\ J!Next /\ UNCHANGED combVars
        \/ which = "combinator" /\ P!Next /\ UNCHANGED jsonVars

MCSpec == MCInit /\ [][MCNext]_allVars
-----------------------------------------------------------------------------
(* The properties of the components, each stated and explained in its module.            *)
(* JsonParser: what is written is read; ParserCombinator: what is consumed.              *)
JsonSafety       == J!TypeOK /\ J!Safety
CombinatorSafety == P!Safety
=============================================================================
