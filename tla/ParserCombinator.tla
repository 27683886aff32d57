-------------------------- MODULE ParserCombinator ---------------------------
(* meta/parser_combinator.cpp: parsers are functions from the input that is left *)
(* to a value and the input left after it, or nullopt.  A parser expression names *)
(* the combinators that built it; the function each is given concatenates values, *)
(* which are sequences of characters.                                             *)
EXTENDS Naturals, Sequences, SequencesExt

CONSTANTS Chars,      \* characters of the input, among them some Digits
          MaxInput,   \* its length
          Depth,      \* how deep combinators are nested, at most 2
          IntDigits   \* digits of the largest int

Digits == {"0", "1"}

VARIABLES parser,   \* a parser expression
          input,    \* what it was called with
          result    \* what the call gave

vars == <<parser, input, result>>

Some(x, rest) == [st |-> "some", val |-> x, rest |-> rest]
nullopt  == [st |-> "nullopt", val |-> << >>, rest |-> << >>]
Loops    == [st |-> "loops", val |-> << >>, rest |-> << >>]
Overflow == [st |-> "overflow", val |-> << >>, rest |-> << >>]
NotYet   == [st |-> "not yet", val |-> << >>, rest |-> << >>]

Ok(r) == r.st = "some"

makeCharParser(c, s) == IF s = << >> \/ c # Head(s) THEN nullopt ELSE Some(<<c>>, Tail(s))

(* intParser gives the number at the front and leaves the whole input *)
EndOfNumber(s) == SelectInSubSeq(s, 1, Len(s), LAMBDA c : c \notin Digits)
Number(s) == SubSeq(s, 1, IF EndOfNumber(s) = 0 THEN Len(s) ELSE EndOfNumber(s) - 1)
Significant(n) == LET i == SelectInSeq(n, LAMBDA c : c # "0")
                  IN IF i = 0 THEN <<"0">> ELSE SubSeq(n, i, Len(n))
intParser(s) == IF Len(Significant(Number(s))) > IntDigits THEN Overflow
                ELSE Some(Significant(Number(s)), s)

RECURSIVE Run(_, _), foldL(_, _, _)

combineSameMutant(p, q, s) ==     \* mutant: the second parser gets the whole input
  LET r1 == Run(p, s)
      r2 == Run(q, s)
  IN IF ~Ok(r1) THEN r1 ELSE IF ~Ok(r2) THEN r2 ELSE Some(r1.val \o r2.val, r2.rest)

combine(p, q, s) ==
  LET r1 == Run(p, s)
      r2 == Run(q, r1.rest)
  IN IF ~Ok(r1) THEN r1
     ELSE IF ~Ok(r2) THEN r2
     ELSE Some(r1.val \o r2.val, r2.rest)

foldLOnceMutant(p, acc, s) ==     \* mutant: the loop is left after one more p
  LET r == Run(p, s)
  IN IF r.st = "nullopt" THEN Some(acc, s) ELSE IF ~Ok(r) THEN r ELSE Some(acc \o r.val, r.rest)

(* A success that leaves the input as it was is met again and again *)
foldL(p, acc, s) ==
  LET r == Run(p, s)
  IN IF r.st = "nullopt" THEN Some(acc, s)
     ELSE IF ~Ok(r) THEN r
     ELSE IF r.rest = s THEN Loops
     ELSE foldL(p, acc \o r.val, r.rest)

atLeastZeroMutant(p, s) == foldL(p, << >>, s)   \* mutant: no first p is asked for

atLeast(p, s) == LET r == Run(p, s) IN IF ~Ok(r) THEN r ELSE foldL(p, r.val, r.rest)

option(p, s) == LET r == Run(p, s) IN IF r.st = "nullopt" THEN Some(<< >>, s) ELSE r

Run(e, s) == CASE e[1] = "char"    -> makeCharParser(e[2], s)
               [] e[1] = "int"     -> intParser(s)
               [] e[1] = "combine" -> combine(e[2], e[3], s)
               [] e[1] = "atLeast" -> atLeast(e[2], s)
               [] e[1] = "option"  -> option(e[2], s)
-----------------------------------------------------------------------------
Leaves == {<<"char", c>> : c \in Chars} \cup {<<"int">>}
Over(S) == S \cup {<<k, e>> : k \in {"atLeast", "option"}, e \in S}
             \cup {<<"combine", d, e>> : d \in S, e \in S}
Expressions == CASE Depth = 0 -> Leaves [] Depth = 1 -> Over(Leaves) [] Depth = 2 -> Over(Over(Leaves))

Inputs == UNION {[1..n -> Chars] : n \in 0..MaxInput}

Init == parser = <<"int">> /\ input = << >> /\ result = NotYet

Call == /\ result = NotYet
        /\ parser' \in Expressions
        /\ input' \in Inputs
        /\ result' = Run(parser', input')

Next == Call

Spec == Init /\ [][Next]_vars
-----------------------------------------------------------------------------
RECURSIVE Uses(_, _), Unconsuming(_)
Uses(e, k) == e[1] = k \/ (e[1] \in {"atLeast", "option"} /\ Uses(e[2], k))
                       \/ (e[1] = "combine" /\ (Uses(e[2], k) \/ Uses(e[3], k)))

(* may succeed and consume nothing *)
Unconsuming(e) == \/ e[1] \in {"int", "option"}
                  \/ e[1] = "atLeast" /\ Unconsuming(e[2])
                  \/ e[1] = "combine" /\ Unconsuming(e[2]) /\ Unconsuming(e[3])

(* the inputs, up to MaxInput long, a parser expression without int describes *)
RECURSIVE Language(_)
Language(e) ==
  CASE e[1] = "char" -> {<<e[2]>>}
    [] e[1] = "int" -> {<< >>}
    [] e[1] = "option" -> Language(e[2]) \cup {<< >>}
    [] e[1] = "combine" -> {s \in Inputs : \E i \in 0..Len(s) :
                              SubSeq(s, 1, i) \in Language(e[2]) /\ SubSeq(s, i + 1, Len(s)) \in Language(e[3])}
    [] e[1] = "atLeast" ->
         LET One == Language(e[2])
             RECURSIVE Repeated(_)
             Repeated(s) == s \in One \/ \E i \in 1..(Len(s) - 1) :
                                           SubSeq(s, 1, i) \in One /\ Repeated(SubSeq(s, i + 1, Len(s)))
         IN {s \in Inputs : Repeated(s)}

(* What a parser has consumed is a word of its language and the rest of the input   *)
(* is untouched; without int, the values it concatenates are that word: no           *)
(* combinator loses, repeats or swaps a part of the input.                           *)
ConsumesAWord ==
  Ok(result) =>
    LET word == SubSeq(input, 1, Len(input) - Len(result.rest))
    IN /\ input = word \o result.rest
       /\ word \in Language(parser)
       /\ ~Uses(parser, "int") => result.val = word

(* atLeast is greedy: it does not stop where one more p would succeed               *)
Greedy == Ok(result) /\ parser[1] = "atLeast" => Run(parser[2], result.rest).st = "nullopt"

(* foldL loops for ever only on a parser that can succeed without consuming: an      *)
(* option, or intParser, which leaves its digits in the input.                       *)
RECURSIVE RepeatsUnconsuming(_)
RepeatsUnconsuming(e) == \/ e[1] = "atLeast" /\ Unconsuming(e[2])
                         \/ e[1] \in {"atLeast", "option"} /\ RepeatsUnconsuming(e[2])
                         \/ e[1] = "combine" /\ (RepeatsUnconsuming(e[2]) \/ RepeatsUnconsuming(e[3]))
LoopsOnlyUnconsuming == result.st = "loops" => RepeatsUnconsuming(parser)

(* A parser consumes a word of its language, as far as it goes, and ends.                *)
Safety == ConsumesAWord /\ Greedy /\ LoopsOnlyUnconsuming
=============================================================================
