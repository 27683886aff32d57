----------------------------- MODULE JsonParser ------------------------------
(* application/json_parser.cpp: the recursive-descent parser, the generator and  *)
(* the edits main() makes on the Node it has read.  A text is a sequence of      *)
(* characters; the keywords null, true and false count as one character each,    *)
(* every letter that begins none of them as "a", and no exponent is written.     *)
EXTENDS Naturals, Sequences, FiniteSetsExt, SequencesExt

CONSTANTS Alphabet,    \* characters of the arbitrary texts
          MaxText,     \* their length
          Written,     \* values that are spelled out and read back
          Keys,        \* keys the program edits
          Puts,        \* values it puts there
          MaxEdits,    \* number of edits
          IntDigits,   \* digits of the largest number stoi() takes
          Decimals     \* decimals std::to_string(double) writes

Digits == {"0", "1"}

VARIABLES text,     \* json_str, what parser() was given
          result,   \* what parser() gave: see Value, Nullopt, Throws and Undefined
          meant,    \* the value whose spelling text is, if it is one
          edits     \* edits so far

vars == <<text, result, meant, edits>>

Null     == [null |-> TRUE]
Integer(n) == [int |-> n]                  \* sign and digits
Float(i, f) == [whole |-> i, fraction |-> f]
Str(s)   == [str |-> s]
Arr(a)   == [arr |-> a]
Obj(f)   == [obj |-> f]

Is(kind, x) == kind \in DOMAIN x

Value(x, p)  == [st |-> "value", val |-> x, pos |-> p]
Nullopt(p)   == [st |-> "nullopt", val |-> Null, pos |-> p]
Throws       == [st |-> "throws", val |-> Null, pos |-> 1]
Undefined    == [st |-> "undefined", val |-> Null, pos |-> 1]
NotYet       == [st |-> "not yet", val |-> Null, pos |-> 1]

IsValue(r) == r.st = "value"
-----------------------------------------------------------------------------
(* The characters at p and after it as long as they are in S end before End(s, p, S) *)
End(s, p, S) == LET rest == {q \in p..Len(s) : s[q] \notin S}
                IN IF rest # {} THEN Min(rest)
                   ELSE IF p > Len(s) THEN p ELSE Len(s) + 1

At(s, p, c) == p <= Len(s) /\ s[p] = c

NoWhitespaceMutant(s, p) == p          \* mutant: nothing is skipped

parse_whitespace(s, p) == End(s, p, {" "})

SkipAlwaysMutant(s, p, c) == parse_whitespace(s, p + 1)   \* mutant: whatever is there

(* ',' and ':' are skipped where they are and not missed where they are not *)
Skip(s, p, c) == parse_whitespace(s, IF At(s, p, c) THEN p + 1 ELSE p)

DropZeros(n) == LET q == End(n, 1, {"0"})
                IN IF n # << >> /\ q > Len(n) THEN <<"0">> ELSE SubSeq(n, q, Len(n))
DropTrailing(f) == Reverse(SubSeq(Reverse(f), End(Reverse(f), 1, {"0"}), Len(f)))

(* stoi() of digits: it throws for none and for too many *)
Stoi(n, p) == IF n = << >> \/ Len(DropZeros(n)) > IntDigits THEN Nullopt(p)
              ELSE Value(Integer(DropZeros(n)), p)

(* stod() reads up to a second point; it throws for a point without a digit *)
Stod(n, p) ==
  LET dot  == Min({q \in 1..Len(n) : n[q] = "."})
      last == End(n, dot + 1, Digits) - 1
      i == SubSeq(n, 1, dot - 1)
      f == SubSeq(n, dot + 1, last)
  IN IF i \o f = << >> THEN Nullopt(p)
     ELSE Value(Float(DropZeros(IF i = << >> THEN <<"0">> ELSE i), DropTrailing(f)), p)

parse_number(s, p) ==
  LET e == End(s, p, Digits \cup {"."})
      n == SubSeq(s, p, e - 1)
  IN IF Contains(n, ".") THEN Stod(n, e) ELSE Stoi(n, e)

(* The loop tests pos where it moves endpos: with no closing quote it reads past   *)
(* the text, except that a quote at the very end is an empty string.               *)
parse_string(s, p) ==
  LET close == End(s, p + 1, Alphabet \ {"\""})
  IN IF p + 1 > Len(s) THEN Value(Str(<< >>), p + 2)
     ELSE IF close > Len(s) THEN Undefined
     ELSE Value(Str(SubSeq(s, p + 1, close - 1)), close + 1)

Keyword(c) == IF c = "null" THEN Null ELSE [bool |-> c = "true"]

RECURSIVE parse_value(_, _), parse_array(_, _, _), parse_object(_, _, _)

(* the loop of parse_array() at p: an element that is no value throws, in value() *)
parse_array(s, p, arr) ==
  IF p > Len(s) \/ At(s, p, "]") THEN Value(Arr(arr), p + 1)
  ELSE LET x == parse_value(s, p)
       IN IF IsValue(x)
          THEN parse_array(s, Skip(s, parse_whitespace(s, x.pos), ","), Append(arr, x.val))
          ELSE IF x.st = "nullopt" THEN Throws ELSE x

Put(f, k, x) == [j \in DOMAIN f \cup {k} |-> IF j = k THEN x ELSE f[j]]

parse_object(s, p, f) ==
  IF p > Len(s) \/ At(s, p, "}") THEN Value(Obj(f), p + 1)
  ELSE LET k == parse_value(s, p)
           x == parse_value(s, Skip(s, parse_whitespace(s, k.pos), ":"))
       IN IF k.st = "nullopt" THEN Throws
          ELSE IF ~IsValue(k) THEN k
          ELSE IF ~Is("str", k.val) THEN Nullopt(k.pos)
          ELSE IF IsValue(x)
          THEN parse_object(s, Skip(s, parse_whitespace(s, x.pos), ","), Put(f, k.val.str, x.val))
          ELSE IF x.st = "nullopt" THEN Throws ELSE x

(* json_str[pos] at the end of the text is undefined *)
parse_value(s, p) ==
  LET q == parse_whitespace(s, p)
  IN IF q > Len(s) THEN Undefined
     ELSE CASE s[q] \in {"null", "true", "false"} -> Value(Keyword(s[q]), q + 1)
            [] s[q] = "\"" -> parse_string(s, q)
            [] s[q] = "[" -> parse_array(s, q + 1, << >>)
            [] s[q] = "{" -> parse_object(s, q + 1, << >>)
            [] OTHER -> parse_number(s, q)

(* parser(): what follows the value is not looked at *)
parser(s) == parse_value(s, parse_whitespace(s, 1))
-----------------------------------------------------------------------------
FixedShortMutant(x) == x.whole \o <<".">> \o      \* mutant: a decimal is missing
  [d \in 1..Decimals - 1 |-> IF d <= Len(x.fraction) THEN x.fraction[d] ELSE "0"]

(* std::to_string of a double *)
Fixed(x) == x.whole \o <<".">> \o
            [d \in 1..Decimals |-> IF d <= Len(x.fraction) THEN x.fraction[d] ELSE "0"]

generate_string(s) == <<"\"">> \o s \o <<"\"">>

Joined(parts) == IF parts = << >> THEN << >>
                 ELSE FoldLeft(LAMBDA a, b : a \o <<",">> \o b, Head(parts), Tail(parts))

RECURSIVE generate(_)

generate_array(a) == <<"[">> \o Joined([i \in 1..Len(a) |-> generate(a[i])]) \o <<"]">>

generate_object(f) ==
  LET keys == SetToSeq(DOMAIN f)
  IN <<"{">> \o Joined([i \in 1..Len(keys) |->
                          generate_string(keys[i]) \o <<":">> \o generate(f[keys[i]])]) \o <<"}">>

generate(x) == CASE Is("null", x) -> <<"null">>
                 [] Is("bool", x) -> <<IF x.bool THEN "true" ELSE "false">>
                 [] Is("int", x) -> x.int
                 [] Is("whole", x) -> Fixed(x)
                 [] Is("str", x) -> generate_string(x.str)
                 [] Is("arr", x) -> generate_array(x.arr)
                 [] Is("obj", x) -> generate_object(x.obj)
-----------------------------------------------------------------------------
Init ==
  /\ text = << >>
  /\ result = NotYet
  /\ meant = NotYet
  /\ edits = 0

(* parser() is given any text at all *)
Read ==
  /\ result = NotYet
  /\ \E n \in 0..MaxText : \E s \in [1..n -> Alphabet] : text' = s /\ result' = parser(s)
  /\ UNCHANGED <<meant, edits>>

Marks == {",", ":", "[", "]", "{", "}"}

(* A text with white space wherever JSON allows it *)
Spaced(s, pad) == FoldLeft(LAMBDA t, c : t \o (IF c \in Marks THEN pad \o <<c>> \o pad ELSE <<c>>),
                           pad, s) \o pad

(* parser() is given the spelling of a value *)
ReadWritten ==
  /\ result = NotYet
  /\ \E x \in Written, pad \in {<< >>, <<" ">>} :
       /\ text' = Spaced(generate(x), pad)
       /\ result' = parser(text')
       /\ meant' = Value(x, 1)
  /\ UNCHANGED edits

Edited(r) == /\ result' = r
             /\ edits' = edits + 1
             /\ text' = << >>
             /\ meant' = NotYet

(* operator[](key): on anything but an object it throws; a new key is a Null *)
Member(k) == IF k \in DOMAIN result.val.obj THEN result.val.obj[k] ELSE Null

Editable == IsValue(result) /\ edits < MaxEdits

WithMember(k, y) == Value(Obj(Put(result.val.obj, k, y)), 1)

Edit(k, y) == Editable /\ Edited(IF Is("obj", result.val) THEN WithMember(k, y) ELSE Throws)

(* x[k] = {y} *)
Assign(k, y) == Edit(k, y)

(* x[k].push(y) does nothing unless x[k] is an array, except that x[k] then exists *)
Pushed(k, y) == IF Is("arr", Member(k)) THEN Arr(Append(Member(k).arr, y)) ELSE Member(k)
push(k, y) == Editable /\ IF Is("obj", result.val) THEN Edit(k, Pushed(k, y)) ELSE Edited(Throws)

(* x[k][i].push(y): operator[](index) gives a copy, nothing of x changes *)
PushIntoCopy(k, i) ==
  /\ Editable
  /\ Edited(IF Is("obj", result.val)
               /\ Is("arr", Member(k)) /\ i \in DOMAIN Member(k).arr
            THEN result ELSE Throws)

Next == \/ Read \/ ReadWritten
        \/ \E k \in Keys : \/ \E y \in Puts : Assign(k, y) \/ push(k, y)
                           \/ \E i \in 1..2 : PushIntoCopy(k, i)

Spec == Init /\ [][Next]_vars
-----------------------------------------------------------------------------
TypeOK ==
  /\ DOMAIN result = {"st", "val", "pos"}
  /\ result.st \in {"value", "nullopt", "throws", "undefined", "not yet"}
  /\ meant.st \in {"value", "not yet"}
  /\ edits \in 0..MaxEdits

RECURSIVE HasEmpty(_)
HasEmpty(x) ==
  CASE Is("arr", x) -> x.arr = << >> \/ \E i \in DOMAIN x.arr : HasEmpty(x.arr[i])
    [] Is("obj", x) -> DOMAIN x.obj = {} \/ \E k \in DOMAIN x.obj : HasEmpty(x.obj[k])
    [] OTHER -> FALSE

(* A text that spells a value is read back as that value, with and without white space,  *)
(* unless it has white space inside of an empty array or object, at any depth: nothing    *)
(* skips that before the closing bracket is looked for, so the parser throws.  Nowhere    *)
(* else does a branch of the grammar skip or stop a character too soon.                   *)
ReadsWhatWasWritten ==
  IsValue(meant) =>
    IF HasEmpty(meant.val) /\ text # generate(meant.val) THEN result = Throws
    ELSE IsValue(result) /\ result.val = meant.val

(* What can be written so that it is read back: no sign, no number stoi() refuses, *)
(* no decimal to_string() drops, no quote in a string, at any depth.               *)
RECURSIVE Faithful(_)
Faithful(x) ==
  CASE Is("int", x) -> "-" \notin ToSet(x.int) /\ Len(x.int) <= IntDigits
    [] Is("whole", x) -> Len(x.fraction) <= Decimals
    [] Is("str", x) -> "\"" \notin ToSet(x.str)
    [] Is("arr", x) -> \A i \in DOMAIN x.arr : Faithful(x.arr[i])
    [] Is("obj", x) -> \A k \in DOMAIN x.obj : "\"" \notin ToSet(k) /\ Faithful(x.obj[k])
    [] OTHER -> TRUE

(* After any edits, what generate() prints of x is read back as x if and only if   *)
(* every part of it can be: the parser and the generator disagree nowhere else.     *)
RoundTrip ==
  IsValue(result) => (parser(generate(result.val)) = Value(result.val, Len(generate(result.val)) + 1)
                        <=> Faithful(result.val))

Quotes(s) == {i \in DOMAIN s : s[i] = "\""}
Count(s, c) == Cardinality({i \in DOMAIN s : s[i] = c /\ Cardinality(Quotes(s) \cap 1..i) % 2 = 0})

(* The parser reads outside its text only for one that ends too early: a blank one, *)
(* or one whose quotes, brackets or braces do not match.                             *)
UndefinedOnlyTruncated ==
  result.st = "undefined" =>
    \/ ToSet(text) \subseteq {" "}
    \/ Cardinality(Quotes(text)) % 2 = 1
    \/ Count(text, "[") > Count(text, "]")
    \/ Count(text, "{") > Count(text, "}")

(* Parser and generator agree where they can, and no text but a truncated one is read     *)
(* past its end.                                                                       *)
Safety == ReadsWhatWasWritten /\ RoundTrip /\ UndefinedOnlyTruncated
=============================================================================
