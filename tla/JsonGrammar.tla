----------------------------- MODULE JsonGrammar -----------------------------
(***************************************************************************)
(* What a JSON text is: the grammar of RFC 8259 over sequences of bytes,   *)
(* apart from src/setup/json.hpp, whose lexer and parser are compared with *)
(* it.  It says of a text whether it can be divided as the grammar divides *)
(* it, and computes no value.                                              *)
(*                                                                         *)
(* Two texts of the grammar are left out, both where the RFC lets a parser *)
(* choose: a number too large for the reader's floats (section 6), and an  *)
(* escape that is half of a surrogate pair (section 8.2).                  *)
(***************************************************************************)
EXTENDS Integers, Sequences, SequencesExt

CONSTANT MaxExp    \* a number below 10^MaxExp is in the reader's range

Blank == {9, 10, 13, 32}
Digit == 48 .. 57
HexDigits == Digit \cup (65 .. 70) \cup (97 .. 102)
Quote == 34
Slash == 92        \* the reverse solidus of an escape
Sign == {43, 45}
Exponent == {69, 101}
Literal == {<<116, 114, 117, 101>>, <<102, 97, 108, 115, 101>>, <<110, 117, 108, 108>>}

Trim(s) ==
    LET black == {i \in DOMAIN s : s[i] \notin Blank}
        first == CHOOSE i \in black : \A j \in black : i <= j
        last == CHOOSE i \in black : \A j \in black : i >= j
    IN IF black = {} THEN <<>> ELSE SubSeq(s, first, last)
Inner(s) == SubSeq(s, 2, Len(s) - 1)
Left(s, i) == Trim(SubSeq(s, 1, i - 1))
Right(s, i) == Trim(SubSeq(s, i + 1, Len(s)))
Enclosed(s, open, close) == Len(s) > 1 /\ s[1] = open /\ s[Len(s)] = close

-----------------------------------------------------------------------------
(* Numbers: an integer part, a fraction and an exponent                    *)

AllDigits(s) == s # <<>> /\ \A i \in DOMAIN s : s[i] \in Digit
IsInteger(s) == AllDigits(s) /\ (Len(s) = 1 \/ s[1] # 48)
IsFraction(s) == s = <<>> \/ (s[1] = 46 /\ AllDigits(Tail(s)))
Unsigned(s) == IF s # <<>> /\ s[1] \in Sign THEN Tail(s) ELSE s
IsExponent(s) == s = <<>> \/ (s[1] \in Exponent /\ AllDigits(Unsigned(Tail(s))))

\* The number is 0 or at least 10^(power - 1), power counted from its first
\* digit that is not 0.
InRange(int, frac, exp) ==
    LET digits == int \o (IF frac = <<>> THEN <<>> ELSE Tail(frac))
        used == {i \in DOMAIN digits : digits[i] # 48}
        first == CHOOSE i \in used : \A j \in used : i <= j
        size == FoldLeft(LAMBDA n, c : 10 * n + c - 48, 0, IF exp = <<>> THEN exp ELSE Unsigned(Tail(exp)))
        shift == IF Len(exp) > 1 /\ exp[2] = 45 THEN -size ELSE size
    IN used # {} => Len(int) - first + 1 + shift <= MaxExp

IsNumber(s) ==
    LET body == IF s # <<>> /\ s[1] = 45 THEN Tail(s) ELSE s
        part(i, j) == SubSeq(body, i, j)
    IN \E i \in DOMAIN body : \E j \in i .. Len(body) :
          LET int == part(1, i)
              frac == part(i + 1, j)
              exp == part(j + 1, Len(body))
          IN IsInteger(int) /\ IsFraction(frac) /\ IsExponent(exp) /\ InRange(int, frac, exp)

-----------------------------------------------------------------------------
(* Strings                                                                 *)

\* The code point of a UTF-8 sequence is in the range its length is for.
IsUtf8(s) ==
    LET n == Len(s)
        lead == CASE n = 2 -> s[1] - 192 [] n = 3 -> s[1] - 224 [] OTHER -> s[1] - 240
        cp == FoldLeft(LAMBDA c, b : 64 * c + b - 128, lead, Tail(s))
    IN /\ n \in 2 .. 4 /\ lead >= 0
       /\ \A i \in 2 .. n : s[i] \in 128 .. 191
       /\ CASE n = 2 -> cp \in 128 .. 2047
            [] n = 3 -> cp \in (2048 .. 65535) \ (55296 .. 57343)
            [] OTHER -> cp \in 65536 .. 1114111

\* Escapes of a code unit by its hexadecimal digits: D8 to DB begin the first
\* half of a surrogate pair, DC to DF the second.
IsUnit(s) == Len(s) = 6 /\ s[1] = Slash /\ s[2] = 117 /\ \A i \in 3 .. 6 : s[i] \in HexDigits
InD(s, digits) == s[3] \in {68, 100} /\ s[4] \in digits
IsHigh(s) == IsUnit(s) /\ InD(s, {56, 57, 65, 66, 97, 98})
IsLow(s) == IsUnit(s) /\ InD(s, (67 .. 70) \cup (99 .. 102))

IsChar(s) ==
    \/ Len(s) = 1 /\ s[1] \in (32 .. 127) \ {Quote, Slash}
    \/ IsUtf8(s)
    \/ Len(s) = 2 /\ s[1] = Slash /\ s[2] \in {34, 47, 92, 98, 102, 110, 114, 116}
    \/ IsUnit(s) /\ ~IsHigh(s) /\ ~IsLow(s)
    \/ Len(s) = 12 /\ IsHigh(SubSeq(s, 1, 6)) /\ IsLow(SubSeq(s, 7, 12))

RECURSIVE IsChars(_)
IsChars(s) ==
    s # <<>> => \E n \in DOMAIN s : IsChar(SubSeq(s, 1, n)) /\ IsChars(SubSeq(s, n + 1, Len(s)))
IsString(s) == Enclosed(s, Quote, Quote) /\ IsChars(Inner(s))

-----------------------------------------------------------------------------
(* Values, without blanks around them                                      *)

RECURSIVE IsValue(_), IsElements(_), IsMembers(_)
IsValue(s) ==
    \/ s \in Literal \/ IsNumber(s) \/ IsString(s)
    \/ Enclosed(s, 91, 93) /\ (Trim(Inner(s)) = <<>> \/ IsElements(Inner(s)))
    \/ Enclosed(s, 123, 125) /\ (Trim(Inner(s)) = <<>> \/ IsMembers(Inner(s)))
IsElements(s) ==
    \/ IsValue(Trim(s))
    \/ \E i \in DOMAIN s : s[i] = 44 /\ IsValue(Left(s, i)) /\ IsElements(SubSeq(s, i + 1, Len(s)))
IsMembers(s) ==
    \E i \in DOMAIN s :
        /\ s[i] = 58 /\ IsString(Left(s, i))
        /\ \/ IsValue(Right(s, i))
           \/ \E j \in i + 1 .. Len(s) :
                 /\ s[j] = 44 /\ IsValue(Trim(SubSeq(s, i + 1, j - 1)))
                 /\ IsMembers(SubSeq(s, j + 1, Len(s)))

\* A parser may ignore a byte order mark (section 8.1).
Unmarked(s) == IF IsPrefix(<<239, 187, 191>>, s) THEN SubSeq(s, 4, Len(s)) ELSE s

IsText(s) == IsValue(Trim(Unmarked(s)))
=============================================================================
