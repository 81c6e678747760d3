------------------------------ MODULE JsonText ------------------------------
(***************************************************************************)
(* Reading and writing JSON, as the Orchestrator does with its input and   *)
(* its action table, and the configure agent with port_leaf_map.json: the  *)
(* lexer, the parser and the serializer of src/setup/json.hpp.             *)
(*                                                                         *)
(* A text is a sequence of bytes.  A number_float is a decimal: a sign,    *)
(* digits without leading or trailing zeros, a power of ten; one of at     *)
(* most 15 digits comes back from a double as it is.  The widths of the    *)
(* integers and the range of the floats are constants.                     *)
(***************************************************************************)
EXTENDS Integers, Sequences, SequencesExt

CONSTANTS
    UMax,          \* the largest number_unsigned_t
    IMax,          \* the largest number_integer_t
    MaxExp         \* a float below 10^MaxExp is finite

ASSUME WidthAssumption == IMax \in Nat /\ UMax = 2 * IMax + 1 /\ MaxExp \in Nat \ {0}

EOF == -1
QUOTE == 34
MINUS == 45
BACKSLASH == 92

-----------------------------------------------------------------------------
(* Values: basic_json's m_type and m_value                                 *)

Null == [t |-> "null"]
Bool(b) == [t |-> "boolean", b |-> b]
Unsigned(n) == [t |-> "unsigned", n |-> n]
Signed(n) == [t |-> "integer", n |-> n]
Float(neg, d, e) == [t |-> "float", neg |-> neg, d |-> d, e |-> e]
Str(s) == [t |-> "string", s |-> s]
Array(a) == [t |-> "array", a |-> a]
Object(o) == [t |-> "object", o |-> o]
IsNumber(v) == v.t \in {"unsigned", "integer", "float"}

Digits(n) ==
    LET D[m \in Nat] == IF m < 10 THEN <<m>> ELSE Append(D[m \div 10], m % 10) IN D[n]
Decimal(d) == FoldLeft(LAMBDA n, x : 10 * n + x, 0, d)

\* A decimal without its outer zeros.
Normal(neg, d, e) ==
    LET used == {i \in DOMAIN d : d[i] # 0}
        first == CHOOSE i \in used : \A j \in used : i <= j
        last == CHOOSE i \in used : \A j \in used : i >= j
    IN IF used = {} THEN Float(neg, <<>>, 0)
       ELSE Float(neg, SubSeq(d, first, last), e + Len(d) - last)

\* static_cast to number_float_t and to number_integer_t
AsFloat(v) == IF v.t = "float" THEN v
              ELSE Normal(v.n < 0, Digits(IF v.n < 0 THEN -v.n ELSE v.n), 0)
AsInt(v) == IF v.n > IMax THEN v.n - UMax - 1 ELSE v.n

RECURSIVE Equal(_, _)
Equal(v, w) ==
    \/ /\ IsNumber(v) /\ IsNumber(w)
       /\ IF "float" \in {v.t, w.t}
          THEN \/ AsFloat(v) = AsFloat(w)
               \/ AsFloat(v).d = <<>> /\ AsFloat(w).d = <<>>
          ELSE IF v.t = w.t THEN v.n = w.n ELSE AsInt(v) = AsInt(w)
    \/ /\ v.t = w.t /\ ~IsNumber(v)
       /\ CASE v.t = "array" -> /\ Len(v.a) = Len(w.a)
                                /\ \A i \in DOMAIN v.a : Equal(v.a[i], w.a[i])
            [] v.t = "object" -> /\ DOMAIN v.o = DOMAIN w.o
                                 /\ \A k \in DOMAIN v.o : Equal(v.o[k], w.o[k])
            [] OTHER -> v = w

-----------------------------------------------------------------------------
(* The lexer                                                               *)

At(s, i) == IF i <= Len(s) THEN s[i] ELSE EOF

Token(type, val, next) == [type |-> type, val |-> val, next |-> next]
ParseError == Token("parse_error", Null, 0)

\* Both adapters skip a byte order mark, and nothing else.
Start(s) == IF At(s, 1) = 239 /\ At(s, 2) = 187 /\ At(s, 3) = 191 THEN 4 ELSE 1

ScanLiteral(s, i, text, v) ==
    IF \A j \in DOMAIN text : At(s, i + j - 1) = text[j]
    THEN Token("value", v, i + Len(text)) ELSE ParseError

\* The bytes that must follow a byte of a string, as ranges; Nothing for one
\* that may not begin a character.
Nothing == <<<<EOF>>>>
Follow(c) ==
    LET any == <<128, 191>> IN
    CASE c \in (32 .. 127) \ {QUOTE, BACKSLASH} -> <<>>
      [] c \in 194 .. 223 -> <<any>>
      [] c = 224 -> <<<<160, 191>>, any>>
      [] c \in (225 .. 239) \ {237} -> <<any, any>>
      [] c = 237 -> <<<<128, 159>>, any>>
      [] c = 240 -> <<<<144, 191>>, any, any>>
      [] c \in 241 .. 243 -> <<any, any, any>>
      [] c = 244 -> <<<<128, 143>>, any, any>>
      [] OTHER -> Nothing

InRange(s, i, ranges) ==
    ranges # Nothing /\ \A j \in DOMAIN ranges : At(s, i + j) \in ranges[j][1] .. ranges[j][2]

\* One step of scan_string: the bytes it reads and those it adds.
Piece(n, add) == [n |-> n, add |-> add]
NoPiece == Piece(0, <<>>)

HexDigit(c) == CASE c \in 48 .. 57 -> c - 48 [] c \in 65 .. 70 -> c - 55
                 [] c \in 97 .. 102 -> c - 87 [] OTHER -> -1
Codepoint(s, i) ==
    LET h(j) == HexDigit(At(s, i + j))
    IN IF \E j \in 0 .. 3 : h(j) = -1 THEN -1
       ELSE 4096 * h(0) + 256 * h(1) + 16 * h(2) + h(3)

Utf8(c) ==
    LET tail(n) == 128 + ((c \div (64 ^ n)) % 64)
    IN CASE c < 128 -> <<c>>
         [] c \in 128 .. 2047 -> <<192 + c \div 64, tail(0)>>
         [] c \in 2048 .. 65535 -> <<224 + c \div 4096, tail(1), tail(0)>>
         [] OTHER -> <<240 + c \div 262144, tail(2), tail(1), tail(0)>>

HighSurrogate == 55296 .. 56319
LowSurrogate == 56320 .. 57343

\* Bug for TLC: the second half of a pair is not checked.
SurrogatesUnpaired(one, two) ==
    CASE one \in HighSurrogate /\ two # -1 -> Piece(12, Utf8(one * 1024 + two - 56613888))
      [] one # -1 /\ one \notin HighSurrogate -> Piece(6, Utf8(one))
      [] OTHER -> NoPiece

\* \uXXXX, or two of them that are a pair of surrogates; -1 is no code point.
Surrogates(one, two) ==
    CASE one \in HighSurrogate /\ two \in LowSurrogate ->
            Piece(12, Utf8(one * 1024 + two - 56613888))
      [] one # -1 /\ one \notin HighSurrogate /\ one \notin LowSurrogate -> Piece(6, Utf8(one))
      [] OTHER -> NoPiece

Unicode(s, i) ==
    Surrogates(Codepoint(s, i + 2),
               IF At(s, i + 6) = BACKSLASH /\ At(s, i + 7) = 117 THEN Codepoint(s, i + 8) ELSE -1)

Escaped == 34 :> 34 @@ 92 :> 92 @@ 47 :> 47 @@ 98 :> 8 @@ 102 :> 12 @@ 110 :> 10 @@ 114 :> 13 @@ 116 :> 9

Character(s, i) ==
    LET c == At(s, i)
        e == At(s, i + 1)
    IN CASE c = BACKSLASH /\ e = 117 -> Unicode(s, i)
         [] c = BACKSLASH /\ e \in DOMAIN Escaped -> Piece(2, <<Escaped[e]>>)
         [] c # BACKSLASH /\ InRange(s, i, Follow(c)) ->
               Piece(1 + Len(Follow(c)), SubSeq(s, i, i + Len(Follow(c))))
         [] OTHER -> NoPiece

RECURSIVE ScanString(_, _, _), ScanOn(_, _, _, _)
ScanString(s, i, buffer) ==
    IF At(s, i) = QUOTE THEN Token("value", Str(buffer), i + 1)
    ELSE ScanOn(s, i, buffer, Character(s, i))
ScanOn(s, i, buffer, p) ==
    IF p = NoPiece THEN ParseError ELSE ScanString(s, i + p.n, buffer \o p.add)

\* The automaton of scan_number; what it has no move for ends the number.
Class(c) == CASE c = 48 -> "0" [] c \in 49 .. 57 -> "1" [] c \in {69, 101} -> "e"
              [] c = 43 -> "+" [] c = MINUS -> "-" [] c = 46 -> "." [] OTHER -> "other"
Moves ==
    [init     |-> "0" :> "zero" @@ "1" :> "any1" @@ "-" :> "minus",
     minus    |-> "0" :> "zero" @@ "1" :> "any1",
     zero     |-> "." :> "decimal1" @@ "e" :> "exponent",
     any1     |-> "0" :> "any1" @@ "1" :> "any1" @@ "." :> "decimal1" @@ "e" :> "exponent",
     decimal1 |-> "0" :> "decimal2" @@ "1" :> "decimal2",
     decimal2 |-> "0" :> "decimal2" @@ "1" :> "decimal2" @@ "e" :> "exponent",
     exponent |-> "0" :> "any2" @@ "1" :> "any2" @@ "+" :> "sign" @@ "-" :> "sign",
     sign     |-> "0" :> "any2" @@ "1" :> "any2",
     any2     |-> "0" :> "any2" @@ "1" :> "any2"]
Done == {"zero", "any1", "decimal2", "any2"}

RECURSIVE NumberEnd(_, _, _)
NumberEnd(s, i, q) ==
    IF Class(At(s, i)) \in DOMAIN Moves[q] THEN NumberEnd(s, i + 1, Moves[q][Class(At(s, i))])
    ELSE IF q \in Done THEN i ELSE 0

\* strtoull, strtoll, and strtod for what is no integer or does not fit
NumberOf(text) ==
    LET neg == text[1] = MINUS
        where(cs) == {i \in DOMAIN text : text[i] \in cs}
        end == IF where({69, 101}) = {} THEN Len(text) + 1 ELSE CHOOSE i \in where({69, 101}) : TRUE
        num(a, b) == LET ds == SelectSeq(SubSeq(text, a, b), LAMBDA c : c \in 48 .. 57)
                     IN [i \in DOMAIN ds |-> ds[i] - 48]
        d == num(1, end - 1)
        fraction == IF where({46}) = {} THEN 0 ELSE end - 1 - (CHOOSE i \in where({46}) : TRUE)
        exponent == Decimal(num(end + 1, Len(text))) * (IF At(text, end + 1) = MINUS THEN -1 ELSE 1)
        float == where({46, 69, 101}) # {}
    IN CASE ~float /\ ~neg /\ Decimal(d) <= UMax -> Unsigned(Decimal(d))
         [] ~float /\ neg /\ Decimal(d) <= IMax + 1 -> Signed(-Decimal(d))
         [] OTHER -> Normal(neg, d, exponent - fraction)

ScanNumber(s, i) ==
    LET j == NumberEnd(s, i, "init")
    IN IF j = 0 THEN ParseError ELSE Token("value", NumberOf(SubSeq(s, i, j - 1)), j)

Structural == 91 :> "[" @@ 93 :> "]" @@ 123 :> "{" @@ 125 :> "}" @@ 58 :> ":" @@ 44 :> ","
White == {32, 9, 10, 13}
TrueText == <<116, 114, 117, 101>>
FalseText == <<102, 97, 108, 115, 101>>
NullText == <<110, 117, 108, 108>>

RECURSIVE Scan(_, _)
Scan(s, i) ==
    LET c == At(s, i) IN
    CASE c \in White -> Scan(s, i + 1)
      [] c \in DOMAIN Structural -> Token(Structural[c], Null, i + 1)
      [] c = 116 -> ScanLiteral(s, i, TrueText, Bool(TRUE))
      [] c = 102 -> ScanLiteral(s, i, FalseText, Bool(FALSE))
      [] c = 110 -> ScanLiteral(s, i, NullText, Null)
      [] c = QUOTE -> ScanString(s, i + 1, <<>>)
      [] c \in (48 .. 57) \cup {MINUS} -> ScanNumber(s, i)
      [] c \in {0, EOF} -> Token("end_of_input", Null, i)
      [] OTHER -> ParseError

-----------------------------------------------------------------------------
(* The parser: each operator is given the token last read, and answers with *)
(* the value and the place of the next token, or Failed.  No callback.      *)

Parsed(v, next) == [v |-> v, next |-> next]
Failed == Parsed(Null, 0)
NoMembers == [k \in {} |-> Null]

\* strtod gives infinity for what is no finite double
Finite(v) == v.t = "float" => Len(v.d) + v.e <= MaxExp

RECURSIVE ParseInternal(_, _), Members(_, _, _), Elements(_, _, _)
OpenObject(s, next) ==
    IF next.type = "}" THEN Parsed(Object(NoMembers), next.next) ELSE Members(s, next, NoMembers)
OpenArray(s, next) ==
    IF next.type = "]" THEN Parsed(Array(<<>>), next.next) ELSE Elements(s, next, <<>>)
ParseInternal(s, tok) ==
    CASE tok.type = "{" -> OpenObject(s, Scan(s, tok.next))
      [] tok.type = "[" -> OpenArray(s, Scan(s, tok.next))
      [] tok.type = "value" /\ Finite(tok.val) -> Parsed(tok.val, tok.next)
      [] OTHER -> Failed

\* emplace keeps the first of two members of a name.
MemberEnd(s, members, sep) ==
    CASE sep.type = "," -> Members(s, Scan(s, sep.next), members)
      [] sep.type = "}" -> Parsed(Object(members), sep.next)
      [] OTHER -> Failed
MemberValue(s, name, o, value) ==
    IF value.next = 0 THEN Failed
    ELSE MemberEnd(s, o @@ (name :> value.v), Scan(s, value.next))
MemberColon(s, name, o, colon) ==
    IF colon.type # ":" THEN Failed
    ELSE MemberValue(s, name, o, ParseInternal(s, Scan(s, colon.next)))
Members(s, tok, o) ==
    IF ~(tok.type = "value" /\ tok.val.t = "string") THEN Failed
    ELSE MemberColon(s, tok.val.s, o, Scan(s, tok.next))

ElementEnd(s, a, sep) ==
    CASE sep.type = "," -> Elements(s, Scan(s, sep.next), a)
      [] sep.type = "]" -> Parsed(Array(a), sep.next)
      [] OTHER -> Failed
ElementValue(s, a, value) ==
    IF value.next = 0 THEN Failed ELSE ElementEnd(s, Append(a, value.v), Scan(s, value.next))
Elements(s, tok, a) == ElementValue(s, a, ParseInternal(s, tok))

\* json::parse reads the whole text, operator>> only one value of it.
Parse(s, strict) ==
    LET r == ParseInternal(s, Scan(s, Start(s)))
    IN IF r.next # 0 /\ strict /\ Scan(s, r.next).type # "end_of_input" THEN Failed ELSE r

\* accept: the same way through the text, and only the place behind it.
RECURSIVE AcceptInternal(_, _), AcceptMembers(_, _), AcceptElements(_, _)
AcceptOpen(s, next, object) ==
    CASE object /\ next.type = "}" -> next.next
      [] ~object /\ next.type = "]" -> next.next
      [] OTHER -> IF object THEN AcceptMembers(s, next) ELSE AcceptElements(s, next)
AcceptInternal(s, tok) ==
    CASE tok.type \in {"{", "["} -> AcceptOpen(s, Scan(s, tok.next), tok.type = "{")
      [] tok.type = "value" /\ Finite(tok.val) -> tok.next
      [] OTHER -> 0

AcceptEnd(s, sep, object) ==
    CASE sep.type = "," -> IF object THEN AcceptMembers(s, Scan(s, sep.next))
                           ELSE AcceptElements(s, Scan(s, sep.next))
      [] sep.type = "}" /\ object -> sep.next
      [] sep.type = "]" /\ ~object -> sep.next
      [] OTHER -> 0
AcceptValue(s, end, object) == IF end = 0 THEN 0 ELSE AcceptEnd(s, Scan(s, end), object)
AcceptColon(s, colon) ==
    IF colon.type # ":" THEN 0 ELSE AcceptValue(s, AcceptInternal(s, Scan(s, colon.next)), TRUE)
AcceptMembers(s, tok) ==
    IF ~(tok.type = "value" /\ tok.val.t = "string") THEN 0 ELSE AcceptColon(s, Scan(s, tok.next))
AcceptElements(s, tok) == AcceptValue(s, AcceptInternal(s, tok), FALSE)

Accept(s) ==
    LET end == AcceptInternal(s, Scan(s, Start(s)))
    IN end # 0 /\ Scan(s, end).type = "end_of_input"
=============================================================================
