------------------------------ MODULE JsonDump ------------------------------
(***************************************************************************)
(* The serializer of src/setup/json.hpp: what operator<< and dump write of *)
(* a value, for pretty printing or not, with or without ensure_ascii.  A   *)
(* text that cannot be written (type_error 316) is Thrown.                 *)
(***************************************************************************)
EXTENDS JsonText

CONSTANTS
    IndentStep,    \* blanks per level of pretty printing
    MaxDigits      \* digits10: the longest number written without exponent

ASSUME DumpAssumption == IndentStep \in Nat /\ MaxDigits \in Nat \ {0}

Thrown == <<EOF>>
Text(parts) == IF \E i \in DOMAIN parts : parts[i] = Thrown THEN Thrown ELSE FlattenSeq(parts)

-----------------------------------------------------------------------------
(* UTF-8: the table of decode                                              *)

ACCEPT == 0
REJECT == 1

\* Bug for TLC: E0 is taken for any other lead of three bytes.
ByteTypeLax(c) ==
    CASE c \in 0 .. 127 -> 0 [] c \in 128 .. 143 -> 1 [] c \in 144 .. 159 -> 9
      [] c \in 160 .. 191 -> 7 [] c \in 194 .. 223 -> 2
      [] c \in (224 .. 239) \ {237} -> 3 [] c = 237 -> 4 [] c = 240 -> 11
      [] c \in 241 .. 243 -> 6 [] c = 244 -> 5 [] OTHER -> 8

ByteType(c) ==
    CASE c \in 0 .. 127 -> 0 [] c \in 128 .. 143 -> 1 [] c \in 144 .. 159 -> 9
      [] c \in 160 .. 191 -> 7 [] c \in 194 .. 223 -> 2 [] c = 224 -> 10
      [] c \in (225 .. 239) \ {237} -> 3 [] c = 237 -> 4 [] c = 240 -> 11
      [] c \in 241 .. 243 -> 6 [] c = 244 -> 5 [] OTHER -> 8

\* Where a state goes on a byte type; everywhere else it rejects.
NextState(state, type) ==
    LET cont(ts, q) == IF type \in ts THEN q ELSE REJECT
    IN CASE state = 0 -> <<0, 1, 2, 3, 5, 8, 7, 1, 1, 1, 4, 6>>[type + 1]
         [] state = 2 -> cont({1, 7, 9}, ACCEPT)
         [] state = 3 -> cont({1, 7, 9}, 2)
         [] state = 4 -> cont({7}, 2)
         [] state = 5 -> cont({1, 9}, 2)
         [] state = 6 -> cont({7, 9}, 3)
         [] state = 7 -> cont({1, 7, 9}, 3)
         [] state = 8 -> cont({1}, 3)
         [] OTHER -> REJECT

\* What decode keeps of the first byte: 0xff >> type, of the others six bits
NextCodepoint(state, cp, byte, type) ==
    IF state # ACCEPT THEN (byte % 64) + 64 * cp
    ELSE IF type < 8 THEN byte % (2 ^ (8 - type)) ELSE 0

-----------------------------------------------------------------------------
(* Strings and numbers                                                     *)

HexText(n) ==
    LET digit(d) == IF d < 10 THEN 48 + d ELSE 87 + d
    IN <<BACKSLASH, 117>> \o [i \in 1 .. 4 |-> digit((n \div (16 ^ (4 - i))) % 16)]

ShortEscape == 8 :> 98 @@ 9 :> 116 @@ 10 :> 110 @@ 12 :> 102 @@ 13 :> 114 @@ 34 :> 34 @@ 92 :> 92

Escape(cp, ascii, byte) ==
    CASE cp \in DOMAIN ShortEscape -> <<BACKSLASH, ShortEscape[cp]>>
      [] cp \notin DOMAIN ShortEscape /\ (cp <= 31 \/ (ascii /\ cp >= 127)) ->
            IF cp <= 65535 THEN HexText(cp)
            ELSE HexText(55232 + cp \div 1024) \o HexText(56320 + (cp % 1024))
      [] OTHER -> <<byte>>

DumpEscaped(s, ascii) ==
    LET step(st, byte) ==
            LET type == ByteType(byte)
                state == NextState(st.state, type)
                cp == NextCodepoint(st.state, st.cp, byte, type)
            IN IF st.out = Thrown \/ state = REJECT
               THEN [state |-> REJECT, cp |-> 0, out |-> Thrown]
               ELSE [state |-> state, cp |-> cp,
                     out |-> st.out \o (IF state = ACCEPT THEN Escape(cp, ascii, byte)
                                        ELSE IF ascii THEN <<>> ELSE <<byte>>)]
        end == FoldLeft(step, [state |-> ACCEPT, cp |-> 0, out |-> <<>>], s)
    IN IF end.state = ACCEPT THEN end.out ELSE Thrown

Ascii(ds) == [i \in DOMAIN ds |-> 48 + ds[i]]
Zeros(n) == [i \in 1 .. n |-> 48]
POINT == 46

DumpInteger(n) == (IF n < 0 THEN <<MINUS>> ELSE <<>>) \o Ascii(Digits(IF n < 0 THEN -n ELSE n))

\* At least two digits of the exponent are written.
AppendExponent(e) ==
    LET k == Digits(IF e < 0 THEN -e ELSE e)
    IN <<101, IF e < 0 THEN MINUS ELSE 43>> \o Zeros(2 - Len(k)) \o Ascii(k)

FormatBuffer(ds, e) ==
    LET k == Len(ds)
        n == k + e
    IN CASE k <= n /\ n <= MaxDigits -> ds \o Zeros(n - k) \o <<POINT, 48>>
         [] k > n /\ 0 < n /\ n <= MaxDigits -> SubSeq(ds, 1, n) \o <<POINT>> \o SubSeq(ds, n + 1, k)
         [] -4 < n /\ n <= 0 -> <<48, POINT>> \o Zeros(-n) \o ds
         [] OTHER -> <<ds[1]>> \o (IF k = 1 THEN <<>> ELSE <<POINT>> \o Tail(ds)) \o AppendExponent(n - 1)

DumpFloat(v) ==
    (IF v.neg THEN <<MINUS>> ELSE <<>>) \o
    (IF v.d = <<>> THEN <<48, POINT, 48>> ELSE FormatBuffer(Ascii(v.d), v.e))

-----------------------------------------------------------------------------
(* Values.  The members of an object come in the order of std::map.        *)

Before(a, b) ==
    \/ \E i \in DOMAIN a \cap DOMAIN b : a[i] < b[i] /\ \A j \in 1 .. i - 1 : a[j] = b[j]
    \/ Len(a) < Len(b) /\ \A j \in DOMAIN a : a[j] = b[j]
Keys(o) ==
    [i \in 1 .. Cardinality(DOMAIN o) |->
        CHOOSE k \in DOMAIN o : Cardinality({l \in DOMAIN o : Before(l, k)}) = i - 1]

Blanks(n) == [i \in 1 .. n |-> 32]
COMMA == 44
NEWLINE == 10

RECURSIVE Dump(_, _, _, _)
Dump(v, pretty, ascii, indent) ==
    LET new == indent + IndentStep
        item(i) == IF v.t = "array" THEN Dump(v.a[i], pretty, ascii, new)
                   ELSE Text(<<<<QUOTE>>, DumpEscaped(Keys(v.o)[i], ascii),
                               IF pretty THEN <<QUOTE, 58, 32>> ELSE <<QUOTE, 58>>,
                               Dump(v.o[Keys(v.o)[i]], pretty, ascii, new)>>)
        line(i, n) == Text(<<IF pretty THEN Blanks(new) ELSE <<>>, item(i),
                             IF i = n THEN <<>> ELSE <<COMMA>>,
                             IF pretty THEN <<NEWLINE>> ELSE <<>>>>)
        items(n) == IF n = 0 THEN <<>>
                    ELSE Text(<<IF pretty THEN <<NEWLINE>> ELSE <<>>>> \o [i \in 1 .. n |-> line(i, n)]
                              \o <<IF pretty THEN Blanks(indent) ELSE <<>>>>)
    IN CASE v.t = "object" -> Text(<<<<123>>, items(Cardinality(DOMAIN v.o)), <<125>>>>)
         [] v.t = "array" -> Text(<<<<91>>, items(Len(v.a)), <<93>>>>)
         [] v.t = "string" -> Text(<<<<QUOTE>>, DumpEscaped(v.s, ascii), <<QUOTE>>>>)
         [] v.t = "boolean" -> IF v.b THEN TrueText ELSE FalseText
         [] v.t = "float" -> DumpFloat(v)
         [] v.t = "null" -> NullText
         [] OTHER -> DumpInteger(v.n)
=============================================================================
