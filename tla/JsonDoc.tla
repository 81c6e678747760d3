------------------------------- MODULE JsonDoc -------------------------------
(***************************************************************************)
(* A JSON document in the program: read from a file (the Orchestrator's    *)
(* input and action table) or built and written to one (nodes.txt and      *)
(* edges.txt of the service graph), with basic_json's element access,      *)
(* modifiers, pointers and patches, of src/setup/json.hpp.  An operation   *)
(* yields the changed value, or Error for an exception, which ends the     *)
(* program.  MCJson closes the module with a client that makes any edits.  *)
(***************************************************************************)
EXTENDS JsonDump

CONSTANTS
    Documents,     \* values a document is compared with
    MaxEdits       \* bound on the edits of a document

ASSUME DocAssumption == MaxEdits \in Nat

VARIABLES
    pc,            \* "read", "edit", "written", "done" or "failed"
    file,          \* the text in the file
    doc,           \* the basic_json in memory
    saved,         \* what was last written to the file, or Unsaved
    edits          \* edits made so far

vars == <<pc, file, doc, saved, edits>>

Error == [t |-> "error"]
Unsaved == [t |-> "unsaved"]

AsObject(v) == IF v = Null THEN Object(NoMembers) ELSE v
AsArray(v) == IF v = Null THEN Array(<<>>) ELSE v
IsContainer(v) == v.t \in {"object", "array"}

SetMember(o, k, w) == (k :> w) @@ o

-----------------------------------------------------------------------------
(* Element access; indices are those of the code, from 0                   *)

AtKey(v, k) == IF v.t = "object" /\ k \in DOMAIN v.o THEN v.o[k] ELSE Error
AtIndex(v, i) == IF v.t = "array" /\ i < Len(v.a) THEN v.a[i + 1] ELSE Error

\* operator[] makes the member or the elements it is asked for.
WithKey(v, k) ==
    LET w == AsObject(v)
    IN IF w.t # "object" THEN Error
       ELSE IF k \in DOMAIN w.o THEN w ELSE Object(SetMember(w.o, k, Null))
WithIndex(v, i) ==
    LET w == AsArray(v)
    IN IF w.t # "array" THEN Error
       ELSE Array([j \in 1 .. (IF i < Len(w.a) THEN Len(w.a) ELSE i + 1) |->
                     IF j <= Len(w.a) THEN w.a[j] ELSE Null])

ValueOr(v, k, default) ==
    IF v.t # "object" THEN Error ELSE IF k \in DOMAIN v.o THEN v.o[k] ELSE default

Size(v) == CASE v.t = "object" -> Cardinality(DOMAIN v.o) [] v.t = "array" -> Len(v.a)
             [] OTHER -> IF v = Null THEN 0 ELSE 1

-----------------------------------------------------------------------------
(* Modifiers                                                               *)

Assign(v, k, w) == LET u == WithKey(v, k) IN IF u = Error THEN Error ELSE Object(SetMember(u.o, k, w))
AssignAt(v, i, w) ==
    LET u == WithIndex(v, i) IN IF u = Error THEN Error ELSE Array([u.a EXCEPT ![i + 1] = w])
Emplace(v, k, w) ==
    LET u == AsObject(v) IN IF u.t # "object" THEN Error ELSE Object(u.o @@ (k :> w))
PushBack(v, w) ==
    LET u == AsArray(v) IN IF u.t # "array" THEN Error ELSE Array(Append(u.a, w))
Insert(v, i, w) ==
    IF v.t # "array" THEN Error ELSE Array(InsertAt(v.a, i + 1, w))
InsertAll(v, i, ws) ==
    IF v.t # "array" THEN Error
    ELSE Array(SubSeq(v.a, 1, i) \o ws \o SubSeq(v.a, i + 1, Len(v.a)))
InsertMembers(v, w) == IF v.t = "object" /\ w.t = "object" THEN Object(v.o @@ w.o) ELSE Error
Update(v, w) ==
    LET u == AsObject(v) IN IF u.t = "object" /\ w.t = "object" THEN Object(w.o @@ u.o) ELSE Error
EraseKey(v, k) ==
    IF v.t # "object" THEN Error ELSE Object(Restrict(v.o, DOMAIN v.o \ {k}))
EraseIndex(v, i) ==
    IF v.t = "array" /\ i < Len(v.a) THEN Array(RemoveAt(v.a, i + 1)) ELSE Error

\* From the iterator i to the iterator j: a value that holds one thing, and
\* is asked to erase that one, becomes null.
EraseRange(v, i, j) ==
    CASE v.t = "array" -> Array(SubSeq(v.a, 1, i) \o SubSeq(v.a, j + 1, Len(v.a)))
      [] v.t = "object" -> Object(Restrict(v.o, DOMAIN v.o \ {Keys(v.o)[n] : n \in i + 1 .. j}))
      [] ~IsContainer(v) /\ v # Null /\ i = 0 /\ j = 1 -> Null
      [] OTHER -> Error
EraseAt(v, i) == EraseRange(v, i, i + 1)

\* clear keeps the type and drops the content; nothing happens to null.
Clear(v) ==
    CASE v.t = "object" -> Object(NoMembers) [] v.t = "array" -> Array(<<>>)
      [] v.t = "string" -> Str(<<>>) [] v.t = "boolean" -> Bool(FALSE)
      [] v.t = "float" -> Float(FALSE, <<>>, 0) [] v.t = "unsigned" -> Unsigned(0)
      [] v.t = "integer" -> Signed(0) [] OTHER -> v

-----------------------------------------------------------------------------
(* JSON pointers: sequences of reference tokens                            *)

DASH == <<MINUS>>
ZERO == <<48>>
IndexText(n) == Ascii(Digits(n))

\* std::stoi on a token made of digits, or not made of them: the tokens met
\* here have no sign and no blank in front.
IsIndex(token) == token # <<>> /\ \A i \in DOMAIN token : token[i] \in 48 .. 57
ArrayIndex(token) == Decimal([i \in DOMAIN token |-> token[i] - 48])
LeadingZero(token) == Len(token) > 1 /\ token[1] = 48

Substitute(s, c, by) == FlattenSeq([i \in DOMAIN s |-> IF s[i] = c THEN by ELSE <<s[i]>>])
EscapeToken(s) == Substitute(Substitute(s, 126, <<126, 48>>), 47, <<126, 49>>)

\* replace_substring of a tilde and a digit: what it put in is not read again.
RECURSIVE ReplacePair(_, _, _)
ReplacePair(s, digit, by) ==
    CASE Len(s) < 2 -> s
      [] Len(s) >= 2 /\ s[1] = 126 /\ s[2] = digit -> <<by>> \o ReplacePair(SubSeq(s, 3, Len(s)), digit, by)
      [] OTHER -> <<s[1]>> \o ReplacePair(Tail(s), digit, by)

\* Bug for TLC: ~0 is read before ~1.
UnescapeTokenSwapped(s) == ReplacePair(ReplacePair(s, 48, 126), 49, 47)
UnescapeToken(s) == ReplacePair(ReplacePair(s, 49, 47), 48, 126)

\* What split does not throw on: a text that is empty or begins with a slash,
\* with 0 or 1 behind every tilde.
IsPointer(text) ==
    /\ text # <<>> => text[1] = 47
    /\ \A i \in DOMAIN text : text[i] = 126 => At(text, i + 1) \in {48, 49}

Split(text) ==
    LET slashes == SetToSortSeq({i \in DOMAIN text : text[i] = 47}, <)
        end(n) == IF n = Len(slashes) THEN Len(text) ELSE slashes[n + 1] - 1
    IN [n \in DOMAIN slashes |-> UnescapeToken(SubSeq(text, slashes[n] + 1, end(n)))]

Step(v, token) ==
    CASE v.t = "object" -> AtKey(v, token)
      [] v.t = "array" /\ IsIndex(token) /\ ~LeadingZero(token) -> AtIndex(v, ArrayIndex(token))
      [] OTHER -> Error
GetChecked(v, ptr) == FoldLeft(Step, v, ptr)

\* The value with what the pointer's last place may need, as get_unchecked
\* (patches) and get_and_create (unflatten) leave it, and then w put there.
Touch(v, token, creating) ==
    LET array == IF creating THEN token = ZERO ELSE IsIndex(token) \/ token = <<>> \/ token = DASH
        u == IF v # Null THEN v ELSE IF array THEN Array(<<>>) ELSE Object(NoMembers)
    IN CASE u.t = "object" -> WithKey(u, token)
         [] u.t = "array" /\ token = DASH /\ ~creating -> WithIndex(u, Len(u.a))
         [] u.t = "array" /\ IsIndex(token) /\ (creating \/ ~LeadingZero(token)) ->
               WithIndex(u, ArrayIndex(token))
         [] OTHER -> Error

RECURSIVE Put(_, _, _, _)
Put(v, ptr, w, creating) ==
    IF ptr = <<>> THEN w
    ELSE LET u == Touch(v, ptr[1], creating)
             i == IF ptr[1] = DASH THEN Len(u.a) ELSE ArrayIndex(ptr[1]) + 1
             below == Put(IF u.t = "object" THEN u.o[ptr[1]] ELSE u.a[i], Tail(ptr), w, creating)
         IN IF u = Error THEN Error
            ELSE IF below = Error THEN Error
            ELSE IF u.t = "object" THEN Object([u.o EXCEPT ![ptr[1]] = below])
            ELSE Array([u.a EXCEPT ![i] = below])

RECURSIVE Flattened(_, _)
Flattened(text, v) ==
    CASE v.t = "array" /\ v.a # <<>> ->
            FoldLeft(LAMBDA o, i : Flattened(text \o <<47>> \o IndexText(i - 1), v.a[i]) @@ o,
                     NoMembers, [i \in DOMAIN v.a |-> i])
      [] v.t = "object" /\ DOMAIN v.o # {} ->
            FoldLeft(LAMBDA o, k : Flattened(text \o <<47>> \o EscapeToken(k), v.o[k]) @@ o,
                     NoMembers, Keys(v.o))
      [] OTHER -> text :> (IF IsContainer(v) THEN Null ELSE v)
Flatten(v) == Object(Flattened(<<>>, v))

Unflatten(v) ==
    IF v.t # "object" THEN Error
    ELSE IF \E k \in DOMAIN v.o : IsContainer(v.o[k]) \/ ~IsPointer(k) THEN Error
    ELSE FoldLeft(LAMBDA u, k : IF u = Error THEN Error ELSE Put(u, Split(k), v.o[k], TRUE), Null, Keys(v.o))

-----------------------------------------------------------------------------
(* Patches: sequences of operations, of members op, path, from and value   *)

Operation(op, path, from, value) == [op |-> op, path |-> path, from |-> from, value |-> value]

AddAt(v, ptr, w) ==
    LET parentPtr == Front(ptr)
        parent == GetChecked(v, parentPtr)
        token == Last(ptr)
    IN CASE ptr = <<>> -> w
         [] Len(ptr) > 1 /\ GetChecked(v, <<ptr[1]>>) = Error -> Error
         [] ptr # <<>> /\ parent = Error -> Put(v, parentPtr, Assign(Null, token, w), FALSE)
         [] parent.t \in {"null", "object"} -> Put(v, parentPtr, Assign(parent, token, w), FALSE)
         [] parent.t = "array" /\ token = DASH -> Put(v, parentPtr, PushBack(parent, w), FALSE)
         [] parent.t = "array" /\ IsIndex(token) /\ ArrayIndex(token) <= Len(parent.a) ->
               Put(v, parentPtr, Insert(parent, ArrayIndex(token), w), FALSE)
         [] OTHER -> Error

RemoveFrom(v, ptr) ==
    LET parent == GetChecked(v, Front(ptr))
        token == Last(ptr)
        left == IF parent.t = "object" THEN EraseKey(parent, token) ELSE EraseIndex(parent, ArrayIndex(token))
    IN CASE ptr = <<>> -> Error
         [] ptr # <<>> /\ parent = Error -> Error
         [] parent.t = "object" /\ token \notin DOMAIN parent.o -> Error
         [] parent.t = "array" /\ ~IsIndex(token) -> Error
         [] IsContainer(parent) -> IF left = Error THEN Error ELSE Put(v, Front(ptr), left, FALSE)
         [] OTHER -> v

Perform(v, p) ==
    LET ptr == Split(p.path)
        there == GetChecked(v, ptr)
        from == Split(p.from)
        moved == GetChecked(v, from)
        cut == RemoveFrom(v, from)
        reads == IsPointer(p.path) /\ (p.op \in {"move", "copy"} => IsPointer(p.from))
    IN IF v = Error \/ ~reads THEN Error
       ELSE CASE p.op = "add" -> AddAt(v, ptr, p.value)
              [] p.op = "remove" -> RemoveFrom(v, ptr)
              [] p.op = "replace" -> IF there = Error THEN Error ELSE Put(v, ptr, p.value, FALSE)
              [] p.op = "move" -> IF moved = Error \/ cut = Error THEN Error ELSE AddAt(cut, ptr, moved)
              [] p.op = "copy" -> IF moved = Error THEN Error ELSE AddAt(v, ptr, moved)
              [] p.op = "test" -> IF there = Error \/ ~Equal(there, p.value) THEN Error ELSE v
              [] OTHER -> Error
Patch(v, patch) == FoldLeft(Perform, v, patch)

RECURSIVE Diff(_, _, _)
Diff(v, w, path) ==
    LET common == IF Len(v.a) < Len(w.a) THEN Len(v.a) ELSE Len(w.a)
        place(i) == path \o <<47>> \o IndexText(i - 1)
        member(k) == path \o <<47>> \o EscapeToken(k)
        gone(i) == Operation("remove", place(Len(v.a) + 1 - i), <<>>, Null)
        new(i) == Operation("add", place(common + i), <<>>, w.a[common + i])
        left(k) == IF k \in DOMAIN w.o THEN Diff(v.o[k], w.o[k], member(k))
                   ELSE <<Operation("remove", member(k), <<>>, Null)>>
        added == SelectSeq(Keys(w.o), LAMBDA k : k \notin DOMAIN v.o)
    IN CASE Equal(v, w) -> <<>>
         [] ~Equal(v, w) /\ v.t = w.t /\ v.t = "array" ->
               FlattenSeq([i \in 1 .. common |-> Diff(v.a[i], w.a[i], place(i))])
               \o [i \in 1 .. Len(v.a) - common |-> gone(i)]
               \o [i \in 1 .. Len(w.a) - common |-> new(i)]
         [] ~Equal(v, w) /\ v.t = w.t /\ v.t = "object" ->
               FlattenSeq([i \in DOMAIN Keys(v.o) |-> left(Keys(v.o)[i])])
               \o [i \in DOMAIN added |-> Operation("add", member(added[i]), <<>>, w.o[added[i]])]
         [] OTHER -> <<Operation("replace", path, <<>>, w)>>

RECURSIVE MergePatch(_, _)
MergePatch(v, patch) ==
    IF patch.t # "object" THEN patch
    ELSE FoldLeft(LAMBDA u, k : IF patch.o[k] = Null THEN EraseKey(u, k)
                                ELSE Assign(u, k, MergePatch(WithKey(u, k).o[k], patch.o[k])),
                  IF v.t = "object" THEN v ELSE Object(NoMembers), Keys(patch.o))

-----------------------------------------------------------------------------
(* What the Orchestrator writes for the web page: nodes.txt and edges.txt.  *)
(* graph is the nodes as the unordered_map yields them, with their          *)
(* neighbors; n is the number of functions.  A field's name is one letter,  *)
(* in the order of the names.                                               *)

FieldName == [arrows |-> <<97>>, color |-> <<99>>, from |-> <<102>>, group |-> <<103>>,
              id |-> <<105>>, inherit |-> <<110>>, label |-> <<108>>, to |-> <<116>>]

\* json::object() and then one operator[] for each pair of a field and a value
Built(fields) == FoldLeft(LAMBDA v, f : Assign(v, FieldName[f[1]], f[2]), Object(NoMembers), fields)

NodeObject(id, label, group) ==
    Built(<<<<"id", Signed(id)>>, <<"label", Str(label)>>, <<"group", Str(group)>>>>)
EdgeObject(from, to) ==
    Built(<<<<"from", Signed(from)>>, <<"to", Signed(to)>>, <<"arrows", Str(FieldName.to)>>,
            <<"color", Built(<<<<"inherit", Str(FieldName.from)>>>>)>>>>)

GraphNodes(graph, n, merger, receiver) ==
    FoldLeft(PushBack, Array(<<>>),
             [i \in DOMAIN graph |-> NodeObject(graph[i].id, graph[i].label, graph[i].group)]
             \o <<NodeObject(n, merger.label, merger.group), NodeObject(n + 1, receiver.label, receiver.group)>>)

\* A leaf has an edge to the merger, and the merger one to the receiver.
GraphEdges(graph, n) ==
    LET out(node) == IF node.neighbors = <<>> THEN <<EdgeObject(node.id, n)>>
                     ELSE [j \in DOMAIN node.neighbors |-> EdgeObject(node.id, node.neighbors[j])]
    IN FoldLeft(PushBack, Array(<<>>),
                FlattenSeq([i \in DOMAIN graph |-> out(graph[i])]) \o <<EdgeObject(n, n + 1)>>)

-----------------------------------------------------------------------------
(* The program                                                             *)

\* operator>> takes one value from the file.
Read ==
    /\ pc \in {"read", "written"}
    /\ LET r == Parse(file, FALSE)
       IN IF r.next = 0 THEN pc' = "failed" /\ UNCHANGED doc
          ELSE pc' = "done" /\ doc' = r.v
    /\ UNCHANGED <<file, saved, edits>>

\* The value at ptr becomes w; an exception ends the program.
Change(ptr, w) ==
    /\ pc = "edit" /\ edits < MaxEdits
    /\ IF w = Error THEN pc' = "failed" /\ UNCHANGED <<doc, edits>>
       ELSE doc' = Put(doc, ptr, w, FALSE) /\ edits' = edits + 1 /\ UNCHANGED pc
    /\ UNCHANGED <<file, saved>>

\* operator<<; a string that is not UTF-8 throws.
Write(pretty, ascii) ==
    /\ pc = "edit"
    /\ LET text == Dump(doc, pretty, ascii, 0)
       IN IF text = Thrown THEN pc' = "failed" /\ UNCHANGED <<file, saved>>
          ELSE pc' = "written" /\ file' = text /\ saved' = doc
    /\ UNCHANGED <<doc, edits>>

-----------------------------------------------------------------------------
(* Correctness                                                             *)

Rfc == INSTANCE JsonGrammar

\* Where a text read up to its first byte 0 ends.
UpToNull(s) ==
    LET nulls == {i \in DOMAIN s : s[i] = 0}
    IN IF nulls = {} THEN s ELSE SubSeq(s, 1, (CHOOSE i \in nulls : \A j \in nulls : i <= j) - 1)

\* Exactly the texts of the grammar are parsed, and accept agrees with
\* parse.  Of a file, that is what comes before its first byte 0: outside a
\* string the lexer takes one for the end of input (json.hpp:3076), and what
\* is behind it is not looked at, so that <<49, 0>> is accepted although it is
\* not a "proper JSON text" (json.hpp:3234).  JsonGrammar names the two other
\* exceptions: numbers beyond the floats, and halves of surrogate pairs.
Grammar ==
    pc = "read" => \A valid \in {Rfc!IsText(UpToNull(file))} :
                      (Parse(file, TRUE).next # 0) = valid /\ Accept(file) = valid

RECURSIVE WellFormed(_)
WellFormed(v) ==
    CASE v.t = "array" -> \A i \in DOMAIN v.a : WellFormed(v.a[i])
      [] v.t = "object" -> \A k \in DOMAIN v.o : WellFormed(Str(k)) /\ WellFormed(v.o[k])
      [] v.t = "string" -> Rfc!IsChars([i \in DOMAIN v.s |-> IF v.s[i] \in (0 .. 31) \cup {QUOTE, BACKSLASH}
                                                             THEN 32 ELSE v.s[i]])
      [] OTHER -> TRUE

\* Whatever way a document is written, reading the file gives it back; a
\* file that was cut is never taken for another array or object; only a
\* document whose strings are not all UTF-8 cannot be written.
ReadsBack ==
    LET whole == \E pretty, ascii \in BOOLEAN : file = Dump(saved, pretty, ascii, 0)
    IN /\ pc = "done" /\ saved # Unsaved =>
            IF whole THEN Equal(doc, saved) /\ Dump(doc, FALSE, FALSE, 0) = Dump(saved, FALSE, FALSE, 0)
            ELSE ~IsContainer(saved)
       /\ pc = "failed" /\ saved # Unsaved => ~whole
       /\ pc = "edit" /\ WellFormed(doc) => \A pretty, ascii \in BOOLEAN : Dump(doc, pretty, ascii, 0) # Thrown
       /\ pc = "written" => WellFormed(saved)

RECURSIVE Has(_, _)
Has(v, test) ==
    CASE v.t = "array" -> (test = "empty" /\ v.a = <<>>) \/ \E i \in DOMAIN v.a : Has(v.a[i], test)
      [] v.t = "object" -> \/ test = "empty" /\ DOMAIN v.o = {}
                           \/ test = "zero" /\ ZERO \in DOMAIN v.o
                           \/ \E k \in DOMAIN v.o : Has(v.o[k], test)
      [] OTHER -> FALSE

\* Every place is named by its own pointer: applying the difference of two
\* documents to the first gives the second, and a document comes back from
\* its flat form, unless an empty array or object (flattened to null) or a
\* member named 0 (taken for an element) is in it.
PointersName ==
    /\ pc = "edit" => \A w \in Documents : LET v == Patch(doc, Diff(doc, w, <<>>))
                                           IN v # Error /\ Equal(v, w)
    /\ pc = "edit" /\ ~Has(doc, "empty") /\ ~Has(doc, "zero") => Unflatten(Flatten(doc)) = doc
=============================================================================
