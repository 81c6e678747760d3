-------------------------------- MODULE MCJson --------------------------------
(***************************************************************************)
(* JsonDoc closed for TLC.  Its client is the most general one: it reads   *)
(* any of Files, or makes any edits at any place of any of Documents,      *)
(* writes the document in any form and reads the file back.  The program   *)
(* makes only a part of these edits: operator[] with a name and push_back. *)
(*                                                                         *)
(* Files are short texts over structure, numbers, UTF-8 and \u escapes at  *)
(* the edges of their ranges, cut literals, and texts with a byte 0;       *)
(* Documents have every type of value and names that a pointer must        *)
(* escape, and are the files of a service graph of two functions.          *)
(***************************************************************************)
EXTENDS JsonDoc

CONSTANTS
    Files,         \* texts the program may be given
    Names,         \* names and values the client's edits use
    Values

Seqs(S, n) == UNION {[1 .. k -> S] : k \in 0 .. n}
Quoted(s) == <<QUOTE>> \o s \o <<QUOTE>>

Structure ==
    LET chunks == {<<91>>, <<93>>, <<123>>, <<125>>, <<58>>, <<44>>, Quoted(<<97>>), <<49>>}
    IN {FlattenSeq(c) : c \in Seqs(chunks, 4)} \cup {FlattenSeq(<<<<123>>>> \o c \o <<<<125>>>>) : c \in Seqs(chunks, 4)}
\* 1e400, [1e400], 0.01e310, 0.01e311, 0e400, 1e-400, -1.0e+1: some are at
\* the edge of the floats, some beyond it
Large ==
    {<<49, 101, 52, 48, 48>>, <<91, 49, 101, 52, 48, 48, 93>>, <<48, 46, 48, 49, 101, 51, 49, 48>>,
     <<48, 46, 48, 49, 101, 51, 49, 49>>, <<48, 101, 52, 48, 48>>, <<49, 101, 45, 52, 48, 48>>,
     <<45, 49, 46, 48, 101, 43, 49>>}
Numbers == Seqs({45, 48, 49, 46, 101, 43}, 4) \cup Large
Leads == {127, 128, 193, 194, 223, 224, 225, 237, 239, 240, 241, 244, 245}
Edges == {127, 128, 143, 144, 159, 160, 191, 192}
Strings ==
    {Quoted(<<c>> \o t) : c \in Leads, t \in Seqs(Edges, 2)}
    \cup {Quoted(<<c, 144>> \o t) : c \in Leads, t \in Seqs(Edges, 2)}
    \cup {Quoted(<<c>>) : c \in {1, 9, 31, 32, 34, 47, 92, 255}}
    \cup {Quoted(<<92, c>>) : c \in {34, 92, 47, 98, 102, 110, 114, 116, 117, 120}}
Unit == {55295, 55296, 56319, 56320, 57343, 57344, 0, 127, 128, 2047, 2048, 65535}
Units == {Quoted(HexText(a)) : a \in Unit} \cup {Quoted(HexText(a) \o HexText(b)) : a, b \in Unit}
         \cup {Quoted(SubSeq(HexText(a), 1, n)) : a \in Unit, n \in 2 .. 5}
Literals == Prefixes(TrueText) \cup Prefixes(FalseText) \cup Prefixes(NullText)
BOM == <<239, 187, 191>>

\* A byte 0 behind a text, in it, in front of it, and two of them.
Nulls ==
    LET before == Literals \cup {<<>>, <<49>>, <<91>>, <<91, 49>>, <<91, 93>>, <<QUOTE>>, <<32>>, BOM}
        behind == {<<>>, <<0>>, <<49>>, <<93>>, <<QUOTE>>, <<44, 49, 93>>}
    IN {s \o <<0>> \o t : s \in before, t \in behind}

MCFiles ==
    Structure \cup Numbers \cup Strings \cup Units \cup Literals \cup Nulls
    \cup {BOM \o t : t \in Literals} \cup Prefixes(BOM)
    \cup {<<32, 91, 10, 49, 9, 44, 13, 50, 32, 93, 10>>, <<12, 49>>}

Texts ==
    {<<>>, <<97>>, <<48>>, <<126, 49>>, <<47, 126>>, <<10, 34, 92, 31>>, <<127>>, <<195, 169>>,
     <<224, 160, 128>>, <<244, 143, 191, 191>>, <<128>>, <<224, 130, 128>>, <<97, 195>>}
Scalars ==
    {Null, Bool(TRUE), Bool(FALSE), Unsigned(0), Unsigned(200), Signed(-128), Float(TRUE, <<>>, 0),
     Float(FALSE, <<2>>, 0), Float(TRUE, <<1, 5>>, -1), Float(FALSE, <<1>>, 20), Float(FALSE, <<1, 2>>, -7),
     Float(FALSE, <<5>>, -3)}
Graph == <<[id |-> 1, label |-> <<97>>, group |-> <<49>>, neighbors |-> <<>>],
           [id |-> 0, label |-> <<98>>, group |-> <<50>>, neighbors |-> <<1>>]>>
Merger == [label |-> <<109>>, group |-> <<49>>]
Receiver == [label |-> <<115>>, group |-> <<51>>]
GraphFiles == {GraphNodes(Graph, 2, Merger, Receiver), GraphEdges(Graph, 2)}
Plain ==
    Scalars \cup {Str(s) : s \in Texts} \cup {Array(<<v>>) : v \in Scalars}
    \cup {Object(s :> Unsigned(7)) : s \in Texts}
    \cup {Array(<<>>), Object(NoMembers), Array(<<Unsigned(1), Array(<<>>), Unsigned(2)>>),
          Object(<<126, 49>> :> Object(<<97>> :> Bool(TRUE) @@ <<47>> :> Null) @@ <<97>> :> Array(<<Null, Str(<<>>)>>)),
          Array(<<Object(<<97>> :> Array(<<Unsigned(3)>>)), Unsigned(1)>>)}
MCDocuments == GraphFiles \cup Plain
MCNames == {<<97>>, <<126, 49>>, <<48>>}
MCValues == {Unsigned(7), Array(<<Str(<<97>>)>>)}

-----------------------------------------------------------------------------
(* The client                                                              *)

Init ==
    /\ saved = Unsaved /\ edits = 0
    /\ \/ pc = "read" /\ file \in Files /\ doc = Null
       \/ pc = "edit" /\ file = <<>> /\ doc \in Documents

Places == {<<>>} \cup {<<k>> : k \in Names} \cup {<<ZERO>>}
Indices == 0 .. 2

EditMember(ptr, v) ==
    \E k \in Names :
        \/ Change(ptr, EraseKey(v, k))
        \/ \E w \in Values : Change(ptr, Assign(v, k, w)) \/ Change(ptr, Emplace(v, k, w))
        \/ ValueOr(v, k, v) # v /\ Change(ptr, ValueOr(v, k, v))

EditElement(ptr, v) ==
    \/ \E i \in Indices :
          \/ Change(ptr, EraseIndex(v, i))
          \/ \E w \in Values : Change(ptr, AssignAt(v, i, w))
          \/ \E w \in Values : i <= Size(v) /\ Change(ptr, Insert(v, i, w))
    \/ \E w \in Values : Change(ptr, PushBack(v, w))

EditWhole(ptr, v) ==
    \/ Change(ptr, Clear(v))
    \/ \E i \in 0 .. Size(v) :
          \/ i < Size(v) /\ Change(ptr, EraseAt(v, i))
          \/ \E j \in i .. Size(v) : Change(ptr, EraseRange(v, i, j))
    \/ \E w \in Plain :
          \/ Change(ptr, Update(v, w))
          \/ Change(ptr, InsertMembers(v, w))
          \/ w.t = "array" /\ \E i \in 0 .. Size(v) : Change(ptr, InsertAll(v, i, w.a))
          \/ Change(ptr, MergePatch(v, w))

Edit ==
    \E ptr \in Places :
        LET v == GetChecked(doc, ptr)
        IN v # Error /\ (EditMember(ptr, v) \/ EditElement(ptr, v) \/ EditWhole(ptr, v))

\* The writer dies, or the file is read, before all of it is there.
Cut ==
    /\ pc = "written" /\ file = Dump(saved, FALSE, FALSE, 0)
    /\ \E n \in 0 .. Len(file) - 1 : file' = SubSeq(file, 1, n)
    /\ UNCHANGED <<pc, doc, saved, edits>>

Next ==
    \/ Read \/ Edit \/ Cut
    \/ \E pretty, ascii \in BOOLEAN : Write(pretty, ascii)

Spec == Init /\ [][Next]_vars
===============================================================================
