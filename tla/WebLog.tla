------------------------------- MODULE WebLog -------------------------------
(***************************************************************************)
(* One request of the log web server (src/webserver/routes/routes.js): the *)
(* callbacks of fs run in any order, and each of them looks whether it is  *)
(* the last by counting the keys of data.  An exception in a callback ends *)
(* the server.  Files' contents are named by the files.                    *)
(***************************************************************************)
EXTENDS Integers, Sequences, FiniteSets

CONSTANT Requests   \* [route, tree]: the files of each folder (of machine1's
                    \* log directory), or a set of files in the one "folder"

Log == [name \in {"log.txt"} |-> name]
Routes == {"machine1", "visualization", "receiver"}
Empty == "{}"
Undefined == <<>>            \* an object without keys

ASSUME RequestAssumption ==
    \A r \in Requests :
        /\ r.route \in Routes
        /\ IsFiniteSet(DOMAIN r.tree) /\ \A f \in DOMAIN r.tree : IsFiniteSet(r.tree[f])
        /\ r.route # "machine1" => DOMAIN r.tree = {"."}
        /\ r.route = "receiver" => r.tree["."] = {"log.txt"}

VARIABLES
    request,
    pending,    \* the callbacks to come: <<"top">>, <<"dir", f>>, <<"file", f, name>>
    data,       \* machine1: folder -> file or Empty; visualization: file -> file
    rendered,   \* what res.render was called with
    server      \* "up" or "dead"

vars == <<request, pending, data, rendered, server>>

Folders == DOMAIN request.tree
Files == request.tree["."]

\* The handlers' calls: showReceiver reads its file twice.
Calls(r) ==
    IF r.route = "receiver" THEN {<<"show">>, <<"readReceiverFile">>} ELSE {<<"top">>}

Init ==
    /\ request \in Requests
    /\ pending = Calls(request)
    /\ data = <<>> /\ rendered = <<>> /\ server = "up"

Runs(callback) == server = "up" /\ callback \in pending
Put(key, value) == [x \in DOMAIN data \cup {key} |-> IF x = key THEN value ELSE data[x]]

-----------------------------------------------------------------------------
(* readFiles                                                               *)

ReadFolders ==
    /\ request.route = "machine1" /\ Runs(<<"top">>)
    /\ pending' = {<<"dir", f>> : f \in Folders}
    /\ rendered' = IF Folders = {} THEN Append(rendered, Undefined) ELSE rendered
    /\ UNCHANGED <<request, data, server>>

\* An empty folder is put into data, which is not counted here.
ReadFolder(f) ==
    /\ Runs(<<"dir", f>>)
    /\ pending' = (pending \ {<<"dir", f>>}) \cup {<<"file", f, name>> : name \in request.tree[f]}
    /\ data' = IF request.tree[f] = {} THEN Put(f, Empty) ELSE data
    /\ UNCHANGED <<request, rendered, server>>

\* Bug for TLC: a folder too few is enough.
AllFoldersButOne(d) == Cardinality(DOMAIN d) + 1 >= Cardinality(Folders)

\* Bug for TLC: the count of the folders is one too large.
AllFoldersAndOne(d) == Cardinality(DOMAIN d) = Cardinality(Folders) + 1

AllFolders(d) == Cardinality(DOMAIN d) = Cardinality(Folders)

\* Every file of a folder takes the folder's key.
ReadFile(f, name) ==
    /\ request.route = "machine1" /\ Runs(<<"file", f, name>>)
    /\ pending' = pending \ {<<"file", f, name>>}
    /\ data' = Put(f, name)
    /\ rendered' = IF AllFolders(data') THEN Append(rendered, data') ELSE rendered
    /\ UNCHANGED <<request, server>>

-----------------------------------------------------------------------------
(* readGraph                                                               *)

\* Without files, showVisualization looks into undefined.
ReadNames ==
    /\ request.route = "visualization" /\ Runs(<<"top">>)
    /\ pending' = {<<"file", ".", name>> : name \in Files}
    /\ server' = IF Files = {} THEN "dead" ELSE server
    /\ UNCHANGED <<request, data, rendered>>

\* Bug for TLC: two files are enough (nodes.txt and edges.txt).
AllFilesTwo(d) == Cardinality(DOMAIN d) >= 2

AllFiles(d) == Cardinality(DOMAIN d) = Cardinality(Files)

ReadGraphFile(name) ==
    /\ request.route = "visualization" /\ Runs(<<"file", ".", name>>)
    /\ pending' = pending \ {<<"file", ".", name>>}
    /\ data' = Put(name, name)
    /\ rendered' = IF AllFiles(data') THEN Append(rendered, data') ELSE rendered
    /\ UNCHANGED <<request, server>>

-----------------------------------------------------------------------------
(* showReceiver                                                            *)

ShowReceiver ==
    /\ Runs(<<"show">>)
    /\ pending' = pending \ {<<"show">>}
    /\ rendered' = Append(rendered, Log)
    /\ UNCHANGED <<request, data, server>>

\* Bug for TLC: the second reading of the log is answered too.
ReadReceiverFileAnswers ==
    /\ Runs(<<"readReceiverFile">>)
    /\ pending' = pending \ {<<"readReceiverFile">>}
    /\ rendered' = Append(rendered, Log)
    /\ UNCHANGED <<request, data, server>>

\* It never comes to onFileContent.
ReadReceiverFile ==
    /\ Runs(<<"readReceiverFile">>)
    /\ pending' = pending \ {<<"readReceiverFile">>}
    /\ UNCHANGED <<request, data, rendered, server>>

\* An entry that is no folder, a file that is gone: err is thrown, or
\* undefined is split.
CallbackFails ==
    /\ server = "up" /\ pending # {}
    /\ server' = "dead"
    /\ UNCHANGED <<request, pending, data, rendered>>

Callback ==
    \/ ReadFolders \/ ReadNames \/ ShowReceiver \/ ReadReceiverFile
    \/ \E f \in Folders : ReadFolder(f) \/ \E name \in request.tree[f] : ReadFile(f, name)
    \/ "." \in Folders /\ \E name \in Files : ReadGraphFile(name)

Next == Callback \/ CallbackFails

Spec == Init /\ [][Next]_vars
FairSpec == Spec /\ WF_vars(Callback)

-----------------------------------------------------------------------------
(* Properties                                                              *)

TypeOK ==
    /\ request \in Requests /\ server \in {"up", "dead"}
    /\ pending \subseteq Calls(request) \cup {<<"dir", f>> : f \in Folders}
                         \cup UNION {{<<"file", f, name>> : name \in request.tree[f]} : f \in Folders}
    /\ DOMAIN data \subseteq Folders \cup UNION {request.tree[f] : f \in Folders}
    /\ rendered \in Seq({Undefined, Log} \cup
                        UNION {[s -> {Empty} \cup UNION {request.tree[f] : f \in Folders}] :
                                  s \in {Folders} \cup {request.tree[f] : f \in Folders}})

\* A log directory as the machines write it: one log.txt in every folder.
OneEach == \A f \in Folders : Cardinality(request.tree[f]) = 1

(***************************************************************************)
(* A request is answered once at most: always for the graph and the        *)
(* receiver's log, and for the functions' logs if every folder has one     *)
(* file.                                                                   *)
(***************************************************************************)
RendersOnce == (request.route = "machine1" => OneEach) => Len(rendered) <= 1

(***************************************************************************)
(* No answer is given before everything is read: what is rendered has      *)
(* every folder (or every file of the graph) in it.                        *)
(***************************************************************************)
RendersAll ==
    \A n \in DOMAIN rendered :
        /\ request.route = "machine1" /\ Folders # {} => DOMAIN rendered[n] = Folders
        /\ request.route = "visualization" =>
              /\ DOMAIN rendered[n] = Files
              /\ \A name \in Files : rendered[n][name] = name

(***************************************************************************)
(* A request is answered unless a callback fails, for any log directory    *)
(* without empty folders.                                                  *)
(***************************************************************************)
Answers ==
    (request.route = "machine1" => \A f \in Folders : request.tree[f] # {})
        ~> (rendered # <<>> \/ server = "dead")
=============================================================================
