----------------------------- MODULE WebLogProofs -----------------------------
(***************************************************************************)
(* Theorems about a request of the log web server, for any log directory   *)
(* and any order of the callbacks.                                         *)
(***************************************************************************)
EXTENDS WebLog, FiniteSetTheorems, SequenceTheorems, TLAPS

\* Each route has callbacks of its own.
Callbacks ==
    /\ <<"show">> \in pending => request.route = "receiver"
    /\ \A f \in Folders : <<"dir", f>> \in pending => request.route = "machine1"

\* What is in data, and that the answers are a sequence.
Collected ==
    /\ request.route = "machine1" => DOMAIN data \subseteq Folders
    /\ request.route = "visualization" =>
          DOMAIN data \subseteq Files /\ \A name \in DOMAIN data : data[name] = name
    /\ \E S : rendered \in Seq(S)

ReadInv == request \in Requests /\ Callbacks /\ Collected /\ RendersAll

\* What RendersAll asks of an answer.
Complete(d) ==
    /\ request.route = "machine1" /\ Folders # {} => DOMAIN d = Folders
    /\ request.route = "visualization" =>
          DOMAIN d = Files /\ \A name \in Files : d[name] = name

-----------------------------------------------------------------------------
(* Lemmas                                                                  *)

LEMMA PutKeys ==
  ASSUME NEW key, NEW value
  PROVE  /\ DOMAIN Put(key, value) = DOMAIN data \cup {key}
         /\ Put(key, value)[key] = value
         /\ \A x \in DOMAIN data \ {key} : Put(key, value)[x] = data[x]
BY DEF Put

\* A count of keys that equals the number of names means that all are there.
LEMMA AllKeys ==
  ASSUME NEW S, IsFiniteSet(S), NEW T \in SUBSET S
  PROVE  Cardinality(T) = Cardinality(S) <=> T = S
BY FS_Subset

LEMMA Answered ==
  ASSUME NEW S, rendered \in Seq(S), NEW d
  PROVE  /\ Append(rendered, d) \in Seq(S \cup {d})
         /\ Len(rendered) \in Nat /\ Len(Append(rendered, d)) = Len(rendered) + 1
         /\ DOMAIN Append(rendered, d) = 1 .. Len(rendered) + 1
         /\ DOMAIN rendered = 1 .. Len(rendered)
         /\ \A n \in 1 .. Len(rendered) : Append(rendered, d)[n] = rendered[n]
         /\ Append(rendered, d)[Len(rendered) + 1] = d
OBVIOUS

\* An answer that is complete keeps RendersAll.
LEMMA CompleteAnswer ==
  ASSUME ReadInv, NEW d, Complete(d), request' = request, rendered' = Append(rendered, d)
  PROVE  RendersAll' /\ \E S : rendered' \in Seq(S)
<1>1. PICK S : rendered \in Seq(S)
  BY DEF ReadInv, Collected
<1>2. ASSUME NEW n \in DOMAIN rendered' PROVE Complete(rendered'[n])
  <2>1. CASE n \in 1 .. Len(rendered)
    BY <1>1, <2>1, Answered DEF ReadInv, RendersAll, Complete
  <2>2. CASE n = Len(rendered) + 1
    BY <1>1, <2>2, Answered
  <2> QED
    BY <1>1, <1>2, <2>1, <2>2, Answered
<1>3. RendersAll'
  BY <1>2 DEF RendersAll, Complete, Folders, Files
<1> QED
  BY <1>1, <1>3, Answered

LEMMA FiniteTrees ==
  ASSUME request \in Requests
  PROVE  /\ IsFiniteSet(Folders) /\ \A f \in Folders : IsFiniteSet(request.tree[f])
         /\ request.route \in Routes
         /\ request.route # "machine1" => Folders = {"."} /\ IsFiniteSet(Files)
BY RequestAssumption DEF Folders, Files

-----------------------------------------------------------------------------
(* Nothing is answered too early                                           *)

LEMMA ReadStep == ASSUME ReadInv, [Next]_vars PROVE ReadInv'
<1> USE FiniteTrees
<1>1. CASE ReadFolders
  <2>1. Complete(Undefined) \/ Folders # {}
    BY <1>1 DEF ReadFolders, Complete
  <2>2. RendersAll' /\ \E S : rendered' \in Seq(S)
    <3>1. CASE Folders = {}
      BY <1>1, <2>1, <3>1, CompleteAnswer DEF ReadFolders
    <3>2. CASE Folders # {}
      BY <1>1, <3>2 DEF ReadFolders, ReadInv, Collected, RendersAll, Folders, Files
    <3> QED
      BY <3>1, <3>2
  <2>3. Callbacks' /\ request' = request /\ data' = data
    BY <1>1 DEF ReadFolders, Callbacks
  <2> QED
    BY <2>2, <2>3 DEF ReadInv, Collected, Folders, Files
<1>2. ASSUME NEW f \in Folders, ReadFolder(f) PROVE ReadInv'
  <2>1. request.route = "machine1" /\ request' = request /\ rendered' = rendered
    BY <1>2 DEF ReadFolder, Runs, ReadInv, Callbacks
  <2>2. DOMAIN data' \subseteq DOMAIN data \cup {f}
    BY <1>2, PutKeys DEF ReadFolder
  <2>3. Callbacks'
    BY <1>2, <2>1 DEF ReadFolder, ReadInv, Callbacks, Folders
  <2> QED
    BY <2>1, <2>2, <2>3 DEF ReadInv, Collected, RendersAll, Folders, Files
<1>3. ASSUME NEW f \in Folders, NEW name \in request.tree[f], ReadFile(f, name) PROVE ReadInv'
  <2>1. request.route = "machine1" /\ request' = request /\ data' = Put(f, name)
    BY <1>3 DEF ReadFile
  <2>2. DOMAIN data' \subseteq Folders
    <3>1. DOMAIN data \subseteq Folders
      BY <2>1 DEF ReadInv, Collected
    <3>2. DOMAIN data' = DOMAIN data \cup {f}
      BY <2>1, PutKeys
    <3> QED
      BY <3>1, <3>2
  <2>3. Callbacks'
    BY <1>3, <2>1 DEF ReadFile, ReadInv, Callbacks, Folders
  <2>4. RendersAll' /\ \E S : rendered' \in Seq(S)
    <3>1. CASE AllFolders(data')
      <4>1. Complete(data')
        BY <2>1, <2>2, <3>1, AllKeys DEF AllFolders, Complete, ReadInv
      <4> QED
        BY <1>3, <2>1, <3>1, <4>1, CompleteAnswer DEF ReadFile
    <3>2. CASE ~AllFolders(data')
      BY <1>3, <2>1, <3>2 DEF ReadFile, ReadInv, Collected, RendersAll, Folders, Files
    <3> QED
      BY <3>1, <3>2
  <2> QED
    BY <2>1, <2>2, <2>3, <2>4 DEF ReadInv, Collected, Folders, Files
<1>4. CASE ReadNames
  BY <1>4 DEF ReadNames, ReadInv, Callbacks, Collected, RendersAll, Folders, Files
<1>5. ASSUME NEW name \in Files, ReadGraphFile(name) PROVE ReadInv'
  <2>1. request.route = "visualization" /\ request' = request /\ data' = Put(name, name)
    BY <1>5 DEF ReadGraphFile
  <2>2. DOMAIN data' \subseteq Files /\ \A x \in DOMAIN data' : data'[x] = x
    <3>1. DOMAIN data \subseteq Files /\ \A x \in DOMAIN data : data[x] = x
      BY <2>1 DEF ReadInv, Collected
    <3>2. /\ DOMAIN data' = DOMAIN data \cup {name} /\ data'[name] = name
          /\ \A x \in DOMAIN data \ {name} : data'[x] = data[x]
      BY <2>1 DEF Put
    <3> QED
      BY <3>1, <3>2
  <2>3. Callbacks'
    BY <1>5, <2>1 DEF ReadGraphFile, ReadInv, Callbacks, Folders
  <2>4. RendersAll' /\ \E S : rendered' \in Seq(S)
    <3>1. CASE AllFiles(data')
      <4>1. Complete(data')
        BY <2>1, <2>2, <3>1, AllKeys DEF AllFiles, Complete, ReadInv
      <4> QED
        BY <1>5, <2>1, <3>1, <4>1, CompleteAnswer DEF ReadGraphFile
    <3>2. CASE ~AllFiles(data')
      BY <1>5, <2>1, <3>2 DEF ReadGraphFile, ReadInv, Collected, RendersAll, Folders, Files
    <3> QED
      BY <3>1, <3>2
  <2> QED
    BY <2>1, <2>2, <2>3, <2>4 DEF ReadInv, Collected, Folders, Files
<1>6. CASE ShowReceiver
  <2>1. request.route = "receiver" /\ request' = request /\ data' = data
    BY <1>6 DEF ShowReceiver, Runs, ReadInv, Callbacks
  <2>2. Complete(Log)
    BY <2>1 DEF Complete
  <2>3. RendersAll' /\ \E S : rendered' \in Seq(S)
    BY <1>6, <2>1, <2>2, CompleteAnswer DEF ShowReceiver
  <2>4. Callbacks'
    BY <1>6, <2>1 DEF ShowReceiver, ReadInv, Callbacks, Folders
  <2> QED
    BY <2>1, <2>3, <2>4 DEF ReadInv, Collected, Folders, Files
<1>7. CASE ReadReceiverFile
  BY <1>7 DEF ReadReceiverFile, ReadInv, Callbacks, Collected, RendersAll, Folders, Files
<1>8. CASE CallbackFails \/ UNCHANGED vars
  BY <1>8 DEF CallbackFails, vars, ReadInv, Callbacks, Collected, RendersAll, Folders, Files
<1> QED
  BY <1>1, <1>2, <1>3, <1>4, <1>5, <1>6, <1>7, <1>8 DEF Next, Callback

(***************************************************************************)
(* What the two results below rest on: whose callbacks there are, and that *)
(* data has no keys but those of the log directory.                        *)
(***************************************************************************)
THEOREM AlwaysRead == Spec => []ReadInv
<1>1. Init => ReadInv
  <2> SUFFICES ASSUME Init PROVE ReadInv
    OBVIOUS
  <2>1. request \in Requests /\ DOMAIN data = {} /\ rendered = <<>>
    BY DEF Init
  <2>2. Callbacks
    BY DEF Init, Callbacks, Calls
  <2> QED
    BY <2>1, <2>2 DEF ReadInv, Collected, RendersAll
<1>2. ReadInv /\ [Next]_vars => ReadInv'
  BY ReadStep
<1> QED
  BY <1>1, <1>2, PTL DEF Spec

(***************************************************************************)
(* What is rendered has every folder's log, or every file of the graph, in *)
(* it: no callback takes itself for the last too early.                    *)
(***************************************************************************)
THEOREM AnswersComplete == Spec => []RendersAll
<1>1. ReadInv => RendersAll
  BY DEF ReadInv
<1> QED
  BY <1>1, AlwaysRead, PTL

-----------------------------------------------------------------------------
(* No answer is given twice                                                *)

(***************************************************************************)
(* Each key of data is put once, by a callback that is then gone; once an  *)
(* answer was given, data has all keys.                                    *)
(***************************************************************************)
PutOnce ==
    /\ request.route = "machine1" =>
          \A f \in Folders : \A name \in request.tree[f] :
              /\ <<"file", f, name>> \in pending => <<"dir", f>> \notin pending
              /\ f \in DOMAIN data =>
                    <<"dir", f>> \notin pending /\ <<"file", f, name>> \notin pending
    /\ request.route = "visualization" =>
          \A name \in DOMAIN data : <<"file", ".", name>> \notin pending
    /\ <<"top">> \in pending => pending = {<<"top">>} /\ DOMAIN data = {} /\ rendered = <<>>

AnsweredOnce ==
    /\ Len(rendered) <= 1
    /\ rendered # <<>> =>
          /\ request.route = "machine1" => DOMAIN data = Folders
          /\ request.route = "visualization" => DOMAIN data = Files
          /\ request.route = "receiver" => <<"show">> \notin pending

OnceInv == (request.route = "machine1" => OneEach) => PutOnce /\ AnsweredOnce

LEMMA OneFile ==
  ASSUME request \in Requests, OneEach, NEW f \in Folders
  PROVE  \E name : request.tree[f] = {name}
BY FiniteTrees, FS_Singleton DEF OneEach

LEMMA FirstAnswer ==
  ASSUME \E S : rendered \in Seq(S), rendered = <<>>, NEW d
  PROVE  Len(Append(rendered, d)) = 1
OBVIOUS

LEMMA OnceStep == ASSUME ReadInv, OnceInv, [Next]_vars PROVE OnceInv'
<1> SUFFICES ASSUME request.route = "machine1" => OneEach
             PROVE  (PutOnce /\ AnsweredOnce)'
  <2>1. request' = request
    BY DEF Next, Callback, ReadFolders, ReadNames, ShowReceiver, ReadReceiverFile, ReadFolder,
           ReadFile, ReadGraphFile, CallbackFails, vars
  <2> QED
    BY <2>1 DEF OnceInv, OneEach, Folders
<1> PutOnce /\ AnsweredOnce /\ \E S : rendered \in Seq(S)
  BY DEF OnceInv, ReadInv, Collected
<1> request \in Requests /\ Callbacks
  BY DEF ReadInv
<1> USE FiniteTrees
<1>1. CASE ReadFolders
  <2>1. /\ request.route = "machine1" /\ rendered = <<>> /\ DOMAIN data = {}
        /\ request' = request /\ data' = data /\ pending' = {<<"dir", f>> : f \in Folders}
    BY <1>1 DEF ReadFolders, Runs, PutOnce
  <2>2. PutOnce'
    BY <2>1 DEF PutOnce, Folders
  <2>3. rendered' # <<>> => Folders = {} /\ Len(rendered') = 1
    BY <1>1, <2>1, FirstAnswer DEF ReadFolders
  <2>4. Len(rendered') <= 1
    BY <1>1, <2>1, <2>3 DEF ReadFolders
  <2> QED
    BY <2>1, <2>2, <2>3, <2>4 DEF AnsweredOnce, Folders
<1>2. ASSUME NEW f \in Folders, ReadFolder(f) PROVE (PutOnce /\ AnsweredOnce)'
  <2>1. /\ request.route = "machine1" /\ request' = request /\ rendered' = rendered
        /\ <<"dir", f>> \in pending /\ <<"top">> \notin pending
    BY <1>2 DEF ReadFolder, Runs, Callbacks, PutOnce
  <2>2. PICK name : request.tree[f] = {name}
    BY <2>1, OneFile
  <2>3. data' = data /\ pending' = (pending \ {<<"dir", f>>}) \cup {<<"file", f, name>>}
    BY <1>2, <2>2 DEF ReadFolder
  <2>4. f \notin DOMAIN data
    BY <2>1, <2>2 DEF PutOnce
  <2>5. PutOnce'
    BY <2>1, <2>2, <2>3, <2>4 DEF PutOnce, Folders
  <2> QED
    BY <2>1, <2>3, <2>5 DEF AnsweredOnce, Folders
<1>3. ASSUME NEW f \in Folders, NEW name \in request.tree[f], ReadFile(f, name)
      PROVE  (PutOnce /\ AnsweredOnce)'
  <2>1. /\ request.route = "machine1" /\ request' = request
        /\ <<"file", f, name>> \in pending /\ <<"top">> \notin pending
        /\ pending' = pending \ {<<"file", f, name>>}
    BY <1>3 DEF ReadFile, Runs, PutOnce
  <2>2. DOMAIN data' = DOMAIN data \cup {f}
    BY <1>3, PutKeys DEF ReadFile
  <2>3. request.tree[f] = {name}
    BY <2>1, OneFile
  <2>4. f \notin DOMAIN data /\ <<"dir", f>> \notin pending
    BY <2>1 DEF PutOnce
  <2>5. PutOnce'
    BY <2>1, <2>2, <2>3, <2>4 DEF PutOnce, Folders
  <2>6. rendered = <<>>
    BY <2>1, <2>4 DEF AnsweredOnce
  <2>7. Len(rendered') <= 1 /\ (rendered' # <<>> => AllFolders(data'))
    BY <1>3, <2>6, FirstAnswer DEF ReadFile
  <2>8. DOMAIN data' \subseteq Folders
    BY <2>1, <2>2 DEF ReadInv, Collected
  <2>9. rendered' # <<>> => DOMAIN data' = Folders
    BY <2>7, <2>8, AllKeys DEF AllFolders
  <2> QED
    BY <2>1, <2>5, <2>7, <2>9 DEF AnsweredOnce, Folders
<1>4. CASE ReadNames
  <2>1. /\ request.route = "visualization" /\ rendered' = <<>> /\ DOMAIN data' = {}
        /\ request' = request /\ pending' = {<<"file", ".", x>> : x \in Files}
    BY <1>4 DEF ReadNames, Runs, PutOnce
  <2> QED
    BY <2>1 DEF PutOnce, AnsweredOnce
<1>5. ASSUME NEW name \in Files, ReadGraphFile(name) PROVE (PutOnce /\ AnsweredOnce)'
  <2>1. /\ request.route = "visualization" /\ request' = request
        /\ <<"file", ".", name>> \in pending /\ <<"top">> \notin pending
        /\ pending' = pending \ {<<"file", ".", name>>}
    BY <1>5 DEF ReadGraphFile, Runs, PutOnce
  <2>2. DOMAIN data' = DOMAIN data \cup {name}
    BY <1>5, PutKeys DEF ReadGraphFile
  <2>3. name \notin DOMAIN data
    BY <2>1 DEF PutOnce
  <2>4. PutOnce'
    BY <2>1, <2>2 DEF PutOnce
  <2>5. rendered = <<>>
    BY <2>1, <2>3 DEF AnsweredOnce
  <2>6. Len(rendered') <= 1 /\ (rendered' # <<>> => AllFiles(data'))
    BY <1>5, <2>5, FirstAnswer DEF ReadGraphFile
  <2>7. DOMAIN data' \subseteq Files
    BY <2>1, <2>2 DEF ReadInv, Collected
  <2>8. rendered' # <<>> => DOMAIN data' = Files
    BY <2>1, <2>6, <2>7, AllKeys DEF AllFiles
  <2> QED
    BY <2>1, <2>4, <2>6, <2>8 DEF AnsweredOnce, Files
<1>6. CASE ShowReceiver
  <2>1. /\ request.route = "receiver" /\ request' = request /\ data' = data
        /\ <<"show">> \in pending /\ pending' = pending \ {<<"show">>}
        /\ rendered' = Append(rendered, Log)
    BY <1>6 DEF ShowReceiver, Runs, Callbacks
  <2>2. rendered = <<>> /\ <<"top">> \notin pending
    BY <2>1 DEF AnsweredOnce, PutOnce
  <2>3. Len(rendered') = 1
    BY <2>1, <2>2, FirstAnswer
  <2> QED
    BY <2>1, <2>2, <2>3 DEF PutOnce, AnsweredOnce
<1>7. CASE ReadReceiverFile
  <2>1. <<"top">> \notin pending
    BY <1>7 DEF ReadReceiverFile, Runs, PutOnce
  <2> QED
    BY <1>7, <2>1 DEF ReadReceiverFile, PutOnce, AnsweredOnce, Folders, Files
<1>8. CASE CallbackFails \/ UNCHANGED vars
  BY <1>8 DEF CallbackFails, vars, PutOnce, AnsweredOnce, Folders, Files
<1> QED
  BY <1>1, <1>2, <1>3, <1>4, <1>5, <1>6, <1>7, <1>8 DEF Next, Callback

(***************************************************************************)
(* A request is answered once at most: for the graph and the receiver      *)
(* always, for the functions' logs if every folder has one file.           *)
(***************************************************************************)
THEOREM AnswersOnce == Spec => []RendersOnce
<1>1. Init => OnceInv
  <2> SUFFICES ASSUME Init PROVE PutOnce /\ AnsweredOnce
    BY DEF OnceInv
  <2>1. DOMAIN data = {} /\ rendered = <<>> /\ Len(rendered) = 0
    BY DEF Init
  <2>2. pending = {<<"top">>} \/ pending = {<<"show">>, <<"readReceiverFile">>}
    BY DEF Init, Calls
  <2> QED
    BY <2>1, <2>2 DEF PutOnce, AnsweredOnce
<1>2. ReadInv /\ OnceInv /\ [Next]_vars => OnceInv'
  BY OnceStep
<1>3. OnceInv => RendersOnce
  BY DEF OnceInv, RendersOnce, AnsweredOnce
<1> QED
  BY <1>1, <1>2, <1>3, AlwaysRead, PTL DEF Spec

-----------------------------------------------------------------------------
(* Types                                                                   *)

Names == UNION {request.tree[f] : f \in Folders}
Values == {Empty} \cup Names
Awaited ==
    Calls(request) \cup {<<"dir", f>> : f \in Folders}
    \cup UNION {{<<"file", f, name>> : name \in request.tree[f]} : f \in Folders}
Pages ==
    {Undefined, Log} \cup
    UNION {[s -> Values] : s \in {Folders} \cup {request.tree[f] : f \in Folders}}

TypeInv == ReadInv /\ TypeOK /\ data \in [DOMAIN data -> Values]

LEMMA Types ==
  /\ \A f \in Folders : <<"dir", f>> \in Awaited
  /\ \A f \in Folders : \A name \in request.tree[f] :
        name \in Names /\ name \in Values /\ <<"file", f, name>> \in Awaited
  /\ Empty \in Values /\ Undefined \in Pages /\ Log \in Pages
  /\ \A d : d \in [Folders -> Values] => d \in Pages
  /\ \A f \in Folders : \A d : d \in [request.tree[f] -> Values] => d \in Pages
<1>1. \A f \in Folders : <<"dir", f>> \in Awaited
  BY DEF Awaited
<1>2. ASSUME NEW f \in Folders, NEW name \in request.tree[f]
      PROVE  name \in Names /\ name \in Values /\ <<"file", f, name>> \in Awaited
  BY DEF Names, Values, Awaited
<1>3. ASSUME NEW s \in {Folders} \cup {request.tree[f] : f \in Folders}, NEW d \in [s -> Values]
      PROVE  d \in Pages
  BY DEF Pages
<1> QED
  BY <1>1, <1>2, <1>3 DEF Values, Pages

LEMMA TypesOfState ==
  TypeOK <=> /\ request \in Requests /\ server \in {"up", "dead"}
             /\ pending \subseteq Awaited /\ DOMAIN data \subseteq Folders \cup Names
             /\ rendered \in Seq(Pages)
BY DEF TypeOK, Awaited, Pages, Names, Values

\* What a callback puts into data, or gives as an answer.
LEMMA PutType ==
  ASSUME data \in [DOMAIN data -> Values], NEW key, NEW value \in Values
  PROVE  Put(key, value) \in [DOMAIN Put(key, value) -> Values]
<1>1. \A x \in DOMAIN data : data[x] \in Values
  OBVIOUS
<1> QED
  BY <1>1 DEF Put

LEMMA TypeStep == TypeInv /\ [Next]_vars => TypeInv'
<1> SUFFICES ASSUME TypeInv, [Next]_vars PROVE (TypeOK /\ data \in [DOMAIN data -> Values])'
  BY ReadStep DEF TypeInv
<1> DEFINE Good ==
             /\ request' = request /\ server' \in {"up", "dead"}
             /\ pending' \subseteq Awaited /\ DOMAIN data' \subseteq Folders \cup Names
             /\ data' \in [DOMAIN data' -> Values] /\ rendered' \in Seq(Pages)
<1> SUFFICES Good
  BY DEF Good, TypeInv, TypeOK, Awaited, Pages, Names, Values, Folders, Calls
<1>0. /\ ReadInv /\ request \in Requests /\ server \in {"up", "dead"}
      /\ pending \subseteq Awaited /\ DOMAIN data \subseteq Folders \cup Names
      /\ data \in [DOMAIN data -> Values] /\ rendered \in Seq(Pages)
  BY TypesOfState DEF TypeInv
<1>1. CASE ReadFolders
  <2>1. pending' \subseteq Awaited
    BY <1>1, Types DEF ReadFolders
  <2>2. rendered' \in Seq(Pages)
    BY <1>0, <1>1, Types DEF ReadFolders
  <2> QED
    BY <1>0, <1>1, <2>1, <2>2 DEF ReadFolders
<1>2. ASSUME NEW f \in Folders, ReadFolder(f) PROVE Good
  <2>1. pending' \subseteq Awaited
    BY <1>0, <1>2, Types DEF ReadFolder
  <2>2. data' \in [DOMAIN data' -> Values] /\ DOMAIN data' \subseteq Folders \cup Names
    <3>1. data' = data \/ data' = Put(f, Empty)
      BY <1>2 DEF ReadFolder
    <3>2. DOMAIN Put(f, Empty) = DOMAIN data \cup {f}
      BY PutKeys
    <3>3. Put(f, Empty) \in [DOMAIN Put(f, Empty) -> Values]
      BY <1>0, Types, PutType
    <3> QED
      BY <1>0, <3>1, <3>2, <3>3
  <2> QED
    BY <1>0, <1>2, <2>1, <2>2 DEF ReadFolder
<1>3. ASSUME NEW f \in Folders, NEW name \in request.tree[f], ReadFile(f, name) PROVE Good
  <2>1. data' = Put(f, name) /\ request.route = "machine1" /\ name \in Values
    BY <1>3, Types DEF ReadFile
  <2>2. data' \in [DOMAIN data' -> Values] /\ DOMAIN data' = DOMAIN data \cup {f}
    <3>1. DOMAIN Put(f, name) = DOMAIN data \cup {f}
      BY PutKeys
    <3>2. Put(f, name) \in [DOMAIN Put(f, name) -> Values]
      BY <1>0, <2>1, PutType
    <3> QED
      BY <2>1, <3>1, <3>2
  <2>3. rendered' \in Seq(Pages)
    <3>1. CASE AllFolders(data')
      <4>1. DOMAIN data' \subseteq Folders
        BY <1>0, <2>1, <2>2 DEF ReadInv, Collected
      <4>2. DOMAIN data' = Folders
        BY <1>0, <3>1, <4>1, AllKeys, FiniteTrees DEF AllFolders
      <4>3. data' \in Pages
        BY <2>2, <4>2, Types
      <4> QED
        BY <1>0, <1>3, <3>1, <4>3 DEF ReadFile
    <3>2. CASE ~AllFolders(data')
      BY <1>0, <1>3, <3>2 DEF ReadFile
    <3> QED
      BY <3>1, <3>2
  <2> QED
    BY <1>0, <1>3, <2>2, <2>3 DEF ReadFile
<1>4. CASE ReadNames
  <2>1. "." \in Folders
    BY <1>0, <1>4, FiniteTrees DEF ReadNames
  <2>2. pending' \subseteq Awaited
    BY <1>4, <2>1, Types DEF ReadNames, Files
  <2> QED
    BY <1>0, <1>4, <2>2 DEF ReadNames
<1>5. ASSUME "." \in Folders, NEW name \in Files, ReadGraphFile(name) PROVE Good
  <2>1. data' = Put(name, name) /\ request.route = "visualization" /\ name \in Values
        /\ name \in Names
    BY <1>5, Types DEF ReadGraphFile, Files
  <2>2. data' \in [DOMAIN data' -> Values] /\ DOMAIN data' = DOMAIN data \cup {name}
    <3>1. DOMAIN Put(name, name) = DOMAIN data \cup {name}
      BY PutKeys
    <3>2. Put(name, name) \in [DOMAIN Put(name, name) -> Values]
      BY <1>0, <2>1, PutType
    <3> QED
      BY <2>1, <3>1, <3>2
  <2>3. rendered' \in Seq(Pages)
    <3>1. CASE AllFiles(data')
      <4>1. DOMAIN data' \subseteq Files
        BY <1>0, <2>1, <2>2 DEF ReadInv, Collected
      <4>2. DOMAIN data' = Files
        BY <1>0, <2>1, <3>1, <4>1, AllKeys, FiniteTrees DEF AllFiles
      <4>3. data' \in Pages
        BY <1>5, <2>2, <4>2, Types DEF Files
      <4> QED
        BY <1>0, <1>5, <3>1, <4>3 DEF ReadGraphFile
    <3>2. CASE ~AllFiles(data')
      BY <1>0, <1>5, <3>2 DEF ReadGraphFile
    <3> QED
      BY <3>1, <3>2
  <2> QED
    BY <1>0, <1>5, <2>1, <2>2, <2>3 DEF ReadGraphFile
<1>6. CASE ShowReceiver
  <2>1. rendered' \in Seq(Pages)
    BY <1>0, <1>6, Types DEF ShowReceiver
  <2> QED
    BY <1>0, <1>6, <2>1 DEF ShowReceiver
<1>7. CASE ReadReceiverFile
  BY <1>0, <1>7 DEF ReadReceiverFile
<1>8. CASE CallbackFails \/ UNCHANGED vars
  BY <1>0, <1>8 DEF CallbackFails, vars
<1> QED
  BY <1>1, <1>2, <1>3, <1>4, <1>5, <1>6, <1>7, <1>8 DEF Next, Callback

(***************************************************************************)
(* The callbacks to come, the keys of data and the answers are those of    *)
(* the request's log directory (TypeOK).                                   *)
(***************************************************************************)
THEOREM TypeCorrect == Spec => []TypeOK
<1>1. Init => TypeOK /\ data \in [DOMAIN data -> Values]
  <2> SUFFICES ASSUME Init PROVE TypeOK /\ data \in [DOMAIN data -> Values]
    OBVIOUS
  <2>1. /\ request \in Requests /\ server = "up" /\ pending = Calls(request)
        /\ data = <<>> /\ rendered = <<>>
    BY DEF Init
  <2>2. DOMAIN data = {} /\ data \in [DOMAIN data -> Values] /\ rendered \in Seq(Pages)
    BY <2>1
  <2>3. pending \subseteq Awaited
    BY <2>1 DEF Awaited
  <2> QED
    BY <2>1, <2>2, <2>3, TypesOfState
<1>2. TypeOK /\ data \in [DOMAIN data -> Values] /\ ReadInv /\ ReadInv' /\ [Next]_vars
      => (TypeOK /\ data \in [DOMAIN data -> Values])'
  BY TypeStep DEF TypeInv
<1> QED
  BY <1>1, <1>2, AlwaysRead, PTL DEF Spec
===============================================================================
