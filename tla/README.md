# DeepNF: a TLA+ model of the service graph's life

DeepNF runs a packet through a *service graph* of network functions (NFs) that
are spread over several machines. NFs that may work on a packet in parallel each
get a copy; the *merger* collects the copies that the leaves of the graph send
and merges them into one packet. This directory follows a service graph through
the system: the JSON it is read from, the graph the Orchestrator builds of it,
its deployment to the machines, the way of the packets through it, the merger at
its end, and the logs the web server shows. It holds TLA+ modules for these parts,
TLC configurations that check them on small instances, and TLAPS proofs for every
value of the constants.

All source paths below are relative to the repository.

## 1. Inventory

| component | state | operations | interacts with |
|---|---|---|---|
| merger threads (`src/runtime/merger/MergerOperator.cpp`) | `packet_map` (id to map of leaf to packet), `packet_map_mutex`, each thread's `this_pkt_map`, open sockets | `run_node_thread` per leaf: receive, insert, check the size; `run_merge_packet` per complete id, detached: merge, erase, send | leaves' NFs and the receiver over UDP; threads through `packet_map` |
| merge algorithm (`merge_packet`, `resolve_packet_conflict`, `ActionTable`, `ConflictItem`, `MergerInfo`) | the map of partial results, the packet buffers it aliases | convert, resolve the conflict list until nothing changes, fold what is left | conflict list and node map made by the Orchestrator |
| packets (`src/runtime/packet.cpp`) | a buffer, pointers into it | nullify, is_null, readers and writers | every runtime program |
| socket, address, log utilities (`src/runtime/*_util.cpp`) | none | datagram send and receive, parsing addresses, one log line | every runtime program |
| network functions (`src/runtime/nf_configs`: firewall, load balancer, proxy, compressor) | destination addresses | receive, change or nullify, send to each successor, log | pktgen, each other, forwarder, merger |
| generator and receiver (`nf_configs/pktgen`) | a counter | send n numbered packets; count n packets and exit | NFs; merger |
| forwarder (`src/runtime/forwarder`) | table of port and virtual address | one thread per line: receive, open a socket, send | NFs on other machines |
| Orchestrator (`src/setup/Orchestrator.cpp`) | service graph nodes, `pair_to_conflicts`, `func_to_ip`, serialized configurations | parse dependencies and priorities, build the graph, partition it, list conflicts, push a configuration to each machine and wait for ACK, then run the merger | configure agents over TCP, web server through files |
| configuration data (`src/common`) | machines, nodes, `node_map` | serialization | Orchestrator, configure agent |
| configure agent (`src/runtime/config/configure.cpp`) | `nodeid_to_port`, `nodeid_to_network`, forwarder table | receive a configuration, ACK, build containers, start NFs, forwarder, pktgen | Orchestrator, docker, Open vSwitch |
| log web server (`src/webserver/routes/routes.js`) | the object each request collects | read log folders with callbacks, render | log and graph files |
| listeners (`src/listener`, `src/browser`) | none | accept one connection, answer each read | nothing in the repository |
| JSON library (`src/setup/json.hpp`) | the value read or built | lexer, parser, acceptor, serializer, element access, modifiers, pointers, patches, flattening | the Orchestrator's input and action table; the graph and ports it writes |
| `remveth.cpp` | none | shell commands that delete virtual interfaces | Open vSwitch |
| third-party assets (bootstrap, jquery, `cmake-build-debug`) | | | |

The hard behaviours: threads that share maps and read them without their lock;
detached threads that outlive what they looked up; datagrams that are lost,
repeated or reordered; a 16-bit id that wraps; descriptors that are never
closed; packets that alias one buffer; unordered maps that decide the order of
merging; a set-up handshake whose two sides read and write in one piece; file
callbacks that each think they are the last.

What makes each component correct:

* merger threads: no complete id is forgotten; a merge combines the copies of
  one packet, all of them and no others; an erasure never takes packets with it
  that nobody merged; a complete packet is sent unless the process dies.
* merge algorithm: a drop is never lost or made up; no change is lost; a conflict
  is won by the packet the list ranks higher; the result depends neither on the
  order of the list nor on another merge of the same id; merging terminates.
* Orchestrator: the graph respects the order dependencies, NFs placed in parallel
  may run in parallel, every conflict list item names nodes of the graph and
  their common parent.
* handshake: each machine acts on the whole configuration, once; set-up ends.
* addressing: every sender's destination is a port its receiver listens on, no
  two listeners of a machine share one.
* pipeline and forwarder: a copy reaches the merger through every path or was
  lost by the network; the receiver's count.
* web server: one response per request, with everything in it.
* JSON library: what it accepts is what RFC 8259's grammar allows, what it writes it reads
  back, a cut file is never taken for another document, a pointer names one value.

## 2. Modules

| module | what it is | extended by |
|---|---|---|
| `JsonText`, `JsonDump`, `JsonDoc` | JSON's lexer and parser, serializer, and a document that is read, changed and written | `MCJson`, which adds the client |
| `JsonGrammar` | the grammar of RFC 8259, as a recognizer that uses nothing of `JsonText` | instantiated by `JsonDoc` |
| `ServiceGraph` | the Orchestrator's constructor, step by step | `MCServiceGraph`, `ServiceGraphProofs` |
| `InputGraphs` | the graphs of the repository's inputs, as the merger takes them | `MCServiceGraph`, `MCMergePacket` |
| `Deploy` | the set-up handshake and what each agent builds | `MCDeploy`, `DeployProofs` |
| `Pipeline` | generator, NFs, forwarders, merger from outside, receiver | `MCPipeline`, `PipelineProofs` |
| `MergerOperator` | the merger as a concurrent program | `MCMergerOperator`, `MergerOperatorProofs` |
| `MergeService` | what the merger promises when copies arrive at most once (abstract) | instantiated by `MergerOperator` |
| `MergePacket` | what merges compute, step by step, on shared buffers | `MCMergePacket`, `MergePacketProofs` (extended by `MergeChangesProofs`, `MergeAgreementProofs`) |
| `WebLog` | one request of the log web server | `MCWebLog`, `WebLogProofs` |

How they fit together. `ServiceGraph` ends with the graph that `MergePacket` starts
from: `FeedsMergePacket` checks that for the repository's inputs the constructor
gives exactly the graphs of `InputGraphs`, on which `MergePacket` is checked.
`Pipeline` shows what `MergerOperator` and `MergePacket` assume of the rest of the
system (`AtMostOnce`: a leaf's port receives an id once; `PathKept`: a copy has
gone through the whole path `MergePacket` takes it to have), and takes of the
merger what `MergeService` promises. `Deploy` gives the addresses that `Pipeline`
sends to: `RoutesAgree` is why a datagram for a node gets to that node.

### MergerOperator

State: `received` is the history of datagrams that `recvfrom` has returned;
`nodePc`, `current` (`p`) and `this_pkt_map` are the locals of the leaves'
threads; `packet_map` is the outer map, `nodeMaps` the inner maps it points to,
which are never freed; `mergePc`, `mergeMap`, `merged` belong to the detached
merge threads; `sockets` counts descriptors; `crashed` is the end of the process.

| action | code |
|---|---|
| `Receive`, `Lock`, `Add`, `PrintMap`, `CheckSize` | `run_node_thread`, lines 108-113, 116, 117-126, 128, 131-138 |
| `Lookup`, `LookupThrows` | `packet_map.at(pkt_id)`, line 219, found or not |
| `Merge` | the rest of `merge_packet` as one snapshot of the inner map |
| `MergeLock`, `Erase` | lines 317-319 |
| `Send`, `SendFails` | lines 324-337; a failed socket or send is `exit(-1)` |
| `MergePrint` | `print_packet_map`, line 341 |
| `Race` | a write to a map that another thread reads without the lock ends the process |

A critical section is one step because nothing outside it takes the lock; every
read outside the lock is a step of its own. What the standard calls undefined (a
walk over a map during an insert or erase) is either an ordinary interleaving or
`Race`. An inner map and a merge thread are named by the datagram that caused
them, since each datagram causes at most one of each.

The network: a datagram is received at most once, in any order; one never
received was lost; the second copy of a packet from a leaf is a duplicate.
`AtMostOnce` is the environment without duplicates and without reused ids.

### MergePacket

State: `graph` and `dropped` are the input (which graph, which NFs nullified the
packet), `leafBuf` the leaves' packets, which all merges of an id share, and per
merge thread the program counter, `pkt_info_map`, the position in the conflict
list, `was_changed`, `merged_packet` and the packet sent. A partial result holds
*whose bytes it is made of*: `new packet(...)` keeps its argument's buffer, so
resolving a conflict writes into the major leaf's packet (`WriteThrough`) until
`write_payload` moves the result to a buffer of its own (`Own`).

| action | code |
|---|---|
| `Convert` | `packet_map_to_packet_info_map`, `packet_to_packet_info` |
| `ResolveConflict`, `ResolveToNull`, `SkipConflict`, `EndPass` | the loop at lines 241-279 with `resolve_packet_conflict` |
| `FoldFirst`, `FoldNext`, `FoldEnd` | lines 282-304 |
| `Send` | the bytes handed to `send_packet`, as they are by then |

The value of a field is the node that wrote it last. `LeafPacket` composes what
the NFs on a leaf's path do to a packet.

`MCMergePacket` takes from `InputGraphs` the graphs the Orchestrator builds from
`inputs/input_complex.json` and `inputs/input_test.json`, and adds three functions in
parallel and `MergerInfo::get_dummy_merger_info` (as it is and as the code
commented out in it has it, the latter also with its first two the other way
round). `create_conflicts_list` walks unordered maps, so
every order it may produce is a graph of its own.

### ServiceGraph

State: `input` (the parsed JSON and, because sets of nodes are ordered by pointer,
the addresses `new` returned), `pc` and `k` (the part of the constructor and its
loop), and the constructor's own structures under their names: `neighbors` and
`parents` of each `ServiceGraphNode`, the pairs of `pair_to_conflicts`, `leafNodes`,
`func_to_ip`, `port_to_node_map`, `conflicts_list`. `calls` is the stack of the
recursive `findAllLeaves`, `drawn` what the web server is given.

| action | code (`Orchestrator.cpp`) |
|---|---|
| `ParseOrder`, `ParsePriority` | `parseOrderDependencies`, `parsePriorityDependencies` with `isParallelizable` and the action table |
| `Forest`, `FindRoots` | the loop over the parsed dependencies; the nodes without parents |
| `SearchRoot`, `FindLeaf`, `LeavesFound` | `findAllLeaves` per root, a neighbor at a time; `checkLevelParallelizability` of its leaves |
| `CheckPriorities` | the same for the level of the free floating nodes |
| `Attach` | what hangs from first and leads to last; `Fail` where the code dereferences `NULL` |
| `Partition`, `Ports`, `WriteGraph` | `round_robin_partitioning`, the merger's ports, `write_graph_format` |
| `ListConflict`, `Finish` | `create_conflicts_list`, in any order an unordered map gives; `MergerInfo` |

`get_parent` is the first of an address-ordered set; both address orders are
inputs. `MergerGraph` reads the merger's graph off the final state.

### Deploy

State: `orc`, `cur` (the `i` of `setup_containers`), per machine the connection,
whether a configuration was written, the bytes of `ACK` on their way, the agent's
program counter, what its one `read` returned (`got`), and the tables it builds:
`net` (`nodeid_to_network`, `nodeid_to_port`), `lines` (of forwarder.txt),
`started` (the addresses each function was started with).

| action | code |
|---|---|
| `Connect`, `Write`, `Read`, `ReadNothing` | the loop of `setup_containers`; connect's result is ignored, anything that is not exactly ACK is a reason to write again |
| `Listen`, `Accept`, `ReadConfig`, `Answer`, `Close` | `get_machine_configurator` |
| `SetupBridgePorts` | `setup_bridge_ports`: container addresses and ports of other machines |
| `WriteForwarder`, `StartNode`, `StartPktgen`, `Wait` | `make_flow_rules` and the fork of the forwarder |

A configuration is its protobuf fields in order. The agent's single `read` may
return any prefix of them; the string the Orchestrator writes has one byte more
than it set, and what that byte parses as is a choice (`Strays`). What
`string_to_machine_configurator` makes of an incomplete message is `IdRead`,
`MapRead`, `ConfId`, `NodesFor`.

### Pipeline

State: `i` (pkt_sender's loop), `net` (a bag of datagrams; one nobody takes was
lost), each function's life, each forwarder's sockets and the `limit` chosen for
them, what arrived at the
merger, how often it sent each packet, and pkt_receiver's count and log.
A datagram carries `from`, a history of the functions it went through.

| action | code |
|---|---|
| `Send` | the body of `pkt_sender`'s loop |
| `Start`, `Handle`, `HandleFails`, `Refuse` | a function (`firewall`, `dnf_loadbalancer`, `proxy`, `compressor`): started by docker, receive-change-send, exit when a send fails, a port nobody listens on |
| `Forward`, `ForwardAtLimit`, `ForwarderFails` | `send_packets`: a socket per packet that is never closed, `open_socket` failing at the limit, any other failure of a thread (a failed receive is followed as `NULL`) |
| `MergerReceive`, `Deliver` | the merger as `MergeService` has it, up to `Deliveries` times per packet |
| `Receive` | `pkt_receiver`: count, log, exit with the total time |

### WebLog

State: the request and the files there are, the callbacks still to come
(`pending`), `data`, what was rendered, and whether the server is up. One action
per callback of `readFiles`, `readGraph`, `showReceiver` and `readReceiverFile`;
`CallbackFails` is the exception that a callback may throw, which ends the server.
Requests share no state, so one is enough.

### JsonText, JsonDump, JsonDoc, JsonGrammar

Texts are sequences of bytes. `JsonText` has the lexer as operators that return a
token and the place after it (`ScanString` with its UTF-8 and surrogate rules,
`ScanNumber` with its automaton), `ParseInternal` and `Accept`; `JsonDump` the
serializer with the UTF-8 decoding automaton, number formatting and
`std::map`'s order; `JsonDoc` element access, modifiers, pointers (`Split`,
`EscapeToken`, `Flatten`, `Unflatten`) and patches (`Patch`, `Diff`, `MergePatch`)
as operators on values, the two documents `write_graph_format` builds (`GraphNodes`,
`GraphEdges`), and three steps: `Read` a file, `Change` the value at a place, and
`Write` the document. A float is a decimal of at most `MaxDigits` digits, which a
double gives back unchanged; integer widths are constants, and the largest float is
taken for a power of ten (`MaxExp`).

`MCJson` adds the client, which translates no code: it reads any of `Files`, or
starts from any of `Documents`, makes any edit at any place, writes, and reads what
was written, whole or `Cut` short. The program's own use of the library (`operator>>`
into the input and action table; `array()`, `object()`, `operator[]` with a name,
`push_back` and `operator<<` for the graph and the ports) is a part of that; what
holds for any client holds for it.

`JsonGrammar` is what `Grammar` compares the parser with. It divides a text as the
RFC's rules do and shares no operator with the lexer, so the two can disagree. They
do at three places, which `Grammar` excepts:

* a byte 0 outside a string ends the text for the lexer (`json.hpp:3076`, with a
  comment that string literals need it), also in files and strings of known length,
  and what is behind it is not looked at: `UpToNull`. "1", a byte 0 and anything behind
  it are accepted, although the comment on `accept` (`json.hpp:3234`) promises a proper
  JSON text; with `file` instead of `UpToNull(file)`, TLC refutes `Grammar` at once;
* a number that no double can hold, such as 1e400, is JSON, and the parser refuses it
  (out_of_range.406, `json.hpp:757`); section 6 of the RFC lets a reader limit the range:
  `InRange`, computed from the digits and the exponent as they stand in the text;
* the escape of half a surrogate pair, such as \uD800 alone, is JSON by the grammar,
  and the parser refuses it; section 8.2 calls the outcome unpredictable: `IsChar`.

## 3. Runs

| run | instance | result |
|---|---|---|
| `merger_once` | 2 leaves, 2 packets with distinct ids, 1 copy each, 5 descriptors | `TypeOK`, `MergesExact`, `ErasesOnlyMerged`, `ImplementsService`, `Delivery` hold (78,183 states) |
| `merger_reuse` | 2 leaves, 2 packets with the same id, 2 copies, at most 4 datagrams received, 3 descriptors | `NoLostMerge`, `MergeInput` hold; `TypeOK` is in `merger_once` and proved (2,068,182 states up to symmetry) |
| `merger_double` | as `merger_once` | `SentOnce` is violated |
| `merge_packet` | 5 families of graphs, 128 initial states, 2 merges at once | `TypeOK`, `NullDominates`, `AllChangesMerged`, `MajorWins`, `Agreement`, `LeafWritesKept`, `Termination`, `Advances` hold (31,430 states) |
| `merge_chain` | compressor, proxy, load balancer in order after pktgen; 1 merge | `AllChangesMerged` is violated |
| `merge_four` | four functions in parallel after pktgen; 1 merge | `AllChangesMerged` is violated |
| `service_graph` | both shipped test inputs, `input.json`, every small input (below), both address orders | `TypeOK`, `TreesKeepOrder`, `OneCopy`, `ItemsMeet`, `LastIsLeaf`, `FeedsMergePacket`, `Builds` hold (136,664 states) |
| `service_bypass` | a dependency in sequence and one in parallel on one function | `OrderKept` is violated |
| `deploy` | `input_complex.json` on 2 machines, every cut of the configuration and of the answer, every stray byte | `TypeOK`, `MergerAfterAll`, `RoutesAgree`, `NodeOnce`, `SetupEnds` hold (80,673 states) |
| `pipeline` | `input_complex.json` on 2 machines, 2 packets, 2 deliveries, forwarders with 7 descriptors and with 3 or 1 | `TypeOK`, `AtMostOnce`, `PathKept`, `DropSticks`, `TotalIsTotal`, `AllDelivered` hold (570,236 states) |
| `weblog` | up to 3 folders of up to 2 files, up to 3 graph files, the receiver's log | `TypeOK`, `RendersOnce`, `RendersAll`, `Answers` hold (7,907 states) |
| `json` | short texts over structure, numbers, UTF-8 and escapes, with and without a byte 0; documents of every type and those of a small graph; 1 edit | `Grammar`, `ReadsBack`, `PointersName` hold (123,810 states) |

Bounds. Two leaves are the least that race for one id; with two packets the
merge of one overlaps the arrival of the other, and in `merger_once` both leaves'
threads may start a merge of each packet, so that a second merge finds its key
gone (`LookupThrows`) or refilled. `MaxSockets` is 5 there: two sockets of the
leaves' threads and three of up to four merges, so the limit is reached. In
`merger_reuse` four datagrams are enough for an id to complete, be merged, and
complete again from a duplicate and a packet of the next generation while the
first merge is still running. `ReceivedBound` and `MaxSockets` are the only
bounds; `IdSpace` stands for 2^16 and keeps `pkt_sender`'s start at half the
space, so that the second packet's id has wrapped. The symmetry set is used with
invariants only. In `merge_packet` two merges are the number of leaves' threads
that start one in the smallest graph, and the case the shared buffers are about.
Deadlock is not checked: every program here stops in the end, the merger when the
network delivers nothing more or the process is dead, a merge when it has sent,
the constructor when it is done.

In `service_graph` the small inputs are three functions of the shipped action
table behind pktgen, listed in four orders, with at most two dependencies and one
priority without a cycle: enough for a chain, two trees, a tree beside free
floating nodes and a node that is both. Further inputs place functions first and
last, name one twice, or miss a row of the table; one tree has leaves at two depths
(`Uneven`), and one input a cycle that a function hangs from (`Cycle`). The properties speak of inputs
the constructor's comments have in mind (`Separate`): dependencies that are not
parallelizable form a forest and free floating nodes are in no tree except as a
root; `service_bypass` shows what happens without the last condition. `ItemsMeet`
puts the parent on the way to the minor only if the trees' leaves are `Level`: the
code takes the major's parent (`Orchestrator.cpp:482`), which on `Uneven` the minor's
packets never go through, although `ConflictItem.h:30` calls it the parent of the
major and minor; without `Level` TLC refutes it there. `LastIsLeaf` needs no more than
dependencies without a cycle. `Above` and `Reached` are smallest closed sets rather
than recursions, so that the same definitions are checked and proved about. In `deploy`
two machines are the least with an address on another one, and five nodes give a
machine three, so that containers are numbered. In `pipeline` one edge within each
machine and edges in both directions between them are present; a forwarder needs
a socket per thread and per packet, so 7 descriptors are just enough on machine 0
and 3 on machine 1; with 1 the latter can open none, which is where
`ForwardAtLimit` happens. `AllDelivered` assumes a network that loses nothing and no
failure, and says that a leaf is served if the forwarders on its way have as many
descriptors as they need (`Served`), whatever becomes of the others; one socket per
packet more breaks it. In `json` the integers have 8 bits, so that overflow to the next
type is near, texts have up to four chunks, and strings take every lead byte at
the edges of the UTF-8 ranges with every edge of a continuation byte. A byte 0 comes
behind, inside and in front of texts (`Nulls`), and `Large` has numbers on both sides of
the range, with and without leading zeros.

Every property of a passing run is also checked to fail on a *bug for TLC*: a
variant of one definition that stands for a plausible mistake in the code, kept
just above the definition it varies.

### What the violations show

* `SentOnce`: both leaves insert, then both read the size outside the lock; both
  find it complete and start a merge. If the second merge looks up the id before
  the first erases it, the packet is sent twice (if after, `at` throws and the
  process ends). The comments at `MergerOperator.cpp:130` and `:309` describe one
  merge. `MergeService` therefore allows one delivery per leaf, and
  `ImplementsService` shows there are never more.
* `AllChangesMerged` under `merge_chain`: `written_fields` of a leaf's packet
  names the writes of the leaf's NF only. When the final fold makes another
  leaf's packet the major, what an earlier NF on the minor's path wrote is not
  copied.
* `AllChangesMerged` under `merge_four`: the merged packet of a conflict is
  inserted under its parent's key, and `std::map::insert` ignores a key that is
  there. The second pair with the same parent loses its changes.
* `OrderKept` under `service_bypass`: `attach` connects first to every node that
  took part in a parallel dependency, also to one that has a predecessor in an
  order tree (`Orchestrator.cpp:164`). compressor must follow the load balancer but gets
  pktgen's packets directly as well; the comment there speaks of free floating
  nodes.

## 4. Fairness

`FairSpec` gives weak fairness to every leaf's thread and every merge thread: the
operating system runs each runnable thread, and the mutex is held for a few
statements only, by a thread that is itself scheduled. Weak fairness of waiting
for the lock is enough in these instances because finitely many datagrams arrive,
so the lock is eventually free for good. Nothing is assumed of the network
(`Receive` is not fair) and nothing of `Race`. `Delivery` accordingly starts from
copies that *have been received*. In `MergePacket` every merge thread is fair.

`ServiceGraph` is one sequential program, which runs. In `Deploy` the Orchestrator
and every agent are fair, each as a whole: a process runs, and a blocked `read` or
`accept` is not enabled. `SetupEnds` says that it comes to an end, which includes the
death by `SIGPIPE` of an Orchestrator whose agent does not listen. In `Pipeline`
pkt_sender, the start of the functions and the merger are fair; the network is not,
and `AllDelivered` names what it needs of it (`Reliable`). In `WebLog` callbacks run
(node's event loop), their failing is not fair. `JsonDoc` has no liveness property.

## 5. Proofs

`MergerOperatorProofs` proves, for any set of leaves, packets, ids, copies and
any descriptor limit, from the named assumptions of `MergerOperator`:

* `Invariance`: `Inv` (`TypeOK`, `ThreadInv`, `MapInv`, `MergeInv`, `NoLostMerge`)
  is inductive. `ThreadInv` says what a thread at each point has in its locals,
  `MapInv` that the map an id leads to holds packets of that id from the right
  leaf, `MergeInv` that a map a merge has looked up is not empty and of its id.
  `NoLostMerge` alone is not inductive: that the thread which checks the size
  looks at the map it completed is `ThreadInv`.
* `TypeCorrect`, `NeverForgotten`, `MergeInputCorrect` follow, in every
  environment.
* `OnceInvariance`: under `AtMostOnce`, additionally each packet has one inner
  map (`OneMap`), fresh datagrams have no traces (`Fresh`), and only complete maps
  are merged (`OnlyComplete`).
* `MergesAreExact`, `ErasesAreMerged` and `RefinesService` follow: every step of
  the merger is a step of `MergeService` or leaves it unchanged.

`MergePacketProofs` proves `DropsAreMerged`: for every graph, every conflict list,
every set of dropping nodes and any number of overlapping merges, the merged
packet is null exactly if some leaf's copy was dropped. `NullInv` is the
invariant: while a merge runs, some packet it still has to merge is null if a
leaf's copy was dropped, and no packet is null if none was; it holds through the
aliased buffers because a resolution of packets that are not null never changes
a null mark and one with a null packet only sets it, which needs a dropped leaf.
`LeavesAreKept`: for every conflict list as well, what a leaf's function wrote stays
in the leaf's packet while merges write through to it. Its invariant (`KeptInv`)
says that a partial result made of a leaf's packet names in its fields everything the
leaf's function wrote, so that no other packet's value is copied over it, unless the
packet is null, when only its mark is written; it uses that a leaf is last on its own
path (`IsGraph`). `TypeCorrect` is
`TypeOK` for the same graphs.

It also proves what `Termination` rests on. `MergesAdvance`: each step leaves one merge
less to do (`Left`: where it is, how many packets it has, whether the pass has changed
anything, what is left of the pass, compared in this order) and the others as much, so
that there is no endless run whatever the schedule; the keys are finitely many
(`IsGraph`). `MergesGoOn`: until a merge has sent a packet the guard of one of its steps
holds (`Ready`), because it always has a packet (`HoldInv`); `exit(-1)` at
`MergerOperator.cpp:301` is not reached from a complete map. Only the last step, from guards
and weak fairness to `<>`, needs ENABLED and stays with TLC.

`MergeChangesProofs` proves two properties that hold for some conflict lists only. Both
rest on `KeysInv` (theorem `KeysInvariance`), for lists that use up each key once
(`OncePerKey`: no conflict's parent is a leaf or one of its members, two conflicts under
one parent share a packet): every conflict whose parent is in the map or used up names
a key that is used up for good. So `insert` never finds its key taken and drops a
result, which is what happens in `merge_four`.

* `ChangesAreMerged`: `AllChangesMerged` for every graph that is `Mergeable`. The
  condition is what the two violations above come to: `OncePerKey`, and a field is
  changed on the way to every leaf, or only by leaves themselves. `MergeableGraphs`,
  which TLC evaluates, says that every graph of `merge_packet` has it and none of
  `merge_chain` and `merge_four` has. `ChangesInv` (theorem `ChangesInvariance`) says
  that a partial result's bytes have every change that its `written_fields` name
  (`Holds`), although other merges write into them, and that what a leaf's function
  wrote is in some packet still to be merged (`Covered`).
* `RanksAreKept`: `MajorWins` for every graph that `Settles`. For a field f that a
  writes and b, ranked lower, may have written: there is a set C of keys whose packets
  may have b's write of f, closed under the conflicts other than the one of a with b,
  and no other function with one of those keys writes f (`Carries`); and unless C is
  empty, a is `Sure` to be in the map and neither a nor b is merged with anything
  before the two are (`Decided`). `RanksInv` (theorem `RanksInvariance`) says that
  merges write b's value into no leaf's packet that came without it (`LeavesLow`); that
  while conflicts are resolved only packets under C's keys have it, none but b's with f
  among its `written_fields`; and that once the fold begins no packet records b's write
  and one records a's, which `copy_fields` then puts over b's whichever packet the fold
  makes the major. `SettlingGraphs`, which TLC evaluates, says that every graph of
  `merge_packet` settles, that `DummyRanked` does rank writers of one field, and that
  three proxies ranked one after the other (`MCRanks`) do not: whichever conflict comes
  first uses up packets the other two need, the fold then has no ranks to go by, and
  `MajorWins` fails (with `Graphs <- MCRanks` and one merger). The Orchestrator does
  not produce that list: it names functions by their kind, so there is one proxy.

Packets are null only if some copy was dropped, and then `DropsAreMerged` has it that
the result is null, so neither property says anything of it.

`MergeAgreementProofs` proves `MergesAgree`: `Agreement` for every graph, every
conflict list, every set of dropping nodes and any number of overlapping merges. No
merge sees the buffers as it would alone, so two of them cannot be compared step by
step. The proof defines what a merge alone would do (`StepAlone`, on a view that has
packets of its own and no null marks, and stops at the first packet to resolve that is
made of a dropped leaf's bytes), and `AgreeInv` (theorem `AgreeInvariance`) says that
there is one run of it, up to where the farthest merge is (`Run`), such that every
merge is at some view of that run (`Abreast`) and every leaf's packet is as its last
view has it (`LeavesAt`). What makes the slower merges come to the same views is
`Later`: past a view, a field that its `written_fields` name is never written again in
the packet it is in, and a packet no longer in use is not written at all; so a merge
that resolves again what another has resolved copies and finds the same values, and
what it does not find as it was it does not use. Null packets are the exception: a
merge that has fallen behind may meet one earlier than the merge alone would, since
marks are written through. From then on it is `Doomed`, and can only send the packet
that the farthest merge sends.

`ServiceGraphProofs`, for any input and any action table: the inductive invariant
`Inv` (theorem `Built`) has `ParseInv` (which dependencies have become pairs and trees
so far), `GraphInv` (`neighbors` and `parents` are each other's inverse, and exactly the
edges that `Forest` and `Attach` make of the input), `SearchInv` (the nodes on
`findAllLeaves`' stack are at or below the root; what it has found are leaves, and two
of them share a root) and `ListInv` (ports, ids and the conflict list are made of these).
`TypeCorrect`, `OrderIsKept`, `OneCopyEach`, `ConflictsMeet` and `LastIsHeard` follow.
They speak of paths, and an induction over a path's length is out of the provers'
reach; `Above` and `Reached` are therefore smallest closed sets, and each of
these facts is proved by exhibiting a closed set: that no packet gets to the second
function of a dependency past the first, for instance, because the nodes outside the
second's subtree are closed under the edges that avoid the first. That in an acyclic
graph every set of functions has one without a predecessor in it (`Rooted`) comes from
the one with the fewest functions above it (`WFMin` on the naturals).

`DeployProofs`, for any number of machines and functions (fewer than 8000, the
ports the code counts down from), any graph and any cut of the configurations:

* `AllAnswered`: the merger runs only after every agent has read its configuration
  and answered. `HandshakeInv` is the strengthening: bytes of an answer on their
  way stand for an agent that has answered, and so does every machine the
  Orchestrator is done with.
* `BuildsConfiguration`: `BuildInv` says that the address table, the forwarder's lines
  and each function's arguments are those the configuration gives (`Derived`: they
  depend on nothing else, and `got` does not change once something is built).
* `OneMachineEach` follows with `OwnNodes`: an agent that has not taken a stray byte
  for its id runs nodes of its own machine only, also if the cut, or a stray byte,
  took its entry of `machine_map`.
* `RoutesOfAll` follows with `WholeConfiguration` (all machines know all nodes),
  `ContainersDiffer` (addresses are numbered by counting the smaller nodes, so no
  two are equal) and `AddressLeads` (a port on another machine is on exactly one
  line of its forwarder, which leads over that machine's bridge to the node).

`PipelineProofs`, for any graph, placement, set of dropping and rewriting functions,
number of packets and descriptor limits, from `GraphAssumption`, `SizeAssumption` and
`LimitAssumption` (a forwarder has got its threads' sockets): `PathsKept` and `DropsStick`. That
what has arrived took a whole path says nothing of what is still on its way, so
the inductive invariant, `FlowInv` (theorem `Flows`), speaks of every datagram in
the network and at the merger: it is `Formed`, `Marked` null exactly if somebody on
its path drops, has gone `OnPath` of the graph, and is `Bound` for a successor of the
function it comes from, or for the forwarder's thread of one. `TypeCorrect` follows
from `TypeInv`, which adds that pkt_receiver is done exactly when its count is full.

`CopiesOnce` also needs `ForestAssumption`: every function has one sender, and pktgen's
have no other (`ServiceGraph` checks this as `OneCopy` of the graphs the constructor
gives to `Separate` inputs). `OnceInv` (theorem `CopiesApart`) is the strengthening: the network
holds each copy once, none is also at the merger, only packets sent have copies, and
the copies of a packet are `Apart`: a function that one is on its way to has been
passed by no other and is on no other's way, and two for one port of the merger are
the same. A function that passes copies on keeps this because in a forest whatever is at
or beyond a successor has passed it before (`ComesFrom`). Ids differ as there are no more
packets than ids (`IdsDiffer`). `TotalOfAll` rests on `CountInv`: a datagram for the
receiver shows that its packet was delivered, so with one delivery per packet it is
there once and new to the receiver, and the count is the size of `received`.

`WebLogProofs`, for any log directory: `AnswersComplete` from `ReadInv` (theorem
`AlwaysRead`: which callbacks can be pending and which keys they put into `data`) and
`AnswersOnce` from `ReadInv` and two more facts, that each key is put by one callback
which is then gone (`PutOnce`) and that `data` has every key once something was
rendered (`AnsweredOnce`), so no later callback can be the last again. The step from
a count of keys to the set of keys is `AllKeys`. `TypeCorrect` adds to `ReadInv` what
values `data` may hold.

Only model-checked:

* everything about liveness: `Delivery`, `Termination`, `Builds`, `SetupEnds`,
  `AllDelivered`, `Answers`;
* `FeedsMergePacket`, which is about the repository's own inputs only;
* `Grammar`, `ReadsBack`, `PointersName`: the JSON modules are recursive.

## 6. Not modelled

* The start of the merger's threads: a `bind` that fails (ignored by the code), a
  `pthread_create` that fails, a missing destination address.
* `recvfrom` failing in the merger (`NULL` is dereferenced); for the forwarder it
  is `ForwarderFails`.
* Wording, logging, packet layout; `get_payload` reads a C string and may run past
  the end of a buffer: the writer of the payload is the same.
* A merge of fewer packets than leaves at the level of fields (`MergePacket`
  starts from a complete map); `MergerOperator` has it.
* `print_info` before the lock, and the log mutex: no other state depends on them.
* The agent's `reset` and `setup_nodes`, and `remveth`: they run docker and Open
  vSwitch commands and keep no state of their own. port_leaf_map.json is written,
  and nothing in the repository reads it.
* Protobuf's encoding of a machine's configuration below the level of fields; the
  directory and image names in it.
* Of the JSON library: the binary formats, the parser's callbacks, conversions to
  and from C++ types, iterators as such, `operator<`, `swap`, and the choice of
  digits for a float (Grisu2): nothing in the repository uses them in a way that
  state depends on, and Grisu2's arithmetic on 64-bit mantissas is out of TLC's
  reach. Two claims of its documentation are left out of the property:
  `j == j.flatten().unflatten()` does not hold for an object with a member "0" nor
  for empty containers, which `PointersName` excludes.
* What is lost because nobody waits or looks: pktgen starts on a timer, possibly
  before other machines are configured (`configure.cpp:401`); an erase that comes late may
  throw away a map that a duplicate or the next packet of the id has begun
  (`MergerOperator.cpp:319`). Both are behaviours of the models (`Refuse` in `Pipeline`,
  `merger_reuse`); no property can forbid them, as the code does not.
* Several requests to the web server at once: they share no state.
* The listeners (echo servers nothing else talks to), the testers, third-party
  assets and build output.

## 7. Plan

Done: every component with logic of its own is modelled and checked, with the
theorems above. What is left is the start of the merger (ports
already bound, threads) and its failures, as part of `MergerOperator`.
