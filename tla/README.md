# A TLA+ model of rabbitmq-management-sdk

`rabbitmq-management-sdk` is a Python client for the RabbitMQ Management API and an
offline analyser of a broker's topology. This directory models the parts of it whose
behaviour is more than one function call deep: the graph searches behind the audit, the
transport with its retries, the life of a client, the managers that change a broker through it,
listings cut into pages, and what the parser concludes from a capture of the broker. TLC checks the models on small
instances; TLAPS proves every safety property and the refinements for all instances. What is left to TLC alone is what
must eventually happen.

Paths below are relative to `src/src/rabbitmq_management_sdk/`.

## 1. Inventory

| Component | Code | State | Operations |
|---|---|---|---|
| Component search | `topology/_cycle_algorithms.py`, `_tarjan` | numbers, lowlinks, two forms of one stack, frames with their iterators | one generator; yields components |
| Circuit search | `_circuit` | open path, blocked nodes, who waits for whom, cycles found | one loop iteration at a time; a limit ends it |
| Bounded cycle search | `_johnson`; `topology/cycles.py`, `_find_cycles` | components left, worklist of vertex sets, cycles found, limits | the structural and the message-loop search |
| Audit | `client/cluster_auditor.py` | the report under construction | cycle sections, degree findings, shovel findings, fan-out |
| Capture files | `ClusterAuditor.from_files`, `export_response.py` | none | JSON files to definitions and listings, or an error |
| Parser | `topology/parser.py`, `policy_routes.py`, `models.py` | none beyond one call | definitions and observations to a typed graph, or an error |
| Shovel endpoints | `topology/shovel.py` | none | protocol, failover list and address to a virtual host, a locality and a resource |
| Findings over the graph | `topology/reachability.py`, `shovel_audit.py` | none | degree findings, shovel findings, competing consumers |
| Fan-out report | `topology/fanout.py` | none | lists direct bindings |
| HTTP transport | `http_adapter/`, `exceptions.py`, `_paths.py` | attempt number, backoff, open or closed | `request`, `close` |
| Client | `client/rabbitmq_client.py` | `_closed`, the adapter it owns, the broker's version | constructor, `close`, `with`, managers |
| Resource managers | `resources/v4/*/services.py` | none | one request each, except the listings in pages |
| Policy capture | `client/policy_selection.py` | selections recorded so far | `build_user_policy_selections` |
| Schemas | `resources/v4/*/schemas/` | none | validation of wire formats |

How they interact. A manager calls the transport of the client it was made from; all
managers of a client, on any thread, share one adapter. The caller feeds what managers
return (definitions, queues, exchanges) to `ClusterAuditor`, which builds the graph through
the parser and then runs the searches. `_find_cycles` calls the component search, then
`_johnson` for each cyclic component, which alternates circuit and component searches.

What is hard:

* explicit stacks in place of recursion: a value that recursion would have returned must be
  handed on by hand (`_cycle_algorithms.py:92`, `:197`);
* pruning that has to be undone at the right moment (`:151`, `:190`);
* one limit carried through three loops, where 0 means "none" outside and "nothing" inside;
* a report section computed from another one (`cluster_auditor.py:379`);
* retries of requests that may already have been carried out, or will be later, and redirects
  that turn a request into another one;
* answers that say less than happened: a 404 after a deletion that succeeded, a binding made without a
  key to remove it by;
* names that travel: quoted into a path, decoded out of a header, flattened into one object;
* one client shared by threads, any of which may close it, and closes that fail;
* listings and captures taken in several requests from a broker that changes meanwhile;
* what may be concluded from a capture that says less than the broker knows: which policy it
  selected, which exchanges exports omit, where a failover list leads.

What makes each component correct:

* component search: every strongly connected component is yielded whole, once, after all it reaches;
* circuit search: every elementary cycle with a required edge, once, or as many as the limit and
  the word that there are more;
* bounded cycle search: the same over all components, with one limit for all of them;
* audit: filtering the structural cycles answers what a search of its own would have;
* transport: what a caller is told is true, and closing it stops what has not been sent;
* managers: a call that is told done, and that nobody else's call can follow, is done as asked; an
  error says something true; nothing is changed that nobody asked for; a shovel is read back as written;
* client: no constructor failure leaks an open adapter, and `_closed` never lies;
* listing: what a changing broker can make it repeat or miss is bounded;
* parser: an edge is in effect at the broker, or the parse fails: nothing is guessed;
* capture files: a wrong file is an error, or harmless;
* findings: a message that goes where no finding allows it to go does not exist.

`PROJECT.json` lists each hazard at its line with the properties that guard it.

## 2. Modules

| Module | Models | Correspondence |
|---|---|---|
| `DirectedGraph` | reference notions on graphs | reachability by closed sets, components, induced graphs |
| `SccPartition` | abstract: what a component search promises | components come out whole, once, after all they reach |
| `TarjanScc` | `_tarjan` | one action per loop iteration; `children[v]` is what is left of the iterator of v's frame; a node's number stands for its place in `node_sort_key` order |
| `ElementaryCycles` | reference: elementary cycles, and what a search with a limit may answer | `SearchResults` is the contract documented at `CycleSearchResult` |
| `Circuit` | `_circuit` | one action per loop iteration; `unblock` is one step, its cascade given by reachability over the waiting relation |
| `CycleSearch` | `_find_cycles` with `_johnson` | outer loop, worklist and nested limits step by step; the two inner searches by the contracts the modules above are proved to keep; a list of cycles is its members and its length |
| `CycleAudit` | the cycle sections of `audit` | runs `CycleSearch` step by step for the structural section, then filters its cycles or runs it again |
| `ManagementApi` | external: what the broker does with a request and answers | modelled from how the code uses it; holds one definition per kind of resource, and bindings with their keys; `Forms` is what following redirects makes of a request |
| `RemoteCall` | abstract: what a request promises | an answer told is one the broker gave to this call; told once; carried out once unless repeated |
| `RetryTransport` | `RetryTransport.request` over `Httpx2Adapter.request` | the closed check, the send, the answer, the backoff are steps of their own; the network loses, delays and reorders |
| `ShovelSchemas` | `ShovelRequest.to_api_value`, `ShovelResponse` | a flat object is a function on pairs of a prefix and a field; values are left out but for None and the defaults |
| `ResourceManagers` | the services of queues, exchanges, bindings, policies, operator policies, shovels, virtual hosts and their limits | one action per operation, each one call of `RemoteCall`; threads call one operation after the other |
| `ManagementClient` | `RabbitMQClient`, around `RetryTransport` | constructor phases, clean-up, close in its three steps by several threads; a manager for a major version other than 4 is refused |
| `PagedListing` | `_list_all_pages` of queues and exchanges, and `build_user_policy_selections` | one action per page; other clients declare and delete in between |
| `TopologyModels` | nodes and edges of `models.py` | `WellFormedHop` is `TopologyEdge.__post_init__` |
| `PolicySelection` | external: which policy the broker selects, and what a resource then does | modelled from how the code uses it; patterns and priorities are left open, so any policy that covers a resource may be selected |
| `PolicyRoutes` | `policy_routes.py` | each resolver is split into "raises" and "returns" |
| `ShovelEndpoints` | `shovel.py` | a side is what is read off its protocol, URIs and address |
| `TopologyParser` | `parser.py` | from one record of inputs to edges, nodes, dangling edges, or a rejection |
| `TopologyFindings` | `reachability.py`, `shovel_audit.py`, `fanout.py`, `dangling_edges` | one operator per section of the report; message loops by the contract of the searches |
| `TopologyCapture` | the calls a caller makes before `ClusterAuditor`, then its parse | one action per request and per change of another client; the broker selects policies freely |
| `AuditorFiles` | `ClusterAuditor.from_files`, `_load_resource_snapshot`, `ClusterDefinitionsResponse` | a file is an object with its keys, an array with its records, or unreadable; "raises" and "returns" are split |
| `MessageWalk` | what the audit is for: a message in a broker of that configuration | one action per way a broker or shovel moves a message; resources do what their arguments and the selected policies say; configurations are captures that the parser accepts, with listings or without |

How they compose. `RetryTransport` implements `RemoteCall` over `ManagementApi`. `ManagementClient` runs
over the transport step by step; `ResourceManagers` runs over `RemoteCall`, which the transport is shown to
implement, and so has far fewer states for the same outcomes. `CycleSearch` uses the contract that `Circuit` is proved to keep
(`ElementaryCycles`) and the one `TarjanScc` is proved to implement (`SccPartition`); `CycleAudit` extends it and runs
its steps.
`TopologyParser` is built from `PolicyRoutes` and `ShovelEndpoints`; `TopologyCapture` feeds it with
captures of a changing broker, `AuditorFiles` with such captures saved in files, `TopologyFindings` and `MessageWalk`
with captures of a fixed one. `PolicySelection` is the broker's part in both.

`MC*` modules give the constants their bounded values. `*_proofs` hold theorems; `Topology_proofs` is about
`TopologyCapture`, `AuditorFiles` and `MessageWalk` together. Operators
introduced by "Faulty ..." are mutated forms of the operator that follows them: each is a
plausible mistake, and each run rejects the ones that concern its properties. They take no
part in any specification.

Assumed of the broker, for it is not part of this code: it selects at most one policy per
resource, by patterns only it evaluates, and an argument of a resource goes before its policy (the
rule the code documents for the three settings); a new resource gets any policy that covers it, and
changing a policy may change any selection; no operator policy sets a routing field; it suppresses a
message that comes back to an exchange within one publication. `TopologyCapture` takes the default
queue type of a virtual host for constant and has changes only between the first and the last
answer, where alone they matter; a listing is one step there, since `PagedListing` is about its pages.
`MessageWalk` takes every host the caller vouches for (`in_cluster_amqp_hosts`) to be its own; its listings, when
there are any, show what the export shows and what it omits; without them the broker has no exchange that is neither
exported nor predeclared.

Assumed in `ManagementApi`: one resource of each kind is there or not; queues and exchanges are never
redefined, other definitions are replaced; a virtual host takes everything along when it is deleted,
unless it is protected; an exchange or queue takes its bindings along; a proxy may remove a Location
header. Three properties keys stand for all: one without a slash, one with one that the broker has
escaped, and what becomes of the latter if it is quoted once too rarely.

Left out throughout: wording, formatting, logging, headers other than Location, durations. Of time only the order of events is kept, so a
timeout may strike whenever a thread waits.

## 3. Runs

| Run | Instance | Shows |
|---|---|---|
| `tarjan` | every loopless graph on 4 nodes | the inductive invariant of the search after every iteration; it implements `SccPartition`, ends, and leaves the whole partition |
| `circuit` | strongly connected graphs on 5 nodes with out-degree at most 2, those with a self-loop at the least node included; no filter, or two required edges that many cycles do not take; limits none, 0 and 1 | the answer is complete, or truncated at the limit with one more to come, no cycle twice; the bookkeeping of blocked nodes; blocking prunes no cycle; termination |
| `search` | every graph on 4 nodes, one with a self-loop, three filters, limits 0 and 2 | splitting components loses and repeats no cycle; the result is exact; termination |
| `audit` | every typed topology over 2 exchanges, a queue and a shovel that the parser can derive, dangling edges included; limits none and 1 | the searches run step by step; filtering the structural cycles answers what a search would have |
| `retry` | 2 threads, 2 attempts each, closes at any time, redirects, symmetric threads | outcomes are true, late repetitions harmless, closed means no effect; implements `RemoteCall` |
| `managers` | 3 calls of two threads, the first of which is slow, lost, repeated or redirected; groups of kinds that depend on each other; a plain and a quoted properties key; a shovel of each protocol | a call that is last and settled has its way; errors are true; changes are asked for; shovels come back as written |
| `client` | a constructor, a user and two closing threads, 2 attempts, major version 4 or another | failures leak nothing and are reported first to last; `_closed` never lies; construction ends |
| `listing` | 5 resources in pages of 2, any declarations and deletions | exact when quiet; what growth and shrinkage can and cannot do |
| `listing_doc` | 3 resources in pages of 1 | violated: see Findings |
| `capture` | a queue of two types, four exchanges (one predeclared, one of the system), four policies in two virtual hosts, any selection, one change by another client; every choice of three files out of the captured answers and six other things that may lie there | an unobserved parse guesses nothing; a quiet complete capture is exact; a torn one invents nothing; what dangles is missing; mixed-up files do not mislead |
| `capture_doc` | the same | violated: see Findings |
| `walk` | two virtual hosts, two queues of one name, two exchanges, declared and predeclared fanout exchanges, a binding that dangles, one or two shovels with failover lists of six kinds and destinations predeclared or not; or one virtual host with a policy for everything or for exchanges, which sets a dead-letter and an alternate exchange and is selected or not; with listings or without; all of them captures that the parser accepts | hops, loops, fan-out and findings of the report hold of every message |

Why the bounds are enough. Four nodes are the fewest on which a component can be left behind
by a lowlink that is not handed on over two frames; five the fewest on which a release cascades
while a path is open. Two attempts give one retry, hence one stray request; two threads give one
thread that closes or deletes between another one's steps. Three pages give a first, a middle and
a last one. In the capture one change is enough to tear it, for it falls between any two of the three
requests, and the policies cover the four ways in which one can matter: the right one, one for another
queue type, one for exchanges only, one of another virtual host. In the walk a name that exists in
both virtual hosts tells a node from its namesake, two shovels are the fewest that compete, and the
six connections are the ways in which a failover list can agree, disagree or fail to be understood. One policy is enough there,
because the settings of a resource depend on the one selected for it; it may be selected for the queue, for two
exported and for some predeclared exchanges, one of which nothing but an edge names.

In `managers` two calls of one thread and one of another are the fewest in which a late repetition meets
what came after it and a third call is between them; the calls in one behaviour are of kinds that can
disturb each other (`Scenarios`: a kind with itself, a queue or a limit with its virtual host, bindings
with their exchange or their queue, the two kinds of policies). `Flaky` is the first call alone: trouble with a later one
has no later call of its thread to disturb. `Failures` is one failure, for the managers treat all alike; which
failure is told when is the subject of `retry`.

What the walk excuses. A hop over a shovel that the report lists as unconfirmed, or whose
address the message decides, is not expected in the graph; nor is a hop out of a default exchange,
which reaches every queue of its virtual host and is left out of the graph by design. Without listings, one more: the
hop from a predeclared exchange to the alternate exchange that a policy gives it, which is the second finding of
section 5. With it, such an exchange may be called a black hole though messages leave it, and an internal
exchange unreachable though they arrive. `ByUnseenPolicy` names this hop and nothing else, and without the
excuse the run refutes both `HopsAreCaptured` and `FindingsHold`; no hop is excused when there are listings.
`HopsWereEffective` excuses captures during which a name came to mean something else: a resource or a
policy redefined under its name can be combined with what the other request saw of it.
`FilesNeverMislead` leaves out one mistake, which the code cannot see: exchanges cut out of the export have all that
a listing's record must have, and pass for exchanges without a policy.

What the managers excuse. A call whose only success is that of a redirected GET is told as done although
nothing was changed: the adapter keeps the last answer of a chain only, and nobody looks at its history.
A call that was repeated may be carried out after its caller was told, and undo what came after it; the
repetition of a deletion that succeeded is told "not found". `LastCallWins` and `HonestErrors` say where this
may happen and that it happens nowhere else.

Fairness. The searches run alone in their thread: weak fairness of their next step, for nothing
else is waited for. In the transport each thread is weakly fair on its own steps, because HTTPX
bounds every wait by a timeout; nothing is assumed of the broker, of the network, or of
whoever might close the client. A listing is fair on its own steps, for each request ends.
`CHECK_DEADLOCK FALSE` stands in every configuration because every one of these programs ends.

## 4. Proofs

Every invariant and action property of every passing run, and both refinements, are theorems for all values of the
constants. Each of the eight `*_proofs` modules but `ManagementApi_proofs` has one or two inductive invariants, proved
kept by each action in a step of its own, and takes the properties from them.

### The searches

`TarjanScc_proofs`. The inductive invariant is `SearchInv`: types, agreement of the two stacks,
no edge out of what is sealed, the frames holding the stack together, exact lowlinks, and
sealed components being exact. None of them is inductive alone: that a sealed component is
exact needs its root's lowlink to be exact and every stack node above the root to reach it, and
that is kept only because each frame hands its lowlink to its parent. `RootSegmentIsScc` is the
heart: what is popped with a root is its strongly connected component. From `SearchInv` follow the
complete partition at the end and the refinement of `SccPartition`.

`Circuit_proofs` has two invariants. `IInv` is about the bookkeeping: `BlockingInv`, which the run checks, is inductive
only with what each frame has taken already (`ChildrenInv`, `FrameInv`), with an order on who waits for whom
(`BlockMapInv`), and with `StaleInv`. The last is the surprise of this algorithm: a node that is released and entered
again leaves entries in `block_map` that name nodes now on the path. They are harmless because a node that carries such
an entry cannot reach, over blocked nodes, the path from the named node on; so no release can run along them
while the path is open. `BlockedIsHopeless`
follows from `IInv` by closed sets. `SearchInv` is about the answer: until a limit ends the search, a matching cycle is
reported or still ahead of some open frame (`Ahead`), never both; nothing else is reported, nothing twice. `SearchContract` follows
when no frame is open.

`CycleAudit_proofs`. For the bounded search, `SearchInv`: the pending vertex sets are apart (`Separate`); a matching
cycle is reported or lies inside one of them (`Accounted`); the lists hold no cycle twice (`NoneTwice`); what is
left of the limit is what the components before have not used (`OneLimit`). The heart is
that taking the least node of a component and splitting the rest accounts for every cycle of it:
one through that node is the circuit search's, any other lies inside one component of the rest. For the audit,
`AuditInv` says that the search under way is a search of this topology with the filter of its section.
`SameEndpointsRepublishAlike` is why the shortcut is right: the endpoints of an edge decide whether its kind
republishes, so the edge that represents a hop decides the same as any other. With that, filtering a complete result
equals searching with the filter.

### The topology

`Topology_proofs` covers three modules.

* *An export without observations.* `NeverGuesses` rests on `IInv`, which carries the broker as it was at the export
  (`ExportInv`), for it has moved on by the time of the parse, and that it was coherent: ids and policy names unique,
  each selected policy covering its resource. The heart is `NoPolicyNoEffect`: if no exported policy that covers a resource has
  a setting, whichever the broker selected has none. It needs unique policy names, and needs `_apply_to_matches` to accept
  whatever the broker may select (`ScopesMatch`).
* *A complete capture.* `HopsWereEffective`, `QuietCaptureExact` and `DanglingIsAbsent` rest on `IInv` with `HInv`,
  which carry one broker per answered request (`ExportInv`, `QueuesInv`, `ExchangesInv`), what they held being among what
  was ever seen (`SeenInv`), and, while nobody has changed anything, that they are one and the same (`QuietInv`). `QuietCaptureExact` says that such a capture is
  accepted as well as that it is exact, so every reason for which the parser may reject is shown absent.
* *Files.* `MixedUpFilesNeverMislead` goes through what each choice of three files may look like to `from_files`: a choice
  that is not the right one either fails a check of the code, or leaves a parse that adds no hop the broker does not
  have.
* *The walk.* `WalkInv`: the message is at a place of the configuration (`PlaceInv`); what a shovel holds came from a virtual host it takes
  from (`OriginInv`); the graph leads from the marked hop to where the message is (`MarkInv`). That it leads is said by
  closed sets, so no induction over paths is needed to extend it by a hop; `LoopsAreReported` then closes the
  circle with the marked edge. `HopsAreCaptured` is one lemma per way of moving; findings, fan-out and competing
  consumers follow from it and from what the parser puts into a graph. What a resource does depends on the policy
  selected for it. Where that was listed, the parser reads the same value off it (`ListingsSelect`); where it was not, a capture is
  accepted only if no policy that may cover the resource sets anything the arguments leave open (`SelectableCovers`,
  `DeadLetterInEffect`, `AlternateInEffect`). An alternate exchange is an edge if the parser asks for its source at all, which
  `SourcesAreThere` shows but for predeclared exchanges nobody listed.

### The transport and what is built on it

`ManagementApi_proofs` holds the lemmas on what one request does to a broker: what a PUT leaves found, that brokers stay
brokers, and what each request does not touch.

`ManagementClient_proofs`. For the transport `IInv` has, beside the types and two of the properties, `CallInv` (what
the place of a call says of its request, attempts and outcome), `WireInv` (only what was sent is on its way, and an attempt is answered once),
`ClosedInv` (a call on a closed adapter never gets to the wire) and `EffectInv` (what an answer says of the broker ever since).
`RepetitionHarmless` needs `EffectInv` because an answer is given when its request is carried out and told much
later. `RemoteStep` takes each step of the transport to a step of `RemoteCall` or to none.
`ClientInv` adds that a closer which got to the flag has closed the adapter (`ClosingInv`), that nobody else has the
client while it is constructed (`ConstructorInv`) and that clean-up leaves the error alone (`RaisedInv`). A step of the client is one of the
transport or leaves it alone (`ClientStep`), so what is proved of the transport is proved of the client.

`ResourceManagers_proofs`. `IInv`: types; what a call means in requests (`CallInv`); what an answer says of the request it answers
(`AnswerInv`); everything the broker holds was there or was put (`OriginInv`); what was put is there, or may have been
removed by a deletion that was carried out (`PresenceInv`); errors were true when they were
answered (`ErrorInv`); what a settled last call has done lasts (`LastInv`). `ShovelEcho` rests on `Parsed` being the
inverse of `ToApiValue` on valid requests, whatever the values of the fields.

`PagedListing_proofs`. `IInv`: types; what the place of the listing says (`PlaceInv`); without deletions, what is not
listed yet is ahead (`AheadInv`); without declarations, what is listed is behind and listed once (`BehindInv`); without
either, what is listed is the beginning of the broker's order (`QuietInv`). The ranks of resources carry these:
a declaration moves none forward, a deletion none backward.

### Assumptions

| Assumption | Why the code, or the broker, justifies it |
|---|---|
| `NodeAssumption`, `GraphAssumption`, `FilterAssumption` (searches) | nodes are numbered by their place in `node_sort_key` order; a graph is finite and `_adjacency` (`topology/cycles.py:144`) keeps only edges between its nodes; `_circuit` is called with one strongly connected component, which is not empty |
| `BudgetAssumption`, `LimitAssumption` | `_validate_max_cycles` (`topology/cycles.py:246`) rejects anything but a number that is not negative; what is handed on is "none" or a number |
| `KindAssumption`, `TopologyAssumption` (`CycleAudit`) | node kinds are disjoint; `TopologyEdge.__post_init__` rejects edges that do not fit their kind |
| `KindAssumption`, `VhostsAssumption`, `PolicyAssumption` (`TopologyCapture`) | ids carry their kind; the broker gives each queue a type and keeps no exchange without its virtual host; a policy has a name |
| `RecordAssumption` (`AuditorFiles`) | which keys the records of a listing have |
| `NoneIsNoNode`, `CapturesAssumption` (`MessageWalk`) | captures the parser accepts, so `~Rejects`; a broker has one resource and one policy of a name, exports no predeclared exchange, and binds what can be bound; listings of an unchanged broker agree with its export (`ListingsFit`). The report on a capture that is rejected does not exist |
| `NoneAssumption`, `NoneIsNothing`, `NoneIsNoProtocol` | None is not a value of anything else |
| `FailuresAssumption`, `RetriesAssumption`, `RequestsAssumption`, `BrokersAssumption` | failures are those the adapter tells apart; a negative `max_retries` uses the bare adapter, as 0 does (`http_adapter/factory.py:35-41`); requests are those the managers make; a broker holds what goes with its virtual host |
| `ConstructorAssumption`, `OverviewAssumption` | the constructor is one of the callers and makes a request |
| `BeforeAssumption`, `QueueAssumption`, `ShovelAssumption`, `ScenariosAssumption` | each thread has an order of its calls; arguments passed the validation of their schemas |
| `ResourceAssumption`, `PageAssumption` | finitely many resources in an order; `page_size` is sent unchecked, and one below 1 is refused with the first page, which lists nothing |

TLC evaluates all of them in the runs, so none is empty.

### What proving found

Some definitions were wrong in ways the small instances did not show, and were corrected against the code:

* `RepetitionHarmless` did not allow for the deletion of the virtual host, which takes a resource along.
* Some `CASE` arms overlapped, which leaves open what TLC happens to decide; they are disjoint now.
* `IsValid` for shovels allowed None in fields that cannot be None, and those are not read back as written; `ShovelEcho`
  counted a shovel that had been there from the beginning as written by a caller.
* Nothing kept a broker from holding resources of a virtual host it does not have (`IsBroker`).
* `MessageWalk` was not restricted to captures the parser accepts, with unique ids and without predeclared names, which
  its properties need.

### Only model-checked

What must eventually happen, which is out of the prover's reach together with `ENABLED`: `Terminates` of the three searches,
`ConstructionEnds`, `ClosedClientRefuses` and `ListingEnds`. What a search's length depends on is data, so a
bound on it would be an induction over data. Where a path would ask for one in the
safety proofs, they use closed sets, or the least number with a property (`LeastNumber`, from the well-foundedness of the order
on the naturals). The two statements of the documentation in section 5 are refuted, hence not proved.

## 5. Findings

`listing_doc`: `resources/v4/queues/services.py:74-75` documents that pages are fetched "until
RabbitMQ reports that all matching queues have been returned". The loop at `:161` runs to the page
count of the first answer; when a queue is declared in between, the last answer reports a page that
is never fetched.

`capture_doc`: `topology/parser.py:395-396` documents that "where direct arguments do not settle a routing
value, a relevant policy requires a selection record". The alternate exchange is looked for only at
exchanges that are exported or observed (`:238`); a predeclared exchange that an edge names is added
to the graph afterwards (`:341`), so without observations a policy that may give it an alternate exchange is
passed over in silence. What the report may then get wrong is said under "What the walk excuses".

## 6. Not modelled

* The field-by-field validation in schemas other than those of shovels, in `Config` and in the dataclasses of
  `models.py`: pure and local.
* The unpaged listings and shovel statuses of the managers: one read request each.
* `has_cycle` and `StronglyConnectedComponent` as values: they read what the searches yield.
* A capture whose listings come in pages: a listing is one answer in `TopologyCapture`, and what torn pages
  can do to a listing, duplicates that the capture then rejects included, is shown in `PagedListing`.
* The grammar of AMQP URIs and addresses, character by character: a URI is understood or not, and
  names a host and a virtual host or not.
* Durability, replication factors and binding arguments: carried along, decided on by nothing but that
  edges with different arguments are different edges.
* Character-level quoting: quoting and its inverse are tables over the three keys that differ in it.

## 7. Plan

Built first, because the rest leans on it: the searches, then the audit over them, then transport
and client, listings, the parser with its capture, and the walk; then the managers, shovel schemas, capture
files and fan-out; then the proofs, in the order capture, transport and client, managers, listing, searches, walk.
What is left:

1. The whole chain as one theorem: a quiet capture, audited, says what the walk shows of it. Today `CycleAudit` takes
   any well-formed topology, and `MessageWalk` any accepted capture, and neither names the other.
2. The parts listed as partly modelled: schemas other than those of shovels, and what only changes how a node is written.
