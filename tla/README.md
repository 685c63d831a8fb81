# sysrepo-gnxi in TLA+

sysrepo-gnxi is a gNMI server (C++, gRPC's synchronous API) in front of the
sysrepo datastore.  This directory holds TLA+ models of it, the TLC
configurations that check them, and proofs checked by TLAPS.  Source paths below
are relative to the repository's `src/` directory; `gnmi.proto` is
`proto/gnmi.proto`.

## 1. Inventory

| Component | State it keeps | Operations | Modelled in |
|---|---|---|---|
| **Set RPC** `gnmi/set.cpp` | the response under construction; everything else is staged on the shared session | `Set::run`: deletes, replaces, updates, commit; `handleUpdate` | `SetRequests`, `GnmiSet` |
| **Get RPC** `gnmi/get.cpp` | the notifications built so far | verify, then per path `refresh` and `json_read` | `GnmiGet`, `JsonRead` |
| **Shared session, dispatch** `gnmi/gnmi.h`, `gnmi.cpp` | one sysrepo connection, ONE session, one `Encode` for all RPCs | one call of the service per RPC, each on a gRPC thread | `Sysrepo`, `GnmiService`, `GnmiStreams`, `GnmiSerial` |
| **Subscribe RPC** `gnmi/subscribe.cpp` | `chronomap` (last time per SAMPLE subscription), the response | first message, `BuildSubscribeNotification`, `handleStream`, `handleOnce`, `handlePoll` | `Subscribe`, `SubscribeProtocol`, `GnmiStreams`, `JsonRead` |
| **Encode: storing JSON** `gnmi/encode/encode.cpp`, `json_ietf.cpp:38-48` | the position in the parsed tree, the recursion of `storeLeaf` | `json_update`, `storeTree`, `storeLeaf` | `JsonStore` |
| **Encode: reading JSON** `json_ietf.cpp:54-186` | `tmp` (one key pair, reused from tree to tree) | `json_read`, `json_tree` | `JsonRead` |
| **Schema context** `load_models.cpp`, `runtime.cpp` | the libyang context and its features | list and load at start, missing-module callback, `module_install`, `feature_enable` | `SchemaContext` |
| **Capabilities RPC** `capabilities.cpp` | none | `list_schemas` | `Server` |
| **Authentication** `security/authentication.cpp` | user, password, three files, `insecure` | `AuthBuilder::build`, `UserPassAuthenticator::Process` | `Authentication` |
| **Paths, time** `utils/utils.h` | none | `gnmi_to_xpath`; `get_time_nanosec` | `JsonRead` (the path only) |
| **Start-up** `main.cpp` | the options | the option loop, `RunServer` | `Server` |
| **Logging** `utils/log.cpp` | the level | `setLevel` may end the process | `Server` (that only) |
| **Protocol, build** | none | generated code | not modelled |

**How they interact.**  `main` parses the options into an `AuthBuilder`, builds
the credentials, and constructs `GNMIService`, whose constructor opens one
session and constructs `Encode`, which loads the daemon's YANG modules and
subscribes to changes of them.  From then on five kinds of actors run at once:
gRPC threads (one per call, each with a new `Set`, `Get`, `Subscribe` or
`Capabilities` object), the thread of the sysrepo subscription (which changes
the libyang context that handlers parse with), the daemon, other sysrepo
clients, and the gNMI clients.  No lock protects the session or the context.
Every call on the session (`set_item`, `delete_item`, `commit`, `refresh`,
`get_subtrees`) is one exchange with the daemon, so the calls of different RPCs
interleave.  `Set` and `json_update` stage edits; `commit` applies all edits of
the session, whoever staged them; nothing calls `discard_changes`.

**What is hard here.**  The shared session (edits of a failed Set outlive it; a
read may see them), the gap between `refresh` and the read, a Get of several
paths, the late and negative sleeps of the sampling loop on a clock that may be
set, cancellation that is noticed once per iteration, leafrefs that leave the
document order, modules that come and go while they are loaded, and options
that count only as a whole.  `PROJECT.json` lists every such hazard at its line.

**What makes each part correct.**  Set: an OK means that the request, as a
whole and in the protocol's order, is in the datastore, and an error means that
nothing is.  Get: an answer is fresh and consistent, holds the data that the
path selects, and its paths lead back to it.  Subscribe: the messages of the
mode in their order, no sample too early or too late, changes arrive, cancelled
calls end.  JSON: a stored document is stored completely, list entries before
their leaves.  Schema context: it follows the daemon's modules and features.
Start-up ends; callers are held to what the command line says.

## 2. Modules

    DataTree <- SetRequests <- SetTransaction       the promise of Set
    DataTree <- Sysrepo <- GnmiSet, GnmiGet <- GnmiService
    GnmiService <- GnmiSerial                       refines SetTransaction
    GnmiService <- GnmiStreams                      with subscriptions
    Subscribe                                       refines SubscribeProtocol
    JsonStore, JsonRead                             one operation, one path
    SchemaContext, Authentication <- Server         the process

* **DataTree, Sysrepo** (external).  A value is abstracted to who wrote it and
  with which operation of the request, which is what atomicity, freshness and
  order can tell apart.  `log` is the sequence of committed versions; `edits`
  the session's uncommitted edits; `cached` the version the session last
  loaded.  `commit` replays the edits over the current running data and clears
  them; a commit that fails keeps them (only `discard_changes` drops them);
  `refresh` reloads and keeps them; reads show them.
* **SetRequests, GnmiSet.**  An operation is reduced to the session calls it
  makes: one for a delete or a scalar, one per leaf or list entry for JSON.
  `SessionCall` is a `set_item` or `delete_item`, `OperationDone` the rest of
  the loop body, `OperationRejected` the `invalid_argument` of an unsupported
  value, `CallThrows` and `CommitThrows` the exceptions of sysrepo; each return
  of `Set::run` is a step.  Nothing is discarded, as in the code.
* **GnmiGet.**  `GetRefresh` and `GetRead` are the two session calls per path.
  A notification is the set of leaves shown, with a history flag for
  uncommitted edits.  `since` and `settled` are history variables.
* **GnmiService.**  All interleavings of Sets, Gets and other sysrepo clients.
  `MaxInFlight` bounds the RPCs under way at once, so that the same module is
  also the serial server.
* **GnmiStreams.**  `GnmiService` with sampling loops on the session: a stream
  refreshes and reads like a Get, again and again, at any time.
* **SetTransaction, GnmiSerial.**  The promise of the protocol file: a request
  applies in one step or not at all.  `GnmiSerial` maps the running datastore
  and the statuses onto it.
* **Subscribe, SubscribeProtocol.**  Every statement of the handlers that reads,
  writes, waits or returns.  Time is relative: `age` is the clock's time since
  the `chronomap` entry, `elapsed` the time since the iteration began, and
  `silence` the client's time since the last sample; so endless streams have
  finitely many states.  `Tick` lets time pass while the handler works or
  sleeps; an iteration works for at most `MaxWork` and lasts at most
  `MaxIteration` ticks, an assumption about the machine, not a promise of the
  code.  `high_resolution_clock` is libstdc++'s wall clock: `ClockIsSet` sets it
  forward or back by up to `MaxStep`, once in a call; `skew` is what that makes
  of `elapsed` when the sleep is computed.  `Signed` is the conversion of
  `sample_interval` to the clock's type (`subscribe.cpp:238`).
  `SubscribeProtocol` is `gnmi.proto:215-311`.  With `updates_only` it has no
  initial data (`gnmi.proto:271-275`); the handler logs that it does not support
  the option and sends the data all the same (`subscribe.cpp:139-140`), so that
  the refinement is of calls without it.
* **JsonStore.**  A document is the sequence of its nodes in depth-first order.
  `frames` is the stack of `storeLeaf`; its recursion for leafrefs is explicit.
  A reference may point to any leaf, reference or leaf-list entry, before or
  after it (`encode.cpp:45`), and a leaf-list may itself be of references; that
  references do not go round in a circle is libyang's doing (`Acyclic`), which
  rejects such schemas.  libyang is assumed to resolve every leafref within the
  document: that of one it leaves open, as `LYD_OPT_EDIT` allows, is not
  modelled.  storeLeaf casts the schema of a leaf-list entry to that of a leaf,
  so that what it does for one is set it or throw.  The calls
  it makes are the `calls` of an operation in `SetRequests`.  `Chain` (the nodes
  that storing a leaf comes to) and `Above` (the entries around a node) are
  least closed sets, so that the proofs need no recursion.
* **JsonRead.**  One path of a Get or of a subscription, from `gnmi_to_xpath` to
  the Updates of the notification.  `Selected` is `get_subtrees` (external): the
  nodes an XPath selects.  A JSON value is the set of its scalars, each with its
  place; `Put` is one assignment or append of `json_tree`, `key` the `tmp.key`
  that `json_read` carries from tree to tree.  A read of the first child of a
  node without children is the outcome `"CRASH"`.  `Text` is the text of a
  leaf: that of a decimal64 goes through a double and `to_string`
  (`json_ietf.cpp:94`; `Reprinted` is any function), all others keep theirs.  An
  instance-identifier is fetched with `get_identityref` (`json_ietf.cpp:100`),
  which may throw or not (`Refusable`).  `gnmi_to_xpath` does not escape what it
  puts between quotes (`utils.h:57`): with a value of `Quoted` the XPath is not
  well-formed (`BadXPath`).  Values that go on from their quote to another
  well-formed XPath are left out, as are names that are not names of nodes or
  the wildcard.
* **SchemaContext.**  The constructor of `Encode` is `ListSchemas`,
  `VisitSchema` and the loads, `AllVisited` and the two subscriptions;
  `Callback` is `RuntimeSrCallback`.  `Download`, `Parse` and their failures
  serve both.  `DaemonInstalls`, `DaemonUninstalls` and `DaemonTogglesFeature`
  happen at any time between any two of these steps.  The missing-module
  callback is part of `Parse`: it returns the module's name where libyang
  expects its text (`load_models.cpp:71`), so what libyang makes of the import
  is left open.
* **Authentication, Server.**  `Authentication` has the builder, the branch
  `build` takes, and what each method asks of a call.  `Server` is the process:
  the option loop, `RunServer`, `BuildAndStart` (which may return a null
  pointer), the calls as far as they use the context, Capabilities, death at
  any point and restart with any command line.

The `MC*` modules give the constants values; `MCGnmiSerial` also has TLC
evaluate `Serial`, the assumption of the refinement.  `ExtremaProofs`,
`GnmiServiceProofs`, `SetEffectProofs`, `GnmiStreamsProofs`, `SubscribeProofs`,
`ServerProofs`, `JsonStoreProofs` and `JsonReadProofs` hold the proofs.

## 3. Runs

| Run | Question | Result |
|---|---|---|
| `service` | 2 Sets (5 requests), 1 Get of two paths, 1 peer, all overlapping, every call may fail | holds: OK leaves no edits; an uncontended OK Set takes its whole effect; Gets read forward |
| `answered` | 1 Set, 1 Get, 1 stream, 1 peer overlapping, with refusals and every failure; fair threads | holds: samples are fresh; the stream follows the datastore; every RPC is answered |
| `serial` | 3 Sets, 1 Get, 1 peer; RPCs do not overlap, no call of a Set fails, reads may | holds: Sets implement `SetTransaction` |
| `subscribe_timing` | two rates (0 and 5 ticks), an interval past the clock's type, work up to 3 ticks in a period of 2, a clock set by up to 2 ticks | holds: samples are never late nor early beyond the stated slack |
| `subscribe` | every mode, refusal and failure; fair handler and clock | holds: without `updates_only`, implements `SubscribeProtocol`; for all calls, changes of sampled data are read; cancelled calls end |
| `json_store` | all documents of up to 3 nodes, nested lists, chains of references behind, ahead and through leaf-list entries | holds: `OkMeansStored`, with each reference right after what it refers to; lists first unless a reference points ahead; ends |
| `json_read` | paths of every shape in each split into prefix and path, on four data trees | holds: Updates hold the trees; their paths lead back, with one key that is printed as it is and no wildcard |
| `server` | 8 command lines, 4 clients, 2 modules, 2 changes by the daemon, 2 starts, every failure | holds: the context follows, features as listed, schemas in use stay, callers as configured, start-up ends, offered models become usable |
| `partial_set` | `SetIsTransaction` | violated: what a failed Set staged goes out with the next commit |
| `missing_path` | `OkMeansApplied` | violated: an Update without path or value is answered OK |
| `torn_get` | `GetIsSnapshot` | violated: one Get shows two versions |
| `update_paths` | `UpdatePathsTell` | violated: two entries with two keys get one path |

The violated properties quote the protocol file; the findings in `PROJECT.json`
give both lines.  What does hold of Sets under full concurrency is weaker than a
transaction, and is stated by `UncontendedSetTakesEffect`: another Set's commit
may publish part of a request early, but once the request is answered OK all of
it is there.

**Departures that need no run**, as they are plain from the code.  The models
contain them as they are, and properties that they would break say so.

* Set: a replace makes the calls of an update and removes nothing
  (`gnmi/set.cpp:150`), where `gnmi.proto:332-333` has what it does not name
  replaced.  A JSON value is stored from the root, whatever the path of its Update
  (`gnmi/set.cpp:78`).  After a commit that failed because of invalid edits,
  every later commit fails, as the edits stay on the session (`set.cpp:184`).
* Storing: leaf-lists are skipped (`encode.cpp:179`), but an entry of one to
  which a leafref leads is set; a leafref is set with a
  null value after what it refers to (`encode.cpp:153`); one that points
  ahead sets a leaf before its list entry (`encode.cpp:122`).
* Reading, for which `json_ietf.cpp:62` names RFC 7951: of a leaf-list the last
  value is shown, a boolean is a string, an empty leaf is `["null"]`, an empty
  container is null, and so is a leaf that is asked for by itself.  A decimal64
  1.5 is "1.500000", also as a key in an Update's path (`json_ietf.cpp:94`), and
  a tree with an instance-identifier may not be readable at all.  Names are
  not qualified with their modules, so that of siblings of one name from two
  modules the later takes the place of the other.  The key put
  into an Update's path is the entry's first child: one of several keys, or
  none (a crash, for an empty entry of a list without keys).  `tmp.key` survives
  to the next tree, so that with wildcards a container may get the key of the
  list entry before it (`json_ietf.cpp:171`).  For an entry answered to a path
  without elements, `mutable_elem(-1)` is taken (`get.cpp:67`).
* Paths: a key value with a double quote gives an XPath that is not well-formed,
  also when the server itself put it into an Update's path (`utils.h:57`). The
  path of an Update has the key of the last element only, so that with entries
  left open above it two Updates have one path. The prefix is not used by
  Subscribe (`subscribe.cpp:154`); an origin without elements is lost
  (`utils.h:37-61`).
* Subscribe: every notification carries, ahead of the values of a subscription,
  an Update without a value (`subscribe.cpp:48`); ON_CHANGE and TARGET_DEFINED
  subscriptions are sent once (`subscribe.cpp:216`); `updates_only` is not
  supported (`subscribe.cpp:139`); POLL gets no sync_response
  (`subscribe.cpp:304-319`), and as `gnmi.proto` names one for POLL only with
  `updates_only`, `SubscribeProtocol` asks for none without.
* Schemas: a module installed between `list_schemas` and the subscription is
  not loaded until the next start (`load_models.cpp:51, 114`), nor is a module
  that is there loaded in another revision; both are offered by Capabilities,
  which asks the daemon (`capabilities.cpp:40`).  Modules are not unloaded and
  features are not toggled at runtime (`runtime.cpp:81`).
* Authentication: incomplete options for TLS together with `-f` give a server in
  clear text (`authentication.cpp:96`).

**Bounds.**  Two leaves give disjoint, overlapping and nested requests, and a
Get that can be torn.  Two Sets are enough for one to commit, fail with, or
overwrite the edits of another; three for an error to outlive a success.  A
request has up to three operations and four calls, so that another RPC falls
before, between and after them.  Each RPC is served once and each peer commits
at most once, which bounds `log`; this is also why runs switch deadlock
checking off: at the end nothing is left to do.  In `Subscribe`, a tick is 100
ms, the period two ticks; two subscriptions, one due in every iteration and one
in every third, give all ways of being due together or apart.  `Horizon` caps
counters above the largest value the properties compare with (an assumption of
the module checks it).  In `Server`, two modules, one importing the other, give
a load that brings in another module before or after its turn; two changes, an
install and an uninstall of the same module around any step; two starts, a
context that begins anew; the command lines take every branch of `build`, with
options repeated and incomplete.  In `JsonRead` the four trees hold nested
lists with equal keys at different places, every kind of node, lists with two
keys and with none, a decimal64 key and a key with a quote.  In `JsonStore`,
three nodes give every chain of two references and its end in every order, and
the nested lists chains that leave and enter entries.

**Fairness.**  Threads of RPC handlers, the main thread and the thread of the
subscription are scheduled by the operating system and block only in calls that
return: weak fairness of each of them.  Time passes (`Tick`), and `Read` returns
once the call is cancelled, as gRPC guarantees.  Nothing is assumed of clients,
peers, the daemon, the operator who restarts the server, or the data.

**Assumptions** other than bounds: `get_schema` answers or throws; the bytes
after a metadata value do not happen to complete a configured user or password
(`authentication.cpp:179` compares up to a NUL, which `string_ref` need not
have); a peer's change is one commit.

## 4. Proofs

All theorems hold for every value of the constants, from the named assumptions
of the modules only.

* `GnmiServiceProofs`: any leaves, RPCs, peers, requests, faults, `MaxInFlight`.
  * `TypeCorrect`.  Typing is not independent of behaviour: a Get may index its
    request only because it has fewer notifications than paths, so
    `NotificationsMatchPaths` is part of the invariant.
  * `OkSetsLeaveNoEdits`: `OkLeavesNoEdits` says nothing of edits by Sets that
    have not begun; `EditsOfUnfinished` has every edit belong to a Set that runs
    or failed.  `SetCommit` is the interesting step: it finishes a Set with OK
    and empties the edits at once.
  * `GetsReadForward`: `ReadsInv` is `Arrived` (a Get between refresh and read
    finds a copy not older than its arrival, although any other RPC may have
    replaced it; Sets known to be OK stay OK) and `ShownSoFar` (what was shown
    lies at or before the session's current copy).  It rests on `GoesForward`:
    committed versions never change and the copy never goes back.
* `SetEffectProofs`, `SetsTakeEffect`: `UncontendedSetTakesEffect` speaks of
  Sets that are done; the invariant `InPlace` says of every Set at any time that
  on a leaf it alone names, the last of its operations made so far is in place,
  among the edits or committed, possibly by another Set.  Calls of other Sets
  do not touch the leaf; a commit moves the edit into the datastore; peers may
  overwrite it only there.  `TodoInOrder` shows that the three loops visit the
  operations in the protocol's order, `EffectIsWritten` that the protocol's
  effect is what the last operation writes.
* `SetEffectProofs`, `SerialSetsAreTransactions`: the refinement of
  `SetTransaction`, from the assumption `Serial` (one RPC at a time; no
  `set_item`, `delete_item` or `commit` fails; each request is refused before its
  first edit, or is one the protocol allows and the code can carry out).
  `SerialInv` has at most one Set with edits, which are what its operations so
  far amount to and nothing else (`EditsAreStaged`), so that its commit is the
  abstract `Apply`; every other step is a refusal, a peer's commit or a stutter.
  Without any one part of `Serial` the code breaks the promise: `partial_set` is
  the run for a call that fails, `missing_path` that for a request the code does
  not carry out.
* `GnmiStreamsProofs`, `SamplesStayFresh` and `GetsReadForwardAmongStreams`:
  streams are further readers; `Begun` bounds the version a stream that is about
  to read must find.
* `SubscribeProofs`: any requests, rates, bounds and clock steps.
  * `SubscribeTypeCorrect`, with `Order` (what the present loop has yet to visit
    is what it builds for) and `Clock` (how long each phase may have lasted).
  * `SamplesAreNeverLate`, `SamplesAreNeverEarly`: `TimingInv` bounds how far the
    client's time and that of `chronomap` may be apart, in either direction, and
    how long the client may have waited, less for a subscription this iteration
    has looked at than for one it has yet to look at.  `Accepted` says that an
    interval that is compared with the clock's time is one the clock's type has.  A clock that is set back
    may delay a sample by twice the step: the entry looks younger, and the sleep
    of that iteration is longer.
  * `SubscribeKeepsProtocol`: the refinement of `SubscribeProtocol`, if no first
    message asks for `updates_only`, with
    `ProtocolInv` (the first notification precedes the sync, which precedes the
    loop; a finished notification has a value for every subscription it is for).
* `ServerProofs`: `ServerTypeCorrect`, and `ContextAlwaysFollows`,
  `FeaturesAlwaysAsListed` and `SchemasAlwaysStay` from `ContextInv`.  The queue
  of events counts: a module that is reported is not lost (`TailKeeps`).
  `CallersAlwaysAsConfigured`: `AuthInv` ties the builder to the command line
  option by option (`Reflects`), as `CallersAsConfigured` compares calls with the
  command line and the code with the builder.
* `JsonStoreProofs`: documents of any size, nesting and references.
  * `StoreTypeCorrect`, with `Calls`: the stack of `storeLeaf` starts at `pos`
    and each call is for what the one before it refers to.
  * `StoredWhole`: `OkMeansStored` counts what is done at the end; `SetAsOften`
    counts at any time, and `InTurn` that a call which has followed a reference
    comes right after the `set_item` of what it refers to.  The leaf at the end of a chain is set in the innermost
    call, and `pos` counts as stored from then on, not when `storeTree` moves
    on (`Returned`).  `OneChain` (all calls under way end at the same leaf)
    makes the two counts grow together.  It holds for references ahead as well,
    and through leaf-list entries.
  * `ListsComeFirst`: `Placed` (what was passed over is set) and `NoneAhead`
    (calls do not get ahead of `pos`): what is above a node comes before it.
* `JsonReadProofs`: data trees of any depth and width, any paths.
  * `ReadTypeCorrect`, from `ReadInv`: each result is the JSON of its tree
    (`ResultsOK`), each Update that of its result (`UpdatesOK`).
  * `AnswersAreTheTrees`: what is left is that `json_tree` is right about a tree
    (`JsonShown`).  The recursive functions of the model are unfolded by one step
    each (`FilledUnfolds`, `JsonUnfolds`, `WayUnfolds`, `ReachedUnfolds`), and
    induction is by the last node of a tree, or the first child, for which the
    statement fails.  `FilledShows` goes through the children in order: before
    each, the value holds what the children ahead of it are shown as (`Above`),
    and a list entry is appended at its position among the entries of its name
    (`AppendedAtPosition`).
  * `UpdatesAlwaysReadBack`, of trees whose list entries have their keys first,
    each the only child of its name, and differ in them, or have no keys and one
    leaf first (`TreesKeyed`); YANG demands the former.  The property itself is of
    requests without wildcards and of trees that one key tells apart, whose text
    is printed as it is and has no quotes (`PlainKey`); `update_paths` and the
    departures above are what is outside of it.  `NarrowsWell` says that such a
    key leaves the XPath well-formed.  `KeysOK` says whose key a
    result has, `tmp` being reused; `KeyFound` that what `json_read` finds in the
    JSON of an entry is its key; `Narrowed` that one more key in the last step
    leaves, of the nodes the path reached, the one that has it.
* `ExtremaProofs`: sets of natural numbers have a least and, if bounded, a
  greatest element; what `First` and `Effect` choose exists.

Only model-checked: all liveness (`RpcsAnswered`, `StreamsFollow`,
`SamplesConverge`, `CancelledCallEnds`, `StoringEnds`, `StartupEnds`,
`OfferedBecomesUsable`), which the prover does not handle, nor ENABLED; and
`UpdatesReadBack` for a list without keys whose first child is not one leaf.

## 5. Not modelled

Log output and wording; the contents of values, timestamps (`get_time_nanosec`)
and status messages; memory management; the inside of the daemon, of libyang and
of gRPC with its TLS; generated code and the build.  The version and the
encodings in a Capabilities response are constants of the build.  The address
the server listens on matters only through `BuildAndStart` failing.  What an RPC
thread gets out of a libyang context that the install callback is changing is
undefined; the model lets the value be refused or the process die.

## 6. Plan

1. *Done:* the service with Sets, Gets and streams, `Subscribe`, `JsonStore`,
   `JsonRead`, the schema context, authentication, start-up and restarts.
2. *Done:* proofs of every safety invariant of `GnmiService`, `GnmiStreams`,
   `Subscribe`, `Server`, `JsonStore` and `JsonRead`, and of both refinements.
3. `JsonStore` below `GnmiSet`: the calls of a JSON operation from the document
   itself, instead of any sequence of calls.

## 7. Running

    tlc -config MCService.cfg MCGnmiService.tla
    tlapm GnmiServiceProofs.tla

Each run's module and configuration are in `PROJECT.json`.  Definitions called
mutants in the modules are faulty variants of the definition after them; each
breaks one of the checked properties.
