# Verification of kin

kin is a peer-to-peer file sharing program. A daemon watches a shared folder,
keeps a catalog of its own files and of its peers' files, exchanges catalogs
with connected peers over QUIC, finds peers through a relay, tells local clients
about events over a control socket, and lets `kin join` use an invite. A
terminal interface (TUI) is one such client. This directory holds TLA+ models of
those parts, the TLC configurations that check them on small instances, and
TLAPS proofs that hold for instances of any size. Paths below are relative to
the repository.

## The system's parts

| Part | Source | Module | Proofs |
|---|---|---|---|
| Catalog store: rows and availability hints | `internal/catalog` | `Catalog` (operators), `CatalogStore` (transactions) | `CatalogStoreProofs` |
| Catalog exchange between daemons | `internal/protocol/handler.go`, `acceptLoop`, `handleJoin` | `CatalogSync` | `CatalogSyncProofs` |
| Relay server and client, `ServePunch`, `punchViaRelay` | `internal/relay`, `internal/connmgr` | `Relay` | `RelayProofs` |
| Daemons and joins on one configuration directory | `internal/daemon`, `cmd/kin`, `internal/invite`, `internal/peerstore` | `ConfigDir` | `ConfigDirProofs` |
| Folder watcher | `internal/watcher`, `transfer/localindex.go` | `Watcher` | `WatcherProofs` |
| Download of a file | `internal/download`, `internal/transfer` | `Transfer` | `TransferProofs` |
| Events on the control socket | `daemon/server.go`, `daemon/framing.go`, `internal/ipc` | `Control`; abstractly `EventFeed` | `ControlProofs` |
| Terminal interface | `internal/tui` | `Tui` | `TuiProofs` |

How they interact. The watcher changes the catalog and calls
`BroadcastCatalog`; the handler stores what peers offer in the same catalog, so
`CatalogStore`, `CatalogSync` and `Watcher` share the operators of `Catalog`.
The downloader reads owners from the availability hints and asks a peer's
handler, which serves files from the watcher's index. Accept loop, peer sessions
and watcher call `Server.Broadcast`, and the TUI consumes those events.

Two compositions make this precise:

* **`CatalogSync` implements `CatalogStore`.** `Db(n)` is an instance of
  `CatalogStore` whose store is the database of node `n`. `DatabasesAreStores`
  says that each of them starts and moves as `CatalogStore` allows, so what is
  shown of one store holds on every node of the network.
* **`EventFeed` stands between `Control` and `Tui`.** It is what a subscriber
  may rely on: published events may be lost, but those that arrive keep their
  order, come at most once, and nothing comes after the end. `Control` shows
  that every subscription implements it (`FeedIsImplemented`, with the client's
  channel and the readable part of the socket as the feed's queue). `Tui` uses
  an instance of `EventFeed` and nothing else of the socket.

## Modules

**Catalog / CatalogStore.** The store is a record: `entries` gives each owner's
row of each file (none, live, or a tombstone, with the local path), `avail` the
owners hinted for a file. Each bbolt transaction is one action, since bbolt
serialises them.

**CatalogSync.** A connection has two ends, and an end has a `Serve` goroutine,
a session and an inbox. `sendCatalogOfferTo` is two steps (list, then send),
because the send lock is taken after the list was read. Watcher goroutines are
workers that commit a change, copy the table and then list and send for each
connection. A session can be lost at each end separately. A crash keeps only
the database. `raced` is a history variable: n took a list for m while an older
list for m was still on its way.

**Relay.** A link is one TCP connection with its `Serve` goroutine at the
server, and the `Client`, `readLoop` and user at the node. `handleConnect` is
three steps (lookup, push to the target, push to the requester). A write may
succeed although the other side is gone. The waiter's channel, `closed`, and
the bounded `incoming` channel are kept.

**ConfigDir.** Several daemon processes and runs of `kin join`, with the two
database locks, the socket path, the two goroutines that call `Server.Close`,
nonces and peer rows. Every access of a start or a `Close` to the socket path is
a step: `removeStaleSocket`'s stat, dial and remove, the bind, the chmod (which
fails on a path that is gone), the unlink and the close of the descriptor in
`ln.Close`, and the `os.Remove` after it. A connection made before `Serve` runs
waits for its `Accept`. `HasNonce` and `SaveNonce` are separate steps.

**Watcher.** The folder, the queue of file events, the event loop, debounce
timers and the goroutines they start. `indexFile` and `handleRemove` are split
wherever another goroutine or the folder's user can come in between. A timer
that can no longer be cancelled is counted in `orphans`. An event may be lost: a
queue of the kernel that is full comes as an error on `fsw.Errors`, which the loop
logs (`LoseEvent`).

**Transfer.** A content is a sequence of blocks and stands for its own hash.
One connection per download holds the owner's `HandleRequest` and the messages
on their way. A file rewritten in place changes under an open descriptor, a
removed one does not. The downloading node's folder may start with files of its
own, under names that entries use and under hashes, and an entry may be named like
a hash. Reads at the owner, every operation on the temporary file and both renames
may fail. No type in the repository implements `PeerDialer` yet, so
dialing is an external step that fails or gives a connection served by a
`protocol.Handler`, with or without the offer that `Serve` sends first.

**Control.** Goroutines that broadcast (casters) copy the subscriber list and
then, for each subscriber, take `subscriber.mu`, write under a deadline, and on
an error remove and close the subscriber in two further steps. `handleSubscribe`
acknowledges before it adds itself to the list. A deadline that ends a write
after the frame's header leaves a torn frame, behind which the client can read
nothing. The client's reader goroutine drops events when its channel is full.
Both processes may end at any time, and some clients stop reading for good.

**Tui.** `Model.Update` is a function from the interface's state to the next
state and the commands to run; a command calls the daemon in one step and hands
its result to `Update` in another, so results overtake each other. Panels,
cursors, search, overlays, the transfer list and the one-shot `waitForEvent` are
kept, text is not. The daemon commits a change before it broadcasts it. A call
may fail while the daemon is up (a store that cannot be read, an answer beyond
4 MiB), a join may be served without its `PutPeer`, and a broadcast whose write
fails drops the TUI's subscription; what `EventFeed` calls `Truncate`, the loss of
buffered events after that, is covered by `EventLost`.

`MC*` modules give the constants their values. Operators named `Op_Something`,
right before `Op`, are faulty variants, kept to show that each property can fail.

## Runs

| Run | Checks | Result |
|---|---|---|
| `catalog_store` | `EveryLiveRowIsHinted`, `SelfHintIsExact`, `OneOwnerPerTransaction` | hold |
| `catalog_sync` | `TableNamesServedConns`, `CurrentUnlessRaced`, `ExchangeComesToRest`, `DatabasesAreStores` | hold |
| `catalog_stale` | `SettledViewIsCurrent` | violated |
| `relay` | `TypeOK`, `RegistryIsServed`, `ClosedHasNoWaiter`, `LeftOpenIsRead`, `RequestIsAnswered`, `ClosedLinkLeavesRegistry` | hold |
| `relay_presence` | `ServingNodeIsRegistered` | violated |
| `config_dir` | `TypeOK`, `OneListener`, `CatalogUnderPeers`, `PeersHaveSpentInvites`, `SocketLostOnlyToOldClose`, `SpentTokenIsRefused`, `StoreOnlyGrows` | hold |
| `watcher` | `TypeOK`, `PresentFileIsShared`, `RemovedFileIsForgotten`, `ChangesAreAnnounced` | hold |
| `watcher_stale` | `CatalogIsUpToDate` | violated |
| `transfer` | `TypeOK`, `DirectoryIsVerified`, `FailsOnlyWithReason`, `DownloadEnds` | hold |
| `downloads` | `TakenNamesAreKept`, `DownloadedFileIsServed`, `ReturnedPathHoldsFile` | hold |
| `control` | `TypeOK`, `ForgottenIsClosed`, `FeedIsImplemented`, `BroadcastEnds` | hold |
| `tui` | `TypeOK`, `CatalogCurrentUnlessOvertaken`, `ShownOnlineIsBacked`, `WaitingIsAnswered`, `FeedIsDrained` | hold |

The three violated properties restate a sentence of the repository:

* `SettledViewIsCurrent` (docs/025): an offer listed before a change can be
  sent after the offer that has it, and the peer keeps the old catalog.
* `ServingNodeIsRegistered` (comment of `ServePunch`): `deregister` deletes by
  node, so the end of one link of a node removes the entry of another.
* `CatalogIsUpToDate` (package comment of `watcher`): a file rewritten in place
  leaves the row of its old content behind. The property excepts what the watcher
  is not told (changes during the scan or while the daemon is down, lost events)
  and an index that cannot be updated, so that this is all that is left.

One passing property disagrees with a sentence of the repository. docs/025 lists,
as a trigger of `BroadcastCatalog`, "Peer catalog received (`onCatalogUpdate`):
notifies IPC + re-broadcasts to other connected peers (catalog propagation)".
`Daemon.Run` wires `onCatalogUpdate` to the control socket's events only, and its
comment says why. `ExchangeComesToRest` shows that nothing but a connection or a
local change makes work; the document's version is its faulty variant
`HandleCatalogOffer_Rebroadcast`, under which two nodes never come to rest.

The passing properties say what does hold, with these exceptions:

* `CurrentUnlessRaced` excludes exactly the race above and speaks of connections
  in the handler's table.
* `ExchangeComesToRest` is stated of steps, not as liveness: every step of a
  goroutine lowers a measure of the work left, and only a new connection or a
  local change raises it. Together with the bounds on those, messages stop.
* `OneListener` and `SocketLostOnlyToOldClose` except a late `Close`: `Run` may
  release the databases while `Serve`'s goroutine is still in `Server.Close`. Its
  `os.Remove` can take the path of the next daemon, and a third daemon then does
  not see that the second still listens. `SocketLostOnlyToOldClose` names the step
  that takes the path: that `os.Remove`, or the unlink of a `Close` whose own socket
  such an `os.Remove` had hidden. The start of a daemon never takes it. A daemon
  counts as listening until the unlink; the descriptor is closed a step later.
* `SpentTokenIsRefused` lets two joins pass that are both between `HasNonce` and
  `SaveNonce`.
* `PresentFileIsShared` and `RemovedFileIsForgotten` except the paths that
  `hist` marks; their comments list when. A removal handled during a run of
  `indexFile` on its path is one of them: the run's `PutLocal` may come last.
* `TakenNamesAreKept` excepts the hash of a file that was fetched: `RequestFile`
  renames to it without looking.
* `DownloadEnds` excepts an owner that cannot open, or not read on, a file it has
  announced: the receiver is never told and waits. `DownloadedFileIsServed` excepts
  a file that another was moved over, `ReturnedPathHoldsFile` downloads that may
  write one name.
* `CatalogCurrentUnlessOvertaken` excepts a lost event, a failed fetch (the TUI shows
  the error instead), and a fetch delivered after the result of a newer one.
* `WaitingIsAnswered` excepts a file asked for twice, where `MarkDone` finds the
  first entry only. It does not say whose call an open overlay waits for: the
  answer of an abandoned join appears in a join overlay opened later.
* `ShownOnlineIsBacked` is about peers that stay online. A connected peer shown
  as offline does occur: `handlePeers` reports no peer as online.

## Bounds

* `catalog_store` has no bound besides two files, two paths and two peers; one
  transaction involves one file, or the whole of one peer.
* `catalog_sync`: two nodes, one connection in each direction, one change, one
  fault. Two connections are needed for an entry to be overwritten. One of the
  nodes starts with the file indexed, so that the change adds a file at one node
  or removes it at the other; what n offers m does not depend on what m offers n.
  `CurrentUnlessRaced` speaks of a network of two: rows that n receives from a
  third node are part of n's next list for m, but receiving them pushes nothing.
  The other proofs about `CatalogSync` have any number of nodes.
* `relay`: one serving node and two dials, one fault, `incoming` of capacity one
  so that it fills. `relay_presence` lets `ServePunch` reconnect instead.
* `config_dir`: two daemons, two joins, two invites of one node, one crash. The
  late `Close` that hides a listener takes three daemons; the proofs cover them.
* `watcher`: two paths, two contents, three changes, one restart, two timer
  goroutines that may overlap.
* `transfer`: one download, two owners, one change and one fault. `downloads`:
  two downloads, with neither changes nor faults, and an entry named like the hash
  of the other file. In both the folder is empty, or has a file under a name that
  entries use, under its hash, or under another's hash.
* `control`: two casters with three events between them, a live and a stalled
  subscriber, a socket and a channel of one frame each, so both fill.
* `tui`: each behaviour follows one of four plans, which say what happens around
  the interface: two connections of one peer with a lost event, downloads while
  the catalog changes, overlays opened and abandoned, and every key on shrinking
  lists. The plans touch parts of the interface that share no state. Calls fail and
  the subscription is dropped in all but the last, where the keys are the point.

Symmetry is used in runs of invariants and step properties only, over nodes
(`catalog_sync`), processes (`config_dir`), and paths, contents and timer
goroutines (`watcher`). Most configurations switch the deadlock check off: the
bounds make every behaviour end.

## Fairness

Liveness assumes weak fairness of goroutines that can take a step: the Go
scheduler runs every runnable goroutine. `Relay` has it for the steps that
belong to one link, `Transfer` for each download and each `HandleRequest`,
`Control` for each goroutine in `Broadcast` (the write deadline is such a step:
the runtime's timer fires), `Tui` for the delivery of events by `waitForEvent`.
Faults, requests, keys, and the timeouts of the relay client are never fair:
`RequestIsAnswered` does not rest on `punchTimeout`, and `BroadcastEnds` does
not rest on any subscriber.

## Proofs

Every theorem holds for any size of the instance, under the named assumptions
about the constants, which stand in the module that declares them; TLC evaluates
them too. Each proof finds an inductive invariant, shows it of the initial states
and of every action, and derives the property. The assumptions that say more than
that sets are disjoint and bounds are numbers:

* `EndpointsAssumption` (`ConfigDir`): an invite names no endpoint twice, as
  `cmdInvite` and `handleInvite` build it.
* `TransferAssumption` (`Transfer`): there are finitely many owners.
* `BoundsAssumption` (`Control`): a socket has room for one frame.
* `KeyAssumption` (`Tui`): rows and peers are finitely many and ordered by their
  keys, and every connection leads to a peer.
* `TwoNodes`, of the theorem `CurrentView` only: a network of two. It is needed. A
  third node's offer changes what `n` would list for `m`, and receiving it pushes
  nothing, so with three nodes the property is not one of the code.

What is proved of each part:

* `CatalogStoreProofs`: `TypeOK`, `EveryLiveRowIsHinted`, `SelfHintIsExact`,
  `OneOwnerPerTransaction`. The conjunction of the first three is inductive. One
  lemma per transaction says what it does to rows and hints.
* `CatalogSyncProofs`: types; `TableNamesServedConns`, which is inductive
  together with the types; `DatabasesAreStores`, by a lemma that a step writes
  a node's database by one transaction or not at all; and from that
  `EveryLiveRowIsHinted` of every node's database (`HintsCompleteEverywhere`).
  `CurrentUnlessRaced` for two nodes, from `SyncInv`: on the connection that its
  table names for `m`, `n` has yet to take another list, or all it has taken and
  not delivered is its catalog, and what `m` gets last, or has, is too (`Fresh`).
* `RelayProofs`: `RegistryIsServed` needs `UnopenedIsUnserved` (opening a link
  resets its server side, so a link nobody opened must have no `Serve`
  goroutine). `ClosedHasNoWaiter` needs only the shape of the clients. `TypeOK`,
  which bounds the incoming channel, needs that requests name nodes
  (`AskedIsNode`) and that a pairing has a target (`PairHasTarget`).
  `LeftOpenIsRead` follows from the stronger `OpenIsRead`: any open connection
  whose `Connect` has returned is being read, closed client or not.
* `ControlProofs`: `TypeOK`; `ForgottenIsClosed`, where the invariant adds that a
  subscriber marked closed has its connection closed (`DeadIsShut`), that
  `Close`'s copy of the list is empty before `Close` (`UpHasNoneToClose`), that a
  `Broadcast` under way has a subscriber left, and that a subscription nobody
  asked for appears in no list. A lemma shows that `removeSub`, which cuts out one
  entry, removes at most that subscriber from the list as a set.
  `FeedIsImplemented` is a refinement, proved step by step: each action of
  `Control` is a step of `EventFeed` for every subscription, or leaves it alone.
  It needs the shape of a socket: the acknowledgement is first, at most one frame
  is torn, and nothing is written after it.
* `ConfigDirProofs`: `TypeOK`; `CatalogUnderPeers` from what each process's place
  says of its locks (`DaemonLocks`, `JoinLocks`). On top of it `OneListener` and
  `SocketLostOnlyToOldClose`, from four facts: which goroutine can be closing a
  listener at each place of `Run` (`ListenerPlace`), that the path belongs to the
  daemon with `peers.db` or to nobody (`HolderHasSocket`), that a listener is
  hidden only after a late `Close` (`HiddenAfterLateClose`), and that what a start
  is about to remove as stale is no daemon's live socket (`StaleIsDead`).
  `PeersHaveSpentInvites` and `SpentTokenIsRefused` from `AcceptedIsSpent`: what
  `Validate` accepted is on disk before it is used. `StoreOnlyGrows` from what
  `mergeEndpoints` returns: the old endpoints in their places, then new ones, none
  twice, by induction on the number of endpoints merged.
* `WatcherProofs`: `TypeOK`, which says what each goroutine has at its place
  (`handleRemove` an entry, `indexFile` a hash); `ChangesAreAnnounced` from `Announced` (whoever changed
  the catalog is still to call `onChange`). `PresentFileIsShared` from
  `PresentInv`: the file on a path is indexed, or an event, a timer or a run of
  `indexFile` will still read it; that takes `RemovalsFollowed`, a removal that is
  out of date is followed by a write unless an event of its path was lost, and `HomesInv`, rows and index name only
  paths where the content was. `RemovedFileIsForgotten` from `ForgetInv`: the
  events of a path alternate between writes and removals and the last one fits
  the folder, so the next event tells what rows the path may have now.
* `TransferProofs`: `TypeOK`; `DirectoryIsVerified` and `TakenNamesAreKept` from the
  places of a download (`RecvType`), `RenamesToFree` (a name found free by `os.Stat`
  was free before all downloads, or is the hash of a fetched file) and `NamesInv`
  (a name is as it was, or was free and has a fetched file, or is such a hash).
  `ReturnedPathHoldsFile` from
  `PathHolds`, which follows the file from `Verify` to the returned path while no
  other download contends for its names. `DownloadedFileIsServed` from `IndexInv`:
  the index leads to the file, or a download that has it is about to register it.
  `FailsOnlyWithReason` from `ReasonInv`: while nothing disturbed an attempt, the
  messages on the way are the next ones of the one script a transfer follows, so
  it ends in `Verify` with the whole file.
* `TuiProofs`: `TypeOK`, which says that both cursors are on a row. Each operation
  on a panel has a step of its own in `Updates`, which shows that the panels satisfy
  `UpdateFine`; the proofs about the program's steps use nothing else of them. What
  both need of finite sets is stated in `SetsFine` and `CountingFine` and proved
  last, from the library. `CatalogCurrentUnlessOvertaken` from `CatInv`: a change is yet to be
  announced, or on the feed, or fetched by a command that is under way, which may
  fail, or shown.
  `ShownOnlineIsBacked` from `PeerInv`: a connection that is gone had its
  "offline" taken, or it is on the feed, or lost. `WaitingIsAnswered` from
  `WaitInv`, which counts places of sequences: of the entries of a file, those
  not done are at least its downloads under way, and as many if it has one entry.

Only model-checked: all liveness (`RequestIsAnswered`,
`ClosedLinkLeavesRegistry`, `DownloadEnds`, `BroadcastEnds`, `FeedIsDrained`),
which is out of the proof system's reach, and `ExchangeComesToRest`, whose measure
is a sum over sets. Every other property of a passing run is also a theorem. The
prover cannot use an induction theorem with an operator as its parameter; the
proofs that need induction use it in the form of a set of numbers that contains 0
and the successor of each of its members. Theorems of an instance with a parameter,
as `Db(n)`, cannot be cited, so `HintsCompleteEverywhere` repeats the step for the
instance.

## Not modelled

* Rendering: the views, styles and the status bar, which change no state that
  anything reads; the TUI's embedded start of a daemon.
* Transport, TLS, peer protocol framing: a session is an ordered stream that can
  be lost. Framing is modelled on the control socket only, where a deadline can
  cut a frame.
* Back pressure in `Relay`: a peer that does not read is not distinguished from
  one that reads late, so `RequestIsAnswered` says nothing of it.
* `WaitForRendezvous`, which only tests call.
* NAT punching and external port discovery: UDP timing; a punch is one step.
* Identity, configuration, logging, the relay's `main`: read once, or pure I/O.
* Signature and encoding of invites: a token is one that `Encode` made.
* `UpdateLastSeen` (only a time), `handleStatus` (only reads), subfolders of the
  shared folder, and generated protobuf code.
