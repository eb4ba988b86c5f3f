----------------------------- MODULE CatalogSync -----------------------------
(***************************************************************************)
(* Catalog exchange between daemons: protocol.Handler (Serve, dispatch,    *)
(* handleCatalogOffer, BroadcastCatalog and the table of connections), the *)
(* goroutines that run it (Daemon.acceptLoop and Handler.serveJoinedPeer)  *)
(* and the watcher callback that pushes the catalog to the peers.          *)
(*                                                                         *)
(* A connection is a triple <<n, m, k>>: the k-th time n dials m.  Each of *)
(* its two ends runs one Serve goroutine.  Each node also runs Worker      *)
(* goroutines: the watcher's loop and its debounce timers, which commit a  *)
(* local change and then call BroadcastCatalog, each on its own.           *)
(*                                                                         *)
(* A list of entries is taken (ListForPeer) and sent in two steps, as in   *)
(* sendCatalogOfferTo; connEntry.Send holds a mutex for one message only.  *)
(***************************************************************************)
EXTENDS Catalog, Integers, Sequences, FiniteSetsExt

CONSTANTS
    Conn,           \* the connections that may come up, triples <<n, m, k>>
    Worker,         \* watcher goroutines of each node
    Shared,         \* the files that each node may have indexed at the start
    NoConn,         \* no entry in the table of connections
    MaxChanges,     \* bound on local changes, over all nodes
    MaxFaults       \* bound on crashes and lost connections, over all nodes

ASSUME ConnAssumption ==
    /\ Conn \subseteq Node \X Node \X Nat
    /\ \A c \in Conn : c[1] # c[2]
    /\ NoConn \notin Conn

ASSUME SharedAssumption == Shared \subseteq [Node -> SUBSET File]

ASSUME BoundsAssumption ==
    MaxChanges \in Nat /\ MaxFaults \in Nat

\* The two ends of a connection, each with the node it belongs to.
End == {<<c, c[1]>> : c \in Conn} \cup {<<c, c[2]>> : c \in Conn}

Peer(e) == IF e[2] = e[1][1] THEN e[1][2] ELSE e[1][1]

Other(e) == <<e[1], Peer(e)>>

VARIABLES
    store,      \* catalog database of each node; survives a crash
    conns,      \* Handler.conns of each node: peer -> connection
    serve,      \* where the Serve goroutine of each end is
    offer,      \* the list an end's Serve took and has not sent yet
    sess,       \* the end's QUIC session is usable
    inbox,      \* catalog offers on their way to each end
    work,       \* the watcher goroutines of each node
    budget,     \* what is left of the two bounds
    raced       \* history: see Outstanding

netVars == <<conns, serve, offer, sess, inbox>>
vars == <<store, netVars, work, budget, raced>>

Serving == {"list", "send", "recv"}

IdleWorker == [at |-> "idle", todo |-> {}, conn |-> NoConn, files |-> {}]

TypeOK ==
    /\ store \in [Node -> Store]
    /\ conns \in [Node -> [Node -> Conn \cup {NoConn}]]
    /\ serve \in [End -> {"unborn", "register", "done"} \cup Serving]
    /\ offer \in [End -> SUBSET File]
    /\ sess \in [End -> BOOLEAN]
    /\ inbox \in [End -> Seq(SUBSET File)]
    /\ work \in [Node -> [Worker -> [at : {"idle", "snapshot", "list", "send"},
                                     todo : SUBSET Conn,
                                     conn : Conn \cup {NoConn},
                                     files : SUBSET File]]]
    /\ budget \in [changes : 0..MaxChanges, faults : 0..MaxFaults]
    /\ raced \in [Node -> [Node -> BOOLEAN]]

Init ==
    /\ \E shared \in Shared, p \in Path :
         store = [n \in Node |-> LocalStore(n, shared[n], p)]
    /\ conns = [n \in Node |-> [m \in Node |-> NoConn]]
    /\ serve = [e \in End |-> "unborn"]
    /\ offer = [e \in End |-> {}]
    /\ sess = [e \in End |-> FALSE]
    /\ inbox = [e \in End |-> <<>>]
    /\ work = [n \in Node |-> [w \in Worker |-> IdleWorker]]
    /\ budget = [changes |-> MaxChanges, faults |-> MaxFaults]
    /\ raced = [n \in Node |-> [m \in Node |-> FALSE]]

(***************************************************************************)
(* Node n has taken an earlier list for m that is still unsent, or is      *)
(* still on its way on a connection other than c.  `raced` remembers       *)
(* whether that was ever so when a list for m was taken.                   *)
(***************************************************************************)
Outstanding(n, m, c) ==
    \/ \E e \in End : e[2] = n /\ Peer(e) = m /\ serve[e] = "send"
    \/ \E w \in Worker : /\ work[n][w].at = "send"
                         /\ Peer(<<work[n][w].conn, n>>) = m
    \/ \E e \in End : /\ e[2] = m /\ Peer(e) = n /\ e[1] # c
                      /\ inbox[e] # <<>>

\* Conn.Send on end e: the offer reaches the other end unless either
\* session is gone.  An error is logged by every caller and changes nothing.
Sent(e, files) ==
    IF sess[e] /\ sess[Other(e)]
    THEN [inbox EXCEPT ![Other(e)] = Append(@, files)]
    ELSE inbox

-----------------------------------------------------------------------------
(***************************************************************************)
(* The Serve goroutine of an end.                                          *)
(***************************************************************************)

\* n dialled m (handleJoin) and m accepted (acceptLoop): both ends have a
\* session, and each node starts a Serve goroutine for its end.
Connect(c) ==
    LET dialled == <<c, c[1]>>
        accepted == <<c, c[2]>>
    IN
    /\ serve[dialled] = "unborn" /\ serve[accepted] = "unborn"
    /\ serve' = [serve EXCEPT ![dialled] = "register", ![accepted] = "register"]
    /\ sess' = [sess EXCEPT ![dialled] = TRUE, ![accepted] = TRUE]
    /\ UNCHANGED <<store, conns, offer, inbox, work, budget, raced>>

\* registerConn: the entry of an earlier connection is overwritten.
RegisterConn(e) ==
    /\ serve[e] = "register"
    /\ conns' = [conns EXCEPT ![e[2]][Peer(e)] = e[1]]
    /\ serve' = [serve EXCEPT ![e] = "list"]
    /\ UNCHANGED <<store, offer, sess, inbox, work, budget, raced>>

ServeList(e) ==
    /\ serve[e] = "list"
    /\ offer' = [offer EXCEPT ![e] = ListForPeer(store[e[2]], Peer(e))]
    /\ raced' = [raced EXCEPT ![e[2]][Peer(e)] = @ \/ Outstanding(e[2], Peer(e), e[1])]
    /\ serve' = [serve EXCEPT ![e] = "send"]
    /\ UNCHANGED <<store, conns, sess, inbox, work, budget>>

ServeSend(e) ==
    /\ serve[e] = "send"
    /\ inbox' = Sent(e, offer[e])
    /\ offer' = [offer EXCEPT ![e] = {}]
    /\ serve' = [serve EXCEPT ![e] = "recv"]
    /\ UNCHANGED <<store, conns, sess, work, budget, raced>>

Received(e) == serve[e] = "recv" /\ inbox[e] # <<>>

OfferedRows(files) == [f \in File |-> IF f \in files THEN "live" ELSE "none"]

\* The receiver pushes its catalog back to the sender.
HandleCatalogOffer_Rebroadcast(e) ==
    /\ Received(e)
    /\ store' = [store EXCEPT ![e[2]] =
                    PutPeerEntries(@, Peer(e), OfferedRows(Head(inbox[e])))]
    /\ inbox' = [Sent(e, ListForPeer(store[e[2]], Peer(e)))
                    EXCEPT ![e] = Tail(@)]
    /\ UNCHANGED <<conns, serve, offer, sess, work, budget, raced>>

\* handleCatalogOffer: replace the peer's rows.  Its two other effects have
\* no state here: the IPC subscribers are notified, and an acknowledgement
\* is sent that dispatch at the other end only logs.
HandleCatalogOffer(e) ==
    /\ Received(e)
    /\ store' = [store EXCEPT ![e[2]] =
                    PutPeerEntries(@, Peer(e), OfferedRows(Head(inbox[e])))]
    /\ inbox' = [inbox EXCEPT ![e] = Tail(@)]
    /\ UNCHANGED <<conns, serve, offer, sess, work, budget, raced>>

\* Serve returns but leaves its entry in the table.
ServeReturn_NoUnregister(e) ==
    /\ serve[e] = "recv" /\ ~ sess[e]
    /\ serve' = [serve EXCEPT ![e] = "done"]
    /\ UNCHANGED <<store, conns, offer, sess, inbox, work, budget, raced>>

\* Recv failed: Serve returns and its deferred unregisterConn deletes the
\* peer's entry, whichever connection the entry is for.
ServeReturn(e) ==
    /\ serve[e] = "recv" /\ ~ sess[e]
    /\ conns' = [conns EXCEPT ![e[2]][Peer(e)] = NoConn]
    /\ serve' = [serve EXCEPT ![e] = "done"]
    /\ UNCHANGED <<store, offer, sess, inbox, work, budget, raced>>

-----------------------------------------------------------------------------
(***************************************************************************)
(* The watcher goroutines.                                                 *)
(***************************************************************************)

\* A removal commits the row and leaves the hint for later.
LocalChange_RowOnly(n, w) ==
    /\ work[n][w].at = "idle"
    /\ budget.changes > 0
    /\ \E f \in File :
         \/ \E p \in Path : store' = [store EXCEPT ![n] = PutLocal(@, n, f, p)]
         \/ /\ f \in ListByOwner(store[n], n)
            /\ store' = [store EXCEPT ![n] = DeleteLocal_HintKept(@, n, f)]
    /\ work' = [work EXCEPT ![n][w].at = "snapshot"]
    /\ budget' = [budget EXCEPT !.changes = @ - 1]
    /\ UNCHANGED <<netVars, raced>>

\* indexFile or handleRemove commits a change and calls notifyChange.
LocalChange(n, w) ==
    /\ work[n][w].at = "idle"
    /\ budget.changes > 0
    /\ \E f \in File :
         \/ \E p \in Path : store' = [store EXCEPT ![n] = PutLocal(@, n, f, p)]
         \/ /\ f \in ListByOwner(store[n], n)
            /\ store' = [store EXCEPT ![n] = DeleteLocal(@, n, f)]
    /\ work' = [work EXCEPT ![n][w].at = "snapshot"]
    /\ budget' = [budget EXCEPT !.changes = @ - 1]
    /\ UNCHANGED <<netVars, raced>>

\* The worker's position in BroadcastCatalog's loop once todo is left.
Looping(todo) == [at |-> IF todo = {} THEN "idle" ELSE "list",
                  todo |-> todo, conn |-> NoConn, files |-> {}]

\* BroadcastCatalog copies the table under Handler.mu.
BroadcastSnapshot(n, w) ==
    /\ work[n][w].at = "snapshot"
    /\ work' = [work EXCEPT ![n][w] =
                   Looping({conns[n][m] : m \in Node} \ {NoConn})]
    /\ UNCHANGED <<store, netVars, budget, raced>>

\* sendCatalogOfferTo, first half; Go ranges over a map in any order.
BroadcastList(n, w) ==
    /\ work[n][w].at = "list"
    /\ \E c \in work[n][w].todo :
         LET m == Peer(<<c, n>>) IN
         /\ work' = [work EXCEPT ![n][w] =
                       [at |-> "send", todo |-> @.todo \ {c}, conn |-> c,
                        files |-> ListForPeer(store[n], m)]]
         /\ raced' = [raced EXCEPT ![n][m] = @ \/ Outstanding(n, m, c)]
    /\ UNCHANGED <<store, netVars, budget>>

\* The offer is dropped on a connection that is up.
BroadcastSend_Lost(n, w) ==
    /\ work[n][w].at = "send"
    /\ work' = [work EXCEPT ![n][w] = Looping(@.todo)]
    /\ UNCHANGED <<store, netVars, budget, raced>>

BroadcastSend(n, w) ==
    /\ work[n][w].at = "send"
    /\ inbox' = Sent(<<work[n][w].conn, n>>, work[n][w].files)
    /\ work' = [work EXCEPT ![n][w] = Looping(@.todo)]
    /\ UNCHANGED <<store, conns, serve, offer, sess, budget, raced>>

-----------------------------------------------------------------------------
(***************************************************************************)
(* The environment.                                                        *)
(***************************************************************************)

\* An end's session is lost: idle timeout, or the peer closed.  What was
\* buffered for the end is lost with it; the other end notices on its own.
SessionLost(e) ==
    /\ sess[e]
    /\ budget.faults > 0 \/ ~ sess[Other(e)]
    /\ sess' = [sess EXCEPT ![e] = FALSE]
    /\ inbox' = [inbox EXCEPT ![e] = <<>>]
    /\ budget' = [budget EXCEPT !.faults = IF sess[Other(e)] THEN @ - 1 ELSE @]
    /\ UNCHANGED <<store, conns, serve, offer, work, raced>>

\* The process of n dies and is restarted: only the database is left.
Crash(n) ==
    LET Mine(e) == e[2] = n /\ serve[e] # "unborn" IN
    /\ budget.faults > 0
    /\ budget' = [budget EXCEPT !.faults = @ - 1]
    /\ conns' = [conns EXCEPT ![n] = [m \in Node |-> NoConn]]
    /\ serve' = [e \in End |-> IF Mine(e) THEN "done" ELSE serve[e]]
    /\ offer' = [e \in End |-> IF Mine(e) THEN {} ELSE offer[e]]
    /\ sess' = [e \in End |-> sess[e] /\ ~ Mine(e)]
    /\ inbox' = [e \in End |-> IF Mine(e) THEN <<>> ELSE inbox[e]]
    /\ work' = [work EXCEPT ![n] = [w \in Worker |-> IdleWorker]]
    /\ UNCHANGED <<store, raced>>

ServeStep(e) ==
    \/ RegisterConn(e) \/ ServeList(e) \/ ServeSend(e)
    \/ HandleCatalogOffer(e) \/ ServeReturn(e)

WorkerStep(n, w) ==
    BroadcastSnapshot(n, w) \/ BroadcastList(n, w) \/ BroadcastSend(n, w)

Next ==
    \/ \E c \in Conn : Connect(c)
    \/ \E e \in End : ServeStep(e) \/ SessionLost(e)
    \/ \E n \in Node, w \in Worker : LocalChange(n, w) \/ WorkerStep(n, w)
    \/ \E n \in Node : Crash(n)

Spec == Init /\ [][Next]_vars

-----------------------------------------------------------------------------
(***************************************************************************)
(* Properties.                                                             *)
(***************************************************************************)

\* Handler.conns never names a connection whose Serve has returned, through
\* overwritten entries, deletions by peer id and crashes: BroadcastCatalog
\* only sends on connections that are being served.
TableNamesServedConns ==
    \A n, m \in Node :
        conns[n][m] # NoConn =>
            /\ <<conns[n][m], n>> \in End
            /\ Peer(<<conns[n][m], n>>) = m
            /\ serve[<<conns[n][m], n>>] \in Serving

\* Nothing that n started for m is under way.
NoneInFlight(n, m) ==
    /\ \A w \in Worker : work[n][w].at = "idle"
    /\ \A e \in End : e[2] = n /\ Peer(e) = m => serve[e] \notin {"list", "send"}
    /\ \A e \in End : e[2] = m /\ Peer(e) = n => inbox[e] = <<>>

\* Both ends of the connection that n has for m are up and in their loops.
Linked(n, m) ==
    /\ conns[n][m] # NoConn
    /\ LET e == <<conns[n][m], n>> IN
         /\ serve[e] = "recv" /\ serve[Other(e)] = "recv"
         /\ sess[e] /\ sess[Other(e)]

ViewIsCurrent(n, m) == ListByOwner(store[m], n) = ListForPeer(store[n], m)

\* Two nodes.  Once everything n started has been delivered, m's rows for n
\* are n's catalog, unless n once took a list for m while an older one was
\* still on its way.  Through reconnections, crashes and
\* changes made while disconnected, that race and a lost table entry are the
\* only ways for the view of a linked peer to be stale.
CurrentUnlessRaced ==
    \A n, m \in Node :
        n # m /\ Linked(n, m) /\ NoneInFlight(n, m) /\ ~ raced[n][m]
            => ViewIsCurrent(n, m)

\* "the updated catalog is now pushed to all currently connected P2P peers"
\* (docs/025): the same without the exception for the race.
SettledViewIsCurrent ==
    \A n, m \in Node :
        n # m /\ Linked(n, m) /\ NoneInFlight(n, m) => ViewIsCurrent(n, m)

\* What the goroutines still have to do, counted so that an offer put on its way
\* counts one, less than the step that sends it.
ServeLeft == [unborn |-> 0, register |-> 5, list |-> 4, send |-> 3, recv |-> 1, done |-> 0]

WorkerLeft(w) ==
    CASE w.at = "idle" -> 0
      [] w.at = "snapshot" -> 3 * Cardinality(Conn) + 1
      [] w.at = "list" -> 3 * Cardinality(w.todo)
      [] w.at = "send" -> 3 * Cardinality(w.todo) + 2

\* How a step changes what is left for an end, for a worker, and in all.
EndGains(e) ==
    ServeLeft[serve'[e]] - ServeLeft[serve[e]] + Len(inbox'[e]) - Len(inbox[e])

WorkerGains(x) ==
    WorkerLeft(work'[x[1]][x[2]]) - WorkerLeft(work[x[1]][x[2]])

WorkAdded ==
    (IF UNCHANGED <<serve, inbox>> THEN 0 ELSE MapThenSumSet(EndGains, End))
      + (IF UNCHANGED work THEN 0 ELSE MapThenSumSet(WorkerGains, Node \X Worker))

\* No ping-pong: an offer is never answered by an offer.  Every step of a goroutine
\* leaves less to do, a fault leaves no more, and nothing but a new connection and a
\* local change makes work: when these stop, the messages stop.  This is what
\* Daemon.Run's wiring is for ("Do NOT re-broadcast to peers here"), and it is not
\* what docs/025-live-catalog-push.md says, where a received catalog is sent on
\* to other connected peers.
ExchangeComesToRest ==
    [][\/ WorkAdded < IF UNCHANGED <<sess, budget>> THEN 0 ELSE 1
       \/ budget'.changes < budget.changes
       \/ \E e \in End : serve[e] = "unborn" /\ serve'[e] = "register"]_vars

-----------------------------------------------------------------------------
\* The database of each node, as CatalogStore has it.
Db(n) == INSTANCE CatalogStore WITH Self <- n, store <- store[n]

\* The exchange uses each node's database by its transactions only, one at a time:
\* what CatalogStore guarantees holds of every node's database, whatever the
\* goroutines, connections and crashes do.
DatabasesAreStores ==
    /\ \A n \in Node : Db(n)!Init
    /\ [][\A n \in Node : UNCHANGED store[n] \/ Db(n)!Next]_vars
=============================================================================
