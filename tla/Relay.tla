-------------------------------- MODULE Relay --------------------------------
(***************************************************************************)
(* The relay: its server (relay/server.go: the registry, one Serve         *)
(* goroutine per connection), its client (relay/client.go: pending waiter, *)
(* incoming channel, readLoop, Close) and the two users of the client,     *)
(* connmgr's ServePunch, which relayLoop restarts, and punchViaRelay.      *)
(*                                                                         *)
(* A link is one TCP connection to the relay, a triple <<n, role, k>>: the *)
(* k-th connection that node n opens for ServePunch ("serve") or for a     *)
(* Dial ("dial").  Every link registers n with the relay.  Addresses and   *)
(* keys are left out: a rendezvous message names a node.                   *)
(***************************************************************************)
EXTENDS Naturals, Sequences

CONSTANTS
    Node,
    Link,           \* the links that may be opened
    NoLink,
    NoNode,
    IncomingCap,    \* capacity of Client.incoming (16 in the code)
    MaxFaults       \* bound on crashes and cut links

ASSUME LinkAssumption ==
    /\ Link \subseteq Node \X {"serve", "dial"} \X Nat
    /\ NoLink \notin Link /\ NoNode \notin Node
    /\ IncomingCap \in Nat \ {0} /\ MaxFaults \in Nat

VARIABLES
    registry,   \* Server.registry: node -> link of its entry
    srv,        \* where the Serve goroutine of each link is
    target,     \* the entry handleConnect has looked up
    cli,        \* where the user of each link's client is
    client,     \* the Client struct of each link
    net,        \* the TCP connection of each link
    toSrv,      \* unread messages to the server
    toCli,      \* unread messages to the client
    faults      \* what is left of MaxFaults

vars == <<registry, srv, target, cli, client, net, toSrv, toCli, faults>>

Registered == [type |-> "registered", node |-> NoNode]
Rendezvous(n) == [type |-> "rendezvous", node |-> n]
Failure == [type |-> "error", node |-> NoNode]
ToClient == [type : {"registered", "error"}, node : {NoNode}]
                \cup [type : {"rendezvous"}, node : Node]

Register == [type |-> "register", node |-> NoNode]
RelayConnect(n) == [type |-> "connect", node |-> n]
ToServer == [type : {"register", "connect"}, node : Node \cup {NoNode}]

\* A goroutine in one of these places has its entry in the server's hands.
InServe == {"confirm", "loop", "pair", "reply"}

TypeOK ==
    /\ registry \in [Node -> Link \cup {NoLink}]
    /\ srv \in [Link -> {"none", "register", "gone"} \cup InServe]
    /\ target \in [Link -> Link \cup {NoLink}]
    /\ cli \in [Link -> {"idle", "registering", "serving", "dialed", "waiting",
                         "punching", "closing", "done"}]
    /\ client \in [Link -> [closed : BOOLEAN, reading : BOOLEAN,
                            awaits : Node \cup {NoNode},
                            ch : {"none", "empty", "full", "closed"},
                            incoming : Seq(Node)]]
    /\ \A l \in Link : Len(client[l].incoming) <= IncomingCap
    /\ net \in [Link -> [cli : BOOLEAN, srv : BOOLEAN, cut : BOOLEAN]]
    /\ toSrv \in [Link -> Seq(ToServer)]
    /\ toCli \in [Link -> Seq(ToClient)]
    /\ faults \in 0..MaxFaults

NewClient == [closed |-> FALSE, reading |-> FALSE, awaits |-> NoNode,
              ch |-> "none", incoming |-> <<>>]

Init ==
    /\ registry = [n \in Node |-> NoLink]
    /\ srv = [l \in Link |-> "none"]
    /\ target = [l \in Link |-> NoLink]
    /\ cli = [l \in Link |-> "idle"]
    /\ client = [l \in Link |-> NewClient]
    /\ net = [l \in Link |-> [cli |-> FALSE, srv |-> FALSE, cut |-> FALSE]]
    /\ toSrv = [l \in Link |-> <<>>]
    /\ toCli = [l \in Link |-> <<>>]
    /\ faults = MaxFaults

(***************************************************************************)
(* TCP.  A read fails once the peer has closed, or the link is cut, and    *)
(* nothing is left to read.  A write on a connection the other side has    *)
(* closed may still succeed, for nothing.                                  *)
(***************************************************************************)
ClientReadFails(l) == toCli[l] = <<>> /\ (~ net[l].srv \/ net[l].cut)
ServerReadFails(l) == toSrv[l] = <<>> /\ (~ net[l].cli \/ net[l].cut)

WriteReaches(l) == net[l].cli /\ net[l].srv /\ ~ net[l].cut
WriteMayFail(l) == ~ WriteReaches(l)
WriteMaySucceed(l) == net[l].srv

\* queues after writing msg to the client of link l
Written(queues, l, msg) ==
    IF WriteReaches(l) THEN [queues EXCEPT ![l] = Append(@, msg)] ELSE queues

-----------------------------------------------------------------------------
(***************************************************************************)
(* The server: Serve(l), handleConnect, deregister.                        *)
(***************************************************************************)

\* Serve reads RelayRegister and puts its entry in the registry, replacing
\* the entry of another link of the node.
ServeRegister(l) ==
    /\ srv[l] = "register"
    /\ toSrv[l] # <<>>
    /\ toSrv' = [toSrv EXCEPT ![l] = Tail(@)]
    /\ registry' = [registry EXCEPT ![l[1]] = l]
    /\ srv' = [srv EXCEPT ![l] = "confirm"]
    /\ UNCHANGED <<target, cli, client, net, toCli, faults>>

\* deregister(nodeID) and the deferred conn.Close: the node's entry goes,
\* whichever link it belongs to.
Leave(l) ==
    /\ registry' = [registry EXCEPT ![l[1]] = NoLink]
    /\ srv' = [srv EXCEPT ![l] = "gone"]
    /\ net' = [net EXCEPT ![l].srv = FALSE]

\* RelayRegistered is sent after the entry is visible to other goroutines.
ServeConfirm(l) ==
    /\ srv[l] = "confirm"
    /\ \/ /\ WriteMaySucceed(l)
          /\ toCli' = Written(toCli, l, Registered)
          /\ srv' = [srv EXCEPT ![l] = "loop"]
          /\ UNCHANGED <<registry, net>>
       \/ /\ WriteMayFail(l)
          /\ Leave(l)
          /\ UNCHANGED toCli
    /\ UNCHANGED <<target, cli, client, toSrv, faults>>

\* handleConnect: look the target up, without keeping the registry locked.
ServeConnect(l) ==
    /\ srv[l] = "loop"
    /\ toSrv[l] # <<>>
    /\ toSrv' = [toSrv EXCEPT ![l] = Tail(@)]
    /\ LET t == registry[Head(toSrv[l]).node] IN
         \/ /\ t = NoLink
            /\ toCli' = Written(toCli, l, Failure)
            /\ UNCHANGED <<srv, target>>
         \/ /\ t # NoLink
            /\ srv' = [srv EXCEPT ![l] = "pair"]
            /\ target' = [target EXCEPT ![l] = t]
            /\ UNCHANGED toCli
    /\ UNCHANGED <<registry, cli, client, net, faults>>

\* The requester is not told that the target could not be reached.
PairTarget_SilentFailure(l) ==
    /\ srv[l] = "pair"
    /\ LET t == target[l] IN
         \/ /\ WriteMaySucceed(t)
            /\ toCli' = Written(toCli, t, Rendezvous(l[1]))
            /\ srv' = [srv EXCEPT ![l] = "reply"]
         \/ /\ WriteMayFail(t)
            /\ srv' = [srv EXCEPT ![l] = "loop"]
            /\ UNCHANGED toCli
    /\ UNCHANGED <<target, registry, cli, client, net, toSrv, faults>>

\* The target is told first; when that fails the requester gets an error.
PairTarget(l) ==
    /\ srv[l] = "pair"
    /\ LET t == target[l] IN
         \/ /\ WriteMaySucceed(t)
            /\ toCli' = Written(toCli, t, Rendezvous(l[1]))
            /\ srv' = [srv EXCEPT ![l] = "reply"]
            /\ UNCHANGED target
         \/ /\ WriteMayFail(t)
            /\ toCli' = Written(toCli, l, Failure)
            /\ srv' = [srv EXCEPT ![l] = "loop"]
            /\ target' = [target EXCEPT ![l] = NoLink]
    /\ UNCHANGED <<registry, cli, client, net, toSrv, faults>>

\* An error of this send is only logged.
PairRequester(l) ==
    /\ srv[l] = "reply"
    /\ toCli' = Written(toCli, l, Rendezvous(target[l][1]))
    /\ srv' = [srv EXCEPT ![l] = "loop"]
    /\ target' = [target EXCEPT ![l] = NoLink]
    /\ UNCHANGED <<registry, cli, client, net, toSrv, faults>>

\* Serve returns without taking its entry out.
ServeEnd_NoDeregister(l) ==
    /\ srv[l] \in {"register", "loop"}
    /\ ServerReadFails(l)
    /\ srv' = [srv EXCEPT ![l] = "gone"]
    /\ net' = [net EXCEPT ![l].srv = FALSE]
    /\ UNCHANGED <<target, registry, cli, client, toSrv, toCli, faults>>

\* A read failed: before the registration Serve just returns.
ServeEnd(l) ==
    /\ ServerReadFails(l)
    /\ \/ srv[l] = "loop" /\ Leave(l)
       \/ /\ srv[l] = "register"
          /\ srv' = [srv EXCEPT ![l] = "gone"]
          /\ net' = [net EXCEPT ![l].srv = FALSE]
          /\ UNCHANGED registry
    /\ UNCHANGED <<target, cli, client, toSrv, toCli, faults>>

-----------------------------------------------------------------------------
(***************************************************************************)
(* The client's own goroutine: readLoop, dispatchRendezvous and            *)
(* dispatchError.                                                          *)
(***************************************************************************)

\* A waiter is in Client.pending.
Pending(c) == c.ch \in {"empty", "full"}

\* closeLocked: waiters and the incoming channel are closed, once.
CloseLocked(c) ==
    [c EXCEPT !.closed = TRUE, !.ch = IF Pending(c) THEN "closed" ELSE c.ch]

\* Incoming is never full.
DispatchRendezvous_Unbounded(c, n) ==
    IF Pending(c) /\ c.awaits = n
    THEN [c EXCEPT !.ch = "full"]
    ELSE IF c.closed THEN c ELSE [c EXCEPT !.incoming = Append(@, n)]

\* dispatchRendezvous drops what finds its channel full.
DispatchRendezvous(c, n) ==
    IF Pending(c) /\ c.awaits = n
    THEN [c EXCEPT !.ch = "full"]
    ELSE IF c.closed \/ Len(c.incoming) = IncomingCap
    THEN c
    ELSE [c EXCEPT !.incoming = Append(@, n)]

\* The loop ends on a RelayError.
ReadLoop_StopsOnError(l) ==
    /\ client[l].reading /\ net[l].cli /\ toCli[l] # <<>>
    /\ toCli' = [toCli EXCEPT ![l] = Tail(@)]
    /\ LET msg == Head(toCli[l]) IN
       client' = [client EXCEPT ![l] =
                     CASE msg.type = "rendezvous" -> DispatchRendezvous(@, msg.node)
                       [] msg.type = "error"      -> [CloseLocked(@) EXCEPT !.reading = FALSE]
                       [] OTHER                   -> @]
    /\ UNCHANGED <<target, registry, srv, cli, net, toSrv, faults>>

\* A RelayError does not say whom it is for: everything is closed, but the
\* loop goes on reading.  Any other message is ignored.
ReadLoop(l) ==
    /\ client[l].reading /\ net[l].cli /\ toCli[l] # <<>>
    /\ toCli' = [toCli EXCEPT ![l] = Tail(@)]
    /\ LET msg == Head(toCli[l]) IN
       client' = [client EXCEPT ![l] =
                     CASE msg.type = "rendezvous" -> DispatchRendezvous(@, msg.node)
                       [] msg.type = "error"      -> CloseLocked(@)
                       [] OTHER                   -> @]
    /\ UNCHANGED <<target, registry, srv, cli, net, toSrv, faults>>

\* A failed read closes the waiters; an open connection stays open.
ReadLoopEnd(l) ==
    /\ client[l].reading
    /\ ~ net[l].cli \/ ClientReadFails(l)
    /\ client' = [client EXCEPT ![l] = [CloseLocked(@) EXCEPT !.reading = FALSE]]
    /\ UNCHANGED <<target, registry, srv, cli, net, toSrv, toCli, faults>>

-----------------------------------------------------------------------------
(***************************************************************************)
(* The users of the client.                                                *)
(***************************************************************************)

\* relayLoop calls ServePunch again only after the last call has returned.
ServePunchReturned(l) ==
    l[2] = "serve" =>
        \A m \in Link : m[1] = l[1] /\ m[2] = "serve" /\ m[3] < l[3] => cli[m] = "done"

\* relay.Connect dials and sends RelayRegister.
ConnectRelay(l) ==
    /\ cli[l] = "idle" /\ ServePunchReturned(l)
    /\ cli' = [cli EXCEPT ![l] = "registering"]
    /\ net' = [net EXCEPT ![l].cli = TRUE, ![l].srv = TRUE]
    /\ srv' = [srv EXCEPT ![l] = "register"]
    /\ toSrv' = [toSrv EXCEPT ![l] = <<Register>>]
    /\ UNCHANGED <<target, registry, client, toCli, faults>>

\* Connect waits for RelayRegistered; any other message, or a failed read,
\* makes it close the connection and fail.
ConnectAnswered(l) ==
    /\ cli[l] = "registering"
    /\ \/ /\ toCli[l] # <<>> /\ Head(toCli[l]) = Registered
          /\ toCli' = [toCli EXCEPT ![l] = Tail(@)]
          /\ client' = [client EXCEPT ![l].reading = TRUE]
          /\ cli' = [cli EXCEPT ![l] = IF l[2] = "serve" THEN "serving" ELSE "dialed"]
          /\ UNCHANGED net
       \/ /\ ClientReadFails(l) \/ (toCli[l] # <<>> /\ Head(toCli[l]) # Registered)
          /\ net' = [net EXCEPT ![l].cli = FALSE]
          /\ toCli' = [toCli EXCEPT ![l] = <<>>]
          /\ cli' = [cli EXCEPT ![l] = "done"]
          /\ UNCHANGED client
    /\ UNCHANGED <<target, registry, srv, toSrv, faults>>

\* The waiter is registered even on a closed client.
RequestRendezvous_NoClosedCheck(l, n) ==
    /\ cli[l] = "dialed"
    /\ cli' = [cli EXCEPT ![l] = "waiting"]
    /\ client' = [client EXCEPT ![l].ch = "empty", ![l].awaits = n]
    /\ toSrv' = [toSrv EXCEPT ![l] =
                    IF WriteReaches(l) THEN Append(@, RelayConnect(n)) ELSE @]
    /\ UNCHANGED <<target, registry, srv, net, toCli, faults>>

\* RequestRendezvous registers a waiter and writes RelayConnect; when the
\* write fails the waiter is deleted again.
RequestRendezvous(l, n) ==
    /\ cli[l] = "dialed"
    /\ \/ /\ client[l].closed
          /\ cli' = [cli EXCEPT ![l] = "closing"]
          /\ UNCHANGED <<client, toSrv>>
       \/ /\ ~ client[l].closed /\ (~ net[l].srv \/ net[l].cut)
          /\ cli' = [cli EXCEPT ![l] = "closing"]
          /\ UNCHANGED <<client, toSrv>>
       \/ /\ ~ client[l].closed
          /\ cli' = [cli EXCEPT ![l] = "waiting"]
          /\ client' = [client EXCEPT ![l].ch = "empty", ![l].awaits = n]
          /\ toSrv' = [toSrv EXCEPT ![l] =
                          IF WriteReaches(l) THEN Append(@, RelayConnect(n)) ELSE @]
    /\ UNCHANGED <<target, registry, srv, net, toCli, faults>>

\* The deferred delete(c.pending, target).
Unwaited(l) == [client EXCEPT ![l].ch = "none", ![l].awaits = NoNode]

\* The channel has a rendezvous, or was closed.
RendezvousAnswered(l) ==
    /\ cli[l] = "waiting"
    /\ client[l].ch \in {"full", "closed"}
    /\ cli' = [cli EXCEPT ![l] = IF client[l].ch = "full" THEN "punching" ELSE "closing"]
    /\ client' = Unwaited(l)
    /\ UNCHANGED <<target, registry, srv, net, toSrv, toCli, faults>>

\* punchTimeout or the caller's deadline.
RendezvousTimeout(l) ==
    /\ cli[l] = "waiting"
    /\ cli' = [cli EXCEPT ![l] = "closing"]
    /\ client' = Unwaited(l)
    /\ UNCHANGED <<target, registry, srv, net, toSrv, toCli, faults>>

\* nat.Punch returns, with or without a connection to the peer.
PunchDone(l) ==
    /\ cli[l] = "punching"
    /\ cli' = [cli EXCEPT ![l] = "closing"]
    /\ UNCHANGED <<target, registry, srv, client, net, toSrv, toCli, faults>>

\* ServePunch takes a rendezvous from Incoming and primes the NAT.
ServePunchRecv(l) ==
    /\ cli[l] = "serving"
    /\ client[l].incoming # <<>>
    /\ client' = [client EXCEPT ![l].incoming = Tail(@)]
    /\ UNCHANGED <<target, registry, srv, cli, net, toSrv, toCli, faults>>

ServePunchEnd(l) ==
    /\ cli[l] = "serving"
    /\ client[l].incoming = <<>> /\ client[l].closed
    /\ cli' = [cli EXCEPT ![l] = "closing"]
    /\ UNCHANGED <<target, registry, srv, client, net, toSrv, toCli, faults>>

\* The deferred rc.Close: the TCP connection is closed only if this call is
\* the one that closes the client.
CloseClient(l) ==
    /\ cli[l] = "closing"
    /\ cli' = [cli EXCEPT ![l] = "done"]
    /\ client' = [client EXCEPT ![l] = CloseLocked(@)]
    /\ IF client[l].closed
       THEN UNCHANGED <<net, toCli>>
       ELSE /\ net' = [net EXCEPT ![l].cli = FALSE]
            /\ toCli' = [toCli EXCEPT ![l] = <<>>]
    /\ UNCHANGED <<target, registry, srv, toSrv, faults>>

-----------------------------------------------------------------------------
(***************************************************************************)
(* Faults.                                                                 *)
(***************************************************************************)
CutLink(l) ==
    /\ faults > 0 /\ net[l].cli /\ net[l].srv /\ ~ net[l].cut
    /\ faults' = faults - 1
    /\ net' = [net EXCEPT ![l].cut = TRUE]
    /\ toSrv' = [toSrv EXCEPT ![l] = <<>>]
    /\ toCli' = [toCli EXCEPT ![l] = <<>>]
    /\ UNCHANGED <<target, registry, srv, cli, client>>

\* The relay process dies and is restarted with an empty registry.
RelayCrash ==
    /\ faults > 0
    /\ faults' = faults - 1
    /\ registry' = [n \in Node |-> NoLink]
    /\ srv' = [l \in Link |-> IF srv[l] = "none" THEN "none" ELSE "gone"]
    /\ net' = [l \in Link |-> [net[l] EXCEPT !.srv = FALSE]]
    /\ toSrv' = [l \in Link |-> <<>>]
    /\ UNCHANGED <<target, cli, client, toCli>>

\* The process of node n ends, by a signal or a crash; a later ServePunch of
\* the node is that of a new process.
NodeStop(n) ==
    LET open == {l \in Link : l[1] = n /\ cli[l] # "idle"} IN
    /\ faults > 0 /\ \E l \in open : net[l].cli
    /\ faults' = faults - 1
    /\ cli' = [l \in Link |-> IF l \in open THEN "done" ELSE cli[l]]
    /\ client' = [l \in Link |-> IF l \in open THEN [NewClient EXCEPT !.closed = TRUE]
                                               ELSE client[l]]
    /\ net' = [l \in Link |-> IF l \in open THEN [net[l] EXCEPT !.cli = FALSE] ELSE net[l]]
    /\ toCli' = [l \in Link |-> IF l \in open THEN <<>> ELSE toCli[l]]
    /\ UNCHANGED <<target, registry, srv, toSrv>>

ServerStep(l) ==
    \/ ServeRegister(l) \/ ServeConfirm(l) \/ ServeConnect(l)
    \/ PairTarget(l) \/ PairRequester(l) \/ ServeEnd(l)

ReaderStep(l) == ReadLoop(l) \/ ReadLoopEnd(l)

UserStep(l) ==
    \/ ConnectAnswered(l) \/ RendezvousAnswered(l) \/ PunchDone(l)
    \/ ServePunchRecv(l) \/ ServePunchEnd(l) \/ CloseClient(l)

Request(l) == \E n \in Node \ {l[1]} : RequestRendezvous(l, n)

Next ==
    \/ \E l \in Link : ServerStep(l) \/ ReaderStep(l) \/ UserStep(l)
    \/ \E l \in Link : ConnectRelay(l) \/ Request(l) \/ RendezvousTimeout(l)
    \/ \E l \in Link : CutLink(l)
    \/ \E n \in Node : NodeStop(n)
    \/ RelayCrash

Spec == Init /\ [][Next]_vars

\* Some goroutine of a link runs when one of them can.  Nobody has to dial,
\* timeouts and faults need not happen.
Fairness ==
    \A l \in Link : WF_vars(ServerStep(l) \/ ReaderStep(l) \/ UserStep(l))

FairSpec == Spec /\ Fairness

-----------------------------------------------------------------------------
(***************************************************************************)
(* Properties.                                                             *)
(***************************************************************************)

\* An entry of the registry belongs to its node and its Serve goroutine is
\* still running, however the node's links replace and delete each other's
\* entries: what handleConnect looks up is being read at that moment.  It may
\* have ended by the time of the push, which RequestIsAnswered is about.
RegistryIsServed ==
    \A n \in Node :
        registry[n] # NoLink => registry[n][1] = n /\ srv[registry[n]] \in InServe

\* A closed client has no pending waiter, so dispatchRendezvous never sends
\* on a closed channel and closeLocked never closes one twice; a rendezvous,
\* an error, a read failure, a timeout and Close may come in any order.
ClosedHasNoWaiter ==
    \A l \in Link : client[l].closed => ~ Pending(client[l])

\* Without any timeout, a request for a rendezvous is answered: by the
\* rendezvous, or by the closing of the waiter's channel, also when the
\* target goes away between lookup and push, or the relay crashes.  A link
\* makes one request, so "again and again nobody waits" says that no
\* request waits forever.
RequestIsAnswered == []<>(\A l \in Link : cli[l] # "waiting")

\* A link whose client closed its connection does not stay registered; a
\* link registers once, so it is enough that again and again no such entry
\* is there.
ClosedLinkLeavesRegistry ==
    []<>(\A l \in Link : cli[l] = "done" /\ ~ net[l].cli => registry[l[1]] # l)

\* "keeps the relay connection alive so that remote peers can discover this
\* node's external address" (serve.go): while ServePunch's connection is up
\* at both ends, the node is in the registry.
ServingNodeIsRegistered ==
    \A l \in Link :
        cli[l] = "serving" /\ srv[l] \in InServe /\ WriteReaches(l)
            => registry[l[1]] # NoLink

\* Close does nothing on a client that a RelayError has closed, so the link
\* may outlive its user; but then readLoop still reads it, and the relay's
\* pushes to it do not pile up.
LeftOpenIsRead ==
    \A l \in Link : cli[l] = "done" /\ WriteReaches(l) => client[l].reading
=============================================================================
