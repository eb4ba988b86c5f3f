---------------------------- MODULE RelayProofs ----------------------------
(***************************************************************************)
(* What the relay promises for any number of nodes and links, any capacity *)
(* of the incoming channel and any number of faults: registry entries are  *)
(* served, a closed client has no waiter, the variables keep their types   *)
(* and the incoming channels their bound, and an open connection is read.  *)
(***************************************************************************)
EXTENDS Relay, TLAPS

-----------------------------------------------------------------------------
(***************************************************************************)
(* The server.                                                             *)
(***************************************************************************)

\* The part of the type invariant the registry argument needs.
ServerType ==
    /\ registry \in [Node -> Link \cup {NoLink}]
    /\ srv \in [Link -> {"none", "register", "gone"} \cup InServe]
    /\ cli \in [Link -> {"idle", "registering", "serving", "dialed", "waiting",
                         "punching", "closing", "done"}]

\* A link nobody has opened has no Serve goroutine, so opening it cannot
\* disturb one that the registry names.
UnopenedIsUnserved == \A l \in Link : cli[l] = "idle" => srv[l] = "none"

ServerInv == ServerType /\ UnopenedIsUnserved /\ RegistryIsServed

\* Serve goroutines that only move between places where their entry is
\* theirs, and a registry that is left alone, preserve the invariant.
LEMMA ServeMoves ==
    ASSUME ServerInv, NEW l \in Link, NEW p \in InServe,
           srv[l] \in InServe,
           srv' = [srv EXCEPT ![l] = p],
           UNCHANGED <<registry, cli>>
    PROVE  ServerInv'
BY DEF ServerInv, ServerType, UnopenedIsUnserved, RegistryIsServed, InServe

\* A Serve goroutine that deregisters its node and ends.
LEMMA LeaveStep ==
    ASSUME ServerInv, NEW l \in Link, srv[l] # "none", Leave(l), UNCHANGED cli
    PROVE  ServerInv'
<1>1. l[1] \in Node
  BY LinkAssumption
<1>2. ServerType'
  BY <1>1 DEF ServerInv, ServerType, Leave, InServe
<1>3. UnopenedIsUnserved'
  BY DEF ServerInv, ServerType, UnopenedIsUnserved, Leave
<1>4. RegistryIsServed'
  BY <1>1 DEF ServerInv, ServerType, RegistryIsServed, Leave, InServe
<1> QED
  BY <1>2, <1>3, <1>4 DEF ServerInv

\* The client side moves between places other than idle; the server does not.
LEMMA ClientMoves ==
    ASSUME ServerInv, NEW l \in Link,
           NEW p \in {"registering", "serving", "dialed", "waiting",
                      "punching", "closing", "done"},
           cli' = [cli EXCEPT ![l] = p],
           UNCHANGED <<registry, srv>>
    PROVE  ServerInv'
BY DEF ServerInv, ServerType, UnopenedIsUnserved, RegistryIsServed, InServe

\* Every step of a Serve goroutine preserves the server's invariant.
LEMMA ServerStepInv ==
    ASSUME ServerInv, NEW l \in Link, ServerStep(l)
    PROVE  ServerInv'
<1> USE DEF InServe
<1>0. l[1] \in Node
  BY LinkAssumption
<1>1. CASE ServeRegister(l)
  <2>1. ServerType' /\ UnopenedIsUnserved'
    BY <1>0, <1>1 DEF ServeRegister, ServerInv, ServerType, UnopenedIsUnserved
  <2>2. RegistryIsServed'
    BY <1>0, <1>1 DEF ServeRegister, ServerInv, ServerType, RegistryIsServed
  <2> QED
    BY <2>1, <2>2 DEF ServerInv
<1>2. CASE ServeConfirm(l)
  <2>1. CASE Leave(l)
    BY <1>2, <2>1, LeaveStep DEF ServeConfirm
  <2>2. CASE ~ Leave(l)
    BY <1>2, <2>2, ServeMoves DEF ServeConfirm
  <2> QED
    BY <2>1, <2>2
<1>3. CASE ServeConnect(l)
  <2>1. CASE UNCHANGED srv
    BY <1>3, <2>1 DEF ServeConnect, ServerInv, ServerType, UnopenedIsUnserved, RegistryIsServed
  <2>2. CASE srv' = [srv EXCEPT ![l] = "pair"]
    BY <1>3, <2>2, ServeMoves, Zenon DEF ServeConnect
  <2> QED
    BY <1>3, <2>1, <2>2 DEF ServeConnect
<1>4. CASE PairTarget(l)
  <2>1. PICK p \in InServe : srv' = [srv EXCEPT ![l] = p]
    BY <1>4 DEF PairTarget
  <2> QED
    BY <1>4, <2>1, ServeMoves, Zenon DEF PairTarget
<1>5. CASE PairRequester(l)
  BY <1>5, ServeMoves, Zenon DEF PairRequester
<1>6. CASE ServeEnd(l)
  <2>1. CASE srv[l] = "loop"
    BY <1>6, <2>1, LeaveStep DEF ServeEnd
  <2>2. CASE srv[l] = "register"
    BY <1>6, <2>2 DEF ServeEnd, ServerInv, ServerType, UnopenedIsUnserved, RegistryIsServed
  <2> QED
    BY <1>6, <2>1, <2>2 DEF ServeEnd
<1> QED
  BY <1>1, <1>2, <1>3, <1>4, <1>5, <1>6 DEF ServerStep

\* Client goroutines, users and faults.
LEMMA OtherStepInv ==
    ASSUME ServerInv, NEW l \in Link,
           \/ ReaderStep(l) \/ UserStep(l) \/ ConnectRelay(l)
           \/ Request(l) \/ RendezvousTimeout(l) \/ CutLink(l)
    PROVE  ServerInv'
<1>1. CASE ConnectRelay(l)
  BY <1>1 DEF ConnectRelay, ServerInv, ServerType, UnopenedIsUnserved, RegistryIsServed, InServe
<1>2. CASE ReaderStep(l) \/ ServePunchRecv(l) \/ CutLink(l)
  <2>1. UNCHANGED <<registry, srv, cli>>
    BY <1>2 DEF ReaderStep, ReadLoop, ReadLoopEnd, ServePunchRecv, CutLink
  <2> QED
    BY <2>1 DEF ServerInv, ServerType, UnopenedIsUnserved, RegistryIsServed
<1>3. CASE \/ ConnectAnswered(l) \/ RendezvousAnswered(l) \/ PunchDone(l)
           \/ ServePunchEnd(l) \/ CloseClient(l) \/ Request(l) \/ RendezvousTimeout(l)
  <2>1. PICK p \in {"registering", "serving", "dialed", "waiting",
                    "punching", "closing", "done"} : cli' = [cli EXCEPT ![l] = p]
    BY SMTT(30), <1>3 DEF ConnectAnswered, RendezvousAnswered, PunchDone, ServePunchEnd, CloseClient,
                Request, RequestRendezvous, RendezvousTimeout
  <2>2. UNCHANGED <<registry, srv>>
    BY <1>3 DEF ConnectAnswered, RendezvousAnswered, PunchDone, ServePunchEnd, CloseClient,
                Request, RequestRendezvous, RendezvousTimeout
  <2> QED
    BY <2>1, <2>2, ClientMoves, ZenonT(40)
<1> QED
  BY <1>1, <1>2, <1>3 DEF UserStep

\* So do the relay's crash and a node's stop.
LEMMA FaultStepInv ==
    ASSUME ServerInv, RelayCrash \/ \E n \in Node : NodeStop(n)
    PROVE  ServerInv'
<1>1. CASE RelayCrash
  BY <1>1 DEF RelayCrash, ServerInv, ServerType, UnopenedIsUnserved, RegistryIsServed
<1>2. CASE \E n \in Node : NodeStop(n)
  BY <1>2 DEF NodeStop, ServerInv, ServerType, UnopenedIsUnserved, RegistryIsServed
<1> QED
  BY <1>1, <1>2

\* The server's invariant is inductive.
LEMMA ServerInvStep == ServerInv /\ [Next]_vars => ServerInv'
<1> SUFFICES ASSUME ServerInv, [Next]_vars PROVE ServerInv'
  OBVIOUS
<1>1. CASE UNCHANGED vars
  BY <1>1 DEF vars, ServerInv, ServerType, UnopenedIsUnserved, RegistryIsServed
<1>2. CASE \E l \in Link : ServerStep(l)
  BY <1>2, ServerStepInv
<1>3. CASE \E l \in Link : \/ ReaderStep(l) \/ UserStep(l) \/ ConnectRelay(l)
                           \/ Request(l) \/ RendezvousTimeout(l) \/ CutLink(l)
  BY <1>3, OtherStepInv
<1>4. CASE RelayCrash \/ \E n \in Node : NodeStop(n)
  BY <1>4, FaultStepInv
<1> QED
  BY <1>1, <1>2, <1>3, <1>4 DEF Next

\* Every entry of the relay's registry belongs to its node and is served by a
\* running Serve goroutine (server.go: registration, deregister, handleConnect).
THEOREM RegistryServed == Spec => []RegistryIsServed
<1>1. Init => ServerInv
  BY LinkAssumption DEF Init, ServerInv, ServerType, UnopenedIsUnserved, RegistryIsServed
<1>2. ServerInv => RegistryIsServed
  BY DEF ServerInv
<1> QED
  BY <1>1, <1>2, ServerInvStep, PTL DEF Spec

-----------------------------------------------------------------------------
(***************************************************************************)
(* The client.                                                             *)
(***************************************************************************)

\* client[l] is a Client struct.
IsClient(c) ==
    c \in [closed : {c.closed}, reading : {c.reading}, awaits : {c.awaits},
           ch : {c.ch}, incoming : {c.incoming}]

ClientType ==
    /\ client = [l \in Link |-> client[l]]
    /\ \A l \in Link : IsClient(client[l])

ClientInv == ClientType /\ ClosedHasNoWaiter

\* closeLocked leaves no waiter, whatever it found.
LEMMA CloseLockedCloses ==
    ASSUME NEW c, IsClient(c)
    PROVE  /\ IsClient(CloseLocked(c))
           /\ CloseLocked(c).closed = TRUE
           /\ ~ Pending(CloseLocked(c))
BY Zenon DEF IsClient, CloseLocked, Pending

\* A new Client struct, and that of a process that has ended, have no waiter.
LEMMA NewClientWaitsNot ==
    LET stopped == [NewClient EXCEPT !.closed = TRUE] IN
    /\ IsClient(NewClient) /\ ~ Pending(NewClient)
    /\ IsClient(stopped) /\ ~ Pending(stopped)
BY Zenon DEF IsClient, NewClient, Pending

\* dispatchRendezvous neither closes a client nor adds a waiter.
LEMMA DispatchKeeps ==
    ASSUME NEW c, NEW n, IsClient(c), c.closed => ~ Pending(c)
    PROVE  LET d == DispatchRendezvous(c, n) IN
           IsClient(d) /\ (d.closed => ~ Pending(d))
BY DEF IsClient, DispatchRendezvous, Pending

\* A step that gives one link a client without closed waiters.
LEMMA ClientChange ==
    ASSUME ClientInv, NEW l \in Link, NEW c, IsClient(c), c.closed => ~ Pending(c),
           client' = [client EXCEPT ![l] = c]
    PROVE  ClientInv'
BY DEF ClientInv, ClientType, ClosedHasNoWaiter

\* Every step that touches a Client struct preserves the client's invariant.
LEMMA ClientStepInv ==
    ASSUME ClientInv, NEW l \in Link,
           \/ ReadLoop(l) \/ ReadLoopEnd(l) \/ ConnectAnswered(l) \/ Request(l)
           \/ RendezvousAnswered(l) \/ RendezvousTimeout(l)
           \/ ServePunchRecv(l) \/ CloseClient(l)
    PROVE  ClientInv'
<1> DEFINE c == client[l]
<1>0. IsClient(c) /\ (c.closed => ~ Pending(c))
  BY DEF ClientInv, ClientType, ClosedHasNoWaiter
<1>1. CASE ReadLoop(l)
  <2> DEFINE d == client'[l]
  <2>1. client' = [client EXCEPT ![l] = d]
    BY <1>1 DEF ReadLoop, ClientInv, ClientType
  <2>2. \/ d = DispatchRendezvous(c, Head(toCli[l]).node)
        \/ d = CloseLocked(c)
        \/ d = c
    BY <1>1 DEF ReadLoop, ClientInv, ClientType
  <2>3. IsClient(d) /\ (d.closed => ~ Pending(d))
    BY <1>0, <2>2, CloseLockedCloses, DispatchKeeps, Zenon
  <2> QED
    BY <2>1, <2>3, ClientChange
<1>2. CASE ReadLoopEnd(l)
  <2> DEFINE d == [CloseLocked(c) EXCEPT !.reading = FALSE]
  <2>1. IsClient(d) /\ ~ Pending(d)
    BY <1>0, CloseLockedCloses, Zenon DEF IsClient, Pending, CloseLocked
  <2> QED
    BY <1>2, <2>1, ClientChange, Zenon DEF ReadLoopEnd
<1>3. CASE ConnectAnswered(l)
  <2>1. CASE UNCHANGED client
    BY <2>1 DEF ClientInv, ClientType, ClosedHasNoWaiter
  <2>2. CASE client' = [client EXCEPT ![l] = [c EXCEPT !.reading = TRUE]]
    BY <1>0, <2>2, ClientChange, Zenon DEF IsClient, Pending
  <2> QED
    BY <1>3, <2>1, <2>2 DEF ConnectAnswered
<1>4. CASE Request(l)
  <2>1. CASE UNCHANGED client
    BY <2>1 DEF ClientInv, ClientType, ClosedHasNoWaiter
  <2>2. CASE ~ UNCHANGED client
    <3>1. PICK n \in Node : RequestRendezvous(l, n)
      BY <1>4 DEF Request
    <3>2. /\ ~ c.closed
          /\ client' = [client EXCEPT ![l] = [c EXCEPT !.ch = "empty", !.awaits = n]]
      BY <2>2, <3>1 DEF RequestRendezvous, ClientInv, ClientType
    <3> QED
      BY <1>0, <3>2, ClientChange, Zenon DEF IsClient
  <2> QED
    BY <2>1, <2>2
<1>5. CASE RendezvousAnswered(l) \/ RendezvousTimeout(l)
  <2>1. client' = [client EXCEPT ![l] = [c EXCEPT !.ch = "none", !.awaits = NoNode]]
    BY <1>5, Zenon DEF RendezvousAnswered, RendezvousTimeout, Unwaited
  <2> QED
    BY <1>0, <2>1, ClientChange, Zenon DEF IsClient, Pending
<1>6. CASE ServePunchRecv(l)
  <2>1. client' = [client EXCEPT ![l] = [c EXCEPT !.incoming = Tail(c.incoming)]]
    BY <1>6 DEF ServePunchRecv
  <2> QED
    BY <1>0, <2>1, ClientChange, Zenon DEF IsClient, Pending
<1>7. CASE CloseClient(l)
  BY <1>0, <1>7, CloseLockedCloses, ClientChange, Zenon DEF CloseClient
<1> QED
  BY <1>1, <1>2, <1>3, <1>4, <1>5, <1>6, <1>7

\* The client's invariant is inductive.
LEMMA ClientInvStep == ClientInv /\ [Next]_vars => ClientInv'
<1> SUFFICES ASSUME ClientInv, [Next]_vars PROVE ClientInv'
  OBVIOUS
<1>1. CASE UNCHANGED client
  BY <1>1 DEF ClientInv, ClientType, ClosedHasNoWaiter
<1>2. CASE \E l \in Link :
              \/ ReadLoop(l) \/ ReadLoopEnd(l) \/ ConnectAnswered(l) \/ Request(l)
              \/ RendezvousAnswered(l) \/ RendezvousTimeout(l)
              \/ ServePunchRecv(l) \/ CloseClient(l)
  BY <1>2, ClientStepInv
<1>3. CASE \E n \in Node : NodeStop(n)
  <2> DEFINE stopped == [NewClient EXCEPT !.closed = TRUE]
  <2>1. PICK S : client' = [l \in Link |-> IF l \in S THEN stopped ELSE client[l]]
    BY <1>3, Zenon DEF NodeStop
  <2>2. IsClient(stopped) /\ ~ Pending(stopped)
    BY NewClientWaitsNot
  <2> HIDE DEF stopped
  <2>3. \A l \in Link : client'[l] = stopped \/ client'[l] = client[l]
    BY <2>1
  <2>4. \A l \in Link : IsClient(client'[l]) /\ (client'[l].closed => ~ Pending(client'[l]))
    BY <2>2, <2>3 DEF ClientInv, ClientType, ClosedHasNoWaiter
  <2>5. client' = [l \in Link |-> client'[l]]
    BY <2>1
  <2> QED
    BY <2>4, <2>5 DEF ClientInv, ClientType, ClosedHasNoWaiter
<1>4. CASE \/ UNCHANGED vars \/ RelayCrash
           \/ \E l \in Link : ServerStep(l) \/ ConnectRelay(l) \/ CutLink(l)
                               \/ PunchDone(l) \/ ServePunchEnd(l)
  <2>1. UNCHANGED client
    BY <1>4, Zenon DEF vars, RelayCrash, ServerStep, ServeRegister, ServeConfirm, ServeConnect,
                PairTarget, PairRequester, ServeEnd, ConnectRelay, CutLink, PunchDone,
                ServePunchEnd
  <2> QED
    BY <1>1, <2>1
<1> QED
  BY <1>2, <1>3, <1>4 DEF Next, ReaderStep, UserStep

\* A closed client has no pending waiter, so no channel is sent on, or closed,
\* after it was closed (client.go: dispatchRendezvous, closeLocked).
THEOREM NoWaiterOnClosed == Spec => []ClosedHasNoWaiter
<1>1. Init => ClientInv
  BY NewClientWaitsNot DEF Init, ClientInv, ClientType, ClosedHasNoWaiter
<1>2. ClientInv => ClosedHasNoWaiter
  BY DEF ClientInv
<1> QED
  BY <1>1, <1>2, ClientInvStep, PTL DEF Spec

-----------------------------------------------------------------------------
(***************************************************************************)
(* Types.                                                                  *)
(***************************************************************************)

\* Only the first message on a link is a registration: what Serve reads in its
\* loop names a node.
AskedIsNode ==
    \A l \in Link : \A i \in 1..Len(toSrv[l]) :
        (srv[l] = "register" /\ i = 1) \/ toSrv[l][i].node \in Node

\* handleConnect pairs with an entry it has found.
PairHasTarget == \A l \in Link : srv[l] \in {"pair", "reply"} => target[l] \in Link

TypeInv == TypeOK /\ AskedIsNode /\ PairHasTarget

\* A message is written to a link, or is not.
LEMMA WrittenType ==
    ASSUME NEW queues \in [Link -> Seq(ToClient)], NEW l \in Link, NEW msg \in ToClient
    PROVE  Written(queues, l, msg) \in [Link -> Seq(ToClient)]
<1>1. Append(queues[l], msg) \in Seq(ToClient)
  OBVIOUS
<1>2. [queues EXCEPT ![l] = Append(@, msg)] \in [Link -> Seq(ToClient)]
  BY <1>1
<1> QED
  BY <1>2 DEF Written

\* The messages the relay writes.
LEMMA MessageType ==
    /\ Registered \in ToClient /\ Failure \in ToClient
    /\ \A n \in Node : Rendezvous(n) \in ToClient
    /\ Register \in ToServer
    /\ \A n \in Node : RelayConnect(n) \in ToServer
BY DEF Registered, Failure, Rendezvous, Register, RelayConnect, ToClient, ToServer

\* Serve reads its next message.
LEMMA ServerReads ==
    ASSUME TypeInv, NEW l \in Link, toSrv[l] # <<>>, srv[l] \in {"register", "loop"},
           toSrv' = [toSrv EXCEPT ![l] = Tail(@)],
           NEW p \in InServe, srv' = [srv EXCEPT ![l] = p]
    PROVE  /\ srv' \in [Link -> {"none", "register", "gone"} \cup InServe]
           /\ toSrv' \in [Link -> Seq(ToServer)]
           /\ AskedIsNode'
<1>1. toSrv \in [Link -> Seq(ToServer)] /\ srv \in [Link -> {"none", "register", "gone"} \cup InServe]
  BY DEF TypeInv, TypeOK
<1>2. /\ Tail(toSrv[l]) \in Seq(ToServer)
      /\ Len(Tail(toSrv[l])) = Len(toSrv[l]) - 1
      /\ \A i \in 1..Len(Tail(toSrv[l])) : Tail(toSrv[l])[i] = toSrv[l][i + 1]
      /\ Len(toSrv[l]) \in Nat
  BY <1>1
<1>3. srv' \in [Link -> {"none", "register", "gone"} \cup InServe] /\ toSrv' \in [Link -> Seq(ToServer)]
  BY <1>1, <1>2
<1>4. ASSUME NEW m \in Link, NEW i \in 1..Len(toSrv'[m])
      PROVE  (srv'[m] = "register" /\ i = 1) \/ toSrv'[m][i].node \in Node
  <2>1. CASE m = l
    <3>1. i + 1 \in 1..Len(toSrv[l]) /\ i + 1 # 1 /\ toSrv'[m][i] = toSrv[l][i + 1]
      BY <1>1, <1>2, <2>1
    <3> QED
      BY <2>1, <3>1 DEF TypeInv, AskedIsNode
  <2>2. CASE m # l
    BY <1>1, <2>2 DEF TypeInv, AskedIsNode
  <2> QED
    BY <2>1, <2>2
<1> QED
  BY <1>3, <1>4 DEF AskedIsNode

\* Serve moves on without reading: past its registration, or with nothing to read.
LEMMA ServerMoves ==
    ASSUME TypeInv, NEW l \in Link, srv[l] # "register" \/ toSrv[l] = <<>>,
           NEW p \in InServe \cup {"gone"}, srv' = [srv EXCEPT ![l] = p], UNCHANGED toSrv
    PROVE  /\ srv' \in [Link -> {"none", "register", "gone"} \cup InServe]
           /\ AskedIsNode'
<1>1. srv' \in [Link -> {"none", "register", "gone"} \cup InServe]
  BY DEF TypeInv, TypeOK
<1>2. Len(<<>>) = 0
  OBVIOUS
<1>3. ASSUME NEW m \in Link, NEW i \in 1..Len(toSrv[m])
      PROVE  (srv'[m] = "register" /\ i = 1) \/ toSrv[m][i].node \in Node
  BY <1>2, <1>3 DEF TypeInv, TypeOK, AskedIsNode
<1> QED
  BY <1>1, <1>3 DEF AskedIsNode

NetRecord == [cli : BOOLEAN, srv : BOOLEAN, cut : BOOLEAN]

\* The relay's end of a link is closed.
LEMMA NetSrvType ==
    ASSUME NEW l \in Link, net \in [Link -> NetRecord], net' = [net EXCEPT ![l].srv = FALSE]
    PROVE  net' \in [Link -> NetRecord]
BY Zenon DEF NetRecord

\* The client's end of a link is closed.
LEMMA NetCliType ==
    ASSUME NEW l \in Link, net \in [Link -> NetRecord], net' = [net EXCEPT ![l].cli = FALSE]
    PROVE  net' \in [Link -> NetRecord]
BY Zenon DEF NetRecord

\* A Serve goroutine that deregisters its node and ends keeps the types.
LEMMA LeaveType ==
    ASSUME TypeInv, NEW l \in Link, srv[l] # "register", Leave(l),
           UNCHANGED <<target, cli, client, toSrv, toCli, faults>>
    PROVE  TypeInv'
<1>1. l[1] \in Node
  BY LinkAssumption
<1>2. /\ registry' = [registry EXCEPT ![l[1]] = NoLink]
      /\ srv' = [srv EXCEPT ![l] = "gone"]
      /\ UNCHANGED <<target, cli, client, toSrv, toCli, faults>>
  BY DEF Leave
<1>3. AskedIsNode' /\ srv' \in [Link -> {"none", "register", "gone"} \cup InServe]
  BY <1>2, "gone" \in InServe \cup {"gone"}, ServerMoves, Zenon
<1>4. net' \in [Link -> NetRecord]
  BY NetSrvType, Zenon DEF Leave, TypeInv, TypeOK, NetRecord
<1>5. TypeOK'
  BY <1>1, <1>2, <1>3, <1>4 DEF TypeInv, TypeOK, NetRecord
<1>6. PairHasTarget'
  BY <1>2 DEF TypeInv, TypeOK, PairHasTarget
<1> QED
  BY <1>3, <1>5, <1>6 DEF TypeInv

\* Every step of a Serve goroutine keeps the types.
LEMMA ServerStepType ==
    ASSUME TypeInv, NEW l \in Link, ServerStep(l)
    PROVE  TypeInv'
<1>0. l[1] \in Node /\ srv \in [Link -> {"none", "register", "gone"} \cup InServe]
  BY LinkAssumption DEF TypeInv, TypeOK
<1>1. CASE ServeRegister(l)
  <2>1. /\ srv' \in [Link -> {"none", "register", "gone"} \cup InServe]
        /\ toSrv' \in [Link -> Seq(ToServer)] /\ AskedIsNode'
    BY <1>1, ServerReads, Zenon DEF ServeRegister, InServe
  <2>2. TypeOK'
    BY <1>0, <1>1, <2>1 DEF TypeInv, TypeOK, ServeRegister
  <2>3. PairHasTarget'
    BY <1>0, <1>1 DEF TypeInv, PairHasTarget, ServeRegister
  <2> QED
    BY <2>1, <2>2, <2>3 DEF TypeInv
<1>2. CASE ServeConfirm(l)
  <2>1. CASE Leave(l) /\ UNCHANGED toCli
    BY <1>2, <2>1, LeaveType DEF ServeConfirm
  <2>2. CASE /\ toCli' = Written(toCli, l, Registered)
             /\ srv' = [srv EXCEPT ![l] = "loop"]
             /\ UNCHANGED <<registry, net>>
    <3>1. AskedIsNode' /\ srv' \in [Link -> {"none", "register", "gone"} \cup InServe]
      BY <1>2, <2>2, ServerMoves, Zenon DEF ServeConfirm, InServe
    <3>2. toCli' \in [Link -> Seq(ToClient)]
      BY <2>2, MessageType, WrittenType, Zenon DEF TypeInv, TypeOK
    <3>3. TypeOK'
      BY SMTT(30), <1>2, <2>2, <3>1, <3>2 DEF ServeConfirm, TypeInv, TypeOK
    <3>4. PairHasTarget'
      BY <1>0, <1>2, <2>2 DEF TypeInv, PairHasTarget, ServeConfirm
    <3> QED
      BY <3>1, <3>3, <3>4 DEF TypeInv
  <2> QED
    BY <1>2, <2>1, <2>2 DEF ServeConfirm
<1>3. CASE ServeConnect(l)
  <2> DEFINE n == Head(toSrv[l]).node
             t == registry[n]
  <2>1. toSrv[l] \in Seq(ToServer) /\ toSrv[l] # <<>> /\ srv[l] = "loop"
    BY <1>3 DEF ServeConnect, TypeInv, TypeOK
  <2>2. Head(toSrv[l]) = toSrv[l][1] /\ 1 \in 1..Len(toSrv[l])
    BY <2>1
  <2>3. n \in Node
    BY <2>1, <2>2 DEF TypeInv, AskedIsNode
  <2>4. t \in Link \cup {NoLink}
    BY <2>3 DEF TypeInv, TypeOK
  <2>5. CASE t = NoLink
    <3>1. srv' = [srv EXCEPT ![l] = "loop"] /\ UNCHANGED <<srv, target>>
      BY <1>0, <1>3, <2>1, <2>5 DEF ServeConnect
    <3>2. toSrv' \in [Link -> Seq(ToServer)] /\ AskedIsNode'
      BY <1>3, <3>1, ServerReads, Zenon DEF ServeConnect, InServe
    <3>3. toCli' = Written(toCli, l, Failure) /\ UNCHANGED <<registry, cli, client, net, faults>>
      BY <1>3, <2>5 DEF ServeConnect
    <3>4. toCli' \in [Link -> Seq(ToClient)]
      BY <3>3, MessageType, WrittenType, Zenon DEF TypeInv, TypeOK
    <3>5. TypeOK'
      BY <3>1, <3>2, <3>3, <3>4, Zenon DEF TypeInv, TypeOK
    <3>6. PairHasTarget'
      BY <3>1 DEF TypeInv, PairHasTarget
    <3> QED
      BY <3>2, <3>5, <3>6 DEF TypeInv
  <2>6. CASE t # NoLink
    <3>1. /\ srv' = [srv EXCEPT ![l] = "pair"] /\ target' = [target EXCEPT ![l] = t]
          /\ UNCHANGED toCli
      BY <1>3, <2>6 DEF ServeConnect
    <3> HIDE DEF t
    <3>2. /\ srv' \in [Link -> {"none", "register", "gone"} \cup InServe]
          /\ toSrv' \in [Link -> Seq(ToServer)] /\ AskedIsNode'
      BY <1>3, <3>1, ServerReads, Zenon DEF ServeConnect, InServe
    <3>3. TypeOK'
      BY SMTT(30), <1>3, <2>4, <3>1, <3>2 DEF ServeConnect, TypeInv, TypeOK
    <3>4. PairHasTarget'
      BY <1>0, <2>4, <2>6, <3>1 DEF TypeInv, TypeOK, PairHasTarget
    <3> QED
      BY <3>2, <3>3, <3>4 DEF TypeInv
  <2> QED
    BY SMTT(30), <2>5, <2>6
<1>4. CASE PairTarget(l)
  <2>1. target[l] \in Link
    BY <1>4 DEF PairTarget, TypeInv, PairHasTarget
  <2>2. PICK p \in {"loop", "reply"} : srv' = [srv EXCEPT ![l] = p]
    BY <1>4 DEF PairTarget
  <2>3. AskedIsNode' /\ srv' \in [Link -> {"none", "register", "gone"} \cup InServe]
    BY <1>4, <2>2, ServerMoves, Zenon DEF PairTarget, InServe
  <2>4. toCli' \in [Link -> Seq(ToClient)]
    <3>1. \/ toCli' = Written(toCli, target[l], Rendezvous(l[1]))
          \/ toCli' = Written(toCli, l, Failure)
      BY <1>4 DEF PairTarget
    <3>2. Rendezvous(l[1]) \in ToClient /\ Failure \in ToClient
      BY <1>0, MessageType
    <3>3. toCli \in [Link -> Seq(ToClient)]
      BY DEF TypeInv, TypeOK
    <3>4. CASE toCli' = Written(toCli, target[l], Rendezvous(l[1]))
      BY <2>1, <3>2, <3>3, <3>4, WrittenType, Zenon
    <3>5. CASE toCli' = Written(toCli, l, Failure)
      BY SMTT(30), <3>2, <3>3, <3>5, WrittenType
    <3> QED
      BY <3>1, <3>4, <3>5
  <2>5. TypeOK'
    BY <1>4, <2>3, <2>4, Zenon DEF PairTarget, TypeInv, TypeOK
  <2>6. PairHasTarget'
    BY <1>0, <1>4, <2>1, Zenon DEF PairTarget, TypeInv, TypeOK, PairHasTarget
  <2> QED
    BY <2>3, <2>5, <2>6 DEF TypeInv
<1>5. CASE PairRequester(l)
  <2>1. target[l][1] \in Node
    BY <1>5, LinkAssumption DEF PairRequester, TypeInv, PairHasTarget
  <2>2. AskedIsNode' /\ srv' \in [Link -> {"none", "register", "gone"} \cup InServe]
    BY <1>5, ServerMoves, Zenon DEF PairRequester, InServe
  <2>3. toCli' \in [Link -> Seq(ToClient)]
    BY <1>5, <2>1, MessageType, WrittenType, Zenon DEF PairRequester, TypeInv, TypeOK
  <2>4. TypeOK'
    BY <1>5, <2>2, <2>3 DEF PairRequester, TypeInv, TypeOK
  <2>5. PairHasTarget'
    BY <1>0, <1>5 DEF PairRequester, TypeInv, TypeOK, PairHasTarget
  <2> QED
    BY <2>2, <2>4, <2>5 DEF TypeInv
<1>6. CASE ServeEnd(l)
  <2>1. CASE srv[l] = "loop"
    BY <1>6, <2>1, LeaveType DEF ServeEnd
  <2>2. CASE srv[l] = "register"
    <3>1. AskedIsNode' /\ srv' \in [Link -> {"none", "register", "gone"} \cup InServe]
      BY <1>6, <2>2, ServerMoves DEF ServeEnd, ServerReadFails
    <3>2. /\ srv' = [srv EXCEPT ![l] = "gone"]
          /\ UNCHANGED <<registry, target, cli, client, toSrv, toCli, faults>>
      BY <1>6, <2>2 DEF ServeEnd
    <3>3. net' \in [Link -> NetRecord]
      BY <1>6, <2>2, NetSrvType, Zenon DEF ServeEnd, TypeInv, TypeOK, NetRecord
    <3>4. TypeOK'
      BY <3>1, <3>2, <3>3, Zenon DEF TypeInv, TypeOK, NetRecord
    <3>5. PairHasTarget'
      BY <1>0, <3>2 DEF TypeInv, PairHasTarget
    <3> QED
      BY <3>1, <3>4, <3>5 DEF TypeInv
  <2> QED
    BY <1>6, <2>1, <2>2 DEF ServeEnd
<1> QED
  BY <1>1, <1>2, <1>3, <1>4, <1>5, <1>6 DEF ServerStep

ClientRecord == [closed : BOOLEAN, reading : BOOLEAN, awaits : Node \cup {NoNode},
                 ch : {"none", "empty", "full", "closed"}, incoming : Seq(Node)]

\* A Client struct whose incoming channel holds no more than it can.
IsBounded(c) == c \in ClientRecord /\ Len(c.incoming) <= IncomingCap

\* closeLocked and dispatchRendezvous keep a client within its bounds.
LEMMA ClientOpsType ==
    ASSUME NEW c, IsBounded(c), NEW n \in Node
    PROVE  IsBounded(CloseLocked(c)) /\ IsBounded(DispatchRendezvous(c, n))
<1>0. IncomingCap \in Nat
  BY LinkAssumption
<1>1. IsBounded(CloseLocked(c))
  BY Zenon DEF IsBounded, ClientRecord, CloseLocked, Pending
<1> DEFINE d == DispatchRendezvous(c, n)
<1>2. ASSUME d = c PROVE IsBounded(d)
  BY <1>2
<1>3. ASSUME d = [c EXCEPT !.ch = "full"] PROVE IsBounded(d)
  BY <1>3 DEF IsBounded, ClientRecord
<1>4. ASSUME d = [c EXCEPT !.incoming = Append(@, n)], Len(c.incoming) # IncomingCap
      PROVE  IsBounded(d)
  <2>1. c.incoming \in Seq(Node) /\ Len(c.incoming) \in Nat /\ Len(c.incoming) <= IncomingCap
    BY DEF IsBounded, ClientRecord
  <2>2. Append(c.incoming, n) \in Seq(Node) /\ Len(Append(c.incoming, n)) <= IncomingCap
    BY <1>0, <1>4, <2>1
  <2>3. [c EXCEPT !.incoming = Append(c.incoming, n)] \in ClientRecord
    BY <2>2, Zenon DEF IsBounded, ClientRecord
  <2>4. [c EXCEPT !.incoming = Append(c.incoming, n)].incoming = Append(c.incoming, n)
    BY DEF IsBounded, ClientRecord
  <2> QED
    BY <1>4, <2>2, <2>3, <2>4 DEF IsBounded
<1>5. \/ d = c
      \/ d = [c EXCEPT !.ch = "full"]
      \/ /\ d = [c EXCEPT !.incoming = Append(@, n)]
         /\ Len(c.incoming) # IncomingCap
  BY DEF DispatchRendezvous
<1> QED
  BY <1>1, <1>2, <1>3, <1>4, <1>5

\* NewClient, and the client of a process that has ended.
LEMMA NewClientType == IsBounded(NewClient) /\ IsBounded([NewClient EXCEPT !.closed = TRUE])
<1>1. <<>> \in Seq(Node) /\ Len(<<>>) <= IncomingCap
  BY LinkAssumption
<1>2. IsBounded(NewClient)
  BY <1>1 DEF NewClient, IsBounded, ClientRecord
<1> HIDE DEF NewClient
<1>3. IsBounded([NewClient EXCEPT !.closed = TRUE])
  BY <1>2, Zenon DEF IsBounded, ClientRecord
<1> QED
  BY <1>2, <1>3

CliPlace == {"idle", "registering", "serving", "dialed", "waiting",
             "punching", "closing", "done"}

\* A step that leaves the server alone keeps the types if it keeps those of what it changes.
LEMMA ClientSideType ==
    ASSUME TypeInv,
           cli' \in [Link -> CliPlace],
           client' \in [Link -> ClientRecord], \A l \in Link : IsBounded(client'[l]),
           net' \in [Link -> NetRecord],
           toCli' \in [Link -> Seq(ToClient)],
           faults' \in 0..MaxFaults,
           UNCHANGED <<registry, srv, target, toSrv>>
    PROVE  TypeInv'
<1>1. TypeOK'
  BY SMTT(30) DEF TypeInv, TypeOK, CliPlace, ClientRecord, NetRecord, IsBounded
<1>2. AskedIsNode' /\ PairHasTarget'
  BY DEF TypeInv, AskedIsNode, PairHasTarget
<1> QED
  BY SMTT(30), <1>1, <1>2 DEF TypeInv

\* A new Client struct for one link.
LEMMA OneClientType ==
    ASSUME TypeInv, NEW l \in Link, NEW c, IsBounded(c), client' = [client EXCEPT ![l] = c]
    PROVE  client' \in [Link -> ClientRecord] /\ \A m \in Link : IsBounded(client'[m])
BY DEF TypeInv, TypeOK, IsBounded, ClientRecord

\* The types as the steps of the client use them.
LEMMA ClientTypes ==
    ASSUME TypeInv
    PROVE  /\ cli \in [Link -> CliPlace]
           /\ client \in [Link -> ClientRecord] /\ \A l \in Link : IsBounded(client[l])
           /\ net \in [Link -> NetRecord]
           /\ toCli \in [Link -> Seq(ToClient)]
           /\ faults \in 0..MaxFaults
BY DEF TypeInv, TypeOK, CliPlace, ClientRecord, NetRecord, IsBounded

\* Every step of the client's goroutine and of its user, bar the two that write to
\* the relay, keeps the types.
LEMMA ClientStepType ==
    ASSUME TypeInv, NEW l \in Link,
           ReaderStep(l) \/ UserStep(l) \/ RendezvousTimeout(l)
    PROVE  TypeInv'
<1> DEFINE c == client[l]
<1>0. /\ cli \in [Link -> CliPlace] /\ client \in [Link -> ClientRecord] /\ net \in [Link -> NetRecord]
      /\ \A m \in Link : IsBounded(client[m])
      /\ toCli \in [Link -> Seq(ToClient)] /\ faults \in 0..MaxFaults
  BY ClientTypes
<1>1. IsBounded(c)
  BY <1>0
<1>2. ASSUME toCli[l] # <<>> PROVE [toCli EXCEPT ![l] = Tail(@)] \in [Link -> Seq(ToClient)]
  BY <1>0, <1>2
<1>3. [toCli EXCEPT ![l] = <<>>] \in [Link -> Seq(ToClient)]
  BY <1>0
<1>4. CASE ReadLoop(l)
  <2> DEFINE d == client'[l]
             msg == Head(toCli[l])
  <2>1. client' = [client EXCEPT ![l] = d]
    BY <1>0, <1>4 DEF ReadLoop
  <2>2. msg \in ToClient
    BY <1>0, <1>4 DEF ReadLoop
  <2>3. \/ msg.type = "rendezvous" /\ d = DispatchRendezvous(c, msg.node)
        \/ d = CloseLocked(c)
        \/ d = c
    BY <1>0, <1>4 DEF ReadLoop
  <2>4. msg.type = "rendezvous" => msg.node \in Node
    BY <2>2 DEF ToClient
  <2>5. IsBounded(d)
    <3>1. CASE d = c
      BY <1>1, <3>1
    <3>2. CASE d = CloseLocked(c)
      BY <1>1, <3>2, Zenon DEF IsBounded, CloseLocked, ClientRecord, Pending
    <3>3. CASE msg.type = "rendezvous" /\ d = DispatchRendezvous(c, msg.node)
      BY <1>1, <2>4, <3>3, ClientOpsType
    <3> QED
      BY <2>3, <3>1, <3>2, <3>3
  <2>6. toCli' \in [Link -> Seq(ToClient)] /\ UNCHANGED <<target, registry, srv, cli, net, toSrv, faults>>
    BY <1>2, <1>4 DEF ReadLoop
  <2> QED
    BY <1>0, <2>1, <2>5, <2>6, OneClientType, ClientSideType, Zenon
<1>5. CASE ReadLoopEnd(l)
  <2> DEFINE d == [CloseLocked(c) EXCEPT !.reading = FALSE]
  <2>1. IsBounded(d)
    BY <1>1, Zenon DEF IsBounded, CloseLocked, ClientRecord, Pending
  <2>2. client' = [client EXCEPT ![l] = d] /\ UNCHANGED <<target, registry, srv, cli, net, toSrv, toCli, faults>>
    BY <1>5 DEF ReadLoopEnd
  <2> QED
    BY <1>0, <2>1, <2>2, OneClientType, ClientSideType, Zenon
<1>6. CASE ConnectAnswered(l)
  <2>1. /\ cli' \in [Link -> CliPlace]
        /\ UNCHANGED <<target, registry, srv, toSrv, faults>>
    BY <1>0, <1>6, Zenon DEF ConnectAnswered, CliPlace
  <2>2. \/ /\ toCli[l] # <<>> /\ toCli' = [toCli EXCEPT ![l] = Tail(@)]
           /\ client' = [client EXCEPT ![l].reading = TRUE] /\ UNCHANGED net
        \/ /\ toCli' = [toCli EXCEPT ![l] = <<>>]
           /\ net' = [net EXCEPT ![l].cli = FALSE] /\ UNCHANGED client
    BY <1>6 DEF ConnectAnswered
  <2>3. toCli' \in [Link -> Seq(ToClient)]
    BY <1>2, <1>3, <2>2, Zenon
  <2>4. net' \in [Link -> NetRecord]
    BY <1>0, <2>2, NetCliType, Zenon
  <2>5. client' \in [Link -> ClientRecord] /\ \A m \in Link : IsBounded(client'[m])
    <3>1. IsBounded([c EXCEPT !.reading = TRUE])
      BY <1>1, Zenon DEF IsBounded, ClientRecord
    <3> QED
      BY <1>0, <2>2, <3>1, OneClientType, Zenon
  <2> QED
    BY <1>0, <2>1, <2>3, <2>4, <2>5, ClientSideType
<1>7. CASE RendezvousAnswered(l) \/ RendezvousTimeout(l)
  <2>1. /\ cli' \in [Link -> CliPlace]
        /\ UNCHANGED <<target, registry, srv, net, toSrv, toCli, faults>>
    BY <1>0, <1>7 DEF RendezvousAnswered, RendezvousTimeout, CliPlace
  <2>2. client' = [client EXCEPT ![l] = [c EXCEPT !.ch = "none", !.awaits = NoNode]]
    BY <1>7, Zenon DEF RendezvousAnswered, RendezvousTimeout, Unwaited
  <2>3. IsBounded([c EXCEPT !.ch = "none", !.awaits = NoNode])
    BY <1>1, Zenon DEF IsBounded, ClientRecord
  <2> QED
    BY <1>0, <2>1, <2>2, <2>3, OneClientType, ClientSideType, Zenon
<1>8. CASE ServePunchRecv(l)
  <2> DEFINE d == [c EXCEPT !.incoming = Tail(c.incoming)]
  <2>1. /\ client' = [client EXCEPT ![l] = d] /\ c.incoming # <<>>
        /\ UNCHANGED <<target, registry, srv, cli, net, toSrv, toCli, faults>>
    BY <1>8 DEF ServePunchRecv
  <2>2. /\ c.incoming \in Seq(Node) /\ Len(c.incoming) <= IncomingCap /\ IncomingCap \in Nat
    BY <1>1, LinkAssumption DEF IsBounded, ClientRecord
  <2>3. Tail(c.incoming) \in Seq(Node) /\ Len(Tail(c.incoming)) <= IncomingCap
    BY <2>1, <2>2
  <2>4. IsBounded(d)
    BY <1>1, <2>3, Zenon DEF IsBounded, ClientRecord
  <2> QED
    BY <1>0, <2>1, <2>4, OneClientType, ClientSideType, Zenon
<1>9. CASE PunchDone(l) \/ ServePunchEnd(l)
  <2>1. /\ cli' \in [Link -> CliPlace]
        /\ UNCHANGED <<target, registry, srv, client, net, toSrv, toCli, faults>>
    BY SMTT(30), <1>0, <1>9 DEF PunchDone, ServePunchEnd, CliPlace
  <2> QED
    BY SMTT(30), <1>0, <2>1, ClientSideType
<1>10. CASE CloseClient(l)
  <2>1. /\ cli' \in [Link -> CliPlace]
        /\ UNCHANGED <<target, registry, srv, toSrv, faults>>
    BY <1>0, <1>10 DEF CloseClient, CliPlace
  <2>2. client' = [client EXCEPT ![l] = CloseLocked(c)]
    BY <1>10 DEF CloseClient
  <2>3. IsBounded(CloseLocked(c))
    BY <1>1, Zenon DEF IsBounded, CloseLocked, ClientRecord, Pending
  <2>4. \/ UNCHANGED <<net, toCli>>
        \/ /\ net' = [net EXCEPT ![l].cli = FALSE]
           /\ toCli' = [toCli EXCEPT ![l] = <<>>]
    BY <1>10 DEF CloseClient
  <2>5. toCli' \in [Link -> Seq(ToClient)]
    BY <1>0, <1>3, <2>4, Zenon
  <2>6. net' \in [Link -> NetRecord]
    BY <1>0, <2>4, NetCliType
  <2> QED
    BY <1>0, <2>1, <2>2, <2>3, <2>5, <2>6, OneClientType, ClientSideType, Zenon
<1> QED
  BY <1>4, <1>5, <1>6, <1>7, <1>8, <1>9, <1>10 DEF ReaderStep, UserStep

\* A message to the relay follows the registration.
LEMMA AppendAsked ==
    ASSUME TypeInv, NEW l \in Link, NEW n \in Node, UNCHANGED srv,
           toSrv' = [toSrv EXCEPT ![l] = Append(@, RelayConnect(n))]
    PROVE  toSrv' \in [Link -> Seq(ToServer)] /\ AskedIsNode'
<1> DEFINE q == Append(toSrv[l], RelayConnect(n))
<1>1. toSrv \in [Link -> Seq(ToServer)] /\ RelayConnect(n) \in ToServer /\ RelayConnect(n).node \in Node
  BY MessageType DEF TypeInv, TypeOK, RelayConnect
<1>2. /\ q \in Seq(ToServer) /\ Len(toSrv[l]) \in Nat /\ Len(q) = Len(toSrv[l]) + 1
      /\ \A i \in 1..Len(toSrv[l]) : q[i] = toSrv[l][i]
      /\ q[Len(toSrv[l]) + 1] = RelayConnect(n)
  BY <1>1
<1> HIDE DEF q
<1>3. toSrv' = [toSrv EXCEPT ![l] = q]
  BY DEF q
<1>4. ASSUME NEW m \in Link, NEW i \in 1..Len(toSrv'[m])
      PROVE  (srv'[m] = "register" /\ i = 1) \/ toSrv'[m][i].node \in Node
  <2>1. CASE m # l
    BY <1>1, <1>3, <2>1 DEF TypeInv, AskedIsNode
  <2>2. CASE m = l /\ i = Len(toSrv[l]) + 1
    BY <1>1, <1>2, <1>3, <2>2
  <2>3. CASE m = l /\ i # Len(toSrv[l]) + 1
    <3>1. i \in 1..Len(toSrv[l]) /\ toSrv'[m][i] = toSrv[l][i]
      BY <1>1, <1>2, <1>3, <2>3
    <3> QED
      BY <2>3, <3>1 DEF TypeInv, AskedIsNode
  <2> QED
    BY <2>1, <2>2, <2>3
<1>5. toSrv' \in [Link -> Seq(ToServer)]
  BY <1>1, <1>2, <1>3
<1> QED
  BY <1>4, <1>5 DEF AskedIsNode

\* The steps that dial the relay and ask it for a rendezvous keep the types.
LEMMA AskStepType ==
    ASSUME TypeInv, NEW l \in Link, ConnectRelay(l) \/ Request(l)
    PROVE  TypeInv'
<1>0. /\ cli \in [Link -> CliPlace] /\ client \in [Link -> ClientRecord] /\ net \in [Link -> NetRecord]
      /\ \A m \in Link : IsBounded(client[m])
      /\ toCli \in [Link -> Seq(ToClient)] /\ faults \in 0..MaxFaults
      /\ toSrv \in [Link -> Seq(ToServer)]
      /\ srv \in [Link -> {"none", "register", "gone"} \cup InServe]
  BY ClientTypes DEF TypeInv, TypeOK
<1>1. CASE ConnectRelay(l)
  <2>1. /\ cli' = [cli EXCEPT ![l] = "registering"]
        /\ srv' = [srv EXCEPT ![l] = "register"]
        /\ toSrv' = [toSrv EXCEPT ![l] = <<Register>>]
        /\ UNCHANGED <<target, registry, client, toCli, faults>>
    BY <1>1 DEF ConnectRelay
  <2>2. net' \in [Link -> NetRecord]
    BY <1>0, <1>1, ZenonT(40) DEF ConnectRelay, NetRecord
  <2>3. <<Register>> \in Seq(ToServer) /\ Len(<<Register>>) = 1
    BY MessageType
  <2>4. AskedIsNode'
    <3>1. ASSUME NEW m \in Link, NEW i \in 1..Len(toSrv'[m])
          PROVE  (srv'[m] = "register" /\ i = 1) \/ toSrv'[m][i].node \in Node
      BY <1>0, <2>1, <2>3 DEF TypeInv, AskedIsNode
    <3> QED
      BY <3>1 DEF AskedIsNode
  <2>5. PairHasTarget'
    BY <1>0, <2>1 DEF TypeInv, PairHasTarget
  <2>6. TypeOK'
    BY <1>0, <2>1, <2>2, <2>3, Zenon DEF TypeInv, TypeOK, CliPlace, NetRecord
  <2> QED
    BY <2>4, <2>5, <2>6 DEF TypeInv
<1>2. CASE Request(l)
  <2>1. PICK n \in Node : RequestRendezvous(l, n)
    BY <1>2 DEF Request
  <2>2. cli' \in [Link -> CliPlace] /\ UNCHANGED <<target, registry, srv, net, toCli, faults>>
    BY <1>0, <2>1, Zenon DEF RequestRendezvous, CliPlace
  <2>3. client' \in [Link -> ClientRecord] /\ \A m \in Link : IsBounded(client'[m])
    <3> DEFINE d == [client[l] EXCEPT !.ch = "empty", !.awaits = n]
    <3>1. UNCHANGED client \/ client' = [client EXCEPT ![l] = d]
      BY <2>1, Zenon DEF RequestRendezvous
    <3>2. IsBounded(client[l])
      BY <1>0
    <3>3. IsBounded(d)
      BY <3>2, Zenon DEF IsBounded, ClientRecord
    <3> QED
      BY <1>0, <3>1, <3>3, OneClientType
  <2>4. CASE UNCHANGED toSrv
    BY <1>0, <2>2, <2>3, <2>4, ClientSideType
  <2>5. CASE toSrv' = [toSrv EXCEPT ![l] = Append(@, RelayConnect(n))]
    <3>1. toSrv' \in [Link -> Seq(ToServer)] /\ AskedIsNode'
      BY <2>2, <2>5, AppendAsked, ZenonT(40)
    <3>2. TypeOK'
      BY SMTT(30), <2>2, <2>3, <3>1 DEF TypeInv, TypeOK, CliPlace, ClientRecord, IsBounded
    <3>3. PairHasTarget'
      BY <2>2 DEF TypeInv, PairHasTarget
    <3> QED
      BY <3>1, <3>2, <3>3 DEF TypeInv
  <2>6. UNCHANGED toSrv \/ toSrv' = [toSrv EXCEPT ![l] = Append(@, RelayConnect(n))]
    BY <1>0, <2>1 DEF RequestRendezvous
  <2> QED
    BY <2>4, <2>5, <2>6
<1> QED
  BY SMTT(30), <1>1, <1>2

\* Cut links, the relay's crash and a node's stop keep the types.
LEMMA FaultStepType ==
    ASSUME TypeInv,
           \/ \E l \in Link : CutLink(l)
           \/ RelayCrash
           \/ \E n \in Node : NodeStop(n)
    PROVE  TypeInv'
<1>0. /\ cli \in [Link -> CliPlace] /\ client \in [Link -> ClientRecord] /\ net \in [Link -> NetRecord]
      /\ \A m \in Link : IsBounded(client[m])
      /\ toCli \in [Link -> Seq(ToClient)] /\ faults \in 0..MaxFaults
      /\ toSrv \in [Link -> Seq(ToServer)]
      /\ srv \in [Link -> {"none", "register", "gone"} \cup InServe]
  BY ClientTypes DEF TypeInv, TypeOK
<1>1. /\ faults' = faults - 1 /\ faults > 0
  BY SMTT(30) DEF CutLink, RelayCrash, NodeStop
<1>2. faults' \in 0..MaxFaults
  BY <1>0, <1>1, LinkAssumption
<1>3. Len(<<>>) = 0 /\ <<>> \in Seq(ToServer) /\ <<>> \in Seq(ToClient)
  OBVIOUS
<1>4. CASE \E l \in Link : CutLink(l)
  <2>1. PICK l \in Link : CutLink(l)
    BY <1>4
  <2>2. /\ toSrv' = [toSrv EXCEPT ![l] = <<>>] /\ toCli' = [toCli EXCEPT ![l] = <<>>]
        /\ UNCHANGED <<target, registry, srv, cli, client>>
    BY <2>1 DEF CutLink
  <2>3. net' \in [Link -> NetRecord]
    BY <1>0, <2>1, Zenon DEF CutLink, NetRecord
  <2>4. TypeOK'
    BY <1>0, <1>2, <1>3, <2>2, <2>3, Zenon DEF TypeInv, TypeOK, NetRecord
  <2>5. AskedIsNode'
    BY <1>0, <1>3, <2>2 DEF TypeInv, AskedIsNode
  <2>6. PairHasTarget'
    BY <2>2 DEF TypeInv, PairHasTarget
  <2> QED
    BY <2>4, <2>5, <2>6 DEF TypeInv
<1>5. CASE RelayCrash
  <2>1. /\ registry' = [n \in Node |-> NoLink]
        /\ srv' = [l \in Link |-> IF srv[l] = "none" THEN "none" ELSE "gone"]
        /\ toSrv' = [l \in Link |-> <<>>]
        /\ UNCHANGED <<target, cli, client, toCli>>
    BY <1>5 DEF RelayCrash
  <2>2. net' \in [Link -> NetRecord]
    BY <1>0, <1>5, Zenon DEF RelayCrash, NetRecord
  <2>3. TypeOK'
    BY <1>0, <1>2, <1>3, <2>1, <2>2 DEF TypeInv, TypeOK, NetRecord
  <2>4. AskedIsNode' /\ PairHasTarget'
    BY <1>3, <2>1 DEF AskedIsNode, PairHasTarget
  <2> QED
    BY <2>3, <2>4 DEF TypeInv
<1>6. CASE \E n \in Node : NodeStop(n)
  <2> DEFINE stopped == [NewClient EXCEPT !.closed = TRUE]
  <2>1. PICK n \in Node : NodeStop(n)
    BY <1>6
  <2> DEFINE open == {l \in Link : l[1] = n /\ cli[l] # "idle"}
  <2>2. /\ cli' = [l \in Link |-> IF l \in open THEN "done" ELSE cli[l]]
        /\ client' = [l \in Link |-> IF l \in open THEN stopped ELSE client[l]]
        /\ net' = [l \in Link |-> IF l \in open THEN [net[l] EXCEPT !.cli = FALSE] ELSE net[l]]
        /\ toCli' = [l \in Link |-> IF l \in open THEN <<>> ELSE toCli[l]]
        /\ UNCHANGED <<target, registry, srv, toSrv>>
    BY <2>1 DEF NodeStop
  <2>3. IsBounded(stopped)
    BY NewClientType
  <2> HIDE DEF stopped, open
  <2>4. cli' \in [Link -> CliPlace] /\ toCli' \in [Link -> Seq(ToClient)]
    BY <1>0, <1>3, <2>2 DEF CliPlace
  <2>5. net' \in [Link -> NetRecord]
    BY <1>0, <2>2, Zenon DEF NetRecord
  <2>6. client' \in [Link -> ClientRecord] /\ \A l \in Link : IsBounded(client'[l])
    BY <1>0, <2>2, <2>3 DEF IsBounded
  <2> QED
    BY <1>2, <2>2, <2>4, <2>5, <2>6, ClientSideType
<1> QED
  BY SMTT(30), <1>4, <1>5, <1>6

\* The types and what they rest on hold throughout.
LEMMA TypeInvariant == Spec => []TypeInv
<1>1. Init => TypeInv
  <2> SUFFICES ASSUME Init PROVE TypeInv
    OBVIOUS
  <2>1. <<>> \in Seq(ToServer) /\ <<>> \in Seq(ToClient) /\ Len(<<>>) = 0
    OBVIOUS
  <2>2. IsBounded(NewClient)
    BY SMTT(30), NewClientType
  <2>3. TypeOK
    BY <2>1, <2>2, LinkAssumption DEF Init, TypeOK, IsBounded, ClientRecord
  <2>4. AskedIsNode /\ PairHasTarget
    BY <2>1 DEF Init, AskedIsNode, PairHasTarget
  <2> QED
    BY <2>3, <2>4 DEF TypeInv
<1>2. TypeInv /\ [Next]_vars => TypeInv'
  <2> SUFFICES ASSUME TypeInv, [Next]_vars PROVE TypeInv'
    OBVIOUS
  <2>1. CASE UNCHANGED vars
    BY <2>1, Zenon DEF vars, TypeInv, TypeOK, AskedIsNode, PairHasTarget
  <2>2. CASE Next
    BY <2>2, ServerStepType, ClientStepType, AskStepType, FaultStepType DEF Next
  <2> QED
    BY <2>1, <2>2
<1> QED
  BY <1>1, <1>2, PTL DEF Spec

\* The relay's variables keep their types, and the incoming channels their bound,
\* whatever the links do (server.go, client.go).
THEOREM TypeCorrect == Spec => []TypeOK
<1>1. TypeInv => TypeOK
  BY DEF TypeInv
<1> QED
  BY <1>1, TypeInvariant, PTL

-----------------------------------------------------------------------------
(***************************************************************************)
(* A connection that is still open is read.                                *)
(***************************************************************************)

\* Once Connect has returned, an open connection has a reader, whatever its
\* user is doing: not only when the user is done with it.
OpenIsRead ==
    \A l \in Link : cli[l] \notin {"idle", "registering"} /\ WriteReaches(l) => client[l].reading

\* What link m does when a step neither opens it nor ends its reader.
Settled(m) ==
    /\ net[m]'.cli => net[m].cli
    /\ net[m]'.srv => net[m].srv
    /\ net[m].cut => net[m]'.cut
    /\ client[m].reading => client[m]'.reading
    /\ cli[m]' \notin {"idle", "registering"} => cli[m] \notin {"idle", "registering"}

\* A link a step leaves alone is settled.
LEMMA UntouchedIsSettled ==
    ASSUME NEW m \in Link, net[m]' = net[m], client[m]' = client[m], cli[m]' = cli[m]
    PROVE  Settled(m)
BY DEF Settled

\* closeLocked does not end the reader.
LEMMA CloseKeepsReading ==
    ASSUME NEW c, IsBounded(c)
    PROVE  CloseLocked(c).reading = c.reading
BY DEF IsBounded, CloseLocked, ClientRecord

\* Neither does dispatchRendezvous.
LEMMA DispatchKeepsReading ==
    ASSUME NEW c, IsBounded(c), NEW n
    PROVE  DispatchRendezvous(c, n).reading = c.reading
BY DEF IsBounded, DispatchRendezvous, ClientRecord

\* A step in which every link is settled, or registering, or has lost its
\* connection, or is read, keeps open links read.
LEMMA SettledKeeps ==
    ASSUME OpenIsRead,
           \A m \in Link : \/ Settled(m)
                           \/ cli[m]' \in {"idle", "registering"}
                           \/ ~ net[m]'.cli
                           \/ ~ net[m]'.srv
                           \/ net[m]'.cut
                           \/ client[m]'.reading
    PROVE  OpenIsRead'
BY SMTT(30) DEF OpenIsRead, Settled, WriteReaches

\* The steps of the server close its side of a connection at most.
LEMMA ServerKeepsRead ==
    ASSUME TypeInv, OpenIsRead, NEW l \in Link, ServerStep(l)
    PROVE  OpenIsRead'
<1>1. net \in [Link -> NetRecord]
  BY DEF TypeInv, TypeOK, NetRecord
<1>2. UNCHANGED <<cli, client>>
  BY DEF ServerStep, ServeRegister, ServeConfirm, Leave, ServeConnect, PairTarget,
         PairRequester, ServeEnd
<1>3. UNCHANGED net \/ net' = [net EXCEPT ![l].srv = FALSE]
  BY DEF ServerStep, ServeRegister, ServeConfirm, Leave, ServeConnect, PairTarget,
         PairRequester, ServeEnd
<1>4. CASE UNCHANGED net
  BY SMTT(30), <1>2, <1>4, SettledKeeps, UntouchedIsSettled
<1>5. CASE net' = [net EXCEPT ![l].srv = FALSE]
  <2>1. \A m \in Link : m # l => net[m]' = net[m]
    BY <1>1, <1>5
  <2>2. ~ net[l]'.srv
    BY <1>1, <1>5, Zenon DEF NetRecord
  <2> QED
    BY <1>2, <2>1, <2>2, SettledKeeps, UntouchedIsSettled
<1> QED
  BY <1>3, <1>4, <1>5

\* A step of link l alone that leaves its connection as it is and its reader
\* running.
LEMMA ClientKeepsRead ==
    ASSUME TypeInv, OpenIsRead, NEW l \in Link, NEW d, NEW p,
           client' = [client EXCEPT ![l] = d], d.reading = client[l].reading,
           cli' = [cli EXCEPT ![l] = p], cli[l] \notin {"idle", "registering"},
           UNCHANGED net
    PROVE  OpenIsRead'
<1>1. client \in [Link -> ClientRecord] /\ cli \in [Link -> CliPlace]
  BY DEF TypeInv, TypeOK, ClientRecord, CliPlace
<1>2. \A m \in Link : m # l => client[m]' = client[m] /\ cli[m]' = cli[m]
  BY <1>1
<1>3. client[l]' = d
  BY <1>1
<1>4. Settled(l)
  BY <1>3 DEF Settled
<1> QED
  BY SMTT(30), <1>2, <1>4, SettledKeeps, UntouchedIsSettled

\* The reader stops only on a connection that no write reaches.
LEMMA ReaderKeepsRead ==
    ASSUME TypeInv, OpenIsRead, NEW l \in Link, ReaderStep(l)
    PROVE  OpenIsRead'
<1>0. /\ client \in [Link -> ClientRecord] /\ cli \in [Link -> CliPlace]
      /\ net \in [Link -> NetRecord] /\ toCli \in [Link -> Seq(ToClient)]
      /\ IsBounded(client[l])
  BY SMTT(30), ClientTypes DEF TypeInv, TypeOK
<1>1. CASE ReadLoop(l)
  <2> DEFINE msg == Head(toCli[l])
             d == CASE msg.type = "rendezvous" -> DispatchRendezvous(client[l], msg.node)
                    [] msg.type = "error"      -> CloseLocked(client[l])
                    [] OTHER                   -> client[l]
  <2>1. client' = [client EXCEPT ![l] = d] /\ UNCHANGED <<cli, net>> /\ toCli[l] # <<>>
    BY <1>1 DEF ReadLoop
  <2>4. d.reading = client[l].reading
    <3> HIDE DEF msg
    <3>1. CASE msg.type = "rendezvous"
      BY <1>0, <3>1, DispatchKeepsReading
    <3>2. CASE msg.type = "error"
      BY <1>0, <3>2, CloseKeepsReading
    <3>3. CASE msg.type \notin {"rendezvous", "error"}
      BY <3>3
    <3> QED
      BY <3>1, <3>2, <3>3
  <2> HIDE DEF d
  <2>5. \A m \in Link : m # l => client[m]' = client[m]
    BY <1>0, <2>1
  <2>6. Settled(l)
    BY <1>0, <2>1, <2>4 DEF Settled
  <2> QED
    BY <2>1, <2>5, <2>6, SettledKeeps, UntouchedIsSettled
<1>2. CASE ReadLoopEnd(l)
  <2>1. UNCHANGED <<cli, net>> /\ (~ net[l].cli \/ ~ net[l].srv \/ net[l].cut)
    BY <1>2 DEF ReadLoopEnd, ClientReadFails
  <2>2. \A m \in Link : m # l => client[m]' = client[m]
    BY <1>0, <1>2 DEF ReadLoopEnd
  <2> QED
    BY <2>1, <2>2, SettledKeeps, UntouchedIsSettled
<1> QED
  BY SMTT(30), <1>1, <1>2 DEF ReaderStep

\* The users of the client: a connection is read once Connect has returned it,
\* and is closed when Connect fails.
LEMMA UserKeepsRead ==
    ASSUME TypeInv, OpenIsRead, NEW l \in Link,
           UserStep(l) \/ ConnectRelay(l) \/ Request(l) \/ RendezvousTimeout(l)
    PROVE  OpenIsRead'
<1>0. /\ client \in [Link -> ClientRecord] /\ cli \in [Link -> CliPlace]
      /\ net \in [Link -> NetRecord] /\ IsBounded(client[l])
  BY SMTT(30), ClientTypes DEF TypeInv, TypeOK
<1>1. CASE ConnectAnswered(l)
  <2>1. \A m \in Link : m # l => client[m]' = client[m] /\ cli[m]' = cli[m] /\ net[m]' = net[m]
    BY <1>0, <1>1 DEF ConnectAnswered
  <2>2. client[l]'.reading \/ ~ net[l]'.cli
    <3>1. CASE client' = [client EXCEPT ![l].reading = TRUE]
      BY <1>0, <3>1, Zenon DEF ClientRecord
    <3>2. CASE net' = [net EXCEPT ![l].cli = FALSE]
      BY <1>0, <3>2, Zenon DEF NetRecord
    <3> QED
      BY <1>1, <3>1, <3>2 DEF ConnectAnswered
  <2> QED
    BY <2>1, <2>2, SettledKeeps, UntouchedIsSettled
<1>2. CASE RendezvousAnswered(l) \/ RendezvousTimeout(l)
  <2> DEFINE d == [client[l] EXCEPT !.ch = "none", !.awaits = NoNode]
  <2>1. /\ client' = [client EXCEPT ![l] = d] /\ UNCHANGED net
        /\ cli[l] = "waiting" /\ \E p : cli' = [cli EXCEPT ![l] = p]
    BY <1>2, Zenon DEF RendezvousAnswered, RendezvousTimeout, Unwaited
  <2>2. d.reading = client[l].reading
    BY <1>0 DEF ClientRecord
  <2> HIDE DEF d
  <2> QED
    BY <2>1, <2>2, ClientKeepsRead, Zenon
<1>3. CASE PunchDone(l) \/ ServePunchEnd(l)
  <2>1. /\ UNCHANGED <<client, net>> /\ cli[l] \in {"punching", "serving"}
        /\ \E p : cli' = [cli EXCEPT ![l] = p]
    BY <1>3 DEF PunchDone, ServePunchEnd
  <2>2. client' = [client EXCEPT ![l] = client[l]]
    BY <1>0, <2>1
  <2> QED
    BY <2>1, <2>2, ClientKeepsRead, Zenon
<1>4. CASE ServePunchRecv(l)
  <2> DEFINE d == [client[l] EXCEPT !.incoming = Tail(@)]
  <2>1. client' = [client EXCEPT ![l] = d] /\ UNCHANGED <<net, cli>> /\ cli[l] = "serving"
    BY <1>4 DEF ServePunchRecv
  <2>2. d.reading = client[l].reading
    BY <1>0 DEF ClientRecord
  <2>3. cli' = [cli EXCEPT ![l] = cli[l]]
    BY <1>0, <2>1
  <2> HIDE DEF d
  <2> QED
    BY <2>1, <2>2, <2>3, ClientKeepsRead, Zenon
<1>5. CASE CloseClient(l)
  <2> DEFINE d == CloseLocked(client[l])
  <2>1. /\ client' = [client EXCEPT ![l] = d] /\ cli' = [cli EXCEPT ![l] = "done"]
        /\ cli[l] = "closing"
        /\ UNCHANGED net \/ net' = [net EXCEPT ![l].cli = FALSE]
    BY <1>5 DEF CloseClient
  <2>3. d.reading = client[l].reading
    BY <1>0, CloseKeepsReading
  <2> HIDE DEF d
  <2>4. CASE UNCHANGED net
    BY <2>1, <2>3, <2>4, ClientKeepsRead, Zenon
  <2>5. CASE net' = [net EXCEPT ![l].cli = FALSE]
    <3>1. \A m \in Link : m # l => client[m]' = client[m] /\ cli[m]' = cli[m] /\ net[m]' = net[m]
      BY <1>0, <2>1, <2>5
    <3>2. ~ net[l]'.cli
      BY <1>0, <2>5, Zenon DEF NetRecord
    <3> QED
      BY <3>1, <3>2, SettledKeeps, UntouchedIsSettled
  <2> QED
    BY <2>1, <2>4, <2>5
<1>6. CASE ConnectRelay(l)
  <2>1. \A m \in Link : m # l => client[m]' = client[m] /\ cli[m]' = cli[m] /\ net[m]' = net[m]
    BY <1>0, <1>6 DEF ConnectRelay
  <2>2. cli[l]' = "registering"
    BY <1>0, <1>6 DEF ConnectRelay
  <2> QED
    BY <2>1, <2>2, SettledKeeps, UntouchedIsSettled
<1>7. CASE Request(l)
  <2>1. PICK n \in Node : RequestRendezvous(l, n)
    BY <1>7 DEF Request
  <2> DEFINE d == [client[l] EXCEPT !.ch = "empty", !.awaits = n]
  <2>2. /\ UNCHANGED client \/ client' = [client EXCEPT ![l] = d]
        /\ UNCHANGED net /\ cli[l] = "dialed"
        /\ \E p : cli' = [cli EXCEPT ![l] = p]
    BY <2>1, Zenon DEF RequestRendezvous
  <2>3. d.reading = client[l].reading
    BY <1>0 DEF ClientRecord
  <2>4. UNCHANGED client => client' = [client EXCEPT ![l] = client[l]]
    BY <1>0
  <2> HIDE DEF d
  <2> QED
    BY <2>2, <2>3, <2>4, ClientKeepsRead, Zenon
<1> QED
  BY SMTT(30), <1>1, <1>2, <1>3, <1>4, <1>5, <1>6, <1>7 DEF UserStep

\* A connection the client has not closed is read by its readLoop, also after
\* Close has found the client closed and left the connection open (client.go).
THEOREM LeftOpenRead == Spec => []LeftOpenIsRead
<1>1. Init => OpenIsRead
  BY DEF Init, OpenIsRead
<1>2. TypeInv /\ OpenIsRead /\ [Next]_vars => OpenIsRead'
  <2> SUFFICES ASSUME TypeInv, OpenIsRead, [Next]_vars PROVE OpenIsRead'
    BY SMTT(30)
  <2>0. /\ client \in [Link -> ClientRecord] /\ net \in [Link -> NetRecord]
        /\ cli \in [Link -> CliPlace]
    BY SMTT(30), ClientTypes DEF TypeInv, TypeOK
  <2>1. CASE UNCHANGED vars
    BY <2>1, SettledKeeps, UntouchedIsSettled DEF vars
  <2>2. ASSUME NEW l \in Link, CutLink(l) PROVE OpenIsRead'
    <3>1. UNCHANGED <<client, cli>> /\ \A m \in Link : m # l => net[m]' = net[m]
      BY <2>0, <2>2 DEF CutLink
    <3>2. net[l]'.cut
      BY <2>0, <2>2, Zenon DEF CutLink, NetRecord
    <3> QED
      BY <3>1, <3>2, SettledKeeps, UntouchedIsSettled
  <2>3. ASSUME RelayCrash PROVE OpenIsRead'
    <3>1. \A m \in Link : ~ net[m]'.srv
      BY <2>0, <2>3 DEF RelayCrash, NetRecord
    <3> QED
      BY <3>1, SettledKeeps
  <2>4. ASSUME NEW n \in Node, NodeStop(n) PROVE OpenIsRead'
    <3> DEFINE open == {l \in Link : l[1] = n /\ cli[l] # "idle"}
    <3>1. \A m \in Link \ open : client[m]' = client[m] /\ cli[m]' = cli[m] /\ net[m]' = net[m]
      BY <2>4 DEF NodeStop
    <3>2. \A m \in open : ~ net[m]'.cli
      BY <2>0, <2>4 DEF NodeStop, NetRecord
    <3> HIDE DEF open
    <3> QED
      BY <3>1, <3>2, SettledKeeps, UntouchedIsSettled
  <2>5. CASE Next
    BY <2>2, <2>3, <2>4, <2>5, ServerKeepsRead, ReaderKeepsRead, UserKeepsRead DEF Next
  <2> QED
    BY <2>1, <2>5
<1>3. OpenIsRead => LeftOpenIsRead
  BY DEF OpenIsRead, LeftOpenIsRead
<1> QED
  BY <1>1, <1>2, <1>3, TypeInvariant, PTL DEF Spec
=============================================================================
