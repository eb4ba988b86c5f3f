-------------------------- MODULE CatalogSyncProofs --------------------------
(***************************************************************************)
(* What the catalog exchange keeps for any number of nodes, connections    *)
(* and watcher goroutines and any number of changes and faults: its types, *)
(* a table of connections that names served ones only, and databases that  *)
(* are written by the transactions of CatalogStore alone.  Of two nodes:   *)
(* a linked peer's view is current once nothing is in flight, unless two   *)
(* lists for it raced.                                                     *)
(***************************************************************************)
EXTENDS CatalogSync, TLAPS

WorkRecord == [at : {"idle", "snapshot", "list", "send"}, todo : SUBSET Conn,
               conn : Conn \cup {NoConn}, files : SUBSET File]

ServePlace == {"unborn", "register", "done"} \cup Serving

-----------------------------------------------------------------------------
(***************************************************************************)
(* Facts about ends, stores and workers.                                   *)
(***************************************************************************)

\* An end is a connection with one of its two nodes, and its peer is the other.
LEMMA EndFacts ==
    ASSUME NEW e \in End
    PROVE  /\ e = <<e[1], e[2]>> /\ e[1] \in Conn /\ e[2] \in Node
           /\ Peer(e) \in Node /\ Peer(e) # e[2] /\ Other(e) \in End
<1>1. PICK c \in Conn : e = <<c, c[1]>> \/ e = <<c, c[2]>>
  BY DEF End
<1>2. c[1] \in Node /\ c[2] \in Node /\ c[1] # c[2]
  BY ConnAssumption
<1>3. /\ e = <<e[1], e[2]>> /\ e[1] = c /\ e[2] \in Node
      /\ Peer(e) \in Node /\ Peer(e) # e[2]
  BY <1>1, <1>2 DEF Peer
<1>4. Other(e) = <<c, c[1]>> \/ Other(e) = <<c, c[2]>>
  BY <1>1, <1>2 DEF Other, Peer
<1>5. Other(e) \in End
  BY <1>4 DEF End
<1> QED
  BY <1>3, <1>5

\* PutLocal takes a store to a store.
LEMMA PutLocalType ==
    ASSUME NEW s \in Store, NEW n \in Node, NEW f \in File, NEW p \in Path
    PROVE  PutLocal(s, n, f, p) \in Store
  BY DEF PutLocal, AddAvailability, Store, Entry, EntryState

\* So does DeleteLocal.
LEMMA DeleteLocalType ==
    ASSUME NEW s \in Store, NEW n \in Node, NEW f \in File
    PROVE  DeleteLocal(s, n, f) \in Store
  BY DEF DeleteLocal, RemoveAvailability, Store, Entry, EntryState

\* So does PutPeerEntries.
LEMMA PutPeerEntriesType ==
    ASSUME NEW s \in Store, NEW n \in Node, NEW o \in Offer
    PROVE  PutPeerEntries(s, n, o) \in Store
  BY DEF PutPeerEntries, Store, Entry, EntryState, Offer

\* A received list is an offer.
LEMMA OfferedType == \A files : OfferedRows(files) \in Offer
  BY DEF OfferedRows, Offer, EntryState

\* A list is a set of files.
LEMMA ListType == \A s, n : ListForPeer(s, n) \in SUBSET File
  BY DEF ListForPeer, ListByOwner

\* A fault is taken from a budget that has one left.
LEMMA FaultType ==
    ASSUME NEW b \in [changes : 0..MaxChanges, faults : 0..MaxFaults], b.faults > 0
    PROVE  [b EXCEPT !.faults = @ - 1] \in [changes : 0..MaxChanges, faults : 0..MaxFaults]
<1>1. b.faults - 1 \in 0..MaxFaults
  BY BoundsAssumption
<1> QED
  BY <1>1

\* Looping workers.
LEMMA LoopingType == \A todo \in SUBSET Conn : Looping(todo) \in WorkRecord
  BY DEF Looping, WorkRecord

\* Changing one worker's record keeps the types.
LEMMA WorkType ==
    ASSUME NEW n \in Node, NEW w \in Worker, NEW r \in WorkRecord,
           work \in [Node -> [Worker -> WorkRecord]],
           work' = [work EXCEPT ![n][w] = r]
    PROVE  work' \in [Node -> [Worker -> WorkRecord]]
OBVIOUS

\* Conn.Send appends a list to one inbox or to none.
LEMMA SentType ==
    ASSUME inbox \in [End -> Seq(SUBSET File)], NEW e, NEW files \in SUBSET File
    PROVE  Sent(e, files) \in [End -> Seq(SUBSET File)]
<1>1. \A d \in End : Append(inbox[d], files) \in Seq(SUBSET File)
  OBVIOUS
<1> QED
  BY <1>1, Zenon DEF Sent

-----------------------------------------------------------------------------
(***************************************************************************)
(* Types.                                                                  *)
(***************************************************************************)

\* The steps of a Serve goroutine keep the types.
LEMMA ServeStepType ==
    ASSUME TypeOK, NEW e \in End, ServeStep(e)
    PROVE  TypeOK'
<1>0. /\ store \in [Node -> Store] /\ inbox \in [End -> Seq(SUBSET File)]
      /\ offer \in [End -> SUBSET File]
      /\ conns \in [Node -> [Node -> Conn \cup {NoConn}]]
      /\ raced \in [Node -> [Node -> BOOLEAN]]
      /\ serve \in [End -> ServePlace]
  BY DEF TypeOK, ServePlace
<1>1. e[1] \in Conn /\ e[2] \in Node /\ Peer(e) \in Node
  BY EndFacts
<1>2. CASE RegisterConn(e)
  <2>1. conns' \in [Node -> [Node -> Conn \cup {NoConn}]] /\ serve' \in [End -> ServePlace]
    BY <1>0, <1>1, <1>2 DEF RegisterConn, ServePlace, Serving
  <2> QED
    BY <1>2, <2>1 DEF RegisterConn, TypeOK, ServePlace
<1>3. CASE ServeList(e)
  <2>1. offer' \in [End -> SUBSET File] /\ serve' \in [End -> ServePlace]
    BY <1>0, <1>3, ListType DEF ServeList, ServePlace, Serving
  <2>2. raced' \in [Node -> [Node -> BOOLEAN]]
    BY <1>0, <1>1, <1>3, Zenon DEF ServeList
  <2> QED
    BY <1>3, <2>1, <2>2 DEF ServeList, TypeOK, ServePlace
<1>4. CASE ServeSend(e)
  <2>1. offer' \in [End -> SUBSET File] /\ serve' \in [End -> ServePlace]
    BY <1>0, <1>4 DEF ServeSend, ServePlace, Serving
  <2>2. inbox' \in [End -> Seq(SUBSET File)]
    BY <1>0, <1>4, SentType DEF ServeSend
  <2> QED
    BY <1>4, <2>1, <2>2 DEF ServeSend, TypeOK, ServePlace
<1>5. CASE HandleCatalogOffer(e)
  <2>1. inbox' \in [End -> Seq(SUBSET File)]
    BY <1>0, <1>5 DEF HandleCatalogOffer, Received
  <2>2. PutPeerEntries(store[e[2]], Peer(e), OfferedRows(Head(inbox[e]))) \in Store
    BY <1>0, <1>1, PutPeerEntriesType, OfferedType
  <2>3. store' \in [Node -> Store]
    BY <1>0, <1>5, <2>2, Zenon DEF HandleCatalogOffer
  <2> QED
    BY <1>5, <2>1, <2>3 DEF HandleCatalogOffer, TypeOK
<1>6. CASE ServeReturn(e)
  <2>1. conns' \in [Node -> [Node -> Conn \cup {NoConn}]] /\ serve' \in [End -> ServePlace]
    BY <1>0, <1>1, <1>6 DEF ServeReturn, ServePlace
  <2> QED
    BY <1>6, <2>1 DEF ServeReturn, TypeOK, ServePlace
<1> QED
  BY <1>2, <1>3, <1>4, <1>5, <1>6 DEF ServeStep

\* A local change keeps the types.
LEMMA LocalChangeType ==
    ASSUME TypeOK, NEW n \in Node, NEW w \in Worker, LocalChange(n, w)
    PROVE  TypeOK'
<1>0. /\ store \in [Node -> Store] /\ work \in [Node -> [Worker -> WorkRecord]]
      /\ budget \in [changes : 0..MaxChanges, faults : 0..MaxFaults]
  BY DEF TypeOK, WorkRecord
<1>1. \E t \in Store : store' = [store EXCEPT ![n] = t]
  <2>1. PICK f \in File :
           \/ \E p \in Path : store' = [store EXCEPT ![n] = PutLocal(@, n, f, p)]
           \/ store' = [store EXCEPT ![n] = DeleteLocal(@, n, f)]
    BY DEF LocalChange
  <2>2. store[n] \in Store
    BY <1>0
  <2> QED
    BY <2>1, <2>2, PutLocalType, DeleteLocalType
<1>2. store' \in [Node -> Store]
  BY <1>0, <1>1
<1>3. work' \in [Node -> [Worker -> WorkRecord]]
  <2>0. work[n][w] \in WorkRecord
    BY <1>0
  <2>1. \A r \in WorkRecord : [r EXCEPT !.at = "snapshot"] \in WorkRecord
    BY DEF WorkRecord
  <2>2. work' = [work EXCEPT ![n][w] = [work[n][w] EXCEPT !.at = "snapshot"]]
    BY DEF LocalChange
  <2> QED
    BY <1>0, <2>0, <2>1, <2>2, WorkType
<1>4. budget' \in [changes : 0..MaxChanges, faults : 0..MaxFaults]
  BY SMTT(30), <1>0, BoundsAssumption DEF LocalChange
<1> QED
  BY <1>2, <1>3, <1>4, Zenon DEF LocalChange, netVars, TypeOK, WorkRecord

\* So do the steps of BroadcastCatalog.
LEMMA WorkerStepType ==
    ASSUME TypeOK, NEW n \in Node, NEW w \in Worker, WorkerStep(n, w)
    PROVE  TypeOK'
<1>0. /\ work \in [Node -> [Worker -> WorkRecord]] /\ inbox \in [End -> Seq(SUBSET File)]
      /\ raced \in [Node -> [Node -> BOOLEAN]]
      /\ conns \in [Node -> [Node -> Conn \cup {NoConn}]]
  BY DEF TypeOK, WorkRecord
<1>1. work[n][w].todo \in SUBSET Conn /\ work[n][w].files \in SUBSET File
  BY <1>0 DEF WorkRecord
<1>2. CASE BroadcastSnapshot(n, w)
  <2>1. {conns[n][m] : m \in Node} \ {NoConn} \in SUBSET Conn
    BY <1>0
  <2>2. work' \in [Node -> [Worker -> WorkRecord]]
    BY <1>0, <1>2, <2>1, LoopingType, WorkType DEF BroadcastSnapshot
  <2> QED
    BY <1>2, <2>2, Zenon DEF BroadcastSnapshot, netVars, TypeOK, WorkRecord
<1>3. CASE BroadcastList(n, w)
  <2>1. PICK c \in work[n][w].todo :
           /\ work' = [work EXCEPT ![n][w] =
                         [at |-> "send", todo |-> @.todo \ {c}, conn |-> c,
                          files |-> ListForPeer(store[n], Peer(<<c, n>>))]]
           /\ raced' = [raced EXCEPT ![n][Peer(<<c, n>>)] =
                            @ \/ Outstanding(n, Peer(<<c, n>>), c)]
    BY <1>3, Zenon DEF BroadcastList
  <2>2. c \in Conn /\ Peer(<<c, n>>) \in Node
    BY <1>1, <2>1, ConnAssumption DEF Peer
  <2>3. [at |-> "send", todo |-> work[n][w].todo \ {c}, conn |-> c,
         files |-> ListForPeer(store[n], Peer(<<c, n>>))] \in WorkRecord
    BY SMTT(30), <1>1, <2>2, ListType DEF WorkRecord
  <2>4. work' \in [Node -> [Worker -> WorkRecord]]
    BY <1>0, <2>1, <2>3, WorkType
  <2>5. raced' \in [Node -> [Node -> BOOLEAN]]
    BY <1>0, <2>1, <2>2, Zenon
  <2> QED
    BY <1>3, <2>4, <2>5, Zenon DEF BroadcastList, netVars, TypeOK, WorkRecord
<1>4. CASE BroadcastSend(n, w)
  <2>1. inbox' \in [End -> Seq(SUBSET File)]
    BY <1>0, <1>1, <1>4, SentType DEF BroadcastSend
  <2>2. work' \in [Node -> [Worker -> WorkRecord]]
    BY <1>0, <1>1, <1>4, LoopingType, WorkType DEF BroadcastSend
  <2> QED
    BY <1>4, <2>1, <2>2, Zenon DEF BroadcastSend, TypeOK, WorkRecord
<1> QED
  BY <1>2, <1>3, <1>4 DEF WorkerStep

\* So do connections, losses and crashes.
LEMMA EnvironmentType ==
    ASSUME TypeOK,
           \/ \E c \in Conn : Connect(c)
           \/ \E e \in End : SessionLost(e)
           \/ \E n \in Node : Crash(n)
    PROVE  TypeOK'
<1>0. /\ budget \in [changes : 0..MaxChanges, faults : 0..MaxFaults]
      /\ sess \in [End -> BOOLEAN] /\ serve \in [End -> ServePlace]
      /\ work \in [Node -> [Worker -> WorkRecord]] /\ inbox \in [End -> Seq(SUBSET File)]
      /\ offer \in [End -> SUBSET File]
      /\ conns \in [Node -> [Node -> Conn \cup {NoConn}]]
      /\ <<>> \in Seq(SUBSET File)
  BY DEF TypeOK, WorkRecord, ServePlace
<1>1. ASSUME NEW c \in Conn, Connect(c) PROVE TypeOK'
  <2>1. serve' \in [End -> ServePlace] /\ sess' \in [End -> BOOLEAN]
    BY <1>0, <1>1, Zenon DEF Connect, ServePlace
  <2> QED
    BY <1>1, <2>1, Zenon DEF Connect, TypeOK, ServePlace
<1>2. ASSUME NEW e \in End, SessionLost(e) PROVE TypeOK'
  <2>1. sess' \in [End -> BOOLEAN] /\ inbox' \in [End -> Seq(SUBSET File)]
    BY <1>0, <1>2 DEF SessionLost
  <2>2. budget' \in [changes : 0..MaxChanges, faults : 0..MaxFaults]
    <3>1. CASE sess[Other(e)]
      <4>1. budget' = [budget EXCEPT !.faults = @ - 1] /\ budget.faults > 0
        BY <1>2, <3>1 DEF SessionLost
      <4> QED
        BY <1>0, <4>1, FaultType
    <3>2. CASE ~ sess[Other(e)]
      <4>1. budget' = [budget EXCEPT !.faults = @]
        BY <1>2, <3>2 DEF SessionLost
      <4> QED
        BY SMTT(30), <1>0, <4>1
    <3> QED
      BY <3>1, <3>2
  <2> QED
    BY SMTT(30), <1>2, <2>1, <2>2 DEF SessionLost, TypeOK
<1>3. ASSUME NEW n \in Node, Crash(n) PROVE TypeOK'
  <2>1. budget' \in [changes : 0..MaxChanges, faults : 0..MaxFaults]
    BY <1>0, <1>3, FaultType DEF Crash
  <2>2. /\ conns' \in [Node -> [Node -> Conn \cup {NoConn}]]
        /\ serve' \in [End -> ServePlace]
        /\ offer' \in [End -> SUBSET File]
        /\ inbox' \in [End -> Seq(SUBSET File)]
    BY <1>0, <1>3 DEF Crash, ServePlace
  <2>3. sess' \in [End -> BOOLEAN]
    BY <1>0, <1>3, Zenon DEF Crash
  <2>4. IdleWorker \in WorkRecord
    BY DEF IdleWorker, WorkRecord
  <2>5. work' \in [Node -> [Worker -> WorkRecord]]
    BY <1>0, <1>3, <2>4 DEF Crash
  <2> QED
    BY SMTT(30), <1>3, <2>1, <2>2, <2>3, <2>5 DEF Crash, TypeOK, ServePlace, WorkRecord
<1> QED
  BY <1>1, <1>2, <1>3

\* The database of a node that has met no peer is a store.
LEMMA LocalStoreType ==
    ASSUME NEW n \in Node, NEW files \in SUBSET File, NEW p \in Path
    PROVE  LocalStore(n, files, p) \in Store
BY DEF LocalStore, EmptyStore, NoEntry, Store, Entry, EntryState

\* Initial states have the types.
LEMMA InitType == Init => TypeOK
<1> SUFFICES ASSUME Init PROVE TypeOK
  OBVIOUS
<1>1. store \in [Node -> Store]
  BY LocalStoreType, SharedAssumption DEF Init
<1>2. IdleWorker \in WorkRecord
  BY DEF IdleWorker, WorkRecord
<1>3. <<>> \in Seq(SUBSET File)
  OBVIOUS
<1> HIDE DEF IdleWorker
<1> QED
  BY <1>1, <1>2, <1>3, BoundsAssumption DEF Init, TypeOK, WorkRecord

\* Every step keeps the types.
LEMMA TypeStep == TypeOK /\ [Next]_vars => TypeOK'
<1> SUFFICES ASSUME TypeOK, [Next]_vars PROVE TypeOK'
  OBVIOUS
<1>1. CASE UNCHANGED vars
  BY <1>1 DEF vars, netVars, TypeOK
<1>2. CASE Next
  BY <1>2, ServeStepType, LocalChangeType, WorkerStepType, EnvironmentType DEF Next
<1> QED
  BY <1>1, <1>2

\* The variables of the exchange keep their types.
THEOREM TypeCorrect == Spec => []TypeOK
  BY InitType, TypeStep, PTL DEF Spec

-----------------------------------------------------------------------------
(***************************************************************************)
(* The table of connections.  An entry names an end of its own node and of *)
(* its own peer, so unregisterConn by peer id, though it may delete the    *)
(* entry of another connection, always deletes that of the ending Serve.   *)
(***************************************************************************)

\* A step that leaves the table alone and ends no Serve that is in its loop.
LEMMA TableKept ==
    ASSUME TableNamesServedConns, UNCHANGED conns,
           \A e \in End : serve[e] \in Serving => serve'[e] \in Serving
    PROVE  TableNamesServedConns'
BY DEF TableNamesServedConns

\* The table is kept right by every step.
LEMMA TableStep == TypeOK /\ TableNamesServedConns /\ [Next]_vars => TableNamesServedConns'
<1> SUFFICES ASSUME TypeOK, TableNamesServedConns, [Next]_vars PROVE TableNamesServedConns'
  OBVIOUS
<1>0. serve \in [End -> ServePlace] /\ conns \in [Node -> [Node -> Conn \cup {NoConn}]]
  BY DEF TypeOK, ServePlace
<1>1. ASSUME NEW e \in End, RegisterConn(e) PROVE TableNamesServedConns'
  <2>1. e = <<e[1], e[2]>> /\ e[2] \in Node /\ Peer(e) \in Node
    BY EndFacts
  <2>2. serve'[e] = "list" /\ \A d \in End : d # e => serve'[d] = serve[d]
    BY <1>0, <1>1 DEF RegisterConn
  <2>3. ASSUME NEW n \in Node, NEW m \in Node, conns'[n][m] # NoConn
        PROVE  /\ <<conns'[n][m], n>> \in End
               /\ Peer(<<conns'[n][m], n>>) = m
               /\ serve'[<<conns'[n][m], n>>] \in Serving
    <3>1. CASE n = e[2] /\ m = Peer(e)
      <4>1. conns'[n][m] = e[1]
        BY <1>0, <1>1, <2>1, <3>1 DEF RegisterConn
      <4>2. <<conns'[n][m], n>> = e
        BY <2>1, <3>1, <4>1
      <4> QED
        BY <2>2, <3>1, <4>2 DEF Serving
    <3>2. CASE ~ (n = e[2] /\ m = Peer(e))
      <4>1. conns'[n][m] = conns[n][m]
        BY <1>0, <1>1, <2>1, <3>2 DEF RegisterConn
      <4> QED
        BY <2>2, <2>3, <4>1 DEF TableNamesServedConns, Serving
    <3> QED
      BY <3>1, <3>2
  <2> QED
    BY <2>3 DEF TableNamesServedConns
<1>2. ASSUME NEW e \in End, ServeReturn(e) PROVE TableNamesServedConns'
  <2>1. e = <<e[1], e[2]>> /\ e[2] \in Node /\ Peer(e) \in Node
    BY EndFacts
  <2>2. \A d \in End : d # e => serve'[d] = serve[d]
    BY <1>0, <1>2 DEF ServeReturn
  <2>3. ASSUME NEW n \in Node, NEW m \in Node, conns'[n][m] # NoConn
        PROVE  /\ <<conns'[n][m], n>> \in End
               /\ Peer(<<conns'[n][m], n>>) = m
               /\ serve'[<<conns'[n][m], n>>] \in Serving
    <3>1. ~ (n = e[2] /\ m = Peer(e)) /\ conns'[n][m] = conns[n][m]
      BY <1>0, <1>2, <2>1, <2>3 DEF ServeReturn
    <3>2. <<conns[n][m], n>> # e
      BY <2>1, <2>3, <3>1 DEF TableNamesServedConns
    <3> QED
      BY <2>2, <2>3, <3>1, <3>2 DEF TableNamesServedConns
  <2> QED
    BY <2>3 DEF TableNamesServedConns
<1>3. ASSUME NEW n \in Node, Crash(n) PROVE TableNamesServedConns'
  <2>1. ASSUME NEW k \in Node, NEW m \in Node, conns'[k][m] # NoConn
        PROVE  k # n /\ conns'[k][m] = conns[k][m]
    BY <1>0, <1>3, <2>1 DEF Crash
  <2>2. \A e \in End : e[2] # n => serve'[e] = serve[e]
    BY <1>3 DEF Crash
  <2> QED
    BY <2>1, <2>2 DEF TableNamesServedConns
<1>4. ASSUME UNCHANGED <<conns, serve>> PROVE TableNamesServedConns'
  BY <1>4, TableKept
<1>5. ASSUME NEW c \in Conn, Connect(c) PROVE TableNamesServedConns'
  <2>1. \A e \in End : serve'[e] = serve[e] \/ serve[e] = "unborn"
    BY <1>0, <1>5, Zenon DEF Connect
  <2> QED
    BY <1>5, <2>1, TableKept, Zenon DEF Connect, Serving
<1>6. ASSUME NEW e \in End, ServeList(e) \/ ServeSend(e) PROVE TableNamesServedConns'
  <2>1. \A d \in End : serve'[d] = serve[d] \/ serve'[d] \in Serving
    BY <1>0, <1>6 DEF ServeList, ServeSend, Serving
  <2> QED
    BY <1>6, <2>1, TableKept DEF ServeList, ServeSend
<1>7. CASE UNCHANGED vars
  BY SMTT(30), <1>4, <1>7 DEF vars, netVars
<1>8. ASSUME NEW n \in Node, NEW w \in Worker, LocalChange(n, w) \/ WorkerStep(n, w)
      PROVE  UNCHANGED <<conns, serve>>
  BY <1>8 DEF LocalChange, WorkerStep, BroadcastSnapshot, BroadcastList, BroadcastSend, netVars
<1>9. ASSUME NEW e \in End, HandleCatalogOffer(e) \/ SessionLost(e)
      PROVE  UNCHANGED <<conns, serve>>
  BY <1>9 DEF HandleCatalogOffer, SessionLost
<1>10. CASE Next
  BY <1>1, <1>2, <1>3, <1>4, <1>5, <1>6, <1>8, <1>9, <1>10 DEF Next, ServeStep
<1> QED
  BY <1>7, <1>10

\* Handler.conns names connections that are being served, for any number of
\* connections between two nodes, dialled from either side, lost or replaced.
THEOREM TableServed == Spec => []TableNamesServedConns
<1>1. Init => TableNamesServedConns
  BY DEF Init, TableNamesServedConns
<1> QED
  BY <1>1, TableStep, TypeCorrect, PTL DEF Spec

-----------------------------------------------------------------------------
(***************************************************************************)
(* The databases.                                                          *)
(***************************************************************************)

\* What the exchange writes to a database.
Written(n) ==
    \/ \E f \in File, p \in Path : store'[n] = PutLocal(store[n], n, f, p)
    \/ \E f \in File : store'[n] = DeleteLocal(store[n], n, f)
    \/ \E p \in Node \ {n}, o \in Offer : store'[n] = PutPeerEntries(store[n], p, o)

\* A step of the exchange writes a database by these transactions or not at all.
LEMMA StepWrites ==
    ASSUME TypeOK, [Next]_vars, NEW n \in Node
    PROVE  UNCHANGED store[n] \/ Written(n)
<1>0. store \in [Node -> Store]
  BY DEF TypeOK
<1>1. ASSUME NEW e \in End, HandleCatalogOffer(e) PROVE UNCHANGED store[n] \/ Written(n)
  <2>1. e[2] \in Node /\ Peer(e) \in Node \ {e[2]}
    BY EndFacts
  <2>2. CASE n = e[2]
    <3>1. store'[n] = PutPeerEntries(store[n], Peer(e), OfferedRows(Head(inbox[e])))
      BY <1>0, <1>1, <2>2 DEF HandleCatalogOffer
    <3> QED
      BY <2>1, <2>2, <3>1, OfferedType DEF Written
  <2>3. CASE n # e[2]
    BY <1>0, <1>1, <2>3 DEF HandleCatalogOffer
  <2> QED
    BY <2>2, <2>3
<1>2. ASSUME NEW m \in Node, NEW w \in Worker, LocalChange(m, w)
      PROVE  UNCHANGED store[n] \/ Written(n)
  <2>1. PICK f \in File :
           \/ \E p \in Path : store' = [store EXCEPT ![m] = PutLocal(@, m, f, p)]
           \/ store' = [store EXCEPT ![m] = DeleteLocal(@, m, f)]
    BY <1>2 DEF LocalChange
  <2>2. CASE n = m
    <3>1. \/ \E p \in Path : store'[n] = PutLocal(store[n], n, f, p)
          \/ store'[n] = DeleteLocal(store[n], n, f)
      BY <1>0, <2>1, <2>2
    <3> QED
      BY <3>1 DEF Written
  <2>3. CASE n # m
    BY <1>0, <2>1, <2>3
  <2> QED
    BY <2>2, <2>3
<1>3. ASSUME NEW c \in Conn, Connect(c) PROVE UNCHANGED store
  BY <1>3 DEF Connect
<1>4. ASSUME NEW e \in End,
             RegisterConn(e) \/ ServeList(e) \/ ServeSend(e) \/ ServeReturn(e) \/ SessionLost(e)
      PROVE  UNCHANGED store
  BY SMTT(30), <1>4 DEF RegisterConn, ServeList, ServeSend, ServeReturn, SessionLost
<1>5. ASSUME NEW m \in Node, NEW w \in Worker, WorkerStep(m, w) PROVE UNCHANGED store
  BY <1>5 DEF WorkerStep, BroadcastSnapshot, BroadcastList, BroadcastSend
<1>6. ASSUME NEW m \in Node, Crash(m) PROVE UNCHANGED store
  BY <1>6 DEF Crash
<1>7. CASE UNCHANGED vars
  BY <1>7 DEF vars
<1>8. CASE Next
  BY SMTT(30), <1>1, <1>2, <1>3, <1>4, <1>5, <1>6, <1>8 DEF Next, ServeStep
<1> QED
  BY <1>7, <1>8

\* Each of them is a transaction of CatalogStore.
LEMMA TransactionIsStep ==
    ASSUME NEW n \in Node, Written(n)
    PROVE  Db(n)!Next
<1>1. ASSUME NEW f \in File, NEW p \in Path, store'[n] = PutLocal(store[n], n, f, p)
      PROVE  Db(n)!PutLocalTx(f, p)
  BY SMTT(30), <1>1 DEF Db!PutLocalTx, Db!PutLocal, Db!AddAvailability, PutLocal, AddAvailability
<1>2. ASSUME NEW f \in File, store'[n] = DeleteLocal(store[n], n, f)
      PROVE  Db(n)!DeleteLocalTx(f)
  BY <1>2 DEF Db!DeleteLocalTx, Db!DeleteLocal, Db!RemoveAvailability, DeleteLocal,
              RemoveAvailability
<1>3. ASSUME NEW p \in Node \ {n}, NEW o \in Offer, store'[n] = PutPeerEntries(store[n], p, o)
      PROVE  Db(n)!PutPeerEntriesTx(p, o) /\ p \in Db(n)!Peer /\ o \in Db(n)!Offer
  BY <1>3 DEF Db!PutPeerEntriesTx, Db!PutPeerEntries, PutPeerEntries, Db!Peer, Db!Offer,
              Db!EntryState, Offer, EntryState
<1> QED
  BY <1>1, <1>2, <1>3 DEF Db!Next, Written

\* The exchange uses every node's database as CatalogStore says: it starts as
\* Open and the first scan leave it, and changes by that node's transactions.
THEOREM DatabasesImplemented == Spec => DatabasesAreStores
<1>1. Init => \A n \in Node : Db(n)!Init
  <2> SUFFICES ASSUME Init, NEW n \in Node PROVE Db(n)!Init
    OBVIOUS
  <2>1. PICK shared \in [Node -> SUBSET File], p \in Path :
           store = [m \in Node |-> LocalStore(m, shared[m], p)]
    BY SharedAssumption, Zenon DEF Init
  <2>2. store[n] = Db(n)!LocalStore(n, shared[n], p)
    BY <2>1 DEF Db!LocalStore, Db!EmptyStore, Db!NoEntry, LocalStore, EmptyStore, NoEntry
  <2>3. shared[n] \in SUBSET File
    OBVIOUS
  <2> QED
    BY <2>2, <2>3 DEF Db!Init
<1>2. TypeOK /\ [Next]_vars => [\A n \in Node : UNCHANGED store[n] \/ Db(n)!Next]_vars
  BY SMTT(30), StepWrites, TransactionIsStep
<1> QED
  BY <1>1, <1>2, TypeCorrect, PTL DEF Spec, DatabasesAreStores

\* What CatalogStore promises of one database, for all of them.
AllHintsComplete == \A n \in Node : Db(n)!EveryLiveRowIsHinted

\* The transactions keep the hints of a database complete.
LEMMA WrittenKeepsHints ==
    ASSUME NEW n \in Node, store[n] \in Store, Written(n),
           \A m \in Node, g \in File :
               store[n].entries[m][g].state = "live" => m \in store[n].avail[g]
    PROVE  \A m \in Node, g \in File :
               store'[n].entries[m][g].state = "live" => m \in store'[n].avail[g]
<1>1. ASSUME NEW f \in File, NEW p \in Path, store'[n] = PutLocal(store[n], n, f, p),
             NEW m \in Node, NEW g \in File, store'[n].entries[m][g].state = "live"
      PROVE  m \in store'[n].avail[g]
  BY SMTT(30), <1>1 DEF PutLocal, AddAvailability, Store, Entry
<1>2. ASSUME NEW f \in File, store'[n] = DeleteLocal(store[n], n, f),
             NEW m \in Node, NEW g \in File, store'[n].entries[m][g].state = "live"
      PROVE  m \in store'[n].avail[g]
  BY SMTT(30), <1>2 DEF DeleteLocal, RemoveAvailability, Store, Entry
<1>3. ASSUME NEW p \in Node, NEW o \in Offer, store'[n] = PutPeerEntries(store[n], p, o),
             NEW m \in Node, NEW g \in File, store'[n].entries[m][g].state = "live"
      PROVE  m \in store'[n].avail[g]
  BY <1>3 DEF PutPeerEntries, Store, Entry
<1> QED
  BY SMTT(30), <1>1, <1>2, <1>3 DEF Written

\* On every node GetOwners returns the owner of each live row, whatever the
\* connections, offers, local changes and crashes of all of them.
THEOREM HintsCompleteEverywhere == Spec => []AllHintsComplete
<1> DEFINE Hinted(s) == \A m \in Node, g \in File :
                            s.entries[m][g].state = "live" => m \in s.avail[g]
<1>1. AllHintsComplete <=> \A n \in Node : Hinted(store[n])
  BY DEF AllHintsComplete, Db!EveryLiveRowIsHinted, Db!Live, Db!GetOwners
<1>2. AllHintsComplete' <=> \A n \in Node : Hinted(store'[n])
  BY DEF AllHintsComplete, Db!EveryLiveRowIsHinted, Db!Live, Db!GetOwners
<1>3. Init => \A n \in Node : Hinted(store[n])
  <2>1. \A n \in Node, files \in SUBSET File, p \in Path : Hinted(LocalStore(n, files, p))
    BY DEF LocalStore, EmptyStore, NoEntry
  <2>2. Init => \A n \in Node : \E files \in SUBSET File, p \in Path :
                    store[n] = LocalStore(n, files, p)
    BY SMTT(30), SharedAssumption DEF Init
  <2> QED
    BY SMTT(30), <2>1, <2>2
<1>4. TypeOK /\ AllHintsComplete /\ [Next]_vars => AllHintsComplete'
  <2> SUFFICES ASSUME TypeOK, AllHintsComplete, [Next]_vars, NEW n \in Node
               PROVE  Hinted(store'[n])
    BY SMTT(30), <1>2
  <2>1. store[n] \in Store /\ Hinted(store[n])
    BY <1>1 DEF TypeOK
  <2>2. CASE UNCHANGED store[n]
    BY SMTT(30), <2>1, <2>2
  <2>3. CASE Written(n)
    BY <2>1, <2>3, WrittenKeepsHints
  <2> QED
    BY <2>2, <2>3, StepWrites
<1>5. Init => AllHintsComplete
  BY <1>1, <1>3
<1> QED
  BY <1>4, <1>5, TypeCorrect, PTL DEF Spec

-----------------------------------------------------------------------------
(***************************************************************************)
(* The view of a linked peer.  CurrentUnlessRaced speaks of states with    *)
(* nothing in flight; SyncInv says what leads there.  While n's connection *)
(* c to m is up and no race has happened, either n will list again for c,  *)
(* or every list it has taken and not sent is its catalog, and so is the   *)
(* last one m will get on c and all that m will get elsewhere.             *)
(***************************************************************************)

\* No three nodes are distinct.
TwoNodes == \A x, y, z \in Node : x = y \/ y = z \/ x = z

\* A session belongs to an end whose Serve goroutine was started.
SessionsAreServed == \A e \in End : sess[e] => serve[e] # "unborn"

\* A watcher goroutine sends on connections of its own node.
WorkersSendOnEnds ==
    \A n \in Node, w \in Worker :
        /\ work[n][w].at = "send" => <<work[n][w].conn, n>> \in End
        /\ \A c \in work[n][w].todo : <<c, n>> \in End

\* n will take another list for the peer at the other end of c.
Listing(n, c) ==
    \/ \E w \in Worker : work[n][w].at = "snapshot"
    \/ \E w \in Worker : work[n][w].at \in {"list", "send"} /\ c \in work[n][w].todo
    \/ serve[<<c, n>>] = "list"

\* n has taken a list to be sent on c.
Sending(n, c) ==
    \/ serve[<<c, n>>] = "send"
    \/ \E w \in Worker : work[n][w].at = "send" /\ work[n][w].conn = c

\* What m will have of n once q has been delivered to it.
LastOf(q, view) == IF q = <<>> THEN view ELSE q[Len(q)]

\* The lists that n has taken for m and not sent are its catalog.
UnsentIsCurrent(n, m) ==
    /\ \A e \in End : e[2] = n /\ Peer(e) = m /\ serve[e] = "send"
                        => offer[e] = ListForPeer(store[n], m)
    /\ \A w \in Worker : work[n][w].at = "send" /\ Peer(<<work[n][w].conn, n>>) = m
                            => work[n][w].files = ListForPeer(store[n], m)

\* So are those on their way to m on a connection other than c.
ElsewhereIsCurrent(n, m, c) ==
    \A e \in End : e[2] = m /\ Peer(e) = n /\ e[1] # c =>
        \A i \in 1..Len(inbox[e]) : inbox[e][i] = ListForPeer(store[n], m)

\* The last list that m gets on c is n's catalog.
Arrives(n, m, c) ==
    \/ Sending(n, c)
    \/ LastOf(inbox[<<c, m>>], ListByOwner(store[m], n)) = ListForPeer(store[n], m)

Settled(n, m, c) == UnsentIsCurrent(n, m) /\ ElsewhereIsCurrent(n, m, c) /\ Arrives(n, m, c)

LinkUp(n, m, c) == sess[<<c, n>>] /\ sess[<<c, m>>]

Fresh(n, m, c) == LinkUp(n, m, c) /\ ~ raced[n][m] => Listing(n, c) \/ Settled(n, m, c)

\* c is the connection that n has for m.
Has(n, m, c) == conns[n][m] = c /\ c # NoConn

SyncInv ==
    /\ TypeOK /\ TableNamesServedConns /\ SessionsAreServed /\ WorkersSendOnEnds
    /\ \A n, m \in Node : n # m => \A c \in Conn : Has(n, m, c) => Fresh(n, m, c)

\* The two ends of the connection that n has for m.
LEMMA HasEnds ==
    ASSUME SyncInv, NEW n \in Node, NEW m \in Node, NEW c, Has(n, m, c)
    PROVE  /\ c \in Conn /\ <<c, n>> \in End /\ <<c, m>> \in End
           /\ Peer(<<c, n>>) = m /\ Peer(<<c, m>>) = n /\ Other(<<c, n>>) = <<c, m>>
           /\ serve[<<c, n>>] \in Serving
<1>0. TableNamesServedConns
  BY Zenon DEF SyncInv
<1>1. <<c, n>> \in End /\ Peer(<<c, n>>) = m /\ serve[<<c, n>>] \in Serving
  BY Zenon, <1>0 DEF TableNamesServedConns, Has
<1>2. Other(<<c, n>>) = <<c, m>>
  BY <1>1 DEF Other
<1>3. c \in Conn /\ <<c, m>> \in End
  BY <1>1, <1>2, EndFacts
<1>4. Peer(<<c, m>>) = n
  <2>1. (c[1] = n \/ c[2] = n) /\ c[1] # c[2]
    BY SMTT(30), <1>1, <1>3, ConnAssumption DEF End
  <2> QED
    BY <1>1, <2>1 DEF Peer
<1> QED
  BY Zenon, <1>1, <1>2, <1>3, <1>4

\* An end of n's connections to m, and the end at m.
LEMMA EndPair ==
    ASSUME NEW e \in End, NEW n, NEW m, e[2] = n, Peer(e) = m
    PROVE  /\ e = <<e[1], n>> /\ Other(e) = <<e[1], m>> /\ Other(e) \in End /\ Other(e) # e
           /\ Other(e)[1] = e[1] /\ Other(e)[2] = m /\ Peer(Other(e)) = n /\ Other(Other(e)) = e
           /\ n \in Node /\ m \in Node /\ n # m /\ e[1] \in Conn
<1>1. e = <<e[1], e[2]>> /\ e[1] \in Conn /\ e[2] \in Node /\ Peer(e) \in Node /\ Peer(e) # e[2] /\ Other(e) \in End
  BY Zenon, EndFacts
<1>2. PICK c \in Conn : e = <<c, c[1]>> \/ e = <<c, c[2]>>
  BY DEF End
<1>3. c[1] # c[2]
  BY ConnAssumption
<1> QED
  BY <1>1, <1>2, <1>3 DEF Other, Peer

\* Whoever is not n, of two nodes, is m.
LEMMA TheOther ==
    ASSUME TwoNodes, NEW n \in Node, NEW m \in Node, n # m, NEW x \in Node
    PROVE  x = n \/ x = m
BY Zenon DEF TwoNodes

\* What a list of n says to m does not depend on m's rows at n, nor m's view of n
\* on the other rows of m.
LEMMA ListOfPut ==
    ASSUME NEW s \in Store, NEW n \in Node, NEW o
    PROVE  /\ ListForPeer(PutPeerEntries(s, n, o), n) = ListForPeer(s, n)
           /\ \A m \in Node : m # n => ListByOwner(PutPeerEntries(s, n, o), m) = ListByOwner(s, m)
<1>1. ASSUME NEW m \in Node, m # n
      PROVE  ListByOwner(PutPeerEntries(s, n, o), m) = ListByOwner(s, m)
  <2>1. PutPeerEntries(s, n, o).entries[m] = s.entries[m]
    BY <1>1 DEF PutPeerEntries, Store
  <2> QED
    BY Zenon, <2>1 DEF ListByOwner
<1> QED
  BY Zenon, <1>1 DEF ListForPeer

\* The rows that an offer leaves are the files it lists.
LEMMA ViewOfPut ==
    ASSUME NEW s \in Store, NEW n \in Node, NEW files \in SUBSET File
    PROVE  ListByOwner(PutPeerEntries(s, n, OfferedRows(files)), n) = files
<1>1. \A f \in File : PutPeerEntries(s, n, OfferedRows(files)).entries[n][f].state
                        = IF f \in files THEN "live" ELSE "none"
  BY DEF PutPeerEntries, Store, OfferedRows
<1> QED
  BY <1>1 DEF ListByOwner

\* A node's own changes are not seen in its rows for another node.
LEMMA ViewOfLocal ==
    ASSUME NEW s \in Store, NEW n \in Node, NEW m \in Node, m # n, NEW f \in File
    PROVE  /\ \A p \in Path : ListByOwner(PutLocal(s, m, f, p), n) = ListByOwner(s, n)
           /\ ListByOwner(DeleteLocal(s, m, f), n) = ListByOwner(s, n)
<1>1. ASSUME NEW p \in Path PROVE PutLocal(s, m, f, p).entries[n] = s.entries[n]
  BY DEF PutLocal, Store
<1>2. DeleteLocal(s, m, f).entries[n] = s.entries[n]
  BY DEF DeleteLocal, Store
<1> QED
  BY Zenon, <1>1, <1>2 DEF ListByOwner

\* What n has under way for m is left alone.
SameWork(n, m) ==
    /\ work'[n] = work[n]
    /\ \A e \in End : e[2] = n /\ Peer(e) = m =>
          /\ offer'[e] = offer[e]
          /\ serve'[e] = "send" <=> serve[e] = "send"
          /\ serve[e] = "list" => serve'[e] = "list"

SameFiles(n, m) ==
    /\ ListForPeer(store'[n], m) = ListForPeer(store[n], m)
    /\ ListByOwner(store'[m], n) = ListByOwner(store[m], n)

SameInboxes(n, m) == \A e \in End : e[2] = m /\ Peer(e) = n => inbox'[e] = inbox[e]

\* A step that leaves everything about n and m alone.
LEMMA NothingNew ==
    ASSUME SyncInv, NEW n \in Node, NEW m \in Node, NEW c, Has(n, m, c),
           Listing(n, c) \/ Settled(n, m, c),
           SameWork(n, m), SameFiles(n, m), SameInboxes(n, m)
    PROVE  Listing(n, c)' \/ Settled(n, m, c)'
<1>1. /\ <<c, n>> \in End /\ <<c, m>> \in End /\ Peer(<<c, n>>) = m /\ Peer(<<c, m>>) = n
  BY SMTT(30), HasEnds
<1>2. <<c, n>>[2] = n /\ <<c, m>>[2] = m
  OBVIOUS
<1>3. work'[n] = work[n] /\ inbox'[<<c, m>>] = inbox[<<c, m>>]
  BY Zenon, <1>1, <1>2 DEF SameWork, SameInboxes
<1>4. /\ serve'[<<c, n>>] = "send" <=> serve[<<c, n>>] = "send"
      /\ serve[<<c, n>>] = "list" => serve'[<<c, n>>] = "list"
  BY Zenon, <1>1, <1>2 DEF SameWork
<1>5. ASSUME Listing(n, c) PROVE Listing(n, c)'
  BY Zenon, <1>3, <1>4, <1>5 DEF Listing
<1>6. ASSUME Settled(n, m, c) PROVE Settled(n, m, c)'
  <2>1. UnsentIsCurrent(n, m)'
    BY Zenon, <1>3, <1>6 DEF Settled, UnsentIsCurrent, SameWork, SameFiles
  <2>2. ElsewhereIsCurrent(n, m, c)'
    BY ZenonT(40), <1>6 DEF Settled, ElsewhereIsCurrent, SameInboxes, SameFiles
  <2>3. Arrives(n, m, c)'
    <3>1. Sending(n, c)' <=> Sending(n, c)
      BY Zenon, <1>3, <1>4 DEF Sending
    <3> QED
      BY Zenon, <1>3, <1>6, <3>1 DEF Settled, Arrives, SameFiles
  <2> QED
    BY Zenon, <2>1, <2>2, <2>3 DEF Settled
<1> QED
  BY Zenon, <1>5, <1>6

\* The lists of n's connection to m, when nothing is outstanding, are those of c alone.
LEMMA NoneOutstanding ==
    ASSUME NEW n, NEW m, NEW d, ~ Outstanding(n, m, d)
    PROVE  /\ \A e \in End : e[2] = n /\ Peer(e) = m => serve[e] # "send"
           /\ \A w \in Worker : work[n][w].at = "send" => Peer(<<work[n][w].conn, n>>) # m
           /\ \A e \in End : e[2] = m /\ Peer(e) = n /\ e[1] # d => inbox[e] = <<>>
BY Zenon DEF Outstanding

\* A list is taken on d, when nothing is outstanding elsewhere: what was settled
\* stays settled, and the list taken on c settles what was not.
LEMMA Taken ==
    ASSUME SyncInv, NEW n \in Node, NEW m \in Node, NEW c, NEW d, Has(n, m, c),
           ~ Outstanding(n, m, d), Listing(n, c) \/ Settled(n, m, c),
           SameFiles(n, m), UNCHANGED inbox,
           UnsentIsCurrent(n, m)', d = c => Sending(n, c)',
           d # c /\ Listing(n, c) => Listing(n, c)'
    PROVE  Listing(n, c)' \/ Settled(n, m, c)'
<1>0. /\ \A e \in End : e[2] = n /\ Peer(e) = m => serve[e] # "send"
      /\ \A w \in Worker : work[n][w].at = "send" => Peer(<<work[n][w].conn, n>>) # m
      /\ \A e \in End : e[2] = m /\ Peer(e) = n /\ e[1] # d => inbox[e] = <<>>
  BY NoneOutstanding
<1>1. /\ <<c, n>> \in End /\ <<c, m>> \in End /\ Peer(<<c, n>>) = m /\ Peer(<<c, m>>) = n
  BY SMTT(30), HasEnds
<1>2. CASE d = c
  <2>1. ASSUME NEW e \in End, e[2] = m, Peer(e) = n, e[1] # c,
               NEW i \in 1..Len(inbox'[e])
        PROVE  FALSE
    BY <1>0, <1>2, <2>1
  <2>2. ElsewhereIsCurrent(n, m, c)'
    BY Zenon, <2>1 DEF ElsewhereIsCurrent
  <2> QED
    BY Zenon, <1>2, <2>2 DEF Settled, Arrives
<1>3. CASE d # c /\ Settled(n, m, c)
  <2>1. ~ Sending(n, c)
    <3>1. <<c, n>>[2] = n
      OBVIOUS
    <3> QED
      BY Zenon, <1>0, <1>1, <3>1 DEF Sending
  <2>2. LastOf(inbox[<<c, m>>], ListByOwner(store[m], n)) = ListForPeer(store[n], m)
    BY Zenon, <1>3, <2>1 DEF Settled, Arrives
  <2>3. Arrives(n, m, c)'
    BY Zenon, <2>2 DEF Arrives, SameFiles
  <2>4. ElsewhereIsCurrent(n, m, c)'
    BY Zenon, <1>3 DEF Settled, ElsewhereIsCurrent, SameFiles
  <2> QED
    BY Zenon, <2>3, <2>4 DEF Settled
<1> QED
  BY Zenon, <1>2, <1>3

\* A list is sent on d: on c it arrives as the last one.
LEMMA SentOn ==
    ASSUME SyncInv, NEW n \in Node, NEW m \in Node, NEW c, Has(n, m, c), LinkUp(n, m, c),
           Listing(n, c) \/ Settled(n, m, c),
           NEW e \in End, e[2] = n, Peer(e) = m, NEW files \in SUBSET File,
           Settled(n, m, c) => files = ListForPeer(store[n], m),
           inbox' = Sent(e, files), SameFiles(n, m),
           UnsentIsCurrent(n, m) => UnsentIsCurrent(n, m)',
           e[1] # c /\ Sending(n, c) => Sending(n, c)',
           Listing(n, c) => Listing(n, c)'
    PROVE  Listing(n, c)' \/ Settled(n, m, c)'
<1> SUFFICES ASSUME Settled(n, m, c) PROVE Settled(n, m, c)'
  BY Zenon
<1> DEFINE r == Other(e)
<1>1. /\ <<c, n>> \in End /\ <<c, m>> \in End /\ Peer(<<c, n>>) = m /\ Peer(<<c, m>>) = n
  BY SMTT(30), HasEnds
<1>2. /\ e = <<e[1], n>> /\ r = <<e[1], m>> /\ r \in End /\ r[1] = e[1] /\ r[2] = m /\ Peer(r) = n
  BY EndPair
<1>3. inbox \in [End -> Seq(SUBSET File)] /\ files = ListForPeer(store[n], m)
  BY Zenon DEF SyncInv, TypeOK
<1>4. inbox' = inbox \/ inbox' = [inbox EXCEPT ![r] = Append(@, files)]
  BY Zenon DEF Sent
<1>5. ASSUME sess[e] /\ sess[r] PROVE inbox' = [inbox EXCEPT ![r] = Append(@, files)]
  BY Zenon, <1>5 DEF Sent
<1> HIDE DEF r
<1>6. UnsentIsCurrent(n, m)'
  BY Zenon DEF Settled
<1>7. ElsewhereIsCurrent(n, m, c)'
  <2>1. ASSUME NEW x \in End, x[2] = m, Peer(x) = n, x[1] # c, NEW i \in 1..Len(inbox'[x])
        PROVE  inbox'[x][i] = files
    <3>1. \A j \in 1..Len(inbox[x]) : inbox[x][j] = files
      BY Zenon, <1>3, <2>1 DEF Settled, ElsewhereIsCurrent
    <3>2. inbox'[x] = inbox[x] \/ inbox'[x] = Append(inbox[x], files)
      BY Zenon, <1>3, <1>4
    <3>3. inbox[x] \in Seq(SUBSET File)
      BY Zenon, <1>3
    <3>4. CASE inbox'[x] = inbox[x]
      BY Zenon, <2>1, <3>1, <3>4
    <3>5. CASE inbox'[x] = Append(inbox[x], files)
      <4> DEFINE q == inbox[x]
      <4> HIDE DEF q
      <4>1. q \in Seq(SUBSET File) /\ inbox'[x] = Append(q, files) /\ \A j \in 1..Len(q) : q[j] = files
        BY ZenonT(40), <3>1, <3>3, <3>5 DEF q
      <4>2. \A j \in 1..Len(Append(q, files)) : Append(q, files)[j] = files
        BY <4>1
      <4> QED
        BY Zenon, <2>1, <4>1, <4>2
    <3> QED
      BY Zenon, <3>2, <3>4, <3>5
  <2> QED
    BY Zenon, <1>3, <2>1 DEF ElsewhereIsCurrent, SameFiles
<1>8. Arrives(n, m, c)'
  <2>1. CASE e[1] = c
    <3>1. inbox' = [inbox EXCEPT ![r] = Append(@, files)] /\ r = <<c, m>>
      BY Zenon, <1>2, <1>5, <2>1 DEF LinkUp
    <3>2. inbox'[r] = Append(inbox[r], files) /\ inbox[r] \in Seq(SUBSET File)
      BY ZenonT(40), <1>2, <1>3, <3>1
    <3>3. LastOf(inbox'[r], ListByOwner(store'[m], n)) = files
      BY <3>2 DEF LastOf
    <3> QED
      BY Zenon, <1>3, <3>1, <3>3 DEF Arrives, SameFiles
  <2>2. CASE e[1] # c
    <3>1. <<c, m>> # r
      BY <1>2, <2>2
    <3>2. inbox'[<<c, m>>] = inbox[<<c, m>>]
      BY Zenon, <1>1, <1>3, <1>4, <3>1
    <3> QED
      BY Zenon, <2>2, <3>2 DEF Settled, Arrives, SameFiles
  <2> QED
    BY Zenon, <2>1, <2>2
<1> QED
  BY Zenon, <1>6, <1>7, <1>8 DEF Settled

\* A Serve goroutine takes a list, or sends it.
LEMMA FreshServe ==
    ASSUME SyncInv, NEW n \in Node, NEW m \in Node, n # m, NEW c, Has(n, m, c), LinkUp(n, m, c),
           Listing(n, c) \/ Settled(n, m, c), ~ raced'[n][m],
           NEW x \in End, ServeList(x) \/ ServeSend(x)
    PROVE  Listing(n, c)' \/ Settled(n, m, c)'
<1>1. /\ <<c, n>> \in End /\ <<c, m>> \in End /\ Peer(<<c, n>>) = m /\ Peer(<<c, m>>) = n
  BY SMTT(30), HasEnds
<1>2. /\ serve \in [End -> ServePlace] /\ offer \in [End -> SUBSET File]
      /\ raced \in [Node -> [Node -> BOOLEAN]] /\ inbox \in [End -> Seq(SUBSET File)]
  BY Zenon DEF SyncInv, TypeOK, ServePlace
<1>3. SameFiles(n, m) /\ UNCHANGED <<work, store>>
  BY Zenon DEF ServeList, ServeSend, SameFiles
<1>4. \A e \in End : e # x => serve'[e] = serve[e] /\ offer'[e] = offer[e]
  BY Zenon, <1>2 DEF ServeList, ServeSend
<1>5. <<c, n>>[2] = n /\ <<c, n>>[1] = c
  OBVIOUS
<1>6. CASE ~ (x[2] = n /\ Peer(x) = m)
  <2>1. SameWork(n, m)
    BY Zenon, <1>3, <1>4, <1>6 DEF SameWork
  <2>2. SameInboxes(n, m)
    <3>1. ASSUME NEW e \in End, e[2] = m, Peer(e) = n PROVE e # Other(x)
      BY <1>6, <3>1, EndPair
    <3>2. \A e \in End : e # Other(x) => inbox'[e] = inbox[e]
      BY Zenon, <1>2 DEF ServeList, ServeSend, Sent
    <3> QED
      BY Zenon, <3>1, <3>2 DEF SameInboxes
  <2> QED
    BY Zenon, <1>3, <2>1, <2>2, NothingNew
<1>7. CASE x[2] = n /\ Peer(x) = m /\ ServeList(x)
  <2>1. /\ serve[x] = "list" /\ serve'[x] = "send" /\ offer'[x] = ListForPeer(store[n], m)
        /\ raced'[n][m] = (raced[n][m] \/ Outstanding(n, m, x[1])) /\ UNCHANGED inbox
    BY Zenon, <1>2, <1>7 DEF ServeList
  <2>2. ~ Outstanding(n, m, x[1])
    BY Zenon, <2>1
  <2>3. /\ \A e \in End : e[2] = n /\ Peer(e) = m => serve[e] # "send"
        /\ \A w \in Worker : work[n][w].at = "send" => Peer(<<work[n][w].conn, n>>) # m
    BY <2>2, NoneOutstanding
  <2>4. UnsentIsCurrent(n, m)'
    BY Zenon, <1>3, <1>4, <2>1, <2>3 DEF UnsentIsCurrent
  <2>5. x = <<x[1], n>>
    BY Zenon, <1>7, EndFacts
  <2>6. ASSUME x[1] = c PROVE Sending(n, c)'
    BY Zenon, <2>1, <2>5, <2>6 DEF Sending
  <2>7. ASSUME x[1] # c, Listing(n, c) PROVE Listing(n, c)'
    <3>1. serve'[<<c, n>>] = serve[<<c, n>>]
      BY Zenon, <1>1, <1>4, <1>5, <2>7
    <3> QED
      BY Zenon, <1>3, <2>7, <3>1 DEF Listing
  <2> QED
    BY Zenon, <1>3, <2>1, <2>2, <2>4, <2>6, <2>7, Taken
<1>8. CASE x[2] = n /\ Peer(x) = m /\ ServeSend(x)
  <2>1. /\ serve[x] = "send" /\ serve'[x] = "recv" /\ inbox' = Sent(x, offer[x]) /\ offer[x] \in SUBSET File
    BY Zenon, <1>2, <1>8 DEF ServeSend
  <2>2. ASSUME Settled(n, m, c) PROVE offer[x] = ListForPeer(store[n], m)
    BY Zenon, <1>8, <2>1, <2>2 DEF Settled, UnsentIsCurrent
  <2>3. ASSUME UnsentIsCurrent(n, m) PROVE UnsentIsCurrent(n, m)'
    <3>1. serve'[x] # "send"
      BY <2>1
    <3> QED
      BY Zenon, <1>3, <1>4, <2>3, <3>1 DEF UnsentIsCurrent
  <2>4. ASSUME x[1] # c, Sending(n, c) PROVE Sending(n, c)'
    <3>1. serve'[<<c, n>>] = serve[<<c, n>>]
      BY Zenon, <1>1, <1>4, <1>5, <2>4
    <3> QED
      BY Zenon, <1>3, <2>4, <3>1 DEF Sending
  <2>5. ASSUME Listing(n, c) PROVE Listing(n, c)'
    <3>1. serve[<<c, n>>] = "list" => serve'[<<c, n>>] = "list"
      BY <1>1, <1>4, <2>1
    <3> QED
      BY ZenonT(40), <1>3, <2>5, <3>1 DEF Listing
  <2> QED
    BY Zenon, <1>3, <1>8, <2>1, <2>2, <2>3, <2>4, <2>5, SentOn
<1> QED
  BY Zenon, <1>6, <1>7, <1>8

\* A queue without its head.
LEMMA LastOfTail ==
    ASSUME NEW S, NEW q \in Seq(S), q # <<>>, NEW v
    PROVE  /\ Head(q) \in S /\ Tail(q) \in Seq(S) /\ 1 \in 1..Len(q) /\ Head(q) = q[1]
           /\ \A i \in 1..Len(Tail(q)) : i + 1 \in 1..Len(q) /\ Tail(q)[i] = q[i + 1]
           /\ LastOf(Tail(q), Head(q)) = LastOf(q, v)
<1>1. /\ Len(q) \in Nat /\ Len(q) > 0 /\ Head(q) = q[1] /\ Head(q) \in S /\ Tail(q) \in Seq(S)
      /\ Len(Tail(q)) = Len(q) - 1 /\ \A i \in 1..(Len(q) - 1) : Tail(q)[i] = q[i + 1]
  OBVIOUS
<1>2. \A t \in Seq(S) : t = <<>> <=> Len(t) = 0
  OBVIOUS
<1> DEFINE t == Tail(q)
<1>3. /\ t \in Seq(S) /\ Len(t) = Len(q) - 1 /\ \A i \in 1..(Len(q) - 1) : t[i] = q[i + 1]
      /\ t = <<>> <=> Len(q) = 1
  BY SMTT(30), <1>1, <1>2
<1> HIDE DEF t
<1>4. /\ 1 \in 1..Len(q) /\ \A i \in 1..Len(t) : i + 1 \in 1..Len(q) /\ t[i] = q[i + 1]
      /\ Len(q) # 1 => t[Len(t)] = q[Len(q)]
  BY <1>1, <1>3
<1>5. LastOf(t, Head(q)) = LastOf(q, v)
  <2>1. CASE Len(q) = 1
    BY <1>1, <1>3, <2>1 DEF LastOf
  <2>2. CASE Len(q) # 1
    BY Zenon, <1>3, <1>4, <2>2 DEF LastOf
  <2> QED
    BY Zenon, <2>1, <2>2
<1> QED
  BY Zenon, <1>1, <1>4, <1>5 DEF t

\* m has an offer of n, or n one of m.
LEMMA FreshHandled ==
    ASSUME SyncInv, TwoNodes, NEW n \in Node, NEW m \in Node, n # m, NEW c, Has(n, m, c),
           Listing(n, c) \/ Settled(n, m, c), NEW x \in End, HandleCatalogOffer(x)
    PROVE  Listing(n, c)' \/ Settled(n, m, c)'
<1> DEFINE q == inbox[x]
           L == ListForPeer(store[n], m)
<1>1. /\ <<c, n>> \in End /\ <<c, m>> \in End /\ Peer(<<c, n>>) = m /\ Peer(<<c, m>>) = n
  BY SMTT(30), HasEnds
<1>2. inbox \in [End -> Seq(SUBSET File)] /\ store \in [Node -> Store]
  BY Zenon DEF SyncInv, TypeOK
<1>3. /\ q # <<>> /\ q \in Seq(SUBSET File) /\ UNCHANGED <<work, serve, offer>>
      /\ store' = [store EXCEPT ![x[2]] = PutPeerEntries(@, Peer(x), OfferedRows(Head(q)))]
      /\ inbox' = [inbox EXCEPT ![x] = Tail(q)]
  BY Zenon, <1>2 DEF HandleCatalogOffer, Received
<1> HIDE DEF q
<1>4. /\ inbox'[x] = Tail(q) /\ \A e \in End : e # x => inbox'[e] = inbox[e]
  BY Zenon, <1>2, <1>3
<1>5. SameWork(n, m)
  BY Zenon, <1>3 DEF SameWork
<1>6. x[2] \in Node /\ Peer(x) \in Node /\ Peer(x) # x[2] /\ x = <<x[1], x[2]>>
  BY EndFacts
<1>7. CASE x[2] = n
  <2>1. Peer(x) = m
    BY Zenon, <1>6, <1>7, TheOther
  <2>2. /\ store'[n] = PutPeerEntries(store[n], m, OfferedRows(Head(q)))
        /\ store'[m] = store[m] /\ store[n] \in Store
    BY Zenon, <1>2, <1>3, <1>7, <2>1
  <2>3. SameFiles(n, m)
    BY ZenonT(40), <2>2, ListOfPut DEF SameFiles
  <2>4. SameInboxes(n, m)
    BY Zenon, <1>4, <1>7 DEF SameInboxes
  <2> QED
    BY Zenon, <1>5, <2>3, <2>4, NothingNew
<1>8. CASE x[2] = m
  <2>1. Peer(x) = n
    BY Zenon, <1>6, <1>8, TheOther
  <2>2. /\ Head(q) \in SUBSET File /\ Tail(q) \in Seq(SUBSET File) /\ 1 \in 1..Len(q) /\ Head(q) = q[1]
        /\ \A i \in 1..Len(Tail(q)) : i + 1 \in 1..Len(q) /\ Tail(q)[i] = q[i + 1]
        /\ \A v : LastOf(Tail(q), Head(q)) = LastOf(q, v)
    BY <1>3, LastOfTail
  <2>3. /\ store'[m] = PutPeerEntries(store[m], n, OfferedRows(Head(q)))
        /\ store'[n] = store[n] /\ store[m] \in Store
    BY ZenonT(40), <1>2, <1>3, <1>8, <2>1
  <2>4. ListByOwner(store'[m], n) = Head(q)
    BY <2>2, <2>3, ViewOfPut
  <2>5. ASSUME Listing(n, c) PROVE Listing(n, c)'
    BY Zenon, <1>3, <2>5 DEF Listing
  <2>6. ASSUME Settled(n, m, c) PROVE Settled(n, m, c)'
    <3>1. UnsentIsCurrent(n, m)'
      BY Zenon, <1>3, <2>3, <2>6 DEF Settled, UnsentIsCurrent
    <3>2. ASSUME x[1] # c PROVE \A i \in 1..Len(q) : q[i] = L
      BY Zenon, <1>8, <2>1, <2>6, <3>2 DEF Settled, ElsewhereIsCurrent, q
    <3>3. ElsewhereIsCurrent(n, m, c)'
      <4>1. ASSUME NEW e \in End, e[2] = m, Peer(e) = n, e[1] # c, NEW i \in 1..Len(inbox'[e])
            PROVE  inbox'[e][i] = L
        <5>1. CASE e = x
          BY Zenon, <1>4, <2>2, <3>2, <4>1, <5>1
        <5>2. CASE e # x
          <6>1. inbox'[e] = inbox[e]
            BY Zenon, <1>4, <5>2
          <6>2. ElsewhereIsCurrent(n, m, c)
            BY Zenon, <2>6 DEF Settled
          <6>3. \A j \in 1..Len(inbox[e]) : inbox[e][j] = L
            BY Zenon, <4>1, <6>2 DEF ElsewhereIsCurrent
          <6> QED
            BY Zenon, <4>1, <6>1, <6>3
        <5> QED
          BY Zenon, <5>1, <5>2
      <4> QED
        BY Zenon, <2>3, <4>1 DEF ElsewhereIsCurrent
    <3>4. Arrives(n, m, c)'
      <4>1. CASE Sending(n, c)
        BY Zenon, <1>3, <4>1 DEF Arrives, Sending
      <4>2. CASE ~ Sending(n, c)
        <5>1. LastOf(inbox[<<c, m>>], ListByOwner(store[m], n)) = L
          BY Zenon, <2>6, <4>2 DEF Settled, Arrives
        <5>2. CASE x[1] = c
          <6>1. x = <<c, m>>
            BY Zenon, <1>6, <1>8, <5>2
          <6>2. LastOf(Tail(q), Head(q)) = L
            BY Zenon, <2>2, <5>1, <6>1 DEF q
          <6> QED
            BY Zenon, <1>4, <2>3, <2>4, <6>1, <6>2 DEF Arrives
        <5>3. CASE x[1] # c
          <6>1. x # <<c, m>>
            BY <5>3
          <6>2. inbox'[<<c, m>>] = inbox[<<c, m>>]
            BY Zenon, <1>1, <1>4, <6>1
          <6>3. Head(q) = L
            BY Zenon, <2>2, <3>2, <5>3
          <6>4. LastOf(inbox[<<c, m>>], Head(q)) = L
            BY Zenon, <5>1, <6>3 DEF LastOf
          <6> QED
            BY Zenon, <2>3, <2>4, <6>2, <6>4 DEF Arrives
        <5> QED
          BY Zenon, <5>2, <5>3
      <4> QED
        BY Zenon, <4>1, <4>2
    <3> QED
      BY Zenon, <3>1, <3>3, <3>4 DEF Settled
  <2> QED
    BY Zenon, <2>5, <2>6
<1> QED
  BY Zenon, <1>6, <1>7, <1>8, TheOther

\* A worker goes on with what it has left to do.
LEMMA LoopingFacts ==
    \A todo : /\ Looping(todo).todo = todo /\ Looping(todo).at \in {"idle", "list"}
              /\ Looping(todo).at # "send" /\ (todo # {} => Looping(todo).at = "list")
BY DEF Looping

\* The other node's workers do not matter to n.
LEMMA FreshOtherWorker ==
    ASSUME SyncInv, NEW n \in Node, NEW m \in Node, n # m, NEW c, Has(n, m, c),
           Listing(n, c) \/ Settled(n, m, c),
           NEW w \in Worker, LocalChange(m, w) \/ WorkerStep(m, w)
    PROVE  Listing(n, c)' \/ Settled(n, m, c)'
<1>1. /\ work \in [Node -> [Worker -> WorkRecord]] /\ store \in [Node -> Store]
      /\ inbox \in [End -> Seq(SUBSET File)]
  BY Zenon DEF SyncInv, TypeOK, WorkRecord
<1>2. UNCHANGED <<serve, offer>> /\ work'[n] = work[n]
  BY Zenon, <1>1 DEF LocalChange, WorkerStep, BroadcastSnapshot, BroadcastList, BroadcastSend, netVars
<1>3. SameWork(n, m)
  BY Zenon, <1>2 DEF SameWork
<1>4. SameFiles(n, m)
  <2>1. CASE WorkerStep(m, w)
    <3>1. UNCHANGED store
      BY Zenon, <2>1 DEF WorkerStep, BroadcastSnapshot, BroadcastList, BroadcastSend
    <3> QED
      BY Zenon, <3>1 DEF SameFiles
  <2>2. CASE LocalChange(m, w)
    <3>1. PICK f \in File :
            \/ \E p \in Path : store' = [store EXCEPT ![m] = PutLocal(@, m, f, p)]
            \/ store' = [store EXCEPT ![m] = DeleteLocal(@, m, f)]
      BY Zenon, <2>2 DEF LocalChange
    <3>2. store'[n] = store[n]
      BY Zenon, <1>1, <3>1
    <3>3. \/ \E p \in Path : store'[m] = PutLocal(store[m], m, f, p)
          \/ store'[m] = DeleteLocal(store[m], m, f)
      BY Zenon, <1>1, <3>1
    <3>4. store[m] \in Store
      BY ZenonT(40), <1>1
    <3>5. ListByOwner(store'[m], n) = ListByOwner(store[m], n)
      BY <3>3, <3>4, ViewOfLocal
    <3> QED
      BY Zenon, <3>2, <3>5 DEF SameFiles
  <2> QED
    BY Zenon, <2>1, <2>2
<1>5. SameInboxes(n, m)
  <2>1. CASE UNCHANGED inbox
    BY Zenon, <2>1 DEF SameInboxes
  <2>2. CASE BroadcastSend(m, w)
    <3> DEFINE e == <<work[m][w].conn, m>>
    <3>1. e \in End /\ inbox' = Sent(e, work[m][w].files)
      BY Zenon, <2>2 DEF BroadcastSend, SyncInv, WorkersSendOnEnds
    <3>2. Other(e)[2] # m
      <4>1. e[2] = m
        OBVIOUS
      <4> HIDE DEF e
      <4>2. Peer(e) # m
        BY <3>1, <4>1, EndFacts
      <4> QED
        BY <4>2 DEF Other
    <3> HIDE DEF e
    <3>3. \A x \in End : x # Other(e) => inbox'[x] = inbox[x]
      BY Zenon, <1>1, <3>1 DEF Sent
    <3> QED
      BY Zenon, <3>2, <3>3 DEF SameInboxes
  <2> QED
    BY Zenon, <2>1, <2>2 DEF LocalChange, WorkerStep, BroadcastSnapshot, BroadcastList, netVars
<1> QED
  BY Zenon, <1>3, <1>4, <1>5, NothingNew

\* A change makes n list again; what it lists for c settles m's view.
LEMMA FreshOwnWorker ==
    ASSUME SyncInv, TwoNodes, NEW n \in Node, NEW m \in Node, n # m, NEW c, Has(n, m, c),
           LinkUp(n, m, c), Listing(n, c) \/ Settled(n, m, c), ~ raced'[n][m],
           NEW w \in Worker, LocalChange(n, w) \/ WorkerStep(n, w)
    PROVE  Listing(n, c)' \/ Settled(n, m, c)'
<1>1. /\ work \in [Node -> [Worker -> WorkRecord]] /\ raced \in [Node -> [Node -> BOOLEAN]]
  BY Zenon DEF SyncInv, TypeOK, WorkRecord
<1>2. \A v \in Worker : v # w => work'[n][v] = work[n][v]
  <2>1. \E r : work' = [work EXCEPT ![n][w] = r]
    <3>1. CASE LocalChange(n, w)
      BY <3>1 DEF LocalChange
    <3>2. CASE WorkerStep(n, w)
      BY <3>2 DEF WorkerStep, BroadcastSnapshot, BroadcastList, BroadcastSend
    <3> QED
      BY Zenon, <3>1, <3>2
  <2> QED
    BY ZenonT(40), <1>1, <2>1
<1>3. UNCHANGED serve
  BY Zenon DEF LocalChange, WorkerStep, BroadcastSnapshot, BroadcastList, BroadcastSend, netVars
<1>4. ASSUME NEW d, <<d, n>> \in End PROVE Peer(<<d, n>>) = m
  <2>1. <<d, n>>[2] = n
    OBVIOUS
  <2>2. Peer(<<d, n>>) \in Node /\ Peer(<<d, n>>) # n
    BY <1>4, <2>1, EndFacts
  <2> QED
    BY Zenon, <2>2, TheOther
<1>5. CASE LocalChange(n, w)
  <2>1. work[n][w] \in WorkRecord /\ work' = [work EXCEPT ![n][w].at = "snapshot"]
    BY Zenon, <1>1, <1>5 DEF LocalChange
  <2>2. work'[n][w].at = "snapshot"
    BY <1>1, <2>1 DEF WorkRecord
  <2> QED
    BY Zenon, <2>2 DEF Listing
<1>6. CASE BroadcastSnapshot(n, w)
  <2> DEFINE todo == {conns[n][k] : k \in Node} \ {NoConn}
  <2>1. work' = [work EXCEPT ![n][w] = Looping(todo)] /\ c \in todo
    BY Zenon, <1>6 DEF BroadcastSnapshot, Has
  <2> HIDE DEF todo
  <2>2. work'[n][w] = Looping(todo)
    BY Zenon, <1>1, <2>1
  <2>3. work'[n][w].at \in {"list", "send"} /\ c \in work'[n][w].todo
    BY Zenon, <2>1, <2>2, LoopingFacts
  <2> QED
    BY Zenon, <2>3 DEF Listing
<1>7. CASE BroadcastList(n, w)
  <2>1. PICK d \in work[n][w].todo :
          /\ work' = [work EXCEPT ![n][w] = [at |-> "send", todo |-> @.todo \ {d}, conn |-> d,
                                             files |-> ListForPeer(store[n], Peer(<<d, n>>))]]
          /\ raced' = [raced EXCEPT ![n][Peer(<<d, n>>)] = @ \/ Outstanding(n, Peer(<<d, n>>), d)]
    BY Zenon, <1>7 DEF BroadcastList
  <2>2. <<d, n>> \in End
    BY Zenon DEF SyncInv, WorkersSendOnEnds
  <2>3. Peer(<<d, n>>) = m
    BY Zenon, <1>4, <2>2
  <2>4. work[n][w].at = "list" /\ UNCHANGED <<store, inbox, offer>>
    BY Zenon, <1>7 DEF BroadcastList, netVars
  <2>5. raced'[n][m] = (raced[n][m] \/ Outstanding(n, m, d))
    BY Zenon, <1>1, <2>1, <2>3
  <2>6. ~ Outstanding(n, m, d)
    BY ZenonT(40), <2>5
  <2>7. /\ \A e \in End : e[2] = n /\ Peer(e) = m => serve[e] # "send"
        /\ \A v \in Worker : work[n][v].at = "send" => Peer(<<work[n][v].conn, n>>) # m
    BY SMTT(30), <2>6, NoneOutstanding
  <2>8. /\ work'[n][w].at = "send" /\ work'[n][w].todo = work[n][w].todo \ {d}
        /\ work'[n][w].conn = d /\ work'[n][w].files = ListForPeer(store[n], m)
    <3> DEFINE r == [at |-> "send", todo |-> work[n][w].todo \ {d}, conn |-> d,
                     files |-> ListForPeer(store[n], m)]
    <3>1. work'[n][w] = r
      BY Zenon, <1>1, <2>1, <2>3
    <3> QED
      BY <3>1
  <2>9. UnsentIsCurrent(n, m)'
    BY Zenon, <1>2, <1>3, <2>4, <2>7, <2>8 DEF UnsentIsCurrent
  <2>10. ASSUME d = c PROVE Sending(n, c)'
    BY Zenon, <2>8, <2>10 DEF Sending
  <2>11. ASSUME d # c, Listing(n, c) PROVE Listing(n, c)'
    <3>1. CASE serve[<<c, n>>] = "list"
      BY Zenon, <1>3, <3>1 DEF Listing
    <3>2. ASSUME NEW v \in Worker, work[n][v].at = "snapshot" PROVE Listing(n, c)'
      <4>1. v # w
        BY <2>4, <3>2
      <4> QED
        BY ZenonT(40), <1>2, <3>2, <4>1 DEF Listing
    <3>3. ASSUME NEW v \in Worker, work[n][v].at \in {"list", "send"}, c \in work[n][v].todo
          PROVE  Listing(n, c)'
      <4>1. work'[n][v].at \in {"list", "send"} /\ c \in work'[n][v].todo
        BY Zenon, <1>2, <2>8, <2>11, <3>3
      <4> QED
        BY Zenon, <4>1 DEF Listing
    <3> QED
      BY Zenon, <2>11, <3>1, <3>2, <3>3 DEF Listing
  <2>12. SameFiles(n, m)
    BY Zenon, <2>4 DEF SameFiles
  <2> QED
    BY Zenon, <2>4, <2>6, <2>9, <2>10, <2>11, <2>12, Taken
<1>8. CASE BroadcastSend(n, w)
  <2> DEFINE d == work[n][w].conn
             files == work[n][w].files
             e == <<d, n>>
  <2>1. /\ work[n][w].at = "send" /\ work[n][w] \in WorkRecord /\ e \in End /\ UNCHANGED <<store, offer>>
        /\ inbox' = Sent(e, files) /\ work' = [work EXCEPT ![n][w] = Looping(work[n][w].todo)]
    BY Zenon, <1>1, <1>8 DEF BroadcastSend, SyncInv, WorkersSendOnEnds
  <2>2. files \in SUBSET File
    BY <2>1 DEF WorkRecord
  <2>3. work'[n][w] = Looping(work[n][w].todo)
    BY Zenon, <1>1, <2>1
  <2>4. work'[n][w].at # "send" /\ work'[n][w].todo = work[n][w].todo
        /\ (work[n][w].todo # {} => work'[n][w].at = "list")
    BY Zenon, <2>3, LoopingFacts
  <2>5. Peer(e) = m
    BY Zenon, <1>4, <2>1
  <2>6. ASSUME Settled(n, m, c) PROVE files = ListForPeer(store[n], m)
    BY Zenon, <2>1, <2>5, <2>6 DEF Settled, UnsentIsCurrent
  <2>7. ASSUME UnsentIsCurrent(n, m) PROVE UnsentIsCurrent(n, m)'
    BY Zenon, <1>2, <1>3, <2>1, <2>4, <2>7 DEF UnsentIsCurrent
  <2>8. ASSUME d # c, Sending(n, c) PROVE Sending(n, c)'
    BY Zenon, <1>2, <1>3, <2>8 DEF Sending
  <2>9. ASSUME Listing(n, c) PROVE Listing(n, c)'
    <3>1. CASE serve[<<c, n>>] = "list"
      BY Zenon, <1>3, <3>1 DEF Listing
    <3>2. ASSUME NEW v \in Worker, work[n][v].at = "snapshot" PROVE Listing(n, c)'
      <4>1. v # w
        BY <2>1, <3>2
      <4> QED
        BY Zenon, <1>2, <3>2, <4>1 DEF Listing
    <3>3. ASSUME NEW v \in Worker, work[n][v].at \in {"list", "send"}, c \in work[n][v].todo
          PROVE  Listing(n, c)'
      <4>1. work'[n][v].at \in {"list", "send"} /\ c \in work'[n][v].todo
        BY Zenon, <1>2, <2>4, <3>3
      <4> QED
        BY Zenon, <4>1 DEF Listing
    <3> QED
      BY Zenon, <2>9, <3>1, <3>2, <3>3 DEF Listing
  <2>10. SameFiles(n, m)
    BY ZenonT(40), <2>1 DEF SameFiles
  <2>11. e[2] = n /\ e[1] = d
    OBVIOUS
  <2> HIDE DEF e, d, files
  <2> QED
    BY ZenonT(40), <2>1, <2>2, <2>5, <2>6, <2>7, <2>8, <2>9, <2>10, <2>11, SentOn
<1> QED
  BY Zenon, <1>5, <1>6, <1>7, <1>8 DEF WorkerStep

\* What the invariant says of a connection that n has for m.
LEMMA FreshBefore ==
    ASSUME SyncInv, NEW n \in Node, NEW m \in Node, n # m, NEW c \in Conn,
           Has(n, m, c), LinkUp(n, m, c), ~ raced[n][m]
    PROVE  Listing(n, c) \/ Settled(n, m, c)
BY ZenonT(40) DEF SyncInv, Fresh

\* A new connection is not the one that n has for m.
LEMMA FreshConnect ==
    ASSUME SyncInv, NEW n \in Node, NEW m \in Node, n # m, NEW c \in Conn,
           Has(n, m, c)', LinkUp(n, m, c)', ~ raced'[n][m], NEW d \in Conn, Connect(d)
    PROVE  Listing(n, c)' \/ Settled(n, m, c)'
<1>1. /\ serve \in [End -> ServePlace] /\ sess \in [End -> BOOLEAN]
  BY Zenon DEF SyncInv, TypeOK, ServePlace
<1> DEFINE a == <<d, d[1]>>
           b == <<d, d[2]>>
<1>2. a \in End /\ b \in End /\ a[1] = d /\ b[1] = d
  BY DEF End
<1>3. /\ serve[a] = "unborn" /\ serve[b] = "unborn"
      /\ serve' = [serve EXCEPT ![a] = "register", ![b] = "register"]
      /\ sess' = [sess EXCEPT ![a] = TRUE, ![b] = TRUE]
      /\ UNCHANGED <<store, conns, offer, inbox, work, raced>>
  BY Zenon DEF Connect
<1>4. Has(n, m, c)
  BY Zenon, <1>3 DEF Has
<1>5. <<c, n>> \in End /\ <<c, m>> \in End /\ serve[<<c, n>>] \in Serving
  BY SMTT(30), <1>4, HasEnds
<1>6. c # d
  <2>1. <<c, n>> # a /\ <<c, n>> # b
    BY Zenon, <1>3, <1>5 DEF Serving
  <2>2. <<c, n>> = <<c, c[1]>> \/ <<c, n>> = <<c, c[2]>>
    BY SMTT(30), <1>5 DEF End
  <2> QED
    BY Zenon, <2>1, <2>2
<1>7. /\ <<c, n>> # a /\ <<c, n>> # b /\ <<c, m>> # a /\ <<c, m>> # b
  BY <1>6
<1> HIDE DEF a, b
<1>8. /\ \A e \in End : e # a /\ e # b => serve'[e] = serve[e] /\ sess'[e] = sess[e]
      /\ \A e \in End : e = a \/ e = b => serve[e] = "unborn" /\ serve'[e] = "register"
  BY Zenon, <1>1, <1>2, <1>3
<1>9. LinkUp(n, m, c) /\ ~ raced[n][m]
  BY Zenon, <1>3, <1>5, <1>7, <1>8 DEF LinkUp
<1>10. Listing(n, c) \/ Settled(n, m, c)
  BY Zenon, <1>4, <1>9, FreshBefore
<1>11. ASSUME NEW e \in End
       PROVE  (serve'[e] = "send" <=> serve[e] = "send") /\ (serve[e] = "list" => serve'[e] = "list")
  BY <1>8
<1>12. SameWork(n, m) /\ SameFiles(n, m) /\ SameInboxes(n, m)
  BY Zenon, <1>3, <1>11 DEF SameWork, SameFiles, SameInboxes
<1> QED
  BY SMTT(30), <1>4, <1>10, <1>12, NothingNew

\* A registered connection is listed for; the table entry of another pair, and the
\* return of another pair's Serve, say nothing of n and m.
LEMMA FreshTable ==
    ASSUME SyncInv, NEW n \in Node, NEW m \in Node, n # m, NEW c \in Conn,
           Has(n, m, c)', LinkUp(n, m, c)', ~ raced'[n][m],
           NEW x \in End, RegisterConn(x) \/ ServeReturn(x)
    PROVE  Listing(n, c)' \/ Settled(n, m, c)'
<1>1. /\ serve \in [End -> ServePlace] /\ conns \in [Node -> [Node -> Conn \cup {NoConn}]]
  BY Zenon DEF SyncInv, TypeOK, ServePlace
<1>2. x = <<x[1], x[2]>> /\ x[2] \in Node /\ Peer(x) \in Node
  BY EndFacts
<1>3. UNCHANGED <<store, offer, sess, inbox, work, raced>>
  BY Zenon DEF RegisterConn, ServeReturn
<1>4. PICK v \in ServePlace, d \in Conn \cup {NoConn} :
        /\ serve' = [serve EXCEPT ![x] = v] /\ conns' = [conns EXCEPT ![x[2]][Peer(x)] = d]
        /\ \/ serve[x] = "register" /\ v = "list" /\ d = x[1]
           \/ serve[x] = "recv" /\ v = "done" /\ d = NoConn
  <2>1. x[1] \in Conn
    BY EndFacts
  <2>2. CASE RegisterConn(x)
    <3>1. "list" \in ServePlace /\ x[1] \in Conn \cup {NoConn}
      BY <2>1 DEF ServePlace, Serving
    <3> QED
      BY Zenon, <2>2, <3>1 DEF RegisterConn
  <2>3. CASE ServeReturn(x)
    BY Zenon, <2>3 DEF ServeReturn, ServePlace
  <2> QED
    BY Zenon, <2>2, <2>3
<1>5. CASE x[2] = n /\ Peer(x) = m
  <2>1. c = d /\ c # NoConn
    BY Zenon, <1>1, <1>2, <1>4, <1>5 DEF Has
  <2>2. v = "list" /\ x = <<c, n>>
    BY Zenon, <1>2, <1>4, <1>5, <2>1
  <2>3. serve'[<<c, n>>] = "list"
    BY ZenonT(40), <1>1, <1>4, <2>2
  <2> QED
    BY Zenon, <2>3 DEF Listing
<1>6. CASE ~ (x[2] = n /\ Peer(x) = m)
  <2>1. conns'[n][m] = conns[n][m]
    BY Zenon, <1>1, <1>2, <1>4, <1>6
  <2>2. Has(n, m, c)
    BY Zenon, <2>1 DEF Has
  <2>3. LinkUp(n, m, c) /\ ~ raced[n][m]
    BY Zenon, <1>3 DEF LinkUp
  <2>4. Listing(n, c) \/ Settled(n, m, c)
    BY Zenon, <2>2, <2>3, FreshBefore
  <2>5. \A e \in End : e[2] = n /\ Peer(e) = m => serve'[e] = serve[e]
    BY Zenon, <1>1, <1>4, <1>6
  <2>6. SameWork(n, m) /\ SameFiles(n, m) /\ SameInboxes(n, m)
    BY Zenon, <1>3, <2>5 DEF SameWork, SameFiles, SameInboxes
  <2> QED
    BY <2>2, <2>4, <2>6, NothingNew
<1> QED
  BY Zenon, <1>5, <1>6

\* A session that is lost is not one of the two of c.
LEMMA FreshLost ==
    ASSUME SyncInv, NEW n \in Node, NEW m \in Node, n # m, NEW c \in Conn,
           Has(n, m, c)', LinkUp(n, m, c)', ~ raced'[n][m], NEW x \in End, SessionLost(x)
    PROVE  Listing(n, c)' \/ Settled(n, m, c)'
<1>1. sess \in [End -> BOOLEAN] /\ inbox \in [End -> Seq(SUBSET File)]
  BY Zenon DEF SyncInv, TypeOK
<1>2. /\ sess' = [sess EXCEPT ![x] = FALSE] /\ inbox' = [inbox EXCEPT ![x] = <<>>]
      /\ UNCHANGED <<store, conns, serve, offer, work, raced>>
  BY Zenon DEF SessionLost
<1>3. Has(n, m, c)
  BY Zenon, <1>2 DEF Has
<1>4. /\ <<c, n>> \in End /\ <<c, m>> \in End
  BY SMTT(30), <1>3, HasEnds
<1>5. x # <<c, n>> /\ x # <<c, m>>
  BY Zenon, <1>1, <1>2 DEF LinkUp
<1>6. LinkUp(n, m, c) /\ ~ raced[n][m]
  BY Zenon, <1>1, <1>2, <1>4, <1>5 DEF LinkUp
<1>7. CASE Listing(n, c)
  BY Zenon, <1>2, <1>7 DEF Listing
<1>8. CASE Settled(n, m, c)
  <2>1. UnsentIsCurrent(n, m)'
    BY Zenon, <1>2, <1>8 DEF Settled, UnsentIsCurrent
  <2>2. ElsewhereIsCurrent(n, m, c)'
    <3>1. \A i : i \notin 1..Len(<<>>)
      OBVIOUS
    <3>2. \A e \in End : inbox'[e] = inbox[e] \/ inbox'[e] = <<>>
      BY Zenon, <1>1, <1>2
    <3> QED
      BY ZenonT(40), <1>2, <1>8, <3>1, <3>2 DEF Settled, ElsewhereIsCurrent
  <2>3. inbox'[<<c, m>>] = inbox[<<c, m>>]
    BY Zenon, <1>1, <1>2, <1>4, <1>5
  <2>4. Sending(n, c)' <=> Sending(n, c)
    BY Zenon, <1>2 DEF Sending
  <2>5. Arrives(n, m, c)'
    BY Zenon, <1>2, <1>8, <2>3, <2>4 DEF Settled, Arrives
  <2> QED
    BY Zenon, <2>1, <2>2, <2>5 DEF Settled
<1> QED
  BY Zenon, <1>3, <1>6, <1>7, <1>8, FreshBefore

\* A crash of either node ends what the two had.
LEMMA FreshCrash ==
    ASSUME SyncInv, TwoNodes, NEW n \in Node, NEW m \in Node, n # m, NEW c \in Conn,
           Has(n, m, c)', LinkUp(n, m, c)', NEW k \in Node, Crash(k)
    PROVE  FALSE
<1>1. /\ sess \in [End -> BOOLEAN] /\ conns \in [Node -> [Node -> Conn \cup {NoConn}]]
  BY Zenon DEF SyncInv, TypeOK
<1>2. /\ conns' = [conns EXCEPT ![k] = [j \in Node |-> NoConn]]
      /\ sess' = [e \in End |-> sess[e] /\ ~ (e[2] = k /\ serve[e] # "unborn")]
  BY Zenon DEF Crash
<1>3. k = n \/ k = m
  BY Zenon DEF TwoNodes
<1>4. CASE k = n
  BY Zenon, <1>1, <1>2, <1>4 DEF Has
<1>5. CASE k = m
  <2>1. conns'[n] = conns[n]
    BY Zenon, <1>1, <1>2, <1>5
  <2>2. Has(n, m, c)
    BY Zenon, <2>1 DEF Has
  <2>3. <<c, m>> \in End
    BY ZenonT(40), <2>2, HasEnds
  <2>4. <<c, m>>[2] = m
    OBVIOUS
  <2>5. sess'[<<c, m>>] = (sess[<<c, m>>] /\ ~ (m = k /\ serve[<<c, m>>] # "unborn"))
    BY Zenon, <1>2, <2>3, <2>4
  <2>6. sess'[<<c, m>>]
    BY ZenonT(40) DEF LinkUp
  <2> QED
    BY Zenon, <1>5, <2>3, <2>5, <2>6 DEF SyncInv, SessionsAreServed
<1> QED
  BY Zenon, <1>3, <1>4, <1>5

\* Every step keeps what is said of a connection that n has for m.
LEMMA FreshStep ==
    ASSUME SyncInv, TwoNodes, [Next]_vars, NEW n \in Node, NEW m \in Node, n # m, NEW c \in Conn,
           Has(n, m, c)', LinkUp(n, m, c)', ~ raced'[n][m]
    PROVE  Listing(n, c)' \/ Settled(n, m, c)'
<1>0. raced \in [Node -> [Node -> BOOLEAN]]
  BY Zenon DEF SyncInv, TypeOK
<1>1. ASSUME UNCHANGED <<conns, sess>>, raced[n][m] => raced'[n][m]
      PROVE  Has(n, m, c) /\ LinkUp(n, m, c) /\ (Listing(n, c) \/ Settled(n, m, c))
  <2>1. Has(n, m, c) /\ LinkUp(n, m, c) /\ ~ raced[n][m]
    BY ZenonT(40), <1>1 DEF Has, LinkUp
  <2> QED
    BY Zenon, <2>1, FreshBefore
<1>2. CASE UNCHANGED vars
  <2>1. UNCHANGED <<store, conns, serve, offer, sess, inbox, work, raced>>
    BY Zenon, <1>2 DEF vars, netVars
  <2>2. Has(n, m, c) /\ (Listing(n, c) \/ Settled(n, m, c))
    BY Zenon, <1>1, <2>1
  <2>3. SameWork(n, m) /\ SameFiles(n, m) /\ SameInboxes(n, m)
    BY ZenonT(40), <2>1 DEF SameWork, SameFiles, SameInboxes
  <2> QED
    BY <2>2, <2>3, NothingNew
<1>3. ASSUME NEW x \in End, ServeList(x) \/ ServeSend(x) PROVE Listing(n, c)' \/ Settled(n, m, c)'
  <2>1. UNCHANGED <<conns, sess>>
    BY Zenon, <1>3 DEF ServeList, ServeSend
  <2>2. raced[n][m] => raced'[n][m]
    <3>1. CASE UNCHANGED raced
      BY Zenon, <3>1
    <3>2. CASE ServeList(x)
      <4>1. x[2] \in Node /\ Peer(x) \in Node
        BY SMTT(30), EndFacts
      <4> QED
        BY Zenon, <1>0, <3>2, <4>1 DEF ServeList
    <3> QED
      BY Zenon, <1>3, <3>1, <3>2 DEF ServeSend
  <2>3. Has(n, m, c) /\ LinkUp(n, m, c) /\ (Listing(n, c) \/ Settled(n, m, c))
    BY Zenon, <1>1, <2>1, <2>2
  <2> QED
    BY <1>3, <2>3, FreshServe
<1>4. ASSUME NEW x \in End, HandleCatalogOffer(x) PROVE Listing(n, c)' \/ Settled(n, m, c)'
  <2>1. UNCHANGED <<conns, sess, raced>>
    BY Zenon, <1>4 DEF HandleCatalogOffer
  <2>2. Has(n, m, c) /\ (Listing(n, c) \/ Settled(n, m, c))
    BY Zenon, <1>1, <2>1
  <2> QED
    BY <1>4, <2>2, FreshHandled
<1>5. ASSUME NEW y \in Node, NEW w \in Worker, LocalChange(y, w) \/ WorkerStep(y, w)
      PROVE  Listing(n, c)' \/ Settled(n, m, c)'
  <2>1. UNCHANGED <<conns, sess>>
    BY Zenon, <1>5 DEF LocalChange, WorkerStep, BroadcastSnapshot, BroadcastList, BroadcastSend, netVars
  <2>2. raced[n][m] => raced'[n][m]
    <3>1. CASE UNCHANGED raced
      BY Zenon, <3>1
    <3>2. CASE BroadcastList(y, w)
      <4>1. PICK d \in work[y][w].todo :
              raced' = [raced EXCEPT ![y][Peer(<<d, y>>)] = @ \/ Outstanding(y, Peer(<<d, y>>), d)]
        BY Zenon, <3>2 DEF BroadcastList
      <4> QED
        BY Zenon, <1>0, <4>1
    <3> QED
      BY Zenon, <1>5, <3>1, <3>2 DEF LocalChange, WorkerStep, BroadcastSnapshot, BroadcastSend
  <2>3. y = n \/ y = m
    BY ZenonT(40) DEF TwoNodes
  <2>4. CASE y = n
    <3>1. LocalChange(n, w) \/ WorkerStep(n, w)
      BY Zenon, <1>5, <2>4
    <3>2. Has(n, m, c) /\ LinkUp(n, m, c) /\ (Listing(n, c) \/ Settled(n, m, c))
      BY Zenon, <1>1, <2>1, <2>2
    <3> QED
      BY <3>1, <3>2, FreshOwnWorker
  <2>5. CASE y = m
    <3>1. LocalChange(m, w) \/ WorkerStep(m, w)
      BY Zenon, <1>5, <2>5
    <3>2. Has(n, m, c) /\ LinkUp(n, m, c) /\ (Listing(n, c) \/ Settled(n, m, c))
      BY Zenon, <1>1, <2>1, <2>2
    <3> QED
      BY <3>1, <3>2, FreshOtherWorker
  <2> QED
    BY Zenon, <2>3, <2>4, <2>5
<1> QED
  BY <1>2, <1>3, <1>4, <1>5, FreshConnect, FreshTable, FreshLost, FreshCrash DEF Next, ServeStep

\* A Serve goroutine that was started stays started; a session comes with one.
LEMMA SessionsStep == TypeOK /\ SessionsAreServed /\ [Next]_vars => SessionsAreServed'
<1> SUFFICES ASSUME TypeOK, SessionsAreServed, [Next]_vars PROVE SessionsAreServed'
  OBVIOUS
<1>1. serve \in [End -> ServePlace] /\ sess \in [End -> BOOLEAN]
  BY Zenon DEF TypeOK, ServePlace
<1>2. ASSUME UNCHANGED <<serve, sess>> PROVE SessionsAreServed'
  BY Zenon, <1>2 DEF SessionsAreServed
<1>3. ASSUME NEW e \in End, NEW v, v # "unborn", serve' = [serve EXCEPT ![e] = v], UNCHANGED sess
      PROVE  SessionsAreServed'
  BY Zenon, <1>1, <1>3 DEF SessionsAreServed
<1>4. ASSUME NEW e \in End, ServeStep(e) PROVE SessionsAreServed'
  <2>1. CASE HandleCatalogOffer(e)
    BY Zenon, <1>2, <2>1 DEF HandleCatalogOffer
  <2>2. CASE ~ HandleCatalogOffer(e)
    <3>1. \E v \in {"list", "send", "recv", "done"} : serve' = [serve EXCEPT ![e] = v] /\ UNCHANGED sess
      BY Zenon, <1>4, <2>2 DEF ServeStep, RegisterConn, ServeList, ServeSend, ServeReturn
    <3> QED
      BY <1>3, <3>1
  <2> QED
    BY Zenon, <2>1, <2>2
<1>5. ASSUME NEW c \in Conn, Connect(c) PROVE SessionsAreServed'
  <2> DEFINE a == <<c, c[1]>>
             b == <<c, c[2]>>
  <2>1. a \in End /\ b \in End
    BY DEF End
  <2>2. /\ serve' = [serve EXCEPT ![a] = "register", ![b] = "register"]
        /\ sess' = [sess EXCEPT ![a] = TRUE, ![b] = TRUE]
    BY Zenon, <1>5 DEF Connect
  <2> HIDE DEF a, b
  <2>3. /\ \A e \in End : e # a /\ e # b => serve'[e] = serve[e] /\ sess'[e] = sess[e]
        /\ \A e \in End : e = a \/ e = b => serve'[e] = "register"
    BY Zenon, <1>1, <2>1, <2>2
  <2> QED
    BY <2>3 DEF SessionsAreServed
<1>6. ASSUME NEW e \in End, SessionLost(e) PROVE SessionsAreServed'
  BY Zenon, <1>1, <1>6 DEF SessionLost, SessionsAreServed
<1>7. ASSUME NEW k \in Node, Crash(k) PROVE SessionsAreServed'
  BY <1>1, <1>7 DEF Crash, SessionsAreServed
<1>8. ASSUME NEW y \in Node, NEW w \in Worker, LocalChange(y, w) \/ WorkerStep(y, w)
      PROVE  SessionsAreServed'
  BY Zenon, <1>2, <1>8 DEF LocalChange, WorkerStep, BroadcastSnapshot, BroadcastList, BroadcastSend, netVars
<1>9. CASE UNCHANGED vars
  BY Zenon, <1>2, <1>9 DEF vars, netVars
<1> QED
  BY Zenon, <1>4, <1>5, <1>6, <1>7, <1>8, <1>9 DEF Next

\* A worker is given connections by the table, which names ends of its own node.
LEMMA SendOnStep ==
    TypeOK /\ TableNamesServedConns /\ WorkersSendOnEnds /\ [Next]_vars => WorkersSendOnEnds'
<1> SUFFICES ASSUME TypeOK, TableNamesServedConns, WorkersSendOnEnds, [Next]_vars
             PROVE  WorkersSendOnEnds'
  OBVIOUS
<1> DEFINE Fine(n, r) == /\ r.at = "send" => <<r.conn, n>> \in End
                         /\ \A c \in r.todo : <<c, n>> \in End
<1>0. work \in [Node -> [Worker -> WorkRecord]]
  BY Zenon DEF TypeOK, WorkRecord
<1>1. \A n \in Node, w \in Worker : Fine(n, work[n][w])
  BY Zenon DEF WorkersSendOnEnds
<1>2. ASSUME \A n \in Node, w \in Worker : Fine(n, work'[n][w]) PROVE WorkersSendOnEnds'
  BY Zenon, <1>2 DEF WorkersSendOnEnds
<1>3. ASSUME UNCHANGED work PROVE WorkersSendOnEnds'
  BY Zenon, <1>1, <1>2, <1>3
<1>4. ASSUME NEW n \in Node, NEW w \in Worker, NEW r, work' = [work EXCEPT ![n][w] = r], Fine(n, r)
      PROVE  WorkersSendOnEnds'
  <2> HIDE DEF Fine
  <2>1. \A k \in Node, v \in Worker : work'[k][v] = work[k][v] \/ (k = n /\ work'[k][v] = r)
    BY Zenon, <1>0, <1>4
  <2> QED
    BY Zenon, <1>1, <1>2, <1>4, <2>1
<1>5. ASSUME NEW n, NEW todo, \A c \in todo : <<c, n>> \in End PROVE Fine(n, Looping(todo))
  BY Zenon, <1>5, LoopingFacts
<1>6. ASSUME NEW n \in Node, NEW w \in Worker, LocalChange(n, w) PROVE WorkersSendOnEnds'
  <2> DEFINE r == [work[n][w] EXCEPT !.at = "snapshot"]
  <2>1. work[n][w] \in WorkRecord /\ work' = [work EXCEPT ![n][w] = r]
    BY Zenon, <1>0, <1>6 DEF LocalChange
  <2>2. r.at = "snapshot" /\ r.todo = work[n][w].todo
    BY <2>1 DEF WorkRecord
  <2>3. Fine(n, r)
    <3> HIDE DEF r
    <3>1. r.at # "send"
      BY <2>2
    <3> QED
      BY Zenon, <1>1, <2>2, <3>1
  <2> HIDE DEF r, Fine
  <2> QED
    BY Zenon, <1>4, <2>1, <2>3
<1>7. ASSUME NEW n \in Node, NEW w \in Worker, BroadcastSnapshot(n, w) PROVE WorkersSendOnEnds'
  <2> DEFINE todo == {conns[n][m] : m \in Node} \ {NoConn}
  <2>1. work' = [work EXCEPT ![n][w] = Looping(todo)]
    BY Zenon, <1>7 DEF BroadcastSnapshot
  <2>2. \A c \in todo : <<c, n>> \in End
    BY Zenon DEF TableNamesServedConns
  <2> HIDE DEF todo, Fine
  <2> QED
    BY Zenon, <1>4, <1>5, <2>1, <2>2
<1>8. ASSUME NEW n \in Node, NEW w \in Worker, BroadcastList(n, w) PROVE WorkersSendOnEnds'
  <2>1. PICK d \in work[n][w].todo :
          work' = [work EXCEPT ![n][w] = [at |-> "send", todo |-> @.todo \ {d}, conn |-> d,
                                          files |-> ListForPeer(store[n], Peer(<<d, n>>))]]
    BY Zenon, <1>8 DEF BroadcastList
  <2> DEFINE r == [at |-> "send", todo |-> work[n][w].todo \ {d}, conn |-> d,
                   files |-> ListForPeer(store[n], Peer(<<d, n>>))]
  <2>2. work' = [work EXCEPT ![n][w] = r]
    BY Zenon, <2>1
  <2>3. r.todo = work[n][w].todo \ {d} /\ r.conn = d
    OBVIOUS
  <2>4. Fine(n, r)
    <3> HIDE DEF r
    <3> QED
      BY Zenon, <1>1, <2>3
  <2> HIDE DEF r, Fine
  <2> QED
    BY Zenon, <1>4, <2>2, <2>4
<1>9. ASSUME NEW n \in Node, NEW w \in Worker, BroadcastSend(n, w) PROVE WorkersSendOnEnds'
  <2>1. work' = [work EXCEPT ![n][w] = Looping(work[n][w].todo)]
    BY Zenon, <1>9 DEF BroadcastSend
  <2>2. \A c \in work[n][w].todo : <<c, n>> \in End
    BY Zenon, <1>1
  <2> HIDE DEF Fine
  <2> QED
    BY Zenon, <1>4, <1>5, <2>1, <2>2
<1>10. ASSUME NEW k \in Node, Crash(k) PROVE WorkersSendOnEnds'
  <2>1. \A n \in Node, w \in Worker : work'[n][w] = work[n][w] \/ work'[n][w] = IdleWorker
    BY Zenon, <1>0, <1>10 DEF Crash
  <2>2. \A n : Fine(n, IdleWorker)
    BY DEF IdleWorker
  <2> HIDE DEF Fine
  <2> QED
    BY Zenon, <1>1, <1>2, <2>1, <2>2
<1>11. ASSUME NEW e \in End, ServeStep(e) \/ SessionLost(e) PROVE WorkersSendOnEnds'
  <2>1. UNCHANGED work
    BY Zenon, <1>11 DEF ServeStep, SessionLost, RegisterConn, ServeList, ServeSend, HandleCatalogOffer, ServeReturn
  <2> QED
    BY Zenon, <1>3, <2>1
<1>12. ASSUME NEW c \in Conn, Connect(c) PROVE WorkersSendOnEnds'
  BY Zenon, <1>3, <1>12 DEF Connect
<1>13. CASE UNCHANGED vars
  BY Zenon, <1>3, <1>13 DEF vars, netVars
<1> QED
  BY Zenon, <1>6, <1>7, <1>8, <1>9, <1>10, <1>11, <1>12, <1>13 DEF Next, WorkerStep

\* Initially no node has a connection, and none has a session.
LEMMA SyncInvInit == Init => SyncInv
<1> SUFFICES ASSUME Init PROVE SyncInv
  OBVIOUS
<1>1. TypeOK
  BY Zenon, InitType
<1>2. TableNamesServedConns /\ SessionsAreServed
  BY SMTT(30) DEF Init, TableNamesServedConns, SessionsAreServed
<1>3. WorkersSendOnEnds
  BY DEF Init, WorkersSendOnEnds, IdleWorker
<1>4. \A n, m \in Node : \A c : ~ Has(n, m, c)
  BY DEF Init, Has
<1> QED
  BY Zenon, <1>1, <1>2, <1>3, <1>4 DEF SyncInv

\* The invariant is inductive when there are two nodes.
LEMMA SyncInvStep == TwoNodes /\ SyncInv /\ [Next]_vars => SyncInv'
<1> SUFFICES ASSUME TwoNodes, SyncInv, [Next]_vars PROVE SyncInv'
  OBVIOUS
<1>1. TypeOK' /\ TableNamesServedConns' /\ SessionsAreServed' /\ WorkersSendOnEnds'
  BY Zenon, TypeStep, TableStep, SessionsStep, SendOnStep DEF SyncInv
<1>2. ASSUME NEW n \in Node, NEW m \in Node, n # m, NEW c \in Conn, Has(n, m, c)'
      PROVE  Fresh(n, m, c)'
  BY Zenon, <1>2, FreshStep DEF Fresh
<1> QED
  BY Zenon, <1>1, <1>2 DEF SyncInv

\* With nothing in flight, what would arrive has arrived.
LEMMA SyncInvCurrent == SyncInv => CurrentUnlessRaced
<1> SUFFICES ASSUME SyncInv, NEW n \in Node, NEW m \in Node, n # m,
                    Linked(n, m), NoneInFlight(n, m), ~ raced[n][m]
             PROVE  ViewIsCurrent(n, m)
  BY Zenon DEF CurrentUnlessRaced
<1> DEFINE c == conns[n][m]
<1>1. Has(n, m, c)
  BY Zenon DEF Linked, Has
<1>2. /\ c \in Conn /\ <<c, n>> \in End /\ <<c, m>> \in End /\ Other(<<c, n>>) = <<c, m>>
      /\ Peer(<<c, n>>) = m /\ Peer(<<c, m>>) = n
  BY SMTT(30), <1>1, HasEnds
<1>3. <<c, n>>[2] = n /\ <<c, m>>[2] = m
  OBVIOUS
<1>4. LinkUp(n, m, c)
  BY Zenon, <1>2 DEF Linked, LinkUp
<1>5. serve[<<c, n>>] \notin {"list", "send"} /\ inbox[<<c, m>>] = <<>>
  BY Zenon, <1>2, <1>3 DEF NoneInFlight
<1>6. \A w \in Worker : work[n][w].at \notin {"snapshot", "list", "send"}
  BY DEF NoneInFlight
<1> HIDE DEF c
<1>7. ~ Listing(n, c) /\ ~ Sending(n, c)
  BY Zenon, <1>5, <1>6 DEF Listing, Sending
<1>8. Settled(n, m, c)
  BY Zenon, <1>1, <1>2, <1>4, <1>7, FreshBefore
<1>9. LastOf(inbox[<<c, m>>], ListByOwner(store[m], n)) = ListForPeer(store[n], m)
  BY Zenon, <1>7, <1>8 DEF Settled, Arrives
<1> QED
  BY Zenon, <1>5, <1>9 DEF LastOf, ViewIsCurrent

\* Two nodes: through reconnections, crashes and changes made while disconnected, a
\* linked peer's rows are the node's catalog once nothing is in flight, unless a list
\* was taken while an older one was on its way.  Any number of files, connections,
\* watcher goroutines, changes and faults.
THEOREM CurrentView == ASSUME TwoNodes PROVE Spec => []CurrentUnlessRaced
<1>1. SyncInv /\ [Next]_vars => SyncInv'
  BY Zenon, SyncInvStep
<1> QED
  BY SyncInvInit, <1>1, SyncInvCurrent, PTL DEF Spec
=============================================================================
