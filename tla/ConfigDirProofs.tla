--------------------------- MODULE ConfigDirProofs ---------------------------
(***************************************************************************)
(* What a configuration directory promises to any number of daemons, joins *)
(* and invites, with any number of crashes: the order of the database      *)
(* locks, who may listen on and take away kin.sock, the use of invites,    *)
(* and that nothing stored is lost.                                        *)
(***************************************************************************)
EXTENDS ConfigDir, WellFoundedInduction, TLAPS

-----------------------------------------------------------------------------
(***************************************************************************)
(* Types.                                                                  *)
(***************************************************************************)

\* The type invariant without what MergeEndpoints makes of the rows.
DirType ==
    /\ daemon \in [Daemon -> {"off", "opening", "stat", "dial", "remove", "listen",
                              "chmod", "unbind", "run", "closing", "closeCatalog",
                              "closePeers", "exiting", "exit"}]
    /\ listener \in [Daemon -> {"none", "open", "unlinked", "removing", "closed"}]
    /\ closer \in [Daemon -> {"none", "main", "watch"}]
    /\ socket \in Daemon \cup {None}
    /\ lock \in [{"peers", "catalog"} -> Process \cup {None}]
    /\ join \in [Join -> [at : {"idle", "open", "check", "save", "dial", "put",
                                "openCatalog", "exchange", "ok", "failed"},
                          token : Token, host : Process \cup {None}, valid : BOOLEAN]]
    /\ nonces \subseteq Token
    /\ peers = [n \in Node |-> peers[n]]

\* No process is there yet.
LEMMA TypeInit == Init => DirType
<1> SUFFICES ASSUME Init PROVE DirType
  OBVIOUS
<1>1. join \in [Join -> [at : {"idle", "open", "check", "save", "dial", "put",
                            "openCatalog", "exchange", "ok", "failed"},
                      token : Token, host : Process \cup {None}, valid : BOOLEAN]]
  BY Zenon DEF Init
<1>2. peers = [n \in Node |-> peers[n]]
  BY DEF Init
<1> QED
  BY <1>1, <1>2 DEF Init, DirType

\* Every action keeps the types.
LEMMA TypeStep == DirType /\ [Next]_vars => DirType'
<1> SUFFICES ASSUME DirType, [Next]_vars PROVE DirType'
  OBVIOUS
<1> USE ConfigAssumption DEF DirType, Process, daemons, disk
<1>1. CASE UNCHANGED vars
  BY <1>1 DEF vars
<1>2. ASSUME NEW p \in Daemon, OpenPeers(p) PROVE DirType'
  BY <1>2 DEF OpenPeers
<1>3. ASSUME NEW p \in Daemon, OpenCatalog(p) PROVE DirType'
  BY <1>3 DEF OpenCatalog
<1>4. ASSUME NEW p \in Daemon, RemoveStaleSocket(p) PROVE DirType'
  BY <1>4 DEF RemoveStaleSocket
<1>5. ASSUME NEW p \in Daemon, Listen(p) PROVE DirType'
  BY <1>5 DEF Listen
<1>6. ASSUME NEW p \in Daemon, Cancel(p) PROVE DirType'
  BY <1>6 DEF Cancel
<1>7. ASSUME NEW p \in Daemon, NEW g \in {"main", "watch"}, SetClosed(p, g) PROVE DirType'
  BY <1>7 DEF SetClosed
<1>8. ASSUME NEW p \in Daemon, CloseListener(p) PROVE DirType'
  BY SMTT(30), <1>8 DEF CloseListener, HangUp
<1>9. ASSUME NEW p \in Daemon, RemoveSocket(p) PROVE DirType'
  BY <1>9 DEF RemoveSocket
<1>10. ASSUME NEW p \in Daemon, ServerClosed(p) PROVE DirType'
  BY <1>10 DEF ServerClosed
<1>11. ASSUME NEW p \in Daemon, CloseDatabase(p) PROVE DirType'
  BY <1>11 DEF CloseDatabase
<1>12. ASSUME NEW p \in Daemon, Exit(p) PROVE DirType'
  BY <1>12 DEF Exit, Die, HangUp, Release
<1>13. ASSUME NEW p \in Daemon, Crash(p) PROVE DirType'
  BY <1>13 DEF Crash, Die, HangUp, Release
<1>14. ASSUME NEW j \in Join, TryDaemon(j) PROVE DirType'
  BY <1>14 DEF TryDaemon, SocketAnswers
<1>15. ASSUME NEW j \in Join, OpenStore(j) PROVE DirType'
  BY <1>15 DEF OpenStore, Fail, Goto, Release
<1>16. ASSUME NEW j \in Join, CheckToken(j) PROVE DirType'
  BY <1>16 DEF CheckToken, Fail, Goto, Release, StoreOpen
<1>17. ASSUME NEW j \in Join, SaveNonce(j) PROVE DirType'
  BY <1>17 DEF SaveNonce, Fail, Goto, Release, StoreOpen
<1>18. ASSUME NEW j \in Join, Dial(j) PROVE DirType'
  BY SMTT(30), <1>18 DEF Dial, Fail, Goto, Release
<1>19. ASSUME NEW j \in Join, PutPeer(j) PROVE DirType'
  BY <1>19 DEF PutPeer, Goto, StoreOpen
<1>20. ASSUME NEW j \in Join, JoinOpenCatalog(j) PROVE DirType'
  BY <1>20 DEF JoinOpenCatalog, Fail, Goto, Release
<1>21. ASSUME NEW j \in Join, ExchangeCatalog(j) PROVE DirType'
  BY <1>21 DEF ExchangeCatalog, Goto, Release
<1>22. ASSUME NEW j \in Join, KillJoin(j) PROVE DirType'
  BY <1>22 DEF KillJoin, Fail, Goto, Release
<1>23. ASSUME NEW t \in Token, Expire(t) PROVE DirType'
  BY <1>23 DEF Expire
<1>24. ASSUME NEW p \in Daemon, StatSocket(p) PROVE DirType'
  BY <1>24 DEF StatSocket
<1>25. ASSUME NEW p \in Daemon, DialSocket(p) PROVE DirType'
  BY <1>25 DEF DialSocket, SocketAnswers
<1>26. ASSUME NEW p \in Daemon, Chmod(p) PROVE DirType'
  BY <1>26 DEF Chmod
<1>27. ASSUME NEW p \in Daemon, UnlinkSocket(p) PROVE DirType'
  BY <1>27 DEF UnlinkSocket
<1> QED
  BY ZenonT(40), <1>1, <1>2, <1>3, <1>4, <1>5, <1>6, <1>7, <1>8, <1>9, <1>10, <1>11, <1>12, <1>13,
     <1>14, <1>15, <1>16, <1>17, <1>18, <1>19, <1>20, <1>21, <1>22, <1>23,
     <1>24, <1>25, <1>26, <1>27 DEF Next, DaemonStep, JoinStep

-----------------------------------------------------------------------------
(***************************************************************************)
(* The database locks.                                                     *)
(***************************************************************************)

\* Where Run has peers.db open.
HasPeers ==
    {"opening", "stat", "dial", "remove", "listen", "chmod", "unbind", "run", "closing",
     "closeCatalog", "closePeers"}

\* Run's place says which databases the daemon has open.
DaemonLocks ==
    \A p \in Daemon :
        /\ daemon[p] \in HasPeers => lock["peers"] = p
        /\ lock["catalog"] = p =>
               daemon[p] \in HasPeers \ {"opening", "closePeers"}

\* So does the place of a kin join that runs by itself.
JoinLocks ==
    \A j \in Join :
        /\ join[j].at \in {"check", "save", "dial", "put", "openCatalog", "exchange"}
               /\ join[j].host = j => lock["peers"] = j
        /\ join[j].at \in {"openCatalog", "exchange"} => join[j].host = j
        /\ lock["catalog"] = j => join[j].at = "exchange"

LockInv == DirType /\ DaemonLocks /\ JoinLocks /\ CatalogUnderPeers

\* No database is open at first.
LEMMA LockInit == Init => LockInv
<1> SUFFICES ASSUME Init PROVE LockInv
  OBVIOUS
<1>1. DirType
  BY TypeInit
<1>2. DaemonLocks
  BY SMTT(30), ConfigAssumption DEF Init, DaemonLocks, HasPeers
<1>3. JoinLocks
  BY Zenon, ConfigAssumption DEF Init, JoinLocks
<1>4. CatalogUnderPeers
  BY SMTT(30) DEF Init, CatalogUnderPeers
<1> QED
  BY <1>1, <1>2, <1>3, <1>4 DEF LockInv

\* peers.db is opened first and closed last, so who opens or closes a database
\* is the only process that has one.
LEMMA LockStep == LockInv /\ [Next]_vars => LockInv'
<1> SUFFICES ASSUME LockInv, [Next]_vars
      PROVE  (DaemonLocks /\ JoinLocks /\ CatalogUnderPeers)'
  BY TypeStep DEF LockInv
<1> USE ConfigAssumption
    DEF LockInv, DirType, DaemonLocks, JoinLocks, CatalogUnderPeers, HasPeers, Process,
        daemons, disk
<1>1. CASE UNCHANGED vars
  BY <1>1 DEF vars
<1>2. ASSUME NEW p \in Daemon, OpenPeers(p)
      PROVE  (DaemonLocks /\ JoinLocks /\ CatalogUnderPeers)'
  BY <1>2 DEF OpenPeers
<1>3. ASSUME NEW p \in Daemon, OpenCatalog(p)
      PROVE  (DaemonLocks /\ JoinLocks /\ CatalogUnderPeers)'
  BY <1>3 DEF OpenCatalog
<1>4. ASSUME NEW p \in Daemon, RemoveStaleSocket(p)
      PROVE  (DaemonLocks /\ JoinLocks /\ CatalogUnderPeers)'
  BY <1>4 DEF RemoveStaleSocket
<1>5. ASSUME NEW p \in Daemon, Listen(p)
      PROVE  (DaemonLocks /\ JoinLocks /\ CatalogUnderPeers)'
  BY <1>5 DEF Listen
<1>6. ASSUME NEW p \in Daemon, Cancel(p)
      PROVE  (DaemonLocks /\ JoinLocks /\ CatalogUnderPeers)'
  BY <1>6 DEF Cancel
<1>7. ASSUME NEW p \in Daemon, NEW g \in {"main", "watch"}, SetClosed(p, g)
      PROVE  (DaemonLocks /\ JoinLocks /\ CatalogUnderPeers)'
  BY <1>7 DEF SetClosed
<1>8. ASSUME NEW p \in Daemon, CloseListener(p)
      PROVE  (DaemonLocks /\ JoinLocks /\ CatalogUnderPeers)'
  BY <1>8 DEF CloseListener, HangUp
<1>9. ASSUME NEW p \in Daemon, RemoveSocket(p)
      PROVE  (DaemonLocks /\ JoinLocks /\ CatalogUnderPeers)'
  BY <1>9 DEF RemoveSocket
<1>10. ASSUME NEW p \in Daemon, ServerClosed(p)
       PROVE  (DaemonLocks /\ JoinLocks /\ CatalogUnderPeers)'
  BY <1>10 DEF ServerClosed
<1>11. ASSUME NEW p \in Daemon, CloseDatabase(p)
       PROVE  (DaemonLocks /\ JoinLocks /\ CatalogUnderPeers)'
  BY <1>11 DEF CloseDatabase
<1>12. ASSUME NEW p \in Daemon, Exit(p)
       PROVE  (DaemonLocks /\ JoinLocks /\ CatalogUnderPeers)'
  BY <1>12 DEF Exit, Die, HangUp, Release
<1>13. ASSUME NEW p \in Daemon, Crash(p)
       PROVE  (DaemonLocks /\ JoinLocks /\ CatalogUnderPeers)'
  BY <1>13 DEF Crash, Die, HangUp, Release
<1>14. ASSUME NEW j \in Join, TryDaemon(j)
       PROVE  (DaemonLocks /\ JoinLocks /\ CatalogUnderPeers)'
  BY <1>14 DEF TryDaemon, SocketAnswers
<1>15. ASSUME NEW j \in Join, OpenStore(j)
       PROVE  (DaemonLocks /\ JoinLocks /\ CatalogUnderPeers)'
  BY <1>15 DEF OpenStore, Fail, Goto, Release
<1>16. ASSUME NEW j \in Join, CheckToken(j)
       PROVE  (DaemonLocks /\ JoinLocks /\ CatalogUnderPeers)'
  BY <1>16 DEF CheckToken, Fail, Goto, Release, StoreOpen
<1>17. ASSUME NEW j \in Join, SaveNonce(j)
       PROVE  (DaemonLocks /\ JoinLocks /\ CatalogUnderPeers)'
  BY SMTT(30), <1>17 DEF SaveNonce, Fail, Goto, Release, StoreOpen
<1>18. ASSUME NEW j \in Join, Dial(j) PROVE (DaemonLocks /\ JoinLocks /\ CatalogUnderPeers)'
  BY <1>18 DEF Dial, Fail, Goto, Release
<1>19. ASSUME NEW j \in Join, PutPeer(j)
       PROVE  (DaemonLocks /\ JoinLocks /\ CatalogUnderPeers)'
  BY <1>19 DEF PutPeer, Goto, StoreOpen
<1>20. ASSUME NEW j \in Join, JoinOpenCatalog(j)
       PROVE  (DaemonLocks /\ JoinLocks /\ CatalogUnderPeers)'
  BY <1>20 DEF JoinOpenCatalog, Fail, Goto, Release
<1>21. ASSUME NEW j \in Join, ExchangeCatalog(j)
       PROVE  (DaemonLocks /\ JoinLocks /\ CatalogUnderPeers)'
  BY <1>21 DEF ExchangeCatalog, Goto, Release
<1>22. ASSUME NEW j \in Join, KillJoin(j)
       PROVE  (DaemonLocks /\ JoinLocks /\ CatalogUnderPeers)'
  BY <1>22 DEF KillJoin, Fail, Goto, Release
<1>23. ASSUME NEW t \in Token, Expire(t)
       PROVE  (DaemonLocks /\ JoinLocks /\ CatalogUnderPeers)'
  BY <1>23 DEF Expire
<1>24. ASSUME NEW p \in Daemon, StatSocket(p)
       PROVE  (DaemonLocks /\ JoinLocks /\ CatalogUnderPeers)'
  BY <1>24 DEF StatSocket
<1>25. ASSUME NEW p \in Daemon, DialSocket(p)
       PROVE  (DaemonLocks /\ JoinLocks /\ CatalogUnderPeers)'
  BY <1>25 DEF DialSocket, SocketAnswers
<1>26. ASSUME NEW p \in Daemon, Chmod(p)
       PROVE  (DaemonLocks /\ JoinLocks /\ CatalogUnderPeers)'
  BY <1>26 DEF Chmod
<1>27. ASSUME NEW p \in Daemon, UnlinkSocket(p)
       PROVE  (DaemonLocks /\ JoinLocks /\ CatalogUnderPeers)'
  BY <1>27 DEF UnlinkSocket
<1> HIDE DEF LockInv, DirType, DaemonLocks, JoinLocks, CatalogUnderPeers
<1> QED
  BY SMTT(30), <1>1, <1>2, <1>3, <1>4, <1>5, <1>6, <1>7, <1>8, <1>9, <1>10, <1>11, <1>12, <1>13,
     <1>14, <1>15, <1>16, <1>17, <1>18, <1>19, <1>20, <1>21, <1>22, <1>23,
     <1>24, <1>25, <1>26, <1>27 DEF Next, DaemonStep, JoinStep

\* CatalogUnderPeers for any number of daemons and joins: a process that has
\* peers.db open finds catalog.db free or its own.
THEOREM LockOrder == Spec => []CatalogUnderPeers
<1>1. LockInv => CatalogUnderPeers
  BY DEF LockInv
<1> QED
  BY <1>1, LockInit, LockStep, PTL DEF Spec

-----------------------------------------------------------------------------
(***************************************************************************)
(* The control socket.                                                     *)
(***************************************************************************)

\* Which goroutine may be closing the listener, by Run's place.
ListenerPlace ==
    \A p \in Daemon :
        /\ daemon[p] \in {"off", "opening", "stat", "dial", "remove", "listen"}
               => listener[p] = "none" /\ closer[p] = "none"
        /\ daemon[p] \in {"chmod", "run"} => listener[p] = "open" /\ closer[p] = "none"
        /\ daemon[p] = "unbind" => listener[p] \in {"open", "unlinked"} /\ closer[p] = "none"
        /\ listener[p] = "removing" => closer[p] # "none"
        /\ closer[p] = "main" /\ listener[p] \in {"open", "unlinked", "removing"}
               => daemon[p] = "closing"

\* Only the daemon with peers.db open binds kin.sock: until it lets go of the
\* database the path is its own or gone.
HolderHasSocket ==
    \A p \in Daemon :
        daemon[p] \in HasPeers /\ listener[p] # "none" => socket \in {p, None}

\* A listener is hidden from later daemons only after a late Close.
HiddenAfterLateClose ==
    \A q \in Daemon :
        listener[q] = "open" /\ socket # q => \E r \in Daemon : ClosedByServe(r)

\* What a starting daemon is about to remove answers nobody any more: while it
\* has peers.db open no other daemon binds the path.
StaleIsDead == \A p \in Daemon : daemon[p] = "remove" => ~ SocketAnswers

SocketInv ==
    LockInv /\ ListenerPlace /\ HolderHasSocket /\ HiddenAfterLateClose /\ StaleIsDead

\* Nobody listens at first.
LEMMA SocketInit == Init => SocketInv
BY ZenonT(40), LockInit DEF Init, SocketInv, ListenerPlace, HolderHasSocket, HiddenAfterLateClose,
   StaleIsDead, HasPeers

\* A step of Run or of Close moves the listener along with it.
LEMMA PlaceStep == SocketInv /\ [Next]_vars => ListenerPlace'
<1> SUFFICES ASSUME SocketInv, [Next]_vars PROVE ListenerPlace'
  OBVIOUS
<1> USE DEF SocketInv, LockInv, DirType, ListenerPlace, daemons, disk
<1>1. CASE UNCHANGED vars
  BY <1>1 DEF vars
<1>2. ASSUME NEW p \in Daemon, OpenPeers(p) PROVE ListenerPlace'
  BY <1>2 DEF OpenPeers
<1>3. ASSUME NEW p \in Daemon, OpenCatalog(p) PROVE ListenerPlace'
  BY <1>3 DEF OpenCatalog
<1>4. ASSUME NEW p \in Daemon, RemoveStaleSocket(p) PROVE ListenerPlace'
  BY <1>4 DEF RemoveStaleSocket
<1>5. ASSUME NEW p \in Daemon, Listen(p) PROVE ListenerPlace'
  BY <1>5 DEF Listen
<1>6. ASSUME NEW p \in Daemon, Cancel(p) PROVE ListenerPlace'
  BY <1>6 DEF Cancel
<1>7. ASSUME NEW p \in Daemon, NEW g \in {"main", "watch"}, SetClosed(p, g)
      PROVE  ListenerPlace'
  BY <1>7 DEF SetClosed
<1>8. ASSUME NEW p \in Daemon, CloseListener(p) PROVE ListenerPlace'
  BY <1>8 DEF CloseListener
<1>9. ASSUME NEW p \in Daemon, RemoveSocket(p) PROVE ListenerPlace'
  BY <1>9 DEF RemoveSocket
<1>10. ASSUME NEW p \in Daemon, ServerClosed(p) PROVE ListenerPlace'
  BY <1>10 DEF ServerClosed
<1>11. ASSUME NEW p \in Daemon, CloseDatabase(p) PROVE ListenerPlace'
  BY <1>11 DEF CloseDatabase
<1>12. ASSUME NEW p \in Daemon, Exit(p) PROVE ListenerPlace'
  BY <1>12 DEF Exit, Die
<1>13. ASSUME NEW p \in Daemon, Crash(p) PROVE ListenerPlace'
  BY SMTT(30), <1>13 DEF Crash, Die
<1>14. ASSUME NEW j \in Join, JoinStep(j) PROVE ListenerPlace'
  BY <1>14 DEF JoinStep, TryDaemon, OpenStore, CheckToken, SaveNonce, Dial, PutPeer,
     JoinOpenCatalog, ExchangeCatalog, KillJoin
<1>15. ASSUME NEW t \in Token, Expire(t) PROVE ListenerPlace'
  BY SMTT(30), <1>15 DEF Expire
<1>16. ASSUME NEW p \in Daemon, StatSocket(p) PROVE ListenerPlace'
  BY <1>16 DEF StatSocket
<1>17. ASSUME NEW p \in Daemon, DialSocket(p) PROVE ListenerPlace'
  BY <1>17 DEF DialSocket, SocketAnswers
<1>18. ASSUME NEW p \in Daemon, Chmod(p) PROVE ListenerPlace'
  BY <1>18 DEF Chmod
<1>19. ASSUME NEW p \in Daemon, UnlinkSocket(p) PROVE ListenerPlace'
  BY SMTT(30), <1>19 DEF UnlinkSocket
<1> HIDE DEF SocketInv, LockInv, DirType, ListenerPlace
<1> QED
  BY <1>1, <1>2, <1>3, <1>4, <1>5, <1>6, <1>7, <1>8, <1>9, <1>10, <1>11, <1>12, <1>13,
     <1>14, <1>15, <1>16, <1>17, <1>18, <1>19 DEF Next, DaemonStep

\* Only Listen binds the path, and only the daemon that has peers.db open.
LEMMA HolderStep == SocketInv /\ [Next]_vars => HolderHasSocket'
<1> SUFFICES ASSUME SocketInv, [Next]_vars PROVE HolderHasSocket'
  OBVIOUS
<1> USE DEF SocketInv, LockInv, DirType, DaemonLocks, ListenerPlace, HolderHasSocket,
   HasPeers, daemons, disk
<1>1. CASE UNCHANGED vars
  BY <1>1 DEF vars
<1>2. ASSUME NEW p \in Daemon, OpenPeers(p) PROVE HolderHasSocket'
  BY <1>2 DEF OpenPeers
<1>3. ASSUME NEW p \in Daemon, OpenCatalog(p) PROVE HolderHasSocket'
  BY <1>3 DEF OpenCatalog
<1>4. ASSUME NEW p \in Daemon, RemoveStaleSocket(p) PROVE HolderHasSocket'
  BY <1>4 DEF RemoveStaleSocket
<1>5. ASSUME NEW p \in Daemon, Listen(p) PROVE HolderHasSocket'
  <2> SUFFICES ASSUME NEW q \in Daemon, daemon'[q] \in HasPeers, listener'[q] # "none"
               PROVE  socket' \in {q, None}
    OBVIOUS
  <2>1. CASE q = p
    BY <1>5, <2>1 DEF Listen
  <2>2. CASE q # p
    <3>1. daemon[q] \in HasPeers /\ daemon[p] \in HasPeers
      BY <1>5, <2>2 DEF Listen
    <3> QED
      BY <2>2, <3>1
  <2> QED
    BY <2>1, <2>2
<1>6. ASSUME NEW p \in Daemon, Cancel(p) PROVE HolderHasSocket'
  BY <1>6 DEF Cancel
<1>7. ASSUME NEW p \in Daemon, NEW g \in {"main", "watch"}, SetClosed(p, g)
      PROVE  HolderHasSocket'
  BY <1>7 DEF SetClosed
<1>8. ASSUME NEW p \in Daemon, CloseListener(p) PROVE HolderHasSocket'
  BY <1>8 DEF CloseListener
<1>9. ASSUME NEW p \in Daemon, RemoveSocket(p) PROVE HolderHasSocket'
  BY <1>9 DEF RemoveSocket
<1>10. ASSUME NEW p \in Daemon, ServerClosed(p) PROVE HolderHasSocket'
  BY <1>10 DEF ServerClosed
<1>11. ASSUME NEW p \in Daemon, CloseDatabase(p) PROVE HolderHasSocket'
  BY <1>11 DEF CloseDatabase
<1>12. ASSUME NEW p \in Daemon, Exit(p) PROVE HolderHasSocket'
  BY <1>12 DEF Exit, Die
<1>13. ASSUME NEW p \in Daemon, Crash(p) PROVE HolderHasSocket'
  BY SMTT(30), <1>13 DEF Crash, Die
<1>14. ASSUME NEW j \in Join, JoinStep(j) PROVE HolderHasSocket'
  BY <1>14 DEF JoinStep, TryDaemon, OpenStore, CheckToken, SaveNonce, Dial, PutPeer,
     JoinOpenCatalog, ExchangeCatalog, KillJoin
<1>15. ASSUME NEW t \in Token, Expire(t) PROVE HolderHasSocket'
  BY <1>15 DEF Expire
<1>16. ASSUME NEW p \in Daemon, StatSocket(p) PROVE HolderHasSocket'
  BY <1>16 DEF StatSocket
<1>17. ASSUME NEW p \in Daemon, DialSocket(p) PROVE HolderHasSocket'
  BY <1>17 DEF DialSocket, SocketAnswers
<1>18. ASSUME NEW p \in Daemon, Chmod(p) PROVE HolderHasSocket'
  BY <1>18 DEF Chmod
<1>19. ASSUME NEW p \in Daemon, UnlinkSocket(p) PROVE HolderHasSocket'
  BY <1>19 DEF UnlinkSocket
<1> HIDE DEF SocketInv, LockInv, DirType, DaemonLocks, ListenerPlace, HolderHasSocket,
   HasPeers
<1> QED
  BY <1>1, <1>2, <1>3, <1>4, <1>5, <1>6, <1>7, <1>8, <1>9, <1>10, <1>11, <1>12, <1>13,
     <1>14, <1>15, <1>16, <1>17, <1>18, <1>19 DEF Next, DaemonStep

\* A late Close stays one: no daemon listens twice.
LEMMA LateStays ==
    ASSUME SocketInv, [Next]_vars, NEW r \in Daemon, ClosedByServe(r)
    PROVE  ClosedByServe(r)'
<1> USE DEF SocketInv, LockInv, DirType, ListenerPlace, ClosedByServe, daemons, disk
<1>1. CASE UNCHANGED vars
  BY <1>1 DEF vars
<1>2. ASSUME NEW p \in Daemon, OpenPeers(p) PROVE ClosedByServe(r)'
  BY <1>2 DEF OpenPeers
<1>3. ASSUME NEW p \in Daemon, OpenCatalog(p) PROVE ClosedByServe(r)'
  BY <1>3 DEF OpenCatalog
<1>4. ASSUME NEW p \in Daemon, RemoveStaleSocket(p) PROVE ClosedByServe(r)'
  BY <1>4 DEF RemoveStaleSocket
<1>5. ASSUME NEW p \in Daemon, Listen(p) PROVE ClosedByServe(r)'
  BY <1>5 DEF Listen
<1>6. ASSUME NEW p \in Daemon, Cancel(p) PROVE ClosedByServe(r)'
  BY <1>6 DEF Cancel
<1>7. ASSUME NEW p \in Daemon, NEW g \in {"main", "watch"}, SetClosed(p, g)
      PROVE  ClosedByServe(r)'
  BY <1>7 DEF SetClosed
<1>8. ASSUME NEW p \in Daemon, CloseListener(p) PROVE ClosedByServe(r)'
  BY <1>8 DEF CloseListener
<1>9. ASSUME NEW p \in Daemon, RemoveSocket(p) PROVE ClosedByServe(r)'
  BY <1>9 DEF RemoveSocket
<1>10. ASSUME NEW p \in Daemon, ServerClosed(p) PROVE ClosedByServe(r)'
  BY <1>10 DEF ServerClosed
<1>11. ASSUME NEW p \in Daemon, CloseDatabase(p) PROVE ClosedByServe(r)'
  BY <1>11 DEF CloseDatabase
<1>12. ASSUME NEW p \in Daemon, Exit(p) PROVE ClosedByServe(r)'
  BY <1>12 DEF Exit, Die
<1>13. ASSUME NEW p \in Daemon, Crash(p) PROVE ClosedByServe(r)'
  BY SMTT(30), <1>13 DEF Crash, Die
<1>14. ASSUME NEW j \in Join, JoinStep(j) PROVE ClosedByServe(r)'
  BY <1>14 DEF JoinStep, TryDaemon, OpenStore, CheckToken, SaveNonce, Dial, PutPeer,
     JoinOpenCatalog, ExchangeCatalog, KillJoin
<1>15. ASSUME NEW t \in Token, Expire(t) PROVE ClosedByServe(r)'
  BY <1>15 DEF Expire
<1>16. ASSUME NEW p \in Daemon, StatSocket(p) PROVE ClosedByServe(r)'
  BY <1>16 DEF StatSocket
<1>17. ASSUME NEW p \in Daemon, DialSocket(p) PROVE ClosedByServe(r)'
  BY <1>17 DEF DialSocket, SocketAnswers
<1>18. ASSUME NEW p \in Daemon, Chmod(p) PROVE ClosedByServe(r)'
  BY <1>18 DEF Chmod
<1>19. ASSUME NEW p \in Daemon, UnlinkSocket(p) PROVE ClosedByServe(r)'
  BY <1>19 DEF UnlinkSocket
<1> HIDE DEF SocketInv, LockInv, DirType, ListenerPlace, ClosedByServe
<1> QED
  BY SMTT(30), <1>1, <1>2, <1>3, <1>4, <1>5, <1>6, <1>7, <1>8, <1>9, <1>10, <1>11, <1>12, <1>13,
     <1>14, <1>15, <1>16, <1>17, <1>18, <1>19 DEF Next, DaemonStep

\* Between its Dial and its os.Remove a starting daemon is alone with the path.
LEMMA StaleStep == SocketInv /\ [Next]_vars => StaleIsDead'
<1> SUFFICES ASSUME SocketInv, [Next]_vars, NEW p \in Daemon, daemon'[p] = "remove"
             PROVE  ~ SocketAnswers'
  BY DEF StaleIsDead
<1> DirType
  BY DEF SocketInv, LockInv
<1> USE DEF daemons, disk
<1>1. SUFFICES ASSUME NEW q \in Daemon, socket' = q, listener'[q] = "open"
               PROVE  FALSE
  BY DEF SocketAnswers
<1>2. CASE socket = q /\ listener[q] = "open"
  <2>1. daemon[p] # "remove"
    BY <1>2 DEF SocketInv, StaleIsDead, SocketAnswers
  <2>2. ~ DialSocket(p)
    BY SMTT(30), <1>2 DEF DialSocket, SocketAnswers, DirType
  <2>3. ASSUME NEW o \in Daemon, DaemonStep(o) PROVE FALSE
    BY SMTT(30), <2>1, <2>2, <2>3
       DEF DaemonStep, OpenPeers, OpenCatalog, StatSocket, DialSocket, RemoveStaleSocket, Listen,
           Chmod, Cancel, SetClosed, UnlinkSocket, CloseListener, RemoveSocket, ServerClosed,
           CloseDatabase, Exit, Crash, Die, DirType
  <2>4. ASSUME NEW j \in Join, JoinStep(j) PROVE FALSE
    BY <2>1, <2>4
       DEF JoinStep, TryDaemon, OpenStore, CheckToken, SaveNonce, Dial, PutPeer,
           JoinOpenCatalog, ExchangeCatalog, KillJoin
  <2>5. ASSUME NEW t \in Token, Expire(t) PROVE FALSE
    BY <2>1, <2>5 DEF Expire
  <2>6. CASE UNCHANGED vars
    BY <2>1, <2>6 DEF vars
  <2> QED
    BY <2>3, <2>4, <2>5, <2>6 DEF Next
<1>3. CASE ~ (socket = q /\ listener[q] = "open")
  <2>1. \E o \in Daemon : Listen(o)
    <3>1. ASSUME NEW o \in Daemon, DaemonStep(o) PROVE Listen(o)
      BY SMTT(30), <1>1, <1>3, <3>1, ConfigAssumption
         DEF DaemonStep, OpenPeers, OpenCatalog, StatSocket, DialSocket, RemoveStaleSocket,
             Chmod, Cancel, SetClosed, UnlinkSocket, CloseListener, RemoveSocket, ServerClosed,
             CloseDatabase, Exit, Crash, Die, DirType
    <3>2. ASSUME NEW j \in Join, JoinStep(j) PROVE FALSE
      BY SMTT(30), <1>1, <1>3, <3>2
         DEF JoinStep, TryDaemon, OpenStore, CheckToken, SaveNonce, Dial, PutPeer,
             JoinOpenCatalog, ExchangeCatalog, KillJoin
    <3>3. ASSUME NEW t \in Token, Expire(t) PROVE FALSE
      BY <1>1, <1>3, <3>3 DEF Expire
    <3>4. CASE UNCHANGED vars
      BY <1>1, <1>3, <3>4 DEF vars
    <3> QED
      BY SMTT(30), <3>1, <3>2, <3>3, <3>4 DEF Next
  <2>2. PICK o \in Daemon : Listen(o)
    BY <2>1
  <2>3. o # p /\ daemon[p] = "remove" /\ daemon[o] = "listen"
    BY <2>2 DEF Listen, DirType
  <2> QED
    BY <2>3 DEF SocketInv, LockInv, DaemonLocks, HasPeers
<1> QED
  BY <1>2, <1>3

\* A listener that loses kin.sock loses it to a Close of Serve's goroutine: a
\* starting daemon leaves a socket that answers alone, and Run's own Close
\* comes before the next daemon can bind.
LEMMA HiddenStep == SocketInv /\ [Next]_vars => HiddenAfterLateClose'
<1> SUFFICES ASSUME SocketInv, [Next]_vars PROVE HiddenAfterLateClose'
  OBVIOUS
<1> DirType
  BY DEF SocketInv, LockInv
<1> USE DEF daemons, disk
<1>1. SUFFICES ASSUME Next PROVE HiddenAfterLateClose'
  <2> SUFFICES ASSUME UNCHANGED vars PROVE HiddenAfterLateClose'
    BY <1>1
  <2> QED
    BY DEF vars, SocketInv, HiddenAfterLateClose, ClosedByServe
<1>2. ASSUME NEW p \in Daemon, UnlinkSocket(p) PROVE HiddenAfterLateClose'
  <2> SUFFICES ASSUME NEW q \in Daemon, (listener[q] = "open" /\ socket # q)'
               PROVE  (\E r \in Daemon : ClosedByServe(r))'
    BY DEF HiddenAfterLateClose
  <2>1. q # p /\ listener[q] = "open"
    BY <1>2 DEF DirType, UnlinkSocket
  <2>2. CASE socket # q
    <3>1. PICK r \in Daemon : ClosedByServe(r)
      BY <2>1, <2>2 DEF SocketInv, HiddenAfterLateClose
    <3> QED
      BY <3>1, LateStays
  <2>3. CASE socket = q
    <3>1. closer[p] # "main"
      BY <1>2, <2>1, <2>3, ConfigAssumption
         DEF SocketInv, ListenerPlace, HolderHasSocket, HasPeers, DirType, UnlinkSocket
    <3>2. daemon[p] # "unbind"
      BY <2>1, <2>3, ConfigAssumption DEF SocketInv, HolderHasSocket, ListenerPlace, HasPeers
    <3>3. ClosedByServe(p)'
      BY <1>2, <3>1, <3>2 DEF SocketInv, ListenerPlace, DirType, ClosedByServe, UnlinkSocket
    <3> QED
      BY <3>3
  <2> QED
    BY <2>2, <2>3
<1>3. ASSUME NEW p \in Daemon, RemoveSocket(p) PROVE HiddenAfterLateClose'
  <2> SUFFICES ASSUME NEW q \in Daemon, (listener[q] = "open" /\ socket # q)'
               PROVE  (\E r \in Daemon : ClosedByServe(r))'
    BY DEF HiddenAfterLateClose
  <2>1. q # p /\ listener[q] = "open"
    BY <1>3 DEF DirType, RemoveSocket
  <2>2. CASE socket # q
    <3>1. PICK r \in Daemon : ClosedByServe(r)
      BY <2>1, <2>2 DEF SocketInv, HiddenAfterLateClose
    <3> QED
      BY <3>1, LateStays
  <2>3. CASE socket = q
    <3>1. closer[p] # "main"
      BY <1>3, <2>1, <2>3, ConfigAssumption
         DEF SocketInv, ListenerPlace, HolderHasSocket, HasPeers, DirType, RemoveSocket
    <3>2. ClosedByServe(p)'
      BY <1>3, <3>1 DEF SocketInv, ListenerPlace, DirType, ClosedByServe, RemoveSocket
    <3> QED
      BY <3>2
  <2> QED
    BY <2>2, <2>3
<1>4. ASSUME NEW p \in Daemon, RemoveStaleSocket(p) PROVE HiddenAfterLateClose'
  <2> SUFFICES ASSUME NEW q \in Daemon, (listener[q] = "open" /\ socket # q)'
               PROVE  (\E r \in Daemon : ClosedByServe(r))'
    BY DEF HiddenAfterLateClose
  <2>1. listener[q] = "open" /\ socket # q
    BY <1>4, ConfigAssumption
       DEF DirType, RemoveStaleSocket, SocketAnswers, SocketInv, StaleIsDead
  <2>2. PICK r \in Daemon : ClosedByServe(r)
    BY <2>1 DEF SocketInv, HiddenAfterLateClose
  <2> QED
    BY <2>2, LateStays
<1>5. ASSUME NEW p \in Daemon, Listen(p) PROVE HiddenAfterLateClose'
  <2> SUFFICES ASSUME NEW q \in Daemon, (listener[q] = "open" /\ socket # q)'
               PROVE  (\E r \in Daemon : ClosedByServe(r))'
    BY DEF HiddenAfterLateClose
  <2>1. listener[q] = "open" /\ socket # q
    BY <1>5, ConfigAssumption DEF DirType, Listen
  <2>2. PICK r \in Daemon : ClosedByServe(r)
    BY <2>1 DEF SocketInv, HiddenAfterLateClose
  <2> QED
    BY <2>2, LateStays
<1>6. ASSUME NEW p \in Daemon, CloseListener(p) \/ Exit(p) \/ Crash(p)
      PROVE  HiddenAfterLateClose'
  <2> SUFFICES ASSUME NEW q \in Daemon, (listener[q] = "open" /\ socket # q)'
               PROVE  (\E r \in Daemon : ClosedByServe(r))'
    BY DEF HiddenAfterLateClose
  <2>1. listener[q] = "open" /\ socket # q
    BY <1>6, ConfigAssumption DEF DirType, CloseListener, Exit, Crash, Die
  <2>2. PICK r \in Daemon : ClosedByServe(r)
    BY <2>1 DEF SocketInv, HiddenAfterLateClose
  <2> QED
    BY <2>2, LateStays
<1>7. CASE UNCHANGED <<listener, socket>>
  <2> SUFFICES ASSUME NEW q \in Daemon, (listener[q] = "open" /\ socket # q)'
               PROVE  (\E r \in Daemon : ClosedByServe(r))'
    BY DEF HiddenAfterLateClose
  <2>1. PICK r \in Daemon : ClosedByServe(r)
    BY <1>7 DEF SocketInv, HiddenAfterLateClose
  <2> QED
    BY <2>1, LateStays
<1>8. ASSUME NEW p \in Daemon, DaemonStep(p) PROVE HiddenAfterLateClose'
  <2>1. OpenPeers(p) \/ OpenCatalog(p) \/ StatSocket(p) \/ DialSocket(p) \/ Chmod(p)
           \/ Cancel(p) \/ ServerClosed(p) \/ CloseDatabase(p)
           \/ (\E g \in {"main", "watch"} : SetClosed(p, g))
        => UNCHANGED <<listener, socket>>
    BY SMTT(30)
       DEF OpenPeers, OpenCatalog, StatSocket, DialSocket, Chmod, Cancel, ServerClosed,
           CloseDatabase, SetClosed
  <2> QED
    BY SMTT(30), <1>2, <1>3, <1>4, <1>5, <1>6, <1>7, <1>8, <2>1 DEF DaemonStep
<1>9. ASSUME NEW j \in Join, JoinStep(j) PROVE HiddenAfterLateClose'
  BY <1>7, <1>9 DEF JoinStep, TryDaemon, OpenStore, CheckToken, SaveNonce, Dial, PutPeer,
     JoinOpenCatalog, ExchangeCatalog, KillJoin
<1>10. ASSUME NEW t \in Token, Expire(t) PROVE HiddenAfterLateClose'
  BY <1>7, <1>10 DEF Expire
<1> QED
  BY <1>1, <1>8, <1>9, <1>10 DEF Next

\* The socket invariant holds in every reachable state.
LEMMA SocketInvariant == Spec => []SocketInv
<1>1. SocketInv /\ [Next]_vars => SocketInv'
  BY LockStep, PlaceStep, HolderStep, HiddenStep, StaleStep DEF SocketInv
<1> QED
  BY <1>1, SocketInit, PTL DEF Spec

\* OneListener for any number of daemons: two listen at once only after a Close
\* of Serve's goroutine in a third.
THEOREM Listeners == Spec => []OneListener
<1>1. SocketInv => OneListener
  <2> SUFFICES ASSUME SocketInv, NEW p \in Daemon, NEW q \in Daemon, p # q,
                      listener[p] = "open", listener[q] = "open"
               PROVE  \E r \in Daemon \ {p, q} : ClosedByServe(r)
    BY DEF OneListener
  <2>1. socket # p \/ socket # q
    OBVIOUS
  <2>2. PICK r \in Daemon : ClosedByServe(r)
    BY <2>1 DEF SocketInv, HiddenAfterLateClose
  <2> QED
    BY <2>2 DEF ClosedByServe
<1> QED
  BY <1>1, SocketInvariant, PTL

\* SocketLostOnlyToOldClose for any number of daemons: a daemon that starts needs
\* peers.db, which the daemon that has bound kin.sock holds, so the step that
\* takes the path away is one of another daemon's Close, whose Run has given
\* peers.db up: it is Serve's goroutine that closes.
THEOREM SocketKept == Spec => SocketLostOnlyToOldClose
<1> DEFINE Lost(p, q) ==
      /\ closer[q] = "watch" /\ daemon[q] # "exit"
      /\ \/ listener[q] = "removing" /\ listener'[q] = "closed"
         \/ /\ listener[q] = "open" /\ listener'[q] = "unlinked"
            /\ \E r \in Daemon \ {p, q} : ClosedByServe(r)
<1> DEFINE Kept ==
      \A p \in Daemon :
          daemon[p] \in {"chmod", "run"} /\ daemon'[p] # "exit" /\ socket = p /\ socket' # p
              => \E q \in Daemon \ {p} : Lost(p, q)
<1>1. SocketInv /\ [Next]_vars => Kept
  <2> SUFFICES ASSUME SocketInv, [Next]_vars, NEW p \in Daemon,
                      daemon[p] \in {"chmod", "run"}, socket = p, socket' # p
               PROVE  \E q \in Daemon \ {p} : Lost(p, q)
    OBVIOUS
  <2>1. DirType /\ listener[p] = "open" /\ closer[p] = "none" /\ lock["peers"] = p /\ p # None
    BY ConfigAssumption DEF SocketInv, LockInv, ListenerPlace, DaemonLocks, HasPeers
  <2>2. ASSUME NEW q \in Daemon, q # p PROVE daemon[q] \notin HasPeers
    BY <2>1, <2>2 DEF SocketInv, LockInv, DaemonLocks
  <2>3. ASSUME NEW q \in Daemon, UnlinkSocket(q) PROVE q # p /\ Lost(p, q)
    <3>1. q # p /\ listener[q] = "open" /\ socket # q /\ daemon[q] # "exit"
      BY <2>1, <2>3 DEF UnlinkSocket
    <3>2. daemon[q] \notin {"closing", "unbind"}
      BY <2>2, <3>1 DEF HasPeers
    <3>3. closer[q] = "watch"
      BY <2>1, <2>3, <3>1, <3>2 DEF UnlinkSocket, SocketInv, ListenerPlace, DirType
    <3>4. PICK r \in Daemon : ClosedByServe(r)
      BY <3>1 DEF SocketInv, HiddenAfterLateClose
    <3>5. r \notin {p, q}
      BY <2>1, <3>1, <3>4 DEF ClosedByServe
    <3>6. listener'[q] = "unlinked"
      BY <2>1, <2>3 DEF UnlinkSocket, DirType
    <3> QED
      BY <3>1, <3>3, <3>4, <3>5, <3>6
  <2>4. ASSUME NEW q \in Daemon, RemoveSocket(q) PROVE q # p /\ Lost(p, q)
    <3>1. q # p /\ listener[q] = "removing" /\ daemon[q] # "exit"
      BY <2>1, <2>4 DEF RemoveSocket
    <3>2. daemon[q] # "closing"
      BY <2>2, <3>1 DEF HasPeers
    <3>3. closer[q] = "watch"
      BY <2>1, <3>1, <3>2 DEF SocketInv, ListenerPlace, DirType
    <3>4. listener'[q] = "closed"
      BY <2>1, <2>4 DEF RemoveSocket, DirType
    <3> QED
      BY <3>1, <3>3, <3>4
  <2>5. ASSUME NEW q \in Daemon PROVE ~ RemoveStaleSocket(q) /\ ~ Listen(q)
    BY <2>1, <2>2 DEF RemoveStaleSocket, Listen, HasPeers
  <2>6. socket' # socket
    BY Zenon
  <2>7. \E q \in Daemon : UnlinkSocket(q) \/ RemoveSocket(q)
    BY ZenonT(40), <2>5, <2>6
       DEF Next, DaemonStep, JoinStep, vars, daemons, OpenPeers, OpenCatalog, StatSocket,
           DialSocket, Chmod, Cancel, SetClosed, CloseListener, ServerClosed, CloseDatabase, Exit,
           Crash, Die, TryDaemon, OpenStore, CheckToken, SaveNonce, Dial, PutPeer,
           JoinOpenCatalog, ExchangeCatalog, KillJoin, Expire
  <2> HIDE DEF Lost
  <2> QED
    BY <2>3, <2>4, <2>7
<1>2. Kept => [Kept]_vars
  OBVIOUS
<1> QED
  BY <1>1, SocketInvariant, PTL DEF Spec, SocketLostOnlyToOldClose

-----------------------------------------------------------------------------
(***************************************************************************)
(* Invites.                                                                *)
(***************************************************************************)

\* Whatever Validate has accepted is on disk before anything is done with it.
AcceptedIsSpent ==
    \A j \in Join : join[j].valid \/ join[j].at \in {"dial", "put"} => join[j].token \in nonces

InviteInv == DirType /\ AcceptedIsSpent /\ PeersHaveSpentInvites

\* No invite has been seen and no peer is known at first.
LEMMA InviteInit == Init => InviteInv
BY Zenon, TypeInit DEF Init, InviteInv, AcceptedIsSpent, PeersHaveSpentInvites

\* SaveNonce commits before the dial, and PutPeer comes after it.
LEMMA InviteStep == InviteInv /\ [Next]_vars => InviteInv'
<1> SUFFICES ASSUME InviteInv, [Next]_vars PROVE (AcceptedIsSpent /\ PeersHaveSpentInvites)'
  BY TypeStep DEF InviteInv
<1> USE DEF InviteInv, DirType, AcceptedIsSpent, PeersHaveSpentInvites, daemons, disk
<1>1. CASE UNCHANGED vars
  BY SMTT(30), <1>1 DEF vars
<1>2. ASSUME NEW p \in Daemon, DaemonStep(p)
      PROVE  (AcceptedIsSpent /\ PeersHaveSpentInvites)'
  BY SMTT(30), <1>2
     DEF DaemonStep, OpenPeers, OpenCatalog, StatSocket, DialSocket, RemoveStaleSocket, Listen,
         Chmod, Cancel, SetClosed, UnlinkSocket, CloseListener, RemoveSocket, ServerClosed,
         CloseDatabase, Exit, Crash, Die, HangUp
<1>3. ASSUME NEW j \in Join, TryDaemon(j) PROVE (AcceptedIsSpent /\ PeersHaveSpentInvites)'
  BY <1>3 DEF TryDaemon, SocketAnswers
<1>4. ASSUME NEW j \in Join, OpenStore(j) PROVE (AcceptedIsSpent /\ PeersHaveSpentInvites)'
  BY SMTT(30), <1>4 DEF OpenStore, Fail, Goto, Release
<1>5. ASSUME NEW j \in Join, CheckToken(j)
      PROVE  (AcceptedIsSpent /\ PeersHaveSpentInvites)'
  BY SMTT(30), <1>5 DEF CheckToken, Fail, Goto, Release, StoreOpen
<1>6. ASSUME NEW j \in Join, SaveNonce(j) PROVE (AcceptedIsSpent /\ PeersHaveSpentInvites)'
  BY SMTT(30), <1>6 DEF SaveNonce, Fail, Goto, Release, StoreOpen
<1>7. ASSUME NEW j \in Join, Dial(j) PROVE (AcceptedIsSpent /\ PeersHaveSpentInvites)'
  BY <1>7 DEF Dial, Fail, Goto, Release
<1>8. ASSUME NEW j \in Join, PutPeer(j) PROVE (AcceptedIsSpent /\ PeersHaveSpentInvites)'
  BY <1>8 DEF PutPeer, Goto, StoreOpen
<1>9. ASSUME NEW j \in Join, JoinOpenCatalog(j)
      PROVE  (AcceptedIsSpent /\ PeersHaveSpentInvites)'
  BY SMTT(30), <1>9 DEF JoinOpenCatalog, Fail, Goto, Release
<1>10. ASSUME NEW j \in Join, ExchangeCatalog(j)
       PROVE  (AcceptedIsSpent /\ PeersHaveSpentInvites)'
  BY SMTT(30), <1>10 DEF ExchangeCatalog, Goto, Release
<1>11. ASSUME NEW j \in Join, KillJoin(j) PROVE (AcceptedIsSpent /\ PeersHaveSpentInvites)'
  BY <1>11 DEF KillJoin, Fail, Goto, Release
<1>12. ASSUME NEW t \in Token, Expire(t) PROVE (AcceptedIsSpent /\ PeersHaveSpentInvites)'
  BY SMTT(30), <1>12 DEF Expire
<1> HIDE DEF InviteInv, DirType, AcceptedIsSpent, PeersHaveSpentInvites
<1> QED
  BY <1>1, <1>2, <1>3, <1>4, <1>5, <1>6, <1>7, <1>8, <1>9, <1>10, <1>11, <1>12
     DEF Next, JoinStep

\* PeersHaveSpentInvites for any number of daemons, joins, invites and crashes.
THEOREM PeersSpent == Spec => []PeersHaveSpentInvites
<1>1. InviteInv => PeersHaveSpentInvites
  BY DEF InviteInv
<1> QED
  BY <1>1, InviteInit, InviteStep, PTL DEF Spec

\* SpentTokenIsRefused for any number of daemons, joins, invites and crashes.
THEOREM TokenRefused == Spec => SpentTokenIsRefused
<1> DEFINE Refused ==
      \A j, k \in Join :
          join[j].at = "check" /\ join'[j].at = "save" /\ join[k].valid
              => join[k].token # join[j].token
<1>1. InviteInv /\ [Next]_vars => Refused
  <2> SUFFICES ASSUME InviteInv, [Next]_vars, NEW j \in Join, NEW k \in Join,
                      join[j].at = "check", join'[j].at = "save", join[k].valid
               PROVE  join[k].token # join[j].token
    OBVIOUS
  <2>1. join[k].token \in nonces
    BY DEF InviteInv, AcceptedIsSpent
  <2>2. CheckToken(j)
    <3> USE DEF InviteInv, DirType, daemons, disk, Goto, Fail
    <3>1. ASSUME NEW p \in Daemon, DaemonStep(p) PROVE FALSE
      BY SMTT(30), <3>1
         DEF DaemonStep, OpenPeers, OpenCatalog, StatSocket, DialSocket, RemoveStaleSocket, Listen,
             Chmod, Cancel, SetClosed, UnlinkSocket, CloseListener, RemoveSocket, ServerClosed,
             CloseDatabase, Exit, Crash, Die, HangUp
    <3>2. ASSUME NEW i \in Join, JoinStep(i), ~ CheckToken(j) PROVE FALSE
      <4>1. CASE i = j
        BY SMTT(30), <3>2, <4>1 DEF JoinStep, TryDaemon, OpenStore, SaveNonce, Dial, PutPeer,
           JoinOpenCatalog, ExchangeCatalog, KillJoin
      <4>2. CASE i # j
        BY <3>2, <4>2 DEF JoinStep, TryDaemon, OpenStore, CheckToken, SaveNonce, Dial, PutPeer,
           JoinOpenCatalog, ExchangeCatalog, KillJoin
      <4> QED
        BY SMTT(30), <4>1, <4>2
    <3>3. join' # join
      OBVIOUS
    <3> QED
      BY SMTT(30), <3>1, <3>2, <3>3 DEF Next, Expire, vars
  <2>3. join[j].token \notin nonces
    BY SMTT(30), <2>2 DEF CheckToken, Fail, Goto, InviteInv, DirType
  <2> QED
    BY <2>1, <2>3
<1>2. Refused => [Refused]_vars
  OBVIOUS
<1> QED
  BY <1>1, InviteInit, InviteStep, PTL DEF Spec, SpentTokenIsRefused

-----------------------------------------------------------------------------
(***************************************************************************)
(* What is stored.  mergeEndpoints is a loop over the incoming endpoints:  *)
(* its result is a recursive function of the turns taken, of which the     *)
(* facts are shown by induction over the turns.                            *)
(***************************************************************************)

\* A set of numbers with 0 and the successor of each of its members is all of them.
LEMMA NatSetInduction ==
    ASSUME NEW T \in SUBSET Nat, 0 \in T, \A n \in T : n + 1 \in T
    PROVE  T = Nat
<1> DEFINE R == OpToRel(<, Nat)
           U == Nat \ T
<1>1. SUFFICES ASSUME U # {} PROVE FALSE
  BY Zenon
<1>2. IsWellFoundedOn(R, Nat)
  BY Zenon, NatLessThanWellFounded
<1>3. U \subseteq Nat
  OBVIOUS
<1>4. R = {ss \in Nat \X Nat : ss[1] < ss[2]}
  BY DEF OpToRel
<1> HIDE DEF R
<1>5. \E m \in U : \A k \in U : <<k, m>> \notin R
  <2> HIDE DEF U
  <2> QED
    BY Zenon, <1>1, <1>2, <1>3, WFMin
<1>6. PICK m \in U : \A k \in U : <<k, m>> \notin R
  BY Zenon, <1>5
<1>7. \A k \in U : ~ (k < m)
  BY Zenon, <1>4, <1>6
<1>8. m \in Nat /\ m # 0 /\ m - 1 \in Nat /\ m - 1 < m /\ (m - 1) + 1 = m
  OBVIOUS
<1> QED
  BY <1>6, <1>7, <1>8

\* What one turn of the loop makes of its result so far.
Merged(a, b, s, i) == IF b[i] \in Range(a) THEN s ELSE Append(s, b[i])

\* The loop of MergeEndpoints is a function of the turns taken.
LEMMA MergeLoop ==
    ASSUME NEW S, NEW a \in Seq(S), NEW b \in Seq(S)
    PROVE  \E r : /\ r[0] = a /\ \A i \in 1..Len(b) : r[i] = Merged(a, b, r[i - 1], i)
                  /\ MergeEndpoints(a, b) = r[Len(b)]
<1> DEFINE Runs(g, n) == g[0] = a /\ \A i \in 1..n : g[i] = Merged(a, b, g[i - 1], i)
           T == {n \in Nat : \E g : g = [i \in 0..n |-> g[i]] /\ Runs(g, n)}
<1>1. 0 \in T
  <2> DEFINE g == [i \in 0..0 |-> a]
  <2>1. g = [i \in 0..0 |-> g[i]] /\ g[0] = a /\ \A i \in 1..0 : FALSE
    OBVIOUS
  <2> HIDE DEF g
  <2> QED
    BY <2>1
<1>2. ASSUME NEW n \in T PROVE n + 1 \in T
  <2>1. PICK g : g = [i \in 0..n |-> g[i]] /\ Runs(g, n)
    OBVIOUS
  <2> DEFINE x == Merged(a, b, g[n], n + 1)
             h == [i \in 0..(n + 1) |-> IF i = n + 1 THEN x ELSE g[i]]
  <2>2. h = [i \in 0..(n + 1) |-> h[i]] /\ h[n + 1] = x /\ \A i \in 0..n : h[i] = g[i]
    <3> HIDE DEF x
    <3> QED
      OBVIOUS
  <2> HIDE DEF h
  <2>3. h[0] = a
    <3>1. 0 \in 0..n
      OBVIOUS
    <3> QED
      BY Zenon, <2>1, <2>2, <3>1
  <2>4. ASSUME NEW i \in 1..(n + 1) PROVE h[i] = Merged(a, b, h[i - 1], i)
    <3>1. i - 1 \in 0..n
      OBVIOUS
    <3>2. h[i - 1] = g[i - 1]
      BY Zenon, <2>2, <3>1
    <3>3. CASE i = n + 1
      <4>1. i - 1 = n
        BY <3>3
      <4> QED
        BY Zenon, <2>2, <3>2, <3>3, <4>1
    <3>4. CASE i # n + 1
      <4>1. i \in 1..n /\ i \in 0..n
        BY <3>4
      <4> QED
        BY Zenon, <2>1, <2>2, <3>2, <4>1
    <3> QED
      BY Zenon, <3>3, <3>4
  <2>5. n + 1 \in Nat
    OBVIOUS
  <2> QED
    BY Zenon, <2>2, <2>3, <2>4, <2>5
<1>3. T = Nat
  <2>1. T \in SUBSET Nat
    OBVIOUS
  <2> HIDE DEF T
  <2> QED
    BY <1>1, <1>2, <2>1, NatSetInduction
<1>4. Len(b) \in T
  <2>1. Len(b) \in Nat
    OBVIOUS
  <2> QED
    BY Zenon, <1>3, <2>1
<1>5. PICK g : g = [i \in 0..Len(b) |-> g[i]] /\ Runs(g, Len(b))
  BY Zenon, <1>4
<1> DEFINE Unfold(r) == [i \in 0..Len(b) |->
                           IF i = 0 THEN a
                           ELSE IF b[i] \in Range(a) THEN r[i - 1]
                           ELSE Append(r[i - 1], b[i])]
           result == CHOOSE r : r = Unfold(r)
<1>6. g = Unfold(g)
  <2>1. \A i \in 0..Len(b) : i = 0 \/ i \in 1..Len(b)
    OBVIOUS
  <2>2. \A i \in 0..Len(b) : g[i] = IF i = 0 THEN a
                           ELSE IF b[i] \in Range(a) THEN g[i - 1]
                           ELSE Append(g[i - 1], b[i])
    BY Zenon, <1>5, <2>1 DEF Merged
  <2> QED
    BY Zenon, <1>5, <2>2
<1>7. result = Unfold(result)
  <2> HIDE DEF Unfold
  <2> QED
    BY Zenon, <1>6
<1>8. MergeEndpoints(a, b) = result[Len(b)]
  BY Zenon DEF MergeEndpoints
<1> HIDE DEF result
<1>9. result[0] = a
  <2>1. 0 \in 0..Len(b)
    OBVIOUS
  <2> QED
    BY Zenon, <1>7, <2>1
<1>10. ASSUME NEW i \in 1..Len(b) PROVE result[i] = Merged(a, b, result[i - 1], i)
  <2>1. i \in 0..Len(b) /\ i # 0
    OBVIOUS
  <2> QED
    BY Zenon, <1>7, <2>1 DEF Merged
<1> QED
  BY Zenon, <1>8, <1>9, <1>10

\* mergeEndpoints keeps the existing endpoints, in order, adds those incoming ones that
\* are new, and drops none; without repetitions on either side it makes none.
LEMMA MergeFacts ==
    ASSUME NEW S, NEW a \in Seq(S), NEW b \in Seq(S), IsInjective(a), IsInjective(b)
    PROVE  LET c == MergeEndpoints(a, b) IN
           /\ c \in Seq(S) /\ IsInjective(c) /\ Len(a) <= Len(c)
           /\ \A k \in 1..Len(a) : c[k] = a[k]
           /\ Range(c) = Range(a) \cup Range(b)
<1> DEFINE N == Len(b)
<1>1. PICK r : /\ r[0] = a /\ \A i \in 1..N : r[i] = Merged(a, b, r[i - 1], i)
               /\ MergeEndpoints(a, b) = r[N]
  BY MergeLoop
<1> DEFINE Kept(c) == c \in Seq(S) /\ Len(a) <= Len(c) /\ \A k \in 1..Len(a) : c[k] = a[k]
           New(c, n) == \A k \in 1..Len(c) : k > Len(a) =>
                            c[k] \notin Range(a) /\ \E j \in 1..n : c[k] = b[j]
           All(c, n) == \A j \in 1..n : \E k \in 1..Len(c) : c[k] = b[j]
           Once(c) == \A k, l \in 1..Len(c) : c[k] = c[l] => k = l
           Good(c, n) == Kept(c) /\ New(c, n) /\ All(c, n) /\ Once(c)
           T == {n \in Nat : n <= N => Good(r[n], n)}
<1>2. N \in Nat /\ Len(a) \in Nat /\ DOMAIN a = 1..Len(a) /\ DOMAIN b = 1..N
  OBVIOUS
<1>3. /\ \A y : y \in Range(a) <=> \E k \in 1..Len(a) : a[k] = y
      /\ \A y : y \in Range(b) <=> \E k \in 1..N : b[k] = y
  BY SMTT(30), <1>2 DEF Range
<1>4. 0 \in T
  <2>1. Once(a)
    BY Zenon, <1>2 DEF IsInjective
  <2>2. Kept(a) /\ New(a, 0) /\ All(a, 0)
    OBVIOUS
  <2> HIDE DEF Kept, New, All, Once
  <2> QED
    BY Zenon, <1>1, <2>1, <2>2
<1>5. ASSUME NEW n \in T, n + 1 <= N PROVE Good(r[n + 1], n + 1)
  <2> DEFINE c == r[n]
             x == b[n + 1]
             d == r[n + 1]
  <2>1. n \in Nat /\ n + 1 \in 1..N /\ (n + 1) - 1 = n /\ n <= N
    BY <1>2, <1>5
  <2>2. Kept(c) /\ New(c, n) /\ All(c, n) /\ Once(c)
    BY Zenon, <2>1
  <2>3. d = IF x \in Range(a) THEN c ELSE Append(c, x)
    BY Zenon, <1>1, <2>1 DEF Merged
  <2>4. x \in S
    BY <2>1
  <2>5. \A j \in 1..(n + 1) : j \in 1..n \/ j = n + 1
    BY <2>1
  <2>6. \A j \in 1..n : j \in 1..(n + 1) /\ b[j] # x
    <3>1. \A j \in 1..n : j \in 1..N /\ j \in 1..(n + 1) /\ j # n + 1
      BY <1>2, <2>1
    <3> QED
      BY Zenon, <1>2, <2>1, <3>1 DEF IsInjective
  <2>7. n + 1 \in 1..(n + 1)
    BY <2>1
  <2> HIDE DEF c, x, d, T
  <2>8. CASE x \in Range(a)
    <3>1. d = c
      BY Zenon, <2>3, <2>8
    <3>2. New(c, n + 1)
      BY Zenon, <2>2, <2>6
    <3>3. PICK k \in 1..Len(a) : a[k] = x
      BY Zenon, <1>3, <2>8
    <3>4. k \in 1..Len(c) /\ c[k] = x
      BY <1>2, <2>2, <3>3
    <3>5. All(c, n + 1)
      BY Zenon, <2>2, <2>5, <3>4 DEF x
    <3> HIDE DEF Kept, New, All, Once
    <3> QED
      BY Zenon, <2>2, <3>1, <3>2, <3>5 DEF d
  <2>9. CASE x \notin Range(a)
    <3>1. d = Append(c, x) /\ c \in Seq(S)
      BY Zenon, <2>2, <2>3, <2>9
    <3>2. /\ d \in Seq(S) /\ Len(d) = Len(c) + 1 /\ Len(c) \in Nat /\ d[Len(c) + 1] = x
          /\ \A k \in 1..Len(c) : d[k] = c[k]
      BY <2>4, <3>1
    <3>3. /\ \A k \in 1..Len(d) : k \in 1..Len(c) \/ k = Len(c) + 1
          /\ \A k \in 1..Len(c) : k \in 1..Len(d)
          /\ Len(c) + 1 \in 1..Len(d)
      BY <3>2
    <3>4. Kept(d)
      <4>1. Len(a) <= Len(d) /\ \A k \in 1..Len(a) : k \in 1..Len(c)
        BY <1>2, <2>2, <3>2
      <4> QED
        BY Zenon, <2>2, <3>2, <4>1
    <3>5. New(d, n + 1)
      <4> SUFFICES ASSUME NEW k \in 1..Len(d), k > Len(a)
                   PROVE  d[k] \notin Range(a) /\ \E j \in 1..(n + 1) : d[k] = b[j]
        OBVIOUS
      <4>1. CASE k = Len(c) + 1
        <5>1. d[k] = x /\ x = b[n + 1]
          BY Zenon, <3>2, <4>1 DEF x
        <5> QED
          BY Zenon, <2>7, <2>9, <5>1
      <4>2. CASE k \in 1..Len(c)
        <5>1. d[k] = c[k]
          BY Zenon, <3>2, <4>2
        <5>2. c[k] \notin Range(a) /\ \E j \in 1..n : c[k] = b[j]
          BY Zenon, <2>2, <4>2
        <5> QED
          BY Zenon, <2>6, <5>1, <5>2
      <4> QED
        BY Zenon, <3>3, <4>1, <4>2
    <3>6. All(d, n + 1)
      <4> SUFFICES ASSUME NEW j \in 1..(n + 1) PROVE \E k \in 1..Len(d) : d[k] = b[j]
        OBVIOUS
      <4>1. CASE j = n + 1
        <5>1. x = b[j]
          BY Zenon, <4>1 DEF x
        <5> QED
          BY Zenon, <3>2, <3>3, <5>1
      <4>2. CASE j \in 1..n
        <5>1. PICK k \in 1..Len(c) : c[k] = b[j]
          BY Zenon, <2>2, <4>2
        <5> QED
          BY Zenon, <3>2, <3>3, <5>1
      <4> QED
        BY Zenon, <2>5, <4>1, <4>2
    <3>7. ASSUME NEW k \in 1..Len(c) PROVE c[k] # x
      <4>1. CASE k > Len(a)
        <5>1. \E j \in 1..n : c[k] = b[j]
          BY Zenon, <2>2, <4>1
        <5> QED
          BY Zenon, <2>6, <5>1
      <4>2. CASE ~ (k > Len(a))
        <5>1. k \in 1..Len(a)
          BY <1>2, <4>2
        <5> QED
          BY Zenon, <1>3, <2>2, <2>9, <5>1
      <4> QED
        BY Zenon, <4>1, <4>2
    <3>8. Once(d)
      <4> SUFFICES ASSUME NEW k \in 1..Len(d), NEW l \in 1..Len(d), d[k] = d[l] PROVE k = l
        OBVIOUS
      <4>1. ASSUME NEW i \in 1..Len(c) PROVE d[i] = c[i] /\ c[i] # x
        BY Zenon, <3>2, <3>7
      <4>2. CASE k \in 1..Len(c) /\ l \in 1..Len(c)
        <5>1. c[k] = c[l]
          BY Zenon, <4>1, <4>2
        <5> QED
          BY Zenon, <2>2, <4>2, <5>1
      <4>3. CASE k = Len(c) + 1 \/ l = Len(c) + 1
        BY Zenon, <3>2, <3>3, <4>1, <4>3
      <4> QED
        BY Zenon, <3>3, <4>2, <4>3
    <3> HIDE DEF Kept, New, All, Once
    <3> QED
      BY Zenon, <3>4, <3>5, <3>6, <3>8 DEF d
  <2> QED
    BY Zenon, <2>8, <2>9
<1>6. T = Nat
  <2>1. T \in SUBSET Nat
    OBVIOUS
  <2>2. ASSUME NEW n \in T PROVE n + 1 \in T
    <3>1. n + 1 \in Nat
      OBVIOUS
    <3> QED
      BY Zenon, <1>5, <3>1
  <2> HIDE DEF T
  <2> QED
    BY <1>4, <2>1, <2>2, NatSetInduction
<1> DEFINE c == MergeEndpoints(a, b)
<1>7. Kept(c) /\ New(c, N) /\ All(c, N) /\ Once(c)
  <2>1. N <= N
    BY <1>2
  <2>2. N \in T
    <3> HIDE DEF T
    <3> QED
      BY Zenon, <1>2, <1>6
  <2>3. Good(r[N], N)
    <3> HIDE DEF Good
    <3> QED
      BY Zenon, <2>1, <2>2
  <2> HIDE DEF Kept, New, All, Once
  <2> QED
    BY Zenon, <1>1, <2>3
<1> HIDE DEF c
<1>8. DOMAIN c = 1..Len(c) /\ Len(c) \in Nat
  BY <1>7
<1>9. IsInjective(c) /\ \A y : y \in Range(c) <=> \E k \in 1..Len(c) : c[k] = y
  <2>1. IsInjective(c)
    BY Zenon, <1>7, <1>8 DEF IsInjective
  <2> QED
    BY <1>8, <2>1 DEF Range
<1>10. \A k \in 1..Len(c) : k > Len(a) \/ k \in 1..Len(a)
  BY <1>2, <1>8
<1>11. \A k \in 1..Len(a) : k \in 1..Len(c)
  BY <1>2, <1>7, <1>8
<1>12. Range(c) = Range(a) \cup Range(b)
  <2>1. ASSUME NEW y \in Range(c) PROVE y \in Range(a) \cup Range(b)
    <3>1. PICK k \in 1..Len(c) : c[k] = y
      BY Zenon, <1>9
    <3>2. CASE k \in 1..Len(a)
      <4>1. a[k] = y
        BY Zenon, <1>7, <3>1, <3>2
      <4> QED
        BY Zenon, <1>3, <3>2, <4>1
    <3>3. CASE k > Len(a)
      <4>1. \E j \in 1..N : y = b[j]
        BY Zenon, <1>7, <3>1, <3>3
      <4> QED
        BY Zenon, <1>3, <4>1
    <3> QED
      BY Zenon, <1>10, <3>2, <3>3
  <2>2. ASSUME NEW y \in Range(a) \cup Range(b) PROVE y \in Range(c)
    <3>1. CASE y \in Range(a)
      <4>1. PICK k \in 1..Len(a) : a[k] = y
        BY Zenon, <1>3, <3>1
      <4>2. c[k] = y
        BY Zenon, <1>7, <4>1
      <4> QED
        BY Zenon, <1>9, <1>11, <4>2
    <3>2. CASE y \in Range(b)
      <4>1. PICK k \in 1..N : b[k] = y
        BY Zenon, <1>3, <3>2
      <4>2. \E l \in 1..Len(c) : c[l] = b[k]
        BY Zenon, <1>7
      <4> QED
        BY Zenon, <1>9, <4>1, <4>2
    <3> QED
      BY Zenon, <3>1, <3>2
  <2> QED
    BY Zenon, <2>1, <2>2
<1> QED
  BY Zenon, <1>7, <1>9, <1>12 DEF c

\* PutPeer merges an invite's endpoints into a row; nothing else writes rows.
LEMMA RowsStep ==
    ASSUME DirType, [Next]_vars
    PROVE  \/ UNCHANGED peers
           \/ \E t \in Token :
                 peers' = [peers EXCEPT ![Inviter[t]] = MergeEndpoints(@, Endpoints[t])]
<1>1. ASSUME NEW j \in Join, PutPeer(j)
      PROVE  \/ UNCHANGED peers
             \/ \E t \in Token :
                   peers' = [peers EXCEPT ![Inviter[t]] = MergeEndpoints(@, Endpoints[t])]
  <2>1. join[j].token \in Token
    BY DEF DirType
  <2> QED
    BY Zenon, <1>1, <2>1 DEF PutPeer
<1>2. ASSUME NEW p \in Daemon, DaemonStep(p) PROVE UNCHANGED peers
  BY Zenon, <1>2
     DEF DaemonStep, OpenPeers, OpenCatalog, StatSocket, DialSocket, RemoveStaleSocket, Listen,
         Chmod, Cancel, SetClosed, UnlinkSocket, CloseListener, RemoveSocket, ServerClosed,
         CloseDatabase, Exit, Crash, Die, disk
<1>3. ASSUME NEW j \in Join, JoinStep(j), ~ PutPeer(j) PROVE UNCHANGED peers
  BY Zenon, <1>3 DEF JoinStep, TryDaemon, OpenStore, CheckToken, SaveNonce, Dial, JoinOpenCatalog,
     ExchangeCatalog, KillJoin, disk
<1>4. ASSUME NEW t \in Token, Expire(t) PROVE UNCHANGED peers
  BY Zenon, <1>4 DEF Expire, disk
<1>5. CASE UNCHANGED vars
  BY Zenon, <1>5 DEF vars, disk
<1> QED
  BY Zenon, <1>1, <1>2, <1>3, <1>4, <1>5 DEF Next

\* SaveNonce adds a nonce; nothing else writes them.
LEMMA NoncesStep == [Next]_vars => nonces \subseteq nonces'
<1> SUFFICES ASSUME [Next]_vars PROVE nonces \subseteq nonces'
  OBVIOUS
<1>1. ASSUME NEW p \in Daemon, DaemonStep(p) PROVE UNCHANGED nonces
  BY Zenon, <1>1
     DEF DaemonStep, OpenPeers, OpenCatalog, StatSocket, DialSocket, RemoveStaleSocket, Listen,
         Chmod, Cancel, SetClosed, UnlinkSocket, CloseListener, RemoveSocket, ServerClosed,
         CloseDatabase, Exit, Crash, Die, disk
<1>2. ASSUME NEW j \in Join, JoinStep(j), ~ SaveNonce(j) PROVE UNCHANGED nonces
  BY ZenonT(40), <1>2 DEF JoinStep, TryDaemon, OpenStore, CheckToken, PutPeer, Dial, JoinOpenCatalog,
     ExchangeCatalog, KillJoin, disk
<1>3. ASSUME NEW j \in Join, SaveNonce(j) PROVE nonces \subseteq nonces'
  BY Zenon, <1>3 DEF SaveNonce
<1>4. ASSUME NEW t \in Token, Expire(t) PROVE UNCHANGED nonces
  BY Zenon, <1>4 DEF Expire, disk
<1>5. CASE UNCHANGED vars
  BY Zenon, <1>5 DEF vars, disk
<1> QED
  BY Zenon, <1>1, <1>2, <1>3, <1>4, <1>5 DEF Next

\* The rows, as mergeEndpoints needs them and leaves them.
RowType == peers \in [Node -> Seq(Endpoint)] /\ \A n \in Node : IsInjective(peers[n])

\* Merging an invite into its maker's row extends the row.
LEMMA MergeExtends ==
    ASSUME RowType, NEW t \in Token
    PROVE  LET old == peers[Inviter[t]]
               new == MergeEndpoints(old, Endpoints[t])
           IN  /\ new \in Seq(Endpoint) /\ IsInjective(new) /\ Len(old) <= Len(new)
               /\ \A k \in 1..Len(old) : new[k] = old[k]
<1>1. Inviter[t] \in Node
  BY Zenon DEF Node
<1>2. peers[Inviter[t]] \in Seq(Endpoint) /\ IsInjective(peers[Inviter[t]])
  BY Zenon, <1>1 DEF RowType
<1>3. Endpoints[t] \in Seq(Endpoint) /\ IsInjective(Endpoints[t])
  <2>1. Endpoints[t] \in Seq(Range(Endpoints[t])) /\ IsInjective(Endpoints[t])
    BY Zenon, EndpointsAssumption
  <2>2. Range(Endpoints[t]) \subseteq Endpoint
    BY Zenon DEF Endpoint
  <2> QED
    BY <2>1, <2>2
<1> QED
  BY <1>2, <1>3, MergeFacts

\* Rows keep their types.
LEMMA RowTypeStep == DirType /\ RowType /\ [Next]_vars => RowType'
<1> SUFFICES ASSUME DirType, RowType, [Next]_vars PROVE RowType'
  OBVIOUS
<1>1. CASE UNCHANGED peers
  BY Zenon, <1>1 DEF RowType
<1>2. ASSUME NEW t \in Token,
             peers' = [peers EXCEPT ![Inviter[t]] = MergeEndpoints(@, Endpoints[t])]
      PROVE  RowType'
  <2> DEFINE new == MergeEndpoints(peers[Inviter[t]], Endpoints[t])
  <2>1. new \in Seq(Endpoint) /\ IsInjective(new)
    BY Zenon, MergeExtends
  <2>2. peers' = [peers EXCEPT ![Inviter[t]] = new]
    BY Zenon, <1>2
  <2> HIDE DEF new
  <2> QED
    BY Zenon, <2>1, <2>2 DEF RowType
<1> QED
  BY Zenon, <1>1, <1>2, RowsStep

\* Tokens expire, and crashes are counted down.
LEMMA ClockStep ==
    /\ expired \subseteq Token /\ crashes \in 0..MaxCrashes /\ [Next]_vars
    => expired' \subseteq Token /\ crashes' \in 0..MaxCrashes
<1> SUFFICES ASSUME expired \subseteq Token, crashes \in 0..MaxCrashes, [Next]_vars
             PROVE  expired' \subseteq Token /\ crashes' \in 0..MaxCrashes
  OBVIOUS
<1>1. crashes > 0 => crashes - 1 \in 0..MaxCrashes
  BY ConfigAssumption
<1>2. UNCHANGED crashes \/ (crashes > 0 /\ crashes' = crashes - 1)
  <2>1. ASSUME NEW p \in Daemon, DaemonStep(p)
        PROVE  UNCHANGED crashes \/ (crashes > 0 /\ crashes' = crashes - 1)
    BY Zenon, <2>1
       DEF DaemonStep, OpenPeers, OpenCatalog, StatSocket, DialSocket, RemoveStaleSocket, Listen,
           Chmod, Cancel, SetClosed, UnlinkSocket, CloseListener, RemoveSocket, ServerClosed,
           CloseDatabase, Exit, Crash
  <2>2. ASSUME NEW j \in Join, JoinStep(j)
        PROVE  UNCHANGED crashes \/ (crashes > 0 /\ crashes' = crashes - 1)
    BY Zenon, <2>2 DEF JoinStep, TryDaemon, OpenStore, CheckToken, SaveNonce, Dial, PutPeer,
       JoinOpenCatalog, ExchangeCatalog, KillJoin
  <2> QED
    BY Zenon, <2>1, <2>2 DEF Next, Expire, vars
<1>3. UNCHANGED expired \/ \E t \in Token : expired' = expired \cup {t}
  <2>1. ASSUME NEW p \in Daemon, DaemonStep(p) PROVE UNCHANGED expired
    BY Zenon, <2>1
       DEF DaemonStep, OpenPeers, OpenCatalog, StatSocket, DialSocket, RemoveStaleSocket, Listen,
           Chmod, Cancel, SetClosed, UnlinkSocket, CloseListener, RemoveSocket, ServerClosed,
           CloseDatabase, Exit, Crash, Die
  <2>2. ASSUME NEW j \in Join, JoinStep(j) PROVE UNCHANGED expired
    BY Zenon, <2>2 DEF JoinStep, TryDaemon, OpenStore, CheckToken, SaveNonce, Dial, PutPeer,
       JoinOpenCatalog, ExchangeCatalog, KillJoin
  <2> QED
    BY Zenon, <2>1, <2>2 DEF Next, Expire, vars
<1> QED
  BY Zenon, <1>1, <1>2, <1>3

\* Types, for any number of processes and invites; in particular no peer's row ever
\* names an endpoint twice, however many invites of that peer are spent.
THEOREM TypeCorrect == Spec => []TypeOK
<1>1. Init => TypeOK
  <2> SUFFICES ASSUME Init PROVE TypeOK
    OBVIOUS
  <2>1. DirType
    BY Zenon, TypeInit
  <2>2. peers \in [Node -> Seq(Endpoint)] /\ \A n \in Node : IsInjective(peers[n])
    <3>1. <<>> \in Seq(Endpoint) /\ IsInjective(<<>>)
      BY DEF IsInjective
    <3> QED
      BY Zenon, <3>1 DEF Init
  <2>3. expired \subseteq Token /\ crashes \in 0..MaxCrashes
    BY ConfigAssumption DEF Init
  <2> QED
    BY Zenon, <2>1, <2>2, <2>3 DEF DirType, TypeOK
<1>2. TypeOK => DirType /\ RowType
  <2> SUFFICES ASSUME TypeOK PROVE DirType /\ RowType
    OBVIOUS
  <2>1. peers = [n \in Node |-> peers[n]]
    BY DEF TypeOK
  <2> QED
    BY Zenon, <2>1 DEF TypeOK, DirType, RowType
<1>3. TypeOK /\ [Next]_vars => TypeOK'
  <2> SUFFICES ASSUME TypeOK, [Next]_vars PROVE TypeOK'
    OBVIOUS
  <2>1. DirType' /\ RowType'
    BY Zenon, <1>2, TypeStep, RowTypeStep
  <2>2. expired' \subseteq Token /\ crashes' \in 0..MaxCrashes
    BY Zenon, ClockStep DEF TypeOK
  <2> QED
    BY Zenon, <2>1, <2>2 DEF DirType, RowType, TypeOK
<1> QED
  BY <1>1, <1>3, PTL DEF Spec

\* Through concurrent joins, crashes and restarts, a spent nonce stays spent, and a row of
\* peers.db is only ever extended at its end: what one process stored no other one undoes.
THEOREM OnlyGrows == Spec => StoreOnlyGrows
<1> DEFINE Grows ==
      /\ nonces \subseteq nonces'
      /\ \A n \in Node : /\ Len(peers[n]) <= Len(peers'[n])
                         /\ SubSeq(peers'[n], 1, Len(peers[n])) = peers[n]
<1>1. TypeOK /\ [Next]_vars => Grows
  <2> SUFFICES ASSUME TypeOK, [Next]_vars, NEW n \in Node
               PROVE  /\ Len(peers[n]) <= Len(peers'[n])
                      /\ SubSeq(peers'[n], 1, Len(peers[n])) = peers[n]
    BY Zenon, NoncesStep
  <2>1. RowType /\ DirType
    <3>1. peers = [k \in Node |-> peers[k]]
      BY SMTT(30) DEF TypeOK
    <3> QED
      BY Zenon, <3>1 DEF TypeOK, DirType, RowType
  <2>2. peers[n] \in Seq(Endpoint)
    BY Zenon, <2>1 DEF RowType
  <2>3. CASE peers'[n] = peers[n]
    <3>1. Len(peers[n]) <= Len(peers[n]) /\ SubSeq(peers[n], 1, Len(peers[n])) = peers[n]
      BY <2>2
    <3> QED
      BY Zenon, <2>3, <3>1
  <2>4. ASSUME NEW t \in Token, n = Inviter[t],
               peers'[n] = MergeEndpoints(peers[n], Endpoints[t])
        PROVE  /\ Len(peers[n]) <= Len(peers'[n])
               /\ SubSeq(peers'[n], 1, Len(peers[n])) = peers[n]
    <3> DEFINE old == peers[n]
               new == peers'[n]
    <3>1. /\ old \in Seq(Endpoint) /\ new \in Seq(Endpoint) /\ Len(old) <= Len(new)
          /\ \A k \in 1..Len(old) : new[k] = old[k]
      BY Zenon, <2>1, <2>2, <2>4, MergeExtends
    <3> HIDE DEF old, new
    <3>2. SubSeq(new, 1, Len(old)) = old
      BY <3>1
    <3> QED
      BY Zenon, <3>1, <3>2 DEF old, new
  <2>5. peers'[n] = peers[n]
        \/ \E t \in Token : n = Inviter[t] /\ peers'[n] = MergeEndpoints(peers[n], Endpoints[t])
    <3>1. CASE UNCHANGED peers
      BY Zenon, <3>1
    <3>2. ASSUME NEW t \in Token,
                 peers' = [peers EXCEPT ![Inviter[t]] = MergeEndpoints(@, Endpoints[t])]
          PROVE  \/ peers'[n] = peers[n]
                 \/ n = Inviter[t] /\ peers'[n] = MergeEndpoints(peers[n], Endpoints[t])
      BY Zenon, <2>1, <3>2 DEF RowType
    <3> QED
      BY Zenon, <2>1, <3>1, <3>2, RowsStep
  <2> QED
    BY Zenon, <2>3, <2>4, <2>5
<1> QED
  BY <1>1, TypeCorrect, PTL DEF Spec, StoreOnlyGrows
==============================================================================
