------------------------------ MODULE ConfigDir ------------------------------
(***************************************************************************)
(* The processes that share one configuration directory: daemons (daemon's *)
(* Run and Server), and kin join, which hands the invite to a daemon that  *)
(* answers on the control socket, or else opens the databases itself       *)
(* (cmdJoin, handleJoin, invite.Validate, peerstore).                      *)
(*                                                                         *)
(* The directory holds peers.db, catalog.db and kin.sock.  A database is   *)
(* open in at most one process (bbolt's file lock, waited for at most 3 s) *)
(* and the lock goes with the process.  A token is an invite; the clock    *)
(* only says which tokens have expired.                                    *)
(***************************************************************************)
EXTENDS Naturals, Sequences, Functions

CONSTANTS
    Daemon,         \* daemon processes, each started at most once
    Join,           \* runs of kin join
    Token,
    Inviter,        \* [Token -> the node that made it]
    Endpoints,      \* [Token -> sequence of endpoints]
    None,
    MaxCrashes

ASSUME ConfigAssumption ==
    /\ None \notin Daemon \cup Join
    /\ Daemon \cap Join = {}
    /\ MaxCrashes \in Nat

\* cmdInvite and handleInvite put the listen address and a relay:// address into
\* an invite, each at most once.
ASSUME EndpointsAssumption ==
    \A t \in Token : Endpoints[t] \in Seq(Range(Endpoints[t])) /\ IsInjective(Endpoints[t])

VARIABLES
    daemon,     \* where Daemon.Run is
    listener,   \* the control socket's listener of each daemon
    closer,     \* which goroutine of the daemon set Server.closed
    socket,     \* the daemon whose socket kin.sock names
    lock,       \* the process that has each database open
    join,       \* the joins
    nonces,     \* bucket nonces, by token
    peers,      \* bucket peers: endpoints by inviter, <<>> when there is no row
    expired,    \* tokens past their expiry
    crashes     \* what is left of MaxCrashes

disk == <<nonces, peers>>
daemons == <<daemon, listener, closer, socket>>
vars == <<daemons, lock, join, disk, expired, crashes>>

Node == {Inviter[t] : t \in Token}
Endpoint == UNION {Range(Endpoints[t]) : t \in Token}
Process == Daemon \cup Join

TypeOK ==
    /\ daemon \in [Daemon -> {"off", "opening", "stat", "dial", "remove", "listen",
                              "chmod", "unbind", "run", "closing", "closeCatalog",
                              "closePeers", "exiting", "exit"}]
    /\ listener \in [Daemon -> {"none", "open", "unlinked", "removing", "closed"}]
    /\ closer \in [Daemon -> {"none", "main", "watch"}]
    /\ socket \in Daemon \cup {None}
    /\ lock \in [{"peers", "catalog"} -> Process \cup {None}]
    /\ join \in [Join -> [at : {"idle", "open", "check", "save", "dial", "put",
                                "openCatalog", "exchange", "ok", "failed"},
                          token : Token, host : Process \cup {None}, valid : BOOLEAN]]
    /\ nonces \subseteq Token
    /\ peers \in [Node -> Seq(Endpoint)] /\ \A n \in Node : IsInjective(peers[n])
    /\ expired \subseteq Token
    /\ crashes \in 0..MaxCrashes

Init ==
    /\ daemon = [p \in Daemon |-> "off"]
    /\ listener = [p \in Daemon |-> "none"]
    /\ closer = [p \in Daemon |-> "none"]
    /\ socket = None
    /\ lock = [db \in {"peers", "catalog"} |-> None]
    /\ join \in [Join -> [at : {"idle"}, token : Token, host : {None}, valid : {FALSE}]]
    /\ nonces = {}
    /\ peers = [n \in Node |-> <<>>]
    /\ expired = {}
    /\ crashes = MaxCrashes

\* A connection to kin.sock is accepted.
SocketAnswers == \E p \in Daemon : socket = p /\ listener[p] = "open"

Release(p) == [db \in DOMAIN lock |-> IF lock[db] = p THEN None ELSE lock[db]]

\* The requests that daemon p had not answered fail at the other end.
HangUp(p) ==
    join' = [j \in Join |-> IF join[j].host = p /\ join[j].at # "ok"
                            THEN [join[j] EXCEPT !.at = "failed"] ELSE join[j]]

-----------------------------------------------------------------------------
(***************************************************************************)
(* Starting and stopping a daemon.                                         *)
(***************************************************************************)

\* peerstore.Open, or its timeout.
OpenPeers(p) ==
    /\ daemon[p] = "off"
    /\ \/ /\ lock["peers"] = None
          /\ lock' = [lock EXCEPT !["peers"] = p]
          /\ daemon' = [daemon EXCEPT ![p] = "opening"]
       \/ /\ lock["peers"] # None
          /\ daemon' = [daemon EXCEPT ![p] = "exit"]
          /\ UNCHANGED lock
    /\ UNCHANGED <<listener, closer, socket, join, disk, expired, crashes>>

\* catalog.Open; an error makes Run return through its deferred closes.
OpenCatalog(p) ==
    /\ daemon[p] = "opening"
    /\ \/ /\ lock["catalog"] = None
          /\ lock' = [lock EXCEPT !["catalog"] = p]
          /\ daemon' = [daemon EXCEPT ![p] = "stat"]
       \/ /\ lock["catalog"] # None
          /\ daemon' = [daemon EXCEPT ![p] = "closePeers"]
          /\ UNCHANGED lock
    /\ UNCHANGED <<listener, closer, socket, join, disk, expired, crashes>>

\* removeStaleSocket's Stat: no path, nothing to remove.
StatSocket(p) ==
    /\ daemon[p] = "stat"
    /\ daemon' = [daemon EXCEPT ![p] = IF socket = None THEN "listen" ELSE "dial"]
    /\ UNCHANGED <<listener, closer, socket, lock, join, disk, expired, crashes>>

\* Any socket file is taken for a leftover.
DialSocket_Skipped(p) ==
    /\ daemon[p] = "dial"
    /\ daemon' = [daemon EXCEPT ![p] = "remove"]
    /\ UNCHANGED <<listener, closer, socket, lock, join, disk, expired, crashes>>

\* Its Dial: a socket that answers is another daemon's, and is an error.
DialSocket(p) ==
    /\ daemon[p] = "dial"
    /\ daemon' = [daemon EXCEPT ![p] = IF SocketAnswers THEN "closeCatalog" ELSE "remove"]
    /\ UNCHANGED <<listener, closer, socket, lock, join, disk, expired, crashes>>

\* Its os.Remove, of whatever the path names now; a path that is gone is an error.
RemoveStaleSocket(p) ==
    /\ daemon[p] = "remove"
    /\ socket' = None
    /\ daemon' = [daemon EXCEPT ![p] = IF socket = None THEN "closeCatalog" ELSE "listen"]
    /\ UNCHANGED <<listener, closer, lock, join, disk, expired, crashes>>

\* net.Listen fails on an existing path.
Listen(p) ==
    /\ daemon[p] = "listen"
    /\ \/ /\ socket = None
          /\ socket' = p
          /\ listener' = [listener EXCEPT ![p] = "open"]
          /\ daemon' = [daemon EXCEPT ![p] = "chmod"]
       \/ /\ socket # None
          /\ daemon' = [daemon EXCEPT ![p] = "closeCatalog"]
          /\ UNCHANGED <<socket, listener>>
    /\ UNCHANGED <<closer, lock, join, disk, expired, crashes>>

\* os.Chmod fails on a path that is gone, and NewServer closes the listener
\* again.  Otherwise the daemon serves from here.
Chmod(p) ==
    /\ daemon[p] = "chmod"
    /\ daemon' = [daemon EXCEPT ![p] = IF socket = None THEN "unbind" ELSE "run"]
    /\ UNCHANGED <<listener, closer, socket, lock, join, disk, expired, crashes>>

\* A signal cancels the context.  Both Run and the goroutine that Serve
\* started now call Server.Close.
Cancel(p) ==
    /\ daemon[p] = "run"
    /\ daemon' = [daemon EXCEPT ![p] = "closing"]
    /\ UNCHANGED <<listener, closer, socket, lock, join, disk, expired, crashes>>

\* The first of the two sets Server.closed and does the work.
SetClosed(p, g) ==
    /\ daemon[p] = "closing" /\ closer[p] = "none"
    /\ closer' = [closer EXCEPT ![p] = g]
    /\ UNCHANGED <<daemon, listener, socket, lock, join, disk, expired, crashes>>

\* ln.Close, of Server.Close or of NewServer, first unlinks the path,
\* whatever it names ...
UnlinkSocket(p) ==
    /\ closer[p] # "none" \/ daemon[p] = "unbind"
    /\ daemon[p] # "exit" /\ listener[p] = "open"
    /\ socket' = None
    /\ listener' = [listener EXCEPT ![p] = "unlinked"]
    /\ UNCHANGED <<daemon, closer, lock, join, disk, expired, crashes>>

\* ... and then closes the descriptor.  NewServer returns its error with the
\* connections that were never accepted.
CloseListener(p) ==
    /\ daemon[p] # "exit" /\ listener[p] = "unlinked"
    /\ \/ /\ closer[p] # "none"
          /\ listener' = [listener EXCEPT ![p] = "removing"]
          /\ UNCHANGED <<daemon, join>>
       \/ /\ daemon[p] = "unbind"
          /\ listener' = [listener EXCEPT ![p] = "closed"]
          /\ daemon' = [daemon EXCEPT ![p] = "closeCatalog"]
          /\ HangUp(p)
    /\ UNCHANGED <<closer, socket, lock, disk, expired, crashes>>

\* os.Remove of the same path.
RemoveSocket(p) ==
    /\ daemon[p] # "exit" /\ listener[p] = "removing"
    /\ socket' = None
    /\ listener' = [listener EXCEPT ![p] = "closed"]
    /\ UNCHANGED <<daemon, closer, lock, join, disk, expired, crashes>>

\* Run's own call of Close returns: at once if the other goroutine is at it.
ServerClosed(p) ==
    /\ daemon[p] = "closing" /\ closer[p] # "none"
    /\ closer[p] = "main" => listener[p] = "closed"
    /\ daemon' = [daemon EXCEPT ![p] = "closeCatalog"]
    /\ UNCHANGED <<listener, closer, socket, lock, join, disk, expired, crashes>>

\* The databases are closed in the order they were opened.
CloseDatabase_PeersFirst(p) ==
    /\ \/ /\ daemon[p] = "closeCatalog"
          /\ lock' = [lock EXCEPT !["peers"] = None]
          /\ daemon' = [daemon EXCEPT ![p] = "closePeers"]
       \/ /\ daemon[p] = "closePeers"
          /\ lock' = Release(p)
          /\ daemon' = [daemon EXCEPT ![p] = "exiting"]
    /\ UNCHANGED <<listener, closer, socket, join, disk, expired, crashes>>

\* The deferred closes run last in, first out.
CloseDatabase(p) ==
    /\ \/ /\ daemon[p] = "closeCatalog"
          /\ lock' = [lock EXCEPT !["catalog"] = None]
          /\ daemon' = [daemon EXCEPT ![p] = "closePeers"]
       \/ /\ daemon[p] = "closePeers"
          /\ lock' = [lock EXCEPT !["peers"] = None]
          /\ daemon' = [daemon EXCEPT ![p] = "exiting"]
    /\ UNCHANGED <<listener, closer, socket, join, disk, expired, crashes>>

\* The operating system closes what is left; joins in the daemon are lost.
Die(p) ==
    /\ daemon' = [daemon EXCEPT ![p] = "exit"]
    /\ listener' = [listener EXCEPT ![p] = "closed"]
    /\ lock' = Release(p)
    /\ HangUp(p)
    /\ UNCHANGED <<closer, socket, disk, expired>>

Exit(p) == daemon[p] = "exiting" /\ Die(p) /\ UNCHANGED crashes

Crash(p) ==
    /\ daemon[p] \notin {"off", "exit"}
    /\ crashes > 0 /\ crashes' = crashes - 1
    /\ Die(p)

-----------------------------------------------------------------------------
(***************************************************************************)
(* Joining.                                                                *)
(***************************************************************************)

Goto(j, place) == join' = [join EXCEPT ![j].at = place]

\* The connection of a join that a daemon is to run waits for Serve's Accept.
Accepted(j) ==
    \A p \in Daemon : join[j].host = p => daemon[p] \notin {"chmod", "unbind"}

\* The database is open in the process where join j runs.
StoreOpen(j) == lock["peers"] = join[j].host

\* Where a join that goes wrong ends: kin join exits and loses its locks, a
\* daemon answers with an error.
Fail(j) ==
    /\ Goto(j, "failed")
    /\ lock' = Release(j)

\* ipc.TryDaemon: the daemon that answers gets the invite.
TryDaemon(j) ==
    /\ join[j].at = "idle"
    /\ \/ /\ SocketAnswers
          /\ join' = [join EXCEPT ![j].at = "check", ![j].host = socket]
       \/ /\ ~ SocketAnswers
          /\ join' = [join EXCEPT ![j].at = "open", ![j].host = j]
    /\ UNCHANGED <<daemons, lock, disk, expired, crashes>>

\* mustOpenStore.
OpenStore(j) ==
    /\ join[j].at = "open"
    /\ \/ /\ lock["peers"] = None
          /\ lock' = [lock EXCEPT !["peers"] = j]
          /\ Goto(j, "check")
       \/ lock["peers"] # None /\ Fail(j)
    /\ UNCHANGED <<daemons, disk, expired, crashes>>

\* Only the expiry is checked.
CheckToken_NoNonce(j) ==
    /\ join[j].at = "check" /\ Accepted(j)
    /\ IF join[j].token \notin expired /\ StoreOpen(j)
       THEN Goto(j, "save") /\ UNCHANGED lock
       ELSE Fail(j)
    /\ UNCHANGED <<daemons, disk, expired, crashes>>

\* Validate: expiry, signature (of a token that Encode made) and HasNonce.
CheckToken(j) ==
    /\ join[j].at = "check" /\ Accepted(j)
    /\ IF join[j].token \notin expired \cup nonces /\ StoreOpen(j)
       THEN Goto(j, "save") /\ UNCHANGED lock
       ELSE Fail(j)
    /\ UNCHANGED <<daemons, disk, expired, crashes>>

\* Validate does not record the nonce.
SaveNonce_Forgotten(j) ==
    /\ join[j].at = "save"
    /\ join' = [join EXCEPT ![j].at = "dial", ![j].valid = TRUE]
    /\ UNCHANGED <<daemons, lock, disk, expired, crashes>>

\* Validate's SaveNonce, a transaction of its own.
SaveNonce(j) ==
    /\ join[j].at = "save"
    /\ \/ /\ StoreOpen(j)
          /\ nonces' = nonces \cup {join[j].token}
          /\ join' = [join EXCEPT ![j].at = "dial", ![j].valid = TRUE]
          /\ UNCHANGED lock
       \/ ~ StoreOpen(j) /\ Fail(j) /\ UNCHANGED nonces
    /\ UNCHANGED <<daemons, peers, expired, crashes>>

\* The dialer tries the token's endpoints, of which there may be none; a
\* daemon's cancelled context ends a dial.
Dial(j) ==
    /\ join[j].at = "dial"
    /\ \/ /\ Endpoints[join[j].token] # <<>>
          /\ join[j].host = j \/ \E p \in Daemon : join[j].host = p /\ daemon[p] = "run"
          /\ Goto(j, "put") /\ UNCHANGED lock
       \/ Fail(j)
    /\ UNCHANGED <<daemons, disk, expired, crashes>>

\* Known endpoints are added again.
MergeEndpoints_Repeat(existing, incoming) == existing \o incoming

\* seen holds the existing endpoints only.
MergeEndpoints(existing, incoming) ==
    LET result[i \in 0..Len(incoming)] ==
          IF i = 0 THEN existing
          ELSE IF incoming[i] \in Range(existing) THEN result[i - 1]
          ELSE Append(result[i - 1], incoming[i])
    IN  result[Len(incoming)]

\* The invite's endpoints replace the known ones.
PutPeer_Overwrite(j) ==
    /\ join[j].at = "put"
    /\ LET t == join[j].token IN
       peers' = IF StoreOpen(j) THEN [peers EXCEPT ![Inviter[t]] = Endpoints[t]] ELSE peers
    /\ Goto(j, IF join[j].host = j THEN "openCatalog" ELSE "ok")
    /\ UNCHANGED <<daemons, lock, nonces, expired, crashes>>

\* PutPeer; its error is only logged.  The connection was made to the node
\* of the token's key, so a known node has that key.
PutPeer(j) ==
    /\ join[j].at = "put"
    /\ LET t == join[j].token IN
       peers' = IF StoreOpen(j)
                THEN [peers EXCEPT ![Inviter[t]] = MergeEndpoints(@, Endpoints[t])]
                ELSE peers
    /\ Goto(j, IF join[j].host = j THEN "openCatalog" ELSE "ok")
    /\ UNCHANGED <<daemons, lock, nonces, expired, crashes>>

\* mustOpenCatalog, in kin join only.
JoinOpenCatalog(j) ==
    /\ join[j].at = "openCatalog"
    /\ \/ /\ lock["catalog"] = None
          /\ lock' = [lock EXCEPT !["catalog"] = j]
          /\ Goto(j, "exchange")
       \/ lock["catalog"] # None /\ Fail(j)
    /\ UNCHANGED <<daemons, disk, expired, crashes>>

\* exchangeCatalog, whose errors are only logged; the deferred closes give
\* catalog.db back first.
ExchangeCatalog(j) ==
    /\ join[j].at = "exchange"
    /\ \/ /\ lock["catalog"] = j
          /\ lock' = [lock EXCEPT !["catalog"] = None]
          /\ UNCHANGED join
       \/ /\ lock["catalog"] # j
          /\ lock' = Release(j)
          /\ Goto(j, "ok")
    /\ UNCHANGED <<daemons, disk, expired, crashes>>

\* kin join is killed.
KillJoin(j) ==
    /\ join[j].host = j /\ join[j].at \notin {"ok", "failed"}
    /\ crashes > 0 /\ crashes' = crashes - 1
    /\ Fail(j)
    /\ UNCHANGED <<daemons, disk, expired>>

Expire(t) ==
    /\ t \notin expired
    /\ expired' = expired \cup {t}
    /\ UNCHANGED <<daemons, lock, join, disk, crashes>>

DaemonStep(p) ==
    \/ OpenPeers(p) \/ OpenCatalog(p) \/ StatSocket(p) \/ DialSocket(p)
    \/ RemoveStaleSocket(p) \/ Listen(p) \/ Chmod(p) \/ Cancel(p)
    \/ (\E g \in {"main", "watch"} : SetClosed(p, g))
    \/ UnlinkSocket(p) \/ CloseListener(p) \/ RemoveSocket(p) \/ ServerClosed(p)
    \/ CloseDatabase(p) \/ Exit(p) \/ Crash(p)

JoinStep(j) ==
    \/ TryDaemon(j) \/ OpenStore(j) \/ CheckToken(j) \/ SaveNonce(j) \/ Dial(j)
    \/ PutPeer(j) \/ JoinOpenCatalog(j) \/ ExchangeCatalog(j) \/ KillJoin(j)

Next ==
    \/ \E p \in Daemon : DaemonStep(p)
    \/ \E j \in Join : JoinStep(j)
    \/ \E t \in Token : Expire(t)

Spec == Init /\ [][Next]_vars

-----------------------------------------------------------------------------
(***************************************************************************)
(* Properties.                                                             *)
(***************************************************************************)

\* Serve's goroutine, not Run, has unlinked the socket of daemon r, now or at
\* any earlier time: Run was then free to give the databases to the next
\* daemon before the os.Remove that follows.
ClosedByServe(r) == closer[r] = "watch" /\ listener[r] \in {"unlinked", "removing", "closed"}

\* At most one daemon has a listener that nobody has begun to close, although
\* the databases may be free before the last daemon has closed its own.  A
\* second one can only come up after the os.Remove of an even earlier daemon
\* has hidden the first from it.
OneListener ==
    \A p, q \in Daemon :
        listener[p] = "open" /\ listener[q] = "open" /\ p # q
            => \E r \in Daemon \ {p, q} : ClosedByServe(r)

\* Who has peers.db open finds catalog.db free: a process that has got as far
\* as its first database never loses out, or deadlocks, on the second.
CatalogUnderPeers ==
    lock["catalog"] # None => lock["peers"] = lock["catalog"]

\* Another daemon's start never takes kin.sock from a daemon that has bound
\* it.  Only the Server.Close of an earlier daemon does, in the step that is
\* then under way in Serve's goroutine of that daemon: its os.Remove, or its
\* ln.Close if the Close of a third daemon had hidden its socket before.
SocketLostOnlyToOldClose ==
    [][\A p \in Daemon :
          daemon[p] \in {"chmod", "run"} /\ daemon'[p] # "exit" /\ socket = p /\ socket' # p
              => \E q \in Daemon \ {p} :
                    /\ closer[q] = "watch" /\ daemon[q] # "exit"
                    /\ \/ listener[q] = "removing" /\ listener'[q] = "closed"
                       \/ /\ listener[q] = "open" /\ listener'[q] = "unlinked"
                          /\ \E r \in Daemon \ {p, q} : ClosedByServe(r)]_vars

\* Once Validate has accepted a token, no process lets it through the nonce
\* check again, also after crashes and restarts.  (Joins that are both
\* between HasNonce and SaveNonce can both be accepted.)
SpentTokenIsRefused ==
    [][\A j, k \in Join :
          join[j].at = "check" /\ join'[j].at = "save" /\ join[k].valid
              => join[k].token # join[j].token]_vars

\* A peer row is there only after an invite of that peer was spent, on disk:
\* a crash never leaves a joined peer whose invite could be used again.
PeersHaveSpentInvites ==
    \A n \in Node : peers[n] # <<>> => \E t \in nonces : Inviter[t] = n

\* No process loses a nonce or an endpoint that another one stored.
StoreOnlyGrows ==
    [][/\ nonces \subseteq nonces'
       /\ \A n \in Node :
             /\ Len(peers[n]) <= Len(peers'[n])
             /\ SubSeq(peers'[n], 1, Len(peers[n])) = peers[n]]_vars
=============================================================================
