----------------------------- MODULE CatalogStore -----------------------------
(***************************************************************************)
(* One node's catalog database as a state machine: the store is the only   *)
(* state, and every transaction of internal/catalog/store.go is an action. *)
(* The transactions are serialised by bbolt's writer lock, and a crash     *)
(* between two of them leaves the last committed store, which is the       *)
(* state in which the model already is.                                    *)
(***************************************************************************)
EXTENDS Catalog

CONSTANT Self   \* the node that owns the database

ASSUME SelfAssumption == Self \in Node

VARIABLE store

Peer == Node \ {Self}

\* A fresh database after the initial scan of the shared folder.
Init == \E shared \in SUBSET File, p \in Path : store = LocalStore(Self, shared, p)

\* The watcher indexes file f at path p.
PutLocalTx(f, p) == store' = PutLocal(store, Self, f, p)

\* The watcher saw f's path disappear.
DeleteLocalTx(f) == store' = DeleteLocal(store, Self, f)

\* A catalog offer of peer p arrived.
PutPeerEntriesTx(p, offer) == store' = PutPeerEntries(store, p, offer)

RemovePeerTx(p) == store' = RemovePeer(store, p)

Next ==
    \/ \E f \in File, p \in Path : PutLocalTx(f, p)
    \/ \E f \in File : DeleteLocalTx(f)
    \/ \E p \in Peer, offer \in Offer : PutPeerEntriesTx(p, offer)
    \/ \E p \in Peer : RemovePeerTx(p)

Spec == Init /\ [][Next]_store

-----------------------------------------------------------------------------
(***************************************************************************)
(* Properties.                                                             *)
(***************************************************************************)

\* Type invariant of the two buckets.
TypeOK == store \in Store

Live(n, f) == store.entries[n][f].state = "live"

\* GetOwners misses nobody: the owner of every live row is hinted for the
\* row's file, whatever mixture of PutLocal, DeleteLocal, PutPeerEntries and
\* RemovePeer wrote the two buckets.  A download that asks GetOwners thus
\* reaches every owner the catalog view shows.
EveryLiveRowIsHinted ==
    \A n \in Node, f \in File : Live(n, f) => n \in GetOwners(store, f)

\* For the local node the hint is exact: PutLocal and DeleteLocal are the
\* only transactions that touch the local rows, and each moves row and hint
\* together.
SelfHintIsExact ==
    \A f \in File : Self \in GetOwners(store, f) <=> Live(Self, f)

\* What a transaction may never do: touch two owners.  Neither the rows nor
\* the hints of more than one node change, so an offer relayed by a peer
\* cannot rewrite what another peer, or this node, is recorded to have.
TouchesOneOwner ==
    LET Touched(n) ==
            \/ store'.entries[n] # store.entries[n]
            \/ \E f \in File : ~ (n \in store'.avail[f] <=> n \in store.avail[f])
    IN  \A m, n \in Node : Touched(m) /\ Touched(n) => m = n

OneOwnerPerTransaction == [][TouchesOneOwner]_store
=============================================================================
