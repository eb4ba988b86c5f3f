-------------------------- MODULE CatalogStoreProofs --------------------------
(***************************************************************************)
(* Proofs about the catalog database, for any sets of nodes, files and     *)
(* paths.  The three invariants are inductive together with the type       *)
(* invariant; each transaction is treated by a lemma of its own.           *)
(***************************************************************************)
EXTENDS CatalogStore, TLAPS

\* Everything the induction carries.
IInv == TypeOK /\ EveryLiveRowIsHinted /\ SelfHintIsExact

-----------------------------------------------------------------------------
(***************************************************************************)
(* What a transaction does to one row and one hint.  The lemmas are the    *)
(* only place where the operators of Catalog are expanded.                 *)
(***************************************************************************)

\* PutLocal (store.go) makes the local row live and hints the local node;
\* no other row and no other hint changes.
LEMMA PutLocalEffect ==
    ASSUME NEW s \in Store, NEW f \in File, NEW p \in Path
    PROVE  LET t == PutLocal(s, Self, f, p) IN
           /\ t \in Store
           /\ \A n \in Node, g \in File :
                 t.entries[n][g] = IF n = Self /\ g = f
                                   THEN [state |-> "live", path |-> p]
                                   ELSE s.entries[n][g]
           /\ \A n \in Node, g \in File :
                 n \in t.avail[g] <=> n \in s.avail[g] \/ (n = Self /\ g = f)
  BY SelfAssumption DEF PutLocal, AddAvailability, Store, Entry, EntryState

\* DeleteLocal (store.go) turns an existing local row into a tombstone and
\* withdraws the local hint; without a row it changes nothing.
LEMMA DeleteLocalEffect ==
    ASSUME NEW s \in Store, NEW f \in File
    PROVE  LET t == DeleteLocal(s, Self, f)
               hit == s.entries[Self][f].state # "none"
           IN
           /\ t \in Store
           /\ \A n \in Node, g \in File :
                 t.entries[n][g].state = IF hit /\ n = Self /\ g = f
                                         THEN "deleted"
                                         ELSE s.entries[n][g].state
           /\ \A n \in Node : n # Self => t.entries[n] = s.entries[n]
           /\ \A n \in Node, g \in File :
                 n \in t.avail[g] <=>
                     n \in s.avail[g] /\ ~ (hit /\ n = Self /\ g = f)
  BY SelfAssumption DEF DeleteLocal, RemoveAvailability, Store, Entry, EntryState

\* PutPeerEntries (store.go) makes the peer's rows the offered ones and only
\* adds hints, all of them for the peer.
LEMMA PutPeerEntriesEffect ==
    ASSUME NEW s \in Store, NEW p \in Node, NEW offer \in Offer
    PROVE  LET t == PutPeerEntries(s, p, offer) IN
           /\ t \in Store
           /\ \A g \in File : t.entries[p][g].state = offer[g]
           /\ \A n \in Node : n # p => t.entries[n] = s.entries[n]
           /\ \A n \in Node, g \in File :
                 n \in t.avail[g] <=>
                     n \in s.avail[g] \/ (n = p /\ offer[g] = "live")
  BY DEF PutPeerEntries, Store, Entry, EntryState, Offer

\* RemovePeer (store.go) removes the peer's rows, and its hints for the rows
\* that were live.
LEMMA RemovePeerEffect ==
    ASSUME NEW s \in Store, NEW p \in Node
    PROVE  LET t == RemovePeer(s, p) IN
           /\ t \in Store
           /\ \A g \in File : t.entries[p][g].state = "none"
           /\ \A n \in Node : n # p => t.entries[n] = s.entries[n]
           /\ \A n \in Node, g \in File :
                 n \in t.avail[g] <=>
                     n \in s.avail[g] /\ ~ (n = p /\ s.entries[p][g].state = "live")
  BY DEF RemovePeer, ListByOwner, NoEntry, Store, Entry, EntryState

-----------------------------------------------------------------------------
(***************************************************************************)
(* The inductive step, one lemma per transaction.                          *)
(***************************************************************************)

\* PutLocal preserves the invariant: it adds the hint of the row it makes
\* live, which is the local node's own.
LEMMA PutLocalStep ==
    ASSUME IInv, NEW f \in File, NEW p \in Path, PutLocalTx(f, p)
    PROVE  IInv' /\ TouchesOneOwner
<1>1. store \in Store
  BY DEF IInv, TypeOK
<1>2. store' = PutLocal(store, Self, f, p)
  BY DEF PutLocalTx
<1>3. /\ store' \in Store
      /\ \A n \in Node, g \in File :
            store'.entries[n][g] = IF n = Self /\ g = f
                                   THEN [state |-> "live", path |-> p]
                                   ELSE store.entries[n][g]
      /\ \A n \in Node, g \in File :
            n \in store'.avail[g] <=> n \in store.avail[g] \/ (n = Self /\ g = f)
  BY <1>1, <1>2, PutLocalEffect
<1>4. IInv'
  BY <1>3, SelfAssumption
     DEF IInv, TypeOK, EveryLiveRowIsHinted, SelfHintIsExact, Live, GetOwners
<1>5. \A n \in Node : n # Self => store'.entries[n] = store.entries[n]
  BY <1>1, <1>3 DEF Store
<1>6. TouchesOneOwner
  BY <1>3, <1>5 DEF TouchesOneOwner
<1>. QED
  BY <1>4, <1>6

\* DeleteLocal preserves the invariant: when it makes the local row a
\* tombstone it withdraws exactly that hint.
LEMMA DeleteLocalStep ==
    ASSUME IInv, NEW f \in File, DeleteLocalTx(f)
    PROVE  IInv' /\ TouchesOneOwner
<1>. DEFINE hit == store.entries[Self][f].state # "none"
<1>1. store \in Store
  BY DEF IInv, TypeOK
<1>2. store' = DeleteLocal(store, Self, f)
  BY DEF DeleteLocalTx
<1>3. /\ store' \in Store
      /\ \A n \in Node, g \in File :
            store'.entries[n][g].state = IF hit /\ n = Self /\ g = f
                                         THEN "deleted"
                                         ELSE store.entries[n][g].state
      /\ \A n \in Node : n # Self => store'.entries[n] = store.entries[n]
      /\ \A n \in Node, g \in File :
            n \in store'.avail[g] <=>
                n \in store.avail[g] /\ ~ (hit /\ n = Self /\ g = f)
  BY SMTT(30), <1>1, <1>2, DeleteLocalEffect
<1>4. IInv'
  BY SMTT(30), <1>3, SelfAssumption
     DEF IInv, TypeOK, EveryLiveRowIsHinted, SelfHintIsExact, Live, GetOwners
<1>5. TouchesOneOwner
  BY <1>3 DEF TouchesOneOwner
<1>. QED
  BY <1>4, <1>5

\* PutPeerEntries preserves the invariant: every live row it writes gets its
\* hint, and the hints it fails to withdraw are no obstacle to completeness.
LEMMA PutPeerEntriesStep ==
    ASSUME IInv, NEW p \in Peer, NEW offer \in Offer, PutPeerEntriesTx(p, offer)
    PROVE  IInv' /\ TouchesOneOwner
<1>1. store \in Store /\ p \in Node /\ p # Self
  BY DEF IInv, TypeOK, Peer
<1>2. store' = PutPeerEntries(store, p, offer)
  BY DEF PutPeerEntriesTx
<1>3. /\ store' \in Store
      /\ \A g \in File : store'.entries[p][g].state = offer[g]
      /\ \A n \in Node : n # p => store'.entries[n] = store.entries[n]
      /\ \A n \in Node, g \in File :
            n \in store'.avail[g] <=>
                n \in store.avail[g] \/ (n = p /\ offer[g] = "live")
  BY <1>1, <1>2, PutPeerEntriesEffect
<1>4. IInv'
  BY <1>1, <1>3, SelfAssumption
     DEF IInv, TypeOK, EveryLiveRowIsHinted, SelfHintIsExact, Live, GetOwners
<1>5. TouchesOneOwner
  BY <1>3 DEF TouchesOneOwner
<1>. QED
  BY <1>4, <1>5

\* RemovePeer preserves the invariant: a hint goes only with its row.
LEMMA RemovePeerStep ==
    ASSUME IInv, NEW p \in Peer, RemovePeerTx(p)
    PROVE  IInv' /\ TouchesOneOwner
<1>1. store \in Store /\ p \in Node /\ p # Self
  BY DEF IInv, TypeOK, Peer
<1>2. store' = RemovePeer(store, p)
  BY DEF RemovePeerTx
<1>3. /\ store' \in Store
      /\ \A g \in File : store'.entries[p][g].state = "none"
      /\ \A n \in Node : n # p => store'.entries[n] = store.entries[n]
      /\ \A n \in Node, g \in File :
            n \in store'.avail[g] <=>
                n \in store.avail[g] /\ ~ (n = p /\ store.entries[p][g].state = "live")
  BY SMTT(30), <1>1, <1>2, RemovePeerEffect
<1>4. IInv'
  BY <1>1, <1>3, SelfAssumption
     DEF IInv, TypeOK, EveryLiveRowIsHinted, SelfHintIsExact, Live, GetOwners
<1>5. TouchesOneOwner
  BY <1>3 DEF TouchesOneOwner
<1>. QED
  BY <1>4, <1>5

\* Every transaction preserves the invariant and touches one owner.
LEMMA NextStep == IInv /\ Next => IInv' /\ TouchesOneOwner
  BY PutLocalStep, DeleteLocalStep, PutPeerEntriesStep, RemovePeerStep DEF Next

-----------------------------------------------------------------------------
(***************************************************************************)
(* The theorems.                                                           *)
(***************************************************************************)

\* The invariant holds in every reachable state of the database.
THEOREM Invariance == Spec => []IInv
<1>1. Init => IInv
  BY SelfAssumption DEF Init, IInv, TypeOK, EveryLiveRowIsHinted, SelfHintIsExact,
         LocalStore, EmptyStore, NoEntry, Store, Entry, EntryState, Live, GetOwners
<1>2. IInv /\ UNCHANGED store => IInv'
  BY DEF IInv, TypeOK, EveryLiveRowIsHinted, SelfHintIsExact, Live, GetOwners
<1>3. IInv /\ [Next]_store => IInv'
  BY <1>2, NextStep
<1>. QED
  BY <1>1, <1>3, PTL DEF Spec

\* Both buckets keep their types.
THEOREM TypeCorrect == Spec => []TypeOK
  BY Invariance, PTL DEF IInv

\* GetOwners (store.go) returns the owner of every live row, for any number
\* of peers and files.
THEOREM HintsComplete == Spec => []EveryLiveRowIsHinted
  BY Invariance, PTL DEF IInv

\* The local node is hinted for exactly the files it has a live row for.
THEOREM SelfHintExact == Spec => []SelfHintIsExact
  BY Invariance, PTL DEF IInv

\* No transaction changes the rows or hints of two owners.
THEOREM OneOwner == Spec => OneOwnerPerTransaction
<1>1. IInv /\ [Next]_store => [TouchesOneOwner]_store
  BY NextStep
<1>. QED
  BY <1>1, Invariance, PTL DEF Spec, OneOwnerPerTransaction
=============================================================================
