------------------------------- MODULE Catalog -------------------------------
(***************************************************************************)
(* The transactions and the queries of the file catalog                    *)
(* (internal/catalog/store.go), as operators on a store value.  A store    *)
(* holds the two bbolt buckets: `entries`, keyed by (owner, file), and     *)
(* `avail`, which keeps for each file the nodes that are hinted to have    *)
(* it.  bbolt runs every Update in one transaction, so each operator maps  *)
(* a committed store to the next committed store.                          *)
(*                                                                         *)
(* Names, sizes, modification times and the UpdatedAt / SeenAt stamps are  *)
(* left out: no transaction branches on them.                              *)
(***************************************************************************)
EXTENDS FiniteSets

CONSTANTS
    Node,       \* node identifiers, the local one included
    File,       \* content hashes
    Path,       \* paths in the shared folder
    NoPath      \* the empty LocalPath of an entry that a peer reported

ASSUME NoPathAssumption == NoPath \notin Path

(***************************************************************************)
(* An entry is absent, live, or a tombstone (Deleted = true).              *)
(***************************************************************************)
EntryState == {"none", "live", "deleted"}

Entry == [state : EntryState, path : Path \cup {NoPath}]

NoEntry == [state |-> "none", path |-> NoPath]

Store == [entries : [Node -> [File -> Entry]], avail : [File -> SUBSET Node]]

\* Open on a fresh database: both buckets exist and are empty.
EmptyStore == [entries |-> [n \in Node |-> [f \in File |-> NoEntry]],
               avail   |-> [f \in File |-> {}]]

\* The database of a node that has indexed some files and met no peer.
LocalStore(n, files, p) ==
    [entries |-> [EmptyStore.entries EXCEPT ![n] = [f \in File |->
                    IF f \in files THEN [state |-> "live", path |-> p] ELSE NoEntry]],
     avail   |-> [f \in File |-> IF f \in files THEN {n} ELSE {}]]

(***************************************************************************)
(* Queries.                                                                *)
(***************************************************************************)
ListByOwner(s, n) == {f \in File : s.entries[n][f].state = "live"}

\* ListForPeer keeps every live row whose owner is not the peer; the proto
\* rows it is turned into are told apart by their file only.
ListForPeer(s, exclude) == UNION {ListByOwner(s, n) : n \in Node \ {exclude}}

GetOwners(s, f) == s.avail[f]

\* The rows LookupLocalByPath can stop at; it returns the one whose hash is
\* least, and hashes are in no relation to anything else in the model.
LocalAtPath(s, self, p) ==
    {f \in ListByOwner(s, self) : s.entries[self][f].path = p}

(***************************************************************************)
(* addAvailability and removeAvailability.                                 *)
(***************************************************************************)
AddAvailability(avail, f, n) == [avail EXCEPT ![f] = @ \cup {n}]

RemoveAvailability(avail, f, n) == [avail EXCEPT ![f] = @ \ {n}]

(***************************************************************************)
(* The transactions.  Each operator whose name ends in an underscore and a *)
(* word is a deliberately wrong variant of the definition that follows it. *)
(***************************************************************************)
PutLocal_Unhinted(s, self, f, p) ==
    [s EXCEPT !.entries[self][f] = [state |-> "live", path |-> p]]

PutLocal(s, self, f, p) ==
    [entries |-> [s.entries EXCEPT ![self][f] = [state |-> "live", path |-> p]],
     avail   |-> AddAvailability(s.avail, f, self)]

DeleteLocal_HintKept(s, self, f) ==
    [s EXCEPT !.entries[self][f].state = IF @ = "none" THEN @ ELSE "deleted"]

\* DeleteLocal returns early when the row does not exist.
DeleteLocal(s, self, f) ==
    IF s.entries[self][f].state = "none"
    THEN s
    ELSE [entries |-> [s.entries EXCEPT ![self][f] =
                        [state |-> "deleted", path |-> @.path]],
          avail   |-> RemoveAvailability(s.avail, f, self)]

\* An offer gives the state of each file it lists ("none": not listed).  The
\* wire format has a tombstone flag and PutPeerEntries honours it, though
\* ListForPeer never sends one.
Offer == [File -> EntryState]

\* A file is put under the first owner the offer's sender knows, not under
\* the sender.
PutPeerEntries_WireOwner(s, p, offer) ==
    LET Owner(f) == CHOOSE n \in Node : n \in s.avail[f] \cup {p}
    IN  [entries |-> [n \in Node |-> [f \in File |->
                        IF offer[f] # "none" /\ Owner(f) = n
                        THEN [state |-> offer[f], path |-> NoPath]
                        ELSE IF n = p THEN NoEntry ELSE s.entries[n][f]]],
         avail   |-> [f \in File |->
                        s.avail[f] \cup IF offer[f] = "live" THEN {Owner(f)} ELSE {}]]

\* All rows of the peer go, the offered ones come; hints are only added.
PutPeerEntries(s, p, offer) ==
    [entries |-> [s.entries EXCEPT ![p] =
                    [f \in File |-> [state |-> offer[f], path |-> NoPath]]],
     avail   |-> [f \in File |->
                    s.avail[f] \cup IF offer[f] = "live" THEN {p} ELSE {}]]

\* Hints are removed for the peer's live rows, then all its rows are.
RemovePeer(s, p) ==
    [entries |-> [s.entries EXCEPT ![p] = [f \in File |-> NoEntry]],
     avail   |-> [f \in File |->
                    s.avail[f] \ IF f \in ListByOwner(s, p) THEN {p} ELSE {}]]
=============================================================================
