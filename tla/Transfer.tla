------------------------------ MODULE Transfer ------------------------------
(***************************************************************************)
(* Fetching a file by its hash: Downloader.Download and tryOwner           *)
(* (internal/download), RequestFile on the receiving side and              *)
(* Sender.HandleRequest on the owner's side (internal/transfer).           *)
(*                                                                         *)
(* A content is a sequence of blocks, one block per chunk, and stands for  *)
(* its own hash.  Each owner shares one path.  Downloads are goroutines of *)
(* one node and save into one shared directory.  The dialer is an          *)
(* interface without an implementation in the repository: a dial fails, or *)
(* gives a connection that the owner's protocol.Handler serves.            *)
(***************************************************************************)
EXTENDS Naturals, FiniteSets, Sequences, Functions

CONSTANTS
    Owner, Self,
    Download,       \* concurrent calls of Download
    Content,        \* sequences of blocks
    Original,       \* file names that are no hash of a content
    EntryName,      \* GetEntry(owner, file).Name, or NoName
    Folder,         \* what the shared directory may hold before the downloads
    NoName, NoOwner, Absent,
    Linked,         \* an open file that still is the one on the path
    MaxChanges,     \* bound on changes of the owners' folders
    MaxFaults       \* bound on broken connections, broadcasts, cancellations and
                    \* file operations that fail

ASSUME TransferAssumption ==
    /\ IsFiniteSet(Owner) /\ Self \notin Owner /\ NoOwner \notin Owner
    /\ \A c \in Content : c \in Seq(Range(c))
    /\ {Absent, Linked} \cap Content = {} /\ NoName \notin Content \cup Original
    /\ EntryName \in [Owner -> [Content -> Content \cup Original \cup {NoName}]]
    /\ MaxChanges \in Nat /\ MaxFaults \in Nat

\* A file in the shared directory is named by a hash, its own or another's, or
\* otherwise: a peer may name its entries like hashes, and a file that kept its
\* hash as name is announced under it.
Name == Content \cup Original

ASSUME FolderAssumption == Folder \subseteq [Name -> Content \cup {Absent}]

VARIABLES
    disk,       \* what is on each owner's path
    served,     \* LocalIndex of each owner: the hashes it maps to the path
    conn,       \* the connection a download reads: HandleRequest and its messages
    want,       \* fileID of each download
    recv,       \* where each download is
    dir,        \* the shared directory of the downloading node
    index,      \* its LocalIndex
    budget,     \* what is left of the bounds
    hist        \* for the properties: asked, excuse, kept and clobbered

vars == <<disk, served, conn, want, recv, dir, index, budget, hist>>

Msg(type, data) == [type |-> type, data |-> data]
Block == UNION {{c[i] : i \in 1..Len(c)} : c \in Content}

NoConn == [at |-> "none", file |-> Absent, pos |-> 0, queue |-> <<>>]
NoRecv == [at |-> "idle", rest |-> <<>>, owner |-> NoOwner, data |-> <<>>,
           path |-> NoName, cancelled |-> FALSE]

TypeOK ==
    /\ disk \in [Owner -> Content \cup {Absent}]
    /\ served \in [Owner -> SUBSET Content]
    /\ conn \in [Download ->
                    [at : {"none", "lookup", "open", "read", "sent", "failed", "lost"},
                     file : Content \cup {Absent, Linked}, pos : Nat,
                     queue : Seq([type : {"found", "notfound", "block", "eof", "offer"},
                                  data : Seq(Block)])]]
    /\ want \in [Download -> Content]
    /\ recv \in [Download -> [at : {"idle", "try", "response", "chunks", "verify", "stat",
                                    "rename", "add", "ok", "failed"},
                              rest : Seq(Owner), owner : Owner \cup {NoOwner},
                              data : Seq(Block), path : Name \cup {NoName},
                              cancelled : BOOLEAN]]
    /\ dir \in [Name -> Content \cup {Absent}]
    /\ index \in [Content -> Name \cup {NoName}]
    /\ budget \in [changes : 0..MaxChanges, faults : 0..MaxFaults]

\* The folder may hold files of its own, under names that entries also use, and
\* under hashes, where earlier downloads leave them.  LocalIndex.Scan has been.
Init ==
    /\ disk \in [Owner -> Content \cup {Absent}]
    /\ served = [o \in Owner |-> {disk[o]} \ {Absent}]
    /\ conn = [d \in Download |-> NoConn]
    /\ want \in [Download -> Content]
    /\ recv = [d \in Download |-> NoRecv]
    /\ dir \in Folder
    /\ index \in [Content -> Name \cup {NoName}]
    /\ \A c \in Content : IF \E n \in Name : dir[n] = c
                          THEN index[c] # NoName /\ dir[index[c]] = c
                          ELSE index[c] = NoName
    /\ budget = [changes |-> MaxChanges, faults |-> MaxFaults]
    /\ hist = [asked |-> [d \in Download |-> {}], excuse |-> {},
               kept |-> dir, clobbered |-> {}]

-----------------------------------------------------------------------------
(***************************************************************************)
(* The owners' folders.  A file written in place changes under a sender    *)
(* that has it open; a removed one does not.                               *)
(***************************************************************************)
Excuse(S) == [hist EXCEPT !.excuse = @ \cup S]

\* Downloads that are being served by owner o, at one of these places.
Served(o, places) == {d \in Download : recv[d].owner = o /\ conn[d].at \in places}

OwnerWrite(o, c) ==
    /\ budget.changes > 0 /\ disk[o] # c
    /\ budget' = [budget EXCEPT !.changes = @ - 1]
    /\ disk' = [disk EXCEPT ![o] = c]
    /\ hist' = Excuse(Served(o, {"lookup", "open", "read"}) \X {o})
    /\ UNCHANGED <<served, conn, want, recv, dir, index>>

OwnerRemove(o) ==
    /\ budget.changes > 0 /\ disk[o] # Absent
    /\ budget' = [budget EXCEPT !.changes = @ - 1]
    /\ disk' = [disk EXCEPT ![o] = Absent]
    /\ conn' = [d \in Download |->
                  IF d \in Served(o, {"read"}) /\ conn[d].file = Linked
                  THEN [conn[d] EXCEPT !.file = disk[o]] ELSE conn[d]]
    /\ hist' = Excuse(Served(o, {"lookup", "open"}) \X {o})
    /\ UNCHANGED <<served, want, recv, dir, index>>

\* The owner's watcher indexes what is there, or forgets what was.
OwnerIndex(o) ==
    /\ served' = [served EXCEPT ![o] = IF disk[o] = Absent THEN {} ELSE @ \cup {disk[o]}]
    /\ served' # served
    /\ UNCHANGED <<disk, conn, want, recv, dir, index, budget, hist>>

-----------------------------------------------------------------------------
(***************************************************************************)
(* What can go wrong at any time, within a bound.                          *)
(***************************************************************************)
Fault ==
    /\ budget.faults > 0
    /\ budget' = [budget EXCEPT !.faults = @ - 1]

(***************************************************************************)
(* Sender.HandleRequest, at the owner that download d is connected to.     *)
(***************************************************************************)
Sent(c, type, data) == [c EXCEPT !.queue = Append(@, Msg(type, data))]

\* Lookup and os.Stat decide on the answer.
Respond(d) ==
    LET o == recv[d].owner
        found == want[d] \in served[o] /\ disk[o] # Absent
    IN
    /\ conn[d].at = "lookup"
    /\ conn' = [conn EXCEPT ![d] =
                  IF found THEN Sent([@ EXCEPT !.at = "open"], "found", <<>>)
                           ELSE Sent([@ EXCEPT !.at = "sent"], "notfound", <<>>)]
    /\ hist' = IF found /\ disk[o] = want[d] THEN hist ELSE Excuse({<<d, o>>})
    /\ UNCHANGED <<disk, served, want, recv, dir, index, budget>>

\* When os.Open fails the receiver is not told.
OpenFile(d) ==
    /\ conn[d].at = "open"
    /\ conn' = [conn EXCEPT ![d] =
                  IF disk[recv[d].owner] = Absent
                  THEN [@ EXCEPT !.at = "failed"]
                  ELSE [@ EXCEPT !.at = "read", !.file = Linked]]
    /\ UNCHANGED <<disk, served, want, recv, dir, index, budget, hist>>

\* What the open file of d's sender holds now.
Opened(d) == IF conn[d].file = Linked THEN disk[recv[d].owner] ELSE conn[d].file

\* The end of the file is not announced.
ReadChunk_NoEof(d) ==
    LET i == conn[d].pos + 1 IN
    /\ conn[d].at = "read"
    /\ conn' = [conn EXCEPT ![d] =
                  IF i <= Len(Opened(d))
                  THEN Sent([@ EXCEPT !.pos = i], "block", <<Opened(d)[i]>>)
                  ELSE [@ EXCEPT !.at = "sent"]]
    /\ UNCHANGED <<disk, served, want, recv, dir, index, budget, hist>>

\* One f.Read and its FileChunk; at the end of the file an empty one.  When the
\* read fails, the receiver is not told.
ReadChunk(d) ==
    LET i == conn[d].pos + 1 IN
    /\ conn[d].at = "read"
    /\ \/ /\ conn' = [conn EXCEPT ![d] =
                        IF i <= Len(Opened(d))
                        THEN Sent([@ EXCEPT !.pos = i], "block", <<Opened(d)[i]>>)
                        ELSE Sent([@ EXCEPT !.at = "sent"], "eof", <<>>)]
          /\ UNCHANGED <<budget, hist>>
       \/ /\ Fault
          /\ conn' = [conn EXCEPT ![d].at = "failed"]
          /\ hist' = Excuse({<<d, recv[d].owner>>})
    /\ UNCHANGED <<disk, served, want, recv, dir, index>>

-----------------------------------------------------------------------------
(***************************************************************************)
(* What can happen to a connection or a caller's context.                  *)
(***************************************************************************)
\* BroadcastCatalog's offer comes between two messages.
Broadcast(d) ==
    /\ Fault
    /\ conn[d].at \notin {"none", "lost"}
    /\ conn' = [conn EXCEPT ![d] = Sent(@, "offer", <<>>)]
    /\ hist' = Excuse({<<d, recv[d].owner>>})
    /\ UNCHANGED <<disk, served, want, recv, dir, index>>

ConnLost(d) ==
    /\ Fault
    /\ conn[d].at \notin {"none", "lost"}
    /\ conn' = [conn EXCEPT ![d].at = "lost", ![d].queue = <<>>]
    /\ hist' = Excuse({<<d, recv[d].owner>>})
    /\ UNCHANGED <<disk, served, want, recv, dir, index>>

Cancel(d) ==
    /\ Fault
    /\ recv[d].at \notin {"idle", "ok", "failed"} /\ ~ recv[d].cancelled
    /\ recv' = [recv EXCEPT ![d].cancelled = TRUE]
    /\ hist' = Excuse({d} \X Owner)
    /\ UNCHANGED <<disk, served, conn, want, dir, index>>

-----------------------------------------------------------------------------
(***************************************************************************)
(* Downloader.Download, tryOwner and RequestFile.                          *)
(***************************************************************************)

\* The sequences that name every member of the finite set S once.
Orders(S) == {s \in [1..Cardinality(S) -> S] : IsInjective(s)}

\* GetOwners, filterSelf, and a sort by when each owner was seen.
GetOwners(d) ==
    /\ recv[d].at = "idle"
    /\ \E hints \in SUBSET (Owner \cup {Self}) :
         \E owners \in Orders(hints \ {Self}) :
           /\ recv' = [recv EXCEPT ![d].at = IF owners = <<>> THEN "failed" ELSE "try",
                                   ![d].rest = owners]
           /\ hist' = [hist EXCEPT !.asked[d] = hints \ {Self}]
    /\ UNCHANGED <<disk, served, conn, want, dir, index, budget>>

\* The first owner that fails ends the download.
TryNext_GiveUp(d, rest) ==
    /\ recv' = [recv EXCEPT ![d] = [@ EXCEPT !.at = "failed", !.rest = rest,
                                             !.owner = NoOwner, !.data = <<>>]]
    /\ conn' = [conn EXCEPT ![d] = NoConn]

\* An attempt has failed: the temporary file is removed and the loop goes on.
\* Nobody reads the connection again.
TryNext(d, rest) ==
    /\ recv' = [recv EXCEPT ![d] = [@ EXCEPT !.at = IF rest = <<>> THEN "failed" ELSE "try",
                                             !.rest = rest, !.owner = NoOwner, !.data = <<>>]]
    /\ conn' = [conn EXCEPT ![d] = NoConn]

AttemptFails(d) == TryNext(d, recv[d].rest)

\* An operation on the temporary file fails, and with it the attempt.
TempFileFails(d) ==
    /\ Fault
    /\ AttemptFails(d)
    /\ hist' = Excuse({<<d, recv[d].owner>>})

\* tryOwner dials, and RequestFile sends the FileRequest.  A Handler that has a
\* catalog, as the daemon's does, has sent its first offer by then; one
\* without a catalog sends none.
TryOwner(d) ==
    LET o == Head(recv[d].rest) IN
    /\ recv[d].at = "try"
    /\ \/ /\ recv' = [recv EXCEPT ![d] = [@ EXCEPT !.at = "response", !.owner = o,
                                                   !.rest = Tail(recv[d].rest)]]
          /\ \/ /\ conn' = [conn EXCEPT ![d].at = "lookup"]
                /\ UNCHANGED hist
             \/ /\ conn' = [conn EXCEPT ![d] = Sent([@ EXCEPT !.at = "lookup"], "offer", <<>>)]
                /\ hist' = Excuse({<<d, o>>})
       \/ /\ TryNext(d, Tail(recv[d].rest))
          /\ hist' = Excuse({<<d, o>>})
    /\ UNCHANGED <<disk, served, want, dir, index, budget>>

Received(d) == Head(conn[d].queue)

Arrived(d, types) == conn[d].queue # <<>> /\ Received(d).type \in types

\* Recv returns a message of one of the types, and the download becomes r.
Recv(d, types, r) ==
    /\ Arrived(d, types)
    /\ recv' = [recv EXCEPT ![d] = r]
    /\ conn' = [conn EXCEPT ![d].queue = Tail(@)]

\* Recv returns an error, or a message of another type.
RecvOther(d, types) ==
    /\ IF conn[d].queue = <<>> THEN conn[d].at = "lost" ELSE Received(d).type \notin types
    /\ AttemptFails(d)

\* The FileResponse, and os.CreateTemp once the file is announced.
RecvResponse(d) ==
    /\ recv[d].at = "response"
    /\ \/ /\ \/ Recv(d, {"found"}, [recv[d] EXCEPT !.at = "chunks"])
             \/ RecvOther(d, {"found"})
          /\ UNCHANGED <<budget, hist>>
       \/ Arrived(d, {"found"}) /\ TempFileFails(d)
    /\ UNCHANGED <<disk, served, want, dir, index>>

\* The context is looked at before each Recv, which itself does not.  The data
\* is written to the temporary file.
RecvChunk(d) ==
    /\ recv[d].at = "chunks"
    /\ \/ /\ \/ recv[d].cancelled /\ AttemptFails(d)
             \/ /\ ~ recv[d].cancelled
                /\ \/ Recv(d, {"block"}, [recv[d] EXCEPT !.data = @ \o Received(d).data])
                   \/ Recv(d, {"eof"}, [recv[d] EXCEPT !.at = "verify"])
                   \/ RecvOther(d, {"block", "eof"})
          /\ UNCHANGED <<budget, hist>>
       \/ ~ recv[d].cancelled /\ Arrived(d, {"block"}) /\ TempFileFails(d)
    /\ UNCHANGED <<disk, served, want, dir, index>>

\* The file at name n gives way to one that holds c.
Replaced(n, c) == [hist EXCEPT !.clobbered = @ \cup ({dir[n]} \ {Absent, c})]

\* The temporary file is moved into place whatever it holds.
Verify_NoHash(d) ==
    /\ recv[d].at = "verify"
    /\ dir' = [dir EXCEPT ![want[d]] = recv[d].data]
    /\ recv' = [recv EXCEPT ![d].at = "stat", ![d].path = want[d], ![d].data = <<>>]
    /\ conn' = [conn EXCEPT ![d] = NoConn]
    /\ UNCHANGED <<disk, served, want, index, budget, hist>>

\* Only what has the requested hash is renamed to destDir/<hash>, where it
\* replaces what is there.  Close or Rename may fail.
Verify(d) ==
    /\ recv[d].at = "verify"
    /\ \/ /\ recv[d].data = want[d]
          /\ dir' = [dir EXCEPT ![want[d]] = want[d]]
          /\ recv' = [recv EXCEPT ![d].at = "stat", ![d].path = want[d], ![d].data = <<>>]
          /\ conn' = [conn EXCEPT ![d] = NoConn]
          /\ hist' = Replaced(want[d], want[d])
          /\ UNCHANGED budget
       \/ /\ recv[d].data # want[d]
          /\ AttemptFails(d)
          /\ UNCHANGED <<dir, budget, hist>>
       \/ TempFileFails(d) /\ UNCHANGED dir
    /\ UNCHANGED <<disk, served, want, index>>

TargetName(d) == EntryName[recv[d].owner][want[d]]

\* The name's collision check is left out.
StatTarget_NoCheck(d) ==
    /\ recv[d].at = "stat"
    /\ recv' = [recv EXCEPT ![d].at = IF TargetName(d) = NoName THEN "add" ELSE "rename"]
    /\ UNCHANGED <<disk, served, conn, want, dir, index, budget, hist>>

\* renameToOriginal up to its os.Stat.
StatTarget(d) ==
    LET target == TargetName(d) IN
    /\ recv[d].at = "stat"
    /\ recv' = [recv EXCEPT ![d].at =
                  IF target # NoName /\ dir[target] = Absent THEN "rename" ELSE "add"]
    /\ UNCHANGED <<disk, served, conn, want, dir, index, budget, hist>>

\* The path from before the rename is returned.
RenameTarget_OldPath(d) ==
    /\ recv[d].at = "rename"
    /\ dir' = [dir EXCEPT ![want[d]] = Absent, ![TargetName(d)] = dir[want[d]]]
    /\ recv' = [recv EXCEPT ![d].at = "add"]
    /\ UNCHANGED <<disk, served, conn, want, index, budget, hist>>

\* os.Rename replaces what has the target's name by now, and fails when another
\* download has taken the file away, or for a reason of the file system.
RenameTarget(d) ==
    LET target == TargetName(d)
        file == dir[want[d]]
    IN
    /\ recv[d].at = "rename"
    /\ \/ /\ file # Absent
          /\ dir' = [dir EXCEPT ![want[d]] = Absent, ![target] = file]
          /\ recv' = [recv EXCEPT ![d].at = "add", ![d].path = target]
          /\ hist' = Replaced(target, file)
          /\ UNCHANGED budget
       \/ /\ (file = Absent /\ UNCHANGED budget) \/ Fault
          /\ recv' = [recv EXCEPT ![d].at = "add"]
          /\ UNCHANGED <<dir, hist>>
    /\ UNCHANGED <<disk, served, conn, want, index>>

\* The file is registered under the name it had before the rename.
AddFile_HashPath(d) ==
    /\ recv[d].at = "add"
    /\ index' = [index EXCEPT ![want[d]] = want[d]]
    /\ recv' = [recv EXCEPT ![d].at = "ok"]
    /\ UNCHANGED <<disk, served, conn, want, dir, budget, hist>>

\* LocalIndex.Add hashes the file at the path; its error is only logged.
AddFile(d) ==
    LET file == dir[recv[d].path] IN
    /\ recv[d].at = "add"
    /\ index' = IF file = Absent THEN index ELSE [index EXCEPT ![file] = recv[d].path]
    /\ recv' = [recv EXCEPT ![d].at = "ok"]
    /\ UNCHANGED <<disk, served, conn, want, dir, budget, hist>>

-----------------------------------------------------------------------------
HandleRequest(d) == Respond(d) \/ OpenFile(d) \/ ReadChunk(d)

DownloadStep(d) ==
    \/ TryOwner(d) \/ RecvResponse(d) \/ RecvChunk(d)
    \/ Verify(d) \/ StatTarget(d) \/ RenameTarget(d) \/ AddFile(d)

Next ==
    \/ \E o \in Owner : OwnerRemove(o) \/ OwnerIndex(o) \/ \E c \in Content : OwnerWrite(o, c)
    \/ \E d \in Download : HandleRequest(d) \/ Broadcast(d) \/ ConnLost(d) \/ Cancel(d)
    \/ \E d \in Download : GetOwners(d) \/ DownloadStep(d)

\* Goroutines that can go on do: an owner's Serve and the download itself.
Fairness ==
    \A d \in Download : WF_vars(DownloadStep(d)) /\ WF_vars(HandleRequest(d))

Spec == Init /\ [][Next]_vars

FairSpec == Spec /\ Fairness

-----------------------------------------------------------------------------
(***************************************************************************)
(* Properties.                                                             *)
(***************************************************************************)

\* What downloads have received, verified and moved into the directory.
Fetched == {want[d] : d \in {e \in Download : recv[e].at \in {"stat", "rename", "add", "ok"}}}

\* A name in the directory changes only to what a download has verified, even
\* when an owner's file is rewritten while it is sent and names collide; and only
\* the hash of such a file is ever left without a file.
DirectoryIsVerified ==
    \A n \in Name :
        \/ dir[n] = hist.kept[n]
        \/ dir[n] \in Fetched
        \/ dir[n] = Absent /\ n \in Fetched

\* No download takes a name that was in use before, except the hash of the file
\* it fetches: renameToOriginal looks before it renames, RequestFile does not.
TakenNamesAreKept ==
    \A n \in Name \ Fetched : hist.kept[n] # Absent => dir[n] = hist.kept[n]

\* Download gives up only after every owner failed it for a reason: it could
\* not be dialed, did not have the file or lost it, its file was rewritten or
\* could not be read, the connection broke or carried something else, the
\* temporary file could not be made, written, closed or renamed, or the caller
\* cancelled.
FailsOnlyWithReason ==
    \A d \in Download : recv[d].at = "failed" =>
        \A o \in hist.asked[d] : <<d, o>> \in hist.excuse

\* Once all downloads have ended, a file that was downloaded can be served:
\* the index leads to a file with that content.  Downloads of the same file
\* that overlap do not break this; another file moved over one with that content
\* does.
DownloadedFileIsServed ==
    (\A d \in Download : recv[d].at \in {"idle", "ok", "failed"}) =>
        \A d \in Download : recv[d].at = "ok" /\ want[d] \notin hist.clobbered =>
            index[want[d]] # NoName /\ dir[index[want[d]]] = want[d]

\* The names that download d may write: its file's hash, and the names that the
\* owners it asks have for the file.
Touched(d) ==
    {want[d]} \cup ({EntryName[o][want[d]] : o \in hist.asked[d]} \ {NoName})

Contend(d, e) == Touched(d) \cap Touched(e) # {}

\* The path that Download returns holds the file, whatever other downloads
\* do, unless one of them contends for its names.
ReturnedPathHoldsFile ==
    \A d \in Download :
        recv[d].at = "ok" /\ (\A e \in Download \ {d} : recv[e].at # "idle" => ~ Contend(d, e))
            => dir[recv[d].path] = want[d]

\* A download ends, unless the owner could not open, or not read on, the file it
\* had announced (HandleRequest then says nothing and RequestFile waits on).
DownloadEnds ==
    \A d \in Download :
        recv[d].at = "try" ~> recv[d].at \in {"ok", "failed"} \/ conn[d].at = "failed"
=============================================================================
