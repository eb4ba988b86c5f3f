--------------------------- MODULE TransferProofs ---------------------------
(***************************************************************************)
(* What any number of downloads at once, from any number of owners, leave  *)
(* in the shared directory: contents that were verified, the names that    *)
(* were taken before, and the file under the path that Download returned,  *)
(* which the index serves from then on; and why a download fails: every    *)
(* owner it asked had a reason of its own, or the caller cancelled it.     *)
(***************************************************************************)
EXTENDS Transfer, FiniteSetTheorems, TLAPS

-----------------------------------------------------------------------------
(***************************************************************************)
(* What is recorded.                                                       *)
(***************************************************************************)

HistShape ==
    /\ DOMAIN hist = {"asked", "excuse", "kept", "clobbered"}
    /\ hist.asked \in [Download -> SUBSET Owner]

\* Excuse adds excuses.
LEMMA ExcuseAdds ==
    ASSUME HistShape, NEW S, hist' = Excuse(S)
    PROVE  /\ HistShape' /\ hist'.excuse = hist.excuse \cup S /\ hist'.asked = hist.asked
           /\ hist'.kept = hist.kept /\ hist'.clobbered = hist.clobbered
BY Zenon DEF HistShape, Excuse

\* Replaced adds the content that gives way.
LEMMA ReplacedAdds ==
    ASSUME HistShape, NEW n, NEW c, hist' = Replaced(n, c)
    PROVE  /\ HistShape' /\ hist'.excuse = hist.excuse /\ hist'.asked = hist.asked
           /\ hist'.kept = hist.kept
           /\ hist'.clobbered = hist.clobbered \cup ({dir[n]} \ {Absent, c})
BY Zenon DEF HistShape, Replaced

\* GetOwners records who is asked.
LEMMA AskedOwners ==
    ASSUME HistShape, NEW d \in Download, NEW S \in SUBSET Owner,
           hist' = [hist EXCEPT !.asked[d] = S]
    PROVE  /\ HistShape' /\ hist'.excuse = hist.excuse
           /\ hist'.asked = [hist.asked EXCEPT ![d] = S]
           /\ hist'.kept = hist.kept /\ hist'.clobbered = hist.clobbered
<1>1. hist'.asked = [hist.asked EXCEPT ![d] = S]
  BY Zenon DEF HistShape
<1>2. hist'.asked \in [Download -> SUBSET Owner]
  BY Zenon, <1>1 DEF HistShape
<1> QED
  BY Zenon, <1>1, <1>2 DEF HistShape

\* Every step but those of GetOwners, Verify and RenameTarget at most excuses.
LEMMA HistCases ==
    ASSUME [Next]_vars
    PROVE  \/ hist' = hist \/ \E S : hist' = Excuse(S)
           \/ \E d \in Download : GetOwners(d)
           \/ \E d \in Download : Verify(d) /\ hist' = Replaced(want[d], want[d])
           \/ \E d \in Download : RenameTarget(d) /\ hist' = Replaced(TargetName(d), dir[want[d]])
<1> DEFINE Plain == hist' = hist \/ \E S : hist' = Excuse(S)
<1>1. ASSUME NEW o \in Owner, OwnerRemove(o) \/ OwnerIndex(o) \/ \E c \in Content : OwnerWrite(o, c)
      PROVE  Plain
  BY Zenon, <1>1 DEF OwnerRemove, OwnerIndex, OwnerWrite
<1>2. ASSUME NEW d \in Download, HandleRequest(d) \/ Broadcast(d) \/ ConnLost(d) \/ Cancel(d)
      PROVE  Plain
  BY Zenon, <1>2 DEF HandleRequest, Respond, OpenFile, ReadChunk, Broadcast, ConnLost, Cancel
<1>3. ASSUME NEW d \in Download, TryOwner(d) \/ RecvResponse(d) \/ RecvChunk(d) PROVE Plain
  BY ZenonT(40), <1>3 DEF TryOwner, RecvResponse, RecvChunk, TempFileFails
<1>4. ASSUME NEW d \in Download, StatTarget(d) \/ AddFile(d) PROVE Plain
  BY Zenon, <1>4 DEF StatTarget, AddFile
<1>5. ASSUME NEW d \in Download, Verify(d) PROVE Plain \/ hist' = Replaced(want[d], want[d])
  BY Zenon, <1>5 DEF Verify, TempFileFails
<1>6. ASSUME NEW d \in Download, RenameTarget(d)
      PROVE  Plain \/ hist' = Replaced(TargetName(d), dir[want[d]])
  BY Zenon, <1>6 DEF RenameTarget
<1>7. UNCHANGED vars => Plain
  BY Zenon DEF vars
<1> HIDE DEF Plain
<1>8. \/ Plain \/ \E d \in Download : GetOwners(d)
      \/ \E d \in Download : Verify(d) /\ hist' = Replaced(want[d], want[d])
      \/ \E d \in Download : RenameTarget(d) /\ hist' = Replaced(TargetName(d), dir[want[d]])
  BY ZenonT(40), <1>1, <1>2, <1>3, <1>4, <1>5, <1>6, <1>7 DEF Next, DownloadStep
<1> QED
  BY Zenon, <1>8 DEF Plain

\* The names that were taken before stay on record, and excuses and what was
\* replaced; only GetOwners decides who is asked.
LEMMA HistSteps ==
    ASSUME HistShape, [Next]_vars
    PROVE  /\ HistShape' /\ hist'.kept = hist.kept
           /\ hist.excuse \subseteq hist'.excuse /\ hist.clobbered \subseteq hist'.clobbered
           /\ \A d \in Download : hist'.asked[d] = hist.asked[d] \/ GetOwners(d)
<1> DEFINE Goal == /\ HistShape' /\ hist'.kept = hist.kept
                   /\ hist.excuse \subseteq hist'.excuse /\ hist.clobbered \subseteq hist'.clobbered
                   /\ \A d \in Download : hist'.asked[d] = hist.asked[d] \/ GetOwners(d)
<1>1. ASSUME hist' = hist PROVE Goal
  BY Zenon, <1>1 DEF HistShape
<1>2. ASSUME NEW S, hist' = Excuse(S) PROVE Goal
  BY Zenon, <1>2, ExcuseAdds
<1>3. ASSUME NEW n, NEW c, hist' = Replaced(n, c) PROVE Goal
  BY Zenon, <1>3, ReplacedAdds
<1>4. ASSUME NEW d \in Download, GetOwners(d) PROVE Goal
  <2>1. PICK S \in SUBSET (Owner \cup {Self}) : hist' = [hist EXCEPT !.asked[d] = S \ {Self}]
    BY ZenonT(40), <1>4 DEF GetOwners
  <2>2. S \ {Self} \in SUBSET Owner
    BY Zenon
  <2>3. /\ HistShape' /\ hist'.excuse = hist.excuse
        /\ hist'.asked = [hist.asked EXCEPT ![d] = S \ {Self}]
        /\ hist'.kept = hist.kept /\ hist'.clobbered = hist.clobbered
    BY Zenon, <2>1, <2>2, AskedOwners
  <2>4. \A e \in Download : hist'.asked[e] = hist.asked[e] \/ GetOwners(e)
    BY Zenon, <1>4, <2>3 DEF HistShape
  <2> QED
    BY Zenon, <2>3, <2>4
<1> HIDE DEF Goal
<1>5. Goal
  BY Zenon, <1>1, <1>2, <1>3, <1>4, HistCases
<1> QED
  BY Zenon, <1>5 DEF Goal

-----------------------------------------------------------------------------
(***************************************************************************)
(* The places of a download.                                               *)
(***************************************************************************)

\* The names that owners in the set A give to content c.
Given(A, c) == {EntryName[o][c] : o \in A} \ {NoName}

\* A download's state r, for the content c and the owners A that it asks: an
\* attempt has its owner, a rename has a name to give.  What is received does
\* not matter here.
RecvOK(r, c, A) ==
    /\ DOMAIN r = {"at", "rest", "owner", "data", "path", "cancelled"}
    /\ r.rest \in Seq(A)
    /\ r.at = "try" => r.rest # <<>>
    /\ r.at \in {"response", "chunks", "verify", "stat", "rename"} => r.owner \in A
    /\ r.at = "rename" => EntryName[r.owner][c] # NoName
    /\ r.at \in {"stat", "rename"} => r.path = c
    /\ r.at \in {"add", "ok"} => r.path = c \/ r.path \in Given(A, c)

RecvType ==
    /\ HistShape
    /\ want \in [Download -> Content]
    /\ dir \in [Name -> Content \cup {Absent}]
    /\ DOMAIN recv = Download
    /\ \A d \in Download : RecvOK(recv[d], want[d], hist.asked[d])

\* Names that owners give are file names.
LEMMA GivenNames ==
    ASSUME NEW A \in SUBSET Owner, NEW c \in Content
    PROVE  Given(A, c) \subseteq Name
BY TransferAssumption DEF Given, Name

\* Downloads start idle.
LEMMA RecvInit == Init => RecvType
<1> SUFFICES ASSUME Init PROVE RecvType
  BY Zenon
<1>1. dir \in [Name -> Content \cup {Absent}]
  BY Zenon, FolderAssumption DEF Init
<1>2. <<>> \in Seq({})
  OBVIOUS
<1>3. ASSUME NEW c PROVE RecvOK(NoRecv, c, {})
  BY Zenon, <1>2 DEF RecvOK, NoRecv
<1>4. HistShape /\ \A d \in Download : hist.asked[d] = {}
  BY Zenon DEF Init, HistShape
<1> QED
  BY Zenon, <1>1, <1>3, <1>4 DEF Init, RecvType

\* A step of one download leaves the others where they are.
LEMMA OneMoves ==
    ASSUME RecvType, NEW d \in Download, NEW r,
           recv' = [recv EXCEPT ![d] = r], RecvOK(r, want[d], hist'.asked[d]),
           HistShape', \A e \in Download \ {d} : hist'.asked[e] = hist.asked[e],
           want' = want, dir' \in [Name -> Content \cup {Absent}]
    PROVE  RecvType'
BY Zenon DEF RecvType

\* The order of the owners is a sequence of owners.
LEMMA OwnersSeq ==
    ASSUME NEW S \in SUBSET Owner, NEW s \in Orders(S)
    PROVE  s \in Seq(S)
<1>1. Cardinality(S) \in Nat
  BY Zenon, TransferAssumption, FS_Subset, FS_CardinalityType
<1>2. s \in [1..Cardinality(S) -> S]
  BY Zenon DEF Orders
<1> QED
  BY <1>1, <1>2

\* What is left of a sequence.
LEMMA HeadAndTail ==
    ASSUME NEW S, NEW s \in Seq(S), s # <<>>
    PROVE  Head(s) \in S /\ Tail(s) \in Seq(S)
OBVIOUS

\* An attempt that fails leads to the next owner or to the end.
LEMMA NextOwner ==
    ASSUME RecvType, NEW d \in Download, NEW rest \in Seq(hist.asked[d]), TryNext(d, rest),
           want' = want, dir' = dir, HistShape', hist'.asked = hist.asked
    PROVE  RecvType'
<1> DEFINE r == [recv[d] EXCEPT !.at = IF rest = <<>> THEN "failed" ELSE "try",
                                !.rest = rest, !.owner = NoOwner, !.data = <<>>]
<1>1. recv' = [recv EXCEPT ![d] = r]
  BY Zenon DEF TryNext, RecvType
<1>2. RecvOK(r, want[d], hist.asked[d])
  BY ZenonT(40) DEF RecvType, RecvOK
<1> QED
  BY Zenon, <1>1, <1>2, OneMoves DEF RecvType

\* Every step keeps the places.
LEMMA RecvStep == RecvType /\ [Next]_vars => RecvType'
<1> SUFFICES ASSUME RecvType, [Next]_vars PROVE RecvType'
  BY Zenon
<1>0. /\ HistShape /\ HistShape'
      /\ \A d \in Download : hist'.asked[d] = hist.asked[d] \/ GetOwners(d)
  BY Zenon, HistSteps DEF RecvType
<1>00. ASSUME NEW S, hist' = hist \/ hist' = Excuse(S) PROVE hist'.asked = hist.asked
  BY Zenon, <1>0, <1>00, ExcuseAdds
<1>1. CASE UNCHANGED <<want, recv, dir>>
  <2>1. \A d \in Download : ~ GetOwners(d)
    <3> SUFFICES ASSUME NEW d \in Download, GetOwners(d) PROVE FALSE
      BY Zenon
    <3>1. recv[d].at = "idle" /\ recv'[d].at \in {"failed", "try"}
      <4>1. DOMAIN recv = Download
            /\ DOMAIN recv[d] = {"at", "rest", "owner", "data", "path", "cancelled"}
        BY Zenon DEF RecvType, RecvOK
      <4> QED
        BY ZenonT(40), <4>1 DEF GetOwners
    <3> QED
      BY Zenon, <1>1, <3>1
  <2> QED
    BY Zenon, <1>0, <1>1, <2>1 DEF RecvType
<1>2. ASSUME NEW d \in Download, Cancel(d) PROVE RecvType'
  <2>1. RecvOK([recv[d] EXCEPT !.cancelled = TRUE], want[d], hist.asked[d])
    BY Zenon DEF RecvType, RecvOK
  <2>2. recv' = [recv EXCEPT ![d] = [recv[d] EXCEPT !.cancelled = TRUE]]
    BY Zenon, <1>2 DEF Cancel, RecvType
  <2>3. hist'.asked = hist.asked
    BY Zenon, <1>2, <1>00 DEF Cancel
  <2> QED
    BY Zenon, <1>0, <1>2, <2>1, <2>2, <2>3, OneMoves DEF Cancel, RecvType
<1>3. ASSUME NEW d \in Download, GetOwners(d) PROVE RecvType'
  <2>1. PICK S \in SUBSET Owner : \E owners \in Seq(S) :
          /\ recv' = [recv EXCEPT ![d].at = IF owners = <<>> THEN "failed" ELSE "try",
                                  ![d].rest = owners]
          /\ hist' = [hist EXCEPT !.asked[d] = S]
    <3>1. PICK hints \in SUBSET (Owner \cup {Self}) :
            \E owners \in Orders(hints \ {Self}) :
              /\ recv' = [recv EXCEPT ![d].at = IF owners = <<>> THEN "failed" ELSE "try",
                                      ![d].rest = owners]
              /\ hist' = [hist EXCEPT !.asked[d] = hints \ {Self}]
      BY <1>3, Zenon DEF GetOwners
    <3>2. hints \ {Self} \in SUBSET Owner
      BY Zenon
    <3> QED
      BY <3>1, <3>2, OwnersSeq, Zenon
  <2>2. PICK owners \in Seq(S) :
          recv' = [recv EXCEPT ![d].at = IF owners = <<>> THEN "failed" ELSE "try",
                               ![d].rest = owners]
    BY Zenon, <2>1
  <2>3. hist'.asked = [hist.asked EXCEPT ![d] = S]
    BY Zenon, <1>0, <2>1, AskedOwners
  <2>4. hist'.asked[d] = S /\ \A e \in Download \ {d} : hist'.asked[e] = hist.asked[e]
    BY Zenon, <1>0, <2>3 DEF HistShape
  <2> DEFINE r == [recv[d] EXCEPT !.at = IF owners = <<>> THEN "failed" ELSE "try",
                                  !.rest = owners]
  <2>5. recv' = [recv EXCEPT ![d] = r]
    BY <2>2, Zenon DEF RecvType
  <2>6. RecvOK(r, want[d], S)
    BY Zenon DEF RecvType, RecvOK
  <2> QED
    BY <1>0, <1>3, <2>4, <2>5, <2>6, OneMoves, Zenon DEF GetOwners, RecvType
<1>4. ASSUME NEW d \in Download, TryOwner(d) PROVE RecvType'
  <2>1. recv[d].rest \in Seq(hist.asked[d]) /\ recv[d].rest # <<>>
    BY Zenon, <1>4 DEF TryOwner, RecvType, RecvOK
  <2>2. Head(recv[d].rest) \in hist.asked[d] /\ Tail(recv[d].rest) \in Seq(hist.asked[d])
    BY Zenon, <2>1, HeadAndTail
  <2>0. hist'.asked = hist.asked /\ want' = want /\ dir' = dir
    BY Zenon, <1>4, <1>00 DEF TryOwner
  <2>3. CASE TryNext(d, Tail(recv[d].rest))
    BY <1>0, <2>0, <2>2, <2>3, NextOwner, Zenon
  <2>4. CASE recv' = [recv EXCEPT ![d] = [@ EXCEPT !.at = "response",
                                                   !.owner = Head(recv[d].rest),
                                                   !.rest = Tail(recv[d].rest)]]
    <3> DEFINE r == [recv[d] EXCEPT !.at = "response", !.owner = Head(recv[d].rest),
                                    !.rest = Tail(recv[d].rest)]
    <3>1. recv' = [recv EXCEPT ![d] = r]
      BY Zenon, <2>4 DEF RecvType
    <3>2. RecvOK(r, want[d], hist.asked[d])
      BY ZenonT(40), <2>2 DEF RecvType, RecvOK
    <3> QED
      BY Zenon, <1>0, <2>0, <3>1, <3>2, OneMoves DEF RecvType
  <2> QED
    BY Zenon, <1>4, <2>3, <2>4 DEF TryOwner
<1>5. ASSUME NEW d \in Download, AttemptFails(d), want' = want, dir' = dir,
             hist'.asked = hist.asked
      PROVE  RecvType'
  BY Zenon, <1>0, <1>5, NextOwner DEF AttemptFails, RecvType, RecvOK
<1>6. ASSUME NEW d \in Download, RecvResponse(d) PROVE RecvType'
  <2>0. hist'.asked = hist.asked /\ want' = want /\ dir' = dir
    BY Zenon, <1>6, <1>00 DEF RecvResponse, TempFileFails
  <2>1. CASE AttemptFails(d)
    BY Zenon, <1>5, <2>0, <2>1
  <2>2. CASE recv' = [recv EXCEPT ![d] = [recv[d] EXCEPT !.at = "chunks"]]
    <3>1. RecvOK([recv[d] EXCEPT !.at = "chunks"], want[d], hist.asked[d])
      BY Zenon, <1>6 DEF RecvResponse, RecvType, RecvOK
    <3> QED
      BY Zenon, <1>0, <2>0, <2>2, <3>1, OneMoves DEF RecvType
  <2> QED
    BY Zenon, <1>6, <2>1, <2>2 DEF RecvResponse, Recv, RecvOther, TempFileFails
<1>7. ASSUME NEW d \in Download, RecvChunk(d) PROVE RecvType'
  <2> DEFINE more == [recv[d] EXCEPT !.data = @ \o Received(d).data]
             done == [recv[d] EXCEPT !.at = "verify"]
  <2>0. hist'.asked = hist.asked /\ want' = want /\ dir' = dir
    BY Zenon, <1>7, <1>00 DEF RecvChunk, TempFileFails
  <2>1. CASE AttemptFails(d)
    BY Zenon, <1>5, <2>0, <2>1
  <2>2. RecvOK(more, want[d], hist.asked[d]) /\ RecvOK(done, want[d], hist.asked[d])
    BY Zenon, <1>7 DEF RecvChunk, RecvType, RecvOK
  <2>3. CASE recv' = [recv EXCEPT ![d] = more]
    BY Zenon, <1>0, <2>0, <2>2, <2>3, OneMoves DEF RecvType
  <2>4. CASE recv' = [recv EXCEPT ![d] = done]
    BY Zenon, <1>0, <2>0, <2>2, <2>4, OneMoves DEF RecvType
  <2> QED
    BY <1>7, <2>1, <2>3, <2>4, Zenon DEF RecvChunk, Recv, RecvOther, TempFileFails
<1>8. ASSUME NEW d \in Download, Verify(d) PROVE RecvType'
  <2>0. hist'.asked = hist.asked /\ want' = want
    BY Zenon, <1>0, <1>8, <1>00, ReplacedAdds DEF Verify, TempFileFails
  <2>1. CASE AttemptFails(d) /\ UNCHANGED dir
    BY Zenon, <1>5, <2>0, <2>1
  <2>2. CASE /\ dir' = [dir EXCEPT ![want[d]] = want[d]]
             /\ recv' = [recv EXCEPT ![d].at = "stat", ![d].path = want[d], ![d].data = <<>>]
    <3> DEFINE r == [recv[d] EXCEPT !.at = "stat", !.path = want[d], !.data = <<>>]
    <3>1. recv' = [recv EXCEPT ![d] = r]
      BY <2>2, Zenon DEF RecvType
    <3>2. RecvOK(r, want[d], hist.asked[d])
      BY ZenonT(40), <1>8 DEF Verify, RecvType, RecvOK
    <3>3. dir' \in [Name -> Content \cup {Absent}]
      BY <2>2, Zenon DEF RecvType
    <3> QED
      BY <1>0, <2>0, <3>1, <3>2, <3>3, OneMoves, Zenon
  <2> QED
    BY Zenon, <1>8, <2>1, <2>2 DEF Verify, TempFileFails
<1>9. ASSUME NEW d \in Download, StatTarget(d) PROVE RecvType'
  <2> DEFINE place == IF TargetName(d) # NoName /\ dir[TargetName(d)] = Absent
                      THEN "rename" ELSE "add"
             r == [recv[d] EXCEPT !.at = place]
  <2>1. recv' = [recv EXCEPT ![d] = r]
    BY SMTT(30), <1>9 DEF StatTarget, RecvType
  <2>2. RecvOK(r, want[d], hist.asked[d])
    BY ZenonT(40), <1>9 DEF StatTarget, RecvType, RecvOK, TargetName
  <2> QED
    BY Zenon, <1>0, <1>9, <2>1, <2>2, OneMoves DEF StatTarget, RecvType
<1>10. ASSUME NEW d \in Download, RenameTarget(d) PROVE RecvType'
  <2>0. hist'.asked = hist.asked /\ want' = want
    BY Zenon, <1>0, <1>10, ReplacedAdds DEF RenameTarget
  <2>1. TargetName(d) \in Given(hist.asked[d], want[d]) /\ want[d] \in Content
    BY <1>10, Zenon DEF RenameTarget, TargetName, RecvType, RecvOK, Given
  <2>2. CASE /\ dir' = [dir EXCEPT ![want[d]] = Absent, ![TargetName(d)] = dir[want[d]]]
             /\ recv' = [recv EXCEPT ![d].at = "add", ![d].path = TargetName(d)]
    <3> DEFINE r == [recv[d] EXCEPT !.at = "add", !.path = TargetName(d)]
    <3>1. recv' = [recv EXCEPT ![d] = r]
      BY <2>2, Zenon DEF RecvType
    <3>2. RecvOK(r, want[d], hist.asked[d])
      BY <1>10, <2>1, ZenonT(40) DEF RenameTarget, RecvType, RecvOK
    <3>3. dir' \in [Name -> Content \cup {Absent}]
      BY Zenon, <2>1, <2>2 DEF RecvType, Name
    <3> QED
      BY <1>0, <2>0, <3>1, <3>2, <3>3, OneMoves, Zenon
  <2>3. CASE recv' = [recv EXCEPT ![d].at = "add"] /\ UNCHANGED dir
    <3> DEFINE r == [recv[d] EXCEPT !.at = "add"]
    <3>1. recv' = [recv EXCEPT ![d] = r]
      BY Zenon, <2>3 DEF RecvType
    <3>2. RecvOK(r, want[d], hist.asked[d])
      BY Zenon, <1>10 DEF RenameTarget, RecvType, RecvOK
    <3> QED
      BY Zenon, <1>0, <2>0, <2>3, <3>1, <3>2, OneMoves DEF RecvType
  <2> QED
    BY Zenon, <1>10, <2>2, <2>3 DEF RenameTarget
<1>11. ASSUME NEW d \in Download, AddFile(d) PROVE RecvType'
  <2>1. recv' = [recv EXCEPT ![d] = [recv[d] EXCEPT !.at = "ok"]]
    BY Zenon, <1>11 DEF AddFile, RecvType
  <2>2. RecvOK([recv[d] EXCEPT !.at = "ok"], want[d], hist.asked[d])
    BY Zenon, <1>11 DEF AddFile, RecvType, RecvOK
  <2> QED
    BY Zenon, <1>0, <1>11, <2>1, <2>2, OneMoves DEF AddFile, RecvType
<1> QED
  BY <1>1, <1>2, <1>3, <1>4, <1>6, <1>7, <1>8, <1>9, <1>10, <1>11, Zenon
     DEF Next, vars, OwnerRemove, OwnerIndex, OwnerWrite, HandleRequest, Respond, OpenFile,
         ReadChunk, Broadcast, ConnLost, DownloadStep

\* Sequences of some owners are sequences of owners.
LEMMA SomeOwners ==
    ASSUME NEW A \in SUBSET Owner, NEW s \in Seq(A) PROVE s \in Seq(Owner)
OBVIOUS

\* The owners of a download are owners.
LEMMA RecvOwners ==
    ASSUME RecvType, NEW d \in Download
    PROVE  /\ recv[d].rest \in Seq(Owner) /\ (recv[d].at = "try" => recv[d].rest # <<>>)
           /\ recv[d].at \in {"response", "chunks", "verify", "stat", "rename"}
                => recv[d].owner \in Owner
<1>1. hist.asked[d] \in SUBSET Owner
  BY Zenon DEF RecvType, HistShape
<1> QED
  BY Zenon, <1>1, SomeOwners DEF RecvType, RecvOK

-----------------------------------------------------------------------------
(***************************************************************************)
(* The shared directory.                                                   *)
(***************************************************************************)

\* Only Verify and RenameTarget touch the directory, and nobody changes what a
\* download wants.
LEMMA DirSteps ==
    ASSUME [Next]_vars
    PROVE  /\ want' = want
           /\ \/ dir' = dir
              \/ \E d \in Download : Verify(d) \/ RenameTarget(d)
BY ZenonT(40) DEF Next, vars, OwnerRemove, OwnerIndex, OwnerWrite, HandleRequest, Respond, OpenFile,
       ReadChunk, Broadcast, ConnLost, Cancel, GetOwners, DownloadStep, TryOwner, RecvResponse,
       RecvChunk, Verify, StatTarget, RenameTarget, AddFile

\* Verify puts the wanted content under its hash, or the attempt has failed.
VerifyDone(d) ==
    /\ recv[d].at = "verify"
    /\ dir' = [dir EXCEPT ![want[d]] = want[d]]
    /\ recv' = [recv EXCEPT ![d].at = "stat", ![d].path = want[d], ![d].data = <<>>]
    /\ hist' = Replaced(want[d], want[d])

VerifyFails(d) ==
    /\ recv[d].at = "verify"
    /\ AttemptFails(d)
    /\ dir' = dir
    /\ hist' = hist \/ hist' = Excuse({<<d, recv[d].owner>>})

\* RenameTarget moves what is under the hash to a name of an entry, or fails.
RenameDone(d) ==
    /\ recv[d].at = "rename" /\ dir[want[d]] # Absent
    /\ dir' = [dir EXCEPT ![want[d]] = Absent, ![TargetName(d)] = dir[want[d]]]
    /\ recv' = [recv EXCEPT ![d].at = "add", ![d].path = TargetName(d)]
    /\ hist' = Replaced(TargetName(d), dir[want[d]])

RenameFails(d) ==
    /\ recv[d].at = "rename"
    /\ recv' = [recv EXCEPT ![d].at = "add"]
    /\ dir' = dir /\ hist' = hist

\* The two steps do nothing else.
LEMMA DirChange ==
    ASSUME NEW d \in Download
    PROVE  /\ Verify(d) => VerifyDone(d) \/ VerifyFails(d)
           /\ RenameTarget(d) => RenameDone(d) \/ RenameFails(d)
           /\ Verify(d) \/ RenameTarget(d) => want' = want /\ index' = index
BY Zenon DEF Verify, TempFileFails, RenameTarget, VerifyDone, VerifyFails, RenameDone, RenameFails

\* What Verify leaves: the content under its hash, the other names as they are.
LEMMA AfterVerify ==
    ASSUME RecvType, NEW d \in Download, VerifyDone(d)
    PROVE  /\ want[d] \in Content /\ want[d] \in Name /\ dir'[want[d]] = want[d]
           /\ \A n \in Name : n # want[d] => dir'[n] = dir[n]
           /\ recv'[d].at = "stat" /\ recv'[d].path = want[d]
           /\ \A e \in Download \ {d} : recv'[e] = recv[e]
           /\ hist'.clobbered = hist.clobbered \cup ({dir[want[d]]} \ {Absent, want[d]})
<1>1. /\ want[d] \in Content /\ want[d] \in Name /\ dir \in [Name -> Content \cup {Absent}]
      /\ DOMAIN recv = Download /\ HistShape
      /\ DOMAIN recv[d] = {"at", "rest", "owner", "data", "path", "cancelled"}
  BY Zenon DEF RecvType, RecvOK, Name
<1>2. recv'[d].at = "stat" /\ recv'[d].path = want[d] /\ \A e \in Download \ {d} : recv'[e] = recv[e]
  BY Zenon, <1>1 DEF VerifyDone
<1>3. dir'[want[d]] = want[d] /\ \A n \in Name : n # want[d] => dir'[n] = dir[n]
  BY Zenon, <1>1 DEF VerifyDone
<1>4. hist'.clobbered = hist.clobbered \cup ({dir[want[d]]} \ {Absent, want[d]})
  BY Zenon, <1>1, ReplacedAdds DEF VerifyDone
<1> QED
  BY Zenon, <1>1, <1>2, <1>3, <1>4

\* The name that an attempt's owner has for the file, when it has one.
LEMMA TargetIsGiven ==
    ASSUME RecvType, NEW d \in Download, recv[d].at \in {"stat", "rename"}, TargetName(d) # NoName
    PROVE  TargetName(d) \in Given(hist.asked[d], want[d]) /\ TargetName(d) \in Name
<1>1. TargetName(d) \in Given(hist.asked[d], want[d])
  BY Zenon DEF TargetName, RecvType, RecvOK, Given
<1>2. hist.asked[d] \in SUBSET Owner /\ want[d] \in Content
  BY Zenon DEF RecvType, HistShape
<1> QED
  BY Zenon, <1>1, <1>2, GivenNames

\* What the rename leaves: the file under the new name, nothing under the hash,
\* the other names as they are.
LEMMA AfterRename ==
    ASSUME RecvType, NEW d \in Download, RenameDone(d)
    PROVE  /\ TargetName(d) \in Given(hist.asked[d], want[d]) /\ TargetName(d) \in Name
           /\ want[d] \in Name /\ dir[want[d]] \in Content
           /\ dir'[TargetName(d)] = dir[want[d]]
           /\ dir'[want[d]] \in {Absent, dir[want[d]]}
           /\ \A n \in Name : n # want[d] /\ n # TargetName(d) => dir'[n] = dir[n]
           /\ recv'[d].at = "add" /\ recv'[d].path = TargetName(d)
           /\ \A e \in Download \ {d} : recv'[e] = recv[e]
           /\ hist'.clobbered = hist.clobbered
                                  \cup ({dir[TargetName(d)]} \ {Absent, dir[want[d]]})
<1>1. /\ want[d] \in Name /\ dir \in [Name -> Content \cup {Absent}]
      /\ DOMAIN recv = Download /\ HistShape /\ dir[want[d]] \in Content
      /\ DOMAIN recv[d] = {"at", "rest", "owner", "data", "path", "cancelled"}
      /\ recv[d].at = "rename" /\ TargetName(d) # NoName
  BY Zenon DEF RecvType, RecvOK, Name, RenameDone, TargetName
<1>2. TargetName(d) \in Given(hist.asked[d], want[d]) /\ TargetName(d) \in Name
  BY Zenon, <1>1, TargetIsGiven
<1>3. /\ recv'[d].at = "add" /\ recv'[d].path = TargetName(d)
      /\ \A e \in Download \ {d} : recv'[e] = recv[e]
  BY Zenon, <1>1 DEF RenameDone
<1>4. /\ dir'[TargetName(d)] = dir[want[d]]
      /\ dir'[want[d]] \in {Absent, dir[want[d]]}
      /\ \A n \in Name : n # want[d] /\ n # TargetName(d) => dir'[n] = dir[n]
  BY ZenonT(40), <1>1, <1>2 DEF RenameDone
<1>5. hist'.clobbered = hist.clobbered \cup ({dir[TargetName(d)]} \ {Absent, dir[want[d]]})
  BY Zenon, <1>1, ReplacedAdds DEF RenameDone
<1> QED
  BY Zenon, <1>1, <1>2, <1>3, <1>4, <1>5

\* How a download gets to the places after RequestFile: it stays where it is,
\* is still in the loop over the owners, or takes one of these steps.
LEMMA Moves ==
    ASSUME RecvType, [Next]_vars, NEW d \in Download
    PROVE  \/ /\ recv'[d].at = recv[d].at /\ recv'[d].owner = recv[d].owner
              /\ recv'[d].path = recv[d].path
           \/ /\ recv[d].at \notin {"stat", "rename", "add", "ok"}
              /\ recv'[d].at \in {"try", "response", "chunks", "verify", "failed"}
           \/ VerifyDone(d) \/ StatTarget(d) \/ RenameTarget(d) \/ AddFile(d)
<1> DEFINE Stays == /\ recv'[d].at = recv[d].at /\ recv'[d].owner = recv[d].owner
                    /\ recv'[d].path = recv[d].path
           Loops == recv'[d].at \in {"try", "response", "chunks", "verify", "failed"}
<1>1. CASE UNCHANGED recv
  BY Zenon, <1>1
<1>2. DOMAIN recv = Download
      /\ DOMAIN recv[d] = {"at", "rest", "owner", "data", "path", "cancelled"}
  BY Zenon DEF RecvType, RecvOK
<1>3. ASSUME NEW e \in Download, e # d, NEW r, recv' = [recv EXCEPT ![e] = r] PROVE Stays
  BY Zenon, <1>2, <1>3
<1>4. ASSUME NEW e \in Download, e # d, GetOwners(e) \/ DownloadStep(e) \/ Cancel(e) PROVE Stays
  BY <1>2, <1>4, ZenonT(40)
     DEF GetOwners, DownloadStep, Cancel, TryOwner, RecvResponse, RecvChunk, Verify, StatTarget,
         RenameTarget, AddFile, TryNext, AttemptFails, TempFileFails, Recv, RecvOther
<1>5. ASSUME NEW rest, TryNext(d, rest) PROVE Loops
  BY Zenon, <1>2, <1>5 DEF TryNext
<1>6. GetOwners(d) => Loops
  BY ZenonT(60), <1>2 DEF GetOwners
<1>7. TryOwner(d) => Loops
  BY <1>2, <1>5, Zenon DEF TryOwner
<1>8. RecvResponse(d) => Loops
  BY Zenon, <1>2, <1>5 DEF RecvResponse, Recv, RecvOther, AttemptFails, TempFileFails
<1>9. RecvChunk(d) => Stays \/ Loops
  BY <1>2, <1>5, Zenon DEF RecvChunk, Recv, RecvOther, AttemptFails, TempFileFails
<1>10. Cancel(d) => Stays
  BY Zenon, <1>2 DEF Cancel
<1>11. Verify(d) => VerifyDone(d) \/ Loops
  BY Zenon, <1>5, DirChange DEF VerifyFails, AttemptFails
<1>12. GetOwners(d) \/ TryOwner(d) \/ RecvResponse(d) \/ RecvChunk(d) \/ Verify(d)
         => recv[d].at \notin {"stat", "rename", "add", "ok"}
  BY Zenon DEF GetOwners, TryOwner, RecvResponse, RecvChunk, Verify
<1> HIDE DEF Stays, Loops
<1>13. \/ Stays \/ (Loops /\ recv[d].at \notin {"stat", "rename", "add", "ok"})
       \/ VerifyDone(d) \/ StatTarget(d) \/ RenameTarget(d) \/ AddFile(d)
  <2>1. UNCHANGED recv \/ \E e \in Download : GetOwners(e) \/ DownloadStep(e) \/ Cancel(e)
    BY Zenon DEF Next, vars, OwnerRemove, OwnerIndex, OwnerWrite, HandleRequest, Respond, OpenFile,
       ReadChunk, Broadcast, ConnLost
  <2>2. CASE UNCHANGED recv
    BY Zenon, <2>2 DEF Stays
  <2>3. CASE GetOwners(d) \/ DownloadStep(d) \/ Cancel(d)
    BY Zenon, <1>6, <1>7, <1>8, <1>9, <1>10, <1>11, <1>12, <2>3 DEF DownloadStep
  <2> QED
    BY Zenon, <1>4, <2>1, <2>2, <2>3
<1> QED
  BY Zenon, <1>13 DEF Stays, Loops

\* A download that has its file in place: what its last steps do.
LEMMA LastSteps ==
    ASSUME RecvType, NEW d \in Download
    PROVE  /\ StatTarget(d) =>
                /\ recv[d].at = "stat" /\ recv'[d].at \in {"rename", "add"}
                /\ recv'[d].owner = recv[d].owner /\ recv'[d].path = recv[d].path
                /\ recv'[d].at = "rename" => TargetName(d) # NoName /\ dir[TargetName(d)] = Absent
           /\ RenameTarget(d) => recv[d].at = "rename" /\ recv'[d].at = "add"
           /\ AddFile(d) => /\ recv[d].at = "add" /\ recv'[d].at = "ok"
                            /\ recv'[d].path = recv[d].path
<1>1. DOMAIN recv = Download
      /\ DOMAIN recv[d] = {"at", "rest", "owner", "data", "path", "cancelled"}
  BY Zenon DEF RecvType, RecvOK
<1>2. ASSUME StatTarget(d)
      PROVE  /\ recv[d].at = "stat" /\ recv'[d].at \in {"rename", "add"}
             /\ recv'[d].owner = recv[d].owner /\ recv'[d].path = recv[d].path
             /\ recv'[d].at = "rename" => TargetName(d) # NoName /\ dir[TargetName(d)] = Absent
  <2> DEFINE p == IF TargetName(d) # NoName /\ dir[TargetName(d)] = Absent THEN "rename" ELSE "add"
  <2>1. recv[d].at = "stat" /\ recv' = [recv EXCEPT ![d].at = p]
    BY Zenon, <1>2 DEF StatTarget
  <2>2. p \in {"rename", "add"} /\ (p = "rename" => TargetName(d) # NoName /\ dir[TargetName(d)] = Absent)
    BY Zenon
  <2> HIDE DEF p
  <2>3. recv'[d].at = p /\ recv'[d].owner = recv[d].owner /\ recv'[d].path = recv[d].path
    BY Zenon, <1>1, <2>1
  <2> QED
    BY Zenon, <2>1, <2>2, <2>3
<1>3. RenameTarget(d) => recv[d].at = "rename" /\ recv'[d].at = "add"
  BY Zenon, <1>1 DEF RenameTarget
<1>4. AddFile(d) => recv[d].at = "add" /\ recv'[d].at = "ok" /\ recv'[d].path = recv[d].path
  BY Zenon, <1>1 DEF AddFile
<1> QED
  BY Zenon, <1>2, <1>3, <1>4

\* A file that was fetched stays on record.
LEMMA FetchedGrows ==
    ASSUME RecvType, [Next]_vars
    PROVE  /\ Fetched \subseteq Fetched'
           /\ \A d \in Download : VerifyDone(d) => want[d] \in Fetched'
           /\ \A c \in Fetched' : c \in Fetched \/ \E d \in Download : VerifyDone(d) /\ want[d] = c
<1> DEFINE Late(d) == recv[d].at \in {"stat", "rename", "add", "ok"}
<1>1. want' = want
  BY Zenon, DirSteps
<1>2. ASSUME NEW d \in Download, Late(d) PROVE Late(d)'
  BY Zenon, <1>2, Moves, LastSteps, AfterVerify
<1>3. ASSUME NEW d \in Download, Late(d)', ~ Late(d) PROVE VerifyDone(d)
  BY Zenon, <1>3, Moves, LastSteps
<1>4. ASSUME NEW d \in Download, VerifyDone(d) PROVE Late(d)'
  BY Zenon, <1>4, AfterVerify
<1>5. Fetched = {want[d] : d \in {e \in Download : Late(e)}}
  BY Zenon DEF Fetched
<1>6. Fetched' = {want[d] : d \in {e \in Download : Late(e)'}}
  BY Zenon, <1>1 DEF Fetched
<1> HIDE DEF Late
<1> QED
  BY Zenon, <1>1, <1>2, <1>3, <1>4, <1>5, <1>6

\* A name that is the hash of a fetched file holds a fetched file or nothing; any
\* other is as it was, unless it was free and has been taken by a fetched file.
NamesInv ==
    \A n \in Name :
        /\ n \in Fetched => dir[n] \in Fetched \cup {Absent}
        /\ n \notin Fetched => \/ dir[n] = hist.kept[n]
                               \/ hist.kept[n] = Absent /\ dir[n] \in Fetched

\* Once renameToOriginal has seen that a name is free, the name was free
\* before the downloads too, or is the hash of a file that they fetched.
RenamesToFree ==
    \A d \in Download :
        recv[d].at = "rename" => hist.kept[TargetName(d)] = Absent \/ TargetName(d) \in Fetched

DirInv == RecvType /\ NamesInv /\ RenamesToFree

\* The downloads start with the folder as it is.
LEMMA DirInit == Init => DirInv
<1> SUFFICES ASSUME Init PROVE DirInv
  BY Zenon
<1>1. hist.kept = dir
  BY Zenon DEF Init
<1>2. \A d \in Download : recv[d].at = "idle"
  BY Zenon DEF Init, NoRecv
<1>3. Fetched = {}
  BY Zenon, <1>2 DEF Fetched
<1> QED
  BY Zenon, <1>1, <1>2, <1>3, RecvInit DEF DirInv, NamesInv, RenamesToFree

\* What was fetched is all that is moved about, and a name that was taken is
\* never free, so it is never the target.
LEMMA NamesStep == DirInv /\ [Next]_vars => NamesInv'
<1> SUFFICES ASSUME DirInv, [Next]_vars PROVE NamesInv'
  BY Zenon
<1>1. want' = want /\ hist'.kept = hist.kept /\ RecvType /\ NamesInv /\ Fetched \subseteq Fetched'
  BY Zenon, DirSteps, HistSteps, FetchedGrows DEF DirInv, RecvType
<1>2. ASSUME \A d \in Download : ~ VerifyDone(d) PROVE Fetched' = Fetched
  BY Zenon, <1>1, <1>2, FetchedGrows
<1>3. ASSUME NEW d \in Download, VerifyDone(d) PROVE NamesInv'
  <2>1. /\ want[d] \in Name /\ dir'[want[d]] = want[d] /\ want[d] \in Fetched'
        /\ \A n \in Name : n # want[d] => dir'[n] = dir[n]
    BY Zenon, <1>1, <1>3, AfterVerify, FetchedGrows
  <2>2. ASSUME NEW c \in Fetched', c # want[d] PROVE c \in Fetched
    <3>1. ASSUME NEW e \in Download, VerifyDone(e) PROVE e = d
      <4>1. recv[e].at = "verify" /\ recv'[e].at = "stat" /\ (e # d => recv'[e] = recv[e])
        BY Zenon, <1>1, <1>3, <3>1, AfterVerify DEF VerifyDone
      <4> QED
        BY Zenon, <4>1
    <3> QED
      BY Zenon, <1>1, <2>2, <3>1, FetchedGrows
  <2> QED
    BY Zenon, <1>1, <2>1, <2>2 DEF NamesInv
<1>4. ASSUME NEW d \in Download, RenameDone(d), Fetched' = Fetched PROVE NamesInv'
  <2> DEFINE t == TargetName(d)
  <2>1. /\ t \in Name /\ want[d] \in Name /\ dir[want[d]] \in Content
        /\ dir'[t] = dir[want[d]] /\ dir'[want[d]] \in {Absent, dir[want[d]]}
        /\ \A n \in Name : n # want[d] /\ n # t => dir'[n] = dir[n]
    BY Zenon, <1>1, <1>4, AfterRename
  <2>2. want[d] \in Fetched
    BY Zenon, <1>4 DEF RenameDone, Fetched
  <2>3. dir[want[d]] \in Fetched
    BY Zenon, <1>1, <2>1, <2>2, TransferAssumption DEF NamesInv
  <2>4. hist.kept[t] = Absent \/ t \in Fetched
    BY Zenon, <1>4 DEF DirInv, RenamesToFree, RenameDone
  <2> HIDE DEF t
  <2>5. ASSUME NEW n \in Name
        PROVE  /\ n \in Fetched => dir'[n] \in Fetched \cup {Absent}
               /\ n \notin Fetched => \/ dir'[n] = hist.kept[n]
                                      \/ hist.kept[n] = Absent /\ dir'[n] \in Fetched
    BY ZenonT(40), <1>1, <2>1, <2>2, <2>3, <2>4 DEF NamesInv
  <2> QED
    BY Zenon, <1>1, <1>4, <2>5 DEF NamesInv
<1>5. ASSUME dir' = dir, Fetched' = Fetched PROVE NamesInv'
  BY Zenon, <1>1, <1>5 DEF NamesInv
<1> QED
  BY Zenon, <1>2, <1>3, <1>4, <1>5, DirSteps, DirChange DEF VerifyFails, RenameFails

\* A name that is free when renameToOriginal looks was free before, or a hash of
\* what was fetched.
LEMMA FreeStep == DirInv /\ [Next]_vars => RenamesToFree'
<1> SUFFICES ASSUME DirInv, [Next]_vars, NEW d \in Download, recv'[d].at = "rename"
             PROVE  LET t == EntryName[recv'[d].owner][want'[d]]
                    IN  hist'.kept[t] = Absent \/ t \in Fetched'
  BY Zenon DEF RenamesToFree, TargetName
<1>1. want' = want /\ hist'.kept = hist.kept /\ RecvType /\ NamesInv /\ Fetched \subseteq Fetched'
  BY Zenon, DirSteps, HistSteps, FetchedGrows DEF DirInv, RecvType
<1>2. ~ RenameTarget(d) /\ ~ AddFile(d) /\ ~ VerifyDone(d)
  BY Zenon, <1>1, LastSteps, AfterVerify
<1>3. CASE recv[d].at = "rename" /\ recv'[d].owner = recv[d].owner
  BY Zenon, <1>1, <1>3 DEF DirInv, RenamesToFree, TargetName
<1>4. CASE StatTarget(d)
  <2>1. /\ recv[d].at = "stat" /\ recv'[d].owner = recv[d].owner
        /\ TargetName(d) # NoName /\ dir[TargetName(d)] = Absent
    BY Zenon, <1>1, <1>4, LastSteps
  <2>2. TargetName(d) \in Name
    BY Zenon, <1>1, <2>1, TargetIsGiven
  <2>3. hist.kept[TargetName(d)] = Absent \/ TargetName(d) \in Fetched
    BY Zenon, <1>1, <2>1, <2>2 DEF NamesInv
  <2> QED
    BY Zenon, <1>1, <2>1, <2>3 DEF TargetName
<1> QED
  BY Zenon, <1>1, <1>2, <1>3, <1>4, Moves

\* The directory's invariant holds in every reachable state.
LEMMA DirInvariant == Spec => []DirInv
<1>1. DirInv /\ [Next]_vars => DirInv'
  BY Zenon, RecvStep, NamesStep, FreeStep DEF DirInv
<1> QED
  BY <1>1, DirInit, PTL DEF Spec

\* DirectoryIsVerified for any number of downloads and owners, whatever the
\* owners' files and the connections do, and however entries are named.
THEOREM Verified == Spec => []DirectoryIsVerified
<1>1. DirInv => DirectoryIsVerified
  BY Zenon DEF DirInv, NamesInv, DirectoryIsVerified
<1> QED
  BY <1>1, DirInvariant, PTL

\* TakenNamesAreKept for any number of downloads: renameToOriginal's check and
\* its rename are two steps, and still no file from before is replaced, except
\* under the hash of a file that was fetched.
THEOREM TakenNames == Spec => []TakenNamesAreKept
<1>1. DirInv => TakenNamesAreKept
  BY Zenon DEF DirInv, NamesInv, TakenNamesAreKept
<1> QED
  BY <1>1, DirInvariant, PTL

-----------------------------------------------------------------------------
(***************************************************************************)
(* The path that Download returns.                                         *)
(***************************************************************************)

\* No other download that has started contends with d for a file name.
Alone(d) == \A e \in Download \ {d} : recv[e].at # "idle" => ~ Contend(d, e)

\* From Verify on the file is under the hash, and then under the path.
PathHolds ==
    \A d \in Download : Alone(d) =>
        /\ recv[d].at \in {"stat", "rename"} => dir[want[d]] = want[d]
        /\ recv[d].at \in {"add", "ok"} => dir[recv[d].path] = want[d]

\* The names of a download that has started are settled.
LEMMA TouchedStays ==
    ASSUME RecvType, [Next]_vars, NEW d \in Download, recv[d].at # "idle"
    PROVE  recv'[d].at # "idle" /\ Touched(d)' = Touched(d)
<1>1. recv'[d].at # "idle"
  BY Zenon, Moves, LastSteps, AfterVerify
<1>2. want' = want /\ hist'.asked[d] = hist.asked[d]
  BY Zenon, DirSteps, HistSteps DEF RecvType, GetOwners
<1> QED
  BY Zenon, <1>1, <1>2 DEF Touched

\* So a started download that is alone after a step was alone before it.
LEMMA AloneBefore ==
    ASSUME RecvType, [Next]_vars, NEW d \in Download, recv[d].at # "idle", Alone(d)'
    PROVE  Alone(d)
<1> SUFFICES ASSUME NEW e \in Download \ {d}, recv[e].at # "idle" PROVE ~ Contend(d, e)
  BY Zenon DEF Alone
<1>1. recv'[e].at # "idle" /\ Touched(e)' = Touched(e) /\ Touched(d)' = Touched(d)
  BY Zenon, TouchedStays
<1> QED
  BY Zenon, <1>1 DEF Alone, Contend

\* Another download's step leaves alone the names of one that it does not
\* contend with.
LEMMA OthersNames ==
    ASSUME RecvType, NEW d \in Download, NEW e \in Download, d # e, Alone(d),
           Verify(e) \/ RenameTarget(e), NEW n \in Touched(d)
    PROVE  dir'[n] = dir[n] /\ recv'[d] = recv[d]
<1>1. want[d] \in Content /\ hist.asked[d] \in SUBSET Owner
  BY Zenon DEF RecvType, HistShape
<1>2. n \in Name
  BY Zenon, <1>1, GivenNames DEF Touched, Given, Name
<1>3. n \notin Touched(e)
  BY Zenon DEF Alone, Verify, RenameTarget, Contend
<1>4. n # want[e] /\ n \notin Given(hist.asked[e], want[e])
  BY Zenon, <1>3 DEF Touched, Given
<1>5. CASE VerifyDone(e)
  BY Zenon, <1>2, <1>4, <1>5, AfterVerify
<1>6. CASE RenameDone(e)
  BY Zenon, <1>2, <1>4, <1>6, AfterRename
<1>7. CASE VerifyFails(e) \/ RenameFails(e)
  BY Zenon, <1>7 DEF VerifyFails, RenameFails, AttemptFails, TryNext, RecvType
<1> QED
  BY Zenon, <1>5, <1>6, <1>7, DirChange

\* The file goes where the path says, and stays there.
LEMMA PathStep == DirInv /\ PathHolds /\ [Next]_vars => PathHolds'
<1> SUFFICES ASSUME DirInv, PathHolds, [Next]_vars, NEW d \in Download, Alone(d)'
             PROVE  /\ recv'[d].at \in {"stat", "rename"} => dir'[want'[d]] = want'[d]
                    /\ recv'[d].at \in {"add", "ok"} => dir'[recv'[d].path] = want'[d]
  BY Zenon DEF PathHolds
<1>1. RecvType /\ want' = want /\ want[d] \in Content /\ RecvOK(recv[d], want[d], hist.asked[d])
  BY Zenon, DirSteps DEF DirInv, RecvType
<1>2. CASE recv[d].at \notin {"verify", "stat", "rename", "add", "ok"}
  BY Zenon, <1>1, <1>2, Moves, LastSteps DEF VerifyDone
<1>3. CASE recv[d].at \in {"verify", "stat", "rename", "add", "ok"}
  <2>1. Alone(d)
    BY Zenon, <1>1, <1>3, AloneBefore
  <2>2. /\ recv[d].at \in {"stat", "rename"} => dir[want[d]] = want[d]
        /\ recv[d].at \in {"add", "ok"} => dir[recv[d].path] = want[d]
    BY Zenon, <2>1 DEF PathHolds
  <2>3. /\ want[d] \in Touched(d)
        /\ recv[d].at \in {"add", "ok"} => recv[d].path \in Touched(d)
    BY Zenon, <1>1 DEF RecvOK, Touched, Given
  <2>4. CASE \E e \in Download \ {d} : Verify(e) \/ RenameTarget(e)
    BY Zenon, <1>1, <2>1, <2>2, <2>3, <2>4, OthersNames
  <2>5. CASE VerifyDone(d)
    BY Zenon, <1>1, <2>5, AfterVerify
  <2>6. CASE RenameDone(d)
    BY Zenon, <1>1, <2>2, <2>6, AfterRename DEF RenameDone
  <2>7. CASE RenameFails(d)
    <3>1. recv'[d].at = "add" /\ recv'[d].path = recv[d].path
      BY Zenon, <1>1, <2>7 DEF RenameFails, RecvType, RecvOK
    <3> QED
      BY Zenon, <1>1, <2>2, <2>7, <3>1 DEF RenameFails, RecvOK
  <2>8. CASE dir' = dir /\ ~ VerifyDone(d) /\ ~ RenameTarget(d)
    <3>1. CASE StatTarget(d)
      BY Zenon, <1>1, <2>2, <2>8, <3>1, LastSteps DEF RecvOK
    <3>2. CASE AddFile(d)
      BY Zenon, <1>1, <2>2, <2>8, <3>2, LastSteps
    <3> QED
      BY Zenon, <1>1, <2>2, <2>8, <3>1, <3>2, Moves
  <2> QED
    BY Zenon, <2>4, <2>5, <2>6, <2>7, <2>8, DirSteps, DirChange DEF VerifyFails
<1> QED
  BY Zenon, <1>2, <1>3

\* ReturnedPathHoldsFile for any number of downloads and owners, and any names.
THEOREM PathReturned == Spec => []ReturnedPathHoldsFile
<1>1. Init => PathHolds
  <2> SUFFICES ASSUME Init PROVE PathHolds
    BY Zenon
  <2>1. \A d \in Download : recv[d].at = "idle"
    BY Zenon DEF Init, NoRecv
  <2> QED
    BY Zenon, <2>1 DEF PathHolds
<1>2. PathHolds => ReturnedPathHoldsFile
  BY Zenon DEF PathHolds, Alone, ReturnedPathHoldsFile
<1> QED
  BY <1>1, <1>2, PathStep, DirInvariant, PTL DEF Spec

-----------------------------------------------------------------------------
(***************************************************************************)
(* The index after the downloads.                                          *)
(***************************************************************************)

\* The index leads to a file with content c.
Leads(c) == index[c] \in Name /\ dir[index[c]] = c

\* Download e has content c under its path and has not registered it yet.  What
\* it fetched may be another content, when another download's rename came first.
Holds(e, c) == recv[e].at \in {"stat", "rename", "add"} /\ dir[recv[e].path] = c

Settled(c) == Leads(c) \/ \E e \in Download : Holds(e, c)

\* A content that has been put in its place and not been replaced is found
\* through the index, or by a download that is about to register it: a
\* rename that takes the file from under the index does so on its way to Add.
IndexInv ==
    /\ index \in [Content -> Name \cup {NoName}]
    /\ \A d \in Download :
         recv[d].at \in {"stat", "rename", "add", "ok"} /\ want[d] \notin hist.clobbered
            => Settled(want[d])

\* The path of a download that has its file in place is a file name.
LEMMA PathIsName ==
    ASSUME RecvType, NEW d \in Download, recv[d].at \in {"stat", "rename", "add", "ok"}
    PROVE  recv[d].path \in Name
<1>1. want[d] \in Content /\ hist.asked[d] \in SUBSET Owner
  BY Zenon DEF RecvType, HistShape
<1>2. recv[d].path = want[d] \/ recv[d].path \in Given(hist.asked[d], want[d])
  BY Zenon DEF RecvType, RecvOK
<1> QED
  BY Zenon, <1>1, <1>2, GivenNames DEF Name

\* Only AddFile changes the index.
LEMMA IndexSteps ==
    ASSUME [Next]_vars PROVE index' = index \/ \E d \in Download : AddFile(d)
BY ZenonT(40) DEF Next, vars, OwnerRemove, OwnerIndex, OwnerWrite, HandleRequest, Respond, OpenFile,
     ReadChunk, Broadcast, ConnLost, Cancel, GetOwners, DownloadStep, TryOwner, RecvResponse,
     RecvChunk, Verify, StatTarget, RenameTarget

\* A file that is put under its hash or renamed is held by the download that
\* did so, and any other content stays where it is, or counts as replaced.
LEMMA MoveSettles ==
    ASSUME RecvType, NEW e \in Download, VerifyDone(e) \/ RenameDone(e)
    PROVE  \E c \in Content :
             /\ Holds(e, c)'
             /\ Holds(e, c) \/ ~ \E x \in Content : Holds(e, x)
             /\ \A n \in Name : dir[n] \in Content \ ({c} \cup hist'.clobbered) => dir'[n] = dir[n]
             /\ \A d \in Download \ {e} : recv'[d] = recv[d]
             /\ VerifyDone(e) => c = want[e]
<1>1. CASE VerifyDone(e)
  <2>0. PICK c \in Content : c = want[e]
    BY Zenon DEF RecvType
  <2>1. /\ c \in Name /\ dir'[c] = c
        /\ \A n \in Name : n # c => dir'[n] = dir[n]
        /\ recv'[e].at = "stat" /\ recv'[e].path = c
        /\ \A d \in Download \ {e} : recv'[d] = recv[d]
        /\ hist'.clobbered = hist.clobbered \cup ({dir[c]} \ {Absent, c})
    BY Zenon, <1>1, <2>0, AfterVerify
  <2>2. Holds(e, c)'
    BY Zenon, <2>1 DEF Holds
  <2>3. ~ \E x \in Content : Holds(e, x)
    BY Zenon, <1>1 DEF Holds, VerifyDone
  <2>4. ASSUME NEW n \in Name, dir[n] \in Content \ ({c} \cup hist'.clobbered) PROVE dir'[n] = dir[n]
    BY Zenon, <2>1, <2>4, TransferAssumption
  <2> QED
    BY Zenon, <2>0, <2>1, <2>2, <2>3, <2>4
<1>2. CASE RenameDone(e)
  <2> DEFINE t == TargetName(e)
  <2>0. PICK c \in Content : c = dir[want[e]]
    BY Zenon, <1>2, AfterRename
  <2>1. /\ t \in Name /\ want[e] \in Name /\ dir'[t] = c
        /\ \A n \in Name : n # want[e] /\ n # t => dir'[n] = dir[n]
        /\ recv'[e].at = "add" /\ recv'[e].path = t
        /\ \A d \in Download \ {e} : recv'[d] = recv[d]
        /\ hist'.clobbered = hist.clobbered \cup ({dir[t]} \ {Absent, c})
    BY Zenon, <1>2, <2>0, AfterRename
  <2>2. recv[e].at = "rename" /\ recv[e].path = want[e] /\ ~ VerifyDone(e)
    BY Zenon, <1>2 DEF RenameDone, VerifyDone, RecvType, RecvOK
  <2>3. Holds(e, c) /\ Holds(e, c)'
    <3>1. dir'[recv'[e].path] = c
      BY Zenon, <2>1
    <3> QED
      BY Zenon, <2>0, <2>1, <2>2, <3>1 DEF Holds
  <2> HIDE DEF t
  <2>4. ASSUME NEW n \in Name, dir[n] \in Content \ ({c} \cup hist'.clobbered) PROVE dir'[n] = dir[n]
    <3>1. n # t
      BY Zenon, <2>1, <2>4, TransferAssumption
    <3>2. n # want[e]
      BY Zenon, <2>0, <2>4
    <3> QED
      BY Zenon, <2>1, <3>1, <3>2
  <2> QED
    BY Zenon, <2>1, <2>2, <2>3, <2>4
<1> QED
  BY Zenon, <1>1, <1>2

\* Registering a file: the index leads to what the path holds.
LEMMA AddSettles ==
    ASSUME RecvType, IndexInv, NEW e \in Download, AddFile(e)
    PROVE  /\ index' \in [Content -> Name \cup {NoName}]
           /\ \A c \in Content : Leads(c) => Leads(c)'
           /\ \A c \in Content : Holds(e, c) => Leads(c)'
           /\ \A d \in Download \ {e} : recv'[d] = recv[d]
<1> DEFINE file == dir[recv[e].path]
<1>1. /\ dir' = dir /\ want' = want /\ recv[e].at = "add"
      /\ index' = IF file = Absent THEN index ELSE [index EXCEPT ![file] = recv[e].path]
      /\ recv' = [recv EXCEPT ![e].at = "ok"]
  BY Zenon DEF AddFile
<1>2. /\ recv[e].path \in Name /\ index \in [Content -> Name \cup {NoName}]
      /\ file \in Content \cup {Absent} /\ DOMAIN recv = Download /\ want[e] \in Content
  BY Zenon, <1>1, PathIsName DEF RecvType, IndexInv
<1> HIDE DEF file
<1>3. index' \in [Content -> Name \cup {NoName}]
  BY Zenon, <1>1, <1>2
<1>4. ASSUME NEW c \in Content, file = c PROVE Leads(c)'
  BY Zenon, <1>1, <1>2, <1>4, TransferAssumption DEF Leads, file
<1>5. ASSUME NEW c \in Content, Leads(c) PROVE Leads(c)'
  <2>1. CASE file # c
    BY Zenon, <1>1, <1>2, <1>5, <2>1 DEF Leads
  <2> QED
    BY Zenon, <1>4, <2>1
<1>6. ASSUME NEW c \in Content, Holds(e, c) PROVE Leads(c)'
  BY Zenon, <1>4, <1>6 DEF Holds, file
<1>7. \A d \in Download \ {e} : recv'[d] = recv[d]
  BY Zenon, <1>1, <1>2
<1> QED
  BY Zenon, <1>3, <1>5, <1>6, <1>7

\* Every step keeps the contents in reach.
LEMMA IndexStep == DirInv /\ IndexInv /\ [Next]_vars => IndexInv'
<1> SUFFICES ASSUME DirInv, IndexInv, [Next]_vars PROVE IndexInv'
  BY Zenon
<1>1. /\ RecvType /\ want' = want /\ want \in [Download -> Content]
      /\ index \in [Content -> Name \cup {NoName}] /\ dir \in [Name -> Content \cup {Absent}]
      /\ hist.clobbered \subseteq hist'.clobbered
  BY Zenon, DirSteps, HistSteps DEF DirInv, RecvType, IndexInv
<1>2. index' \in [Content -> Name \cup {NoName}]
  BY Zenon, <1>1, IndexSteps, AddSettles
<1> SUFFICES ASSUME NEW d \in Download, recv'[d].at \in {"stat", "rename", "add", "ok"},
                    want[d] \notin hist'.clobbered
             PROVE  Settled(want[d])'
  BY Zenon, <1>1, <1>2 DEF IndexInv
<1>3. PICK c \in Content : c = want[d] /\ c # Absent
  BY Zenon, <1>1, TransferAssumption
<1>4. Settled(c) \/ VerifyDone(d)
  <2>1. recv[d].at \in {"stat", "rename", "add", "ok"} \/ VerifyDone(d)
    BY Zenon, <1>1, Moves, LastSteps
  <2> QED
    BY Zenon, <1>1, <1>3, <2>1 DEF IndexInv
<1>5. ASSUME NEW e \in Download, VerifyDone(e) \/ RenameDone(e), index' = index PROVE Settled(c)'
  <2>1. PICK x \in Content :
             /\ Holds(e, x)'
             /\ Holds(e, x) \/ ~ \E y \in Content : Holds(e, y)
             /\ \A n \in Name : dir[n] \in Content \ ({x} \cup hist'.clobbered) => dir'[n] = dir[n]
             /\ \A f \in Download \ {e} : recv'[f] = recv[f]
             /\ VerifyDone(e) => x = want[e]
    BY Zenon, <1>1, <1>5, MoveSettles
  <2>2. CASE x = c
    BY Zenon, <2>1, <2>2 DEF Settled
  <2>3. CASE x # c
    <3>1. \A n \in Name : dir[n] = c => dir'[n] = c
      BY Zenon, <1>3, <2>1, <2>3
    <3>2. Settled(c)
      <4>1. VerifyDone(d) => d # e
        BY Zenon, <1>3, <2>1, <2>3
      <4>2. d # e => ~ VerifyDone(d)
        <5>1. recv'[d] = recv[d] => ~ VerifyDone(d)
          BY Zenon, <1>1, AfterVerify DEF VerifyDone
        <5> QED
          BY Zenon, <2>1, <5>1
      <4> QED
        BY Zenon, <1>4, <4>1, <4>2
    <3>3. CASE Leads(c)
      BY Zenon, <1>5, <3>1, <3>3 DEF Leads, Settled
    <3>4. ASSUME NEW f \in Download, Holds(f, c) PROVE Settled(c)'
      <4>1. f # e
        BY Zenon, <1>3, <2>1, <2>3, <3>4 DEF Holds
      <4>2. recv'[f] = recv[f] /\ recv[f].path \in Name
        BY Zenon, <1>1, <2>1, <3>4, <4>1, PathIsName DEF Holds
      <4> QED
        BY Zenon, <3>1, <3>4, <4>2 DEF Holds, Settled
    <3> QED
      BY Zenon, <3>2, <3>3, <3>4 DEF Settled
  <2> QED
    BY Zenon, <2>2, <2>3
<1>6. ASSUME dir' = dir, \A e \in Download : ~ VerifyDone(e) /\ ~ RenameDone(e)
      PROVE  Settled(c)'
  <2>1. CASE Leads(c)
    BY Zenon, <1>1, <1>3, <1>6, <2>1, IndexSteps, AddSettles DEF Leads, Settled
  <2>2. ASSUME NEW x \in Download, Holds(x, c) PROVE Settled(c)'
    <3>1. recv[x].at \in {"stat", "rename", "add"} /\ dir[recv[x].path] = c
      BY Zenon, <2>2 DEF Holds
    <3>2. CASE recv'[x].at \in {"stat", "rename", "add"} /\ recv'[x].path = recv[x].path
      BY Zenon, <1>6, <3>1, <3>2 DEF Holds, Settled
    <3>3. CASE RenameTarget(x)
      <4>1. RenameFails(x)
        BY Zenon, <1>6, <3>3, DirChange
      <4>2. recv'[x].at = "add" /\ recv'[x].path = recv[x].path
        BY Zenon, <1>1, <4>1 DEF RenameFails, RecvType, RecvOK
      <4> QED
        BY Zenon, <3>2, <4>2
    <3>4. CASE AddFile(x)
      BY Zenon, <1>1, <1>3, <2>2, <3>4, AddSettles DEF Settled
    <3> QED
      BY Zenon, <1>1, <1>6, <3>1, <3>2, <3>3, <3>4, Moves, LastSteps
  <2> QED
    BY Zenon, <1>4, <1>6, <2>1, <2>2 DEF Settled
<1>7. Settled(c)'
  <2>1. CASE \E e \in Download : VerifyDone(e) \/ RenameDone(e)
    <3>1. PICK e \in Download : VerifyDone(e) \/ RenameDone(e)
      BY Zenon, <2>1
    <3>2. index' = index
      <4>1. ~ \E x \in Download : AddFile(x)
        <5>1. recv'[e].at \in {"stat", "add"} /\ recv[e].at \in {"verify", "rename"}
          BY Zenon, <1>1, <3>1, AfterVerify, AfterRename DEF VerifyDone, RenameDone
        <5>2. ASSUME NEW x \in Download, AddFile(x) PROVE x = e
          BY Zenon, <1>1, <5>1, <5>2, AddSettles
        <5> QED
          BY Zenon, <1>1, <5>1, <5>2, LastSteps
      <4> QED
        BY Zenon, <4>1, IndexSteps
    <3> QED
      BY Zenon, <1>5, <3>1, <3>2
  <2>2. CASE \A e \in Download : ~ VerifyDone(e) /\ ~ RenameDone(e)
    <3>1. dir' = dir
      BY Zenon, <2>2, DirSteps, DirChange DEF VerifyFails, RenameFails
    <3> QED
      BY Zenon, <1>6, <2>2, <3>1
  <2> QED
    BY Zenon, <2>1, <2>2
<1> QED
  BY Zenon, <1>1, <1>3, <1>7 DEF Settled, Holds, Leads

\* No download has a file in place yet.
LEMMA IndexInit == Init => IndexInv
<1> SUFFICES ASSUME Init PROVE IndexInv
  BY Zenon
<1>1. index \in [Content -> Name \cup {NoName}]
  BY Zenon DEF Init
<1>2. \A d \in Download : recv[d].at = "idle"
  BY Zenon DEF Init, NoRecv
<1> QED
  BY Zenon, <1>1, <1>2 DEF IndexInv

\* DownloadedFileIsServed for any number of downloads and owners, and any names:
\* renames that overlap never leave the index without the file.
THEOREM DownloadedServed == Spec => []DownloadedFileIsServed
<1>1. DirInv /\ IndexInv => DownloadedFileIsServed
  <2> SUFFICES ASSUME DirInv, IndexInv, NEW d \in Download,
                      \A e \in Download : recv[e].at \in {"idle", "ok", "failed"},
                      recv[d].at = "ok", want[d] \notin hist.clobbered
               PROVE  index[want[d]] # NoName /\ dir[index[want[d]]] = want[d]
    BY Zenon DEF DownloadedFileIsServed
  <2>1. Leads(want[d])
    <3>1. Settled(want[d])
      BY Zenon DEF IndexInv
    <3>2. \A e \in Download : ~ Holds(e, want[d])
      BY Zenon DEF Holds
    <3> QED
      BY Zenon, <3>1, <3>2 DEF Settled
  <2> QED
    BY Zenon, <2>1, TransferAssumption DEF Leads, Name
<1> QED
  BY <1>1, IndexInit, IndexStep, DirInvariant, PTL DEF Spec

-----------------------------------------------------------------------------
(***************************************************************************)
(* Connections.                                                            *)
(***************************************************************************)

Message == [type : {"found", "notfound", "block", "eof", "offer"}, data : Seq(Block)]

Connection ==
    [at : {"none", "lookup", "open", "read", "sent", "failed", "lost"},
     file : Content \cup {Absent, Linked}, pos : Nat, queue : Seq(Message)]

Receiver ==
    [at : {"idle", "try", "response", "chunks", "verify", "stat", "rename", "add", "ok",
           "failed"},
     rest : Seq(Owner), owner : Owner \cup {NoOwner}, data : Seq(Block),
     path : Name \cup {NoName}, cancelled : BOOLEAN]

\* The type invariant, with what a sender needs to read on: it serves an
\* attempt that is under way, and the file it has open is there.
ConnInv ==
    /\ TypeOK
    /\ \A d \in Download :
         /\ conn[d] # NoConn => recv[d].at \in {"response", "chunks", "verify"}
         /\ conn[d].at = "read" => Opened(d) \in Content

\* A block of a content is a block.
LEMMA ContentBlocks ==
    ASSUME NEW c \in Content
    PROVE  /\ c \in Seq(Block) /\ Len(c) \in Nat
           /\ \A i \in 1..Len(c) : c[i] \in Block /\ <<c[i]>> \in Seq(Block)
<1>1. c \in Seq(Range(c))
  BY Zenon, TransferAssumption
<1>2. \A i \in 1..Len(c) : c[i] \in Block
  BY DEF Block
<1>3. c \in Seq(Block)
  BY <1>1, <1>2
<1> QED
  BY <1>1, <1>2, <1>3

\* What a message does to the connection it is sent on.
LEMMA SentType ==
    ASSUME NEW c \in Connection, NEW t \in {"found", "notfound", "block", "eof", "offer"},
           NEW x \in Seq(Block)
    PROVE  /\ Sent(c, t, x) \in Connection
           /\ Sent(c, t, x).at = c.at /\ Sent(c, t, x).file = c.file
           /\ Sent(c, t, x).pos = c.pos /\ Sent(c, t, x).queue = Append(c.queue, Msg(t, x))
<1>1. Msg(t, x) \in Message
  BY Zenon DEF Msg, Message
<1>2. Append(c.queue, Msg(t, x)) \in Seq(Message)
  BY <1>1 DEF Connection
<1> QED
  BY Zenon, <1>2 DEF Sent, Connection

\* At first nothing is connected.
LEMMA ConnInit == Init => ConnInv
<1> SUFFICES ASSUME Init PROVE ConnInv
  BY Zenon
<1>1. NoConn \in Connection
  BY DEF NoConn, Connection
<1>2. NoRecv \in Receiver
  BY DEF NoRecv, Receiver
<1>3. disk \in [Owner -> Content \cup {Absent}] /\ served \in [Owner -> SUBSET Content]
  BY Zenon DEF Init
<1>4. conn \in [Download -> Connection] /\ recv \in [Download -> Receiver]
  BY Zenon, <1>1, <1>2 DEF Init
<1>5. dir \in [Name -> Content \cup {Absent}] /\ index \in [Content -> Name \cup {NoName}]
  BY Zenon, FolderAssumption DEF Init
<1>6. budget \in [changes : 0..MaxChanges, faults : 0..MaxFaults] /\ want \in [Download -> Content]
  BY TransferAssumption DEF Init
<1>7. \A d \in Download : conn[d] = NoConn /\ conn[d].at = "none"
  BY Zenon DEF Init, NoConn
<1> QED
  BY Zenon, <1>3, <1>4, <1>5, <1>6, <1>7 DEF ConnInv, TypeOK, Connection, Receiver, Message

\* Connections keep their type.
LEMMA ConnTypeStep ==
    ASSUME ConnInv, RecvType, [Next]_vars PROVE conn' \in [Download -> Connection]
<1>0. conn \in [Download -> Connection] /\ disk \in [Owner -> Content \cup {Absent}]
  BY Zenon DEF ConnInv, TypeOK, Connection, Message
<1>1. CASE UNCHANGED conn
  BY Zenon, <1>0, <1>1
<1>2. ASSUME NEW d \in Download, NEW c \in Connection, conn' = [conn EXCEPT ![d] = c]
      PROVE  conn' \in [Download -> Connection]
  BY Zenon, <1>0, <1>2
<1>3. ASSUME NEW o \in Owner, OwnerRemove(o) PROVE conn' \in [Download -> Connection]
  <2>1. disk[o] \in Content
    BY Zenon, <1>0, <1>3 DEF OwnerRemove
  <2>2. \A d \in Download : [conn[d] EXCEPT !.file = disk[o]] \in Connection
    BY ZenonT(40), <1>0, <2>1 DEF Connection
  <2> QED
    BY Zenon, <1>0, <1>3, <2>2 DEF OwnerRemove
<1>4. ASSUME NEW d \in Download, Respond(d) PROVE conn' \in [Download -> Connection]
  <2>1. [conn[d] EXCEPT !.at = "open"] \in Connection /\ [conn[d] EXCEPT !.at = "sent"] \in Connection
    BY Zenon, <1>0 DEF Connection
  <2>2. <<>> \in Seq(Block)
    OBVIOUS
  <2>3. /\ Sent([conn[d] EXCEPT !.at = "open"], "found", <<>>) \in Connection
        /\ Sent([conn[d] EXCEPT !.at = "sent"], "notfound", <<>>) \in Connection
    BY Zenon, <2>1, <2>2, SentType
  <2> QED
    BY Zenon, <1>0, <1>2, <1>4, <2>3 DEF Respond
<1>5. ASSUME NEW d \in Download, OpenFile(d) PROVE conn' \in [Download -> Connection]
  <2>1. /\ [conn[d] EXCEPT !.at = "failed"] \in Connection
        /\ [conn[d] EXCEPT !.at = "read", !.file = Linked] \in Connection
    BY Zenon, <1>0 DEF Connection
  <2> QED
    BY Zenon, <1>0, <1>2, <1>5, <2>1 DEF OpenFile
<1>6. ASSUME NEW d \in Download, ReadChunk(d) PROVE conn' \in [Download -> Connection]
  <2> DEFINE i == conn[d].pos + 1
  <2>1. Opened(d) \in Content /\ i \in Nat /\ i >= 1
    BY <1>0, <1>6 DEF ReadChunk, ConnInv, Connection
  <2>2. i <= Len(Opened(d)) => <<Opened(d)[i]>> \in Seq(Block)
    BY <2>1, ContentBlocks
  <2>3. [conn[d] EXCEPT !.pos = i] \in Connection /\ [conn[d] EXCEPT !.at = "sent"] \in Connection
    BY Zenon, <1>0, <2>1 DEF Connection
  <2>4. <<>> \in Seq(Block)
    OBVIOUS
  <2> HIDE DEF i
  <2>5. /\ i <= Len(Opened(d)) =>
             Sent([conn[d] EXCEPT !.pos = i], "block", <<Opened(d)[i]>>) \in Connection
        /\ Sent([conn[d] EXCEPT !.at = "sent"], "eof", <<>>) \in Connection
    BY Zenon, <2>2, <2>3, <2>4, SentType
  <2>6. [conn[d] EXCEPT !.at = "failed"] \in Connection
    BY Zenon, <1>0 DEF Connection
  <2> QED
    BY ZenonT(40), <1>0, <1>2, <1>6, <2>5, <2>6 DEF ReadChunk, i
<1>7. ASSUME NEW d \in Download, Broadcast(d) \/ ConnLost(d) PROVE conn' \in [Download -> Connection]
  <2>0. <<>> \in Seq(Block) /\ <<>> \in Seq(Message) /\ conn[d] \in Connection
    BY <1>0
  <2>1. [conn[d] EXCEPT !.at = "lost", !.queue = <<>>] \in Connection
    BY Zenon, <2>0 DEF Connection
  <2>2. Sent(conn[d], "offer", <<>>) \in Connection
    BY Zenon, <2>0, SentType
  <2> QED
    BY ZenonT(40), <1>0, <1>2, <1>7, <2>1, <2>2 DEF Broadcast, ConnLost
<1>8. ASSUME NEW d \in Download, NEW rest, TryNext(d, rest) PROVE conn' \in [Download -> Connection]
  <2>1. NoConn \in Connection
    BY DEF NoConn, Connection
  <2> QED
    BY Zenon, <1>2, <1>8, <2>1 DEF TryNext
<1>9. ASSUME NEW d \in Download, TryOwner(d) PROVE conn' \in [Download -> Connection]
  <2>0. <<>> \in Seq(Block) /\ conn[d] \in Connection
    BY <1>0
  <2>1. [conn[d] EXCEPT !.at = "lookup"] \in Connection
    BY Zenon, <2>0 DEF Connection
  <2>2. Sent([conn[d] EXCEPT !.at = "lookup"], "offer", <<>>) \in Connection
    BY Zenon, <2>0, <2>1, SentType
  <2> QED
    BY Zenon, <1>0, <1>2, <1>8, <1>9, <2>1, <2>2 DEF TryOwner
<1>10. ASSUME NEW d \in Download, NEW types, NEW r, Recv(d, types, r)
       PROVE  conn' \in [Download -> Connection]
  <2>0. conn[d].queue \in Seq(Message) /\ conn[d].queue # <<>> /\ conn[d] \in Connection
    BY Zenon, <1>0, <1>10 DEF Recv, Arrived, Connection
  <2>1. [conn[d] EXCEPT !.queue = Tail(conn[d].queue)] \in Connection
    <3>1. Tail(conn[d].queue) \in Seq(Message)
      BY <2>0
    <3> QED
      BY Zenon, <2>0, <3>1 DEF Connection
  <2> QED
    BY Zenon, <1>0, <1>2, <1>10, <2>1 DEF Recv
<1>11. ASSUME NEW d \in Download, Verify(d) PROVE conn' \in [Download -> Connection]
  <2>1. NoConn \in Connection
    BY DEF NoConn, Connection
  <2> QED
    BY ZenonT(40), <1>2, <1>8, <1>11, <2>1 DEF Verify, AttemptFails, TempFileFails
<1>12. ASSUME NEW d \in Download, DownloadStep(d) PROVE conn' \in [Download -> Connection]
  BY ZenonT(40), <1>1, <1>8, <1>9, <1>10, <1>11, <1>12
     DEF DownloadStep, RecvResponse, RecvChunk, RecvOther, AttemptFails, TempFileFails, StatTarget,
         RenameTarget, AddFile
<1> QED
  BY ZenonT(40), <1>1, <1>3, <1>4, <1>5, <1>6, <1>7, <1>12
     DEF Next, vars, OwnerIndex, OwnerWrite, HandleRequest, Cancel, GetOwners

\* A message that is taken off the queue carries blocks.
LEMMA ReceivedType ==
    ASSUME ConnInv, NEW d \in Download, conn[d].queue # <<>>
    PROVE  Received(d) \in Message
<1>1. conn[d].queue \in Seq(Message)
  BY Zenon DEF ConnInv, TypeOK, Message
<1> QED
  BY <1>1 DEF Received

\* Downloads keep their type.
LEMMA ReceiverStep ==
    ASSUME ConnInv, RecvType, [Next]_vars PROVE recv' \in [Download -> Receiver]
<1>0. recv \in [Download -> Receiver] /\ want \in [Download -> Content]
  BY Zenon DEF ConnInv, TypeOK, Receiver
<1>1. CASE UNCHANGED recv
  BY Zenon, <1>0, <1>1
<1>2. ASSUME NEW d \in Download, NEW r \in Receiver, recv' = [recv EXCEPT ![d] = r]
      PROVE  recv' \in [Download -> Receiver]
  BY Zenon, <1>0, <1>2
<1>3. ASSUME NEW d \in Download, Cancel(d) PROVE recv' \in [Download -> Receiver]
  <2>1. [recv[d] EXCEPT !.cancelled = TRUE] \in Receiver
    BY ZenonT(40), <1>0 DEF Receiver
  <2> QED
    BY Zenon, <1>0, <1>2, <1>3, <2>1 DEF Cancel
<1>4. ASSUME NEW d \in Download, GetOwners(d) PROVE recv' \in [Download -> Receiver]
  <2>1. PICK owners \in Seq(Owner) :
          recv' = [recv EXCEPT ![d].at = IF owners = <<>> THEN "failed" ELSE "try",
                               ![d].rest = owners]
    <3>1. PICK hints \in SUBSET (Owner \cup {Self}) :
            \E owners \in Orders(hints \ {Self}) :
                recv' = [recv EXCEPT ![d].at = IF owners = <<>> THEN "failed" ELSE "try",
                                     ![d].rest = owners]
      BY Zenon, <1>4 DEF GetOwners
    <3>2. hints \ {Self} \in SUBSET Owner
      BY Zenon
    <3> QED
      BY Zenon, <3>1, <3>2, OwnersSeq, SomeOwners
  <2>2. [recv[d] EXCEPT !.at = IF owners = <<>> THEN "failed" ELSE "try", !.rest = owners] \in Receiver
    BY ZenonT(40), <1>0 DEF Receiver
  <2> QED
    BY Zenon, <1>0, <1>2, <2>1, <2>2
<1>5. ASSUME NEW d \in Download, NEW rest \in Seq(Owner), TryNext(d, rest)
      PROVE  recv' \in [Download -> Receiver]
  <2>1. <<>> \in Seq(Block)
    OBVIOUS
  <2>2. [recv[d] EXCEPT !.at = IF rest = <<>> THEN "failed" ELSE "try", !.rest = rest,
                        !.owner = NoOwner, !.data = <<>>] \in Receiver
    BY ZenonT(60), <1>0, <2>1 DEF Receiver
  <2> QED
    BY Zenon, <1>0, <1>2, <1>5, <2>2 DEF TryNext
<1>6. ASSUME NEW d \in Download, AttemptFails(d) PROVE recv' \in [Download -> Receiver]
  BY Zenon, <1>5, <1>6, RecvOwners DEF AttemptFails
<1>7. ASSUME NEW d \in Download, TryOwner(d) PROVE recv' \in [Download -> Receiver]
  <2>1. recv[d].rest \in Seq(Owner) /\ recv[d].rest # <<>>
    BY Zenon, <1>7, RecvOwners DEF TryOwner
  <2>2. Head(recv[d].rest) \in Owner /\ Tail(recv[d].rest) \in Seq(Owner)
    BY <2>1
  <2>3. [recv[d] EXCEPT !.at = "response", !.owner = Head(recv[d].rest),
                        !.rest = Tail(recv[d].rest)] \in Receiver
    BY ZenonT(40), <1>0, <2>2 DEF Receiver
  <2> QED
    BY Zenon, <1>0, <1>2, <1>5, <1>7, <2>2, <2>3 DEF TryOwner
<1>8. ASSUME NEW d \in Download, RecvResponse(d) PROVE recv' \in [Download -> Receiver]
  <2>1. [recv[d] EXCEPT !.at = "chunks"] \in Receiver
    BY ZenonT(40), <1>0 DEF Receiver
  <2> QED
    BY Zenon, <1>2, <1>6, <1>8, <2>1 DEF RecvResponse, Recv, RecvOther, TempFileFails
<1>9. ASSUME NEW d \in Download, RecvChunk(d) PROVE recv' \in [Download -> Receiver]
  <2>1. [recv[d] EXCEPT !.at = "verify"] \in Receiver
    BY ZenonT(40), <1>0 DEF Receiver
  <2>2. ASSUME conn[d].queue # <<>>
        PROVE  [recv[d] EXCEPT !.data = recv[d].data \o Received(d).data] \in Receiver
    <3>1. Received(d).data \in Seq(Block) /\ recv[d].data \in Seq(Block)
      BY Zenon, <1>0, <2>2, ReceivedType DEF Receiver, Message
    <3>2. recv[d].data \o Received(d).data \in Seq(Block)
      BY <3>1
    <3> QED
      BY ZenonT(40), <1>0, <3>2 DEF Receiver
  <2> QED
    BY Zenon, <1>2, <1>6, <1>9, <2>1, <2>2 DEF RecvChunk, Recv, Arrived, RecvOther, TempFileFails
<1>10. ASSUME NEW d \in Download, Verify(d) PROVE recv' \in [Download -> Receiver]
  <2>1. <<>> \in Seq(Block) /\ want[d] \in Name
    BY <1>0 DEF Name
  <2>2. [recv[d] EXCEPT !.at = "stat", !.path = want[d], !.data = <<>>] \in Receiver
    BY ZenonT(40), <1>0, <2>1 DEF Receiver
  <2>3. CASE recv' = [recv EXCEPT ![d].at = "stat", ![d].path = want[d], ![d].data = <<>>]
    <3>1. recv' = [recv EXCEPT ![d] = [recv[d] EXCEPT !.at = "stat", !.path = want[d],
                                                     !.data = <<>>]]
      BY Zenon, <1>0, <2>3
    <3> QED
      BY Zenon, <1>2, <2>2, <3>1
  <2> QED
    BY Zenon, <1>6, <1>10, <2>3 DEF Verify, TempFileFails
<1>11. ASSUME NEW d \in Download, StatTarget(d) \/ AddFile(d) PROVE recv' \in [Download -> Receiver]
  <2>1. \A x \in {"rename", "add", "ok"} : [recv[d] EXCEPT !.at = x] \in Receiver
    BY ZenonT(40), <1>0 DEF Receiver
  <2> QED
    BY Zenon, <1>0, <1>2, <1>11, <2>1 DEF StatTarget, AddFile
<1>12. ASSUME NEW d \in Download, RenameTarget(d) PROVE recv' \in [Download -> Receiver]
  <2>1. TargetName(d) \in Name
    <3>1. recv[d].at = "rename" /\ TargetName(d) # NoName
      BY Zenon, <1>12 DEF RenameTarget, TargetName, RecvType, RecvOK
    <3> QED
      BY Zenon, <3>1, TargetIsGiven
  <2>2. /\ [recv[d] EXCEPT !.at = "add", !.path = TargetName(d)] \in Receiver
        /\ [recv[d] EXCEPT !.at = "add"] \in Receiver
    BY ZenonT(40), <1>0, <2>1 DEF Receiver
  <2> QED
    BY ZenonT(60), <1>0, <1>2, <1>12, <2>2 DEF RenameTarget
<1> QED
  BY ZenonT(40), <1>1, <1>3, <1>4, <1>7, <1>8, <1>9, <1>10, <1>11, <1>12
     DEF Next, vars, OwnerRemove, OwnerIndex, OwnerWrite, HandleRequest, Respond, OpenFile,
         ReadChunk, Broadcast, ConnLost, DownloadStep

\* Everything else keeps its type.
LEMMA OtherTypes ==
    ASSUME ConnInv, RecvType, IndexInv, DirInv, [Next]_vars
    PROVE  /\ disk' \in [Owner -> Content \cup {Absent}]
           /\ served' \in [Owner -> SUBSET Content]
           /\ budget' \in [changes : 0..MaxChanges, faults : 0..MaxFaults]
<1>0. /\ disk \in [Owner -> Content \cup {Absent}]
      /\ served \in [Owner -> SUBSET Content]
      /\ budget \in [changes : 0..MaxChanges, faults : 0..MaxFaults]
      /\ MaxChanges \in Nat /\ MaxFaults \in Nat
  BY ZenonT(40), TransferAssumption DEF ConnInv, TypeOK
<1>1. \/ disk' = disk
      \/ \E o \in Owner, c \in Content \cup {Absent} : disk' = [disk EXCEPT ![o] = c]
  BY ZenonT(40) DEF Next, vars, OwnerRemove, OwnerIndex, OwnerWrite, HandleRequest, Respond, OpenFile,
     ReadChunk, Broadcast, ConnLost, Cancel, GetOwners, DownloadStep, TryOwner, RecvResponse,
     RecvChunk, Verify, StatTarget, RenameTarget, AddFile
<1>2. served' = served \/ \E o \in Owner : OwnerIndex(o)
  BY ZenonT(40) DEF Next, vars, OwnerRemove, OwnerWrite, HandleRequest, Respond, OpenFile,
     ReadChunk, Broadcast, ConnLost, Cancel, GetOwners, DownloadStep, TryOwner, RecvResponse,
     RecvChunk, Verify, StatTarget, RenameTarget, AddFile
<1>3. \/ budget' = budget
      \/ budget.changes > 0 /\ budget' = [budget EXCEPT !.changes = @ - 1]
      \/ budget.faults > 0 /\ budget' = [budget EXCEPT !.faults = @ - 1]
  BY ZenonT(40) DEF Next, vars, OwnerRemove, OwnerIndex, OwnerWrite, HandleRequest, Respond, OpenFile,
     ReadChunk, Broadcast, ConnLost, Cancel, Fault, GetOwners, DownloadStep, TryOwner, RecvResponse,
     RecvChunk, Verify, TempFileFails, StatTarget, RenameTarget, AddFile
<1>4. disk' \in [Owner -> Content \cup {Absent}]
  BY Zenon, <1>0, <1>1
<1>5. ASSUME NEW o \in Owner, OwnerIndex(o) PROVE served' \in [Owner -> SUBSET Content]
  <2>1. (IF disk[o] = Absent THEN {} ELSE served[o] \cup {disk[o]}) \in SUBSET Content
    BY Zenon, <1>0
  <2> QED
    BY Zenon, <1>0, <1>5, <2>1 DEF OwnerIndex
<1>6. budget' \in [changes : 0..MaxChanges, faults : 0..MaxFaults]
  BY <1>0, <1>3
<1> QED
  BY Zenon, <1>0, <1>2, <1>4, <1>5, <1>6

\* Downloads do not touch each other's state, nor the owners' folders.
LEMMA AnotherMoves ==
    ASSUME conn \in [Download -> Connection], recv \in [Download -> Receiver],
           NEW d \in Download, NEW e \in Download, e # d,
           HandleRequest(e) \/ Broadcast(e) \/ ConnLost(e) \/ Cancel(e) \/ GetOwners(e) \/ DownloadStep(e)
    PROVE  disk' = disk /\ conn'[d] = conn[d] /\ recv'[d] = recv[d]
<1>1. disk' = disk
  BY Zenon
     DEF HandleRequest, Respond, OpenFile, ReadChunk, Broadcast, ConnLost, Cancel, GetOwners,
         DownloadStep, TryOwner, RecvResponse, RecvChunk, Verify, StatTarget, RenameTarget, AddFile
<1>2. conn'[d] = conn[d]
  BY Zenon
     DEF HandleRequest, Respond, OpenFile, ReadChunk, Broadcast, ConnLost, Cancel, GetOwners,
         DownloadStep, TryOwner, RecvResponse, RecvChunk, Verify, StatTarget, RenameTarget, AddFile,
         TryNext, AttemptFails, TempFileFails, Recv, RecvOther
<1>3. recv'[d] = recv[d]
  BY Zenon
     DEF HandleRequest, Respond, OpenFile, ReadChunk, Broadcast, ConnLost, Cancel, GetOwners,
         DownloadStep, TryOwner, RecvResponse, RecvChunk, Verify, StatTarget, RenameTarget, AddFile,
         TryNext, AttemptFails, TempFileFails, Recv, RecvOther
<1> QED
  BY Zenon, <1>1, <1>2, <1>3

\* A sender serves an attempt that is under way, and the file it has open is
\* there: what is removed under it stays readable.
LEMMA ServingStep ==
    ASSUME ConnInv, RecvType, [Next]_vars, NEW d \in Download
    PROVE  /\ conn'[d] # NoConn => recv'[d].at \in {"response", "chunks", "verify"}
           /\ conn'[d].at = "read" => Opened(d)' \in Content
<1>0. /\ conn \in [Download -> Connection] /\ recv \in [Download -> Receiver]
      /\ disk \in [Owner -> Content \cup {Absent}]
      /\ conn[d] # NoConn => recv[d].at \in {"response", "chunks", "verify"} /\ recv[d].owner \in Owner
      /\ conn[d].at = "read" => Opened(d) \in Content /\ conn[d] # NoConn
      /\ NoConn.at = "none"
  <2>1. NoConn.at = "none"
    BY Zenon DEF NoConn
  <2>2. /\ conn \in [Download -> Connection] /\ recv \in [Download -> Receiver]
        /\ disk \in [Owner -> Content \cup {Absent}]
    BY Zenon DEF ConnInv, TypeOK, Connection, Message, Receiver
  <2>3. recv[d].at \in {"response", "chunks", "verify"} => recv[d].owner \in Owner
    BY Zenon, RecvOwners
  <2> QED
    BY Zenon, <2>1, <2>2, <2>3 DEF ConnInv
<1> DEFINE Goal == /\ conn'[d] # NoConn => recv'[d].at \in {"response", "chunks", "verify"}
                   /\ conn'[d].at = "read" => Opened(d)' \in Content
<1>1. ASSUME conn'[d] = conn[d], recv'[d].at = recv[d].at, recv'[d].owner = recv[d].owner,
             disk' = disk
      PROVE  Goal
  BY Zenon, <1>0, <1>1 DEF Opened
<1>2. ASSUME conn'[d] = NoConn PROVE Goal
  BY Zenon, <1>0, <1>2
<1>3. ASSUME NEW o \in Owner, NEW c \in Content, OwnerWrite(o, c) PROVE Goal
  <2>1. conn' = conn /\ recv' = recv /\ disk' = [disk EXCEPT ![o] = c]
    BY Zenon, <1>3 DEF OwnerWrite
  <2>2. conn[d].at = "read" => Opened(d)' \in Content
    BY Zenon, <1>0, <2>1 DEF Opened
  <2> QED
    BY Zenon, <1>0, <2>1, <2>2
<1>4. ASSUME NEW o \in Owner, OwnerRemove(o) PROVE Goal
  <2>1. /\ recv' = recv /\ disk' = [disk EXCEPT ![o] = Absent] /\ disk[o] \in Content
        /\ conn' = [x \in Download |->
                      IF x \in Served(o, {"read"}) /\ conn[x].file = Linked
                      THEN [conn[x] EXCEPT !.file = disk[o]] ELSE conn[x]]
    BY Zenon, <1>0, <1>4 DEF OwnerRemove
  <2>2. CASE d \in Served(o, {"read"}) /\ conn[d].file = Linked
    <3>1. conn[d].at = "read" /\ recv[d].owner = o
      BY Zenon, <2>2 DEF Served
    <3>2. conn'[d] = [conn[d] EXCEPT !.file = disk[o]]
      BY Zenon, <2>1, <2>2
    <3>3. conn'[d].file = disk[o] /\ disk[o] # Linked
      BY ZenonT(40), <1>0, <2>1, <3>2, TransferAssumption DEF Connection
    <3> QED
      BY ZenonT(40), <1>0, <2>1, <3>1, <3>3 DEF Opened
  <2>3. CASE ~ (d \in Served(o, {"read"}) /\ conn[d].file = Linked)
    <3>1. conn'[d] = conn[d]
      BY Zenon, <2>1, <2>3
    <3>2. conn[d].at = "read" => Opened(d)' = Opened(d)
      BY ZenonT(40), <1>0, <2>1, <2>3, <3>1 DEF Opened, Served
    <3> QED
      BY Zenon, <1>0, <2>1, <3>1, <3>2
  <2> QED
    BY Zenon, <2>2, <2>3
<1>5. ASSUME NEW e \in Download, e # d, HandleRequest(e) \/ Broadcast(e) \/ ConnLost(e) \/ Cancel(e)
                                       \/ GetOwners(e) \/ DownloadStep(e)
      PROVE  Goal
  <2>1. disk' = disk /\ conn'[d] = conn[d] /\ recv'[d] = recv[d]
    BY Zenon, <1>0, <1>5, AnotherMoves
  <2> QED
    BY Zenon, <1>1, <2>1
<1>6. ASSUME Respond(d) PROVE Goal
  <2>1. conn[d].at = "lookup" /\ recv' = recv /\ conn[d] # NoConn
    BY Zenon, <1>0, <1>6 DEF Respond
  <2>2. <<>> \in Seq(Block)
    OBVIOUS
  <2>3. /\ [conn[d] EXCEPT !.at = "open"] \in Connection /\ [conn[d] EXCEPT !.at = "sent"] \in Connection
        /\ [conn[d] EXCEPT !.at = "open"].at # "read" /\ [conn[d] EXCEPT !.at = "sent"].at # "read"
    BY Zenon, <1>0 DEF Connection
  <2>4. /\ Sent([conn[d] EXCEPT !.at = "open"], "found", <<>>).at # "read"
        /\ Sent([conn[d] EXCEPT !.at = "sent"], "notfound", <<>>).at # "read"
    BY Zenon, <2>2, <2>3, SentType
  <2>5. conn'[d].at # "read"
    BY Zenon, <1>0, <1>6, <2>4 DEF Respond
  <2> QED
    BY Zenon, <1>0, <2>1, <2>5
<1>7. ASSUME OpenFile(d) PROVE Goal
  <2>1. conn[d].at = "open" /\ recv' = recv /\ disk' = disk /\ conn[d] # NoConn
    BY Zenon, <1>0, <1>7 DEF OpenFile
  <2>2. CASE disk[recv[d].owner] = Absent
    <3>1. conn'[d] = [conn[d] EXCEPT !.at = "failed"]
      BY Zenon, <1>0, <1>7, <2>2 DEF OpenFile
    <3>2. conn'[d].at # "read"
      BY Zenon, <1>0, <3>1 DEF Connection
    <3> QED
      BY Zenon, <1>0, <2>1, <3>2
  <2>3. CASE disk[recv[d].owner] # Absent
    <3>1. conn'[d] = [conn[d] EXCEPT !.at = "read", !.file = Linked]
      BY Zenon, <1>0, <1>7, <2>3 DEF OpenFile
    <3>2. conn'[d].file = Linked
      BY Zenon, <1>0, <3>1 DEF Connection
    <3>3. Opened(d)' = disk[recv[d].owner]
      BY Zenon, <2>1, <3>2 DEF Opened
    <3>4. disk[recv[d].owner] \in Content
      BY Zenon, <1>0, <2>1, <2>3
    <3> QED
      BY Zenon, <1>0, <2>1, <3>3, <3>4
  <2> QED
    BY Zenon, <2>2, <2>3
<1>8. ASSUME ReadChunk(d) PROVE Goal
  <2> DEFINE i == conn[d].pos + 1
  <2>1. /\ conn[d].at = "read" /\ recv' = recv /\ disk' = disk /\ conn[d] # NoConn
        /\ Opened(d) \in Content /\ i \in Nat /\ i >= 1
    BY <1>0, <1>8 DEF ReadChunk, Connection
  <2>2. <<>> \in Seq(Block) /\ (i <= Len(Opened(d)) => <<Opened(d)[i]>> \in Seq(Block))
    BY <2>1, ContentBlocks
  <2>3. /\ [conn[d] EXCEPT !.pos = i] \in Connection /\ [conn[d] EXCEPT !.at = "sent"] \in Connection
        /\ [conn[d] EXCEPT !.pos = i].file = conn[d].file /\ [conn[d] EXCEPT !.at = "sent"].at = "sent"
    BY Zenon, <1>0, <2>1 DEF Connection
  <2> HIDE DEF i
  <2>6. CASE conn' = [conn EXCEPT ![d].at = "failed"]
    <3>1. conn'[d].at = "failed"
      BY Zenon, <1>0, <2>6 DEF Connection
    <3> QED
      BY Zenon, <1>0, <2>1, <3>1
  <2>4. CASE i <= Len(Opened(d)) /\ ~ (conn' = [conn EXCEPT ![d].at = "failed"])
    <3>1. conn'[d] = Sent([conn[d] EXCEPT !.pos = i], "block", <<Opened(d)[i]>>)
      BY Zenon, <1>0, <1>8, <2>4 DEF ReadChunk, i
    <3>2. conn'[d].file = conn[d].file
      <4>1. Sent([conn[d] EXCEPT !.pos = i], "block", <<Opened(d)[i]>>).file
              = [conn[d] EXCEPT !.pos = i].file
        BY ZenonT(40), <2>2, <2>3, <2>4, SentType
      <4> QED
        BY Zenon, <2>3, <3>1, <4>1
    <3>3. Opened(d)' = Opened(d)
      BY Zenon, <2>1, <3>2 DEF Opened
    <3> QED
      BY Zenon, <1>0, <2>1, <3>3
  <2>5. CASE ~ (i <= Len(Opened(d))) /\ ~ (conn' = [conn EXCEPT ![d].at = "failed"])
    <3>1. conn'[d] = Sent([conn[d] EXCEPT !.at = "sent"], "eof", <<>>)
      BY Zenon, <1>0, <1>8, <2>5 DEF ReadChunk, i
    <3>2. conn'[d].at = "sent"
      <4>1. Sent([conn[d] EXCEPT !.at = "sent"], "eof", <<>>).at = [conn[d] EXCEPT !.at = "sent"].at
        BY Zenon, <2>2, <2>3, SentType
      <4> QED
        BY ZenonT(40), <2>3, <3>1, <4>1
    <3> QED
      BY Zenon, <1>0, <2>1, <3>2
  <2> QED
    BY Zenon, <2>4, <2>5, <2>6
<1>9. ASSUME Broadcast(d) PROVE Goal
  <2>1. <<>> \in Seq(Block) /\ conn[d] \in Connection
    BY <1>0
  <2>2. conn'[d] = Sent(conn[d], "offer", <<>>) /\ recv' = recv /\ disk' = disk /\ conn[d].at # "none"
    BY Zenon, <1>0, <1>9 DEF Broadcast
  <2>3. conn'[d].at = conn[d].at /\ conn'[d].file = conn[d].file
    <3>1. /\ Sent(conn[d], "offer", <<>>).at = conn[d].at
          /\ Sent(conn[d], "offer", <<>>).file = conn[d].file
      BY Zenon, <2>1, SentType
    <3> QED
      BY Zenon, <2>2, <3>1
  <2>4. Opened(d)' = Opened(d)
    BY Zenon, <2>2, <2>3 DEF Opened
  <2> QED
    BY ZenonT(40), <1>0, <2>2, <2>3, <2>4
<1>10. ASSUME ConnLost(d) PROVE Goal
  <2>1. conn' = [conn EXCEPT ![d].at = "lost", ![d].queue = <<>>] /\ recv' = recv /\ conn[d].at # "none"
    BY Zenon, <1>10 DEF ConnLost
  <2>2. conn'[d].at = "lost"
    BY Zenon, <1>0, <2>1 DEF Connection
  <2> QED
    BY Zenon, <1>0, <2>1, <2>2
<1>11. ASSUME Cancel(d) PROVE Goal
  <2>1. /\ conn' = conn /\ disk' = disk /\ recv' = [recv EXCEPT ![d].cancelled = TRUE]
    BY Zenon, <1>11 DEF Cancel
  <2>2. recv'[d].at = recv[d].at /\ recv'[d].owner = recv[d].owner
    BY Zenon, <1>0, <2>1 DEF Receiver
  <2> QED
    BY Zenon, <1>1, <2>1, <2>2
<1>12. ASSUME NEW rest, TryNext(d, rest) PROVE Goal
  BY Zenon, <1>0, <1>2, <1>12 DEF TryNext
<1>13. ASSUME TryOwner(d) PROVE Goal
  <2>1. recv[d].at = "try" /\ conn[d] = NoConn
    BY Zenon, <1>0, <1>13 DEF TryOwner
  <2>2. CASE recv' = [recv EXCEPT ![d] = [@ EXCEPT !.at = "response", !.owner = Head(recv[d].rest),
                                                   !.rest = Tail(recv[d].rest)]]
             /\ ~ TryNext(d, Tail(recv[d].rest))
    <3>1. recv'[d].at = "response"
      BY Zenon, <1>0, <2>2 DEF Receiver
    <3>2. <<>> \in Seq(Block) /\ [conn[d] EXCEPT !.at = "lookup"] \in Connection
          /\ [conn[d] EXCEPT !.at = "lookup"].at = "lookup"
      <4>1. conn[d] \in Connection /\ <<>> \in Seq(Block)
        BY <1>0
      <4> QED
        BY Zenon, <4>1 DEF Connection
    <3>3. Sent([conn[d] EXCEPT !.at = "lookup"], "offer", <<>>).at = "lookup"
      BY Zenon, <3>2, SentType
    <3>4. conn'[d].at = "lookup"
      BY ZenonT(40), <1>0, <1>13, <2>2, <3>2, <3>3 DEF TryOwner
    <3> QED
      BY Zenon, <3>1, <3>4
  <2> QED
    BY Zenon, <1>12, <1>13, <2>2 DEF TryOwner
<1>14. ASSUME NEW types, NEW r \in Receiver, Recv(d, types, r), r.at \in {"chunks", "verify"},
              r.owner = recv[d].owner, disk' = disk, recv[d].at \in {"response", "chunks"}
       PROVE  Goal
  <2>1. recv'[d].at \in {"chunks", "verify"} /\ recv'[d].owner = recv[d].owner
    BY Zenon, <1>0, <1>14 DEF Recv
  <2>2. conn'[d].at = conn[d].at /\ conn'[d].file = conn[d].file
    BY Zenon, <1>0, <1>14 DEF Recv, Connection
  <2>3. Opened(d)' = Opened(d)
    BY Zenon, <1>14, <2>1, <2>2 DEF Opened
  <2> QED
    BY Zenon, <1>0, <2>1, <2>2, <2>3
<1>15. ASSUME RecvResponse(d) PROVE Goal
  <2>1. /\ [recv[d] EXCEPT !.at = "chunks"] \in Receiver /\ [recv[d] EXCEPT !.at = "chunks"].at = "chunks"
        /\ [recv[d] EXCEPT !.at = "chunks"].owner = recv[d].owner
    BY ZenonT(40), <1>0 DEF Receiver
  <2>2. disk' = disk /\ recv[d].at = "response"
    BY Zenon, <1>15 DEF RecvResponse
  <2> QED
    BY ZenonT(40), <1>12, <1>14, <1>15, <2>1, <2>2 DEF RecvResponse, RecvOther, AttemptFails, TempFileFails
<1>16. ASSUME RecvChunk(d) PROVE Goal
  <2>1. /\ [recv[d] EXCEPT !.at = "verify"] \in Receiver /\ [recv[d] EXCEPT !.at = "verify"].at = "verify"
        /\ [recv[d] EXCEPT !.at = "verify"].owner = recv[d].owner
    BY ZenonT(40), <1>0 DEF Receiver
  <2>2. disk' = disk /\ recv[d].at = "chunks"
    BY Zenon, <1>16 DEF RecvChunk
  <2>3. ASSUME conn[d].queue # <<>>
        PROVE  /\ [recv[d] EXCEPT !.data = recv[d].data \o Received(d).data] \in Receiver
               /\ [recv[d] EXCEPT !.data = recv[d].data \o Received(d).data].at = recv[d].at
               /\ [recv[d] EXCEPT !.data = recv[d].data \o Received(d).data].owner = recv[d].owner
    <3>1. Received(d).data \in Seq(Block) /\ recv[d].data \in Seq(Block)
      BY Zenon, <1>0, <2>3, ReceivedType DEF Receiver, Message
    <3>2. recv[d].data \o Received(d).data \in Seq(Block)
      BY <3>1
    <3> QED
      BY ZenonT(40), <1>0, <3>2 DEF Receiver
  <2>4. ASSUME NEW types, NEW r, Recv(d, types, r) PROVE conn[d].queue # <<>>
    BY Zenon, <2>4 DEF Recv, Arrived
  <2> QED
    BY ZenonT(40), <1>12, <1>14, <1>16, <2>1, <2>2, <2>3, <2>4 DEF RecvChunk, RecvOther, AttemptFails, TempFileFails
<1>17. ASSUME Verify(d) PROVE Goal
  <2>1. conn'[d] = NoConn
    BY Zenon, <1>0, <1>17 DEF Verify, AttemptFails, TempFileFails, TryNext
  <2> QED
    BY Zenon, <1>2, <2>1
<1>18. ASSUME GetOwners(d) \/ StatTarget(d) \/ RenameTarget(d) \/ AddFile(d) PROVE Goal
  <2>1. conn' = conn /\ recv[d].at \notin {"response", "chunks", "verify"}
    BY Zenon, <1>18 DEF GetOwners, StatTarget, RenameTarget, AddFile
  <2> QED
    BY Zenon, <1>0, <1>2, <2>1
<1>19. ASSUME NEW o \in Owner, OwnerIndex(o) PROVE Goal
  BY Zenon, <1>1, <1>19 DEF OwnerIndex
<1>20. CASE UNCHANGED vars
  BY Zenon, <1>1, <1>20 DEF vars
<1> HIDE DEF Goal
<1>21. ASSUME NEW e \in Download, HandleRequest(e) \/ Broadcast(e) \/ ConnLost(e) \/ Cancel(e)
                                  \/ GetOwners(e) \/ DownloadStep(e)
       PROVE  Goal
  BY ZenonT(40), <1>5, <1>6, <1>7, <1>8, <1>9, <1>10, <1>11, <1>13, <1>15, <1>16, <1>17, <1>18, <1>21
     DEF HandleRequest, DownloadStep
<1> QED
  BY ZenonT(40), <1>3, <1>4, <1>19, <1>20, <1>21 DEF Next, Goal

\* The types, and the senders' files, in every reachable state.
LEMMA ConnInvariant == Spec => [](ConnInv /\ DirInv /\ IndexInv)
<1>1. ConnInv /\ DirInv /\ IndexInv /\ [Next]_vars => ConnInv'
  <2> SUFFICES ASSUME ConnInv, DirInv, IndexInv, [Next]_vars PROVE ConnInv'
    BY Zenon
  <2>1. RecvType /\ RecvType' /\ IndexInv'
    BY Zenon, RecvStep, IndexStep DEF DirInv
  <2>2. TypeOK'
    BY Zenon, <2>1, ConnTypeStep, ReceiverStep, OtherTypes
       DEF TypeOK, Connection, Receiver, Message, RecvType, IndexInv
  <2> QED
    BY Zenon, <2>1, <2>2, ServingStep DEF ConnInv
<1> QED
  BY <1>1, IndexInit, ConnInit, IndexStep, DirInvariant, PTL DEF Spec

\* TypeOK for any number of downloads and owners.
THEOREM TypeCorrect == Spec => []TypeOK
<1>1. ConnInv => TypeOK
  BY Zenon DEF ConnInv
<1> QED
  BY <1>1, ConnInvariant, PTL

-----------------------------------------------------------------------------
(***************************************************************************)
(* Why downloads fail.                                                     *)
(***************************************************************************)

\* The j-th message of an undisturbed transfer of content w, and a queue that
\* holds the messages of it after the first k.
Script(w, j) ==
    IF j = 1 THEN Msg("found", <<>>)
    ELSE IF j <= Len(w) + 1 THEN Msg("block", <<w[j - 1]>>) ELSE Msg("eof", <<>>)

Follows(q, w, k) == \A i \in 1..Len(q) : q[i] = Script(w, k + i)

\* How many of the messages the sender has sent, and the receiver received.
HasSent(c, w) ==
    IF c.at = "lookup" THEN 0
    ELSE IF c.at = "open" THEN 1
    ELSE IF c.at = "read" THEN c.pos + 1 ELSE Len(w) + 2

HasRead(r, w) ==
    IF r.at = "response" THEN 0
    ELSE IF r.at = "chunks" THEN Len(r.data) + 1 ELSE Len(w) + 2

\* An attempt r over connection c is an undisturbed transfer of w so far, with
\* f on the owner's path: the sender reads w, the messages on the way are the
\* next ones, and what has come is the beginning of w.
OnScript(c, r, w, f) ==
    /\ c.at \in {"lookup", "open", "read", "sent"}
    /\ c.at \in {"lookup", "open"} => c.pos = 0
    /\ c.at = "open" => f = w
    /\ c.at = "read" => (IF c.file = Linked THEN f ELSE c.file) = w /\ c.pos <= Len(w)
    /\ HasSent(c, w) = HasRead(r, w) + Len(c.queue)
    /\ Follows(c.queue, w, HasRead(r, w))
    /\ Len(r.data) <= Len(w)
    /\ \A i \in 1..Len(r.data) : r.data[i] = w[i]
    /\ r.at = "response" => r.data = <<>>
    /\ r.at = "verify" => Len(r.data) = Len(w)

\* Owner o is still to be tried by r, or is being tried, or was successful.
InTurn(r, o) ==
    \/ \E i \in 1..Len(r.rest) : r.rest[i] = o
    \/ o = r.owner /\ r.at \notin {"idle", "try", "failed"}

Excused(d, o) == <<d, o>> \in hist.excuse

\* Where a download may be.
Place(r, asked) ==
    /\ r.at = "idle" => asked = {}
    /\ r.at \in {"idle", "try"} => r.data = <<>>
    /\ r.at = "failed" => r.rest = <<>>

\* An owner that has not failed the download for a reason is still in turn,
\* and the attempt on it goes by the script.
ReasonFor(d) ==
    /\ Place(recv[d], hist.asked[d])
    /\ recv[d].cancelled => \A o \in Owner : Excused(d, o)
    /\ \A o \in hist.asked[d] : Excused(d, o) \/ InTurn(recv[d], o)
    /\ recv[d].at \in {"response", "chunks", "verify"} /\ ~ Excused(d, recv[d].owner)
         => OnScript(conn[d], recv[d], want[d], disk[recv[d].owner])

ReasonInv == \A d \in Download : ReasonFor(d)

\* The order of the owners leaves none out.
LEMMA OrderCovers ==
    ASSUME NEW S \in SUBSET Owner, NEW s \in Orders(S), NEW o \in S
    PROVE  \E i \in 1..Len(s) : s[i] = o
<1> DEFINE n == Cardinality(S)
<1>1. IsFiniteSet(S) /\ n \in Nat
  BY Zenon, TransferAssumption, FS_Subset, FS_CardinalityType
<1>2. s \in [1..n -> S] /\ \A i, j \in 1..n : s[i] = s[j] => i = j
  BY Zenon DEF Orders, IsInjective
<1>3. Len(s) = n
  BY <1>1, <1>2
<1>4. SUFFICES ASSUME \A i \in 1..n : s[i] # o PROVE FALSE
  BY Zenon, <1>3
<1> DEFINE T == S \ {o}
           I == 1..n
<1>5. IsFiniteSet(T) /\ Cardinality(T) = n - 1
  BY ZenonT(40), <1>1, FS_RemoveElement
<1>6. IsFiniteSet(I) /\ Cardinality(I) = n
  BY <1>1, FS_Interval
<1>7. s \in [I -> T] /\ \A i, j \in I : s[i] = s[j] => i = j
  BY Zenon, <1>2, <1>4
<1>8. n - 1 < n
  BY <1>1
<1> HIDE DEF n, T, I
<1>9. Cardinality(T) < Cardinality(I)
  BY Zenon, <1>5, <1>6, <1>8
<1>10. \E i, j \in I : i # j /\ s[i] = s[j]
  BY ZenonT(40), <1>5, <1>6, <1>7, <1>9, FS_PigeonHole
<1> QED
  BY Zenon, <1>7, <1>10

\* One more message is sent.
LEMMA FollowsAppend ==
    ASSUME NEW q \in Seq(Message), NEW w \in Content, NEW k \in Nat, Follows(q, w, k),
           NEW m \in Message, m = Script(w, k + Len(q) + 1)
    PROVE  Follows(Append(q, m), w, k)
<1>1. Len(Append(q, m)) = Len(q) + 1 /\ Len(q) \in Nat
  OBVIOUS
<1>2. ASSUME NEW i \in 1..(Len(q) + 1) PROVE Append(q, m)[i] = Script(w, k + i)
  <2>1. CASE i \in 1..Len(q)
    <3>1. Append(q, m)[i] = q[i]
      BY <2>1
    <3> QED
      BY Zenon, <2>1, <3>1 DEF Follows
  <2>2. CASE i = Len(q) + 1
    <3>1. Append(q, m)[i] = m /\ k + i = k + Len(q) + 1
      BY <1>1, <2>2
    <3> QED
      BY Zenon, <3>1
  <2> QED
    BY SMTT(30), <1>1, <2>1, <2>2
<1> QED
  BY Zenon, <1>1, <1>2 DEF Follows

\* The first message is received.
LEMMA FollowsTail ==
    ASSUME NEW q \in Seq(Message), NEW w \in Content, NEW k \in Nat, Follows(q, w, k), q # <<>>
    PROVE  Follows(Tail(q), w, k + 1) /\ Head(q) = Script(w, k + 1) /\ Len(Tail(q)) + 1 = Len(q)
<1>1. Len(Tail(q)) + 1 = Len(q) /\ Len(q) \in Nat /\ 1 \in 1..Len(q) /\ Head(q) = q[1]
  OBVIOUS
<1>2. ASSUME NEW i \in 1..Len(Tail(q)) PROVE Tail(q)[i] = Script(w, (k + 1) + i)
  <2>1. Tail(q)[i] = q[i + 1] /\ i + 1 \in 1..Len(q) /\ k + (i + 1) = (k + 1) + i
    BY <1>1
  <2> QED
    BY Zenon, <2>1 DEF Follows
<1> QED
  BY ZenonT(40), <1>1, <1>2 DEF Follows

\* The messages of the script are messages, and tell what they are.
LEMMA ScriptMessage ==
    ASSUME NEW w \in Content, NEW j \in Nat \ {0}
    PROVE  /\ Script(w, j) \in Message
           /\ Script(w, j).type = IF j = 1 THEN "found" ELSE IF j <= Len(w) + 1 THEN "block" ELSE "eof"
           /\ j > 1 /\ j <= Len(w) + 1 => Script(w, j).data = <<w[j - 1]>>
<1>1. <<>> \in Seq(Block) /\ \A i \in 1..Len(w) : <<w[i]>> \in Seq(Block)
  BY ContentBlocks
<1>2. Len(w) \in Nat
  BY Zenon, ContentBlocks
<1>3. j # 1 /\ j <= Len(w) + 1 => j - 1 \in 1..Len(w)
  BY <1>2
<1> QED
  BY SMTT(30), <1>1, <1>2, <1>3 DEF Script, Msg, Message

\* The attempt begins.
LEMMA ScriptBegins ==
    ASSUME NEW c, c = [NoConn EXCEPT !.at = "lookup"], NEW r \in Receiver, r.at = "response", r.data = <<>>,
           NEW w \in Content, NEW f
    PROVE  OnScript(c, r, w, f)
<1>1. c.at = "lookup" /\ c.pos = 0 /\ c.queue = <<>>
  BY Zenon DEF NoConn
<1>2. Len(w) \in Nat
  BY Zenon, ContentBlocks
<1> QED
  BY SMTT(30), <1>1, <1>2 DEF OnScript, HasSent, HasRead, Follows

\* Both counts are numbers.
LEMMA ScriptCounts ==
    ASSUME NEW c \in Connection, NEW r \in Receiver, NEW w \in Content
    PROVE  HasSent(c, w) \in Nat /\ HasRead(r, w) \in Nat /\ Len(w) \in Nat /\ Len(r.data) \in Nat
<1>1. Len(w) \in Nat /\ Len(r.data) \in Nat /\ c.pos \in Nat
  BY ContentBlocks DEF Connection, Receiver
<1> QED
  BY <1>1 DEF HasSent, HasRead

\* The sender sends the next message of the script.
LEMMA ScriptSends ==
    ASSUME NEW c \in Connection, NEW r \in Receiver, NEW w \in Content, NEW f, OnScript(c, r, w, f),
           NEW e, e.queue = Append(c.queue, Script(w, HasSent(c, w) + 1)),
           HasSent(e, w) = HasSent(c, w) + 1
    PROVE  Follows(e.queue, w, HasRead(r, w)) /\ HasSent(e, w) = HasRead(r, w) + Len(e.queue)
<1> DEFINE k == HasRead(r, w)
           j == HasSent(c, w)
<1>1. k \in Nat /\ j \in Nat
  BY Zenon, ScriptCounts
<1>2. j = k + Len(c.queue) /\ Follows(c.queue, w, k)
  BY Zenon DEF OnScript
<1>3. c.queue \in Seq(Message) /\ Len(c.queue) \in Nat
  BY DEF Connection
<1>4. e.queue = Append(c.queue, Script(w, j + 1)) /\ HasSent(e, w) = j + 1
  BY Zenon
<1> HIDE DEF k, j
<1>5. j + 1 = k + Len(c.queue) + 1 /\ j + 1 \in Nat \ {0}
  BY SMTT(30), <1>1, <1>2, <1>3
<1>6. Script(w, j + 1) \in Message
  BY Zenon, <1>5, ScriptMessage
<1>7. Follows(e.queue, w, k)
  BY ZenonT(40), <1>1, <1>2, <1>3, <1>4, <1>5, <1>6, FollowsAppend
<1>8. Len(e.queue) = Len(c.queue) + 1
  BY SMTT(30), <1>3, <1>4, <1>6
<1>9. HasSent(e, w) = k + Len(e.queue)
  BY SMTT(30), <1>1, <1>2, <1>3, <1>4, <1>8
<1> QED
  BY Zenon, <1>7, <1>9 DEF k

\* Respond, when the file is there.
LEMMA ScriptResponds ==
    ASSUME NEW c \in Connection, NEW r \in Receiver, NEW w \in Content, OnScript(c, r, w, w), c.at = "lookup"
    PROVE  OnScript(Sent([c EXCEPT !.at = "open"], "found", <<>>), r, w, w)
<1> DEFINE b == [c EXCEPT !.at = "open"]
           e == Sent(b, "found", <<>>)
<1>1. b \in Connection /\ b.at = "open" /\ b.pos = c.pos /\ b.queue = c.queue /\ <<>> \in Seq(Block)
  BY DEF Connection
<1> HIDE DEF b
<1>2. e.at = b.at /\ e.pos = b.pos /\ e.queue = Append(b.queue, Msg("found", <<>>))
  BY ZenonT(40), <1>1, SentType
<1> HIDE DEF e
<1>3. e.at = "open" /\ e.pos = 0 /\ e.queue = Append(c.queue, Msg("found", <<>>))
  BY Zenon, <1>1, <1>2 DEF OnScript
<1>4. HasSent(c, w) = 0 /\ HasSent(e, w) = 1
  BY Zenon, <1>3 DEF HasSent
<1>5. Script(w, HasSent(c, w) + 1) = Msg("found", <<>>) /\ HasSent(e, w) = HasSent(c, w) + 1
  BY <1>4 DEF Script
<1>6. Follows(e.queue, w, HasRead(r, w)) /\ HasSent(e, w) = HasRead(r, w) + Len(e.queue)
  BY ZenonT(60), <1>3, <1>5, ScriptSends
<1> QED
  BY Zenon, <1>3, <1>6 DEF OnScript, e, b

\* OpenFile, when the file is there.
LEMMA ScriptOpens ==
    ASSUME NEW c \in Connection, NEW r \in Receiver, NEW w \in Content, OnScript(c, r, w, w), c.at = "open"
    PROVE  OnScript([c EXCEPT !.at = "read", !.file = Linked], r, w, w)
<1> DEFINE e == [c EXCEPT !.at = "read", !.file = Linked]
<1>1. e.at = "read" /\ e.file = Linked /\ e.pos = 0 /\ e.queue = c.queue
  BY Zenon DEF Connection, OnScript
<1>2. HasSent(c, w) = 1 /\ Len(w) \in Nat
  BY Zenon, ContentBlocks DEF HasSent
<1> HIDE DEF e
<1>3. HasSent(e, w) = 1 /\ e.pos <= Len(w)
  BY SMTT(30), <1>1, <1>2 DEF HasSent
<1> QED
  BY Zenon, <1>1, <1>2, <1>3 DEF OnScript, e

\* ReadChunk, within the file and at its end.
LEMMA ScriptReads ==
    ASSUME NEW c \in Connection, NEW r \in Receiver, NEW w \in Content, NEW f, OnScript(c, r, w, f),
           c.at = "read"
    PROVE  IF c.pos + 1 <= Len(w)
           THEN OnScript(Sent([c EXCEPT !.pos = c.pos + 1], "block", <<w[c.pos + 1]>>), r, w, f)
           ELSE OnScript(Sent([c EXCEPT !.at = "sent"], "eof", <<>>), r, w, f)
<1> DEFINE i == c.pos + 1
<1>1. i \in Nat \ {0} /\ Len(w) \in Nat /\ c.pos = i - 1 /\ i <= Len(w) + 1
  BY SMTT(30), ContentBlocks DEF Connection, OnScript
<1>2. HasSent(c, w) = i
  BY Zenon DEF HasSent
<1>3. CASE i <= Len(w)
  <2> DEFINE b == [c EXCEPT !.pos = i]
             e == Sent(b, "block", <<w[i]>>)
  <2>1. <<w[i]>> \in Seq(Block)
    BY SMTT(30), <1>1, <1>3, ContentBlocks
  <2>2. b \in Connection /\ b.at = "read" /\ b.pos = i /\ b.file = c.file /\ b.queue = c.queue
    BY Zenon, <1>1 DEF Connection
  <2> HIDE DEF b, i
  <2>3. /\ e.at = b.at /\ e.pos = b.pos /\ e.file = b.file
        /\ e.queue = Append(b.queue, Msg("block", <<w[i]>>))
    BY ZenonT(40), <2>1, <2>2, SentType
  <2> HIDE DEF e
  <2>4. /\ e.at = "read" /\ e.pos = i /\ e.file = c.file
        /\ e.queue = Append(c.queue, Msg("block", <<w[i]>>))
    BY ZenonT(40), <2>2, <2>3
  <2>5. HasSent(e, w) = i + 1
    BY Zenon, <2>4 DEF HasSent
  <2>6. Script(w, i + 1) = Msg("block", <<w[i]>>)
    BY <1>1, <1>3 DEF Script
  <2>7. Follows(e.queue, w, HasRead(r, w)) /\ HasSent(e, w) = HasRead(r, w) + Len(e.queue)
    <3>1. /\ e.queue = Append(c.queue, Script(w, HasSent(c, w) + 1))
          /\ HasSent(e, w) = HasSent(c, w) + 1
      BY ZenonT(40), <1>2, <2>4, <2>5, <2>6
    <3> QED
      BY Zenon, <3>1, ScriptSends
  <2>8. OnScript(e, r, w, f)
    BY ZenonT(40), <1>3, <2>4, <2>7 DEF OnScript
  <2> QED
    BY ZenonT(40), <1>3, <2>8 DEF e, b, i
<1>4. CASE ~ (i <= Len(w))
  <2> DEFINE b == [c EXCEPT !.at = "sent"]
             e == Sent(b, "eof", <<>>)
  <2>1. b \in Connection /\ b.at = "sent" /\ b.queue = c.queue /\ <<>> \in Seq(Block)
    BY DEF Connection
  <2>2. i = Len(w) + 1
    BY SMTT(30), <1>1, <1>4
  <2> HIDE DEF b, i
  <2>3. e.at = b.at /\ e.queue = Append(b.queue, Msg("eof", <<>>))
    BY Zenon, <2>1, SentType
  <2> HIDE DEF e
  <2>4. e.at = "sent" /\ e.queue = Append(c.queue, Msg("eof", <<>>))
    BY ZenonT(40), <2>1, <2>3
  <2>5. HasSent(e, w) = i + 1
    BY SMTT(30), <1>1, <2>2, <2>4 DEF HasSent
  <2>6. Script(w, i + 1) = Msg("eof", <<>>)
    BY SMTT(30), <1>1, <2>2 DEF Script
  <2>7. Follows(e.queue, w, HasRead(r, w)) /\ HasSent(e, w) = HasRead(r, w) + Len(e.queue)
    BY ZenonT(60), <1>2, <2>4, <2>5, <2>6, ScriptSends
  <2>8. OnScript(e, r, w, f)
    BY Zenon, <2>4, <2>7 DEF OnScript
  <2> QED
    BY ZenonT(40), <1>4, <2>8 DEF e, b, i
<1> QED
  BY ZenonT(40), <1>3, <1>4 DEF i

\* RecvResponse finds the answer it waits for, when anything comes.
LEMMA ScriptAnswered ==
    ASSUME NEW c \in Connection, NEW r \in Receiver, NEW w \in Content, NEW f, OnScript(c, r, w, f),
           r.at = "response", c.queue # <<>>
    PROVE  /\ Head(c.queue).type = "found"
           /\ OnScript([c EXCEPT !.queue = Tail(c.queue)], [r EXCEPT !.at = "chunks"], w, f)
<1> DEFINE e == [c EXCEPT !.queue = Tail(c.queue)]
           s == [r EXCEPT !.at = "chunks"]
<1>1. e.at = c.at /\ e.pos = c.pos /\ e.file = c.file /\ e.queue = Tail(c.queue)
  BY Zenon DEF Connection
<1>2. s.at = "chunks" /\ s.data = <<>>
  BY Zenon DEF Receiver, OnScript
<1>3. /\ HasRead(r, w) = 0 /\ c.queue \in Seq(Message) /\ Len(Tail(c.queue)) \in Nat
      /\ 0 \in Nat /\ 0 + 1 = 1 /\ 1 \in Nat \ {0} /\ Len(<<>>) = 0
  BY DEF HasRead, Connection
<1> HIDE DEF e, s
<1>4. Follows(c.queue, w, 0)
  BY Zenon, <1>3 DEF OnScript
<1>5. Follows(Tail(c.queue), w, 1) /\ Head(c.queue) = Script(w, 1) /\ Len(Tail(c.queue)) + 1 = Len(c.queue)
  BY ZenonT(40), <1>3, <1>4, FollowsTail
<1>6. HasRead(s, w) = 1
  BY Zenon, <1>2, <1>3 DEF HasRead
<1>7. HasSent(e, w) = HasSent(c, w)
  BY ZenonT(40), <1>1 DEF HasSent
<1>8. HasSent(e, w) = HasRead(s, w) + Len(e.queue)
  <2>1. HasSent(c, w) = 0 + Len(c.queue)
    BY Zenon, <1>3 DEF OnScript
  <2> QED
    BY SMTT(30), <1>1, <1>3, <1>5, <1>6, <1>7, <2>1
<1>9. Head(c.queue).type = "found"
  BY ZenonT(40), <1>3, <1>5, ScriptMessage
<1>10. \A i \in 1..Len(s.data) : s.data[i] = w[i]
  BY SMTT(30), <1>2
<1>11. Len(s.data) <= Len(w)
  BY SMTT(30), <1>2, <1>3, ContentBlocks
<1>12. OnScript(e, s, w, f)
  BY ZenonT(40), <1>1, <1>2, <1>5, <1>6, <1>8, <1>10, <1>11 DEF OnScript
<1> QED
  BY Zenon, <1>9, <1>12 DEF e, s

\* RecvChunk finds a block or the end, and the blocks are those of the content.
LEMMA ScriptContinues ==
    ASSUME NEW c \in Connection, NEW r \in Receiver, NEW w \in Content, NEW f, OnScript(c, r, w, f),
           r.at = "chunks", c.queue # <<>>
    PROVE  /\ Head(c.queue).type \in {"block", "eof"}
           /\ Head(c.queue).type = "block"
                => OnScript([c EXCEPT !.queue = Tail(c.queue)],
                            [r EXCEPT !.data = r.data \o Head(c.queue).data], w, f)
           /\ Head(c.queue).type = "eof"
                => OnScript([c EXCEPT !.queue = Tail(c.queue)], [r EXCEPT !.at = "verify"], w, f)
<1> DEFINE e == [c EXCEPT !.queue = Tail(c.queue)]
           n == Len(r.data)
           m == Head(c.queue)
<1>1. e.at = c.at /\ e.pos = c.pos /\ e.file = c.file /\ e.queue = Tail(c.queue)
  BY Zenon DEF Connection
<1>2. /\ c.queue \in Seq(Message) /\ Len(Tail(c.queue)) \in Nat /\ r.data \in Seq(Block)
      /\ n \in Nat /\ n + 1 \in Nat /\ (n + 1) + 1 \in Nat \ {0} /\ Len(w) \in Nat
  BY ContentBlocks DEF Connection, Receiver
<1>3. HasRead(r, w) = n + 1 /\ n <= Len(w) /\ \A i \in 1..n : r.data[i] = w[i]
  BY Zenon DEF OnScript, HasRead
<1>4. Follows(c.queue, w, n + 1)
  BY Zenon, <1>3 DEF OnScript
<1> HIDE DEF e, n
<1>5. /\ Follows(Tail(c.queue), w, (n + 1) + 1) /\ m = Script(w, (n + 1) + 1)
      /\ Len(Tail(c.queue)) + 1 = Len(c.queue)
  BY ZenonT(40), <1>2, <1>4, FollowsTail
<1> HIDE DEF m
<1>6. HasSent(e, w) = HasSent(c, w)
  BY Zenon, <1>1 DEF HasSent
<1>7. HasSent(e, w) = (n + 1) + 1 + Len(e.queue)
  <2>1. HasSent(c, w) = (n + 1) + Len(c.queue)
    BY Zenon, <1>3 DEF OnScript
  <2>2. /\ Len(e.queue) \in Nat /\ n \in Nat /\ Len(c.queue) = Len(e.queue) + 1
        /\ HasSent(e, w) = (n + 1) + Len(c.queue)
    BY ZenonT(40), <1>1, <1>2, <1>5, <1>6, <2>1
  <2>3. \A i, j \in Nat : (i + 1) + (j + 1) = (i + 1) + 1 + j
    OBVIOUS
  <2> QED
    BY ZenonT(40), <2>2, <2>3
<1>8. /\ m.type = IF (n + 1) + 1 = 1 THEN "found" ELSE IF (n + 1) + 1 <= Len(w) + 1 THEN "block" ELSE "eof"
      /\ (n + 1) + 1 > 1 /\ (n + 1) + 1 <= Len(w) + 1 => m.data = <<w[((n + 1) + 1) - 1]>>
  BY ZenonT(40), <1>2, <1>5, ScriptMessage
<1>9. /\ m.type = IF n + 1 <= Len(w) THEN "block" ELSE "eof"
      /\ n + 1 <= Len(w) => m.data = <<w[n + 1]>>
  BY SMTT(30), <1>2, <1>8
<1>10. ASSUME m.type = "block" PROVE OnScript(e, [r EXCEPT !.data = r.data \o m.data], w, f)
  <2> DEFINE s == [r EXCEPT !.data = r.data \o m.data]
  <2>1. n + 1 <= Len(w) /\ m.data = <<w[n + 1]>> /\ w[n + 1] \in Block
    <3>1. n + 1 <= Len(w)
      BY ZenonT(40), <1>9, <1>10
    <3> QED
      BY SMTT(30), <1>2, <1>9, <3>1, ContentBlocks
  <2>2. Len(r.data \o m.data) = n + 1 /\ \A i \in 1..(n + 1) : (r.data \o m.data)[i] = w[i]
    BY SMTT(30), <1>2, <1>3, <2>1 DEF n
  <2>3. s.at = "chunks" /\ s.data = r.data \o m.data
    BY ZenonT(40) DEF Receiver
  <2> HIDE DEF s
  <2>4. HasRead(s, w) = (n + 1) + 1
    BY ZenonT(40), <2>2, <2>3 DEF HasRead
  <2>5. OnScript(e, s, w, f)
    BY ZenonT(40), <1>1, <1>5, <1>7, <2>1, <2>2, <2>3, <2>4 DEF OnScript
  <2> QED
    BY ZenonT(40), <2>5 DEF s
<1>11. ASSUME m.type = "eof" PROVE OnScript(e, [r EXCEPT !.at = "verify"], w, f)
  <2> DEFINE s == [r EXCEPT !.at = "verify"]
  <2>1. n = Len(w)
    BY SMTT(30), <1>2, <1>3, <1>9, <1>11
  <2>2. s.at = "verify" /\ s.data = r.data
    BY ZenonT(40) DEF Receiver
  <2> HIDE DEF s
  <2>3. HasRead(s, w) = (n + 1) + 1
    BY SMTT(30), <1>2, <2>1, <2>2 DEF HasRead
  <2>4. Len(s.data) = n
    BY ZenonT(40), <2>2 DEF n
  <2>5. OnScript(e, s, w, f)
    BY ZenonT(40), <1>1, <1>3, <1>5, <1>7, <2>1, <2>2, <2>3, <2>4 DEF OnScript
  <2> QED
    BY ZenonT(40), <2>5 DEF s
<1>12. m.type \in {"block", "eof"}
  BY ZenonT(40), <1>9
<1> QED
  BY ZenonT(40), <1>10, <1>11, <1>12 DEF e, m

\* What an undisturbed transfer leaves to Verify is the content.
LEMMA ScriptEnds ==
    ASSUME NEW c \in Connection, NEW r \in Receiver, NEW w \in Content, NEW f, OnScript(c, r, w, f),
           r.at = "verify"
    PROVE  r.data = w
<1>1. w \in Seq(Block) /\ r.data \in Seq(Block)
  BY ZenonT(40), ContentBlocks DEF Receiver
<1>2. Len(r.data) = Len(w) /\ \A i \in 1..Len(r.data) : r.data[i] = w[i]
  BY ZenonT(40) DEF OnScript
<1> QED
  BY SMTT(30), <1>1, <1>2

\* A step that leaves the download where it is.
LEMMA ReasonServed ==
    ASSUME NEW d \in Download, ReasonFor(d), recv'[d] = recv[d], want' = want,
           hist.excuse \subseteq hist'.excuse, hist'.asked[d] = hist.asked[d],
           recv[d].at \in {"response", "chunks", "verify"} /\ ~ Excused(d, recv[d].owner)'
             => OnScript(conn'[d], recv[d], want[d], disk'[recv[d].owner])
    PROVE  ReasonFor(d)'
BY Zenon DEF ReasonFor, Excused

\* The attempt on an owner has failed.
LEMMA ReasonNext ==
    ASSUME NEW d \in Download, ReasonFor(d), recv \in [Download -> Receiver],
           NEW rest \in Seq(Owner), TryNext(d, rest),
           hist.excuse \subseteq hist'.excuse, hist'.asked[d] = hist.asked[d], recv[d].at # "idle",
           \A o \in hist.asked[d] : Excused(d, o)' \/ \E i \in 1..Len(rest) : rest[i] = o
    PROVE  ReasonFor(d)'
<1> DEFINE r == [recv[d] EXCEPT !.at = IF rest = <<>> THEN "failed" ELSE "try",
                                !.rest = rest, !.owner = NoOwner, !.data = <<>>]
<1>1. recv'[d] = r
  BY Zenon DEF TryNext
<1>2. /\ r.at = IF rest = <<>> THEN "failed" ELSE "try"
      /\ r.rest = rest /\ r.data = <<>> /\ r.cancelled = recv[d].cancelled
  BY DEF Receiver
<1> HIDE DEF r
<1>3. r.at \in {"failed", "try"} /\ (r.at = "failed" => rest = <<>>)
  BY ZenonT(40), <1>2
<1>4. Place(r, hist.asked[d])
  BY ZenonT(40), <1>2, <1>3 DEF Place
<1> QED
  BY ZenonT(40), <1>1, <1>2, <1>3, <1>4 DEF ReasonFor, Excused, InTurn

\* The file has arrived, and is given its name.
LEMMA ReasonMoves ==
    ASSUME NEW d \in Download, ReasonFor(d), recv[d].at \notin {"idle", "try", "failed"},
           recv'[d].at \in {"stat", "rename", "add", "ok"}, recv'[d].rest = recv[d].rest,
           recv'[d].owner = recv[d].owner, recv'[d].cancelled = recv[d].cancelled,
           hist.excuse \subseteq hist'.excuse, hist'.asked[d] = hist.asked[d]
    PROVE  ReasonFor(d)'
BY ZenonT(40) DEF ReasonFor, Excused, InTurn, Place

\* The owners' folders: a change under an attempt excuses it, unless the sender
\* has an open file that keeps its content or has read it all.
LEMMA ReasonFolder ==
    ASSUME ConnInv, RecvType, HistShape, ReasonInv, NEW d \in Download, NEW o \in Owner,
           OwnerRemove(o) \/ OwnerIndex(o) \/ \E c \in Content : OwnerWrite(o, c)
    PROVE  ReasonFor(d)'
<1>0. /\ conn \in [Download -> Connection] /\ recv \in [Download -> Receiver]
      /\ disk \in [Owner -> Content \cup {Absent}] /\ want[d] \in Content
      /\ ReasonFor(d)
  BY Zenon DEF ConnInv, TypeOK, Connection, Message, Receiver, ReasonInv, RecvType
<1>1. recv' = recv /\ want' = want
  BY Zenon DEF OwnerRemove, OwnerIndex, OwnerWrite
<1>2. hist' = hist \/ \E S : hist' = Excuse(S)
  BY Zenon DEF OwnerRemove, OwnerIndex, OwnerWrite
<1>3. hist.excuse \subseteq hist'.excuse /\ hist'.asked[d] = hist.asked[d]
  BY ZenonT(40), <1>2, ExcuseAdds
<1>4. SUFFICES ASSUME recv[d].at \in {"response", "chunks", "verify"},
                      ~ Excused(d, recv[d].owner)'
               PROVE  OnScript(conn'[d], recv[d], want[d], disk'[recv[d].owner])
  BY ZenonT(40), <1>0, <1>1, <1>3, ReasonServed
<1>5. OnScript(conn[d], recv[d], want[d], disk[recv[d].owner])
  BY ZenonT(40), <1>0, <1>3, <1>4, <1>1 DEF ReasonFor, Excused
<1>6. CASE OwnerIndex(o)
  BY ZenonT(40), <1>5, <1>6 DEF OwnerIndex
<1>7. CASE recv[d].owner # o
  <2>1. disk'[recv[d].owner] = disk[recv[d].owner]
    <3>1. recv[d].owner \in Owner
      BY Zenon, <1>4, RecvOwners
    <3> QED
      BY ZenonT(40), <1>0, <1>7, <3>1 DEF OwnerRemove, OwnerIndex, OwnerWrite
  <2>2. conn'[d] = conn[d]
    BY ZenonT(40), <1>0, <1>7 DEF OwnerRemove, OwnerIndex, OwnerWrite, Served
  <2> QED
    BY ZenonT(40), <1>5, <2>1, <2>2
<1>8. ASSUME NEW c \in Content, OwnerWrite(o, c), recv[d].owner = o
      PROVE  OnScript(conn'[d], recv[d], want[d], disk'[recv[d].owner])
  <2>1. hist'.excuse = hist.excuse \cup (Served(o, {"lookup", "open", "read"}) \X {o})
    BY ZenonT(40), <1>8, ExcuseAdds DEF OwnerWrite
  <2>2. ~ (conn[d].at \in {"lookup", "open", "read"})
    BY ZenonT(40), <1>1, <1>4, <1>8, <2>1 DEF Served, Excused
  <2>3. conn' = conn
    BY Zenon, <1>8 DEF OwnerWrite
  <2> QED
    BY ZenonT(40), <1>5, <2>2, <2>3 DEF OnScript
<1>9. CASE OwnerRemove(o) /\ recv[d].owner = o
  <2>1. hist'.excuse = hist.excuse \cup (Served(o, {"lookup", "open"}) \X {o})
    BY ZenonT(40), <1>9, ExcuseAdds DEF OwnerRemove
  <2>2. ~ (conn[d].at \in {"lookup", "open"})
    BY ZenonT(40), <1>1, <1>4, <1>9, <2>1 DEF Served, Excused
  <2>3. conn'[d] = IF d \in Served(o, {"read"}) /\ conn[d].file = Linked
                   THEN [conn[d] EXCEPT !.file = disk[o]] ELSE conn[d]
    BY Zenon, <1>9 DEF OwnerRemove
  <2>4. CASE conn[d].at = "read" /\ conn[d].file = Linked
    <3>1. conn'[d] = [conn[d] EXCEPT !.file = disk[o]]
      BY ZenonT(40), <1>9, <2>3, <2>4 DEF Served
    <3>2. /\ conn'[d].at = conn[d].at /\ conn'[d].pos = conn[d].pos /\ conn'[d].queue = conn[d].queue
          /\ conn'[d].file = disk[o]
      BY ZenonT(40), <1>0, <3>1 DEF Connection
    <3>3. disk[o] = want[d] /\ disk[o] # Linked
      <4>1. disk[o] = want[d]
        BY ZenonT(40), <1>5, <1>9, <2>4 DEF OnScript
      <4> QED
        BY Zenon, <1>0, <4>1, TransferAssumption
    <3>4. HasSent(conn'[d], want[d]) = HasSent(conn[d], want[d])
      BY Zenon, <3>2 DEF HasSent
    <3> QED
      BY ZenonT(40), <1>5, <2>4, <3>2, <3>3, <3>4 DEF OnScript
  <2>5. CASE ~ (conn[d].at = "read" /\ conn[d].file = Linked)
    <3>1. conn'[d] = conn[d]
      BY ZenonT(40), <1>9, <2>3, <2>5 DEF Served
    <3> QED
      BY ZenonT(40), <1>5, <2>2, <2>5, <3>1 DEF OnScript
  <2> QED
    BY ZenonT(40), <2>4, <2>5
<1> QED
  BY ZenonT(40), <1>6, <1>7, <1>8, <1>9

\* The sender goes by the script, or there is an excuse.
LEMMA ReasonSender ==
    ASSUME ConnInv, RecvType, HistShape, ReasonInv, NEW d \in Download,
           HandleRequest(d) \/ Broadcast(d) \/ ConnLost(d)
    PROVE  ReasonFor(d)'
<1>0. /\ conn \in [Download -> Connection] /\ recv \in [Download -> Receiver]
      /\ conn[d] \in Connection /\ recv[d] \in Receiver
      /\ disk \in [Owner -> Content \cup {Absent}] /\ want[d] \in Content
      /\ ReasonFor(d)
  BY Zenon DEF ConnInv, TypeOK, Connection, Message, Receiver, ReasonInv, RecvType
<1>1. recv' = recv /\ want' = want /\ disk' = disk
  BY Zenon DEF HandleRequest, Respond, OpenFile, ReadChunk, Broadcast, ConnLost
<1>2. hist' = hist \/ \E S : hist' = Excuse(S)
  BY Zenon DEF HandleRequest, Respond, OpenFile, ReadChunk, Broadcast, ConnLost
<1>3. hist.excuse \subseteq hist'.excuse /\ hist'.asked[d] = hist.asked[d]
  BY ZenonT(40), <1>2, ExcuseAdds
<1>4. SUFFICES ASSUME recv[d].at \in {"response", "chunks", "verify"},
                      ~ Excused(d, recv[d].owner)'
               PROVE  OnScript(conn'[d], recv[d], want[d], disk[recv[d].owner])
  BY ZenonT(40), <1>0, <1>1, <1>3, ReasonServed
<1>5. OnScript(conn[d], recv[d], want[d], disk[recv[d].owner])
  BY ZenonT(40), <1>0, <1>1, <1>3, <1>4 DEF ReasonFor, Excused
<1>6. ASSUME hist' = Excuse({<<d, recv[d].owner>>}) PROVE FALSE
  BY ZenonT(40), <1>1, <1>4, <1>6, ExcuseAdds DEF Excused
<1>7. CASE Respond(d)
  <2>1. /\ conn[d].at = "lookup" /\ disk[recv[d].owner] = want[d]
        /\ want[d] \in served[recv[d].owner] /\ disk[recv[d].owner] # Absent
    BY ZenonT(40), <1>6, <1>7 DEF Respond
  <2>2. conn'[d] = Sent([conn[d] EXCEPT !.at = "open"], "found", <<>>)
    BY ZenonT(40), <1>0, <1>7, <2>1 DEF Respond
  <2> QED
    BY ZenonT(40), <1>0, <1>5, <2>1, <2>2, ScriptResponds
<1>8. CASE OpenFile(d)
  <2>1. conn[d].at = "open" /\ disk[recv[d].owner] = want[d]
    BY ZenonT(40), <1>5, <1>8 DEF OpenFile, OnScript
  <2>2. disk[recv[d].owner] # Absent
    BY ZenonT(40), <1>0, <2>1, TransferAssumption
  <2>3. conn'[d] = [conn[d] EXCEPT !.at = "read", !.file = Linked]
    BY ZenonT(40), <1>0, <1>8, <2>2 DEF OpenFile
  <2>4. OnScript(conn[d], recv[d], want[d], want[d])
    BY ZenonT(40), <1>5, <2>1
  <2>5. OnScript([conn[d] EXCEPT !.at = "read", !.file = Linked], recv[d], want[d], want[d])
    BY ZenonT(40), <1>0, <2>1, <2>4, ScriptOpens
  <2> QED
    BY ZenonT(40), <2>1, <2>3, <2>5
<1>9. CASE ReadChunk(d)
  <2>1. conn[d].at = "read" /\ Opened(d) = want[d]
    BY ZenonT(40), <1>5, <1>9 DEF ReadChunk, OnScript, Opened
  <2>2. conn'[d] = IF conn[d].pos + 1 <= Len(want[d])
                   THEN Sent([conn[d] EXCEPT !.pos = conn[d].pos + 1], "block",
                             <<want[d][conn[d].pos + 1]>>)
                   ELSE Sent([conn[d] EXCEPT !.at = "sent"], "eof", <<>>)
    BY ZenonT(40), <1>0, <1>6, <1>9, <2>1 DEF ReadChunk
  <2> QED
    BY ZenonT(40), <1>0, <1>5, <2>1, <2>2, ScriptReads
<1>10. CASE Broadcast(d) \/ ConnLost(d)
  BY ZenonT(40), <1>6, <1>10 DEF Broadcast, ConnLost
<1> QED
  BY ZenonT(40), <1>7, <1>8, <1>9, <1>10 DEF HandleRequest

\* A cancelled download is excused everywhere.
LEMMA ReasonCancel ==
    ASSUME ConnInv, RecvType, HistShape, ReasonInv, NEW d \in Download, Cancel(d)
    PROVE  ReasonFor(d)'
<1>0. recv \in [Download -> Receiver] /\ ReasonFor(d) /\ hist.asked[d] \in SUBSET Owner
  BY Zenon DEF ConnInv, TypeOK, Receiver, ReasonInv, HistShape
<1>1. recv' = [recv EXCEPT ![d].cancelled = TRUE] /\ hist' = Excuse({d} \X Owner)
  BY Zenon DEF Cancel
<1>2. /\ recv'[d].at = recv[d].at /\ recv'[d].rest = recv[d].rest
      /\ recv'[d].owner = recv[d].owner /\ recv'[d].data = recv[d].data
  BY ZenonT(40), <1>0, <1>1 DEF Receiver
<1>3. hist'.excuse = hist.excuse \cup ({d} \X Owner) /\ hist'.asked = hist.asked
  BY ZenonT(40), <1>1, ExcuseAdds
<1>4. \A o \in Owner : Excused(d, o)'
  BY Zenon, <1>3 DEF Excused
<1>5. recv[d].at \in {"response", "chunks", "verify"} => recv[d].owner \in Owner
  BY Zenon, RecvOwners
<1>6. Place(recv'[d], hist'.asked[d])
  BY ZenonT(40), <1>0, <1>2, <1>3 DEF ReasonFor, Place
<1> QED
  BY ZenonT(40), <1>0, <1>2, <1>3, <1>4, <1>5, <1>6 DEF ReasonFor

\* Every owner that is asked comes into turn.
LEMMA ReasonGetOwners ==
    ASSUME ConnInv, RecvType, HistShape, ReasonInv, NEW d \in Download, GetOwners(d)
    PROVE  ReasonFor(d)'
<1>0. /\ recv \in [Download -> Receiver] /\ ReasonFor(d)
      /\ hist.asked \in [Download -> SUBSET Owner]
  BY Zenon DEF ConnInv, TypeOK, Receiver, ReasonInv, HistShape
<1>1. PICK hints \in SUBSET (Owner \cup {Self}) :
           \E owners \in Orders(hints \ {Self}) :
             /\ recv' = [recv EXCEPT ![d].at = IF owners = <<>> THEN "failed" ELSE "try",
                                     ![d].rest = owners]
             /\ hist' = [hist EXCEPT !.asked[d] = hints \ {Self}]
  BY Zenon DEF GetOwners
<1> DEFINE S == hints \ {Self}
<1>2. S \in SUBSET Owner
  BY Zenon
<1>3. PICK owners \in Orders(S) :
           /\ recv' = [recv EXCEPT ![d].at = IF owners = <<>> THEN "failed" ELSE "try",
                                   ![d].rest = owners]
           /\ hist' = [hist EXCEPT !.asked[d] = S]
  BY Zenon, <1>1
<1>4. hist'.excuse = hist.excuse /\ hist'.asked[d] = S
  <2>1. hist'.excuse = hist.excuse /\ hist'.asked = [hist.asked EXCEPT ![d] = S]
    BY ZenonT(40), <1>0, <1>2, <1>3, AskedOwners
  <2> QED
    BY ZenonT(40), <1>0, <2>1
<1>5. /\ recv'[d].at = IF owners = <<>> THEN "failed" ELSE "try"
      /\ recv'[d].rest = owners /\ recv'[d].data = recv[d].data
      /\ recv'[d].cancelled = recv[d].cancelled
  BY ZenonT(60), <1>0, <1>3 DEF Receiver
<1>6. recv[d].data = <<>>
  BY Zenon, <1>0 DEF ReasonFor, Place, GetOwners
<1>7. \A o \in S : \E i \in 1..Len(owners) : owners[i] = o
  BY ZenonT(40), <1>2, OrderCovers
<1> HIDE DEF S
<1>8. recv'[d].at \in {"failed", "try"} /\ (recv'[d].at = "failed" => owners = <<>>)
  BY Zenon, <1>5
<1>9. Place(recv'[d], S)
  BY ZenonT(40), <1>5, <1>6, <1>8 DEF Place
<1> QED
  BY ZenonT(40), <1>0, <1>4, <1>5, <1>7, <1>8, <1>9 DEF ReasonFor, Excused, InTurn

\* The next owner of the list is tried.
LEMMA ReasonTryOwner ==
    ASSUME ConnInv, RecvType, HistShape, ReasonInv, NEW d \in Download, TryOwner(d)
    PROVE  ReasonFor(d)'
<1> DEFINE o == Head(recv[d].rest)
           rest == Tail(recv[d].rest)
           r == [recv[d] EXCEPT !.at = "response", !.owner = o, !.rest = rest]
<1>0. /\ recv \in [Download -> Receiver] /\ conn \in [Download -> Connection] /\ ReasonFor(d)
      /\ want[d] \in Content /\ want' = want /\ disk' = disk
      /\ recv[d].at = "try" /\ conn[d] = NoConn
  BY Zenon DEF ConnInv, TypeOK, Connection, Message, Receiver, ReasonInv, RecvType, TryOwner
<1>1. recv[d].rest \in Seq(Owner) /\ recv[d].rest # <<>>
  BY Zenon, <1>0, RecvOwners
<1>2. /\ o \in Owner /\ rest \in Seq(Owner)
      /\ \A p : (\E i \in 1..Len(recv[d].rest) : recv[d].rest[i] = p)
                  => p = o \/ \E i \in 1..Len(rest) : rest[i] = p
  <2>1. /\ o \in Owner /\ rest \in Seq(Owner) /\ Len(rest) = Len(recv[d].rest) - 1
        /\ o = recv[d].rest[1] /\ \A i \in 1..Len(rest) : rest[i] = recv[d].rest[i + 1]
    BY SMTT(30), <1>1
  <2>2. ASSUME NEW i \in 1..Len(recv[d].rest), i # 1 PROVE i - 1 \in 1..Len(rest) /\ rest[i - 1] = recv[d].rest[i]
    BY SMTT(30), <1>1, <2>1, <2>2
  <2> QED
    BY ZenonT(40), <2>1, <2>2
<1>3. hist.excuse \subseteq hist'.excuse /\ hist'.asked = hist.asked
  <2>1. hist' = hist \/ \E S : hist' = Excuse(S)
    BY Zenon DEF TryOwner
  <2> QED
    BY ZenonT(40), <2>1, ExcuseAdds
<1>4. ASSUME hist' = Excuse({<<d, o>>}) PROVE <<d, o>> \in hist'.excuse
  BY ZenonT(40), <1>4, ExcuseAdds
<1>5. \A p \in hist.asked[d] : Excused(d, p) \/ p = o \/ \E i \in 1..Len(rest) : rest[i] = p
  BY ZenonT(40), <1>0, <1>2 DEF ReasonFor, InTurn
<1>6. CASE recv' = [recv EXCEPT ![d] = r]
           /\ (<<d, o>> \in hist'.excuse \/ conn' = [conn EXCEPT ![d].at = "lookup"])
  <2>1. /\ r \in Receiver /\ r.at = "response" /\ r.owner = o /\ r.rest = rest
        /\ r.data = recv[d].data /\ r.cancelled = recv[d].cancelled
    BY ZenonT(40), <1>0, <1>2 DEF Receiver
  <2>2. recv'[d] = r
    BY Zenon, <1>0, <1>6
  <2> HIDE DEF r, o, rest
  <2>3. r.data = <<>>
    BY ZenonT(40), <1>0, <2>1 DEF ReasonFor, Place
  <2>4. Place(r, hist.asked[d])
    BY Zenon, <2>1 DEF Place
  <2>5. <<d, o>> \in hist'.excuse \/ OnScript(conn'[d], r, want[d], disk[o])
    <3>1. CASE conn' = [conn EXCEPT ![d].at = "lookup"]
      <4>1. conn'[d] = [NoConn EXCEPT !.at = "lookup"]
        BY ZenonT(40), <1>0, <3>1
      <4> QED
        BY ZenonT(40), <1>0, <2>1, <2>3, <4>1, ScriptBegins
    <3> QED
      BY ZenonT(40), <1>6, <3>1
  <2> QED
    BY ZenonT(40), <1>0, <1>3, <1>5, <2>1, <2>2, <2>4, <2>5 DEF ReasonFor, Excused, InTurn
<1>7. CASE TryNext(d, rest) /\ <<d, o>> \in hist'.excuse
  <2> HIDE DEF o, rest
  <2>1. \A p \in hist.asked[d] : Excused(d, p)' \/ \E i \in 1..Len(rest) : rest[i] = p
    BY ZenonT(40), <1>3, <1>5, <1>7 DEF Excused
  <2> QED
    BY ZenonT(40), <1>0, <1>2, <1>3, <1>7, <2>1, ReasonNext
<1> QED
  BY ZenonT(40), <1>4, <1>6, <1>7 DEF TryOwner

\* An attempt fails on an owner that is excused.
LEMMA ReasonFails ==
    ASSUME ConnInv, RecvType, ReasonInv, NEW d \in Download, AttemptFails(d),
           hist.excuse \subseteq hist'.excuse, hist'.asked = hist.asked,
           recv[d].at # "idle", <<d, recv[d].owner>> \in hist'.excuse
    PROVE  ReasonFor(d)'
<1>1. recv \in [Download -> Receiver] /\ ReasonFor(d) /\ recv[d].rest \in Seq(Owner)
  BY Zenon, RecvOwners DEF ConnInv, TypeOK, Receiver, ReasonInv
<1> DEFINE rest == recv[d].rest
<1>2. TryNext(d, rest)
  BY Zenon DEF AttemptFails
<1>3. \A o \in hist.asked[d] :
        Excused(d, o) \/ o = recv[d].owner \/ \E i \in 1..Len(rest) : rest[i] = o
  BY Zenon, <1>1 DEF ReasonFor, InTurn
<1>4. rest \in Seq(Owner)
  BY ZenonT(40), <1>1
<1> HIDE DEF rest
<1>5. \A o \in hist.asked[d] : Excused(d, o)' \/ \E i \in 1..Len(rest) : rest[i] = o
  BY Zenon, <1>3 DEF Excused
<1> QED
  BY ZenonT(40), <1>1, <1>2, <1>4, <1>5, ReasonNext

\* A message of the script is received.
LEMMA ReasonReceives ==
    ASSUME ConnInv, RecvType, ReasonInv, NEW d \in Download, NEW types, NEW r, Recv(d, types, r),
           r.at \in {"chunks", "verify"}, r.rest = recv[d].rest, r.owner = recv[d].owner,
           r.cancelled = recv[d].cancelled, recv[d].at \in {"response", "chunks"},
           hist' = hist, want' = want, disk' = disk,
           ~ Excused(d, recv[d].owner)
             => OnScript([conn[d] EXCEPT !.queue = Tail(conn[d].queue)], r, want[d], disk[recv[d].owner])
    PROVE  ReasonFor(d)'
<1>1. /\ recv \in [Download -> Receiver] /\ conn \in [Download -> Connection] /\ ReasonFor(d)
      /\ hist.asked \in [Download -> SUBSET Owner]
  BY Zenon DEF ConnInv, TypeOK, Connection, Message, Receiver, ReasonInv, RecvType, HistShape
<1>2. recv'[d] = r /\ conn'[d] = [conn[d] EXCEPT !.queue = Tail(conn[d].queue)]
  BY Zenon, <1>1 DEF Recv
<1>3. Place(r, hist.asked[d])
  BY Zenon DEF Place
<1> QED
  BY ZenonT(60), <1>1, <1>2, <1>3 DEF ReasonFor, Excused, InTurn

\* The receiver's steps: what comes is what is expected, or there is an excuse.
LEMMA ReasonReceiver ==
    ASSUME ConnInv, RecvType, ReasonInv, NEW d \in Download,
           RecvResponse(d) \/ RecvChunk(d) \/ Verify(d)
    PROVE  ReasonFor(d)'
<1> DEFINE w == want[d]
           f == disk[recv[d].owner]
<1>0. /\ conn[d] \in Connection /\ recv[d] \in Receiver /\ w \in Content /\ ReasonFor(d)
      /\ recv \in [Download -> Receiver]
  BY Zenon DEF ConnInv, TypeOK, Connection, Message, Receiver, ReasonInv, RecvType
<1>1. want' = want /\ disk' = disk /\ recv[d].at \in {"response", "chunks", "verify"}
  BY Zenon DEF RecvResponse, RecvChunk, Verify
<1>2. Excused(d, recv[d].owner) \/ OnScript(conn[d], recv[d], w, f)
  BY ZenonT(40), <1>0, <1>1 DEF ReasonFor
<1>3. recv[d].cancelled => Excused(d, recv[d].owner)
  <2>1. recv[d].owner \in Owner
    BY Zenon, <1>1, RecvOwners
  <2> QED
    BY ZenonT(40), <1>0, <2>1 DEF ReasonFor
<1>4. ASSUME AttemptFails(d), Excused(d, recv[d].owner), hist' = hist PROVE ReasonFor(d)'
  BY ZenonT(40), <1>1, <1>4, ReasonFails DEF Excused
<1>40. ASSUME TempFileFails(d) PROVE ReasonFor(d)'
  <2>1. /\ hist'.excuse = hist.excuse \cup {<<d, recv[d].owner>>}
        /\ hist'.asked = hist.asked
    BY Zenon, <1>40, ExcuseAdds DEF TempFileFails, RecvType
  <2> QED
    BY ZenonT(40), <1>1, <1>40, <2>1, ReasonFails DEF TempFileFails
<1>5. conn[d].queue = <<>> /\ conn[d].at = "lost" => Excused(d, recv[d].owner)
  BY Zenon, <1>2 DEF OnScript
<1>6. CASE RecvResponse(d)
  <2>1. recv[d].at = "response"
    BY Zenon, <1>6 DEF RecvResponse
  <2>2. conn[d].queue # <<>> /\ ~ Excused(d, recv[d].owner)
        => /\ Received(d).type = "found"
           /\ OnScript([conn[d] EXCEPT !.queue = Tail(conn[d].queue)],
                       [recv[d] EXCEPT !.at = "chunks"], w, f)
    BY ZenonT(40), <1>0, <1>2, <2>1, ScriptAnswered DEF Received
  <2>3. CASE Recv(d, {"found"}, [recv[d] EXCEPT !.at = "chunks"]) /\ hist' = hist
    <3> DEFINE r == [recv[d] EXCEPT !.at = "chunks"]
    <3>1. /\ r.at = "chunks" /\ r.rest = recv[d].rest /\ r.owner = recv[d].owner
          /\ r.cancelled = recv[d].cancelled
      BY Zenon, <1>0 DEF Receiver
    <3>2. Recv(d, {"found"}, r) /\ conn[d].queue # <<>>
      BY ZenonT(40), <2>3 DEF Recv, Arrived
    <3>3. ~ Excused(d, recv[d].owner)
            => OnScript([conn[d] EXCEPT !.queue = Tail(conn[d].queue)], r, want[d], disk[recv[d].owner])
      BY ZenonT(40), <2>2, <3>2
    <3> HIDE DEF r
    <3> QED
      BY ZenonT(40), <1>1, <2>1, <3>1, <2>3, <3>2, <3>3, ReasonReceives
  <2>4. CASE RecvOther(d, {"found"}) /\ hist' = hist
    BY ZenonT(40), <1>4, <1>5, <2>2, <2>4 DEF RecvOther
  <2> QED
    BY ZenonT(40), <1>6, <1>40, <2>3, <2>4 DEF RecvResponse
<1>7. CASE RecvChunk(d)
  <2>1. recv[d].at = "chunks"
    BY Zenon, <1>7 DEF RecvChunk
  <2>2. conn[d].queue # <<>> /\ ~ Excused(d, recv[d].owner)
        => /\ Received(d).type \in {"block", "eof"}
           /\ Received(d).type = "block"
                => OnScript([conn[d] EXCEPT !.queue = Tail(conn[d].queue)],
                            [recv[d] EXCEPT !.data = recv[d].data \o Received(d).data], w, f)
           /\ Received(d).type = "eof"
                => OnScript([conn[d] EXCEPT !.queue = Tail(conn[d].queue)],
                            [recv[d] EXCEPT !.at = "verify"], w, f)
    BY ZenonT(40), <1>0, <1>2, <2>1, ScriptContinues DEF Received
  <2>3. CASE Recv(d, {"block"}, [recv[d] EXCEPT !.data = recv[d].data \o Received(d).data])
             /\ hist' = hist
    <3> DEFINE r == [recv[d] EXCEPT !.data = recv[d].data \o Received(d).data]
    <3>1. /\ r.at = "chunks" /\ r.rest = recv[d].rest /\ r.owner = recv[d].owner
          /\ r.cancelled = recv[d].cancelled
      BY ZenonT(40), <1>0, <2>1 DEF Receiver
    <3>2. Recv(d, {"block"}, r) /\ conn[d].queue # <<>> /\ Received(d).type = "block"
      BY Zenon, <2>3 DEF Recv, Arrived
    <3>3. ~ Excused(d, recv[d].owner)
            => OnScript([conn[d] EXCEPT !.queue = Tail(conn[d].queue)], r, want[d], disk[recv[d].owner])
      BY ZenonT(40), <2>2, <3>2
    <3> HIDE DEF r
    <3> QED
      BY ZenonT(40), <1>1, <2>1, <3>1, <2>3, <3>2, <3>3, ReasonReceives
  <2>4. CASE Recv(d, {"eof"}, [recv[d] EXCEPT !.at = "verify"]) /\ hist' = hist
    <3> DEFINE r == [recv[d] EXCEPT !.at = "verify"]
    <3>1. /\ r.at = "verify" /\ r.rest = recv[d].rest /\ r.owner = recv[d].owner
          /\ r.cancelled = recv[d].cancelled
      BY Zenon, <1>0 DEF Receiver
    <3>2. Recv(d, {"eof"}, r) /\ conn[d].queue # <<>> /\ Received(d).type = "eof"
      BY ZenonT(40), <2>4 DEF Recv, Arrived
    <3>3. ~ Excused(d, recv[d].owner)
            => OnScript([conn[d] EXCEPT !.queue = Tail(conn[d].queue)], r, want[d], disk[recv[d].owner])
      BY ZenonT(40), <2>2, <3>2
    <3> HIDE DEF r
    <3> QED
      BY ZenonT(40), <1>1, <2>1, <3>1, <2>4, <3>2, <3>3, ReasonReceives
  <2>5. CASE RecvOther(d, {"block", "eof"}) /\ hist' = hist
    BY ZenonT(40), <1>4, <1>5, <2>2, <2>5 DEF RecvOther
  <2>6. CASE recv[d].cancelled /\ AttemptFails(d) /\ hist' = hist
    BY ZenonT(40), <1>3, <1>4, <2>6
  <2> QED
    BY ZenonT(40), <1>7, <1>40, <2>3, <2>4, <2>5, <2>6 DEF RecvChunk
<1>8. CASE Verify(d)
  <2>1. recv[d].at = "verify"
    BY Zenon, <1>8 DEF Verify
  <2>2. ~ Excused(d, recv[d].owner) => recv[d].data = w
    BY ZenonT(40), <1>0, <1>2, <2>1, ScriptEnds
  <2>3. CASE /\ recv' = [recv EXCEPT ![d].at = "stat", ![d].path = want[d], ![d].data = <<>>]
             /\ hist' = Replaced(want[d], want[d])
    <3>0. hist'.excuse = hist.excuse /\ hist'.asked = hist.asked
      BY ZenonT(40), <2>3, ReplacedAdds DEF RecvType
    <3>1. /\ recv'[d].at = "stat" /\ recv'[d].rest = recv[d].rest
          /\ recv'[d].owner = recv[d].owner /\ recv'[d].cancelled = recv[d].cancelled
      BY ZenonT(40), <1>0, <2>3 DEF Receiver
    <3> QED
      BY ZenonT(40), <1>0, <2>1, <3>0, <3>1, ReasonMoves
  <2> QED
    BY ZenonT(40), <1>4, <1>40, <1>8, <2>2, <2>3 DEF Verify
<1> QED
  BY Zenon, <1>6, <1>7, <1>8

\* Every step of the system, for every download.
LEMMA ReasonStep == ConnInv /\ DirInv /\ ReasonInv /\ [Next]_vars => ReasonInv'
<1> SUFFICES ASSUME ConnInv, DirInv, ReasonInv, [Next]_vars PROVE ReasonInv'
  BY Zenon
<1>1. RecvType /\ HistShape
  BY Zenon DEF DirInv, RecvType
<1>2. /\ recv \in [Download -> Receiver] /\ conn \in [Download -> Connection]
      /\ \A d \in Download : ReasonFor(d)
  BY Zenon DEF ConnInv, TypeOK, Connection, Message, Receiver, ReasonInv
<1>3. /\ hist.excuse \subseteq hist'.excuse
      /\ \A d \in Download : hist'.asked[d] = hist.asked[d] \/ GetOwners(d)
  BY ZenonT(40), <1>1, <1>2, HistSteps
<1>4. want' = want
  BY ZenonT(40), DirSteps
<1> SUFFICES ASSUME NEW d \in Download PROVE ReasonFor(d)'
  BY Zenon, <1>3 DEF ReasonInv
<1>5. ASSUME conn'[d] = conn[d], recv'[d] = recv[d], disk' = disk, hist'.asked[d] = hist.asked[d]
      PROVE  ReasonFor(d)'
  BY ZenonT(40), <1>2, <1>3, <1>4, <1>5 DEF ReasonFor, Excused
<1>6. ASSUME NEW o \in Owner, OwnerRemove(o) \/ OwnerIndex(o) \/ \E c \in Content : OwnerWrite(o, c)
      PROVE  ReasonFor(d)'
  BY ZenonT(40), <1>1, <1>6, ReasonFolder
<1>7. CASE HandleRequest(d) \/ Broadcast(d) \/ ConnLost(d)
  BY ZenonT(40), <1>1, <1>7, ReasonSender
<1>8. CASE Cancel(d)
  BY ZenonT(40), <1>1, <1>8, ReasonCancel
<1>9. CASE GetOwners(d)
  BY ZenonT(40), <1>1, <1>9, ReasonGetOwners
<1>10. CASE TryOwner(d)
  BY Zenon, <1>1, <1>10, ReasonTryOwner
<1>11. CASE RecvResponse(d) \/ RecvChunk(d) \/ Verify(d)
  BY ZenonT(40), <1>1, <1>11, ReasonReceiver
<1>12. CASE StatTarget(d) \/ RenameTarget(d) \/ AddFile(d)
  <2>1. recv[d] \in Receiver /\ recv[d].at \in {"stat", "rename", "add"}
    BY ZenonT(40), <1>2, <1>12 DEF StatTarget, RenameTarget, AddFile
  <2>2. /\ recv'[d].at \in {"rename", "add", "ok"} /\ recv'[d].rest = recv[d].rest
        /\ recv'[d].owner = recv[d].owner /\ recv'[d].cancelled = recv[d].cancelled
    BY SMTT(30), <1>2, <1>12, <2>1 DEF StatTarget, RenameTarget, AddFile, Receiver
  <2>3. hist'.asked[d] = hist.asked[d]
    BY ZenonT(40), <1>3, <2>1 DEF GetOwners
  <2> QED
    BY ZenonT(40), <1>2, <1>3, <2>1, <2>2, <2>3, ReasonMoves
<1>13. ASSUME NEW e \in Download, e # d, HandleRequest(e) \/ Broadcast(e) \/ ConnLost(e) \/ Cancel(e)
                                         \/ GetOwners(e) \/ DownloadStep(e)
       PROVE  ReasonFor(d)'
  <2>1. disk' = disk /\ conn'[d] = conn[d] /\ recv'[d] = recv[d]
    BY ZenonT(40), <1>2, <1>13, AnotherMoves
  <2>2. hist'.asked[d] = hist.asked[d]
    <3>1. CASE GetOwners(d)
      <4>1. recv[d].at = "idle" /\ recv'[d].at # "idle"
        BY SMTT(30), <1>2, <3>1 DEF GetOwners, Receiver
      <4> QED
        BY ZenonT(40), <2>1, <4>1
    <3> QED
      BY ZenonT(40), <1>3, <3>1
  <2> QED
    BY ZenonT(40), <1>5, <2>1, <2>2
<1>14. CASE UNCHANGED vars
  BY ZenonT(40), <1>5, <1>14 DEF vars
<1>15. ASSUME NEW e \in Download, HandleRequest(e) \/ Broadcast(e) \/ ConnLost(e) \/ Cancel(e)
                                  \/ GetOwners(e) \/ DownloadStep(e)
       PROVE  ReasonFor(d)'
  BY ZenonT(40), <1>7, <1>8, <1>9, <1>10, <1>11, <1>12, <1>13, <1>15 DEF DownloadStep
<1> QED
  BY ZenonT(40), <1>6, <1>14, <1>15 DEF Next

\* Nobody has been asked at first.
LEMMA ReasonInit == Init => ReasonInv
<1> SUFFICES ASSUME Init PROVE ReasonInv
  BY Zenon
<1>1. hist.asked = [d \in Download |-> {}] /\ recv = [d \in Download |-> NoRecv]
  BY Zenon DEF Init
<1>2. NoRecv.at = "idle" /\ NoRecv.data = <<>> /\ NoRecv.cancelled = FALSE
  BY Zenon DEF NoRecv
<1> QED
  BY ZenonT(40), <1>1, <1>2 DEF ReasonInv, ReasonFor, Place

\* Download returns an error only after every owner it asked failed it for a
\* reason, for any number of owners, downloads, changes and faults.
THEOREM FailsWithReason == Spec => []FailsOnlyWithReason
<1>1. ReasonInv => FailsOnlyWithReason
  <2> SUFFICES ASSUME ReasonInv, NEW d \in Download, recv[d].at = "failed", NEW o \in hist.asked[d]
               PROVE  <<d, o>> \in hist.excuse
    BY Zenon DEF FailsOnlyWithReason
  <2>1. ReasonFor(d)
    BY Zenon DEF ReasonInv
  <2>2. recv[d].rest = <<>>
    BY ZenonT(40), <2>1 DEF ReasonFor, Place
  <2>3. ~ InTurn(recv[d], o)
    BY <2>2 DEF InTurn
  <2> QED
    BY ZenonT(40), <2>1, <2>3 DEF ReasonFor, Excused
<1> QED
  BY <1>1, ReasonInit, ReasonStep, ConnInvariant, PTL DEF Spec
=============================================================================
