---------------------------- MODULE WatcherProofs ----------------------------
(***************************************************************************)
(* What the watcher keeps for any folder, any number of contents, changes, *)
(* restarts and overlapping runs of indexFile.                             *)
(***************************************************************************)
EXTENDS Watcher, TLAPS

(***************************************************************************)
(* Types, and what goes with each place in the code.                       *)
(***************************************************************************)

\* Before fsw.Add there are no events and no timers, and only Run's own goroutine
\* indexes; afterwards it does not.
Asleep ==
    /\ phase # "watch" =>
         /\ events = <<>> /\ loop = IdleLoop
         /\ \A p \in Path : timer[p] = "none" /\ orphans[p] = 0
         /\ \A r \in Run : run[r] = IdleRun
    /\ phase # "scan" => run[Scanner] = IdleRun
    /\ run[Scanner].at # "start"

TypeInv == Shape /\ RunOK /\ LoopOK /\ Asleep

\* A run moves on in its code.
LEMMA RunMoves ==
    ASSUME NEW places, NEW runs \in [Worker -> Position(places)], NEW r \in Worker,
           NEW place \in places
    PROVE  [runs EXCEPT ![r].at = place] \in [Worker -> Position(places)]
BY Zenon DEF Position

\* PutLocal takes a store to a store.
LEMMA PutLocalType ==
    ASSUME NEW s \in Store, NEW f \in File, NEW p \in Path
    PROVE  PutLocal(s, Self, f, p) \in Store
BY Zenon, WatcherAssumption DEF PutLocal, AddAvailability, Store, Entry, EntryState

\* So does DeleteLocal.
LEMMA DeleteLocalType ==
    ASSUME NEW s \in Store, NEW f \in File
    PROVE  DeleteLocal(s, Self, f) \in Store
BY WatcherAssumption DEF DeleteLocal, RemoveAvailability, Store, Entry, EntryState

\* A daemon that has just been started.
LEMMA TypeInit == Init => TypeInv
<1> SUFFICES ASSUME Init PROVE TypeInv
  BY Zenon
<1>1. EmptyStore \in Store
  BY Zenon DEF EmptyStore, NoEntry, Store, Entry, EntryState
<1>2. hist \in [homes : [File -> SUBSET Path], unseen : SUBSET Path,
                 muddled : SUBSET Path, silent : BOOLEAN]
  BY Zenon DEF Init
<1>3. IdleRun \in Position({"free", "start", "hash", "put", "add", "notify"})
  BY Zenon DEF IdleRun, Position
<1>4. IdleLoop \in Position({"select", "lookup", "delete", "remove", "notify"})
  BY Zenon DEF IdleLoop, Position
<1>5. Shape
  BY <1>1, <1>2, <1>3, <1>4, WatcherAssumption DEF Init, Shape
<1>6. RunOK /\ LoopOK /\ Asleep
  BY Zenon DEF Init, RunOK, LoopOK, Asleep, IdleRun, IdleLoop, Worker
<1> QED
  BY Zenon, <1>5, <1>6 DEF TypeInv

\* The user's changes keep the types.
LEMMA ChangedType ==
    ASSUME TypeInv, NEW new \in [Path -> File \cup {Absent}],
           NEW evs \in Seq({"write", "remove"} \X Path), Changed(new, evs)
    PROVE  TypeInv'
<1>1. budget' \in [changes : 0..MaxChanges, restarts : 0..MaxRestarts]
  <2>1. budget.changes \in 0..MaxChanges /\ budget.changes > 0
    BY Zenon DEF Changed, TypeInv, Shape
  <2>2. budget.changes - 1 \in 0..MaxChanges
    BY <2>1, WatcherAssumption
  <2> QED
    BY Zenon, <2>2 DEF Changed, TypeInv, Shape
<1>2. events' \in Seq({"write", "remove"} \X Path)
  BY DEF Changed, TypeInv, Shape
<1>3. hist' \in [homes : [File -> SUBSET Path], unseen : SUBSET Path,
                  muddled : SUBSET Path, silent : BOOLEAN]
  BY Zenon DEF Changed, TypeInv, Shape
<1>4. Shape'
  BY Zenon, <1>1, <1>2, <1>3 DEF Changed, TypeInv, Shape, Position
<1>5. RunOK' /\ LoopOK' /\ Asleep'
  BY Zenon DEF Changed, TypeInv, RunOK, LoopOK, Asleep, IdleRun, IdleLoop, Worker
<1> QED
  BY Zenon, <1>4, <1>5 DEF TypeInv

\* A step of indexFile keeps the types.
LEMMA IndexFileType ==
    ASSUME TypeInv, NEW r \in Worker, IndexFile(r)
    PROVE  TypeInv'
<1> USE DEF TypeInv, Shape, RunOK, LoopOK, Asleep, Position, IdleRun, Worker
<1>1. CASE HashFile(r)
  BY <1>1 DEF HashFile
<1>2. CASE PutEntry(r)
  <2>1. store' \in Store
    BY Zenon, <1>2, PutLocalType DEF PutEntry
  <2> QED
    BY <1>2, <2>1 DEF PutEntry
<1>3. CASE AddToIndex(r)
  <2>1. UNCHANGED <<disk, store, phase, walk, events, loop, timer, orphans, told, budget>>
    BY Zenon, <1>3 DEF AddToIndex
  <2>2. run[r].at = "add" /\ run[r].path \in Path
    BY Zenon, <1>3 DEF AddToIndex
  <2>3. /\ index' \in [File -> Path \cup {NoPath}]
        /\ hist' \in [homes : [File -> SUBSET Path], unseen : SUBSET Path,
                      muddled : SUBSET Path, silent : BOOLEAN]
    <3>1. CASE disk[run[r].path] # Absent
      <4>1. index' = [index EXCEPT ![disk[run[r].path]] = run[r].path] /\ hist' = hist
        BY Zenon, <1>3, <3>1 DEF AddToIndex
      <4> QED
        BY Zenon, <2>2, <4>1
    <3>2. CASE disk[run[r].path] = Absent
      <4>1. index' = index /\ hist' = [hist EXCEPT !.silent = TRUE]
        BY Zenon, <1>3, <3>2 DEF AddToIndex
      <4> QED
        BY Zenon, <4>1
    <3> QED
      BY Zenon, <3>1, <3>2
  <2>4. run' = [run EXCEPT ![r].at = "notify"] \/ run' = [run EXCEPT ![r] = IdleRun]
    BY Zenon, <1>3 DEF AddToIndex
  <2>5. run' \in [Worker -> Position({"free", "start", "hash", "put", "add", "notify"})]
    <3>1. [run EXCEPT ![r].at = "notify"]
             \in [Worker -> Position({"free", "start", "hash", "put", "add", "notify"})]
      <4> HIDE DEF TypeInv, RunOK, LoopOK, Asleep, Position, IdleRun, Worker
      <4>1. run \in [Worker -> Position({"free", "start", "hash", "put", "add", "notify"})]
        BY Zenon DEF TypeInv, Shape, Worker
      <4> QED
        BY Zenon, <4>1, RunMoves
    <3>2. [run EXCEPT ![r] = IdleRun]
             \in [Worker -> Position({"free", "start", "hash", "put", "add", "notify"})]
      BY Zenon
    <3> QED
      BY ZenonT(40), <2>4, <3>1, <3>2
  <2>6. Shape'
    BY Zenon, <2>1, <2>3, <2>5
  <2>7. RunOK'
    <3>1. CASE run' = [run EXCEPT ![r].at = "notify"]
      BY <2>2, <3>1
    <3>2. CASE run' = [run EXCEPT ![r] = IdleRun]
      BY Zenon, <2>2, <3>2
    <3> QED
      BY Zenon, <2>4, <3>1, <3>2
  <2>8. LoopOK' /\ Asleep'
    BY <2>1, <2>2, <2>4
  <2> QED
    BY Zenon, <2>6, <2>7, <2>8
<1>4. CASE NotifyChange(r)
  <2>1. hist' \in [homes : [File -> SUBSET Path], unseen : SUBSET Path,
                   muddled : SUBSET Path, silent : BOOLEAN]
    BY Zenon, <1>4 DEF NotifyChange
  <2> QED
    BY ZenonT(40), <1>4, <2>1 DEF NotifyChange, Local, ListByOwner
<1> QED
  BY Zenon, <1>1, <1>2, <1>3, <1>4 DEF IndexFile

\* An overflow takes the newest event.
LEMMA EventLost ==
    ASSUME TypeInv, LoseEvent
    PROVE  \E t \in {"write", "remove"}, q \in Path :
             /\ events[Len(events)] = <<t, q>> /\ events = Append(events', <<t, q>>)
             /\ events' \in Seq({"write", "remove"} \X Path)
             /\ Len(events) \in Nat \ {0} /\ Len(events') = Len(events) - 1
             /\ \A i \in 1..Len(events') : events'[i] = events[i]
             /\ hist' = [hist EXCEPT !.unseen = @ \cup {q}, !.muddled = @ \cup {q}]
             /\ hist'.unseen = hist.unseen \cup {q} /\ hist'.muddled = hist.muddled \cup {q}
             /\ hist'.homes = hist.homes /\ hist'.silent = hist.silent
<1>1. /\ events \in Seq({"write", "remove"} \X Path) /\ events # <<>>
      /\ events' = SubSeq(events, 1, Len(events) - 1)
      /\ hist' = [hist EXCEPT !.unseen = @ \cup {events[Len(events)][2]},
                              !.muddled = @ \cup {events[Len(events)][2]}]
  BY Zenon DEF LoseEvent, TypeInv, Shape
<1>2. /\ Len(events) \in Nat \ {0} /\ Len(events') = Len(events) - 1
      /\ \A i \in 1..Len(events') : events'[i] = events[i]
      /\ events' \in Seq({"write", "remove"} \X Path)
  <2> DEFINE S == {"write", "remove"} \X Path
  <2>1. events \in Seq(S)
    BY Zenon, <1>1
  <2> HIDE DEF S
  <2>2. Len(events) \in Nat \ {0}
    BY SMT, <1>1, <2>1
  <2>3. SubSeq(events, 1, Len(events) - 1) \in Seq(S)
    BY SMT, <2>1, <2>2
  <2>4. Len(SubSeq(events, 1, Len(events) - 1)) = Len(events) - 1
    BY SMT, <2>1, <2>2
  <2>5. \A i \in 1..(Len(events) - 1) : SubSeq(events, 1, Len(events) - 1)[i] = events[i]
    BY SMT, <2>1, <2>2
  <2> QED
    BY Zenon, <1>1, <2>2, <2>3, <2>4, <2>5 DEF S
<1>3. PICK t \in {"write", "remove"}, q \in Path : events[Len(events)] = <<t, q>>
  BY <1>1, <1>2
<1>4. events = Append(events', <<t, q>>)
  BY <1>1, <1>2, <1>3
<1>5. events[Len(events)][2] = q
  BY <1>3
<1>6. hist' = [hist EXCEPT !.unseen = @ \cup {q}, !.muddled = @ \cup {q}]
  BY Zenon, <1>1, <1>5
<1>7. /\ hist'.unseen = hist.unseen \cup {q} /\ hist'.muddled = hist.muddled \cup {q}
      /\ hist'.homes = hist.homes /\ hist'.silent = hist.silent
  BY Zenon, <1>6 DEF TypeInv, Shape
<1> QED
  BY Zenon, <1>1, <1>2, <1>3, <1>4, <1>6, <1>7

\* Every action keeps the types.
LEMMA TypeStep == TypeInv /\ [Next]_vars => TypeInv'
<1> SUFFICES ASSUME TypeInv, [Next]_vars PROVE TypeInv'
  BY Zenon
<1>1. CASE UNCHANGED vars
  BY Zenon, <1>1 DEF vars, TypeInv, Shape, RunOK, LoopOK, Asleep
<1>2. ASSUME NEW p \in Path, NEW f \in File, WriteFile(p, f) PROVE TypeInv'
  <2>1. [disk EXCEPT ![p] = f] \in [Path -> File \cup {Absent}]
    BY Zenon DEF TypeInv, Shape
  <2>2. <<<<"write", p>>>> \in Seq({"write", "remove"} \X Path)
    OBVIOUS
  <2> QED
    BY Zenon, <1>2, <2>1, <2>2, ChangedType DEF WriteFile
<1>3. ASSUME NEW p \in Path, RemoveFile(p) PROVE TypeInv'
  <2>1. [disk EXCEPT ![p] = Absent] \in [Path -> File \cup {Absent}]
    BY Zenon DEF TypeInv, Shape
  <2>2. <<<<"remove", p>>>> \in Seq({"write", "remove"} \X Path)
    OBVIOUS
  <2> QED
    BY Zenon, <1>3, <2>1, <2>2, ChangedType DEF RemoveFile
<1>4. ASSUME NEW p \in Path, NEW q \in Path, RenameFile(p, q) PROVE TypeInv'
  <2>1. [disk EXCEPT ![q] = disk[p], ![p] = Absent] \in [Path -> File \cup {Absent}]
    BY Zenon DEF TypeInv, Shape
  <2>2. <<<<"remove", p>>, <<"write", q>>>> \in Seq({"write", "remove"} \X Path)
    OBVIOUS
  <2> QED
    BY Zenon, <1>4, <2>1, <2>2, ChangedType DEF RenameFile
<1>5. ASSUME NEW r \in Worker, IndexFile(r) PROVE TypeInv'
  BY Zenon, <1>5, IndexFileType
<1>17. CASE LoseEvent
  <2>1. events' \in Seq({"write", "remove"} \X Path) /\ phase' = "watch" /\ run'[Scanner] = run[Scanner]
    BY Zenon, <1>17, EventLost DEF LoseEvent
  <2>2. hist' \in [homes : [File -> SUBSET Path], unseen : SUBSET Path,
                   muddled : SUBSET Path, silent : BOOLEAN]
    <3>1. PICK q \in Path : hist' = [hist EXCEPT !.unseen = @ \cup {q}, !.muddled = @ \cup {q}]
      BY Zenon, <1>17, EventLost
    <3> QED
      BY Zenon, <3>1 DEF TypeInv, Shape
  <2>3. Shape'
    BY Zenon, <1>17, <2>1, <2>2 DEF LoseEvent, TypeInv, Shape
  <2> QED
    BY Zenon, <1>17, <2>1, <2>3 DEF LoseEvent, TypeInv, RunOK, LoopOK, Asleep
<1> USE DEF TypeInv, Shape, RunOK, LoopOK, Asleep, Position, IdleRun, IdleLoop, Worker
<1>6. ASSUME NEW p \in Path, IndexScan(p) PROVE TypeInv'
  BY Zenon, <1>6 DEF IndexScan
<1>7. ASSUME NEW p \in Path, ScanFile(p) PROVE TypeInv'
  <2>1. run' \in [Worker -> Position({"free", "start", "hash", "put", "add", "notify"})]
    BY Zenon, <1>7 DEF ScanFile
  <2>2. Shape'
    BY Zenon, <1>7, <2>1 DEF ScanFile
  <2>3. RunOK'
    BY Zenon, <1>7 DEF ScanFile
  <2>4. LoopOK' /\ Asleep'
    BY ZenonT(60), <1>7, WatcherAssumption DEF ScanFile
  <2> QED
    BY Zenon, <2>2, <2>3, <2>4
<1>8. CASE NextPhase
  BY ZenonT(40), <1>8 DEF NextPhase
<1>9. CASE Restart
  <2>1. budget' \in [changes : 0..MaxChanges, restarts : 0..MaxRestarts]
    BY SMTT(30), <1>9, WatcherAssumption DEF Restart
  <2>2. hist' \in [homes : [File -> SUBSET Path], unseen : SUBSET Path,
                   muddled : SUBSET Path, silent : BOOLEAN]
    BY Zenon, <1>9 DEF Restart
  <2> QED
    BY <1>9, <2>1, <2>2 DEF Restart, Local, ListByOwner
<1>10. CASE HandleEvent
  <2>0. PICK t \in {"write", "remove"}, p \in Path : Head(events) = <<t, p>>
    BY <1>10 DEF HandleEvent
  <2>1. events' \in Seq({"write", "remove"} \X Path)
    BY <1>10 DEF HandleEvent
  <2>2. CASE t = "write"
    <3>1. timer' = [timer EXCEPT ![p] = "armed"] /\ UNCHANGED <<loop, hist>>
      BY <1>10, <2>0, <2>2 DEF HandleEvent, Schedule
    <3>2. Shape'
      BY Zenon, <1>10, <2>1, <3>1 DEF HandleEvent
    <3> QED
      BY Zenon, <1>10, <3>1, <3>2 DEF HandleEvent
  <2>3. CASE t = "remove"
    <3>1. /\ timer' = [timer EXCEPT ![p] = "none"]
          /\ loop' = [at |-> "lookup", path |-> p, file |-> Absent]
          /\ hist' = [hist EXCEPT !.muddled = IF InFlight(p) THEN @ \cup {p} ELSE @]
      BY <1>10, <2>0, <2>3 DEF HandleEvent
    <3>2. hist' \in [homes : [File -> SUBSET Path], unseen : SUBSET Path,
                     muddled : SUBSET Path, silent : BOOLEAN]
      BY ZenonT(60), <3>1
    <3>3. Shape'
      BY Zenon, <1>10, <2>1, <3>1, <3>2 DEF HandleEvent
    <3> QED
      BY ZenonT(40), <1>10, <3>1, <3>3 DEF HandleEvent
  <2> QED
    BY Zenon, <2>2, <2>3
<1>11. CASE RemoveLookup
  <2>1. CASE loop' = IdleLoop
    BY Zenon, <1>11, <2>1 DEF RemoveLookup
  <2>2. ASSUME NEW f \in File, loop' = [loop EXCEPT !.at = "delete", !.file = f]
        PROVE  TypeInv'
    <3>1. loop' \in Position({"select", "lookup", "delete", "remove", "notify"})
      BY Zenon, <2>2
    <3>2. Shape'
      BY Zenon, <1>11, <3>1 DEF RemoveLookup
    <3>3. loop # IdleLoop
      <4>1. loop.at = "lookup"
        BY Zenon, <1>11 DEF RemoveLookup
      <4>2. IdleLoop.at = "select"
        BY Zenon
      <4> QED
        BY Zenon, <4>1, <4>2
    <3>5. RunOK' /\ Asleep'
      BY Zenon, <1>11, <3>3 DEF RemoveLookup
    <3>4. LoopOK'
      BY Zenon, <1>11, <2>2 DEF RemoveLookup
    <3> QED
      BY Zenon, <3>2, <3>4, <3>5
  <2> QED
    BY Zenon, <1>11, <2>1, <2>2 DEF RemoveLookup, LocalAtPath, ListByOwner
<1>12. CASE RemoveDelete
  <2>1. store' \in Store
    BY Zenon, <1>12, DeleteLocalType DEF RemoveDelete
  <2>a. Shape'
    BY Zenon, <1>12, <2>1 DEF RemoveDelete
  <2>b. RunOK'
    BY Zenon, <1>12, <2>1 DEF RemoveDelete
  <2>c. LoopOK'
    BY Zenon, <1>12, <2>1 DEF RemoveDelete
  <2>d. Asleep'
    BY <1>12, <2>1 DEF RemoveDelete
  <2> QED
    BY Zenon, <2>a, <2>b, <2>c, <2>d
<1>13. CASE RemoveIndex
  <2>a. Shape'
    BY Zenon, <1>13 DEF RemoveIndex
  <2>b. RunOK'
    BY Zenon, <1>13 DEF RemoveIndex
  <2>c. LoopOK'
    BY Zenon, <1>13 DEF RemoveIndex
  <2>d. Asleep'
    BY <1>13 DEF RemoveIndex
  <2> QED
    BY Zenon, <2>a, <2>b, <2>c, <2>d
<1>14. CASE RemoveNotify
  <2>1. hist' \in [homes : [File -> SUBSET Path], unseen : SUBSET Path,
                   muddled : SUBSET Path, silent : BOOLEAN]
    BY Zenon, <1>14 DEF RemoveNotify
  <2> QED
    BY Zenon, <1>14, <2>1 DEF RemoveNotify, Local, ListByOwner
<1>15. ASSUME NEW p \in Path, NEW r \in Run, TimerExpires(p, r) PROVE TypeInv'
  <2>1. run' \in [Worker -> Position({"free", "start", "hash", "put", "add", "notify"})]
    BY Zenon, <1>15 DEF TimerExpires
  <2>2. timer' \in [Path -> {"none", "armed", "expired"}] /\ orphans' \in [Path -> Nat]
    <3>1. orphans[p] \in Nat /\ (orphans[p] > 0 => orphans[p] - 1 \in Nat)
      OBVIOUS
    <3> QED
      <4>1. CASE timer' = [timer EXCEPT ![p] = "expired"] /\ UNCHANGED orphans
        BY Zenon, <4>1
      <4>2. CASE /\ orphans[p] > 0 /\ UNCHANGED timer
                 /\ orphans' = [orphans EXCEPT ![p] = @ - 1]
        BY Zenon, <4>2, <3>1
      <4> QED
        BY Zenon, <1>15, <4>1, <4>2 DEF TimerExpires
  <2>3. Shape'
    BY Zenon, <1>15, <2>1, <2>2 DEF TimerExpires
  <2> QED
    BY <1>15, <2>3, WatcherAssumption DEF TimerExpires
<1>16. ASSUME NEW r \in Run, TimerDeletes(r) PROVE TypeInv'
  <2>1. run' \in [Worker -> Position({"free", "start", "hash", "put", "add", "notify"})]
    BY ZenonT(60), <1>16 DEF TimerDeletes
  <2>2. timer' \in [Path -> {"none", "armed", "expired"}] /\ orphans' \in [Path -> Nat]
    BY SMTT(30), <1>16 DEF TimerDeletes
  <2>3. Shape'
    BY Zenon, <1>16, <2>1, <2>2 DEF TimerDeletes
  <2> QED
    BY <1>16, <2>3, WatcherAssumption DEF TimerDeletes
<1> QED
  BY Zenon, <1>1, <1>2, <1>3, <1>4, <1>5, <1>6, <1>7, <1>8, <1>9, <1>10, <1>11, <1>12, <1>13,
     <1>14, <1>15, <1>16, <1>17 DEF Next, Worker

(***************************************************************************)
(* Changes are announced.                                                  *)
(***************************************************************************)

\* Someone who has changed the catalog is still to call onChange.
WillNotify ==
    \/ loop.at \in {"remove", "notify"}
    \/ \E r \in Worker : run[r].at \in {"add", "notify"}

Announced == told = Local \/ hist.silent \/ WillNotify

\* Nobody is told at first, and there is nothing to tell.
LEMMA AnnouncedInit == Init => Announced
BY WatcherAssumption DEF Init, Announced, Local, ListByOwner, EmptyStore, NoEntry

\* Whoever changes the catalog is to call onChange, and a call covers every change
\* made before it.
LEMMA AnnouncedStep == TypeInv /\ Announced /\ [Next]_vars => Announced'
<1> SUFFICES ASSUME TypeInv, Announced, [Next]_vars PROVE Announced'
  BY Zenon
<1>0. run \in [Worker -> Position({"free", "start", "hash", "put", "add", "notify"})]
  BY Zenon DEF TypeInv, Shape, Worker
<1>1. CASE UNCHANGED vars
  BY Zenon, <1>1 DEF vars, Announced, WillNotify, Local
<1>2. ASSUME NEW new, NEW evs, Changed(new, evs) PROVE Announced'
  <2>1. hist'.silent = hist.silent
    BY Zenon, <1>2 DEF Changed, TypeInv, Shape
  <2> QED
    BY Zenon, <1>2, <2>1 DEF Changed, Announced, WillNotify, Local
<1>3. ASSUME NEW p \in Path, NEW f \in File, WriteFile(p, f) PROVE Announced'
  BY Zenon, <1>2, <1>3 DEF WriteFile
<1>4. ASSUME NEW p \in Path, RemoveFile(p) PROVE Announced'
  BY Zenon, <1>2, <1>4 DEF RemoveFile
<1>5. ASSUME NEW p \in Path, NEW q \in Path, RenameFile(p, q) PROVE Announced'
  BY Zenon, <1>2, <1>5 DEF RenameFile
<1>6. ASSUME NEW r \in Worker, HashFile(r) PROVE Announced'
  BY Zenon, <1>0, <1>6 DEF HashFile, Announced, WillNotify, Local
<1>7. ASSUME NEW r \in Worker, PutEntry(r) PROVE Announced'
  <2>1. run'[r].at = "add"
    BY Zenon, <1>0, <1>7 DEF PutEntry, Position
  <2> QED
    BY Zenon, <2>1 DEF Announced, WillNotify
<1>8. ASSUME NEW r \in Worker, AddToIndex(r) PROVE Announced'
  <2>1. CASE disk[run[r].path] # Absent
    <3>1. run'[r].at = "notify"
      BY ZenonT(40), <1>0, <1>8, <2>1 DEF AddToIndex, Position
    <3> QED
      BY Zenon, <3>1 DEF Announced, WillNotify
  <2>2. CASE disk[run[r].path] = Absent
    <3>1. hist'.silent
      BY Zenon, <1>8, <2>2 DEF AddToIndex, TypeInv, Shape
    <3> QED
      BY Zenon, <3>1 DEF Announced
  <2> QED
    BY Zenon, <2>1, <2>2
<1>9. ASSUME NEW r \in Worker, NotifyChange(r) PROVE Announced'
  BY Zenon, <1>9 DEF NotifyChange, Announced, Local
<1>10. ASSUME NEW p \in Path, IndexScan(p) PROVE Announced'
  BY Zenon, <1>10 DEF IndexScan, Announced, WillNotify, Local
<1>11. ASSUME NEW p \in Path, ScanFile(p) PROVE Announced'
  BY Zenon, <1>0, <1>11 DEF ScanFile, Announced, WillNotify, Local, Worker
<1>12. CASE NextPhase
  BY Zenon, <1>12 DEF NextPhase, Announced, WillNotify, Local
<1>13. CASE Restart
  BY Zenon, <1>13 DEF Restart, Announced, Local
<1>14. CASE HandleEvent
  <2>1. hist'.silent = hist.silent
    BY Zenon, <1>14 DEF HandleEvent, TypeInv, Shape
  <2>2. loop.at = "select" /\ UNCHANGED <<run, told, store>>
    BY Zenon, <1>14 DEF HandleEvent
  <2> QED
    BY Zenon, <2>1, <2>2 DEF Announced, WillNotify, Local
<1>15. CASE RemoveLookup
  BY Zenon, <1>15 DEF RemoveLookup, Announced, WillNotify, Local
<1>16. CASE RemoveDelete
  <2>1. loop'.at = "remove"
    BY Zenon, <1>16 DEF RemoveDelete, TypeInv, Shape, Position
  <2> QED
    BY Zenon, <2>1 DEF Announced, WillNotify
<1>17. CASE RemoveIndex
  <2>1. loop'.at = "notify"
    BY Zenon, <1>17 DEF RemoveIndex, TypeInv, Shape, Position
  <2> QED
    BY Zenon, <2>1 DEF Announced, WillNotify
<1>18. CASE RemoveNotify
  BY Zenon, <1>18 DEF RemoveNotify, Announced, Local
<1>19. ASSUME NEW p \in Path, NEW r \in Run, TimerExpires(p, r) PROVE Announced'
  <2>1. \A s \in Worker : run[s].at \in {"add", "notify"} => run'[s] = run[s]
    BY Zenon, <1>0, <1>19 DEF TimerExpires, Worker
  <2> QED
    BY Zenon, <1>19, <2>1 DEF TimerExpires, Announced, WillNotify, Local
<1>20. ASSUME NEW r \in Run, TimerDeletes(r) PROVE Announced'
  <2>1. \A s \in Worker : run[s].at \in {"add", "notify"} => run'[s] = run[s]
    BY Zenon, <1>0, <1>20 DEF TimerDeletes, Worker
  <2> QED
    BY Zenon, <1>20, <2>1 DEF TimerDeletes, Announced, WillNotify, Local
<1>21. CASE LoseEvent
  <2>1. hist'.silent = hist.silent
    BY Zenon, <1>21, EventLost
  <2> QED
    BY Zenon, <1>21, <2>1 DEF LoseEvent, Announced, WillNotify, Local
<1> QED
  BY Zenon, <1>1, <1>3, <1>4, <1>5, <1>6, <1>7, <1>8, <1>9, <1>10, <1>11, <1>12, <1>13, <1>14,
     <1>15, <1>16, <1>17, <1>18, <1>19, <1>20, <1>21 DEF Next, IndexFile, Worker

\* At rest nobody is left who will notify.
LEMMA AnnouncedAtRest == Announced => ChangesAreAnnounced
BY DEF Announced, WillNotify, ChangesAreAnnounced, Quiet, IdleRun, IdleLoop, Worker

(***************************************************************************)
(* Homes.                                                                  *)
(***************************************************************************)
Row(f, p) == store.entries[Self][f].state = "live" /\ store.entries[Self][f].path = p

\* Wherever a content is taken to be, it once was.
HomesInv ==
    /\ \A p \in Path : disk[p] # Absent => p \in hist.homes[disk[p]]
    /\ \A r \in Worker : run[r].at \in {"put", "add", "notify"}
                            => run[r].path \in hist.homes[run[r].file]
    /\ \A f \in File : index[f] # NoPath => index[f] \in hist.homes[f]
    /\ \A f \in File : store.entries[Self][f].state = "live"
                            => store.entries[Self][f].path \in hist.homes[f]
    /\ loop.at \in {"delete", "remove", "notify"} => loop.path \in hist.homes[loop.file]

\* PutLocal gives the file the path of the run and leaves the other rows alone.
LEMMA PutRow ==
    ASSUME TypeInv, NEW r \in Worker, PutEntry(r)
    PROVE  /\ store'.entries[Self][run[r].file] = [state |-> "live", path |-> run[r].path]
           /\ \A f \in File \ {run[r].file} :
                store'.entries[Self][f] = store.entries[Self][f]
<1>1. store.entries \in [Node -> [File -> Entry]] /\ run[r].file \in File /\ Self \in Node
  BY Zenon, WatcherAssumption DEF TypeInv, Shape, RunOK, PutEntry, Store
<1>2. store'.entries = [store.entries EXCEPT
                          ![Self][run[r].file] = [state |-> "live", path |-> run[r].path]]
  BY Zenon DEF PutEntry, PutLocal
<1> QED
  BY ZenonT(60), <1>1, <1>2

\* DeleteLocal leaves no live row of the file, and the other rows alone.
LEMMA DeleteRow ==
    ASSUME TypeInv, RemoveDelete
    PROVE  /\ store'.entries[Self][loop.file].state # "live"
           /\ \A f \in File \ {loop.file} :
                store'.entries[Self][f] = store.entries[Self][f]
<1>1. store.entries \in [Node -> [File -> Entry]] /\ loop.file \in File /\ Self \in Node
  BY Zenon, WatcherAssumption DEF TypeInv, Shape, LoopOK, RemoveDelete, Store
<1>2. CASE store.entries[Self][loop.file].state = "none"
  BY Zenon, <1>1, <1>2 DEF RemoveDelete, DeleteLocal
<1>3. CASE store.entries[Self][loop.file].state # "none"
  <2>1. store'.entries = [store.entries EXCEPT ![Self][loop.file] =
                            [state |-> "deleted", path |-> @.path]]
    BY Zenon, <1>3 DEF RemoveDelete, DeleteLocal
  <2> QED
    BY <1>1, <2>1
<1> QED
  BY Zenon, <1>2, <1>3

\* LookupLocalByPath ends handleRemove, or finds a row with the path.
LEMMA LookupFinds ==
    ASSUME TypeInv, RemoveLookup
    PROVE  \/ loop' = IdleLoop /\ \A f \in File : ~ Row(f, loop.path)
           \/ \E f \in File : /\ Row(f, loop.path)
                              /\ loop' = [at |-> "delete", path |-> loop.path, file |-> f]
<1>1. CASE loop' = IdleLoop /\ LocalAtPath(store, Self, loop.path) = {}
  BY Zenon, <1>1 DEF LocalAtPath, ListByOwner, Row
<1>2. ASSUME NEW f \in LocalAtPath(store, Self, loop.path),
             loop' = [loop EXCEPT !.at = "delete", !.file = f]
      PROVE  /\ f \in File /\ Row(f, loop.path)
             /\ loop' = [at |-> "delete", path |-> loop.path, file |-> f]
  <2>1. loop \in Position({"select", "lookup", "delete", "remove", "notify"})
    BY Zenon DEF TypeInv, Shape
  <2>2. loop' = [at |-> "delete", path |-> loop.path, file |-> f]
    BY Zenon, <1>2, <2>1 DEF Position
  <2> QED
    BY Zenon, <2>2 DEF LocalAtPath, ListByOwner, Row
<1> QED
  BY Zenon, <1>1, <1>2 DEF RemoveLookup

\* The first walk finds the files where they are.
LEMMA HomesInit == Init => HomesInv
<1> SUFFICES ASSUME Init PROVE HomesInv
  BY Zenon
<1>1. \A f \in File : index[f] = NoPath /\ store.entries[Self][f].state = "none"
  BY Zenon, WatcherAssumption DEF Init, EmptyStore, NoEntry
<1>2. \A p \in Path : disk[p] # Absent => p \in hist.homes[disk[p]]
  BY Zenon DEF Init
<1>3. (\A r \in Worker : run[r].at = "free") /\ loop.at = "select"
  BY Zenon DEF Init, IdleRun, IdleLoop, Worker
<1> QED
  BY Zenon, <1>1, <1>2, <1>3 DEF HomesInv

\* Nobody takes a content to be where it never was.
LEMMA HomesStep == TypeInv /\ HomesInv /\ [Next]_vars => HomesInv'
<1> SUFFICES ASSUME TypeInv, HomesInv, [Next]_vars PROVE HomesInv'
  BY Zenon
<1>0. run \in [Worker -> Position({"free", "start", "hash", "put", "add", "notify"})]
  BY Zenon DEF TypeInv, Shape, Worker
<1>1. CASE UNCHANGED vars
  BY Zenon, <1>1 DEF vars, HomesInv
<1>2. ASSUME NEW new \in [Path -> File \cup {Absent}], NEW evs, Changed(new, evs)
      PROVE  HomesInv'
  <2>1. \A f \in File : hist'.homes[f] = hist.homes[f] \cup {p \in Path : new[p] = f}
    BY Zenon, <1>2 DEF Changed, TypeInv, Shape
  <2>2. UNCHANGED <<run, index, store, loop>> /\ disk' = new
    BY Zenon, <1>2 DEF Changed
  <2> QED
    BY ZenonT(40), <2>1, <2>2 DEF HomesInv, TypeInv, RunOK, LoopOK
<1>3. ASSUME NEW p \in Path, NEW f \in File, WriteFile(p, f) PROVE HomesInv'
  BY Zenon, <1>2, <1>3 DEF WriteFile, TypeInv, Shape
<1>4. ASSUME NEW p \in Path, RemoveFile(p) PROVE HomesInv'
  BY Zenon, <1>2, <1>4 DEF RemoveFile, TypeInv, Shape
<1>5. ASSUME NEW p \in Path, NEW q \in Path, RenameFile(p, q) PROVE HomesInv'
  BY Zenon, <1>2, <1>5 DEF RenameFile, TypeInv, Shape
<1>6. ASSUME NEW r \in Worker, HashFile(r) PROVE HomesInv'
  BY Zenon, <1>0, <1>6 DEF HashFile, HomesInv, IdleRun, TypeInv, RunOK
<1>7. ASSUME NEW r \in Worker, PutEntry(r) PROVE HomesInv'
  <2>1. \A f \in File : store'.entries[Self][f].state = "live"
                            => store'.entries[Self][f].path \in hist.homes[f]
    <3>1. run[r].path \in hist.homes[run[r].file]
      BY Zenon, <1>7 DEF PutEntry, HomesInv
    <3>2. \A f \in File \ {run[r].file} : store'.entries[Self][f] = store.entries[Self][f]
      BY Zenon, <1>7, PutRow
    <3>3. store'.entries[Self][run[r].file].path = run[r].path
      <4>1. store'.entries[Self][run[r].file] = [state |-> "live", path |-> run[r].path]
        BY Zenon, <1>7, PutRow
      <4> QED
        BY <4>1
    <3> QED
      BY Zenon, <3>1, <3>2, <3>3 DEF HomesInv
  <2>2. \A s \in Worker : /\ run'[s].path = run[s].path /\ run'[s].file = run[s].file
                          /\ run'[s].at \in {"put", "add", "notify"}
                                => run[s].at \in {"put", "add", "notify"}
    BY Zenon, <1>0, <1>7 DEF PutEntry, Position
  <2> QED
    BY Zenon, <1>7, <2>1, <2>2 DEF PutEntry, HomesInv
<1>8. ASSUME NEW r \in Worker, AddToIndex(r) PROVE HomesInv'
  <2>1. /\ UNCHANGED <<disk, store, loop>>
        /\ hist'.homes = hist.homes /\ run[r].path \in Path /\ run[r].at = "add"
    BY Zenon, <1>8 DEF AddToIndex, TypeInv, Shape, RunOK
  <2>2. \A f \in File : index'[f] # NoPath => index'[f] \in hist.homes[f]
    BY Zenon, <1>8, <2>1 DEF AddToIndex, TypeInv, Shape, HomesInv
  <2>3. \A s \in Worker : run'[s].at \in {"put", "add", "notify"} =>
                             /\ run'[s].path = run[s].path /\ run'[s].file = run[s].file
                             /\ run[s].at \in {"put", "add", "notify"}
    BY <1>0, <1>8 DEF AddToIndex, Position, IdleRun
  <2> QED
    BY Zenon, <2>1, <2>2, <2>3 DEF HomesInv
<1>9. ASSUME NEW r \in Worker, NotifyChange(r) PROVE HomesInv'
  <2>1. hist'.homes = hist.homes
    BY Zenon, <1>9 DEF NotifyChange, TypeInv, Shape
  <2> QED
    BY Zenon, <1>0, <1>9, <2>1 DEF NotifyChange, HomesInv, IdleRun
<1>10. ASSUME NEW p \in Path, IndexScan(p) PROVE HomesInv'
  BY Zenon, <1>10 DEF IndexScan, HomesInv, TypeInv, Shape
<1>11. ASSUME NEW p \in Path, ScanFile(p) PROVE HomesInv'
  BY Zenon, <1>0, <1>11 DEF ScanFile, HomesInv, Worker
<1>12. CASE NextPhase
  BY Zenon, <1>12 DEF NextPhase, HomesInv
<1>13. CASE Restart
  <2>1. hist'.homes = hist.homes
    BY Zenon, <1>13 DEF Restart, TypeInv, Shape
  <2> QED
    BY Zenon, <1>13, <2>1 DEF Restart, HomesInv, IdleRun, IdleLoop, Worker
<1>14. CASE HandleEvent
  <2>1. hist'.homes = hist.homes
    BY Zenon, <1>14 DEF HandleEvent, TypeInv, Shape
  <2>2. loop'.at \notin {"delete", "remove", "notify"}
    BY <1>14 DEF HandleEvent
  <2> QED
    BY Zenon, <1>14, <2>1, <2>2 DEF HandleEvent, HomesInv
<1>15. CASE RemoveLookup
  <2>1. loop'.at \in {"delete", "remove", "notify"} => loop'.path \in hist.homes[loop'.file]
    BY <1>15, LookupFinds DEF Row, HomesInv, IdleLoop
  <2> QED
    BY Zenon, <1>15, <2>1 DEF RemoveLookup, HomesInv
<1>16. CASE RemoveDelete
  <2>1. \A f \in File : store'.entries[Self][f].state = "live"
                            => store'.entries[Self][f].path \in hist.homes[f]
    BY Zenon, <1>16, DeleteRow DEF HomesInv
  <2>2. /\ loop.at = "delete" /\ loop'.path = loop.path /\ loop'.file = loop.file
    BY Zenon, <1>16 DEF RemoveDelete, TypeInv, Shape, Position
  <2> QED
    BY Zenon, <1>16, <2>1, <2>2 DEF RemoveDelete, HomesInv
<1>17. CASE RemoveIndex
  <2>1. loop.at = "remove" /\ loop'.path = loop.path /\ loop'.file = loop.file
    BY Zenon, <1>17 DEF RemoveIndex, TypeInv, Shape, Position
  <2> QED
    BY Zenon, <1>17, <2>1 DEF RemoveIndex, HomesInv, TypeInv, Shape
<1>18. CASE RemoveNotify
  <2>1. hist'.homes = hist.homes
    BY Zenon, <1>18 DEF RemoveNotify, TypeInv, Shape
  <2> QED
    BY Zenon, <1>18, <2>1 DEF RemoveNotify, HomesInv, IdleLoop
<1>19. ASSUME NEW p \in Path, NEW r \in Run, TimerExpires(p, r) PROVE HomesInv'
  BY Zenon, <1>0, <1>19 DEF TimerExpires, HomesInv, Worker
<1>20. ASSUME NEW r \in Run, TimerDeletes(r) PROVE HomesInv'
  <2>1. \A s \in Worker : run'[s].at \in {"put", "add", "notify"} => run'[s] = run[s]
    BY Zenon, <1>0, <1>20 DEF TimerDeletes, Worker, Position
  <2> QED
    BY Zenon, <1>20, <2>1 DEF TimerDeletes, HomesInv
<1>21. CASE LoseEvent
  <2>1. hist'.homes = hist.homes
    BY Zenon, <1>21, EventLost
  <2> QED
    BY Zenon, <1>21, <2>1 DEF LoseEvent, HomesInv
<1> QED
  BY Zenon, <1>1, <1>3, <1>4, <1>5, <1>6, <1>7, <1>8, <1>9, <1>10, <1>11, <1>12, <1>13, <1>14,
     <1>15, <1>16, <1>17, <1>18, <1>19, <1>20, <1>21 DEF Next, IndexFile, Worker

(***************************************************************************)
(* Present files.                                                          *)
(***************************************************************************)

\* An event says that p was written.
WriteQueued(p) == \E i \in 1..Len(events) : events[i] = <<"write", p>>

\* indexFile has yet to read path p.
ToBeRead(p) ==
    \/ phase = "index" \/ (phase = "scan" /\ p \in walk)
    \/ WriteQueued(p)
    \/ timer[p] # "none" \/ orphans[p] > 0
    \/ \E r \in Worker : run[r].path = p /\ run[r].at \in {"start", "hash"}

\* A removal that is out of date is followed by a write, if none was lost.
RemovalsFollowed ==
    /\ \A i \in 1..Len(events) :
         events[i][1] = "remove" /\ disk[events[i][2]] # Absent /\ events[i][2] \notin hist.unseen
            => \E j \in (i + 1)..Len(events) : events[j] = <<"write", events[i][2]>>
    /\ loop.at # "select" /\ disk[loop.path] # Absent /\ loop.path \notin hist.unseen
         => WriteQueued(loop.path)

\* The file on path p has been indexed, or will be.
Accounted(p) ==
    \/ ToBeRead(p)
    \/ \E r \in Worker : run[r].path = p /\ run[r].at = "put" /\ run[r].file = disk[p]
    \/ /\ Row(disk[p], p)
       /\ index[disk[p]] = p \/ \E r \in Worker : run[r].path = p /\ run[r].at = "add"

PresentInv ==
    \A p \in Path \ hist.unseen :
        disk[p] # Absent /\ hist.homes[disk[p]] = {p} => Accounted(p)

\* What a change of the folder has in common: who is given a file is told of in a
\* write, and a removal leaves nothing.
FolderChange(new, evs) ==
    /\ new \in [Path -> File \cup {Absent}] /\ evs \in Seq({"write", "remove"} \X Path)
    /\ Changed(new, evs)
    /\ \A p \in Path : new[p] # disk[p] /\ new[p] # Absent
                         => \E k \in 1..Len(evs) : evs[k] = <<"write", p>>
    /\ \A k \in 1..Len(evs) : evs[k][1] = "remove" => new[evs[k][2]] = Absent

\* Writing is such a change,
LEMMA WriteChanges ==
    ASSUME TypeInv, NEW p \in Path, NEW f \in File, WriteFile(p, f)
    PROVE  \E new, evs : FolderChange(new, evs)
<1> DEFINE new == [disk EXCEPT ![p] = f]
           evs == <<<<"write", p>>>>
<1>1. new \in [Path -> File \cup {Absent}] /\ Changed(new, evs)
  BY Zenon DEF WriteFile, TypeInv, Shape
<1>2. evs \in Seq({"write", "remove"} \X Path) /\ Len(evs) = 1 /\ evs[1] = <<"write", p>>
  OBVIOUS
<1>3. \A q \in Path : new[q] # disk[q] => q = p
  BY Zenon DEF TypeInv, Shape
<1> QED
  <2> HIDE DEF new, evs
  <2> QED
    BY <1>1, <1>2, <1>3 DEF FolderChange

\* so is removing,
LEMMA RemoveChanges ==
    ASSUME TypeInv, NEW p \in Path, RemoveFile(p)
    PROVE  \E new, evs : FolderChange(new, evs)
<1> DEFINE new == [disk EXCEPT ![p] = Absent]
           evs == <<<<"remove", p>>>>
<1>1. new \in [Path -> File \cup {Absent}] /\ Changed(new, evs)
  BY Zenon DEF RemoveFile, TypeInv, Shape
<1>2. evs \in Seq({"write", "remove"} \X Path) /\ Len(evs) = 1 /\ evs[1] = <<"remove", p>>
  OBVIOUS
<1>3. new[p] = Absent /\ \A q \in Path : new[q] # disk[q] => q = p
  BY Zenon DEF TypeInv, Shape
<1> QED
  <2> HIDE DEF new, evs
  <2> QED
    BY <1>1, <1>2, <1>3 DEF FolderChange

\* and so is renaming.
LEMMA RenameChanges ==
    ASSUME TypeInv, NEW p \in Path, NEW q \in Path, RenameFile(p, q)
    PROVE  \E new, evs : FolderChange(new, evs)
<1> DEFINE new == [disk EXCEPT ![q] = disk[p], ![p] = Absent]
           evs == <<<<"remove", p>>, <<"write", q>>>>
<1>1. new \in [Path -> File \cup {Absent}] /\ Changed(new, evs) /\ p # q
  BY Zenon DEF RenameFile, TypeInv, Shape
<1>2. /\ evs \in Seq({"write", "remove"} \X Path) /\ Len(evs) = 2
      /\ evs[1] = <<"remove", p>> /\ evs[2] = <<"write", q>>
  OBVIOUS
<1>3. new[p] = Absent /\ \A x \in Path : new[x] # disk[x] => x = p \/ x = q
  BY Zenon, <1>1 DEF TypeInv, Shape
<1> QED
  <2> HIDE DEF new, evs
  <2>1. \A x \in Path : new[x] # disk[x] /\ new[x] # Absent
                         => \E k \in 1..Len(evs) : evs[k] = <<"write", x>>
    BY <1>2, <1>3
  <2>2. \A k \in 1..Len(evs) : evs[k][1] = "remove" => new[evs[k][2]] = Absent
    <3> SUFFICES ASSUME NEW k \in 1..Len(evs), evs[k][1] = "remove"
                 PROVE  new[evs[k][2]] = Absent
      BY Zenon
    <3>1. k = 1 \/ k = 2
      BY <1>2
    <3> QED
      BY <1>2, <1>3, <3>1
  <2> QED
    BY SMTT(30), <1>1, <1>2, <2>1, <2>2 DEF FolderChange

\* What is queued after a change.
LEMMA ChangeQueued ==
    ASSUME TypeInv, NEW new, NEW evs, FolderChange(new, evs), phase = "watch"
    PROVE  /\ Len(events') = Len(events) + Len(evs)
           /\ Len(events) \in Nat /\ Len(evs) \in Nat
           /\ \A i \in 1..Len(events) : events'[i] = events[i]
           /\ \A k \in 1..Len(evs) : events'[Len(events) + k] = evs[k]
<1>1. events' = events \o evs
  BY Zenon DEF FolderChange, Changed
<1>2. events \in Seq({"write", "remove"} \X Path) /\ evs \in Seq({"write", "remove"} \X Path)
  BY Zenon DEF FolderChange, TypeInv, Shape
<1> QED
  BY <1>1, <1>2

\* What is queued after the first event has been taken.
LEMMA EventTaken ==
    ASSUME TypeInv, HandleEvent
    PROVE  \E t \in {"write", "remove"}, p \in Path :
             /\ events[1] = <<t, p>>
             /\ Len(events) \in Nat \ {0} /\ Len(events') = Len(events) - 1
             /\ \A i \in 1..Len(events') : events'[i] = events[i + 1]
             /\ t = "write" => timer' = [timer EXCEPT ![p] = "armed"] /\ UNCHANGED <<loop, hist>>
             /\ t = "remove" =>
                  /\ timer' = [timer EXCEPT ![p] = "none"]
                  /\ loop' = [at |-> "lookup", path |-> p, file |-> Absent]
                  /\ hist' = [hist EXCEPT !.muddled = IF InFlight(p) THEN @ \cup {p} ELSE @]
<1>1. events \in Seq({"write", "remove"} \X Path) /\ events # <<>> /\ events' = Tail(events)
  BY Zenon DEF HandleEvent, TypeInv, Shape
<1>2. PICK t \in {"write", "remove"}, p \in Path : Head(events) = <<t, p>>
  BY <1>1
<1>3. /\ Len(events) \in Nat \ {0} /\ Len(events') = Len(events) - 1
      /\ events[1] = <<t, p>> /\ \A i \in 1..Len(events') : events'[i] = events[i + 1]
  BY <1>1, <1>2
<1>4. t = "write" => timer' = [timer EXCEPT ![p] = "armed"] /\ UNCHANGED <<loop, hist>>
  BY <1>2 DEF HandleEvent, Schedule
<1>5. t = "remove" =>
        /\ timer' = [timer EXCEPT ![p] = "none"]
        /\ loop' = [at |-> "lookup", path |-> p, file |-> Absent]
        /\ hist' = [hist EXCEPT !.muddled = IF InFlight(p) THEN @ \cup {p} ELSE @]
  BY <1>2 DEF HandleEvent
<1> QED
  BY Zenon, <1>3, <1>4, <1>5

\* Nothing is queued at first.
LEMMA RemovalsInit == Init => RemovalsFollowed
BY DEF Init, RemovalsFollowed, IdleLoop

\* Only a restart makes the watcher look again at what it has not seen.
LEMMA UnseenStays ==
    ASSUME TypeInv, [Next]_vars, ~ Restart
    PROVE  hist.unseen \subseteq hist'.unseen
<1>1. CASE hist' = hist
  BY Zenon, <1>1
<1>2. ASSUME NEW new, NEW evs, Changed(new, evs) PROVE hist.unseen \subseteq hist'.unseen
  BY Zenon, <1>2 DEF Changed, TypeInv, Shape
<1>3. CASE \/ \E p \in Path, f \in File : WriteFile(p, f)
           \/ \E p \in Path : RemoveFile(p)
           \/ \E p, q \in Path : RenameFile(p, q)
  BY Zenon, <1>2, <1>3 DEF WriteFile, RemoveFile, RenameFile
<1>4. CASE \E r \in Worker : AddToIndex(r) \/ NotifyChange(r)
  BY Zenon, <1>4 DEF AddToIndex, NotifyChange, TypeInv, Shape
<1>5. CASE HandleEvent
  BY <1>5 DEF HandleEvent, TypeInv, Shape
<1>6. CASE RemoveNotify
  BY Zenon, <1>6 DEF RemoveNotify, TypeInv, Shape
<1>7. CASE LoseEvent
  BY Zenon, <1>7, EventLost
<1>8. CASE \/ \E r \in Worker : HashFile(r) \/ PutEntry(r)
           \/ \E p \in Path : IndexScan(p) \/ ScanFile(p)
           \/ NextPhase \/ RemoveLookup \/ RemoveDelete \/ RemoveIndex
           \/ \E p \in Path, r \in Run : TimerExpires(p, r)
           \/ \E r \in Run : TimerDeletes(r)
  <2>1. hist' = hist
    BY ZenonT(40), <1>8 DEF HashFile, PutEntry, IndexScan, ScanFile, NextPhase, RemoveLookup,
       RemoveDelete, RemoveIndex, TimerExpires, TimerDeletes
  <2> QED
    BY Zenon, <1>1, <2>1
<1>9. CASE UNCHANGED vars
  BY Zenon, <1>9 DEF vars
<1> QED
  BY ZenonT(40), <1>3, <1>4, <1>5, <1>6, <1>7, <1>8, <1>9 DEF Next, IndexFile, Worker

\* A removal and a write of a path are queued in the order in which they happened.
LEMMA RemovalsStep == TypeInv /\ RemovalsFollowed /\ [Next]_vars => RemovalsFollowed'
<1> SUFFICES ASSUME TypeInv, RemovalsFollowed, [Next]_vars PROVE RemovalsFollowed'
  BY Zenon
<1>10. CASE Restart
  BY <1>10 DEF Restart, RemovalsFollowed, IdleLoop
<1> SUFFICES ASSUME ~ Restart PROVE RemovalsFollowed'
  BY Zenon, <1>10
<1>0. hist.unseen \subseteq hist'.unseen
  BY Zenon, UnseenStays
<1>1. ASSUME UNCHANGED <<disk, events>>, loop'.at = "select" \/ (loop'.path = loop.path /\ loop.at # "select")
      PROVE  RemovalsFollowed'
  BY Zenon, <1>0, <1>1 DEF RemovalsFollowed, WriteQueued
<1>2. CASE UNCHANGED vars
  BY Zenon, <1>0, <1>2 DEF vars, RemovalsFollowed, WriteQueued
<1>3. ASSUME NEW new, NEW evs, FolderChange(new, evs) PROVE RemovalsFollowed'
  <2>1. CASE phase # "watch"
    <3>1. events' = <<>> /\ loop'.at = "select"
      BY <1>3, <2>1 DEF FolderChange, Changed, TypeInv, Asleep, IdleLoop
    <3> QED
      BY <3>1 DEF RemovalsFollowed
  <2>2. CASE phase = "watch"
    <3>1. /\ Len(events') = Len(events) + Len(evs)
          /\ Len(events) \in Nat /\ Len(evs) \in Nat
          /\ \A i \in 1..Len(events) : events'[i] = events[i]
          /\ \A k \in 1..Len(evs) : events'[Len(events) + k] = evs[k]
      BY Zenon, <1>3, <2>2, ChangeQueued
    <3>2. disk' = new /\ loop' = loop
      BY Zenon, <1>3 DEF FolderChange, Changed
    <3>3. ASSUME NEW p \in Path, disk[p] = Absent, disk'[p] # Absent, NEW i \in 0..Len(events)
          PROVE  \E j \in (i + 1)..Len(events') : events'[j] = <<"write", p>>
      <4>1. PICK k \in 1..Len(evs) : evs[k] = <<"write", p>>
        BY Zenon, <1>3, <3>2, <3>3 DEF FolderChange
      <4>2. Len(events) + k \in (i + 1)..Len(events') /\ events'[Len(events) + k] = <<"write", p>>
        BY <3>1, <4>1
      <4> QED
        BY Zenon, <4>2
    <3>4. \A i \in 1..Len(events) : events[i][2] \in Path
      BY DEF TypeInv, Shape
    <3>5. ASSUME NEW i \in 1..Len(events'), events'[i][1] = "remove", disk'[events'[i][2]] # Absent,
                 events'[i][2] \notin hist'.unseen
          PROVE  \E j \in (i + 1)..Len(events') : events'[j] = <<"write", events'[i][2]>>
      <4>1. CASE i \in 1..Len(events)
        <5>1. events'[i] = events[i] /\ events[i][2] \in Path
          BY Zenon, <3>1, <3>4, <4>1
        <5>2. CASE disk[events[i][2]] = Absent
          <6>1. i \in 0..Len(events) /\ disk'[events[i][2]] # Absent
            BY <3>1, <3>5, <4>1, <5>1
          <6> QED
            BY Zenon, <3>3, <5>1, <5>2, <6>1
        <5>3. CASE disk[events[i][2]] # Absent
          <6>1. PICK j \in (i + 1)..Len(events) : events[j] = <<"write", events[i][2]>>
            BY Zenon, <1>0, <3>5, <4>1, <5>1, <5>3 DEF RemovalsFollowed
          <6>2. j \in (i + 1)..Len(events') /\ events'[j] = events[j]
            BY SMTT(30), <3>1, <4>1, <6>1
          <6> QED
            BY Zenon, <5>1, <6>1, <6>2
        <5> QED
          BY Zenon, <5>2, <5>3
      <4>2. CASE i \notin 1..Len(events)
        <5>1. i - Len(events) \in 1..Len(evs) /\ i = Len(events) + (i - Len(events))
          BY <3>1, <4>2
        <5>2. events'[i] = evs[i - Len(events)]
          BY Zenon, <3>1, <5>1
        <5> QED
          BY Zenon, <1>3, <3>2, <3>5, <5>1, <5>2 DEF FolderChange
      <4> QED
        BY Zenon, <4>1, <4>2
    <3>6. ASSUME loop'.at # "select", disk'[loop'.path] # Absent, loop'.path \notin hist'.unseen
          PROVE  WriteQueued(loop.path)'
      <4>1. loop.path \in Path /\ loop.at # "select" /\ 0 \in 0..Len(events)
        BY <3>1, <3>2, <3>6 DEF TypeInv, LoopOK
      <4>2. CASE disk[loop.path] = Absent
        <5>1. \E j \in (0 + 1)..Len(events') : events'[j] = <<"write", loop.path>>
          BY Zenon, <3>2, <3>3, <3>6, <4>1, <4>2
        <5> QED
          BY <3>2, <5>1 DEF WriteQueued
      <4>3. CASE disk[loop.path] # Absent
        <5>1. PICK j \in 1..Len(events) : events[j] = <<"write", loop.path>>
          BY Zenon, <1>0, <3>2, <3>6, <4>1, <4>3 DEF RemovalsFollowed, WriteQueued
        <5>2. j \in 1..Len(events') /\ events'[j] = events[j]
          BY <3>1, <5>1
        <5> QED
          BY Zenon, <3>2, <5>1, <5>2 DEF WriteQueued
      <4> QED
        BY Zenon, <4>2, <4>3
    <3> QED
      BY Zenon, <3>2, <3>5, <3>6 DEF RemovalsFollowed
  <2> QED
    BY Zenon, <2>1, <2>2
<1>4. ASSUME NEW p \in Path, NEW f \in File, WriteFile(p, f) PROVE RemovalsFollowed'
  BY Zenon, <1>3, <1>4, WriteChanges
<1>5. ASSUME NEW p \in Path, RemoveFile(p) PROVE RemovalsFollowed'
  BY Zenon, <1>3, <1>5, RemoveChanges
<1>6. ASSUME NEW p \in Path, NEW q \in Path, RenameFile(p, q) PROVE RemovalsFollowed'
  BY Zenon, <1>3, <1>6, RenameChanges
<1>7. ASSUME NEW r \in Worker, IndexFile(r) PROVE RemovalsFollowed'
  BY ZenonT(40), <1>0, <1>7 DEF IndexFile, HashFile, PutEntry, AddToIndex, NotifyChange, RemovalsFollowed, WriteQueued
<1>8. ASSUME NEW p \in Path, IndexScan(p) \/ ScanFile(p) PROVE RemovalsFollowed'
  BY ZenonT(40), <1>0, <1>8 DEF IndexScan, ScanFile, RemovalsFollowed, WriteQueued
<1>9. CASE NextPhase
  BY Zenon, <1>0, <1>9 DEF NextPhase, RemovalsFollowed, WriteQueued
<1>11. CASE HandleEvent
  <2>1. PICK t \in {"write", "remove"}, p \in Path :
             /\ events[1] = <<t, p>>
             /\ Len(events) \in Nat \ {0} /\ Len(events') = Len(events) - 1
             /\ \A i \in 1..Len(events') : events'[i] = events[i + 1]
             /\ t = "write" => loop' = loop
             /\ t = "remove" => loop'.path = p
    BY <1>11, EventTaken
  <2>2. disk' = disk /\ loop.at = "select"
    BY Zenon, <1>11 DEF HandleEvent
  <2>3. ASSUME NEW i \in 1..Len(events'), events'[i][1] = "remove", disk'[events'[i][2]] # Absent,
               events'[i][2] \notin hist'.unseen
        PROVE  \E j \in (i + 1)..Len(events') : events'[j] = <<"write", events'[i][2]>>
    <3>1. i + 1 \in 1..Len(events) /\ events'[i] = events[i + 1]
      BY <2>1
    <3>2. PICK j \in (i + 1 + 1)..Len(events) : events[j] = <<"write", events[i + 1][2]>>
      BY Zenon, <1>0, <2>2, <2>3, <3>1 DEF RemovalsFollowed
    <3>3. j - 1 \in (i + 1)..Len(events') /\ j - 1 \in 1..Len(events') /\ (j - 1) + 1 = j
      BY <2>1, <3>2
    <3>4. events'[j - 1] = events[j]
      BY Zenon, <2>1, <3>3
    <3> QED
      BY Zenon, <3>1, <3>2, <3>3, <3>4
  <2>4. ASSUME loop'.at # "select", disk'[loop'.path] # Absent, loop'.path \notin hist'.unseen
        PROVE  WriteQueued(loop.path)'
    <3>1. t = "remove" /\ loop'.path = p
      BY Zenon, <2>1, <2>2, <2>4
    <3>2. PICK j \in (1 + 1)..Len(events) : events[j] = <<"write", p>>
      <4>1. 1 \in 1..Len(events) /\ events[1][1] = "remove" /\ events[1][2] = p
        BY <2>1, <3>1
      <4> QED
        BY Zenon, <1>0, <2>2, <2>4, <3>1, <4>1 DEF RemovalsFollowed
    <3>3. j - 1 \in 1..Len(events') /\ events'[j - 1] = events[j]
      BY SMTT(30), <2>1, <3>2
    <3> QED
      BY Zenon, <3>1, <3>2, <3>3 DEF WriteQueued
  <2> QED
    BY Zenon, <2>3, <2>4 DEF RemovalsFollowed
<1>12. CASE RemoveLookup
  <2>1. loop'.at = "select" \/ loop'.path = loop.path
    BY <1>12, LookupFinds DEF IdleLoop
  <2> QED
    BY Zenon, <1>1, <1>12, <2>1 DEF RemoveLookup
<1>13. CASE RemoveDelete
  BY Zenon, <1>1, <1>13 DEF RemoveDelete, TypeInv, Shape, Position
<1>14. CASE RemoveIndex
  BY Zenon, <1>1, <1>14 DEF RemoveIndex, TypeInv, Shape, Position
<1>15. CASE RemoveNotify
  BY Zenon, <1>1, <1>15 DEF RemoveNotify, IdleLoop
<1>16. ASSUME NEW p \in Path, NEW r \in Run, TimerExpires(p, r) PROVE RemovalsFollowed'
  BY Zenon, <1>0, <1>16 DEF TimerExpires, RemovalsFollowed, WriteQueued
<1>17. ASSUME NEW r \in Run, TimerDeletes(r) PROVE RemovalsFollowed'
  BY Zenon, <1>0, <1>17 DEF TimerDeletes, RemovalsFollowed, WriteQueued
<1>18. CASE LoseEvent
  <2>1. PICK t \in {"write", "remove"}, q \in Path :
             /\ events[Len(events)] = <<t, q>>
             /\ Len(events) \in Nat \ {0} /\ Len(events') = Len(events) - 1
             /\ \A i \in 1..Len(events') : events'[i] = events[i]
             /\ hist' = [hist EXCEPT !.unseen = @ \cup {q}, !.muddled = @ \cup {q}]
    BY Zenon, <1>18, EventLost
  <2>2. hist'.unseen = hist.unseen \cup {q} /\ disk' = disk /\ loop' = loop
    BY Zenon, <1>18, <2>1 DEF LoseEvent, TypeInv, Shape
  <2>3. ASSUME NEW i \in 0..Len(events'), NEW p, p # q,
               NEW j \in (i + 1)..Len(events), events[j] = <<"write", p>>
        PROVE  j \in (i + 1)..Len(events') /\ events'[j] = <<"write", p>>
    <3>1. j # Len(events)
      BY <2>1, <2>3
    <3>2. j \in (i + 1)..Len(events') /\ j \in 1..Len(events')
      BY <2>1, <3>1
    <3> QED
      BY Zenon, <2>1, <2>3, <3>2
  <2>4. ASSUME NEW i \in 1..Len(events'), events'[i][1] = "remove", disk'[events'[i][2]] # Absent,
               events'[i][2] \notin hist'.unseen
        PROVE  \E j \in (i + 1)..Len(events') : events'[j] = <<"write", events'[i][2]>>
    <3>1. i \in 1..Len(events) /\ i \in 0..Len(events') /\ events'[i] = events[i]
      BY <2>1
    <3>2. PICK j \in (i + 1)..Len(events) : events[j] = <<"write", events[i][2]>>
      BY Zenon, <1>0, <2>2, <2>4, <3>1 DEF RemovalsFollowed
    <3> QED
      BY ZenonT(40), <2>2, <2>3, <2>4, <3>1, <3>2
  <2>5. ASSUME loop'.at # "select", disk'[loop'.path] # Absent, loop'.path \notin hist'.unseen
        PROVE  WriteQueued(loop.path)'
    <3>1. PICK j \in 1..Len(events) : events[j] = <<"write", loop.path>>
      BY Zenon, <1>0, <2>2, <2>5 DEF RemovalsFollowed, WriteQueued
    <3>2. 0 \in 0..Len(events') /\ j \in (0 + 1)..Len(events)
      BY <2>1, <3>1
    <3>3. j \in (0 + 1)..Len(events') /\ events'[j] = <<"write", loop.path>>
      BY Zenon, <2>2, <2>3, <2>5, <3>1, <3>2
    <3> QED
      BY <2>2, <3>3 DEF WriteQueued
  <2> QED
    BY Zenon, <2>2, <2>4, <2>5 DEF RemovalsFollowed
<1> QED
  BY Zenon, <1>2, <1>4, <1>5, <1>6, <1>7, <1>8, <1>9, <1>11, <1>12, <1>13, <1>14,
     <1>15, <1>16, <1>17, <1>18 DEF Next, Worker

\* Every file is yet to be indexed when the daemon starts.
LEMMA PresentInit == Init => PresentInv
BY Zenon DEF Init, PresentInv, Accounted, ToBeRead

\* A file that has been put in its place is indexed, and stays so.
LEMMA PresentStep ==
    TypeInv /\ HomesInv /\ RemovalsFollowed /\ PresentInv /\ [Next]_vars => PresentInv'
<1> SUFFICES ASSUME TypeInv, HomesInv, RemovalsFollowed, PresentInv, [Next]_vars,
                    NEW p \in Path, p \notin hist'.unseen,
                    disk'[p] # Absent, hist'.homes[disk'[p]] = {p}
             PROVE  Accounted(p)'
  BY Zenon DEF PresentInv
<1>0. /\ run \in [Worker -> Position({"free", "start", "hash", "put", "add", "notify"})]
      /\ disk \in [Path -> File \cup {Absent}] /\ index \in [File -> Path \cup {NoPath}]
      /\ p # NoPath
  BY Zenon, NoPathAssumption DEF TypeInv, Shape, Worker
<1>1. ASSUME hist'.homes = hist.homes, hist'.unseen = hist.unseen, disk' = disk
      PROVE  /\ Accounted(p) /\ disk[p] \in File /\ hist.homes[disk[p]] = {p}
             /\ p \notin hist.unseen
  BY Zenon, <1>0, <1>1 DEF PresentInv
<1>2. CASE UNCHANGED vars
  BY Zenon, <1>1, <1>2 DEF vars, Accounted, ToBeRead, WriteQueued, Row
<1>3. ASSUME NEW new, NEW evs, FolderChange(new, evs) PROVE Accounted(p)'
  <2>1. /\ UNCHANGED <<store, index, phase, walk, timer, orphans, run>> /\ disk' = new
        /\ hist'.homes[new[p]] = hist.homes[new[p]] \cup {q \in Path : new[q] = new[p]}
        /\ hist'.unseen = IF phase = "watch" THEN hist.unseen
                          ELSE hist.unseen \cup {q \in Path : new[q] # disk[q]}
    BY ZenonT(40), <1>3 DEF FolderChange, Changed, TypeInv, Shape
  <2>2. CASE disk'[p] = disk[p]
    <3>1. Accounted(p)
      BY ZenonT(60), <2>1, <2>2 DEF PresentInv, HomesInv
    <3>2. WriteQueued(p) => WriteQueued(p)'
      BY SMTT(30), <1>3, ChangeQueued DEF WriteQueued, TypeInv, Asleep
    <3> QED
      BY Zenon, <2>1, <2>2, <3>1, <3>2 DEF Accounted, ToBeRead, Row
  <2>3. CASE disk'[p] # disk[p]
    <3>1. phase = "watch"
      BY Zenon, <2>1, <2>3
    <3>2. PICK k \in 1..Len(evs) : evs[k] = <<"write", p>>
      BY Zenon, <1>3, <2>1, <2>3 DEF FolderChange
    <3>3. Len(events) + k \in 1..Len(events') /\ events'[Len(events) + k] = <<"write", p>>
      BY SMTT(30), <1>3, <3>1, <3>2, ChangeQueued
    <3> QED
      BY Zenon, <3>3 DEF Accounted, ToBeRead, WriteQueued
  <2> QED
    BY Zenon, <2>2, <2>3
<1>4. ASSUME NEW q \in Path, NEW f \in File, WriteFile(q, f) PROVE Accounted(p)'
  BY Zenon, <1>3, <1>4, WriteChanges
<1>5. ASSUME NEW q \in Path, RemoveFile(q) PROVE Accounted(p)'
  BY Zenon, <1>3, <1>5, RemoveChanges
<1>6. ASSUME NEW q \in Path, NEW x \in Path, RenameFile(q, x) PROVE Accounted(p)'
  BY Zenon, <1>3, <1>6, RenameChanges
<1>7. ASSUME NEW r \in Worker, HashFile(r) PROVE Accounted(p)'
  <2>1. Accounted(p) /\ disk' = disk
    BY Zenon, <1>1, <1>7 DEF HashFile
  <2>2. CASE run[r].path = p
    <3>1. run'[r] = [at |-> "put", path |-> p, file |-> disk[p]]
      BY Zenon, <1>0, <1>7, <2>1, <2>2 DEF HashFile
    <3> QED
      BY <2>1, <3>1 DEF Accounted
  <2>3. CASE run[r].path # p
    <3>1. \A s \in Worker : run[s].path = p => run'[s] = run[s]
      BY Zenon, <1>0, <1>7, <2>3 DEF HashFile
    <3> QED
      BY ZenonT(40), <1>7, <2>1, <3>1 DEF HashFile, Accounted, ToBeRead, WriteQueued, Row
  <2> QED
    BY Zenon, <2>2, <2>3
<1>8. ASSUME NEW r \in Worker, PutEntry(r) PROVE Accounted(p)'
  <2>1. Accounted(p) /\ disk' = disk /\ disk[p] \in File /\ hist.homes[disk[p]] = {p}
    BY Zenon, <1>1, <1>8 DEF PutEntry
  <2>2. /\ run[r].path \in hist.homes[run[r].file]
        /\ run[r].file \in File /\ run[r].at = "put"
    BY Zenon, <1>8 DEF PutEntry, HomesInv, TypeInv, RunOK
  <2>3. /\ run'[r].path = run[r].path /\ run'[r].at = "add"
        /\ \A s \in Worker \ {r} : run'[s] = run[s]
    BY Zenon, <1>0, <1>8 DEF PutEntry, Position
  <2>4. CASE run[r].file = disk[p]
    <3>1. run[r].path = p
      BY Zenon, <2>1, <2>2, <2>4
    <3>2. store'.entries[Self][disk[p]] = [state |-> "live", path |-> p]
      BY Zenon, <1>8, <2>4, <3>1, PutRow
    <3> QED
      BY <2>1, <2>3, <3>1, <3>2 DEF Accounted, Row
  <2>5. CASE run[r].file # disk[p]
    <3>1. store'.entries[Self][disk[p]] = store.entries[Self][disk[p]]
      BY ZenonT(60), <1>8, <2>1, <2>5, PutRow
    <3>2. ToBeRead(p) => ToBeRead(p)'
      BY Zenon, <1>8, <2>2, <2>3 DEF PutEntry, ToBeRead, WriteQueued
    <3>3. index' = index
      BY Zenon, <1>8 DEF PutEntry
    <3> QED
      BY ZenonT(40), <2>1, <2>2, <2>3, <2>5, <3>1, <3>2, <3>3 DEF Accounted, Row
  <2> QED
    BY Zenon, <2>4, <2>5
<1>9. ASSUME NEW r \in Worker, AddToIndex(r) PROVE Accounted(p)'
  <2>1. hist'.homes = hist.homes /\ hist'.unseen = hist.unseen
    BY Zenon, <1>9 DEF AddToIndex, TypeInv, Shape
  <2>2. Accounted(p) /\ disk' = disk /\ disk[p] \in File /\ hist.homes[disk[p]] = {p}
    BY Zenon, <1>1, <1>9, <2>1 DEF AddToIndex
  <2>3. /\ run[r].at = "add" /\ run[r].path \in Path
        /\ \A s \in Worker \ {r} : run'[s] = run[s]
    BY Zenon, <1>0, <1>9 DEF AddToIndex, TypeInv, RunOK
  <2>4. ToBeRead(p) => ToBeRead(p)'
    BY Zenon, <1>9, <2>3 DEF AddToIndex, ToBeRead, WriteQueued
  <2>5. index[disk[p]] = p => index'[disk[p]] = p
    BY Zenon, <1>0, <1>9, <2>2, <2>3 DEF AddToIndex, HomesInv
  <2>6. run[r].path = p => index'[disk[p]] = p
    BY Zenon, <1>0, <1>9, <2>2 DEF AddToIndex
  <2>7. Row(disk[p], p)' <=> Row(disk[p], p)
    BY Zenon, <1>9, <2>2 DEF AddToIndex, Row
  <2> QED
    BY Zenon, <2>2, <2>3, <2>4, <2>5, <2>6, <2>7 DEF Accounted
<1>10. ASSUME NEW r \in Worker, NotifyChange(r) PROVE Accounted(p)'
  <2>1. hist'.homes = hist.homes /\ hist'.unseen = hist.unseen
    BY Zenon, <1>10 DEF NotifyChange, TypeInv, Shape
  <2>2. Accounted(p) /\ disk' = disk
    BY Zenon, <1>1, <1>10, <2>1 DEF NotifyChange
  <2>3. run[r].at = "notify" /\ \A s \in Worker \ {r} : run'[s] = run[s]
    BY Zenon, <1>0, <1>10 DEF NotifyChange
  <2> QED
    BY ZenonT(40), <1>10, <2>2, <2>3 DEF NotifyChange, Accounted, ToBeRead, WriteQueued, Row
<1>11. ASSUME NEW q \in Path, IndexScan(q) PROVE Accounted(p)'
  BY Zenon, <1>11 DEF IndexScan, Accounted, ToBeRead
<1>12. ASSUME NEW q \in Path, ScanFile(q) PROVE Accounted(p)'
  <2>1. Accounted(p) /\ disk' = disk
    BY Zenon, <1>1, <1>12 DEF ScanFile
  <2>2. \A s \in Worker \ {Scanner} : run'[s] = run[s]
    BY Zenon, <1>0, <1>12 DEF ScanFile
  <2>3. run[Scanner] = IdleRun /\ run[Scanner].path # p
    BY <1>0, <1>12 DEF ScanFile, TypeInv, RunOK, Worker, IdleRun
  <2>4. run'[Scanner].path = q /\ run'[Scanner].at = "hash" /\ Scanner \in Worker
    BY Zenon, <1>0, <1>12 DEF ScanFile, Worker
  <2>5. ToBeRead(p) => ToBeRead(p)'
    BY Zenon, <1>12, <2>2, <2>3, <2>4 DEF ScanFile, ToBeRead, WriteQueued
  <2> QED
    BY Zenon, <1>12, <2>1, <2>2, <2>3, <2>5 DEF ScanFile, Accounted, Row
<1>13. CASE NextPhase
  <2>1. Accounted(p) /\ disk' = disk
    BY Zenon, <1>1, <1>13 DEF NextPhase
  <2> QED
    BY Zenon, <1>13, <2>1 DEF NextPhase, Accounted, ToBeRead, WriteQueued, Row
<1>14. CASE Restart
  BY Zenon, <1>14 DEF Restart, Accounted, ToBeRead
<1>15. CASE HandleEvent
  <2>1. PICK t \in {"write", "remove"}, q \in Path :
             /\ events[1] = <<t, q>>
             /\ Len(events) \in Nat \ {0} /\ Len(events') = Len(events) - 1
             /\ \A i \in 1..Len(events') : events'[i] = events[i + 1]
             /\ t = "write" => timer' = [timer EXCEPT ![q] = "armed"]
             /\ t = "remove" => /\ timer' = [timer EXCEPT ![q] = "none"]
                                /\ loop' = [at |-> "lookup", path |-> q, file |-> Absent]
    BY Zenon, <1>15, EventTaken
  <2>2. hist'.homes = hist.homes /\ hist'.unseen = hist.unseen
    BY Zenon, <1>15 DEF HandleEvent, TypeInv, Shape
  <2>3. Accounted(p) /\ UNCHANGED <<disk, store, index, phase, walk, orphans, run>>
    BY Zenon, <1>1, <1>15, <2>2 DEF HandleEvent
  <2>4. timer \in [Path -> {"none", "armed", "expired"}]
    BY Zenon DEF TypeInv, Shape
  <2>5. CASE p # q
    <3>1. timer'[p] = timer[p]
      BY Zenon, <2>1, <2>4, <2>5
    <3>2. WriteQueued(p) => WriteQueued(p)'
      <4> SUFFICES ASSUME NEW j \in 1..Len(events), events[j] = <<"write", p>>
                   PROVE  WriteQueued(p)'
        BY Zenon DEF WriteQueued
      <4>1. j # 1
        BY <2>1, <2>5
      <4>2. j - 1 \in 1..Len(events') /\ (j - 1) + 1 = j
        BY <2>1, <4>1
      <4> QED
        BY Zenon, <2>1, <4>2 DEF WriteQueued
    <3> QED
      BY Zenon, <2>3, <3>1, <3>2 DEF Accounted, ToBeRead, Row
  <2>6. CASE p = q /\ t = "write"
    <3>1. timer'[p] = "armed"
      BY Zenon, <2>1, <2>4, <2>6
    <3> QED
      BY Zenon, <3>1 DEF Accounted, ToBeRead
  <2>7. CASE p = q /\ t = "remove"
    <3>1. loop'.at # "select" /\ loop'.path = p
      BY <2>1, <2>7
    <3>2. RemovalsFollowed'
      BY Zenon, RemovalsStep
    <3>3. WriteQueued(p)'
      BY Zenon, <3>1, <3>2 DEF RemovalsFollowed, WriteQueued
    <3> QED
      BY Zenon, <3>3 DEF Accounted, ToBeRead
  <2> QED
    BY Zenon, <2>5, <2>6, <2>7
<1>16. CASE RemoveLookup
  <2>1. Accounted(p) /\ disk' = disk
    BY Zenon, <1>1, <1>16 DEF RemoveLookup
  <2> QED
    BY Zenon, <1>16, <2>1 DEF RemoveLookup, Accounted, ToBeRead, WriteQueued, Row
<1>17. ASSUME loop.at \in {"delete", "remove"}, disk' = disk, hist' = hist, loop.file = disk[p],
              UNCHANGED <<events>>
       PROVE  Accounted(p)'
  <2>1. loop.path = p
    BY Zenon, <1>17 DEF HomesInv
  <2>2. WriteQueued(p)
    BY Zenon, <1>17, <2>1, <1>1 DEF RemovalsFollowed
  <2> QED
    BY Zenon, <1>17, <2>2 DEF Accounted, ToBeRead, WriteQueued
<1>18. CASE RemoveDelete
  <2>1. Accounted(p) /\ disk' = disk /\ disk[p] \in File
    BY Zenon, <1>1, <1>18 DEF RemoveDelete
  <2>2. CASE loop.file = disk[p]
    BY Zenon, <1>17, <1>18, <2>2 DEF RemoveDelete
  <2>3. CASE loop.file # disk[p]
    <3>1. store'.entries[Self][disk[p]] = store.entries[Self][disk[p]]
      BY Zenon, <1>18, <2>1, <2>3, DeleteRow
    <3> QED
      BY Zenon, <1>18, <2>1, <3>1 DEF RemoveDelete, Accounted, ToBeRead, WriteQueued, Row
  <2> QED
    BY Zenon, <2>2, <2>3
<1>19. CASE RemoveIndex
  <2>1. Accounted(p) /\ disk' = disk /\ disk[p] \in File
    BY Zenon, <1>1, <1>19 DEF RemoveIndex
  <2>2. CASE loop.file = disk[p]
    BY Zenon, <1>17, <1>19, <2>2 DEF RemoveIndex
  <2>3. CASE loop.file # disk[p]
    <3>1. index'[disk[p]] = index[disk[p]]
      BY Zenon, <1>0, <1>19, <2>1, <2>3 DEF RemoveIndex
    <3> QED
      BY Zenon, <1>19, <2>1, <3>1 DEF RemoveIndex, Accounted, ToBeRead, WriteQueued, Row
  <2> QED
    BY Zenon, <2>2, <2>3
<1>20. CASE RemoveNotify
  <2>1. hist'.homes = hist.homes /\ hist'.unseen = hist.unseen
    BY Zenon, <1>20 DEF RemoveNotify, TypeInv, Shape
  <2>2. Accounted(p) /\ disk' = disk
    BY Zenon, <1>1, <1>20, <2>1 DEF RemoveNotify
  <2> QED
    BY Zenon, <1>20, <2>2 DEF RemoveNotify, Accounted, ToBeRead, WriteQueued, Row
<1>21. ASSUME NEW q \in Path, NEW r \in Run, TimerExpires(q, r) PROVE Accounted(p)'
  <2>1. Accounted(p) /\ disk' = disk
    BY Zenon, <1>1, <1>21 DEF TimerExpires
  <2>2. /\ r \in Worker /\ run[r].path # p /\ \A s \in Worker \ {r} : run'[s] = run[s]
        /\ run'[r].path = q /\ run'[r].at = "start"
    BY SMTT(30), <1>0, <1>21 DEF TimerExpires, TypeInv, RunOK, Worker, IdleRun
  <2>3. CASE p = q
    BY Zenon, <2>2, <2>3 DEF Accounted, ToBeRead
  <2>4. CASE p # q
    <3>1. timer'[p] = timer[p] /\ orphans'[p] = orphans[p]
      BY Zenon, <1>21, <2>4 DEF TimerExpires, TypeInv, Shape
    <3>2. ToBeRead(p) => ToBeRead(p)'
      BY Zenon, <1>21, <2>2, <3>1 DEF TimerExpires, ToBeRead, WriteQueued
    <3> QED
      BY ZenonT(40), <1>21, <2>1, <2>2, <3>2 DEF TimerExpires, Accounted, Row
  <2> QED
    BY Zenon, <2>3, <2>4
<1>22. ASSUME NEW r \in Run, TimerDeletes(r) PROVE Accounted(p)'
  <2>1. Accounted(p) /\ disk' = disk
    BY Zenon, <1>1, <1>22 DEF TimerDeletes
  <2>2. /\ r \in Worker /\ run[r].at = "start" /\ \A s \in Worker \ {r} : run'[s] = run[s]
        /\ run'[r].path = run[r].path /\ run'[r].at = "hash"
    BY Zenon, <1>0, <1>22 DEF TimerDeletes, Worker, Position
  <2>3. CASE p = run[r].path
    BY Zenon, <2>2, <2>3 DEF Accounted, ToBeRead
  <2>4. CASE p # run[r].path
    <3>1. timer'[p] = timer[p] /\ orphans'[p] = orphans[p]
      BY Zenon, <1>22, <2>4 DEF TimerDeletes, TypeInv, Shape
    <3>2. ToBeRead(p) => ToBeRead(p)'
      BY ZenonT(40), <1>22, <2>2, <2>4, <3>1 DEF TimerDeletes, ToBeRead, WriteQueued
    <3> QED
      BY ZenonT(40), <1>22, <2>1, <2>2, <3>2 DEF TimerDeletes, Accounted, Row
  <2> QED
    BY Zenon, <2>3, <2>4
<1>23. CASE LoseEvent
  <2>1. PICK t \in {"write", "remove"}, q \in Path :
             /\ events[Len(events)] = <<t, q>>
             /\ Len(events) \in Nat \ {0} /\ Len(events') = Len(events) - 1
             /\ \A i \in 1..Len(events') : events'[i] = events[i]
             /\ hist' = [hist EXCEPT !.unseen = @ \cup {q}, !.muddled = @ \cup {q}]
    BY Zenon, <1>23, EventLost
  <2>2. hist'.unseen = hist.unseen \cup {q} /\ hist'.homes = hist.homes
    BY Zenon, <2>1 DEF TypeInv, Shape
  <2>3. UNCHANGED <<disk, store, index, phase, walk, timer, orphans, run>>
    BY Zenon, <1>23 DEF LoseEvent
  <2>4. Accounted(p) /\ p # q
    BY Zenon, <2>2, <2>3 DEF PresentInv
  <2>5. WriteQueued(p) => WriteQueued(p)'
    <3> SUFFICES ASSUME NEW j \in 1..Len(events), events[j] = <<"write", p>>
                 PROVE  WriteQueued(p)'
      BY Zenon DEF WriteQueued
    <3>1. j # Len(events)
      BY <2>1, <2>4
    <3>2. j \in 1..Len(events')
      BY <2>1, <3>1
    <3> QED
      BY Zenon, <2>1, <3>2 DEF WriteQueued
  <2> QED
    BY Zenon, <2>3, <2>4, <2>5 DEF Accounted, ToBeRead, Row
<1> QED
  BY Zenon, <1>2, <1>4, <1>5, <1>6, <1>7, <1>8, <1>9, <1>10, <1>11, <1>12, <1>13, <1>14,
     <1>15, <1>16, <1>18, <1>19, <1>20, <1>21, <1>22, <1>23 DEF Next, IndexFile, Worker

\* At rest nothing is left to be read.
LEMMA PresentAtRest == PresentInv /\ TypeInv => PresentFileIsShared
<1> SUFFICES ASSUME PresentInv, TypeInv, Quiet, NEW p \in Path \ hist.unseen,
                    disk[p] # Absent, hist.homes[disk[p]] = {p}
             PROVE  /\ disk[p] \in Local /\ store.entries[Self][disk[p]].path = p
                    /\ index[disk[p]] = p
  BY Zenon DEF PresentFileIsShared
<1>1. Accounted(p) /\ disk[p] \in File
  BY Zenon DEF PresentInv, TypeInv, Shape
<1>2. \A r \in Worker : run[r].at = "free"
  BY DEF Quiet, IdleRun, Worker
<1>3. ~ ToBeRead(p)
  BY <1>2 DEF ToBeRead, WriteQueued, Quiet
<1> QED
  BY Zenon, <1>1, <1>2, <1>3 DEF Accounted, Row, Local, ListByOwner

(***************************************************************************)
(* The theorems.                                                           *)
(***************************************************************************)
WatcherInv ==
    TypeInv /\ Announced /\ HomesInv /\ RemovalsFollowed /\ PresentInv

\* The inductive invariant of the watcher.
LEMMA WatcherInvariant == Spec => []WatcherInv
<1>1. Init => WatcherInv
  BY Zenon, TypeInit, AnnouncedInit, HomesInit, RemovalsInit, PresentInit DEF WatcherInv
<1>2. WatcherInv /\ [Next]_vars => WatcherInv'
  BY Zenon, TypeStep, AnnouncedStep, HomesStep, RemovalsStep, PresentStep DEF WatcherInv
<1> QED
  BY <1>1, <1>2, PTL DEF Spec

\* Every variable of the watcher keeps its type, handleRemove has an entry wherever
\* it uses one and indexFile a hash, for any folder and any number of overlapping
\* runs.
THEOREM TypeCorrect == Spec => []TypeOK
<1>1. WatcherInv => TypeOK
  BY Zenon DEF WatcherInv, TypeInv, TypeOK
<1> QED
  BY <1>1, WatcherInvariant, PTL

\* At rest the last onChange saw the catalog as it is, unless LocalIndex.Add failed
\* after PutLocal.
THEOREM Announcement == Spec => []ChangesAreAnnounced
<1>1. WatcherInv => ChangesAreAnnounced
  BY Zenon, AnnouncedAtRest DEF WatcherInv
<1> QED
  BY <1>1, WatcherInvariant, PTL

\* At rest a file that lies in the folder is in the catalog and can be sent, whatever
\* the order of events, timers and runs of indexFile was.
THEOREM PresentShared == Spec => []PresentFileIsShared
<1>1. WatcherInv => PresentFileIsShared
  BY Zenon, PresentAtRest DEF WatcherInv
<1> QED
  BY <1>1, WatcherInvariant, PTL

-----------------------------------------------------------------------------
(***************************************************************************)
(* Removed files are forgotten.  First, the queue of events.               *)
(***************************************************************************)

\* The next event for p after position i of ev is a write; when there is none, one
\* is to be expected if p is not present.
NextIsWrite(ev, i, p, present) ==
    \/ ~ present /\ \A k \in (i + 1)..Len(ev) : ev[k][2] # p
    \/ \E k \in (i + 1)..Len(ev) :
         ev[k] = <<"write", p>> /\ \A j \in (i + 1)..(k - 1) : ev[j][2] # p

\* Writes and removals of p alternate, and the last one fits the folder.
Alternates(ev, p, present) ==
    \A i \in 1..Len(ev) :
        ev[i][2] = p => (ev[i][1] = "remove" <=> NextIsWrite(ev, i, p, present))

Events == Seq({"write", "remove"} \X Path)

\* An event of another path changes nothing for p.
LEMMA NextIsWriteOther ==
    ASSUME NEW ev \in Events, NEW t \in {"write", "remove"}, NEW p \in Path, NEW q \in Path \ {p},
           NEW present \in BOOLEAN, NEW i \in 0..Len(ev)
    PROVE  NextIsWrite(Append(ev, <<t, q>>), i, p, present) <=> NextIsWrite(ev, i, p, present)
<1> DEFINE ev2 == Append(ev, <<t, q>>)
<1>1. /\ Len(ev) \in Nat /\ Len(ev2) = Len(ev) + 1 /\ ev2[Len(ev) + 1] = <<t, q>>
      /\ \A k \in 1..Len(ev) : ev2[k] = ev[k]
  BY DEF Events
<1> HIDE DEF ev2
<1>2. ASSUME NextIsWrite(ev, i, p, present) PROVE NextIsWrite(ev2, i, p, present)
  <2>1. CASE ~ present /\ \A k \in (i + 1)..Len(ev) : ev[k][2] # p
    <3>1. \A k \in (i + 1)..Len(ev2) : k \in (i + 1)..Len(ev) \/ k = Len(ev) + 1
      BY <1>1
    <3>2. \A k \in (i + 1)..Len(ev) : ev2[k] = ev[k]
      BY <1>1
    <3>3. \A k \in (i + 1)..Len(ev2) : ev2[k][2] # p
      BY <1>1, <2>1, <3>1, <3>2
    <3> QED
      BY Zenon, <2>1, <3>3 DEF NextIsWrite
  <2>2. ASSUME NEW k \in (i + 1)..Len(ev), ev[k] = <<"write", p>>,
               \A j \in (i + 1)..(k - 1) : ev[j][2] # p
        PROVE  NextIsWrite(ev2, i, p, present)
    <3>1. k \in (i + 1)..Len(ev2) /\ \A j \in (i + 1)..k : ev2[j] = ev[j]
      BY <1>1
    <3>2. k \in (i + 1)..k /\ \A j \in (i + 1)..(k - 1) : j \in (i + 1)..k
      OBVIOUS
    <3> QED
      BY ZenonT(40), <2>2, <3>1, <3>2 DEF NextIsWrite
  <2> QED
    BY Zenon, <1>2, <2>1, <2>2 DEF NextIsWrite
<1>3. ASSUME NextIsWrite(ev2, i, p, present) PROVE NextIsWrite(ev, i, p, present)
  <2>0. \A k \in (i + 1)..Len(ev) : k \in (i + 1)..Len(ev2) /\ ev2[k] = ev[k]
    BY <1>1
  <2>1. CASE ~ present /\ \A k \in (i + 1)..Len(ev2) : ev2[k][2] # p
    <3>1. \A k \in (i + 1)..Len(ev) : ev[k][2] # p
      BY Zenon, <2>0, <2>1
    <3> QED
      BY Zenon, <2>1, <3>1 DEF NextIsWrite
  <2>2. ASSUME NEW k \in (i + 1)..Len(ev2), ev2[k] = <<"write", p>>,
               \A j \in (i + 1)..(k - 1) : ev2[j][2] # p
        PROVE  NextIsWrite(ev, i, p, present)
    <3>1. k # Len(ev) + 1
      BY <1>1, <2>2
    <3>2. k \in (i + 1)..Len(ev) /\ \A j \in (i + 1)..(k - 1) : j \in (i + 1)..Len(ev)
      BY <1>1, <3>1
    <3> QED
      BY ZenonT(40), <2>0, <2>2, <3>2 DEF NextIsWrite
  <2> QED
    BY Zenon, <1>3, <2>1, <2>2 DEF NextIsWrite
<1> QED
  BY Zenon, <1>2, <1>3 DEF ev2

\* Nor does p's own event, when p comes or goes with it.
LEMMA NextIsWriteOwn ==
    ASSUME NEW ev \in Events, NEW t \in {"write", "remove"}, NEW p \in Path,
           NEW present \in BOOLEAN, present <=> t = "remove", NEW i \in 0..Len(ev)
    PROVE  NextIsWrite(Append(ev, <<t, p>>), i, p, ~ present) <=> NextIsWrite(ev, i, p, present)
<1> DEFINE ev2 == Append(ev, <<t, p>>)
<1>1. /\ Len(ev) \in Nat /\ Len(ev2) = Len(ev) + 1 /\ ev2[Len(ev) + 1] = <<t, p>>
      /\ \A k \in 1..Len(ev) : ev2[k] = ev[k]
  BY DEF Events
<1> HIDE DEF ev2
<1>0. Len(ev) + 1 \in (i + 1)..Len(ev2)
  BY <1>1
<1>2. ASSUME NextIsWrite(ev, i, p, present) PROVE NextIsWrite(ev2, i, p, ~ present)
  <2>1. CASE ~ present /\ \A k \in (i + 1)..Len(ev) : ev[k][2] # p
    <3>1. ev2[Len(ev) + 1] = <<"write", p>>
      BY Zenon, <1>1, <2>1
    <3>2. \A j \in (i + 1)..(Len(ev) + 1 - 1) : j \in (i + 1)..Len(ev) /\ ev2[j] = ev[j]
      BY <1>1
    <3> QED
      BY SMTT(30), <1>0, <2>1, <3>1, <3>2 DEF NextIsWrite
  <2>2. ASSUME NEW k \in (i + 1)..Len(ev), ev[k] = <<"write", p>>,
               \A j \in (i + 1)..(k - 1) : ev[j][2] # p
        PROVE  NextIsWrite(ev2, i, p, ~ present)
    <3>1. k \in (i + 1)..Len(ev2) /\ \A j \in (i + 1)..k : ev2[j] = ev[j]
      BY <1>1
    <3>2. k \in (i + 1)..k /\ \A j \in (i + 1)..(k - 1) : j \in (i + 1)..k
      OBVIOUS
    <3> QED
      BY ZenonT(60), <2>2, <3>1, <3>2 DEF NextIsWrite
  <2> QED
    BY Zenon, <1>2, <2>1, <2>2 DEF NextIsWrite
<1>3. ASSUME NextIsWrite(ev2, i, p, ~ present) PROVE NextIsWrite(ev, i, p, present)
  <2>1. PICK k \in (i + 1)..Len(ev2) :
               ev2[k] = <<"write", p>> /\ \A j \in (i + 1)..(k - 1) : ev2[j][2] # p
    BY <1>0, <1>1, <1>3 DEF NextIsWrite
  <2>2. CASE k = Len(ev) + 1
    <3>1. ~ present
      BY <1>1, <2>1, <2>2
    <3>2. \A j \in (i + 1)..Len(ev) : j \in (i + 1)..(k - 1) /\ ev2[j] = ev[j]
      BY <1>1, <2>2
    <3> QED
      BY Zenon, <2>1, <3>1, <3>2 DEF NextIsWrite
  <2>3. CASE k # Len(ev) + 1
    <3>1. k \in (i + 1)..Len(ev) /\ \A j \in (i + 1)..k : ev2[j] = ev[j]
      BY <1>1, <2>3
    <3>2. k \in (i + 1)..k /\ \A j \in (i + 1)..(k - 1) : j \in (i + 1)..k
      BY <3>1
    <3> QED
      BY ZenonT(60), <2>1, <3>1, <3>2 DEF NextIsWrite
  <2> QED
    BY Zenon, <2>2, <2>3
<1> QED
  BY Zenon, <1>2, <1>3 DEF ev2

\* The queue of p goes on alternating after an event of another path,
LEMMA AlternatesOther ==
    ASSUME NEW ev \in Events, NEW t \in {"write", "remove"}, NEW p \in Path, NEW q \in Path \ {p},
           NEW present \in BOOLEAN, Alternates(ev, p, present)
    PROVE  Alternates(Append(ev, <<t, q>>), p, present)
<1> DEFINE ev2 == Append(ev, <<t, q>>)
<1>1. /\ Len(ev) \in Nat /\ Len(ev2) = Len(ev) + 1 /\ ev2[Len(ev) + 1] = <<t, q>>
      /\ \A k \in 1..Len(ev) : ev2[k] = ev[k]
  BY DEF Events
<1>2. \A i \in 0..Len(ev) : NextIsWrite(ev2, i, p, present) <=> NextIsWrite(ev, i, p, present)
  BY NextIsWriteOther
<1> HIDE DEF ev2
<1>3. ASSUME NEW i \in 1..Len(ev2), ev2[i][2] = p
      PROVE  ev2[i][1] = "remove" <=> NextIsWrite(ev2, i, p, present)
  <2>1. i # Len(ev) + 1
    BY <1>1, <1>3
  <2>2. i \in 1..Len(ev) /\ i \in 0..Len(ev) /\ ev2[i] = ev[i]
    BY <1>1, <2>1
  <2> QED
    BY Zenon, <1>2, <1>3, <2>2 DEF Alternates
<1> QED
  BY Zenon, <1>3 DEF Alternates, ev2

\* and did so before it,
LEMMA AlternatedOther ==
    ASSUME NEW ev \in Events, NEW t \in {"write", "remove"}, NEW p \in Path, NEW q \in Path \ {p},
           NEW present \in BOOLEAN, Alternates(Append(ev, <<t, q>>), p, present)
    PROVE  Alternates(ev, p, present)
<1> DEFINE ev2 == Append(ev, <<t, q>>)
<1>1. \A i \in 1..Len(ev) : i \in 1..Len(ev2) /\ i \in 0..Len(ev) /\ ev2[i] = ev[i]
  BY DEF Events
<1>2. \A i \in 0..Len(ev) : NextIsWrite(ev2, i, p, present) <=> NextIsWrite(ev, i, p, present)
  BY NextIsWriteOther
<1> HIDE DEF ev2
<1>3. Alternates(ev2, p, present)
  BY Zenon DEF ev2
<1> QED
  BY Zenon, <1>1, <1>2, <1>3 DEF Alternates

\* and after p's own, when p comes or goes with it.
LEMMA AlternatesOwn ==
    ASSUME NEW ev \in Events, NEW t \in {"write", "remove"}, NEW p \in Path,
           NEW present \in BOOLEAN, present <=> t = "remove", Alternates(ev, p, present)
    PROVE  Alternates(Append(ev, <<t, p>>), p, ~ present)
<1> DEFINE ev2 == Append(ev, <<t, p>>)
<1>1. /\ Len(ev) \in Nat /\ Len(ev2) = Len(ev) + 1 /\ ev2[Len(ev) + 1] = <<t, p>>
      /\ \A k \in 1..Len(ev) : ev2[k] = ev[k]
  BY DEF Events
<1>2. \A i \in 0..Len(ev) : NextIsWrite(ev2, i, p, ~ present) <=> NextIsWrite(ev, i, p, present)
  BY Zenon, NextIsWriteOwn
<1> HIDE DEF ev2
<1>3. ASSUME NEW i \in 1..Len(ev2), ev2[i][2] = p
      PROVE  ev2[i][1] = "remove" <=> NextIsWrite(ev2, i, p, ~ present)
  <2>1. CASE i = Len(ev) + 1
    <3>1. ~ \E k \in (i + 1)..Len(ev2) : TRUE
      BY <1>1, <2>1
    <3>2. NextIsWrite(ev2, i, p, ~ present) <=> present
      BY Zenon, <3>1 DEF NextIsWrite
    <3> QED
      BY <1>1, <2>1, <3>2
  <2>2. CASE i # Len(ev) + 1
    <3>1. i \in 1..Len(ev) /\ i \in 0..Len(ev) /\ ev2[i] = ev[i]
      BY <1>1, <2>2
    <3> QED
      BY Zenon, <1>2, <1>3, <3>1 DEF Alternates
  <2> QED
    BY Zenon, <2>1, <2>2
<1> QED
  BY Zenon, <1>3 DEF Alternates, ev2

\* Taking the first event shifts the others.
LEMMA NextIsWriteTail ==
    ASSUME NEW ev \in Events, ev # <<>>, NEW p \in Path, NEW present \in BOOLEAN,
           NEW i \in 0..(Len(ev) - 1)
    PROVE  NextIsWrite(Tail(ev), i, p, present) <=> NextIsWrite(ev, i + 1, p, present)
<1> DEFINE ev2 == Tail(ev)
<1>1. /\ Len(ev) \in Nat \ {0} /\ Len(ev2) = Len(ev) - 1
      /\ \A k \in 1..Len(ev2) : ev2[k] = ev[k + 1]
  BY DEF Events
<1> HIDE DEF ev2
<1>2. \A k \in (i + 1)..Len(ev2) : k + 1 \in (i + 1 + 1)..Len(ev) /\ ev2[k] = ev[k + 1]
  BY <1>1
<1>3. \A k \in (i + 1 + 1)..Len(ev) :
        /\ k - 1 \in (i + 1)..Len(ev2) /\ (k - 1) + 1 = k /\ ev2[k - 1] = ev[k]
  <2> SUFFICES ASSUME NEW k \in (i + 1 + 1)..Len(ev)
               PROVE  /\ k - 1 \in (i + 1)..Len(ev2) /\ (k - 1) + 1 = k /\ ev2[k - 1] = ev[k]
    BY Zenon
  <2>1. k - 1 \in (i + 1)..Len(ev2) /\ (k - 1) + 1 = k
    BY <1>1
  <2> QED
    BY Zenon, <1>2, <2>1
<1>4. (\A k \in (i + 1)..Len(ev2) : ev2[k][2] # p)
         <=> \A k \in (i + 1 + 1)..Len(ev) : ev[k][2] # p
  <2>1. ASSUME \A k \in (i + 1)..Len(ev2) : ev2[k][2] # p, NEW k \in (i + 1 + 1)..Len(ev)
        PROVE  ev[k][2] # p
    BY Zenon, <1>3, <2>1
  <2>2. ASSUME \A k \in (i + 1 + 1)..Len(ev) : ev[k][2] # p, NEW k \in (i + 1)..Len(ev2)
        PROVE  ev2[k][2] # p
    BY Zenon, <1>2, <2>2
  <2> QED
    BY Zenon, <2>1, <2>2
<1>5. ASSUME NEW k \in (i + 1)..Len(ev2), ev2[k] = <<"write", p>>,
             \A j \in (i + 1)..(k - 1) : ev2[j][2] # p
      PROVE  NextIsWrite(ev, i + 1, p, present)
  <2>1. \A j \in (i + 1 + 1)..(k + 1 - 1) : ev[j][2] # p
    <3> SUFFICES ASSUME NEW j \in (i + 1 + 1)..(k + 1 - 1) PROVE ev[j][2] # p
      BY Zenon
    <3>1. j - 1 \in (i + 1)..(k - 1) /\ j \in (i + 1 + 1)..Len(ev)
      BY <1>1
    <3> QED
      BY Zenon, <1>3, <1>5, <3>1
  <2> QED
    BY SMTT(30), <1>2, <1>5, <2>1 DEF NextIsWrite
<1>6. ASSUME NEW k \in (i + 1 + 1)..Len(ev), ev[k] = <<"write", p>>,
             \A j \in (i + 1 + 1)..(k - 1) : ev[j][2] # p
      PROVE  NextIsWrite(ev2, i, p, present)
  <2>1. \A j \in (i + 1)..(k - 1 - 1) : ev2[j][2] # p
    <3> SUFFICES ASSUME NEW j \in (i + 1)..(k - 1 - 1) PROVE ev2[j][2] # p
      BY Zenon
    <3>1. j + 1 \in (i + 1 + 1)..(k - 1) /\ j \in (i + 1)..Len(ev2)
      BY <1>1
    <3> QED
      BY Zenon, <1>2, <1>6, <3>1
  <2> QED
    BY Zenon, <1>3, <1>6, <2>1 DEF NextIsWrite
<1> QED
  BY Zenon, <1>4, <1>5, <1>6 DEF NextIsWrite, ev2

\* The first event of p decides what is next for p,
LEMMA NextIsWriteHead ==
    ASSUME NEW ev \in Events, ev # <<>>, NEW p \in Path, NEW present \in BOOLEAN
    PROVE  /\ Head(ev)[2] = p => (NextIsWrite(ev, 0, p, present) <=> Head(ev)[1] = "write")
           /\ Head(ev)[2] # p =>
                (NextIsWrite(Tail(ev), 0, p, present) <=> NextIsWrite(ev, 0, p, present))
<1>1. Len(ev) \in Nat \ {0} /\ Head(ev) = ev[1] /\ ev[1] \in {"write", "remove"} \X Path
  BY DEF Events
<1>2. ASSUME ev[1][2] = p PROVE NextIsWrite(ev, 0, p, present) <=> ev[1][1] = "write"
  <2>1. 1 \in (0 + 1)..Len(ev)
    BY <1>1
  <2>2. ASSUME ev[1][1] = "write" PROVE NextIsWrite(ev, 0, p, present)
    <3>1. ev[1] = <<"write", p>> /\ \A j \in (0 + 1)..(1 - 1) : ev[j][2] # p
      BY <1>1, <1>2, <2>2
    <3> QED
      BY Zenon, <2>1, <3>1 DEF NextIsWrite
  <2>3. ASSUME NextIsWrite(ev, 0, p, present) PROVE ev[1][1] = "write"
    <3>1. PICK k \in (0 + 1)..Len(ev) :
                 ev[k] = <<"write", p>> /\ \A j \in (0 + 1)..(k - 1) : ev[j][2] # p
      BY Zenon, <1>2, <2>1, <2>3 DEF NextIsWrite
    <3>2. k = 1
      <4>1. k > 1 => 1 \in (0 + 1)..(k - 1)
        BY <3>1
      <4> QED
        BY <1>2, <3>1, <4>1
    <3> QED
      BY <3>1, <3>2
  <2> QED
    BY Zenon, <2>2, <2>3
<1>3. ASSUME ev[1][2] # p
      PROVE  NextIsWrite(ev, 0, p, present) <=> NextIsWrite(ev, 0 + 1, p, present)
  <2>0. \A k \in (0 + 1)..Len(ev) : k = 1 \/ k \in (0 + 1 + 1)..Len(ev)
    BY <1>1
  <2>1. \A k \in (0 + 1 + 1)..Len(ev) : k \in (0 + 1)..Len(ev)
    BY <1>1
  <2>2. (\A k \in (0 + 1)..Len(ev) : ev[k][2] # p)
           <=> \A k \in (0 + 1 + 1)..Len(ev) : ev[k][2] # p
    BY Zenon, <1>3, <2>0, <2>1
  <2>3. ASSUME NEW k \in (0 + 1)..Len(ev), ev[k] = <<"write", p>>,
               \A j \in (0 + 1)..(k - 1) : ev[j][2] # p
        PROVE  NextIsWrite(ev, 0 + 1, p, present)
    <3>1. k \in (0 + 1 + 1)..Len(ev)
      BY <1>3, <2>0, <2>3
    <3>2. \A j \in (0 + 1 + 1)..(k - 1) : j \in (0 + 1)..(k - 1)
      OBVIOUS
    <3> QED
      BY Zenon, <2>3, <3>1, <3>2 DEF NextIsWrite
  <2>4. ASSUME NEW k \in (0 + 1 + 1)..Len(ev), ev[k] = <<"write", p>>,
               \A j \in (0 + 1 + 1)..(k - 1) : ev[j][2] # p
        PROVE  NextIsWrite(ev, 0, p, present)
    <3>1. \A j \in (0 + 1)..(k - 1) : j = 1 \/ j \in (0 + 1 + 1)..(k - 1)
      OBVIOUS
    <3> QED
      BY Zenon, <1>3, <2>1, <2>4, <3>1 DEF NextIsWrite
  <2> QED
    BY Zenon, <2>2, <2>3, <2>4 DEF NextIsWrite
<1>4. NextIsWrite(Tail(ev), 0, p, present) <=> NextIsWrite(ev, 0 + 1, p, present)
  <2>1. 0 \in 0..(Len(ev) - 1)
    BY <1>1
  <2> QED
    BY Zenon, <2>1, NextIsWriteTail
<1> QED
  BY Zenon, <1>1, <1>2, <1>3, <1>4

\* and then the next one is of the other kind.
LEMMA AlternatesTail ==
    ASSUME NEW ev \in Events, ev # <<>>, NEW p \in Path, NEW present \in BOOLEAN,
           Alternates(ev, p, present)
    PROVE  /\ Alternates(Tail(ev), p, present)
           /\ Head(ev)[2] = p =>
                (NextIsWrite(Tail(ev), 0, p, present) <=> Head(ev)[1] = "remove")
<1> DEFINE ev2 == Tail(ev)
<1>1. /\ Len(ev) \in Nat \ {0} /\ Len(ev2) = Len(ev) - 1 /\ Head(ev) = ev[1]
      /\ \A k \in 1..Len(ev2) : ev2[k] = ev[k + 1]
  BY DEF Events
<1>2. \A i \in 0..(Len(ev) - 1) :
        NextIsWrite(ev2, i, p, present) <=> NextIsWrite(ev, i + 1, p, present)
  BY Zenon, NextIsWriteTail
<1> HIDE DEF ev2
<1>3. ASSUME NEW i \in 1..Len(ev2), ev2[i][2] = p
      PROVE  ev2[i][1] = "remove" <=> NextIsWrite(ev2, i, p, present)
  <2>1. i \in 0..(Len(ev) - 1) /\ i + 1 \in 1..Len(ev) /\ ev2[i] = ev[i + 1]
    BY <1>1
  <2> QED
    BY Zenon, <1>2, <1>3, <2>1 DEF Alternates
<1>4. ASSUME ev[1][2] = p PROVE NextIsWrite(ev2, 0, p, present) <=> ev[1][1] = "remove"
  <2>1. 0 \in 0..(Len(ev) - 1) /\ 1 \in 1..Len(ev) /\ 0 + 1 = 1
    BY <1>1
  <2>2. NextIsWrite(ev2, 0, p, present) <=> NextIsWrite(ev, 1, p, present)
    BY Zenon, <1>2, <2>1
  <2> QED
    BY Zenon, <1>4, <2>1, <2>2 DEF Alternates
<1> QED
  BY Zenon, <1>1, <1>3, <1>4 DEF Alternates, ev2

Present(p) == disk[p] # Absent

Tidy(p) == p \notin hist.muddled /\ Unshared(p)

Idx(f, p) == index[f] = p
NoneAt(p) == \A f \in File : ~ Row(f, p) /\ ~ Idx(f, p)
Paired(p) == /\ \A f \in File : Row(f, p) <=> Idx(f, p)
             /\ \A f, g \in File : Row(f, p) /\ Row(g, p) => f = g
OnlyRow(f, p) == \A g \in File : Row(g, p) <=> g = f
OnlyIdx(f, p) == \A g \in File : Idx(g, p) <=> g = f

NoRun(p) == \A r \in Worker : run[r].path # p

\* What a run has done for p so far.
RunInv(r, p) ==
    /\ \A s \in Worker : run[s].path = p => s = r
    /\ timer[p] = IF run[r].at = "start" THEN "expired" ELSE "none"
    /\ run[r].at \in {"put", "add", "notify"} => run[r].file = disk[p]
    /\ run[r].at \in {"start", "hash", "put"} => NoneAt(p)
    /\ run[r].at = "add" => OnlyRow(run[r].file, p) /\ \A f \in File : ~ Idx(f, p)
    /\ run[r].at = "notify" => OnlyRow(run[r].file, p) /\ OnlyIdx(run[r].file, p)

ScanInv(p) ==
    /\ \A f \in File : Row(f, p) \/ Idx(f, p) => f = disk[p]
    /\ run[Scanner].path = p =>
         /\ p \notin walk
         /\ run[Scanner].at \in {"put", "add", "notify"} => run[Scanner].file = disk[p]
         /\ run[Scanner].at \in {"add", "notify"} => Row(disk[p], p)
         /\ run[Scanner].at = "notify" => Idx(disk[p], p)
    /\ phase = "scan" /\ p \notin walk /\ run[Scanner].path # p => Paired(p)

CleanInv(p) ==
    /\ timer[p] = "none" /\ NoRun(p)
    /\ loop.path # p => NoneAt(p)
    /\ loop.path = p =>
         /\ loop.at = "lookup" => Paired(p)
         /\ loop.at = "delete" => OnlyRow(loop.file, p) /\ OnlyIdx(loop.file, p)
         /\ loop.at = "remove" => /\ \A f \in File : ~ Row(f, p)
                                  /\ \A f \in File : Idx(f, p) => f = loop.file
         /\ loop.at = "notify" => NoneAt(p)

\* Nothing is queued for p.
NoEvents(p) == \A i \in 1..Len(events) : events[i][2] # p

DirtyInv(p) ==
    /\ loop.path # p
    /\ \A r \in Worker : run[r].path = p => RunInv(r, p)
    /\ NoRun(p) => /\ timer[p] # "expired"
                   /\ timer[p] = "armed" => NoneAt(p)
                   /\ Paired(p)
                   /\ NoEvents(p) => \A f \in File : Row(f, p) => f = disk[p]

ForgetAt(p) ==
    /\ orphans[p] = 0
    /\ Alternates(events, p, Present(p))
    /\ phase # "watch" => ScanInv(p)
    /\ phase = "watch" /\ NextIsWrite(events, 0, p, Present(p)) => CleanInv(p)
    /\ phase = "watch" /\ ~ NextIsWrite(events, 0, p, Present(p)) => DirtyInv(p)

ForgetInv == \A p \in Path : Tidy(p) => ForgetAt(p)

\* A step that leaves alone everything that concerns p.
SameRows(p) == \A f \in File : (Row(f, p)' <=> Row(f, p)) /\ (Idx(f, p)' <=> Idx(f, p))

SameQueue(p) ==
    /\ Alternates(events, p, Present(p)) => Alternates(events, p, Present(p))'
    /\ NextIsWrite(events, 0, p, Present(p))' <=> NextIsWrite(events, 0, p, Present(p))

SameWork(p) ==
    /\ timer'[p] = timer[p] /\ orphans'[p] = orphans[p] /\ phase' = phase
    /\ p \in walk' <=> p \in walk
    /\ \A r \in Worker : run[r].path = p \/ run'[r].path = p => run'[r] = run[r]
    /\ loop.path = p \/ loop'.path = p => loop' = loop

\* Such a step keeps p forgotten, or about to be.
LEMMA ForgetFrame ==
    ASSUME TypeInv, NEW p \in Path, ForgetAt(p), SameRows(p), SameQueue(p), SameWork(p),
           disk'[p] = disk[p], NoEvents(p)' => NoEvents(p)
    PROVE  ForgetAt(p)'
<1>1. orphans'[p] = 0 /\ Alternates(events, p, Present(p))'
  BY Zenon DEF ForgetAt, SameWork, SameQueue
<1>2. NoneAt(p)' <=> NoneAt(p)
  BY Zenon DEF SameRows, NoneAt
<1>3. Paired(p) => Paired(p)'
  BY Zenon DEF SameRows, Paired
<1>4. ASSUME NEW f \in File
      PROVE  (OnlyRow(f, p) => OnlyRow(f, p)') /\ (OnlyIdx(f, p) => OnlyIdx(f, p)')
  BY Zenon DEF SameRows, OnlyRow, OnlyIdx
<1>5. ASSUME ScanInv(p), phase # "watch" PROVE ScanInv(p)'
  <2>1. /\ \A f \in File : Row(f, p)' \/ Idx(f, p)' => f = disk'[p]
    BY Zenon, <1>5 DEF ScanInv, SameRows
  <2>2. Scanner \in Worker /\ (run[Scanner].path = p \/ run'[Scanner].path = p => run'[Scanner] = run[Scanner])
    BY Zenon DEF SameWork, Worker
  <2>3. run'[Scanner].path = p =>
         /\ p \notin walk'
         /\ run'[Scanner].at \in {"put", "add", "notify"} => run'[Scanner].file = disk'[p]
         /\ run'[Scanner].at \in {"add", "notify"} => Row(disk[p], p)'
         /\ run'[Scanner].at = "notify" => Idx(disk[p], p)'
    <3> SUFFICES ASSUME run'[Scanner].path = p
                 PROVE  /\ p \notin walk'
                        /\ run'[Scanner].at \in {"put", "add", "notify"} => run'[Scanner].file = disk'[p]
                        /\ run'[Scanner].at \in {"add", "notify"} => Row(disk[p], p)'
                        /\ run'[Scanner].at = "notify" => Idx(disk[p], p)'
      BY Zenon
    <3>1. run'[Scanner] = run[Scanner] /\ run[Scanner].path = p /\ p \notin walk
      BY Zenon, <1>5, <2>2 DEF ScanInv
    <3>2. run[Scanner].at \in {"put", "add", "notify"} => run[Scanner].file = disk[p] /\ disk[p] \in File
      BY Zenon, <1>5, <2>2, <3>1 DEF ScanInv, TypeInv, RunOK
    <3> QED
      BY Zenon, <1>5, <3>1, <3>2 DEF ScanInv, SameRows, SameWork
  <2>4. phase' = "scan" /\ p \notin walk' /\ run'[Scanner].path # p => Paired(p)'
    BY Zenon, <1>3, <1>5, <2>2 DEF ScanInv, SameWork
  <2> QED
    BY Zenon, <2>1, <2>3, <2>4 DEF ScanInv
<1>6. NoRun(p)' <=> NoRun(p)
  BY Zenon DEF NoRun, SameWork
<1>7. ASSUME CleanInv(p) PROVE CleanInv(p)'
  <2>1. timer'[p] = "none" /\ NoRun(p)'
    BY Zenon, <1>6, <1>7 DEF CleanInv, SameWork
  <2>2. loop'.path # p => NoneAt(p)'
    BY Zenon, <1>2, <1>7 DEF CleanInv, SameWork
  <2>3. ASSUME loop'.path = p
        PROVE  /\ loop'.at = "lookup" => Paired(p)'
               /\ loop'.at = "delete" => OnlyRow(loop.file, p)' /\ OnlyIdx(loop.file, p)'
               /\ loop'.at = "remove" => /\ \A f \in File : ~ Row(f, p)'
                                         /\ \A f \in File : Idx(f, p)' => f = loop'.file
               /\ loop'.at = "notify" => NoneAt(p)'
    <3>1. loop' = loop
      BY Zenon, <2>3 DEF SameWork
    <3>2. loop.at = "delete" => OnlyRow(loop.file, p)' /\ OnlyIdx(loop.file, p)'
      <4>1. loop.at = "delete" => OnlyRow(loop.file, p) /\ OnlyIdx(loop.file, p)
        BY Zenon, <1>7, <2>3, <3>1 DEF CleanInv
      <4> QED
        BY Zenon, <3>1, <4>1 DEF SameRows, OnlyRow, OnlyIdx
    <3> QED
      BY Zenon, <1>2, <1>3, <1>7, <2>3, <3>1, <3>2 DEF CleanInv, SameRows
  <2> QED
    BY Zenon, <2>1, <2>2, <2>3 DEF CleanInv
<1>8. ASSUME DirtyInv(p) PROVE DirtyInv(p)'
  <2>1. loop'.path # p
    BY Zenon, <1>8 DEF DirtyInv, SameWork
  <2>2. ASSUME NEW r \in Worker, run'[r].path = p PROVE RunInv(r, p)'
    <3>1. run'[r] = run[r] /\ RunInv(r, p)
      BY Zenon, <1>8, <2>2 DEF DirtyInv, SameWork
    <3>2. \A s \in Worker : run'[s].path = p => s = r
      BY Zenon, <3>1 DEF RunInv, SameWork
    <3>3. run[r].at = "add" => OnlyRow(run[r].file, p)' /\ \A f \in File : ~ Idx(f, p)'
      BY Zenon, <3>1 DEF RunInv, SameRows, OnlyRow
    <3>4. run[r].at = "notify" => OnlyRow(run[r].file, p)' /\ OnlyIdx(run[r].file, p)'
      BY Zenon, <3>1 DEF RunInv, SameRows, OnlyRow, OnlyIdx
    <3> QED
      BY Zenon, <1>2, <3>1, <3>2, <3>3, <3>4 DEF RunInv, SameWork
  <2>3. ASSUME NoRun(p)'
        PROVE  /\ timer'[p] # "expired"
               /\ timer'[p] = "armed" => NoneAt(p)'
               /\ Paired(p)'
               /\ NoEvents(p)' => \A f \in File : Row(f, p)' => f = disk'[p]
    BY Zenon, <1>2, <1>3, <1>6, <1>8, <2>3 DEF DirtyInv, SameWork, SameRows, NoEvents
  <2> QED
    BY Zenon, <2>1, <2>2, <2>3 DEF DirtyInv, NoEvents
<1> QED
  BY Zenon, <1>1, <1>5, <1>7, <1>8 DEF ForgetAt, SameQueue, SameWork

\* A step makes no path tidy.
LEMMA TidyBefore ==
    ASSUME TypeInv, [Next]_vars, NEW p \in Path, Tidy(p)'
    PROVE  Tidy(p)
<1>1. ASSUME hist'.homes = hist.homes, hist.muddled \subseteq hist'.muddled PROVE Tidy(p)
  BY Zenon, <1>1 DEF Tidy, Unshared
<1>2. CASE UNCHANGED vars
  BY Zenon, <1>1, <1>2 DEF vars
<1>3. ASSUME NEW new, NEW evs, Changed(new, evs) PROVE Tidy(p)
  <2>1. /\ \A f \in File : hist.homes[f] \subseteq hist'.homes[f]
        /\ hist.muddled \subseteq hist'.muddled
    BY Zenon, <1>3 DEF Changed, TypeInv, Shape
  <2> QED
    BY Zenon, <2>1 DEF Tidy, Unshared
<1>4. ASSUME NEW q \in Path, NEW f \in File, WriteFile(q, f) PROVE Tidy(p)
  BY Zenon, <1>3, <1>4 DEF WriteFile
<1>5. ASSUME NEW q \in Path, RemoveFile(q) PROVE Tidy(p)
  BY Zenon, <1>3, <1>5 DEF RemoveFile
<1>6. ASSUME NEW q \in Path, NEW x \in Path, RenameFile(q, x) PROVE Tidy(p)
  BY Zenon, <1>3, <1>6 DEF RenameFile
<1>7. ASSUME NEW r \in Worker, HashFile(r) \/ PutEntry(r) PROVE Tidy(p)
  BY Zenon, <1>1, <1>7 DEF HashFile, PutEntry
<1>8. ASSUME NEW r \in Worker, AddToIndex(r) \/ NotifyChange(r) PROVE Tidy(p)
  <2>1. hist'.homes = hist.homes /\ hist'.muddled = hist.muddled
    BY Zenon, <1>8 DEF AddToIndex, NotifyChange, TypeInv, Shape
  <2> QED
    BY Zenon, <1>1, <2>1
<1>9. ASSUME NEW q \in Path, IndexScan(q) \/ ScanFile(q) PROVE Tidy(p)
  BY Zenon, <1>1, <1>9 DEF IndexScan, ScanFile
<1>10. CASE NextPhase
  BY Zenon, <1>1, <1>10 DEF NextPhase
<1>11. CASE Restart
  <2>1. hist'.homes = hist.homes /\ hist.muddled \subseteq hist'.muddled
    BY Zenon, <1>11 DEF Restart, TypeInv, Shape
  <2> QED
    BY Zenon, <1>1, <2>1
<1>12. CASE HandleEvent
  <2>1. hist'.homes = hist.homes /\ hist.muddled \subseteq hist'.muddled
    BY <1>12 DEF HandleEvent, TypeInv, Shape
  <2> QED
    BY Zenon, <1>1, <2>1
<1>13. CASE RemoveLookup \/ RemoveDelete \/ RemoveIndex
  BY Zenon, <1>1, <1>13 DEF RemoveLookup, RemoveDelete, RemoveIndex
<1>14. CASE RemoveNotify
  <2>1. hist'.homes = hist.homes /\ hist'.muddled = hist.muddled
    BY Zenon, <1>14 DEF RemoveNotify, TypeInv, Shape
  <2> QED
    BY Zenon, <1>1, <2>1
<1>15. ASSUME NEW q \in Path, NEW r \in Run, TimerExpires(q, r) PROVE Tidy(p)
  BY Zenon, <1>1, <1>15 DEF TimerExpires
<1>16. ASSUME NEW r \in Run, TimerDeletes(r) PROVE Tidy(p)
  BY Zenon, <1>1, <1>16 DEF TimerDeletes
<1>17. CASE LoseEvent
  <2>1. hist'.homes = hist.homes /\ hist.muddled \subseteq hist'.muddled
    BY Zenon, <1>17, EventLost
  <2> QED
    BY Zenon, <1>1, <2>1
<1> QED
  BY ZenonT(40), <1>2, <1>4, <1>5, <1>6, <1>7, <1>8, <1>9, <1>10, <1>11, <1>12, <1>13, <1>14,
     <1>15, <1>16, <1>17 DEF Next, IndexFile, Worker

\* A content that was elsewhere has no row and no index entry at a tidy path.
LEMMA Elsewhere ==
    ASSUME HomesInv, NEW p \in Path, Tidy(p), NEW f \in File, NEW q \in hist.homes[f], q # p
    PROVE  ~ Row(f, p) /\ ~ Idx(f, p)
BY NoPathAssumption DEF HomesInv, Tidy, Unshared, Row, Idx

\* indexFile does nothing to another path's rows,
LEMMA OtherRun ==
    ASSUME TypeInv, HomesInv, NEW p \in Path, Tidy(p), NEW r \in Worker, IndexFile(r),
           run[r].path # p
    PROVE  SameRows(p)
<1>1. CASE HashFile(r) \/ NotifyChange(r)
  BY Zenon, <1>1 DEF HashFile, NotifyChange, SameRows, Row, Idx
<1>2. CASE PutEntry(r)
  <2>1. /\ run[r].file \in File /\ run[r].path \in hist.homes[run[r].file]
    BY ZenonT(40), <1>2 DEF PutEntry, TypeInv, RunOK, HomesInv
  <2>2. ~ Row(run[r].file, p) /\ ~ Row(run[r].file, p)'
    <3>1. store'.entries[Self][run[r].file] = [state |-> "live", path |-> run[r].path]
      BY Zenon, <1>2, PutRow
    <3>2. ~ Row(run[r].file, p)
      BY Zenon, <2>1, Elsewhere
    <3>3. run'[r].file = run[r].file
      BY Zenon, <1>2 DEF PutEntry, TypeInv, Shape, Worker, Position
    <3> QED
      BY <3>1, <3>2, <3>3 DEF Row
  <2>3. \A f \in File \ {run[r].file} : store'.entries[Self][f] = store.entries[Self][f]
    BY Zenon, <1>2, PutRow
  <2>4. run'[r].file = run[r].file /\ index' = index
    BY Zenon, <1>2 DEF PutEntry, TypeInv, Shape, Worker, Position
  <2> QED
    BY Zenon, <2>2, <2>3, <2>4 DEF SameRows, Row, Idx
<1>3. CASE AddToIndex(r)
  <2>1. run[r].path \in Path /\ store' = store
    BY Zenon, <1>3 DEF AddToIndex, TypeInv, RunOK
  <2>2. CASE disk[run[r].path] = Absent
    BY Zenon, <1>3, <2>2 DEF AddToIndex, SameRows, Row, Idx
  <2>3. CASE disk[run[r].path] # Absent
    <3> DEFINE g == disk[run[r].path]
    <3>1. g \in File /\ run[r].path \in hist.homes[g]
      BY Zenon, <2>1, <2>3 DEF TypeInv, Shape, HomesInv
    <3>2. index' = [index EXCEPT ![g] = run[r].path] /\ index \in [File -> Path \cup {NoPath}]
      BY Zenon, <1>3, <2>3 DEF AddToIndex, TypeInv, Shape
    <3>3. index[g] # p
      BY Zenon, <3>1, Elsewhere DEF Idx
    <3> HIDE DEF g
    <3> QED
      BY Zenon, <2>1, <3>1, <3>2, <3>3 DEF SameRows, Row, Idx
  <2> QED
    BY Zenon, <2>2, <2>3
<1> QED
  BY Zenon, <1>1, <1>2, <1>3 DEF IndexFile

\* nor does the first walk,
LEMMA OtherIndexScan ==
    ASSUME TypeInv, HomesInv, NEW p \in Path, Tidy(p), NEW q \in Path \ {p}, IndexScan(q)
    PROVE  SameRows(p)
<1>1. CASE disk[q] = Absent
  BY Zenon, <1>1 DEF IndexScan, SameRows, Row, Idx
<1>2. CASE disk[q] # Absent
  <2>1. disk[q] \in File /\ q \in hist.homes[disk[q]]
    BY Zenon, <1>2 DEF TypeInv, Shape, HomesInv
  <2>2. index[disk[q]] # p
    BY Zenon, <2>1, Elsewhere DEF Idx
  <2> QED
    BY Zenon, <1>2, <2>1, <2>2 DEF IndexScan, SameRows, Row, Idx, TypeInv, Shape
<1> QED
  BY Zenon, <1>1, <1>2

\* nor handleRemove.
LEMMA OtherRemove ==
    ASSUME TypeInv, HomesInv, NEW p \in Path, Tidy(p), RemoveDelete \/ RemoveIndex,
           loop.path # p
    PROVE  SameRows(p)
<1>1. loop.file \in File /\ loop.path \in hist.homes[loop.file]
  BY Zenon DEF RemoveDelete, RemoveIndex, TypeInv, LoopOK, HomesInv
<1>2. ~ Row(loop.file, p) /\ ~ Idx(loop.file, p)
  BY Zenon, <1>1, Elsewhere
<1>3. CASE RemoveDelete
  <2>1. /\ store'.entries[Self][loop.file].state # "live"
        /\ \A f \in File \ {loop.file} : store'.entries[Self][f] = store.entries[Self][f]
    BY Zenon, <1>3, DeleteRow
  <2>2. index' = index
    BY Zenon, <1>3 DEF RemoveDelete
  <2> QED
    BY Zenon, <1>2, <2>1, <2>2 DEF SameRows, Row, Idx
<1>4. CASE RemoveIndex
  <2>1. index' = [index EXCEPT ![loop.file] = NoPath] /\ store' = store
    BY Zenon, <1>4 DEF RemoveIndex
  <2> QED
    BY Zenon, <1>1, <1>2, <2>1, NoPathAssumption DEF SameRows, Row, Idx, TypeInv, Shape
<1> QED
  BY Zenon, <1>3, <1>4

\* What a queue says of p is the same in two queues.
Alike(ev, present, ev2, present2, p) ==
    /\ Alternates(ev, p, present) => Alternates(ev2, p, present2)
    /\ NextIsWrite(ev2, 0, p, present2) <=> NextIsWrite(ev, 0, p, present)

\* An event of another path is added,
LEMMA AlikeOther ==
    ASSUME NEW ev \in Events, NEW t \in {"write", "remove"}, NEW p \in Path, NEW q \in Path \ {p},
           NEW present \in BOOLEAN
    PROVE  Alike(ev, present, Append(ev, <<t, q>>), present, p)
<1>1. 0 \in 0..Len(ev)
  BY DEF Events
<1> QED
  BY <1>1, AlternatesOther, NextIsWriteOther DEF Alike

\* or p's own.
LEMMA AlikeOwn ==
    ASSUME NEW ev \in Events, NEW t \in {"write", "remove"}, NEW p \in Path,
           NEW present \in BOOLEAN, present <=> t = "remove"
    PROVE  Alike(ev, present, Append(ev, <<t, p>>), ~ present, p)
<1>1. 0 \in 0..Len(ev)
  BY DEF Events
<1> QED
  BY Zenon, <1>1, AlternatesOwn, NextIsWriteOwn DEF Alike

\* A change of the folder that does not touch p.
LEMMA OtherChange ==
    ASSUME TypeInv, NEW p \in Path, ForgetAt(p), NEW new, NEW evs, Changed(new, evs),
           new[p] = disk[p],
           phase = "watch" => /\ Alike(events, Present(p), events \o evs, Present(p), p)
                              /\ NoEvents(p)' => NoEvents(p)
    PROVE  ForgetAt(p)'
<1>1. SameRows(p) /\ disk'[p] = disk[p]
  BY Zenon DEF Changed, SameRows, Row, Idx
<1>2. SameWork(p)
  BY Zenon DEF Changed, SameWork
<1>3. SameQueue(p) /\ (NoEvents(p)' => NoEvents(p))
  <2>1. CASE phase = "watch"
    BY Zenon, <2>1, <1>1 DEF Changed, SameQueue, Alike, Present
  <2>2. CASE phase # "watch"
    <3>1. events' = events
      BY Zenon, <2>2 DEF Changed
    <3> QED
      BY Zenon, <1>1, <3>1 DEF SameQueue, NoEvents, Present
  <2> QED
    BY Zenon, <2>1, <2>2
<1> QED
  BY Zenon, <1>1, <1>2, <1>3, ForgetFrame

\* A change that makes p come or go: nothing was at work on p.
LEMMA OwnChange ==
    ASSUME TypeInv, NEW p \in Path, ForgetAt(p), Tidy(p)', NEW new, NEW evs, Changed(new, evs),
           new[p] # disk[p],
           phase = "watch" => /\ Alike(events, Present(p), events \o evs, ~ Present(p), p)
                              /\ ~ NoEvents(p)'
    PROVE  ForgetAt(p)'
<1>1. /\ phase = "watch" /\ ~ InFlight(p) /\ (disk[p] = Absent \/ new[p] = Absent)
      /\ events' = events \o evs /\ disk' = new
      /\ UNCHANGED <<store, index, phase, walk, loop, timer, orphans, run>>
  <2>1. hist'.muddled = hist.muddled \cup {q \in {q \in Path : new[q] # disk[q]} :
                              \/ phase # "watch" \/ InFlight(q)
                              \/ disk[q] # Absent /\ new[q] # Absent}
    BY Zenon DEF Changed, TypeInv, Shape
  <2>2. p \notin hist'.muddled
    BY Zenon DEF Tidy
  <2> QED
    BY Zenon, <2>1, <2>2 DEF Changed
<1>2. Present(p)' <=> ~ Present(p)
  BY Zenon, <1>1 DEF Present
<1>3. /\ Alternates(events, p, Present(p)) => Alternates(events, p, Present(p))'
      /\ NextIsWrite(events, 0, p, Present(p))' <=> NextIsWrite(events, 0, p, Present(p))
      /\ ~ NoEvents(p)'
  BY Zenon, <1>1, <1>2 DEF Alike, Present
<1>4. NoRun(p)
  BY Zenon, <1>1 DEF InFlight, NoRun, Worker
<1>5. CleanInv(p) => CleanInv(p)'
  BY Zenon, <1>1 DEF CleanInv, NoneAt, Paired, OnlyRow, OnlyIdx, Row, Idx, NoRun
<1>6. DirtyInv(p) => DirtyInv(p)'
  <2> SUFFICES ASSUME DirtyInv(p) PROVE DirtyInv(p)'
    BY Zenon
  <2>1. NoRun(p)' /\ loop'.path # p /\ timer'[p] # "expired"
    BY Zenon, <1>1, <1>4 DEF NoRun, DirtyInv
  <2>2. (timer'[p] = "armed" => NoneAt(p)') /\ Paired(p)'
    BY Zenon, <1>1, <1>4 DEF DirtyInv, NoneAt, Paired, Row, Idx
  <2> QED
    BY Zenon, <1>3, <2>1, <2>2 DEF DirtyInv, NoRun
<1> QED
  BY Zenon, <1>1, <1>3, <1>5, <1>6 DEF ForgetAt

\* What an added event does to the events of p.
LEMMA NoEventsAppend ==
    ASSUME TypeInv, NEW t \in {"write", "remove"}, NEW p \in Path, NEW q \in Path
    PROVE  /\ events' = Append(events, <<t, q>>) =>
                 (q = p => ~ NoEvents(p)') /\ (NoEvents(p)' => NoEvents(p))
<1>1. events \in Seq({"write", "remove"} \X Path)
  BY Zenon DEF TypeInv, Shape
<1> SUFFICES ASSUME events' = Append(events, <<t, q>>)
             PROVE  (q = p => ~ NoEvents(p)') /\ (NoEvents(p)' => NoEvents(p))
  BY Zenon
<1>2. /\ Len(events) \in Nat /\ Len(events') = Len(events) + 1
      /\ events'[Len(events) + 1] = <<t, q>>
      /\ \A i \in 1..Len(events) : events'[i] = events[i]
  BY <1>1
<1>3. Len(events) + 1 \in 1..Len(events') /\ \A i \in 1..Len(events) : i \in 1..Len(events')
  BY <1>2
<1> QED
  BY <1>2, <1>3 DEF NoEvents

\* Writing keeps ForgetAt for every path that is still tidy,
LEMMA ForgetWrite ==
    ASSUME TypeInv, NEW p \in Path, ForgetAt(p), Tidy(p)',
           NEW q \in Path, NEW f \in File, WriteFile(q, f)
    PROVE  ForgetAt(p)'
<1> DEFINE new == [disk EXCEPT ![q] = f]
           evs == <<<<"write", q>>>>
<1>1. Changed(new, evs) /\ disk[q] # f
  BY Zenon DEF WriteFile
<1>2. events \in Events /\ events \o evs = Append(events, <<"write", q>>)
  BY DEF TypeInv, Shape, Events
<1>3. phase = "watch" => events' = Append(events, <<"write", q>>)
  BY Zenon, <1>1, <1>2 DEF Changed
<1>4. Present(p) \in BOOLEAN
  BY Zenon DEF Present
<1>5. CASE p # q
  <2>1. new[p] = disk[p]
    BY Zenon, <1>5 DEF TypeInv, Shape
  <2>2. Alike(events, Present(p), events \o evs, Present(p), p)
    BY Zenon, <1>2, <1>4, <1>5, AlikeOther
  <2>3. phase = "watch" => (NoEvents(p)' => NoEvents(p))
    BY Zenon, <1>3, NoEventsAppend
  <2> HIDE DEF new, evs
  <2> QED
    BY Zenon, <1>1, <2>1, <2>2, <2>3, OtherChange
<1>6. CASE p = q
  <2>1. new[p] = f /\ new[p] # disk[p]
    BY Zenon, <1>1, <1>6 DEF TypeInv, Shape
  <2>2. ~ Present(p) => Alike(events, Present(p), events \o evs, ~ Present(p), p)
    BY Zenon, <1>2, <1>4, <1>6, AlikeOwn
  <2>3. phase = "watch" => ~ NoEvents(p)'
    BY Zenon, <1>3, <1>6, NoEventsAppend
  <2>4. phase = "watch" => ~ Present(p)
    <3>1. hist'.muddled = hist.muddled \cup {x \in {x \in Path : new[x] # disk[x]} :
                              \/ phase # "watch" \/ InFlight(x)
                              \/ disk[x] # Absent /\ new[x] # Absent}
      BY Zenon, <1>1 DEF Changed, TypeInv, Shape
    <3>2. p \notin hist'.muddled /\ f # Absent
      BY Zenon, WatcherAssumption DEF Tidy
    <3> HIDE DEF new
    <3> QED
      BY Zenon, <2>1, <3>1, <3>2 DEF Present
  <2> HIDE DEF new, evs
  <2> QED
    BY Zenon, <1>1, <2>1, <2>2, <2>3, <2>4, OwnChange
<1> QED
  BY Zenon, <1>5, <1>6

\* so does removing,
LEMMA ForgetRemove ==
    ASSUME TypeInv, NEW p \in Path, ForgetAt(p), Tidy(p)', NEW q \in Path, RemoveFile(q)
    PROVE  ForgetAt(p)'
<1> DEFINE new == [disk EXCEPT ![q] = Absent]
           evs == <<<<"remove", q>>>>
<1>1. Changed(new, evs) /\ disk[q] # Absent
  BY Zenon DEF RemoveFile
<1>2. events \in Events /\ events \o evs = Append(events, <<"remove", q>>)
  BY DEF TypeInv, Shape, Events
<1>3. phase = "watch" => events' = Append(events, <<"remove", q>>)
  BY Zenon, <1>1, <1>2 DEF Changed
<1>4. Present(p) \in BOOLEAN
  BY Zenon DEF Present
<1>5. CASE p # q
  <2>1. new[p] = disk[p]
    BY Zenon, <1>5 DEF TypeInv, Shape
  <2>2. Alike(events, Present(p), events \o evs, Present(p), p)
    BY Zenon, <1>2, <1>4, <1>5, AlikeOther
  <2>3. phase = "watch" => (NoEvents(p)' => NoEvents(p))
    BY Zenon, <1>3, NoEventsAppend
  <2> HIDE DEF new, evs
  <2> QED
    BY Zenon, <1>1, <2>1, <2>2, <2>3, OtherChange
<1>6. CASE p = q
  <2>1. new[p] = Absent /\ new[p] # disk[p] /\ Present(p)
    BY Zenon, <1>1, <1>6 DEF TypeInv, Shape, Present
  <2>2. Alike(events, Present(p), events \o evs, ~ Present(p), p)
    BY Zenon, <1>2, <1>4, <1>6, <2>1, AlikeOwn
  <2>3. phase = "watch" => ~ NoEvents(p)'
    BY Zenon, <1>3, <1>6, NoEventsAppend
  <2> HIDE DEF new, evs
  <2> QED
    BY Zenon, <1>1, <2>1, <2>2, <2>3, OwnChange
<1> QED
  BY Zenon, <1>5, <1>6

\* and so does renaming: the two paths of a rename have had the same content.
LEMMA ForgetRename ==
    ASSUME TypeInv, HomesInv, NEW p \in Path, ForgetAt(p), Tidy(p)',
           NEW x \in Path, NEW q \in Path, RenameFile(x, q)
    PROVE  ForgetAt(p)'
<1> DEFINE new == [disk EXCEPT ![q] = disk[x], ![x] = Absent]
           evs == <<<<"remove", x>>, <<"write", q>>>>
           ev1 == Append(events, <<"remove", x>>)
<1>1. Changed(new, evs) /\ disk[x] \in File /\ x # q
  BY Zenon DEF RenameFile, TypeInv, Shape
<1>2. events \in Events /\ ev1 \in Events /\ events \o evs = Append(ev1, <<"write", q>>)
  BY SMTT(30) DEF TypeInv, Shape, Events
<1>3. p # x /\ p # q
  <2>1. new[q] = disk[x]
    BY Zenon, <1>1 DEF TypeInv, Shape
  <2>2. x \in hist.homes[disk[x]]
    BY Zenon, <1>1, WatcherAssumption DEF HomesInv
  <2>3. hist'.homes[disk[x]] = hist.homes[disk[x]] \cup {y \in Path : new[y] = disk[x]}
    BY Zenon, <1>1 DEF Changed, TypeInv, Shape
  <2> HIDE DEF new
  <2>4. x \in hist'.homes[disk[x]] /\ q \in hist'.homes[disk[x]]
    BY Zenon, <2>1, <2>2, <2>3
  <2> QED
    BY Zenon, <1>1, <2>4 DEF Tidy, Unshared
<1>4. new[p] = disk[p] /\ Present(p) \in BOOLEAN
  BY Zenon, <1>3 DEF TypeInv, Shape, Present
<1>5. Alike(events, Present(p), events \o evs, Present(p), p)
  <2>1. Alike(events, Present(p), ev1, Present(p), p)
    BY Zenon, <1>2, <1>3, <1>4, AlikeOther
  <2>2. Alike(ev1, Present(p), Append(ev1, <<"write", q>>), Present(p), p)
    BY Zenon, <1>2, <1>3, <1>4, AlikeOther
  <2> HIDE DEF ev1, evs
  <2> QED
    BY Zenon, <1>2, <2>1, <2>2 DEF Alike
<1>6. phase = "watch" => (NoEvents(p)' => NoEvents(p))
  <2> SUFFICES ASSUME phase = "watch", NoEvents(p)' PROVE NoEvents(p)
    BY Zenon
  <2>1. events' = events \o evs
    BY Zenon, <1>1 DEF Changed
  <2>2. \A i \in 1..Len(events) : i \in 1..Len(events') /\ events'[i] = events[i]
    BY <1>2, <2>1 DEF Events
  <2> QED
    BY Zenon, <2>2 DEF NoEvents
<1> HIDE DEF new, evs
<1> QED
  BY Zenon, <1>1, <1>4, <1>5, <1>6, OtherChange

\* An overflow loses another path's event: p's own would have muddled p.
LEMMA ForgetLose ==
    ASSUME TypeInv, NEW p \in Path, ForgetAt(p), Tidy(p)', LoseEvent
    PROVE  ForgetAt(p)'
<1>1. PICK t \in {"write", "remove"}, q \in Path :
           /\ events[Len(events)] = <<t, q>> /\ events = Append(events', <<t, q>>)
           /\ events' \in Seq({"write", "remove"} \X Path)
           /\ Len(events) \in Nat \ {0} /\ Len(events') = Len(events) - 1
           /\ \A i \in 1..Len(events') : events'[i] = events[i]
           /\ hist' = [hist EXCEPT !.unseen = @ \cup {q}, !.muddled = @ \cup {q}]
  BY Zenon, EventLost
<1>2. q # p
  <2>1. hist'.muddled = hist.muddled \cup {q}
    BY Zenon, <1>1 DEF TypeInv, Shape
  <2> QED
    BY Zenon, <2>1 DEF Tidy
<1>3. UNCHANGED <<disk, store, index, phase, walk, loop, timer, orphans, run>>
  BY Zenon DEF LoseEvent
<1>4. SameRows(p) /\ SameWork(p) /\ disk'[p] = disk[p] /\ Present(p)' = Present(p)
  BY Zenon, <1>3 DEF SameRows, SameWork, Row, Idx, Present
<1>5. PICK ev \in Events : ev = events'
  BY Zenon, <1>1 DEF Events
<1>6. Alternates(events, p, Present(p)) => Alternates(ev, p, Present(p))
  BY Zenon, <1>1, <1>2, <1>5, AlternatedOther DEF Present
<1>7. NextIsWrite(ev, 0, p, Present(p)) <=> NextIsWrite(events, 0, p, Present(p))
  <2>1. 0 \in 0..Len(ev)
    BY DEF Events
  <2> QED
    BY Zenon, <1>1, <1>2, <1>5, <2>1, NextIsWriteOther DEF Present
<1>8. SameQueue(p)
  BY Zenon, <1>4, <1>5, <1>6, <1>7 DEF SameQueue
<1>9. NoEvents(p)' => NoEvents(p)
  <2>1. \A i \in 1..Len(events) : i \in 1..Len(events') \/ i = Len(events)
    BY <1>1
  <2>2. events[Len(events)][2] # p
    BY <1>1, <1>2
  <2> QED
    BY Zenon, <1>1, <2>1, <2>2 DEF NoEvents
<1> QED
  BY Zenon, <1>4, <1>8, <1>9, ForgetFrame

\* The event loop takes an event.
LEMMA ForgetHandle ==
    ASSUME TypeInv, NEW p \in Path, ForgetAt(p), Tidy(p)', HandleEvent
    PROVE  ForgetAt(p)'
<1>1. PICK t \in {"write", "remove"}, q \in Path :
         /\ events[1] = <<t, q>>
         /\ Len(events) \in Nat \ {0} /\ Len(events') = Len(events) - 1
         /\ \A i \in 1..Len(events') : events'[i] = events[i + 1]
         /\ t = "write" => timer' = [timer EXCEPT ![q] = "armed"] /\ UNCHANGED <<loop, hist>>
         /\ t = "remove" =>
              /\ timer' = [timer EXCEPT ![q] = "none"]
              /\ loop' = [at |-> "lookup", path |-> q, file |-> Absent]
              /\ hist' = [hist EXCEPT !.muddled = IF InFlight(q) THEN @ \cup {q} ELSE @]
  BY Zenon, EventTaken
<1>2. /\ phase = "watch" /\ loop = IdleLoop /\ events' = Tail(events)
      /\ UNCHANGED <<disk, store, index, phase, walk, orphans, run>>
  BY Zenon DEF HandleEvent, TypeInv, LoopOK
<1>3. events \in Events /\ events # <<>> /\ Head(events) = <<t, q>>
  BY <1>1 DEF TypeInv, Shape, Events, HandleEvent
<1>4. loop.path # p /\ timer \in [Path -> {"none", "armed", "expired"}]
  BY Zenon, <1>2, NoPathAssumption DEF IdleLoop, TypeInv, Shape
<1>5. Present(p) \in BOOLEAN /\ Present(p)' = Present(p)
  BY Zenon, <1>2 DEF Present
<1>6. Alternates(events, p, Present(p)) /\ Alternates(events, p, Present(p))'
  BY Zenon, <1>2, <1>3, <1>5, AlternatesTail DEF ForgetAt
<1>7. SameRows(p)
  BY Zenon, <1>2 DEF SameRows, Row, Idx
<1>8. CASE p # q
  <2>1. NextIsWrite(events, 0, p, Present(p))' <=> NextIsWrite(events, 0, p, Present(p))
    <3>1. Head(events)[2] # p
      BY <1>3, <1>8
    <3> QED
      BY SMTT(30), <1>2, <1>3, <1>5, <3>1, NextIsWriteHead
  <2>2. SameQueue(p)
    BY Zenon, <1>6, <2>1 DEF SameQueue
  <2>3. SameWork(p)
    BY <1>1, <1>2, <1>4, <1>8 DEF SameWork
  <2>4. NoEvents(p)' => NoEvents(p)
    <3> SUFFICES ASSUME NoEvents(p)', NEW i \in 1..Len(events) PROVE events[i][2] # p
      BY Zenon DEF NoEvents
    <3>1. CASE i = 1
      BY <1>1, <1>8, <3>1
    <3>2. CASE i # 1
      <4>1. i - 1 \in 1..Len(events') /\ (i - 1) + 1 = i
        BY <1>1, <3>2
      <4> QED
        BY Zenon, <1>1, <4>1 DEF NoEvents
    <3> QED
      BY Zenon, <3>1, <3>2
  <2> QED
    BY ZenonT(40), <1>2, <1>7, <2>2, <2>3, <2>4, ForgetFrame
<1>9. CASE p = q /\ t = "write"
  <2>1. NextIsWrite(events, 0, p, Present(p)) /\ ~ NextIsWrite(events, 0, p, Present(p))'
    <3>1. Head(events)[2] = p /\ Head(events)[1] = "write"
      BY <1>3, <1>9
    <3> QED
      BY SMTT(30), <1>2, <1>3, <1>5, <1>6, <3>1, NextIsWriteHead, AlternatesTail
  <2>2. CleanInv(p) /\ NoneAt(p) /\ NoRun(p)
    BY Zenon, <1>2, <1>4, <2>1 DEF ForgetAt, CleanInv
  <2>3. NoneAt(p)' /\ NoRun(p)' /\ timer'[p] = "armed" /\ loop'.path # p
    BY Zenon, <1>1, <1>2, <1>4, <1>7, <1>9, <2>2 DEF NoneAt, NoRun, SameRows
  <2>4. DirtyInv(p)'
    BY Zenon, <2>3 DEF DirtyInv, NoRun, NoneAt, Paired
  <2> QED
    BY ZenonT(40), <1>2, <1>6, <2>1, <2>4 DEF ForgetAt
<1>10. CASE p = q /\ t = "remove"
  <2>1. ~ NextIsWrite(events, 0, p, Present(p)) /\ NextIsWrite(events, 0, p, Present(p))'
    <3>1. Head(events)[2] = p /\ Head(events)[1] = "remove"
      BY <1>3, <1>10
    <3> QED
      BY SMTT(30), <1>2, <1>3, <1>5, <1>6, <3>1, NextIsWriteHead, AlternatesTail
  <2>2. ~ InFlight(p)
    <3>1. hist'.muddled = IF InFlight(p) THEN hist.muddled \cup {p} ELSE hist.muddled
      BY ZenonT(40), <1>1, <1>10 DEF TypeInv, Shape
    <3> QED
      BY Zenon, <3>1 DEF Tidy
  <2>3. NoRun(p) /\ NoRun(p)'
    BY Zenon, <1>2, <2>2 DEF InFlight, NoRun, Worker
  <2>4. Paired(p)'
    BY Zenon, <1>2, <1>7, <2>1, <2>3 DEF ForgetAt, DirtyInv, Paired, SameRows
  <2>5. timer'[p] = "none" /\ loop'.path = p /\ loop'.at = "lookup"
    BY <1>1, <1>4, <1>10
  <2>6. CleanInv(p)'
    BY Zenon, <2>3, <2>4, <2>5 DEF CleanInv
  <2> QED
    BY ZenonT(40), <1>2, <1>6, <2>1, <2>6 DEF ForgetAt
<1> QED
  BY Zenon, <1>8, <1>9, <1>10

\* handleRemove at work on another path.
LEMMA ForgetOtherLoop ==
    ASSUME TypeInv, HomesInv, NEW p \in Path, Tidy(p), ForgetAt(p), loop.path # p,
           RemoveLookup \/ RemoveDelete \/ RemoveIndex \/ RemoveNotify
    PROVE  ForgetAt(p)'
<1>1. UNCHANGED <<disk, phase, walk, events, timer, orphans, run>>
  BY Zenon DEF RemoveLookup, RemoveDelete, RemoveIndex, RemoveNotify
<1>2. loop'.path # p
  <2>1. CASE RemoveLookup
    BY <2>1, LookupFinds, NoPathAssumption DEF IdleLoop
  <2>2. CASE RemoveDelete \/ RemoveIndex
    BY Zenon, <2>2 DEF RemoveDelete, RemoveIndex, TypeInv, Shape, Position
  <2>3. CASE RemoveNotify
    BY Zenon, <2>3, NoPathAssumption DEF RemoveNotify, IdleLoop
  <2> QED
    BY Zenon, <2>1, <2>2, <2>3
<1>3. SameWork(p)
  BY Zenon, <1>1, <1>2 DEF SameWork
<1>4. SameQueue(p) /\ NoEvents(p)' = NoEvents(p) /\ disk'[p] = disk[p]
  BY Zenon, <1>1 DEF SameQueue, NoEvents, Present
<1>5. SameRows(p)
  <2>1. CASE RemoveLookup \/ RemoveNotify
    BY Zenon, <2>1 DEF RemoveLookup, RemoveNotify, SameRows, Row, Idx
  <2>2. CASE RemoveDelete \/ RemoveIndex
    BY Zenon, <2>2, OtherRemove
  <2> QED
    BY Zenon, <2>1, <2>2
<1> QED
  BY Zenon, <1>3, <1>4, <1>5, ForgetFrame

\* handleRemove at work on p: the rows of p go, then its index entries.
LEMMA ForgetOwnLoop ==
    ASSUME TypeInv, NEW p \in Path, ForgetAt(p), loop.path = p,
           RemoveLookup \/ RemoveDelete \/ RemoveIndex \/ RemoveNotify
    PROVE  ForgetAt(p)'
<1>1. UNCHANGED <<disk, phase, walk, events, timer, orphans, run>>
  BY Zenon DEF RemoveLookup, RemoveDelete, RemoveIndex, RemoveNotify
<1>2. phase = "watch" /\ CleanInv(p) /\ NextIsWrite(events, 0, p, Present(p))
  <2>1. phase = "watch"
    BY NoPathAssumption DEF TypeInv, Asleep, IdleLoop
  <2> QED
    BY Zenon, <2>1 DEF ForgetAt, DirtyInv
<1>3. SameQueue(p)
  BY Zenon, <1>1 DEF SameQueue, Present
<1>4. timer'[p] = "none" /\ NoRun(p)'
  BY Zenon, <1>1, <1>2 DEF CleanInv, NoRun
<1>5. CASE RemoveLookup
  <2>1. Paired(p) /\ UNCHANGED <<store, index>>
    BY Zenon, <1>2, <1>5 DEF CleanInv, RemoveLookup
  <2>2. SameRows(p)
    BY Zenon, <2>1 DEF SameRows, Row, Idx
  <2>3. ASSUME loop' = IdleLoop /\ \A f \in File : ~ Row(f, p) PROVE CleanInv(p)'
    <3>1. NoneAt(p)'
      BY Zenon, <2>1, <2>2, <2>3 DEF NoneAt, Paired, SameRows
    <3> QED
      BY Zenon, <1>4, <2>3, <3>1, NoPathAssumption DEF CleanInv, IdleLoop
  <2>4. ASSUME NEW f \in File, Row(f, p),
               loop' = [at |-> "delete", path |-> p, file |-> f]
        PROVE  CleanInv(p)'
    <3>1. OnlyRow(f, p)' /\ OnlyIdx(f, p)'
      BY Zenon, <2>1, <2>2, <2>4 DEF OnlyRow, OnlyIdx, Paired, SameRows
    <3>2. loop'.path = p /\ loop'.at = "delete" /\ loop'.file = f
      BY Zenon, <2>4
    <3>3. OnlyRow(loop.file, p)' /\ OnlyIdx(loop.file, p)'
      BY Zenon, <3>1, <3>2 DEF OnlyRow, OnlyIdx
    <3> QED
      BY Zenon, <1>4, <3>2, <3>3 DEF CleanInv
  <2>5. CleanInv(p)'
    BY Zenon, <1>5, <2>3, <2>4, LookupFinds
  <2> QED
    BY Zenon, <1>1, <1>2, <1>3, <2>5 DEF ForgetAt, SameQueue
<1>6. CASE RemoveDelete
  <2>1. OnlyRow(loop.file, p) /\ OnlyIdx(loop.file, p) /\ index' = index
    BY Zenon, <1>2, <1>6 DEF CleanInv, RemoveDelete
  <2>2. /\ store'.entries[Self][loop.file].state # "live"
        /\ \A f \in File \ {loop.file} : store'.entries[Self][f] = store.entries[Self][f]
    BY Zenon, <1>6, DeleteRow
  <2>3. loop'.path = p /\ loop'.at = "remove" /\ loop'.file = loop.file
    BY Zenon, <1>6 DEF RemoveDelete, TypeInv, Shape, Position
  <2>4. \A f \in File : ~ Row(f, p)' /\ (Idx(f, p)' => f = loop'.file)
    BY Zenon, <2>1, <2>2, <2>3 DEF OnlyRow, OnlyIdx, Row, Idx
  <2>5. CleanInv(p)'
    BY Zenon, <1>4, <2>3, <2>4 DEF CleanInv
  <2> QED
    BY ZenonT(30), <1>1, <1>2, <1>3, <2>5 DEF ForgetAt, SameQueue
<1>7. CASE RemoveIndex
  <2>1. \A f \in File : ~ Row(f, p) /\ (Idx(f, p) => f = loop.file)
    BY Zenon, <1>2, <1>7 DEF CleanInv, RemoveIndex
  <2>2. index' = [index EXCEPT ![loop.file] = NoPath] /\ store' = store
    BY Zenon, <1>7 DEF RemoveIndex
  <2>3. loop'.path = p /\ loop'.at = "notify"
    BY Zenon, <1>7 DEF RemoveIndex, TypeInv, Shape, Position
  <2>4. NoneAt(p)'
    BY Zenon, <2>1, <2>2, NoPathAssumption DEF NoneAt, Row, Idx, TypeInv, Shape
  <2>5. CleanInv(p)'
    BY Zenon, <1>4, <2>3, <2>4 DEF CleanInv
  <2> QED
    BY ZenonT(30), <1>1, <1>2, <1>3, <2>5 DEF ForgetAt, SameQueue
<1>8. CASE RemoveNotify
  <2>1. NoneAt(p)' /\ loop' = IdleLoop
    BY Zenon, <1>2, <1>8 DEF CleanInv, RemoveNotify, NoneAt, Row, Idx
  <2>2. CleanInv(p)'
    BY Zenon, <1>4, <2>1, NoPathAssumption DEF CleanInv, IdleLoop
  <2> QED
    BY ZenonT(30), <1>1, <1>2, <1>3, <2>2 DEF ForgetAt, SameQueue
<1> QED
  BY Zenon, <1>5, <1>6, <1>7, <1>8

\* A timer of another path expires, or its function starts.
LEMMA ForgetOtherTimer ==
    ASSUME TypeInv, NEW p \in Path, ForgetAt(p), NEW r \in Run, NEW q \in Path \ {p},
           TimerExpires(q, r) \/ (run[r].path = q /\ TimerDeletes(r))
    PROVE  ForgetAt(p)'
<1>0. run \in [Worker -> Position({"free", "start", "hash", "put", "add", "notify"})] /\ r \in Worker
  BY Zenon DEF TypeInv, Shape, Worker
<1>1. UNCHANGED <<disk, store, index, phase, walk, events, loop>>
  BY Zenon DEF TimerExpires, TimerDeletes
<1>2. timer'[p] = timer[p] /\ orphans'[p] = orphans[p]
  BY ZenonT(60) DEF TimerExpires, TimerDeletes, TypeInv, Shape
<1>3. run[r].path # p /\ run'[r].path # p /\ \A s \in Worker \ {r} : run'[s] = run[s]
  <2>1. CASE TimerExpires(q, r)
    BY <1>0, <2>1, NoPathAssumption DEF TimerExpires, TypeInv, RunOK, IdleRun
  <2>2. CASE run[r].path = q /\ TimerDeletes(r)
    BY Zenon, <1>0, <2>2 DEF TimerDeletes, Position
  <2> QED
    BY Zenon, <2>1, <2>2
<1>4. SameWork(p)
  BY Zenon, <1>1, <1>2, <1>3 DEF SameWork
<1>5. SameQueue(p) /\ NoEvents(p)' = NoEvents(p) /\ SameRows(p)
  BY Zenon, <1>1 DEF SameQueue, NoEvents, SameRows, Row, Idx, Present
<1> QED
  BY Zenon, <1>1, <1>4, <1>5, ForgetFrame

\* p's timer expires, or its function starts.
LEMMA ForgetOwnTimer ==
    ASSUME TypeInv, NEW p \in Path, ForgetAt(p), NEW r \in Run,
           TimerExpires(p, r) \/ (run[r].path = p /\ TimerDeletes(r))
    PROVE  ForgetAt(p)'
<1>0. /\ run \in [Worker -> Position({"free", "start", "hash", "put", "add", "notify"})]
      /\ timer \in [Path -> {"none", "armed", "expired"}] /\ r \in Worker
  BY Zenon DEF TypeInv, Shape, Worker
<1>1. UNCHANGED <<disk, store, index, phase, walk, events, loop>>
  BY Zenon DEF TimerExpires, TimerDeletes
<1>2. SameQueue(p) /\ SameRows(p)
  BY Zenon, <1>1 DEF SameQueue, SameRows, Row, Idx, Present
<1>3. CASE TimerExpires(p, r)
  <2>1. timer[p] = "armed" /\ timer' = [timer EXCEPT ![p] = "expired"] /\ orphans' = orphans
    BY <1>3 DEF ForgetAt, TimerExpires
  <2>2. phase = "watch"
    BY Zenon, <2>1 DEF TypeInv, Asleep
  <2>3. ~ NextIsWrite(events, 0, p, Present(p)) /\ DirtyInv(p)
    BY Zenon, <2>1, <2>2 DEF ForgetAt, CleanInv
  <2>4. NoRun(p)
    BY Zenon, <2>1, <2>3 DEF DirtyInv, NoRun, RunInv
  <2>5. NoneAt(p)'
    BY Zenon, <1>2, <2>1, <2>3, <2>4 DEF DirtyInv, NoneAt, SameRows
  <2>6. /\ run'[r] = [at |-> "start", path |-> p, file |-> Absent]
        /\ \A s \in Worker : run'[s].path = p => s = r
    BY Zenon, <1>0, <1>3, <2>4 DEF TimerExpires, NoRun
  <2>7. timer'[p] = "expired"
    BY ZenonT(60), <1>0, <2>1
  <2>8. RunInv(r, p)'
    <3>1. run'[r].at = "start"
      BY <2>6
    <3> QED
      BY ZenonT(40), <2>5, <2>6, <2>7, <3>1 DEF RunInv
  <2>9. DirtyInv(p)'
    <3>1. run'[r].path = p
      BY <2>6
    <3> QED
      BY Zenon, <1>0, <1>1, <2>3, <2>6, <2>8, <3>1 DEF DirtyInv, NoRun
  <2> QED
    BY ZenonT(40), <1>1, <1>2, <2>1, <2>2, <2>3, <2>9 DEF ForgetAt, SameQueue
<1>4. CASE run[r].path = p /\ TimerDeletes(r)
  <2>1. run[r].at = "start" /\ phase = "watch"
    BY <1>4 DEF TimerDeletes, TypeInv, Asleep, IdleRun
  <2>2. ~ NextIsWrite(events, 0, p, Present(p)) /\ DirtyInv(p)
    BY Zenon, <1>0, <1>4, <2>1 DEF ForgetAt, CleanInv, NoRun
  <2>3. RunInv(r, p)
    BY Zenon, <1>0, <1>4, <2>2 DEF DirtyInv
  <2>4. timer[p] = "expired" /\ NoneAt(p)
    BY Zenon, <2>1, <2>3 DEF RunInv
  <2>5. timer'[p] = "none" /\ orphans' = orphans
    BY Zenon, <1>0, <1>4, <2>4 DEF TimerDeletes
  <2>6. /\ run'[r].at = "hash" /\ run'[r].path = p
        /\ \A s \in Worker : run'[s].path = p => s = r
    BY Zenon, <1>0, <1>4, <2>3 DEF TimerDeletes, RunInv, Position
  <2>7. RunInv(r, p)'
    BY Zenon, <1>2, <2>4, <2>5, <2>6 DEF RunInv, NoneAt, SameRows
  <2>8. DirtyInv(p)'
    BY Zenon, <1>0, <1>1, <2>2, <2>6, <2>7 DEF DirtyInv, NoRun
  <2> QED
    BY Zenon, <1>1, <1>2, <2>1, <2>2, <2>5, <2>8 DEF ForgetAt, SameQueue
<1> QED
  BY Zenon, <1>3, <1>4

\* indexFile at work on another path.
LEMMA ForgetOtherRun ==
    ASSUME TypeInv, HomesInv, NEW p \in Path, Tidy(p), ForgetAt(p), NEW r \in Worker,
           IndexFile(r), run[r].path # p
    PROVE  ForgetAt(p)'
<1>0. run \in [Worker -> Position({"free", "start", "hash", "put", "add", "notify"})]
  BY Zenon DEF TypeInv, Shape, Worker
<1>1. UNCHANGED <<disk, phase, walk, events, loop, timer, orphans>>
  BY Zenon DEF IndexFile, HashFile, PutEntry, AddToIndex, NotifyChange
<1>2. run'[r].path # p /\ \A s \in Worker \ {r} : run'[s] = run[s]
  <2>1. CASE HashFile(r)
    BY Zenon, <1>0, <2>1, NoPathAssumption DEF HashFile, IdleRun
  <2>2. CASE PutEntry(r)
    BY Zenon, <1>0, <2>2 DEF PutEntry, Position
  <2>3. CASE AddToIndex(r)
    BY <1>0, <2>3, NoPathAssumption DEF AddToIndex, IdleRun, Position
  <2>4. CASE NotifyChange(r)
    BY Zenon, <1>0, <2>4, NoPathAssumption DEF NotifyChange, IdleRun
  <2> QED
    BY Zenon, <2>1, <2>2, <2>3, <2>4 DEF IndexFile
<1>3. SameWork(p)
  BY Zenon, <1>1, <1>2 DEF SameWork
<1>4. SameQueue(p) /\ NoEvents(p)' = NoEvents(p)
  BY Zenon, <1>1 DEF SameQueue, NoEvents, Present
<1>5. SameRows(p)
  BY Zenon, OtherRun
<1> QED
  BY Zenon, <1>1, <1>3, <1>4, <1>5, ForgetFrame

\* The five ways in which a step of indexFile concerns its path p: there is no file;
\* there is one; it gets its row; it gets its index entry; onChange is called.
FoundNone(r, p) ==
    run[r].at = "hash" /\ disk[p] = Absent /\ run'[r] = IdleRun /\ SameRows(p)

Found(r, p) ==
    /\ run[r].at = "hash" /\ disk[p] \in File /\ SameRows(p)
    /\ run'[r] = [at |-> "put", path |-> p, file |-> disk[p]]

RowGiven(r, p) ==
    /\ run[r].at = "put" /\ disk[p] \in File
    /\ run'[r] = [at |-> "add", path |-> p, file |-> disk[p]]
    /\ \A f \in File : (Row(f, p)' <=> Row(f, p) \/ f = disk[p]) /\ (Idx(f, p)' <=> Idx(f, p))

IdxGiven(r, p) ==
    /\ run[r].at = "add" /\ disk[p] \in File
    /\ run'[r] = [at |-> "notify", path |-> p, file |-> disk[p]]
    /\ \A f \in File : (Row(f, p)' <=> Row(f, p)) /\ (Idx(f, p)' <=> Idx(f, p) \/ f = disk[p])

Called(r, p) ==
    run[r].at = "notify" /\ disk[p] \in File /\ run'[r] = IdleRun /\ SameRows(p)

\* An idle worker and an idle loop are on no path.
LEMMA IdleElsewhere == ASSUME NEW p \in Path PROVE IdleRun.path # p /\ IdleLoop.path # p
BY NoPathAssumption DEF IdleRun, IdleLoop

\* When the run's hash is that of the file there is no other.
LEMMA OwnRun ==
    ASSUME TypeInv, NEW p \in Path, NEW r \in Worker, IndexFile(r), run[r].path = p,
           run[r].at \in {"put", "add", "notify"} => run[r].file = disk[p]
    PROVE  /\ UNCHANGED <<disk, phase, walk, events, loop, timer, orphans>>
           /\ \A s \in Worker \ {r} : run'[s] = run[s]
           /\ \/ FoundNone(r, p) \/ Found(r, p) \/ RowGiven(r, p) \/ IdxGiven(r, p)
              \/ Called(r, p)
<1>0. /\ run \in [Worker -> Position({"free", "start", "hash", "put", "add", "notify"})]
      /\ disk[p] \in File \cup {Absent} /\ index \in [File -> Path \cup {NoPath}]
      /\ run[r] = [at |-> run[r].at, path |-> p, file |-> run[r].file]
      /\ run[r].at \in {"put", "add", "notify"} => run[r].file \in File
  BY Zenon DEF TypeInv, Shape, RunOK, Worker, Position
<1>1. UNCHANGED <<disk, phase, walk, events, loop, timer, orphans>>
  BY Zenon DEF IndexFile, HashFile, PutEntry, AddToIndex, NotifyChange
<1>2. \A s \in Worker \ {r} : run'[s] = run[s]
  BY Zenon, <1>0 DEF IndexFile, HashFile, PutEntry, AddToIndex, NotifyChange
<1>3. CASE HashFile(r)
  <2>1. SameRows(p) /\ run[r].at = "hash"
    BY Zenon, <1>3 DEF HashFile, SameRows, Row, Idx
  <2>2. run'[r] = IF disk[p] = Absent THEN IdleRun
                  ELSE [at |-> "put", path |-> p, file |-> disk[p]]
    BY Zenon, <1>0, <1>3 DEF HashFile
  <2>3. FoundNone(r, p) \/ Found(r, p)
    BY Zenon, <1>0, <2>1, <2>2 DEF FoundNone, Found
  <2> QED
    BY Zenon, <1>1, <1>2, <2>3
<1>4. CASE PutEntry(r)
  <2>1. run[r].at = "put" /\ disk[p] \in File /\ run[r].file = disk[p] /\ index' = index
    BY Zenon, <1>0, <1>4 DEF PutEntry
  <2>2. run'[r] = [at |-> "add", path |-> p, file |-> disk[p]]
    BY Zenon, <1>0, <1>4, <2>1 DEF PutEntry
  <2>3. /\ store'.entries[Self][disk[p]] = [state |-> "live", path |-> p]
        /\ \A f \in File \ {disk[p]} : store'.entries[Self][f] = store.entries[Self][f]
    <3>1. /\ store'.entries[Self][run[r].file] = [state |-> "live", path |-> run[r].path]
          /\ \A f \in File \ {run[r].file} : store'.entries[Self][f] = store.entries[Self][f]
      BY ZenonT(40), <1>4, PutRow
    <3> QED
      BY Zenon, <2>1, <3>1
  <2>4. \A f \in File : (Row(f, p)' <=> Row(f, p) \/ f = disk[p]) /\ (Idx(f, p)' <=> Idx(f, p))
    BY <2>1, <2>3 DEF Row, Idx
  <2>5. RowGiven(r, p)
    BY Zenon, <2>1, <2>2, <2>4 DEF RowGiven
  <2> QED
    BY Zenon, <1>1, <1>2, <2>5
<1>5. CASE AddToIndex(r)
  <2>1. run[r].at = "add" /\ disk[p] \in File /\ run[r].file = disk[p]
    BY Zenon, <1>0, <1>5 DEF AddToIndex
  <2>2. store' = store /\ index' = [index EXCEPT ![disk[p]] = p]
    BY Zenon, <1>5, <2>1, WatcherAssumption DEF AddToIndex
  <2>3. run'[r] = [at |-> "notify", path |-> p, file |-> disk[p]]
    BY ZenonT(40), <1>0, <1>5, <2>1, WatcherAssumption DEF AddToIndex
  <2>4. \A f \in File : (Row(f, p)' <=> Row(f, p)) /\ (Idx(f, p)' <=> Idx(f, p) \/ f = disk[p])
    BY Zenon, <1>0, <2>1, <2>2 DEF Row, Idx
  <2>5. IdxGiven(r, p)
    BY Zenon, <2>1, <2>3, <2>4 DEF IdxGiven
  <2> QED
    BY Zenon, <1>1, <1>2, <2>5
<1>6. CASE NotifyChange(r)
  <2>1. SameRows(p) /\ run[r].at = "notify" /\ run'[r] = IdleRun
    BY Zenon, <1>0, <1>6 DEF NotifyChange, SameRows, Row, Idx
  <2>2. Called(r, p)
    BY Zenon, <1>0, <2>1 DEF Called
  <2> QED
    BY Zenon, <1>1, <1>2, <2>2
<1> QED
  BY Zenon, <1>3, <1>4, <1>5, <1>6 DEF IndexFile

\* A timer's function at work on p: p gets its one row and its one index entry.
LEMMA ForgetOwnRun ==
    ASSUME TypeInv, NEW p \in Path, ForgetAt(p), phase = "watch", NEW r \in Worker,
           IndexFile(r), run[r].path = p
    PROVE  ForgetAt(p)'
<1>1. ~ NextIsWrite(events, 0, p, Present(p)) /\ DirtyInv(p) /\ RunInv(r, p)
  BY Zenon DEF ForgetAt, CleanInv, NoRun, DirtyInv
<1>2. run[r].at \in {"put", "add", "notify"} => run[r].file = disk[p]
  BY Zenon, <1>1 DEF RunInv
<1>3. /\ UNCHANGED <<disk, phase, walk, events, loop, timer, orphans>>
      /\ \A s \in Worker \ {r} : run'[s] = run[s]
  BY Zenon, <1>2, OwnRun
<1>4. SameQueue(p)
  BY Zenon, <1>3 DEF SameQueue, Present
<1>5. /\ loop'.path # p /\ timer'[p] = "none"
      /\ \A s \in Worker \ {r} : run'[s].path # p
  <2>1. run[r].at # "start"
    BY Zenon DEF IndexFile, HashFile, PutEntry, AddToIndex, NotifyChange
  <2> QED
    BY Zenon, <1>1, <1>3, <2>1 DEF DirtyInv, RunInv
<1>6. SUFFICES DirtyInv(p)'
  BY Zenon, <1>1, <1>3, <1>4 DEF ForgetAt, SameQueue
<1>7. ASSUME RunInv(r, p)', run'[r].path = p PROVE DirtyInv(p)'
  BY ZenonT(40), <1>5, <1>7 DEF DirtyInv, NoRun
<1>8. ASSUME run'[r] = IdleRun, Paired(p)', \A f \in File : Row(f, p)' => f = disk'[p]
      PROVE  DirtyInv(p)'
  BY <1>5, <1>8, NoPathAssumption DEF DirtyInv, IdleRun
<1>9. CASE FoundNone(r, p)
  <2>1. NoneAt(p)'
    BY ZenonT(40), <1>1, <1>9 DEF FoundNone, RunInv, NoneAt, SameRows
  <2> QED
    BY Zenon, <1>8, <1>9, <2>1 DEF FoundNone, NoneAt, Paired
<1>10. CASE Found(r, p)
  <2>1. NoneAt(p)'
    BY ZenonT(40), <1>1, <1>10 DEF Found, RunInv, NoneAt, SameRows
  <2>2. run'[r].file = disk[p] /\ run'[r].at = "put" /\ run'[r].path = p
    BY <1>10 DEF Found
  <2>3. RunInv(r, p)'
    BY Zenon, <1>3, <1>5, <2>1, <2>2 DEF RunInv
  <2> QED
    BY Zenon, <1>7, <2>2, <2>3
<1>11. CASE RowGiven(r, p)
  <2>1. (\A f \in File : Row(f, p)' <=> f = disk[p]) /\ \A f \in File : ~ Idx(f, p)'
    BY ZenonT(40), <1>1, <1>11 DEF RowGiven, RunInv, NoneAt
  <2>2. run'[r].file = disk[p] /\ run'[r].at = "add" /\ run'[r].path = p
    BY <1>11 DEF RowGiven
  <2>3. OnlyRow(run[r].file, p)'
    BY Zenon, <2>1, <2>2 DEF OnlyRow
  <2>4. RunInv(r, p)'
    BY Zenon, <1>3, <1>5, <2>1, <2>2, <2>3 DEF RunInv
  <2> QED
    BY Zenon, <1>7, <2>2, <2>4
<1>12. CASE IdxGiven(r, p)
  <2>1. (\A f \in File : Row(f, p)' <=> f = disk[p]) /\ \A f \in File : Idx(f, p)' <=> f = disk[p]
    BY ZenonT(40), <1>1, <1>2, <1>12 DEF IdxGiven, RunInv, OnlyRow
  <2>2. run'[r].file = disk[p] /\ run'[r].at = "notify" /\ run'[r].path = p
    BY SMTT(30), <1>12 DEF IdxGiven
  <2>3. OnlyRow(run[r].file, p)' /\ OnlyIdx(run[r].file, p)'
    BY Zenon, <2>1, <2>2 DEF OnlyRow, OnlyIdx
  <2>4. RunInv(r, p)'
    BY Zenon, <1>3, <1>5, <2>2, <2>3 DEF RunInv
  <2> QED
    BY Zenon, <1>7, <2>2, <2>4
<1>13. CASE Called(r, p)
  <2>1. \A f \in File : (Row(f, p)' <=> f = disk[p]) /\ (Idx(f, p)' <=> f = disk[p])
    BY Zenon, <1>1, <1>2, <1>13 DEF Called, RunInv, OnlyRow, OnlyIdx, SameRows
  <2> QED
    BY Zenon, <1>3, <1>8, <1>13, <2>1 DEF Called, Paired
<1> QED
  BY ZenonT(40), <1>2, <1>9, <1>10, <1>11, <1>12, <1>13, OwnRun

\* The scan's run of indexFile at work on p.
LEMMA ForgetOwnScan ==
    ASSUME TypeInv, NEW p \in Path, ForgetAt(p), phase # "watch", NEW r \in Worker,
           IndexFile(r), run[r].path = p
    PROVE  ForgetAt(p)'
<1>1. r = Scanner /\ ScanInv(p)
  BY NoPathAssumption DEF ForgetAt, TypeInv, Asleep, IdleRun, Worker
<1>2. run[r].at \in {"put", "add", "notify"} => run[r].file = disk[p]
  BY Zenon, <1>1 DEF ScanInv
<1>3. UNCHANGED <<disk, phase, walk, events, loop, timer, orphans>>
  BY Zenon, <1>2, OwnRun
<1>4. SameQueue(p)
  BY Zenon, <1>3 DEF SameQueue, Present
<1>5. SUFFICES ScanInv(p)'
  BY Zenon, <1>3, <1>4 DEF ForgetAt, SameQueue
<1>6. /\ \A f \in File : Row(f, p) \/ Idx(f, p) => f = disk[p]
      /\ p \notin walk' /\ disk'[p] = disk[p]
      /\ run[r].at \in {"add", "notify"} => Row(disk[p], p)
      /\ run[r].at = "notify" => Idx(disk[p], p)
  BY Zenon, <1>1, <1>3 DEF ScanInv
<1>7. CASE FoundNone(r, p)
  <2>1. \A f \in File : ~ Row(f, p)' /\ ~ Idx(f, p)'
    BY Zenon, <1>6, <1>7, WatcherAssumption DEF FoundNone, SameRows
  <2>2. run'[Scanner].path # p
    BY Zenon, <1>1, <1>7, IdleElsewhere DEF FoundNone
  <2> QED
    BY Zenon, <2>1, <2>2 DEF ScanInv, Paired
<1>8. CASE Found(r, p)
  <2>1. \A f \in File : Row(f, p)' \/ Idx(f, p)' => f = disk'[p]
    BY ZenonT(40), <1>6, <1>8 DEF Found, SameRows
  <2>2. run'[r].file = disk[p] /\ run'[r].at = "put" /\ run'[r].path = p
    BY <1>8 DEF Found
  <2> QED
    BY Zenon, <1>1, <1>6, <2>1, <2>2 DEF ScanInv
<1>9. CASE RowGiven(r, p)
  <2>1. \A f \in File : Row(f, p)' \/ Idx(f, p)' => f = disk'[p]
    BY Zenon, <1>6, <1>9 DEF RowGiven
  <2>2. Row(disk[p], p)'
    BY ZenonT(40), <1>6, <1>9 DEF RowGiven, Row
  <2>3. run'[r].file = disk[p] /\ run'[r].at = "add" /\ run'[r].path = p
    BY <1>9 DEF RowGiven
  <2> QED
    BY Zenon, <1>1, <1>6, <2>1, <2>2, <2>3 DEF ScanInv
<1>10. CASE IdxGiven(r, p)
  <2>1. \A f \in File : Row(f, p)' \/ Idx(f, p)' => f = disk'[p]
    BY Zenon, <1>6, <1>10 DEF IdxGiven
  <2>2. Row(disk[p], p)' /\ Idx(disk[p], p)'
    BY ZenonT(40), <1>6, <1>10 DEF IdxGiven, Row, Idx
  <2>3. run'[r].file = disk[p] /\ run'[r].at = "notify" /\ run'[r].path = p
    BY <1>10 DEF IdxGiven
  <2> QED
    BY Zenon, <1>1, <1>6, <2>1, <2>2, <2>3 DEF ScanInv
<1>11. CASE Called(r, p)
  <2>1. \A f \in File : (Row(f, p)' <=> f = disk'[p]) /\ (Idx(f, p)' <=> f = disk'[p])
    BY Zenon, <1>6, <1>11 DEF Called, SameRows
  <2>2. run'[Scanner].path # p
    BY Zenon, <1>1, <1>11, IdleElsewhere DEF Called
  <2> QED
    BY Zenon, <2>1, <2>2 DEF ScanInv, Paired
<1> QED
  BY ZenonT(40), <1>2, <1>7, <1>8, <1>9, <1>10, <1>11, OwnRun

\* The first walk, and the scan's.
LEMMA ForgetWalk ==
    ASSUME TypeInv, HomesInv, NEW p \in Path, Tidy(p), ForgetAt(p), NEW q \in Path,
           IndexScan(q) \/ ScanFile(q)
    PROVE  ForgetAt(p)'
<1>0. run \in [Worker -> Position({"free", "start", "hash", "put", "add", "notify"})]
  BY Zenon DEF TypeInv, Shape, Worker
<1>1. UNCHANGED <<disk, phase, events, loop, timer, orphans, store>> /\ phase # "watch"
  BY Zenon DEF IndexScan, ScanFile
<1>2. SameQueue(p) /\ NoEvents(p)' = NoEvents(p)
  BY Zenon, <1>1 DEF SameQueue, NoEvents, Present
<1>3. CASE p # q
  <2>1. SameRows(p)
    <3>1. CASE IndexScan(q)
      BY Zenon, <1>3, <3>1, OtherIndexScan
    <3>2. CASE ScanFile(q)
      BY Zenon, <3>2 DEF ScanFile, SameRows, Row, Idx
    <3> QED
      BY Zenon, <3>1, <3>2
  <2>2. SameWork(p)
    <3>1. CASE IndexScan(q)
      BY Zenon, <1>1, <1>3, <3>1 DEF IndexScan, SameWork
    <3>2. CASE ScanFile(q)
      <4>1. \A r \in Worker \ {Scanner} : run'[r] = run[r]
        BY ZenonT(40), <1>0, <3>2 DEF ScanFile
      <4>2. run[Scanner].path # p /\ run'[Scanner].path # p
        BY <1>0, <1>3, <3>2, NoPathAssumption DEF ScanFile, TypeInv, RunOK, IdleRun, Worker
      <4> QED
        BY Zenon, <1>1, <1>3, <3>2, <4>1, <4>2 DEF ScanFile, SameWork
    <3> QED
      BY Zenon, <3>1, <3>2
  <2> QED
    BY Zenon, <1>1, <1>2, <2>1, <2>2, ForgetFrame
<1>4. CASE p = q
  <2>1. SUFFICES ScanInv(p)'
    BY Zenon, <1>1, <1>2 DEF ForgetAt, SameQueue
  <2>2. \A f \in File : Row(f, p) \/ Idx(f, p) => f = disk[p]
    BY Zenon, <1>1 DEF ForgetAt, ScanInv
  <2>3. CASE IndexScan(q)
    <3>1. phase' = "index" /\ run'[Scanner].path # p
      BY <2>3, NoPathAssumption DEF IndexScan, TypeInv, Asleep, IdleRun
    <3>2. \A f \in File : Row(f, p)' \/ Idx(f, p)' => f = disk'[p]
      BY ZenonT(40), <1>1, <1>4, <2>2, <2>3 DEF IndexScan, Row, Idx, TypeInv, Shape
    <3> QED
      BY ZenonT(40), <3>1, <3>2 DEF ScanInv
  <2>4. CASE ScanFile(q)
    <3>1. /\ run'[Scanner] = [at |-> "hash", path |-> p, file |-> Absent]
          /\ p \notin walk'
      BY Zenon, <1>0, <1>4, <2>4 DEF ScanFile, Worker
    <3>2. \A f \in File : Row(f, p)' \/ Idx(f, p)' => f = disk'[p]
      BY Zenon, <1>1, <2>2, <2>4 DEF ScanFile, Row, Idx
    <3>3. run'[Scanner].at = "hash" /\ run'[Scanner].path = p
      BY <3>1
    <3> QED
      BY Zenon, <3>1, <3>2, <3>3 DEF ScanInv
  <2> QED
    BY Zenon, <2>3, <2>4
<1> QED
  BY Zenon, <1>3, <1>4

\* An empty queue.
LEMMA EmptyQueue ==
    ASSUME NEW p, NEW present \in BOOLEAN
    PROVE  Alternates(<<>>, p, present) /\ (NextIsWrite(<<>>, 0, p, present) <=> ~ present)
BY DEF Alternates, NextIsWrite

\* The scan begins, or the watcher starts to listen.
LEMMA ForgetPhase ==
    ASSUME TypeInv, NEW p \in Path, ForgetAt(p), NextPhase
    PROVE  ForgetAt(p)'
<1>1. /\ phase # "watch" /\ walk = {} /\ events = <<>> /\ run[Scanner] = IdleRun
      /\ loop = IdleLoop /\ timer[p] = "none"
      /\ UNCHANGED <<disk, store, index, events, loop, timer, orphans, run>>
  BY ZenonT(40) DEF NextPhase, TypeInv, Asleep, RunOK, Worker
<1>2. NoRun(p)' /\ loop'.path # p
  BY <1>1, NoPathAssumption DEF NoRun, TypeInv, Asleep, IdleRun, IdleLoop, Worker
<1>3. Present(p) \in BOOLEAN /\ Present(p)' = Present(p)
  BY Zenon, <1>1 DEF Present
<1>4. /\ Alternates(events, p, Present(p))' /\ orphans'[p] = 0 /\ SameRows(p)
      /\ NextIsWrite(events, 0, p, Present(p))' <=> ~ Present(p)
  <2>1. Alternates(events, p, Present(p))' /\ (NextIsWrite(events, 0, p, Present(p))' <=> ~ Present(p))
    BY Zenon, <1>1, <1>3, EmptyQueue
  <2> QED
    BY Zenon, <1>1, <2>1 DEF ForgetAt, SameRows, Row, Idx
<1>5. \A f \in File : Row(f, p)' \/ Idx(f, p)' => f = disk'[p]
  BY Zenon, <1>1, <1>4 DEF ForgetAt, ScanInv, SameRows
<1>6. CASE phase = "index" /\ phase' = "scan" /\ walk' = Path
  <2>1. ScanInv(p)'
    BY Zenon, <1>2, <1>5, <1>6 DEF ScanInv, NoRun, Worker
  <2> QED
    BY Zenon, <1>4, <1>6, <2>1 DEF ForgetAt
<1>7. CASE phase = "scan" /\ phase' = "watch"
  <2>1. Paired(p)'
    BY Zenon, <1>1, <1>4, <1>7, IdleElsewhere DEF ForgetAt, ScanInv, Paired, SameRows
  <2>2. ~ Present(p) => CleanInv(p)'
    <3>1. ~ Present(p) => NoneAt(p)'
      BY Zenon, <1>1, <1>5, WatcherAssumption DEF Present, NoneAt
    <3> QED
      BY Zenon, <1>1, <1>2, <3>1 DEF CleanInv
  <2>3. DirtyInv(p)'
    BY Zenon, <1>1, <1>2, <1>5, <2>1 DEF DirtyInv, NoRun
  <2> QED
    BY ZenonT(40), <1>4, <1>7, <2>2, <2>3 DEF ForgetAt
<1> QED
  BY Zenon, <1>6, <1>7 DEF NextPhase

\* A restart at rest: the rows that the catalog keeps are right.
LEMMA ForgetRestart ==
    ASSUME TypeInv, NEW p \in Path, ForgetAt(p), Tidy(p)', Restart
    PROVE  ForgetAt(p)'
<1>1. Quiet
  <2>1. hist'.muddled = IF Quiet THEN hist.muddled ELSE Path
    BY Zenon DEF Restart, TypeInv, Shape
  <2> QED
    BY Zenon, <2>1 DEF Tidy
<1>2. /\ events = <<>> /\ phase = "watch" /\ loop.path # p /\ NoRun(p)
  BY Zenon, <1>1, IdleElsewhere DEF Quiet, NoRun, Worker
<1>3. Present(p) \in BOOLEAN /\ Present(p)' = Present(p)
  BY Zenon DEF Present, Restart
<1>4. \A f \in File : Row(f, p) => f = disk[p]
  <2>1. CASE NextIsWrite(events, 0, p, Present(p))
    BY Zenon, <1>2, <2>1 DEF ForgetAt, CleanInv, NoneAt
  <2>2. CASE ~ NextIsWrite(events, 0, p, Present(p))
    <3>1. NoEvents(p)
      BY SMTT(30), <1>2 DEF NoEvents
    <3> QED
      BY Zenon, <1>2, <2>2, <3>1 DEF ForgetAt, DirtyInv
  <2> QED
    BY Zenon, <2>1, <2>2
<1>5. \A f \in File : ~ Idx(f, p)' /\ (Row(f, p)' => f = disk'[p])
  BY Zenon, <1>4, NoPathAssumption DEF Restart, Row, Idx
<1>6. run'[Scanner].path # p /\ phase' = "index" /\ orphans'[p] = 0 /\ events' = <<>>
  BY Zenon, NoPathAssumption DEF Restart, IdleRun, Worker
<1>7. ScanInv(p)'
  BY Zenon, <1>5, <1>6 DEF ScanInv
<1>8. Alternates(events, p, Present(p))'
  BY Zenon, <1>3, <1>6, EmptyQueue
<1> QED
  BY Zenon, <1>6, <1>7, <1>8 DEF ForgetAt

\* At first there is neither row nor index entry.
LEMMA ForgetInit == Init => ForgetInv
<1> SUFFICES ASSUME Init, NEW p \in Path PROVE ForgetAt(p)
  BY Zenon DEF ForgetInv
<1>1. \A f \in File : ~ Row(f, p) /\ ~ Idx(f, p)
  BY Zenon, WatcherAssumption, NoPathAssumption DEF Init, EmptyStore, NoEntry, Row, Idx
<1>2. run[Scanner].path # p /\ phase = "index" /\ orphans[p] = 0 /\ events = <<>>
  BY Zenon, NoPathAssumption DEF Init, IdleRun, Worker
<1>3. Alternates(events, p, Present(p))
  BY Zenon, <1>2, EmptyQueue DEF Present
<1> QED
  BY Zenon, <1>1, <1>2, <1>3 DEF ForgetAt, ScanInv

\* Every action keeps ForgetInv.
LEMMA ForgetStep ==
    TypeInv /\ HomesInv /\ ForgetInv /\ [Next]_vars => ForgetInv'
<1> SUFFICES ASSUME TypeInv, HomesInv, ForgetInv, [Next]_vars, NEW p \in Path, Tidy(p)'
             PROVE  ForgetAt(p)'
  BY Zenon DEF ForgetInv
<1>0. Tidy(p) /\ ForgetAt(p)
  BY Zenon, TidyBefore DEF ForgetInv
<1>1. CASE UNCHANGED vars
  <2>1. SameRows(p) /\ SameQueue(p) /\ SameWork(p) /\ disk'[p] = disk[p] /\ NoEvents(p)' = NoEvents(p)
    BY Zenon, <1>1 DEF vars, SameRows, SameQueue, SameWork, NoEvents, Row, Idx, Present
  <2> QED
    BY Zenon, <1>0, <2>1, ForgetFrame
<1>2. ASSUME NEW q \in Path, NEW f \in File, WriteFile(q, f) PROVE ForgetAt(p)'
  BY Zenon, <1>0, <1>2, ForgetWrite
<1>3. ASSUME NEW q \in Path, RemoveFile(q) PROVE ForgetAt(p)'
  BY Zenon, <1>0, <1>3, ForgetRemove
<1>4. ASSUME NEW x \in Path, NEW q \in Path, RenameFile(x, q) PROVE ForgetAt(p)'
  BY Zenon, <1>0, <1>4, ForgetRename
<1>5. ASSUME NEW q \in Path, IndexScan(q) \/ ScanFile(q) PROVE ForgetAt(p)'
  BY Zenon, <1>0, <1>5, ForgetWalk
<1>6. CASE NextPhase
  BY Zenon, <1>0, <1>6, ForgetPhase
<1>7. CASE Restart
  BY Zenon, <1>0, <1>7, ForgetRestart
<1>8. CASE HandleEvent
  BY Zenon, <1>0, <1>8, ForgetHandle
<1>9. CASE RemoveLookup \/ RemoveDelete \/ RemoveIndex \/ RemoveNotify
  BY Zenon, <1>0, <1>9, ForgetOwnLoop, ForgetOtherLoop
<1>10. ASSUME NEW q \in Path, NEW r \in Run, TimerExpires(q, r) PROVE ForgetAt(p)'
  BY Zenon, <1>0, <1>10, ForgetOwnTimer, ForgetOtherTimer
<1>11. ASSUME NEW r \in Run, TimerDeletes(r) PROVE ForgetAt(p)'
  <2>1. run[r].path \in Path
    BY Zenon, <1>11 DEF TimerDeletes, TypeInv, RunOK, Worker
  <2> QED
    BY Zenon, <1>0, <1>11, <2>1, ForgetOwnTimer, ForgetOtherTimer
<1>12. ASSUME NEW r \in Worker, IndexFile(r) PROVE ForgetAt(p)'
  BY Zenon, <1>0, <1>12, ForgetOwnRun, ForgetOwnScan, ForgetOtherRun
<1>13. CASE LoseEvent
  BY Zenon, <1>0, <1>13, ForgetLose
<1> QED
  BY ZenonT(40), <1>1, <1>2, <1>3, <1>4, <1>5, <1>6, <1>7, <1>8, <1>9, <1>10, <1>11, <1>12, <1>13
     DEF Next, Worker

\* At rest with nothing queued, an absent path is one whose removal has been handled.
LEMMA ForgottenAtRest == ForgetInv => RemovedFileIsForgotten
<1> SUFFICES ASSUME ForgetInv, Quiet, NEW p \in Path \ hist.muddled, disk[p] = Absent, Unshared(p)
             PROVE  LocalAtPath(store, Self, p) = {} /\ \A f \in File : index[f] # p
  BY Zenon DEF RemovedFileIsForgotten
<1>1. ForgetAt(p)
  BY Zenon DEF ForgetInv, Tidy
<1>2. events = <<>> /\ phase = "watch" /\ loop.path # p
  BY Zenon, NoPathAssumption DEF Quiet, IdleLoop
<1>3. NextIsWrite(events, 0, p, Present(p))
  BY Zenon, <1>2, EmptyQueue DEF Present
<1>4. NoneAt(p)
  BY Zenon, <1>1, <1>2, <1>3 DEF ForgetAt, CleanInv
<1> QED
  BY Zenon, <1>4 DEF NoneAt, Row, Idx, LocalAtPath, ListByOwner

(***************************************************************************)
(* The theorem.                                                            *)
(***************************************************************************)

\* At rest a path without a file has no row and no index entry, unless its changes
\* overlapped with the work on it.
THEOREM RemovedForgotten == Spec => []RemovedFileIsForgotten
<1>1. WatcherInv /\ Init => ForgetInv
  BY Zenon, ForgetInit
<1>2. WatcherInv /\ ForgetInv /\ [Next]_vars => ForgetInv'
  BY Zenon, ForgetStep DEF WatcherInv
<1>3. ForgetInv => RemovedFileIsForgotten
  BY Zenon, ForgottenAtRest
<1> QED
  BY <1>1, <1>2, <1>3, WatcherInvariant, PTL DEF Spec
=============================================================================
