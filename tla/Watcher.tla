------------------------------- MODULE Watcher -------------------------------
(***************************************************************************)
(* The shared folder's watcher (internal/watcher) and the two things it    *)
(* keeps: the local rows of the catalog and the hash index the sender uses *)
(* (transfer/localindex.go).  Three kinds of goroutine touch them: Run,    *)
(* which scans and then handles fsnotify events; the functions of expired  *)
(* debounce timers, each running indexFile; and the sender, which only     *)
(* reads the index and is left out here.                                   *)
(*                                                                         *)
(* A file's content is its hash.  Reading a file is atomic.                *)
(***************************************************************************)
EXTENDS Catalog, Naturals, Sequences

CONSTANTS
    Self,
    Absent,         \* what is on a path where there is no regular file
    Run,            \* goroutines of expired timers that may overlap
    Scanner,        \* Run's own goroutine, in its scan
    MaxChanges,     \* bound on changes of the folder
    MaxRestarts     \* bound on restarts of the daemon

ASSUME WatcherAssumption ==
    /\ Self \in Node /\ Absent \notin File /\ Scanner \notin Run
    /\ MaxChanges \in Nat /\ MaxRestarts \in Nat

VARIABLES
    disk,       \* [Path -> File or Absent]
    store,      \* the catalog
    index,      \* LocalIndex: [File -> Path or NoPath]
    phase,      \* idx.Scan, then Watcher.scan, then the event loop
    walk,       \* paths the walk has yet to visit
    events,     \* fsnotify events not yet handled
    loop,       \* where handleEvent is
    timer,      \* debouncer.timers
    orphans,    \* armed timers that are no longer in debouncer.timers
    run,        \* the runs of indexFile
    told,       \* the local files when onChange was last called
    budget,     \* changes and restarts left
    hist        \* for the properties: homes, unseen, muddled and silent

vars == <<disk, store, index, phase, walk, events, loop, timer, orphans, run,
          told, budget, hist>>

Local == ListByOwner(store, Self)

Worker == Run \cup {Scanner}

IdleRun == [at |-> "free", path |-> NoPath, file |-> Absent]
IdleLoop == [at |-> "select", path |-> NoPath, file |-> Absent]

Position(places) == [at : places, path : Path \cup {NoPath}, file : File \cup {Absent}]

Shape ==
    /\ disk \in [Path -> File \cup {Absent}]
    /\ store \in Store
    /\ index \in [File -> Path \cup {NoPath}]
    /\ phase \in {"index", "scan", "watch"}
    /\ walk \subseteq Path
    /\ events \in Seq({"write", "remove"} \X Path)
    /\ loop \in Position({"select", "lookup", "delete", "remove", "notify"})
    /\ timer \in [Path -> {"none", "armed", "expired"}]
    /\ orphans \in [Path -> Nat]
    /\ run \in [Worker -> Position({"free", "start", "hash", "put", "add", "notify"})]
    /\ told \subseteq File
    /\ budget \in [changes : 0..MaxChanges, restarts : 0..MaxRestarts]
    /\ hist \in [homes : [File -> SUBSET Path], unseen : SUBSET Path,
                 muddled : SUBSET Path, silent : BOOLEAN]

\* A run has a path, and after hashFile a hash.
RunOK ==
    \A r \in Worker :
        /\ run[r].at = "free" => run[r] = IdleRun
        /\ run[r].at # "free" => run[r].path \in Path
        /\ run[r].at \in {"put", "add", "notify"} => run[r].file \in File

\* So has handleRemove, after its lookup.
LoopOK ==
    /\ loop.at = "select" => loop = IdleLoop
    /\ loop.at # "select" => loop.path \in Path
    /\ loop.at \in {"delete", "remove", "notify"} => loop.file \in File

\* Types; in particular handleRemove has an entry wherever it uses one, and
\* indexFile a hash.
TypeOK == Shape /\ RunOK /\ LoopOK

\* The folder may hold files when the daemon first starts.
Init ==
    /\ disk \in [Path -> File \cup {Absent}]
    /\ store = EmptyStore
    /\ index = [f \in File |-> NoPath]
    /\ phase = "index" /\ walk = Path
    /\ events = <<>>
    /\ loop = IdleLoop
    /\ timer = [p \in Path |-> "none"]
    /\ orphans = [p \in Path |-> 0]
    /\ run = [r \in Worker |-> IdleRun]
    /\ told = {}
    /\ budget = [changes |-> MaxChanges, restarts |-> MaxRestarts]
    /\ hist = [homes |-> [f \in File |-> {p \in Path : disk[p] = f}],
               unseen |-> {}, muddled |-> {}, silent |-> FALSE]

\* Nothing is left to do: no event, timer or goroutine.
Quiet ==
    /\ phase = "watch" /\ events = <<>> /\ loop = IdleLoop
    /\ \A p \in Path : timer[p] = "none" /\ orphans[p] = 0
    /\ \A r \in Worker : run[r] = IdleRun

\* A run of indexFile for path p is under way, or its timer cannot be stopped.
InFlight(p) == orphans[p] > 0 \/ \E r \in Worker : run[r].path = p

-----------------------------------------------------------------------------
(***************************************************************************)
(* The user changes the folder.  Events are only produced once fsw.Add has *)
(* been called.                                                            *)
(***************************************************************************)
Changed(new, evs) ==
    LET touched == {p \in Path : new[p] # disk[p]} IN
    /\ budget.changes > 0
    /\ budget' = [budget EXCEPT !.changes = @ - 1]
    /\ disk' = new
    /\ events' = IF phase = "watch" THEN events \o evs ELSE events
    /\ hist' = [hist EXCEPT
         !.homes = [f \in File |-> @[f] \cup {p \in Path : new[p] = f}],
         !.unseen = IF phase = "watch" THEN @ ELSE @ \cup touched,
         !.muddled = @ \cup {p \in touched :
                              \/ phase # "watch" \/ InFlight(p)
                              \/ disk[p] # Absent /\ new[p] # Absent}]
    /\ UNCHANGED <<store, index, phase, walk, loop, timer, orphans, run, told>>

\* A file is created or its content is replaced.
WriteFile(p, f) ==
    /\ disk[p] # f
    /\ Changed([disk EXCEPT ![p] = f], <<<<"write", p>>>>)

RemoveFile(p) ==
    /\ disk[p] # Absent
    /\ Changed([disk EXCEPT ![p] = Absent], <<<<"remove", p>>>>)

\* mv p q: a rename event for p and a create event for q.
RenameFile(p, q) ==
    /\ disk[p] # Absent /\ p # q
    /\ Changed([disk EXCEPT ![q] = disk[p], ![p] = Absent],
               <<<<"remove", p>>, <<"write", q>>>>)

-----------------------------------------------------------------------------
(***************************************************************************)
(* Starting: LocalIndex.Scan, then Watcher.scan, then fsw.Add.             *)
(***************************************************************************)
IndexScan(p) ==
    /\ phase = "index" /\ p \in walk
    /\ walk' = walk \ {p}
    /\ index' = IF disk[p] = Absent THEN index ELSE [index EXCEPT ![disk[p]] = p]
    /\ UNCHANGED <<disk, store, phase, events, loop, timer, orphans, run, told, budget, hist>>

ScanFile(p) ==
    /\ phase = "scan" /\ p \in walk /\ run[Scanner].at = "free"
    /\ walk' = walk \ {p}
    /\ run' = [run EXCEPT ![Scanner] = [at |-> "hash", path |-> p, file |-> Absent]]
    /\ UNCHANGED <<disk, store, index, phase, events, loop, timer, orphans, told, budget, hist>>

NextPhase ==
    /\ walk = {} /\ run[Scanner].at = "free"
    /\ \/ phase = "index" /\ phase' = "scan" /\ walk' = Path
       \/ phase = "scan" /\ phase' = "watch" /\ UNCHANGED walk
    /\ UNCHANGED <<disk, store, index, events, loop, timer, orphans, run, told, budget, hist>>

\* The daemon stops, or crashes, and starts again; only the catalog stays.
Restart ==
    /\ budget.restarts > 0
    /\ budget' = [budget EXCEPT !.restarts = @ - 1]
    /\ index' = [f \in File |-> NoPath]
    /\ phase' = "index" /\ walk' = Path
    /\ events' = <<>>
    /\ loop' = IdleLoop
    /\ timer' = [p \in Path |-> "none"]
    /\ orphans' = [p \in Path |-> 0]
    /\ run' = [r \in Worker |-> IdleRun]
    /\ told' = Local    \* connections are new, and Serve sends them the list
    /\ hist' = [hist EXCEPT !.unseen = {}, !.silent = FALSE,
                            !.muddled = IF Quiet THEN @ ELSE Path]
    /\ UNCHANGED <<disk, store>>

-----------------------------------------------------------------------------
(***************************************************************************)
(* The event loop.                                                         *)
(***************************************************************************)

\* debouncer.schedule: Reset re-arms a timer that has expired but whose
\* function has not yet taken it out of the map.
Schedule(p) == timer' = [timer EXCEPT ![p] = "armed"]

HandleEvent ==
    /\ phase = "watch" /\ loop.at = "select" /\ events # <<>>
    /\ events' = Tail(events)
    /\ LET p == Head(events)[2] IN
         \/ /\ Head(events)[1] = "write"
            /\ Schedule(p)
            /\ UNCHANGED <<loop, hist>>
         \/ /\ Head(events)[1] = "remove"
            /\ timer' = [timer EXCEPT ![p] = "none"]      \* debouncer.cancel
            /\ loop' = [at |-> "lookup", path |-> p, file |-> Absent]
            /\ hist' = [hist EXCEPT !.muddled = IF InFlight(p) THEN @ \cup {p} ELSE @]
    /\ UNCHANGED <<disk, store, index, phase, walk, orphans, run, told, budget>>

\* The inotify queue is full and the newest event is not kept.  loop gets
\* ErrEventOverflow from fsw.Errors and only logs it.
LoseEvent ==
    /\ phase = "watch" /\ events # <<>>
    /\ events' = SubSeq(events, 1, Len(events) - 1)
    /\ hist' = [hist EXCEPT !.unseen = @ \cup {events[Len(events)][2]},
                            !.muddled = @ \cup {events[Len(events)][2]}]
    /\ UNCHANGED <<disk, store, index, phase, walk, loop, timer, orphans, run, told, budget>>

\* handleRemove uses what LookupLocalByPath returned, also when that is nil.
RemoveLookup_NoNil ==
    /\ loop.at = "lookup"
    /\ LET rows == LocalAtPath(store, Self, loop.path) IN
         \/ rows = {} /\ loop' = [loop EXCEPT !.at = "delete"]
         \/ \E f \in rows : loop' = [loop EXCEPT !.at = "delete", !.file = f]
    /\ UNCHANGED <<disk, store, index, phase, walk, events, timer, orphans, run, told, budget, hist>>

\* handleRemove: LookupLocalByPath.
RemoveLookup ==
    /\ loop.at = "lookup"
    /\ LET rows == LocalAtPath(store, Self, loop.path) IN
         \/ rows = {} /\ loop' = IdleLoop
         \/ \E f \in rows : loop' = [loop EXCEPT !.at = "delete", !.file = f]
    /\ UNCHANGED <<disk, store, index, phase, walk, events, timer, orphans, run, told, budget, hist>>

RemoveDelete ==
    /\ loop.at = "delete"
    /\ store' = DeleteLocal(store, Self, loop.file)
    /\ loop' = [loop EXCEPT !.at = "remove"]
    /\ UNCHANGED <<disk, index, phase, walk, events, timer, orphans, run, told, budget, hist>>

\* The file stays in the sender's index.
RemoveIndex_Forgotten ==
    /\ loop.at = "remove"
    /\ loop' = [loop EXCEPT !.at = "notify"]
    /\ UNCHANGED <<disk, store, index, phase, walk, events, timer, orphans, run, told, budget, hist>>

RemoveIndex ==
    /\ loop.at = "remove"
    /\ index' = [index EXCEPT ![loop.file] = NoPath]
    /\ loop' = [loop EXCEPT !.at = "notify"]
    /\ UNCHANGED <<disk, store, phase, walk, events, timer, orphans, run, told, budget, hist>>

RemoveNotify ==
    /\ loop.at = "notify"
    /\ told' = Local
    /\ loop' = IdleLoop
    /\ hist' = [hist EXCEPT !.silent = FALSE]
    /\ UNCHANGED <<disk, store, index, phase, walk, events, timer, orphans, run, budget>>

-----------------------------------------------------------------------------
(***************************************************************************)
(* Timers and indexFile.                                                   *)
(***************************************************************************)

\* A timer's function starts in a goroutine of its own.
TimerExpires(p, r) ==
    /\ run[r].at = "free"
    /\ \/ /\ timer[p] = "armed"
          /\ timer' = [timer EXCEPT ![p] = "expired"]
          /\ UNCHANGED orphans
       \/ /\ orphans[p] > 0
          /\ orphans' = [orphans EXCEPT ![p] = @ - 1]
          /\ UNCHANGED timer
    /\ run' = [run EXCEPT ![r] = [at |-> "start", path |-> p, file |-> Absent]]
    /\ UNCHANGED <<disk, store, index, phase, walk, events, loop, told, budget, hist>>

\* delete(d.timers, path): also of a timer armed since.
TimerDeletes(r) ==
    LET p == run[r].path IN
    /\ run[r].at = "start"
    /\ timer' = [timer EXCEPT ![p] = "none"]
    /\ orphans' = IF timer[p] = "armed" THEN [orphans EXCEPT ![p] = @ + 1] ELSE orphans
    /\ run' = [run EXCEPT ![r].at = "hash"]
    /\ UNCHANGED <<disk, store, index, phase, walk, events, loop, told, budget, hist>>

\* os.Stat and hashFile; without a file the run ends.
HashFile(r) ==
    LET f == disk[run[r].path] IN
    /\ run[r].at = "hash"
    /\ run' = [run EXCEPT ![r] = IF f = Absent THEN IdleRun
                                 ELSE [at |-> "put", path |-> @.path, file |-> f]]
    /\ UNCHANGED <<disk, store, index, phase, walk, events, loop, timer, orphans, told, budget, hist>>

PutEntry(r) ==
    /\ run[r].at = "put"
    /\ store' = PutLocal(store, Self, run[r].file, run[r].path)
    /\ run' = [run EXCEPT ![r].at = "add"]
    /\ UNCHANGED <<disk, index, phase, walk, events, loop, timer, orphans, told, budget, hist>>

\* The index gets the hash that was put, without reading the file again, and
\* a file that has gone is not noticed.
AddToIndex_NotFirst(r) ==
    /\ run[r].at = "add"
    /\ index' = IF index[run[r].file] = NoPath THEN index
                ELSE [index EXCEPT ![run[r].file] = run[r].path]
    /\ run' = [run EXCEPT ![r].at = "notify"]
    /\ UNCHANGED <<disk, store, phase, walk, events, loop, timer, orphans, told, budget, hist>>

\* LocalIndex.Add hashes the file again; an error ends the run here.
AddToIndex(r) ==
    LET f == disk[run[r].path] IN
    /\ run[r].at = "add"
    /\ \/ /\ f # Absent
          /\ index' = [index EXCEPT ![f] = run[r].path]
          /\ run' = [run EXCEPT ![r].at = "notify"]
          /\ UNCHANGED hist
       \/ /\ f = Absent
          /\ run' = [run EXCEPT ![r] = IdleRun]
          /\ hist' = [hist EXCEPT !.silent = TRUE]
          /\ UNCHANGED index
    /\ UNCHANGED <<disk, store, phase, walk, events, loop, timer, orphans, told, budget>>

\* onChange is told of the files before the run's own.
NotifyChange_Late(r) ==
    /\ run[r].at = "notify"
    /\ told' = Local \ {run[r].file}
    /\ run' = [run EXCEPT ![r] = IdleRun]
    /\ hist' = [hist EXCEPT !.silent = FALSE]
    /\ UNCHANGED <<disk, store, index, phase, walk, events, loop, timer, orphans, budget>>

NotifyChange(r) ==
    /\ run[r].at = "notify"
    /\ told' = Local
    /\ run' = [run EXCEPT ![r] = IdleRun]
    /\ hist' = [hist EXCEPT !.silent = FALSE]
    /\ UNCHANGED <<disk, store, index, phase, walk, events, loop, timer, orphans, budget>>

IndexFile(r) == HashFile(r) \/ PutEntry(r) \/ AddToIndex(r) \/ NotifyChange(r)

Next ==
    \/ \E p \in Path, f \in File : WriteFile(p, f)
    \/ \E p \in Path : RemoveFile(p)
    \/ \E p, q \in Path : RenameFile(p, q)
    \/ \E p \in Path : IndexScan(p) \/ ScanFile(p)
    \/ NextPhase \/ Restart
    \/ HandleEvent \/ LoseEvent \/ RemoveLookup \/ RemoveDelete \/ RemoveIndex \/ RemoveNotify
    \/ \E p \in Path, r \in Run : TimerExpires(p, r)
    \/ \E r \in Run : TimerDeletes(r)
    \/ \E r \in Worker : IndexFile(r)

Spec == Init /\ [][Next]_vars

-----------------------------------------------------------------------------
(***************************************************************************)
(* Properties.                                                             *)
(***************************************************************************)

\* At rest, a file that lies in the folder is in the catalog and can be sent,
\* in spite of debouncing, overlapping runs, removal and re-creation; unless
\* it changed between its scan and fsw.Add, an event of it was lost to an
\* overflow, or its content was also elsewhere.
PresentFileIsShared ==
    Quiet => \A p \in Path \ hist.unseen :
        LET f == disk[p] IN
        f # Absent /\ hist.homes[f] = {p}
            => f \in Local /\ store.entries[Self][f].path = p /\ index[f] = p

\* Contents that were at path p were nowhere else.
Unshared(p) == \A f \in File : p \in hist.homes[f] => hist.homes[f] = {p}

\* At rest, a path without a file has no row and no index entry, unless it
\* changed while nobody watched, lost an event to an overflow, had work
\* outstanding at a restart, was overwritten, changed or had a removal
\* handled while indexFile was at work on it, or had a content that was also
\* elsewhere.
RemovedFileIsForgotten ==
    Quiet => \A p \in Path \ hist.muddled :
        disk[p] = Absent /\ Unshared(p)
            => LocalAtPath(store, Self, p) = {} /\ \A f \in File : index[f] # p

\* At rest, the last onChange saw the catalog as it is, unless LocalIndex.Add
\* failed after PutLocal, which is the one way to change the catalog silently.
ChangesAreAnnounced == Quiet /\ ~ hist.silent => told = Local

\* The watcher "keeps the catalog store and in-memory file index up to date"
\* (package comment): at rest, when every change since the last scan had its
\* events and every change of the catalog was announced, the catalog lists
\* what is in the folder.
CatalogIsUpToDate ==
    Quiet /\ hist.unseen = {} /\ ~ hist.silent => Local = {disk[p] : p \in Path} \ {Absent}
=============================================================================
