--------------------------------- MODULE Tui ---------------------------------
(***************************************************************************)
(* The interactive TUI against a running daemon: tui.Model with its panels *)
(* and overlays, the commands it runs in goroutines of their own, and the  *)
(* feed of daemon events, of which only what EventFeed promises is used.   *)
(*                                                                         *)
(* bubbletea calls Update for one message at a time.  A command makes one  *)
(* call on the daemon (the calls are serialised by ipc.Client.mu) and then *)
(* hands its result to Update: two steps, between which the daemon and the *)
(* other commands go on.  Update is a function from the interface's state  *)
(* to the next one and the commands to run.                                *)
(*                                                                         *)
(* The daemon is what the TUI sees of it: the rows of its catalog, the     *)
(* peers it has stored, and connections that come and go.  A goroutine     *)
(* commits a change first and broadcasts it afterwards.  The status bar    *)
(* (addresses and a peer count, from a call of their own) is left out.     *)
(***************************************************************************)
EXTENDS Integers, FiniteSets, Sequences, FiniteSetsExt

CONSTANTS
    Row,            \* catalog rows, naturals in the order of their keys
    FileOf, NameOf, LocalRow,   \* of a row: its file, its name, is it the node's own
    Peer,           \* the other nodes, naturals in the order of their keys
    Link,           \* connections to peers, each up at most once
    PeerOf,         \* the peer of a connection
    Watch,          \* the source of the catalog_updated events
    MaxChanges,     \* bound: changes of the daemon's catalog
    Plan            \* what may happen around the TUI, at most: see below

(***************************************************************************)
(* A plan bounds one behaviour: the rows and the peers that the daemon has *)
(* at first, the connections that may come up, the changes of the catalog, *)
(* the keys and panel heights the user has and how often they are used,    *)
(* the events lost one by one, whether calls fail and subscriptions are    *)
(* closed while the daemon runs, and whether it may end.                   *)
(***************************************************************************)
PlanType ==
    [rows : SUBSET Row, known : SUBSET Peer, links : SUBSET Link, changes : 0..MaxChanges,
     keys : SUBSET STRING, heights : SUBSET Int, presses : Nat, lost : Nat,
     faults : BOOLEAN, exits : BOOLEAN]

ASSUME PlanAssumption == Plan \subseteq PlanType

ASSUME KeyAssumption ==
    /\ Row \subseteq Nat /\ IsFiniteSet(Row)
    /\ Peer \subseteq Nat /\ IsFiniteSet(Peer)
    /\ PeerOf \in [Link -> Peer] /\ Watch \notin Link

Source == Link \cup {Watch}

VARIABLES
    queue, state, got,  \* the feed: see EventFeed
    up,             \* the daemon runs
    db, changes,    \* rows of its catalog, and how often they changed
    announced,      \* catalog_updated broadcasts made
    known,          \* peers in its store
    link,           \* [Link -> "new", "up", "online" (broadcast), "down", "gone" (broadcast)]
    ui,             \* tui.Model
    flight,         \* commands under way
    listening,      \* a waitForEvent command is under way
    plan,           \* the plan followed; presses counts down
    lost,           \* history: the sources of events that did not arrive
    shown,          \* history: the change shown last
    overtaken       \* history: an older one was shown after it, or a fetch failed

feedVars == <<queue, state, got>>
daemonVars == <<up, db, changes, announced, known, link>>
tuiVars == <<ui, flight, listening, plan, shown, overtaken>>
vars == <<feedVars, daemonVars, tuiVars, lost>>

Feed == INSTANCE EventFeed WITH Number <- 1..(MaxChanges + 2)

\* Rows, or peers, in the order of their keys.
InOrder(S) ==
    CHOOSE s \in [1..Cardinality(S) -> S] : \A i, j \in 1..Cardinality(S) : i < j => s[i] < s[j]

DropAt(s, i) == SubSeq(s, 1, i - 1) \o SubSeq(s, i + 1, Len(s))

-----------------------------------------------------------------------------
\* CatalogModel.

NewCatalog == [files |-> {}, cursor |-> 0, offset |-> 0, selected |-> {},
               search |-> <<>>, searching |-> FALSE]

\* applyFilter: the rows whose name contains the search text.  The code keeps them
\* in `filtered`, which is recomputed whenever the files or the text change.
Filtered(c) ==
    {r \in c.files : \E i \in 0..(Len(NameOf[r]) - Len(c.search)) :
                        SubSeq(NameOf[r], i + 1, i + Len(c.search)) = c.search}

Visible(c) == IF c.searching /\ c.search # <<>> THEN Filtered(c) ELSE c.files

VisibleSeq(c) == InOrder(Visible(c))

Clamped(cursor, n) == IF n = 0 THEN 0 ELSE Max({0, Min({cursor, n - 1})})

clampCursor(c) == [c EXCEPT !.cursor = Clamped(@, Cardinality(Visible(c)))]

\* The cursor stays where it was.
SetFiles_NoClamp(c, files) == [c EXCEPT !.files = files]

\* SetFiles replaces the rows and keeps the cursor in the list; the selection is
\* by file and stays, and so does the offset.
SetFiles(c, files) == clampCursor([c EXCEPT !.files = files])

\* The viewport follows the cursor; for both panels.
scrollToCursor(c, h) ==
    LET o == IF c.cursor < c.offset THEN c.cursor ELSE c.offset
    IN  IF h <= 0 THEN c
        ELSE [c EXCEPT !.offset = IF c.cursor >= o + h THEN c.cursor - h + 1 ELSE o]

moveCursor(c, h, d) == scrollToCursor(clampCursor([c EXCEPT !.cursor = @ + d]), h)

toggleSelection(c) ==
    IF c.cursor >= Cardinality(Visible(c)) THEN c
    ELSE LET f == FileOf[VisibleSeq(c)[c.cursor + 1]] IN
         [c EXCEPT !.selected = IF f \in @ THEN @ \ {f} ELSE @ \cup {f}]

SelectedFiles(c) == {r \in Visible(c) : FileOf[r] \in c.selected}

\* Keys of type KeyRunes.
Rune == {"q", "?", "p", "D", "i", "J", "j", "k", "g", "G", "/", "x", "d", "y", "n"}

updateSearch(c, h, k) ==
    CASE k = "esc" -> clampCursor([c EXCEPT !.searching = FALSE, !.search = <<>>])
      [] k = "backspace" -> IF c.search = <<>> THEN c
                            ELSE clampCursor([c EXCEPT !.search = SubSeq(@, 1, Len(@) - 1)])
      [] k \in Rune -> [c EXCEPT !.search = Append(@, k), !.cursor = 0, !.offset = 0]
      [] k = "down" -> moveCursor(c, h, 1)
      [] k = "up" -> moveCursor(c, h, -1)
      [] OTHER -> c

CatalogKey(c, h, k) ==
    IF c.searching THEN updateSearch(c, h, k)
    ELSE CASE k \in {"j", "down"} -> moveCursor(c, h, 1)
           [] k \in {"k", "up"} -> moveCursor(c, h, -1)
           [] k = "g" -> scrollToCursor([c EXCEPT !.cursor = 0], h)
           [] k = "G" -> scrollToCursor(
                             [c EXCEPT !.cursor = Max({0, Cardinality(Visible(c)) - 1})], h)
           [] k = "ctrl+d" -> moveCursor(c, h, h \div 2)
           [] k = "ctrl+u" -> moveCursor(c, h, -(h \div 2))
           [] k = "/" -> [c EXCEPT !.searching = TRUE, !.search = <<>>]
           [] k = "x" -> toggleSelection(c)
           [] OTHER -> c

-----------------------------------------------------------------------------
\* PeerModel.

NewPeers == [list |-> <<>>, cursor |-> 0, offset |-> 0]

\* SetPeers: handlePeers never says that a peer is online.
SetPeers(p, peers) ==
    [p EXCEPT !.list = [i \in 1..Len(peers) |-> [peer |-> peers[i], online |-> FALSE]],
              !.cursor = Clamped(@, Len(peers))]

Shown(p, n) == {i \in 1..Len(p.list) : p.list[i].peer = n}

UpdatePeerOnline(p, n) ==
    IF Shown(p, n) = {}
    THEN [p EXCEPT !.list = Append(@, [peer |-> n, online |-> TRUE])]
    ELSE [p EXCEPT !.list[Min(Shown(p, n))].online = TRUE]

\* An offline event changes nothing.
UpdatePeerOffline_Ignored(p, n) == p

UpdatePeerOffline(p, n) ==
    IF Shown(p, n) = {} THEN p ELSE [p EXCEPT !.list[Min(Shown(p, n))].online = FALSE]

PeerKey(p, h, k) ==
    LET To(i) == scrollToCursor([p EXCEPT !.cursor = i], h)
        n == Len(p.list)
    IN  CASE k \in {"j", "down"} -> To(Clamped(p.cursor + 1, n))
          [] k \in {"k", "up"} -> To(Clamped(p.cursor - 1, n))
          [] k = "g" -> To(0)
          [] k = "G" -> To(Max({0, n - 1}))
          [] OTHER -> p

-----------------------------------------------------------------------------
\* ProgressModel: the downloads started, each done or not.

AddTransfers(t, rows) == t \o [i \in 1..Len(rows) |-> [file |-> FileOf[rows[i]], done |-> FALSE]]

\* Every transfer of the file is marked.
MarkDone_All(t, f) ==
    [i \in 1..Len(t) |-> IF t[i].file = f THEN [t[i] EXCEPT !.done = TRUE] ELSE t[i]]

\* MarkDone marks the first transfer of that file, done already or not.
MarkDone(t, f) ==
    LET of == {i \in 1..Len(t) : t[i].file = f}
    IN  IF of = {} THEN t ELSE [t EXCEPT ![Min(of)].done = TRUE]

-----------------------------------------------------------------------------
\* Overlays.  `text` is the length of what was typed into the join overlay.

NoOverlay == [kind |-> "none", loading |-> FALSE, text |-> 0, result |-> "none"]

NewOverlay(kind) == [NoOverlay EXCEPT !.kind = kind, !.loading = (kind = "invite")]

\* A command: the call it makes and, once made, what the daemon answered.
Cmd(call, arg) ==
    [call |-> call, arg |-> arg, made |-> FALSE, ok |-> FALSE, val |-> <<>>, ver |-> 0]

\* The text input takes keys until the token is sent.
JoinInput(o, k) ==
    IF o.loading \/ o.result = "ok" THEN o
    ELSE [o EXCEPT !.text = CASE k \in Rune -> @ + 1
                              [] k = "backspace" -> Max({0, @ - 1})
                              [] k = "ctrl+u" -> 0
                              [] OTHER -> @]

\* Closes(o, k): the key closes the overlay.  The action behind "y" does nothing.
Closes(o, k) ==
    \/ k = "esc"
    \/ o.kind = "help" /\ k = "?"
    \/ o.kind = "detail" /\ k = "enter"
    \/ o.kind = "confirm" /\ k \in {"y", "n"}

OverlayKey(o, k) ==
    IF Closes(o, k) THEN NoOverlay
    ELSE IF o.kind # "join" THEN o
    ELSE IF k # "enter" \/ o.loading THEN JoinInput(o, k)
    ELSE IF o.text = 0 THEN [o EXCEPT !.result = IF @ = "ok" THEN @ ELSE "err"]
    ELSE [o EXCEPT !.loading = TRUE, !.result = IF @ = "ok" THEN @ ELSE "none"]

OverlayCmds(o, k) ==
    IF o.kind = "join" /\ k = "enter" /\ ~ o.loading /\ o.text > 0
    THEN <<Cmd("join", 0)>> ELSE <<>>

\* handleOverlayResult: the result goes to the overlay that is open now.
OverlayResult(o, cmd) ==
    IF o.kind # cmd.call THEN o
    ELSE [o EXCEPT !.loading = FALSE,
                   !.result = IF cmd.ok THEN "ok" ELSE IF @ = "ok" THEN @ ELSE "err"]

-----------------------------------------------------------------------------
\* Model.

NewModel == [catalog |-> NewCatalog, peers |-> NewPeers,
             transfers |-> <<>>, progress |-> FALSE, focus |-> "catalog",
             overlay |-> NoOverlay, height |-> 0, err |-> FALSE, quitting |-> FALSE]

\* startDownloads: the selected rows that are visible and not local.
Wanted(c) == InOrder({r \in SelectedFiles(c) : ~ LocalRow[r]})

startDownloads(u) ==
    LET w == Wanted(u.catalog)
    IN  [u EXCEPT !.transfers = AddTransfers(@, w), !.progress = @ \/ w # <<>>]

PanelKey(u, k) ==
    IF u.focus = "catalog"
    THEN [u EXCEPT !.catalog = CatalogKey(@, u.height, k)]
    ELSE LET v == [u EXCEPT !.peers = PeerKey(@, u.height, k)]
             picked == v.peers.cursor < Len(v.peers.list)
         IN  CASE k = "enter" /\ picked -> [v EXCEPT !.overlay = NewOverlay("detail")]
               [] k = "d" /\ picked -> [v EXCEPT !.overlay = NewOverlay("confirm")]
               [] OTHER -> v

handleKey(u, k) ==
    IF k = "ctrl+c" THEN [u EXCEPT !.quitting = TRUE]
    ELSE IF u.overlay.kind # "none" THEN [u EXCEPT !.overlay = OverlayKey(@, k)]
    ELSE IF k = "q" /\ ~ u.catalog.searching THEN [u EXCEPT !.quitting = TRUE]
    ELSE CASE k = "tab" -> [u EXCEPT !.focus = IF @ = "catalog" THEN "peers" ELSE "catalog"]
           [] k = "?" -> [u EXCEPT !.overlay = NewOverlay("help")]
           [] k = "p" -> [u EXCEPT !.progress = ~ @]
           [] k = "D" -> startDownloads(u)
           [] k = "i" -> [u EXCEPT !.overlay = NewOverlay("invite")]
           [] k = "J" -> [u EXCEPT !.overlay = NewOverlay("join")]
           [] OTHER -> PanelKey(u, k)

KeyCmds(u, k) ==
    IF u.overlay.kind # "none" THEN OverlayCmds(u.overlay, k)
    ELSE CASE k = "D" -> [i \in 1..Len(Wanted(u.catalog)) |->
                             Cmd("download", FileOf[Wanted(u.catalog)[i]])]
           [] k = "i" -> <<Cmd("invite", 0)>>
           [] OTHER -> <<>>

\* Update with the result of a command.
handleResult(u, cmd) ==
    CASE cmd.call = "peers" ->
            IF cmd.ok THEN [u EXCEPT !.peers = SetPeers(@, cmd.val)]
            ELSE [u EXCEPT !.err = TRUE]
      [] cmd.call = "catalog" ->
            IF cmd.ok THEN [u EXCEPT !.catalog = SetFiles(@, cmd.val)]
            ELSE [u EXCEPT !.err = TRUE]
      [] cmd.call \in {"invite", "join"} -> [u EXCEPT !.overlay = OverlayResult(@, cmd)]
      [] cmd.call = "download" -> [u EXCEPT !.transfers = MarkDone(@, cmd.arg)]

ResultCmds(cmd) ==
    IF cmd.call = "download" /\ cmd.ok THEN <<Cmd("catalog", 0)>> ELSE <<>>

\* handleEvent: a connection's first event says online, its second offline.
handleEvent(u, e) ==
    IF e[1] = Watch THEN u
    ELSE IF e[2] = 1 THEN [u EXCEPT !.peers = UpdatePeerOnline(@, PeerOf[e[1]])]
    ELSE [u EXCEPT !.peers = UpdatePeerOffline(@, PeerOf[e[1]])]

\* catalog_updated does not make the TUI fetch.
EventCmds_NoFetch(e) == <<>>

EventCmds(e) == IF e[1] = Watch THEN <<Cmd("catalog", 0)>> ELSE <<>>

-----------------------------------------------------------------------------
\* runTUI: a connection for calls, one that is subscribed, then the model.
Init ==
    /\ Feed!Init
    /\ up = TRUE
    /\ plan \in Plan
    /\ db = plan.rows /\ changes = 0 /\ announced = 0
    /\ known = plan.known
    /\ link = [l \in Link |-> "new"]
    /\ ui = NewModel
    /\ flight = <<Cmd("peers", 0), Cmd("catalog", 0)>>
    /\ listening = TRUE
    /\ lost = {} /\ shown = 0 /\ overtaken = FALSE

\* The daemon.  Subscribe has been acknowledged; the server adds the subscriber.
FeedOpens ==
    /\ up /\ Feed!Open
    /\ UNCHANGED <<daemonVars, tuiVars, lost>>

\* The event is written to the subscriber.  When that fails (a TUI that has not read
\* for 5 s), the daemon closes the subscription and goes on; what was written before
\* can still be read.  An event that finds no subscriber is not kept for one.
Broadcast(e) ==
    \/ Feed!Publish(e) /\ UNCHANGED lost
    \/ /\ plan.faults /\ state = "on" /\ Feed!Cut /\ queue' = queue
       /\ lost' = lost \cup {e[1]}
    \/ /\ state # "on" /\ UNCHANGED feedVars
       /\ lost' = lost \cup {e[1]}

\* The watcher, or an offer of a peer, commits a change of the catalog.
CatalogChanges ==
    /\ up /\ changes < plan.changes
    /\ db' \in SUBSET Row \ {db}
    /\ changes' = changes + 1
    /\ UNCHANGED <<feedVars, up, announced, known, link, tuiVars, lost>>

BroadcastCatalogUpdated ==
    /\ up /\ announced < changes
    /\ announced' = announced + 1
    /\ Broadcast(<<Watch, announced + 1>>)
    /\ UNCHANGED <<up, db, changes, known, link, tuiVars>>

\* acceptLoop has a connection; a joined one comes up in CallJoin.
LinkUp(l) ==
    /\ up /\ link[l] = "new" /\ l \in plan.links
    /\ link' = [link EXCEPT ![l] = "up"]
    /\ UNCHANGED <<feedVars, up, db, changes, announced, known, tuiVars, lost>>

BroadcastPeerOnline(l) ==
    /\ up /\ link[l] = "up"
    /\ link' = [link EXCEPT ![l] = "online"]
    /\ Broadcast(<<l, 1>>)
    /\ UNCHANGED <<up, db, changes, announced, known, tuiVars>>

\* Serve returns.
LinkDown(l) ==
    /\ up /\ link[l] = "online"
    /\ link' = [link EXCEPT ![l] = "down"]
    /\ UNCHANGED <<feedVars, up, db, changes, announced, known, tuiVars, lost>>

BroadcastPeerOffline(l) ==
    /\ up /\ link[l] = "down"
    /\ link' = [link EXCEPT ![l] = "gone"]
    /\ Broadcast(<<l, 2>>)
    /\ UNCHANGED <<up, db, changes, announced, known, tuiVars>>

DaemonExits ==
    /\ up /\ plan.exits
    /\ \/ Feed!Cut
       \/ state \in {"off", "ended"} /\ UNCHANGED feedVars
    /\ up' = FALSE
    /\ UNCHANGED <<db, changes, announced, known, link, tuiVars, lost>>

EventLost ==
    /\ Cardinality(lost) < plan.lost
    /\ \E i \in 1..Len(queue) :
         /\ queue' = DropAt(queue, i)
         /\ lost' = lost \cup {queue[i][1]}
    /\ Feed!Lose
    /\ UNCHANGED <<daemonVars, tuiVars>>

-----------------------------------------------------------------------------
\* The TUI's goroutines.

Answered(i, ok, val) ==
    flight' = [flight EXCEPT ![i].made = TRUE, ![i].ok = ok, ![i].val = val,
                                 ![i].ver = IF flight[i].call = "catalog" THEN changes ELSE 0]

\* The calls that only read: handlePeers, handleCatalog, handleInvite, and
\* handleDownload, which is not implemented.  A call fails without a daemon, and with
\* one when its store cannot be read, when the answer is beyond 4 MiB, and after that
\* always, as the server has closed the connection.
CallQuery(i) ==
    /\ ~ ui.quitting /\ ~ flight[i].made /\ (up => flight[i].call # "join")
    /\ \E ok \in BOOLEAN :
         /\ ok => up /\ flight[i].call # "download"
         /\ up /\ flight[i].call # "download" /\ ~ plan.faults => ok
         /\ Answered(i, ok, CASE ok /\ flight[i].call = "peers" -> InOrder(known)
                              [] ok /\ flight[i].call = "catalog" -> db
                              [] OTHER -> <<>>)
    /\ UNCHANGED <<feedVars, daemonVars, ui, listening, plan, shown, overtaken, lost>>

\* handleJoin: the token or the dial fails, or the peer is served, even when it could
\* not be stored.
CallJoin(i) ==
    /\ ~ ui.quitting /\ ~ flight[i].made /\ up /\ flight[i].call = "join"
    /\ \/ /\ Answered(i, FALSE, <<>>)
          /\ UNCHANGED <<known, link>>
       \/ \E l \in plan.links :
             /\ link[l] = "new"
             /\ link' = [link EXCEPT ![l] = "up"]
             /\ known' \in {known, known \cup {PeerOf[l]}}
             /\ Answered(i, TRUE, <<>>)
    /\ UNCHANGED <<feedVars, up, db, changes, announced, ui, listening, plan, shown, overtaken, lost>>

\* Update with a command's result.
Deliver(i) ==
    LET cmd == flight[i]
        fetch == cmd.call = "catalog"
    IN  /\ ~ ui.quitting /\ cmd.made
        /\ ui' = handleResult(ui, cmd)
        /\ flight' = DropAt(flight, i) \o ResultCmds(cmd)
        /\ shown' = IF fetch /\ cmd.ok THEN cmd.ver ELSE shown
        /\ overtaken' = (overtaken \/ (fetch /\ (cmd.ok => cmd.ver < shown)))
        /\ UNCHANGED <<feedVars, daemonVars, listening, plan, lost>>

\* waitForEvent is only issued again after a catalog update.
EventMsg_NotAgain ==
    /\ ~ ui.quitting /\ listening
    /\ Feed!Take
    /\ ui' = handleEvent(ui, Head(queue))
    /\ flight' = flight \o EventCmds(Head(queue))
    /\ listening' = (Head(queue)[1] = Watch)
    /\ UNCHANGED <<daemonVars, plan, shown, overtaken, lost>>

\* waitForEvent has an event; Update handles it and issues waitForEvent again.
EventMsg ==
    /\ ~ ui.quitting /\ listening
    /\ Feed!Take
    /\ ui' = handleEvent(ui, Head(queue))
    /\ flight' = flight \o EventCmds(Head(queue))
    /\ listening' = TRUE
    /\ UNCHANGED <<daemonVars, plan, shown, overtaken, lost>>

\* waitForEvent finds the channel closed: daemonDisconnected.
Disconnected ==
    /\ ~ ui.quitting /\ listening
    /\ Feed!End
    /\ ui' = [ui EXCEPT !.err = TRUE]
    /\ listening' = FALSE
    /\ UNCHANGED <<daemonVars, flight, plan, shown, overtaken, lost>>

KeyMsg(k) ==
    /\ ~ ui.quitting /\ plan.presses > 0
    /\ plan' = [plan EXCEPT !.presses = @ - 1]
    /\ ui' = handleKey(ui, k)
    /\ flight' = flight \o KeyCmds(ui, k)
    /\ UNCHANGED <<feedVars, daemonVars, listening, shown, overtaken, lost>>

\* recalcLayout: SetSize does not scroll.
WindowSizeMsg(h) ==
    /\ ~ ui.quitting /\ plan.presses > 0
    /\ plan' = [plan EXCEPT !.presses = @ - 1]
    /\ ui' = [ui EXCEPT !.height = h]
    /\ UNCHANGED <<feedVars, daemonVars, flight, listening, shown, overtaken, lost>>

-----------------------------------------------------------------------------
Next ==
    \/ FeedOpens \/ CatalogChanges \/ BroadcastCatalogUpdated \/ DaemonExits \/ EventLost
    \/ \E l \in Link : LinkUp(l) \/ BroadcastPeerOnline(l) \/ LinkDown(l) \/ BroadcastPeerOffline(l)
    \/ \E i \in 1..Len(flight) : CallQuery(i) \/ CallJoin(i) \/ Deliver(i)
    \/ EventMsg \/ Disconnected
    \/ \E k \in plan.keys : KeyMsg(k)
    \/ \E h \in plan.heights : WindowSizeMsg(h)

Spec == Init /\ [][Next]_vars

\* bubbletea's loop and the goroutine that waits for events run on.
FairSpec == Spec /\ WF_vars(EventMsg)

-----------------------------------------------------------------------------
InFlight(call, arg) == {i \in 1..Len(flight) : flight[i].call = call /\ flight[i].arg = arg}

\* Type invariant of the panels; both cursors are on a row of their list, through
\* every mixture of keys, searches and refreshes that shrink the list.
TypeOK ==
    /\ ui.catalog.files \subseteq Row
    /\ ui.catalog.cursor \in 0..Max({0, Cardinality(Visible(ui.catalog)) - 1})
    /\ ui.peers.cursor \in 0..Max({0, Len(ui.peers.list) - 1})
    /\ ui.catalog.offset \in Nat /\ ui.peers.offset \in Nat
    /\ ui.overlay.kind \in {"none", "help", "detail", "confirm", "invite", "join"}
    /\ ui.focus \in {"catalog", "peers"}

\* Once every change has been announced, every event taken and every fetch
\* delivered, the files shown are the daemon's catalog, unless an event was lost on
\* its way (or found no subscriber, not yet or not any more), a fetch failed (and the
\* TUI shows the error instead), or the result of an older fetch was delivered after
\* that of a newer one.
CatalogCurrentUnlessOvertaken ==
    /\ up /\ ~ ui.quitting
    /\ announced = changes /\ queue = <<>> /\ InFlight("catalog", 0) = {}
    /\ Watch \notin lost /\ ~ overtaken
    => ui.catalog.files = db

\* A peer shown as online has a connection whose "online" was the last the TUI heard
\* of it, and which is up or whose "offline" is still to come, unless it was lost.
\* With two connections to one peer as with one, no peer stays online for ever.
ShownOnlineIsBacked ==
    \A i \in 1..Len(ui.peers.list) :
        ui.peers.list[i].online /\ up =>
            \E l \in Link :
                /\ PeerOf[l] = ui.peers.list[i].peer /\ got[l] = 1
                /\ link[l] # "gone" \/ <<l, 2>> \in Range(queue) \/ l \in lost

\* What the TUI shows as waiting is waiting for something: an overlay that says it
\* is loading has its call under way, whatever overlays were opened and closed
\* since; a download under way is shown as such, and one shown as such is under
\* way, unless the file was asked for twice (MarkDone finds the first entry only).
WaitingIsAnswered ==
    /\ ui.overlay.loading => InFlight(ui.overlay.kind, 0) # {}
    /\ \A f \in {FileOf[r] : r \in Row} :
         LET of   == {i \in 1..Len(ui.transfers) : ui.transfers[i].file = f}
             open == {i \in of : ~ ui.transfers[i].done}
             n    == Cardinality(InFlight("download", f))
         IN  /\ Cardinality(open) >= n
             /\ Cardinality(of) <= 1 => Cardinality(open) = n

\* "After processing each event, the model re-issues waitForEvent to keep listening"
\* (docs/022): as long as the TUI runs, the events are taken from the feed.
FeedIsDrained == []<>(queue = <<>> \/ ui.quitting)
=============================================================================
