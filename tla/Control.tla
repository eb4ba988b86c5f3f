------------------------------- MODULE Control -------------------------------
(***************************************************************************)
(* Events on the daemon's control socket: the subscriber list of           *)
(* daemon.Server, the goroutines that call Broadcast, Close, and the       *)
(* reader goroutine of ipc.Client.Subscribe with its bounded channel.      *)
(*                                                                         *)
(* A caster is a goroutine that broadcasts (an accept loop, a peer's       *)
(* session, the folder watcher); its k-th event is <<caster, k>>.  A       *)
(* subscription has one connection of its own.  A socket holds SockCap     *)
(* frames; a write that finds it full waits until the write deadline, and  *)
(* may by then have put the frame's header on the wire without its body:   *)
(* a Torn frame, after which nothing on that connection can be read.       *)
(***************************************************************************)
EXTENDS Naturals, Sequences, Functions

CONSTANTS
    Caster,         \* goroutines that broadcast
    Sub,            \* subscriptions, one connection each
    Stalled,        \* those whose client's process is stopped for good once it has asked
    MaxEvents,      \* bound: events, by caster
    SockCap,        \* frames a socket holds
    ChanCap         \* capacity of the client's event channel

ASSUME BoundsAssumption ==
    /\ MaxEvents \in [Caster -> Nat] /\ SockCap \in Nat \ {0} /\ ChanCap \in Nat
    /\ Stalled \subseteq Sub

Ack  == <<"ack", 0>>
Torn == <<"torn", 0>>

Event == UNION {{c} \X (1..MaxEvents[c]) : c \in Caster}

VARIABLES
    list,           \* Server.subscribers
    server,         \* "up", "closing" (in Close), "closed" (listener gone), "exited"
    toClose,        \* Close's copy of the list, not yet closed
    handler,        \* where handleSubscribe is, by subscription
    dead,           \* subscriber.closed
    srvEnd, cliEnd, \* is the daemon's, the client's end of the connection open
    wire,           \* frames in the socket, towards the client
    caster,         \* [at, num, todo]: where Broadcast is, event, subscribers left
    lock,           \* caster that holds subscriber.mu across its write, {} or {c}
    reader,         \* "none", "asked", "reading", "stopped", "gone": Subscribe, its goroutine
    chan,           \* events in the client's channel
    told,           \* the consumer has found the channel closed
    got             \* number of the latest event consumed, by subscription and caster

srvVars == <<list, server, toClose, handler, dead, caster, lock>>
cliVars == <<reader, chan, told, got>>
conVars == <<srvEnd, cliEnd, wire>>
vars == <<srvVars, cliVars, conVars>>

\* Broadcast of the n-th event, at the head of its loop with these subscribers left.
At(todo, n) == [at |-> IF todo = <<>> THEN "idle" ELSE "next", num |-> n, todo |-> todo]

Init ==
    /\ list = <<>> /\ server = "up" /\ toClose = <<>>
    /\ handler = [s \in Sub |-> "none"]
    /\ dead = [s \in Sub |-> FALSE]
    /\ srvEnd = [s \in Sub |-> FALSE] /\ cliEnd = [s \in Sub |-> FALSE]
    /\ wire = [s \in Sub |-> <<>>]
    /\ caster = [c \in Caster |-> At(<<>>, 0)]
    /\ lock = [s \in Sub |-> {}]
    /\ reader = [s \in Sub |-> "none"]
    /\ chan = [s \in Sub |-> <<>>]
    /\ told = [s \in Sub |-> FALSE]
    /\ got = [s \in Sub |-> [c \in Caster |-> 0]]

-----------------------------------------------------------------------------
\* The connection's goroutine in the daemon.

\* Dial succeeds while the listener is open; handleConn reads the request.
Connect(s) ==
    /\ server \in {"up", "closing"} /\ reader[s] = "none"
    /\ reader' = [reader EXCEPT ![s] = "asked"]
    /\ handler' = [handler EXCEPT ![s] = "ack"]
    /\ srvEnd' = [srvEnd EXCEPT ![s] = TRUE]
    /\ cliEnd' = [cliEnd EXCEPT ![s] = TRUE]
    /\ UNCHANGED <<list, server, toClose, dead, caster, lock, wire, chan, told, got>>

\* handleConn returns: its deferred conn.Close.
HandlerReturns(s) ==
    /\ handler' = [handler EXCEPT ![s] = "gone"]
    /\ srvEnd' = [srvEnd EXCEPT ![s] = FALSE]

\* The acknowledgement is written before the subscriber is in the list.
WriteAck(s) ==
    /\ handler[s] = "ack"
    /\ \/ /\ cliEnd[s]
          /\ wire' = [wire EXCEPT ![s] = Append(@, Ack)]
          /\ handler' = [handler EXCEPT ![s] = "add"]
          /\ UNCHANGED srvEnd
       \/ ~ cliEnd[s] /\ HandlerReturns(s) /\ UNCHANGED wire
    /\ UNCHANGED <<list, server, toClose, dead, caster, lock, cliEnd, cliVars>>

\* No check of Server.closed: a subscriber can be added after Close.
AddSub(s) ==
    /\ handler[s] = "add"
    /\ list' = Append(list, s)
    /\ handler' = [handler EXCEPT ![s] = "block"]
    /\ UNCHANGED <<server, toClose, dead, caster, lock, conVars, cliVars>>

\* The first entry that is the subscriber is cut out of the slice.
removeSub(s) ==
    \/ \E i \in 1..Len(list) :
         /\ list[i] = s /\ \A j \in 1..(i - 1) : list[j] # s
         /\ list' = SubSeq(list, 1, i - 1) \o SubSeq(list, i + 1, Len(list))
    \/ s \notin Range(list) /\ UNCHANGED list

\* The read of handleSubscribe fails once either end is closed.
Unblock(s) ==
    /\ handler[s] = "block" /\ ~ (srvEnd[s] /\ cliEnd[s])
    /\ removeSub(s)
    /\ HandlerReturns(s)
    /\ UNCHANGED <<server, toClose, dead, caster, lock, cliEnd, wire, cliVars>>

-----------------------------------------------------------------------------
\* Broadcast.

\* subscriber.close, once its mutex is free.
closeSub(s) ==
    /\ lock[s] = {}
    /\ dead' = [dead EXCEPT ![s] = TRUE]
    /\ srvEnd' = [srvEnd EXCEPT ![s] = @ /\ dead[s]]

\* Copy the list; the event goes to the subscribers of that moment.
Broadcast(c) ==
    /\ caster[c].at = "idle" /\ caster[c].num < MaxEvents[c]
    /\ caster' = [caster EXCEPT ![c] = At(list, @.num + 1)]
    /\ UNCHANGED <<list, server, toClose, handler, dead, lock, conVars, cliVars>>

\* send: take subscriber.mu, refuse a closed subscriber, set the deadline.
SendLock(c) ==
    /\ caster[c].at = "next"
    /\ LET s == Head(caster[c].todo) IN
         /\ lock[s] = {}
         /\ IF dead[s] \/ ~ srvEnd[s]
              THEN caster' = [caster EXCEPT ![c].at = "remove"] /\ UNCHANGED lock
              ELSE /\ caster' = [caster EXCEPT ![c].at = "write"]
                   /\ lock' = [lock EXCEPT ![s] = {c}]
    /\ UNCHANGED <<list, server, toClose, handler, dead, conVars, cliVars>>

NextSub(c) == [caster EXCEPT ![c] = At(Tail(@.todo), @.num)]

\* No room for another frame; a torn frame's header takes next to none.
Full(s) == Len(wire[s]) >= SockCap + (IF Torn \in Range(wire[s]) THEN 1 ELSE 0)

\* No write deadline.
SendWrite_NoDeadline(c) ==
    /\ caster[c].at = "write"
    /\ LET s == Head(caster[c].todo)
           open == srvEnd[s] /\ cliEnd[s]
       IN  /\ lock' = [lock EXCEPT ![s] = {}]
           /\ \/ /\ open /\ ~ Full(s)
                 /\ wire' = [wire EXCEPT ![s] = Append(@, <<c, caster[c].num>>)]
                 /\ caster' = NextSub(c)
              \/ /\ ~ open
                 /\ caster' = [caster EXCEPT ![c].at = "remove"]
                 /\ UNCHANGED wire
    /\ UNCHANGED <<list, server, toClose, handler, dead, srvEnd, cliEnd, cliVars>>

\* send: the write ends, with the frame in the socket, with an error because an
\* end is closed, or at the deadline with the socket still full.  (What is written
\* behind a torn frame is never read: a second torn one changes nothing.)
SendWrite(c) ==
    /\ caster[c].at = "write"
    /\ LET s == Head(caster[c].todo)
           open == srvEnd[s] /\ cliEnd[s]
       IN  /\ lock' = [lock EXCEPT ![s] = {}]
           /\ \/ /\ open /\ ~ Full(s)
                 /\ wire' = [wire EXCEPT ![s] = Append(@, <<c, caster[c].num>>)]
                 /\ caster' = NextSub(c)
              \/ /\ open /\ Full(s)
                 /\ \/ Torn \notin Range(wire[s]) /\ wire' = [wire EXCEPT ![s] = Append(@, Torn)]
                    \/ UNCHANGED wire
                 /\ caster' = [caster EXCEPT ![c].at = "remove"]
              \/ /\ ~ open
                 /\ caster' = [caster EXCEPT ![c].at = "remove"]
                 /\ UNCHANGED wire
    /\ UNCHANGED <<list, server, toClose, handler, dead, srvEnd, cliEnd, cliVars>>

\* After a failed send: removeSub, then subscriber.close.
DropRemove(c) ==
    /\ caster[c].at = "remove"
    /\ removeSub(Head(caster[c].todo))
    /\ caster' = [caster EXCEPT ![c].at = "close"]
    /\ UNCHANGED <<server, toClose, handler, dead, lock, conVars, cliVars>>

\* A subscriber whose send failed is removed and not closed.
DropClose_LeaveOpen(c) ==
    /\ caster[c].at = "close"
    /\ caster' = NextSub(c)
    /\ UNCHANGED <<list, server, toClose, handler, dead, lock, conVars, cliVars>>

DropClose(c) ==
    /\ caster[c].at = "close"
    /\ closeSub(Head(caster[c].todo))
    /\ caster' = NextSub(c)
    /\ UNCHANGED <<list, server, toClose, handler, lock, cliEnd, wire, cliVars>>

-----------------------------------------------------------------------------
\* Close and the end of the process.

\* The first call only: Serve's goroutine and the daemon's shutdown both call it.
Close ==
    /\ server = "up"
    /\ server' = "closing"
    /\ toClose' = list /\ list' = <<>>
    /\ UNCHANGED <<handler, dead, caster, lock, conVars, cliVars>>

\* The subscribers one by one, then the listener.
CloseSub ==
    /\ server = "closing"
    /\ IF toClose = <<>>
         THEN server' = "closed" /\ UNCHANGED <<toClose, dead, srvEnd>>
         ELSE closeSub(Head(toClose)) /\ toClose' = Tail(toClose) /\ UNCHANGED server
    /\ UNCHANGED <<list, handler, caster, lock, cliEnd, wire, cliVars>>

\* The process ends, after Close or by a crash: its goroutines and descriptors go.
Exit ==
    /\ server # "exited"
    /\ server' = "exited"
    /\ list' = <<>> /\ toClose' = <<>>
    /\ handler' = [s \in Sub |-> IF handler[s] = "none" THEN "none" ELSE "gone"]
    /\ caster' = [c \in Caster |-> At(<<>>, MaxEvents[c])]
    /\ lock' = [s \in Sub |-> {}]
    /\ srvEnd' = [s \in Sub |-> FALSE] /\ dead' = [s \in Sub |-> FALSE]
    /\ UNCHANGED <<cliEnd, wire, cliVars>>

-----------------------------------------------------------------------------
\* The client: Subscribe, its reader goroutine, and the consumer of the channel.

ReadAck(s) ==
    /\ reader[s] = "asked"
    /\ wire[s] # <<>> /\ Head(wire[s]) = Ack
    /\ wire' = [wire EXCEPT ![s] = Tail(@)]
    /\ reader' = [reader EXCEPT ![s] = "reading"]
    /\ UNCHANGED <<srvVars, srvEnd, cliEnd, chan, told, got>>

\* Events are kept when the channel is full.
ReadEvent_KeepAll(s) ==
    /\ reader[s] = "reading"
    /\ wire[s] # <<>> /\ Head(wire[s]) \in Event
    /\ wire' = [wire EXCEPT ![s] = Tail(@)]
    /\ chan' = [chan EXCEPT ![s] = Append(@, Head(wire[s]))]
    /\ UNCHANGED <<srvVars, srvEnd, cliEnd, reader, told, got>>

\* Non-blocking send: a full channel drops the event.
ReadEvent(s) ==
    /\ reader[s] = "reading"
    /\ wire[s] # <<>> /\ Head(wire[s]) \in Event
    /\ wire' = [wire EXCEPT ![s] = Tail(@)]
    /\ chan' = [chan EXCEPT ![s] = IF Len(@) < ChanCap THEN Append(@, Head(wire[s])) ELSE @]
    /\ UNCHANGED <<srvVars, srvEnd, cliEnd, reader, told, got>>

\* The goroutine skips a frame it cannot decode.
ReadFails_Skip(s) ==
    /\ reader[s] \in {"asked", "reading"}
    /\ \/ /\ wire[s] = <<>> /\ ~ srvEnd[s]
          /\ reader' = [reader EXCEPT ![s] = "stopped"]
          /\ UNCHANGED wire
       \/ /\ wire[s] # <<>> /\ Head(wire[s]) = Torn /\ (Len(wire[s]) > 1 \/ ~ srvEnd[s])
          /\ wire' = [wire EXCEPT ![s] = Tail(@)]
          /\ UNCHANGED reader
    /\ UNCHANGED <<srvVars, srvEnd, cliEnd, chan, told, got>>

\* ReadJSON fails: nothing more will come, or a torn frame is read with the
\* bytes behind it.  Subscribe returns the error, the goroutine closes the channel.
ReadFails(s) ==
    /\ reader[s] \in {"asked", "reading"}
    /\ \/ wire[s] = <<>> /\ ~ srvEnd[s]
       \/ wire[s] # <<>> /\ Head(wire[s]) = Torn /\ (Len(wire[s]) > 1 \/ ~ srvEnd[s])
    /\ reader' = [reader EXCEPT ![s] = "stopped"]
    /\ UNCHANGED <<srvVars, conVars, chan, told, got>>

\* waitForEvent receives from the channel, or finds it closed.
Receive(s) ==
    /\ ~ told[s]
    /\ \/ /\ chan[s] # <<>>
          /\ LET e == Head(chan[s]) IN got' = [got EXCEPT ![s][e[1]] = e[2]]
          /\ chan' = [chan EXCEPT ![s] = Tail(@)]
          /\ UNCHANGED told
       \/ /\ chan[s] = <<>> /\ reader[s] = "stopped"
          /\ told' = [told EXCEPT ![s] = TRUE]
          /\ UNCHANGED <<chan, got>>
    /\ UNCHANGED <<srvVars, conVars, reader>>

\* The TUI ends: its deferred Client.Close, and its channel and goroutine go with it.
CloseClient(s) ==
    /\ cliEnd[s] /\ s \notin Stalled
    /\ cliEnd' = [cliEnd EXCEPT ![s] = FALSE]
    /\ wire' = [wire EXCEPT ![s] = <<>>]
    /\ reader' = [reader EXCEPT ![s] = "gone"]
    /\ chan' = [chan EXCEPT ![s] = <<>>]
    /\ UNCHANGED <<srvVars, srvEnd, told, got>>

-----------------------------------------------------------------------------
CasterStep(c) ==
    SendLock(c) \/ SendWrite(c) \/ DropRemove(c) \/ DropClose(c)

HandlerStep(s) == WriteAck(s) \/ AddSub(s) \/ Unblock(s)

ReaderStep(s) == s \notin Stalled /\ (ReadAck(s) \/ ReadEvent(s) \/ ReadFails(s))

Next ==
    \/ \E c \in Caster : Broadcast(c) \/ CasterStep(c)
    \/ \E s \in Sub : Connect(s) \/ HandlerStep(s) \/ ReaderStep(s)
                        \/ Receive(s) \/ CloseClient(s)
    \/ Close \/ CloseSub \/ Exit

Spec == Init /\ [][Next]_vars

\* A goroutine in Broadcast runs on, and a write ends at its deadline.  Nothing is
\* assumed of the clients, which may be stopped for good, nor of anyone else.
FairSpec == Spec /\ \A c \in Caster : WF_vars(CasterStep(c))

-----------------------------------------------------------------------------
\* Type invariant of the server, the connections and the clients: a socket holds
\* at most its capacity and one torn frame, a channel at most its capacity.
TypeOK ==
    /\ list \in Seq(Sub) /\ toClose \in Seq(Sub)
    /\ server \in {"up", "closing", "closed", "exited"}
    /\ handler \in [Sub -> {"none", "ack", "add", "block", "gone"}]
    /\ dead \in [Sub -> BOOLEAN]
    /\ srvEnd \in [Sub -> BOOLEAN] /\ cliEnd \in [Sub -> BOOLEAN]
    /\ wire \in [Sub -> Seq(Event \union {Ack, Torn})] /\ chan \in [Sub -> Seq(Event)]
    /\ \A s \in Sub : Len(wire[s]) <= SockCap + 1 /\ Len(chan[s]) <= ChanCap
    /\ caster \in [Caster -> [at : {"idle", "next", "write", "remove", "close"},
                              num : Nat, todo : Seq(Sub)]]
    /\ \A c \in Caster : /\ caster[c].num <= MaxEvents[c]
                         /\ caster[c].at = "idle" <=> caster[c].todo = <<>>
    /\ lock \in [Sub -> SUBSET Caster] /\ \A s \in Sub : \A c, d \in lock[s] : c = d
    /\ reader \in [Sub -> {"none", "asked", "reading", "stopped", "gone"}]
    /\ told \in [Sub -> BOOLEAN]
    /\ got \in [Sub -> [Caster -> Nat]]
    /\ \A s \in Sub, c \in Caster : got[s][c] <= MaxEvents[c]

\* A subscriber that is no longer in the server's list, while its connection is
\* open and its handler waits on it, is about to be closed: by the Broadcast whose
\* send failed, or by Close.  One that is only forgotten would keep its client
\* waiting for events that never come.  It holds of subscribers added after Close.
ForgottenIsClosed ==
    \A s \in Sub :
        handler[s] = "block" /\ srvEnd[s] /\ s \notin Range(list) =>
            \/ s \in Range(toClose)
            \/ \E c \in Caster : caster[c].at = "close" /\ Head(caster[c].todo) = s

\* No Broadcast goes on for ever, whatever the subscribers do: a stalled one costs a
\* write deadline, and no two broadcasters wait for each other on subscriber.mu.
BroadcastEnds == []<>(\A c \in Caster : caster[c].at = "idle")

-----------------------------------------------------------------------------
\* The frames the client will still read as events: those after the
\* acknowledgement, which comes first, and before a torn one.
Intact(w) ==
    LET first == IF w # <<>> /\ Head(w) = Ack THEN 2 ELSE 1
        last  == IF Torn \in Range(w) THEN (CHOOSE i \in 1..Len(w) : w[i] = Torn) - 1 ELSE Len(w)
    IN  SubSeq(w, first, last)

Readable(s) == IF reader[s] = "stopped" THEN <<>> ELSE Intact(wire[s])

\* No more events will be read: an end is closed, or the reader stuck or stopped.
Lost(s) == ~ srvEnd[s] \/ ~ cliEnd[s] \/ reader[s] = "stopped" \/ Torn \in Range(wire[s])

\* The state of the subscription as its consumer may understand it.
FeedState(s) ==
    CASE told[s] -> "ended"
      [] ~ told[s] /\ handler[s] # "none" /\ Lost(s) -> "off"
      [] ~ told[s] /\ handler[s] = "block" /\ ~ Lost(s) -> "on"
      [] OTHER -> "new"

Feed(s) == INSTANCE EventFeed WITH
    Source <- Caster, Number <- UNION {1..MaxEvents[c] : c \in Caster},
    queue <- chan[s] \o Readable(s), state <- FeedState(s), got <- got[s]

\* Every subscription implements EventFeed: the events that reach its consumer do
\* so in the order they were written, at most once, each caster's in its own order
\* (a peer's "online" before its "offline"), through deadlines, torn frames, full
\* channels, Close and the end of either process; and the channel is closed last.
FeedIsImplemented ==
    /\ \A s \in Sub : Feed(s)!Init
    /\ [][\A s \in Sub : UNCHANGED Feed(s)!vars \/ Feed(s)!Next]_vars
=============================================================================
