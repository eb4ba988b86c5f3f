------------------------------ MODULE EventFeed ------------------------------
(***************************************************************************)
(* What a subscription to the daemon's events promises its consumer: the   *)
(* channel that ipc.Client.Subscribe returns.  Every event has a source (a *)
(* goroutine that calls Server.Broadcast, one event at a time) and a       *)
(* number, counted by its source.                                          *)
(*                                                                         *)
(* Events may be lost, one by one or when the connection goes, but those   *)
(* that arrive do so in the order in which they were published, at most    *)
(* once, each source's in the order of their numbers; and after the end of *)
(* the feed there is nothing more.                                         *)
(***************************************************************************)
EXTENDS Naturals, Sequences

CONSTANTS
    Source,     \* the goroutines that broadcast
    Number      \* event numbers, a set of positive naturals

VARIABLES
    queue,      \* events on their way to the consumer, oldest first
    state,      \* "new", then "on", then "off" (no more events), then "ended"
    got         \* number of the latest event taken, by source

vars == <<queue, state, got>>

Event == Source \X Number

Init ==
    /\ queue = <<>>
    /\ state = "new"
    /\ got = [s \in Source |-> 0]

\* The subscriber is in the server's list.
Open ==
    /\ state = "new"
    /\ state' = "on"
    /\ UNCHANGED <<queue, got>>

Publish(e) ==
    /\ state = "on"
    /\ queue' = Append(queue, e)
    /\ UNCHANGED <<state, got>>

\* A full channel drops an event.
Lose ==
    /\ \E i \in 1..Len(queue) :
         queue' = SubSeq(queue, 1, i - 1) \o SubSeq(queue, i + 1, Len(queue))
    /\ UNCHANGED <<state, got>>

\* The consumer receives an event, newer than all it had of that source.
Take ==
    /\ queue # <<>>
    /\ LET e == Head(queue) IN
         /\ e[2] > got[e[1]]
         /\ got' = [got EXCEPT ![e[1]] = e[2]]
    /\ queue' = Tail(queue)
    /\ UNCHANGED state

\* The connection is lost, and with it the youngest events.
Cut ==
    /\ state \in {"new", "on"}
    /\ state' = "off"
    /\ \E k \in 0..Len(queue) : queue' = SubSeq(queue, 1, k)
    /\ UNCHANGED got

\* What was still buffered at the far end is lost after the cut.
Truncate ==
    /\ state = "off"
    /\ \E k \in 0..Len(queue) : queue' = SubSeq(queue, 1, k)
    /\ UNCHANGED <<state, got>>

\* The consumer finds the channel closed.
End ==
    /\ state = "off" /\ queue = <<>>
    /\ state' = "ended"
    /\ UNCHANGED <<queue, got>>

Next ==
    \/ Open \/ Lose \/ Take \/ Cut \/ Truncate \/ End
    \/ \E e \in Event : Publish(e)

Spec == Init /\ [][Next]_vars
=============================================================================
