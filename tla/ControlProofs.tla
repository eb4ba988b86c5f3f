---------------------------- MODULE ControlProofs ----------------------------
(***************************************************************************)
(* For any number of broadcasting goroutines, events and subscriptions: no *)
(* subscriber is forgotten with its connection open, every variable keeps  *)
(* its type, and every subscription implements EventFeed.                  *)
(***************************************************************************)
EXTENDS Control, TLAPS

CasterRecord == [at : {"idle", "next", "write", "remove", "close"}, num : Nat, todo : Seq(Sub)]

\* The types the argument needs.
ServerType ==
    /\ list \in Seq(Sub) /\ toClose \in Seq(Sub)
    /\ handler \in [Sub -> {"none", "ack", "add", "block", "gone"}]
    /\ dead \in [Sub -> BOOLEAN] /\ srvEnd \in [Sub -> BOOLEAN]
    /\ reader \in [Sub -> {"none", "asked", "reading", "stopped", "gone"}]
    /\ caster \in [Caster -> CasterRecord]

\* A Broadcast under way has a subscriber left.
CasterHasHead == \A c \in Caster : caster[c].at # "idle" => caster[c].todo # <<>>

\* Only Close fills its copy of the list.
UpHasNoneToClose == server = "up" => toClose = <<>>

\* subscriber.close closes the connection the first time, so the second need not.
DeadIsShut == \A s \in Sub : dead[s] => ~ srvEnd[s]

\* Nobody knows of a subscription whose client has not connected.
Unborn(s) ==
    /\ handler[s] = "none" /\ ~ dead[s]
    /\ s \notin Range(list) /\ s \notin Range(toClose)
    /\ \A c \in Caster : s \notin Range(caster[c].todo)

UnaskedIsUnborn == \A s \in Sub : reader[s] = "none" => Unborn(s)

ControlInv ==
    /\ ServerType /\ CasterHasHead /\ UpHasNoneToClose
    /\ DeadIsShut /\ UnaskedIsUnborn /\ ForgottenIsClosed

-----------------------------------------------------------------------------
(***************************************************************************)
(* Lists of subscribers.                                                   *)
(***************************************************************************)

\* A part of a sequence, place by place.
LEMMA SubSeqPlaces ==
    ASSUME NEW S, NEW q \in Seq(S), NEW m \in 1..(Len(q) + 1), NEW n \in (m - 1)..Len(q)
    PROVE  /\ SubSeq(q, m, n) \in Seq(S)
           /\ Len(SubSeq(q, m, n)) = IF m <= n THEN n - m + 1 ELSE 0
           /\ \A i \in 1..(n - m + 1) : SubSeq(q, m, n)[i] = q[m + i - 1]
OBVIOUS

\* Two sequences in a row, place by place.
LEMMA ConcatPlaces ==
    ASSUME NEW S, NEW a \in Seq(S), NEW b \in Seq(S)
    PROVE  /\ a \o b \in Seq(S) /\ Len(a \o b) = Len(a) + Len(b)
           /\ Len(a) \in Nat /\ Len(b) \in Nat
           /\ \A i \in 1..(Len(a) + Len(b)) : (a \o b)[i] = IF i <= Len(a) THEN a[i] ELSE b[i - Len(a)]
OBVIOUS

\* The empty list.
LEMMA EmptySet == Range(<<>>) = {} /\ <<>> \in Seq(Sub)
  BY DEF Range

\* What Append adds.
LEMMA AppendSet ==
    ASSUME NEW q \in Seq(Sub), NEW x \in Sub
    PROVE  Append(q, x) \in Seq(Sub) /\ Range(Append(q, x)) = Range(q) \cup {x}
<1>1. /\ Append(q, x) \in Seq(Sub) /\ Len(q) \in Nat /\ Len(Append(q, x)) = Len(q) + 1
      /\ \A i \in 1..Len(q) : Append(q, x)[i] = q[i]
      /\ Append(q, x)[Len(q) + 1] = x
      /\ DOMAIN q = 1..Len(q) /\ DOMAIN Append(q, x) = 1..(Len(q) + 1)
  OBVIOUS
<1>2. ASSUME NEW y \in Range(Append(q, x)) PROVE y \in Range(q) \cup {x}
  BY <1>1, <1>2 DEF Range
<1>3. ASSUME NEW y \in Range(q) PROVE y \in Range(Append(q, x))
  BY <1>1, <1>3 DEF Range
<1>4. x \in Range(Append(q, x))
  BY <1>1 DEF Range
<1> QED
  BY Zenon, <1>1, <1>2, <1>3, <1>4

\* A list is its head and its tail.
LEMMA HeadTailSet ==
    ASSUME NEW q \in Seq(Sub), q # <<>>
    PROVE  /\ Head(q) \in Sub /\ Tail(q) \in Seq(Sub)
           /\ Range(q) = Range(Tail(q)) \cup {Head(q)}
<1>1. /\ Head(q) \in Sub /\ Head(q) = q[1] /\ Tail(q) \in Seq(Sub)
      /\ Len(q) \in Nat /\ Len(q) > 0 /\ Len(Tail(q)) = Len(q) - 1
      /\ \A i \in 1..(Len(q) - 1) : Tail(q)[i] = q[i + 1]
      /\ DOMAIN q = 1..Len(q) /\ DOMAIN Tail(q) = 1..(Len(q) - 1)
  OBVIOUS
<1>2. ASSUME NEW y \in Range(q) PROVE y \in Range(Tail(q)) \cup {Head(q)}
  <2>1. PICK i \in 1..Len(q) : y = q[i]
    BY Zenon, <1>1 DEF Range
  <2>2. CASE i = 1
    BY Zenon, <1>1, <2>1, <2>2
  <2>3. CASE i # 1
    <3>1. i - 1 \in 1..(Len(q) - 1) /\ Tail(q)[i - 1] = q[i]
      BY <1>1, <2>3
    <3> QED
      BY <1>1, <2>1, <3>1, Zenon DEF Range
  <2> QED
    BY Zenon, <2>2, <2>3
<1>3. ASSUME NEW y \in Range(Tail(q)) PROVE y \in Range(q)
  BY <1>1, <1>3 DEF Range
<1>4. Head(q) \in Range(q)
  BY <1>1 DEF Range
<1> QED
  BY Zenon, <1>1, <1>2, <1>3, <1>4

CutOut(q, k) == SubSeq(q, 1, k - 1) \o SubSeq(q, k + 1, Len(q))

\* Cutting one position out of a sequence.
LEMMA CutOutPlaces ==
    ASSUME NEW S, NEW q \in Seq(S), NEW k \in 1..Len(q)
    PROVE  /\ CutOut(q, k) \in Seq(S) /\ Len(CutOut(q, k)) = Len(q) - 1
           /\ \A i \in 1..(Len(q) - 1) : CutOut(q, k)[i] = IF i < k THEN q[i] ELSE q[i + 1]
<1> DEFINE a == SubSeq(q, 1, k - 1)
           b == SubSeq(q, k + 1, Len(q))
           r == a \o b
<1>0. Len(q) \in Nat /\ k \in 1..Len(q) /\ DOMAIN q = 1..Len(q)
  OBVIOUS
<1>1. /\ a \in Seq(S) /\ Len(a) = k - 1
      /\ \A i \in 1..(k - 1) : a[i] = q[i]
  BY <1>0, SubSeqPlaces
<1>2. /\ b \in Seq(S) /\ Len(b) = Len(q) - k
      /\ \A i \in 1..(Len(q) - k) : b[i] = q[k + i]
  <2>1. /\ b \in Seq(S) /\ Len(b) = IF k + 1 <= Len(q) THEN Len(q) - (k + 1) + 1 ELSE 0
        /\ \A i \in 1..(Len(q) - (k + 1) + 1) : b[i] = q[(k + 1) + i - 1]
    <3>1. k + 1 \in 1..(Len(q) + 1) /\ Len(q) \in (k + 1) - 1 .. Len(q)
      BY <1>0
    <3> QED
      BY <3>1, SubSeqPlaces
  <2> HIDE DEF b
  <2>2. Len(q) - (k + 1) + 1 = Len(q) - k /\ \A i \in 1..(Len(q) - k) : (k + 1) + i - 1 = k + i
    BY <1>0
  <2> QED
    <3>1. Len(b) = Len(q) - k
      <4>1. Len(b) = IF k + 1 <= Len(q) THEN Len(q) - (k + 1) + 1 ELSE 0
        BY Zenon, <2>1
      <4>2. CASE k + 1 <= Len(q)
        BY <1>0, <4>1, <4>2
      <4>3. CASE k = Len(q)
        BY <1>0, <4>1, <4>3
      <4>4. k + 1 <= Len(q) \/ k = Len(q)
        <5>1. \A n \in Nat : \A j \in 1..n : j + 1 <= n \/ j = n
          OBVIOUS
        <5> QED
          BY <1>0, <5>1, Zenon
      <4> QED
        BY Zenon, <4>2, <4>3, <4>4
    <3> QED
      BY <2>1, <2>2, <3>1, Zenon
<1>3. r = a \o b
  BY Zenon
<1> HIDE DEF a, b, r
<1>4. /\ r \in Seq(S) /\ Len(r) = Len(q) - 1
      /\ \A i \in 1..(Len(q) - 1) : r[i] = IF i <= k - 1 THEN a[i] ELSE b[i - (k - 1)]
      /\ DOMAIN r = 1..(Len(q) - 1)
  <2>1. /\ a \o b \in Seq(S) /\ Len(a \o b) = Len(a) + Len(b)
        /\ \A i \in 1..(Len(a) + Len(b)) : (a \o b)[i] = IF i <= Len(a) THEN a[i] ELSE b[i - Len(a)]
    BY <1>1, <1>2, ConcatPlaces, Zenon
  <2>2. Len(a) + Len(b) = Len(q) - 1
    BY <1>0, <1>1, <1>2
  <2>3. DOMAIN r = 1..Len(r)
    BY <1>3, <2>1
  <2> QED
    BY Zenon, <1>1, <1>3, <2>1, <2>2, <2>3
<1>5. ASSUME NEW i \in 1..(Len(q) - 1) PROVE r[i] = IF i < k THEN q[i] ELSE q[i + 1]
  <2>1. CASE i < k
    BY <1>0, <1>1, <1>4, <2>1
  <2>2. CASE ~ (i < k)
    <3>1. i - (k - 1) \in 1..(Len(q) - k) /\ k + (i - (k - 1)) = i + 1
      BY <1>0, <2>2
    <3> QED
      BY SMTT(30), <1>0, <1>2, <1>4, <2>2, <3>1
  <2> QED
    BY Zenon, <2>1, <2>2
<1> QED
  BY Zenon, <1>4, <1>5 DEF r, a, b, CutOut

\* Cutting one position out of a list of subscribers.
LEMMA CutOutSet ==
    ASSUME NEW q \in Seq(Sub), NEW k \in 1..Len(q)
    PROVE  /\ CutOut(q, k) \in Seq(Sub)
           /\ Range(CutOut(q, k)) \subseteq Range(q)
           /\ \A x \in Range(q) : x # q[k] => x \in Range(CutOut(q, k))
<1> DEFINE r == CutOut(q, k)
<1>0. Len(q) \in Nat /\ k \in 1..Len(q) /\ DOMAIN q = 1..Len(q)
  OBVIOUS
<1>1. /\ r \in Seq(Sub) /\ Len(r) = Len(q) - 1
      /\ \A i \in 1..(Len(q) - 1) : r[i] = IF i < k THEN q[i] ELSE q[i + 1]
  BY Zenon, CutOutPlaces
<1> HIDE DEF r
<1>4. r \in Seq(Sub) /\ DOMAIN r = 1..(Len(q) - 1)
  BY <1>1
<1>5. \A i \in 1..(Len(q) - 1) : r[i] = IF i < k THEN q[i] ELSE q[i + 1]
  BY Zenon, <1>1
<1>6. ASSUME NEW x \in Range(r) PROVE x \in Range(q)
  <2>1. PICK i \in 1..(Len(q) - 1) : x = r[i]
    BY Zenon, <1>4 DEF Range
  <2>2. x = q[i] \/ x = q[i + 1]
    BY Zenon, <1>5, <2>1
  <2>3. i \in 1..Len(q) /\ i + 1 \in 1..Len(q)
    BY <1>0
  <2> QED
    BY Zenon, <1>0, <2>2, <2>3 DEF Range
<1>7. ASSUME NEW x \in Range(q), x # q[k] PROVE x \in Range(r)
  <2>1. PICK i \in 1..Len(q) : x = q[i]
    BY Zenon, <1>0 DEF Range
  <2>2. CASE i < k
    <3>1. i \in 1..(Len(q) - 1)
      BY <1>0, <2>2
    <3>2. r[i] = q[i]
      BY Zenon, <1>5, <2>2, <3>1
    <3> QED
      BY Zenon, <1>4, <2>1, <3>1, <3>2 DEF Range
  <2>3. CASE i > k
    <3>1. i - 1 \in 1..(Len(q) - 1) /\ r[i - 1] = q[i]
      BY <1>0, <1>5, <2>3
    <3> QED
      BY Zenon, <1>4, <2>1, <3>1 DEF Range
  <2> QED
    BY <1>0, <1>7, <2>1, <2>2, <2>3
<1> QED
  BY Zenon, <1>4, <1>6, <1>7 DEF r

\* removeSub takes out the subscriber it is given and no other.
LEMMA RemoveSubSet ==
    ASSUME list \in Seq(Sub), NEW x, removeSub(x)
    PROVE  /\ list' \in Seq(Sub)
           /\ Range(list') \subseteq Range(list)
           /\ \A y \in Range(list) : y # x => y \in Range(list')
<1>1. CASE UNCHANGED list
  BY Zenon, <1>1
<1>2. CASE \E i \in 1..Len(list) :
             /\ list[i] = x
             /\ list' = SubSeq(list, 1, i - 1) \o SubSeq(list, i + 1, Len(list))
  BY Zenon, <1>2, CutOutSet DEF CutOut
<1> QED
  BY Zenon, <1>1, <1>2 DEF removeSub

-----------------------------------------------------------------------------
(***************************************************************************)
(* Broadcast.                                                              *)
(***************************************************************************)

\* At gives a caster's record with a head, unless it is idle.
LEMMA AtType ==
    ASSUME NEW q \in Seq(Sub), NEW n \in Nat
    PROVE  /\ At(q, n) \in CasterRecord /\ At(q, n).todo = q
           /\ At(q, n).at # "idle" => q # <<>>
           /\ At(q, n).at # "close"
  BY Zenon DEF At, CasterRecord

\* A caster that is not about to close a subscriber moves on.
LEMMA CasterMoves ==
    ASSUME ControlInv, NEW c \in Caster, NEW r \in CasterRecord,
           caster' = [caster EXCEPT ![c] = r], caster[c].at # "close",
           r.at # "idle" => r.todo # <<>>,
           Range(r.todo) \subseteq Range(list) \cup Range(caster[c].todo),
           UNCHANGED <<list, server, toClose, handler, dead, srvEnd, reader>>
    PROVE  ControlInv'
<1>0. caster \in [Caster -> CasterRecord]
  BY Zenon DEF ControlInv, ServerType
<1>1. caster' \in [Caster -> CasterRecord] /\ caster'[c] = r
      /\ \A d \in Caster : d # c => caster'[d] = caster[d]
  BY Zenon, <1>0
<1>2. ServerType' /\ UpHasNoneToClose' /\ DeadIsShut'
  BY Zenon, <1>1 DEF ControlInv, ServerType, UpHasNoneToClose, DeadIsShut
<1>3. CasterHasHead'
  BY Zenon, <1>1 DEF ControlInv, CasterHasHead
<1>4. UnaskedIsUnborn'
  BY Zenon, <1>1 DEF ControlInv, UnaskedIsUnborn, Unborn
<1>5. ForgottenIsClosed'
  BY Zenon, <1>1 DEF ControlInv, ForgottenIsClosed
<1> QED
  BY Zenon, <1>2, <1>3, <1>4, <1>5 DEF ControlInv

\* The subscriber a caster is busy with, and the rest of its list.
LEMMA CasterFacts ==
    ASSUME ControlInv, NEW c \in Caster
    PROVE  /\ caster[c] \in CasterRecord
           /\ caster[c].todo \in Seq(Sub) /\ caster[c].num \in Nat
           /\ caster[c].at # "idle" =>
                 /\ caster[c].todo # <<>>
                 /\ Head(caster[c].todo) \in Sub /\ Tail(caster[c].todo) \in Seq(Sub)
                 /\ Range(caster[c].todo) = Range(Tail(caster[c].todo)) \cup {Head(caster[c].todo)}
<1>1. caster[c] \in CasterRecord /\ (caster[c].at # "idle" => caster[c].todo # <<>>)
  BY Zenon DEF ControlInv, ServerType, CasterHasHead
<1>2. caster[c].todo \in Seq(Sub) /\ caster[c].num \in Nat
  BY Zenon, <1>1 DEF CasterRecord
<1> QED
  BY Zenon, <1>1, <1>2, HeadTailSet

\* Copying the list, taking subscriber.mu and writing only move the caster.
LEMMA SendInv ==
    ASSUME ControlInv, NEW c \in Caster, Broadcast(c) \/ SendLock(c) \/ SendWrite(c)
    PROVE  ControlInv'
<1> DEFINE q == caster[c].todo
           n == caster[c].num
           Goes(p) == [caster[c] EXCEPT !.at = p]
<1>0. /\ caster[c] \in CasterRecord /\ q \in Seq(Sub) /\ n \in Nat
      /\ caster[c].at # "idle" =>
            /\ q # <<>> /\ Tail(q) \in Seq(Sub)
            /\ Range(Tail(q)) \subseteq Range(q)
  BY SMTT(30), CasterFacts
<1>1. UNCHANGED <<list, server, toClose, handler, dead, srvEnd, reader>>
  BY Zenon DEF Broadcast, SendLock, SendWrite, conVars, cliVars
<1>2. list \in Seq(Sub)
  BY Zenon DEF ControlInv, ServerType
<1>3. CASE Broadcast(c)
  <2>1. caster' = [caster EXCEPT ![c] = At(list, n + 1)] /\ caster[c].at # "close"
    BY Zenon, <1>3 DEF Broadcast
  <2>2. /\ At(list, n + 1) \in CasterRecord /\ At(list, n + 1).todo = list
        /\ At(list, n + 1).at # "idle" => list # <<>>
    BY <1>0, <1>2, AtType
  <2> QED
    BY <1>1, <2>1, <2>2, CasterMoves, Zenon
<1>4. ASSUME NEW p \in {"write", "remove"}, caster' = [caster EXCEPT ![c].at = p],
             caster[c].at \in {"next", "write"}
      PROVE  ControlInv'
  <2>1. Goes(p) \in CasterRecord /\ Goes(p).todo = q
    BY Zenon, <1>0 DEF CasterRecord
  <2>2. caster' = [caster EXCEPT ![c] = Goes(p)]
    BY Zenon, <1>4
  <2>3. q # <<>> /\ caster[c].at # "close"
    BY Zenon, <1>0, <1>4
  <2> HIDE DEF Goes
  <2> QED
    BY <1>1, <2>1, <2>2, <2>3, CasterMoves, Zenon
<1>5. ASSUME caster' = NextSub(c), caster[c].at = "write" PROVE ControlInv'
  <2>1. caster' = [caster EXCEPT ![c] = At(Tail(q), n)]
    BY Zenon, <1>5 DEF NextSub
  <2>2. /\ At(Tail(q), n) \in CasterRecord /\ At(Tail(q), n).todo = Tail(q)
        /\ At(Tail(q), n).at # "idle" => Tail(q) # <<>>
    BY <1>0, <1>5, AtType, Zenon
  <2> QED
    BY <1>0, <1>1, <1>5, <2>1, <2>2, CasterMoves, Zenon
<1>6. CASE SendLock(c)
  BY Zenon, <1>4, <1>6 DEF SendLock
<1>7. CASE SendWrite(c)
  BY <1>4, <1>5, <1>7, Zenon DEF SendWrite
<1> QED
  BY Zenon, <1>3, <1>6, <1>7

\* After a failed send the subscriber leaves the list, and its caster is about
\* to close it.
LEMMA DropRemoveInv ==
    ASSUME ControlInv, NEW c \in Caster, DropRemove(c)
    PROVE  ControlInv'
<1> DEFINE q == caster[c].todo
           r == [caster[c] EXCEPT !.at = "close"]
           x == Head(q)
<1>0. caster \in [Caster -> CasterRecord] /\ list \in Seq(Sub)
  BY Zenon DEF ControlInv, ServerType
<1>1. caster[c] \in CasterRecord /\ q \in Seq(Sub) /\ q # <<>> /\ x \in Sub
  BY Zenon, CasterFacts DEF DropRemove
<1>2. /\ caster' = [caster EXCEPT ![c] = r] /\ removeSub(x)
      /\ caster[c].at = "remove"
      /\ UNCHANGED <<server, toClose, handler, dead, srvEnd, reader>>
  BY Zenon DEF DropRemove, conVars, cliVars
<1>3. r \in CasterRecord /\ r.todo = q /\ r.at = "close"
  BY Zenon, <1>1 DEF CasterRecord
<1>4. /\ list' \in Seq(Sub) /\ Range(list') \subseteq Range(list)
      /\ \A y \in Range(list) : y # x => y \in Range(list')
  BY <1>0, <1>1, <1>2, RemoveSubSet, Zenon
<1> HIDE DEF r, x
<1>5. /\ caster' \in [Caster -> CasterRecord] /\ caster'[c] = r
      /\ \A d \in Caster : d # c => caster'[d] = caster[d]
  BY Zenon, <1>0, <1>2, <1>3
<1>6. ServerType' /\ UpHasNoneToClose' /\ DeadIsShut'
  BY Zenon, <1>2, <1>4, <1>5 DEF ControlInv, ServerType, UpHasNoneToClose, DeadIsShut
<1>7. CasterHasHead'
  BY Zenon, <1>1, <1>3, <1>5 DEF ControlInv, CasterHasHead
<1>8. UnaskedIsUnborn'
  BY Zenon, <1>2, <1>3, <1>4, <1>5 DEF ControlInv, UnaskedIsUnborn, Unborn
<1>9. ForgottenIsClosed'
  <2> SUFFICES ASSUME NEW s \in Sub, handler[s] = "block", srvEnd[s], s \notin Range(list')
               PROVE  \/ s \in Range(toClose)
                      \/ \E d \in Caster : caster'[d].at = "close" /\ Head(caster'[d].todo) = s
    BY Zenon, <1>2 DEF ForgottenIsClosed
  <2>1. CASE s = x
    BY Zenon, <1>3, <1>5, <2>1 DEF x
  <2>2. CASE s # x
    BY Zenon, <1>2, <1>4, <1>5, <2>2 DEF ControlInv, ForgottenIsClosed
  <2> QED
    BY Zenon, <2>1, <2>2
<1> QED
  BY Zenon, <1>6, <1>7, <1>8, <1>9 DEF ControlInv

\* subscriber.close leaves the connection of its subscriber shut and the others alone.
LEMMA CloseSubShuts ==
    ASSUME ControlInv, NEW x \in Sub, closeSub(x)
    PROVE  /\ dead' \in [Sub -> BOOLEAN] /\ srvEnd' \in [Sub -> BOOLEAN]
           /\ ~ srvEnd'[x]
           /\ \A s \in Sub : s # x => srvEnd'[s] = srvEnd[s] /\ dead'[s] = dead[s]
           /\ DeadIsShut'
<1>0. dead \in [Sub -> BOOLEAN] /\ srvEnd \in [Sub -> BOOLEAN] /\ (dead[x] => ~ srvEnd[x])
  BY Zenon DEF ControlInv, ServerType, DeadIsShut
<1>1. dead' \in [Sub -> BOOLEAN] /\ srvEnd' \in [Sub -> BOOLEAN]
  BY <1>0, Zenon DEF closeSub
<1>2. ~ srvEnd'[x]
  BY <1>0, Zenon DEF closeSub
<1>3. \A s \in Sub : s # x => srvEnd'[s] = srvEnd[s] /\ dead'[s] = dead[s]
  BY <1>0, Zenon DEF closeSub
<1>4. DeadIsShut'
  BY <1>2, <1>3, Zenon DEF ControlInv, DeadIsShut
<1> QED
  BY Zenon, <1>1, <1>2, <1>3, <1>4

\* The caster closes the subscriber it removed.
LEMMA DropCloseInv ==
    ASSUME ControlInv, NEW c \in Caster, DropClose(c)
    PROVE  ControlInv'
<1> DEFINE q == caster[c].todo
           r == At(Tail(q), caster[c].num)
           x == Head(q)
<1>0. caster \in [Caster -> CasterRecord] /\ list \in Seq(Sub)
  BY Zenon DEF ControlInv, ServerType
<1>1. /\ q # <<>> /\ x \in Sub /\ Tail(q) \in Seq(Sub) /\ caster[c].num \in Nat
      /\ Range(q) = Range(Tail(q)) \cup {x}
  BY Zenon, CasterFacts DEF DropClose
<1>2. /\ caster' = [caster EXCEPT ![c] = r] /\ closeSub(x)
      /\ UNCHANGED <<list, server, toClose, handler, reader>>
  BY Zenon DEF DropClose, NextSub, cliVars
<1>3. r \in CasterRecord /\ r.todo = Tail(q) /\ (r.at # "idle" => r.todo # <<>>)
  BY <1>1, AtType, ZenonT(40)
<1>4. /\ dead' \in [Sub -> BOOLEAN] /\ srvEnd' \in [Sub -> BOOLEAN] /\ ~ srvEnd'[x]
      /\ \A s \in Sub : s # x => srvEnd'[s] = srvEnd[s] /\ dead'[s] = dead[s]
      /\ DeadIsShut'
  BY Zenon, <1>1, <1>2, CloseSubShuts
<1>5. Head(caster[c].todo) = x
  BY Zenon
<1> HIDE DEF r, x
<1>6. /\ caster' \in [Caster -> CasterRecord] /\ caster'[c] = r
      /\ \A d \in Caster : d # c => caster'[d] = caster[d]
  BY Zenon, <1>0, <1>2, <1>3
<1>7. ServerType' /\ UpHasNoneToClose'
  BY Zenon, <1>2, <1>4, <1>6 DEF ControlInv, ServerType, UpHasNoneToClose
<1>8. CasterHasHead'
  BY <1>3, <1>6, Zenon DEF ControlInv, CasterHasHead
<1>9. UnaskedIsUnborn'
  <2> SUFFICES ASSUME NEW s \in Sub, reader[s] = "none" PROVE Unborn(s)'
    BY Zenon, <1>2 DEF UnaskedIsUnborn
  <2>1. Unborn(s)
    BY Zenon DEF ControlInv, UnaskedIsUnborn
  <2>2. s # x
    BY Zenon, <1>1, <2>1 DEF Unborn
  <2>3. \A d \in Caster : s \notin Range(caster'[d].todo)
    BY Zenon, <1>1, <1>3, <1>6, <2>1 DEF Unborn
  <2> QED
    BY Zenon, <1>2, <1>4, <2>1, <2>2, <2>3 DEF Unborn
<1>10. ForgottenIsClosed'
  <2> SUFFICES ASSUME NEW s \in Sub, handler[s] = "block", srvEnd'[s], s \notin Range(list)
               PROVE  \/ s \in Range(toClose)
                      \/ \E d \in Caster : caster'[d].at = "close" /\ Head(caster'[d].todo) = s
    BY Zenon, <1>2 DEF ForgottenIsClosed
  <2>1. s # x /\ srvEnd[s]
    BY Zenon, <1>4
  <2>2. \/ s \in Range(toClose)
        \/ \E d \in Caster : caster[d].at = "close" /\ Head(caster[d].todo) = s
    BY Zenon, <2>1 DEF ControlInv, ForgottenIsClosed
  <2> QED
    BY Zenon, <1>5, <1>6, <2>1, <2>2
<1> QED
  BY Zenon, <1>4, <1>7, <1>8, <1>9, <1>10 DEF ControlInv

-----------------------------------------------------------------------------
(***************************************************************************)
(* Close, and the end of the process.                                      *)
(***************************************************************************)

\* Close takes every subscriber of the list over.
LEMMA CloseInv == ControlInv /\ Close => ControlInv'
<1> SUFFICES ASSUME ControlInv, Close PROVE ControlInv'
  BY Zenon
<1>1. /\ server = "up" /\ server' = "closing" /\ toClose' = list /\ list' = <<>>
      /\ UNCHANGED <<handler, dead, srvEnd, caster, reader>>
  BY Zenon DEF Close, conVars, cliVars
<1>2. toClose = <<>> /\ Range(list') = {} /\ list' \in Seq(Sub)
  BY Zenon, <1>1, EmptySet DEF ControlInv, UpHasNoneToClose
<1>3. ServerType' /\ UpHasNoneToClose' /\ DeadIsShut' /\ CasterHasHead'
  BY Zenon, <1>1, <1>2 DEF ControlInv, ServerType, UpHasNoneToClose, DeadIsShut, CasterHasHead
<1>4. UnaskedIsUnborn'
  BY Zenon, <1>1, <1>2 DEF ControlInv, UnaskedIsUnborn, Unborn
<1>5. ForgottenIsClosed'
  BY Zenon, <1>1, <1>2, EmptySet DEF ControlInv, ForgottenIsClosed
<1> QED
  BY Zenon, <1>3, <1>4, <1>5 DEF ControlInv

\* It closes them one by one.
LEMMA CloseSubInv == ControlInv /\ CloseSub => ControlInv'
<1> SUFFICES ASSUME ControlInv, CloseSub PROVE ControlInv'
  BY Zenon
<1>0. toClose \in Seq(Sub)
  BY Zenon DEF ControlInv, ServerType
<1>1. server = "closing" /\ UNCHANGED <<list, handler, caster, reader>>
  BY Zenon DEF CloseSub, cliVars
<1>2. CASE toClose = <<>>
  <2>1. server' = "closed" /\ UNCHANGED <<toClose, dead, srvEnd>>
    BY Zenon, <1>2 DEF CloseSub
  <2>2. ServerType' /\ UpHasNoneToClose' /\ DeadIsShut' /\ CasterHasHead'
    BY Zenon, <1>1, <2>1 DEF ControlInv, ServerType, UpHasNoneToClose, DeadIsShut, CasterHasHead
  <2>3. UnaskedIsUnborn' /\ ForgottenIsClosed'
    BY Zenon, <1>1, <2>1 DEF ControlInv, UnaskedIsUnborn, Unborn, ForgottenIsClosed
  <2> QED
    BY Zenon, <2>2, <2>3 DEF ControlInv
<1>3. CASE toClose # <<>>
  <2> DEFINE x == Head(toClose)
  <2>1. closeSub(x) /\ toClose' = Tail(toClose) /\ server' = server
    BY Zenon, <1>3 DEF CloseSub
  <2>2. x \in Sub /\ Tail(toClose) \in Seq(Sub) /\ Range(toClose) = Range(Tail(toClose)) \cup {x}
    BY Zenon, <1>0, <1>3, HeadTailSet
  <2> HIDE DEF x
  <2>3. /\ dead' \in [Sub -> BOOLEAN] /\ srvEnd' \in [Sub -> BOOLEAN] /\ ~ srvEnd'[x]
        /\ \A s \in Sub : s # x => srvEnd'[s] = srvEnd[s] /\ dead'[s] = dead[s]
        /\ DeadIsShut'
    BY Zenon, <2>1, <2>2, CloseSubShuts
  <2>4. ServerType' /\ UpHasNoneToClose' /\ CasterHasHead'
    BY Zenon, <1>1, <2>1, <2>2, <2>3 DEF ControlInv, ServerType, UpHasNoneToClose, CasterHasHead
  <2>5. UnaskedIsUnborn'
    BY Zenon, <1>1, <2>1, <2>2, <2>3 DEF ControlInv, UnaskedIsUnborn, Unborn
  <2>6. ForgottenIsClosed'
    BY Zenon, <1>1, <2>1, <2>2, <2>3 DEF ControlInv, ForgottenIsClosed
  <2> QED
    BY Zenon, <2>3, <2>4, <2>5, <2>6 DEF ControlInv
<1> QED
  BY Zenon, <1>2, <1>3

\* The end of the process closes every connection.
LEMMA ExitInv == ControlInv /\ Exit => ControlInv'
<1> SUFFICES ASSUME ControlInv, Exit PROVE ControlInv'
  BY Zenon
<1>1. /\ server' = "exited" /\ list' = <<>> /\ toClose' = <<>>
      /\ handler' = [s \in Sub |-> IF handler[s] = "none" THEN "none" ELSE "gone"]
      /\ caster' = [c \in Caster |-> At(<<>>, MaxEvents[c])]
      /\ srvEnd' = [s \in Sub |-> FALSE] /\ dead' = [s \in Sub |-> FALSE]
      /\ UNCHANGED reader
  BY Zenon DEF Exit, cliVars
<1>2. \A c \in Caster : /\ caster'[c] \in CasterRecord /\ caster'[c].todo = <<>>
                        /\ caster'[c].at = "idle"
  BY Zenon, <1>1, BoundsAssumption, EmptySet DEF At, CasterRecord
<1>3. caster' \in [Caster -> CasterRecord]
  <2>1. \A c \in Caster : At(<<>>, MaxEvents[c]) \in CasterRecord
    BY BoundsAssumption, EmptySet, AtType, Zenon
  <2> QED
    BY Zenon, <1>1, <2>1
<1>4. ServerType'
  BY Zenon, <1>1, <1>3, EmptySet DEF ControlInv, ServerType
<1>5. UpHasNoneToClose' /\ DeadIsShut' /\ CasterHasHead' /\ ForgottenIsClosed'
  BY Zenon, <1>1, <1>2 DEF UpHasNoneToClose, DeadIsShut, CasterHasHead, ForgottenIsClosed
<1>6. UnaskedIsUnborn'
  BY Zenon, <1>1, <1>2, EmptySet DEF ControlInv, UnaskedIsUnborn, Unborn
<1> QED
  BY Zenon, <1>4, <1>5, <1>6 DEF ControlInv

-----------------------------------------------------------------------------
(***************************************************************************)
(* The connections' goroutines and the clients.                            *)
(***************************************************************************)

\* A client's own steps do not concern the server, and none of them undoes its
\* having connected.
LEMMA ClientInv ==
    ASSUME ControlInv, NEW s \in Sub, ReaderStep(s) \/ Receive(s) \/ CloseClient(s)
    PROVE  ControlInv'
<1>1. UNCHANGED <<list, server, toClose, handler, dead, srvEnd, caster>>
  BY Zenon DEF ReaderStep, ReadAck, ReadEvent, ReadFails, Receive, CloseClient, srvVars, conVars
<1>2. UNCHANGED reader \/ \E p \in {"reading", "stopped", "gone"} : reader' = [reader EXCEPT ![s] = p]
  BY Zenon DEF ReaderStep, ReadAck, ReadEvent, ReadFails, Receive, CloseClient
<1>3. reader \in [Sub -> {"none", "asked", "reading", "stopped", "gone"}]
  BY Zenon DEF ControlInv, ServerType
<1>4. /\ reader' \in [Sub -> {"none", "asked", "reading", "stopped", "gone"}]
      /\ \A x \in Sub : reader'[x] = "none" => reader[x] = "none"
  BY SMTT(30), <1>2, <1>3
<1>5. ServerType' /\ UpHasNoneToClose' /\ DeadIsShut' /\ CasterHasHead'
  BY Zenon, <1>1, <1>4 DEF ControlInv, ServerType, UpHasNoneToClose, DeadIsShut, CasterHasHead
<1>6. UnaskedIsUnborn'
  BY Zenon, <1>1, <1>4 DEF ControlInv, UnaskedIsUnborn, Unborn
<1>7. ForgottenIsClosed'
  BY Zenon, <1>1 DEF ControlInv, ForgottenIsClosed
<1> QED
  BY Zenon, <1>5, <1>6, <1>7 DEF ControlInv

\* A new connection is nobody's subscriber yet.
LEMMA ConnectInv ==
    ASSUME ControlInv, NEW s \in Sub, Connect(s)
    PROVE  ControlInv'
<1>0. ServerType /\ Unborn(s)
  BY Zenon DEF ControlInv, UnaskedIsUnborn, Connect
<1>1. /\ reader' = [reader EXCEPT ![s] = "asked"] /\ handler' = [handler EXCEPT ![s] = "ack"]
      /\ srvEnd' = [srvEnd EXCEPT ![s] = TRUE]
      /\ UNCHANGED <<list, server, toClose, dead, caster>>
  BY Zenon DEF Connect
<1>2. /\ reader'[s] = "asked" /\ handler'[s] = "ack"
      /\ \A x \in Sub : x # s => reader'[x] = reader[x] /\ handler'[x] = handler[x]
                                 /\ srvEnd'[x] = srvEnd[x]
  BY Zenon, <1>0, <1>1 DEF ServerType
<1>3. ServerType'
  BY Zenon, <1>0, <1>1 DEF ServerType
<1>4. UpHasNoneToClose' /\ CasterHasHead'
  BY Zenon, <1>1 DEF ControlInv, UpHasNoneToClose, CasterHasHead
<1>5. DeadIsShut'
  BY <1>0, <1>1, <1>2, Zenon DEF ControlInv, DeadIsShut, Unborn
<1>6. UnaskedIsUnborn'
  BY Zenon, <1>1, <1>2 DEF ControlInv, UnaskedIsUnborn, Unborn
<1>7. ForgottenIsClosed'
  <2>1. ForgottenIsClosed
    BY Zenon DEF ControlInv
  <2>2. ASSUME NEW x \in Sub, handler'[x] = "block"
        PROVE  handler[x] = "block" /\ srvEnd'[x] = srvEnd[x]
    BY Zenon, <1>2, <2>2
  <2> QED
    BY Zenon, <1>1, <2>1, <2>2 DEF ForgottenIsClosed
<1> QED
  BY Zenon, <1>3, <1>4, <1>5, <1>6, <1>7 DEF ControlInv

\* handleSubscribe adds the subscriber before it waits, and removes it before it
\* returns and closes the connection.
LEMMA HandlerInv ==
    ASSUME ControlInv, NEW s \in Sub, HandlerStep(s)
    PROVE  ControlInv'
<1>0. ServerType
  BY Zenon DEF ControlInv
<1>1. UNCHANGED <<server, toClose, dead, caster, reader>>
  BY Zenon DEF HandlerStep, WriteAck, AddSub, Unblock, cliVars
<1>2. handler[s] # "none" /\ reader[s] # "none"
  BY Zenon DEF HandlerStep, WriteAck, AddSub, Unblock, ControlInv, UnaskedIsUnborn, Unborn
<1>3. \/ \E p \in {"add", "block"} : handler' = [handler EXCEPT ![s] = p] /\ UNCHANGED srvEnd
      \/ handler' = [handler EXCEPT ![s] = "gone"] /\ srvEnd' = [srvEnd EXCEPT ![s] = FALSE]
  BY Zenon DEF HandlerStep, WriteAck, AddSub, Unblock, HandlerReturns, conVars
<1>4. /\ handler' \in [Sub -> {"none", "ack", "add", "block", "gone"}]
      /\ srvEnd' \in [Sub -> BOOLEAN]
      /\ \A x \in Sub : srvEnd'[x] => srvEnd[x]
      /\ \A x \in Sub : x # s => handler'[x] = handler[x]
  BY <1>0, <1>3, Zenon DEF ServerType
<1>5. /\ list' \in Seq(Sub)
      /\ \A x \in Sub : x # s => (x \in Range(list') <=> x \in Range(list))
      /\ handler'[s] = "block" => s \in Range(list')
  <2>1. CASE WriteAck(s)
    <3>1. UNCHANGED list /\ handler'[s] # "block"
      BY Zenon, <1>0, <2>1 DEF WriteAck, HandlerReturns, ServerType
    <3> QED
      BY Zenon, <1>0, <3>1 DEF ServerType
  <2>2. CASE AddSub(s)
    <3>1. list' = Append(list, s) /\ list \in Seq(Sub)
      BY Zenon, <1>0, <2>2 DEF AddSub, ServerType
    <3> QED
      BY <3>1, AppendSet
  <2>3. CASE Unblock(s)
    <3>1. removeSub(s) /\ list \in Seq(Sub) /\ handler'[s] = "gone"
      BY Zenon, <1>0, <2>3 DEF Unblock, HandlerReturns, ServerType
    <3> QED
      BY <3>1, RemoveSubSet, Zenon
  <2> QED
    BY Zenon, <2>1, <2>2, <2>3 DEF HandlerStep
<1>6. ServerType'
  BY Zenon, <1>0, <1>1, <1>4, <1>5 DEF ServerType
<1>7. UpHasNoneToClose' /\ CasterHasHead'
  BY Zenon, <1>1 DEF ControlInv, UpHasNoneToClose, CasterHasHead
<1>8. DeadIsShut'
  BY <1>1, <1>4, Zenon DEF ControlInv, DeadIsShut
<1>9. UnaskedIsUnborn'
  BY Zenon, <1>1, <1>2, <1>4, <1>5 DEF ControlInv, UnaskedIsUnborn, Unborn
<1>10. ForgottenIsClosed'
  BY <1>1, <1>4, <1>5, Zenon DEF ControlInv, ForgottenIsClosed
<1> QED
  BY Zenon, <1>6, <1>7, <1>8, <1>9, <1>10 DEF ControlInv

-----------------------------------------------------------------------------
\* Every step preserves the invariant.
LEMMA ControlInvStep == ControlInv /\ [Next]_vars => ControlInv'
<1> SUFFICES ASSUME ControlInv, [Next]_vars PROVE ControlInv'
  BY SMTT(30)
<1>1. CASE UNCHANGED vars
  <2>1. UNCHANGED <<list, server, toClose, handler, dead, srvEnd, caster, reader>>
    BY Zenon, <1>1 DEF vars, srvVars, cliVars, conVars
  <2> QED
    BY Zenon, <2>1 DEF ControlInv, ServerType, CasterHasHead, UpHasNoneToClose, DeadIsShut,
                UnaskedIsUnborn, Unborn, ForgottenIsClosed
<1>2. CASE Next
  BY Zenon, <1>2, SendInv, DropRemoveInv, DropCloseInv, CloseInv, CloseSubInv, ExitInv,
     ClientInv, ConnectInv, HandlerInv DEF Next, CasterStep
<1> QED
  BY Zenon, <1>1, <1>2

\* The invariant holds initially.
LEMMA ControlInvInit == Init => ControlInv
<1> SUFFICES ASSUME Init PROVE ControlInv
  BY Zenon
<1>1. At(<<>>, 0) \in CasterRecord /\ At(<<>>, 0).todo = <<>> /\ At(<<>>, 0).at = "idle"
  BY Zenon, EmptySet DEF At, CasterRecord
<1>2. ServerType
  BY Zenon, <1>1, EmptySet DEF Init, ServerType
<1>3. CasterHasHead /\ UpHasNoneToClose /\ DeadIsShut
  BY Zenon, <1>1 DEF Init, CasterHasHead, UpHasNoneToClose, DeadIsShut
<1>4. UnaskedIsUnborn /\ ForgottenIsClosed
  BY Zenon, <1>1, EmptySet DEF Init, UnaskedIsUnborn, Unborn, ForgottenIsClosed
<1> QED
  BY Zenon, <1>2, <1>3, <1>4 DEF ControlInv

\* A subscriber that left the server's list with its connection open is about to
\* be closed (server.go: Broadcast, Close, removeSub), for any number of
\* subscriptions, broadcasting goroutines and events.
THEOREM NoneForgotten == Spec => []ForgottenIsClosed
<1>1. ControlInv => ForgottenIsClosed
  BY Zenon DEF ControlInv
<1> QED
  BY <1>1, ControlInvInit, ControlInvStep, PTL DEF Spec

-----------------------------------------------------------------------------
(***************************************************************************)
(* Frames.                                                                 *)
(***************************************************************************)

Frame == Event \cup {Ack, Torn}

\* Frames as a socket holds them: an acknowledgement comes first, and at most
\* one frame is torn.
Frames(w) ==
    /\ w \in Seq(Frame)
    /\ \A i \in 1..Len(w) : w[i] = Ack => i = 1
    /\ \A i, j \in 1..Len(w) : w[i] = Torn /\ w[j] = Torn => i = j

First(w) == IF w # <<>> /\ Head(w) = Ack THEN 2 ELSE 1
Last(w) == IF Torn \in Range(w) THEN (CHOOSE i \in 1..Len(w) : w[i] = Torn) - 1 ELSE Len(w)

\* Events, acknowledgements and torn frames differ.
LEMMA FrameKinds ==
    /\ Ack \notin Event /\ Torn \notin Event /\ Ack # Torn
    /\ \A e \in Event : /\ e = <<e[1], e[2]>> /\ e[1] \in Caster
                        /\ e[2] \in Nat /\ e[2] >= 1 /\ e[2] <= MaxEvents[e[1]]
    /\ \A c \in Caster, n \in Nat : n >= 1 /\ n <= MaxEvents[c] => <<c, n>> \in Event
<1>1. \A e \in Event : \E c \in Caster : e \in {c} \X (1..MaxEvents[c])
  BY Zenon DEF Event
<1>2. \A c \in Caster : MaxEvents[c] \in Nat
  BY Zenon, BoundsAssumption
<1>3. ASSUME NEW e \in Event
      PROVE  /\ e = <<e[1], e[2]>> /\ e[1] \in Caster
             /\ e[2] \in Nat /\ e[2] >= 1 /\ e[2] <= MaxEvents[e[1]]
  BY <1>1, <1>2
<1>4. ASSUME NEW c \in Caster, NEW n \in Nat, n >= 1, n <= MaxEvents[c] PROVE <<c, n>> \in Event
  <2>1. <<c, n>> \in {c} \X (1..MaxEvents[c])
    BY <1>2, <1>4
  <2> QED
    BY Zenon, <2>1 DEF Event
<1>5. Ack \notin Event /\ Torn \notin Event /\ Ack # Torn
  <2>1. Ack[2] = 0 /\ Torn[2] = 0 /\ Ack[1] # Torn[1]
    BY Zenon DEF Ack, Torn
  <2> QED
    BY <1>3, <2>1
<1> QED
  BY Zenon, <1>3, <1>4, <1>5

\* A frame is in the socket exactly if it is at some place in it.
LEMMA InRange ==
    ASSUME NEW S, NEW w \in Seq(S), NEW x
    PROVE  x \in Range(w) <=> \E i \in 1..Len(w) : w[i] = x
BY DEF Range

\* Where the events begin and end.
LEMMA Bounds ==
    ASSUME NEW w, Frames(w)
    PROVE  /\ First(w) \in 1..2 /\ (First(w) = 2 => Len(w) >= 1)
           /\ Last(w) \in 0..Len(w) /\ First(w) <= Last(w) + 1
           /\ \A i \in 1..Len(w) : w[i] = Torn => Last(w) = i - 1
           /\ \A i \in First(w)..Last(w) : w[i] \in Event
<1>0. w \in Seq(Frame) /\ Len(w) \in Nat /\ DOMAIN w = 1..Len(w)
  BY DEF Frames
<1>1. First(w) \in 1..2 /\ (First(w) = 2 => Len(w) >= 1 /\ w[1] = Ack) /\ (First(w) = 1 => w = <<>> \/ w[1] # Ack)
  BY <1>0 DEF First
<1>2. CASE Torn \in Range(w)
  <2>1. PICK k \in 1..Len(w) : w[k] = Torn
    BY Zenon, <1>0, <1>2, InRange
  <2>2. (CHOOSE i \in 1..Len(w) : w[i] = Torn) = k
    BY Zenon, <2>1 DEF Frames
  <2>3. Last(w) = k - 1
    BY Zenon, <1>2, <2>2 DEF Last
  <2>4. \A i \in 1..Len(w) : w[i] = Torn => i = k
    BY Zenon, <2>1 DEF Frames
  <2>5. First(w) = 2 => k # 1
    BY Zenon, <1>1, <2>1, FrameKinds
  <2>6. Last(w) \in 0..Len(w) /\ First(w) <= Last(w) + 1
    BY <1>0, <1>1, <2>1, <2>3, <2>5
  <2>7. ASSUME NEW i \in First(w)..Last(w) PROVE w[i] \in Event
    <3>1. i \in 1..Len(w) /\ i # k /\ (i = 1 => First(w) = 1)
      BY <1>0, <1>1, <2>3, <2>6
    <3>2. w[i] \in Frame /\ w[i] # Torn
      BY <1>0, <2>4, <3>1
    <3>3. w[i] # Ack
      <4>1. CASE i = 1
        <5>1. w # <<>>
          BY <1>0, <3>1
        <5> QED
          BY Zenon, <1>1, <3>1, <4>1, <5>1
      <4> QED
        BY Zenon, <3>1, <4>1 DEF Frames
    <3> QED
      BY Zenon, <3>2, <3>3 DEF Frame
  <2> QED
    BY Zenon, <1>1, <2>3, <2>4, <2>6, <2>7
<1>3. CASE Torn \notin Range(w)
  <2>1. Last(w) = Len(w) /\ \A i \in 1..Len(w) : w[i] # Torn
    BY Zenon, <1>0, <1>3, InRange DEF Last
  <2>2. Last(w) \in 0..Len(w) /\ First(w) <= Last(w) + 1
    BY <1>0, <1>1, <2>1
  <2>3. ASSUME NEW i \in First(w)..Last(w) PROVE w[i] \in Event
    <3>1. i \in 1..Len(w) /\ (i = 1 => First(w) = 1)
      BY <1>0, <1>1, <2>1
    <3>2. w[i] \in Frame /\ w[i] # Torn
      BY <1>0, <2>1, <3>1
    <3>3. w[i] # Ack
      <4>1. CASE i = 1
        <5>1. w # <<>>
          BY <1>0, <3>1
        <5> QED
          BY Zenon, <1>1, <3>1, <4>1, <5>1
      <4> QED
        BY Zenon, <3>1, <4>1 DEF Frames
    <3> QED
      BY Zenon, <3>2, <3>3 DEF Frame
  <2> QED
    BY Zenon, <1>1, <2>1, <2>2, <2>3
<1> QED
  BY Zenon, <1>2, <1>3

\* What is intact, place by place.
LEMMA IntactPlaces ==
    ASSUME NEW w, Frames(w)
    PROVE  /\ Intact(w) \in Seq(Event) /\ Len(Intact(w)) = Last(w) + 1 - First(w)
           /\ \A i \in 1..Len(Intact(w)) : Intact(w)[i] = w[First(w) + i - 1]
<1> DEFINE a == First(w)
           b == Last(w)
           x == SubSeq(w, a, b)
<1>0. w \in Seq(Frame) /\ Len(w) \in Nat
  BY DEF Frames
<1>1. /\ a \in 1..2 /\ (a = 2 => Len(w) >= 1) /\ b \in 0..Len(w) /\ a <= b + 1
      /\ \A i \in a..b : w[i] \in Event
  BY Zenon, Bounds
<1>2. Intact(w) = x
  BY Zenon DEF Intact, First, Last
<1> HIDE DEF a, b
<1>3. a \in 1..(Len(w) + 1) /\ b \in (a - 1)..Len(w)
  BY <1>0, <1>1
<1>4. /\ x \in Seq(Frame) /\ Len(x) = IF a <= b THEN b - a + 1 ELSE 0
      /\ \A i \in 1..(b - a + 1) : x[i] = w[a + i - 1]
  BY <1>0, <1>3, SubSeqPlaces
<1> HIDE DEF x
<1>5. Len(x) = b + 1 - a /\ b - a + 1 = b + 1 - a
  BY <1>0, <1>1, <1>4
<1>6. \A i \in 1..Len(x) : x[i] = w[a + i - 1] /\ a + i - 1 \in a..b
  BY <1>0, <1>1, <1>4, <1>5
<1>7. \A i \in 1..Len(x) : x[i] \in Event
  BY Zenon, <1>1, <1>6
<1>8. x \in Seq(Event)
  BY <1>4, <1>7
<1> QED
  BY Zenon, <1>2, <1>5, <1>6, <1>8 DEF a, b

\* Two sequences with the same places are the same.
LEMMA SamePlaces ==
    ASSUME NEW S, NEW x \in Seq(S), NEW y \in Seq(S), Len(x) = Len(y), \A i \in 1..Len(x) : x[i] = y[i]
    PROVE  x = y
OBVIOUS

\* A frame is written.
LEMMA FramesAppend ==
    ASSUME NEW w, Frames(w), NEW e \in Frame, e = Ack => w = <<>>, e = Torn => Torn \notin Range(w)
    PROVE  /\ Frames(Append(w, e))
           /\ Torn \in Range(Append(w, e)) <=> Torn \in Range(w) \/ e = Torn
           /\ First(Append(w, e)) = IF e = Ack THEN 2 ELSE First(w)
           /\ Last(Append(w, e)) = IF Torn \in Range(w) \/ e = Torn THEN Last(w) ELSE Last(w) + 1
<1> DEFINE v == Append(w, e)
           n == Len(w)
<1>0. w \in Seq(Frame) /\ n \in Nat
  BY DEF Frames
<1>1. /\ v \in Seq(Frame) /\ Len(v) = n + 1 /\ v[n + 1] = e
      /\ \A i \in 1..n : v[i] = w[i]
      /\ \A i \in 1..(n + 1) : i \in 1..n \/ i = n + 1
      /\ n + 1 \in 1..(n + 1) /\ \A i \in 1..n : i \in 1..(n + 1)
  BY <1>0
<1> HIDE DEF v
<1>2. e = Ack => n + 1 = 1
  BY <1>0
<1>3. \A i \in 1..Len(v) : v[i] = Ack => i = 1
  BY Zenon, <1>1, <1>2 DEF Frames
<1>4. Torn \in Range(w) <=> \E i \in 1..n : w[i] = Torn
  BY Zenon, <1>0, InRange
<1>5. Torn \in Range(v) <=> \E i \in 1..Len(v) : v[i] = Torn
  <2>1. v \in Seq(Frame)
    BY Zenon, <1>1
  <2> QED
    BY Zenon, <2>1, InRange
<1>6. Torn \in Range(v) <=> Torn \in Range(w) \/ e = Torn
  BY Zenon, <1>1, <1>4, <1>5
<1>7. \A i, j \in 1..Len(v) : v[i] = Torn /\ v[j] = Torn => i = j
  BY Zenon, <1>1, <1>4 DEF Frames
<1>8. Frames(v)
  BY Zenon, <1>1, <1>3, <1>7 DEF Frames
<1>9. First(v) = IF e = Ack THEN 2 ELSE First(w)
  <2>1. v # <<>> /\ Head(v) = v[1] /\ (n = 0 => v[1] = e) /\ (n # 0 => v[1] = w[1] /\ Head(w) = w[1])
        /\ (w = <<>> <=> n = 0)
    BY <1>0, <1>1
  <2> QED
    BY Zenon, <2>1 DEF First
<1>10. Last(v) = IF Torn \in Range(w) \/ e = Torn THEN Last(w) ELSE Last(w) + 1
  <2>1. CASE Torn \in Range(w)
    <3>1. PICK k \in 1..n : w[k] = Torn
      BY Zenon, <1>4, <2>1
    <3>2. Last(w) = k - 1 /\ Last(v) = k - 1
      BY Zenon, <1>1, <1>8, <3>1, Bounds
    <3> QED
      BY Zenon, <2>1, <3>2
  <2>2. CASE Torn \notin Range(w) /\ e = Torn
    <3>1. Last(w) = n /\ Last(v) = (n + 1) - 1
      BY Zenon, <1>1, <1>8, <2>2, Bounds DEF Last
    <3> QED
      BY <1>0, <2>2, <3>1
  <2>3. CASE ~ (Torn \in Range(w) \/ e = Torn)
    BY Zenon, <1>1, <1>6, <2>3 DEF Last
  <2> QED
    BY Zenon, <2>1, <2>2, <2>3
<1> QED
  BY Zenon, <1>6, <1>8, <1>9, <1>10 DEF v

\* A frame that is not torn is read.
LEMMA FramesTail ==
    ASSUME NEW w, Frames(w), w # <<>>, Head(w) # Torn
    PROVE  /\ Frames(Tail(w)) /\ (Torn \in Range(Tail(w)) <=> Torn \in Range(w))
           /\ First(Tail(w)) = 1 /\ Last(Tail(w)) = Last(w) - 1
           /\ First(w) = IF Head(w) = Ack THEN 2 ELSE 1
<1> DEFINE v == Tail(w)
           n == Len(w)
<1>0. w \in Seq(Frame) /\ n \in Nat /\ n >= 1 /\ Head(w) = w[1] /\ 1 \in 1..n
  BY DEF Frames
<1>1. /\ v \in Seq(Frame) /\ Len(v) = n - 1 /\ (\A i \in 1..(n - 1) : v[i] = w[i + 1])
      /\ \A i \in 1..(n - 1) : i + 1 \in 1..n /\ i + 1 # 1
      /\ \A i \in 1..n : i = 1 \/ (i - 1 \in 1..(n - 1) /\ (i - 1) + 1 = i)
  BY <1>0
<1> HIDE DEF v
<1>2. ASSUME NEW i \in 1..(n - 1) PROVE v[i] # Ack
  <2>1. v[i] = w[i + 1] /\ i + 1 \in 1..n /\ i + 1 # 1
    BY Zenon, <1>1
  <2> QED
    BY Zenon, <2>1 DEF Frames
<1>3. ASSUME NEW i \in 1..(n - 1), NEW j \in 1..(n - 1), v[i] = Torn, v[j] = Torn PROVE i = j
  <2>1. w[i + 1] = Torn /\ w[j + 1] = Torn /\ i + 1 \in 1..n /\ j + 1 \in 1..n
    BY Zenon, <1>1, <1>3
  <2>2. i + 1 = j + 1
    BY Zenon, <2>1 DEF Frames
  <2> QED
    BY <2>2
<1>4. Frames(v)
  BY Zenon, <1>1, <1>2, <1>3 DEF Frames
<1>5. /\ Torn \in Range(w) <=> \E i \in 1..n : w[i] = Torn
      /\ Torn \in Range(v) <=> \E i \in 1..(n - 1) : v[i] = Torn
  <2>1. w \in Seq(Frame) /\ v \in Seq(Frame) /\ Len(v) = n - 1
    BY Zenon, <1>0, <1>1
  <2>2. Torn \in Range(w) <=> \E i \in 1..n : w[i] = Torn
    BY Zenon, <2>1, InRange
  <2>3. Torn \in Range(v) <=> \E i \in 1..Len(v) : v[i] = Torn
    BY Zenon, <2>1, InRange
  <2> QED
    BY Zenon, <2>1, <2>2, <2>3
<1>6. Torn \in Range(v) <=> Torn \in Range(w)
  <2>1. ASSUME NEW i \in 1..(n - 1), v[i] = Torn PROVE Torn \in Range(w)
    <3>1. w[i + 1] = Torn /\ i + 1 \in 1..n
      BY Zenon, <1>1, <2>1
    <3> QED
      BY Zenon, <1>5, <3>1
  <2>2. ASSUME NEW i \in 1..n, w[i] = Torn PROVE Torn \in Range(v)
    <3>1. i # 1
      BY Zenon, <1>0, <2>2
    <3>2. i - 1 \in 1..(n - 1) /\ (i - 1) + 1 = i
      BY Zenon, <1>1, <3>1
    <3>3. v[i - 1] = w[(i - 1) + 1]
      BY Zenon, <1>1, <3>2
    <3>4. v[i - 1] = Torn
      BY Zenon, <2>2, <3>2, <3>3
    <3> QED
      BY Zenon, <1>5, <3>2, <3>4
  <2> QED
    BY Zenon, <1>5, <2>1, <2>2
<1>7. First(v) = 1
  <2>1. v # <<>> => Head(v) = v[1] /\ 1 \in 1..(n - 1)
    BY <1>0, <1>1
  <2> QED
    BY Zenon, <1>2, <2>1 DEF First
<1>8. Last(v) = Last(w) - 1
  <2>1. CASE Torn \in Range(w)
    <3>1. PICK k \in 1..(n - 1) : v[k] = Torn
      BY Zenon, <1>1, <1>5, <1>6, <2>1
    <3>2. Last(v) = k - 1 /\ Last(w) = (k + 1) - 1
      BY Zenon, <1>1, <1>4, <3>1, Bounds
    <3> QED
      BY <3>2
  <2>2. CASE Torn \notin Range(w)
    BY Zenon, <1>1, <1>6, <2>2 DEF Last
  <2> QED
    BY Zenon, <2>1, <2>2
<1> QED
  BY Zenon, <1>4, <1>6, <1>7, <1>8 DEF v, First

\* Nothing can be read of an empty socket.
LEMMA IntactEmpty == Frames(<<>>) /\ Torn \notin Range(<<>>) /\ Intact(<<>>) = <<>> /\ Len(<<>>) = 0
<1>1. Frames(<<>>)
  BY DEF Frames
<1>2. Torn \notin Range(<<>>)
  BY Zenon, EmptySet
<1>3. First(<<>>) = 1 /\ Last(<<>>) = 0
  BY Zenon, <1>2 DEF First, Last
<1>4. Intact(<<>>) \in Seq(Event) /\ Len(Intact(<<>>)) = 0
  BY <1>1, <1>3, IntactPlaces
<1> QED
  BY <1>1, <1>2, <1>4

\* The acknowledgement is no event.
LEMMA IntactAck == Intact(Append(<<>>, Ack)) = <<>>
<1> DEFINE v == Append(<<>>, Ack)
<1>1. Ack \in Frame /\ Ack # Torn
  BY Zenon, FrameKinds DEF Frame
<1>2. Frames(v) /\ First(v) = 2 /\ Last(v) = Last(<<>>) + 1
  BY Zenon, <1>1, IntactEmpty, FramesAppend
<1>3. Last(<<>>) = 0
  BY Zenon, IntactEmpty DEF Last
<1> HIDE DEF v
<1>4. Intact(v) \in Seq(Event) /\ Len(Intact(v)) = 0
  BY <1>2, <1>3, IntactPlaces
<1> QED
  BY <1>4 DEF v

\* An event is written; behind a torn frame it cannot be read.
LEMMA IntactEvent ==
    ASSUME NEW w, Frames(w), NEW e \in Event
    PROVE  Intact(Append(w, e)) = IF Torn \in Range(w) THEN Intact(w) ELSE Append(Intact(w), e)
<1> DEFINE v == Append(w, e)
           a == First(w)
           b == Last(w)
<1>1. e \in Frame /\ e # Torn /\ e # Ack
  BY Zenon, FrameKinds DEF Frame
<1>2. Frames(v) /\ First(v) = a /\ Last(v) = IF Torn \in Range(w) THEN b ELSE b + 1
  BY Zenon, <1>1, FramesAppend
<1>3. /\ a \in 1..2 /\ b \in 0..Len(w) /\ a <= b + 1 /\ Len(w) \in Nat /\ w \in Seq(Frame)
  BY Bounds DEF Frames
<1>4. \A i \in 1..Len(w) : v[i] = w[i]
  BY <1>1, <1>3
<1>5. v[Len(w) + 1] = e
  BY <1>1, <1>3
<1> HIDE DEF v
<1>6. /\ Intact(w) \in Seq(Event) /\ Len(Intact(w)) = b + 1 - a
      /\ \A i \in 1..Len(Intact(w)) : Intact(w)[i] = w[a + i - 1]
  BY Zenon, IntactPlaces
<1>7. /\ Intact(v) \in Seq(Event) /\ Len(Intact(v)) = Last(v) + 1 - a
      /\ \A i \in 1..Len(Intact(v)) : Intact(v)[i] = v[a + i - 1]
  BY Zenon, <1>2, IntactPlaces
<1> HIDE DEF a, b
<1>8. CASE Torn \in Range(w)
  <2>1. Last(v) = b
    BY Zenon, <1>2, <1>8
  <2>2. \A i \in 1..(b + 1 - a) : a + i - 1 \in 1..Len(w)
    BY <1>3
  <2>3. Len(Intact(v)) = Len(Intact(w)) /\ \A i \in 1..Len(Intact(v)) : Intact(v)[i] = Intact(w)[i]
    BY Zenon, <1>4, <1>6, <1>7, <2>1, <2>2
  <2>4. Intact(v) = Intact(w)
    BY Zenon, <1>6, <1>7, <2>3, SamePlaces
  <2> QED
    BY Zenon, <1>8, <2>4 DEF v
<1>9. CASE Torn \notin Range(w)
  <2> DEFINE x == Append(Intact(w), e)
  <2>1. Last(v) = b + 1 /\ b = Len(w)
    BY Zenon, <1>2, <1>9 DEF Last, b
  <2>2. /\ x \in Seq(Event) /\ Len(x) = (b + 1 - a) + 1 /\ x[(b + 1 - a) + 1] = e
        /\ \A i \in 1..(b + 1 - a) : x[i] = Intact(w)[i]
    BY <1>6
  <2> HIDE DEF x
  <2>3. Len(Intact(v)) = Len(x)
    BY <1>3, <1>7, <2>1, <2>2
  <2>4. ASSUME NEW i \in 1..Len(Intact(v)) PROVE Intact(v)[i] = x[i]
    <3>1. CASE i \in 1..(b + 1 - a)
      <4>1. a + i - 1 \in 1..Len(w)
        BY <1>3, <3>1
      <4> QED
        BY Zenon, <1>4, <1>6, <1>7, <2>2, <3>1, <4>1
    <3>2. CASE i = (b + 1 - a) + 1
      <4>1. a + i - 1 = Len(w) + 1
        BY <1>3, <2>1, <3>2
      <4> QED
        BY Zenon, <1>5, <1>7, <2>2, <3>2, <4>1
    <3>3. i \in 1..(b + 1 - a) \/ i = (b + 1 - a) + 1
      BY <1>3, <2>2, <2>3
    <3> QED
      BY Zenon, <3>1, <3>2, <3>3
  <2>5. Intact(v) = x
    BY Zenon, <1>7, <2>2, <2>3, <2>4, SamePlaces
  <2> QED
    BY Zenon, <1>9, <2>5 DEF v, x
<1> QED
  BY Zenon, <1>8, <1>9

\* A torn frame takes nothing away from what came before it.
LEMMA IntactTorn ==
    ASSUME NEW w, Frames(w), Torn \notin Range(w)
    PROVE  Intact(Append(w, Torn)) = Intact(w)
<1> DEFINE v == Append(w, Torn)
           a == First(w)
           b == Last(w)
<1>1. Torn \in Frame /\ Torn # Ack
  BY Zenon, FrameKinds DEF Frame
<1>2. Frames(v) /\ First(v) = a /\ Last(v) = b
  <2>1. \A x : x = Torn => x \in Frame /\ x # Ack /\ Torn \notin Range(w)
    BY Zenon, <1>1
  <2>2. \A x : x = Torn => /\ Frames(Append(w, x)) /\ First(Append(w, x)) = IF x = Ack THEN 2 ELSE First(w)
                           /\ Last(Append(w, x)) = IF Torn \in Range(w) \/ x = Torn THEN Last(w) ELSE Last(w) + 1
    BY Zenon, <2>1, FramesAppend
  <2> QED
    BY Zenon, <1>1, <2>2
<1>3. /\ a \in 1..2 /\ b \in 0..Len(w) /\ a <= b + 1 /\ Len(w) \in Nat /\ w \in Seq(Frame)
  BY Bounds DEF Frames
<1>4. \A i \in 1..Len(w) : v[i] = w[i]
  BY <1>1, <1>3
<1> HIDE DEF v
<1>5. /\ Intact(w) \in Seq(Event) /\ Len(Intact(w)) = b + 1 - a
      /\ \A i \in 1..Len(Intact(w)) : Intact(w)[i] = w[a + i - 1]
  BY Zenon, IntactPlaces
<1>6. /\ Intact(v) \in Seq(Event) /\ Len(Intact(v)) = b + 1 - a
      /\ \A i \in 1..Len(Intact(v)) : Intact(v)[i] = v[a + i - 1]
  BY Zenon, <1>2, IntactPlaces
<1> HIDE DEF a, b
<1>7. \A i \in 1..(b + 1 - a) : a + i - 1 \in 1..Len(w)
  BY <1>3
<1>8. Len(Intact(v)) = Len(Intact(w)) /\ \A i \in 1..Len(Intact(v)) : Intact(v)[i] = Intact(w)[i]
  BY Zenon, <1>4, <1>5, <1>6, <1>7
<1> QED
  BY Zenon, <1>5, <1>6, <1>8, SamePlaces DEF v

\* The first frame is read: the acknowledgement, or the first event.
LEMMA IntactTail ==
    ASSUME NEW w, Frames(w), w # <<>>, Head(w) # Torn
    PROVE  /\ Head(w) = Ack => Intact(Tail(w)) = Intact(w)
           /\ Head(w) \in Event => Intact(w) # <<>> /\ Head(Intact(w)) = Head(w)
                                   /\ Intact(Tail(w)) = Tail(Intact(w))
<1> DEFINE v == Tail(w)
           b == Last(w)
<1>1. Frames(v) /\ First(v) = 1 /\ Last(v) = b - 1 /\ First(w) = IF Head(w) = Ack THEN 2 ELSE 1
  BY Zenon, FramesTail
<1>2. /\ b \in 0..Len(w) /\ First(w) <= b + 1 /\ Len(w) \in Nat /\ w \in Seq(Frame) /\ Len(w) >= 1
      /\ Head(w) = w[1]
  BY Bounds DEF Frames
<1>3. \A i \in 1..(Len(w) - 1) : v[i] = w[i + 1]
  BY <1>2
<1>4. Last(v) \in 0..Len(v)
  BY Zenon, <1>1, Bounds
<1>5. b >= 1
  BY <1>1, <1>2, <1>4
<1> HIDE DEF v
<1>6. /\ Intact(w) \in Seq(Event) /\ Len(Intact(w)) = b + 1 - First(w)
      /\ \A i \in 1..Len(Intact(w)) : Intact(w)[i] = w[First(w) + i - 1]
  BY Zenon, IntactPlaces
<1>7. /\ Intact(v) \in Seq(Event) /\ Len(Intact(v)) = (b - 1) + 1 - 1
      /\ \A i \in 1..Len(Intact(v)) : Intact(v)[i] = v[1 + i - 1]
  BY Zenon, <1>1, IntactPlaces
<1> HIDE DEF b
<1>8. Len(Intact(v)) = b - 1 /\ \A i \in 1..(b - 1) : Intact(v)[i] = w[i + 1]
  <2>1. Len(Intact(v)) = b - 1 /\ \A i \in 1..(b - 1) : 1 + i - 1 = i /\ i \in 1..(Len(w) - 1)
    BY <1>2, <1>7
  <2> QED
    BY Zenon, <1>3, <1>7, <2>1
<1>9. CASE Head(w) = Ack
  <2>1. First(w) = 2 /\ b + 1 - 2 = b - 1 /\ \A i \in 1..(b - 1) : 2 + i - 1 = i + 1
    BY <1>1, <1>2, <1>9
  <2>2. Len(Intact(w)) = b - 1 /\ \A i \in 1..(b - 1) : Intact(w)[i] = w[i + 1]
    BY Zenon, <1>6, <2>1
  <2>3. Len(Intact(v)) = Len(Intact(w)) /\ \A i \in 1..Len(Intact(v)) : Intact(v)[i] = Intact(w)[i]
    BY Zenon, <1>8, <2>2
  <2>4. Intact(v) = Intact(w)
    BY Zenon, <1>6, <1>7, <2>3, SamePlaces
  <2> QED
    BY Zenon, <1>9, <2>4, FrameKinds DEF v
<1>10. CASE Head(w) # Ack
  <2> DEFINE x == Intact(w)
  <2>1. First(w) = 1 /\ b + 1 - 1 = b /\ \A i \in 1..b : 1 + i - 1 = i
    BY <1>1, <1>2, <1>10
  <2>2. x \in Seq(Event) /\ Len(x) = b /\ \A i \in 1..b : x[i] = w[i]
    BY Zenon, <1>6, <2>1
  <2> HIDE DEF x
  <2>3. /\ x # <<>> /\ Head(x) = x[1] /\ Tail(x) \in Seq(Event) /\ Len(Tail(x)) = b - 1
        /\ \A i \in 1..(b - 1) : Tail(x)[i] = x[i + 1] /\ i + 1 \in 1..b
        /\ 1 \in 1..b
    BY <1>2, <1>5, <2>2
  <2>4. Len(Intact(v)) = Len(Tail(x)) /\ \A i \in 1..Len(Intact(v)) : Intact(v)[i] = Tail(x)[i]
    BY Zenon, <1>8, <2>2, <2>3
  <2>5. Intact(v) = Tail(x)
    BY Zenon, <1>7, <2>3, <2>4, SamePlaces
  <2>6. Head(x) = Head(w)
    BY Zenon, <1>2, <2>2, <2>3
  <2> QED
    BY Zenon, <1>10, <2>3, <2>5, <2>6 DEF x, v
<1> QED
  BY Zenon, <1>9, <1>10

\* Nothing can be read behind a torn frame.
LEMMA IntactBehind ==
    ASSUME NEW w, Frames(w), w # <<>>, Head(w) = Torn
    PROVE  Intact(w) = <<>> /\ Torn \in Range(w)
<1>1. w \in Seq(Frame) /\ 1 \in 1..Len(w) /\ w[1] = Torn
  BY DEF Frames
<1>2. Last(w) = 1 - 1 /\ First(w) = 1
  BY Zenon, <1>1, Bounds, FrameKinds DEF First
<1>3. Intact(w) \in Seq(Event) /\ Len(Intact(w)) = 0
  BY <1>2, IntactPlaces
<1>4. Torn \in Range(w)
  BY Zenon, <1>1, InRange
<1> QED
  BY <1>3, <1>4

-----------------------------------------------------------------------------
(***************************************************************************)
(* Two queues in a row.                                                    *)
(***************************************************************************)

\* An empty sequence adds nothing.
LEMMA ConcatEmpty ==
    ASSUME NEW S, NEW a \in Seq(S)
    PROVE  a \o <<>> = a /\ <<>> \o a = a
OBVIOUS

\* What is added at the end of the second is added at the end.
LEMMA ConcatAppend ==
    ASSUME NEW S, NEW a \in Seq(S), NEW b \in Seq(S), NEW e \in S
    PROVE  a \o Append(b, e) = Append(a \o b, e)
<1> DEFINE d == Append(b, e)
           q == a \o b
           r == Append(q, e)
           t == a \o d
<1>1. d \in Seq(S) /\ Len(d) = Len(b) + 1 /\ d[Len(b) + 1] = e /\ \A i \in 1..Len(b) : d[i] = b[i]
  OBVIOUS
<1> HIDE DEF d
<1>2. /\ q \in Seq(S) /\ Len(q) = Len(a) + Len(b) /\ Len(a) \in Nat /\ Len(b) \in Nat
      /\ \A i \in 1..(Len(a) + Len(b)) : q[i] = IF i <= Len(a) THEN a[i] ELSE b[i - Len(a)]
  BY Zenon, ConcatPlaces
<1>3. /\ t \in Seq(S) /\ Len(t) = Len(a) + Len(d)
      /\ \A i \in 1..(Len(a) + Len(d)) : t[i] = IF i <= Len(a) THEN a[i] ELSE d[i - Len(a)]
  BY Zenon, <1>1, ConcatPlaces
<1> HIDE DEF q, t
<1>4. /\ r \in Seq(S) /\ Len(r) = Len(q) + 1 /\ r[Len(q) + 1] = e /\ \A i \in 1..Len(q) : r[i] = q[i]
  BY <1>2
<1> HIDE DEF r
<1>5. Len(t) = Len(r) /\ Len(r) = Len(a) + Len(b) + 1
  BY <1>1, <1>2, <1>3, <1>4
<1>6. ASSUME NEW i \in 1..Len(t) PROVE t[i] = r[i]
  <2>1. t[i] = IF i <= Len(a) THEN a[i] ELSE d[i - Len(a)]
    BY Zenon, <1>3
  <2>2. CASE i = Len(q) + 1
    <3>1. ~ (i <= Len(a)) /\ i - Len(a) = Len(b) + 1
      BY <1>2, <2>2
    <3> QED
      BY Zenon, <1>1, <1>4, <2>1, <2>2, <3>1
  <2>3. CASE i # Len(q) + 1
    <3>1. i \in 1..Len(q) /\ i \in 1..(Len(a) + Len(b)) /\ (~ (i <= Len(a)) => i - Len(a) \in 1..Len(b))
      BY <1>2, <1>5, <2>3
    <3> QED
      BY Zenon, <1>1, <1>2, <1>4, <2>1, <3>1
  <2> QED
    BY Zenon, <2>2, <2>3
<1>7. t = r
  BY Zenon, <1>3, <1>4, <1>5, <1>6, SamePlaces
<1> QED
  BY Zenon, <1>7 DEF t, r, d, q

\* The first of the second goes to the end of the first.
LEMMA ConcatShift ==
    ASSUME NEW S, NEW a \in Seq(S), NEW b \in Seq(S), b # <<>>
    PROVE  Append(a, Head(b)) \o Tail(b) = a \o b
<1> DEFINE h == Append(a, Head(b))
           d == Tail(b)
           q == a \o b
           t == h \o d
<1>1. /\ Len(a) \in Nat /\ Len(b) \in Nat /\ Len(b) >= 1
      /\ h \in Seq(S) /\ Len(h) = Len(a) + 1 /\ h[Len(a) + 1] = b[1] /\ \A i \in 1..Len(a) : h[i] = a[i]
  OBVIOUS
<1>2. /\ d \in Seq(S) /\ Len(d) = Len(b) - 1 /\ \A i \in 1..(Len(b) - 1) : d[i] = b[i + 1]
  OBVIOUS
<1> HIDE DEF h, d
<1>3. /\ q \in Seq(S) /\ Len(q) = Len(a) + Len(b)
      /\ \A i \in 1..(Len(a) + Len(b)) : q[i] = IF i <= Len(a) THEN a[i] ELSE b[i - Len(a)]
  BY Zenon, ConcatPlaces
<1>4. /\ t \in Seq(S) /\ Len(t) = Len(h) + Len(d)
      /\ \A i \in 1..(Len(h) + Len(d)) : t[i] = IF i <= Len(h) THEN h[i] ELSE d[i - Len(h)]
  BY ZenonT(40), <1>1, <1>2, ConcatPlaces
<1> HIDE DEF q, t
<1>5. Len(t) = Len(q) /\ Len(h) + Len(d) = Len(a) + Len(b)
  BY <1>1, <1>2, <1>3, <1>4
<1>6. ASSUME NEW i \in 1..Len(t) PROVE t[i] = q[i]
  <2>0. i \in 1..(Len(a) + Len(b)) /\ i \in 1..(Len(h) + Len(d))
    BY Zenon, <1>3, <1>4, <1>5
  <2>1. CASE i <= Len(a)
    <3>1. i \in 1..Len(a) /\ i <= Len(h)
      BY <1>1, <2>0, <2>1
    <3> QED
      BY Zenon, <1>1, <1>3, <1>4, <2>0, <2>1, <3>1
  <2>2. CASE i = Len(a) + 1
    <3>1. ~ (i <= Len(a)) /\ i <= Len(h) /\ i - Len(a) = 1
      BY <1>1, <2>2
    <3> QED
      BY Zenon, <1>1, <1>3, <1>4, <2>0, <2>2, <3>1
  <2>3. CASE ~ (i <= Len(a)) /\ i # Len(a) + 1
    <3>1. ~ (i <= Len(h)) /\ i - Len(h) \in 1..(Len(b) - 1) /\ (i - Len(h)) + 1 = i - Len(a)
      BY SMTT(30), <1>1, <1>2, <2>0, <2>3
    <3> QED
      BY Zenon, <1>2, <1>3, <1>4, <2>0, <2>3, <3>1
  <2> QED
    BY Zenon, <2>1, <2>2, <2>3
<1>7. t = q
  BY Zenon, <1>3, <1>4, <1>5, <1>6, SamePlaces
<1> QED
  BY Zenon, <1>7 DEF t, h, d, q

\* The first of the second is dropped.
LEMMA ConcatDrop ==
    ASSUME NEW S, NEW a \in Seq(S), NEW b \in Seq(S), b # <<>>
    PROVE  /\ Len(a) + 1 \in 1..Len(a \o b)
           /\ a \o Tail(b) = CutOut(a \o b, Len(a) + 1)
<1> DEFINE d == Tail(b)
           q == a \o b
           t == a \o d
           r == CutOut(q, Len(a) + 1)
<1>1. /\ Len(a) \in Nat /\ Len(b) \in Nat /\ Len(b) >= 1
      /\ d \in Seq(S) /\ Len(d) = Len(b) - 1 /\ \A i \in 1..(Len(b) - 1) : d[i] = b[i + 1]
  OBVIOUS
<1> HIDE DEF d
<1>2. /\ q \in Seq(S) /\ Len(q) = Len(a) + Len(b)
      /\ \A i \in 1..(Len(a) + Len(b)) : q[i] = IF i <= Len(a) THEN a[i] ELSE b[i - Len(a)]
  BY Zenon, ConcatPlaces
<1>3. /\ t \in Seq(S) /\ Len(t) = Len(a) + Len(d)
      /\ \A i \in 1..(Len(a) + Len(d)) : t[i] = IF i <= Len(a) THEN a[i] ELSE d[i - Len(a)]
  BY ZenonT(40), <1>1, ConcatPlaces
<1> HIDE DEF q, t
<1>4. Len(a) + 1 \in 1..Len(q)
  BY <1>1, <1>2
<1>5. /\ r \in Seq(S) /\ Len(r) = Len(q) - 1
      /\ \A i \in 1..(Len(q) - 1) : r[i] = IF i < Len(a) + 1 THEN q[i] ELSE q[i + 1]
  BY Zenon, <1>2, <1>4, CutOutPlaces
<1> HIDE DEF r
<1>6. Len(t) = Len(r) /\ Len(t) = Len(q) - 1 /\ Len(t) = Len(a) + Len(d) /\ Len(q) = Len(a) + Len(b)
  BY <1>1, <1>2, <1>3, <1>5
<1>7. ASSUME NEW i \in 1..Len(t) PROVE t[i] = r[i]
  <2>0. /\ i \in 1..(Len(a) + Len(b)) /\ i \in 1..(Len(a) + Len(d)) /\ i \in 1..(Len(q) - 1)
        /\ i + 1 \in 1..(Len(a) + Len(b))
    BY <1>1, <1>6
  <2>1. CASE i <= Len(a)
    <3>1. i < Len(a) + 1
      BY <1>1, <2>0, <2>1
    <3> QED
      BY Zenon, <1>2, <1>3, <1>5, <2>0, <2>1, <3>1
  <2>2. CASE ~ (i <= Len(a))
    <3>1. /\ ~ (i < Len(a) + 1) /\ ~ (i + 1 <= Len(a)) /\ i - Len(a) \in 1..(Len(b) - 1)
          /\ (i + 1) - Len(a) = (i - Len(a)) + 1
      BY <1>1, <1>6, <2>0, <2>2
    <3> QED
      BY Zenon, <1>1, <1>2, <1>3, <1>5, <2>0, <2>2, <3>1
  <2> QED
    BY Zenon, <2>1, <2>2
<1>8. t = r
  BY Zenon, <1>3, <1>5, <1>6, <1>7, SamePlaces
<1> QED
  BY Zenon, <1>4, <1>8 DEF t, r, d, q

\* The first of the first is taken.
LEMMA ConcatTake ==
    ASSUME NEW S, NEW a \in Seq(S), NEW b \in Seq(S), a # <<>>
    PROVE  /\ a \o b # <<>> /\ Head(a \o b) = Head(a)
           /\ Tail(a \o b) = Tail(a) \o b
<1> DEFINE d == Tail(a)
           q == a \o b
           t == d \o b
           r == Tail(q)
<1>1. /\ Len(a) \in Nat /\ Len(b) \in Nat /\ Len(a) >= 1 /\ Head(a) = a[1]
      /\ d \in Seq(S) /\ Len(d) = Len(a) - 1 /\ \A i \in 1..(Len(a) - 1) : d[i] = a[i + 1]
  OBVIOUS
<1> HIDE DEF d
<1>2. /\ q \in Seq(S) /\ Len(q) = Len(a) + Len(b)
      /\ \A i \in 1..(Len(a) + Len(b)) : q[i] = IF i <= Len(a) THEN a[i] ELSE b[i - Len(a)]
  BY Zenon, ConcatPlaces
<1>3. /\ t \in Seq(S) /\ Len(t) = Len(d) + Len(b)
      /\ \A i \in 1..(Len(d) + Len(b)) : t[i] = IF i <= Len(d) THEN d[i] ELSE b[i - Len(d)]
  BY Zenon, <1>1, ConcatPlaces
<1> HIDE DEF q, t
<1>4. /\ q # <<>> /\ Head(q) = q[1] /\ r \in Seq(S) /\ Len(r) = Len(q) - 1
      /\ \A i \in 1..(Len(q) - 1) : r[i] = q[i + 1]
  <2>1. q \in Seq(S) /\ Len(q) >= 1
    BY <1>1, <1>2
  <2> QED
    BY <2>1
<1> HIDE DEF r
<1>5. q[1] = a[1]
  <2>1. 1 \in 1..(Len(a) + Len(b)) /\ 1 <= Len(a)
    BY <1>1
  <2> QED
    BY Zenon, <1>2, <2>1
<1>6. Len(t) = Len(r) /\ Len(t) = Len(q) - 1 /\ Len(t) = Len(d) + Len(b) /\ Len(q) = Len(a) + Len(b)
  BY <1>1, <1>2, <1>3, <1>4
<1>7. ASSUME NEW i \in 1..Len(t) PROVE t[i] = r[i]
  <2>0. /\ i + 1 \in 1..(Len(a) + Len(b)) /\ i \in 1..(Len(d) + Len(b)) /\ i \in 1..(Len(q) - 1)
    BY <1>1, <1>6
  <2>1. CASE i <= Len(d)
    <3>1. i + 1 <= Len(a) /\ i \in 1..(Len(a) - 1)
      BY <1>1, <2>0, <2>1
    <3> QED
      BY Zenon, <1>1, <1>2, <1>3, <1>4, <2>0, <2>1, <3>1
  <2>2. CASE ~ (i <= Len(d))
    <3>1. ~ (i + 1 <= Len(a)) /\ (i + 1) - Len(a) = i - Len(d)
      BY <1>1, <2>0, <2>2
    <3> QED
      BY Zenon, <1>2, <1>3, <1>4, <2>0, <2>2, <3>1
  <2> QED
    BY Zenon, <2>1, <2>2
<1>8. t = r
  BY Zenon, <1>3, <1>4, <1>6, <1>7, SamePlaces
<1> QED
  BY Zenon, <1>1, <1>4, <1>5, <1>8 DEF t, r, d, q

\* Keeping everything, and keeping nothing.
LEMMA KeepAll ==
    ASSUME NEW S, NEW q \in Seq(S)
    PROVE  /\ Len(q) \in 0..Len(q) /\ 0 \in 0..Len(q)
           /\ SubSeq(q, 1, Len(q)) = q /\ SubSeq(q, 1, 0) = <<>>
<1>1. Len(q) \in Nat /\ 1 \in 1..(Len(q) + 1) /\ Len(q) \in (1 - 1)..Len(q) /\ 0 \in (1 - 1)..Len(q)
  OBVIOUS
<1> DEFINE a == SubSeq(q, 1, Len(q))
           b == SubSeq(q, 1, 0)
<1>2. /\ a \in Seq(S) /\ Len(a) = IF 1 <= Len(q) THEN Len(q) - 1 + 1 ELSE 0
      /\ \A i \in 1..(Len(q) - 1 + 1) : a[i] = q[1 + i - 1]
  BY <1>1, SubSeqPlaces
<1>3. /\ b \in Seq(S) /\ Len(b) = IF 1 <= 0 THEN 0 - 1 + 1 ELSE 0
  BY <1>1, SubSeqPlaces
<1> HIDE DEF a, b
<1>4. Len(a) = Len(q) /\ \A i \in 1..Len(a) : a[i] = q[i]
  BY <1>1, <1>2
<1>5. a = q
  BY Zenon, <1>2, <1>4, SamePlaces
<1>6. b = <<>>
  BY <1>3
<1> QED
  BY <1>1, <1>5, <1>6 DEF a, b

-----------------------------------------------------------------------------
(***************************************************************************)
(* Who is to be sent an event.                                             *)
(***************************************************************************)

\* No subscriber twice.
Once(q) == \A i, j \in 1..Len(q) : q[i] = q[j] => i = j

\* The caster's current event is still to be sent to s.
Sends(c, s) == s \in Range(caster[c].todo)

\* The number of the latest event that c has done with, as far as s is concerned.
Latest(c, s) == IF Sends(c, s) THEN caster[c].num - 1 ELSE caster[c].num

Unlisted == {"none", "ack", "add"}

CasterInv(c) ==
    /\ Once(caster[c].todo) /\ (caster[c].todo # <<>> => caster[c].num > 0)
    /\ caster[c].num <= MaxEvents[c]
    /\ caster[c].at = "idle" <=> caster[c].todo = <<>>

\* A subscriber is listed once, and only when its handler has put it there.
ListInv ==
    /\ Once(list)
    /\ \A c \in Caster : CasterInv(c)
    /\ \A s \in Sub : handler[s] \in Unlisted =>
          /\ s \notin Range(list) /\ s \notin Range(toClose)
          /\ \A c \in Caster : ~ Sends(c, s)

\* An empty list.
LEMMA OnceEmpty == Once(<<>>)
<1>1. Len(<<>>) = 0 /\ \A i \in 1..0 : FALSE
  OBVIOUS
<1> QED
  BY Zenon, <1>1 DEF Once

\* A new subscriber is added.
LEMMA OnceAppend ==
    ASSUME NEW q \in Seq(Sub), Once(q), NEW x \in Sub, x \notin Range(q)
    PROVE  Once(Append(q, x))
<1> DEFINE r == Append(q, x)
           n == Len(q)
<1>1. /\ r \in Seq(Sub) /\ n \in Nat /\ Len(r) = n + 1 /\ r[n + 1] = x /\ \A i \in 1..n : r[i] = q[i]
      /\ \A i \in 1..(n + 1) : i \in 1..n \/ i = n + 1
  OBVIOUS
<1>2. \A i \in 1..n : q[i] # x
  BY Zenon, InRange
<1> HIDE DEF r, n
<1>3. \A i, j \in 1..n : q[i] = q[j] => i = j
  BY Zenon DEF Once, n
<1>4. \A i, j \in 1..(n + 1) : r[i] = r[j] => i = j
  BY Zenon, <1>1, <1>2, <1>3
<1>5. Once(r)
  BY Zenon, <1>1, <1>4 DEF Once
<1> QED
  BY Zenon, <1>5 DEF r

\* The first subscriber is done with, and comes no more.
LEMMA OnceTail ==
    ASSUME NEW q \in Seq(Sub), Once(q), q # <<>>
    PROVE  Once(Tail(q)) /\ Head(q) \notin Range(Tail(q))
<1> DEFINE r == Tail(q)
           n == Len(q)
<1>1. /\ r \in Seq(Sub) /\ n \in Nat /\ Len(r) = n - 1 /\ (\A i \in 1..(n - 1) : r[i] = q[i + 1])
      /\ \A i \in 1..(n - 1) : i + 1 \in 1..n /\ i + 1 # 1
      /\ \A i, j \in 1..(n - 1) : i + 1 = j + 1 => i = j
      /\ Head(q) = q[1] /\ 1 \in 1..n
  OBVIOUS
<1> HIDE DEF r, n
<1>3. \A i, j \in 1..n : q[i] = q[j] => i = j
  BY Zenon DEF Once, n
<1>4. ASSUME NEW i \in 1..(n - 1), NEW j \in 1..(n - 1), r[i] = r[j] PROVE i = j
  <2>1. q[i + 1] = q[j + 1] /\ i + 1 \in 1..n /\ j + 1 \in 1..n
    BY Zenon, <1>1, <1>4
  <2>2. i + 1 = j + 1
    BY Zenon, <1>3, <2>1
  <2> QED
    BY Zenon, <1>1, <2>2
<1>5. Once(r)
  BY Zenon, <1>1, <1>4 DEF Once
<1>6. r \in Seq(Sub) /\ Len(r) = n - 1
  BY Zenon, <1>1
<1>7. \A i \in 1..(n - 1) : r[i] # Head(q)
  BY ZenonT(40), <1>1, <1>3
<1>8. Head(q) \notin Range(r)
  BY Zenon, <1>6, <1>7, InRange
<1> QED
  BY Zenon, <1>5, <1>8 DEF r

\* A subscriber is cut out.
LEMMA OnceCutOut ==
    ASSUME NEW q \in Seq(Sub), Once(q), NEW k \in 1..Len(q)
    PROVE  Once(CutOut(q, k))
<1> DEFINE r == CutOut(q, k)
           n == Len(q)
           f(i) == IF i < k THEN i ELSE i + 1
<1>1. /\ r \in Seq(Sub) /\ Len(r) = n - 1
      /\ \A i \in 1..(n - 1) : r[i] = IF i < k THEN q[i] ELSE q[i + 1]
  BY Zenon, CutOutPlaces
<1>2. n \in Nat /\ k \in 1..n
  OBVIOUS
<1>3. \A i \in 1..(n - 1) : f(i) \in 1..n
  BY <1>2
<1>4. \A i, j \in 1..(n - 1) : f(i) = f(j) => i = j
  BY <1>2
<1>5. \A i \in 1..(n - 1) : r[i] = q[f(i)]
  BY Zenon, <1>1
<1> HIDE DEF r, n, f
<1>6. \A i, j \in 1..n : q[i] = q[j] => i = j
  BY Zenon DEF Once, n
<1>7. \A i, j \in 1..(n - 1) : r[i] = r[j] => i = j
  BY Zenon, <1>3, <1>4, <1>5, <1>6
<1>8. Once(r)
  BY Zenon, <1>1, <1>7 DEF Once
<1> QED
  BY Zenon, <1>8 DEF r

\* removeSub leaves no subscriber twice.
LEMMA OnceRemoved ==
    ASSUME list \in Seq(Sub), Once(list), NEW x, removeSub(x)
    PROVE  Once(list')
<1>1. CASE UNCHANGED list
  BY Zenon, <1>1
<1>2. ASSUME NEW i \in 1..Len(list), list' = SubSeq(list, 1, i - 1) \o SubSeq(list, i + 1, Len(list))
      PROVE  Once(list')
  BY Zenon, <1>2, OnceCutOut DEF CutOut
<1> QED
  BY Zenon, <1>1, <1>2 DEF removeSub

\* Nothing moves, and no handler goes back.
LEMMA ListKeeps ==
    ASSUME ListInv, UNCHANGED <<list, toClose, caster>>,
           \A s \in Sub : handler'[s] \in Unlisted => handler[s] \in Unlisted
    PROVE  ListInv'
BY Zenon DEF ListInv, CasterInv, Sends

\* A caster moves on, with subscribers of the list or of its own.
LEMMA ListMoves ==
    ASSUME ControlInv, ListInv, NEW c \in Caster, NEW r \in CasterRecord,
           caster' = [caster EXCEPT ![c] = r], Once(r.todo), r.todo # <<>> => r.num > 0,
           r.num <= MaxEvents[c], r.at = "idle" <=> r.todo = <<>>,
           Range(r.todo) \subseteq Range(list) \cup Range(caster[c].todo),
           Once(list'), Range(list') \subseteq Range(list), UNCHANGED <<handler, toClose>>
    PROVE  ListInv'
<1>1. caster'[c] = r /\ \A d \in Caster : d # c => caster'[d] = caster[d]
  <2>1. caster \in [Caster -> CasterRecord]
    BY Zenon DEF ControlInv, ServerType
  <2> QED
    BY Zenon, <2>1
<1>2. ASSUME NEW d \in Caster PROVE CasterInv(d)'
  BY Zenon, <1>1 DEF ListInv, CasterInv
<1>3. ASSUME NEW s \in Sub, handler'[s] \in Unlisted
      PROVE  /\ s \notin Range(list') /\ s \notin Range(toClose')
             /\ \A d \in Caster : ~ Sends(d, s)'
  <2>1. /\ s \notin Range(list) /\ s \notin Range(toClose)
        /\ \A d \in Caster : s \notin Range(caster[d].todo)
    BY Zenon, <1>3 DEF ListInv, Sends
  <2>2. \A d \in Caster : s \notin Range(caster'[d].todo)
    BY Zenon, <1>1, <2>1
  <2> QED
    BY Zenon, <2>1, <2>2 DEF Sends
<1> QED
  BY Zenon, <1>2, <1>3 DEF ListInv

\* What is known of a caster that is sending.
LEMMA SendingFacts ==
    ASSUME ControlInv, ListInv, NEW c \in Caster
    PROVE  /\ caster[c] \in CasterRecord /\ caster[c].todo \in Seq(Sub) /\ caster[c].num \in Nat
           /\ MaxEvents[c] \in Nat
           /\ caster[c].num <= MaxEvents[c] /\ Once(caster[c].todo)
           /\ caster[c].todo # <<>> => caster[c].num > 0
           /\ caster[c].at = "idle" <=> caster[c].todo = <<>>
           /\ caster[c].at # "idle" =>
                 /\ caster[c].todo # <<>> /\ caster[c].num > 0
                 /\ Head(caster[c].todo) \in Sub /\ Tail(caster[c].todo) \in Seq(Sub)
                 /\ Range(caster[c].todo) = Range(Tail(caster[c].todo)) \cup {Head(caster[c].todo)}
                 /\ Once(Tail(caster[c].todo)) /\ Head(caster[c].todo) \notin Range(Tail(caster[c].todo))
<1>1. MaxEvents[c] \in Nat
  BY Zenon, BoundsAssumption
<1> QED
  BY Zenon, <1>1, CasterFacts, OnceTail DEF ListInv, CasterInv

\* What a caster's step makes of its record.
MovesTo(c, r) ==
    \/ /\ caster[c].at # "idle" /\ r.at # "idle"
       /\ r.todo = caster[c].todo /\ r.num = caster[c].num
    \/ caster[c].at = "idle" /\ caster[c].num < MaxEvents[c] /\ r = At(list, caster[c].num + 1)
    \/ caster[c].at # "idle" /\ r = At(Tail(caster[c].todo), caster[c].num)

\* A caster goes on with its subscriber, with the next one, or with its next event.
LEMMA CasterActs ==
    ASSUME ControlInv, ListInv, NEW c \in Caster, Broadcast(c) \/ CasterStep(c)
    PROVE  \E r \in CasterRecord : caster' = [caster EXCEPT ![c] = r] /\ MovesTo(c, r)
<1> DEFINE q == caster[c].todo
           n == caster[c].num
           Goes(p) == [caster[c] EXCEPT !.at = p]
<1>0. /\ caster[c] \in CasterRecord /\ q \in Seq(Sub) /\ n \in Nat
      /\ caster[c].at # "idle" => Tail(q) \in Seq(Sub)
  BY Zenon, SendingFacts
<1>1. list \in Seq(Sub) /\ n + 1 \in Nat
  BY <1>0 DEF ControlInv, ServerType
<1>2. CASE Broadcast(c)
  <2>1. /\ caster' = [caster EXCEPT ![c] = At(list, n + 1)]
        /\ caster[c].at = "idle" /\ n < MaxEvents[c]
    BY Zenon, <1>2 DEF Broadcast
  <2>2. At(list, n + 1) \in CasterRecord
    BY Zenon, <1>1, AtType
  <2> QED
    BY Zenon, <2>1, <2>2 DEF MovesTo
<1>3. ASSUME NEW p \in {"write", "remove", "close"}, caster' = [caster EXCEPT ![c].at = p],
             caster[c].at \in {"next", "write", "remove"}
      PROVE  \E r \in CasterRecord : caster' = [caster EXCEPT ![c] = r] /\ MovesTo(c, r)
  <2>1. Goes(p) \in CasterRecord /\ Goes(p).todo = q /\ Goes(p).num = n /\ Goes(p).at # "idle"
    BY Zenon, <1>0 DEF CasterRecord
  <2>2. caster' = [caster EXCEPT ![c] = Goes(p)] /\ caster[c].at # "idle"
    BY Zenon, <1>3
  <2> HIDE DEF Goes
  <2> QED
    BY Zenon, <2>1, <2>2 DEF MovesTo
<1>4. ASSUME caster' = NextSub(c), caster[c].at # "idle"
      PROVE  \E r \in CasterRecord : caster' = [caster EXCEPT ![c] = r] /\ MovesTo(c, r)
  <2>1. caster' = [caster EXCEPT ![c] = At(Tail(q), n)]
    BY Zenon, <1>4 DEF NextSub
  <2>2. At(Tail(q), n) \in CasterRecord
    BY Zenon, <1>0, <1>4, AtType
  <2> QED
    BY Zenon, <1>4, <2>1, <2>2 DEF MovesTo
<1>5. CASE SendLock(c)
  BY Zenon, <1>3, <1>5 DEF SendLock
<1>6. CASE SendWrite(c)
  BY Zenon, <1>3, <1>4, <1>6 DEF SendWrite
<1>7. CASE DropRemove(c)
  BY Zenon, <1>3, <1>7 DEF DropRemove
<1>8. CASE DropClose(c)
  BY Zenon, <1>4, <1>8 DEF DropClose
<1> QED
  BY Zenon, <1>2, <1>5, <1>6, <1>7, <1>8 DEF CasterStep

\* A caster at the head of its loop, or done with it.
LEMMA AtFields ==
    ASSUME NEW q, NEW n
    PROVE  At(q, n).todo = q /\ At(q, n).num = n /\ (At(q, n).at = "idle" <=> q = <<>>)
BY Zenon DEF At

\* The casters keep the lists in order.
LEMMA ListSends ==
    ASSUME ControlInv, ListInv, NEW c \in Caster, Broadcast(c) \/ CasterStep(c)
    PROVE  ListInv'
<1> DEFINE q == caster[c].todo
           n == caster[c].num
<1>1. PICK r \in CasterRecord : caster' = [caster EXCEPT ![c] = r] /\ MovesTo(c, r)
  BY Zenon, CasterActs
<1>2. list \in Seq(Sub) /\ Once(list)
  BY Zenon DEF ControlInv, ServerType, ListInv
<1>3. Once(list') /\ Range(list') \subseteq Range(list)
  <2>1. CASE DropRemove(c)
    <3>1. removeSub(Head(q))
      BY Zenon, <2>1 DEF DropRemove
    <3> QED
      BY Zenon, <1>2, <3>1, OnceRemoved, RemoveSubSet
  <2>2. CASE ~ DropRemove(c)
    <3>1. UNCHANGED list
      BY Zenon, <2>2 DEF CasterStep, Broadcast, SendLock, SendWrite, DropClose
    <3> QED
      BY Zenon, <1>2, <3>1
  <2> QED
    BY Zenon, <2>1, <2>2
<1>4. UNCHANGED <<handler, toClose>>
  BY Zenon DEF CasterStep, Broadcast, SendLock, SendWrite, DropRemove, DropClose
<1>5. /\ caster[c] \in CasterRecord /\ q \in Seq(Sub) /\ n \in Nat /\ MaxEvents[c] \in Nat
      /\ n <= MaxEvents[c] /\ Once(q) /\ (q # <<>> => n > 0)
      /\ caster[c].at = "idle" <=> q = <<>>
      /\ caster[c].at # "idle" => /\ n > 0 /\ Range(q) = Range(Tail(q)) \cup {Head(q)} /\ Once(Tail(q))
  BY Zenon, SendingFacts
<1>6. /\ Once(r.todo) /\ (r.todo # <<>> => r.num > 0)
      /\ r.num <= MaxEvents[c] /\ (r.at = "idle" <=> r.todo = <<>>)
      /\ Range(r.todo) \subseteq Range(list) \cup Range(q)
  <2>1. CASE /\ caster[c].at # "idle" /\ r.at # "idle" /\ r.todo = q /\ r.num = n
    BY Zenon, <1>5, <2>1
  <2>2. CASE caster[c].at = "idle" /\ n < MaxEvents[c] /\ r = At(list, n + 1)
    <3>1. n + 1 <= MaxEvents[c] /\ n + 1 > 0
      BY <1>5, <2>2
    <3>2. r.todo = list /\ r.num = n + 1 /\ (r.at = "idle" <=> list = <<>>)
      BY <2>2, AtFields
    <3> QED
      BY Zenon, <1>2, <3>1, <3>2
  <2>3. CASE caster[c].at # "idle" /\ r = At(Tail(q), n)
    <3>1. \A t : r = At(t, n) => r.todo = t /\ r.num = n /\ (r.at = "idle" <=> t = <<>>)
      BY AtFields
    <3> QED
      BY Zenon, <1>5, <2>3, <3>1
  <2> QED
    BY Zenon, <1>1, <2>1, <2>2, <2>3 DEF MovesTo
<1> QED
  BY Zenon, <1>1, <1>3, <1>4, <1>6, ListMoves

\* The connections' goroutines and the clients do, too.
LEMMA ListHandles ==
    ASSUME ControlInv, ListInv, NEW s \in Sub,
           Connect(s) \/ HandlerStep(s) \/ ReaderStep(s) \/ Receive(s) \/ CloseClient(s)
    PROVE  ListInv'
<1>0. handler \in [Sub -> {"none", "ack", "add", "block", "gone"}] /\ list \in Seq(Sub)
  BY Zenon DEF ControlInv, ServerType
<1>1. CASE ReaderStep(s) \/ Receive(s) \/ CloseClient(s)
  <2>1. UNCHANGED <<list, toClose, caster, handler>>
    BY Zenon, <1>1 DEF ReaderStep, ReadAck, ReadEvent, ReadFails, Receive, CloseClient, srvVars
  <2> QED
    BY Zenon, <2>1, ListKeeps
<1>2. CASE Connect(s)
  <2>1. UNCHANGED <<list, toClose, caster>> /\ handler' = [handler EXCEPT ![s] = "ack"] /\ reader[s] = "none"
    BY Zenon, <1>2 DEF Connect
  <2>2. handler[s] = "none"
    BY Zenon, <2>1 DEF ControlInv, UnaskedIsUnborn, Unborn
  <2>3. \A x \in Sub : handler'[x] \in Unlisted => handler[x] \in Unlisted
    BY Zenon, <1>0, <2>1, <2>2 DEF Unlisted
  <2> QED
    BY Zenon, <2>1, <2>3, ListKeeps
<1>3. CASE WriteAck(s)
  <2>1. /\ UNCHANGED <<list, toClose, caster>> /\ handler[s] = "ack"
        /\ \E p \in {"add", "gone"} : handler' = [handler EXCEPT ![s] = p]
    BY Zenon, <1>3 DEF WriteAck, HandlerReturns
  <2>2. \A x \in Sub : handler'[x] \in Unlisted => handler[x] \in Unlisted
    BY Zenon, <1>0, <2>1 DEF Unlisted
  <2> QED
    BY Zenon, <2>1, <2>2, ListKeeps
<1>4. CASE AddSub(s) \/ Unblock(s)
  <2>1. UNCHANGED <<toClose, caster>> /\ \E p \in {"block", "gone"} : handler' = [handler EXCEPT ![s] = p]
    BY Zenon, <1>4 DEF AddSub, Unblock, HandlerReturns
  <2>2. /\ handler'[s] \in {"block", "gone"}
        /\ \A x \in Sub : x # s => handler'[x] = handler[x]
    BY Zenon, <1>0, <2>1
  <2>3. handler'[s] \notin Unlisted
    BY Zenon, <2>2 DEF Unlisted
  <2>4. Once(list') /\ \A x \in Range(list') : x \in Range(list) \/ x = s
    <3>1. CASE AddSub(s)
      <4>1. list' = Append(list, s) /\ handler[s] \in Unlisted
        BY Zenon, <3>1 DEF AddSub, Unlisted
      <4>2. s \notin Range(list) /\ Once(list)
        BY Zenon, <4>1 DEF ListInv
      <4>3. Once(Append(list, s)) /\ Range(Append(list, s)) = Range(list) \cup {s}
        BY Zenon, <1>0, <4>2, OnceAppend, AppendSet
      <4> QED
        BY Zenon, <4>1, <4>3
    <3>2. CASE Unblock(s)
      BY Zenon, <1>0, <3>2, OnceRemoved, RemoveSubSet DEF Unblock, ListInv
    <3> QED
      BY Zenon, <1>4, <3>1, <3>2
  <2> QED
    BY Zenon, <2>1, <2>2, <2>3, <2>4 DEF ListInv, CasterInv, Sends
<1> QED
  BY Zenon, <1>1, <1>2, <1>3, <1>4 DEF HandlerStep

\* Close and the end of the process do, too.
LEMMA ListCloses ==
    ASSUME ControlInv, ListInv, Close \/ CloseSub \/ Exit
    PROVE  ListInv'
<1>1. CASE Close
  <2>1. toClose' = list /\ list' = <<>> /\ UNCHANGED <<handler, caster>>
    BY Zenon, <1>1 DEF Close
  <2> QED
    BY Zenon, <2>1, OnceEmpty, EmptySet DEF ListInv, CasterInv, Sends
<1>2. CASE CloseSub
  <2>1. UNCHANGED <<list, handler, caster>> /\ (UNCHANGED toClose \/ (toClose # <<>> /\ toClose' = Tail(toClose)))
    BY Zenon, <1>2 DEF CloseSub
  <2>2. toClose \in Seq(Sub)
    BY Zenon DEF ControlInv, ServerType
  <2>3. \A x \in Range(toClose') : x \in Range(toClose)
    BY Zenon, <2>1, <2>2, HeadTailSet
  <2> QED
    BY Zenon, <2>1, <2>3 DEF ListInv, CasterInv, Sends
<1>3. CASE Exit
  <2>1. list' = <<>> /\ toClose' = <<>> /\ caster' = [c \in Caster |-> At(<<>>, MaxEvents[c])]
    BY Zenon, <1>3 DEF Exit
  <2>2. ASSUME NEW c \in Caster PROVE CasterInv(c)' /\ caster'[c].todo = <<>>
    <3>1. caster'[c] = At(<<>>, MaxEvents[c]) /\ MaxEvents[c] <= MaxEvents[c]
      <4>1. MaxEvents[c] <= MaxEvents[c]
        BY BoundsAssumption
      <4> QED
        BY Zenon, <2>1, <4>1
    <3>2. caster'[c].todo = <<>> /\ caster'[c].num = MaxEvents[c] /\ caster'[c].at = "idle"
      BY <3>1, AtFields
    <3> QED
      BY Zenon, <3>1, <3>2, OnceEmpty DEF CasterInv
  <2> QED
    BY Zenon, <2>1, <2>2, OnceEmpty, EmptySet DEF ListInv, Sends
<1> QED
  BY Zenon, <1>1, <1>2, <1>3

\* Every step keeps the lists in order.
LEMMA ListStep == ControlInv /\ ListInv /\ [Next]_vars => ListInv'
<1> SUFFICES ASSUME ControlInv, ListInv, [Next]_vars PROVE ListInv'
  BY Zenon
<1>1. CASE UNCHANGED vars
  <2>1. UNCHANGED <<list, toClose, caster, handler>>
    BY Zenon, <1>1 DEF vars, srvVars
  <2> QED
    BY Zenon, <2>1, ListKeeps
<1>2. CASE Next
  BY Zenon, <1>2, ListSends, ListHandles, ListCloses DEF Next
<1> QED
  BY Zenon, <1>1, <1>2

\* What is done with stays done with: the latest event of a caster only grows.
LEMMA LatestGrows ==
    ASSUME ControlInv, ListInv, [Next]_vars, NEW c \in Caster, NEW s \in Sub
    PROVE  Latest(c, s) \in Nat /\ Latest(c, s)' \in Nat /\ Latest(c, s) <= Latest(c, s)'
           /\ Latest(c, s)' <= MaxEvents[c]
<1> DEFINE q == caster[c].todo
           n == caster[c].num
<1>1. ListInv' /\ ControlInv'
  BY Zenon, ListStep, ControlInvStep
<1>2. /\ q \in Seq(Sub) /\ n \in Nat /\ n <= MaxEvents[c] /\ (q # <<>> => n > 0) /\ MaxEvents[c] \in Nat
      /\ (caster[c].at = "idle" <=> q = <<>>)
      /\ caster[c].at # "idle" => Range(q) = Range(Tail(q)) \cup {Head(q)}
  BY Zenon, SendingFacts
<1>3. /\ n' \in Nat /\ n' <= MaxEvents[c] /\ (q' # <<>> => n' > 0)
  <2>1. caster'[c] \in CasterRecord
    BY Zenon, <1>1 DEF ControlInv, ServerType
  <2>2. n' \in Nat
    BY Zenon, <2>1 DEF CasterRecord
  <2> QED
    BY Zenon, <1>1, <2>2 DEF ListInv, CasterInv
<1>4. \/ q' = q /\ n' = n
      \/ q = <<>> /\ n' = n + 1
      \/ Range(q') \subseteq Range(q) /\ n' = n
      \/ q' = <<>> /\ n' = MaxEvents[c]
  <2>0. caster \in [Caster -> CasterRecord]
    BY Zenon DEF ControlInv, ServerType
  <2>1. CASE UNCHANGED caster
    BY Zenon, <2>1
  <2>2. ASSUME NEW d \in Caster, Broadcast(d) \/ CasterStep(d)
        PROVE  \/ q' = q /\ n' = n
               \/ q = <<>> /\ n' = n + 1
               \/ Range(q') \subseteq Range(q) /\ n' = n
    <3>1. PICK r \in CasterRecord : caster' = [caster EXCEPT ![d] = r] /\ MovesTo(d, r)
      BY Zenon, <2>2, CasterActs
    <3>2. CASE d # c
      BY Zenon, <2>0, <3>1, <3>2
    <3>3. CASE d = c
      <4>1. caster'[c] = r /\ MovesTo(c, r)
        BY Zenon, <2>0, <3>1, <3>3
      <4>2. r = At(list, n + 1) => r.num = n + 1
        BY AtFields
      <4>3. r = At(Tail(q), n) => r.num = n /\ r.todo = Tail(q)
        BY AtFields
      <4> QED
        BY Zenon, <1>2, <4>1, <4>2, <4>3 DEF MovesTo
    <3> QED
      BY Zenon, <3>2, <3>3
  <2>3. CASE Exit
    <3>1. caster'[c] = At(<<>>, MaxEvents[c])
      BY Zenon, <2>3 DEF Exit
    <3> QED
      BY <3>1, AtFields
  <2>4. CASE \/ UNCHANGED vars \/ Close \/ CloseSub
             \/ \E x \in Sub : Connect(x) \/ HandlerStep(x) \/ ReaderStep(x) \/ Receive(x) \/ CloseClient(x)
    <3>1. UNCHANGED caster
      BY Zenon, <2>4 DEF vars, Close, CloseSub, HandlerStep, ReaderStep, ReadAck, ReadEvent, ReadFails, Receive,
         CloseClient, Connect, WriteAck, AddSub, Unblock, srvVars
    <3> QED
      BY Zenon, <2>1, <3>1
  <2> QED
    BY Zenon, <2>2, <2>3, <2>4 DEF Next
<1>5. (s \in Range(q) => n > 0) /\ (s \in Range(q') => n' > 0)
  <2>1. s \in Range(q) => q # <<>>
    BY Zenon, EmptySet
  <2>2. s \in Range(q') => q' # <<>>
    BY Zenon, EmptySet
  <2> QED
    BY Zenon, <1>2, <1>3, <2>1, <2>2
<1>6. /\ Latest(c, s) = IF s \in Range(q) THEN n - 1 ELSE n
      /\ Latest(c, s)' = IF s \in Range(q') THEN n' - 1 ELSE n'
  BY Zenon DEF Latest, Sends
<1>7. s \in Range(q') /\ (q' = q \/ Range(q') \subseteq Range(q)) => s \in Range(q)
  BY Zenon
<1>8. (q = <<>> => s \notin Range(q)) /\ (q' = <<>> => s \notin Range(q'))
  BY Zenon, EmptySet
<1> DEFINE A == s \in Range(q)
           B == s \in Range(q')
           m == n'
<1>9. /\ n \in Nat /\ m \in Nat /\ MaxEvents[c] \in Nat /\ m <= MaxEvents[c] /\ n <= MaxEvents[c]
      /\ (A => n > 0) /\ (B => m > 0)
      /\ \/ m = n /\ (B => A)
         \/ ~ A /\ m = n + 1
         \/ ~ B /\ m = MaxEvents[c]
      /\ Latest(c, s) = (IF A THEN n - 1 ELSE n) /\ Latest(c, s)' = (IF B THEN m - 1 ELSE m)
  BY Zenon, <1>2, <1>3, <1>4, <1>5, <1>6, <1>7, <1>8
<1> HIDE DEF q, n, m, A, B
<1> QED
  BY <1>9

-----------------------------------------------------------------------------
(***************************************************************************)
(* What a step does to one subscription.                                   *)
(***************************************************************************)

\* The types of the connections and the clients.
FeedType ==
    /\ cliEnd \in [Sub -> BOOLEAN] /\ told \in [Sub -> BOOLEAN]
    /\ wire \in [Sub -> Seq(Frame)] /\ chan \in [Sub -> Seq(Event)]
    /\ got \in [Sub -> [Caster -> Nat]]

Stays(s) ==
    UNCHANGED <<wire[s], chan[s], got[s], told[s], reader[s], handler[s], cliEnd[s], srvEnd[s]>>

Connects(s) ==
    /\ reader[s] = "none" /\ reader'[s] = "asked" /\ handler'[s] = "ack"
    /\ srvEnd'[s] = TRUE /\ cliEnd'[s] = TRUE
    /\ UNCHANGED <<wire[s], chan[s], got[s], told[s]>>

Acks(s) ==
    /\ handler[s] = "ack" /\ cliEnd[s]
    /\ handler'[s] = "add" /\ wire'[s] = Append(wire[s], Ack)
    /\ UNCHANGED <<chan[s], got[s], told[s], reader[s], cliEnd[s], srvEnd[s]>>

Joins(s) ==
    /\ handler[s] = "add" /\ handler'[s] = "block"
    /\ UNCHANGED <<wire[s], chan[s], got[s], told[s], reader[s], cliEnd[s], srvEnd[s]>>

Returns(s) ==
    /\ handler[s] \in {"ack", "block"} /\ ~ (srvEnd[s] /\ cliEnd[s])
    /\ handler'[s] = "gone" /\ srvEnd'[s] = FALSE
    /\ UNCHANGED <<wire[s], chan[s], got[s], told[s], reader[s], cliEnd[s]>>

SentBy(c, s) ==
    /\ srvEnd[s] /\ cliEnd[s] /\ ~ Full(s) /\ Sends(c, s) /\ ~ Sends(c, s)'
    /\ caster'[c].num = caster[c].num
    /\ wire'[s] = Append(wire[s], <<c, caster[c].num>>)
    /\ UNCHANGED <<chan[s], got[s], told[s], reader[s], handler[s], cliEnd[s], srvEnd[s]>>

TornBy(c, s) ==
    /\ srvEnd[s] /\ cliEnd[s] /\ Full(s) /\ Sends(c, s) /\ Torn \notin Range(wire[s])
    /\ wire'[s] = Append(wire[s], Torn)
    /\ UNCHANGED <<chan[s], got[s], told[s], reader[s], handler[s], cliEnd[s], srvEnd[s]>>

Shuts(s) ==
    /\ srvEnd'[s] = FALSE
    /\ \/ UNCHANGED handler[s]
       \/ handler'[s] = IF handler[s] = "none" THEN "none" ELSE "gone"
    /\ UNCHANGED <<wire[s], chan[s], got[s], told[s], reader[s], cliEnd[s]>>

ReadsAck(s) ==
    /\ reader[s] = "asked" /\ reader'[s] = "reading"
    /\ wire[s] # <<>> /\ Head(wire[s]) = Ack /\ wire'[s] = Tail(wire[s])
    /\ UNCHANGED <<chan[s], got[s], told[s], handler[s], cliEnd[s], srvEnd[s]>>

ReadsEvent(s) ==
    /\ reader[s] = "reading"
    /\ wire[s] # <<>> /\ Head(wire[s]) \in Event /\ wire'[s] = Tail(wire[s])
    /\ chan'[s] = IF Len(chan[s]) < ChanCap THEN Append(chan[s], Head(wire[s])) ELSE chan[s]
    /\ UNCHANGED <<got[s], told[s], reader[s], handler[s], cliEnd[s], srvEnd[s]>>

Stops(s) ==
    /\ reader[s] \in {"asked", "reading"} /\ reader'[s] = "stopped"
    /\ \/ wire[s] = <<>> /\ ~ srvEnd[s]
       \/ wire[s] # <<>> /\ Head(wire[s]) = Torn
    /\ UNCHANGED <<wire[s], chan[s], got[s], told[s], handler[s], cliEnd[s], srvEnd[s]>>

Takes(s) ==
    /\ ~ told[s] /\ chan[s] # <<>>
    /\ got'[s] = [got[s] EXCEPT ![Head(chan[s])[1]] = Head(chan[s])[2]]
    /\ chan'[s] = Tail(chan[s])
    /\ UNCHANGED <<wire[s], told[s], reader[s], handler[s], cliEnd[s], srvEnd[s]>>

FindsEnd(s) ==
    /\ ~ told[s] /\ chan[s] = <<>> /\ reader[s] = "stopped" /\ told'[s] = TRUE
    /\ UNCHANGED <<wire[s], chan[s], got[s], reader[s], handler[s], cliEnd[s], srvEnd[s]>>

Leaves(s) ==
    /\ cliEnd[s] /\ cliEnd'[s] = FALSE /\ reader'[s] = "gone"
    /\ wire'[s] = <<>> /\ chan'[s] = <<>>
    /\ UNCHANGED <<got[s], told[s], handler[s], srvEnd[s]>>

ServerEffect(s) ==
    \/ Connects(s) \/ Acks(s) \/ Joins(s) \/ Returns(s) \/ Shuts(s)
    \/ \E c \in Caster : SentBy(c, s) \/ TornBy(c, s)

ClientEffect(s) ==
    ReadsAck(s) \/ ReadsEvent(s) \/ Stops(s) \/ Takes(s) \/ FindsEnd(s) \/ Leaves(s)

\* The types as a step needs them.
LEMMA AllTypes ==
    ASSUME ControlInv, FeedType
    PROVE  /\ cliEnd \in [Sub -> BOOLEAN] /\ told \in [Sub -> BOOLEAN]
           /\ wire \in [Sub -> Seq(Frame)] /\ chan \in [Sub -> Seq(Event)]
           /\ got \in [Sub -> [Caster -> Nat]]
           /\ handler \in [Sub -> {"none", "ack", "add", "block", "gone"}]
           /\ srvEnd \in [Sub -> BOOLEAN]
           /\ reader \in [Sub -> {"none", "asked", "reading", "stopped", "gone"}]
BY Zenon DEF FeedType, ControlInv, ServerType

\* The connection's goroutine in the daemon.
LEMMA HandlerEffect ==
    ASSUME ControlInv, FeedType, NEW s \in Sub, NEW x \in Sub, Connect(x) \/ HandlerStep(x)
    PROVE  Stays(s) \/ ServerEffect(s)
<1>0. /\ handler \in [Sub -> {"none", "ack", "add", "block", "gone"}] /\ srvEnd \in [Sub -> BOOLEAN]
      /\ reader \in [Sub -> {"none", "asked", "reading", "stopped", "gone"}]
      /\ wire \in [Sub -> Seq(Frame)] /\ cliEnd \in [Sub -> BOOLEAN]
  BY Zenon, AllTypes
<1>1. CASE x # s
  <2>1. CASE Connect(x)
    BY Zenon, <1>0, <1>1, <2>1 DEF Connect, Stays
  <2>2. CASE WriteAck(x)
    BY Zenon, <1>0, <1>1, <2>2 DEF WriteAck, HandlerReturns, cliVars, Stays
  <2>3. CASE AddSub(x) \/ Unblock(x)
    BY Zenon, <1>0, <1>1, <2>3 DEF AddSub, Unblock, HandlerReturns, conVars, cliVars, Stays
  <2> QED
    BY Zenon, <2>1, <2>2, <2>3 DEF HandlerStep
<1>2. CASE x = s
  <2>1. CASE Connect(s)
    <3>1. Connects(s)
      BY Zenon, <1>0, <2>1 DEF Connect, Connects
    <3> QED
      BY Zenon, <3>1 DEF ServerEffect
  <2>2. CASE WriteAck(s)
    <3>1. Acks(s) \/ Returns(s)
      BY Zenon, <1>0, <2>2 DEF WriteAck, HandlerReturns, cliVars, Acks, Returns
    <3> QED
      BY Zenon, <3>1 DEF ServerEffect
  <2>3. CASE AddSub(s)
    <3>1. Joins(s)
      BY Zenon, <1>0, <2>3 DEF AddSub, conVars, cliVars, Joins
    <3> QED
      BY Zenon, <3>1 DEF ServerEffect
  <2>4. CASE Unblock(s)
    <3>1. Returns(s)
      BY Zenon, <1>0, <2>4 DEF Unblock, HandlerReturns, cliVars, Returns
    <3> QED
      BY Zenon, <3>1 DEF ServerEffect
  <2> QED
    BY Zenon, <1>2, <2>1, <2>2, <2>3, <2>4 DEF HandlerStep
<1> QED
  BY Zenon, <1>1, <1>2

\* The client.
LEMMA ReaderEffect ==
    ASSUME ControlInv, FeedType, NEW s \in Sub, NEW x \in Sub,
           ReaderStep(x) \/ Receive(x) \/ CloseClient(x)
    PROVE  Stays(s) \/ ClientEffect(s)
<1>0. /\ reader \in [Sub -> {"none", "asked", "reading", "stopped", "gone"}]
      /\ wire \in [Sub -> Seq(Frame)] /\ chan \in [Sub -> Seq(Event)]
      /\ cliEnd \in [Sub -> BOOLEAN] /\ told \in [Sub -> BOOLEAN] /\ got \in [Sub -> [Caster -> Nat]]
  BY Zenon, AllTypes
<1>1. CASE x # s
  <2>1. CASE ReadAck(x)
    BY Zenon, <1>0, <1>1, <2>1 DEF ReadAck, srvVars, Stays
  <2>2. CASE ReadEvent(x)
    BY Zenon, <1>0, <1>1, <2>2 DEF ReadEvent, srvVars, Stays
  <2>3. CASE ReadFails(x)
    BY Zenon, <1>0, <1>1, <2>3 DEF ReadFails, srvVars, conVars, Stays
  <2>4. CASE Receive(x)
    <3>1. chan'[s] = chan[s] /\ told'[s] = told[s] /\ got'[s] = got[s]
      BY Zenon, <1>0, <1>1, <2>4 DEF Receive
    <3> QED
      BY Zenon, <2>4, <3>1 DEF Receive, srvVars, conVars, Stays
  <2>5. CASE CloseClient(x)
    BY Zenon, <1>0, <1>1, <2>5 DEF CloseClient, srvVars, Stays
  <2> QED
    BY Zenon, <2>1, <2>2, <2>3, <2>4, <2>5 DEF ReaderStep
<1>2. CASE x = s
  <2>1. CASE ReadAck(s)
    BY Zenon, <1>0, <2>1 DEF ReadAck, srvVars, ReadsAck, ClientEffect
  <2>2. CASE ReadEvent(s)
    <3>1. ReadsEvent(s)
      BY Zenon, <1>0, <2>2 DEF ReadEvent, srvVars, ReadsEvent
    <3> QED
      BY Zenon, <3>1 DEF ClientEffect
  <2>3. CASE ReadFails(s)
    <3>1. Stops(s)
      BY Zenon, <1>0, <2>3 DEF ReadFails, srvVars, conVars, Stops
    <3> QED
      BY Zenon, <3>1 DEF ClientEffect
  <2>4. CASE Receive(s)
    <3>0. UNCHANGED <<wire[s], reader[s], handler[s], cliEnd[s], srvEnd[s]>> /\ ~ told[s]
      BY Zenon, <2>4 DEF Receive, srvVars, conVars
    <3>1. CASE chan[s] # <<>>
      <4>1. /\ got' = [got EXCEPT ![s][Head(chan[s])[1]] = Head(chan[s])[2]]
            /\ chan' = [chan EXCEPT ![s] = Tail(@)] /\ UNCHANGED told
        BY Zenon, <2>4, <3>1 DEF Receive
      <4>2. got'[s] = [got[s] EXCEPT ![Head(chan[s])[1]] = Head(chan[s])[2]] /\ chan'[s] = Tail(chan[s])
        BY Zenon, <1>0, <4>1
      <4> QED
        BY Zenon, <3>0, <3>1, <4>1, <4>2 DEF Takes, ClientEffect
    <3>2. CASE chan[s] = <<>>
      <4>1. reader[s] = "stopped" /\ told' = [told EXCEPT ![s] = TRUE] /\ UNCHANGED <<chan, got>>
        BY Zenon, <2>4, <3>2 DEF Receive
      <4> QED
        BY Zenon, <1>0, <3>0, <3>2, <4>1 DEF FindsEnd, ClientEffect
    <3> QED
      BY Zenon, <3>1, <3>2
  <2>5. CASE CloseClient(s)
    BY Zenon, <1>0, <2>5 DEF CloseClient, srvVars, Leaves, ClientEffect
  <2> QED
    BY Zenon, <1>2, <2>1, <2>2, <2>3, <2>4, <2>5 DEF ReaderStep
<1> QED
  BY Zenon, <1>1, <1>2

\* subscriber.close, for this subscription or for another.
LEMMA CloseEffect ==
    ASSUME ControlInv, NEW s \in Sub, NEW x \in Sub, closeSub(x),
           UNCHANGED <<wire, chan, got, told, reader, handler, cliEnd>>
    PROVE  Stays(s) \/ ServerEffect(s)
<1>1. ~ srvEnd'[x] /\ srvEnd' \in [Sub -> BOOLEAN] /\ (s # x => srvEnd'[s] = srvEnd[s])
  BY Zenon, CloseSubShuts
<1>2. CASE s = x
  <2>1. srvEnd'[s] = FALSE
    BY Zenon, <1>1, <1>2
  <2> QED
    BY Zenon, <2>1 DEF Shuts, ServerEffect
<1>3. CASE s # x
  BY Zenon, <1>1, <1>3 DEF Stays
<1> QED
  BY Zenon, <1>2, <1>3

\* A caster.
LEMMA SenderEffect ==
    ASSUME ControlInv, ListInv, FeedType, NEW s \in Sub, NEW c \in Caster, Broadcast(c) \/ CasterStep(c)
    PROVE  Stays(s) \/ ServerEffect(s)
<1> DEFINE q == caster[c].todo
           n == caster[c].num
           x == Head(q)
<1>0. wire \in [Sub -> Seq(Frame)] /\ caster \in [Caster -> CasterRecord]
  BY Zenon, AllTypes DEF ControlInv, ServerType
<1>1. CASE Broadcast(c) \/ SendLock(c) \/ DropRemove(c)
  BY Zenon, <1>1 DEF Broadcast, SendLock, DropRemove, conVars, cliVars, Stays
<1>2. CASE DropClose(c)
  <2>1. closeSub(x) /\ x \in Sub
    BY Zenon, <1>2, SendingFacts DEF DropClose
  <2>2. UNCHANGED <<wire, chan, got, told, reader, handler, cliEnd>>
    BY Zenon, <1>2 DEF DropClose, cliVars
  <2> QED
    BY Zenon, <2>1, <2>2, CloseEffect
<1>3. CASE SendWrite(c)
  <2>1. UNCHANGED <<chan, got, told, reader, handler, cliEnd, srvEnd>> /\ caster[c].at = "write"
    BY Zenon, <1>3 DEF SendWrite, cliVars
  <2>2. /\ q # <<>> /\ x \in Sub /\ q \in Seq(Sub)
        /\ Range(q) = Range(Tail(q)) \cup {x} /\ x \notin Range(Tail(q))
    BY Zenon, <2>1, SendingFacts
  <2>3. CASE UNCHANGED wire
    BY Zenon, <2>1, <2>3 DEF Stays
  <2>4. CASE /\ srvEnd[x] /\ cliEnd[x] /\ ~ Full(x)
             /\ wire' = [wire EXCEPT ![x] = Append(@, <<c, n>>)]
             /\ caster' = NextSub(c)
    <3>1. CASE s # x
      BY Zenon, <1>0, <2>1, <2>2, <2>4, <3>1 DEF Stays
    <3>2. CASE s = x
      <4>1. wire'[s] = Append(wire[s], <<c, n>>)
        BY Zenon, <1>0, <2>2, <2>4, <3>2
      <4>2. caster'[c] = At(Tail(q), n)
        BY Zenon, <1>0, <2>4 DEF NextSub
      <4>3. caster'[c].todo = Tail(q) /\ caster'[c].num = n
        <5>1. \A t : caster'[c] = At(t, n) => caster'[c].todo = t /\ caster'[c].num = n
          BY AtFields
        <5> QED
          BY Zenon, <4>2, <5>1
      <4>4. Sends(c, s) /\ ~ Sends(c, s)'
        BY Zenon, <2>2, <3>2, <4>3 DEF Sends
      <4>5. SentBy(c, s)
        BY ZenonT(40), <2>1, <2>4, <3>2, <4>1, <4>3, <4>4 DEF SentBy
      <4> QED
        BY Zenon, <4>5 DEF ServerEffect
    <3> QED
      BY Zenon, <3>1, <3>2
  <2>5. CASE /\ srvEnd[x] /\ cliEnd[x] /\ Full(x) /\ Torn \notin Range(wire[x])
             /\ wire' = [wire EXCEPT ![x] = Append(@, Torn)]
    <3>1. CASE s # x
      BY Zenon, <1>0, <2>1, <2>2, <2>5, <3>1 DEF Stays
    <3>2. CASE s = x
      <4>1. wire'[s] = Append(wire[s], Torn)
        BY Zenon, <1>0, <2>2, <2>5, <3>2
      <4>2. TornBy(c, s)
        BY Zenon, <2>1, <2>2, <2>5, <3>2, <4>1 DEF TornBy, Sends
      <4> QED
        BY Zenon, <4>2 DEF ServerEffect
    <3> QED
      BY Zenon, <3>1, <3>2
  <2> QED
    BY Zenon, <1>3, <2>3, <2>4, <2>5 DEF SendWrite
<1> QED
  BY Zenon, <1>1, <1>2, <1>3 DEF CasterStep

\* What a step can do to a subscription.
LEMMA Effects ==
    ASSUME ControlInv, ListInv, FeedType, NEW s \in Sub, [Next]_vars
    PROVE  Stays(s) \/ ServerEffect(s) \/ ClientEffect(s)
<1>1. CASE UNCHANGED vars \/ Close
  BY Zenon, <1>1 DEF vars, srvVars, cliVars, conVars, Close, Stays
<1>2. CASE CloseSub
  <2>1. UNCHANGED <<wire, chan, got, told, reader, handler, cliEnd>>
    BY Zenon, <1>2 DEF CloseSub, cliVars
  <2>2. CASE toClose = <<>>
    BY Zenon, <1>2, <2>1, <2>2 DEF CloseSub, Stays
  <2>3. CASE toClose # <<>>
    <3>1. closeSub(Head(toClose)) /\ Head(toClose) \in Sub
      BY Zenon, <1>2, <2>3, HeadTailSet DEF CloseSub, ControlInv, ServerType
    <3> QED
      BY Zenon, <2>1, <3>1, CloseEffect
  <2> QED
    BY Zenon, <2>2, <2>3
<1>3. CASE Exit
  <2>1. /\ srvEnd'[s] = FALSE /\ handler'[s] = (IF handler[s] = "none" THEN "none" ELSE "gone")
        /\ UNCHANGED <<wire, chan, got, told, reader, cliEnd>>
    BY Zenon, <1>3 DEF Exit, cliVars
  <2> QED
    BY Zenon, <2>1 DEF Shuts, ServerEffect
<1>4. CASE Next
  BY Zenon, <1>2, <1>1, <1>3, <1>4, SenderEffect, HandlerEffect, ReaderEffect DEF Next
<1> QED
  BY Zenon, <1>1, <1>4

\* The frames fit in the socket, and a torn one at its end.
Fits(w) ==
    /\ Frames(w) /\ Len(w) <= SockCap + 1
    /\ Torn \notin Range(w) => Len(w) <= SockCap

\* The two ends of a connection, and what is between them.
Link(s) ==
    /\ Fits(wire[s]) /\ Len(chan[s]) <= ChanCap
    /\ handler[s] = "none" <=> reader[s] = "none"
    /\ handler[s] \in {"none", "ack"} => wire[s] = <<>>
    /\ handler[s] = "gone" => ~ srvEnd[s]
    /\ ~ cliEnd[s] => wire[s] = <<>> /\ chan[s] = <<>> /\ reader[s] \in {"none", "gone"}
    /\ reader[s] \in {"none", "gone"} => ~ cliEnd[s]
    /\ told[s] => chan[s] = <<>> /\ reader[s] \in {"stopped", "gone"}

\* An empty socket, and one with the acknowledgement.
LEMMA FitsFirst == Fits(<<>>) /\ Fits(Append(<<>>, Ack)) /\ Torn \notin Range(Append(<<>>, Ack))
<1>1. SockCap \in Nat /\ SockCap >= 1
  BY BoundsAssumption
<1>2. Fits(<<>>)
  <2>1. 0 <= SockCap /\ 0 <= SockCap + 1
    BY <1>1
  <2> QED
    BY Zenon, <2>1, IntactEmpty DEF Fits
<1>3. Frames(Append(<<>>, Ack)) /\ Torn \notin Range(Append(<<>>, Ack))
  BY Zenon, IntactEmpty, FramesAppend, FrameKinds DEF Frame
<1>4. Len(Append(<<>>, Ack)) <= SockCap /\ Len(Append(<<>>, Ack)) <= SockCap + 1
  BY <1>1
<1> QED
  BY Zenon, <1>2, <1>3, <1>4 DEF Fits

\* An event is written where there is room.
LEMMA FitsEvent ==
    ASSUME NEW w, Fits(w), NEW e \in Event, ~ (Len(w) >= SockCap + (IF Torn \in Range(w) THEN 1 ELSE 0))
    PROVE  Fits(Append(w, e)) /\ (Torn \in Range(Append(w, e)) <=> Torn \in Range(w))
<1>1. SockCap \in Nat /\ w \in Seq(Frame) /\ Len(w) \in Nat
  BY BoundsAssumption DEF Fits, Frames
<1>2. e \in Frame /\ e # Ack /\ e # Torn
  BY Zenon, FrameKinds DEF Frame
<1>3. Frames(Append(w, e)) /\ (Torn \in Range(Append(w, e)) <=> Torn \in Range(w))
  BY Zenon, <1>2, FramesAppend DEF Fits
<1>4. Len(Append(w, e)) = Len(w) + 1
  BY <1>1, <1>2
<1>5. Len(w) + 1 <= SockCap + 1 /\ (Torn \notin Range(w) => Len(w) + 1 <= SockCap)
  BY <1>1
<1> QED
  BY Zenon, <1>3, <1>4, <1>5 DEF Fits

\* The write deadline leaves a torn frame behind a full socket.
LEMMA FitsTorn ==
    ASSUME NEW w, Fits(w), Torn \notin Range(w)
    PROVE  Fits(Append(w, Torn)) /\ Torn \in Range(Append(w, Torn))
<1>1. SockCap \in Nat /\ w \in Seq(Frame) /\ Len(w) \in Nat /\ Len(w) <= SockCap
  BY BoundsAssumption DEF Fits, Frames
<1>2. Torn \in Frame /\ Ack # Torn
  BY Zenon, FrameKinds DEF Frame
<1>3. \A x : x = Torn => Frames(Append(w, x)) /\ (Torn \in Range(Append(w, x)) <=> Torn \in Range(w) \/ x = Torn)
  BY Zenon, <1>2, FramesAppend DEF Fits
<1>4. Len(Append(w, Torn)) = Len(w) + 1
  BY <1>1, <1>2
<1>5. Len(w) + 1 <= SockCap + 1
  BY <1>1
<1> QED
  BY Zenon, <1>3, <1>4, <1>5 DEF Fits

\* A frame is read.
LEMMA FitsTail ==
    ASSUME NEW w, Fits(w), w # <<>>, Head(w) # Torn
    PROVE  Fits(Tail(w)) /\ (Torn \in Range(Tail(w)) <=> Torn \in Range(w))
<1>1. SockCap \in Nat /\ w \in Seq(Frame) /\ Len(w) \in Nat
  BY BoundsAssumption DEF Fits, Frames
<1>2. Frames(Tail(w)) /\ (Torn \in Range(Tail(w)) <=> Torn \in Range(w))
  BY Zenon, FramesTail DEF Fits
<1>3. Len(Tail(w)) = Len(w) - 1
  BY <1>1
<1>4. /\ Len(w) <= SockCap + 1 => Len(w) - 1 <= SockCap + 1
      /\ Len(w) <= SockCap => Len(w) - 1 <= SockCap
  BY <1>1
<1> QED
  BY Zenon, <1>2, <1>3, <1>4 DEF Fits

\* What a caster that is sending tells of its subscriber.
LEMMA SendingTo ==
    ASSUME ControlInv, ListInv, NEW c \in Caster, NEW s \in Sub, Sends(c, s)
    PROVE  /\ handler[s] \notin Unlisted
           /\ <<c, caster[c].num>> \in Event /\ caster[c].num \in Nat /\ caster[c].num >= 1
<1>1. caster[c].num \in Nat /\ caster[c].num <= MaxEvents[c] /\ (caster[c].todo # <<>> => caster[c].num > 0)
  BY Zenon, SendingFacts
<1>2. caster[c].todo # <<>>
  BY Zenon, EmptySet DEF Sends
<1>3. caster[c].num >= 1
  BY <1>1, <1>2
<1>4. handler[s] \notin Unlisted
  BY Zenon DEF ListInv
<1> QED
  BY Zenon, <1>1, <1>3, <1>4, FrameKinds

\* The daemon keeps the link in order.
LEMMA LinkServes ==
    ASSUME ControlInv, ListInv, FeedType, NEW s \in Sub, Link(s), ServerEffect(s)
    PROVE  Link(s)'
<1>0. /\ handler[s] \in {"none", "ack", "add", "block", "gone"}
      /\ reader[s] \in {"none", "asked", "reading", "stopped", "gone"}
  BY Zenon, AllTypes
<1>1. CASE Connects(s)
  <2>1. ~ cliEnd[s] /\ handler[s] = "none" /\ ~ told[s] /\ wire[s] = <<>> /\ chan[s] = <<>>
    BY Zenon, <1>1 DEF Connects, Link
  <2> QED
    BY Zenon, <1>1, <2>1, FitsFirst DEF Connects, Link
<1>2. CASE Acks(s)
  <2>1. wire[s] = <<>> /\ wire'[s] = Append(<<>>, Ack)
    BY Zenon, <1>2 DEF Acks, Link
  <2>2. Fits(wire'[s])
    BY Zenon, <2>1, FitsFirst
  <2> QED
    BY Zenon, <1>2, <2>2 DEF Acks, Link
<1>3. CASE Joins(s)
  BY Zenon, <1>3 DEF Joins, Link
<1>4. CASE Returns(s)
  BY Zenon, <1>4 DEF Returns, Link
<1>5. CASE Shuts(s)
  BY Zenon, <1>0, <1>5 DEF Shuts, Link
<1>6. ASSUME NEW c \in Caster, SentBy(c, s) \/ TornBy(c, s) PROVE Link(s)'
  <2>1. handler[s] \notin Unlisted /\ <<c, caster[c].num>> \in Event
    BY Zenon, <1>6, SendingTo DEF SentBy, TornBy
  <2>2. Fits(wire'[s])
    <3>1. CASE SentBy(c, s)
      <4>1. /\ Fits(wire[s]) /\ wire'[s] = Append(wire[s], <<c, caster[c].num>>)
            /\ ~ (Len(wire[s]) >= SockCap + (IF Torn \in Range(wire[s]) THEN 1 ELSE 0))
        BY Zenon, <3>1 DEF SentBy, Full, Link
      <4>2. Fits(Append(wire[s], <<c, caster[c].num>>))
        BY Zenon, <2>1, <4>1, FitsEvent
      <4> QED
        BY Zenon, <4>1, <4>2
    <3>2. CASE TornBy(c, s)
      BY Zenon, <3>2, FitsTorn DEF TornBy, Link
    <3> QED
      BY Zenon, <1>6, <3>1, <3>2
  <2>3. cliEnd[s] /\ UNCHANGED <<chan[s], told[s], reader[s], handler[s], cliEnd[s], srvEnd[s]>>
    BY Zenon, <1>6 DEF SentBy, TornBy
  <2>4. handler'[s] \notin {"none", "ack"}
    BY Zenon, <2>1, <2>3 DEF Unlisted
  <2> QED
    BY Zenon, <2>2, <2>3, <2>4 DEF Link
<1> QED
  BY Zenon, <1>1, <1>2, <1>3, <1>4, <1>5, <1>6 DEF ServerEffect

\* So does the client.
LEMMA LinkReads ==
    ASSUME ControlInv, ListInv, FeedType, NEW s \in Sub, Link(s), ClientEffect(s)
    PROVE  Link(s)'
<1>0. /\ handler[s] \in {"none", "ack", "add", "block", "gone"}
      /\ reader[s] \in {"none", "asked", "reading", "stopped", "gone"}
      /\ chan[s] \in Seq(Event) /\ ChanCap \in Nat
  BY Zenon, AllTypes, BoundsAssumption
<1>1. CASE ReadsAck(s) \/ ReadsEvent(s)
  <2>1. wire[s] # <<>> /\ Head(wire[s]) # Torn /\ wire'[s] = Tail(wire[s])
    BY Zenon, <1>1, FrameKinds DEF ReadsAck, ReadsEvent
  <2>2. Fits(wire'[s])
    BY Zenon, <2>1, FitsTail DEF Link
  <2>3. CASE ReadsAck(s)
    BY Zenon, <2>2, <2>3 DEF ReadsAck, Link
  <2>4. CASE ReadsEvent(s)
    <3>1. Len(chan'[s]) <= ChanCap
      <4>1. CASE Len(chan[s]) < ChanCap
        <5>1. Len(Append(chan[s], Head(wire[s]))) = Len(chan[s]) + 1 /\ Len(chan[s]) + 1 <= ChanCap
          BY <1>0, <4>1
        <5> QED
          BY Zenon, <2>4, <4>1, <5>1 DEF ReadsEvent
      <4> QED
        BY Zenon, <2>4, <4>1 DEF ReadsEvent, Link
    <3>2. ~ told[s]
      BY Zenon, <2>4 DEF ReadsEvent, Link
    <3> QED
      BY Zenon, <2>2, <2>4, <3>1, <3>2 DEF ReadsEvent, Link
  <2> QED
    BY Zenon, <1>1, <2>3, <2>4
<1>2. CASE Stops(s)
  BY Zenon, <1>2 DEF Stops, Link
<1>3. CASE Takes(s)
  <2>1. Len(chan'[s]) <= ChanCap
    <3>1. \A q \in Seq(Event) : q # <<>> /\ Len(q) <= ChanCap => Len(Tail(q)) <= ChanCap
      BY <1>0
    <3> QED
      BY Zenon, <1>0, <1>3, <3>1 DEF Takes, Link
  <2> QED
    BY Zenon, <1>3, <2>1 DEF Takes, Link
<1>4. CASE FindsEnd(s)
  BY Zenon, <1>4 DEF FindsEnd, Link
<1>5. CASE Leaves(s)
  <2>1. Len(<<>>) <= ChanCap /\ handler[s] # "none"
    BY <1>0, <1>5 DEF Leaves, Link
  <2> QED
    BY Zenon, <1>5, <2>1, FitsFirst DEF Leaves, Link
<1> QED
  BY Zenon, <1>1, <1>2, <1>3, <1>4, <1>5 DEF ClientEffect

\* Every step keeps every link in order.
LEMMA LinkStep ==
    ASSUME ControlInv, ListInv, FeedType, NEW s \in Sub, Link(s), [Next]_vars
    PROVE  Link(s)'
<1>1. ASSUME Stays(s) PROVE Link(s)'
  BY Zenon, <1>1 DEF Stays, Link
<1> QED
  BY Zenon, <1>1, Effects, LinkServes, LinkReads

-----------------------------------------------------------------------------
(***************************************************************************)
(* The order of a caster's events.                                         *)
(***************************************************************************)

\* The events of c in q are newer than lo, at most hi, and in order.
InOrder(q, c, lo, hi) ==
    /\ \A i \in 1..Len(q) : q[i][1] = c => lo < q[i][2] /\ q[i][2] <= hi
    /\ \A i, j \in 1..Len(q) : i < j /\ q[i][1] = c /\ q[j][1] = c => q[i][2] < q[j][2]

\* What the consumer may still get, if the reader does not stop.
Pending(s) == chan[s] \o Intact(wire[s])

Order(s, c) ==
    /\ got[s][c] <= Latest(c, s)
    /\ InOrder(Pending(s), c, got[s][c], Latest(c, s))

\* The number of an event in a queue is a natural number.
LEMMA EventNumber ==
    ASSUME NEW q \in Seq(Event)
    PROVE  \A i \in 1..Len(q) : q[i] \in Event /\ q[i][2] \in Nat
<1>1. \A i \in 1..Len(q) : q[i] \in Event
  OBVIOUS
<1> QED
  BY Zenon, <1>1, FrameKinds

\* Nothing is in order.
LEMMA InOrderEmpty ==
    ASSUME NEW c, NEW lo, NEW hi
    PROVE  InOrder(<<>>, c, lo, hi)
<1>1. Len(<<>>) = 0 /\ \A i \in 1..0 : FALSE
  OBVIOUS
<1> QED
  BY Zenon, <1>1 DEF InOrder

\* A caster has gone on.
LEMMA InOrderGrows ==
    ASSUME NEW q \in Seq(Event), NEW c, NEW lo, NEW hi \in Nat, NEW up \in Nat, hi <= up, InOrder(q, c, lo, hi)
    PROVE  InOrder(q, c, lo, up)
<1>1. \A n \in Nat : n <= hi => n <= up
  OBVIOUS
<1> QED
  BY Zenon, <1>1, EventNumber DEF InOrder

\* An event is added, newer than what its caster has done with.
LEMMA InOrderAppend ==
    ASSUME NEW q \in Seq(Event), NEW c, NEW lo \in Nat, NEW hi \in Nat, NEW up \in Nat, NEW e \in Event,
           lo <= hi, hi <= up, InOrder(q, c, lo, hi), e[1] = c => hi < e[2] /\ e[2] <= up
    PROVE  InOrder(Append(q, e), c, lo, up)
<1> DEFINE r == Append(q, e)
           n == Len(q)
<1>1. /\ n \in Nat /\ Len(r) = n + 1 /\ r[n + 1] = e /\ \A i \in 1..n : r[i] = q[i]
      /\ \A i \in 1..(n + 1) : i \in 1..n \/ i = n + 1
      /\ \A i \in 1..n : ~ (n + 1 < i) /\ ~ (n + 1 < n + 1)
  OBVIOUS
<1>2. e[2] \in Nat
  BY Zenon, FrameKinds
<1> HIDE DEF r, n
<1>3. e[1] = c => lo < e[2] /\ e[2] <= up /\ \A m \in Nat : m <= hi => m < e[2]
  BY <1>2
<1>4. \A m \in Nat : m <= hi => m <= up
  OBVIOUS
<1>5. \A i \in 1..n : q[i][2] \in Nat
  BY Zenon, EventNumber DEF n
<1>6. /\ \A i \in 1..n : q[i][1] = c => lo < q[i][2] /\ q[i][2] <= hi
      /\ \A i, j \in 1..n : i < j /\ q[i][1] = c /\ q[j][1] = c => q[i][2] < q[j][2]
  BY Zenon DEF InOrder, n
<1>7. \A i \in 1..(n + 1) : r[i][1] = c => lo < r[i][2] /\ r[i][2] <= up
  BY Zenon, <1>1, <1>3, <1>4, <1>5, <1>6
<1>8. ASSUME NEW i \in 1..(n + 1), NEW j \in 1..(n + 1), i < j, r[i][1] = c, r[j][1] = c
      PROVE  r[i][2] < r[j][2]
  <2>1. i # n + 1
    BY <1>1, <1>8
  <2>2. i \in 1..n /\ r[i] = q[i]
    BY Zenon, <1>1, <2>1
  <2>3. CASE j = n + 1
    BY ZenonT(40), <1>1, <1>3, <1>5, <1>6, <1>8, <2>2, <2>3
  <2>4. CASE j # n + 1
    BY Zenon, <1>1, <1>6, <1>8, <2>2, <2>4
  <2> QED
    BY Zenon, <2>3, <2>4
<1>9. InOrder(r, c, lo, up)
  BY Zenon, <1>1, <1>7, <1>8 DEF InOrder
<1> QED
  BY Zenon, <1>9 DEF r

\* An event is lost.
LEMMA InOrderCutOut ==
    ASSUME NEW q \in Seq(Event), NEW c, NEW lo, NEW hi, InOrder(q, c, lo, hi), NEW k \in 1..Len(q)
    PROVE  InOrder(CutOut(q, k), c, lo, hi)
<1> DEFINE r == CutOut(q, k)
           n == Len(q)
           f(i) == IF i < k THEN i ELSE i + 1
<1>1. /\ Len(r) = n - 1
      /\ \A i \in 1..(n - 1) : r[i] = IF i < k THEN q[i] ELSE q[i + 1]
  BY Zenon, CutOutPlaces
<1>2. n \in Nat /\ k \in 1..n
  OBVIOUS
<1>3. \A i \in 1..(n - 1) : f(i) \in 1..n
  BY <1>2
<1>4. \A i, j \in 1..(n - 1) : i < j => f(i) < f(j)
  BY <1>2
<1>5. \A i \in 1..(n - 1) : r[i] = q[f(i)]
  BY Zenon, <1>1
<1> HIDE DEF r, n, f
<1>6. /\ \A i \in 1..n : q[i][1] = c => lo < q[i][2] /\ q[i][2] <= hi
      /\ \A i, j \in 1..n : i < j /\ q[i][1] = c /\ q[j][1] = c => q[i][2] < q[j][2]
  BY Zenon DEF InOrder, n
<1>7. /\ \A i \in 1..(n - 1) : r[i][1] = c => lo < r[i][2] /\ r[i][2] <= hi
      /\ \A i, j \in 1..(n - 1) : i < j /\ r[i][1] = c /\ r[j][1] = c => r[i][2] < r[j][2]
  BY ZenonT(40), <1>3, <1>4, <1>5, <1>6
<1>8. InOrder(r, c, lo, hi)
  BY Zenon, <1>1, <1>7 DEF InOrder
<1> QED
  BY Zenon, <1>8 DEF r

\* The first event is taken.
LEMMA InOrderTail ==
    ASSUME NEW q \in Seq(Event), NEW c, NEW lo, NEW hi, InOrder(q, c, lo, hi), q # <<>>
    PROVE  /\ InOrder(Tail(q), c, IF Head(q)[1] = c THEN Head(q)[2] ELSE lo, hi)
           /\ Head(q)[1] = c => lo < Head(q)[2] /\ Head(q)[2] <= hi
<1> DEFINE r == Tail(q)
           n == Len(q)
           h == Head(q)
<1>1. /\ n \in Nat /\ Len(r) = n - 1 /\ h = q[1] /\ 1 \in 1..n /\ \A i \in 1..(n - 1) : r[i] = q[i + 1]
      /\ \A i \in 1..(n - 1) : i + 1 \in 1..n /\ 1 < i + 1
      /\ \A i, j \in 1..(n - 1) : i < j => i + 1 < j + 1
  OBVIOUS
<1> HIDE DEF r, n, h
<1>6. /\ \A i \in 1..n : q[i][1] = c => lo < q[i][2] /\ q[i][2] <= hi
      /\ \A i, j \in 1..n : i < j /\ q[i][1] = c /\ q[j][1] = c => q[i][2] < q[j][2]
  BY Zenon DEF InOrder, n
<1>7. /\ \A i \in 1..(n - 1) : r[i][1] = c => lo < r[i][2] /\ r[i][2] <= hi /\ (h[1] = c => h[2] < r[i][2])
      /\ \A i, j \in 1..(n - 1) : i < j /\ r[i][1] = c /\ r[j][1] = c => r[i][2] < r[j][2]
  BY ZenonT(40), <1>1, <1>6
<1>8. InOrder(r, c, IF h[1] = c THEN h[2] ELSE lo, hi)
  BY Zenon, <1>1, <1>7 DEF InOrder
<1>9. h[1] = c => lo < h[2] /\ h[2] <= hi
  BY Zenon, <1>1, <1>6
<1> QED
  BY Zenon, <1>8, <1>9 DEF r, h

-----------------------------------------------------------------------------
\* The queues are queues of events.
LEMMA PendingType ==
    ASSUME ControlInv, FeedType, NEW s \in Sub, Link(s)
    PROVE  /\ chan[s] \in Seq(Event) /\ Intact(wire[s]) \in Seq(Event) /\ Pending(s) \in Seq(Event)
           /\ Frames(wire[s])
<1>1. chan[s] \in Seq(Event) /\ Frames(wire[s])
  BY Zenon, AllTypes DEF Link, Fits
<1>2. Intact(wire[s]) \in Seq(Event)
  BY Zenon, <1>1, IntactPlaces
<1> QED
  BY Zenon, <1>1, <1>2, ConcatPlaces DEF Pending

\* What the daemon's steps make of the queue.
LEMMA PendingServed ==
    ASSUME ControlInv, ListInv, FeedType, NEW s \in Sub, Link(s), ServerEffect(s)
    PROVE  /\ UNCHANGED <<chan[s], got[s]>>
           /\ \/ UNCHANGED Intact(wire[s])
              \/ \E c \in Caster : /\ SentBy(c, s) /\ Torn \notin Range(wire[s])
                                   /\ Intact(wire'[s]) = Append(Intact(wire[s]), <<c, caster[c].num>>)
<1>0. Frames(wire[s])
  BY Zenon, PendingType
<1>1. CASE Connects(s) \/ Joins(s) \/ Returns(s) \/ Shuts(s)
  BY Zenon, <1>1 DEF Connects, Joins, Returns, Shuts
<1>2. CASE Acks(s)
  <2>1. wire[s] = <<>> /\ wire'[s] = Append(<<>>, Ack) /\ UNCHANGED <<chan[s], got[s]>>
    BY Zenon, <1>2 DEF Acks, Link
  <2>2. Intact(wire'[s]) = Intact(wire[s])
    BY Zenon, <2>1, IntactAck, IntactEmpty
  <2> QED
    BY Zenon, <2>1, <2>2
<1>3. ASSUME NEW c \in Caster, SentBy(c, s)
      PROVE  /\ UNCHANGED <<chan[s], got[s]>>
             /\ \/ UNCHANGED Intact(wire[s])
                \/ /\ SentBy(c, s) /\ Torn \notin Range(wire[s])
                   /\ Intact(wire'[s]) = Append(Intact(wire[s]), <<c, caster[c].num>>)
  <2>1. <<c, caster[c].num>> \in Event
    BY Zenon, <1>3, SendingTo DEF SentBy
  <2>2. wire'[s] = Append(wire[s], <<c, caster[c].num>>) /\ UNCHANGED <<chan[s], got[s]>>
    BY Zenon, <1>3 DEF SentBy
  <2>3. Intact(Append(wire[s], <<c, caster[c].num>>)) =
           IF Torn \in Range(wire[s]) THEN Intact(wire[s]) ELSE Append(Intact(wire[s]), <<c, caster[c].num>>)
    BY Zenon, <1>0, <2>1, IntactEvent
  <2> QED
    BY Zenon, <1>3, <2>2, <2>3
<1>4. ASSUME NEW c \in Caster, TornBy(c, s) PROVE UNCHANGED <<chan[s], got[s], Intact(wire[s])>>
  <2>1. /\ wire'[s] = Append(wire[s], Torn) /\ Torn \notin Range(wire[s]) /\ UNCHANGED <<chan[s], got[s]>>
    BY Zenon, <1>4 DEF TornBy
  <2>2. Intact(Append(wire[s], Torn)) = Intact(wire[s])
    BY Zenon, <1>0, <2>1, IntactTorn
  <2> QED
    BY Zenon, <2>1, <2>2
<1> QED
  BY Zenon, <1>1, <1>2, <1>3, <1>4 DEF ServerEffect

\* What reading makes of it.
LEMMA PendingRead ==
    ASSUME ControlInv, FeedType, NEW s \in Sub, Link(s)
    PROVE  /\ ReadsAck(s) => UNCHANGED <<chan[s], Intact(wire[s])>>
           /\ ReadsEvent(s) => \/ UNCHANGED Pending(s)
                               \/ /\ Len(chan[s]) + 1 \in 1..Len(Pending(s))
                                  /\ Pending(s)' = CutOut(Pending(s), Len(chan[s]) + 1)
<1>0. Frames(wire[s]) /\ chan[s] \in Seq(Event) /\ Intact(wire[s]) \in Seq(Event)
  BY Zenon, PendingType
<1>1. ASSUME ReadsAck(s) PROVE UNCHANGED <<chan[s], Intact(wire[s])>>
  <2>1. wire[s] # <<>> /\ Head(wire[s]) = Ack /\ wire'[s] = Tail(wire[s]) /\ UNCHANGED chan[s]
    BY Zenon, <1>1 DEF ReadsAck
  <2>2. Head(wire[s]) # Torn
    BY Zenon, <2>1, FrameKinds
  <2>3. Intact(Tail(wire[s])) = Intact(wire[s])
    BY Zenon, <1>0, <2>1, <2>2, IntactTail
  <2> QED
    BY Zenon, <2>1, <2>3
<1>2. ASSUME ReadsEvent(s)
      PROVE  \/ UNCHANGED Pending(s)
             \/ /\ Len(chan[s]) + 1 \in 1..Len(Pending(s))
                /\ Pending(s)' = CutOut(Pending(s), Len(chan[s]) + 1)
  <2> DEFINE b == Intact(wire[s])
  <2>1. wire[s] # <<>> /\ Head(wire[s]) \in Event /\ wire'[s] = Tail(wire[s])
    BY Zenon, <1>2 DEF ReadsEvent
  <2>2. Head(wire[s]) # Torn
    BY Zenon, <2>1, FrameKinds
  <2>3. b # <<>> /\ Head(b) = Head(wire[s]) /\ Intact(Tail(wire[s])) = Tail(b)
    BY Zenon, <1>0, <2>1, <2>2, IntactTail
  <2>4. Pending(s) = chan[s] \o b /\ Pending(s)' = chan'[s] \o Tail(b)
    BY Zenon, <2>1, <2>3 DEF Pending
  <2>5. b \in Seq(Event)
    BY Zenon, <1>0
  <2> HIDE DEF b
  <2>6. CASE chan'[s] = Append(chan[s], Head(b))
    BY Zenon, <1>0, <2>3, <2>4, <2>5, <2>6, ConcatShift
  <2>7. CASE chan'[s] = chan[s]
    BY Zenon, <1>0, <2>3, <2>4, <2>5, <2>7, ConcatDrop
  <2> QED
    BY Zenon, <1>2, <2>3, <2>6, <2>7 DEF ReadsEvent
<1> QED
  BY Zenon, <1>1, <1>2

\* What taking an event makes of it.
LEMMA PendingTaken ==
    ASSUME ControlInv, FeedType, NEW s \in Sub, Link(s), Takes(s)
    PROVE  /\ Pending(s) # <<>> /\ Head(Pending(s)) = Head(chan[s]) /\ Pending(s)' = Tail(Pending(s))
           /\ got'[s] = [got[s] EXCEPT ![Head(chan[s])[1]] = Head(chan[s])[2]]
           /\ Head(chan[s]) \in Event
<1>0. chan[s] \in Seq(Event) /\ Intact(wire[s]) \in Seq(Event)
  BY Zenon, PendingType
<1>1. /\ chan[s] # <<>> /\ chan'[s] = Tail(chan[s]) /\ UNCHANGED wire[s]
      /\ got'[s] = [got[s] EXCEPT ![Head(chan[s])[1]] = Head(chan[s])[2]]
  BY Zenon, <1>0 DEF Takes
<1>2. Head(chan[s]) \in Event
  BY <1>0, <1>1
<1> DEFINE a == chan[s]
           b == Intact(wire[s])
<1>4. a \in Seq(Event) /\ b \in Seq(Event) /\ a # <<>>
  BY Zenon, <1>0, <1>1
<1> HIDE DEF a, b
<1>5. a \o b # <<>> /\ Head(a \o b) = Head(a) /\ Tail(a \o b) = Tail(a) \o b
  BY Zenon, <1>4, ConcatTake
<1>3. /\ chan[s] \o Intact(wire[s]) # <<>> /\ Head(chan[s] \o Intact(wire[s])) = Head(chan[s])
      /\ Tail(chan[s] \o Intact(wire[s])) = Tail(chan[s]) \o Intact(wire[s])
  BY Zenon, <1>5 DEF a, b
<1> QED
  BY Zenon, <1>1, <1>2, <1>3 DEF Pending

\* The daemon's steps keep the events in order.
LEMMA OrderServed ==
    ASSUME ControlInv, ListInv, FeedType, [Next]_vars, NEW s \in Sub, NEW c \in Caster, Link(s),
           Order(s, c), ServerEffect(s)
    PROVE  Order(s, c)'
<1> DEFINE q == Pending(s)
           lo == got[s][c]
           hi == Latest(c, s)
           up == Latest(c, s)'
<1>1. hi \in Nat /\ up \in Nat /\ hi <= up
  BY Zenon, LatestGrows
<1>2. lo \in Nat /\ lo <= hi /\ InOrder(q, c, lo, hi)
  BY Zenon, AllTypes DEF Order
<1>3. q \in Seq(Event) /\ chan[s] \in Seq(Event) /\ Intact(wire[s]) \in Seq(Event)
  BY Zenon, PendingType
<1>4. UNCHANGED got[s]
  BY Zenon, PendingServed
<1>5. lo <= up
  BY <1>1, <1>2
<1>6. CASE UNCHANGED Pending(s)
  <2>1. InOrder(q, c, lo, up)
    BY Zenon, <1>1, <1>2, <1>3, InOrderGrows
  <2> QED
    BY Zenon, <1>4, <1>5, <1>6, <2>1 DEF Order
<1>7. ASSUME NEW d \in Caster, SentBy(d, s), UNCHANGED chan[s],
             Intact(wire'[s]) = Append(Intact(wire[s]), <<d, caster[d].num>>)
      PROVE  Order(s, c)'
  <2> DEFINE e == <<d, caster[d].num>>
  <2>1. e \in Event /\ e[1] = d /\ e[2] = caster[d].num /\ caster[d].num \in Nat /\ caster[d].num >= 1
    BY Zenon, <1>7, SendingTo DEF SentBy
  <2>2. Pending(s)' = Append(q, e)
    <3>1. chan[s] \o Append(Intact(wire[s]), e) = Append(chan[s] \o Intact(wire[s]), e)
      <4> DEFINE a == chan[s]
                 b == Intact(wire[s])
      <4>1. a \in Seq(Event) /\ b \in Seq(Event) /\ e \in Event
        BY Zenon, <1>3, <2>1
      <4> HIDE DEF a, b, e
      <4>2. a \o Append(b, e) = Append(a \o b, e)
        BY <4>1, ConcatAppend
      <4> QED
        BY Zenon, <4>2 DEF a, b, e
    <3> QED
      BY Zenon, <1>7, <3>1 DEF Pending
  <2>3. d = c => hi = caster[d].num - 1 /\ up = caster[d].num
    BY Zenon, <1>7 DEF SentBy, Latest
  <2>4. e[1] = c => hi < e[2] /\ e[2] <= up
    BY <2>1, <2>3
  <2> HIDE DEF e, q, lo, hi
  <2>5. InOrder(Append(q, e), c, lo, up)
    BY ZenonT(40), <1>1, <1>2, <1>3, <2>1, <2>4, InOrderAppend
  <2> QED
    BY Zenon, <1>4, <1>5, <2>2, <2>5 DEF Order, lo
<1> QED
  BY Zenon, <1>6, <1>7, PendingServed DEF Pending

\* So do the client's.
LEMMA OrderRead ==
    ASSUME ControlInv, ListInv, FeedType, [Next]_vars, NEW s \in Sub, NEW c \in Caster, Link(s),
           Order(s, c), ClientEffect(s)
    PROVE  Order(s, c)'
<1> DEFINE q == Pending(s)
           lo == got[s][c]
           hi == Latest(c, s)
           up == Latest(c, s)'
<1>1. hi \in Nat /\ up \in Nat /\ hi <= up
  BY Zenon, LatestGrows
<1>2. lo \in Nat /\ lo <= hi /\ InOrder(q, c, lo, hi)
  BY Zenon, AllTypes DEF Order
<1>3. q \in Seq(Event)
  BY Zenon, PendingType
<1>4. lo <= up /\ InOrder(q, c, lo, up)
  <2>1. lo <= up
    BY <1>1, <1>2
  <2> QED
    BY ZenonT(40), <1>1, <1>2, <1>3, <2>1, InOrderGrows
<1>5. CASE UNCHANGED <<Pending(s), got[s]>>
  BY Zenon, <1>4, <1>5 DEF Order
<1>6. CASE ReadsAck(s) \/ ReadsEvent(s)
  <2>1. UNCHANGED got[s]
    BY Zenon, <1>6 DEF ReadsAck, ReadsEvent
  <2>2. CASE ReadsAck(s)
    <3>1. UNCHANGED Pending(s)
      BY Zenon, <2>2, PendingRead DEF Pending
    <3> QED
      BY Zenon, <1>5, <2>1, <3>1
  <2>3. CASE ReadsEvent(s)
    <3>1. CASE UNCHANGED Pending(s)
      BY Zenon, <1>5, <2>1, <3>1
    <3>2. ASSUME Len(chan[s]) + 1 \in 1..Len(q), Pending(s)' = CutOut(q, Len(chan[s]) + 1)
          PROVE  Order(s, c)'
      <4>1. InOrder(CutOut(q, Len(chan[s]) + 1), c, lo, up)
        BY Zenon, <1>3, <1>4, <3>2, InOrderCutOut
      <4> QED
        BY Zenon, <1>4, <2>1, <3>2, <4>1 DEF Order
    <3> QED
      BY Zenon, <2>3, <3>1, <3>2, PendingRead
  <2> QED
    BY Zenon, <1>6, <2>2, <2>3
<1>7. CASE Stops(s) \/ FindsEnd(s)
  <2>1. UNCHANGED <<Pending(s), got[s]>>
    BY Zenon, <1>7 DEF Stops, FindsEnd, Pending
  <2> QED
    BY Zenon, <1>5, <2>1
<1>8. CASE Takes(s)
  <2> DEFINE e == Head(chan[s])
  <2>1. /\ q # <<>> /\ Head(q) = e /\ Pending(s)' = Tail(q) /\ e \in Event
        /\ got'[s] = [got[s] EXCEPT ![e[1]] = e[2]]
    BY Zenon, <1>8, PendingTaken
  <2>2. got[s] \in [Caster -> Nat] /\ e[1] \in Caster
    BY Zenon, <2>1, AllTypes, FrameKinds
  <2>3. got'[s][c] = IF e[1] = c THEN e[2] ELSE lo
    BY Zenon, <2>1, <2>2
  <2> HIDE DEF q, lo, e
  <2>4. /\ InOrder(Tail(q), c, IF Head(q)[1] = c THEN Head(q)[2] ELSE lo, up)
        /\ Head(q)[1] = c => lo < Head(q)[2] /\ Head(q)[2] <= up
    BY Zenon, <1>3, <1>4, <2>1, InOrderTail
  <2>5. got'[s][c] <= up
    BY Zenon, <1>4, <2>1, <2>3, <2>4
  <2>6. InOrder(Tail(q), c, got'[s][c], up)
    BY Zenon, <2>1, <2>3, <2>4
  <2> QED
    BY Zenon, <2>1, <2>5, <2>6 DEF Order
<1>9. CASE Leaves(s)
  <2>1. chan'[s] = <<>> /\ wire'[s] = <<>> /\ UNCHANGED got[s]
    BY Zenon, <1>9 DEF Leaves
  <2>2. Pending(s)' = <<>>
    <3>1. <<>> \o <<>> = <<>>
      OBVIOUS
    <3> QED
      BY Zenon, <2>1, <3>1, IntactEmpty DEF Pending
  <2> QED
    BY Zenon, <1>4, <2>1, <2>2, InOrderEmpty DEF Order
<1> QED
  BY ZenonT(40), <1>6, <1>7, <1>8, <1>9 DEF ClientEffect

\* Every step keeps every caster's events in order.
LEMMA OrderStep ==
    ASSUME ControlInv, ListInv, FeedType, [Next]_vars, NEW s \in Sub, NEW c \in Caster, Link(s), Order(s, c)
    PROVE  Order(s, c)'
<1>1. ASSUME Stays(s) PROVE Order(s, c)'
  <2>1. UNCHANGED <<Pending(s), got[s]>>
    BY Zenon, <1>1 DEF Stays, Pending
  <2>2. /\ Latest(c, s) \in Nat /\ Latest(c, s)' \in Nat /\ Latest(c, s) <= Latest(c, s)'
        /\ got[s][c] \in Nat /\ got[s][c] <= Latest(c, s) /\ Pending(s) \in Seq(Event)
    BY Zenon, LatestGrows, PendingType, AllTypes DEF Order
  <2>3. got[s][c] <= Latest(c, s)'
    BY <2>2
  <2>4. InOrder(Pending(s), c, got[s][c], Latest(c, s)')
    BY Zenon, <2>2, InOrderGrows DEF Order
  <2> QED
    BY Zenon, <2>1, <2>3, <2>4 DEF Order
<1> QED
  BY Zenon, <1>1, Effects, OrderServed, OrderRead

-----------------------------------------------------------------------------
\* The functions stay functions.
LEMMA FeedTypeStep ==
    ASSUME ControlInv, ListInv, FeedType, \A s \in Sub : Link(s), [Next]_vars
    PROVE  FeedType'
<1>0. /\ cliEnd \in [Sub -> BOOLEAN] /\ told \in [Sub -> BOOLEAN]
      /\ wire \in [Sub -> Seq(Frame)] /\ chan \in [Sub -> Seq(Event)]
      /\ got \in [Sub -> [Caster -> Nat]]
  BY Zenon, AllTypes
<1>1. \A w \in Seq(Frame), e \in Frame : Append(w, e) \in Seq(Frame)
  OBVIOUS
<1>2. \A w \in Seq(Frame) : w # <<>> => Tail(w) \in Seq(Frame)
  OBVIOUS
<1>3. \A q \in Seq(Event) : /\ \A e \in Event : Append(q, e) \in Seq(Event)
                            /\ q # <<>> => Tail(q) \in Seq(Event) /\ Head(q) \in Event
  OBVIOUS
<1>4. Ack \in Frame /\ Torn \in Frame /\ \A e \in Event : e \in Frame
  BY Zenon DEF Frame
<1>5. CASE UNCHANGED vars \/ Close \/ CloseSub \/ Exit
  BY Zenon, <1>5 DEF vars, Close, CloseSub, Exit, conVars, cliVars, FeedType
<1>6. ASSUME NEW c \in Caster, Broadcast(c) \/ CasterStep(c) PROVE FeedType'
  <2>1. UNCHANGED <<cliEnd, told, chan, got>>
    BY Zenon, <1>6 DEF CasterStep, Broadcast, SendLock, SendWrite, DropRemove, DropClose, conVars, cliVars
  <2>2. CASE ~ SendWrite(c)
    <3>1. UNCHANGED wire
      BY Zenon, <1>6, <2>2 DEF CasterStep, Broadcast, SendLock, DropRemove, DropClose, conVars
    <3> QED
      BY Zenon, <2>1, <3>1 DEF FeedType
  <2>3. CASE SendWrite(c)
    <3> DEFINE x == Head(caster[c].todo)
               e == <<c, caster[c].num>>
    <3>1. \/ UNCHANGED wire
          \/ wire' = [wire EXCEPT ![x] = Append(@, e)]
          \/ wire' = [wire EXCEPT ![x] = Append(@, Torn)]
      BY Zenon, <2>3 DEF SendWrite
    <3>2. x \in Sub /\ x \in Range(caster[c].todo)
      BY Zenon, <2>3, SendingFacts DEF SendWrite
    <3>3. e \in Frame
      BY Zenon, <1>4, <3>2, SendingTo DEF Sends
    <3> HIDE DEF x, e
    <3>4. wire' \in [Sub -> Seq(Frame)]
      <4>1. wire[x] \in Seq(Frame)
        BY Zenon, <1>0, <3>2
      <4>2. Append(wire[x], e) \in Seq(Frame) /\ Append(wire[x], Torn) \in Seq(Frame)
        BY Zenon, <1>1, <1>4, <3>3, <4>1
      <4> QED
        BY Zenon, <1>0, <3>1, <3>2, <4>2
    <3> QED
      BY Zenon, <2>1, <3>4 DEF FeedType
  <2> QED
    BY Zenon, <2>2, <2>3
<1>7. ASSUME NEW s \in Sub, Connect(s) \/ HandlerStep(s) PROVE FeedType'
  <2>1. UNCHANGED <<told, chan, got>> /\ (UNCHANGED cliEnd \/ cliEnd' = [cliEnd EXCEPT ![s] = TRUE])
        /\ (UNCHANGED wire \/ wire' = [wire EXCEPT ![s] = Append(@, Ack)])
    BY Zenon, <1>7 DEF Connect, HandlerStep, WriteAck, AddSub, Unblock, conVars, cliVars
  <2>2. wire' \in [Sub -> Seq(Frame)] /\ cliEnd' \in [Sub -> BOOLEAN]
    <3>1. wire[s] \in Seq(Frame)
      BY Zenon, <1>0
    <3>2. Append(wire[s], Ack) \in Seq(Frame)
      BY Zenon, <1>1, <1>4, <3>1
    <3> QED
      BY Zenon, <1>0, <2>1, <3>2
  <2> QED
    BY Zenon, <2>1, <2>2 DEF FeedType
<1>8. ASSUME NEW s \in Sub, ReaderStep(s) PROVE FeedType'
  <2>1. UNCHANGED <<told, got, cliEnd>>
    BY Zenon, <1>8 DEF ReaderStep, ReadAck, ReadEvent, ReadFails, conVars
  <2>2. wire[s] \in Seq(Frame) /\ chan[s] \in Seq(Event)
    BY Zenon, <1>0
  <2>3. wire' \in [Sub -> Seq(Frame)]
    <3>1. UNCHANGED wire \/ (wire[s] # <<>> /\ wire' = [wire EXCEPT ![s] = Tail(@)])
      BY Zenon, <1>8 DEF ReaderStep, ReadAck, ReadEvent, ReadFails, conVars
    <3> QED
      BY Zenon, <1>0, <1>2, <2>2, <3>1
  <2>4. chan' \in [Sub -> Seq(Event)]
    <3>1. \/ UNCHANGED chan
          \/ /\ Head(wire[s]) \in Event
             /\ chan' = [chan EXCEPT ![s] = IF Len(@) < ChanCap THEN Append(@, Head(wire[s])) ELSE @]
      BY Zenon, <1>8 DEF ReaderStep, ReadAck, ReadEvent, ReadFails
    <3>2. Head(wire[s]) \in Event => Append(chan[s], Head(wire[s])) \in Seq(Event)
      BY Zenon, <1>3, <2>2
    <3> QED
      BY Zenon, <1>0, <2>2, <3>1, <3>2
  <2> QED
    BY Zenon, <2>1, <2>3, <2>4, <1>0 DEF FeedType
<1>9. ASSUME NEW s \in Sub, Receive(s) PROVE FeedType'
  <2>1. UNCHANGED <<wire, cliEnd>>
    BY Zenon, <1>9 DEF Receive, conVars
  <2>2. chan[s] \in Seq(Event)
    BY Zenon, <1>0
  <2>3. CASE chan[s] # <<>>
    <3> DEFINE e == Head(chan[s])
    <3>1. got' = [got EXCEPT ![s][e[1]] = e[2]] /\ chan' = [chan EXCEPT ![s] = Tail(@)] /\ UNCHANGED told
      BY Zenon, <1>9, <2>3 DEF Receive
    <3>2. e[1] \in Caster /\ e[2] \in Nat
      BY Zenon, <1>3, <2>2, <2>3, FrameKinds
    <3> HIDE DEF e
    <3>3. got' \in [Sub -> [Caster -> Nat]]
      BY Zenon, <1>0, <3>1, <3>2
    <3>4. chan' \in [Sub -> Seq(Event)]
      BY Zenon, <1>0, <1>3, <2>2, <2>3, <3>1
    <3> QED
      BY ZenonT(40), <1>0, <2>1, <3>1, <3>3, <3>4 DEF FeedType
  <2>4. CASE chan[s] = <<>>
    <3>1. UNCHANGED <<chan, got>> /\ told' = [told EXCEPT ![s] = TRUE]
      BY Zenon, <1>9, <2>4 DEF Receive
    <3> QED
      BY Zenon, <1>0, <2>1, <3>1 DEF FeedType
  <2> QED
    BY Zenon, <2>3, <2>4
<1>10. ASSUME NEW s \in Sub, CloseClient(s) PROVE FeedType'
  <2>1. /\ UNCHANGED <<told, got>> /\ cliEnd' = [cliEnd EXCEPT ![s] = FALSE]
        /\ wire' = [wire EXCEPT ![s] = <<>>] /\ chan' = [chan EXCEPT ![s] = <<>>]
    BY Zenon, <1>10 DEF CloseClient
  <2>2. <<>> \in Seq(Frame) /\ <<>> \in Seq(Event)
    OBVIOUS
  <2>3. wire' \in [Sub -> Seq(Frame)] /\ chan' \in [Sub -> Seq(Event)] /\ cliEnd' \in [Sub -> BOOLEAN]
    BY Zenon, <1>0, <2>1, <2>2
  <2> QED
    BY Zenon, <1>0, <2>1, <2>3 DEF FeedType
<1> QED
  BY ZenonT(40), <1>5, <1>6, <1>7, <1>8, <1>9, <1>10 DEF Next

-----------------------------------------------------------------------------
(***************************************************************************)
(* The refinement.                                                         *)
(***************************************************************************)

\* How the state of the feed depends on the subscription.
StateFacts(state, ended, at, lost) ==
    /\ ended => state = "ended"
    /\ ~ ended /\ at = "none" => state = "new"
    /\ ~ ended /\ at # "none" /\ lost => state = "off"
    /\ ~ ended /\ at \in {"ack", "add"} /\ ~ lost => state = "new"
    /\ ~ ended /\ at = "block" /\ ~ lost => state = "on"

\* The state of the feed before and after a step.
LEMMA FeedStates ==
    ASSUME NEW s, told[s] \in BOOLEAN, told'[s] \in BOOLEAN
    PROVE  /\ StateFacts(FeedState(s), told[s], handler[s], Lost(s))
           /\ StateFacts(FeedState(s)', told'[s], handler'[s], Lost(s)')
<1>1. told[s] => FeedState(s) = "ended"
  BY Zenon DEF FeedState
<1>2. ~ told[s] /\ handler[s] # "none" /\ Lost(s) => FeedState(s) = "off"
  BY Zenon DEF FeedState
<1>3. ~ told[s] /\ handler[s] = "block" /\ ~ Lost(s) => FeedState(s) = "on"
  BY Zenon DEF FeedState
<1>4. ~ told[s] /\ (handler[s] = "none" \/ (handler[s] \in {"ack", "add"} /\ ~ Lost(s))) => FeedState(s) = "new"
  BY Zenon DEF FeedState
<1>5. told'[s] => FeedState(s)' = "ended"
  BY Zenon DEF FeedState
<1>6. ~ told'[s] /\ handler'[s] # "none" /\ Lost(s)' => FeedState(s)' = "off"
  BY Zenon DEF FeedState
<1>7. ~ told'[s] /\ handler'[s] = "block" /\ ~ Lost(s)' => FeedState(s)' = "on"
  BY Zenon DEF FeedState
<1>8. ~ told'[s] /\ (handler'[s] = "none" \/ (handler'[s] \in {"ack", "add"} /\ ~ Lost(s)')) => FeedState(s)' = "new"
  BY Zenon DEF FeedState
<1> QED
  BY ZenonT(40), <1>1, <1>2, <1>3, <1>4, <1>5, <1>6, <1>7, <1>8 DEF StateFacts

\* What the state and the queue are made of, before and after a step.
LEMMA StateIs ==
    ASSUME NEW s
    PROVE  /\ Lost(s) = (~ srvEnd[s] \/ ~ cliEnd[s] \/ reader[s] = "stopped" \/ Torn \in Range(wire[s]))
           /\ Lost(s)' = (~ srvEnd'[s] \/ ~ cliEnd'[s] \/ reader'[s] = "stopped" \/ Torn \in Range(wire'[s]))
           /\ Readable(s) = IF reader[s] = "stopped" THEN <<>> ELSE Intact(wire[s])
           /\ Readable(s)' = IF reader'[s] = "stopped" THEN <<>> ELSE Intact(wire'[s])
BY Zenon DEF Lost, Readable

\* What is on its way to the consumer.
Queue(s) == chan[s] \o Readable(s)

\* The feed's steps that leave the queue as it is, or cut it off.
LEMMA FeedActs ==
    ASSUME NEW s \in Sub, Queue(s) \in Seq(Event), UNCHANGED got[s]
    PROVE  /\ UNCHANGED <<Queue(s), FeedState(s)>> => UNCHANGED Feed(s)!vars
           /\ UNCHANGED Queue(s) /\ FeedState(s) = "new" /\ FeedState(s)' = "on" => Feed(s)!Next
           /\ UNCHANGED Queue(s) /\ FeedState(s) \in {"new", "on"} /\ FeedState(s)' = "off" => Feed(s)!Next
           /\ Queue(s)' = <<>> /\ FeedState(s) \in {"new", "on", "off"} /\ FeedState(s)' = "off" => Feed(s)!Next
           /\ Queue(s) = <<>> /\ UNCHANGED Queue(s) /\ FeedState(s) = "off" /\ FeedState(s)' = "ended" => Feed(s)!Next
           /\ UNCHANGED FeedState(s) => \A i \in 1..Len(Queue(s)) : Queue(s)' = CutOut(Queue(s), i) => Feed(s)!Next
           /\ UNCHANGED FeedState(s) /\ FeedState(s) = "on" =>
                 \A e \in Event : Queue(s)' = Append(Queue(s), e) => Feed(s)!Next
<1> DEFINE q == Queue(s)
<1>1. /\ Len(q) \in 0..Len(q) /\ 0 \in 0..Len(q) /\ SubSeq(q, 1, Len(q)) = q /\ SubSeq(q, 1, 0) = <<>>
  BY Zenon, KeepAll
<1>2. ASSUME UNCHANGED <<Queue(s), FeedState(s)>> PROVE UNCHANGED Feed(s)!vars
  BY Zenon, <1>2 DEF Feed!vars, Queue
<1>3. ASSUME UNCHANGED Queue(s), FeedState(s) = "new", FeedState(s)' = "on" PROVE Feed(s)!Next
  <2>1. Feed(s)!Open
    BY Zenon, <1>3 DEF Feed!Open, Queue
  <2> QED
    BY Zenon, <2>1 DEF Feed!Next
<1>4. ASSUME NEW k \in 0..Len(q), Queue(s)' = SubSeq(q, 1, k), FeedState(s) \in {"new", "on"}, FeedState(s)' = "off"
      PROVE  Feed(s)!Next
  <2>1. Feed(s)!Cut
    BY Zenon, <1>4 DEF Feed!Cut, Queue
  <2> QED
    BY Zenon, <2>1 DEF Feed!Next
<1>5. ASSUME UNCHANGED Queue(s), FeedState(s) \in {"new", "on"}, FeedState(s)' = "off" PROVE Feed(s)!Next
  BY Zenon, <1>1, <1>4, <1>5
<1>6. ASSUME Queue(s)' = <<>>, FeedState(s) \in {"new", "on", "off"}, FeedState(s)' = "off" PROVE Feed(s)!Next
  <2>1. CASE FeedState(s) \in {"new", "on"}
    BY Zenon, <1>1, <1>4, <1>6, <2>1
  <2>2. CASE FeedState(s) = "off"
    <3>1. Queue(s)' = SubSeq(q, 1, 0)
      BY Zenon, <1>1, <1>6
    <3>2. Feed(s)!Truncate
      BY Zenon, <1>1, <1>6, <2>2, <3>1 DEF Feed!Truncate, Queue
    <3> QED
      BY Zenon, <3>2 DEF Feed!Next
  <2> QED
    BY Zenon, <1>6, <2>1, <2>2
<1>7. ASSUME Queue(s) = <<>>, UNCHANGED Queue(s), FeedState(s) = "off", FeedState(s)' = "ended" PROVE Feed(s)!Next
  <2>1. Feed(s)!End
    BY Zenon, <1>7 DEF Feed!End, Queue
  <2> QED
    BY Zenon, <2>1 DEF Feed!Next
<1>8. ASSUME UNCHANGED FeedState(s), NEW i \in 1..Len(Queue(s)), Queue(s)' = CutOut(Queue(s), i)
      PROVE  Feed(s)!Next
  <2>1. Feed(s)!Lose
    BY Zenon, <1>8 DEF Feed!Lose, Queue, CutOut
  <2> QED
    BY Zenon, <2>1 DEF Feed!Next
<1>9. ASSUME UNCHANGED FeedState(s), FeedState(s) = "on", NEW e \in Event, Queue(s)' = Append(Queue(s), e)
      PROVE  Feed(s)!Next
  <2>1. Feed(s)!Publish(e)
    BY Zenon, <1>9 DEF Feed!Publish, Queue
  <2>2. e \in Feed(s)!Event
    <3>1. e = <<e[1], e[2]>> /\ e[1] \in Caster /\ e[2] \in Nat /\ e[2] >= 1 /\ e[2] <= MaxEvents[e[1]]
      BY Zenon, FrameKinds
    <3>2. MaxEvents[e[1]] \in Nat
      BY Zenon, <3>1, BoundsAssumption
    <3>3. e[2] \in 1..MaxEvents[e[1]]
      BY SMTT(30), <3>1, <3>2
    <3>4. e[2] \in UNION {1..MaxEvents[c] : c \in Caster}
      BY Zenon, <3>1, <3>3
    <3> QED
      BY Zenon, <3>1, <3>4 DEF Feed!Event
  <2> QED
    BY Zenon, <2>1, <2>2 DEF Feed!Next
<1> QED
  BY ZenonT(40), <1>2, <1>3, <1>5, <1>6, <1>7, <1>8, <1>9

\* What is on its way to the consumer is events.
LEMMA QueueType ==
    ASSUME ControlInv, FeedType, NEW s \in Sub, Link(s)
    PROVE  /\ Queue(s) \in Seq(Event) /\ Readable(s) \in Seq(Event) /\ chan[s] \in Seq(Event)
           /\ told[s] \in BOOLEAN /\ Lost(s) \in BOOLEAN
<1>1. chan[s] \in Seq(Event) /\ Intact(wire[s]) \in Seq(Event) /\ told[s] \in BOOLEAN
  BY Zenon, PendingType, AllTypes
<1>2. <<>> \in Seq(Event)
  OBVIOUS
<1>3. Readable(s) \in Seq(Event)
  BY Zenon, <1>1, <1>2 DEF Readable
<1>4. Lost(s) \in BOOLEAN
  BY Zenon DEF Lost
<1> QED
  BY Zenon, <1>1, <1>3, <1>4, ConcatPlaces DEF Queue

\* A step of the daemon is one of the feed, or none.
LEMMA FeedServed ==
    ASSUME ControlInv, ListInv, FeedType, NEW s \in Sub, Link(s), ServerEffect(s), told'[s] \in BOOLEAN
    PROVE  UNCHANGED Feed(s)!vars \/ Feed(s)!Next
<1>0. /\ Queue(s) \in Seq(Event) /\ Readable(s) \in Seq(Event) /\ chan[s] \in Seq(Event)
      /\ told[s] \in BOOLEAN /\ Lost(s) \in BOOLEAN /\ Lost(s)' \in BOOLEAN
  BY Zenon, QueueType DEF Lost
<1>12. /\ StateFacts(FeedState(s), told[s], handler[s], Lost(s))
       /\ StateFacts(FeedState(s)', told'[s], handler'[s], Lost(s)')
  BY SMTT(30), <1>0, FeedStates
<1>1. handler[s] \in {"none", "ack", "add", "block", "gone"}
  BY Zenon, AllTypes
<1>2. UNCHANGED <<chan[s], got[s]>>
  BY Zenon, PendingServed
<1>3. UNCHANGED told[s] /\ (reader[s] = "stopped" <=> reader'[s] = "stopped")
  BY Zenon DEF ServerEffect, Connects, Acks, Joins, Returns, Shuts, SentBy, TornBy
<1>4. UNCHANGED Intact(wire[s]) => UNCHANGED Queue(s)
  BY Zenon, <1>2, <1>3, StateIs DEF Queue
<1>5. ASSUME UNCHANGED <<Queue(s), FeedState(s)>> PROVE UNCHANGED Feed(s)!vars
  BY Zenon, <1>0, <1>2, <1>5, FeedActs
<1>6. CASE Connects(s)
  <2>1. UNCHANGED wire[s] /\ handler[s] = "none" /\ ~ told[s] /\ wire[s] = <<>>
    BY Zenon, <1>6 DEF Connects, Link
  <2>2. ~ Lost(s)' /\ handler'[s] = "ack"
    <3>1. srvEnd'[s] = TRUE /\ cliEnd'[s] = TRUE /\ reader'[s] = "asked" /\ handler'[s] = "ack" /\ wire'[s] = <<>>
      BY Zenon, <1>6, <2>1 DEF Connects
    <3>2. reader'[s] # "stopped" /\ Torn \notin Range(wire'[s])
      BY Zenon, <3>1, IntactEmpty
    <3> QED
      BY Zenon, <3>1, <3>2, StateIs
  <2>3. FeedState(s) = "new" /\ FeedState(s)' = "new"
    BY ZenonT(40), <1>0, <1>3, <2>1, <2>2, <1>12 DEF StateFacts
  <2> QED
    BY Zenon, <1>4, <1>5, <2>1, <2>3
<1>7. CASE Acks(s)
  <2>1. /\ handler[s] = "ack" /\ handler'[s] = "add" /\ wire[s] = <<>> /\ wire'[s] = Append(<<>>, Ack)
        /\ UNCHANGED <<reader[s], cliEnd[s], srvEnd[s]>>
    BY Zenon, <1>7 DEF Acks, Link
  <2>2. Torn \notin Range(wire[s]) /\ Torn \notin Range(wire'[s])
    BY Zenon, <2>1, FitsFirst, IntactEmpty
  <2>3. Lost(s)' = Lost(s)
    BY Zenon, <2>1, <2>2, StateIs
  <2>4. Intact(wire'[s]) = Intact(wire[s])
    BY Zenon, <2>1, IntactAck, IntactEmpty
  <2>5. handler[s] # "none" /\ handler'[s] # "none"
    BY Zenon, <2>1
  <2>6. FeedState(s)' = FeedState(s)
    BY ZenonT(40), <1>0, <1>3, <2>1, <2>3, <2>5, <1>12 DEF StateFacts
  <2> QED
    BY Zenon, <1>4, <1>5, <2>4, <2>6
<1>8. CASE Joins(s)
  <2>1. handler[s] = "add" /\ handler'[s] = "block" /\ UNCHANGED <<wire[s], reader[s], cliEnd[s], srvEnd[s]>>
    BY Zenon, <1>8 DEF Joins
  <2>2. (Lost(s)' <=> Lost(s)) /\ UNCHANGED Queue(s)
    BY Zenon, <1>4, <2>1, StateIs
  <2>3. handler[s] # "none" /\ handler'[s] # "none"
    BY Zenon, <2>1
  <2>4. CASE told[s] \/ Lost(s)
    <3>1. FeedState(s)' = FeedState(s)
      <4>1. CASE told[s]
        BY Zenon, <1>3, <4>1, <1>12 DEF StateFacts
      <4>2. CASE ~ told[s] /\ Lost(s)
        BY Zenon, <1>3, <2>2, <2>3, <4>2, <1>12 DEF StateFacts
      <4> QED
        BY Zenon, <2>4, <4>1, <4>2
    <3> QED
      BY Zenon, <1>5, <2>2, <3>1
  <2>5. CASE ~ (told[s] \/ Lost(s))
    <3>1. FeedState(s) = "new" /\ FeedState(s)' = "on"
      BY Zenon, <1>0, <1>3, <2>1, <2>2, <2>5, <1>12 DEF StateFacts
    <3> QED
      BY Zenon, <1>0, <1>2, <2>2, <3>1, FeedActs
  <2> QED
    BY Zenon, <2>4, <2>5
<1>9. CASE Returns(s)
  <2>1. /\ handler[s] \in {"ack", "block"} /\ handler'[s] = "gone"
        /\ Lost(s) /\ Lost(s)' /\ UNCHANGED wire[s]
    BY Zenon, <1>9, StateIs DEF Returns
  <2>2. handler[s] # "none" /\ handler'[s] # "none"
    BY Zenon, <2>1
  <2>3. FeedState(s)' = FeedState(s)
    BY Zenon, <1>0, <1>3, <2>1, <2>2, <1>12 DEF StateFacts
  <2> QED
    BY Zenon, <1>4, <1>5, <2>1, <2>3
<1>10. CASE Shuts(s)
  <2>1. Lost(s)' /\ UNCHANGED Queue(s)
    BY Zenon, <1>4, <1>10, StateIs DEF Shuts
  <2>2. handler[s] = "none" <=> handler'[s] = "none"
    BY Zenon, <1>10 DEF Shuts
  <2>3. CASE told[s] \/ handler[s] = "none" \/ Lost(s)
    <3>1. FeedState(s)' = FeedState(s)
      <4>1. CASE told[s]
        BY Zenon, <1>3, <4>1, <1>12 DEF StateFacts
      <4>2. CASE ~ told[s] /\ handler[s] = "none"
        BY Zenon, <1>3, <2>2, <4>2, <1>12 DEF StateFacts
      <4>3. CASE ~ told[s] /\ handler[s] # "none" /\ Lost(s)
        BY ZenonT(40), <1>3, <2>1, <2>2, <4>3, <1>12 DEF StateFacts
      <4> QED
        BY ZenonT(40), <2>3, <4>1, <4>2, <4>3
    <3> QED
      BY Zenon, <1>5, <2>1, <3>1
  <2>4. CASE ~ (told[s] \/ handler[s] = "none" \/ Lost(s))
    <3>1. srvEnd[s] /\ handler[s] \in {"ack", "add", "block"}
      <4>1. srvEnd[s]
        BY Zenon, <2>4, StateIs
      <4> QED
        BY Zenon, <1>1, <2>4, <4>1 DEF Link
    <3>2. FeedState(s) \in {"new", "on"} /\ FeedState(s)' = "off"
      <4>1. FeedState(s)' = "off"
        BY Zenon, <1>0, <1>3, <2>1, <2>2, <2>4, <1>12 DEF StateFacts
      <4>2. FeedState(s) = "new" \/ FeedState(s) = "on"
        BY Zenon, <1>0, <2>4, <3>1, <1>12 DEF StateFacts
      <4> QED
        BY Zenon, <4>1, <4>2
    <3> QED
      BY ZenonT(40), <1>0, <1>2, <2>1, <3>2, FeedActs
  <2> QED
    BY Zenon, <2>3, <2>4
<1>11. ASSUME NEW c \in Caster, SentBy(c, s) \/ TornBy(c, s)
       PROVE  UNCHANGED Feed(s)!vars \/ Feed(s)!Next
  <2> DEFINE e == <<c, caster[c].num>>
  <2>0. handler[s] \notin Unlisted /\ e \in Event
    BY Zenon, <1>11, SendingTo DEF SentBy, TornBy
  <2>1. srvEnd[s] /\ cliEnd[s] /\ UNCHANGED <<reader[s], handler[s], cliEnd[s], srvEnd[s]>>
    BY Zenon, <1>11 DEF SentBy, TornBy
  <2>2. handler[s] = "block"
    BY Zenon, <1>1, <2>0, <2>1 DEF Unlisted, Link
  <2>3. told[s] => reader[s] = "stopped"
    BY Zenon, <2>1 DEF Link
  <2>4. handler[s] # "none" /\ handler'[s] # "none" /\ handler'[s] = "block"
    BY Zenon, <2>1, <2>2
  <2> HIDE DEF e
  <2>5. CASE reader[s] = "stopped"
    <3>1. Readable(s) = <<>> /\ Readable(s)' = <<>> /\ Lost(s) /\ Lost(s)'
      BY Zenon, <2>1, <2>5, StateIs
    <3>2. UNCHANGED Queue(s)
      BY Zenon, <1>2, <3>1 DEF Queue
    <3>3. FeedState(s)' = FeedState(s)
      BY ZenonT(40), <1>0, <1>3, <2>4, <3>1, <1>12 DEF StateFacts
    <3> QED
      BY Zenon, <1>5, <3>2, <3>3
  <2>6. CASE reader[s] # "stopped" /\ TornBy(c, s)
    <3>1. wire'[s] = Append(wire[s], Torn) /\ Torn \notin Range(wire[s])
      BY Zenon, <2>6 DEF TornBy
    <3>2. Torn \in Range(wire'[s])
      BY Zenon, <3>1, FitsTorn DEF Link
    <3>3. ~ Lost(s) /\ Lost(s)' /\ ~ told[s]
      BY ZenonT(40), <2>1, <2>3, <2>6, <3>1, <3>2, StateIs
    <3>4. FeedState(s) = "on" /\ FeedState(s)' = "off"
      BY ZenonT(40), <1>0, <1>3, <2>2, <2>4, <3>3, <1>12 DEF StateFacts
    <3>5. UNCHANGED Queue(s)
      <4>1. Intact(Append(wire[s], Torn)) = Intact(wire[s])
        BY Zenon, <3>1, PendingType, IntactTorn
      <4> QED
        BY Zenon, <1>4, <3>1, <4>1
    <3>6. FeedState(s) \in {"new", "on"}
      BY Zenon, <3>4
    <3> QED
      BY ZenonT(40), <1>0, <1>2, <3>4, <3>5, <3>6, FeedActs
  <2>7. CASE reader[s] # "stopped" /\ SentBy(c, s)
    <3>1. wire'[s] = Append(wire[s], e) /\ Fits(wire[s])
          /\ ~ (Len(wire[s]) >= SockCap + (IF Torn \in Range(wire[s]) THEN 1 ELSE 0))
      BY Zenon, <2>7 DEF SentBy, Full, Link, e
    <3>2. Torn \in Range(Append(wire[s], e)) <=> Torn \in Range(wire[s])
      BY Zenon, <2>0, <3>1, FitsEvent
    <3>3. Torn \in Range(wire'[s]) <=> Torn \in Range(wire[s])
      BY Zenon, <3>1, <3>2
    <3>4. (Lost(s)' <=> Lost(s)) /\ (Lost(s) <=> Torn \in Range(wire[s])) /\ ~ told[s]
      BY ZenonT(40), <2>1, <2>3, <2>7, <3>3, StateIs
    <3>5. UNCHANGED FeedState(s)
      <4>1. CASE Lost(s)
        BY ZenonT(40), <1>3, <2>4, <3>4, <4>1, <1>12 DEF StateFacts
      <4>2. CASE ~ Lost(s)
        BY ZenonT(40), <1>3, <2>2, <2>4, <3>4, <4>2, <1>12 DEF StateFacts
      <4> QED
        BY Zenon, <4>1, <4>2
    <3>6. Intact(Append(wire[s], e)) = IF Torn \in Range(wire[s]) THEN Intact(wire[s]) ELSE Append(Intact(wire[s]), e)
      BY Zenon, <2>0, PendingType, IntactEvent
    <3>7. CASE Torn \in Range(wire[s])
      BY ZenonT(40), <1>4, <1>5, <3>1, <3>5, <3>6, <3>7
    <3>8. CASE Torn \notin Range(wire[s])
      <4>1. Readable(s)' = Append(Readable(s), e)
        BY ZenonT(40), <2>1, <2>7, <3>1, <3>6, <3>8, StateIs
      <4>2. Queue(s)' = Append(Queue(s), e)
        <5> DEFINE a == chan[s]
                   b == Readable(s)
        <5>1. a \in Seq(Event) /\ b \in Seq(Event) /\ e \in Event
          BY Zenon, <1>0, <2>0
        <5>2. Queue(s)' = a \o Append(b, e) /\ Queue(s) = a \o b
          BY Zenon, <1>2, <4>1 DEF Queue
        <5> HIDE DEF a, b
        <5>3. a \o Append(b, e) = Append(a \o b, e)
          BY SMTT(30), <5>1, ConcatAppend
        <5> QED
          BY Zenon, <5>2, <5>3
      <4>3. FeedState(s) = "on"
        BY ZenonT(40), <1>0, <2>2, <3>4, <3>8, <1>12 DEF StateFacts
      <4> QED
        BY ZenonT(40), <1>0, <1>2, <2>0, <3>5, <4>2, <4>3, FeedActs
    <3> QED
      BY Zenon, <3>7, <3>8
  <2> QED
    BY Zenon, <1>11, <2>5, <2>6, <2>7
<1> QED
  BY ZenonT(40), <1>6, <1>7, <1>8, <1>9, <1>10, <1>11 DEF ServerEffect

\* A step of the client is one of the feed, or none.
LEMMA FeedRead ==
    ASSUME ControlInv, FeedType, NEW s \in Sub, Link(s), \A c \in Caster : Order(s, c),
           ClientEffect(s), told'[s] \in BOOLEAN
    PROVE  UNCHANGED Feed(s)!vars \/ Feed(s)!Next
<1>0. /\ Queue(s) \in Seq(Event) /\ Readable(s) \in Seq(Event) /\ chan[s] \in Seq(Event)
      /\ told[s] \in BOOLEAN
  BY Zenon, QueueType
<1>1. /\ StateFacts(FeedState(s), told[s], handler[s], Lost(s))
      /\ StateFacts(FeedState(s)', told'[s], handler'[s], Lost(s)')
  BY <1>0, FeedStates
<1>2. UNCHANGED handler[s]
  BY Zenon DEF ClientEffect, ReadsAck, ReadsEvent, Stops, Takes, FindsEnd, Leaves
<1>3. handler[s] \in {"none", "ack", "add", "block", "gone"} /\ Frames(wire[s])
  BY Zenon, AllTypes, PendingType
<1>4. \A w \in Seq(Event) : w \o <<>> = w
  BY Zenon, ConcatEmpty
<1>5. CASE ReadsAck(s) \/ ReadsEvent(s)
  <2>1. /\ wire[s] # <<>> /\ wire'[s] = Tail(wire[s]) /\ Head(wire[s]) # Torn
        /\ reader[s] \in {"asked", "reading"} /\ reader'[s] = "reading"
        /\ UNCHANGED <<told[s], got[s], cliEnd[s], srvEnd[s]>>
    BY Zenon, <1>5, FrameKinds DEF ReadsAck, ReadsEvent
  <2>2. Torn \in Range(wire'[s]) <=> Torn \in Range(wire[s])
    BY Zenon, <2>1, FitsTail DEF Link
  <2>3. reader[s] # "stopped" /\ reader'[s] # "stopped" /\ handler[s] # "none" /\ ~ told[s]
    BY Zenon, <2>1 DEF Link
  <2>4. Lost(s)' <=> Lost(s)
    BY ZenonT(40), <2>1, <2>2, <2>3, StateIs
  <2>5. UNCHANGED FeedState(s)
    BY ZenonT(40), <1>2, <2>1, <2>4, <2>2, <2>3 DEF FeedState, Lost
  <2>6. Queue(s) = Pending(s) /\ Queue(s)' = Pending(s)'
    BY Zenon, <2>3, StateIs DEF Queue, Pending
  <2>7. CASE UNCHANGED Pending(s)
    <3>1. UNCHANGED <<Queue(s), FeedState(s)>>
      BY Zenon, <2>5, <2>6, <2>7
    <3> QED
      BY ZenonT(40), <1>0, <2>1, <3>1, FeedActs
  <2>8. ASSUME Len(chan[s]) + 1 \in 1..Len(Pending(s)), Pending(s)' = CutOut(Pending(s), Len(chan[s]) + 1)
        PROVE  Feed(s)!Next
    <3>1. Len(chan[s]) + 1 \in 1..Len(Queue(s)) /\ Queue(s)' = CutOut(Queue(s), Len(chan[s]) + 1)
      BY Zenon, <2>6, <2>8
    <3> QED
      BY ZenonT(40), <1>0, <2>1, <2>5, <3>1, FeedActs
  <2> QED
    BY Zenon, <1>5, <2>7, <2>8, PendingRead DEF Pending
<1>6. CASE Stops(s)
  <2>1. /\ reader[s] \in {"asked", "reading"} /\ reader'[s] = "stopped"
        /\ UNCHANGED <<wire[s], chan[s], got[s], told[s], cliEnd[s], srvEnd[s]>>
        /\ \/ wire[s] = <<>> /\ ~ srvEnd[s]
           \/ wire[s] # <<>> /\ Head(wire[s]) = Torn
    BY Zenon, <1>6 DEF Stops
  <2>2. handler[s] # "none" /\ ~ told[s] /\ reader[s] # "stopped"
    BY Zenon, <2>1 DEF Link
  <2>3. Intact(wire[s]) = <<>> /\ (~ srvEnd[s] \/ Torn \in Range(wire[s]))
    BY Zenon, <1>3, <2>1, IntactEmpty, IntactBehind
  <2>4. Lost(s) /\ Lost(s)' /\ Readable(s) = <<>> /\ Readable(s)' = <<>>
    BY Zenon, <2>1, <2>2, <2>3, StateIs
  <2>5. UNCHANGED <<Queue(s), FeedState(s)>>
    BY ZenonT(40), <1>1, <1>2, <2>1, <2>2, <2>4 DEF Queue, StateFacts
  <2> QED
    BY Zenon, <1>0, <2>1, <2>5, FeedActs
<1>7. CASE Takes(s)
  <2> DEFINE e == Head(chan[s])
             c == e[1]
  <2>1. /\ chan[s] # <<>> /\ chan'[s] = Tail(chan[s])
        /\ UNCHANGED <<wire[s], told[s], reader[s], cliEnd[s], srvEnd[s]>>
    BY Zenon, <1>7 DEF Takes
  <2>2. /\ Pending(s) # <<>> /\ Head(Pending(s)) = e /\ e \in Event
        /\ got'[s] = [got[s] EXCEPT ![e[1]] = e[2]]
    BY Zenon, <1>7, PendingTaken
  <2>3. Readable(s)' = Readable(s) /\ UNCHANGED FeedState(s)
    BY Zenon, <1>2, <2>1 DEF Readable, FeedState, Lost
  <2>4. Queue(s) # <<>> /\ Head(Queue(s)) = e /\ Queue(s)' = Tail(Queue(s))
    <3> DEFINE a == chan[s]
               b == Readable(s)
    <3>1. a \in Seq(Event) /\ b \in Seq(Event) /\ a # <<>>
      BY Zenon, <1>0, <2>1
    <3>2. Queue(s) = a \o b /\ Queue(s)' = Tail(a) \o b /\ e = Head(a)
      BY Zenon, <2>1, <2>3 DEF Queue
    <3> HIDE DEF a, b, e
    <3>3. a \o b # <<>> /\ Head(a \o b) = Head(a) /\ Tail(a \o b) = Tail(a) \o b
      BY Zenon, <3>1, ConcatTake
    <3> QED
      BY Zenon, <3>2, <3>3
  <2>5. c \in Caster /\ e[2] \in Nat /\ got[s][c] \in Nat
    <3>1. got[s] \in [Caster -> Nat]
      BY Zenon, AllTypes
    <3>2. c \in Caster /\ e[2] \in Nat
      BY Zenon, <2>2, FrameKinds
    <3> QED
      BY Zenon, <3>1, <3>2
  <2>6. got[s][c] < e[2]
    <3>1. InOrder(Pending(s), c, got[s][c], Latest(c, s)) /\ Pending(s) \in Seq(Event)
      BY Zenon, <2>5, PendingType DEF Order
    <3>2. Head(Pending(s))[1] = c => got[s][c] < Head(Pending(s))[2]
      BY Zenon, <2>2, <3>1, InOrderTail
    <3> QED
      BY Zenon, <2>2, <3>2
  <2>7. e[2] > got[s][e[1]]
    BY Zenon, <2>5, <2>6
  <2>8. Feed(s)!Take
    BY Zenon, <2>2, <2>3, <2>4, <2>7 DEF Feed!Take, Queue
  <2> QED
    BY Zenon, <2>8 DEF Feed!Next
<1>8. CASE FindsEnd(s)
  <2>1. /\ ~ told[s] /\ told'[s] /\ chan[s] = <<>> /\ reader[s] = "stopped"
        /\ UNCHANGED <<wire[s], chan[s], got[s], reader[s]>>
    BY Zenon, <1>8 DEF FindsEnd
  <2>2. handler[s] # "none"
    BY Zenon, <2>1 DEF Link
  <2>3. Readable(s) = <<>> /\ Readable(s)' = <<>> /\ Lost(s)
    BY Zenon, <2>1, StateIs
  <2>4. Queue(s) = <<>> /\ UNCHANGED Queue(s)
    <3>1. <<>> \o <<>> = <<>>
      OBVIOUS
    <3> QED
      BY Zenon, <2>1, <2>3, <3>1 DEF Queue
  <2>5. FeedState(s) = "off" /\ FeedState(s)' = "ended"
    BY Zenon, <1>1, <2>1, <2>2, <2>3 DEF StateFacts
  <2> QED
    BY ZenonT(40), <1>0, <2>1, <2>4, <2>5, FeedActs
<1>9. CASE Leaves(s)
  <2>1. /\ cliEnd[s] /\ cliEnd'[s] = FALSE /\ reader'[s] = "gone" /\ chan'[s] = <<>> /\ wire'[s] = <<>>
        /\ UNCHANGED <<got[s], told[s], srvEnd[s]>>
    BY Zenon, <1>9 DEF Leaves
  <2>2. handler[s] # "none" /\ reader'[s] # "stopped" /\ (told[s] => chan[s] = <<>> /\ reader[s] = "stopped")
        /\ (handler[s] = "gone" => ~ srvEnd[s])
    BY Zenon, <2>1 DEF Link
  <2>3. Lost(s)' /\ Readable(s)' = <<>>
    BY ZenonT(40), <2>1, <2>2, StateIs, IntactEmpty
  <2>4. Queue(s)' = <<>>
    <3>1. <<>> \o <<>> = <<>>
      OBVIOUS
    <3> QED
      BY Zenon, <2>1, <2>3, <3>1 DEF Queue
  <2>5. CASE told[s]
    <3>1. Queue(s) = <<>>
      <4>1. <<>> \o <<>> = <<>> /\ Readable(s) = <<>>
        BY SMTT(30), <2>2, <2>5, StateIs
      <4> QED
        BY ZenonT(40), <2>2, <2>5, <4>1 DEF Queue
    <3>2. UNCHANGED <<Queue(s), FeedState(s)>>
      BY ZenonT(40), <1>1, <2>1, <2>4, <2>5, <3>1 DEF StateFacts
    <3> QED
      BY ZenonT(40), <1>0, <2>1, <3>2, FeedActs
  <2>6. CASE ~ told[s]
    <3>1. FeedState(s)' = "off"
      BY ZenonT(40), <1>1, <1>2, <2>1, <2>2, <2>3, <2>6 DEF StateFacts
    <3>2. FeedState(s) \in {"new", "on", "off"}
      <4>1. CASE Lost(s)
        BY Zenon, <1>1, <2>2, <2>6, <4>1 DEF StateFacts
      <4>2. CASE ~ Lost(s)
        <5>1. srvEnd[s]
          BY Zenon, <4>2, StateIs
        <5>2. handler[s] \in {"ack", "add"} \/ handler[s] = "block"
          BY Zenon, <1>3, <2>2, <5>1
        <5> QED
          BY ZenonT(40), <1>1, <2>6, <4>2, <5>2 DEF StateFacts
      <4> QED
        BY Zenon, <4>1, <4>2
    <3> QED
      BY ZenonT(40), <1>0, <2>1, <2>4, <3>1, <3>2, FeedActs
  <2> QED
    BY Zenon, <2>5, <2>6
<1> QED
  BY ZenonT(40), <1>5, <1>6, <1>7, <1>8, <1>9 DEF ClientEffect

-----------------------------------------------------------------------------
\* subscriber.mu is free or some caster's, and the server is in one of its states.
LockInv ==
    /\ server \in {"up", "closing", "closed", "exited"}
    /\ lock \in [Sub -> SUBSET Caster]
    /\ \A s \in Sub : lock[s] = {} \/ \E c \in Caster : lock[s] = {c}

FeedInv ==
    /\ ControlInv /\ ListInv /\ FeedType /\ LockInv
    /\ \A s \in Sub : Link(s) /\ \A c \in Caster : Order(s, c)

\* subscriber.mu is taken, or released.
LEMMA LockMoves ==
    ASSUME LockInv, UNCHANGED server, NEW x \in Sub, NEW l \in SUBSET Caster,
           l = {} \/ \E c \in Caster : l = {c}, lock' = [lock EXCEPT ![x] = l]
    PROVE  LockInv'
<1>1. lock' \in [Sub -> SUBSET Caster] /\ lock'[x] = l /\ \A s \in Sub : s # x => lock'[s] = lock[s]
  BY Zenon DEF LockInv
<1> QED
  BY Zenon, <1>1 DEF LockInv

\* Every step keeps it so.
LEMMA LockStep ==
    ASSUME ControlInv, ListInv, LockInv, [Next]_vars
    PROVE  LockInv'
<1>1. ASSUME UNCHANGED <<server, lock>> PROVE LockInv'
  BY Zenon, <1>1 DEF LockInv
<1>2. CASE UNCHANGED vars
  BY Zenon, <1>1, <1>2 DEF vars, srvVars
<1>3. ASSUME NEW c \in Caster, Broadcast(c) \/ CasterStep(c) PROVE LockInv'
  <2>1. UNCHANGED server
    BY Zenon, <1>3 DEF CasterStep, Broadcast, SendLock, SendWrite, DropRemove, DropClose
  <2>2. CASE Broadcast(c) \/ DropRemove(c) \/ DropClose(c)
    BY Zenon, <1>1, <2>1, <2>2 DEF Broadcast, DropRemove, DropClose
  <2>3. CASE SendLock(c) \/ SendWrite(c)
    <3> DEFINE x == Head(caster[c].todo)
    <3>1. caster[c].at # "idle"
      BY Zenon, <2>3 DEF SendLock, SendWrite
    <3>2. x \in Sub
      BY Zenon, <3>1, SendingFacts
    <3>3. UNCHANGED lock \/ lock' = [lock EXCEPT ![x] = {c}] \/ lock' = [lock EXCEPT ![x] = {}]
      BY Zenon, <2>3 DEF SendLock, SendWrite
    <3> HIDE DEF x
    <3>4. {c} \in SUBSET Caster /\ {} \in SUBSET Caster
      BY Zenon
    <3> QED
      BY ZenonT(40), <1>1, <2>1, <3>2, <3>3, <3>4, LockMoves
  <2> QED
    BY Zenon, <1>3, <2>2, <2>3 DEF CasterStep
<1>4. ASSUME NEW s \in Sub, Connect(s) \/ HandlerStep(s) \/ ReaderStep(s) \/ Receive(s) \/ CloseClient(s)
      PROVE  LockInv'
  <2>1. UNCHANGED <<server, lock>>
    BY Zenon, <1>4 DEF Connect, HandlerStep, WriteAck, AddSub, Unblock, ReaderStep, ReadAck, ReadEvent,
       ReadFails, Receive, CloseClient, srvVars
  <2> QED
    BY Zenon, <1>1, <2>1
<1>5. CASE Close \/ CloseSub
  <2>1. UNCHANGED lock /\ server' \in {server, "closing", "closed"}
    BY Zenon, <1>5 DEF Close, CloseSub
  <2> QED
    BY Zenon, <2>1 DEF LockInv
<1>6. CASE Exit
  <2>1. server' = "exited" /\ lock' = [s \in Sub |-> {}]
    BY Zenon, <1>6 DEF Exit
  <2>2. lock' \in [Sub -> SUBSET Caster] /\ \A s \in Sub : lock'[s] = {}
    BY Zenon, <2>1
  <2> QED
    BY Zenon, <2>1, <2>2 DEF LockInv
<1> QED
  BY ZenonT(40), <1>2, <1>3, <1>4, <1>5, <1>6 DEF Next

\* Every step preserves the invariant.
LEMMA FeedInvStep == FeedInv /\ [Next]_vars => FeedInv'
<1> SUFFICES ASSUME FeedInv, [Next]_vars PROVE FeedInv'
  BY Zenon
<1>1. ControlInv /\ ListInv /\ FeedType /\ LockInv /\ \A s \in Sub : Link(s) /\ \A c \in Caster : Order(s, c)
  BY Zenon DEF FeedInv
<1>2. ControlInv' /\ ListInv' /\ LockInv'
  BY ZenonT(40), <1>1, ControlInvStep, ListStep, LockStep
<1>3. FeedType'
  BY Zenon, <1>1, FeedTypeStep
<1>4. ASSUME NEW s \in Sub PROVE Link(s)' /\ \A c \in Caster : Order(s, c)'
  BY Zenon, <1>1, LinkStep, OrderStep
<1> QED
  BY Zenon, <1>2, <1>3, <1>4 DEF FeedInv

\* The invariant holds initially.
LEMMA FeedInvInit == Init => FeedInv
<1> SUFFICES ASSUME Init PROVE FeedInv
  BY Zenon
<1>1. ControlInv
  BY Zenon, ControlInvInit
<1>2. \A c \in Caster : caster[c].todo = <<>> /\ caster[c].num = 0 /\ caster[c].at = "idle"
  BY Zenon, AtFields DEF Init
<1>3. ListInv
  <2>1. \A c \in Caster : 0 <= MaxEvents[c]
    BY BoundsAssumption
  <2>2. list = <<>> /\ toClose = <<>>
    BY Zenon DEF Init
  <2> QED
    BY ZenonT(40), <1>2, <2>1, <2>2, OnceEmpty, EmptySet DEF ListInv, CasterInv, Sends
<1>4. FeedType
  <2>1. <<>> \in Seq(Frame) /\ <<>> \in Seq(Event) /\ 0 \in Nat
    OBVIOUS
  <2> QED
    BY Zenon, <2>1 DEF Init, FeedType
<1>5. LockInv
  BY Zenon DEF Init, LockInv
<1>6. ASSUME NEW s \in Sub PROVE Link(s)
  <2>1. /\ wire[s] = <<>> /\ chan[s] = <<>> /\ handler[s] = "none" /\ reader[s] = "none"
        /\ cliEnd[s] = FALSE /\ srvEnd[s] = FALSE /\ told[s] = FALSE
    BY Zenon DEF Init
  <2>2. Len(<<>>) <= ChanCap
    BY BoundsAssumption
  <2> QED
    BY Zenon, <2>1, <2>2, FitsFirst DEF Link
<1>7. ASSUME NEW s \in Sub, NEW c \in Caster PROVE Order(s, c)
  <2>1. wire[s] = <<>> /\ chan[s] = <<>> /\ got[s][c] = 0
    BY Zenon DEF Init
  <2>2. Pending(s) = <<>>
    <3>1. <<>> \o <<>> = <<>>
      OBVIOUS
    <3> QED
      BY Zenon, <2>1, <3>1, IntactEmpty DEF Pending
  <2>3. Latest(c, s) = 0
    BY Zenon, <1>2, EmptySet DEF Latest, Sends
  <2>4. 0 <= 0
    OBVIOUS
  <2> QED
    BY ZenonT(40), <2>1, <2>2, <2>3, <2>4, InOrderEmpty DEF Order
<1> QED
  BY ZenonT(40), <1>1, <1>3, <1>4, <1>5, <1>6, <1>7 DEF FeedInv

\* Every variable of the server, the connections and the clients keeps its type
\* (daemon/server.go, ipc/client.go): sockets and channels hold no more than they
\* can, and no event is consumed that was not broadcast.
THEOREM TypeCorrect == Spec => []TypeOK
<1>1. ASSUME FeedInv PROVE TypeOK
  <2>1. ControlInv /\ ListInv /\ FeedType /\ LockInv /\ \A s \in Sub : Link(s) /\ \A c \in Caster : Order(s, c)
    BY Zenon, <1>1 DEF FeedInv
  <2>2. \A s \in Sub : Len(wire[s]) <= SockCap + 1 /\ Len(chan[s]) <= ChanCap
    BY Zenon, <2>1 DEF Link, Fits
  <2>3. \A s \in Sub : \A c, d \in lock[s] : c = d
    BY Zenon, <2>1 DEF LockInv
  <2>4. \A c \in Caster : caster[c].num <= MaxEvents[c] /\ (caster[c].at = "idle" <=> caster[c].todo = <<>>)
    BY Zenon, <2>1, SendingFacts
  <2>5. ASSUME NEW s \in Sub, NEW c \in Caster PROVE got[s][c] <= MaxEvents[c]
    <3>1. got[s][c] \in Nat /\ got[s][c] <= Latest(c, s)
      BY Zenon, <2>1, AllTypes DEF Order
    <3>2. caster[c].num \in Nat /\ MaxEvents[c] \in Nat /\ caster[c].num <= MaxEvents[c]
      BY Zenon, <2>1, SendingFacts
    <3>3. Latest(c, s) = caster[c].num \/ Latest(c, s) = caster[c].num - 1
      BY Zenon DEF Latest
    <3> QED
      BY SMTT(30), <3>1, <3>2, <3>3
  <2>6. wire \in [Sub -> Seq(Event \union {Ack, Torn})]
    BY Zenon, <2>1 DEF FeedType, Frame
  <2> QED
    BY ZenonT(40), <2>1, <2>2, <2>3, <2>4, <2>5, <2>6 DEF TypeOK, ControlInv, ServerType, CasterRecord, FeedType, LockInv
<1> QED
  BY <1>1, FeedInvInit, FeedInvStep, PTL DEF Spec

\* Every subscription implements EventFeed (server.go: Broadcast, send, Close,
\* handleSubscribe; client.go: Subscribe and its goroutine; tui: waitForEvent):
\* what the consumer gets comes in order, at most once and newer than what it had
\* of that goroutine, and nothing after the end, for any number of subscriptions,
\* broadcasting goroutines and events and any capacities.
THEOREM FeedImplemented == Spec => FeedIsImplemented
<1> DEFINE Step == \A s \in Sub : UNCHANGED Feed(s)!vars \/ Feed(s)!Next
<1>1. Init => \A s \in Sub : Feed(s)!Init
  <2> SUFFICES ASSUME Init, NEW s \in Sub PROVE Feed(s)!Init
    BY Zenon
  <2>1. /\ wire[s] = <<>> /\ chan[s] = <<>> /\ handler[s] = "none" /\ reader[s] = "none" /\ told[s] = FALSE
        /\ got[s] = [c \in Caster |-> 0]
    BY Zenon DEF Init
  <2>2. FeedState(s) = "new"
    BY Zenon, <2>1 DEF FeedState
  <2>3. Readable(s) = <<>>
    BY Zenon, <2>1, IntactEmpty DEF Readable
  <2>4. chan[s] \o Readable(s) = <<>>
    BY SMTT(30), <2>1, <2>3
  <2> QED
    BY Zenon, <2>1, <2>2, <2>4 DEF Feed!Init
<1>2. FeedInv /\ [Next]_vars => [Step]_vars
  <2> SUFFICES ASSUME FeedInv, [Next]_vars, NEW s \in Sub PROVE UNCHANGED Feed(s)!vars \/ Feed(s)!Next
    BY Zenon
  <2>1. ControlInv /\ ListInv /\ FeedType /\ LockInv /\ Link(s) /\ \A c \in Caster : Order(s, c)
    BY Zenon DEF FeedInv
  <2>2. FeedInv'
    BY Zenon, FeedInvStep
  <2>3. told'[s] \in BOOLEAN
    BY Zenon, <2>2 DEF FeedInv, FeedType
  <2>4. CASE Stays(s)
    <3>1. UNCHANGED <<Queue(s), FeedState(s), got[s]>>
      BY Zenon, <2>4 DEF Stays, Queue, Readable, FeedState, Lost
    <3>2. Queue(s) \in Seq(Event)
      BY Zenon, <2>1, QueueType
    <3> QED
      BY Zenon, <3>1, <3>2, FeedActs
  <2> QED
    BY ZenonT(40), <2>1, <2>3, <2>4, Effects, FeedServed, FeedRead
<1> HIDE DEF Step
<1>3. Spec => (\A s \in Sub : Feed(s)!Init) /\ [][Step]_vars
  BY <1>1, <1>2, FeedInvInit, FeedInvStep, PTL DEF Spec
<1> QED
  BY Zenon, <1>3 DEF FeedIsImplemented, Step
=============================================================================
