----------------------------- MODULE TuiProofs -----------------------------
(***************************************************************************)
(* What the TUI promises, for every value of the constants: any number of  *)
(* rows, peers and connections, any plan of keys, sizes, changes and       *)
(* losses, and no bound on how many keys, commands or events there are.    *)
(*                                                                         *)
(* UpdateFine says what Update does to the model. The panels come first    *)
(* and are shown to satisfy it, operation by operation, from what SetsFine *)
(* says of sets of numbers. The steps of the program follow, from          *)
(* UpdateFine: the type invariant, and the three invariants that relate    *)
(* what is shown to what the daemon has and to what is under way. Each     *)
(* needs a strengthening of its own: CatInv follows a change of the        *)
(* catalog from the commit through the announcement and the fetch to the   *)
(* panel, PeerInv follows the "offline" of every connection that was heard *)
(* as online, and WaitInv counts the entries of a file and the downloads   *)
(* of it. The library comes in last, for SetsFine and CountingFine, and    *)
(* the theorems follow.                                                    *)
(***************************************************************************)
EXTENDS Tui, TLAPS

USE Zenon

-----------------------------------------------------------------------------
(***************************************************************************)
(* The types of the state, and what Update does to it.                     *)
(***************************************************************************)

File == {FileOf[r] : r \in Row}

\* The file panel, whose cursor is anywhere or in the list.
CatalogRecord(cursors) ==
    [files : SUBSET Row, cursor : cursors, offset : Nat, selected : SUBSET File,
     search : Seq(STRING), searching : BOOLEAN]

CatalogFine(c) ==
    /\ c \in CatalogRecord(Nat)
    /\ c.cursor \in 0..Max({0, Cardinality(Visible(c)) - 1})

Listed == [peer : Peer, online : BOOLEAN]

PeersRecord == [list : Seq(Listed), cursor : Nat, offset : Nat]

PeersFine(p) == p \in PeersRecord /\ p.cursor \in 0..Max({0, Len(p.list) - 1})

Overlay == [kind : {"none", "help", "detail", "confirm", "invite", "join"},
            loading : BOOLEAN, text : Nat, result : {"none", "ok", "err"}]

Transfer == [file : File, done : BOOLEAN]

Interface ==
    [catalog : CatalogRecord(Nat), peers : PeersRecord, transfers : Seq(Transfer),
     progress : BOOLEAN, focus : {"catalog", "peers"}, overlay : Overlay, height : Int,
     err : BOOLEAN, quitting : BOOLEAN]

InterfaceFine(u) == u \in Interface /\ CatalogFine(u.catalog) /\ PeersFine(u.peers)

\* An entry shown as online is the first of its peer, the one the events find.
FirstOnline(list) ==
    \A i \in 1..Len(list) : list[i].online =>
        \A j \in 1..Len(list) : list[j].peer = list[i].peer => i <= j

\* What a key may do to the overlay: it stays, or what is shown does not load, or its
\* call is issued by the same key.
OverlayFollows(u, v, k) ==
    \/ v.overlay.kind = u.overlay.kind /\ v.overlay.loading = u.overlay.loading
    \/ ~ v.overlay.loading
    \/ v.overlay.kind \in {"invite", "join"} /\ KeyCmds(u, k) = <<Cmd(v.overlay.kind, 0)>>

\* What a key does to the transfers: those it adds have their commands.
Downloads(c) == [i \in 1..Len(Wanted(c)) |-> Cmd("download", FileOf[Wanted(c)[i]])]

TransfersFollow(u, v, k) ==
    \/ /\ v.transfers = u.transfers
       /\ KeyCmds(u, k) \in {<<>>, <<Cmd("invite", 0)>>, <<Cmd("join", 0)>>}
    \/ /\ v.transfers = AddTransfers(u.transfers, Wanted(u.catalog))
       /\ KeyCmds(u, k) = Downloads(u.catalog)

\* What a key leaves alone, and what follows it.
KeyKeeps(u, v, k) ==
    /\ InterfaceFine(v) /\ v.catalog.files = u.catalog.files /\ v.peers.list = u.peers.list
    /\ OverlayFollows(u, v, k) /\ TransfersFollow(u, v, k)

\* A command, and one whose answer is of the kind its call has.
Call == {"peers", "catalog", "invite", "join", "download"}

Command ==
    [call : Call, arg : File \cup {0}, made : BOOLEAN, ok : BOOLEAN,
     val : (SUBSET Row) \cup Seq(Peer), ver : Nat]

CommandFine(c) ==
    /\ c \in Command
    /\ c.call = "peers" /\ c.ok => c.val \in Seq(Peer)
    /\ c.call = "catalog" /\ c.ok => c.val \in SUBSET Row

\* What the result of a command does to the model.
ResultDoes(u, v, cmd) ==
    /\ InterfaceFine(v)
    /\ v.catalog.files = IF cmd.call = "catalog" /\ cmd.ok THEN cmd.val ELSE u.catalog.files
    /\ \/ v.peers.list = u.peers.list
       \/ \A i \in 1..Len(v.peers.list) : ~ v.peers.list[i].online
    /\ v.overlay =
         IF cmd.call \in {"invite", "join"} THEN OverlayResult(u.overlay, cmd) ELSE u.overlay
    /\ v.transfers = IF cmd.call = "download" THEN MarkDone(u.transfers, cmd.arg) ELSE u.transfers

\* What an event does to the model: the files, the overlay and the transfers stay; the
\* peers online are those there were, with the peer of a connection's first event,
\* without that of its second.
EventDoes(u, v, e) ==
    /\ InterfaceFine(v) /\ v.catalog = u.catalog /\ v.overlay = u.overlay
    /\ v.transfers = u.transfers /\ FirstOnline(v.peers.list)
    /\ \A i \in 1..Len(v.peers.list) : v.peers.list[i].online =>
          \/ e[1] # Watch /\ e[2] = 1 /\ v.peers.list[i].peer = PeerOf[e[1]]
          \/ /\ e[1] # Watch /\ e[2] = 2 => v.peers.list[i].peer # PeerOf[e[1]]
             /\ \E j \in 1..Len(u.peers.list) :
                   u.peers.list[j].online /\ u.peers.list[j].peer = v.peers.list[i].peer

\* What the rest of the program needs of the panels: what Update does with a result,
\* an event and a key, and that the rows to download and the peers are listed.  It is
\* proved after the panels, and assumed before; the proofs about the program's steps
\* know nothing else of the panels.
ResultsFine == \A u, cmd : InterfaceFine(u) /\ CommandFine(cmd) =>
                  ResultDoes(u, handleResult(u, cmd), cmd)

EventsFine == \A u, e : /\ InterfaceFine(u) /\ FirstOnline(u.peers.list)
                        /\ e[1] = Watch \/ (e[1] \in Link /\ e[2] \in {1, 2})
                        => EventDoes(u, handleEvent(u, e), e)

KeysFine == \A u : InterfaceFine(u) => \A k \in STRING : KeyKeeps(u, handleKey(u, k), k)

RowsListed == \A c : CatalogFine(c) => Wanted(c) \in Seq(Row)

PeersListed == \A S \in SUBSET Peer : InOrder(S) \in Seq(Peer)

StartFine == InterfaceFine(NewModel) /\ FirstOnline(NewModel.peers.list)

UpdateFine == StartFine /\ ResultsFine /\ EventsFine /\ KeysFine /\ RowsListed /\ PeersListed

\* What the panels need of sets of numbers: a least element, and an order in which to
\* show the rows and the peers.  It is proved from the library, which comes in last.
Listable(S) ==
    /\ Cardinality(S) \in Nat
    /\ InOrder(S) \in [1..Cardinality(S) -> S] /\ InOrder(S) \in Seq(S)

SetsFine ==
    /\ \A S \in SUBSET Nat : S # {} => Min(S) \in S /\ \A y \in S : Min(S) <= y
    /\ \A S : S \in SUBSET Row \/ S \in SUBSET Peer => Listable(S)

-----------------------------------------------------------------------------
(***************************************************************************)
(* Sequences: what is joined and what is dropped.                          *)
(***************************************************************************)

\* Its elements are the others.
Without(s, i, d) ==
    /\ \A j \in 1..Len(d) : \E k \in 1..Len(s) : k # i /\ d[j] = s[k]
    /\ \A k \in 1..Len(s) : k # i => \E j \in 1..Len(d) : d[j] = s[k]

\* Two sequences one after the other.
LEMMA ConcatFacts ==
    ASSUME NEW S, NEW a \in Seq(S), NEW b \in Seq(S), NEW c, c = a \o b
    PROVE  /\ c \in Seq(S) /\ Len(c) = Len(a) + Len(b)
           /\ \A i \in 1..Len(a) : c[i] = a[i]
           /\ \A i \in 1..Len(b) : c[Len(a) + i] = b[i]
<1>1. c \in Seq(S) /\ Len(c) = Len(a) + Len(b)
  BY SMT
<1>2. \A i \in 1..Len(a) : c[i] = a[i]
  BY SMT
<1>3. \A i \in 1..Len(b) : c[Len(a) + i] = b[i]
  BY SMT
<1> QED
  BY <1>1, <1>2, <1>3

\* A sequence without the element at one place.
LEMMA DropFacts ==
    ASSUME NEW S, NEW s \in Seq(S), NEW i \in 1..Len(s), NEW d, d = DropAt(s, i)
    PROVE  /\ d \in Seq(S) /\ Len(d) = Len(s) - 1
           /\ \A j \in 1..Len(d) : d[j] = IF j < i THEN s[j] ELSE s[j + 1]
<1>1. SubSeq(s, 1, i - 1) \in Seq(S) /\ Len(SubSeq(s, 1, i - 1)) = i - 1
      /\ \A j \in 1..(i - 1) : SubSeq(s, 1, i - 1)[j] = s[j]
  BY SMT
<1>2. SubSeq(s, i + 1, Len(s)) \in Seq(S) /\ Len(SubSeq(s, i + 1, Len(s))) = Len(s) - i
      /\ \A j \in 1..(Len(s) - i) : SubSeq(s, i + 1, Len(s))[j] = s[i + j]
  BY SMT
<1> DEFINE a == SubSeq(s, 1, i - 1)
           b == SubSeq(s, i + 1, Len(s))
<1>3. d = a \o b
  BY DEF DropAt
<1>4. /\ a \in Seq(S) /\ Len(a) = i - 1 /\ \A j \in 1..(i - 1) : a[j] = s[j]
      /\ b \in Seq(S) /\ Len(b) = Len(s) - i /\ \A j \in 1..(Len(s) - i) : b[j] = s[i + j]
  BY <1>1, <1>2
<1>9. a \in Seq(S) /\ b \in Seq(S)
  BY <1>4
<1> HIDE DEF a, b
<1>5. /\ d \in Seq(S) /\ Len(d) = Len(a) + Len(b)
      /\ \A j \in 1..Len(a) : d[j] = a[j]
      /\ \A j \in 1..Len(b) : d[Len(a) + j] = b[j]
  BY SMTT(20), <1>3, <1>9, ConcatFacts
<1>6. Len(d) = Len(s) - 1
  BY SMT, <1>4, <1>5
<1>7. ASSUME NEW j \in 1..Len(d), j < i PROVE d[j] = s[j]
  BY SMT, <1>4, <1>5, <1>7
<1>8. ASSUME NEW j \in 1..Len(d), ~ (j < i) PROVE d[j] = s[j + 1]
  <2>1. j - (i - 1) \in 1..Len(b) /\ Len(a) + (j - (i - 1)) = j /\ i + (j - (i - 1)) = j + 1
    BY SMT, <1>4, <1>6, <1>8
  <2>2. d[j] = b[j - (i - 1)]
    BY <1>5, <2>1
  <2>3. b[j - (i - 1)] = s[i + (j - (i - 1))]
    BY <1>4, <2>1
  <2> QED
    BY <2>1, <2>2, <2>3
<1> QED
  BY <1>5, <1>6, <1>7, <1>8

\* A sequence from which one element is dropped has the others.
LEMMA DropElements ==
    ASSUME NEW S, NEW s \in Seq(S), NEW i \in 1..Len(s), NEW d, d = DropAt(s, i)
    PROVE  d \in Seq(S) /\ Without(s, i, d)
<1>1. /\ d \in Seq(S) /\ Len(d) = Len(s) - 1
      /\ \A j \in 1..Len(d) : d[j] = IF j < i THEN s[j] ELSE s[j + 1]
  BY SMTT(20), DropFacts
<1>2. ASSUME NEW j \in 1..Len(d) PROVE \E k \in 1..Len(s) : k # i /\ d[j] = s[k]
  <2>1. CASE j < i
    BY SMT, <1>1, <2>1
  <2>2. CASE ~ (j < i)
    <3>1. j + 1 \in 1..Len(s) /\ j + 1 # i
      BY SMT, <1>1, <2>2
    <3> QED
      BY <1>1, <2>2, <3>1
  <2> QED
    BY <2>1, <2>2
<1>3. ASSUME NEW k \in 1..Len(s), k # i PROVE \E j \in 1..Len(d) : d[j] = s[k]
  <2>1. CASE k < i
    <3>1. k \in 1..Len(d)
      BY SMT, <1>1, <2>1
    <3> QED
      BY <1>1, <2>1, <3>1
  <2>2. CASE ~ (k < i)
    <3>1. k - 1 \in 1..Len(d) /\ ~ (k - 1 < i) /\ (k - 1) + 1 = k
      BY SMT, <1>1, <1>3, <2>2
    <3> QED
      BY <1>1, <3>1
  <2> QED
    BY <2>1, <2>2
<1> QED
  BY <1>1, <1>2, <1>3 DEF Without

\* The elements of two sequences one after the other.
Together(a, b, c) ==
    /\ \A i \in 1..Len(c) : (\E j \in 1..Len(a) : c[i] = a[j]) \/ (\E j \in 1..Len(b) : c[i] = b[j])
    /\ \A j \in 1..Len(a) : \E i \in 1..Len(c) : c[i] = a[j]
    /\ \A j \in 1..Len(b) : \E i \in 1..Len(c) : c[i] = b[j]

\* Two sequences one after the other have the elements of both.
LEMMA ConcatElements ==
    \A S : \A a, b \in Seq(S) : a \o b \in Seq(S) /\ Together(a, b, a \o b)
<1> TAKE S
<1> TAKE a, b \in Seq(S)
<1> DEFINE c == a \o b
<1>5. c = a \o b
  BY SMT
<1> HIDE DEF c
<1>1. /\ c \in Seq(S) /\ Len(c) = Len(a) + Len(b)
      /\ \A i \in 1..Len(a) : c[i] = a[i]
      /\ \A i \in 1..Len(b) : c[Len(a) + i] = b[i]
  BY SMTT(20), <1>5, ConcatFacts
<1>2. Len(a) \in Nat /\ Len(b) \in Nat
  BY SMT
<1>3. ASSUME NEW i \in 1..Len(c)
      PROVE  (\E j \in 1..Len(a) : c[i] = a[j]) \/ (\E j \in 1..Len(b) : c[i] = b[j])
  <2>1. CASE i <= Len(a)
    BY SMT, <1>1, <1>2, <2>1
  <2>2. CASE ~ (i <= Len(a))
    <3>1. i - Len(a) \in 1..Len(b) /\ Len(a) + (i - Len(a)) = i
      BY SMT, <1>1, <1>2, <2>2
    <3> QED
      BY <1>1, <3>1
  <2> QED
    BY <2>1, <2>2
<1>4. (\A j \in 1..Len(a) : j \in 1..Len(c)) /\ (\A j \in 1..Len(b) : Len(a) + j \in 1..Len(c))
  BY SMT, <1>1, <1>2
<1>6. c \in Seq(S) /\ Together(a, b, c)
  BY <1>1, <1>3, <1>4 DEF Together
<1> QED
  BY <1>6 DEF c

-----------------------------------------------------------------------------
(***************************************************************************)
(* The panels: UpdateFine.                                                 *)
(***************************************************************************)

\* What is neither a panel, an overlay nor a transfer is changed.
LEMMA WithRest ==
    ASSUME NEW u, InterfaceFine(u), NEW v,
           \/ \E f \in {"catalog", "peers"} : v = [u EXCEPT !.focus = f]
           \/ \E h \in Int : v = [u EXCEPT !.height = h]
           \/ \E b \in BOOLEAN : \/ v = [u EXCEPT !.progress = b]
                               \/ v = [u EXCEPT !.err = b]
                               \/ v = [u EXCEPT !.quitting = b]
    PROVE  /\ InterfaceFine(v) /\ v.catalog = u.catalog /\ v.peers = u.peers
           /\ v.transfers = u.transfers /\ v.overlay = u.overlay
<1> DEFINE Goal == /\ v \in Interface /\ v.catalog = u.catalog /\ v.peers = u.peers
                   /\ v.transfers = u.transfers /\ v.overlay = u.overlay
<1>1. u \in Interface
  BY DEF InterfaceFine
<1>2. ASSUME NEW f \in {"catalog", "peers"}, v = [u EXCEPT !.focus = f] PROVE Goal
  BY SMT, <1>1, <1>2 DEF Interface
<1>3. ASSUME NEW h \in Int, v = [u EXCEPT !.height = h] PROVE Goal
  BY SMT, <1>1, <1>3 DEF Interface
<1>4. ASSUME NEW b \in BOOLEAN, v = [u EXCEPT !.progress = b] PROVE Goal
  BY SMT, <1>1, <1>4 DEF Interface
<1>5. ASSUME NEW b \in BOOLEAN, v = [u EXCEPT !.err = b] PROVE Goal
  BY SMT, <1>1, <1>5 DEF Interface
<1>6. ASSUME NEW b \in BOOLEAN, v = [u EXCEPT !.quitting = b] PROVE Goal
  BY SMT, <1>1, <1>6 DEF Interface
<1> HIDE DEF Goal
<1>7. Goal
  BY <1>2, <1>3, <1>4, <1>5, <1>6
<1> QED
  BY <1>7 DEF InterfaceFine, Goal

\* The entries that a download adds, one for each row.
LEMMA AddFacts ==
    ASSUME NEW t \in Seq(Transfer), NEW w \in Seq(Row)
    PROVE  /\ AddTransfers(t, w) \in Seq(Transfer) /\ Len(AddTransfers(t, w)) = Len(t) + Len(w)
           /\ \A i \in 1..Len(t) : AddTransfers(t, w)[i] = t[i]
           /\ \A i \in 1..Len(w) : /\ AddTransfers(t, w)[Len(t) + i].file = FileOf[w[i]]
                                   /\ ~ AddTransfers(t, w)[Len(t) + i].done
<1> DEFINE a == [i \in 1..Len(w) |-> [file |-> FileOf[w[i]], done |-> FALSE]]
<1>1. \A i \in 1..Len(w) : w[i] \in Row
  BY SMT
<1>2. \A i \in 1..Len(w) : FileOf[w[i]] \in File
  BY <1>1 DEF File
<1>3. a \in Seq(Transfer)
  BY SMT, <1>2 DEF Transfer
<1>4. Len(a) = Len(w) /\ \A i \in 1..Len(w) : a[i].file = FileOf[w[i]] /\ ~ a[i].done
  BY SMT, <1>2 DEF Transfer
<1> DEFINE r == AddTransfers(t, w)
<1>5. r = t \o a
  BY DEF AddTransfers
<1> HIDE DEF a, r
<1>6. /\ r \in Seq(Transfer) /\ Len(r) = Len(t) + Len(a)
      /\ \A i \in 1..Len(t) : r[i] = t[i]
      /\ \A i \in 1..Len(a) : r[Len(t) + i] = a[i]
  BY SMTT(20), <1>3, <1>5, ConcatFacts
<1>7. /\ r \in Seq(Transfer) /\ Len(r) = Len(t) + Len(w)
      /\ \A i \in 1..Len(t) : r[i] = t[i]
      /\ \A i \in 1..Len(w) : r[Len(t) + i].file = FileOf[w[i]] /\ ~ r[Len(t) + i].done
  BY <1>4, <1>6
<1> QED
  BY <1>7 DEF r

\* MarkDone marks at most one entry, the first of the file.
LEMMA MarkFacts ==
    ASSUME SetsFine, NEW t \in Seq(Transfer), NEW f
    PROVE  /\ MarkDone(t, f) \in Seq(Transfer) /\ Len(MarkDone(t, f)) = Len(t)
           /\ \/ MarkDone(t, f) = t /\ \A i \in 1..Len(t) : t[i].file # f
              \/ \E m \in 1..Len(t) :
                   /\ t[m].file = f /\ MarkDone(t, f)[m].file = f /\ MarkDone(t, f)[m].done
                   /\ \A i \in 1..Len(t) : i # m => MarkDone(t, f)[i] = t[i]
<1> DEFINE of == {i \in 1..Len(t) : t[i].file = f}
           m == Min(of)
           d == MarkDone(t, f)
<1>1. CASE of = {}
  <2>1. d = t
    BY <1>1 DEF MarkDone
  <2>2. \A i \in 1..Len(t) : t[i].file # f
    BY <1>1
  <2> QED
    BY <2>1, <2>2
<1>2. CASE of # {}
  <2>1. d = [t EXCEPT ![m].done = TRUE]
    BY <1>2 DEF MarkDone
  <2>2. of \in SUBSET Nat
    BY SMT
  <2>3. m \in of
    BY <1>2, <2>2 DEF SetsFine
  <2>4. m \in 1..Len(t) /\ t[m].file = f
    BY <2>3
  <2> HIDE DEF m, d
  <2> DEFINE e == [t[m] EXCEPT !.done = TRUE]
  <2>5. e \in Transfer /\ e.file = f /\ e.done
    <3>1. t[m] \in Transfer
      BY SMT, <2>4
    <3> QED
      BY <2>4, <3>1 DEF Transfer
  <2>6. d = [t EXCEPT ![m] = e]
    BY <2>1
  <2> HIDE DEF e
  <2>7. d \in Seq(Transfer) /\ Len(d) = Len(t) /\ d[m] = e
          /\ \A i \in 1..Len(t) : i # m => d[i] = t[i]
    BY SMT, <2>4, <2>5, <2>6
  <2> QED
    BY <2>4, <2>5, <2>7 DEF d
<1> QED
  BY <1>1, <1>2

\* The panels do what the rest of the program needs of them.
LEMMA Updates ==
    ASSUME SetsFine PROVE UpdateFine
\* A sequence over a set is one over a larger set.
<1>SeqWider.
      ASSUME NEW S, NEW T, S \subseteq T, NEW s \in Seq(S)
      PROVE  s \in Seq(T)
  BY SMT, <1>SeqWider
\* The greater of two numbers.
<1>MaxOfTwo.
      ASSUME NEW a \in Int, NEW b \in Int
      PROVE  Max({a, b}) = IF a >= b THEN a ELSE b
  <2> USE <1>MaxOfTwo
  <2> DEFINE m == IF a >= b THEN a ELSE b
  <2>1. m \in {a, b} /\ \A y \in {a, b} : m >= y
    BY SMT
  <2>2. \A x \in {a, b} : (\A y \in {a, b} : x >= y) => x = m
    BY SMT
  <2> HIDE DEF m
  <2>3. Max({a, b}) = m
    BY <2>1, <2>2 DEF Max
  <2> QED
    BY <2>3 DEF m
\* The lesser of two numbers.
<1>MinOfTwo.
      ASSUME NEW a \in Int, NEW b \in Int
      PROVE  Min({a, b}) = IF a <= b THEN a ELSE b
  <2> USE <1>MinOfTwo
  <2> DEFINE m == IF a <= b THEN a ELSE b
  <2>1. m \in {a, b} /\ \A y \in {a, b} : m <= y
    BY SMT
  <2>2. \A x \in {a, b} : (\A y \in {a, b} : x <= y) => x = m
    BY SMT
  <2> HIDE DEF m
  <2>3. Min({a, b}) = m
    BY <2>1, <2>2 DEF Min
  <2> QED
    BY <2>3 DEF m
\* A clamped cursor is in its list.
<1>ClampedFacts.
      ASSUME NEW cursor \in Int, NEW n \in Nat
      PROVE  Clamped(cursor, n) \in 0..Max({0, n - 1}) /\ Clamped(cursor, n) \in Nat
  <2> USE <1>ClampedFacts
  <2>1. Max({0, n - 1}) = IF 0 >= n - 1 THEN 0 ELSE n - 1
    BY SMT, <1>MaxOfTwo
  <2>2. Min({cursor, n - 1}) = IF cursor <= n - 1 THEN cursor ELSE n - 1
    BY SMT, <1>MinOfTwo
  <2> DEFINE v == Min({cursor, n - 1})
  <2>3. v \in Int
    BY SMT, <2>2
  <2>4. Max({0, v}) = IF 0 >= v THEN 0 ELSE v
    BY SMT, <2>3, <1>MaxOfTwo
  <2>5. Clamped(cursor, n) = IF n = 0 THEN 0 ELSE Max({0, v})
    BY DEF Clamped
  <2> QED
    BY SMT, <2>1, <2>2, <2>3, <2>4, <2>5
\* What is visible depends on the files and on the search only.
<1>VisibleSame.
      ASSUME NEW c, NEW d, c.files = d.files, c.search = d.search, c.searching = d.searching
      PROVE  Visible(c) = Visible(d)
  BY <1>VisibleSame DEF Visible, Filtered
\* What is visible is part of the files.
<1>VisibleFinite.
      ASSUME NEW c, c.files \in SUBSET Row
      PROVE  Visible(c) \subseteq Row /\ Cardinality(Visible(c)) \in Nat
  <2> USE <1>VisibleFinite
  <2>1. Visible(c) \subseteq Row
    BY DEF Visible, Filtered
  <2> QED
    BY <2>1 DEF SetsFine, Listable
\* clampCursor brings the cursor into the list and leaves the rest.
<1>ClampFacts.
      ASSUME NEW c \in CatalogRecord(Int)
      PROVE  CatalogFine(clampCursor(c)) /\ clampCursor(c).files = c.files
  <2> USE <1>ClampFacts
  <2> DEFINE n == Cardinality(Visible(c))
             v == Clamped(c.cursor, n)
             d == [c EXCEPT !.cursor = v]
  <2>1. c.files \in SUBSET Row /\ c.cursor \in Int
    BY SMT DEF CatalogRecord
  <2>2. n \in Nat
    BY <2>1, <1>VisibleFinite
  <2>3. v \in 0..Max({0, n - 1}) /\ v \in Nat
    BY <2>1, <2>2, <1>ClampedFacts
  <2>4. clampCursor(c) = d
    BY DEF clampCursor
  <2> HIDE DEF v
  <2>5. /\ d \in CatalogRecord(Nat) /\ d.cursor = v /\ d.files = c.files /\ d.search = c.search
        /\ d.searching = c.searching
    BY SMT, <2>3 DEF CatalogRecord
  <2> HIDE DEF d
  <2>6. Visible(d) = Visible(c)
    BY <2>5, <1>VisibleSame
  <2> QED
    BY <2>3, <2>4, <2>5, <2>6 DEF CatalogFine
\* The first place of a list and its last are in it.
<1>EndsInList.
      ASSUME NEW n \in Nat
      PROVE  /\ Max({0, n - 1}) \in Nat /\ 0 \in 0..Max({0, n - 1})
             /\ Max({0, n - 1}) \in 0..Max({0, n - 1})
  <2> USE <1>EndsInList
  <2>1. Max({0, n - 1}) = IF 0 >= n - 1 THEN 0 ELSE n - 1
    BY SMT, <1>MaxOfTwo
  <2> QED
    BY SMT, <2>1
\* The file panel is replaced.
<1>WithCatalog.
      ASSUME NEW u, InterfaceFine(u), NEW c, CatalogFine(c), NEW v, v = [u EXCEPT !.catalog = c]
      PROVE  /\ InterfaceFine(v) /\ v.catalog = c /\ v.peers = u.peers /\ v.transfers = u.transfers
             /\ v.overlay = u.overlay /\ v.quitting = u.quitting /\ v.height = u.height
  <2> USE <1>WithCatalog
  <2>1. u \in Interface /\ c \in CatalogRecord(Nat)
    BY DEF InterfaceFine, CatalogFine
  <2>2. /\ v \in Interface /\ v.catalog = c /\ v.peers = u.peers /\ v.transfers = u.transfers
        /\ v.overlay = u.overlay /\ v.quitting = u.quitting /\ v.height = u.height
    BY SMTT(20), <2>1 DEF Interface
  <2> QED
    BY <2>2 DEF InterfaceFine
\* The peer panel is replaced.
<1>WithPeers.
      ASSUME NEW u, InterfaceFine(u), NEW p, PeersFine(p), NEW v, v = [u EXCEPT !.peers = p]
      PROVE  /\ InterfaceFine(v) /\ v.catalog = u.catalog /\ v.peers = p /\ v.transfers = u.transfers
             /\ v.overlay = u.overlay /\ v.quitting = u.quitting /\ v.height = u.height
  <2> USE <1>WithPeers
  <2>1. u \in Interface /\ p \in PeersRecord
    BY DEF InterfaceFine, PeersFine
  <2>2. /\ v \in Interface /\ v.catalog = u.catalog /\ v.peers = p /\ v.transfers = u.transfers
        /\ v.overlay = u.overlay /\ v.quitting = u.quitting /\ v.height = u.height
    BY SMTT(20), <2>1 DEF Interface
  <2> QED
    BY <2>2 DEF InterfaceFine
\* The overlay is replaced.
<1>WithOverlay.
      ASSUME NEW u, InterfaceFine(u), NEW o \in Overlay, NEW v, v = [u EXCEPT !.overlay = o]
      PROVE  /\ InterfaceFine(v) /\ v.catalog = u.catalog /\ v.peers = u.peers
             /\ v.transfers = u.transfers /\ v.overlay = o /\ v.quitting = u.quitting
  <2> USE <1>WithOverlay
  <2>1. u \in Interface
    BY DEF InterfaceFine
  <2>2. /\ v \in Interface /\ v.catalog = u.catalog /\ v.peers = u.peers /\ v.transfers = u.transfers
        /\ v.overlay = o /\ v.quitting = u.quitting
    BY SMTT(20), <2>1 DEF Interface
  <2> QED
    BY <2>2 DEF InterfaceFine
\* The transfers are replaced.
<1>WithTransfers.
      ASSUME NEW u, InterfaceFine(u), NEW t \in Seq(Transfer), NEW v, v = [u EXCEPT !.transfers = t]
      PROVE  /\ InterfaceFine(v) /\ v.catalog = u.catalog /\ v.peers = u.peers
             /\ v.transfers = t /\ v.overlay = u.overlay
  <2> USE <1>WithTransfers
  <2>1. u \in Interface
    BY DEF InterfaceFine
  <2>2. /\ v \in Interface /\ v.catalog = u.catalog /\ v.peers = u.peers /\ v.transfers = t
        /\ v.overlay = u.overlay
    BY SMTT(20), <2>1 DEF Interface
  <2> QED
    BY <2>2 DEF InterfaceFine
\* The rows to download, each with a file.
<1>WantedFacts. RowsListed
  <2> SUFFICES ASSUME NEW c, CatalogFine(c) PROVE Wanted(c) \in Seq(Row)
    BY DEF RowsListed
  <2> DEFINE S == {r \in SelectedFiles(c) : ~ LocalRow[r]}
  <2>1. c.files \in SUBSET Row
    BY SMT DEF CatalogFine, CatalogRecord
  <2>2. S \subseteq Row
    <3>1. Visible(c) \subseteq Row
      BY <2>1, <1>VisibleFinite
    <3> QED
      BY <3>1 DEF SelectedFiles
  <2>3. InOrder(S) \in Seq(S)
    BY <2>2 DEF SetsFine, Listable
  <2>4. Wanted(c) = InOrder(S)
    BY DEF Wanted
  <2> HIDE DEF S
  <2> QED
    BY <2>2, <2>3, <2>4, <1>SeqWider
\* Every key.
<1>KeyFacts. KeysFine
  \* A panel's cursor may be anywhere before it is clamped.
  <2>CatalogWider. CatalogRecord(Nat) \subseteq CatalogRecord(Int)
    BY SMT DEF CatalogRecord
  \* scrollToCursor changes the offset at most.
  <2>ScrollFacts.
        ASSUME NEW c, c.cursor \in Nat, c.offset \in Nat, NEW h \in Int
        PROVE  scrollToCursor(c, h) = c \/ \E o \in Nat :
                 scrollToCursor(c, h) = [c EXCEPT !.offset = o]
    <3> USE <2>ScrollFacts
    <3> DEFINE o == IF c.cursor < c.offset THEN c.cursor ELSE c.offset
               p == IF c.cursor >= o + h THEN c.cursor - h + 1 ELSE o
    <3>1. CASE h <= 0
      BY <3>1 DEF scrollToCursor
    <3>2. CASE ~ (h <= 0)
      <4>1. p \in Nat
        BY SMT, <3>2
      <4>2. scrollToCursor(c, h) = [c EXCEPT !.offset = p]
        BY <3>2 DEF scrollToCursor
      <4> HIDE DEF p
      <4> QED
        BY <4>1, <4>2
    <3> QED
      BY <3>1, <3>2
  \* Scrolling the file panel leaves the cursor in the list.
  <2>ScrollCatalog.
        ASSUME NEW c, CatalogFine(c), NEW h \in Int
        PROVE  CatalogFine(scrollToCursor(c, h)) /\ scrollToCursor(c, h).files = c.files
    <3> USE <2>ScrollCatalog
    <3>1. c \in CatalogRecord(Nat) /\ c.cursor \in Nat /\ c.offset \in Nat
      BY SMT DEF CatalogFine, CatalogRecord
    <3>2. ASSUME NEW o \in Nat, scrollToCursor(c, h) = [c EXCEPT !.offset = o]
          PROVE  CatalogFine(scrollToCursor(c, h)) /\ scrollToCursor(c, h).files = c.files
      <4> DEFINE d == [c EXCEPT !.offset = o]
      <4>1. /\ d \in CatalogRecord(Nat) /\ d.cursor = c.cursor /\ d.files = c.files
            /\ d.search = c.search /\ d.searching = c.searching
        BY SMT, <3>1 DEF CatalogRecord
      <4> HIDE DEF d
      <4>2. Visible(d) = Visible(c)
        BY <4>1, <1>VisibleSame
      <4>3. CatalogFine(d)
        BY <4>1, <4>2 DEF CatalogFine
      <4>4. scrollToCursor(c, h) = d
        BY <3>2 DEF d
      <4> QED
        BY <4>1, <4>3, <4>4
    <3>3. scrollToCursor(c, h) = c \/ \E o \in Nat : scrollToCursor(c, h) = [c EXCEPT !.offset = o]
      BY <3>1, <2>ScrollFacts
    <3> QED
      BY <3>2, <3>3
  \* moveCursor keeps the cursor in the list.
  <2>MoveFacts.
        ASSUME NEW c, CatalogFine(c), NEW h \in Int, NEW d \in Int
        PROVE  CatalogFine(moveCursor(c, h, d)) /\ moveCursor(c, h, d).files = c.files
    <3> USE <2>MoveFacts
    <3> DEFINE e == [c EXCEPT !.cursor = @ + d]
    <3>1. e \in CatalogRecord(Int) /\ e.files = c.files
      BY SMT DEF CatalogFine, CatalogRecord
    <3> HIDE DEF e
    <3>2. CatalogFine(clampCursor(e)) /\ clampCursor(e).files = c.files
      BY <3>1, <1>ClampFacts
    <3>3. moveCursor(c, h, d) = scrollToCursor(clampCursor(e), h)
      BY DEF moveCursor, e
    <3> QED
      BY <3>2, <3>3, <2>ScrollCatalog
  \* toggleSelection changes the selection, by a file of the list.
  <2>ToggleFacts.
        ASSUME NEW c, CatalogFine(c)
        PROVE  CatalogFine(toggleSelection(c)) /\ toggleSelection(c).files = c.files
    <3> USE <2>ToggleFacts
    <3> DEFINE n == Cardinality(Visible(c))
               s == VisibleSeq(c)
               f == FileOf[s[c.cursor + 1]]
               sel == IF f \in c.selected THEN c.selected \ {f} ELSE c.selected \cup {f}
               d == [c EXCEPT !.selected = sel]
    <3>1. c \in CatalogRecord(Nat) /\ c.files \in SUBSET Row /\ c.selected \in SUBSET File
            /\ c.cursor \in Nat
      BY SMT DEF CatalogFine, CatalogRecord
    <3>2. CASE c.cursor >= n
      BY <3>2 DEF toggleSelection
    <3>3. CASE ~ (c.cursor >= n)
      <4>1. n \in Nat /\ Visible(c) \subseteq Row /\ s \in [1..n -> Visible(c)]
        BY <3>1, <1>VisibleFinite DEF VisibleSeq, SetsFine, Listable
      <4>2. c.cursor + 1 \in 1..n
        <5> HIDE DEF n
        <5> QED
          BY SMT, <3>1, <3>3, <4>1
      <4>3. f \in File
        BY <4>1, <4>2 DEF File
      <4>4. sel \in SUBSET File
        BY <3>1, <4>3
      <4>5. toggleSelection(c) = d
        BY <3>3 DEF toggleSelection
      <4> HIDE DEF sel
      <4>6. /\ d \in CatalogRecord(Nat) /\ d.cursor = c.cursor /\ d.files = c.files
            /\ d.search = c.search /\ d.searching = c.searching
        BY SMT, <3>1, <4>4 DEF CatalogRecord
      <4> HIDE DEF d
      <4>7. Visible(d) = Visible(c)
        BY <4>6, <1>VisibleSame
      <4> QED
        BY <4>5, <4>6, <4>7 DEF CatalogFine
    <3> QED
      BY <3>2, <3>3
  \* The empty search.
  <2>EmptySeq. <<>> \in Seq(STRING)
    BY SMT
  \* Moving the cursor to a place of the list, with the viewport or without.
  <2>PlaceFacts.
        ASSUME NEW c, CatalogFine(c), NEW v \in 0..Max({0, Cardinality(Visible(c)) - 1}), v \in Nat
        PROVE  CatalogFine([c EXCEPT !.cursor = v]) /\ [c EXCEPT !.cursor = v].files = c.files
    <3> USE <2>PlaceFacts
    <3> DEFINE d == [c EXCEPT !.cursor = v]
    <3>1. c \in CatalogRecord(Nat)
      BY SMT DEF CatalogFine
    <3>2. /\ d \in CatalogRecord(Nat) /\ d.cursor = v /\ d.files = c.files
          /\ d.search = c.search /\ d.searching = c.searching
      BY SMT, <3>1 DEF CatalogRecord
    <3> HIDE DEF d
    <3>3. Visible(d) = Visible(c)
      BY <3>2, <1>VisibleSame
    <3>4. CatalogFine(d)
      BY <3>2, <3>3 DEF CatalogFine
    <3> QED
      BY <3>2, <3>4 DEF d
  \* The search keeps the cursor in the list.
  <2>SearchFacts.
        ASSUME NEW c, CatalogFine(c), NEW h \in Int, NEW k \in STRING
        PROVE  CatalogFine(updateSearch(c, h, k)) /\ updateSearch(c, h, k).files = c.files
    <3> USE <2>SearchFacts
    <3> DEFINE Goal(d) == CatalogFine(d) /\ d.files = c.files
    <3>1. c \in CatalogRecord(Nat) /\ c \in CatalogRecord(Int) /\ c.search \in Seq(STRING)
            /\ c.files \in SUBSET Row
      BY SMT, <2>CatalogWider DEF CatalogFine, CatalogRecord
    <3>2. Goal(clampCursor([c EXCEPT !.searching = FALSE, !.search = <<>>]))
      <4> DEFINE d == [c EXCEPT !.searching = FALSE, !.search = <<>>]
      <4>1. d \in CatalogRecord(Int) /\ d.files = c.files
        BY <3>1, <2>EmptySeq DEF CatalogRecord
      <4> HIDE DEF d
      <4>2. Goal(clampCursor(d))
        BY <4>1, <1>ClampFacts
      <4> QED
        BY <4>2 DEF d
    <3>3. ASSUME c.search # <<>>
          PROVE  Goal(clampCursor([c EXCEPT !.search = SubSeq(@, 1, Len(@) - 1)]))
      <4> DEFINE t == SubSeq(c.search, 1, Len(c.search) - 1)
                 d == [c EXCEPT !.search = t]
      <4>1. t \in Seq(STRING)
        BY SMT, <3>1
      <4> HIDE DEF t
      <4>2. d \in CatalogRecord(Int) /\ d.files = c.files
        BY SMTT(20), <3>1, <4>1 DEF CatalogRecord
      <4> HIDE DEF d
      <4>3. Goal(clampCursor(d))
        BY <4>2, <1>ClampFacts
      <4> QED
        BY <4>3 DEF d, t
    <3>4. Goal([c EXCEPT !.search = Append(@, k), !.cursor = 0, !.offset = 0])
      <4> DEFINE t == Append(c.search, k)
                 d == [c EXCEPT !.search = t, !.cursor = 0, !.offset = 0]
      <4>1. t \in Seq(STRING)
        BY SMT, <3>1
      <4> HIDE DEF t
      <4>2. d \in CatalogRecord(Nat) /\ d.files = c.files /\ d.cursor = 0
        BY <3>1, <4>1 DEF CatalogRecord
      <4> HIDE DEF d
      <4>3. Cardinality(Visible(d)) \in Nat
        BY <3>1, <4>2, <1>VisibleFinite
      <4>4. Goal(d)
        BY <4>2, <4>3, <1>EndsInList DEF CatalogFine
      <4> QED
        BY <4>4 DEF d, t
    <3>5. Goal(moveCursor(c, h, 1)) /\ Goal(moveCursor(c, h, -1))
      <4>1. 1 \in Int /\ -1 \in Int
        BY SMT
      <4> QED
        BY <4>1, <2>MoveFacts
    <3>6. Goal(c)
      BY SMT
    <3> HIDE DEF Goal
    <3>7. Goal(updateSearch(c, h, k))
      BY SMTT(30), <3>2, <3>3, <3>4, <3>5, <3>6 DEF updateSearch
    <3> QED
      BY <3>7 DEF Goal
  \* So does every key of the file panel.
  <2>CatalogKeyFacts.
        ASSUME NEW c, CatalogFine(c), NEW h \in Int, NEW k \in STRING
        PROVE  CatalogFine(CatalogKey(c, h, k)) /\ CatalogKey(c, h, k).files = c.files
    <3> USE <2>CatalogKeyFacts
    <3> DEFINE Goal(d) == CatalogFine(d) /\ d.files = c.files
               n == Cardinality(Visible(c))
    <3>1. c \in CatalogRecord(Nat) /\ c.files \in SUBSET Row
      BY SMT DEF CatalogFine, CatalogRecord
    <3>2. n \in Nat
      BY <3>1, <1>VisibleFinite
    <3>3. Goal(updateSearch(c, h, k))
      BY <2>SearchFacts
    <3>4. /\ Goal(moveCursor(c, h, 1)) /\ Goal(moveCursor(c, h, -1))
          /\ Goal(moveCursor(c, h, h \div 2)) /\ Goal(moveCursor(c, h, -(h \div 2)))
      <4>1. 1 \in Int /\ -1 \in Int /\ h \div 2 \in Int /\ -(h \div 2) \in Int
        BY SMT
      <4> QED
        BY <4>1, <2>MoveFacts
    <3>5. ASSUME NEW v \in 0..Max({0, n - 1}), v \in Nat
          PROVE  Goal(scrollToCursor([c EXCEPT !.cursor = v], h))
      <4> DEFINE d == [c EXCEPT !.cursor = v]
      <4>1. Goal(d)
        BY SMT, <3>5, <2>PlaceFacts
      <4> HIDE DEF d
      <4>2. Goal(scrollToCursor(d, h))
        BY <4>1, <2>ScrollCatalog
      <4> QED
        BY <4>2 DEF d
    <3>6. /\ Goal(scrollToCursor([c EXCEPT !.cursor = 0], h))
          /\ Goal(scrollToCursor([c EXCEPT !.cursor = Max({0, n - 1})], h))
      <4>1. /\ 0 \in 0..Max({0, n - 1}) /\ 0 \in Nat
            /\ Max({0, n - 1}) \in 0..Max({0, n - 1}) /\ Max({0, n - 1}) \in Nat
        BY SMT, <3>2, <1>EndsInList
      <4> HIDE DEF Goal, n
      <4> QED
        BY <3>5, <4>1
    <3>7. ASSUME ~ c.searching PROVE Goal([c EXCEPT !.searching = TRUE, !.search = <<>>])
      <4> DEFINE d == [c EXCEPT !.searching = TRUE, !.search = <<>>]
      <4>1. d \in CatalogRecord(Nat) /\ d.files = c.files /\ d.cursor = c.cursor /\ d.search = <<>>
        BY <3>1, <2>EmptySeq DEF CatalogRecord
      <4> HIDE DEF d
      <4>2. Visible(d) = Visible(c)
        BY <3>7, <4>1 DEF Visible
      <4>3. Goal(d)
        BY <4>1, <4>2 DEF CatalogFine
      <4> QED
        BY <4>3 DEF d
    <3>8. Goal(toggleSelection(c)) /\ Goal(c)
      BY <2>ToggleFacts
    <3> HIDE DEF Goal
    <3>9. Goal(CatalogKey(c, h, k))
      BY SMT, <3>3, <3>4, <3>6, <3>7, <3>8 DEF CatalogKey
    <3> QED
      BY <3>9 DEF Goal
  \* Moving the cursor of the peer panel.
  <2>PeerPlace.
        ASSUME NEW p, PeersFine(p), NEW v \in 0..Max({0, Len(p.list) - 1}), v \in Nat, NEW h \in Int
        PROVE  /\ PeersFine(scrollToCursor([p EXCEPT !.cursor = v], h))
               /\ scrollToCursor([p EXCEPT !.cursor = v], h).list = p.list
    <3> USE <2>PeerPlace
    <3> DEFINE q == [p EXCEPT !.cursor = v]
               s == scrollToCursor(q, h)
    <3>1. p \in PeersRecord
      BY SMT DEF PeersFine
    <3>2. q \in PeersRecord /\ q.cursor = v /\ q.list = p.list /\ q.offset \in Nat
      BY SMT, <3>1 DEF PeersRecord
    <3> HIDE DEF q
    <3>3. s = q \/ \E o \in Nat : s = [q EXCEPT !.offset = o]
      BY <3>2, <2>ScrollFacts
    <3> HIDE DEF s
    <3>4. s \in PeersRecord /\ s.cursor = v /\ s.list = p.list
      BY SMT, <3>2, <3>3 DEF PeersRecord
    <3>5. PeersFine(s) /\ s.list = p.list
      BY <3>4 DEF PeersFine
    <3> QED
      BY <3>5 DEF s, q
  \* Every key of the peer panel moves the cursor in the list at most.
  <2>PeerKeyFacts.
        ASSUME NEW p, PeersFine(p), NEW h \in Int, NEW k \in STRING
        PROVE  PeersFine(PeerKey(p, h, k)) /\ PeerKey(p, h, k).list = p.list
    <3> USE <2>PeerKeyFacts
    <3> DEFINE n == Len(p.list)
               To(i) == scrollToCursor([p EXCEPT !.cursor = i], h)
               Goal(q) == PeersFine(q) /\ q.list = p.list
    <3>1. n \in Nat /\ p.cursor + 1 \in Int /\ p.cursor - 1 \in Int
      BY SMT DEF PeersFine, PeersRecord
    <3>2. ASSUME NEW v \in 0..Max({0, n - 1}), v \in Nat
          PROVE  Goal(To(v))
      BY <3>2, <2>PeerPlace
    <3>3. /\ Clamped(p.cursor + 1, n) \in 0..Max({0, n - 1}) /\ Clamped(p.cursor + 1, n) \in Nat
          /\ Clamped(p.cursor - 1, n) \in 0..Max({0, n - 1}) /\ Clamped(p.cursor - 1, n) \in Nat
      <4> HIDE DEF n
      <4> QED
        BY <3>1, <1>ClampedFacts
    <3>4. /\ 0 \in 0..Max({0, n - 1}) /\ 0 \in Nat
          /\ Max({0, n - 1}) \in 0..Max({0, n - 1}) /\ Max({0, n - 1}) \in Nat
      <4> HIDE DEF n
      <4> QED
        BY SMT, <3>1, <1>EndsInList
    <3>5. Goal(p)
      BY SMT
    <3>6. PeerKey(p, h, k) = CASE k \in {"j", "down"} -> To(Clamped(p.cursor + 1, n))
                                [] k \in {"k", "up"} -> To(Clamped(p.cursor - 1, n))
                                [] k = "g" -> To(0)
                                [] k = "G" -> To(Max({0, n - 1}))
                                [] OTHER -> p
      BY DEF PeerKey
    <3> HIDE DEF Goal, To, n
    <3>7. Goal(To(Clamped(p.cursor + 1, n))) /\ Goal(To(Clamped(p.cursor - 1, n)))
          /\ Goal(To(0)) /\ Goal(To(Max({0, n - 1})))
      BY <3>2, <3>3, <3>4
    <3>8. Goal(PeerKey(p, h, k))
      BY SMT, <3>5, <3>6, <3>7
    <3> QED
      BY <3>8 DEF Goal
  \* Overlays keep their type.
  <2>OverlayFacts.
        ASSUME NEW o \in Overlay, NEW k \in STRING
        PROVE  OverlayKey(o, k) \in Overlay
    <3> USE <2>OverlayFacts
    <3>1. /\ o.text \in Nat /\ o.result \in {"none", "ok", "err"} /\ o.loading \in BOOLEAN
          /\ o.kind \in {"none", "help", "detail", "confirm", "invite", "join"}
      BY SMT DEF Overlay
    <3>2. NoOverlay \in Overlay
      BY SMT DEF NoOverlay, Overlay
    <3>3. \A t \in Nat : [o EXCEPT !.text = t] \in Overlay
      BY SMT DEF Overlay
    <3>4. JoinInput(o, k) \in Overlay
      <4> DEFINE t == CASE k \in Rune -> o.text + 1
                        [] k = "backspace" -> Max({0, o.text - 1})
                        [] k = "ctrl+u" -> 0
                        [] OTHER -> o.text
      <4>1. Max({0, o.text - 1}) \in Nat
        BY SMT, <3>1, <1>EndsInList
      <4>2. t \in Nat
        BY SMT, <3>1, <4>1
      <4>3. JoinInput(o, k) = o \/ JoinInput(o, k) = [o EXCEPT !.text = t]
        BY DEF JoinInput
      <4> HIDE DEF t
      <4> QED
        BY <3>3, <4>2, <4>3
    <3>5. /\ [o EXCEPT !.result = IF @ = "ok" THEN @ ELSE "err"] \in Overlay
          /\ [o EXCEPT !.loading = TRUE, !.result = IF @ = "ok" THEN @ ELSE "none"] \in Overlay
      BY <3>1 DEF Overlay
    <3> QED
      BY <3>2, <3>4, <3>5 DEF OverlayKey
  \* The kinds of overlays there are.
  <2>NewOverlayFacts.
        ASSUME NEW k \in {"help", "detail", "confirm", "invite", "join"}
        PROVE  /\ NewOverlay(k) \in Overlay /\ NewOverlay(k).kind = k
               /\ NewOverlay(k).loading <=> k = "invite"
    BY <2>NewOverlayFacts DEF NewOverlay, NoOverlay, Overlay
  \* startDownloads, in two steps.
  <2>StartForm.
        ASSUME NEW u
        PROVE  startDownloads(u) =
                 [[u EXCEPT !.transfers = AddTransfers(@, Wanted(u.catalog))]
                    EXCEPT !.progress = u.progress \/ Wanted(u.catalog) # <<>>]
    BY <2>StartForm DEF startDownloads
  \* A key handled by the panel in focus: the files, the peers and the transfers stay,
  \* and an overlay that it opens does not load.
  <2>PanelKeyFacts.
        ASSUME NEW u, InterfaceFine(u), NEW k \in STRING
        PROVE  LET v == PanelKey(u, k)
               IN  /\ InterfaceFine(v) /\ v.catalog.files = u.catalog.files
                   /\ v.peers.list = u.peers.list /\ v.transfers = u.transfers
                   /\ v.overlay = u.overlay \/ ~ v.overlay.loading
    <3> USE <2>PanelKeyFacts
    <3> DEFINE Goal(v) == /\ InterfaceFine(v) /\ v.catalog.files = u.catalog.files
                          /\ v.peers.list = u.peers.list /\ v.transfers = u.transfers
                          /\ v.overlay = u.overlay \/ ~ v.overlay.loading
    <3>1. CatalogFine(u.catalog) /\ PeersFine(u.peers) /\ u.height \in Int
      BY SMT DEF InterfaceFine, Interface
    <3>2. CASE u.focus = "catalog"
      <4> DEFINE c == CatalogKey(u.catalog, u.height, k)
                 v == [u EXCEPT !.catalog = c]
      <4>1. CatalogFine(c) /\ c.files = u.catalog.files
        BY <3>1, <2>CatalogKeyFacts
      <4>2. PanelKey(u, k) = v
        BY <3>2 DEF PanelKey
      <4> HIDE DEF c
      <4>3. v = [u EXCEPT !.catalog = c]
        BY SMT
      <4> HIDE DEF v
      <4>4. Goal(v)
        BY SMTT(20), <4>1, <4>3, <1>WithCatalog
      <4> QED
        BY <4>2, <4>4
    <3>3. CASE u.focus # "catalog"
      <4> DEFINE p == PeerKey(u.peers, u.height, k)
                 v == [u EXCEPT !.peers = p]
                 picked == v.peers.cursor < Len(v.peers.list)
                 detail == [v EXCEPT !.overlay = NewOverlay("detail")]
                 confirm == [v EXCEPT !.overlay = NewOverlay("confirm")]
      <4>1. PeersFine(p) /\ p.list = u.peers.list
        BY <3>1, <2>PeerKeyFacts
      <4>2. PanelKey(u, k) = CASE k = "enter" /\ picked -> detail [] k = "d" /\ picked -> confirm
              [] OTHER -> v
        BY <3>3 DEF PanelKey
      <4> HIDE DEF p
      <4>3. v = [u EXCEPT !.peers = p]
        BY SMT
      <4> HIDE DEF v
      <4>4. /\ InterfaceFine(v) /\ v.catalog = u.catalog /\ v.peers = p /\ v.transfers = u.transfers
            /\ v.overlay = u.overlay
        BY SMTT(20), <4>1, <4>3, <1>WithPeers
      <4>5. ASSUME NEW n \in {"detail", "confirm"}, NEW w, w = [v EXCEPT !.overlay = NewOverlay(n)]
            PROVE  Goal(w)
        <5>1. /\ n \in {"help", "detail", "confirm", "invite", "join"} /\ n # "invite"
          BY SMT
        <5>2. NewOverlay(n) \in Overlay /\ ~ NewOverlay(n).loading
          BY <5>1, <2>NewOverlayFacts
        <5>3. /\ InterfaceFine(w) /\ w.catalog = v.catalog /\ w.peers = v.peers
              /\ w.transfers = v.transfers /\ w.overlay = NewOverlay(n)
          BY SMTT(20), <4>4, <4>5, <5>2, <1>WithOverlay
        <5> QED
          BY <4>1, <4>4, <5>2, <5>3
      <4>6. Goal(v)
        BY <4>1, <4>4
      <4> HIDE DEF Goal
      <4>7. Goal(detail) /\ Goal(confirm)
        BY <4>5
      <4> HIDE DEF detail, confirm, picked
      <4>8. Goal(PanelKey(u, k))
        BY SMT, <4>2, <4>6, <4>7
      <4> QED
        BY <4>8 DEF Goal
    <3> QED
      BY <3>2, <3>3
  \* A key that starts downloads.
  <2>StartFacts.
        ASSUME NEW u, InterfaceFine(u)
        PROVE  LET v == startDownloads(u)
               IN  /\ InterfaceFine(v) /\ v.catalog = u.catalog /\ v.peers = u.peers
                   /\ v.transfers = AddTransfers(u.transfers, Wanted(u.catalog))
                   /\ v.overlay = u.overlay
    <3> USE <2>StartFacts
    <3> DEFINE t == AddTransfers(u.transfers, Wanted(u.catalog))
               b == u.progress \/ Wanted(u.catalog) # <<>>
               w == [u EXCEPT !.transfers = t]
               v == [w EXCEPT !.progress = b]
    <3>1. CatalogFine(u.catalog) /\ u.transfers \in Seq(Transfer) /\ u.progress \in BOOLEAN
      BY SMT DEF InterfaceFine, Interface
    <3>2. t \in Seq(Transfer)
      BY <3>1, <1>WantedFacts, AddFacts DEF RowsListed
    <3>3. b \in BOOLEAN
      OBVIOUS
    <3>4. startDownloads(u) = v
      BY <2>StartForm
    <3> HIDE DEF t, b
    <3>5. w = [u EXCEPT !.transfers = t] /\ v = [w EXCEPT !.progress = b]
      BY SMT
    <3> HIDE DEF w, v
    <3>6. /\ InterfaceFine(w) /\ w.catalog = u.catalog /\ w.peers = u.peers
          /\ w.transfers = t /\ w.overlay = u.overlay
      BY SMTT(20), <3>2, <3>5, <1>WithTransfers
    <3>7. /\ InterfaceFine(v) /\ v.catalog = w.catalog /\ v.peers = w.peers
          /\ v.transfers = w.transfers /\ v.overlay = w.overlay
      BY ZenonT(30), <3>3, <3>5, <3>6, WithRest
    <3> QED
      BY <3>4, <3>6, <3>7 DEF t
  \* The keys of an overlay.
  <2>OverlayKeyFollows.
        ASSUME NEW o \in Overlay, NEW k \in STRING
        PROVE  LET v == OverlayKey(o, k)
               IN  \/ v.kind = o.kind /\ v.loading = o.loading
                   \/ ~ v.loading
                   \/ v.kind = "join" /\ OverlayCmds(o, k) = <<Cmd("join", 0)>>
    <3> USE <2>OverlayKeyFollows
    <3> DEFINE Goal(v) == \/ v.kind = o.kind /\ v.loading = o.loading
                          \/ ~ v.loading
                          \/ v.kind = "join" /\ OverlayCmds(o, k) = <<Cmd("join", 0)>>
    <3>1. o.text \in Nat
      BY SMT DEF Overlay
    <3>2. Goal(NoOverlay) /\ Goal(o)
      BY SMT DEF NoOverlay
    <3>3. Goal(JoinInput(o, k))
      <4>1. JoinInput(o, k) = o \/ \E t : JoinInput(o, k) = [o EXCEPT !.text = t]
        BY DEF JoinInput
      <4>2. \A t : [o EXCEPT !.text = t].kind = o.kind /\ [o EXCEPT !.text = t].loading = o.loading
        BY SMT DEF Overlay
      <4> QED
        BY <4>1, <4>2
    <3>4. \A r : Goal([o EXCEPT !.result = r])
      BY SMT DEF Overlay
    <3>5. ASSUME o.kind = "join", ~ (k # "enter" \/ o.loading), o.text # 0
          PROVE  \A r : Goal([o EXCEPT !.loading = TRUE, !.result = r])
      <4>1. OverlayCmds(o, k) = <<Cmd("join", 0)>>
        BY SMT, <3>1, <3>5 DEF OverlayCmds
      <4>2. \A r : [o EXCEPT !.loading = TRUE, !.result = r].kind = "join"
        BY SMT, <3>5 DEF Overlay
      <4> QED
        BY <4>1, <4>2
    <3> HIDE DEF Goal
    <3>6. Goal(OverlayKey(o, k))
      BY <3>2, <3>3, <3>4, <3>5 DEF OverlayKey
    <3> QED
      BY <3>6 DEF Goal
  <2> SUFFICES ASSUME NEW u, InterfaceFine(u), NEW k \in STRING
               PROVE  KeyKeeps(u, handleKey(u, k), k)
    BY DEF KeysFine
  <2> DEFINE Quiet == KeyCmds(u, k) \in {<<>>, <<Cmd("invite", 0)>>, <<Cmd("join", 0)>>}
  <2>1. /\ u.overlay \in Overlay /\ u.focus \in {"catalog", "peers"} /\ u.progress \in BOOLEAN
        /\ u.overlay.kind \in {"none", "help", "detail", "confirm", "invite", "join"}
    BY SMT DEF InterfaceFine, Interface, Overlay
  <2>2. ASSUME ~ (u.overlay.kind = "none" /\ k = "D") PROVE Quiet
    <3>1. CASE u.overlay.kind # "none"
      BY <3>1 DEF KeyCmds, OverlayCmds
    <3>2. CASE u.overlay.kind = "none"
      BY SMT, <2>2, <3>2 DEF KeyCmds
    <3> QED
      BY <3>1, <3>2
  <2>3. ASSUME NEW v, ~ (u.overlay.kind = "none" /\ k = "D"), InterfaceFine(v),
               v.catalog.files = u.catalog.files, v.peers.list = u.peers.list,
               v.transfers = u.transfers, v.overlay = u.overlay \/ ~ v.overlay.loading
        PROVE  KeyKeeps(u, v, k)
    BY <2>2, <2>3 DEF KeyKeeps, OverlayFollows, TransfersFollow
  <2>4. ASSUME ~ (u.overlay.kind = "none" /\ k = "D"), NEW v,
               \/ \E f \in {"catalog", "peers"} : v = [u EXCEPT !.focus = f]
               \/ \E h \in Int : v = [u EXCEPT !.height = h]
               \/ \E b \in BOOLEAN : \/ v = [u EXCEPT !.progress = b]
                                   \/ v = [u EXCEPT !.err = b]
                                   \/ v = [u EXCEPT !.quitting = b]
        PROVE  KeyKeeps(u, v, k)
    <3>1. /\ InterfaceFine(v) /\ v.catalog = u.catalog /\ v.peers = u.peers
          /\ v.transfers = u.transfers /\ v.overlay = u.overlay
      BY <2>4, WithRest
    <3> QED
      BY <2>3, <2>4, <3>1
  <2>5. ASSUME k # "D" PROVE KeyKeeps(u, [u EXCEPT !.quitting = TRUE], k)
    BY <2>4, <2>5
  <2>6. ASSUME k = "tab"
        PROVE  KeyKeeps(u, [u EXCEPT !.focus = IF @ = "catalog" THEN "peers" ELSE "catalog"], k)
    <3> DEFINE f == IF u.focus = "catalog" THEN "peers" ELSE "catalog"
    <3>1. f \in {"catalog", "peers"} /\ k # "D"
      BY SMT, <2>6
    <3> HIDE DEF f
    <3>2. KeyKeeps(u, [u EXCEPT !.focus = f], k)
      BY <2>4, <3>1
    <3> QED
      BY <3>2 DEF f
  <2>7. ASSUME k = "p" PROVE KeyKeeps(u, [u EXCEPT !.progress = ~ @], k)
    <3> DEFINE b == ~ u.progress
    <3>1. b \in BOOLEAN /\ k # "D"
      BY SMT, <2>7
    <3> HIDE DEF b
    <3>2. KeyKeeps(u, [u EXCEPT !.progress = b], k)
      BY <2>4, <3>1
    <3> QED
      BY <3>2 DEF b
  <2>8. ASSUME u.overlay.kind # "none" PROVE KeyKeeps(u, [u EXCEPT !.overlay = OverlayKey(@, k)], k)
    <3> DEFINE o == OverlayKey(u.overlay, k)
               v == [u EXCEPT !.overlay = o]
    <3>1. o \in Overlay
      BY <2>1, <2>OverlayFacts
    <3>2. \/ o.kind = u.overlay.kind /\ o.loading = u.overlay.loading
          \/ ~ o.loading
          \/ o.kind = "join" /\ OverlayCmds(u.overlay, k) = <<Cmd("join", 0)>>
      BY <2>1, <2>OverlayKeyFollows
    <3>3. KeyCmds(u, k) = OverlayCmds(u.overlay, k)
      BY <2>8 DEF KeyCmds
    <3> HIDE DEF o
    <3>4. v = [u EXCEPT !.overlay = o]
      BY SMT
    <3> HIDE DEF v
    <3>5. /\ InterfaceFine(v) /\ v.catalog = u.catalog /\ v.peers = u.peers
          /\ v.transfers = u.transfers /\ v.overlay = o
      BY SMTT(20), <3>1, <3>4, <1>WithOverlay
    <3>6. KeyKeeps(u, v, k)
      BY <2>2, <2>8, <3>2, <3>3, <3>5 DEF KeyKeeps, OverlayFollows, TransfersFollow
    <3> QED
      BY <3>6 DEF v, o
  <2>9. ASSUME u.overlay.kind = "none", NEW n \in {"help", "invite", "join"},
               n = "invite" => k = "i", k # "D"
        PROVE  KeyKeeps(u, [u EXCEPT !.overlay = NewOverlay(n)], k)
    <3> DEFINE v == [u EXCEPT !.overlay = NewOverlay(n)]
    <3>1. n \in {"help", "detail", "confirm", "invite", "join"}
      BY SMT
    <3>2. NewOverlay(n) \in Overlay /\ NewOverlay(n).kind = n
            /\ (NewOverlay(n).loading <=> n = "invite")
      BY <3>1, <2>NewOverlayFacts
    <3>3. n = "invite" => KeyCmds(u, k) = <<Cmd("invite", 0)>>
      BY SMT, <2>9 DEF KeyCmds
    <3>4. v = [u EXCEPT !.overlay = NewOverlay(n)]
      BY SMT
    <3> HIDE DEF v
    <3>5. /\ InterfaceFine(v) /\ v.catalog = u.catalog /\ v.peers = u.peers
          /\ v.transfers = u.transfers /\ v.overlay = NewOverlay(n)
      BY SMTT(20), <3>2, <3>4, <1>WithOverlay
    <3>6. KeyKeeps(u, v, k)
      BY <2>2, <2>9, <3>2, <3>3, <3>5 DEF KeyKeeps, OverlayFollows, TransfersFollow
    <3> QED
      BY <3>6 DEF v
  <2>10. ASSUME u.overlay.kind = "none", k = "D" PROVE KeyKeeps(u, startDownloads(u), k)
    <3> DEFINE v == startDownloads(u)
    <3>1. /\ InterfaceFine(v) /\ v.catalog = u.catalog /\ v.peers = u.peers
          /\ v.transfers = AddTransfers(u.transfers, Wanted(u.catalog)) /\ v.overlay = u.overlay
      BY <2>StartFacts
    <3>2. KeyCmds(u, k) = Downloads(u.catalog)
      BY SMT, <2>10 DEF KeyCmds, Downloads
    <3> HIDE DEF v
    <3>3. KeyKeeps(u, v, k)
      BY <3>1, <3>2 DEF KeyKeeps, OverlayFollows, TransfersFollow
    <3> QED
      BY <3>3 DEF v
  <2>11. ASSUME k # "D" PROVE KeyKeeps(u, PanelKey(u, k), k)
    <3> DEFINE v == PanelKey(u, k)
    <3>1. /\ InterfaceFine(v) /\ v.catalog.files = u.catalog.files
          /\ v.peers.list = u.peers.list /\ v.transfers = u.transfers
          /\ v.overlay = u.overlay \/ ~ v.overlay.loading
      BY <2>PanelKeyFacts
    <3> HIDE DEF v
    <3>2. KeyKeeps(u, v, k)
      BY <2>3, <2>11, <3>1
    <3> QED
      BY <3>2 DEF v
  <2>12. CASE k = "ctrl+c"
    <3>1. k # "D" /\ handleKey(u, k) = [u EXCEPT !.quitting = TRUE]
      BY SMT, <2>12 DEF handleKey
    <3> QED
      BY <2>5, <3>1
  <2>13. CASE k # "ctrl+c" /\ u.overlay.kind # "none"
    <3>1. handleKey(u, k) = [u EXCEPT !.overlay = OverlayKey(@, k)]
      BY <2>13 DEF handleKey
    <3> QED
      BY <2>8, <2>13, <3>1
  <2>14. CASE k # "ctrl+c" /\ u.overlay.kind = "none"
    <3>1. /\ k = "?" => KeyKeeps(u, [u EXCEPT !.overlay = NewOverlay("help")], k)
          /\ k = "i" => KeyKeeps(u, [u EXCEPT !.overlay = NewOverlay("invite")], k)
          /\ k = "J" => KeyKeeps(u, [u EXCEPT !.overlay = NewOverlay("join")], k)
      <4>1. /\ "help" \in {"help", "invite", "join"} /\ "invite" \in {"help", "invite", "join"}
            /\ "join" \in {"help", "invite", "join"} /\ "help" # "invite" /\ "join" # "invite"
            /\ "?" # "D" /\ "i" # "D" /\ "J" # "D"
        BY SMT
      <4> QED
        BY <2>9, <2>14, <4>1
    <3>2. k = "q" => KeyKeeps(u, [u EXCEPT !.quitting = TRUE], k)
      BY SMT, <2>5
    <3> HIDE DEF Quiet
    <3> QED
      BY SMTT(30), <2>6, <2>7, <2>10, <2>11, <2>14, <3>1, <3>2 DEF handleKey
  <2> QED
    BY <2>12, <2>13, <2>14
\* Every result.
<1>HandleResult. ResultsFine
  \* SetFiles shows the files given.
  <2>SetFilesFacts.
        ASSUME NEW c, CatalogFine(c), NEW files \in SUBSET Row
        PROVE  CatalogFine(SetFiles(c, files)) /\ SetFiles(c, files).files = files
    <3> USE <2>SetFilesFacts
    <3> DEFINE d == [c EXCEPT !.files = files]
    <3>1. d \in CatalogRecord(Int) /\ d.files = files
      BY SMT DEF CatalogFine, CatalogRecord
    <3> HIDE DEF d
    <3>2. CatalogFine(clampCursor(d)) /\ clampCursor(d).files = files
      BY <3>1, <1>ClampFacts
    <3> QED
      BY <3>2 DEF SetFiles, d
  \* SetPeers shows every peer as offline.
  <2>SetPeersFacts.
        ASSUME NEW p, PeersFine(p), NEW peers \in Seq(Peer)
        PROVE  /\ PeersFine(SetPeers(p, peers))
               /\ \A i \in 1..Len(SetPeers(p, peers).list) : ~ SetPeers(p, peers).list[i].online
    <3> USE <2>SetPeersFacts
    <3> DEFINE n == Len(peers)
               l == [i \in 1..n |-> [peer |-> peers[i], online |-> FALSE]]
               v == Clamped(p.cursor, n)
               q == [p EXCEPT !.list = l, !.cursor = v]
    <3>1. n \in Nat /\ p \in PeersRecord /\ p.cursor \in Int
      BY SMT DEF PeersFine, PeersRecord
    <3>2. l \in Seq(Listed) /\ Len(l) = n /\ \A i \in 1..Len(l) : ~ l[i].online
      BY SMT, <3>1 DEF Listed
    <3>3. v \in 0..Max({0, n - 1}) /\ v \in Nat
      <4> HIDE DEF n
      <4> QED
        BY <3>1, <1>ClampedFacts
    <3>4. SetPeers(p, peers) = q
      BY DEF SetPeers
    <3> HIDE DEF n, l, v
    <3>5. q \in PeersRecord /\ q.list = l /\ q.cursor = v
      BY <3>1, <3>2, <3>3 DEF PeersRecord
    <3> HIDE DEF q
    <3> QED
      BY <3>2, <3>3, <3>4, <3>5 DEF PeersFine
  \* The result of a command keeps the overlay's type.
  <2>ResultFacts.
        ASSUME NEW o \in Overlay, NEW cmd
        PROVE  OverlayResult(o, cmd) \in Overlay
    <3> USE <2>ResultFacts
    <3>1. o.result \in {"none", "ok", "err"}
      BY SMT DEF Overlay
    <3> DEFINE r == IF cmd.ok THEN "ok" ELSE IF o.result = "ok" THEN o.result ELSE "err"
    <3>2. r \in {"none", "ok", "err"}
      OBVIOUS
    <3>3. OverlayResult(o, cmd) = o
            \/ OverlayResult(o, cmd) = [o EXCEPT !.loading = FALSE, !.result = r]
      BY DEF OverlayResult
    <3> HIDE DEF r
    <3> QED
      BY <3>2, <3>3 DEF Overlay
  <2> SUFFICES ASSUME NEW u, InterfaceFine(u), NEW cmd, CommandFine(cmd)
               PROVE  ResultDoes(u, handleResult(u, cmd), cmd)
    BY DEF ResultsFine
  <2>1. /\ CatalogFine(u.catalog) /\ PeersFine(u.peers) /\ u.overlay \in Overlay
        /\ u.transfers \in Seq(Transfer) /\ cmd.call \in Call
    BY SMT DEF InterfaceFine, Interface, CommandFine, Command
  <2> DEFINE v == handleResult(u, cmd)
  <2>2. CASE cmd.call \in {"peers", "catalog"} /\ ~ cmd.ok
    <3>1. v = [u EXCEPT !.err = TRUE]
      BY SMT, <2>2 DEF handleResult
    <3> HIDE DEF v
    <3>2. /\ InterfaceFine(v) /\ v.catalog = u.catalog /\ v.peers = u.peers
          /\ v.transfers = u.transfers /\ v.overlay = u.overlay
      BY <3>1, WithRest
    <3>3. cmd.call \notin {"invite", "join"} /\ cmd.call # "download"
      BY SMT, <2>2
    <3>4. ResultDoes(u, v, cmd)
      BY <2>2, <3>2, <3>3 DEF ResultDoes
    <3> QED
      BY <3>4 DEF v
  <2>3. CASE cmd.call = "peers" /\ cmd.ok
    <3> DEFINE p == SetPeers(u.peers, cmd.val)
    <3>1. v = [u EXCEPT !.peers = p]
      BY SMT, <2>3 DEF handleResult
    <3>2. PeersFine(p) /\ \A i \in 1..Len(p.list) : ~ p.list[i].online
      BY <2>1, <2>3, <2>SetPeersFacts DEF CommandFine
    <3> HIDE DEF v, p
    <3>3. /\ InterfaceFine(v) /\ v.catalog = u.catalog /\ v.peers = p /\ v.transfers = u.transfers
          /\ v.overlay = u.overlay
      BY SMTT(20), <3>1, <3>2, <1>WithPeers
    <3>4. cmd.call \notin {"invite", "join"} /\ cmd.call # "download" /\ cmd.call # "catalog"
      BY SMT, <2>3
    <3>5. ResultDoes(u, v, cmd)
      BY <3>2, <3>3, <3>4 DEF ResultDoes
    <3> QED
      BY <3>5 DEF v
  <2>4. CASE cmd.call = "catalog" /\ cmd.ok
    <3> DEFINE c == SetFiles(u.catalog, cmd.val)
    <3>1. v = [u EXCEPT !.catalog = c]
      BY SMT, <2>4 DEF handleResult
    <3>2. CatalogFine(c) /\ c.files = cmd.val
      BY <2>1, <2>4, <2>SetFilesFacts DEF CommandFine
    <3> HIDE DEF v, c
    <3>3. /\ InterfaceFine(v) /\ v.catalog = c /\ v.peers = u.peers /\ v.transfers = u.transfers
          /\ v.overlay = u.overlay
      BY SMTT(20), <3>1, <3>2, <1>WithCatalog
    <3>4. cmd.call \notin {"invite", "join"} /\ cmd.call # "download"
      BY SMT, <2>4
    <3>5. ResultDoes(u, v, cmd)
      BY <2>4, <3>2, <3>3, <3>4 DEF ResultDoes
    <3> QED
      BY <3>5 DEF v
  <2>5. CASE cmd.call \in {"invite", "join"}
    <3> DEFINE o == OverlayResult(u.overlay, cmd)
    <3>1. v = [u EXCEPT !.overlay = o]
      BY SMT, <2>5 DEF handleResult
    <3>2. o \in Overlay
      BY <2>1, <2>ResultFacts
    <3> HIDE DEF v, o
    <3>3. /\ InterfaceFine(v) /\ v.catalog = u.catalog /\ v.peers = u.peers
          /\ v.transfers = u.transfers /\ v.overlay = o
      BY SMTT(20), <3>1, <3>2, <1>WithOverlay
    <3>4. cmd.call # "catalog" /\ cmd.call # "download"
      BY SMT, <2>5
    <3>5. ResultDoes(u, v, cmd)
      BY <2>5, <3>3, <3>4 DEF ResultDoes, o
    <3> QED
      BY <3>5 DEF v
  <2>6. CASE cmd.call = "download"
    <3> DEFINE t == MarkDone(u.transfers, cmd.arg)
    <3>1. v = [u EXCEPT !.transfers = t]
      BY SMT, <2>6 DEF handleResult
    <3>2. t \in Seq(Transfer)
      BY <2>1, MarkFacts
    <3> HIDE DEF v, t
    <3>3. /\ InterfaceFine(v) /\ v.catalog = u.catalog /\ v.peers = u.peers
          /\ v.transfers = t /\ v.overlay = u.overlay
      BY SMTT(20), <3>1, <3>2, <1>WithTransfers
    <3>4. cmd.call # "catalog" /\ cmd.call \notin {"invite", "join"}
      BY SMT, <2>6
    <3>5. ResultDoes(u, v, cmd)
      BY <2>6, <3>3, <3>4 DEF ResultDoes, t
    <3> QED
      BY <3>5 DEF v
  <2>7. cmd.call \in {"peers", "catalog"} \/ cmd.call \in {"invite", "join"} \/ cmd.call = "download"
    BY <2>1 DEF Call
  <2> HIDE DEF v
  <2>8. ResultDoes(u, v, cmd) => ResultDoes(u, handleResult(u, cmd), cmd)
    BY DEF v
  <2> QED
    BY <2>2, <2>3, <2>4, <2>5, <2>6, <2>7
\* What an event does to the model.
<1>HandleEvent. EventsFine
  \* The entry the events of a peer find.
  <2>ShownFirst.
        ASSUME NEW p, p \in PeersRecord, NEW n, Shown(p, n) # {}
        PROVE  /\ Min(Shown(p, n)) \in 1..Len(p.list) /\ p.list[Min(Shown(p, n))].peer = n
               /\ \A j \in 1..Len(p.list) : p.list[j].peer = n => Min(Shown(p, n)) <= j
    <3> USE <2>ShownFirst
    <3>1. Shown(p, n) \in SUBSET Nat
      BY SMT DEF Shown, PeersRecord
    <3>2. Min(Shown(p, n)) \in Shown(p, n) /\ \A y \in Shown(p, n) : Min(Shown(p, n)) <= y
      BY <3>1 DEF SetsFine
    <3> HIDE DEF Shown
    <3> DEFINE m == Min(Shown(p, n))
    <3>3. m \in Shown(p, n) /\ \A y \in Shown(p, n) : m <= y
      BY <3>2
    <3> HIDE DEF m
    <3>4. /\ m \in 1..Len(p.list) /\ p.list[m].peer = n
          /\ \A j \in 1..Len(p.list) : p.list[j].peer = n => m <= j
      BY <3>3 DEF Shown
    <3> QED
      BY <3>4 DEF m
  \* Changing whether one entry is online.
  <2>OneEntry.
        ASSUME NEW p, PeersFine(p), NEW m \in 1..Len(p.list), NEW b \in BOOLEAN
        PROVE  /\ PeersFine([p EXCEPT !.list[m].online = b])
               /\ Len([p EXCEPT !.list[m].online = b].list) = Len(p.list)
               /\ \A i \in 1..Len(p.list) :
                    /\ [p EXCEPT !.list[m].online = b].list[i].peer = p.list[i].peer
                    /\ [p EXCEPT !.list[m].online = b].list[i].online =
                         IF i = m THEN b ELSE p.list[i].online
    <3> USE <2>OneEntry
    <3> DEFINE e == [p.list[m] EXCEPT !.online = b]
               l == [p.list EXCEPT ![m] = e]
               q == [p EXCEPT !.list = l]
    <3>1. p \in PeersRecord /\ p.list \in Seq(Listed) /\ p.list[m] \in Listed
      BY SMT DEF PeersFine, PeersRecord
    <3>2. e \in Listed /\ e.peer = p.list[m].peer /\ e.online = b
      BY SMT, <3>1 DEF Listed
    <3> HIDE DEF e
    <3>3. l \in Seq(Listed) /\ Len(l) = Len(p.list)
            /\ \A i \in 1..Len(p.list) : l[i] = IF i = m THEN e ELSE p.list[i]
      BY SMT, <3>1, <3>2
    <3> HIDE DEF l
    <3>4. q \in PeersRecord /\ q.list = l /\ q.cursor = p.cursor
      BY SMTT(30), <3>1, <3>3 DEF PeersRecord
    <3>5. [p EXCEPT !.list[m].online = b] = q
      BY DEF q, l, e
    <3> HIDE DEF q
    <3>6. PeersFine(q)
      BY <3>3, <3>4 DEF PeersFine
    <3>7. \A i \in 1..Len(p.list) : q.list[i].peer = p.list[i].peer
            /\ q.list[i].online = IF i = m THEN b ELSE p.list[i].online
      BY <3>2, <3>3, <3>4
    <3> QED
      BY <3>3, <3>4, <3>5, <3>6, <3>7
  \* A peer that is added to the end of the list, online.
  <2>Added.
        ASSUME NEW p, PeersFine(p), NEW n \in Peer
        PROVE  LET q == [p EXCEPT !.list = Append(@, [peer |-> n, online |-> TRUE])]
               IN  /\ PeersFine(q) /\ Len(q.list) = Len(p.list) + 1
                   /\ \A i \in 1..Len(p.list) : q.list[i] = p.list[i]
                   /\ q.list[Len(p.list) + 1].peer = n
    <3> USE <2>Added
    <3> DEFINE e == [peer |-> n, online |-> TRUE]
               l == Append(p.list, e)
               q == [p EXCEPT !.list = l]
    <3>1. p \in PeersRecord /\ p.list \in Seq(Listed) /\ Len(p.list) \in Nat
            /\ p.cursor \in 0..Max({0, Len(p.list) - 1}) /\ p.cursor \in Nat
      BY SMT DEF PeersFine, PeersRecord
    <3>2. e \in Listed /\ e.peer = n
      BY SMT DEF Listed
    <3> HIDE DEF e
    <3>3. l \in Seq(Listed) /\ Len(l) = Len(p.list) + 1
            /\ (\A i \in 1..Len(p.list) : l[i] = p.list[i])
          /\ l[Len(p.list) + 1] = e
      BY SMT, <3>1, <3>2
    <3> HIDE DEF l
    <3>4. q \in PeersRecord /\ q.list = l /\ q.cursor = p.cursor
      BY SMT, <3>1, <3>3 DEF PeersRecord
    <3>5. p.cursor \in 0..Max({0, Len(l) - 1})
      <4>1. Max({0, Len(p.list) - 1}) = IF 0 >= Len(p.list) - 1 THEN 0 ELSE Len(p.list) - 1
        BY SMT, <3>1, <1>MaxOfTwo
      <4>2. Max({0, Len(l) - 1}) = IF 0 >= Len(l) - 1 THEN 0 ELSE Len(l) - 1
        BY SMTT(30), <3>1, <3>3, <1>MaxOfTwo
      <4> QED
        BY SMT, <3>1, <3>3, <4>1, <4>2
    <3> HIDE DEF q
    <3>6. PeersFine(q)
      BY <3>4, <3>5 DEF PeersFine
    <3>7. [p EXCEPT !.list = Append(@, [peer |-> n, online |-> TRUE])] = q
      BY DEF q, l, e
    <3> QED
      BY <3>2, <3>3, <3>4, <3>6, <3>7
  \* The panel after an "online": entries that are online were so before, or are of
  \* the peer, and each is still the first of its peer.
  <2>OnlineFacts.
        ASSUME NEW p, PeersFine(p), FirstOnline(p.list), NEW n \in Peer
        PROVE  LET q == UpdatePeerOnline(p, n)
               IN  /\ PeersFine(q) /\ FirstOnline(q.list)
                   /\ \A i \in 1..Len(q.list) : q.list[i].online =>
                         \/ q.list[i].peer = n
                         \/ \E j \in 1..Len(p.list) : p.list[j].online
                              /\ p.list[j].peer = q.list[i].peer
    <3> USE <2>OnlineFacts
    <3> DEFINE q == UpdatePeerOnline(p, n)
    <3>1. p \in PeersRecord /\ Len(p.list) \in Nat
      BY SMT DEF PeersFine, PeersRecord
    <3>2. CASE Shown(p, n) = {}
      <4>1. q = [p EXCEPT !.list = Append(@, [peer |-> n, online |-> TRUE])]
        BY <3>2 DEF UpdatePeerOnline
      <4> HIDE DEF q
      <4>2. /\ PeersFine(q) /\ Len(q.list) = Len(p.list) + 1
            /\ \A i \in 1..Len(p.list) : q.list[i] = p.list[i]
            /\ q.list[Len(p.list) + 1].peer = n
        BY <4>1, <2>Added
      <4>3. \A j \in 1..Len(p.list) : p.list[j].peer # n
        BY <3>2 DEF Shown
      <4>5. \A i \in 1..Len(q.list) : i \in 1..Len(p.list) \/ i = Len(p.list) + 1
        BY SMT, <3>1, <4>2
      <4>7. \A i \in 1..Len(p.list) : i <= Len(p.list) + 1 /\ i \in 1..Len(q.list)
        BY SMT, <3>1, <4>2
      <4>8. Len(p.list) + 1 <= Len(p.list) + 1
        BY SMT, <3>1
      <4>4. FirstOnline(q.list)
        BY <4>2, <4>3, <4>5, <4>7, <4>8 DEF FirstOnline
      <4>6. \A i \in 1..Len(q.list) : q.list[i].online =>
                         \/ q.list[i].peer = n
                         \/ \E j \in 1..Len(p.list) : p.list[j].online
                              /\ p.list[j].peer = q.list[i].peer
        BY <4>2, <4>5
      <4> QED
        BY <4>2, <4>4, <4>6 DEF q
    <3>3. CASE Shown(p, n) # {}
      <4> DEFINE m == Min(Shown(p, n))
      <4>1. q = [p EXCEPT !.list[m].online = TRUE]
        BY <3>3 DEF UpdatePeerOnline
      <4>2. /\ m \in 1..Len(p.list) /\ p.list[m].peer = n
            /\ \A j \in 1..Len(p.list) : p.list[j].peer = n => m <= j
        BY <3>1, <3>3, <2>ShownFirst
      <4> HIDE DEF m, q
      <4>3. /\ PeersFine(q) /\ Len(q.list) = Len(p.list)
            /\ \A i \in 1..Len(p.list) :
                 q.list[i].peer = p.list[i].peer
                   /\ q.list[i].online = IF i = m THEN TRUE ELSE p.list[i].online
        <5> DEFINE b == TRUE
        <5>1. b \in BOOLEAN /\ q = [p EXCEPT !.list[m].online = b]
          BY <4>1
        <5> HIDE DEF b
        <5>2. /\ PeersFine(q) /\ Len(q.list) = Len(p.list)
              /\ \A i \in 1..Len(p.list) :
                   q.list[i].peer = p.list[i].peer
                     /\ q.list[i].online = IF i = m THEN b ELSE p.list[i].online
          BY ZenonT(30), <4>2, <5>1, <2>OneEntry
        <5> QED
          BY <5>2 DEF b
      <4>4. FirstOnline(q.list)
        BY <4>2, <4>3 DEF FirstOnline
      <4>5. \A i \in 1..Len(q.list) : q.list[i].online =>
                         \/ q.list[i].peer = n
                         \/ \E j \in 1..Len(p.list) : p.list[j].online
                              /\ p.list[j].peer = q.list[i].peer
        BY <4>2, <4>3
      <4> QED
        BY <4>3, <4>4, <4>5 DEF q
    <3> QED
      BY <3>2, <3>3
  \* The panel after an "offline": entries that are online were so before and are of
  \* another peer.
  <2>OfflineFacts.
        ASSUME NEW p, PeersFine(p), FirstOnline(p.list), NEW n \in Peer
        PROVE  LET q == UpdatePeerOffline(p, n)
               IN  /\ PeersFine(q) /\ FirstOnline(q.list)
                   /\ \A i \in 1..Len(q.list) : q.list[i].online =>
                         /\ q.list[i].peer # n
                         /\ \E j \in 1..Len(p.list) : p.list[j].online
                              /\ p.list[j].peer = q.list[i].peer
    <3> USE <2>OfflineFacts
    <3> DEFINE q == UpdatePeerOffline(p, n)
    <3>1. p \in PeersRecord /\ Len(p.list) \in Nat
      BY SMT DEF PeersFine, PeersRecord
    <3>2. CASE Shown(p, n) = {}
      <4>1. q = p
        BY <3>2 DEF UpdatePeerOffline
      <4>2. \A j \in 1..Len(p.list) : p.list[j].peer # n
        BY <3>2 DEF Shown
      <4> QED
        BY <4>1, <4>2
    <3>3. CASE Shown(p, n) # {}
      <4> DEFINE m == Min(Shown(p, n))
      <4>1. q = [p EXCEPT !.list[m].online = FALSE]
        BY <3>3 DEF UpdatePeerOffline
      <4>2. /\ m \in 1..Len(p.list) /\ p.list[m].peer = n
            /\ \A j \in 1..Len(p.list) : p.list[j].peer = n => m <= j
        BY <3>1, <3>3, <2>ShownFirst
      <4> HIDE DEF m, q
      <4>3. /\ PeersFine(q) /\ Len(q.list) = Len(p.list)
            /\ \A i \in 1..Len(p.list) :
                 q.list[i].peer = p.list[i].peer
                   /\ q.list[i].online = IF i = m THEN FALSE ELSE p.list[i].online
        <5> DEFINE b == FALSE
        <5>1. b \in BOOLEAN /\ q = [p EXCEPT !.list[m].online = b]
          BY <4>1
        <5> HIDE DEF b
        <5>2. /\ PeersFine(q) /\ Len(q.list) = Len(p.list)
              /\ \A i \in 1..Len(p.list) :
                   q.list[i].peer = p.list[i].peer
                     /\ q.list[i].online = IF i = m THEN b ELSE p.list[i].online
          BY ZenonT(30), <4>2, <5>1, <2>OneEntry
        <5> QED
          BY <5>2 DEF b
      <4>4. FirstOnline(q.list)
        BY <4>2, <4>3 DEF FirstOnline
      <4>5. ASSUME NEW i \in 1..Len(q.list), q.list[i].online
            PROVE  i \in 1..Len(p.list) /\ p.list[i].online /\ p.list[i].peer = q.list[i].peer
                     /\ i # m
        BY <4>3, <4>5
      <4>6. ASSUME NEW i \in 1..Len(q.list), q.list[i].online
            PROVE  q.list[i].peer # n
        <5>1. SUFFICES ASSUME p.list[i].peer = n PROVE FALSE
          BY <4>5, <4>6
        <5>2. i <= m /\ m <= i
          BY <4>2, <4>5, <4>6, <5>1 DEF FirstOnline
        <5> QED
          BY SMT, <3>1, <4>2, <4>5, <4>6, <5>2
      <4> QED
        BY <4>3, <4>4, <4>5, <4>6 DEF q
    <3> QED
      BY <3>2, <3>3
  <2> SUFFICES ASSUME NEW u, InterfaceFine(u), FirstOnline(u.peers.list), NEW e,
                      e[1] = Watch \/ (e[1] \in Link /\ e[2] \in {1, 2})
               PROVE  EventDoes(u, handleEvent(u, e), e)
    BY DEF EventsFine
  <2> DEFINE v == handleEvent(u, e)
             n == PeerOf[e[1]]
  <2>1. PeersFine(u.peers)
    BY DEF InterfaceFine
  <2>2. CASE e[1] = Watch
    <3>1. v = u
      BY <2>2 DEF handleEvent
    <3> QED
      BY <2>2, <3>1 DEF EventDoes
  <2>3. ASSUME e[1] # Watch PROVE n \in Peer
    BY SMT, <2>3, KeyAssumption
  <2>4. CASE e[1] # Watch /\ e[2] = 1
    <3> DEFINE p == UpdatePeerOnline(u.peers, n)
    <3>1. v = [u EXCEPT !.peers = p]
      BY <2>4 DEF handleEvent
    <3>2. /\ PeersFine(p) /\ FirstOnline(p.list)
          /\ \A i \in 1..Len(p.list) : p.list[i].online =>
                \/ p.list[i].peer = n
                \/ \E j \in 1..Len(u.peers.list) : u.peers.list[j].online
                     /\ u.peers.list[j].peer = p.list[i].peer
      <4>1. n \in Peer
        BY <2>3, <2>4
      <4> HIDE DEF n
      <4> DEFINE q == u.peers
      <4>2. PeersFine(q) /\ FirstOnline(q.list)
        BY <2>1
      <4> HIDE DEF q
      <4>3. /\ PeersFine(UpdatePeerOnline(q, n)) /\ FirstOnline(UpdatePeerOnline(q, n).list)
            /\ \A i \in 1..Len(UpdatePeerOnline(q, n).list) : UpdatePeerOnline(q, n).list[i].online =>
                  \/ UpdatePeerOnline(q, n).list[i].peer = n
                  \/ \E j \in 1..Len(q.list) : q.list[j].online
                       /\ q.list[j].peer = UpdatePeerOnline(q, n).list[i].peer
        BY SMTT(20), <4>1, <4>2, <2>OnlineFacts
      <4> QED
        BY <4>3 DEF q
    <3> HIDE DEF v, p
    <3>3. /\ InterfaceFine(v) /\ v.catalog = u.catalog /\ v.peers = p /\ v.transfers = u.transfers
          /\ v.overlay = u.overlay
      BY SMTT(20), <3>1, <3>2, <1>WithPeers
    <3>4. e[2] # 2
      BY SMT, <2>4
    <3> QED
      BY <2>4, <3>2, <3>3, <3>4 DEF v, EventDoes
  <2>5. CASE e[1] # Watch /\ e[2] # 1
    <3> DEFINE p == UpdatePeerOffline(u.peers, n)
    <3>1. v = [u EXCEPT !.peers = p]
      BY <2>5 DEF handleEvent
    <3>2. /\ PeersFine(p) /\ FirstOnline(p.list)
          /\ \A i \in 1..Len(p.list) : p.list[i].online =>
                /\ p.list[i].peer # n
                /\ \E j \in 1..Len(u.peers.list) : u.peers.list[j].online
                     /\ u.peers.list[j].peer = p.list[i].peer
      <4>1. n \in Peer
        BY <2>3, <2>5
      <4> HIDE DEF n
      <4> DEFINE q == u.peers
      <4>2. PeersFine(q) /\ FirstOnline(q.list)
        BY <2>1
      <4> HIDE DEF q
      <4>3. /\ PeersFine(UpdatePeerOffline(q, n)) /\ FirstOnline(UpdatePeerOffline(q, n).list)
            /\ \A i \in 1..Len(UpdatePeerOffline(q, n).list) :
                 UpdatePeerOffline(q, n).list[i].online =>
                  /\ UpdatePeerOffline(q, n).list[i].peer # n
                  /\ \E j \in 1..Len(q.list) : q.list[j].online
                       /\ q.list[j].peer = UpdatePeerOffline(q, n).list[i].peer
        BY SMTT(20), <4>1, <4>2, <2>OfflineFacts
      <4> QED
        BY <4>3 DEF q
    <3> HIDE DEF v, p
    <3>3. /\ InterfaceFine(v) /\ v.catalog = u.catalog /\ v.peers = p /\ v.transfers = u.transfers
          /\ v.overlay = u.overlay
      BY SMTT(20), <3>1, <3>2, <1>WithPeers
    <3> QED
      BY <3>2, <3>3 DEF v, EventDoes
  <2> QED
    BY <2>2, <2>4, <2>5
\* The model the TUI starts with.
<1>NewModelFine. StartFine
  <2> DEFINE c == NewCatalog
             p == NewPeers
  <2>1. c \in CatalogRecord(Nat) /\ c.cursor = 0 /\ c.files = {} /\ c.searching = FALSE
    <3>1. /\ c = [files |-> {}, cursor |-> 0, offset |-> 0, selected |-> {},
                 search |-> <<>>, searching |-> FALSE]
          /\ <<>> \in Seq(STRING) /\ {} \in SUBSET Row /\ {} \in SUBSET File
          /\ 0 \in Nat /\ FALSE \in BOOLEAN
      BY SMT DEF NewCatalog
    <3> HIDE DEF c
    <3> QED
      BY <3>1 DEF CatalogRecord
  <2>2. p \in PeersRecord /\ p.cursor = 0 /\ p.list = <<>>
    BY SMT DEF NewPeers, PeersRecord
  <2>3. CatalogFine(c)
    <3>1. Cardinality(Visible(c)) \in Nat
      BY <2>1, <1>VisibleFinite
    <3> HIDE DEF c
    <3> QED
      BY <2>1, <3>1, <1>EndsInList DEF CatalogFine
  <2>4. PeersFine(p)
    <3>1. Len(p.list) \in Nat
      BY SMT, <2>2
    <3> HIDE DEF p
    <3> QED
      BY <2>2, <3>1, <1>EndsInList DEF PeersFine
  <2>5. NoOverlay \in Overlay /\ <<>> \in Seq(Transfer)
    BY SMT DEF NoOverlay, Overlay
  <2>6. NewModel.catalog = c /\ NewModel.peers = p
    BY SMT DEF NewModel
  <2>7. NewModel \in Interface
    BY SMT, <2>1, <2>2, <2>5 DEF NewModel, Interface
  <2> HIDE DEF c, p
  <2>8. FirstOnline(p.list)
    BY SMT, <2>2 DEF FirstOnline
  <2> QED
    BY <2>3, <2>4, <2>6, <2>7, <2>8 DEF StartFine, InterfaceFine
\* The peers the daemon knows, listed.
<1>PeerOrder. PeersListed
  <2> SUFFICES ASSUME NEW S \in SUBSET Peer PROVE InOrder(S) \in Seq(Peer)
    BY DEF PeersListed
  <2>1. InOrder(S) \in Seq(S)
    BY DEF SetsFine, Listable
  <2> QED
    BY <2>1, <1>SeqWider
<1> QED
  BY <1>NewModelFine, <1>HandleResult, <1>HandleEvent, <1>KeyFacts, <1>WantedFacts, <1>PeerOrder
     DEF UpdateFine

-----------------------------------------------------------------------------
(***************************************************************************)
(* The steps of the program.                                               *)
(***************************************************************************)

GoodCommand == {c \in Command : CommandFine(c)}

\* Events: a connection has two, online and offline.
Event == {e \in Source \X Nat : e[1] = Watch \/ (e[1] \in Link /\ e[2] \in {1, 2})}

FeedType == queue \in Seq(Event) /\ got \in [Source -> Nat] /\ lost \in SUBSET Source

DaemonType ==
    /\ up \in BOOLEAN /\ db \in SUBSET Row /\ changes \in Nat /\ announced \in Nat
    /\ known \in SUBSET Peer /\ link \in [Link -> {"new", "up", "online", "down", "gone"}]

TuiType ==
    /\ InterfaceFine(ui) /\ FirstOnline(ui.peers.list)
    /\ flight \in Seq(GoodCommand)
    /\ plan \in PlanType /\ shown \in Nat /\ overtaken \in BOOLEAN

TypeInv == FeedType /\ DaemonType /\ TuiType

\* The command at one place is answered: what it was, and what it is then.
AnsweredAt(i, c) ==
    /\ c \in GoodCommand /\ flight' \in Seq(GoodCommand) /\ Len(flight') = Len(flight)
    /\ flight'[i] = c /\ \A j \in 1..Len(flight) : j # i => flight'[j] = flight[j]
    /\ ~ flight[i].made /\ c.call = flight[i].call /\ c.arg = flight[i].arg /\ c.made
    /\ c.ver = IF c.call = "catalog" THEN changes ELSE 0

\* A command that has just been issued.
LEMMA NewCommand ==
    ASSUME NEW call \in Call, NEW arg \in File \cup {0}, NEW c, c = Cmd(call, arg)
    PROVE  /\ CommandFine(c) /\ c.call = call /\ c.arg = arg /\ ~ c.made /\ ~ c.ok
<1>1. <<>> \in Seq(Peer)
  BY SMT
<1>2. c \in Command /\ c.call = call /\ c.arg = arg /\ ~ c.made /\ ~ c.ok
  BY SMT, <1>1 DEF Cmd, Command
<1> QED
  BY <1>2 DEF CommandFine

\* A command that is answered.
LEMMA AnsweredFacts ==
    ASSUME flight \in Seq(GoodCommand), changes \in Nat, NEW i \in 1..Len(flight),
           NEW ok \in BOOLEAN, NEW val \in (SUBSET Row) \cup Seq(Peer),
           flight[i].call = "peers" /\ ok => val \in Seq(Peer),
           flight[i].call = "catalog" /\ ok => val \in SUBSET Row,
           Answered(i, ok, val)
    PROVE  \E c \in GoodCommand :
              /\ flight' = [flight EXCEPT ![i] = c]
              /\ c.call = flight[i].call /\ c.arg = flight[i].arg /\ c.made /\ c.ok = ok
              /\ c.val = val
              /\ c.ver = IF c.call = "catalog" THEN changes ELSE 0
<1> DEFINE f == flight[i]
           w == IF f.call = "catalog" THEN changes ELSE 0
           c == [f EXCEPT !.made = TRUE, !.ok = ok, !.val = val, !.ver = w]
<1>1. f \in Command
  BY SMT DEF GoodCommand
<1>2. flight' = [flight EXCEPT ![i] = c]
  BY DEF Answered
<1>3. w \in Nat
  OBVIOUS
<1> HIDE DEF w
<1>4. /\ c \in Command /\ c.call = f.call /\ c.arg = f.arg /\ c.made /\ c.ok = ok /\ c.val = val
      /\ c.ver = w
  BY <1>1, <1>3 DEF Command
<1> HIDE DEF c
<1>5. c \in GoodCommand
  BY <1>4 DEF GoodCommand, CommandFine
<1> QED
  BY <1>2, <1>4, <1>5 DEF w

\* A broadcast puts the event on its way, or it is lost at once.
LEMMA BroadcastFacts ==
    ASSUME FeedType, NEW e \in Event, Broadcast(e)
    PROVE  /\ FeedType' /\ got' = got
           /\ \/ queue' = Append(queue, e) /\ lost' = lost
              \/ queue' = queue /\ lost' = lost \cup {e[1]}
<1>1. e[1] \in Source
  BY SMT DEF Event
<1>2. /\ got' = got
      /\ \/ queue' = Append(queue, e) /\ lost' = lost
         \/ queue' = queue /\ lost' = lost \cup {e[1]}
  BY ZenonT(40) DEF Broadcast, Feed!Publish, Feed!Cut, feedVars
<1>3. queue \in Seq(Event) => Append(queue, e) \in Seq(Event)
  BY SMT
<1> QED
  BY <1>1, <1>2, <1>3 DEF FeedType

\* The events that are broadcast.
LEMMA EventFacts ==
    ASSUME TypeInv
    PROVE  /\ <<Watch, announced + 1>> \in Event
           /\ \A l \in Link : <<l, 1>> \in Event /\ <<l, 2>> \in Event
<1>1. announced + 1 \in Nat
  BY SMT DEF TypeInv, DaemonType
<1>2. Watch \in Source /\ \A l \in Link : l \in Source
  BY DEF Source
<1> QED
  BY SMT, <1>1, <1>2 DEF Event

\* An event that is taken is the oldest, and newer than what was had of its source.
LEMMA TakeFacts ==
    ASSUME FeedType, Feed!Take
    PROVE  /\ queue # <<>> /\ Head(queue) \in Event /\ Len(queue) \in Nat /\ Len(queue) > 0
           /\ Head(queue) = queue[1]
           /\ queue' = Tail(queue) /\ queue' \in Seq(Event) /\ Len(queue') = Len(queue) - 1
           /\ \A j \in 1..Len(queue') : queue'[j] = queue[j + 1]
           /\ got' = [got EXCEPT ![Head(queue)[1]] = Head(queue)[2]] /\ got' \in [Source -> Nat]
           /\ Head(queue)[2] > got[Head(queue)[1]]
<1>1. /\ queue # <<>> /\ queue' = Tail(queue) /\ Head(queue)[2] > got[Head(queue)[1]]
      /\ got' = [got EXCEPT ![Head(queue)[1]] = Head(queue)[2]]
  BY DEF Feed!Take
<1>2. /\ Head(queue) \in Event /\ Len(queue) \in Nat /\ Len(queue) > 0 /\ Head(queue) = queue[1]
      /\ Tail(queue) \in Seq(Event) /\ Len(Tail(queue)) = Len(queue) - 1
      /\ \A j \in 1..Len(Tail(queue)) : Tail(queue)[j] = queue[j + 1]
  BY SMT, <1>1 DEF FeedType
<1>3. Head(queue)[1] \in Source /\ Head(queue)[2] \in Nat
  BY SMT, <1>2 DEF Event
<1>4. got' \in [Source -> Nat]
  BY <1>1, <1>3 DEF FeedType
<1> QED
  BY <1>1, <1>2, <1>4

\* The feed and the history of what it lost keep their type.
LEMMA FeedTypeNext == TypeInv /\ [Next]_vars => FeedType'
<1> SUFFICES ASSUME TypeInv, [Next]_vars PROVE FeedType'
  BY SMT
<1>1. FeedType
  BY DEF TypeInv
<1>2. ASSUME queue' = queue, got' = got, lost' = lost PROVE FeedType'
  BY <1>1, <1>2 DEF FeedType
<1>3. CASE FeedOpens
  BY <1>2, <1>3 DEF FeedOpens, Feed!Open
<1>4. CASE BroadcastCatalogUpdated
  BY <1>1, <1>4, EventFacts, BroadcastFacts DEF BroadcastCatalogUpdated
<1>5. ASSUME NEW l \in Link, BroadcastPeerOnline(l) \/ BroadcastPeerOffline(l) PROVE FeedType'
  BY <1>1, <1>5, EventFacts, BroadcastFacts DEF BroadcastPeerOnline, BroadcastPeerOffline
<1>6. CASE DaemonExits
  <2>1. /\ lost' = lost /\ got' = got
        /\ queue' = queue \/ \E k \in 0..Len(queue) : queue' = SubSeq(queue, 1, k)
    BY ZenonT(40), <1>6 DEF DaemonExits, Feed!Cut, feedVars
  <2>2. \A k \in 0..Len(queue) : SubSeq(queue, 1, k) \in Seq(Event)
    BY SMT, <1>1 DEF FeedType
  <2> QED
    BY <1>1, <2>1, <2>2 DEF FeedType
<1>7. CASE EventLost
  <2>1. PICK i \in 1..Len(queue) : queue' = DropAt(queue, i) /\ lost' = lost \cup {queue[i][1]}
    BY <1>7 DEF EventLost
  <2>2. got' = got
    BY <1>7 DEF EventLost, Feed!Lose
  <2>3. queue \in Seq(Event)
    BY <1>1 DEF FeedType
  <2>4. queue' \in Seq(Event)
    BY SMTT(20), <2>1, <2>3, DropElements
  <2>5. queue[i] \in Event
    BY SMT, <2>3
  <2>6. queue[i][1] \in Source
    BY SMT, <2>5 DEF Event
  <2> QED
    BY <1>1, <2>1, <2>2, <2>4, <2>6 DEF FeedType
<1>8. CASE EventMsg
  <2>1. Feed!Take /\ lost' = lost
    BY <1>8 DEF EventMsg
  <2> QED
    BY <1>1, <2>1, TakeFacts DEF FeedType
<1>9. CASE Disconnected
  BY <1>2, <1>9 DEF Disconnected, Feed!End
<1>10. ASSUME NEW l \in Link, LinkUp(l) \/ LinkDown(l) PROVE FeedType'
  BY <1>2, <1>10 DEF LinkUp, LinkDown, feedVars
<1>11. ASSUME NEW i \in 1..Len(flight), CallQuery(i) \/ CallJoin(i) \/ Deliver(i) PROVE FeedType'
  BY <1>2, <1>11 DEF CallQuery, CallJoin, Deliver, feedVars
<1>12. ASSUME CatalogChanges \/ (\E k : KeyMsg(k)) \/ (\E h : WindowSizeMsg(h)) PROVE FeedType'
  BY <1>2, <1>12 DEF CatalogChanges, KeyMsg, WindowSizeMsg, feedVars
<1>13. CASE UNCHANGED vars
  BY <1>2, <1>13 DEF vars, feedVars
<1> QED
  BY <1>3, <1>4, <1>5, <1>6, <1>7, <1>8, <1>9, <1>10, <1>11, <1>12, <1>13 DEF Next

\* The daemon keeps its type.
LEMMA DaemonTypeNext == TypeInv /\ [Next]_vars => DaemonType'
<1> SUFFICES ASSUME TypeInv, [Next]_vars PROVE DaemonType'
  BY SMT
<1>1. DaemonType
  BY DEF TypeInv
<1>2. ASSUME UNCHANGED daemonVars PROVE DaemonType'
  BY <1>1, <1>2 DEF DaemonType, daemonVars
<1>3. ASSUME FeedOpens \/ EventLost \/ EventMsg \/ Disconnected
             \/ (\E k : KeyMsg(k)) \/ (\E h : WindowSizeMsg(h))
      PROVE  DaemonType'
  BY <1>2, <1>3 DEF FeedOpens, EventLost, EventMsg, Disconnected, KeyMsg, WindowSizeMsg
<1>4. ASSUME NEW i \in 1..Len(flight), CallQuery(i) \/ Deliver(i) PROVE DaemonType'
  BY <1>2, <1>4 DEF CallQuery, Deliver
<1>5. CASE CatalogChanges
  <2>1. changes + 1 \in Nat
    BY SMT, <1>1 DEF DaemonType
  <2> QED
    BY <1>1, <1>5, <2>1 DEF CatalogChanges, DaemonType
<1>6. CASE BroadcastCatalogUpdated
  <2>1. announced + 1 \in Nat
    BY SMT, <1>1 DEF DaemonType
  <2> QED
    BY <1>1, <1>6, <2>1 DEF BroadcastCatalogUpdated, DaemonType
<1>7. CASE DaemonExits
  BY <1>1, <1>7 DEF DaemonExits, DaemonType
<1>8. ASSUME NEW l \in Link,
             LinkUp(l) \/ BroadcastPeerOnline(l) \/ LinkDown(l) \/ BroadcastPeerOffline(l)
      PROVE  DaemonType'
  BY <1>1, <1>8 DEF LinkUp, BroadcastPeerOnline, LinkDown, BroadcastPeerOffline, DaemonType
<1>9. ASSUME NEW i \in 1..Len(flight), CallJoin(i) PROVE DaemonType'
  <2>1. /\ UNCHANGED <<up, db, changes, announced>>
        /\ \/ UNCHANGED <<known, link>>
           \/ \E l \in plan.links : link' = [link EXCEPT ![l] = "up"]
                /\ known' \in {known, known \cup {PeerOf[l]}}
    BY <1>9 DEF CallJoin
  <2>2. ASSUME NEW l \in plan.links PROVE l \in Link /\ PeerOf[l] \in Peer
    <3>1. l \in Link
      BY SMTT(30) DEF TypeInv, TuiType, PlanType
    <3> QED
      BY <3>1, KeyAssumption
  <2> QED
    BY <1>1, <2>1, <2>2 DEF DaemonType
<1>10. CASE UNCHANGED vars
  BY <1>2, <1>10 DEF vars
<1> QED
  BY <1>3, <1>4, <1>5, <1>6, <1>7, <1>8, <1>9, <1>10 DEF Next

\* The commands that are issued.
LEMMA Issued ==
    ASSUME NEW call \in Call, NEW s, s = <<Cmd(call, 0)>>
    PROVE  /\ s \in Seq(GoodCommand) /\ Len(s) = 1
           /\ s[1].call = call /\ s[1].arg = 0 /\ ~ s[1].made
<1> DEFINE c == Cmd(call, 0)
<1>1. c = Cmd(call, 0) /\ 0 \in File \cup {0}
  OBVIOUS
<1> HIDE DEF c
<1>2. CommandFine(c) /\ c.call = call /\ c.arg = 0 /\ ~ c.made
  BY SMTT(20), <1>1, NewCommand
<1>3. c \in GoodCommand
  BY <1>2 DEF GoodCommand, CommandFine
<1>4. s = <<c>>
  BY <1>1
<1>5. s \in Seq(GoodCommand) /\ Len(s) = 1 /\ s[1] = c
  BY SMT, <1>3, <1>4
<1> QED
  BY <1>2, <1>5

\* The commands of an event: a catalog_updated makes the TUI fetch.
LEMMA EventCmdsFacts ==
    ASSUME NEW e
    PROVE  /\ EventCmds(e) \in Seq(GoodCommand)
           /\ e[1] # Watch => EventCmds(e) = <<>>
           /\ e[1] = Watch => /\ Len(EventCmds(e)) = 1 /\ EventCmds(e)[1].call = "catalog"
                              /\ EventCmds(e)[1].arg = 0 /\ ~ EventCmds(e)[1].made
<1>1. CASE e[1] = Watch
  <2>1. EventCmds(e) = <<Cmd("catalog", 0)>> /\ "catalog" \in Call
    BY <1>1 DEF EventCmds, Call
  <2> QED
    BY SMTT(20), <1>1, <2>1, Issued
<1>2. CASE e[1] # Watch
  <2>1. EventCmds(e) = <<>>
    BY <1>2 DEF EventCmds
  <2>2. <<>> \in Seq(GoodCommand)
    BY SMT
  <2> QED
    BY <1>2, <2>1, <2>2
<1> QED
  BY <1>1, <1>2

\* The commands of a result: a download that succeeded makes the TUI fetch.
LEMMA ResultCmdsFacts ==
    ASSUME NEW cmd
    PROVE  /\ ResultCmds(cmd) \in Seq(GoodCommand)
           /\ \/ ResultCmds(cmd) = <<>>
              \/ /\ Len(ResultCmds(cmd)) = 1 /\ ResultCmds(cmd)[1].call = "catalog"
                 /\ ResultCmds(cmd)[1].arg = 0 /\ ~ ResultCmds(cmd)[1].made
<1>1. CASE cmd.call = "download" /\ cmd.ok
  <2>1. ResultCmds(cmd) = <<Cmd("catalog", 0)>> /\ "catalog" \in Call
    BY <1>1 DEF ResultCmds, Call
  <2> QED
    BY SMTT(20), <1>1, <2>1, Issued
<1>2. CASE ~ (cmd.call = "download" /\ cmd.ok)
  <2>1. ResultCmds(cmd) = <<>>
    BY <1>2 DEF ResultCmds
  <2>2. <<>> \in Seq(GoodCommand)
    BY SMT
  <2> QED
    BY <1>2, <2>1, <2>2
<1> QED
  BY <1>1, <1>2

\* The downloads that are started, one for each row.
LEMMA DownloadsFacts ==
    ASSUME UpdateFine, NEW c, CatalogFine(c)
    PROVE  /\ Downloads(c) \in Seq(GoodCommand) /\ Len(Downloads(c)) = Len(Wanted(c))
           /\ \A i \in 1..Len(Wanted(c)) : /\ Downloads(c)[i].call = "download"
                                           /\ Downloads(c)[i].arg = FileOf[Wanted(c)[i]]
<1> DEFINE w == Wanted(c)
           d == Downloads(c)
<1>1. w \in Seq(Row)
  BY DEF UpdateFine, RowsListed
<1>2. d = [i \in 1..Len(w) |-> Cmd("download", FileOf[w[i]])]
  BY DEF Downloads
<1> HIDE DEF w, d
<1>3. ASSUME NEW i \in 1..Len(w)
      PROVE  d[i] \in GoodCommand /\ d[i].call = "download" /\ d[i].arg = FileOf[w[i]]
  <2>1. w[i] \in Row
    BY SMT, <1>1
  <2>2. FileOf[w[i]] \in File \cup {0} /\ "download" \in Call
    BY <2>1 DEF File, Call
  <2>3. d[i] = Cmd("download", FileOf[w[i]])
    BY <1>2
  <2>4. CommandFine(d[i]) /\ d[i].call = "download" /\ d[i].arg = FileOf[w[i]]
    BY SMTT(20), <2>2, <2>3, NewCommand
  <2> QED
    BY <2>4 DEF GoodCommand, CommandFine
<1>4. Len(w) \in Nat
  BY SMT, <1>1
<1>5. d \in [1..Len(w) -> GoodCommand]
  BY <1>2, <1>3
<1>6. d \in Seq(GoodCommand) /\ Len(d) = Len(w)
  BY SMT, <1>4, <1>5
<1> QED
  BY <1>3, <1>6 DEF w, d

\* The commands of a key.
LEMMA KeyCmdsFacts ==
    ASSUME UpdateFine, NEW u, InterfaceFine(u), NEW k \in STRING
    PROVE  /\ KeyCmds(u, k) \in Seq(GoodCommand)
           /\ \A i \in 1..Len(KeyCmds(u, k)) :
                KeyCmds(u, k)[i].call \in {"invite", "join", "download"}
<1> DEFINE s == KeyCmds(u, k)
<1>1. KeyKeeps(u, handleKey(u, k), k)
  BY DEF UpdateFine, KeysFine
<1>2. \/ s \in {<<>>, <<Cmd("invite", 0)>>, <<Cmd("join", 0)>>}
      \/ s = Downloads(u.catalog)
  BY <1>1 DEF KeyKeeps, TransfersFollow
<1> HIDE DEF s
<1> DEFINE Goal == s \in Seq(GoodCommand)
      /\ \A i \in 1..Len(s) : s[i].call \in {"invite", "join", "download"}
<1>3. ASSUME s = <<>> PROVE Goal
  BY SMT, <1>3
<1>4. ASSUME NEW c \in {"invite", "join"}, s = <<Cmd(c, 0)>> PROVE Goal
  <2>1. c \in Call
    BY SMT DEF Call
  <2>2. s \in Seq(GoodCommand) /\ Len(s) = 1 /\ s[1].call = c
    BY SMTT(20), <1>4, <2>1, Issued
  <2>3. \A i \in 1..Len(s) : i = 1
    BY SMT, <2>2
  <2> QED
    BY <2>2, <2>3
<1>5. ASSUME s = Downloads(u.catalog) PROVE Goal
  <2>1. CatalogFine(u.catalog)
    BY DEF InterfaceFine
  <2> QED
    BY <1>5, <2>1, DownloadsFacts
<1>6. Goal
  BY <1>2, <1>3, <1>4, <1>5
<1> QED
  BY <1>6 DEF s

\* The calls that only read.
LEMMA QueryFacts ==
    ASSUME UpdateFine, TypeInv, NEW i \in 1..Len(flight), CallQuery(i)
    PROVE  /\ \E c : AnsweredAt(i, c) /\ (c.call = "catalog" /\ c.ok => c.val = db)
           /\ ~ ui.quitting
           /\ UNCHANGED <<feedVars, daemonVars, ui, listening, plan, shown, overtaken, lost>>
<1> DEFINE Val(ok) == CASE ok /\ flight[i].call = "peers" -> InOrder(known)
                        [] ok /\ flight[i].call = "catalog" -> db
                        [] OTHER -> <<>>
<1>1. /\ ~ ui.quitting /\ ~ flight[i].made /\ \E ok \in BOOLEAN : Answered(i, ok, Val(ok))
      /\ UNCHANGED <<feedVars, daemonVars, ui, listening, plan, shown, overtaken, lost>>
  BY DEF CallQuery
<1>5. PICK ok \in BOOLEAN : Answered(i, ok, Val(ok))
  BY <1>1
<1> DEFINE val == Val(ok)
<1>2. /\ flight \in Seq(GoodCommand) /\ changes \in Nat /\ db \in SUBSET Row /\ known \in SUBSET Peer
  BY DEF TypeInv, TuiType, DaemonType
<1>3. InOrder(known) \in Seq(Peer)
  BY <1>2 DEF UpdateFine, PeersListed
<1>4. <<>> \in Seq(Peer)
  BY SMT
<1>6. /\ val \in {InOrder(known), db, <<>>}
      /\ flight[i].call = "peers" /\ ok => val = InOrder(known)
      /\ flight[i].call = "catalog" /\ ok => val = db
  BY SMT
<1>7. Answered(i, ok, val)
  BY <1>5
<1> HIDE DEF val
<1>8. /\ val \in (SUBSET Row) \cup Seq(Peer)
      /\ flight[i].call = "peers" /\ ok => val \in Seq(Peer)
      /\ flight[i].call = "catalog" /\ ok => val \in SUBSET Row
  <2>1. val \in (SUBSET Row) \cup Seq(Peer)
    BY <1>2, <1>3, <1>4, <1>6
  <2> QED
    BY <1>2, <1>3, <1>6, <2>1
<1>9. PICK c \in GoodCommand :
              /\ flight' = [flight EXCEPT ![i] = c]
              /\ c.call = flight[i].call /\ c.arg = flight[i].arg /\ c.made /\ c.ok = ok
              /\ c.val = val
              /\ c.ver = IF c.call = "catalog" THEN changes ELSE 0
  BY SMTT(20), <1>2, <1>7, <1>8, AnsweredFacts
<1>10. /\ flight' \in Seq(GoodCommand) /\ Len(flight') = Len(flight)
       /\ flight'[i] = c /\ \A j \in 1..Len(flight) : j # i => flight'[j] = flight[j]
  BY SMT, <1>2, <1>9
<1>11. AnsweredAt(i, c)
  BY <1>1, <1>9, <1>10 DEF AnsweredAt
<1>12. c.call = "catalog" /\ c.ok => c.val = db
  BY <1>6, <1>9
<1> QED
  BY <1>1, <1>11, <1>12

\* handleJoin.
LEMMA JoinFacts ==
    ASSUME TypeInv, NEW i \in 1..Len(flight), CallJoin(i)
    PROVE  /\ \E c : AnsweredAt(i, c) /\ c.call = "join"
           /\ ~ ui.quitting
           /\ UNCHANGED <<feedVars, up, db, changes, announced, ui, listening, plan, shown, overtaken, lost>>
<1>1. /\ ~ ui.quitting /\ ~ flight[i].made /\ flight[i].call = "join"
      /\ \E ok \in BOOLEAN : Answered(i, ok, <<>>)
      /\ UNCHANGED <<feedVars, up, db, changes, announced, ui, listening, plan, shown, overtaken, lost>>
  BY ZenonT(40) DEF CallJoin
<1>2. flight \in Seq(GoodCommand) /\ changes \in Nat
  BY DEF TypeInv, TuiType, DaemonType
<1>3. PICK ok \in BOOLEAN : Answered(i, ok, <<>>)
  BY <1>1
<1> DEFINE val == <<>>
<1>4. /\ Answered(i, ok, val) /\ val \in (SUBSET Row) \cup Seq(Peer)
      /\ flight[i].call = "peers" /\ ok => val \in Seq(Peer)
      /\ flight[i].call = "catalog" /\ ok => val \in SUBSET Row
  BY SMTT(30), <1>1, <1>3
<1> HIDE DEF val
<1>5. PICK c \in GoodCommand :
              /\ flight' = [flight EXCEPT ![i] = c]
              /\ c.call = flight[i].call /\ c.arg = flight[i].arg /\ c.made /\ c.ok = ok
              /\ c.val = val
              /\ c.ver = IF c.call = "catalog" THEN changes ELSE 0
  BY SMTT(20), <1>2, <1>4, AnsweredFacts
<1>6. /\ flight' \in Seq(GoodCommand) /\ Len(flight') = Len(flight)
      /\ flight'[i] = c /\ \A j \in 1..Len(flight) : j # i => flight'[j] = flight[j]
  BY SMT, <1>2, <1>5
<1>7. AnsweredAt(i, c)
  BY <1>1, <1>5, <1>6 DEF AnsweredAt
<1> QED
  BY <1>1, <1>5, <1>7

\* A result that is delivered.
LEMMA DeliverFacts ==
    ASSUME UpdateFine, TypeInv, NEW i \in 1..Len(flight), Deliver(i)
    PROVE  /\ flight[i] \in GoodCommand /\ flight[i].made /\ ResultDoes(ui, ui', flight[i])
           /\ FirstOnline(ui'.peers.list)
           /\ flight' \in Seq(GoodCommand)
           /\ \A j \in 1..Len(flight) : j # i => \E k \in 1..Len(flight') : flight'[k] = flight[j]
           /\ \A k \in 1..Len(flight') :
                \/ \E j \in 1..Len(flight) : j # i /\ flight'[k] = flight[j]
                \/ flight'[k].call = "catalog" /\ flight'[k].arg = 0 /\ ~ flight'[k].made
<1> DEFINE cmd == flight[i]
           d == DropAt(flight, i)
           s == ResultCmds(cmd)
<1>1. flight \in Seq(GoodCommand) /\ InterfaceFine(ui) /\ FirstOnline(ui.peers.list)
  BY DEF TypeInv, TuiType
<1>2. cmd \in GoodCommand
  BY SMT, <1>1
<1>3. cmd.made /\ ui' = handleResult(ui, cmd) /\ flight' = d \o s
  BY ZenonT(40) DEF Deliver
<1>4. CommandFine(cmd)
  BY <1>2 DEF GoodCommand
<1>5. ResultDoes(ui, ui', cmd)
  BY <1>1, <1>3, <1>4 DEF UpdateFine, ResultsFine
<1>6. FirstOnline(ui'.peers.list)
  BY <1>1, <1>5 DEF ResultDoes, FirstOnline
<1>7. d = DropAt(flight, i)
  BY SMT
<1>8. /\ s \in Seq(GoodCommand)
      /\ \/ s = <<>>
         \/ Len(s) = 1 /\ s[1].call = "catalog" /\ s[1].arg = 0 /\ ~ s[1].made
  BY ResultCmdsFacts
<1> HIDE DEF d, s
<1>9. d \in Seq(GoodCommand) /\ Without(flight, i, d)
  BY SMTT(20), <1>1, <1>7, DropElements
<1> DEFINE g == d \o s
<1>10. d \in Seq(GoodCommand) /\ s \in Seq(GoodCommand)
  BY <1>8, <1>9
<1>11. g = d \o s
  BY SMT
<1>12. flight' = g
  BY <1>3
<1> HIDE DEF g
<1>13. g \in Seq(GoodCommand) /\ Together(d, s, g)
  BY <1>10, <1>11, ConcatElements
<1>14. \A j \in 1..Len(s) : s[j].call = "catalog" /\ s[j].arg = 0 /\ ~ s[j].made
  BY SMT, <1>8
<1>15. /\ \A j \in 1..Len(d) : \E k \in 1..Len(flight) : k # i /\ d[j] = flight[k]
       /\ \A k \in 1..Len(g) :
            (\E j \in 1..Len(d) : g[k] = d[j]) \/ (\E j \in 1..Len(s) : g[k] = s[j])
  BY <1>9, <1>13 DEF Without, Together
<1>16. /\ \A k \in 1..Len(flight) : k # i => \E j \in 1..Len(d) : d[j] = flight[k]
       /\ \A j \in 1..Len(d) : \E k \in 1..Len(g) : g[k] = d[j]
  BY <1>9, <1>13 DEF Without, Together
<1>17. \A j \in 1..Len(flight) : j # i => \E k \in 1..Len(g) : g[k] = flight[j]
  BY <1>16
<1>18. ASSUME NEW k \in 1..Len(g)
       PROVE  \/ \E j \in 1..Len(flight) : j # i /\ g[k] = flight[j]
              \/ g[k].call = "catalog" /\ g[k].arg = 0 /\ ~ g[k].made
  <2>1. CASE \E j \in 1..Len(d) : g[k] = d[j]
    BY <1>15, <2>1
  <2>2. CASE \E j \in 1..Len(s) : g[k] = s[j]
    BY <1>14, <2>2
  <2> QED
    BY <1>15, <2>1, <2>2
<1> DEFINE Others(f) ==
      /\ \A j \in 1..Len(flight) : j # i => \E k \in 1..Len(f) : f[k] = flight[j]
      /\ \A k \in 1..Len(f) :
           \/ \E j \in 1..Len(flight) : j # i /\ f[k] = flight[j]
           \/ f[k].call = "catalog" /\ f[k].arg = 0 /\ ~ f[k].made
<1>19. Others(g)
  BY <1>17, <1>18
<1> HIDE DEF Others
<1>20. Others(flight') /\ flight' \in Seq(GoodCommand)
  BY <1>12, <1>13, <1>19
<1> QED
  BY <1>2, <1>3, <1>5, <1>6, <1>20 DEF Others

\* Commands are added.
LEMMA MoreCommands ==
    ASSUME TypeInv, NEW s \in Seq(GoodCommand), flight' = flight \o s
    PROVE  flight' \in Seq(GoodCommand) /\ Together(flight, s, flight')
BY ConcatElements DEF TypeInv, TuiType

\* An event that is handled.
LEMMA EventMsgFacts ==
    ASSUME UpdateFine, TypeInv, EventMsg
    PROVE  /\ ~ ui.quitting /\ Feed!Take /\ Head(queue) \in Event
           /\ ui' = handleEvent(ui, Head(queue))
           /\ InterfaceFine(ui') /\ FirstOnline(ui'.peers.list)
           /\ ui'.catalog = ui.catalog /\ ui'.overlay = ui.overlay /\ ui'.transfers = ui.transfers
           /\ \A i \in 1..Len(ui'.peers.list) : ui'.peers.list[i].online =>
                \/ /\ Head(queue)[1] # Watch /\ Head(queue)[2] = 1
                   /\ ui'.peers.list[i].peer = PeerOf[Head(queue)[1]]
                \/ /\ Head(queue)[1] # Watch /\ Head(queue)[2] = 2 =>
                         ui'.peers.list[i].peer # PeerOf[Head(queue)[1]]
                   /\ \E j \in 1..Len(ui.peers.list) :
                         ui.peers.list[j].online /\ ui.peers.list[j].peer = ui'.peers.list[i].peer
           /\ flight' \in Seq(GoodCommand) /\ Together(flight, EventCmds(Head(queue)), flight')
           /\ UNCHANGED <<daemonVars, plan, shown, overtaken, lost>>
<1> DEFINE e == Head(queue)
<1>1. /\ ~ ui.quitting /\ Feed!Take /\ ui' = handleEvent(ui, e) /\ flight' = flight \o EventCmds(e)
      /\ UNCHANGED <<daemonVars, plan, shown, overtaken, lost>>
  BY DEF EventMsg
<1>2. FeedType /\ InterfaceFine(ui) /\ FirstOnline(ui.peers.list)
  BY DEF TypeInv, TuiType
<1>3. e \in Event
  BY <1>1, <1>2, TakeFacts
<1>4. e[1] = Watch \/ (e[1] \in Link /\ e[2] \in {1, 2})
  BY <1>3 DEF Event
<1>5. flight' \in Seq(GoodCommand) /\ Together(flight, EventCmds(e), flight')
  BY <1>1, EventCmdsFacts, MoreCommands
<1> HIDE DEF e
<1> DEFINE v == handleEvent(ui, e)
<1>6.   /\ InterfaceFine(v) /\ v.catalog = ui.catalog /\ v.overlay = ui.overlay
        /\ v.transfers = ui.transfers /\ FirstOnline(v.peers.list)
        /\ \A i \in 1..Len(v.peers.list) : v.peers.list[i].online =>
                    \/ e[1] # Watch /\ e[2] = 1 /\ v.peers.list[i].peer = PeerOf[e[1]]
                    \/ /\ e[1] # Watch /\ e[2] = 2 => v.peers.list[i].peer # PeerOf[e[1]]
                       /\ \E j \in 1..Len(ui.peers.list) :
                             ui.peers.list[j].online /\ ui.peers.list[j].peer = v.peers.list[i].peer
  <2>1. EventDoes(ui, v, e)
    BY <1>2, <1>4 DEF UpdateFine, EventsFine
  <2> HIDE DEF v
  <2> QED
    BY <2>1 DEF EventDoes
<1>7. ui' = v
  BY <1>1
<1> HIDE DEF v
<1> QED
  BY <1>1, <1>3, <1>5, <1>6, <1>7 DEF e

\* A key that is handled.
LEMMA KeyMsgFacts ==
    ASSUME UpdateFine, TypeInv, NEW k \in plan.keys, KeyMsg(k)
    PROVE  /\ ~ ui.quitting /\ k \in STRING /\ KeyKeeps(ui, ui', k)
           /\ flight' \in Seq(GoodCommand) /\ Together(flight, KeyCmds(ui, k), flight')
           /\ plan' \in PlanType
           /\ UNCHANGED <<feedVars, daemonVars, listening, shown, overtaken, lost>>
<1>1. /\ ~ ui.quitting /\ plan.presses > 0 /\ plan' = [plan EXCEPT !.presses = @ - 1]
      /\ ui' = handleKey(ui, k) /\ flight' = flight \o KeyCmds(ui, k)
      /\ UNCHANGED <<feedVars, daemonVars, listening, shown, overtaken, lost>>
  BY DEF KeyMsg
<1>2. InterfaceFine(ui) /\ plan \in PlanType
  BY DEF TypeInv, TuiType
<1>3. k \in STRING /\ plan.presses \in Nat
  BY SMT, <1>2 DEF PlanType
<1>4. plan' \in PlanType
  <2> DEFINE n == plan.presses - 1
  <2>1. n \in Nat
    BY SMT, <1>1, <1>3
  <2>2. plan' = [plan EXCEPT !.presses = n]
    BY <1>1
  <2> HIDE DEF n
  <2> QED
    BY SMTT(30), <1>2, <2>1, <2>2 DEF PlanType
<1>5. KeyKeeps(ui, ui', k)
  BY <1>1, <1>2, <1>3 DEF UpdateFine, KeysFine
<1>6. KeyCmds(ui, k) \in Seq(GoodCommand)
  BY <1>2, <1>3, KeyCmdsFacts
<1> QED
  BY <1>1, <1>3, <1>4, <1>5, <1>6, MoreCommands

\* A new size: the plan counts it, the model has another height.
LEMMA WindowFacts ==
    ASSUME TypeInv, NEW h \in plan.heights, WindowSizeMsg(h)
    PROVE  /\ InterfaceFine(ui') /\ ui'.catalog = ui.catalog /\ ui'.peers = ui.peers
           /\ ui'.transfers = ui.transfers /\ ui'.overlay = ui.overlay /\ plan' \in PlanType
           /\ ~ ui.quitting
           /\ UNCHANGED <<feedVars, daemonVars, flight, listening, shown, overtaken, lost>>
<1>1. /\ ~ ui.quitting /\ plan.presses > 0 /\ plan' = [plan EXCEPT !.presses = @ - 1]
      /\ ui' = [ui EXCEPT !.height = h]
      /\ UNCHANGED <<feedVars, daemonVars, flight, listening, shown, overtaken, lost>>
  BY DEF WindowSizeMsg
<1>2. InterfaceFine(ui) /\ plan \in PlanType
  BY DEF TypeInv, TuiType
<1>3. h \in Int /\ plan.presses \in Nat
  BY SMT, <1>2 DEF PlanType
<1>4. plan' \in PlanType
  <2> DEFINE n == plan.presses - 1
  <2>1. n \in Nat
    BY SMT, <1>1, <1>3
  <2>2. plan' = [plan EXCEPT !.presses = n]
    BY <1>1
  <2> HIDE DEF n
  <2> QED
    BY SMTT(30), <1>2, <2>1, <2>2 DEF PlanType
<1>5. /\ InterfaceFine(ui') /\ ui'.catalog = ui.catalog /\ ui'.peers = ui.peers
      /\ ui'.transfers = ui.transfers /\ ui'.overlay = ui.overlay
  BY <1>1, <1>2, <1>3, WithRest
<1> QED
  BY <1>1, <1>4, <1>5

\* The feed ends.
LEMMA DisconnectedFacts ==
    ASSUME TypeInv, Disconnected
    PROVE  /\ InterfaceFine(ui') /\ ui'.catalog = ui.catalog /\ ui'.peers = ui.peers
           /\ ui'.transfers = ui.transfers /\ ui'.overlay = ui.overlay
           /\ ~ ui.quitting /\ UNCHANGED <<queue, got>>
           /\ UNCHANGED <<daemonVars, flight, plan, shown, overtaken, lost>>
<1>1. /\ ~ ui.quitting /\ ui' = [ui EXCEPT !.err = TRUE] /\ UNCHANGED <<queue, got>>
      /\ UNCHANGED <<daemonVars, flight, plan, shown, overtaken, lost>>
  BY DEF Disconnected, Feed!End
<1>2. InterfaceFine(ui)
  BY DEF TypeInv, TuiType
<1>3. /\ InterfaceFine(ui') /\ ui'.catalog = ui.catalog /\ ui'.peers = ui.peers
      /\ ui'.transfers = ui.transfers /\ ui'.overlay = ui.overlay
  BY <1>1, <1>2, WithRest
<1> QED
  BY <1>1, <1>3

\* The TUI's state keeps its type.
LEMMA TuiTypeNext ==
    ASSUME UpdateFine PROVE TypeInv /\ [Next]_vars => TuiType'
<1> SUFFICES ASSUME TypeInv, [Next]_vars PROVE TuiType'
  BY SMT
<1>1. TuiType
  BY DEF TypeInv
<1>2. ASSUME UNCHANGED <<ui, flight, plan, shown, overtaken>> PROVE TuiType'
  BY <1>1, <1>2 DEF TuiType
<1>3. ASSUME FeedOpens \/ CatalogChanges \/ BroadcastCatalogUpdated \/ DaemonExits \/ EventLost
      PROVE  TuiType'
  BY <1>2, <1>3 DEF FeedOpens, CatalogChanges, BroadcastCatalogUpdated, DaemonExits, EventLost,
     tuiVars
<1>4. ASSUME NEW l \in Link,
             LinkUp(l) \/ BroadcastPeerOnline(l) \/ LinkDown(l) \/ BroadcastPeerOffline(l)
      PROVE  TuiType'
  BY <1>2, <1>4 DEF LinkUp, BroadcastPeerOnline, LinkDown, BroadcastPeerOffline, tuiVars
<1>5. ASSUME NEW i \in 1..Len(flight), CallQuery(i) PROVE TuiType'
  BY ZenonT(40), <1>1, <1>5, QueryFacts DEF AnsweredAt, TuiType
<1>6. ASSUME NEW i \in 1..Len(flight), CallJoin(i) PROVE TuiType'
  BY <1>1, <1>6, JoinFacts DEF AnsweredAt, TuiType
<1>7. ASSUME NEW i \in 1..Len(flight), Deliver(i) PROVE TuiType'
  <2>1. /\ flight[i] \in GoodCommand /\ InterfaceFine(ui') /\ FirstOnline(ui'.peers.list)
        /\ flight' \in Seq(GoodCommand)
    BY <1>7, DeliverFacts DEF ResultDoes
  <2>2. flight[i].ver \in Nat
    BY SMT, <2>1 DEF GoodCommand, Command
  <2>3. /\ shown' = shown \/ shown' = flight[i].ver
        /\ overtaken' \in BOOLEAN /\ plan' = plan
    BY ZenonT(40), <1>7 DEF Deliver
  <2> QED
    BY <1>1, <2>1, <2>2, <2>3 DEF TuiType
<1>8. CASE EventMsg
  BY <1>1, <1>8, EventMsgFacts DEF TuiType
<1>9. CASE Disconnected
  BY <1>1, <1>9, DisconnectedFacts DEF TuiType
<1>10. ASSUME NEW k \in plan.keys, KeyMsg(k) PROVE TuiType'
  BY <1>1, <1>10, KeyMsgFacts DEF TuiType, KeyKeeps
<1>11. ASSUME NEW h \in plan.heights, WindowSizeMsg(h) PROVE TuiType'
  BY <1>1, <1>11, WindowFacts DEF TuiType
<1>12. CASE UNCHANGED vars
  BY <1>2, <1>12 DEF vars, tuiVars
<1> QED
  BY <1>3, <1>4, <1>5, <1>6, <1>7, <1>8, <1>9, <1>10, <1>11, <1>12 DEF Next

\* Every step keeps the type.
LEMMA TypeNext ==
    ASSUME UpdateFine PROVE TypeInv /\ [Next]_vars => TypeInv'
  BY FeedTypeNext, DaemonTypeNext, TuiTypeNext DEF TypeInv

\* The initial state has the type.
LEMMA InitType ==
    ASSUME UpdateFine PROVE Init => TypeInv
<1> SUFFICES ASSUME Init PROVE TypeInv
  BY SMT
<1>1. /\ queue = <<>> /\ got = [s \in Source |-> 0] /\ lost = {}
      /\ up = TRUE /\ db = plan.rows /\ changes = 0 /\ announced = 0 /\ known = plan.known
      /\ link = [l \in Link |-> "new"] /\ ui = NewModel /\ plan \in Plan
      /\ shown = 0 /\ overtaken = FALSE
      /\ flight = <<Cmd("peers", 0), Cmd("catalog", 0)>>
  BY DEF Init, Feed!Init
<1>2. plan \in PlanType
  BY <1>1, PlanAssumption
<1>3. FeedType
  BY SMT, <1>1 DEF FeedType
<1>4. plan.rows \in SUBSET Row /\ plan.known \in SUBSET Peer
  BY SMTT(30), <1>2 DEF PlanType
<1>5. DaemonType
  BY SMT, <1>1, <1>4 DEF DaemonType
<1>6. flight \in Seq(GoodCommand)
  <2> DEFINE a == Cmd("peers", 0)
             b == Cmd("catalog", 0)
  <2>1. "peers" \in Call /\ "catalog" \in Call /\ 0 \in File \cup {0} /\ a = Cmd("peers", 0)
          /\ b = Cmd("catalog", 0)
    BY DEF Call
  <2>2. flight = <<a, b>>
    BY <1>1
  <2> HIDE DEF a, b
  <2>3. CommandFine(a) /\ CommandFine(b)
    BY SMTT(20), <2>1, NewCommand
  <2>4. a \in GoodCommand /\ b \in GoodCommand
    BY <2>3 DEF GoodCommand, CommandFine
  <2> QED
    BY SMT, <2>2, <2>4
<1>7. TuiType
  <2>1. 0 \in Nat /\ FALSE \in BOOLEAN
    BY SMT
  <2> QED
    BY <1>1, <1>2, <1>6, <2>1 DEF TuiType, UpdateFine, StartFine
<1> QED
  BY <1>3, <1>5, <1>7 DEF TypeInv

-----------------------------------------------------------------------------
(***************************************************************************)
(* The files shown.                                                        *)
(***************************************************************************)

\* A fetch of the catalog, answered no later than now, with the rows there are when no
\* change was made since.
FetchFine(c) ==
    c.call = "catalog" =>
        /\ c.arg = 0
        /\ c.made => /\ c.ver <= changes
                     /\ c.ok /\ c.ver = changes => c.val = db

Fetches == \A i \in 1..Len(flight) : FetchFine(flight[i])

\* A change that is on its way to the screen.
ToBeAnnounced == announced < changes

ToBeTaken == \E i \in 1..Len(queue) : queue[i][1] = Watch

ToBeShown ==
    \E i \in 1..Len(flight) :
        flight[i].call = "catalog" /\ (~ flight[i].made \/ ~ flight[i].ok \/ flight[i].ver = changes)

Excused == ~ up \/ ui.quitting \/ Watch \in lost \/ overtaken

CatView ==
    \/ Excused \/ ToBeAnnounced \/ ToBeTaken \/ ToBeShown
    \/ ui.catalog.files = db /\ shown = changes

CatInv == shown <= changes /\ announced <= changes /\ Fetches /\ CatView

\* Every step.
LEMMA CatNext ==
    ASSUME UpdateFine PROVE TypeInv /\ CatInv /\ [Next]_vars => CatInv'
\* Nothing of it changes.
<1>CatSame.
      ASSUME CatInv, UNCHANGED <<shown, changes, announced, flight, up, db, queue, lost, overtaken>>,
             ui'.catalog.files = ui.catalog.files, ui.quitting => ui'.quitting
      PROVE  CatInv'
  BY <1>CatSame DEF CatInv, Fetches, FetchFine, CatView, Excused, ToBeAnnounced, ToBeTaken, ToBeShown
\* Commands that are not fetches, or fetches not made yet, are added.
<1>CatMore.
      ASSUME CatInv, UNCHANGED <<shown, changes, announced, up, db, lost, overtaken>>,
             ui'.catalog.files = ui.catalog.files, ~ ui.quitting, ToBeTaken
               => ToBeTaken' \/ ToBeShown',
             \A j \in 1..Len(flight) : \E k \in 1..Len(flight') : flight'[k] = flight[j],
             \A k \in 1..Len(flight') :
                 \/ \E j \in 1..Len(flight) : flight'[k] = flight[j]
                 \/ flight'[k].call = "catalog" => flight'[k].arg = 0 /\ ~ flight'[k].made
      PROVE  CatInv'
  <2> USE <1>CatMore
  <2>1. Fetches'
    <3> SUFFICES ASSUME NEW k \in 1..Len(flight') PROVE FetchFine(flight[k])'
      BY DEF Fetches
    <3>1. CASE \E j \in 1..Len(flight) : flight'[k] = flight[j]
      BY <3>1 DEF CatInv, Fetches, FetchFine
    <3>2. CASE flight'[k].call = "catalog" => flight'[k].arg = 0 /\ ~ flight'[k].made
      BY <3>2 DEF FetchFine
    <3> QED
      BY <3>1, <3>2
  <2>2. ToBeShown => ToBeShown'
    <3> SUFFICES ASSUME ToBeShown PROVE ToBeShown'
      OBVIOUS
    <3>1. PICK j \in 1..Len(flight) :
              flight[j].call = "catalog"
                /\ (~ flight[j].made \/ ~ flight[j].ok \/ flight[j].ver = changes)
      BY DEF ToBeShown
    <3>2. PICK k \in 1..Len(flight') : flight'[k] = flight[j]
      OBVIOUS
    <3> QED
      BY ZenonT(40), <3>1, <3>2 DEF ToBeShown
  <2> QED
    BY <2>1, <2>2 DEF CatInv, CatView, Excused, ToBeAnnounced
\* A change is committed: it will be announced.
<1>CatChanges. TypeInv /\ CatInv /\ CatalogChanges => CatInv'
  <2> SUFFICES ASSUME TypeInv, CatInv, CatalogChanges PROVE CatInv'
    BY SMT
  <2>1. /\ changes' = changes + 1 /\ UNCHANGED <<announced, flight, up, shown>>
    BY DEF CatalogChanges, tuiVars
  <2>2. changes \in Nat /\ announced \in Nat /\ shown \in Nat /\ flight \in Seq(GoodCommand)
    BY DEF TypeInv, DaemonType, TuiType
  <2>3. shown <= changes /\ announced <= changes
    BY DEF CatInv
  <2>4. shown' <= changes' /\ announced' <= changes' /\ announced' < changes'
    BY SMT, <2>1, <2>2, <2>3
  <2>5. ASSUME NEW i \in 1..Len(flight) PROVE FetchFine(flight[i])'
    <3>1. flight[i] \in GoodCommand
      BY SMTT(30), <2>2
    <3>2. flight[i].ver \in Nat
      BY SMT, <3>1 DEF GoodCommand, Command
    <3>3. FetchFine(flight[i])
      BY DEF CatInv, Fetches
    <3>4. flight[i].ver <= changes => flight[i].ver <= changes' /\ flight[i].ver # changes'
      BY SMTT(30), <2>1, <2>2, <3>2
    <3> QED
      BY <2>1, <3>3, <3>4 DEF FetchFine
  <2>6. Fetches'
    BY <2>1, <2>5 DEF Fetches
  <2> QED
    BY <2>4, <2>6 DEF CatInv, CatView, ToBeAnnounced
\* A change is announced: the event is queued, or lost.
<1>CatAnnounced. TypeInv /\ CatInv /\ BroadcastCatalogUpdated => CatInv'
  <2> SUFFICES ASSUME TypeInv, CatInv, BroadcastCatalogUpdated PROVE CatInv'
    BY SMT
  <2> DEFINE e == <<Watch, announced + 1>>
  <2>1. /\ announced < changes /\ announced' = announced + 1 /\ Broadcast(e)
        /\ UNCHANGED <<up, db, changes, flight, shown>>
    BY DEF BroadcastCatalogUpdated, tuiVars
  <2>2. e[1] = Watch
    BY SMT
  <2>3. FeedType /\ e \in Event /\ announced \in Nat /\ changes \in Nat
    BY EventFacts DEF TypeInv, DaemonType
  <2> HIDE DEF e
  <2>4. \/ queue' = Append(queue, e)
        \/ lost' = lost \cup {e[1]}
    BY <2>1, <2>3, BroadcastFacts
  <2>5. CASE queue' = Append(queue, e)
    <3>1. Len(queue) + 1 \in 1..Len(queue') /\ queue'[Len(queue) + 1] = e
      BY SMT, <2>3, <2>5 DEF FeedType
    <3>2. ToBeTaken'
      BY <2>2, <3>1 DEF ToBeTaken
    <3>3. announced' <= changes'
      BY SMT, <2>1, <2>3
    <3> QED
      BY ZenonT(40), <2>1, <3>2, <3>3 DEF CatInv, CatView, Fetches, FetchFine
  <2>6. CASE lost' = lost \cup {e[1]}
    <3>1. Excused'
      BY <2>2, <2>6 DEF Excused
    <3>2. announced' <= changes'
      BY SMT, <2>1, <2>3
    <3> QED
      BY <2>1, <3>1, <3>2 DEF CatInv, CatView, Fetches, FetchFine
  <2> QED
    BY <2>4, <2>5, <2>6
\* Events of connections go by.
<1>CatPeers.
      ASSUME TypeInv, CatInv, NEW l \in Link, BroadcastPeerOnline(l) \/ BroadcastPeerOffline(l)
      PROVE  CatInv'
  <2> USE <1>CatPeers
  <2>1. PICK e \in Event : Broadcast(e)
    BY EventFacts DEF BroadcastPeerOnline, BroadcastPeerOffline
  <2>2. UNCHANGED <<shown, changes, announced, flight, up, db, overtaken, ui>>
    BY DEF BroadcastPeerOnline, BroadcastPeerOffline, tuiVars
  <2>3. FeedType
    BY DEF TypeInv
  <2>4. \/ queue' = Append(queue, e) /\ lost' = lost
        \/ queue' = queue /\ lost' = lost \cup {e[1]}
    BY <2>1, <2>3, BroadcastFacts
  <2>5. Excused => Excused'
    BY <2>2, <2>4 DEF Excused
  <2>6. ToBeTaken => ToBeTaken'
    <3>1. CASE queue' = queue
      BY <3>1 DEF ToBeTaken
    <3>2. CASE queue' = Append(queue, e)
      <4>1. \A i \in 1..Len(queue) : i \in 1..Len(queue') /\ queue'[i] = queue[i]
        BY SMT, <2>3, <3>2 DEF FeedType
      <4> QED
        BY <4>1 DEF ToBeTaken
    <3> QED
      BY <2>4, <3>1, <3>2
  <2> QED
    BY ZenonT(40), <2>2, <2>5, <2>6 DEF CatInv, Fetches, FetchFine, CatView, ToBeAnnounced, ToBeShown
\* An event is lost: if it is a catalog_updated, that is recorded.
<1>CatLost. TypeInv /\ CatInv /\ EventLost => CatInv'
  <2> SUFFICES ASSUME TypeInv, CatInv, EventLost PROVE CatInv'
    BY SMT
  <2>1. PICK i \in 1..Len(queue) : queue' = DropAt(queue, i) /\ lost' = lost \cup {queue[i][1]}
    BY DEF EventLost
  <2>2. UNCHANGED <<shown, changes, announced, flight, up, db, overtaken, ui>>
    BY DEF EventLost, daemonVars, tuiVars
  <2>3. queue \in Seq(Event)
    BY DEF TypeInv, FeedType
  <2>4. Without(queue, i, queue')
    BY SMTT(20), <2>1, <2>3, DropElements
  <2>5. ASSUME ToBeTaken PROVE ToBeTaken' \/ Excused'
    <3>1. PICK j \in 1..Len(queue) : queue[j][1] = Watch
      BY <2>5 DEF ToBeTaken
    <3>2. CASE j = i
      BY <2>1, <3>1, <3>2 DEF Excused
    <3>3. CASE j # i
      BY <2>4, <3>1, <3>3 DEF Without, ToBeTaken
    <3> QED
      BY <3>2, <3>3
  <2>6. Excused => Excused'
    BY <2>1, <2>2 DEF Excused
  <2> QED
    BY ZenonT(40), <2>2, <2>5, <2>6 DEF CatInv, Fetches, FetchFine, CatView, ToBeAnnounced, ToBeShown
\* The daemon ends.
<1>CatExits. CatInv /\ DaemonExits => CatInv'
  <2> SUFFICES ASSUME CatInv, DaemonExits PROVE CatInv'
    BY SMT
  <2>1. UNCHANGED <<shown, changes, announced, flight, db>> /\ up' = FALSE
    BY DEF DaemonExits, tuiVars
  <2> QED
    BY <2>1 DEF CatInv, Fetches, FetchFine, CatView, Excused
\* A call is answered: a fetch with the rows there are.
<1>CatAnswered.
      ASSUME TypeInv, CatInv, NEW i \in 1..Len(flight), NEW c, AnsweredAt(i, c),
             c.call = "catalog" /\ c.ok => c.val = db,
             UNCHANGED <<shown, changes, announced, up, db, queue, lost, overtaken, ui>>
      PROVE  CatInv'
  <2> USE <1>CatAnswered
  <2>1. FetchFine(c)'
    <3>1. CASE c.call = "catalog"
      <4>1. c.ver = changes /\ c.made /\ c.arg = flight[i].arg /\ flight[i].call = "catalog"
        BY <3>1 DEF AnsweredAt
      <4>2. flight[i].arg = 0
        BY <4>1 DEF CatInv, Fetches, FetchFine
      <4>3. changes <= changes
        BY SMT DEF TypeInv, DaemonType
      <4> QED
        BY <3>1, <4>1, <4>2, <4>3 DEF FetchFine
    <3>2. CASE c.call # "catalog"
      BY <3>2 DEF FetchFine
    <3> QED
      BY <3>1, <3>2
  <2>2. Len(flight') = Len(flight) /\ flight'[i] = c
          /\ \A j \in 1..Len(flight) : j # i => flight'[j] = flight[j]
    BY DEF AnsweredAt
  <2>3. Fetches'
    BY ZenonT(30), <2>1, <2>2 DEF CatInv, Fetches, FetchFine
  <2>4. ASSUME ToBeShown PROVE ToBeShown'
    <3>1. PICK j \in 1..Len(flight) :
              flight[j].call = "catalog"
                /\ (~ flight[j].made \/ ~ flight[j].ok \/ flight[j].ver = changes)
      BY <2>4 DEF ToBeShown
    <3>2. CASE j # i
      BY <2>2, <3>1, <3>2 DEF ToBeShown
    <3>3. CASE j = i
      <4>1. c.call = "catalog" /\ c.ver = changes
        BY <3>1, <3>3 DEF AnsweredAt
      <4> QED
        BY <2>2, <4>1 DEF ToBeShown
    <3> QED
      BY <3>2, <3>3
  <2> QED
    BY <2>3, <2>4 DEF CatInv, CatView, Excused, ToBeAnnounced, ToBeTaken
\* A result is delivered: the newest is shown, and an older one after it, or a failed
\* fetch, is noticed.
<1>CatDelivered.
      ASSUME TypeInv, CatInv, NEW i \in 1..Len(flight), Deliver(i)
      PROVE  CatInv'
  <2> USE <1>CatDelivered
  <2> DEFINE cmd == flight[i]
             fetch == cmd.call = "catalog"
             files == fetch /\ cmd.ok
  <2>1. /\ cmd \in GoodCommand /\ cmd.made /\ ResultDoes(ui, ui', cmd)
        /\ \A j \in 1..Len(flight) : j # i => \E k \in 1..Len(flight') : flight'[k] = flight[j]
        /\ \A k \in 1..Len(flight') :
             \/ \E j \in 1..Len(flight) : j # i /\ flight'[k] = flight[j]
             \/ flight'[k].call = "catalog" /\ flight'[k].arg = 0 /\ ~ flight'[k].made
    BY DeliverFacts
  <2>2. /\ UNCHANGED <<queue, up, db, changes, announced, lost>> /\ ~ ui.quitting
        /\ shown' = (IF files THEN cmd.ver ELSE shown)
        /\ overtaken' = (overtaken \/ (fetch /\ (cmd.ok => cmd.ver < shown)))
    BY DEF Deliver, feedVars, daemonVars
  <2>3. shown \in Nat /\ changes \in Nat /\ shown <= changes /\ overtaken \in BOOLEAN
    BY DEF TypeInv, TuiType, DaemonType, CatInv
  <2>4. cmd.ver \in Nat
    BY SMT, <2>1 DEF GoodCommand, Command
  <2>5. FetchFine(cmd)
    BY DEF CatInv, Fetches
  <2>6. files => cmd.ver <= changes
    BY <2>1, <2>5 DEF FetchFine
  <2>7. shown' <= changes'
    BY <2>2, <2>3, <2>6
  <2>8. Fetches'
    <3> SUFFICES ASSUME NEW k \in 1..Len(flight') PROVE FetchFine(flight[k])'
      BY DEF Fetches
    <3>1. CASE \E j \in 1..Len(flight) : flight'[k] = flight[j]
      BY <2>2, <3>1 DEF CatInv, Fetches, FetchFine
    <3>2. CASE flight'[k].call = "catalog" /\ flight'[k].arg = 0 /\ ~ flight'[k].made
      BY <3>2 DEF FetchFine
    <3> QED
      BY <2>1, <3>1, <3>2
  <2>9. CASE files /\ cmd.ver = changes
    <3>1. cmd.val = db
      BY <2>1, <2>5, <2>9 DEF FetchFine
    <3>2. ui'.catalog.files = db' /\ shown' = changes'
      BY <2>1, <2>2, <2>9, <3>1 DEF ResultDoes
    <3> QED
      BY <2>2, <2>7, <2>8, <3>2 DEF CatInv, CatView
  <2>10. CASE files /\ cmd.ver # changes
    <3>1. ASSUME shown = changes PROVE overtaken'
      <4>1. cmd.ver < shown
        BY SMTT(30), <2>3, <2>4, <2>6, <2>10, <3>1
      <4> QED
        BY <2>2, <2>10, <4>1
    <3>2. ToBeShown => ToBeShown'
      <4> SUFFICES ASSUME ToBeShown PROVE ToBeShown'
        OBVIOUS
      <4>1. PICK j \in 1..Len(flight) :
              flight[j].call = "catalog"
                /\ (~ flight[j].made \/ ~ flight[j].ok \/ flight[j].ver = changes)
        BY DEF ToBeShown
      <4>2. j # i
        BY <2>1, <2>10, <4>1
      <4>3. PICK k \in 1..Len(flight') : flight'[k] = flight[j]
        BY <2>1, <4>2
      <4> QED
        BY <2>2, <4>1, <4>3 DEF ToBeShown
    <3>3. Excused => Excused'
      BY <2>2 DEF Excused
    <3> QED
      BY <2>2, <2>7, <2>8, <3>1, <3>2, <3>3 DEF CatInv, CatView, Excused, ToBeAnnounced, ToBeTaken
  <2>11. CASE ~ files
    <3>1. ui'.catalog.files = ui.catalog.files /\ shown' = shown
      BY <2>1, <2>2, <2>11 DEF ResultDoes
    <3>2. ToBeShown => ToBeShown' \/ Excused'
      <4> SUFFICES ASSUME ToBeShown PROVE ToBeShown' \/ Excused'
        OBVIOUS
      <4>1. PICK j \in 1..Len(flight) :
              flight[j].call = "catalog"
                /\ (~ flight[j].made \/ ~ flight[j].ok \/ flight[j].ver = changes)
        BY DEF ToBeShown
      <4>2. CASE j # i
        <5>1. PICK k \in 1..Len(flight') : flight'[k] = flight[j]
          BY <2>1, <4>2
        <5> QED
          BY <2>2, <4>1, <5>1 DEF ToBeShown
      <4>3. CASE j = i
        BY ZenonT(40), <2>2, <2>11, <4>1, <4>3 DEF Excused
      <4> QED
        BY <4>2, <4>3
    <3>3. Excused => Excused'
      BY <2>2 DEF Excused
    <3> QED
      BY <2>2, <2>7, <2>8, <3>1, <3>2, <3>3 DEF CatInv, CatView, Excused, ToBeAnnounced, ToBeTaken
  <2> QED
    BY <2>9, <2>10, <2>11
\* An event is taken: after a catalog_updated there is a fetch.
<1>CatTaken. TypeInv /\ CatInv /\ EventMsg => CatInv'
  <2> SUFFICES ASSUME TypeInv, CatInv, EventMsg PROVE CatInv'
    BY SMT
  <2> DEFINE e == Head(queue)
             s == EventCmds(e)
  <2>1. /\ ~ ui.quitting /\ Feed!Take /\ ui'.catalog = ui.catalog /\ Together(flight, s, flight')
        /\ UNCHANGED <<daemonVars, plan, shown, overtaken, lost>>
    BY EventMsgFacts
  <2>2. UNCHANGED <<shown, changes, announced, up, db, lost, overtaken>>
    BY <2>1 DEF daemonVars
  <2>3. /\ e[1] # Watch => s = <<>>
        /\ e[1] = Watch => Len(s) = 1 /\ s[1].call = "catalog" /\ s[1].arg = 0 /\ ~ s[1].made
    BY EventCmdsFacts
  <2>4. FeedType
    BY DEF TypeInv
  <2>5. /\ e = queue[1] /\ Len(queue) \in Nat /\ Len(queue') = Len(queue) - 1
        /\ \A j \in 1..Len(queue') : queue'[j] = queue[j + 1]
    BY <2>1, <2>4, TakeFacts
  <2> HIDE DEF e, s
  <2>6. \A j \in 1..Len(s) : s[j].call = "catalog" => s[j].arg = 0 /\ ~ s[j].made
    BY SMT, <2>3
  <2>7. \A j \in 1..Len(flight) : \E k \in 1..Len(flight') : flight'[k] = flight[j]
    BY <2>1 DEF Together
  <2>8. ASSUME NEW k \in 1..Len(flight')
        PROVE  \/ \E j \in 1..Len(flight) : flight'[k] = flight[j]
               \/ flight'[k].call = "catalog" => flight'[k].arg = 0 /\ ~ flight'[k].made
    <3>1. (\E j \in 1..Len(flight) : flight'[k] = flight[j])
            \/ (\E j \in 1..Len(s) : flight'[k] = s[j])
      BY <2>1 DEF Together
    <3>2. CASE \E j \in 1..Len(s) : flight'[k] = s[j]
      BY <2>6, <3>2
    <3> QED
      BY <3>1, <3>2
  <2>9. ASSUME ToBeTaken PROVE ToBeTaken' \/ ToBeShown'
    <3>1. PICK j \in 1..Len(queue) : queue[j][1] = Watch
      BY <2>9 DEF ToBeTaken
    <3>2. CASE j = 1
      <4>1. e[1] = Watch
        BY <2>5, <3>1, <3>2
      <4>2. 1 \in 1..Len(s) /\ s[1].call = "catalog" /\ ~ s[1].made
        BY SMT, <2>3, <4>1
      <4>3. PICK k \in 1..Len(flight') : flight'[k] = s[1]
        BY <2>1, <4>2 DEF Together
      <4> QED
        BY ZenonT(40), <4>2, <4>3 DEF ToBeShown
    <3>3. CASE j # 1
      <4>1. j - 1 \in 1..Len(queue') /\ (j - 1) + 1 = j
        BY SMT, <2>5, <3>3
      <4>2. queue'[j - 1] = queue[j]
        BY <2>5, <4>1
      <4> QED
        BY <3>1, <4>1, <4>2 DEF ToBeTaken
    <3> QED
      BY <3>2, <3>3
  <2>10. ui'.catalog.files = ui.catalog.files
    BY <2>1
  <2> QED
    BY <2>1, <2>2, <2>7, <2>8, <2>9, <2>10, <1>CatMore
\* A key issues no fetch.
<1>CatKey.
      ASSUME TypeInv, CatInv, NEW k \in plan.keys, KeyMsg(k)
      PROVE  CatInv'
  <2> USE <1>CatKey
  <2> DEFINE s == KeyCmds(ui, k)
  <2>1. /\ ~ ui.quitting /\ k \in STRING /\ KeyKeeps(ui, ui', k) /\ Together(flight, s, flight')
        /\ UNCHANGED <<feedVars, daemonVars, listening, shown, overtaken, lost>>
    BY KeyMsgFacts
  <2>2. UNCHANGED <<shown, changes, announced, up, db, queue, lost, overtaken>>
    BY <2>1 DEF daemonVars, feedVars
  <2>3. InterfaceFine(ui)
    BY DEF TypeInv, TuiType
  <2>4. \A i \in 1..Len(s) : s[i].call \in {"invite", "join", "download"}
    BY <2>1, <2>3, KeyCmdsFacts
  <2> HIDE DEF s
  <2>5. \A i \in 1..Len(s) : s[i].call # "catalog"
    BY SMT, <2>4
  <2>6. \A j \in 1..Len(flight) : \E n \in 1..Len(flight') : flight'[n] = flight[j]
    BY <2>1 DEF Together
  <2>7. ASSUME NEW n \in 1..Len(flight')
        PROVE  \/ \E j \in 1..Len(flight) : flight'[n] = flight[j]
               \/ flight'[n].call = "catalog" => flight'[n].arg = 0 /\ ~ flight'[n].made
    <3>1. (\E j \in 1..Len(flight) : flight'[n] = flight[j])
            \/ (\E j \in 1..Len(s) : flight'[n] = s[j])
      BY <2>1 DEF Together
    <3>2. CASE \E j \in 1..Len(s) : flight'[n] = s[j]
      BY <2>5, <3>2
    <3> QED
      BY <3>1, <3>2
  <2>8. ToBeTaken => ToBeTaken'
    BY <2>2 DEF ToBeTaken
  <2>9. ui'.catalog.files = ui.catalog.files
    BY <2>1 DEF KeyKeeps
  <2> QED
    BY <2>1, <2>2, <2>6, <2>7, <2>8, <2>9, <1>CatMore
<1> SUFFICES ASSUME TypeInv, CatInv, [Next]_vars PROVE CatInv'
  BY SMT
<1>1. CASE FeedOpens
  BY <1>1, <1>CatSame DEF FeedOpens, Feed!Open, daemonVars, tuiVars
<1>2. ASSUME NEW l \in Link, LinkUp(l) \/ LinkDown(l) PROVE CatInv'
  BY <1>2, <1>CatSame DEF LinkUp, LinkDown, feedVars, tuiVars
<1>3. ASSUME NEW l \in Link, BroadcastPeerOnline(l) \/ BroadcastPeerOffline(l) PROVE CatInv'
  BY <1>3, <1>CatPeers
<1>4. ASSUME NEW i \in 1..Len(flight), CallQuery(i) PROVE CatInv'
  <2>1. PICK c : AnsweredAt(i, c) /\ (c.call = "catalog" /\ c.ok => c.val = db)
    BY <1>4, QueryFacts
  <2>2. UNCHANGED <<shown, changes, announced, up, db, queue, lost, overtaken, ui>>
    BY <1>4, QueryFacts DEF feedVars, daemonVars
  <2> QED
    BY <2>1, <2>2, <1>CatAnswered
<1>5. ASSUME NEW i \in 1..Len(flight), CallJoin(i) PROVE CatInv'
  <2>1. PICK c : AnsweredAt(i, c) /\ c.call = "join"
    BY <1>5, JoinFacts
  <2>2. UNCHANGED <<shown, changes, announced, up, db, queue, lost, overtaken, ui>>
    BY <1>5, JoinFacts DEF feedVars
  <2>3. c.call # "catalog"
    BY SMT, <2>1
  <2> QED
    BY ZenonT(40), <2>1, <2>2, <2>3, <1>CatAnswered
<1>6. ASSUME NEW i \in 1..Len(flight), Deliver(i) PROVE CatInv'
  BY <1>6, <1>CatDelivered
<1>7. CASE Disconnected
  BY <1>7, DisconnectedFacts, <1>CatSame DEF daemonVars
<1>8. ASSUME NEW k \in plan.keys, KeyMsg(k) PROVE CatInv'
  BY <1>8, <1>CatKey
<1>9. ASSUME NEW h \in plan.heights, WindowSizeMsg(h) PROVE CatInv'
  BY <1>9, WindowFacts, <1>CatSame DEF daemonVars, feedVars
<1>10. CASE UNCHANGED vars
  BY <1>10, <1>CatSame DEF vars, daemonVars, feedVars, tuiVars
<1> QED
  BY ZenonT(40), <1>1, <1>2, <1>3, <1>4, <1>5, <1>6, <1>7, <1>8, <1>9, <1>10,
     <1>CatChanges, <1>CatAnnounced, <1>CatLost, <1>CatExits, <1>CatTaken DEF Next

\* At first the catalog is being fetched.
LEMMA CatInit == Init => CatInv
<1> SUFFICES ASSUME Init PROVE CatInv
  BY SMT
<1> DEFINE a == Cmd("peers", 0)
           b == Cmd("catalog", 0)
<1>1. shown = 0 /\ changes = 0 /\ announced = 0 /\ flight = <<a, b>>
  BY DEF Init
<1>2. a.call = "peers" /\ b.call = "catalog" /\ b.arg = 0 /\ b.made = FALSE
  BY SMT DEF Cmd
<1> HIDE DEF a, b
<1>3. /\ Len(flight) = 2 /\ flight[2] = b /\ 2 \in 1..Len(flight)
      /\ \A i \in 1..Len(flight) : flight[i] = a \/ flight[i] = b
  BY SMT, <1>1
<1>4. a.call # "catalog"
  BY SMT, <1>2
<1>5. Fetches
  BY <1>2, <1>3, <1>4 DEF Fetches, FetchFine
<1>6. ToBeShown
  BY ZenonT(40), <1>2, <1>3 DEF ToBeShown
<1>7. shown <= changes /\ announced <= changes
  BY SMT, <1>1
<1> QED
  BY <1>5, <1>6, <1>7 DEF CatInv, CatView

-----------------------------------------------------------------------------
(***************************************************************************)
(* The peers shown as online.                                              *)
(***************************************************************************)

\* The end of a connection is still to be heard of, or never will be.
Awaited(l) == link[l] # "gone" \/ <<l, 2>> \in Range(queue) \/ l \in lost

\* While the daemon runs, a connection that is gone has been heard of, or is awaited.
Heard == up => \A l \in Link : Awaited(l) \/ got[l] = 2

PeerInv == Heard /\ ShownOnlineIsBacked

\* Every step.
LEMMA PeerNext ==
    ASSUME UpdateFine PROVE TypeInv /\ PeerInv /\ [Next]_vars => PeerInv'
\* What it says with the name.
<1>BackedIs.
      ShownOnlineIsBacked <=>
          \A i \in 1..Len(ui.peers.list) :
              ui.peers.list[i].online /\ up =>
                  \E l \in Link : PeerOf[l] = ui.peers.list[i].peer /\ got[l] = 1 /\ Awaited(l)
  BY DEF ShownOnlineIsBacked, Awaited
\* The elements of the queue.
<1>Queued.
      ASSUME NEW S, NEW q \in Seq(S), NEW e
      PROVE  e \in Range(q) <=> \E j \in 1..Len(q) : q[j] = e
  <2> USE <1>Queued
  <2>1. DOMAIN q = 1..Len(q)
    BY SMT
  <2> QED
    BY <2>1 DEF Range
\* Nobody comes online, nothing is taken from the feed, and whatever is awaited stays so.
<1>PeerKept.
      ASSUME PeerInv, up' => up, got' = got, \A l \in Link : Awaited(l) => Awaited(l)',
             \A i \in 1..Len(ui'.peers.list) : ui'.peers.list[i].online =>
                 \E j \in 1..Len(ui.peers.list) :
                     ui.peers.list[j].online /\ ui.peers.list[j].peer = ui'.peers.list[i].peer
      PROVE  PeerInv'
  <2> USE <1>PeerKept
  <2>1. Heard'
    BY DEF PeerInv, Heard
  <2>2. ASSUME NEW i \in 1..Len(ui'.peers.list), ui'.peers.list[i].online, up'
        PROVE  \E l \in Link : PeerOf[l] = ui'.peers.list[i].peer /\ got'[l] = 1 /\ Awaited(l)'
    <3>1. PICK j \in 1..Len(ui.peers.list) :
              ui.peers.list[j].online /\ ui.peers.list[j].peer = ui'.peers.list[i].peer
      BY <2>2
    <3>2. PICK l \in Link : PeerOf[l] = ui.peers.list[j].peer /\ got[l] = 1 /\ Awaited(l)
      BY <2>2, <3>1, <1>BackedIs DEF PeerInv
    <3> QED
      BY <3>1, <3>2
  <2>3. ShownOnlineIsBacked'
    BY <2>2 DEF ShownOnlineIsBacked, Awaited
  <2> QED
    BY <2>1, <2>3 DEF PeerInv
\* A queue that grows, and connections that are not gone before.
<1>AwaitedKept.
      ASSUME TypeInv, NEW l \in Link, Awaited(l),
             link'[l] = link[l] \/ link'[l] # "gone",
             \/ queue' = queue /\ lost' = lost
             \/ \E e \in Event : \/ queue' = Append(queue, e) /\ lost' = lost
                                 \/ queue' = queue /\ lost' = lost \cup {e[1]}
      PROVE  Awaited(l)'
  <2> USE <1>AwaitedKept
  <2>1. queue \in Seq(Event)
    BY DEF TypeInv, FeedType
  <2>2. <<l, 2>> \in Range(queue) => <<l, 2>> \in Range(queue')
    <3>1. ASSUME NEW e \in Event, queue' = Append(queue, e), <<l, 2>> \in Range(queue)
          PROVE  <<l, 2>> \in Range(queue')
      <4>1. queue' \in Seq(Event) /\ \A j \in 1..Len(queue) :
              j \in 1..Len(queue') /\ queue'[j] = queue[j]
        BY SMT, <2>1, <3>1
      <4>2. PICK j \in 1..Len(queue) : queue[j] = <<l, 2>>
        BY <2>1, <3>1, <1>Queued
      <4>3. \E k \in 1..Len(queue') : queue'[k] = <<l, 2>>
        BY <4>1, <4>2
      <4> QED
        BY <4>1, <4>3, <1>Queued
    <3> QED
      BY <3>1
  <2> QED
    BY <2>2 DEF Awaited
\* The end of a connection is broadcast, and queued or lost.
<1>PeerGone.
      ASSUME TypeInv, PeerInv, NEW l \in Link, BroadcastPeerOffline(l)
      PROVE  PeerInv'
  <2> USE <1>PeerGone
  <2> DEFINE e == <<l, 2>>
  <2>1. /\ link' = [link EXCEPT ![l] = "gone"] /\ Broadcast(e) /\ UNCHANGED <<up, ui>>
    BY DEF BroadcastPeerOffline, tuiVars
  <2>2. FeedType /\ e \in Event /\ link \in [Link -> {"new", "up", "online", "down", "gone"}]
    BY EventFacts DEF TypeInv, DaemonType
  <2>3. e[1] = l
    BY SMT
  <2>4. /\ got' = got
        /\ \/ queue' = Append(queue, e) /\ lost' = lost
           \/ queue' = queue /\ lost' = lost \cup {e[1]}
    <3> HIDE DEF e
    <3> QED
      BY <2>1, <2>2, BroadcastFacts
  <2>5. Awaited(l)'
    <3>1. CASE queue' = Append(queue, e)
      <4>1. queue' \in Seq(Event) /\ Len(queue) + 1 \in 1..Len(queue') /\ queue'[Len(queue) + 1] = e
        BY SMT, <2>2, <3>1 DEF FeedType
      <4>2. e \in Range(queue')
        BY <4>1, <1>Queued
      <4> QED
        BY <4>2 DEF Awaited
    <3>2. CASE lost' = lost \cup {e[1]}
      BY <2>3, <3>2 DEF Awaited
    <3> QED
      BY <2>4, <3>1, <3>2
  <2>6. ASSUME NEW m \in Link, m # l, Awaited(m) PROVE Awaited(m)'
    <3>1. link'[m] = link[m]
      BY <2>1, <2>2, <2>6
    <3> HIDE DEF e
    <3> QED
      BY <2>2, <2>4, <2>6, <3>1, <1>AwaitedKept
  <2> QED
    BY <2>1, <2>4, <2>5, <2>6, <1>PeerKept
\* A connection comes up, is announced, or goes down.
<1>PeerLinks.
      ASSUME TypeInv, PeerInv, NEW l \in Link, LinkUp(l) \/ BroadcastPeerOnline(l) \/ LinkDown(l)
      PROVE  PeerInv'
  <2> USE <1>PeerLinks
  <2>1. /\ \E v \in {"up", "online", "down"} : link' = [link EXCEPT ![l] = v]
        /\ UNCHANGED <<up, ui>>
    BY DEF LinkUp, BroadcastPeerOnline, LinkDown, tuiVars
  <2>2. FeedType /\ <<l, 1>> \in Event /\ link \in [Link -> {"new", "up", "online", "down", "gone"}]
    BY EventFacts DEF TypeInv, DaemonType
  <2>3. /\ got' = got
        /\ \/ queue' = queue /\ lost' = lost
           \/ \E e \in Event : \/ queue' = Append(queue, e) /\ lost' = lost
                               \/ queue' = queue /\ lost' = lost \cup {e[1]}
    <3>1. CASE LinkUp(l) \/ LinkDown(l)
      BY <3>1 DEF LinkUp, LinkDown, feedVars
    <3>2. CASE BroadcastPeerOnline(l)
      <4> DEFINE e == <<l, 1>>
      <4>1. Broadcast(e) /\ e \in Event
        BY <2>2, <3>2 DEF BroadcastPeerOnline
      <4> HIDE DEF e
      <4> QED
        BY <2>2, <4>1, BroadcastFacts
    <3> QED
      BY <3>1, <3>2
  <2>4. ASSUME NEW m \in Link PROVE link'[m] = link[m] \/ link'[m] # "gone"
    BY SMT, <2>1, <2>2
  <2>5. ASSUME NEW m \in Link, Awaited(m) PROVE Awaited(m)'
    BY <2>3, <2>4, <2>5, <1>AwaitedKept
  <2> QED
    BY <2>1, <2>3, <2>5, <1>PeerKept
\* An event is lost, and that is recorded.
<1>PeerLost. TypeInv /\ PeerInv /\ EventLost => PeerInv'
  <2> SUFFICES ASSUME TypeInv, PeerInv, EventLost PROVE PeerInv'
    BY SMT
  <2>1. PICK i \in 1..Len(queue) : queue' = DropAt(queue, i) /\ lost' = lost \cup {queue[i][1]}
    BY DEF EventLost
  <2>2. UNCHANGED <<up, ui, link, got>>
    BY DEF EventLost, Feed!Lose, daemonVars, tuiVars
  <2>3. queue \in Seq(Event)
    BY DEF TypeInv, FeedType
  <2>4. queue' \in Seq(Event) /\ Without(queue, i, queue')
    BY SMTT(20), <2>1, <2>3, DropElements
  <2>5. ASSUME NEW l \in Link, <<l, 2>> \in Range(queue)
        PROVE  <<l, 2>> \in Range(queue') \/ l \in lost'
    <3>1. PICK j \in 1..Len(queue) : queue[j] = <<l, 2>>
      BY <2>3, <2>5, <1>Queued
    <3>2. CASE j = i
      <4>1. queue[i][1] = l
        BY SMT, <3>1, <3>2
      <4> QED
        BY <2>1, <4>1
    <3>3. CASE j # i
      <4>1. \E k \in 1..Len(queue') : queue'[k] = <<l, 2>>
        BY <2>4, <3>1, <3>3 DEF Without
      <4> QED
        BY <2>4, <4>1, <1>Queued
    <3> QED
      BY <3>2, <3>3
  <2>6. ASSUME NEW l \in Link, Awaited(l) PROVE Awaited(l)'
    BY <2>1, <2>2, <2>5, <2>6 DEF Awaited
  <2> QED
    BY <2>2, <2>6, <1>PeerKept
\* An event is taken.
<1>PeerTaken. TypeInv /\ PeerInv /\ EventMsg => PeerInv'
  <2> SUFFICES ASSUME TypeInv, PeerInv, EventMsg PROVE PeerInv'
    BY SMT
  <2> DEFINE e == Head(queue)
  <2>1. /\ Feed!Take /\ e \in Event
        /\ \A i \in 1..Len(ui'.peers.list) : ui'.peers.list[i].online =>
             \/ e[1] # Watch /\ e[2] = 1 /\ ui'.peers.list[i].peer = PeerOf[e[1]]
             \/ /\ e[1] # Watch /\ e[2] = 2 => ui'.peers.list[i].peer # PeerOf[e[1]]
                /\ \E j \in 1..Len(ui.peers.list) :
                      ui.peers.list[j].online /\ ui.peers.list[j].peer = ui'.peers.list[i].peer
        /\ UNCHANGED <<daemonVars, plan, shown, overtaken, lost>>
    BY EventMsgFacts
  <2>2. UNCHANGED <<up, link, lost>>
    BY <2>1 DEF daemonVars
  <2>3. FeedType
    BY DEF TypeInv
  <2>4. /\ e = queue[1] /\ Len(queue) \in Nat /\ queue' \in Seq(Event) /\ Len(queue') = Len(queue) - 1
        /\ \A j \in 1..Len(queue') : queue'[j] = queue[j + 1]
        /\ got' = [got EXCEPT ![e[1]] = e[2]] /\ e[2] > got[e[1]]
    BY <2>1, <2>3, TakeFacts
  <2>5. queue \in Seq(Event) /\ got \in [Source -> Nat]
    BY <2>3 DEF FeedType
  <2>6. e[1] \in Source /\ (e[1] = Watch \/ (e[1] \in Link /\ e[2] \in {1, 2}))
    BY SMT, <2>1 DEF Event
  <2> HIDE DEF e
  <2>7. ASSUME NEW l \in Link, <<l, 2>> \in Range(queue), <<l, 2>> # e
        PROVE  <<l, 2>> \in Range(queue')
    <3>1. PICK j \in 1..Len(queue) : queue[j] = <<l, 2>>
      BY <2>5, <2>7, <1>Queued
    <3>2. j # 1
      BY <2>4, <2>7, <3>1
    <3>3. j - 1 \in 1..Len(queue') /\ (j - 1) + 1 = j
      BY SMT, <2>4, <3>2
    <3>4. queue'[j - 1] = <<l, 2>>
      BY <2>4, <3>1, <3>3
    <3>5. \E k \in 1..Len(queue') : queue'[k] = <<l, 2>>
      BY <3>3, <3>4
    <3> QED
      BY <2>4, <3>5, <1>Queued
  <2>8. ASSUME NEW l \in Link, Awaited(l), <<l, 2>> # e PROVE Awaited(l)'
    BY <2>2, <2>7, <2>8 DEF Awaited
  <2>9. ASSUME NEW l \in Link, l # e[1] PROVE got'[l] = got[l] /\ <<l, 2>> # e
    <3>1. l \in Source
      BY DEF Source
    <3>2. <<l, 2>>[1] = l
      BY SMT
    <3> QED
      BY <2>4, <2>5, <2>9, <3>1, <3>2
  <2>10. got'[e[1]] = e[2]
    BY <2>4, <2>5, <2>6
  <2>11. Heard'
    <3> SUFFICES ASSUME up, NEW l \in Link PROVE Awaited(l)' \/ got'[l] = 2
      BY <2>2 DEF Heard
    <3>1. Awaited(l) \/ got[l] = 2
      BY DEF PeerInv, Heard
    <3>2. CASE l # e[1]
      BY <2>8, <2>9, <3>1, <3>2
    <3>3. CASE l = e[1]
      <4>1. e[2] \in {1, 2}
        BY <2>6, <3>3, KeyAssumption
      <4>2. CASE e[2] = 2
        BY <2>10, <3>3, <4>2
      <4>3. CASE e[2] = 1
        <5>1. got[l] # 2
          BY SMT, <2>4, <3>3, <4>3
        <5>2. <<l, 2>> # e
          BY SMT, <4>3
        <5> QED
          BY <2>8, <3>1, <5>1, <5>2
      <4> QED
        BY <4>1, <4>2, <4>3
    <3> QED
      BY <3>2, <3>3
  <2>12. ASSUME NEW i \in 1..Len(ui'.peers.list), ui'.peers.list[i].online, up'
         PROVE  \E l \in Link : PeerOf[l] = ui'.peers.list[i].peer /\ got'[l] = 1 /\ Awaited(l)'
    <3>1. CASE e[1] # Watch /\ e[2] = 1 /\ ui'.peers.list[i].peer = PeerOf[e[1]]
      <4>1. PICK l \in Link : l = e[1]
        BY <2>6, <3>1
      <4>2. got'[l] = 1
        BY <2>10, <3>1, <4>1
      <4>3. got'[l] # 2
        BY SMT, <4>2
      <4>4. Awaited(l)'
        BY <2>11, <2>12, <4>3 DEF Heard
      <4> QED
        BY <3>1, <4>1, <4>2, <4>4
    <3>2. CASE /\ e[1] # Watch /\ e[2] = 2 => ui'.peers.list[i].peer # PeerOf[e[1]]
               /\ \E j \in 1..Len(ui.peers.list) :
                      ui.peers.list[j].online /\ ui.peers.list[j].peer = ui'.peers.list[i].peer
      <4>1. PICK j \in 1..Len(ui.peers.list) :
                ui.peers.list[j].online /\ ui.peers.list[j].peer = ui'.peers.list[i].peer
        BY <3>2
      <4>2. PICK l \in Link : PeerOf[l] = ui.peers.list[j].peer /\ got[l] = 1 /\ Awaited(l)
        BY <2>2, <2>12, <4>1, <1>BackedIs DEF PeerInv
      <4>3. l # e[1]
        <5>1. SUFFICES ASSUME l = e[1] PROVE FALSE
          OBVIOUS
        <5>2. e[1] # Watch /\ e[2] \in {1, 2}
          BY <2>6, <5>1, KeyAssumption
        <5>3. e[2] # 1
          BY SMT, <2>4, <4>2, <5>1
        <5>4. e[2] = 2
          BY <5>2, <5>3
        <5> QED
          BY <3>2, <4>1, <4>2, <5>1, <5>2, <5>4
      <4> QED
        BY <2>8, <2>9, <4>1, <4>2, <4>3
    <3> QED
      BY <2>1, <2>12, <3>1, <3>2
  <2>13. ShownOnlineIsBacked'
    BY <2>12 DEF ShownOnlineIsBacked, Awaited
  <2> QED
    BY <2>11, <2>13 DEF PeerInv
<1> SUFFICES ASSUME TypeInv, PeerInv, [Next]_vars PROVE PeerInv'
  BY SMT
<1>1. ASSUME UNCHANGED <<up, got, queue, lost>>,
             \A l \in Link : link'[l] = link[l] \/ link'[l] # "gone",
             \A i \in 1..Len(ui'.peers.list) : ui'.peers.list[i].online =>
               \E j \in 1..Len(ui.peers.list) :
                   ui.peers.list[j].online /\ ui.peers.list[j].peer = ui'.peers.list[i].peer
      PROVE  PeerInv'
  <2>1. ASSUME NEW l \in Link, Awaited(l) PROVE Awaited(l)'
    BY <1>1, <2>1 DEF Awaited
  <2> QED
    BY <1>1, <2>1, <1>PeerKept
<1>2. ASSUME UNCHANGED <<up, got, queue, lost, link>>, ui'.peers.list = ui.peers.list PROVE PeerInv'
  BY <1>1, <1>2
<1>3. CASE FeedOpens
  BY <1>2, <1>3 DEF FeedOpens, Feed!Open, daemonVars, tuiVars
<1>4. CASE CatalogChanges
  BY <1>2, <1>4 DEF CatalogChanges, feedVars, tuiVars
<1>5. CASE BroadcastCatalogUpdated
  <2> DEFINE e == <<Watch, announced + 1>>
  <2>1. e \in Event /\ Broadcast(e) /\ FeedType /\ UNCHANGED <<up, link, ui>>
    BY <1>5, EventFacts DEF BroadcastCatalogUpdated, TypeInv, tuiVars
  <2> HIDE DEF e
  <2>2. /\ got' = got
        /\ \/ queue' = Append(queue, e) /\ lost' = lost
           \/ queue' = queue /\ lost' = lost \cup {e[1]}
    BY <2>1, BroadcastFacts
  <2>3. ASSUME NEW l \in Link, Awaited(l) PROVE Awaited(l)'
    BY <2>1, <2>2, <2>3, <1>AwaitedKept
  <2> QED
    BY <2>1, <2>2, <2>3, <1>PeerKept
<1>6. CASE DaemonExits
  <2>1. up' = FALSE
    BY <1>6 DEF DaemonExits
  <2> QED
    BY <2>1 DEF PeerInv, Heard, ShownOnlineIsBacked
<1>7. ASSUME NEW l \in Link,
             LinkUp(l) \/ BroadcastPeerOnline(l) \/ LinkDown(l) \/ BroadcastPeerOffline(l)
      PROVE  PeerInv'
  BY <1>7, <1>PeerLinks, <1>PeerGone
<1>8. ASSUME NEW i \in 1..Len(flight), CallQuery(i) PROVE PeerInv'
  BY <1>2, <1>8, QueryFacts DEF feedVars, daemonVars
<1>9. ASSUME NEW i \in 1..Len(flight), CallJoin(i) PROVE PeerInv'
  <2>1. UNCHANGED <<up, got, queue, lost, ui>>
    BY <1>9, JoinFacts DEF feedVars
  <2>2. link' = link \/ \E l : link' = [link EXCEPT ![l] = "up"]
    BY <1>9 DEF CallJoin
  <2>3. link \in [Link -> {"new", "up", "online", "down", "gone"}]
    BY DEF TypeInv, DaemonType
  <2>4. \A l \in Link : link'[l] = link[l] \/ link'[l] # "gone"
    BY SMT, <2>2, <2>3
  <2> QED
    BY <1>1, <2>1, <2>4
<1>10. ASSUME NEW i \in 1..Len(flight), Deliver(i) PROVE PeerInv'
  <2>1. \/ ui'.peers.list = ui.peers.list
        \/ \A j \in 1..Len(ui'.peers.list) : ~ ui'.peers.list[j].online
    BY <1>10, DeliverFacts DEF ResultDoes
  <2>2. UNCHANGED <<up, got, queue, lost, link>>
    BY <1>10 DEF Deliver, feedVars, daemonVars
  <2> QED
    BY <1>1, <2>1, <2>2
<1>11. CASE Disconnected
  BY <1>2, <1>11, DisconnectedFacts DEF daemonVars
<1>12. ASSUME NEW k \in plan.keys, KeyMsg(k) PROVE PeerInv'
  BY <1>2, <1>12, KeyMsgFacts DEF KeyKeeps, feedVars, daemonVars
<1>13. ASSUME NEW h \in plan.heights, WindowSizeMsg(h) PROVE PeerInv'
  BY <1>2, <1>13, WindowFacts DEF feedVars, daemonVars
<1>14. CASE UNCHANGED vars
  BY <1>2, <1>14 DEF vars, daemonVars, feedVars, tuiVars
<1> QED
  BY ZenonT(40), <1>3, <1>4, <1>5, <1>6, <1>7, <1>8, <1>9, <1>10, <1>11, <1>12, <1>13, <1>14,
     <1>PeerLost, <1>PeerTaken DEF Next

-----------------------------------------------------------------------------
(***************************************************************************)
(* What is waited for: the places of a sequence at which there is one of the*)
(* elements that are looked for are counted.                               *)
(***************************************************************************)

\* What the counting needs of finite sets, proved from the library as well.
EmptyCount ==
    Cardinality({}) = 0 /\ \A X : IsFiniteSet(X) => (Cardinality(X) = 0 <=> X = {})

IntervalCount == \A n \in Int : IsFiniteSet(1..n)

PartCount ==
    \A X, Y : IsFiniteSet(X) /\ Y \in SUBSET X =>
        /\ IsFiniteSet(Y) /\ Cardinality(Y) \in Nat /\ Cardinality(Y) <= Cardinality(X)
        /\ Cardinality(X) = Cardinality(Y) => X = Y

RemoveCount ==
    \A X, x : IsFiniteSet(X) =>
        Cardinality(X \ {x}) = IF x \in X THEN Cardinality(X) - 1 ELSE Cardinality(X)

UnionCount ==
    \A X, Y : IsFiniteSet(X) /\ IsFiniteSet(Y) =>
        Cardinality(X \cup Y) = Cardinality(X) + Cardinality(Y) - Cardinality(X \cap Y)

\* A function that is one to one, and onto, keeps the number.
SameCount ==
    \A X, Y : \A g \in [X -> Y] :
        /\ IsFiniteSet(X)
        /\ \A a, b \in X : g[a] = g[b] => a = b
        /\ \A y \in Y : \E x \in X : g[x] = y
        => IsFiniteSet(Y) /\ Cardinality(Y) = Cardinality(X)

CountingFine ==
    EmptyCount /\ IntervalCount /\ PartCount /\ RemoveCount /\ UnionCount /\ SameCount

\* The places of a sequence that hold an element of a set.
Hits(s, T) == {i \in 1..Len(s) : s[i] \in T}

\* One sequence is two others, one after the other.
Chain(a, b, c) ==
    /\ Len(c) = Len(a) + Len(b)
    /\ \A i \in 1..Len(a) : c[i] = a[i]
    /\ \A i \in 1..Len(b) : c[Len(a) + i] = b[i]

\* No place.
LEMMA HitsNone ==
    ASSUME CountingFine, NEW s, NEW T, \A i \in 1..Len(s) : s[i] \notin T
    PROVE  Cardinality(Hits(s, T)) = 0
<1>1. Hits(s, T) = {}
  BY DEF Hits
<1> QED
  BY <1>1 DEF CountingFine, EmptyCount

\* The downloads of a file under way, the entries of the file, and those not done.
DownloadsOf(f) == {c \in GoodCommand : c.call = "download" /\ c.arg = f}

EntriesOf(f) == {t \in Transfer : t.file = f}

OpenOf(f) == {t \in Transfer : t.file = f /\ ~ t.done}

CountFine(f) ==
    LET open == Cardinality(Hits(ui.transfers, OpenOf(f)))
        n    == Cardinality(Hits(flight, DownloadsOf(f)))
    IN  /\ open >= n
        /\ Cardinality(Hits(ui.transfers, EntriesOf(f))) <= 1 => open = n

\* An overlay that loads, and its call.
LoadingFine ==
    ui.overlay.loading =>
        /\ ui.overlay.kind \in {"invite", "join"}
        /\ \E i \in 1..Len(flight) : flight[i].call = ui.overlay.kind /\ flight[i].arg = 0

WaitInv == LoadingFine /\ \A f \in File : CountFine(f)

\* The numbers of downloads under way, of entries, and of entries not done.
UnderWay(f) == Cardinality(Hits(flight, DownloadsOf(f)))

Entries(f) == Cardinality(Hits(ui.transfers, EntriesOf(f)))

Opened(f) == Cardinality(Hits(ui.transfers, OpenOf(f)))

\* The counts are those of the property.
LEMMA CountsAre ==
    ASSUME TypeInv, NEW f
    PROVE  /\ Hits(flight, DownloadsOf(f)) = InFlight("download", f)
           /\ Hits(ui.transfers, EntriesOf(f)) =
                {i \in 1..Len(ui.transfers) : ui.transfers[i].file = f}
           /\ Hits(ui.transfers, OpenOf(f)) =
                {i \in {j \in 1..Len(ui.transfers) : ui.transfers[j].file = f} : ~ ui.transfers[i].done}
<1>1. flight \in Seq(GoodCommand) /\ ui.transfers \in Seq(Transfer)
  BY SMTT(20) DEF TypeInv, TuiType, InterfaceFine, Interface
<1>2. (\A i \in 1..Len(flight) : flight[i] \in GoodCommand)
      /\ \A i \in 1..Len(ui.transfers) : ui.transfers[i] \in Transfer
  BY SMTT(20), <1>1
<1>3. Hits(flight, DownloadsOf(f)) = InFlight("download", f)
  BY <1>2 DEF Hits, DownloadsOf, InFlight
<1>4. Hits(ui.transfers, EntriesOf(f)) = {i \in 1..Len(ui.transfers) : ui.transfers[i].file = f}
  BY <1>2 DEF Hits, EntriesOf
<1>5. Hits(ui.transfers, OpenOf(f)) =
                {i \in {j \in 1..Len(ui.transfers) : ui.transfers[j].file = f} : ~ ui.transfers[i].done}
  BY <1>2 DEF Hits, OpenOf
<1> QED
  BY <1>3, <1>4, <1>5

\* The property follows.
LEMMA WaitingFollows == TypeInv /\ WaitInv => WaitingIsAnswered
<1> SUFFICES ASSUME TypeInv, WaitInv PROVE WaitingIsAnswered
  BY SMT
<1>1. ui.overlay.loading => InFlight(ui.overlay.kind, 0) # {}
  BY DEF WaitInv, LoadingFine, InFlight
<1>2. ASSUME NEW f \in {FileOf[r] : r \in Row} PROVE CountFine(f)
  BY DEF WaitInv, File
<1> QED
  BY <1>1, <1>2, CountsAre DEF WaitingIsAnswered, CountFine

\* What is counted.
LEMMA CountFineIs ==
    ASSUME NEW f
    PROVE  CountFine(f) <=> Opened(f) >= UnderWay(f) /\ (Entries(f) <= 1 => Opened(f) = UnderWay(f))
BY DEF CountFine, Opened, UnderWay, Entries

\* Every step.
LEMMA WaitNext ==
    ASSUME SetsFine, CountingFine, UpdateFine PROVE TypeInv /\ WaitInv /\ [Next]_vars => WaitInv'
\* They are finitely many.
<1>HitsFinite.
      ASSUME NEW S, NEW s \in Seq(S), NEW T
      PROVE  IsFiniteSet(Hits(s, T)) /\ Cardinality(Hits(s, T)) \in Nat
               /\ Hits(s, T) \subseteq 1..Len(s)
  <2> USE <1>HitsFinite
  <2>1. Len(s) \in Int /\ 1 \in Int
    BY SMT
  <2>2. IsFiniteSet(1..Len(s))
    BY <2>1 DEF CountingFine, IntervalCount
  <2>3. Hits(s, T) \subseteq 1..Len(s)
    BY DEF Hits
  <2> QED
    BY <2>2, <2>3 DEF CountingFine, PartCount
\* It has as many as both.
<1>HitsConcat.
      ASSUME NEW S, NEW a \in Seq(S), NEW b \in Seq(S), NEW c \in Seq(S), Chain(a, b, c), NEW T
      PROVE  Cardinality(Hits(c, T)) = Cardinality(Hits(a, T)) + Cardinality(Hits(b, T))
  <2> USE <1>HitsConcat
  <2> DEFINE A == Hits(a, T)
             B == Hits(b, T)
             C == Hits(c, T)
             g == [i \in B |-> Len(a) + i]
             D == {k \in C : k > Len(a)}
  <2>1. /\ c \in Seq(S) /\ Len(c) = Len(a) + Len(b)
        /\ \A i \in 1..Len(a) : c[i] = a[i]
        /\ \A i \in 1..Len(b) : c[Len(a) + i] = b[i]
    BY DEF Chain
  <2>2. Len(a) \in Nat /\ Len(b) \in Nat
    BY SMT
  <2>3. /\ IsFiniteSet(A) /\ Cardinality(A) \in Nat /\ A \subseteq 1..Len(a)
        /\ IsFiniteSet(B) /\ Cardinality(B) \in Nat /\ B \subseteq 1..Len(b)
    BY <1>HitsFinite
  <2>4. \A i \in B : Len(a) + i \in D
    <3> SUFFICES ASSUME NEW i \in B PROVE Len(a) + i \in D
      BY SMT
    <3>1. i \in 1..Len(b) /\ b[i] \in T
      BY DEF Hits
    <3>2. Len(a) + i \in 1..Len(c) /\ Len(a) + i > Len(a)
      BY SMTT(20), <2>1, <2>2, <3>1
    <3>3. c[Len(a) + i] \in T
      BY <2>1, <3>1
    <3> QED
      BY <3>2, <3>3 DEF Hits
  <2>5. \A k \in D : k - Len(a) \in B /\ Len(a) + (k - Len(a)) = k
    <3> SUFFICES ASSUME NEW k \in D PROVE k - Len(a) \in B /\ Len(a) + (k - Len(a)) = k
      BY SMT
    <3>1. k \in 1..Len(c) /\ c[k] \in T /\ k > Len(a)
      BY DEF Hits
    <3>2. k - Len(a) \in 1..Len(b) /\ Len(a) + (k - Len(a)) = k
      BY SMTT(20), <2>1, <2>2, <3>1
    <3>3. c[k] = b[k - Len(a)]
      BY <2>1, <3>2
    <3> QED
      BY <3>1, <3>2, <3>3 DEF Hits
  <2>6. C = A \cup D
    <3>1. ASSUME NEW k \in C PROVE k \in A \cup D
      <4>1. k \in 1..Len(c) /\ c[k] \in T
        BY DEF Hits
      <4>2. CASE k > Len(a)
        BY <4>2
      <4>3. CASE ~ (k > Len(a))
        <5>1. k \in 1..Len(a)
          BY SMTT(20), <2>1, <2>2, <4>1, <4>3
        <5> QED
          BY <2>1, <4>1, <5>1 DEF Hits
      <4> QED
        BY <4>2, <4>3
    <3>2. ASSUME NEW k \in A PROVE k \in C
      <4>1. k \in 1..Len(a) /\ a[k] \in T
        BY DEF Hits
      <4>2. k \in 1..Len(c)
        BY SMTT(20), <2>1, <2>2, <4>1
      <4> QED
        BY <2>1, <4>1, <4>2 DEF Hits
    <3> QED
      BY <3>1, <3>2
  <2>7. A \cap D = {}
    <3> SUFFICES ASSUME NEW k \in A, k \in D PROVE FALSE
      OBVIOUS
    <3>1. k \in 1..Len(a) /\ k > Len(a)
      BY <2>3
    <3> QED
      BY SMTT(20), <2>2, <3>1
  <2> HIDE DEF A, B, C, D
  <2>8. g \in [B -> D]
    BY <2>4
  <2>9. \A i, j \in B : g[i] = g[j] => i = j
    BY SMTT(20), <2>2, <2>3
  <2>10. \A k \in D : \E i \in B : g[i] = k
    BY <2>5
  <2> HIDE DEF g
  <2>11. IsFiniteSet(D) /\ Cardinality(D) = Cardinality(B)
    BY <2>3, <2>8, <2>9, <2>10 DEF CountingFine, SameCount
  <2>12. Cardinality(A \cup D) = Cardinality(A) + Cardinality(D) - Cardinality(A \cap D)
    BY <2>3, <2>11 DEF CountingFine, UnionCount
  <2>13. Cardinality(A \cap D) = 0
    BY <2>7 DEF CountingFine, EmptyCount
  <2>14. Cardinality(C) = Cardinality(A) + Cardinality(B)
    BY SMTT(20), <2>3, <2>6, <2>11, <2>12, <2>13
  <2> QED
    BY <2>14 DEF A, B, C
\* The same, for any two sequences.
<1>HitsJoined.
      \A S : \A a, b \in Seq(S) : \A T :
          Cardinality(Hits(a \o b, T)) = Cardinality(Hits(a, T)) + Cardinality(Hits(b, T))
  <2> TAKE S
  <2> TAKE a, b \in Seq(S)
  <2> TAKE T
  <2> DEFINE c == a \o b
  <2>1. c = a \o b
    BY SMTT(30)
  <2> HIDE DEF c
  <2>2. /\ c \in Seq(S) /\ Len(c) = Len(a) + Len(b)
        /\ \A i \in 1..Len(a) : c[i] = a[i]
        /\ \A i \in 1..Len(b) : c[Len(a) + i] = b[i]
    BY SMTT(20), <2>1, ConcatFacts
  <2>3. Chain(a, b, c)
    BY <2>2 DEF Chain
  <2>4. c \in Seq(S)
    BY <2>2
  <2>5. Cardinality(Hits(c, T)) = Cardinality(Hits(a, T)) + Cardinality(Hits(b, T))
    BY SMTT(20), <2>3, <2>4, <1>HitsConcat
  <2> QED
    BY <2>5 DEF c
\* A sequence from which an element was dropped has one less, or as many.
<1>HitsDropped.
      ASSUME NEW S, NEW s \in Seq(S), NEW i \in 1..Len(s), NEW d, d = DropAt(s, i), NEW T
      PROVE  Cardinality(Hits(d, T)) =
               IF s[i] \in T THEN Cardinality(Hits(s, T)) - 1 ELSE Cardinality(Hits(s, T))
  <2> USE <1>HitsDropped
  <2> DEFINE X == Hits(d, T)
             Y == Hits(s, T) \ {i}
             g == [j \in X |-> IF j < i THEN j ELSE j + 1]
  <2>1. /\ d \in Seq(S) /\ Len(d) = Len(s) - 1
        /\ \A j \in 1..Len(d) : d[j] = IF j < i THEN s[j] ELSE s[j + 1]
    BY SMTT(20), DropFacts
  <2>2. Len(s) \in Nat /\ d \in Seq(S)
    BY SMTT(20), <2>1
  <2>3. IsFiniteSet(X) /\ X \subseteq 1..Len(d) /\ IsFiniteSet(Hits(s, T))
    BY <2>2, <1>HitsFinite
  <2>4. ASSUME NEW j \in X PROVE (IF j < i THEN j ELSE j + 1) \in Y
    <3>1. j \in 1..Len(d) /\ d[j] \in T
      BY DEF Hits
    <3>2. CASE j < i
      <4>1. j \in 1..Len(s) /\ j # i
        BY SMTT(20), <2>1, <2>2, <3>1, <3>2
      <4> QED
        BY <2>1, <3>1, <3>2, <4>1 DEF Hits
    <3>3. CASE ~ (j < i)
      <4>1. j + 1 \in 1..Len(s) /\ j + 1 # i
        BY SMTT(20), <2>1, <2>2, <3>1, <3>3
      <4> QED
        BY <2>1, <3>1, <3>3, <4>1 DEF Hits
    <3> QED
      BY <3>2, <3>3
  <2>5. ASSUME NEW k \in Y PROVE \E j \in X : (IF j < i THEN j ELSE j + 1) = k
    <3>1. k \in 1..Len(s) /\ s[k] \in T /\ k # i
      BY DEF Hits
    <3>2. CASE k < i
      <4>1. k \in 1..Len(d)
        BY SMTT(20), <2>1, <2>2, <3>1, <3>2
      <4>2. k \in X
        BY <2>1, <3>1, <3>2, <4>1 DEF Hits
      <4> QED
        BY <3>2, <4>2
    <3>3. CASE ~ (k < i)
      <4>1. k - 1 \in 1..Len(d) /\ ~ (k - 1 < i) /\ (k - 1) + 1 = k
        BY SMTT(20), <2>1, <2>2, <3>1, <3>3
      <4>2. k - 1 \in X
        BY <2>1, <3>1, <4>1 DEF Hits
      <4> QED
        BY <4>1, <4>2
    <3> QED
      BY <3>2, <3>3
  <2>6. Cardinality(Y) =
          IF i \in Hits(s, T) THEN Cardinality(Hits(s, T)) - 1 ELSE Cardinality(Hits(s, T))
    BY <2>3 DEF CountingFine, RemoveCount
  <2>7. i \in Hits(s, T) <=> s[i] \in T
    BY DEF Hits
  <2> HIDE DEF X, Y
  <2>8. g \in [X -> Y]
    BY <2>4
  <2>9. \A a, b \in X : g[a] = g[b] => a = b
    <3> SUFFICES ASSUME NEW a \in X, NEW b \in X, g[a] = g[b] PROVE a = b
      OBVIOUS
    <3>1. a \in Nat /\ b \in Nat
      BY SMTT(20), <2>3
    <3>2. (IF a < i THEN a ELSE a + 1) = (IF b < i THEN b ELSE b + 1)
      OBVIOUS
    <3> QED
      BY SMTT(20), <3>1, <3>2
  <2>10. \A k \in Y : \E j \in X : g[j] = k
    BY <2>5
  <2> HIDE DEF g
  <2>11. Cardinality(Y) = Cardinality(X)
    BY <2>3, <2>8, <2>9, <2>10 DEF CountingFine, SameCount
  <2> QED
    BY <2>6, <2>7, <2>11 DEF X
\* They are numbers.
<1>Numbers.
      ASSUME TypeInv, NEW f
      PROVE  UnderWay(f) \in Nat /\ Entries(f) \in Nat /\ Opened(f) \in Nat
  <2> USE <1>Numbers
  <2>1. flight \in Seq(GoodCommand) /\ ui.transfers \in Seq(Transfer)
    BY SMTT(20) DEF TypeInv, TuiType, InterfaceFine, Interface
  <2> QED
    BY <2>1, <1>HitsFinite DEF UnderWay, Entries, Opened
\* A step that changes neither.
<1>WaitSame.
      ASSUME WaitInv, ui'.transfers = ui.transfers, ui'.overlay = ui.overlay, flight' = flight
      PROVE  WaitInv'
  BY <1>WaitSame DEF WaitInv, LoadingFine, CountFine
\* An answer.
<1>WaitAnswered.
      ASSUME TypeInv, WaitInv, NEW i \in 1..Len(flight), NEW c, AnsweredAt(i, c), UNCHANGED ui
      PROVE  WaitInv'
  <2> USE <1>WaitAnswered
  <2>1. flight \in Seq(GoodCommand)
    BY DEF TypeInv, TuiType
  <2>2. \A j \in 1..Len(flight) : flight[j] \in GoodCommand
    BY SMTT(20), <2>1
  <2>3. \A j \in 1..Len(flight) : /\ flight'[j] \in GoodCommand
                                  /\ flight'[j].call = flight[j].call
                                  /\ flight'[j].arg = flight[j].arg
    BY <2>2 DEF AnsweredAt
  <2>4. Len(flight') = Len(flight)
    BY DEF AnsweredAt
  <2>5. LoadingFine'
    BY <2>3, <2>4 DEF WaitInv, LoadingFine
  <2>6. ASSUME NEW f \in File PROVE CountFine(f)'
    <3> DEFINE T == DownloadsOf(f)
    <3>1. \A j \in 1..Len(flight') : flight'[j] \in T <=> flight[j] \in T
      BY <2>2, <2>3, <2>4 DEF DownloadsOf
    <3> HIDE DEF T
    <3>2. Hits(flight', T) = Hits(flight, T)
      BY <2>4, <3>1 DEF Hits
    <3> QED
      BY <3>2 DEF WaitInv, CountFine, T
  <2> QED
    BY <2>5, <2>6 DEF WaitInv
\* Commands that are no downloads.
<1>WaitMore.
      ASSUME TypeInv, NEW s \in Seq(GoodCommand), flight' = flight \o s,
             \A j \in 1..Len(s) : s[j].call # "download", ui'.transfers = ui.transfers, NEW f,
             CountFine(f)
      PROVE  CountFine(f)'
  <2> USE <1>WaitMore
  <2>1. flight \in Seq(GoodCommand)
    BY DEF TypeInv, TuiType
  <2> DEFINE T == DownloadsOf(f)
  <2>2. Cardinality(Hits(flight \o s, T)) = Cardinality(Hits(flight, T)) + Cardinality(Hits(s, T))
    BY ZenonT(40), <2>1, <1>HitsJoined
  <2>3. \A j \in 1..Len(s) : s[j] \notin T
    BY DEF DownloadsOf
  <2>4. Cardinality(Hits(s, T)) = 0
    BY <2>3, HitsNone
  <2>5. UnderWay(f)' = UnderWay(f) + 0
    BY <2>2, <2>4 DEF UnderWay
  <2>6. UnderWay(f)' = UnderWay(f)
    BY SMTT(20), <2>5, <1>Numbers
  <2> QED
    BY <2>6 DEF CountFine, UnderWay
\* D: as many entries as downloads are added.
<1>WaitDownloads.
      ASSUME TypeInv, flight' = flight \o Downloads(ui.catalog),
             ui'.transfers = AddTransfers(ui.transfers, Wanted(ui.catalog)), NEW f, CountFine(f)
      PROVE  CountFine(f)'
  <2> USE <1>WaitDownloads
  <2> DEFINE t == ui.transfers
             w == Wanted(ui.catalog)
             x == AddTransfers(t, w)
             b == [i \in 1..Len(w) |-> x[Len(t) + i]]
             d == Downloads(ui.catalog)
  <2>1. flight \in Seq(GoodCommand) /\ t \in Seq(Transfer) /\ CatalogFine(ui.catalog)
    BY SMTT(20) DEF TypeInv, TuiType, InterfaceFine, Interface
  <2>2. w \in Seq(Row)
    BY <2>1 DEF UpdateFine, RowsListed
  <2>3. /\ d \in Seq(GoodCommand) /\ Len(d) = Len(w)
        /\ \A i \in 1..Len(w) : d[i].call = "download" /\ d[i].arg = FileOf[w[i]]
    BY <2>1, DownloadsFacts
  <2>4. flight' = flight \o d /\ ui'.transfers = x
    OBVIOUS
  <2> HIDE DEF t, w, d
  <2>5. /\ x \in Seq(Transfer) /\ Len(x) = Len(t) + Len(w)
        /\ \A i \in 1..Len(t) : x[i] = t[i]
        /\ \A i \in 1..Len(w) : x[Len(t) + i].file = FileOf[w[i]] /\ ~ x[Len(t) + i].done
    BY <2>1, <2>2, AddFacts
  <2> HIDE DEF x
  <2>6. Len(t) \in Nat /\ Len(w) \in Nat
    BY SMTT(20), <2>1, <2>2
  <2>7. \A i \in 1..Len(w) : x[Len(t) + i] \in Transfer
    BY SMTT(20), <2>5, <2>6
  <2>8. b \in Seq(Transfer) /\ Len(b) = Len(w) /\ \A i \in 1..Len(w) : b[i] = x[Len(t) + i]
    BY SMTT(20), <2>6, <2>7
  <2> HIDE DEF b
  <2>9. Chain(t, b, x)
    BY <2>5, <2>8 DEF Chain
  <2>10. x \in Seq(Transfer) /\ b \in Seq(Transfer)
    BY <2>5, <2>8
  <2>11. \A T : Cardinality(Hits(x, T)) = Cardinality(Hits(t, T)) + Cardinality(Hits(b, T))
    BY SMTT(20), <2>1, <2>9, <2>10, <1>HitsConcat
  <2>12. \A T :
           Cardinality(Hits(flight \o d, T)) = Cardinality(Hits(flight, T)) + Cardinality(Hits(d, T))
    BY ZenonT(40), <2>1, <2>3, <1>HitsJoined
  <2>13. \A i \in 1..Len(w) : d[i] \in GoodCommand
    BY SMTT(20), <2>3
  <2> DEFINE K == {i \in 1..Len(w) : FileOf[w[i]] = f}
  <2>14. Hits(d, DownloadsOf(f)) = K
    BY <2>3, <2>13 DEF Hits, DownloadsOf
  <2>15. Hits(b, EntriesOf(f)) = K
    BY <2>5, <2>7, <2>8 DEF Hits, EntriesOf
  <2>16. Hits(b, OpenOf(f)) = K
    BY <2>5, <2>7, <2>8 DEF Hits, OpenOf
  <2>17. Cardinality(K) \in Nat
    BY <2>3, <2>14, <1>HitsFinite
  <2> DEFINE n == Cardinality(K)
  <2>18. UnderWay(f)' = UnderWay(f) + n
    BY <2>4, <2>12, <2>14 DEF UnderWay
  <2>19. Entries(f)' = Entries(f) + n
    BY <2>4, <2>11, <2>15 DEF Entries, t
  <2>20. Opened(f)' = Opened(f) + n
    BY <2>4, <2>11, <2>16 DEF Opened, t
  <2>21. /\ UnderWay(f) \in Nat /\ Entries(f) \in Nat /\ Opened(f) \in Nat /\ n \in Nat
         /\ Opened(f) >= UnderWay(f) /\ (Entries(f) <= 1 => Opened(f) = UnderWay(f))
    BY <2>17, <1>Numbers, CountFineIs
  <2> HIDE DEF n
  <2>22. Opened(f)' >= UnderWay(f)' /\ (Entries(f)' <= 1 => Opened(f)' = UnderWay(f)')
    BY SMTT(20), <2>18, <2>19, <2>20, <2>21
  <2> QED
    BY <2>22 DEF CountFine, Opened, UnderWay, Entries
\* An entry is marked: the first of the file, which the others are not.
<1>MarkedNumbers.
      ASSUME NEW t \in Seq(Transfer), NEW f, NEW x, x = MarkDone(t, f),
             Cardinality(Hits(t, OpenOf(f))) >= 1
      PROVE  LET e == Cardinality(Hits(t, EntriesOf(f)))
                 o == Cardinality(Hits(t, OpenOf(f)))
                 p == Cardinality(Hits(x, OpenOf(f)))
             IN  /\ Cardinality(Hits(x, EntriesOf(f))) = e
                 /\ p = o \/ p = o - 1
                 /\ e <= 1 => o = 1 /\ p = 0
  <2> USE <1>MarkedNumbers
  <2> DEFINE E == Hits(t, EntriesOf(f))
             O == Hits(t, OpenOf(f))
             P == Hits(x, OpenOf(f))
  <2>1. /\ x \in Seq(Transfer) /\ Len(x) = Len(t)
        /\ \/ x = t /\ \A i \in 1..Len(t) : t[i].file # f
           \/ \E m \in 1..Len(t) :
                /\ t[m].file = f /\ x[m].file = f /\ x[m].done
                /\ \A i \in 1..Len(t) : i # m => x[i] = t[i]
    BY SMTT(20), MarkFacts
  <2>2. /\ IsFiniteSet(E) /\ Cardinality(E) \in Nat /\ IsFiniteSet(O) /\ Cardinality(O) \in Nat
    BY <1>HitsFinite
  <2>3. ASSUME \A i \in 1..Len(t) : t[i].file # f PROVE FALSE
    <3>1. \A i \in 1..Len(t) : t[i] \notin OpenOf(f)
      BY <2>3 DEF OpenOf
    <3>2. Cardinality(O) = 0
      BY <3>1, HitsNone
    <3> QED
      BY SMTT(20), <3>2
  <2>4. PICK m \in 1..Len(t) : /\ t[m].file = f /\ x[m].file = f /\ x[m].done
                               /\ \A i \in 1..Len(t) : i # m => x[i] = t[i]
    BY <2>1, <2>3
  <2>5. (\A i \in 1..Len(t) : t[i] \in Transfer) /\ \A i \in 1..Len(t) : x[i] \in Transfer
    BY SMTT(20), <2>1
  <2>6. \A i \in 1..Len(t) : x[i] \in EntriesOf(f) <=> t[i] \in EntriesOf(f)
    BY <2>4, <2>5 DEF EntriesOf
  <2>7. Hits(x, EntriesOf(f)) = E
    BY <2>1, <2>6 DEF Hits
  <2>8. P = O \ {m}
    <3>1. x[m] \notin OpenOf(f)
      BY <2>4 DEF OpenOf
    <3> QED
      BY <2>1, <2>4, <3>1 DEF Hits
  <2>9. Cardinality(P) = IF m \in O THEN Cardinality(O) - 1 ELSE Cardinality(O)
    BY ZenonT(40), <2>2, <2>8 DEF CountingFine, RemoveCount
  <2>10. O \in SUBSET E /\ m \in E
    BY <2>4, <2>5 DEF Hits, OpenOf, EntriesOf
  <2>11. Cardinality(O) <= Cardinality(E) /\ (Cardinality(E) = Cardinality(O) => E = O)
    BY <2>2, <2>10 DEF CountingFine, PartCount
  <2>12. Cardinality(O) >= 1
    OBVIOUS
  <2> HIDE DEF E, O, P
  <2>13. ASSUME Cardinality(E) <= 1 PROVE Cardinality(O) = 1 /\ Cardinality(P) = 0
    <3>1. Cardinality(O) = 1 /\ Cardinality(E) = 1
      BY SMTT(20), <2>2, <2>11, <2>12, <2>13
    <3>2. m \in O
      BY <2>10, <2>11, <3>1
    <3> QED
      BY SMTT(20), <2>9, <3>1, <3>2
  <2>14. Cardinality(P) = Cardinality(O) \/ Cardinality(P) = Cardinality(O) - 1
    BY <2>9
  <2> QED
    BY <2>7, <2>13, <2>14 DEF E, O, P
\* A result is delivered: the numbers.
<1>DeliveredNumbers.
      ASSUME TypeInv, NEW i \in 1..Len(flight), Deliver(i), NEW f
      PROVE  UnderWay(f)' = IF flight[i].call = "download" /\ flight[i].arg = f
                            THEN UnderWay(f) - 1 ELSE UnderWay(f)
  <2> USE <1>DeliveredNumbers
  <2> DEFINE cmd == flight[i]
             d == DropAt(flight, i)
             s == ResultCmds(cmd)
             T == DownloadsOf(f)
  <2>1. flight \in Seq(GoodCommand)
    BY DEF TypeInv, TuiType
  <2>2. cmd \in GoodCommand
    BY SMTT(20), <2>1
  <2>3. flight' = d \o s
    BY DEF Deliver
  <2>4. /\ s \in Seq(GoodCommand)
        /\ \/ s = <<>>
           \/ Len(s) = 1 /\ s[1].call = "catalog"
    BY ResultCmdsFacts
  <2>5. d = DropAt(flight, i)
    BY SMT
  <2>6. cmd \in T <=> cmd.call = "download" /\ cmd.arg = f
    BY <2>2 DEF DownloadsOf
  <2> HIDE DEF d, s
  <2>7. \A j \in 1..Len(s) : s[j].call # "download"
    BY SMTT(20), <2>4
  <2>8. \A j \in 1..Len(s) : s[j] \notin T
    BY <2>7 DEF DownloadsOf
  <2>9. Cardinality(Hits(s, T)) = 0
    BY <2>8, HitsNone
  <2> HIDE DEF T
  <2>10. d \in Seq(GoodCommand) /\ Without(flight, i, d)
    BY SMTT(20), <2>1, <2>5, DropElements
  <2>11. Cardinality(Hits(d, T)) =
           IF cmd \in T THEN Cardinality(Hits(flight, T)) - 1 ELSE Cardinality(Hits(flight, T))
    BY SMTT(20), <2>1, <2>5, <1>HitsDropped
  <2>12. Cardinality(Hits(d \o s, T)) = Cardinality(Hits(d, T)) + Cardinality(Hits(s, T))
    BY ZenonT(40), <2>4, <2>10, <1>HitsJoined
  <2>13. Cardinality(Hits(d, T)) \in Nat
    BY <2>10, <1>HitsFinite
  <2>14. Cardinality(Hits(d \o s, T)) = Cardinality(Hits(d, T))
    BY SMTT(20), <2>9, <2>12, <2>13
  <2>15. UnderWay(f)' = Cardinality(Hits(d, T)) /\ UnderWay(f) = Cardinality(Hits(flight, T))
    BY <2>3, <2>14 DEF UnderWay, T
  <2> QED
    BY <2>6, <2>11, <2>15
\* The entries of another file stay as they are.
<1>MarkedOther.
      ASSUME NEW t \in Seq(Transfer), NEW g, NEW f, f # g, NEW x, x = MarkDone(t, g)
      PROVE  Hits(x, EntriesOf(f)) = Hits(t, EntriesOf(f)) /\ Hits(x, OpenOf(f)) = Hits(t, OpenOf(f))
  <2> USE <1>MarkedOther
  <2>1. /\ x \in Seq(Transfer) /\ Len(x) = Len(t)
        /\ \/ x = t /\ \A i \in 1..Len(t) : t[i].file # g
           \/ \E m \in 1..Len(t) :
                /\ t[m].file = g /\ x[m].file = g /\ x[m].done
                /\ \A i \in 1..Len(t) : i # m => x[i] = t[i]
    BY SMTT(20), MarkFacts
  <2>2. ASSUME NEW i \in 1..Len(t) PROVE x[i] = t[i] \/ (t[i].file = g /\ x[i].file = g)
    BY <2>1
  <2>3. \A i \in 1..Len(t) : x[i] \in EntriesOf(f) <=> t[i] \in EntriesOf(f)
    <3> TAKE i \in 1..Len(t)
    <3>1. CASE x[i] = t[i]
      BY <3>1
    <3>2. CASE t[i].file = g /\ x[i].file = g
      BY <3>2 DEF EntriesOf
    <3> QED
      BY <2>2, <3>1, <3>2
  <2>4. \A i \in 1..Len(t) : x[i] \in OpenOf(f) <=> t[i] \in OpenOf(f)
    <3> TAKE i \in 1..Len(t)
    <3>1. CASE x[i] = t[i]
      BY <3>1
    <3>2. CASE t[i].file = g /\ x[i].file = g
      BY <3>2 DEF OpenOf
    <3> QED
      BY <2>2, <3>1, <3>2
  <2> QED
    BY <2>1, <2>3, <2>4 DEF Hits
\* A result is delivered.
<1>CountDelivered.
      ASSUME TypeInv, NEW i \in 1..Len(flight), Deliver(i), NEW f, CountFine(f)
      PROVE  CountFine(f)'
  <2> USE <1>CountDelivered
  <2> DEFINE cmd == flight[i]
             t == ui.transfers
  <2>1. t \in Seq(Transfer)
    BY SMTT(20) DEF TypeInv, TuiType, InterfaceFine, Interface
  <2>2. ui'.transfers = IF cmd.call = "download" THEN MarkDone(t, cmd.arg) ELSE t
    BY DeliverFacts DEF ResultDoes
  <2>3. UnderWay(f)' = IF cmd.call = "download" /\ cmd.arg = f THEN UnderWay(f) - 1 ELSE UnderWay(f)
    BY <1>DeliveredNumbers
  <2>4. /\ UnderWay(f) \in Nat /\ Entries(f) \in Nat /\ Opened(f) \in Nat
        /\ Opened(f) >= UnderWay(f) /\ (Entries(f) <= 1 => Opened(f) = UnderWay(f))
    BY <1>Numbers, CountFineIs
  <2> DEFINE Goal == CountFine(f)'
  <2>5. ASSUME ~ (cmd.call = "download" /\ cmd.arg = f) PROVE Goal
    <3>1. UnderWay(f)' = UnderWay(f)
      BY <2>3, <2>5
    <3>2. Entries(f)' = Entries(f) /\ Opened(f)' = Opened(f)
      <4>1. CASE cmd.call = "download"
        <5>1. f # cmd.arg /\ ui'.transfers = MarkDone(t, cmd.arg)
          BY <2>2, <2>5, <4>1
        <5> DEFINE g == cmd.arg
                   x == ui'.transfers
        <5>2. f # g /\ x = MarkDone(t, g)
          BY <5>1
        <5> HIDE DEF g, x, t
        <5>3. Hits(x, EntriesOf(f)) = Hits(t, EntriesOf(f)) /\ Hits(x, OpenOf(f)) = Hits(t, OpenOf(f))
          BY SMTT(20), <2>1, <5>2, <1>MarkedOther
        <5> QED
          BY <5>3 DEF Entries, Opened, x, t
      <4>2. CASE cmd.call # "download"
        BY <2>2, <4>2 DEF Entries, Opened
      <4> QED
        BY <4>1, <4>2
    <3> QED
      BY <2>4, <3>1, <3>2 DEF CountFine, Entries, Opened, UnderWay
  <2>6. ASSUME cmd.call = "download", cmd.arg = f PROVE Goal
    <3> DEFINE x == ui'.transfers
    <3>1. x = MarkDone(t, f) /\ UnderWay(f)' = UnderWay(f) - 1
      BY <2>2, <2>3, <2>6
    <3>2. UnderWay(f) >= 1
      <4>1. flight \in Seq(GoodCommand)
        BY DEF TypeInv, TuiType
      <4>2. cmd \in GoodCommand
        BY SMTT(20), <4>1
      <4>3. i \in Hits(flight, DownloadsOf(f))
        BY <2>6, <4>2 DEF Hits, DownloadsOf
      <4>4. UnderWay(f) # 0
        BY <4>1, <4>3, <1>HitsFinite DEF UnderWay, CountingFine, EmptyCount
      <4> QED
        BY SMTT(20), <2>4, <4>4
    <3>3. Opened(f) >= 1
      BY SMTT(20), <2>4, <3>2
    <3>4. Cardinality(Hits(t, OpenOf(f))) >= 1
      BY <3>3 DEF Opened
    <3>5. /\ Entries(f) = Cardinality(Hits(t, EntriesOf(f)))
          /\ Opened(f) = Cardinality(Hits(t, OpenOf(f)))
          /\ Entries(f)' = Cardinality(Hits(x, EntriesOf(f)))
          /\ Opened(f)' = Cardinality(Hits(x, OpenOf(f)))
      BY DEF Entries, Opened
    <3> HIDE DEF x, t
    <3>6. /\ Cardinality(Hits(x, EntriesOf(f))) = Cardinality(Hits(t, EntriesOf(f)))
          /\ \/ Cardinality(Hits(x, OpenOf(f))) = Cardinality(Hits(t, OpenOf(f)))
             \/ Cardinality(Hits(x, OpenOf(f))) = Cardinality(Hits(t, OpenOf(f))) - 1
          /\ Cardinality(Hits(t, EntriesOf(f))) <= 1 =>
               Cardinality(Hits(t, OpenOf(f))) = 1 /\ Cardinality(Hits(x, OpenOf(f))) = 0
      BY SMTT(20), <2>1, <3>1, <3>4, <1>MarkedNumbers
    <3>7. /\ Entries(f)' = Entries(f) /\ (Opened(f)' = Opened(f) \/ Opened(f)' = Opened(f) - 1)
          /\ Entries(f) <= 1 => Opened(f) = 1 /\ Opened(f)' = 0
      BY <3>5, <3>6
    <3>8. Opened(f)' >= UnderWay(f)' /\ (Entries(f)' <= 1 => Opened(f)' = UnderWay(f)')
      BY SMTT(20), <2>4, <3>1, <3>7
    <3> QED
      BY <3>8 DEF CountFine, Opened, UnderWay, Entries
  <2>7. Goal
    BY <2>5, <2>6
  <2> QED
    BY <2>7
\* The overlay that is open gets the result, or keeps its call.
<1>LoadingDelivered.
      ASSUME TypeInv, LoadingFine, NEW i \in 1..Len(flight), Deliver(i)
      PROVE  LoadingFine'
  <2> USE <1>LoadingDelivered
  <2> DEFINE cmd == flight[i]
             o == ui.overlay
  <2>1. ui'.overlay = IF cmd.call \in {"invite", "join"} THEN OverlayResult(o, cmd) ELSE o
    BY DeliverFacts DEF ResultDoes
  <2>2. o \in Overlay
    BY SMTT(20) DEF TypeInv, TuiType, InterfaceFine, Interface
  <2> HIDE DEF o
  <2>3. o.kind = cmd.call => ~ OverlayResult(o, cmd).loading
    BY SMTT(20), <2>2 DEF OverlayResult, Overlay
  <2>4. o.kind # cmd.call => OverlayResult(o, cmd) = o
    BY DEF OverlayResult
  <2> SUFFICES ASSUME ui'.overlay.loading
               PROVE  /\ ui'.overlay.kind \in {"invite", "join"}
                      /\ \E k \in 1..Len(flight') : flight'[k].call = ui'.overlay.kind
                           /\ flight'[k].arg = 0
    BY DEF LoadingFine
  <2>5. ui'.overlay = o
    BY <2>1, <2>3, <2>4
  <2>6. o.kind \in {"invite", "join"}
    BY <2>5 DEF LoadingFine, o
  <2>7. o.kind # cmd.call
    BY <2>1, <2>3, <2>5, <2>6
  <2>8. PICK j \in 1..Len(flight) : flight[j].call = o.kind /\ flight[j].arg = 0
    BY <2>5 DEF LoadingFine, o
  <2>9. \A m \in 1..Len(flight) : m # i => \E k \in 1..Len(flight') : flight'[k] = flight[m]
    BY DeliverFacts
  <2>10. j # i
    BY <2>7, <2>8
  <2>11. PICK k \in 1..Len(flight') : flight'[k] = flight[j]
    BY <2>9, <2>10
  <2> QED
    BY <2>5, <2>6, <2>8, <2>11
\* Commands are added: an overlay that loads keeps its call.
<1>LoadingKept.
      ASSUME LoadingFine, NEW s, Together(flight, s, flight'),
             ui'.overlay.kind = ui.overlay.kind, ui'.overlay.loading = ui.overlay.loading
      PROVE  LoadingFine'
  <2> USE <1>LoadingKept
  <2> SUFFICES ASSUME ui'.overlay.loading
               PROVE  /\ ui'.overlay.kind \in {"invite", "join"}
                      /\ \E k \in 1..Len(flight') : flight'[k].call = ui'.overlay.kind
                           /\ flight'[k].arg = 0
    BY DEF LoadingFine
  <2>1. ui.overlay.kind \in {"invite", "join"}
    BY DEF LoadingFine
  <2>2. PICK j \in 1..Len(flight) : flight[j].call = ui.overlay.kind /\ flight[j].arg = 0
    BY DEF LoadingFine
  <2>3. PICK k \in 1..Len(flight') : flight'[k] = flight[j]
    BY DEF Together
  <2> QED
    BY <2>1, <2>2, <2>3
\* A key that makes an overlay load issues its call.
<1>LoadingKey.
      ASSUME TypeInv, LoadingFine, NEW k \in plan.keys, KeyMsg(k)
      PROVE  LoadingFine'
  <2> USE <1>LoadingKey
  <2>1. OverlayFollows(ui, ui', k) /\ Together(flight, KeyCmds(ui, k), flight')
    BY KeyMsgFacts DEF KeyKeeps
  <2>2. CASE ui'.overlay.kind = ui.overlay.kind /\ ui'.overlay.loading = ui.overlay.loading
    BY <2>1, <2>2, <1>LoadingKept
  <2>3. CASE ~ ui'.overlay.loading
    BY <2>3 DEF LoadingFine
  <2>4. CASE ui'.overlay.kind \in {"invite", "join"} /\ KeyCmds(ui, k) = <<Cmd(ui'.overlay.kind, 0)>>
    <3> DEFINE c == ui'.overlay.kind
               s == KeyCmds(ui, k)
    <3>1. c \in Call /\ s = <<Cmd(c, 0)>>
      BY <2>4 DEF Call
    <3> HIDE DEF c, s
    <3>2. Len(s) = 1 /\ s[1].call = c /\ s[1].arg = 0
      BY SMTT(20), <3>1, Issued
    <3>3. 1 \in 1..Len(s)
      BY SMTT(20), <3>2
    <3>4. \E m \in 1..Len(flight') : flight'[m] = s[1]
      BY <2>1, <3>3 DEF Together, s
    <3>5. \E m \in 1..Len(flight') : flight'[m].call = ui'.overlay.kind /\ flight'[m].arg = 0
      BY <3>2, <3>4 DEF c
    <3> QED
      BY <2>4, <3>5 DEF LoadingFine
  <2> QED
    BY <2>1, <2>2, <2>3, <2>4 DEF OverlayFollows
\* A key: the downloads it issues and the entries it adds.
<1>CountKey.
      ASSUME TypeInv, NEW k \in plan.keys, KeyMsg(k), NEW f, CountFine(f)
      PROVE  CountFine(f)'
  <2> USE <1>CountKey
  <2> DEFINE s == KeyCmds(ui, k)
  <2>1. TransfersFollow(ui, ui', k) /\ flight' = flight \o s /\ k \in STRING
    BY KeyMsgFacts DEF KeyKeeps, KeyMsg
  <2>2. s \in Seq(GoodCommand)
    BY <2>1, KeyCmdsFacts DEF TypeInv, TuiType
  <2>3. CASE ui'.transfers = ui.transfers /\ s \in {<<>>, <<Cmd("invite", 0)>>, <<Cmd("join", 0)>>}
    <3>1. \A j \in 1..Len(s) : s[j].call # "download"
      <4> DEFINE c == Cmd("invite", 0)
                 d == Cmd("join", 0)
      <4>1. c.call # "download" /\ d.call # "download"
        BY DEF Cmd
      <4>2. s \in {<<>>, <<c>>, <<d>>}
        BY <2>3
      <4> HIDE DEF s, c, d
      <4> QED
        BY SMTT(20), <4>1, <4>2
    <3> HIDE DEF s
    <3> QED
      BY <2>1, <2>2, <2>3, <3>1, <1>WaitMore
  <2>4. CASE ui'.transfers = AddTransfers(ui.transfers, Wanted(ui.catalog))
               /\ s = Downloads(ui.catalog)
    BY <2>1, <2>4, <1>WaitDownloads
  <2> QED
    BY ZenonT(30), <2>1, <2>3, <2>4 DEF TransfersFollow
\* An event.
<1>WaitEvent.
      ASSUME TypeInv, WaitInv, EventMsg
      PROVE  WaitInv'
  <2> USE <1>WaitEvent
  <2> DEFINE s == EventCmds(Head(queue))
  <2>1. /\ flight' = flight \o s /\ ui'.transfers = ui.transfers /\ ui'.overlay = ui.overlay
        /\ Together(flight, s, flight')
    BY EventMsgFacts DEF EventMsg
  <2>2. s \in Seq(GoodCommand) /\ (s = <<>> \/ (Len(s) = 1 /\ s[1].call = "catalog"))
    BY EventCmdsFacts
  <2> HIDE DEF s
  <2>3. \A j \in 1..Len(s) : s[j].call # "download"
    BY SMTT(20), <2>2
  <2>4. LoadingFine'
    BY <2>1, <1>LoadingKept DEF WaitInv
  <2>5. \A f \in File : CountFine(f)'
    BY ZenonT(30), <2>1, <2>2, <2>3, <1>WaitMore DEF WaitInv
  <2> QED
    BY ZenonT(30), <2>4, <2>5 DEF WaitInv
<1> SUFFICES ASSUME TypeInv, WaitInv, [Next]_vars PROVE WaitInv'
  BY SMT
<1>1. ASSUME UNCHANGED <<ui, flight>> PROVE WaitInv'
  BY <1>1, <1>WaitSame
<1>2. CASE FeedOpens \/ CatalogChanges \/ BroadcastCatalogUpdated \/ DaemonExits \/ EventLost
  BY <1>1, <1>2
     DEF FeedOpens, CatalogChanges, BroadcastCatalogUpdated, DaemonExits, EventLost, tuiVars
<1>3. ASSUME NEW l \in Link,
             LinkUp(l) \/ BroadcastPeerOnline(l) \/ LinkDown(l) \/ BroadcastPeerOffline(l)
      PROVE  WaitInv'
  BY <1>1, <1>3 DEF LinkUp, BroadcastPeerOnline, LinkDown, BroadcastPeerOffline, tuiVars
<1>4. ASSUME NEW i \in 1..Len(flight), CallQuery(i) PROVE WaitInv'
  BY <1>4, QueryFacts, <1>WaitAnswered
<1>5. ASSUME NEW i \in 1..Len(flight), CallJoin(i) PROVE WaitInv'
  BY <1>5, JoinFacts, <1>WaitAnswered
<1>6. ASSUME NEW i \in 1..Len(flight), Deliver(i) PROVE WaitInv'
  BY <1>6, <1>LoadingDelivered, <1>CountDelivered DEF WaitInv
<1>7. CASE Disconnected
  BY <1>7, DisconnectedFacts, <1>WaitSame
<1>8. ASSUME NEW k \in plan.keys, KeyMsg(k) PROVE WaitInv'
  BY <1>8, <1>LoadingKey, <1>CountKey DEF WaitInv
<1>9. ASSUME NEW h \in plan.heights, WindowSizeMsg(h) PROVE WaitInv'
  BY <1>9, WindowFacts, <1>WaitSame
<1>10. CASE UNCHANGED vars
  BY ZenonT(40), <1>1, <1>10 DEF vars, tuiVars
<1> QED
  BY ZenonT(40), <1>2, <1>3, <1>4, <1>5, <1>6, <1>7, <1>8, <1>9, <1>10, <1>WaitEvent DEF Next

-----------------------------------------------------------------------------
(***************************************************************************)
(* Sets of numbers, from the library.                                      *)
(***************************************************************************)

INSTANCE FiniteSetTheorems

\* A set of numbers that is not empty has a least one.
LEMMA LeastNumber ==
    ASSUME NEW S \in SUBSET Nat, S # {}
    PROVE  \E m \in S : \A k \in S : m <= k
<1> DEFINE R == OpToRel(<, Nat)
<1>1. IsWellFoundedOn(R, Nat)
  BY NatLessThanWellFounded
<1>2. R = {ss \in Nat \X Nat : ss[1] < ss[2]}
  BY SMTT(20) DEF OpToRel
<1> HIDE DEF R
<1>3. PICK m \in S : \A k \in S : <<k, m>> \notin R
  <2>1. S \subseteq Nat
    BY SMTT(30)
  <2> QED
    BY <1>1, <2>1, WFMin
<1>4. \A k \in S : ~ (k < m)
  BY <1>2, <1>3
<1> QED
  BY SMTT(20), <1>4

\* The least of some positions.
LEMMA MinOfSome ==
    ASSUME NEW S \in SUBSET Nat, S # {}
    PROVE  Min(S) \in S /\ \A y \in S : Min(S) <= y
BY LeastNumber DEF Min

\* InOrder puts a finite set in order.
LEMMA InOrderFacts ==
    ASSUME NEW Z \in SUBSET Nat, IsFiniteSet(Z)
    PROVE  /\ Cardinality(Z) \in Nat /\ InOrder(Z) \in [1..Cardinality(Z) -> Z]
           /\ InOrder(Z) \in Seq(Z) /\ Len(InOrder(Z)) = Cardinality(Z)
           /\ \A i, j \in 1..Cardinality(Z) : i < j => InOrder(Z)[i] < InOrder(Z)[j]
\* A set of numbers with 0 and the successor of each of its members is all of them.
<1>NatSetInduction.
      ASSUME NEW T \in SUBSET Nat, 0 \in T, \A n \in T : n + 1 \in T
      PROVE  T = Nat
  <2> USE <1>NatSetInduction
  <2> DEFINE U == Nat \ T
  <2>1. SUFFICES ASSUME U # {} PROVE FALSE
    OBVIOUS
  <2>2. \E m \in U : \A k \in U : m <= k
    BY <2>1, LeastNumber
  <2>3. PICK m \in U : \A k \in U : m <= k
    BY <2>2
  <2>4. m \in Nat /\ m # 0 /\ m - 1 \in Nat /\ ~ (m <= m - 1) /\ (m - 1) + 1 = m
    BY SMTT(30)
  <2> QED
    BY SMTT(20), <2>3, <2>4
\* A finite set of numbers can be put in order.
<1>OrderExists.
      ASSUME NEW S \in SUBSET Nat, IsFiniteSet(S)
      PROVE  \E s \in [1..Cardinality(S) -> S] :
                 \A i, j \in 1..Cardinality(S) : i < j => s[i] < s[j]
  <2> USE <1>OrderExists
  <2> DEFINE Ordered(A) == \E s \in [1..Cardinality(A) -> A] :
                               \A i, j \in 1..Cardinality(A) : i < j => s[i] < s[j]
             T == {n \in Nat : \A A \in SUBSET Nat :
                                  IsFiniteSet(A) /\ Cardinality(A) = n => Ordered(A)}
  <2>1. 0 \in T
    <3> SUFFICES ASSUME NEW A \in SUBSET Nat, Cardinality(A) = 0, IsFiniteSet(A) PROVE Ordered(A)
      BY SMTT(30)
    <3>1. <<>> \in [1..0 -> A] /\ 1..0 = {}
      BY SMTT(30)
    <3> QED
      BY <3>1
  <2>2. ASSUME NEW n \in T PROVE n + 1 \in T
    <3> SUFFICES ASSUME NEW A \in SUBSET Nat, Cardinality(A) = n + 1, IsFiniteSet(A) PROVE Ordered(A)
      BY SMTT(30)
    <3>1. A # {}
      <4>1. Cardinality({}) = 0
        BY FS_EmptySet
      <4>2. n + 1 # 0
        BY SMTT(30)
      <4> QED
        BY <4>1, <4>2
    <3>2. PICK m \in A : \A k \in A : m <= k
      BY <3>1, LeastNumber
    <3> DEFINE B == A \ {m}
    <3>3. IsFiniteSet(B) /\ Cardinality(B) = n /\ B \in SUBSET Nat
      <4>1. IsFiniteSet(B) /\ Cardinality(B) = Cardinality(A) - 1
        BY FS_RemoveElement
      <4>2. (n + 1) - 1 = n
        BY SMTT(30)
      <4> QED
        BY <4>1, <4>2
    <3>4. PICK s \in [1..n -> B] : \A i, j \in 1..n : i < j => s[i] < s[j]
      BY <3>3
    <3> DEFINE t == [i \in 1..(n + 1) |-> IF i = 1 THEN m ELSE s[i - 1]]
    <3>5. \A i \in 1..(n + 1) : i = 1 \/ i - 1 \in 1..n
      BY SMTT(30)
    <3>6. t[1] = m /\ \A i \in 1..(n + 1) : i # 1 => t[i] = s[i - 1]
      BY SMTT(30)
    <3>7. \A k \in B : m < k
      BY SMTT(20), <3>2
    <3>8. t \in [1..(n + 1) -> A]
      <4>1. ASSUME NEW i \in 1..(n + 1) PROVE (IF i = 1 THEN m ELSE s[i - 1]) \in A
        BY <3>5
      <4> QED
        BY <4>1
    <3> HIDE DEF t
    <3>9. ASSUME NEW i \in 1..(n + 1), NEW j \in 1..(n + 1), i < j PROVE t[i] < t[j]
      <4>1. j # 1 /\ j - 1 \in 1..n
        BY SMTT(20), <3>9
      <4>2. t[j] = s[j - 1] /\ s[j - 1] \in B
        BY <3>6, <4>1
      <4>3. CASE i = 1
        BY ZenonT(40), <3>6, <3>7, <4>2, <4>3
      <4>4. CASE i # 1
        <5>1. i - 1 \in 1..n /\ i - 1 < j - 1
          BY SMTT(20), <3>9, <4>4
        <5>2. t[i] = s[i - 1] /\ s[i - 1] < s[j - 1]
          BY ZenonT(40), <3>4, <3>6, <4>1, <4>4, <5>1
        <5> QED
          BY ZenonT(40), <4>2, <5>2
      <4> QED
        BY ZenonT(40), <4>3, <4>4
    <3> QED
      BY ZenonT(40), <3>8, <3>9
  <2>3. T = Nat
    <3>1. T \in SUBSET Nat
      BY SMTT(30)
    <3> HIDE DEF T
    <3> QED
      BY SMTT(20), <2>1, <2>2, <3>1, <1>NatSetInduction
  <2>4. Cardinality(S) \in T
    <3>1. Cardinality(S) \in Nat
      BY FS_CardinalityType
    <3> HIDE DEF T
    <3> QED
      BY <2>3, <3>1
  <2> QED
    BY <2>4
<1>1. Cardinality(Z) \in Nat
  BY FS_CardinalityType
<1>2. /\ InOrder(Z) \in [1..Cardinality(Z) -> Z]
      /\ \A i, j \in 1..Cardinality(Z) : i < j => InOrder(Z)[i] < InOrder(Z)[j]
  BY <1>OrderExists DEF InOrder
<1> DEFINE n == Cardinality(Z)
           s == InOrder(Z)
<1> HIDE DEF n, s
<1>3. n \in Nat /\ s \in [1..n -> Z]
  BY <1>1, <1>2 DEF n, s
<1>4. s \in Seq(Z) /\ Len(s) = n
  BY SMTT(20), <1>3
<1> QED
  BY ZenonT(40), <1>1, <1>2, <1>4 DEF n, s

\* Sets of numbers are as the panels need them.
LEMMA Sets == SetsFine
<1>1. ASSUME NEW S \in SUBSET Nat, S # {}
      PROVE  Min(S) \in S /\ \A y \in S : Min(S) <= y
  BY <1>1, MinOfSome
<1>2. ASSUME NEW S, S \in SUBSET Row \/ S \in SUBSET Peer PROVE Listable(S)
  <2>1. S \in SUBSET Nat /\ IsFiniteSet(S)
    BY <1>2, KeyAssumption, FS_Subset
  <2> QED
    BY <2>1, InOrderFacts DEF Listable
<1> QED
  BY <1>1, <1>2 DEF SetsFine

\* A function that is one to one, and onto, keeps the number.
LEMMA SameNumber ==
    ASSUME NEW X, IsFiniteSet(X), NEW Y, NEW g \in [X -> Y],
           \A a, b \in X : g[a] = g[b] => a = b, \A y \in Y : \E x \in X : g[x] = y
    PROVE  IsFiniteSet(Y) /\ Cardinality(Y) = Cardinality(X)
<1>1. g \in Injection(X, Y)
  BY DEF Injection, IsInjective
<1>2. g \in Surjection(X, Y)
  BY DEF Surjection
<1>3. ExistsBijection(X, Y)
  BY <1>1, <1>2 DEF ExistsBijection, Bijection
<1> QED
  BY <1>3, FS_Bijection

\* Finite sets are counted as needed.
LEMMA Counting == CountingFine
<1>1. EmptyCount
  BY FS_EmptySet DEF EmptyCount
<1>2. IntervalCount
  <2>1. 1 \in Int
    BY SMTT(30)
  <2> QED
    BY <2>1, FS_Interval DEF IntervalCount
<1>3. PartCount
  BY FS_Subset, FS_CardinalityType DEF PartCount
<1>4. RemoveCount
  BY FS_RemoveElement DEF RemoveCount
<1>5. UnionCount
  BY FS_Union DEF UnionCount
<1>6. SameCount
  BY ZenonT(40), SameNumber DEF SameCount
<1> QED
  BY ZenonT(40), <1>1, <1>2, <1>3, <1>4, <1>5, <1>6 DEF CountingFine

-----------------------------------------------------------------------------
(***************************************************************************)
(* The theorems.                                                           *)
(***************************************************************************)

\* The type invariant is inductive.
LEMMA TypeInduction == (Init => TypeInv) /\ (TypeInv /\ [Next]_vars => TypeInv')
  BY Sets, Updates, InitType, TypeNext

\* In every reachable state the panels, the overlay, the commands and the feed have
\* their types and both cursors are on a row of their list: through every mixture of
\* keys, searches and refreshes, for any catalog, peers, keys and heights.
THEOREM TypeCorrect == Spec => []TypeOK
<1>1. TypeInv => TypeOK
  <2> SUFFICES ASSUME TypeInv PROVE TypeOK
    OBVIOUS
  <2>1. InterfaceFine(ui)
    BY DEF TypeInv, TuiType
  <2>2. /\ ui.catalog \in CatalogRecord(Nat) /\ ui.peers \in PeersRecord
        /\ ui.overlay \in Overlay /\ ui.focus \in {"catalog", "peers"}
    BY SMTT(20), <2>1 DEF InterfaceFine, Interface
  <2>3. ui.catalog.files \subseteq Row /\ ui.catalog.offset \in Nat
    BY SMTT(20), <2>2 DEF CatalogRecord
  <2>4. ui.peers.offset \in Nat
    BY SMTT(20), <2>2 DEF PeersRecord
  <2>5. ui.overlay.kind \in {"none", "help", "detail", "confirm", "invite", "join"}
    BY SMTT(20), <2>2 DEF Overlay
  <2> QED
    BY ZenonT(40), <2>1, <2>2, <2>3, <2>4, <2>5 DEF InterfaceFine, CatalogFine, PeersFine, TypeOK
<1> QED
  BY PTL, <1>1, TypeInduction DEF Spec

\* Once every change has been announced, every event taken and every fetch delivered,
\* the files shown are the daemon's catalog, unless an event was lost or an older fetch
\* was delivered after a newer one: for any catalog, any number of changes and any keys.
THEOREM CatalogCurrent == Spec => []CatalogCurrentUnlessOvertaken
<1>1. TypeInv /\ CatInv => CatalogCurrentUnlessOvertaken
  <2> SUFFICES ASSUME TypeInv, CatInv, up, ~ ui.quitting, announced = changes, queue = <<>>,
                      InFlight("catalog", 0) = {}, Watch \notin lost, ~ overtaken
               PROVE  ui.catalog.files = db
    BY DEF CatalogCurrentUnlessOvertaken
  <2>1. ~ Excused
    BY DEF Excused
  <2>2. ~ ToBeAnnounced
    BY SMTT(20) DEF ToBeAnnounced, TypeInv, DaemonType
  <2>3. ~ ToBeTaken
    <3>1. Len(queue) = 0
      BY SMTT(30)
    <3> QED
      BY SMTT(20), <3>1 DEF ToBeTaken
  <2>4. ~ ToBeShown
    BY ZenonT(40) DEF ToBeShown, InFlight, CatInv, Fetches, FetchFine
  <2> QED
    BY <2>1, <2>2, <2>3, <2>4 DEF CatInv, CatView
<1>2. TypeInv /\ CatInv /\ [Next]_vars => CatInv'
  BY Sets, Updates, CatNext
<1> QED
  BY PTL, <1>1, TypeInduction, CatInit, <1>2 DEF Spec

\* A peer shown as online has a connection whose "online" was the last the TUI heard of
\* it, and which is up or whose "offline" is still to come, unless it was lost: for any
\* number of peers and of connections to each.
THEOREM OnlineBacked == Spec => []ShownOnlineIsBacked
<1>1. Init => PeerInv
  <2> SUFFICES ASSUME Init PROVE PeerInv
    BY SMT
  <2>1. link = [l \in Link |-> "new"] /\ ui.peers.list = <<>>
    BY SMTT(20) DEF Init, NewModel, NewPeers
  <2>2. Heard
    BY SMTT(20), <2>1 DEF Heard, Awaited
  <2>3. Len(ui.peers.list) = 0
    BY SMTT(20), <2>1
  <2>4. ShownOnlineIsBacked
    BY SMTT(20), <2>3 DEF ShownOnlineIsBacked
  <2> QED
    BY ZenonT(30), <2>2, <2>4 DEF PeerInv
<1>2. PeerInv => ShownOnlineIsBacked
  BY DEF PeerInv
<1>3. TypeInv /\ PeerInv /\ [Next]_vars => PeerInv'
  BY Sets, Updates, PeerNext
<1> QED
  BY PTL, <1>1, <1>2, TypeInduction, <1>3 DEF Spec

\* What the TUI shows as waiting is waiting for something, whatever keys are pressed and
\* in whatever order the results come: an overlay that loads has its call under way, and
\* the downloads under way are shown, and are all that is shown unless a file was asked
\* for twice.
THEOREM Waiting == Spec => []WaitingIsAnswered
<1>1. Init => WaitInv
  <2> SUFFICES ASSUME Init PROVE WaitInv
    BY SMT
  <2>1. /\ flight = <<Cmd("peers", 0), Cmd("catalog", 0)>> /\ ui.transfers = <<>>
        /\ ~ ui.overlay.loading
    BY SMTT(20) DEF Init, NewModel, NoOverlay
  <2>2. \A i \in 1..Len(flight) : flight[i].call # "download"
    BY SMTT(20), <2>1 DEF Cmd
  <2>3. Len(ui.transfers) = 0
    BY SMTT(20), <2>1
  <2>4. ASSUME NEW f \in File PROVE CountFine(f)
    <3>1. \A i \in 1..Len(flight) : flight[i] \notin DownloadsOf(f)
      BY <2>2 DEF DownloadsOf
    <3>2. UnderWay(f) = 0
      BY ZenonT(40), <3>1, Counting, HitsNone DEF UnderWay
    <3>3. \A i \in 1..Len(ui.transfers) : ui.transfers[i] \notin OpenOf(f)
      BY SMTT(20), <2>3
    <3>4. Opened(f) = 0
      BY ZenonT(40), <3>3, Counting, HitsNone DEF Opened
    <3>5. Opened(f) >= UnderWay(f) /\ Opened(f) = UnderWay(f)
      BY SMTT(20), <3>2, <3>4
    <3> QED
      BY <3>5, CountFineIs
  <2>5. LoadingFine
    BY <2>1 DEF LoadingFine
  <2> QED
    BY ZenonT(30), <2>4, <2>5 DEF WaitInv
<1>2. TypeInv /\ WaitInv /\ [Next]_vars => WaitInv'
  BY Sets, Counting, Updates, WaitNext
<1> QED
  BY PTL, <1>1, WaitingFollows, TypeInduction, <1>2 DEF Spec
=============================================================================
