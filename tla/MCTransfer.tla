----------------------------- MODULE MCTransfer -----------------------------
(***************************************************************************)
(* Two owners and two contents, of two blocks and of one, so that a file   *)
(* rewritten while it is sent arrives as a mixture.  The first owner calls *)
(* both contents by one name.  The second has a name of its own for the    *)
(* longer one; it has none for the shorter one, or calls it by the hash of *)
(* the longer one, so that two downloads may or may not contend.           *)
(***************************************************************************)
EXTENDS Transfer

CONSTANTS o1, o2, n1, n2

Long == <<"x", "y">>
Short == <<"z">>
Contents == {Long, Short}

Names(short) ==
    [o \in Owner |-> [c \in Contents |->
        IF o = o1 THEN n1 ELSE IF c = Long THEN n2 ELSE short]]

\* A name is taken, a file lies under its hash, or under that of another.
Holding(n, c) == [m \in Name |-> IF m = n THEN c ELSE Absent]
Folders == {Holding(n1, Absent), Holding(n1, Short), Holding(Long, Long), Holding(Long, Short)}

PlainNames == Names(NoName)
HashLikeNames == Names(Long)
=============================================================================
