-------------------------------- MODULE MCTui --------------------------------
(***************************************************************************)
(* One file with two rows, the node's own and a peer's, and one peer that  *)
(* may connect twice.  The plans keep apart what the TUI keeps apart:      *)
(*   Peers      both connections come and go, and an event may be lost;    *)
(*   Downloads  the catalog changes while the user selects and downloads;  *)
(*   Overlays   invites and joins are asked for, abandoned and answered;   *)
(*   Panels     the user moves and searches in lists that change.          *)
(* In all but the last a call may fail, or the subscriber be dropped,      *)
(* while the daemon runs.                                                  *)
(***************************************************************************)
EXTENDS Tui

CONSTANTS l1, l2

MCFile == <<1, 1>>
MCName == <<<<"x">>, <<"d", "x">>>>
MCLocal == <<TRUE, FALSE>>
MCPeerOf == [l \in Link |-> 1]

Quiet == [rows |-> {1, 2}, known |-> {}, links |-> {}, changes |-> 0, keys |-> {},
          heights |-> {}, presses |-> 0, lost |-> 0, faults |-> FALSE, exits |-> FALSE]

Peers == [Quiet EXCEPT !.links = {l1, l2}, !.lost = 1, !.faults = TRUE, !.exits = TRUE]

Downloads == [Quiet EXCEPT !.rows = {2}, !.changes = 2, !.keys = {"x", "D"}, !.presses = 3,
                           !.lost = 1, !.faults = TRUE]

Overlays == [Quiet EXCEPT !.links = {l1}, !.keys = {"J", "i", "x", "enter", "esc"},
                          !.presses = 5, !.faults = TRUE, !.exits = TRUE]

Panels == [Quiet EXCEPT !.known = {1, 2}, !.changes = 1, !.heights = {1}, !.presses = 3,
                        !.keys = {"ctrl+c", "q", "tab", "?", "p", "j", "k", "g", "G", "down",
                                  "up", "ctrl+d", "ctrl+u", "/", "x", "d", "y", "esc",
                                  "enter", "backspace"}]

MCPlan == {Peers, Downloads, Overlays, Panels}
=============================================================================
