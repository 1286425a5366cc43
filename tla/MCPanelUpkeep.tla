---------------------------- MODULE MCPanelUpkeep ----------------------------
(* A small instance of PanelUpkeep for TLC.                                   *)
EXTENDS PanelUpkeep

CONSTANTS p, q, a, b

MCPaths == {p, q}
MCNames == {a, b}

\* One name is in both folders; the panel starts in the one with only that name.
MCStartDisk == [x \in MCPaths |-> [n \in MCNames |-> IF x = p /\ n = b THEN 0 ELSE 1]]

\* A panel polled by a timer may do what one without it does (the timer need not
\* be due), so "On" would add nothing.
MCStartModes == {"Off", "Poll"}
==============================================================================
