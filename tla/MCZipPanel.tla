----------------------------- MODULE MCZipPanel -----------------------------
(* A small instance of ZipPanel for TLC: two panels, a file a and a folder d. *)
EXTENDS ZipPanel, TLC

CONSTANTS left, right, a, d, x, y, new, pw, typo

MCPanels == <<left, right>>
MCPaths == {<<a>>, <<d>>, <<d, a>>, <<a, a>>}

Entry(bytes, key) == [bytes |-> bytes, key |-> key, damaged |-> FALSE]
Bad(bytes, key) == [Entry(bytes, key) EXCEPT !.damaged = TRUE]

Plain == (<<a>> :> Entry(x, NoKey)) @@ (<<d, a>> :> Entry(y, NoKey))
Folders == (<<a>> :> Entry(Marker, NoKey)) @@ (<<d>> :> Bad(x, NoKey))
Secret == (<<a>> :> Entry(x, pw)) @@ (<<d>> :> Entry(Marker, NoKey))
TwoKeys == (<<a>> :> Entry(x, pw)) @@ (<<d, a>> :> Entry(y, typo))
Rotten == (<<a>> :> Bad(x, pw)) @@ (<<d, a>> :> Entry(y, pw))

MCArchives == {Plain, Folders, Secret, TwoKeys}
MCOtherArchives == {Broken, Rotten, Secret}

ASSUME TreesAssumption == OnlyTrees
=============================================================================
