--------------------------- MODULE MCFileTransfer ---------------------------
(* Small disks for UndoJournal: a folder with a link on the left, a file and a
   folder that clash with what is copied on the right.                       *)
EXTENDS UndoJournal

File(c) == [node |-> c, inside |-> [x \in Parts |-> "none"]]
Folder(first, second) ==
    [node |-> "folder", inside |-> [x \in Parts |-> IF x = "p" THEN first ELSE second]]
Empty == [NoDisk EXCEPT ![Elsewhere] = "c9"]

RECURSIVE Fill(_, _)
Fill(d, pairs) == IF pairs = <<>> THEN d ELSE Fill(PutTree(d, pairs[1][1], pairs[1][2]), Tail(pairs))

A == <<"left", "a">>
B == <<"left", "b">>
OtherA == <<"right", "a">>
OtherB == <<"right", "b">>
OneVolume ==
    [disk |-> Fill(Empty, <<<<A, Folder("c1", "link")>>, <<OtherB, File("c3")>>>>),
     denied |-> {}, crossVolume |-> FALSE]
TwoVolumes ==
    [disk |-> Fill(Empty, <<<<A, Folder("none", "c1")>>, <<B, Folder("c2", "none")>>, <<OtherA, Folder("none", "link")>>>>),
     denied |-> {B}, crossVolume |-> TRUE]
SomeStarts == {OneVolume, TwoVolumes}

Req(kind, from, to, names) == [kind |-> kind, from |-> from, to |-> to, names |-> names]
Same(names) == [n \in DOMAIN names |-> [name |-> names[n], target |-> names[n]]]
BothWays ==
    {Req("copy", "left", "right", Same(<<"a", "b">>)), Req("move", "left", "right", Same(<<"a", "b">>)),
     Req("move", "left", "right", Same(<<"a">>)), Req("move", "left", "left", Same(<<"a">>)),
     Req("copy", "left", "left", <<[name |-> "a", target |-> "b"]>>),
     Req("recycle", "left", "left", Same(<<"a">>)), Req("delete", "right", "right", Same(<<"a">>)),
     Req("rename", "left", "left", <<[name |-> "a", target |-> "b"]>>)}
SomeWrites ==
    {<<OtherB, "c8">>, <<<<"left", "a", "p">>, "none">>, <<<<"right", "a", "p">>, "c8">>}
=============================================================================
