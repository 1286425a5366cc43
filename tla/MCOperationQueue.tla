-------------------------- MODULE MCOperationQueue --------------------------
(* Small submissions for OperationQueue: two drives, folders inside folders. *)
EXTENDS OperationQueue

MCFold ==
    [c \in {"C:", "D:", "E:", "a", "A", "b"} |-> IF c = "A" THEN "a" ELSE c]

Job(kind, sources, destination) ==
    [kind |-> kind, sources |-> sources, destination |-> destination]

CFolder == <<"C:", "a">>
CFile == <<"C:", "A", "b">>
DFolder == <<"D:", "a">>
DFile == <<"D:", "a", "b">>
EFolder == <<"E:", "a">>

\* Overlaps through a source, through a destination, by containment, in
\* another spelling, and no overlap on the same volume.
MCSubmissions == {
    Job("Copy", <<CFile>>, DFolder),
    Job("Move", <<DFile>>, EFolder),
    Job("Delete", <<CFolder>>, <<>>),
    Job("Copy", <<<<"C:", "b">>>>, <<"E:", "b">>),
    Job("Copy", <<<<"C:", "b">>, CFile>>, <<"D:", "b">>) }
=============================================================================
