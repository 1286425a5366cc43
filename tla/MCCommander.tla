----------------------------- MODULE MCCommander -----------------------------
(* Small submissions for Commander. *)
EXTENDS Commander

MCFold == [c \in {"C:", "D:", "E:", "a", "b"} |-> c]

Job(kind, sources, destination) ==
    [kind |-> kind, sources |-> sources, destination |-> destination]

\* The second waits for the first one's drive.
MoveA == Job("Move", <<<<"C:", "a">>>>, <<"D:", "a">>)
DeleteB == Job("Delete", <<<<"D:", "b">>>>, <<>>)
MCSubmissions == {MoveA, DeleteB}

\* Moving away what the delete is to remove.
MCForegroundOps == {{<<"D:", "b">>, <<"E:", "a">>}}
=============================================================================
