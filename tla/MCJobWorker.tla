----------------------------- MODULE MCJobWorker -----------------------------
(* Small submissions for JobWorker. *)
EXTENDS JobWorker

MCFold == [c \in {"C:", "D:", "E:", "a", "b"} |-> c]

Job(kind, sources, destination) ==
    [kind |-> kind, sources |-> sources, destination |-> destination]

\* A move of two items, and a delete elsewhere that may run beside it; the
\* same submission twice makes a job wait for another.
MoveTwo == Job("Move", <<<<"C:", "a">>, <<"C:", "b">>>>, <<"D:", "b">>)
DeleteElsewhere == Job("Delete", <<<<"E:", "a">>>>, <<>>)
MCSubmissions == {MoveTwo, DeleteElsewhere}

\* For the liveness run: one item, and a second job beside it or behind it.
MoveOne == Job("Move", <<<<"C:", "a">>>>, <<"D:", "b">>)
MCSubmissionsLive == {MoveOne, DeleteElsewhere}
=============================================================================
