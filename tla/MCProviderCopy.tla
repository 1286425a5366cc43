--------------------------- MODULE MCProviderCopy ---------------------------
(* A small instance of ProviderCopy for TLC.  s is the folder the items are   *)
(* in and t the one they go to; f, g are files, d is a folder.                *)
EXTENDS ProviderCopy

CONSTANTS s, t, f, g, d, one, two, old

\* Two files in s; t has one of them, or the folder d has a file.
Files == (<<s>> :> Folder) @@ (<<s, f>> :> one) @@ (<<s, g>> :> two)
Tree == (<<s>> :> Folder) @@ (<<s, d>> :> Folder) @@ (<<s, d, f>> :> one)
Taken == (<<t>> :> Folder) @@ (<<t, f>> :> old)
Merged == (<<t>> :> Folder) @@ (<<t, d>> :> Folder) @@ (<<t, d, f>> :> old)

Job(kind, from, to, items, source, target) ==
    [kind |-> kind, from |-> from, to |-> to, sdir |-> <<s>>, tdir |-> <<t>>, items |-> items,
     local |-> CASE from = to -> << >> [] from = "local" -> source [] OTHER -> target,
     server |-> CASE from = to -> source @@ target [] from = "local" -> target [] OTHER -> source]

MCJobs ==
    {Job("Move", side[1], side[2], x[1], x[2], x[3]) :
        side \in {<<"local", "remote">>, <<"remote", "local">>, <<"remote", "remote">>},
        x \in {<< <<f, g>>, Files, Taken >>, << <<d>>, Tree, Merged >>}}
    \cup {Job("Copy", "local", "remote", <<f, g>>, Files, Taken),
          Job("Move", "local", "remote", <<d>>, Tree, Taken),
          Job("Delete", "remote", "remote", <<d>>, Tree, Taken)}

MCNames == {s, t, f, g, d}
MCNewNames == {g}
MCOtherPaths == {<<t, g>>, <<s, d, g>>}

\* The hypothesis of ContentIsKept, true of these jobs.
ASSUME MovesAssumption == NothingOntoItsAncestor
=============================================================================
