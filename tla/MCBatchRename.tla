---------------------------- MODULE MCBatchRename ----------------------------
(* A small instance of BatchRename for TLC: the names a, b, c, one of them    *)
(* also in capitals, and a folder in which the first temporary name is taken. *)
EXTENDS BatchRename

MCNames == {"a", "A", "b", "c", "d"}
MCTempNames == <<"t1", "t2", "t3", "t4", "t5">>
MCFold == [n \in MCNames \cup Range(MCTempNames) |-> IF n = "A" THEN "a" ELSE n]
MCStarts == {{"a", "b", "c", "d"}, {"A", "b", "t1"}}
=============================================================================
