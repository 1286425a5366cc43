------------------------- MODULE FileTransferProofs -------------------------
(***************************************************************************)
(* Proofs about the engines of FileOps.tla and the panels' use of them in  *)
(* UndoJournal.tla, for every disk, request, sequence of failures and      *)
(* writes of other programs: what the user is told of an operation adds    *)
(* up, no content is lost, and what is counted as done is there; an undo   *)
(* (Ctrl+Z) touches only what is as the operation it reverses left it, and *)
(* one that says it reversed everything has put the places back as they    *)
(* were.                                                                   *)
(***************************************************************************)
EXTENDS UndoJournal, TLAPS, WellFoundedInduction

Working == {"conflict", "attempt", "walk", "remove", "error"}
counted == outcome.succeeded + outcome.skipped + outcome.failed

\* op is a record with the fields of Idle; `at` is a number.
OpShape(o) ==
    /\ o \in [kind : {o.kind}, undo : {o.undo}, from : {o.from}, to : {o.to}, names : {o.names},
              at : {o.at}, blanket : {o.blanket}, skipErrors : {o.skipErrors}, elevated : {o.elevated},
              elevatedAny : {o.elevatedAny}, typed : {o.typed}, target : {o.target}, seen : {o.seen},
              overwrite : {o.overwrite}, todo : {o.todo}]
    /\ o.at \in Nat
Outcomes == [succeeded : Nat, skipped : Nat, failed : Nat, cancelled : BOOLEAN]

\* Between items all of the past ones are counted, within one all but it; the
\* loop is left early by Esc and Cancel, and by an undo that failed.
CountInv ==
    /\ OpShape(op) /\ outcome \in Outcomes
    /\ phase \in Working \cup {"idle", "next", "end", "confirm"}
    /\ phase \in {"idle", "confirm"} => op = Idle /\ outcome = NoOutcome
    /\ phase = "next" => ~outcome.cancelled /\ counted = op.at
    /\ phase \in Working => ~outcome.cancelled /\ counted + 1 = op.at
    /\ phase = "end" =>
          IF outcome.cancelled THEN counted <= op.at
          ELSE counted = op.at /\ (op.at = Len(op.names) \/ op.undo)

-----------------------------------------------------------------------------
(* How an item may end, once it has been taken up as o.                      *)

Within(o) ==
    /\ outcome \in Outcomes /\ ~outcome.cancelled
    /\ OpShape(o) /\ counted + 1 = o.at

LEMMA ItemOver ==
    ASSUME Within(op'), NEW field \in {"succeeded", "skipped", "failed"}, Over(field)
    PROVE  CountInv'
BY DEF CountInv, Within, Outcomes, counted, OpShape, Over, Count, Working

LEMMA ItemGoesOn ==
    ASSUME Within(op'), UNCHANGED outcome, phase' \in Working
    PROVE  CountInv'
BY DEF CountInv, Within, Outcomes, counted, OpShape, Working

LEMMA ItemCancelled ==
    ASSUME Within(op'), Cancelled
    PROVE  CountInv'
<1>1. outcome' \in Outcomes /\ outcome'.cancelled /\ counted' = counted /\ phase' = "end"
  BY DEF Within, Outcomes, counted, Cancelled
<1>2. OpShape(op') /\ counted + 1 = op'.at /\ counted \in Nat
  BY DEF Within, Outcomes, counted
<1>3. counted <= op'.at
  BY <1>2 DEF OpShape
<1>. QED  BY <1>1, <1>2, <1>3 DEF CountInv, Working

LEMMA ItemEsc ==
    ASSUME Within(op), EscPressed
    PROVE  CountInv'
<1>1. Within(op') /\ Cancelled
  BY DEF EscPressed, Within
<1>. QED  BY <1>1, ItemCancelled

LEMMA ItemSucceeded ==
    ASSUME Within(op), Succeeded
    PROVE  CountInv'
<1>1. Within(op') /\ Over("succeeded")
  BY DEF Succeeded, Within
<1>. QED  BY <1>1, ItemOver

LEMMA ItemFails ==
    ASSUME Within(op), AttemptFailed
    PROVE  CountInv'
<1>1. CASE op' = [op EXCEPT !.elevated = FALSE] /\ phase' = "attempt" /\ UNCHANGED outcome
  <2>1. Within(op')
    BY <1>1 DEF Within, OpShape
  <2>. QED  BY <1>1, <2>1, ItemGoesOn DEF Working
<1>2. CASE UNCHANGED op /\ Over("failed")
  BY <1>2, ItemOver DEF Within
<1>3. CASE UNCHANGED op /\ Over("skipped")
  BY <1>3, ItemOver DEF Within
<1>4. CASE phase' = "error" /\ UNCHANGED <<op, outcome>>
  BY <1>4, ItemGoesOn DEF Within, Working
<1>. QED  BY <1>1, <1>2, <1>3, <1>4 DEF AttemptFailed

LEMMA ItemProceeds ==
    ASSUME NEW o, Within(o), Proceed(o)
    PROVE  CountInv'
<1>1. Within(op')
  BY DEF Proceed
<1>2. CASE Over("failed")
  BY <1>1, <1>2, ItemOver
<1>3. CASE phase' = "attempt" /\ UNCHANGED outcome
  BY <1>1, <1>3, ItemGoesOn DEF Working
<1>. QED  BY <1>2, <1>3 DEF Proceed

LEMMA ItemChosen ==
    ASSUME NEW o, Within(o), NEW choice, Choose(o, choice)
    PROVE  CountInv'
<1>1. CASE op' = o /\ Cancelled
  BY <1>1, ItemCancelled
<1>2. CASE op' = o /\ Over("skipped")
  BY <1>2, ItemOver
<1>3. CASE choice = "Overwrite" /\ Proceed([o EXCEPT !.overwrite = TRUE])
  <2>1. Within([o EXCEPT !.overwrite = TRUE])
    BY DEF Within, OpShape
  <2>. QED  BY <1>3, <2>1, ItemProceeds
<1>. QED  BY <1>1, <1>2, <1>3 DEF Choose

LEMMA ItemStarts ==
    ASSUME NEW o, Within(o), StartItem(o)
    PROVE  CountInv'
<1>1. CASE op' = o /\ phase' = "attempt" /\ UNCHANGED outcome
  BY <1>1, ItemGoesOn DEF Working
<1>2. CASE op' = o /\ Over("failed")
  BY <1>2, ItemOver
<1>3. CASE Proceed(o)
  BY <1>3, ItemProceeds
<1>4. CASE \E choice : Choose(o, choice)
  BY <1>4, ItemChosen
<1>5. CASE op' = o /\ phase' = "conflict" /\ UNCHANGED outcome
  BY <1>5, ItemGoesOn DEF Working
<1>. QED  BY <1>1, <1>2, <1>3, <1>4, <1>5 DEF StartItem

-----------------------------------------------------------------------------
(* The steps of the engines.                                                 *)

LEMMA InItem == CountInv /\ phase \in Working => Within(op)
BY DEF CountInv, Within, Working

LEMMA NextItemCounts == CountInv /\ NextItem => CountInv'
<1>. SUFFICES ASSUME CountInv, NextItem PROVE CountInv'
  OBVIOUS
<1>1. /\ phase = "next" /\ OpShape(op) /\ outcome \in Outcomes
      /\ ~outcome.cancelled /\ counted = op.at /\ counted \in Nat
  BY DEF CountInv, NextItem, Working, Outcomes, counted
<1>2. CASE LoopEnds /\ phase' = "end" /\ UNCHANGED <<op, outcome, owed>>
  BY <1>1, <1>2 DEF CountInv, LoopEnds, counted, Working
<1>3. CASE EscPressed
  <2>1. outcome' \in Outcomes /\ outcome'.cancelled /\ counted' = counted /\ phase' = "end" /\ op' = op
    BY <1>1, <1>3 DEF Outcomes, counted, EscPressed, Cancelled
  <2>. QED  BY <1>1, <2>1 DEF CountInv, Working
<1>4. ASSUME NEW target, NEW seen,
             StartItem([op EXCEPT !.at = @ + 1, !.target = target, !.overwrite = FALSE, !.elevated = FALSE, !.seen = seen])
      PROVE  CountInv'
  <2>. DEFINE o == [op EXCEPT !.at = @ + 1, !.target = target, !.overwrite = FALSE, !.elevated = FALSE, !.seen = seen]
  <2>1. Within([op EXCEPT !.at = @ + 1])
    BY <1>1 DEF Within, OpShape
  <2>2. ASSUME NEW p, Within(p)
        PROVE  /\ Within([p EXCEPT !.target = target]) /\ Within([p EXCEPT !.overwrite = FALSE])
               /\ Within([p EXCEPT !.elevated = FALSE]) /\ Within([p EXCEPT !.seen = seen])
    BY <2>2 DEF Within, OpShape
  <2>3. Within(o)
    BY <2>1, <2>2
  <2>4. StartItem(o)
    BY <1>4
  <2>. HIDE DEF o
  <2>. QED  BY <2>3, <2>4, ItemStarts
<1>. QED  BY <1>2, <1>3, <1>4 DEF NextItem

LEMMA AnswerConflictCounts == CountInv /\ AnswerConflict => CountInv'
<1>. SUFFICES ASSUME CountInv, AnswerConflict PROVE CountInv'
  OBVIOUS
<1>1. Within(op)
  BY InItem DEF AnswerConflict, Working
<1>2. ASSUME NEW choice, Choose(op, choice) PROVE CountInv'
  BY <1>1, <1>2, ItemChosen
<1>3. ASSUME NEW choice, Choose([op EXCEPT !.blanket = choice], choice) PROVE CountInv'
  <2>1. Within([op EXCEPT !.blanket = choice])
    BY <1>1 DEF Within, OpShape
  <2>. QED  BY <1>3, <2>1, ItemChosen
<1>4. ASSUME NEW name, NEW seen, Proceed([op EXCEPT !.target = name, !.typed = TRUE, !.seen = seen]) PROVE CountInv'
  <2>1. Within([op EXCEPT !.target = name, !.typed = TRUE, !.seen = seen])
    BY <1>1 DEF Within, OpShape
  <2>. QED  BY <1>4, <2>1, ItemProceeds
<1>. QED  BY <1>2, <1>3, <1>4 DEF AnswerConflict

LEMMA AnswerErrorCounts == CountInv /\ AnswerError => CountInv'
<1>. SUFFICES ASSUME CountInv, AnswerError PROVE CountInv'
  OBVIOUS
<1>1. Within(op)
  BY InItem DEF AnswerError, Working
<1>2. CASE phase' = "attempt" /\ UNCHANGED <<op, outcome>>
  BY <1>1, <1>2, ItemGoesOn DEF Within, Working
<1>3. CASE phase' = "attempt" /\ op' = [op EXCEPT !.elevated = TRUE, !.elevatedAny = TRUE] /\ UNCHANGED outcome
  <2>1. Within(op')
    BY <1>1, <1>3 DEF Within, OpShape
  <2>. QED  BY <1>3, <2>1, ItemGoesOn DEF Working
<1>4. CASE Over("skipped") /\ UNCHANGED op
  BY <1>1, <1>4, ItemOver DEF Within
<1>5. CASE Over("skipped") /\ op' = [op EXCEPT !.skipErrors = TRUE]
  <2>1. Within(op')
    BY <1>1, <1>5 DEF Within, OpShape
  <2>. QED  BY <1>5, <2>1, ItemOver
<1>6. CASE Cancelled /\ UNCHANGED op
  BY <1>1, <1>6, ItemCancelled DEF Within
<1>. QED  BY <1>2, <1>3, <1>4, <1>5, <1>6 DEF AnswerError

LEMMA FolderOpened ==
    ASSUME Within(op), NEW from, NEW to, OpenFolder(from, to)
    PROVE  CountInv'
<1>1. ASSUME NEW todo, op' = [op EXCEPT !.todo = todo], phase' = "walk", UNCHANGED outcome PROVE CountInv'
  <2>1. Within(op')
    BY <1>1 DEF Within, OpShape
  <2>. QED  BY <1>1, <2>1, ItemGoesOn DEF Working
<1>2. CASE AttemptFailed
  BY <1>2, ItemFails
<1>. QED  BY <1>1, <1>2 DEF OpenFolder, MustFail, FailsBy

\* What an attempt ends in, whatever the disk is left with.
Ends == Succeeded \/ AttemptFailed \/ EscPressed

LEMMA ItemEnds ==
    ASSUME Within(op), Ends
    PROVE  CountInv'
BY ItemSucceeded, ItemFails, ItemEsc DEF Ends

LEMMA AttemptCopyCounts == CountInv /\ AttemptCopy => CountInv'
<1>. SUFFICES ASSUME CountInv, AttemptCopy PROVE CountInv'
  OBVIOUS
<1>1. Within(op)
  BY InItem DEF AttemptCopy, Working
<1>2. OpenFolder(Src, Dst) \/ Ends
  BY DEF AttemptCopy, CopySingleFile, FailsBy, MustFail, Ends
<1>. QED  BY <1>1, <1>2, FolderOpened, ItemEnds

LEMMA AttemptMoveCounts == CountInv /\ AttemptMove => CountInv'
<1>. SUFFICES ASSUME CountInv, AttemptMove PROVE CountInv'
  OBVIOUS
<1>1. Within(op)
  BY InItem DEF AttemptMove, Working
<1>2. OpenFolder(Src, Dst) \/ Ends
  BY DEF AttemptMove, FailsBy, MustFail, Ends
<1>. QED  BY <1>1, <1>2, FolderOpened, ItemEnds

LEMMA AttemptCounts ==
    ASSUME NEW now, CountInv, AttemptRecycle(now) \/ AttemptDelete \/ AttemptRename \/ AttemptRestore
    PROVE  CountInv'
<1>1. Within(op)
  BY InItem DEF AttemptRecycle, AttemptDelete, AttemptRename, AttemptRestore, Working
<1>2. Ends
  BY DEF AttemptRecycle, AttemptDelete, AttemptRename, AttemptRestore, RenameItem, FailsBy, MustFail, Ends
<1>. QED  BY <1>1, <1>2, ItemEnds

LEMMA CopyChildCounts ==
    ASSUME NEW p, CountInv, CopyChild(p)
    PROVE  CountInv'
<1>1. Within(op) /\ phase \in Working
  BY InItem DEF CopyChild, Working
<1>2. CASE Walked(p)
  <2>1. Within(op')
    BY <1>1, <1>2 DEF Walked, Within, OpShape
  <2>. QED  BY <1>1, <1>2, <2>1, ItemGoesOn DEF Walked
<1>3. CASE Ends
  BY <1>1, <1>3, ItemEnds
<1>. QED  BY <1>2, <1>3 DEF CopyChild, CopySingleFile, FailsBy, MustFail, Ends

LEMMA FolderDoneCounts ==
    ASSUME CountInv, FolderCopied \/ RemoveSource
    PROVE  CountInv'
<1>1. Within(op)
  BY InItem DEF FolderCopied, RemoveSource, Working
<1>2. CASE phase' = "remove" /\ UNCHANGED <<op, outcome>>
  BY <1>1, <1>2, ItemGoesOn DEF Within, Working
<1>3. CASE Ends
  BY <1>1, <1>3, ItemEnds
<1>. QED  BY <1>2, <1>3 DEF FolderCopied, RemoveSource, FailsBy, MustFail, Ends

-----------------------------------------------------------------------------
(* The steps of the user interface.                                          *)

LEMMA IdleShape == OpShape(Idle) /\ NoOutcome \in Outcomes
BY DEF OpShape, Idle, NoOutcome, Outcomes

\* An operation, or an undo, sets out with nothing counted.
LEMMA SetsOut ==
    ASSUME OpShape(op'), op'.at = 0, outcome' = NoOutcome, phase' = "next"
    PROVE  CountInv'
BY IdleShape DEF CountInv, NoOutcome, counted, Working

LEMMA BeginCounts ==
    ASSUME NEW r, Begin(Operation(r))
    PROVE  CountInv'
<1>1. OpShape(Operation(r)) /\ Operation(r).at = 0
  BY DEF Operation, Idle, OpShape
<1>. QED  BY <1>1, SetsOut DEF Begin

LEMMA IdleCounts ==
    ASSUME op' = Idle, outcome' = NoOutcome, phase' \in {"idle", "confirm"}
    PROVE  CountInv'
BY IdleShape DEF CountInv, Working

LEMMA SameCounts ==
    ASSUME CountInv, UNCHANGED <<op, outcome, phase>>
    PROVE  CountInv'
BY DEF CountInv, counted, Working

LEMMA DoUndoCounts == CountInv /\ DoUndo => CountInv'
<1>. SUFFICES ASSUME CountInv, DoUndo PROVE CountInv'
  OBVIOUS
<1>1. op' = Idle /\ outcome' = NoOutcome /\ phase' \in {"idle", "confirm"}
  BY DEF CountInv, DoUndo
<1>. QED  BY <1>1, IdleCounts

LEMMA AnswerUndoCounts == CountInv /\ AnswerUndo => CountInv'
<1>. SUFFICES ASSUME CountInv, AnswerUndo PROVE CountInv'
  OBVIOUS
<1>1. op = Idle /\ outcome = NoOutcome
  BY DEF CountInv, AnswerUndo
<1>2. CASE phase' = "idle" /\ UNCHANGED <<op, outcome>>
  BY <1>1, <1>2, IdleCounts
<1>3. CASE op' = UndoOp(undoing) /\ phase' = "next" /\ outcome' = NoOutcome
  <2>1. OpShape(UndoOp(undoing)) /\ UndoOp(undoing).at = 0
    BY DEF UndoOp, Idle, OpShape
  <2>. QED  BY <1>3, <2>1, SetsOut
<1>. QED  BY <1>2, <1>3 DEF AnswerUndo

-----------------------------------------------------------------------------
(* Together.                                                                 *)

LEMMA InitCounts == Init => CountInv
BY IdleShape DEF Init, CountInv, Working

LEMMA NextCounts == CountInv /\ [Next]_allVars => CountInv'
<1>. SUFFICES ASSUME CountInv, [Next]_allVars PROVE CountInv'
  OBVIOUS
<1>1. CASE Engine
  <2>1. CASE NextItem \/ AnswerConflict \/ AnswerError
    BY <2>1, NextItemCounts, AnswerConflictCounts, AnswerErrorCounts
  <2>2. CASE AttemptCopy \/ AttemptMove
    BY <2>2, AttemptCopyCounts, AttemptMoveCounts
  <2>3. CASE AttemptRecycle(clock) \/ AttemptDelete \/ AttemptRename \/ AttemptRestore
    BY <2>3, AttemptCounts
  <2>4. CASE \E p \in Places : CopyChild(p)
    BY <2>4, CopyChildCounts
  <2>5. CASE FolderCopied \/ RemoveSource
    BY <2>5, FolderDoneCounts
  <2>. QED  BY <1>1, <2>1, <2>2, <2>3, <2>4, <2>5 DEF Engine, EngineStep
<1>2. ASSUME NEW r \in Requests, PerformCopyOrMove(r) \/ DoDelete(r) PROVE CountInv'
  BY <1>2, BeginCounts DEF PerformCopyOrMove, DoDelete
<1>3. ASSUME NEW r \in Requests, DoRename(r) PROVE CountInv'
  BY <1>3, SameCounts DEF DoRename
<1>4. CASE EndOperation \/ EndUndo
  BY <1>4, IdleCounts DEF EndOperation, EndUndo, BackToIdle
<1>5. CASE DoUndo \/ AnswerUndo
  BY <1>5, DoUndoCounts, AnswerUndoCounts
<1>6. ASSUME NEW w \in Writes, OtherProgramWrites(w[1], w[2]) PROVE CountInv'
  BY <1>6, SameCounts DEF OtherProgramWrites
<1>7. CASE UNCHANGED allVars
  BY <1>7, SameCounts DEF allVars, fileVars
<1>. QED  BY <1>1, <1>2, <1>3, <1>4, <1>5, <1>6, <1>7 DEF Next, UserStarts

\* Where the loop of an engine is determines how many items have been counted,
\* in every reachable state.
THEOREM CountInvariant == Spec => []CountInv
BY InitCounts, NextCounts, PTL DEF Spec

\* FOP-011, of ReportOutcome's numbers: every item of every operation is
\* counted exactly once, however often it was tried, whatever failed on the
\* way, in a dialog, elevated or in an undo; Esc and Cancel alone leave some out.
THEOREM EveryItemIsCounted == Spec => []EveryItemCounted
<1>1. CountInv => EveryItemCounted
  <2>. SUFFICES ASSUME CountInv PROVE EveryItemCounted
    OBVIOUS
  <2>1. counted \in Nat /\ op.at \in Nat
    BY DEF CountInv, Outcomes, OpShape, counted
  <2>2. counted <= op.at
    <3>1. CASE phase \in {"idle", "confirm"}
      <4>1. op = Idle /\ outcome = NoOutcome
        BY <3>1 DEF CountInv
      <4>2. op.at = 0
        BY <4>1 DEF Idle
      <4>3. counted = 0
        BY <4>1 DEF NoOutcome, counted
      <4>. QED  BY <4>2, <4>3
    <3>2. CASE phase \in Working
      <4>1. counted + 1 = op.at
        BY <3>2 DEF CountInv
      <4>. QED  BY <2>1, <4>1
    <3>3. CASE phase \in {"next", "end"}
      <4>1. counted <= op.at \/ counted = op.at
        BY <3>3 DEF CountInv
      <4>. QED  BY <2>1, <4>1
    <3>. QED  BY <3>1, <3>2, <3>3 DEF CountInv
  <2>3. phase = "end" /\ ~outcome.cancelled => counted = op.at
    BY DEF CountInv
  <2>4. phase = "end" /\ ~outcome.cancelled /\ ~op.undo => counted = Len(op.names)
    BY DEF CountInv
  <2>. QED  BY <2>2, <2>3, <2>4 DEF EveryItemCounted, counted
<1>. QED  BY <1>1, CountInvariant, PTL

-----------------------------------------------------------------------------
(* The disk: places apart from each other, and trees put into them.          *)

Under(i) == {i} \cup Inside(i)
Child(i, x) == <<i[1], i[2], x>>
Trees == [node : Nodes, inside : [Parts -> Nodes]]

\* The places of a small disk are apart: items, what is in them, and elsewhere.
LEMMA ItemPlaces ==
    ASSUME NEW i \in Items
    PROVE  /\ i \in Places /\ Inside(i) \subseteq Places /\ i # Elsewhere
           /\ i = <<i[1], i[2]>> /\ Elsewhere \notin Inside(i)
           /\ \A x \in Parts : Child(i, x) \in Inside(i) /\ Child(i, x)[3] = x
           /\ \A p \in Inside(i) : p[3] \in Parts /\ p = Child(i, p[3])
           /\ Elsewhere \in Places
<1>1. i \in Places /\ Inside(i) \subseteq Places /\ Elsewhere \in Places
  <2>1. Inside(i) \in {Inside(j) : j \in Items}
    OBVIOUS
  <2>2. Inside(i) \subseteq UNION {Inside(j) : j \in Items}
    BY <2>1, Zenon
  <2>3. i \in Places
    BY DEF Places
  <2>4. Elsewhere \in Places
    BY DEF Places
  <2>5. Inside(i) \subseteq Places
    BY <2>2 DEF Places
  <2>. QED  BY <2>3, <2>4, <2>5
<1>2. i = <<i[1], i[2]>>
  BY DEF Items
<1>3. i # Elsewhere
  BY <1>2 DEF Elsewhere
<1>4. Elsewhere \notin Inside(i)
  BY DEF Elsewhere, Inside
<1>5. \A x \in Parts : Child(i, x) \in Inside(i) /\ Child(i, x)[3] = x
  BY DEF Child, Inside
<1>6. \A p \in Inside(i) : p[3] \in Parts /\ p = Child(i, p[3])
  BY DEF Child, Inside
<1>. QED BY <1>1, <1>2, <1>3, <1>4, <1>5, <1>6

LEMMA ItemsApart ==
    ASSUME NEW i \in Items, NEW j \in Items
    PROVE  /\ i \notin Inside(j)
           /\ i # j => Inside(i) \cap Inside(j) = {}
<1>0. i = <<i[1], i[2]>> /\ j = <<j[1], j[2]>>
  BY DEF Items
<1>1. i \notin Inside(j)
  BY <1>0 DEF Inside
<1>2. ASSUME i # j, NEW p \in Inside(i), p \in Inside(j) PROVE FALSE
  <2>1. p[1] = i[1] /\ p[2] = i[2] /\ p[1] = j[1] /\ p[2] = j[2]
    BY <1>2 DEF Inside
  <2>. QED BY <2>1, <1>0, <1>2
<1>. QED BY <1>1, <1>2

GoodTree(t) ==
    /\ t.node # "link" /\ (t.node # "folder" => \A x \in Parts : t.inside[x] = "none")
    /\ \A x, y \in Parts :
          t.inside[x] # "folder" /\ (t.inside[x] = "link" /\ t.inside[y] = "link" => x = y)
GoodTrees == {t \in Trees : GoodTree(t)}
GoodDisk(d) ==
    /\ d \in [Places -> Nodes] /\ d[Elsewhere] \in Contents \cup {"none"}
    /\ \A i \in Items : GoodTree(Tree(d, i))

LEMMA TreeIs ==
    ASSUME NEW d \in [Places -> Nodes], NEW i \in Items
    PROVE  /\ Tree(d, i) \in Trees /\ Tree(d, i).node = d[i]
           /\ \A x \in Parts : Tree(d, i).inside[x] = d[Child(i, x)]
<1>1. i \in Places /\ \A x \in Parts : Child(i, x) \in Places
  BY ItemPlaces
<1>2. Tree(d, i) = [node |-> d[i], inside |-> [x \in Parts |-> d[Child(i, x)]]]
  BY DEF Tree, Child
<1>. QED  BY <1>1, <1>2 DEF Trees

LEMMA TreeGood ==
    ASSUME NEW d, GoodDisk(d), NEW i \in Items
    PROVE  Tree(d, i) \in GoodTrees
BY TreeIs DEF GoodDisk, GoodTrees

LEMMA NoneIsNode == "none" \in Nodes /\ "folder" \in Nodes /\ "link" \in Nodes /\ Contents \subseteq Nodes
BY DEF Nodes

LEMMA NoTreeGood == NoTree \in GoodTrees /\ NoTree.node = "none" /\ \A x \in Parts : NoTree.inside[x] = "none"
BY NoneIsNode DEF NoTree, GoodTrees, Trees, GoodTree

LEMMA LinksApartGood ==
    ASSUME NEW d \in [Places -> Nodes], LinksApart(d), d[Elsewhere] \in Contents \cup {"none"}
    PROVE  GoodDisk(d)
<1>1. ASSUME NEW i \in Items PROVE GoodTree(Tree(d, i))
  <2>1. /\ Tree(d, i).node = d[i]
        /\ \A x \in Parts : Tree(d, i).inside[x] = d[Child(i, x)] /\ Child(i, x) \in Inside(i) /\ Child(i, x)[3] = x
    BY TreeIs, ItemPlaces
  <2>2. /\ d[i] # "link" /\ (d[i] # "folder" => \A p \in Inside(i) : d[p] = "none")
        /\ \A p, q \in Inside(i) : d[p] # "folder" /\ (d[p] = "link" /\ d[q] = "link" => p = q)
    BY DEF LinksApart
  <2>. QED  BY <2>1, <2>2 DEF GoodTree
<1>. QED  BY <1>1 DEF GoodDisk

LEMMA GoodDiskIs ==
    ASSUME NEW d, GoodDisk(d), NEW i \in Items
    PROVE  /\ d[i] # "link" /\ (d[i] # "folder" => \A p \in Inside(i) : d[p] = "none")
           /\ \A p, q \in Inside(i) : d[p] # "folder" /\ (d[p] = "link" /\ d[q] = "link" => p = q)
<1>1. d \in [Places -> Nodes] /\ GoodTree(Tree(d, i))
  BY DEF GoodDisk
<1>2. /\ Tree(d, i).node = d[i]
      /\ \A x \in Parts : Tree(d, i).inside[x] = d[Child(i, x)]
      /\ \A p \in Inside(i) : p[3] \in Parts /\ p = Child(i, p[3])
  BY <1>1, TreeIs, ItemPlaces
<1>. QED  BY <1>1, <1>2 DEF GoodTree

LEMMA PutTreeIs ==
    ASSUME NEW d \in [Places -> Nodes], NEW i \in Items, NEW t \in Trees
    PROVE  /\ PutTree(d, i, t) \in [Places -> Nodes]
           /\ PutTree(d, i, t)[i] = t.node
           /\ \A x \in Parts : PutTree(d, i, t)[Child(i, x)] = t.inside[x]
           /\ \A p \in Places \ Under(i) : PutTree(d, i, t)[p] = d[p]
<1>1. t.node \in Nodes /\ t.inside \in [Parts -> Nodes]
  BY DEF Trees
<1>2. /\ i \in Places /\ Inside(i) \subseteq Places /\ i \notin Inside(i)
      /\ \A x \in Parts : Child(i, x) \in Inside(i) /\ Child(i, x)[3] = x
      /\ \A p \in Inside(i) : p[3] \in Parts
  BY ItemPlaces, ItemsApart
<1>3. ASSUME NEW p \in Places
      PROVE  PutTree(d, i, t)[p] = IF p = i THEN t.node ELSE IF p \in Inside(i) THEN t.inside[p[3]] ELSE d[p]
  BY DEF PutTree
<1>4. PutTree(d, i, t) \in [Places -> Nodes]
  BY <1>1, <1>2 DEF PutTree
<1>5. PutTree(d, i, t)[i] = t.node
  BY <1>2, <1>3
<1>6. ASSUME NEW x \in Parts PROVE PutTree(d, i, t)[Child(i, x)] = t.inside[x]
  BY <1>2, <1>3
<1>7. ASSUME NEW p \in Places \ Under(i) PROVE PutTree(d, i, t)[p] = d[p]
  BY <1>3 DEF Under
<1>. QED  BY <1>4, <1>5, <1>6, <1>7

LEMMA SameTree ==
    ASSUME NEW d \in [Places -> Nodes], NEW e \in [Places -> Nodes], NEW i \in Items,
           \A p \in Under(i) : d[p] = e[p]
    PROVE  Tree(d, i) = Tree(e, i)
<1>1. d[i] = e[i] /\ \A x \in Parts : d[Child(i, x)] = e[Child(i, x)]
  BY ItemPlaces DEF Under
<1>. QED  BY <1>1 DEF Tree, Child

LEMMA UnderApart ==
    ASSUME NEW i \in Items, NEW j \in Items, i # j
    PROVE  Under(i) \cap Under(j) = {} /\ Under(i) \subseteq Places /\ Elsewhere \notin Under(i)
BY ItemPlaces, ItemsApart DEF Under

LEMMA PutTreeTree ==
    ASSUME NEW d \in [Places -> Nodes], NEW i \in Items, NEW t \in Trees
    PROVE  /\ Tree(PutTree(d, i, t), i) = t
           /\ \A j \in Items : j # i => Tree(PutTree(d, i, t), j) = Tree(d, j)
<1>. DEFINE e == PutTree(d, i, t)
<1>1. /\ e \in [Places -> Nodes] /\ e[i] = t.node
      /\ \A x \in Parts : e[Child(i, x)] = t.inside[x]
      /\ \A p \in Places \ Under(i) : e[p] = d[p]
  BY PutTreeIs
<1>. HIDE DEF e
<1>2. Tree(e, i) = t
  <2>1. Tree(e, i) = [node |-> t.node, inside |-> [x \in Parts |-> t.inside[x]]]
    BY <1>1 DEF Tree, Child
  <2>2. t = [node |-> t.node, inside |-> t.inside] /\ t.inside = [x \in Parts |-> t.inside[x]]
    BY DEF Trees
  <2>. QED  BY <2>1, <2>2
<1>3. ASSUME NEW j \in Items, j # i PROVE Tree(e, j) = Tree(d, j)
  BY <1>1, <1>3, UnderApart, SameTree
<1>. QED  BY <1>2, <1>3 DEF e

LEMMA PutTreeGood ==
    ASSUME NEW d, GoodDisk(d), NEW i \in Items, NEW t \in GoodTrees
    PROVE  GoodDisk(PutTree(d, i, t))
<1>1. d \in [Places -> Nodes] /\ t \in Trees /\ GoodTree(t)
  BY DEF GoodDisk, GoodTrees
<1>2. PutTree(d, i, t) \in [Places -> Nodes] /\ PutTree(d, i, t)[Elsewhere] = d[Elsewhere]
  BY <1>1, PutTreeIs, ItemPlaces DEF Under
<1>3. ASSUME NEW j \in Items PROVE GoodTree(Tree(PutTree(d, i, t), j))
  BY <1>1, PutTreeTree DEF GoodDisk
<1>. QED  BY <1>2, <1>3 DEF GoodDisk

\* A file written, or taken away.
LEMMA WriteGood ==
    ASSUME NEW d, GoodDisk(d), NEW q \in Places, NEW v \in Contents \cup {"none"},
           d[q] # "folder",
           \A i \in Items : q \in Inside(i) => d[i] = "folder" \/ v = "none"
    PROVE  GoodDisk([d EXCEPT ![q] = v])
<1>. DEFINE e == [d EXCEPT ![q] = v]
<1>1. d \in [Places -> Nodes] /\ v \in Nodes /\ d[Elsewhere] \in Contents \cup {"none"}
  BY NoneIsNode DEF GoodDisk
<1>2. e \in [Places -> Nodes] /\ \A p \in Places : e[p] = IF p = q THEN v ELSE d[p]
  BY <1>1
<1>. HIDE DEF e
<1>3. e[Elsewhere] \in Contents \cup {"none"}
  BY <1>1, <1>2, ItemPlaces DEF Places
<1>4. v # "folder" /\ v # "link"
  BY FileOpsAssumption
<1>5. ASSUME NEW i \in Items
      PROVE  /\ e[i] # "link" /\ (e[i] # "folder" => \A p \in Inside(i) : e[p] = "none")
             /\ \A p, r \in Inside(i) : e[p] # "folder" /\ (e[p] = "link" /\ e[r] = "link" => p = r)
  <2>1. /\ d[i] # "link" /\ (d[i] # "folder" => \A p \in Inside(i) : d[p] = "none")
        /\ \A p, r \in Inside(i) : d[p] # "folder" /\ (d[p] = "link" /\ d[r] = "link" => p = r)
    BY GoodDiskIs
  <2>2. i \in Places /\ Inside(i) \subseteq Places /\ i \notin Inside(i)
    BY ItemPlaces, ItemsApart
  <2>. QED  BY <2>1, <2>2, <1>2, <1>4
<1>6. LinksApart(e)
  BY <1>5 DEF LinksApart
<1>. QED  BY <1>2, <1>3, <1>6, LinksApartGood DEF e

LEMMA FolderGood ==
    ASSUME NEW d, GoodDisk(d), NEW j \in Items
    PROVE  GoodDisk([d EXCEPT ![j] = "folder"])
<1>. DEFINE e == [d EXCEPT ![j] = "folder"]
<1>1. d \in [Places -> Nodes] /\ d[Elsewhere] \in Contents \cup {"none"} /\ j \in Places /\ j # Elsewhere
  BY ItemPlaces DEF GoodDisk
<1>2. e \in [Places -> Nodes] /\ \A p \in Places : e[p] = IF p = j THEN "folder" ELSE d[p]
  BY <1>1, NoneIsNode
<1>. HIDE DEF e
<1>3. e[Elsewhere] \in Contents \cup {"none"}
  BY <1>1, <1>2, ItemPlaces
<1>5. ASSUME NEW i \in Items
      PROVE  /\ e[i] # "link" /\ (e[i] # "folder" => \A p \in Inside(i) : e[p] = "none")
             /\ \A p, r \in Inside(i) : e[p] # "folder" /\ (e[p] = "link" /\ e[r] = "link" => p = r)
  <2>1. /\ d[i] # "link" /\ (d[i] # "folder" => \A p \in Inside(i) : d[p] = "none")
        /\ \A p, r \in Inside(i) : d[p] # "folder" /\ (d[p] = "link" /\ d[r] = "link" => p = r)
    BY GoodDiskIs
  <2>2. i \in Places /\ Inside(i) \subseteq Places /\ j \notin Inside(i)
    BY ItemPlaces, ItemsApart
  <2>. QED  BY <2>1, <2>2, <1>2
<1>6. LinksApart(e)
  BY <1>5 DEF LinksApart
<1>. QED  BY <1>2, <1>3, <1>6, LinksApartGood DEF e

LEMMA ClearedGood ==
    ASSUME NEW d, GoodDisk(d), NEW j \in Items, NEW gone \in SUBSET Inside(j)
    PROVE  GoodDisk([p \in Places |-> IF p \in gone THEN "none" ELSE d[p]])
<1>. DEFINE e == [p \in Places |-> IF p \in gone THEN "none" ELSE d[p]]
<1>1. d \in [Places -> Nodes] /\ d[Elsewhere] \in Contents \cup {"none"} /\ Elsewhere \notin gone /\ Elsewhere \in Places
  BY ItemPlaces DEF GoodDisk
<1>2. e \in [Places -> Nodes] /\ \A p \in Places : e[p] = IF p \in gone THEN "none" ELSE d[p]
  BY <1>1, NoneIsNode
<1>. HIDE DEF e
<1>3. e[Elsewhere] \in Contents \cup {"none"}
  BY <1>1, <1>2
<1>5. ASSUME NEW i \in Items
      PROVE  /\ e[i] # "link" /\ (e[i] # "folder" => \A p \in Inside(i) : e[p] = "none")
             /\ \A p, r \in Inside(i) : e[p] # "folder" /\ (e[p] = "link" /\ e[r] = "link" => p = r)
  <2>1. /\ d[i] # "link" /\ (d[i] # "folder" => \A p \in Inside(i) : d[p] = "none")
        /\ \A p, r \in Inside(i) : d[p] # "folder" /\ (d[p] = "link" /\ d[r] = "link" => p = r)
    BY GoodDiskIs
  <2>2. i \in Places /\ Inside(i) \subseteq Places /\ i \notin gone
    BY ItemPlaces, ItemsApart
  <2>. QED  BY <2>1, <2>2, <1>2
<1>6. LinksApart(e)
  BY <1>5 DEF LinksApart
<1>. QED  BY <1>2, <1>3, <1>6, LinksApartGood DEF e

-----------------------------------------------------------------------------
(* The task of an operation, and the item its loop is at.                    *)

NamePairs == [name : Names, target : Names]
OpKinds == {"none", "copy", "move", "recycle", "delete", "rename", "restore"}
EntryKinds == {"copy", "move", "recycle", "rename"}
ItemRecords == [before : Items, after : Items, expected : Trees, was : Trees \X Trees]
Entries == [kind : EntryKinds, items : Seq(ItemRecords), when : Nat, clean : BOOLEAN]

\* The items of an entry were in one folder and went to one, each with a name
\* of its own; F2 renames one item.
Tidy(items) ==
    /\ items # <<>>
    /\ \A m, n \in DOMAIN items :
          /\ items[m].after[1] = items[n].after[1] /\ items[m].before[1] = items[n].before[1]
          /\ m # n => items[m].after # items[n].after /\ items[m].before # items[n].before
GoodEntries == {e \in Entries : Tidy(e.items) /\ (e.kind = "rename" => Len(e.items) = 1)}

\* What an operation is about does not change while it is at work.
Task(o) ==
    /\ o.kind \in OpKinds /\ o.undo \in BOOLEAN /\ o.from \in Dirs /\ o.to \in Dirs /\ o.names \in Seq(NamePairs)
    /\ \A m, n \in DOMAIN o.names :
          m # n => o.names[m].name # o.names[n].name /\ o.names[m].target # o.names[n].target
    /\ o.typed \in BOOLEAN
SameTask(o, p) ==
    o.kind = p.kind /\ o.undo = p.undo /\ o.from = p.from /\ o.to = p.to /\ o.names = p.names

\* An item of it that is taken up, and one that has got past the refusals.
Taken(o) ==
    /\ o.at \in 1..Len(o.names) /\ o.target \in Names
    /\ o.undo => o.target = o.names[o.at].target /\ o.elevated = FALSE
Apart(o) ==
    /\ o.kind = "move" => o.from # o.to
    /\ o.kind = "copy" => SrcOf(o) # DstOf(o)
Past == {"attempt", "walk", "remove", "error"}

OpInv ==
    /\ Task(op) /\ op.at \in 0..Len(op.names) /\ disturbed \in BOOLEAN
    /\ phase \in Working => Taken(op)
    /\ phase \in Past => Apart(op)
    /\ phase = "conflict" => op.kind = "copy" \/ (op.kind = "move" /\ op.from # op.to)
    /\ op.undo =>
          /\ phase \in {"next", "attempt", "walk", "remove", "end"}
          /\ undoing \in GoodEntries /\ SameTask(op, UndoOp(undoing))
    /\ phase = "confirm" => undoing \in GoodEntries
    /\ phase \in {"walk", "remove"} => op.kind \in {"copy", "move"}
    /\ journal \in Seq(GoodEntries) /\ before \in [Places -> Nodes] /\ clock \in Nat

\* How a step leaves an item that goes on.
Goes(o) == Task(o) /\ Taken(o) /\ SameTask(o, op) /\ UNCHANGED <<journal, before, clock, undoing>> /\ disturbed' = disturbed

LEMMA OpOver ==
    ASSUME OpInv, Goes(op'), phase' \in {"next", "end"}
    PROVE  OpInv'
<1>1. op'.at \in 0..Len(op'.names)
  BY DEF Goes, Taken, Task
<1>2. op'.undo => undoing' \in GoodEntries /\ SameTask(op', UndoOp(undoing'))
  BY DEF OpInv, Goes, SameTask, UndoOp
<1>. QED  BY <1>1, <1>2 DEF OpInv, Goes, Working, Past

LEMMA OpGoesOn ==
    ASSUME OpInv, Goes(op'), phase' \in Past, Apart(op'),
           phase' \in {"walk", "remove"} => op'.kind \in {"copy", "move"},
           phase' = "error" => ~op'.undo
    PROVE  OpInv'
<1>1. op'.at \in 0..Len(op'.names)
  BY DEF Goes, Taken, Task
<1>2. op'.undo => undoing' \in GoodEntries /\ SameTask(op', UndoOp(undoing'))
  BY DEF OpInv, Goes, SameTask, UndoOp
<1>. QED  BY <1>1, <1>2 DEF OpInv, Goes, Working, Past

\* An item taken up as o, by an operation that was in order.
Took(o) == OpShape(o) /\ Task(o) /\ Taken(o) /\ SameTask(o, op)
Rest == UNCHANGED <<journal, before, clock, undoing, disturbed>>

LEMMA OpProceeds ==
    ASSUME OpInv, NEW o, Took(o), Proceed(o), Rest, o.kind = "move" => o.from # o.to
    PROVE  OpInv'
<1>1. Goes(op') /\ op' = o
  BY DEF Proceed, Took, Goes, Rest
<1>2. CASE Refused(o)
  BY <1>1, <1>2, OpOver DEF Proceed, Over
<1>3. CASE ~Refused(o)
  <2>1. Apart(op') /\ phase' = "attempt"
    BY <1>1, <1>3 DEF Proceed, Refused, Apart
  <2>. QED  BY <1>1, <2>1, OpGoesOn DEF Past
<1>. QED  BY <1>2, <1>3

LEMMA OpChosen ==
    ASSUME OpInv, NEW o, Took(o), NEW choice, Choose(o, choice), Rest, o.kind = "move" => o.from # o.to
    PROVE  OpInv'
<1>1. CASE op' = o /\ phase' \in {"next", "end"}
  BY <1>1, OpOver DEF Goes, Took, Rest
<1>2. CASE Proceed([o EXCEPT !.overwrite = TRUE])
  <2>. DEFINE p == [o EXCEPT !.overwrite = TRUE]
  <2>1. /\ OpShape(p) /\ p.kind = o.kind /\ p.undo = o.undo /\ p.from = o.from /\ p.to = o.to /\ p.names = o.names
        /\ p.at = o.at /\ p.target = o.target /\ p.elevated = o.elevated /\ p.typed = o.typed
    BY DEF Took, OpShape
  <2>2. Proceed(p)
    BY <1>2
  <2>. HIDE DEF p
  <2>3. Took(p)
    BY <2>1 DEF Took, Task, Taken, SameTask
  <2>. QED  BY <2>1, <2>2, <2>3, OpProceeds
<1>. QED  BY <1>1, <1>2 DEF Choose, Cancelled, Over

LEMMA OpStarts ==
    ASSUME OpInv, NEW o, Took(o), StartItem(o), Rest
    PROVE  OpInv'
<1>0. op' = o => Goes(op')
  BY DEF Took, Rest, Goes
<1>1. CASE o.kind \notin {"copy", "move"} /\ op' = o /\ phase' = "attempt"
  <2>1. Apart(op')
    BY <1>1 DEF Apart
  <2>. QED  BY <1>0, <1>1, <2>1, OpGoesOn DEF Past
<1>2. CASE op' = o /\ Over("failed")
  BY <1>0, <1>2, OpOver DEF Over
<1>3. CASE Proceed(o) /\ (o.kind = "move" => o.from # o.to)
  BY <1>3, OpProceeds
<1>4. ASSUME NEW choice, Choose(o, choice), o.kind = "move" => o.from # o.to PROVE OpInv'
  BY <1>4, OpChosen
<1>5. CASE /\ o.kind = "copy" \/ (o.kind = "move" /\ o.from # o.to)
           /\ ~o.undo /\ op' = o /\ phase' = "conflict"
  <2>1. op'.at \in 0..Len(op'.names) /\ ~op'.undo
    BY <1>5 DEF Took, Taken, Task
  <2>. QED  BY <1>0, <1>5, <2>1 DEF OpInv, Goes, Working, Past, SameTask
<1>. QED  BY <1>1, <1>2, <1>3, <1>4, <1>5 DEF StartItem

NextTaken ==
    [op EXCEPT !.at = @ + 1, !.target = op.names[op.at + 1].target, !.overwrite = FALSE, !.elevated = FALSE,
               !.seen = KindOf(<<op.to, op.names[op.at + 1].target>>)]

LEMMA NextIsTaken ==
    ASSUME OpInv, CountInv, ~LoopEnds
    PROVE  /\ Took(NextTaken) /\ NextTaken.seen = KindOf(DstOf(NextTaken))
           /\ NextTaken.at = op.at + 1 /\ NextTaken.target = op.names[op.at + 1].target /\ NextTaken.elevated = FALSE
<1>. DEFINE seen == KindOf(<<op.to, op.names[op.at + 1].target>>)
            target == op.names[op.at + 1].target
            o == [op EXCEPT !.at = @ + 1, !.target = target, !.overwrite = FALSE, !.elevated = FALSE, !.seen = seen]
<1>0. OpShape(op)
  BY DEF CountInv
<1>1. op.at \in 0..Len(op.names) /\ op.at # Len(op.names) /\ Task(op) /\ op.names \in Seq(NamePairs)
  BY DEF OpInv, LoopEnds, Task
<1>2. op.at + 1 \in 1..Len(op.names)
  BY <1>1
<1>3. target \in Names
  <2>1. op.names[op.at + 1] \in NamePairs
    BY <1>1, <1>2
  <2>. QED  BY <2>1 DEF NamePairs
<1>. HIDE DEF target, seen
<1>4. /\ OpShape(o) /\ o.kind = op.kind /\ o.undo = op.undo /\ o.from = op.from /\ o.to = op.to /\ o.names = op.names
      /\ o.at = op.at + 1 /\ o.target = target /\ o.elevated = FALSE /\ o.typed = op.typed /\ o.seen = seen
  <2>. DEFINE p == [op EXCEPT !.at = @ + 1]
              q == [p EXCEPT !.target = target]
              r == [q EXCEPT !.overwrite = FALSE]
              t == [r EXCEPT !.elevated = FALSE]
  <2>1. /\ OpShape(p) /\ p.kind = op.kind /\ p.undo = op.undo /\ p.from = op.from /\ p.to = op.to
        /\ p.names = op.names /\ p.typed = op.typed /\ p.at = op.at + 1
    BY <1>0 DEF OpShape
  <2>. HIDE DEF p
  <2>2. /\ OpShape(q) /\ q.kind = op.kind /\ q.undo = op.undo /\ q.from = op.from /\ q.to = op.to
        /\ q.names = op.names /\ q.typed = op.typed /\ q.at = op.at + 1 /\ q.target = target
    BY <2>1 DEF OpShape
  <2>. HIDE DEF q
  <2>3. /\ OpShape(r) /\ r.kind = op.kind /\ r.undo = op.undo /\ r.from = op.from /\ r.to = op.to
        /\ r.names = op.names /\ r.typed = op.typed /\ r.at = op.at + 1 /\ r.target = target
    BY <2>2 DEF OpShape
  <2>. HIDE DEF r
  <2>4. /\ OpShape(t) /\ t.kind = op.kind /\ t.undo = op.undo /\ t.from = op.from /\ t.to = op.to
        /\ t.names = op.names /\ t.typed = op.typed /\ t.at = op.at + 1 /\ t.target = target /\ t.elevated = FALSE
    BY <2>3 DEF OpShape
  <2>5. o = [t EXCEPT !.seen = seen]
    BY DEF t, r, q, p
  <2>. HIDE DEF t, o
  <2>. QED  BY <2>4, <2>5 DEF OpShape
<1>5. o = NextTaken
  BY DEF NextTaken, target, seen
<1>. HIDE DEF o
<1>6. Took(o)
  BY <1>1, <1>2, <1>3, <1>4 DEF Took, Task, Taken, SameTask, target
<1>7. o.seen = KindOf(DstOf(o))
  BY <1>4 DEF seen, target, DstOf
<1>. QED  BY <1>4, <1>5, <1>6, <1>7 DEF target

LEMMA NextItemOp == OpInv /\ CountInv /\ NextItem /\ UNCHANGED uiVars => OpInv'
<1>. SUFFICES ASSUME OpInv, CountInv, NextItem, UNCHANGED uiVars PROVE OpInv'
  OBVIOUS
<1>1. phase = "next" /\ OpShape(op) /\ Rest
  BY DEF NextItem, CountInv, Rest, uiVars, outerVars
<1>2. CASE UNCHANGED op /\ phase' = "end"
  BY ZenonT(60), <1>1, <1>2 DEF OpInv, Rest, Working, Past, SameTask, UndoOp
<1>3. CASE ~LoopEnds /\ StartItem(NextTaken)
  BY <1>1, <1>3, NextIsTaken, OpStarts
<1>. QED  BY <1>2, <1>3 DEF NextItem, EscPressed, Cancelled, NextTaken

\* A change of the record that leaves what OpInv speaks of alone.
Alike(o, p) ==
    /\ OpShape(o) /\ o.kind = p.kind /\ o.undo = p.undo /\ o.from = p.from /\ o.to = p.to /\ o.names = p.names
    /\ o.at = p.at

LEMMA AlikeTook ==
    ASSUME OpInv, phase \in Working, NEW o, Alike(o, op), o.target \in Names, o.typed \in BOOLEAN,
           op.undo => o.target = op.target /\ o.elevated = FALSE
    PROVE  Took(o)
<1>1. Task(op) /\ Taken(op)
  BY DEF OpInv
<1>. QED  BY <1>1 DEF Alike, Took, Task, Taken, SameTask

LEMMA TookOp == OpInv /\ CountInv /\ phase \in Working => Took(op)
BY DEF OpInv, CountInv, Took, SameTask

\* The item under the name typed for it.
LEMMA TypedTook ==
    ASSUME OpInv, CountInv, phase \in Working, ~op.undo, NEW name \in Names, NEW seen
    PROVE  /\ Took([op EXCEPT !.target = name, !.typed = TRUE, !.seen = seen])
           /\ [op EXCEPT !.target = name, !.typed = TRUE, !.seen = seen].kind = op.kind
           /\ [op EXCEPT !.target = name, !.typed = TRUE, !.seen = seen].from = op.from
           /\ [op EXCEPT !.target = name, !.typed = TRUE, !.seen = seen].to = op.to
<1>. DEFINE p == [op EXCEPT !.target = name]
            q == [p EXCEPT !.typed = TRUE]
            o == [op EXCEPT !.target = name, !.typed = TRUE, !.seen = seen]
<1>0. OpShape(op)
  BY DEF CountInv
<1>1. Alike(p, op) /\ p.target = name
  BY <1>0 DEF OpShape, Alike
<1>2. o = [q EXCEPT !.seen = seen]
  BY DEF p, q, o
<1>. HIDE DEF o, p
<1>3. Alike(q, op) /\ q.target = name /\ q.typed = TRUE
  BY <1>1 DEF OpShape, Alike
<1>. HIDE DEF q
<1>4. Alike(o, op) /\ o.target = name /\ o.typed = TRUE
  BY <1>2, <1>3 DEF OpShape, Alike
<1>5. Took(o)
  BY <1>4, AlikeTook
<1>. QED  BY <1>4, <1>5 DEF Alike, o

LEMMA AnswerConflictOp == OpInv /\ CountInv /\ AnswerConflict /\ UNCHANGED uiVars => OpInv'
<1>. SUFFICES ASSUME OpInv, CountInv, AnswerConflict, UNCHANGED uiVars PROVE OpInv'
  OBVIOUS
<1>1. phase = "conflict" /\ phase \in Working /\ OpShape(op) /\ Rest /\ Took(op) /\ ~op.undo
      /\ (op.kind = "move" => op.from # op.to) /\ op.target \in Names /\ op.typed \in BOOLEAN
  BY TookOp DEF AnswerConflict, CountInv, Rest, uiVars, outerVars, OpInv, Working, Taken, Task
<1>2. ASSUME NEW choice, Choose(op, choice) PROVE OpInv'
  BY <1>1, <1>2, OpChosen
<1>3. ASSUME NEW choice, Choose([op EXCEPT !.blanket = choice], choice) PROVE OpInv'
  <2>. DEFINE o == [op EXCEPT !.blanket = choice]
  <2>1. Alike(o, op) /\ o.target = op.target /\ o.typed = op.typed
    BY <1>1 DEF OpShape, Alike
  <2>2. Choose(o, choice)
    BY <1>3
  <2>. HIDE DEF o
  <2>3. Took(o) /\ (o.kind = "move" => o.from # o.to)
    BY <1>1, <2>1, AlikeTook DEF Alike
  <2>. QED  BY <1>1, <2>2, <2>3, OpChosen
<1>4. ASSUME NEW name \in Names, NEW seen, Proceed([op EXCEPT !.target = name, !.typed = TRUE, !.seen = seen]) PROVE OpInv'
  <2>1. Took([op EXCEPT !.target = name, !.typed = TRUE, !.seen = seen])
        /\ [op EXCEPT !.target = name, !.typed = TRUE, !.seen = seen].kind = op.kind
        /\ [op EXCEPT !.target = name, !.typed = TRUE, !.seen = seen].from = op.from
        /\ [op EXCEPT !.target = name, !.typed = TRUE, !.seen = seen].to = op.to
    BY <1>1, TypedTook
  <2>. QED  BY <1>1, <1>4, <2>1, OpProceeds
<1>. QED  BY <1>2, <1>3, <1>4 DEF AnswerConflict

LEMMA OpAgain ==
    ASSUME OpInv, CountInv, phase \in Past, Rest, Alike(op', op), op'.target = op.target, op'.typed = op.typed,
           op.undo => op'.elevated = FALSE,
           \/ phase' \in {"next", "end", "attempt"}
           \/ phase' = "error" /\ ~op.undo
           \/ phase' \in {"walk", "remove"} /\ op.kind \in {"copy", "move"}
    PROVE  OpInv'
<1>1. phase \in Working /\ op.target \in Names /\ op.typed \in BOOLEAN /\ Apart(op)
  BY DEF OpInv, Past, Working, Taken, Task
<1>2. Took(op')
  BY <1>1, AlikeTook
<1>3. Goes(op')
  BY <1>2 DEF Goes, Rest, Took
<1>4. Apart(op')
  BY <1>1 DEF Apart, Alike, SrcOf, DstOf
<1>. QED  BY <1>3, <1>4, OpOver, OpGoesOn DEF Alike, Past

LEMMA AnswerErrorOp == OpInv /\ CountInv /\ AnswerError /\ UNCHANGED uiVars => OpInv'
<1>. SUFFICES ASSUME OpInv, CountInv, AnswerError, UNCHANGED uiVars PROVE OpInv'
  OBVIOUS
<1>1. phase = "error" /\ phase \in Past /\ OpShape(op) /\ Rest /\ ~op.undo
  BY DEF AnswerError, CountInv, Rest, uiVars, outerVars, OpInv, Past
<1>2. CASE UNCHANGED op
  <2>1. Alike(op', op) /\ op'.target = op.target /\ op'.typed = op.typed
    BY <1>1, <1>2 DEF Alike
  <2>2. phase' \in {"next", "end", "attempt"}
    BY <1>1, <1>2 DEF AnswerError, Over, Cancelled
  <2>. QED  BY <1>1, <2>1, <2>2, OpAgain
<1>3. CASE op' = [op EXCEPT !.elevated = TRUE, !.elevatedAny = TRUE] /\ phase' = "attempt"
  <2>1. Alike(op', op) /\ op'.target = op.target /\ op'.typed = op.typed
    BY <1>1, <1>3 DEF OpShape, Alike
  <2>. QED  BY <1>1, <1>3, <2>1, OpAgain
<1>4. CASE op' = [op EXCEPT !.skipErrors = TRUE] /\ phase' = "next"
  <2>1. Alike(op', op) /\ op'.target = op.target /\ op'.typed = op.typed
    BY <1>1, <1>4 DEF OpShape, Alike
  <2>. QED  BY <1>1, <1>4, <2>1, OpAgain
<1>. QED  BY <1>2, <1>3, <1>4 DEF AnswerError, Over

LEMMA OpEnds ==
    ASSUME OpInv, CountInv, phase \in Past, phase # "error", Rest, Ends
    PROVE  OpInv'
<1>1. OpShape(op) /\ (op.undo => op.elevated = FALSE)
  BY DEF CountInv, OpInv, Past, Working, Taken
<1>2. CASE UNCHANGED op
  <2>1. Alike(op', op) /\ op'.target = op.target /\ op'.typed = op.typed /\ op'.elevated = op.elevated
    BY <1>1, <1>2 DEF Alike
  <2>2. phase' \in {"next", "end", "attempt"} \/ (phase' = "error" /\ ~op.undo)
    BY <1>1, <1>2 DEF Ends, Succeeded, EscPressed, AttemptFailed, Over, Cancelled
  <2>. QED  BY <1>1, <2>1, <2>2, OpAgain
<1>3. CASE op' = [op EXCEPT !.elevated = FALSE] /\ phase' = "attempt"
  <2>1. Alike(op', op) /\ op'.target = op.target /\ op'.typed = op.typed /\ op'.elevated = FALSE
    BY <1>1, <1>3 DEF OpShape, Alike
  <2>. QED  BY <1>1, <1>3, <2>1, OpAgain
<1>. QED  BY <1>2, <1>3 DEF Ends, Succeeded, EscPressed, AttemptFailed, Over, Cancelled

LEMMA OpOpens ==
    ASSUME OpInv, CountInv, phase \in {"attempt", "walk"}, Rest, op.kind \in {"copy", "move"},
           NEW todo, op' = [op EXCEPT !.todo = todo], phase' \in {"walk", "remove"}
    PROVE  OpInv'
<1>1. OpShape(op) /\ (op.undo => op.elevated = FALSE)
  BY DEF CountInv, OpInv, Past, Working, Taken
<1>2. Alike(op', op) /\ op'.target = op.target /\ op'.typed = op.typed /\ op'.elevated = op.elevated
  BY <1>1 DEF OpShape, Alike
<1>. QED  BY <1>1, <1>2, OpAgain DEF Past

LEMMA AttemptsOp ==
    ASSUME OpInv, CountInv, UNCHANGED uiVars,
           \/ AttemptCopy \/ AttemptMove \/ AttemptRecycle(clock) \/ AttemptDelete \/ AttemptRename \/ AttemptRestore
           \/ (\E p \in Places : CopyChild(p)) \/ FolderCopied \/ RemoveSource
    PROVE  OpInv'
<1>1. CASE AttemptCopy \/ AttemptMove
  <2>1. phase = "attempt" /\ op.kind \in {"copy", "move"} /\ Rest /\ (OpenFolder(Src, Dst) \/ Ends)
    BY <1>1 DEF AttemptCopy, AttemptMove, CopySingleFile, FailsBy, MustFail, Ends, Rest, uiVars, outerVars
  <2>2. Ends \/ \E todo : op' = [op EXCEPT !.todo = todo] /\ phase' = "walk"
    BY <2>1 DEF OpenFolder, FailsBy, MustFail, Ends
  <2>. QED  BY <2>1, <2>2, OpEnds, OpOpens DEF Past
<1>2. CASE AttemptRecycle(clock) \/ AttemptDelete \/ AttemptRename \/ AttemptRestore
  <2>1. phase = "attempt" /\ Rest
    BY <1>2 DEF AttemptRecycle, AttemptDelete, AttemptRename, AttemptRestore, Rest, uiVars, outerVars
  <2>2. Ends
    BY <1>2 DEF AttemptRecycle, AttemptDelete, AttemptRename, AttemptRestore, RenameItem, FailsBy, MustFail, Ends
  <2>. QED  BY <2>1, <2>2, OpEnds DEF Past
<1>3. CASE \E p \in Places : CopyChild(p)
  <2>1. phase = "walk" /\ op.kind \in {"copy", "move"} /\ Rest
    BY <1>3 DEF CopyChild, Rest, uiVars, outerVars, OpInv
  <2>2. Ends \/ \E todo : op' = [op EXCEPT !.todo = todo] /\ phase' = "walk"
    BY <1>3, <2>1 DEF CopyChild, CopySingleFile, FailsBy, MustFail, Ends, Walked
  <2>. QED  BY <2>1, <2>2, OpEnds, OpOpens DEF Past
<1>4. CASE FolderCopied \/ RemoveSource
  <2>1. phase \in {"walk", "remove"} /\ op.kind \in {"copy", "move"} /\ Rest
    BY <1>4 DEF FolderCopied, RemoveSource, Rest, uiVars, outerVars, OpInv
  <2>2. Ends \/ (UNCHANGED op /\ phase = "walk" /\ phase' = "remove")
    BY <1>4 DEF FolderCopied, RemoveSource, FailsBy, MustFail, Ends
  <2>3. CASE Ends
    BY <2>1, <2>3, OpEnds DEF Past
  <2>4. CASE UNCHANGED op /\ phase = "walk" /\ phase' = "remove"
    <3>1. Alike(op', op) /\ op'.target = op.target /\ op'.typed = op.typed /\ (op.undo => op'.elevated = FALSE)
      BY <2>4 DEF Alike, CountInv, OpInv, Working, Taken
    <3>. QED  BY <2>1, <2>4, <3>1, OpAgain DEF Past
  <2>. QED  BY <2>2, <2>3, <2>4
<1>. QED  BY <1>1, <1>2, <1>3, <1>4

-----------------------------------------------------------------------------
(* Chosen: the indexes in order, each at most once.                          *)

LEMMA Least ==
    ASSUME NEW S \in SUBSET Nat, S # {}
    PROVE  \E n \in S : \A m \in S : n <= m
<1>. DEFINE R == {ss \in Nat \X Nat : ss[1] < ss[2]}
<1>1. IsWellFoundedOn(R, Nat)
  BY NatLessThanWellFounded DEF OpToRel
<1>2. PICK n \in S : \A m \in S : ~(<<m, n>> \in R)
  <2>. HIDE DEF R
  <2>. QED  BY <1>1, WFMin
<1>3. \A m \in S : ~(m < n)
  BY <1>2
<1>. QED  BY <1>3

ChosenStep(g, indexes, n) == IF n = 0 THEN <<>> ELSE IF n \in indexes THEN Append(g[n - 1], n) ELSE g[n - 1]
ChosenTo(g, indexes, N) == g = [n \in 0..N |-> ChosenStep(g, indexes, n)]

LEMMA ChosenExists ==
    ASSUME NEW indexes, NEW N \in Nat
    PROVE  \E g : ChosenTo(g, indexes, N)
<1>. DEFINE Bad == {n \in Nat : ~ \E g : ChosenTo(g, indexes, n)}
<1>. SUFFICES ASSUME Bad # {} PROVE FALSE
  OBVIOUS
<1>1. PICK n \in Bad : \A m \in Bad : n <= m
  BY Least
<1>2. CASE n = 0
  <2>. DEFINE g == [m \in 0..0 |-> <<>>]
  <2>1. ChosenTo(g, indexes, 0)
    BY DEF ChosenTo, ChosenStep
  <2>. QED  BY <1>2, <2>1
<1>3. CASE n # 0
  <2>1. n - 1 \in Nat /\ n - 1 \notin Bad
    BY <1>1, <1>3
  <2>2. PICK g : ChosenTo(g, indexes, n - 1)
    BY <2>1
  <2>. DEFINE h == [m \in 0..n |-> IF m < n THEN g[m] ELSE ChosenStep(g, indexes, n)]
  <2>3. ASSUME NEW m \in 0..n PROVE h[m] = ChosenStep(h, indexes, m)
    <3>1. CASE m < n
      <4>1. m \in 0..(n - 1) /\ h[m] = g[m]
        BY <1>1, <3>1
      <4>2. g[m] = ChosenStep(g, indexes, m)
        BY <2>2, <4>1 DEF ChosenTo
      <4>3. m # 0 => m - 1 \in 0..n /\ m - 1 < n
        BY <4>1, <1>1, <1>3
      <4>4. m # 0 => h[m - 1] = g[m - 1]
        BY <4>3
      <4>. QED  BY <4>1, <4>2, <4>4 DEF ChosenStep
    <3>2. CASE m = n
      <4>1. h[m] = ChosenStep(g, indexes, n) /\ m - 1 \in 0..n /\ m - 1 < n
        BY <1>1, <1>3, <3>2
      <4>2. h[m - 1] = g[m - 1]
        BY <4>1
      <4>. QED  BY <3>2, <4>1, <4>2 DEF ChosenStep
    <3>. QED  BY <3>1, <3>2, <1>1
  <2>4. ChosenTo(h, indexes, n)
    BY <2>3 DEF ChosenTo
  <2>. QED  BY <2>4, <1>1
<1>. QED  BY <1>2, <1>3

\* Chosen is the indexes in order: each is there at most once.
LEMMA ChosenIs ==
    ASSUME NEW indexes, Len(op.names) \in Nat
    PROVE  \E g : ChosenTo(g, indexes, Len(op.names)) /\ Chosen(indexes) = g[Len(op.names)]
<1>. DEFINE g == CHOOSE g : ChosenTo(g, indexes, Len(op.names))
<1>1. Chosen(indexes) = g[Len(op.names)]
  BY DEF Chosen, ChosenTo, ChosenStep
<1>2. ChosenTo(g, indexes, Len(op.names))
  BY ChosenExists
<1>. QED  BY <1>1, <1>2

InOrder(s, S, n) ==
    /\ s \in Seq({m \in S : m \in 1..n})
    /\ \A a, b \in 1..Len(s) : a < b => s[a] < s[b]

LEMMA OrderGrows ==
    ASSUME NEW S, NEW n \in Nat, n > 0, NEW s, InOrder(s, S, n - 1)
    PROVE  InOrder(s, S, n) /\ (n \in S => InOrder(Append(s, n), S, n))
<1>1. s \in Seq({m \in S : m \in 1..(n - 1)}) /\ \A a, b \in 1..Len(s) : a < b => s[a] < s[b]
  BY DEF InOrder
<1>2. \A m \in 1..(n - 1) : m \in 1..n /\ m < n
  OBVIOUS
<1>3. {m \in S : m \in 1..(n - 1)} \subseteq {m \in S : m \in 1..n}
  BY <1>2
<1>4. s \in Seq({m \in S : m \in 1..n}) /\ \A a \in 1..Len(s) : s[a] < n
  <2>1. \A a \in 1..Len(s) : s[a] \in {m \in S : m \in 1..(n - 1)}
    BY <1>1
  <2>. QED  BY <1>1, <1>2, <1>3, <2>1
<1>5. ASSUME n \in S PROVE InOrder(Append(s, n), S, n)
  <2>. DEFINE T == {m \in S : m \in 1..n}
              t == Append(s, n)
  <2>1. n \in T
    BY <1>5
  <2>. HIDE DEF T
  <2>2. s \in Seq(T) /\ Len(s) \in Nat
    BY <1>4 DEF T
  <2>3. t \in Seq(T) /\ Len(t) = Len(s) + 1 /\ t[Len(s) + 1] = n /\ \A a \in 1..Len(s) : t[a] = s[a]
    BY <2>1, <2>2
  <2>. HIDE DEF t
  <2>4. ASSUME NEW a \in 1..Len(t), NEW b \in 1..Len(t), a < b PROVE t[a] < t[b]
    <3>1. a \in 1..Len(s) /\ t[a] = s[a] /\ s[a] < n
      BY <2>2, <2>3, <2>4, <1>4
    <3>2. CASE b = Len(s) + 1
      BY <3>1, <3>2, <2>3
    <3>3. CASE b # Len(s) + 1
      <4>1. b \in 1..Len(s)
        BY <2>2, <2>3, <3>3
      <4>2. t[b] = s[b]
        BY <4>1, <2>3
      <4>. QED  BY <3>1, <4>1, <4>2, <1>1, <2>4
    <3>. QED  BY <3>2, <3>3
  <2>. QED  BY <2>3, <2>4 DEF InOrder, T, t
<1>. QED  BY <1>1, <1>4, <1>5 DEF InOrder

LEMMA ChosenInOrder ==
    ASSUME NEW S, Len(op.names) \in Nat
    PROVE  InOrder(Chosen(S), S, Len(op.names))
<1>1. PICK g : ChosenTo(g, S, Len(op.names)) /\ Chosen(S) = g[Len(op.names)]
  BY ChosenIs
<1>2. \A n \in 0..Len(op.names) : g[n] = ChosenStep(g, S, n)
  BY <1>1 DEF ChosenTo
<1>. DEFINE Bad == {n \in 0..Len(op.names) : ~ InOrder(g[n], S, n)}
<1>3. ASSUME Bad # {} PROVE FALSE
  <2>1. Bad \in SUBSET Nat
    OBVIOUS
  <2>2. PICK n \in Bad : \A m \in Bad : n <= m
    <3>. HIDE DEF Bad
    <3>. QED  BY <1>3, <2>1, Least
  <2>3. CASE n = 0
    <3>1. g[0] = <<>>
      BY <1>2 DEF ChosenStep
    <3>2. InOrder(<<>>, S, 0)
      BY DEF InOrder
    <3>. QED  BY <2>2, <2>3, <3>1, <3>2
  <2>4. CASE n # 0
    <3>1. n - 1 \in 0..Len(op.names) /\ n \in 0..Len(op.names) /\ n > 0 /\ n \in Nat
      BY <2>2, <2>4
    <3>2. n - 1 \notin Bad
      BY <2>2, <3>1
    <3>3. InOrder(g[n - 1], S, n - 1)
      BY <3>1, <3>2
    <3>4. InOrder(g[n - 1], S, n) /\ (n \in S => InOrder(Append(g[n - 1], n), S, n))
      BY <3>1, <3>3, OrderGrows
    <3>5. InOrder(g[n], S, n)
      BY <1>2, <3>1, <3>4 DEF ChosenStep
    <3>. QED  BY <2>2, <3>5
  <2>. QED  BY <2>3, <2>4
<1>4. Len(op.names) \notin Bad
  BY <1>3
<1>. QED  BY <1>1, <1>4

-----------------------------------------------------------------------------
(* The journal: what an operation pushes is in order.                        *)

LEMMA PairIsItem ==
    ASSUME NEW d \in Dirs, NEW n \in Names
    PROVE  <<d, n>> \in Items /\ <<d, n>>[1] = d /\ <<d, n>>[2] = n
BY DEF Items

LEMMA Pushed ==
    ASSUME journal \in Seq(GoodEntries), NEW e \in GoodEntries, Push(e)
    PROVE  journal' \in Seq(GoodEntries)
<1>1. CASE Len(journal) = Capacity
  <2>1. journal # <<>>
    BY <1>1, JournalAssumption
  <2>2. Tail(journal) \in Seq(GoodEntries)
    BY <2>1
  <2>. QED  BY <1>1, <2>2 DEF Push
<1>2. CASE Len(journal) # Capacity
  BY <1>2 DEF Push
<1>. QED  BY <1>1, <1>2

LEMMA Popped ==
    ASSUME journal \in Seq(GoodEntries), Pop
    PROVE  journal' \in Seq(GoodEntries)
<1>1. Len(journal) - 1 \in Int /\ Len(journal) \in Nat
  OBVIOUS
<1>2. \A n \in 1..(Len(journal) - 1) : journal[n] \in GoodEntries
  OBVIOUS
<1>3. SubSeq(journal, 1, Len(journal) - 1) = [n \in 1..(Len(journal) - 1) |-> journal[n]]
  OBVIOUS
<1>4. Len(journal) = 0 \/ Len(journal) - 1 \in Nat
  BY <1>1
<1>5. SubSeq(journal, 1, Len(journal) - 1) \in Seq(GoodEntries)
  BY <1>1, <1>2, <1>4
<1>. QED  BY <1>5 DEF Pop

\* The places an item of the operation at work has.
LEMMA AtItems ==
    ASSUME OpInv, NEW n \in DOMAIN op.names
    PROVE  SrcAt(n) \in Items /\ DstAt(n) \in Items /\ SrcAt(n)[1] = op.from /\ DstAt(n)[1] = op.to
<1>1. op.names[n] \in NamePairs /\ op.from \in Dirs /\ op.to \in Dirs
  BY DEF OpInv, Task
<1>2. op.names[n].name \in Names /\ op.names[n].target \in Names
  BY <1>1 DEF NamePairs
<1>. QED  BY <1>1, <1>2, PairIsItem DEF SrcAt, DstAt

LEMMA AtApart ==
    ASSUME OpInv, NEW m \in DOMAIN op.names, NEW n \in DOMAIN op.names, m # n
    PROVE  SrcAt(m) # SrcAt(n) /\ DstAt(m) # DstAt(n)
<1>1. op.names[m].name # op.names[n].name /\ op.names[m].target # op.names[n].target
  BY DEF OpInv, Task
<1>. QED  BY <1>1 DEF SrcAt, DstAt

LEMMA ChosenDomain ==
    ASSUME OpInv, NEW S
    PROVE  /\ Chosen(S) \in Seq(DOMAIN op.names)
           /\ \A k \in DOMAIN Chosen(S) : Chosen(S)[k] \in DOMAIN op.names
           /\ \A k, l \in DOMAIN Chosen(S) : k # l => Chosen(S)[k] # Chosen(S)[l]
           /\ \A k \in DOMAIN Chosen(S) : Chosen(S)[k] \in S
<1>1. op.names \in Seq(NamePairs) /\ Len(op.names) \in Nat /\ DOMAIN op.names = 1..Len(op.names)
  BY DEF OpInv, Task
<1>. DEFINE c == Chosen(S)
<1>2. InOrder(c, S, Len(op.names))
  BY <1>1, ChosenInOrder
<1>. HIDE DEF c
<1>3. c \in Seq({m \in S : m \in 1..Len(op.names)}) /\ \A a, b \in 1..Len(c) : a < b => c[a] < c[b]
  BY <1>2 DEF InOrder
<1>4. DOMAIN c = 1..Len(c) /\ Len(c) \in Nat /\ \A k \in DOMAIN c : c[k] \in {m \in S : m \in 1..Len(op.names)}
  BY <1>3
<1>5. c \in Seq(DOMAIN op.names)
  BY <1>1, <1>3
<1>6. ASSUME NEW k \in DOMAIN c, NEW l \in DOMAIN c, k # l PROVE c[k] # c[l]
  <2>1. k < l \/ l < k
    BY <1>4, <1>6
  <2>2. c[k] \in Nat /\ c[l] \in Nat
    BY <1>4
  <2>. QED  BY <1>3, <1>4, <2>1, <2>2
<1>. QED  BY <1>1, <1>4, <1>5, <1>6 DEF c

LEMMA ItemIs ==
    ASSUME before \in [Places -> Nodes], NEW i \in Items, NEW j \in Items, NEW expected \in Trees
    PROVE  Item(i, j, expected) \in ItemRecords /\ Item(i, j, expected).before = i /\ Item(i, j, expected).after = j
           /\ Item(i, j, expected).expected = expected
BY TreeIs DEF Item, ItemRecords

LEMMA MadeTidy ==
    ASSUME OpInv, disk \in [Places -> Nodes]
    PROVE  MadeItems \in Seq(ItemRecords) /\ (MadeItems # <<>> => Tidy(MadeItems))
<1>. DEFINE c == Chosen({n \in DOMAIN op.names : Created(n)})
            s == [k \in DOMAIN c |-> MadeItem(c[k])]
<1>1. /\ c \in Seq(DOMAIN op.names) /\ \A k \in DOMAIN c : c[k] \in DOMAIN op.names
      /\ \A k, l \in DOMAIN c : k # l => c[k] # c[l]
  BY ChosenDomain
<1>2. MadeItems = s
  BY DEF MadeItems
<1>. HIDE DEF c
<1>3. ASSUME NEW n \in DOMAIN op.names
      PROVE  MadeItem(n) \in ItemRecords /\ MadeItem(n).before = SrcAt(n) /\ MadeItem(n).after = DstAt(n)
  BY AtItems, ItemIs, TreeIs DEF MadeItem, OpInv
<1>4. DOMAIN s = DOMAIN c /\ \A k \in DOMAIN c : s[k] = MadeItem(c[k])
  OBVIOUS
<1>5. s \in Seq(ItemRecords)
  BY <1>1, <1>3
<1>. HIDE DEF s
<1>6. ASSUME NEW k \in DOMAIN s, NEW l \in DOMAIN s
      PROVE  /\ s[k].after[1] = s[l].after[1] /\ s[k].before[1] = s[l].before[1]
             /\ k # l => s[k].after # s[l].after /\ s[k].before # s[l].before
  BY <1>1, <1>3, <1>4, AtItems, AtApart
<1>. QED  BY <1>2, <1>5, <1>6 DEF Tidy

LEMMA GoneTidy ==
    ASSUME OpInv, disk \in [Places -> Nodes]
    PROVE  GoneItems \in Seq(ItemRecords) /\ (GoneItems # <<>> => Tidy(GoneItems))
<1>. DEFINE c == Chosen({n \in DOMAIN op.names : Gone(n)})
            s == [k \in DOMAIN c |-> DeletedItem(c[k])]
<1>1. /\ c \in Seq(DOMAIN op.names) /\ \A k \in DOMAIN c : c[k] \in DOMAIN op.names
      /\ \A k, l \in DOMAIN c : k # l => c[k] # c[l]
  BY ChosenDomain
<1>2. GoneItems = s
  BY DEF GoneItems
<1>. HIDE DEF c
<1>3. ASSUME NEW n \in DOMAIN op.names
      PROVE  DeletedItem(n) \in ItemRecords /\ DeletedItem(n).before = SrcAt(n) /\ DeletedItem(n).after = SrcAt(n)
  BY AtItems, ItemIs, TreeIs DEF DeletedItem, OpInv
<1>4. DOMAIN s = DOMAIN c /\ \A k \in DOMAIN c : s[k] = DeletedItem(c[k])
  OBVIOUS
<1>5. s \in Seq(ItemRecords)
  BY <1>1, <1>3
<1>. HIDE DEF s
<1>6. ASSUME NEW k \in DOMAIN s, NEW l \in DOMAIN s
      PROVE  /\ s[k].after[1] = s[l].after[1] /\ s[k].before[1] = s[l].before[1]
             /\ k # l => s[k].after # s[l].after /\ s[k].before # s[l].before
  BY <1>1, <1>3, <1>4, AtItems, AtApart
<1>. QED  BY <1>2, <1>5, <1>6 DEF Tidy

LEMMA RecordGood ==
    ASSUME OpInv, disk \in [Places -> Nodes], NEW kind \in EntryKinds, kind # "rename",
           NEW items \in Seq(ItemRecords), items # <<>> => Tidy(items), Record(kind, items)
    PROVE  journal' \in Seq(GoodEntries)
<1>1. CASE items = <<>>
  BY <1>1 DEF Record, OpInv
<1>2. CASE items # <<>>
  <2>1. (~disturbed /\ ~op.typed) \in BOOLEAN
    OBVIOUS
  <2>2. EntryOf(kind, items) \in GoodEntries
    BY <1>2, <2>1 DEF EntryOf, GoodEntries, Entries, OpInv
  <2>. QED  BY <1>2, <2>2, Pushed DEF Record, OpInv
<1>. QED  BY <1>1, <1>2

LEMMA SettleGood ==
    ASSUME OpInv, disk \in [Places -> Nodes], Settle
    PROVE  journal' \in Seq(GoodEntries)
<1>1. UndoClear => journal' \in Seq(GoodEntries)
  BY DEF UndoClear
<1>2. UNCHANGED journal => journal' \in Seq(GoodEntries)
  BY DEF OpInv
<1>3. op.kind \in {"copy", "move"} /\ Record(op.kind, MadeItems) => journal' \in Seq(GoodEntries)
  BY MadeTidy, RecordGood DEF EntryKinds
<1>4. Record("recycle", GoneItems) => journal' \in Seq(GoodEntries)
  BY GoneTidy, RecordGood DEF EntryKinds
<1>. QED  BY <1>1, <1>2, <1>3, <1>4 DEF Settle

-----------------------------------------------------------------------------
(* The steps of the user interface, and the task as a whole.                 *)

LEMMA ItemParts ==
    ASSUME NEW i \in Items
    PROVE  i[1] \in Dirs /\ i[2] \in Names /\ i = <<i[1], i[2]>>
BY DEF Items

LEMMA IdleTask == Task(Idle) /\ Idle.at = 0 /\ Idle.undo = FALSE /\ Idle.at \in 0..Len(Idle.names)
BY DEF Idle, Task, OpKinds, Dirs

\* A task that has not taken up its first item, and none at all.
LEMMA OpBetween ==
    ASSUME Task(op'), op'.at = 0, phase' \in {"idle", "confirm", "next"},
           op'.undo => phase' = "next" /\ undoing' \in GoodEntries /\ SameTask(op', UndoOp(undoing')),
           phase' = "confirm" => undoing' \in GoodEntries,
           journal' \in Seq(GoodEntries), before' \in [Places -> Nodes], clock' \in Nat, disturbed' \in BOOLEAN
    PROVE  OpInv'
<1>1. Len(op'.names) \in Nat
  BY DEF Task
<1>2. op'.at \in 0..Len(op'.names)
  BY <1>1
<1>. QED  BY <1>2 DEF OpInv, Working, Past

LEMMA UndoTask ==
    ASSUME NEW e \in GoodEntries
    PROVE  /\ Task(UndoOp(e)) /\ UndoOp(e).at = 0 /\ UndoOp(e).undo = TRUE
           /\ Len(UndoOp(e).names) = Len(e.items) /\ DOMAIN e.items = 1..Len(e.items)
           /\ UndoOp(e).from = e.items[1].after[1] /\ UndoOp(e).to = e.items[1].before[1]
           /\ UndoOp(e).kind = IF e.kind = "copy" THEN "recycle" ELSE IF e.kind = "recycle" THEN "restore" ELSE e.kind
           /\ \A n \in DOMAIN e.items :
                 UndoOp(e).names[n] = [name |-> e.items[n].after[2], target |-> e.items[n].before[2]]
           /\ \A n \in DOMAIN e.items : e.items[n] \in ItemRecords
<1>. DEFINE o == UndoOp(e)
            names == [n \in DOMAIN e.items |-> [name |-> e.items[n].after[2], target |-> e.items[n].before[2]]]
            kind == IF e.kind = "copy" THEN "recycle" ELSE IF e.kind = "recycle" THEN "restore" ELSE e.kind
<1>1. e.items \in Seq(ItemRecords) /\ e.kind \in EntryKinds /\ Tidy(e.items)
  BY DEF GoodEntries, Entries
<1>2. DOMAIN e.items = 1..Len(e.items) /\ Len(e.items) \in Nat /\ 1 \in DOMAIN e.items
      /\ \A n \in DOMAIN e.items : e.items[n] \in ItemRecords
  BY <1>1 DEF Tidy
<1>3. \A n \in DOMAIN e.items : e.items[n].before \in Items /\ e.items[n].after \in Items
  BY <1>2 DEF ItemRecords
<1>4. o = [Idle EXCEPT !.undo = TRUE, !.from = e.items[1].after[1], !.to = e.items[1].before[1], !.names = names, !.kind = kind]
  BY DEF UndoOp
<1>. HIDE DEF o
<1>5. /\ o.undo = TRUE /\ o.from = e.items[1].after[1] /\ o.to = e.items[1].before[1] /\ o.names = names
      /\ o.kind = kind /\ o.at = 0 /\ o.typed = FALSE
  BY <1>4 DEF Idle
<1>6. kind \in OpKinds
  BY <1>1 DEF EntryKinds, OpKinds
<1>7. ASSUME NEW n \in DOMAIN e.items PROVE names[n] \in NamePairs
  BY <1>3, ItemParts DEF NamePairs
<1>8. names \in Seq(NamePairs) /\ Len(names) = Len(e.items) /\ DOMAIN names = DOMAIN e.items
  <2>1. names \in [1..Len(e.items) -> NamePairs]
    BY <1>2, <1>7
  <2>. HIDE DEF names
  <2>2. names \in Seq(NamePairs) /\ DOMAIN names = 1..Len(e.items)
    BY <1>2, <2>1
  <2>3. Len(names) = Len(e.items)
    BY <1>2, <2>2
  <2>. QED  BY <1>2, <2>2, <2>3
<1>9. ASSUME NEW m \in DOMAIN e.items, NEW n \in DOMAIN e.items, m # n
      PROVE  names[m].name # names[n].name /\ names[m].target # names[n].target
  <2>1. /\ e.items[m].after[1] = e.items[n].after[1] /\ e.items[m].before[1] = e.items[n].before[1]
        /\ e.items[m].after # e.items[n].after /\ e.items[m].before # e.items[n].before
    BY <1>1, <1>9 DEF Tidy
  <2>2. e.items[m].after[2] # e.items[n].after[2] /\ e.items[m].before[2] # e.items[n].before[2]
    BY <2>1, <1>3, ItemParts
  <2>. QED  BY <2>2
<1>10. o.from \in Dirs /\ o.to \in Dirs
  BY <1>2, <1>3, <1>5, ItemParts
<1>11. \A n \in DOMAIN e.items : names[n] = [name |-> e.items[n].after[2], target |-> e.items[n].before[2]]
  OBVIOUS
<1>. HIDE DEF names, kind
<1>12. Task(o)
  BY <1>5, <1>6, <1>8, <1>9, <1>10 DEF Task
<1>. QED  BY <1>12, <1>2, <1>5, <1>8, <1>11 DEF o, kind

LEMMA OperationTask ==
    ASSUME NEW r \in Requests
    PROVE  Task(Operation(r)) /\ Operation(r).at = 0 /\ Operation(r).undo = FALSE /\ Operation(r).kind = r.kind
           /\ Operation(r).from = r.from /\ Operation(r).names = r.names /\ Operation(r).to = r.to
<1>1. /\ Operation(r).kind = r.kind /\ Operation(r).undo = FALSE /\ Operation(r).from = r.from /\ Operation(r).to = r.to
      /\ Operation(r).names = r.names /\ Operation(r).at = 0 /\ Operation(r).typed = FALSE
  BY DEF Operation, Idle
<1>. QED  BY ZenonT(60), <1>1, RequestsAssumption DEF Task, OpKinds, NamePairs

LEMMA InitOp == Init => OpInv
<1>. SUFFICES ASSUME Init PROVE OpInv
  OBVIOUS
<1>1. NoDisk \in [Places -> Nodes]
  BY NoneIsNode DEF NoDisk
<1>2. Task(op) /\ op.at \in 0..Len(op.names) /\ op.undo = FALSE /\ phase = "idle"
  BY IdleTask DEF Init
<1>3. disturbed \in BOOLEAN /\ before \in [Places -> Nodes] /\ clock \in Nat
  BY <1>1 DEF Init
<1>4. journal \in Seq(GoodEntries)
  BY DEF Init
<1>. QED  BY <1>2, <1>3, <1>4 DEF OpInv, Working, Past

LEMMA BeginOp ==
    ASSUME OpInv, disk \in [Places -> Nodes], NEW r \in Requests, Begin(Operation(r))
    PROVE  OpInv'
<1>1. Task(op') /\ op'.at = 0 /\ op'.undo = FALSE
  BY OperationTask DEF Begin
<1>2. phase' = "next" /\ before' = disk /\ clock' \in Nat /\ journal' = journal /\ disturbed' = FALSE
  BY DEF Begin, OpInv
<1>. QED  BY <1>1, <1>2, OpBetween DEF OpInv

LEMMA DoRenameOp ==
    ASSUME OpInv, CountInv, disk \in [Places -> Nodes], NEW r \in Requests, DoRename(r)
    PROVE  OpInv'
<1>. DEFINE i == <<r.from, r.names[1].name>>
            j == <<r.from, r.names[1].target>>
            item == [before |-> i, after |-> j, expected |-> Tree(disk, i), was |-> <<Tree(disk, i), Tree(disk, j)>>]
            e == [kind |-> "rename", when |-> clock', clean |-> TRUE, items |-> <<item>>]
<1>0. r.from \in Dirs /\ r.names \in Seq([name : Names, target : Names]) /\ r.names # <<>>
  BY RequestsAssumption
<1>1. r.names[1] \in [name : Names, target : Names] /\ r.from \in Dirs
  <2>1. \A T, s : s \in Seq(T) /\ s # <<>> => s[1] \in T
    OBVIOUS
  <2>2. r.names[1] \in [name : Names, target : Names]
    BY <1>0, <2>1, Zenon
  <2>. QED  BY <1>0, <2>2
<1>2. i \in Items /\ j \in Items
  BY <1>1, PairIsItem
<1>3. Push(e) /\ clock' \in Nat
  BY DEF DoRename, OpInv
<1>. HIDE DEF i, j
<1>4. item \in ItemRecords
  BY <1>2, TreeIs DEF ItemRecords
<1>. HIDE DEF item
<1>5. <<item>> \in Seq(ItemRecords) /\ Tidy(<<item>>) /\ Len(<<item>>) = 1
  BY <1>4 DEF Tidy
<1>6. e \in GoodEntries
  BY <1>3, <1>5 DEF GoodEntries, Entries, EntryKinds
<1>. HIDE DEF e
<1>7. journal' \in Seq(GoodEntries)
  BY <1>3, <1>6, Pushed DEF OpInv
<1>8. op = Idle /\ UNCHANGED <<op, phase, undoing, before, disturbed>>
  BY DEF CountInv, DoRename, outerVars
<1>9. phase' = "idle" /\ before' \in [Places -> Nodes] /\ disturbed' \in BOOLEAN
  BY <1>8 DEF DoRename, OpInv
<1>10. Task(op') /\ op'.at = 0 /\ op'.undo = FALSE
  BY <1>8, IdleTask
<1>. QED  BY <1>3, <1>7, <1>9, <1>10, OpBetween

LEMMA BackToIdleOp ==
    ASSUME OpInv, BackToIdle, UNCHANGED clock, journal' \in Seq(GoodEntries)
    PROVE  OpInv'
<1>1. NoDisk \in [Places -> Nodes]
  BY NoneIsNode DEF NoDisk
<1>2. Task(op') /\ op'.at = 0 /\ op'.undo = FALSE
  BY IdleTask DEF BackToIdle
<1>. QED  BY <1>1, <1>2, OpBetween DEF BackToIdle, OpInv

LEMMA EndsOp ==
    ASSUME OpInv, disk \in [Places -> Nodes], EndOperation \/ EndUndo
    PROVE  OpInv'
<1>1. BackToIdle /\ UNCHANGED clock /\ (Settle \/ Pop)
  BY DEF EndOperation, EndUndo
<1>2. journal' \in Seq(GoodEntries)
  BY <1>1, SettleGood, Popped DEF OpInv
<1>. QED  BY <1>1, <1>2, BackToIdleOp

LEMMA DoUndoOp == OpInv /\ CountInv /\ DoUndo => OpInv'
<1>. SUFFICES ASSUME OpInv, CountInv, DoUndo PROVE OpInv'
  OBVIOUS
<1>1. op = Idle /\ UNCHANGED <<op, before, disturbed>> /\ clock' \in Nat /\ phase' \in {"idle", "confirm"}
  BY DEF DoUndo, CountInv, OpInv, outerVars
<1>2. journal' \in Seq(GoodEntries)
  BY Popped DEF DoUndo, OpInv
<1>3. phase' = "confirm" => undoing' \in GoodEntries
  <2>1. Len(journal) \in 1..Len(journal)
    BY DEF DoUndo, OpInv
  <2>. QED  BY <2>1 DEF DoUndo, Top, OpInv
<1>4. Task(op') /\ op'.at = 0 /\ op'.undo = FALSE
  BY <1>1, IdleTask
<1>. QED  BY <1>1, <1>2, <1>3, <1>4, OpBetween DEF OpInv

LEMMA AnswerUndoOp == OpInv /\ CountInv /\ disk \in [Places -> Nodes] /\ AnswerUndo => OpInv'
<1>. SUFFICES ASSUME OpInv, CountInv, disk \in [Places -> Nodes], AnswerUndo PROVE OpInv'
  OBVIOUS
<1>1. op = Idle /\ clock' \in Nat /\ undoing \in GoodEntries
  BY DEF AnswerUndo, CountInv, OpInv
<1>2. CASE op' = UndoOp(undoing) /\ phase' = "next" /\ before' = disk /\ disturbed' = FALSE /\ UNCHANGED <<undoing, journal>>
  <2>1. Task(op') /\ op'.at = 0 /\ op'.undo = TRUE /\ SameTask(op', UndoOp(undoing'))
    BY <1>1, <1>2, UndoTask DEF SameTask, UndoOp
  <2>. QED  BY <1>1, <1>2, <2>1, OpBetween DEF OpInv
<1>3. CASE phase' = "idle" /\ UNCHANGED <<op, before, disturbed>> /\ (UNCHANGED journal \/ Pop)
  <2>1. journal' \in Seq(GoodEntries)
    BY <1>3, Popped DEF OpInv
  <2>2. Task(op') /\ op'.at = 0 /\ op'.undo = FALSE
    BY <1>1, <1>3, IdleTask
  <2>. QED  BY <1>1, <1>3, <2>1, <2>2, OpBetween DEF OpInv
<1>. QED  BY <1>2, <1>3 DEF AnswerUndo

LEMMA OthersOp ==
    ASSUME OpInv, NEW w \in Writes, OtherProgramWrites(w[1], w[2]), UNCHANGED uiVars
    PROVE  OpInv'
<1>1. UNCHANGED <<op, phase, uiVars>> /\ disturbed' \in BOOLEAN
  BY DEF OtherProgramWrites
<1>. QED  BY ZenonT(60), <1>1 DEF OpInv, uiVars, Working, Past, SameTask, UndoOp, Task, Taken, Apart, SrcOf, DstOf

LEMMA SameOp == OpInv /\ UNCHANGED allVars => OpInv'
BY ZenonT(60) DEF OpInv, allVars, fileVars, outerVars, uiVars, Working, Past, SameTask, UndoOp, Task, Taken, Apart, SrcOf, DstOf

LEMMA NextOp == OpInv /\ CountInv /\ disk \in [Places -> Nodes] /\ [Next]_allVars => OpInv'
<1>. SUFFICES ASSUME OpInv, CountInv, disk \in [Places -> Nodes], [Next]_allVars PROVE OpInv'
  OBVIOUS
<1>1. CASE Engine /\ UNCHANGED uiVars
  <2>1. CASE NextItem \/ AnswerConflict \/ AnswerError
    BY <1>1, <2>1, NextItemOp, AnswerConflictOp, AnswerErrorOp
  <2>2. CASE ~(NextItem \/ AnswerConflict \/ AnswerError)
    BY <1>1, <2>2, AttemptsOp DEF Engine, EngineStep
  <2>. QED  BY <2>1, <2>2
<1>2. ASSUME NEW r \in Requests, PerformCopyOrMove(r) \/ DoDelete(r) PROVE OpInv'
  BY <1>2, BeginOp DEF PerformCopyOrMove, DoDelete
<1>3. ASSUME NEW r \in Requests, DoRename(r) PROVE OpInv'
  BY <1>3, DoRenameOp
<1>4. CASE EndOperation \/ EndUndo
  BY <1>4, EndsOp
<1>5. CASE DoUndo \/ AnswerUndo
  BY <1>5, DoUndoOp, AnswerUndoOp
<1>6. ASSUME NEW w \in Writes, OtherProgramWrites(w[1], w[2]), UNCHANGED uiVars PROVE OpInv'
  BY <1>6, OthersOp
<1>7. CASE UNCHANGED allVars
  BY <1>7, SameOp
<1>. QED  BY <1>1, <1>2, <1>3, <1>4, <1>5, <1>6, <1>7 DEF Next, UserStarts

-----------------------------------------------------------------------------
(* The disk stays in order: links at most one in a folder, no folder in one. *)

\* The disk is in order, and so is what is in the bin.
GoodInv ==
    /\ GoodDisk(disk)
    /\ \A b \in bin : b.item \in Items /\ b.tree \in GoodTrees
\* A folder's copy goes from one folder to another.
WalkInv ==
    /\ phase \in {"walk", "remove"} => IsDirectory(Src) /\ IsDirectory(Dst) /\ op.todo \subseteq Inside(Src)
    /\ phase = "remove" => op.todo = {}

LEMMA ItemAtWork ==
    ASSUME OpInv, phase \in Working
    PROVE  Src \in Items /\ Dst \in Items /\ op.at \in DOMAIN op.names
<1>1. op.from \in Dirs /\ op.to \in Dirs /\ op.names \in Seq(NamePairs) /\ op.at \in 1..Len(op.names) /\ op.target \in Names
  BY DEF OpInv, Task, Taken
<1>2. op.names[op.at] \in NamePairs /\ op.at \in DOMAIN op.names
  BY <1>1
<1>3. op.names[op.at].name \in Names
  BY <1>2 DEF NamePairs
<1>. QED  BY <1>1, <1>2, <1>3, PairIsItem DEF Src, Dst, SrcOf, DstOf

LEMMA SrcApart ==
    ASSUME OpInv, phase \in Past, op.kind \in {"copy", "move"}
    PROVE  Src # Dst
<1>1. Apart(op)
  BY DEF OpInv
<1>2. op.from # op.to => Src # Dst
  BY DEF Src, Dst, SrcOf, DstOf
<1>. QED  BY <1>1, <1>2 DEF Apart, Src, Dst

LEMMA ThroughIs ==
    ASSUME GoodDisk(disk), NEW i \in Items
    PROVE  /\ Through(i) = i
           /\ \A q \in Inside(i) :
                 /\ Through(q) = (IF disk[q] = "link" THEN Elsewhere ELSE q)
                 /\ Through(q) \in Places /\ Through(q) \notin Items /\ disk[Through(q)] # "folder"
<1>1. Through(i) = i
  BY GoodDiskIs DEF Through
<1>2. ASSUME NEW q \in Inside(i)
      PROVE  /\ Through(q) \in Places /\ Through(q) \notin Items /\ disk[Through(q)] # "folder"
  <2>1. Through(q) \in {q, Elsewhere} /\ q \in Places /\ Elsewhere \in Places
    BY ItemPlaces DEF Through
  <2>2. q \notin Items
    BY ItemsApart
  <2>3. Elsewhere \notin Items
    BY ItemPlaces
  <2>4. disk[q] # "folder"
    BY GoodDiskIs
  <2>5. disk[Elsewhere] # "folder"
    BY FileOpsAssumption DEF GoodDisk
  <2>. QED  BY <2>1, <2>2, <2>3, <2>4, <2>5
<1>. QED  BY <1>1, <1>2 DEF Through

\* A file written at an item, or at a place inside a folder.
LEMMA ThroughGood ==
    ASSUME GoodDisk(disk), NEW i \in Items, NEW q \in Under(i), NEW v \in Contents \cup {"none"},
           ~IsDirectory(q), q # i => IsDirectory(i) \/ v = "none"
    PROVE  GoodDisk([disk EXCEPT ![Through(q)] = v])
<1>1. CASE q = i
  <2>1. Through(q) = i /\ i \in Places /\ \A j \in Items : i \notin Inside(j)
    BY <1>1, ThroughIs, ItemPlaces, ItemsApart
  <2>. QED  BY <1>1, <2>1, WriteGood DEF IsDirectory
<1>2. CASE q \in Inside(i)
  <2>1. Through(q) \in Places /\ disk[Through(q)] # "folder" /\ q # i
    BY <1>2, ThroughIs, ItemsApart
  <2>2. ASSUME NEW j \in Items, Through(q) \in Inside(j) PROVE disk[j] = "folder" \/ v = "none"
    <3>1. Through(q) = q
      BY <2>2, ItemPlaces, <1>2, ThroughIs
    <3>2. j = i
      BY <3>1, <2>2, <1>2, ItemsApart
    <3>. QED  BY <3>2, <2>1 DEF IsDirectory
  <2>. QED  BY <2>1, <2>2, WriteGood
<1>. QED  BY <1>1, <1>2 DEF Under

LEMMA CopyEffects ==
    ASSUME NEW from, NEW to, NEW then, CopySingleFile(from, to, then)
    PROVE  \/ disk' = disk
           \/ /\ ~IsDirectory(to) /\ disk[from] \in Contents
              /\ disk' = [disk EXCEPT ![Through(to)] = disk[from]]
           \/ ~IsDirectory(to) /\ disk' = [disk EXCEPT ![Through(to)] = "none"]
BY DEF CopySingleFile, GivenUp, Write, MustFail, FailsBy

LEMMA CopyGood ==
    ASSUME GoodDisk(disk), NEW i \in Items, NEW q \in Under(i), NEW from, NEW then, CopySingleFile(from, q, then),
           q # i => IsDirectory(i)
    PROVE  GoodDisk(disk')
<1>1. CASE disk' = disk
  BY <1>1
<1>2. CASE ~IsDirectory(q) /\ disk[from] \in Contents /\ disk' = [disk EXCEPT ![Through(q)] = disk[from]]
  BY <1>2, ThroughGood
<1>3. CASE ~IsDirectory(q) /\ disk' = [disk EXCEPT ![Through(q)] = "none"]
  BY <1>3, ThroughGood
<1>. QED  BY <1>1, <1>2, <1>3, CopyEffects

LEMMA MovedGood ==
    ASSUME GoodDisk(disk), NEW i \in Items, NEW j \in Items
    PROVE  /\ GoodDisk(PutTree(disk, i, NoTree))
           /\ GoodDisk(PutTree(PutTree(disk, j, Tree(disk, i)), i, NoTree))
BY TreeGood, PutTreeGood, NoTreeGood

LEMMA PartlyGood ==
    ASSUME GoodDisk(disk), NEW i \in Items, disk' \in PartlyRemoved(i)
    PROVE  GoodDisk(disk')
BY ClearedGood DEF PartlyRemoved

LEMMA OpenGood ==
    ASSUME GoodDisk(disk), NEW from, NEW to \in Items, OpenFolder(from, to)
    PROVE  GoodDisk(disk')
<1>1. disk' = [disk EXCEPT ![to] = "folder"] \/ disk' = disk
  BY DEF OpenFolder, MustFail, FailsBy
<1>. QED  BY <1>1, FolderGood

LEMMA GivenUpGood ==
    ASSUME GoodDisk(disk), NEW i \in Items, disk' \in GivenUp(i)
    PROVE  GoodDisk(disk')
<1>1. disk' = disk \/ (~IsDirectory(i) /\ disk' = [disk EXCEPT ![Through(i)] = "none"])
  BY DEF GivenUp
<1>. QED  BY <1>1, ThroughGood DEF Under

LEMMA FileIs ==
    ASSUME GoodDisk(disk), NEW i \in Items
    PROVE  disk[i] \in Contents \cup {"none", "folder"} /\ (~IsDirectory(i) /\ KindOf(i) # "none" => disk[i] \in Contents)
<1>1. disk[i] \in Nodes /\ disk[i] # "link"
  BY GoodDiskIs, ItemPlaces DEF GoodDisk
<1>. QED  BY <1>1 DEF Nodes, KindOf, IsDirectory

LEMMA MoveGood ==
    ASSUME GoodDisk(disk), Src \in Items, Dst \in Items, AttemptMove
    PROVE  GoodDisk(disk')
<1>1. CASE disk' = Moved
  BY <1>1, MovedGood DEF Moved
<1>2. CASE disk' = Write(Src, Dst) /\ KindOf(Src) # "none" /\ MayReplace /\ ~IsDirectory(Src)
  <2>1. ~IsDirectory(Dst)
    BY <1>2, FileOpsAssumption DEF MayReplace, IsDirectory
  <2>2. disk[Src] \in Contents
    BY <1>2, FileIs
  <2>. QED  BY <1>2, <2>1, <2>2, ThroughGood DEF Write, Under
<1>3. CASE OpenFolder(Src, Dst)
  BY <1>3, OpenGood
<1>4. CASE disk' \in GivenUp(Dst)
  BY <1>4, GivenUpGood
<1>5. CASE disk' = disk
  BY <1>5
<1>. QED  BY <1>1, <1>2, <1>3, <1>4, <1>5 DEF AttemptMove, MustFail, FailsBy

LEMMA RenameGood ==
    ASSUME GoodDisk(disk), NEW i \in Items, NEW j \in Items, NEW then, RenameItem(i, j, then)
    PROVE  GoodDisk(disk')
BY MovedGood DEF RenameItem, MustFail, FailsBy

LEMMA NextGood ==
    ASSUME GoodInv, WalkInv, OpInv, [Next]_allVars
    PROVE  GoodInv'
<1>0. GoodDisk(disk) /\ \A b \in bin : b.item \in Items /\ b.tree \in GoodTrees
  BY DEF GoodInv
<1>a. phase \in Past => Src \in Items /\ Dst \in Items
  BY ItemAtWork DEF Past, Working
<1>1. CASE UNCHANGED <<disk, bin>>
  BY <1>1 DEF GoodInv
<1>2. CASE AttemptCopy
  <2>1. Src \in Items /\ Dst \in Items /\ bin' = bin
    BY <1>2, <1>a DEF AttemptCopy, Past
  <2>2. GoodDisk(disk')
    BY <1>0, <1>2, <2>1, OpenGood, CopyGood DEF AttemptCopy, Under
  <2>. QED  BY <1>0, <2>1, <2>2 DEF GoodInv
<1>3. CASE AttemptMove
  <2>1. Src \in Items /\ Dst \in Items /\ bin' = bin
    BY <1>3, <1>a DEF AttemptMove, Past
  <2>2. GoodDisk(disk')
    BY <1>0, <1>3, <2>1, MoveGood
  <2>. QED  BY <1>0, <2>1, <2>2 DEF GoodInv
<1>4. CASE AttemptRecycle(clock)
  <2>1. Src \in Items
    BY <1>4, <1>a DEF AttemptRecycle, Past
  <2>2. GoodDisk(disk')
    BY <1>0, <1>4, <2>1, MovedGood DEF AttemptRecycle, MustFail, FailsBy
  <2>3. Tree(disk, Src) \in GoodTrees
    BY <1>0, <2>1, TreeGood
  <2>4. bin' = bin \/ bin' = bin \cup {[item |-> Src, tree |-> Tree(disk, Src), when |-> clock]}
    BY <1>4 DEF AttemptRecycle
  <2>. QED  BY <1>0, <2>1, <2>2, <2>3, <2>4 DEF GoodInv
<1>5. CASE AttemptDelete \/ RemoveSource
  <2>1. Src \in Items /\ bin' = bin
    BY <1>5, <1>a DEF AttemptDelete, RemoveSource, Past
  <2>2. disk' = PutTree(disk, Src, NoTree) \/ disk' = disk \/ disk' \in PartlyRemoved(Src)
    BY <1>5 DEF AttemptDelete, RemoveSource, MustFail, FailsBy
  <2>. QED  BY <1>0, <2>1, <2>2, MovedGood, PartlyGood DEF GoodInv
<1>6. CASE AttemptRename
  <2>1. Src \in Items /\ Dst \in Items /\ bin' = bin
    BY <1>6, <1>a DEF AttemptRename, Past
  <2>2. GoodDisk(disk')
    BY <1>0, <1>6, <2>1, RenameGood DEF AttemptRename
  <2>. QED  BY <1>0, <2>1, <2>2 DEF GoodInv
<1>7. CASE AttemptRestore
  <2>1. \/ UNCHANGED <<disk, bin>>
        \/ \E b \in bin : disk' = PutTree(disk, b.item, b.tree) /\ bin' = bin \ {b}
    BY <1>7 DEF AttemptRestore, Newest, FoundInBin, MustFail, FailsBy
  <2>. QED  BY <1>0, <1>1, <2>1, PutTreeGood DEF GoodInv
<1>8. ASSUME NEW p \in Places, CopyChild(p) PROVE GoodInv'
  <2>1. Dst \in Items /\ bin' = bin /\ IsDirectory(Dst) /\ p \in Inside(Src) /\ Src \in Items
    BY <1>8, <1>a DEF CopyChild, Past, WalkInv
  <2>2. ChildDst(p) \in Inside(Dst) /\ ChildDst(p) # Dst
    BY <2>1, ItemPlaces, ItemsApart DEF ChildDst, Child
  <2>3. GoodDisk(disk')
    BY <1>0, <1>8, <2>1, <2>2, CopyGood DEF CopyChild, Under
  <2>. QED  BY <1>0, <2>1, <2>3 DEF GoodInv
<1>9. ASSUME NEW r \in Requests, DoRename(r) PROVE GoodInv'
  <2>0. r.from \in Dirs /\ r.names \in Seq(NamePairs) /\ r.names # <<>>
    BY RequestsAssumption DEF NamePairs
  <2>1. r.names[1] \in NamePairs
    BY <2>0
  <2>2. <<r.from, r.names[1].name>> \in Items /\ <<r.from, r.names[1].target>> \in Items
    BY <2>0, <2>1, PairIsItem DEF NamePairs
  <2>3. GoodDisk(disk')
    BY <1>0, <1>9, <2>2, MovedGood DEF DoRename
  <2>. QED  BY <1>0, <1>9, <2>3 DEF GoodInv, DoRename
<1>10. ASSUME NEW w \in Writes, OtherProgramWrites(w[1], w[2]) PROVE GoodInv'
  <2>. DEFINE p == w[1]
              content == w[2]
  <2>1. p \in Places /\ content \in Contents \cup {"none"} /\ disk[p] \in Contents \cup {"none"} /\ bin' = bin
        /\ disk' = [disk EXCEPT ![p] = content] /\ (Len(p) = 3 => IsDirectory(<<p[1], p[2]>>))
    BY <1>10, OthersAssumption DEF OtherProgramWrites
  <2>. HIDE DEF p, content
  <2>2. ASSUME NEW i \in Items, p \in Inside(i) PROVE disk[i] = "folder"
    <3>1. Len(p) = 3 /\ i = <<p[1], p[2]>>
      BY <2>2, ItemParts DEF Inside
    <3>. QED  BY <2>1, <3>1 DEF IsDirectory
  <2>3. GoodDisk(disk')
    BY <1>0, <2>1, <2>2, WriteGood, FileOpsAssumption
  <2>. QED  BY <1>0, <2>1, <2>3 DEF GoodInv
<1>. QED
  BY <1>1, <1>2, <1>3, <1>4, <1>5, <1>6, <1>7, <1>8, <1>9, <1>10
     DEF Next, Engine, EngineStep, UserStarts, NextItem, AnswerConflict, AnswerError, FolderCopied, PerformCopyOrMove,
         DoDelete, Begin, EndOperation, EndUndo, DoUndo, AnswerUndo, allVars, fileVars, outerVars

-----------------------------------------------------------------------------
(* The walk over a folder.                                                   *)

LEMMA EndsWhere == Ends => phase' \in {"next", "end", "attempt", "error"}
BY DEF Ends, Succeeded, AttemptFailed, EscPressed, Over, Cancelled

\* An item's places stay the same while the loop is at it.
SameItem ==
    op'.kind = op.kind /\ op'.from = op.from /\ op'.to = op.to /\ op'.names = op.names /\ op'.at = op.at
    /\ op'.target = op.target
LEMMA SameItemPlaces == SameItem => Src' = Src /\ Dst' = Dst
BY DEF SameItem, Src, Dst, SrcOf, DstOf

LEMMA TodoChange ==
    ASSUME CountInv, NEW todo, op' = [op EXCEPT !.todo = todo]
    PROVE  SameItem /\ op'.todo = todo /\ op'.elevated = op.elevated /\ op'.undo = op.undo /\ op'.skipErrors = op.skipErrors
<1>1. OpShape(op)
  BY DEF CountInv
<1>. QED  BY <1>1 DEF OpShape, SameItem

\* What opening the folder at work leaves: both folders there, and what the
\* source shows still to come.
LEMMA Opened ==
    ASSUME CountInv, OpInv, GoodInv, phase = "attempt", op.kind \in {"copy", "move"}, IsDirectory(Src),
           OpenFolder(Src, Dst), phase' = "walk"
    PROVE  /\ SameItem /\ op'.elevated = op.elevated /\ disk' = [disk EXCEPT ![Dst] = "folder"]
           /\ op'.todo = (IF Barred(Src) THEN {} ELSE {p \in Inside(Src) : disk[p] # "none"})
           /\ IsDirectory(Src)' /\ IsDirectory(Dst)' /\ Src' = Src /\ Dst' = Dst
           /\ UNCHANGED outcome
<1>1. ~Ends
  BY EndsWhere
<1>2. ~AttemptFailed
  BY <1>1 DEF Ends
<1>. DEFINE todo == IF Barred(Src) THEN {} ELSE {p \in Inside(Src) : disk[p] # "none"}
<1>3. disk' = [disk EXCEPT ![Dst] = "folder"] /\ op' = [op EXCEPT !.todo = todo] /\ UNCHANGED outcome
  BY <1>2 DEF OpenFolder, MustFail, FailsBy
<1>. HIDE DEF todo
<1>4. SameItem /\ op'.todo = todo /\ op'.elevated = op.elevated
  BY <1>3, TodoChange
<1>5. Src' = Src /\ Dst' = Dst
  BY <1>4, SameItemPlaces
<1>6. Src \in Items /\ Dst \in Items /\ Src # Dst
  BY ItemAtWork, SrcApart DEF Working, Past
<1>7. Src \in Places /\ Dst \in Places /\ disk \in [Places -> Nodes]
  BY <1>6, ItemPlaces DEF GoodInv, GoodDisk
<1>8. disk'[Src] = "folder" /\ disk'[Dst] = "folder"
  BY <1>3, <1>6, <1>7 DEF IsDirectory
<1>9. IsDirectory(Src)' /\ IsDirectory(Dst)'
  BY <1>5, <1>8 DEF IsDirectory
<1>. QED  BY <1>3, <1>4, <1>5, <1>9 DEF todo

\* A child's turn: where it goes, and what is on the way.
LEMMA ChildIs ==
    ASSUME OpInv, GoodInv, WalkInv, phase \in {"walk", "remove"}, NEW p \in Inside(Src)
    PROVE  /\ ChildDst(p) \in Inside(Dst) /\ Through(ChildDst(p)) \in Places /\ Through(ChildDst(p)) \notin Items
           /\ Through(ChildDst(p)) \in {ChildDst(p), Elsewhere} /\ Through(ChildDst(p)) \notin Inside(Src)
           /\ ChildDst(p) \notin Inside(Src) /\ p \in Places
           /\ disk[Through(ChildDst(p))] # "folder"
<1>1. Src \in Items /\ Dst \in Items /\ Src # Dst
  BY ItemAtWork, SrcApart DEF Working, Past, OpInv
<1>2. ChildDst(p) \in Inside(Dst)
  BY <1>1, ItemPlaces DEF ChildDst, Child
<1>3. ChildDst(p) \notin Inside(Src) /\ Elsewhere \notin Inside(Src) /\ p \in Places
  BY <1>1, <1>2, ItemsApart, ItemPlaces
<1>4. Through(ChildDst(p)) \in Places /\ Through(ChildDst(p)) \notin Items /\ disk[Through(ChildDst(p))] # "folder"
  BY <1>1, <1>2, ThroughIs DEF GoodInv
<1>. QED  BY <1>2, <1>3, <1>4 DEF Through

LEMMA WalkGoesOn ==
    ASSUME CountInv, OpInv, GoodInv, WalkInv, NEW p, CopyChild(p), phase' = "walk"
    PROVE  /\ p \in op.todo /\ p \in Inside(Src) /\ SameItem /\ op'.todo = op.todo \ {p} /\ op'.elevated = op.elevated
           /\ \/ disk' = disk /\ disk[p] \notin Contents
              \/ disk[p] \in Contents /\ disk' = [disk EXCEPT ![Through(ChildDst(p))] = disk[p]]
<1>1. ~Ends
  BY EndsWhere
<1>2. ~AttemptFailed /\ ~EscPressed
  BY <1>1 DEF Ends
<1>3. Walked(p) /\ p \in op.todo
  BY <1>2 DEF CopyChild, CopySingleFile, MustFail, FailsBy
<1>4. SameItem /\ op'.todo = op.todo \ {p} /\ op'.elevated = op.elevated
  BY <1>3, TodoChange DEF Walked
<1>5. p \in Inside(Src)
  BY <1>3 DEF WalkInv, CopyChild
<1>6. \/ disk' = disk /\ disk[p] = "link"
      \/ disk[p] \in Contents /\ disk' = [disk EXCEPT ![Through(ChildDst(p))] = disk[p]]
  BY <1>2 DEF CopyChild, CopySingleFile, MustFail, FailsBy, Write
<1>. QED  BY <1>3, <1>4, <1>5, <1>6, FileOpsAssumption

\* Which steps lead into the walk over a folder, or leave the loop in it.
LEMMA IntoWalk ==
    ASSUME CountInv, OpInv, [Next]_allVars, phase' \in {"walk", "remove"}
    PROVE  \/ phase = "attempt" /\ phase' = "walk" /\ op.kind \in {"copy", "move"} /\ IsDirectory(Src) /\ OpenFolder(Src, Dst)
              /\ (AttemptCopy \/ AttemptMove) /\ UNCHANGED uiVars
           \/ phase = "walk" /\ phase' = "walk" /\ (\E p \in Places : CopyChild(p)) /\ UNCHANGED uiVars
           \/ phase = "walk" /\ phase' = "remove" /\ FolderCopied /\ op.todo = {} /\ op.kind = "move" /\ UNCHANGED <<op, disk, outcome, uiVars>>
           \/ phase' = phase /\ (\E w \in Writes : OtherProgramWrites(w[1], w[2])) /\ UNCHANGED uiVars
           \/ UNCHANGED allVars
<1>0. ~Ends
  BY EndsWhere
<1>1. ~Succeeded /\ ~AttemptFailed /\ ~EscPressed
  BY <1>0 DEF Ends
<1>2. CASE NextItem \/ AnswerConflict \/ AnswerError
  <2>1. phase' \in {"next", "end", "attempt", "conflict"}
    BY <1>2 DEF NextItem, AnswerConflict, AnswerError, StartItem, Choose, Proceed, Over, Cancelled, EscPressed
  <2>. QED  BY <2>1
<1>3. CASE AttemptRecycle(clock) \/ AttemptDelete \/ AttemptRename \/ AttemptRestore
  BY <1>1, <1>3 DEF AttemptRecycle, AttemptDelete, AttemptRename, AttemptRestore, RenameItem, FailsBy, MustFail
<1>4. CASE (AttemptCopy \/ AttemptMove) /\ UNCHANGED uiVars
  BY <1>1, <1>4 DEF AttemptCopy, AttemptMove, CopySingleFile, FailsBy, MustFail, OpenFolder
<1>5. CASE RemoveSource
  BY <1>1, <1>5 DEF RemoveSource, FailsBy, MustFail
<1>6. ASSUME NEW p \in Places, CopyChild(p), UNCHANGED uiVars
      PROVE  phase = "walk" /\ phase' = "walk" /\ (\E q \in Places : CopyChild(q)) /\ UNCHANGED uiVars
  <2>1. phase = "walk" /\ phase' = "walk"
    BY <1>1, <1>6 DEF CopyChild, CopySingleFile, FailsBy, MustFail, Walked
  <2>. QED  BY <1>6, <2>1
<1>7. CASE FolderCopied /\ UNCHANGED uiVars
  BY <1>1, <1>7 DEF FolderCopied, OpInv
<1>8. CASE UserStarts \/ EndOperation \/ DoUndo \/ AnswerUndo \/ EndUndo
  BY <1>8 DEF UserStarts, PerformCopyOrMove, DoDelete, DoRename, Begin, EndOperation, BackToIdle, DoUndo, AnswerUndo, EndUndo
<1>9. ASSUME NEW w \in Writes, OtherProgramWrites(w[1], w[2]) PROVE phase' = phase
  BY <1>9 DEF OtherProgramWrites
<1>. QED  BY <1>2, <1>3, <1>4, <1>5, <1>6, <1>7, <1>8, <1>9 DEF Next, Engine, EngineStep

LEMMA NextWalk ==
    ASSUME CountInv, OpInv, GoodInv, WalkInv, [Next]_allVars
    PROVE  WalkInv'
<1>. SUFFICES ASSUME phase' \in {"walk", "remove"}
              PROVE  IsDirectory(Src)' /\ IsDirectory(Dst)' /\ op'.todo \subseteq Inside(Src)' /\ (phase' = "remove" => op'.todo = {})
  BY DEF WalkInv
<1>1. CASE phase = "attempt" /\ phase' = "walk" /\ op.kind \in {"copy", "move"} /\ IsDirectory(Src) /\ OpenFolder(Src, Dst)
  <2>1. /\ op'.todo = (IF Barred(Src) THEN {} ELSE {p \in Inside(Src) : disk[p] # "none"})
        /\ IsDirectory(Src)' /\ IsDirectory(Dst)' /\ Src' = Src
    BY <1>1, Opened
  <2>2. Inside(Src)' = Inside(Src)
    BY <2>1 DEF Inside
  <2>. QED  BY <1>1, <2>1, <2>2
<1>2. ASSUME phase = "walk", phase' = "walk", NEW p \in Places, CopyChild(p)
      PROVE  IsDirectory(Src)' /\ IsDirectory(Dst)' /\ op'.todo \subseteq Inside(Src)' /\ (phase' = "remove" => op'.todo = {})
  <2>1. /\ p \in Inside(Src) /\ SameItem /\ op'.todo = op.todo \ {p}
        /\ disk' = disk \/ disk' = [disk EXCEPT ![Through(ChildDst(p))] = disk[p]]
    BY <1>2, WalkGoesOn
  <2>2. Src' = Src /\ Dst' = Dst /\ Inside(Src)' = Inside(Src)
    BY <2>1, SameItemPlaces DEF Inside
  <2>3. Src \in Items /\ Dst \in Items /\ Through(ChildDst(p)) \notin Items
    BY <1>2, <2>1, ItemAtWork, ChildIs DEF Working
  <2>4. disk \in [Places -> Nodes] /\ Src \in Places /\ Dst \in Places
    BY <2>3, ItemPlaces DEF GoodInv, GoodDisk
  <2>5. disk'[Src] = disk[Src] /\ disk'[Dst] = disk[Dst]
    BY <2>1, <2>3, <2>4
  <2>. QED  BY <1>2, <2>1, <2>2, <2>5 DEF WalkInv, IsDirectory
<1>3. CASE phase = "walk" /\ phase' = "remove" /\ op.todo = {} /\ UNCHANGED <<op, disk>>
  BY <1>3 DEF WalkInv, IsDirectory, Src, Dst, SrcOf, DstOf, Inside
<1>4. ASSUME phase' = phase, NEW w \in Writes, OtherProgramWrites(w[1], w[2])
      PROVE  IsDirectory(Src)' /\ IsDirectory(Dst)' /\ op'.todo \subseteq Inside(Src)' /\ (phase' = "remove" => op'.todo = {})
  <2>. DEFINE p == w[1]
              content == w[2]
  <2>1. op' = op /\ disk' = [disk EXCEPT ![p] = content] /\ disk[p] \in Contents \cup {"none"}
    BY <1>4 DEF OtherProgramWrites
  <2>. HIDE DEF p, content
  <2>2. Src' = Src /\ Dst' = Dst /\ Inside(Src)' = Inside(Src)
    BY <2>1 DEF Src, Dst, SrcOf, DstOf, Inside
  <2>3. disk[Src] = "folder" /\ disk[Dst] = "folder" /\ op.todo \subseteq Inside(Src) /\ (phase = "remove" => op.todo = {})
    BY <1>4 DEF WalkInv, IsDirectory
  <2>4. disk \in [Places -> Nodes] /\ Src \in Places /\ Dst \in Places
    BY <1>4, ItemAtWork, ItemPlaces DEF GoodInv, GoodDisk, Working
  <2>5. disk'[Src] = "folder" /\ disk'[Dst] = "folder"
    BY <2>1, <2>3, <2>4, FileOpsAssumption
  <2>. QED  BY <1>4, <2>1, <2>2, <2>3, <2>5 DEF IsDirectory
<1>5. CASE UNCHANGED allVars
  BY <1>5 DEF WalkInv, IsDirectory, Src, Dst, SrcOf, DstOf, Inside, allVars, fileVars
<1>. QED  BY <1>1, <1>2, <1>3, <1>4, <1>5, IntoWalk

-----------------------------------------------------------------------------
(* Where a content is kept while an item is copied or moved.                 *)

\* Where a copy to q lands on disk d, and what of d a copy to t may write over.
Lands(d, q) == IF d[q] = "link" THEN Elsewhere ELSE q
Across(p, t) == <<t[1], t[2], p[3]>>
TargetOf(d, t) == Under(t) \cup {Lands(d, q) : q \in Inside(t)}

\* c is kept while an item is copied or moved from s to t: apart from the
\* target, or in a copy whose source is removed already.
AttemptKeeps(d, s, t, c) ==
    \/ \E p \in Places \ TargetOf(d, t) : d[p] = c
    \/ \E p \in Inside(s) : d[p] = "none" /\ d[Lands(d, Across(p, t))] = c
\* The same within the walk over a folder: apart from both, in the source and
\* still to come or not to be removed, or copied.
CopyKeeps(d, s, t, todo, barred, c) ==
    \/ \E p \in Places \ (TargetOf(d, t) \cup Inside(s)) : d[p] = c
    \/ \E p \in todo : d[p] = c
    \/ barred /\ \E p \in Inside(s) : d[p] = c
    \/ \E p \in Inside(s) \ todo : d[p] \in {c, "none"} /\ d[Lands(d, Across(p, t))] = c

LEMMA AcrossIs ==
    ASSUME NEW d, NEW s \in Items, NEW t \in Items, s # t
    PROVE  /\ \A p \in Inside(s) : /\ Across(p, t) \in Inside(t) /\ Across(p, t) \in Places
                                   /\ Lands(d, Across(p, t)) \in TargetOf(d, t)
                                   /\ Lands(d, Across(p, t)) \in Places
                                   /\ Lands(d, Across(p, t)) \in {Across(p, t), Elsewhere}
                                   /\ p \notin TargetOf(d, t) /\ p \in Places
           /\ \A p, q \in Inside(s) : Across(p, t) = Across(q, t) => p = q
           /\ Inside(s) \cap TargetOf(d, t) = {} /\ s \notin TargetOf(d, t)
           /\ TargetOf(d, t) \subseteq Places /\ s \notin Inside(s) /\ Inside(s) \subseteq Places /\ s \in Places /\ t \in Places
<1>1. /\ Inside(s) \subseteq Places /\ Inside(t) \subseteq Places /\ Elsewhere \in Places /\ s \in Places /\ t \in Places
      /\ Elsewhere \notin Inside(s) /\ Elsewhere # s /\ s \notin Inside(t) /\ s \notin Inside(s) /\ t \notin Inside(s)
      /\ Inside(s) \cap Inside(t) = {}
  BY ItemPlaces, ItemsApart
<1>2. \A q : Lands(d, q) \in {q, Elsewhere}
  BY DEF Lands
<1>3. \A p \in Inside(s) : Across(p, t) \in Inside(t)
  BY ItemPlaces DEF Across, Child
<1>4. \A p, q \in Inside(s) : Across(p, t) = Across(q, t) => p = q
  <2>1. \A p, q \in Inside(s) : p = <<s[1], s[2], p[3]>> /\ q = <<s[1], s[2], q[3]>>
    BY ItemPlaces DEF Child
  <2>2. \A p, q \in Inside(s) : Across(p, t) = Across(q, t) => p[3] = q[3]
    BY DEF Across
  <2>. QED  BY <2>1, <2>2
<1>5. TargetOf(d, t) \subseteq {t, Elsewhere} \cup Inside(t) /\ TargetOf(d, t) \subseteq Places
  BY <1>1, <1>2 DEF TargetOf, Under
<1>6. \A p \in Inside(s) : Lands(d, Across(p, t)) \in TargetOf(d, t)
  BY <1>3 DEF TargetOf
<1>. QED  BY <1>1, <1>2, <1>3, <1>4, <1>5, <1>6

LEMMA LandsApart ==
    ASSUME NEW d, GoodDisk(d), NEW s \in Items, NEW t \in Items, s # t, NEW p \in Inside(s), NEW q \in Inside(s), p # q
    PROVE  Lands(d, Across(p, t)) # Lands(d, Across(q, t))
<1>1. Across(p, t) \in Inside(t) /\ Across(q, t) \in Inside(t) /\ Across(p, t) # Across(q, t)
  BY AcrossIs
<1>2. ~(d[Across(p, t)] = "link" /\ d[Across(q, t)] = "link")
  BY <1>1, GoodDiskIs
<1>3. Elsewhere \notin Inside(t)
  BY ItemPlaces
<1>. QED  BY <1>1, <1>2, <1>3 DEF Lands

LEMMA AttemptKept ==
    ASSUME NEW d, GoodDisk(d), NEW s \in Items, NEW t \in Items, s # t, NEW c, AttemptKeeps(d, s, t, c)
    PROVE  \E p \in Places : d[p] = c
BY AcrossIs DEF AttemptKeeps

LEMMA CopyKept ==
    ASSUME NEW d, GoodDisk(d), NEW s \in Items, NEW t \in Items, s # t, NEW todo \in SUBSET Inside(s), NEW barred, NEW c,
           CopyKeeps(d, s, t, todo, barred, c)
    PROVE  AttemptKeeps(d, s, t, c)
<1>1. \A p \in Inside(s) : p \in Places \ TargetOf(d, t)
  BY AcrossIs
<1>. QED  BY <1>1 DEF CopyKeeps, AttemptKeeps

\* Links, and with them the target, are as they were.
LEMMA SameTarget ==
    ASSUME NEW d, NEW e, NEW t, \A q \in Inside(t) : (e[q] = "link") <=> (d[q] = "link")
    PROVE  TargetOf(e, t) = TargetOf(d, t) /\ \A q \in Inside(t) : Lands(e, q) = Lands(d, q)
<1>1. \A q \in Inside(t) : Lands(e, q) = Lands(d, q)
  BY DEF Lands
<1>. QED  BY <1>1 DEF TargetOf

\* A file is written at the target, or taken away there.
LEMMA FileWritten ==
    ASSUME NEW d, GoodDisk(d), NEW s \in Items, NEW t \in Items, s # t, NEW c \in Contents, AttemptKeeps(d, s, t, c),
           d[t] # "folder", NEW v
    PROVE  AttemptKeeps([d EXCEPT ![t] = v], s, t, c)
<1>. DEFINE e == [d EXCEPT ![t] = v]
<1>1. \A q \in Inside(t) : d[q] = "none" /\ Lands(d, q) = q
  BY GoodDiskIs DEF Lands
<1>2. d \in [Places -> Nodes] /\ t \in Places /\ t \notin Inside(t)
  BY ItemPlaces, ItemsApart DEF GoodDisk
<1>3. \A q \in Places : q # t => e[q] = d[q]
  BY <1>2
<1>. HIDE DEF e
<1>4. PICK p \in Places \ TargetOf(d, t) : d[p] = c
  <2>1. \A p \in Inside(s) : d[Lands(d, Across(p, t))] # c
    BY <1>1, AcrossIs, FileOpsAssumption
  <2>. QED  BY <2>1 DEF AttemptKeeps
<1>5. TargetOf(e, t) = TargetOf(d, t)
  <2>1. \A q \in Inside(t) : e[q] = d[q]
    BY <1>2, <1>3, ItemPlaces
  <2>. QED  BY <2>1, SameTarget
<1>6. p # t
  BY <1>4 DEF TargetOf, Under
<1>7. e[p] = c
  BY <1>3, <1>4, <1>6
<1>. QED  BY <1>4, <1>5, <1>7 DEF AttemptKeeps, e

LEMMA FolderOpensKeeps ==
    ASSUME NEW d, GoodDisk(d), NEW s \in Items, NEW t \in Items, s # t, NEW c \in Contents, AttemptKeeps(d, s, t, c),
           d[s] = "folder", NEW barred \in BOOLEAN
    PROVE  CopyKeeps([d EXCEPT ![t] = "folder"], s, t, IF barred THEN {} ELSE {p \in Inside(s) : d[p] # "none"}, barred, c)
<1>. DEFINE e == [d EXCEPT ![t] = "folder"]
            todo == IF barred THEN {} ELSE {p \in Inside(s) : d[p] # "none"}
<1>1. d \in [Places -> Nodes] /\ t \in Places /\ t \notin Inside(t) /\ t \notin Inside(s) /\ Inside(t) \subseteq Places
  BY ItemPlaces, ItemsApart DEF GoodDisk
<1>2. \A q \in Places : q # t => e[q] = d[q]
  BY <1>1
<1>. HIDE DEF e
<1>3. TargetOf(e, t) = TargetOf(d, t) /\ \A q \in Inside(t) : Lands(e, q) = Lands(d, q)
  <2>1. \A q \in Inside(t) : e[q] = d[q]
    BY <1>1, <1>2
  <2>. QED  BY <2>1, SameTarget
<1>4. CASE \E p \in Places \ TargetOf(d, t) : d[p] = c
  <2>1. PICK p \in Places \ TargetOf(d, t) : d[p] = c
    BY <1>4
  <2>2. p # t /\ e[p] = c
    BY <2>1, <1>2 DEF TargetOf, Under
  <2>3. CASE p \in Inside(s)
    <3>1. c # "none"
      BY FileOpsAssumption
    <3>2. p \in todo \/ barred
      BY <2>1, <2>3, <3>1
    <3>. HIDE DEF todo
    <3>3. CopyKeeps(e, s, t, todo, barred, c)
      BY <2>2, <2>3, <3>2 DEF CopyKeeps
    <3>. QED  BY <3>3 DEF e, todo
  <2>4. CASE p \notin Inside(s)
    <3>. HIDE DEF todo
    <3>3. CopyKeeps(e, s, t, todo, barred, c)
      BY <2>1, <2>2, <2>4, <1>3 DEF CopyKeeps
    <3>. QED  BY <3>3 DEF e, todo
  <2>. QED  BY <2>3, <2>4
<1>5. CASE \E p \in Inside(s) : d[p] = "none" /\ d[Lands(d, Across(p, t))] = c
  <2>1. PICK p \in Inside(s) : d[p] = "none" /\ d[Lands(d, Across(p, t))] = c
    BY <1>5
  <2>2. p \notin todo
    BY <2>1
  <2>. HIDE DEF todo
  <2>3. Across(p, t) \in Inside(t) /\ Lands(d, Across(p, t)) \in Places /\ p \in Places /\ p # t
        /\ Lands(d, Across(p, t)) \in {Across(p, t), Elsewhere}
    BY <1>1, AcrossIs
  <2>4. Lands(d, Across(p, t)) # t
    BY <1>1, <2>3, ItemPlaces
  <2>5. Lands(e, Across(p, t)) = Lands(d, Across(p, t)) /\ e[Lands(d, Across(p, t))] = c /\ e[p] = "none"
    BY <1>2, <1>3, <2>1, <2>3, <2>4
  <2>6. CopyKeeps(e, s, t, todo, barred, c)
    BY <2>1, <2>2, <2>5 DEF CopyKeeps
  <2>. QED  BY <2>6 DEF e, todo
<1>. QED  BY <1>4, <1>5 DEF AttemptKeeps

\* A child copied, or begun and deleted again: its source is still there.
LEMMA ChildWritten ==
    ASSUME NEW d, GoodDisk(d), NEW s \in Items, NEW t \in Items, s # t, NEW c \in Contents,
           NEW todo \in SUBSET Inside(s), NEW barred, CopyKeeps(d, s, t, todo, barred, c),
           NEW p \in todo, NEW v, v \in Contents \cup {"none"},
           NEW left \in {todo, todo \ {p}}, v = d[p] \/ left = todo, d[t] = "folder"
    PROVE  CopyKeeps([d EXCEPT ![Lands(d, Across(p, t))] = v], s, t, left, barred, c)
<1>. DEFINE x == Lands(d, Across(p, t))
            e == [d EXCEPT ![x] = v]
<1>1. /\ x \in Places /\ x \in TargetOf(d, t) /\ x \notin Inside(s) /\ Across(p, t) \in Inside(t) /\ x \in {Across(p, t), Elsewhere}
      /\ Inside(s) \cap TargetOf(d, t) = {} /\ d \in [Places -> Nodes] /\ Inside(s) \subseteq Places
  <2>1. p \in Inside(s)
    OBVIOUS
  <2>2. /\ Across(p, t) \in Inside(t) /\ x \in TargetOf(d, t) /\ x \in Places /\ x \in {Across(p, t), Elsewhere}
    BY <2>1, AcrossIs
  <2>3. Inside(s) \cap TargetOf(d, t) = {} /\ Inside(s) \subseteq Places
    BY AcrossIs
  <2>. HIDE DEF x
  <2>. QED  BY <2>2, <2>3 DEF GoodDisk
<1>2. e[x] = v /\ \A q \in Places : q # x => e[q] = d[q]
  BY <1>1
<1>3. ASSUME NEW q \in Inside(t) PROVE (e[q] = "link") <=> (d[q] = "link")
  <2>1. q \in Places
    BY ItemPlaces
  <2>2. CASE q = x
    <3>1. q = Across(p, t) /\ d[q] # "link"
      <4>1. Elsewhere \notin Inside(t)
        BY ItemPlaces
      <4>2. q = Across(p, t)
        BY <1>1, <2>2, <4>1
      <4>. QED  BY <4>1, <4>2, <2>2 DEF Lands
    <3>2. e[q] # "link"
      BY <1>2, <2>2, FileOpsAssumption
    <3>. QED  BY <3>1, <3>2
  <2>3. CASE q # x
    BY <1>2, <2>1, <2>3
  <2>. QED  BY <2>2, <2>3
<1>. HIDE DEF e
<1>4. TargetOf(e, t) = TargetOf(d, t) /\ \A q \in Inside(t) : Lands(e, q) = Lands(d, q)
  BY <1>3, SameTarget
<1>5. \A q \in Inside(s) : Lands(e, Across(q, t)) = Lands(d, Across(q, t)) /\ e[q] = d[q]
  BY <1>1, <1>2, <1>4, AcrossIs
<1>. SUFFICES CopyKeeps(e, s, t, left, barred, c)
  BY DEF e
<1>6. ASSUME NEW q \in Places \ (TargetOf(d, t) \cup Inside(s)), d[q] = c PROVE CopyKeeps(e, s, t, left, barred, c)
  <2>1. e[q] = c
    BY <1>1, <1>2, <1>6
  <2>. QED  BY <1>4, <1>6, <2>1 DEF CopyKeeps
<1>7. ASSUME NEW q \in todo, d[q] = c PROVE CopyKeeps(e, s, t, left, barred, c)
  <2>1. e[q] = c
    BY <1>5, <1>7
  <2>2. CASE q \in left
    BY <2>1, <2>2 DEF CopyKeeps
  <2>3. CASE q \notin left
    <3>1. q = p /\ v = d[p] /\ q \in Inside(s) \ left
      BY <2>3
    <3>2. e[Lands(e, Across(q, t))] = c
      BY <1>2, <1>5, <1>7, <3>1
    <3>. QED  BY <2>1, <3>1, <3>2 DEF CopyKeeps
  <2>. QED  BY <2>2, <2>3
<1>8. ASSUME barred, NEW q \in Inside(s), d[q] = c PROVE CopyKeeps(e, s, t, left, barred, c)
  BY <1>5, <1>8 DEF CopyKeeps
<1>9. ASSUME NEW q \in Inside(s) \ todo, d[q] \in {c, "none"}, d[Lands(d, Across(q, t))] = c
      PROVE  CopyKeeps(e, s, t, left, barred, c)
  <2>1. q # p /\ q \in Inside(s) \ left
    BY <1>9
  <2>2. Lands(d, Across(q, t)) # x
    BY <2>1, LandsApart
  <2>3. e[Lands(e, Across(q, t))] = c
    BY <1>2, <1>5, <1>9, <2>2, AcrossIs
  <2>4. e[q] \in {c, "none"}
    BY <1>5, <1>9
  <2>. QED  BY <2>1, <2>3, <2>4 DEF CopyKeeps
<1>. QED  BY <1>6, <1>7, <1>8, <1>9 DEF CopyKeeps

LEMMA ChildPassed ==
    ASSUME NEW d, NEW s \in Items, NEW t \in Items, NEW c \in Contents, NEW todo, NEW barred,
           CopyKeeps(d, s, t, todo, barred, c), NEW p \in todo, d[p] \notin Contents
    PROVE  CopyKeeps(d, s, t, todo \ {p}, barred, c)
BY DEF CopyKeeps

\* The source is removed, wholly or in part.
LEMMA SourceRemoved ==
    ASSUME NEW d, GoodDisk(d), NEW s \in Items, NEW t \in Items, s # t, NEW c \in Contents,
           NEW barred, CopyKeeps(d, s, t, {}, barred, c), d[s] = "folder",
           NEW e, \A q \in Places \ Under(s) : e[q] = d[q],
           \A q \in Inside(s) : e[q] \in {d[q], "none"},
           barred => \A q \in Inside(s) : e[q] = d[q]
    PROVE  AttemptKeeps(e, s, t, c)
<1>1. /\ Inside(s) \cap TargetOf(d, t) = {} /\ s \notin TargetOf(d, t) /\ TargetOf(d, t) \subseteq Places
      /\ Inside(s) \subseteq Places /\ Inside(t) \subseteq Places /\ Inside(t) \subseteq TargetOf(d, t) \cup Inside(t)
  BY AcrossIs, ItemPlaces
<1>2. \A q \in Inside(t) : q \notin Under(s) /\ q \in Places
  BY ItemPlaces, ItemsApart DEF Under
<1>3. TargetOf(e, t) = TargetOf(d, t) /\ \A q \in Inside(t) : Lands(e, q) = Lands(d, q)
  <2>1. \A q \in Inside(t) : e[q] = d[q]
    BY <1>2
  <2>2. \A q \in Inside(t) : (e[q] = "link") <=> (d[q] = "link")
    BY <2>1
  <2>. QED  BY <2>2, SameTarget
<1>4. ASSUME NEW q \in Places \ (TargetOf(d, t) \cup Inside(s)), d[q] = c PROVE AttemptKeeps(e, s, t, c)
  <2>1. q # s
    BY <1>4, FileOpsAssumption
  <2>2. e[q] = c
    BY <1>4, <2>1 DEF Under
  <2>. QED  BY <1>3, <1>4, <2>2 DEF AttemptKeeps
<1>5. ASSUME barred, NEW q \in Inside(s), d[q] = c PROVE AttemptKeeps(e, s, t, c)
  <2>1. e[q] = c /\ q \in Places \ TargetOf(e, t)
    BY <1>1, <1>3, <1>5
  <2>. QED  BY <2>1 DEF AttemptKeeps
<1>6. ASSUME NEW q \in Inside(s), d[q] \in {c, "none"}, d[Lands(d, Across(q, t))] = c PROVE AttemptKeeps(e, s, t, c)
  <2>1. Lands(d, Across(q, t)) \in Places \ Under(s) /\ Across(q, t) \in Inside(t)
    BY <1>1, AcrossIs DEF Under
  <2>2. e[Lands(e, Across(q, t))] = c
    BY <1>3, <1>6, <2>1
  <2>3. e[q] = c \/ e[q] = "none"
    BY <1>6
  <2>4. q \in Places \ TargetOf(e, t)
    BY <1>1, <1>3
  <2>. QED  BY <2>2, <2>3, <2>4 DEF AttemptKeeps
<1>. QED  BY <1>4, <1>5, <1>6 DEF CopyKeeps

\* An item moved in one step.
LEMMA ItemMoved ==
    ASSUME NEW d, GoodDisk(d), NEW s \in Items, NEW t \in Items, s # t, NEW c \in Contents, d[t] # "folder",
           AttemptKeeps(d, s, t, c)
    PROVE  \E p \in Places : PutTree(PutTree(d, t, Tree(d, s)), s, NoTree)[p] = c
<1>. DEFINE m == PutTree(d, t, Tree(d, s))
            e == PutTree(m, s, NoTree)
<1>1. d \in [Places -> Nodes] /\ Tree(d, s) \in Trees /\ NoTree \in Trees
  BY TreeGood, NoTreeGood DEF GoodDisk, GoodTrees
<1>2. /\ m \in [Places -> Nodes] /\ m[t] = Tree(d, s).node
      /\ \A x \in Parts : m[Child(t, x)] = Tree(d, s).inside[x]
      /\ \A p \in Places \ Under(t) : m[p] = d[p]
  BY <1>1, PutTreeIs
<1>. HIDE DEF m
<1>3. \A p \in Places \ Under(s) : e[p] = m[p]
  BY <1>1, <1>2, PutTreeIs
<1>. HIDE DEF e
<1>4. Under(s) \cap Under(t) = {} /\ Under(t) \subseteq Places
  BY UnderApart
<1>5. \A q \in Inside(t) : d[q] = "none" /\ Lands(d, q) = q
  BY GoodDiskIs DEF Lands
<1>6. PICK p \in Places \ TargetOf(d, t) : d[p] = c
  <2>1. \A p \in Inside(s) : d[Lands(d, Across(p, t))] # c
    BY <1>5, AcrossIs, FileOpsAssumption
  <2>. QED  BY <2>1 DEF AttemptKeeps
<1>7. CASE p \in Under(s)
  <2>1. CASE p = s
    <3>1. e[t] = c
      BY <1>1, <1>2, <1>3, <1>4, <1>6, <2>1, TreeIs DEF Under
    <3>. QED  BY <3>1, <1>4 DEF e, m, Under
  <2>2. CASE p \in Inside(s)
    <3>1. p[3] \in Parts /\ p = Child(s, p[3])
      BY <2>2, ItemPlaces
    <3>2. Child(t, p[3]) \in Inside(t)
      BY <3>1, ItemPlaces
    <3>3. e[Child(t, p[3])] = c
      BY <1>1, <1>2, <1>3, <1>4, <1>6, <3>1, <3>2, TreeIs DEF Under
    <3>. QED  BY <3>2, <3>3, <1>4 DEF e, m, Under
  <2>. QED  BY <1>7, <2>1, <2>2 DEF Under
<1>8. CASE p \notin Under(s)
  <2>1. p \notin Under(t)
    BY <1>6 DEF TargetOf
  <2>2. e[p] = c
    BY <1>2, <1>3, <1>6, <1>8, <2>1
  <2>. QED  BY <2>2, <1>6 DEF e, m
<1>. QED  BY <1>7, <1>8

\* What the user has not agreed to give up is apart from a target taken up.
LEMMA NotAtTarget ==
    ASSUME NEW d, GoodDisk(d), NEW s \in Items, NEW t \in Items, NEW c \in Contents, NEW p \in Places, d[p] = c,
           d[t] = "none" \/ (c \notin ContentsIn(Tree(d, t)) /\ (Links(Tree(d, t)) # {} => c # d[Elsewhere]))
    PROVE  AttemptKeeps(d, s, t, c)
<1>1. /\ Tree(d, t).node = d[t] /\ \A x \in Parts : Tree(d, t).inside[x] = d[Child(t, x)]
      /\ \A q \in Inside(t) : q[3] \in Parts /\ q = Child(t, q[3])
  BY TreeIs, ItemPlaces DEF GoodDisk
<1>2. CASE d[t] = "none"
  <2>1. \A q \in Inside(t) : d[q] = "none" /\ Lands(d, q) = q
    BY <1>2, GoodDiskIs, FileOpsAssumption DEF Lands
  <2>2. TargetOf(d, t) \subseteq Under(t) /\ \A q \in Under(t) : d[q] = "none"
    BY <1>2, <2>1 DEF TargetOf, Under
  <2>3. p \notin TargetOf(d, t)
    BY <2>2, FileOpsAssumption
  <2>. QED  BY <2>3 DEF AttemptKeeps
<1>3. CASE c \notin ContentsIn(Tree(d, t)) /\ (Links(Tree(d, t)) # {} => c # d[Elsewhere])
  <2>1. d[t] # c /\ \A q \in Inside(t) : d[q] # c
    BY <1>1, <1>3 DEF ContentsIn
  <2>2. ASSUME NEW q \in Inside(t), d[q] = "link" PROVE c # d[Elsewhere]
    <3>1. q[3] \in Links(Tree(d, t))
      BY <1>1, <2>2 DEF Links
    <3>. QED  BY <1>3, <3>1
  <2>3. \A q \in TargetOf(d, t) : d[q] # c
    BY <2>1, <2>2 DEF TargetOf, Under, Lands
  <2>. QED  BY <2>3 DEF AttemptKeeps
<1>. QED  BY <1>2, <1>3

\* Another program writes at r.
LEMMA WrittenByOthers ==
    ASSUME NEW d, GoodDisk(d), NEW s \in Items, NEW t \in Items, s # t, NEW c \in Contents,
           NEW r \in Places, r # Elsewhere, NEW v \in Contents \cup {"none"}, d[r] \in Contents \cup {"none"}, c # d[r],
           r \in Inside(s) => c # d[Lands(d, Across(r, t))]
    PROVE  /\ AttemptKeeps(d, s, t, c) => AttemptKeeps([d EXCEPT ![r] = v], s, t, c)
           /\ \A todo, barred : CopyKeeps(d, s, t, todo, barred, c) /\ todo \subseteq Inside(s)
                                => CopyKeeps([d EXCEPT ![r] = v], s, t, todo, barred, c)
<1>. DEFINE e == [d EXCEPT ![r] = v]
<1>1. d \in [Places -> Nodes] /\ Inside(t) \subseteq Places /\ Inside(s) \subseteq Places
  BY ItemPlaces DEF GoodDisk
<1>2. e[r] = v /\ \A q \in Places : q # r => e[q] = d[q]
  BY <1>1
<1>. HIDE DEF e
<1>3. \A q \in Inside(t) : (e[q] = "link") <=> (d[q] = "link")
  BY <1>1, <1>2, FileOpsAssumption
<1>4. TargetOf(e, t) = TargetOf(d, t) /\ \A q \in Inside(t) : Lands(e, q) = Lands(d, q)
  BY <1>3, SameTarget
<1>5. \A q \in Inside(s) : Lands(e, Across(q, t)) = Lands(d, Across(q, t)) /\ Lands(d, Across(q, t)) \in Places
  BY <1>4, AcrossIs
<1>6. \A q \in Places : d[q] = c => e[q] = c
  BY <1>2
<1>7. ASSUME NEW q \in Inside(s), d[q] \in {c, "none"}, d[Lands(d, Across(q, t))] = c
      PROVE  e[q] = d[q] /\ e[Lands(e, Across(q, t))] = c
  <2>1. q # r
    BY <1>7
  <2>. QED  BY <1>1, <1>2, <1>5, <1>6, <1>7, <2>1
<1>8. AttemptKeeps(d, s, t, c) => AttemptKeeps(e, s, t, c)
  <2>1. ASSUME NEW p \in Places \ TargetOf(d, t), d[p] = c PROVE AttemptKeeps(e, s, t, c)
    BY <1>4, <1>6, <2>1 DEF AttemptKeeps
  <2>2. ASSUME NEW p \in Inside(s), d[p] = "none", d[Lands(d, Across(p, t))] = c PROVE AttemptKeeps(e, s, t, c)
    BY <1>7, <2>2 DEF AttemptKeeps
  <2>. QED  BY <2>1, <2>2 DEF AttemptKeeps
<1>9. ASSUME NEW todo, NEW barred, CopyKeeps(d, s, t, todo, barred, c), todo \subseteq Inside(s)
      PROVE  CopyKeeps(e, s, t, todo, barred, c)
  <2>1. ASSUME NEW p \in Places \ (TargetOf(d, t) \cup Inside(s)), d[p] = c PROVE CopyKeeps(e, s, t, todo, barred, c)
    BY <1>4, <1>6, <2>1 DEF CopyKeeps
  <2>2. ASSUME NEW p \in todo, d[p] = c PROVE CopyKeeps(e, s, t, todo, barred, c)
    BY <1>1, <1>6, <1>9, <2>2 DEF CopyKeeps
  <2>3. ASSUME barred, NEW p \in Inside(s), d[p] = c PROVE CopyKeeps(e, s, t, todo, barred, c)
    BY <1>1, <1>6, <2>3 DEF CopyKeeps
  <2>4. ASSUME NEW p \in Inside(s) \ todo, d[p] \in {c, "none"}, d[Lands(d, Across(p, t))] = c
        PROVE  CopyKeeps(e, s, t, todo, barred, c)
    BY <1>7, <2>4 DEF CopyKeeps
  <2>. QED  BY <1>9, <2>1, <2>2, <2>3, <2>4 DEF CopyKeeps
<1>. QED  BY <1>8, <1>9 DEF e

-----------------------------------------------------------------------------
(* Copy and move keep every content.                                         *)

InBin(c) == \E b \in bin : c \in ContentsIn(b.tree)
OnDisk(c) == \E p \in Places : disk[p] = c
Doomed(o) == UNION {Under(<<o.from, o.names[n].name>>) : n \in DOMAIN o.names}
Copies(o) == o.kind \in {"copy", "move"}

\* Where a content is kept, by what the operation may still take away.
Kept(c) ==
    /\ OnDisk(c)
    /\ phase \in {"attempt", "error"} /\ Copies(op) => AttemptKeeps(disk, Src, Dst, c)
    /\ phase \in {"walk", "remove"} => CopyKeeps(disk, Src, Dst, op.todo, Barred(Src), c)
    /\ op.kind = "delete" => \E p \in Places \ Doomed(op) : disk[p] = c
KeptInv == owed \subseteq Contents /\ \A c \in owed : InBin(c) \/ Kept(c)

TransferInv == CountInv /\ OpInv /\ GoodInv /\ WalkInv

LEMMA AtItem ==
    ASSUME NEW o, Task(o), Taken(o)
    PROVE  SrcOf(o) \in Items /\ DstOf(o) \in Items /\ o.at \in DOMAIN o.names
<1>1. o.from \in Dirs /\ o.to \in Dirs /\ o.names \in Seq(NamePairs) /\ o.at \in 1..Len(o.names) /\ o.target \in Names
  BY DEF Task, Taken
<1>2. o.names[o.at] \in NamePairs /\ o.at \in DOMAIN o.names
  BY <1>1
<1>3. o.names[o.at].name \in Names
  BY <1>2 DEF NamePairs
<1>. QED  BY <1>1, <1>2, <1>3, PairIsItem DEF SrcOf, DstOf

LEMMA AtDoomed ==
    ASSUME OpInv, phase \in Working
    PROVE  Under(Src) \subseteq Doomed(op)
<1>1. op.at \in DOMAIN op.names
  BY ItemAtWork
<1>2. Under(Src) \in {Under(<<op.from, op.names[n].name>>) : n \in DOMAIN op.names}
  BY <1>1 DEF Src, SrcOf
<1>. QED  BY <1>2 DEF Doomed

\* Between items, and in an item that neither copies nor deletes.
LEMMA StaysOnDisk ==
    ASSUME NEW c, OnDisk(c)', op'.kind # "delete", phase' \notin {"walk", "remove"},
           phase' \in {"attempt", "error"} => ~Copies(op')
    PROVE  Kept(c)'
BY DEF Kept, Copies

\* Nothing is given up at the target an item is taken up for.
Clear(t, c) ==
    disk[t] = "none" \/ (c \notin ContentsIn(Tree(disk, t)) /\ (Links(Tree(disk, t)) # {} => c # disk[Elsewhere]))

LEMMA TakenUp ==
    ASSUME GoodInv, OpInv', SameTask(op', op), NEW c \in Contents, InBin(c) \/ Kept(c), UNCHANGED <<disk, bin>>,
           phase' \in {"next", "end", "conflict", "attempt"},
           phase' = "attempt" /\ Copies(op') => Clear(DstOf(op'), c)
    PROVE  (InBin(c) \/ Kept(c))'
<1>1. CASE InBin(c)
  BY <1>1 DEF InBin
<1>2. CASE Kept(c)
  <2>1. OnDisk(c)'
    BY <1>2 DEF Kept, OnDisk
  <2>2. phase' = "attempt" /\ Copies(op') => AttemptKeeps(disk, SrcOf(op'), DstOf(op'), c)
    <3>. SUFFICES ASSUME phase' = "attempt", Copies(op') PROVE AttemptKeeps(disk, SrcOf(op'), DstOf(op'), c)
      OBVIOUS
    <3>1. Task(op') /\ Taken(op')
      BY DEF OpInv, Working
    <3>2. SrcOf(op') \in Items /\ DstOf(op') \in Items
      BY <3>1, AtItem
    <3>3. PICK p \in Places : disk[p] = c
      BY <1>2 DEF Kept, OnDisk
    <3>. QED  BY <3>2, <3>3, NotAtTarget DEF GoodInv, Clear
  <2>3. op'.kind = "delete" => \E p \in Places \ Doomed(op') : disk[p] = c
    BY <1>2 DEF Kept, SameTask, Doomed
  <2>4. (phase \in {"attempt", "error"} /\ Copies(op) => AttemptKeeps(disk, Src, Dst, c))'
    BY <2>2 DEF Src, Dst
  <2>5. (op.kind = "delete" => \E p \in Places \ Doomed(op) : disk[p] = c)'
    BY <2>3
  <2>. QED  BY <2>1, <2>4, <2>5 DEF Kept
<1>. QED  BY <1>1, <1>2

\* Copy and move, when the attempt is over.
LEMMA EndKeeps ==
    ASSUME CountInv, Copies(op), Ends, NEW c, AttemptKeeps(disk', Src, Dst, c), OnDisk(c)'
    PROVE  Kept(c)'
<1>1. OpShape(op)
  BY DEF CountInv
<1>2. SameItem
  BY <1>1 DEF Ends, Succeeded, AttemptFailed, EscPressed, SameItem, OpShape
<1>3. Src' = Src /\ Dst' = Dst /\ op'.kind = op.kind /\ phase' \notin {"walk", "remove"}
  BY <1>2, SameItemPlaces, EndsWhere DEF SameItem
<1>. QED  BY <1>3 DEF Kept, Copies

LEMMA EndsSame ==
    ASSUME CountInv, Ends
    PROVE  SameTask(op', op) /\ op'.kind = op.kind
<1>1. OpShape(op)
  BY DEF CountInv
<1>. QED  BY <1>1 DEF Ends, Succeeded, AttemptFailed, EscPressed, SameTask, OpShape

LEMMA ThroughLands == \A q : Through(q) = Lands(disk, q)
BY DEF Through, Lands

LEMMA OpensKeeps ==
    ASSUME TransferInv, GoodInv', phase = "attempt", Copies(op), IsDirectory(Src), OpenFolder(Src, Dst), UNCHANGED denied,
           NEW c \in Contents, Kept(c)
    PROVE  Kept(c)'
<1>1. Src \in Items /\ Dst \in Items /\ Src # Dst /\ GoodDisk(disk) /\ GoodDisk(disk') /\ AttemptKeeps(disk, Src, Dst, c)
  BY ItemAtWork, SrcApart DEF TransferInv, GoodInv, Past, Working, Kept, Copies
<1>2. CASE Ends /\ disk' = disk
  BY <1>1, <1>2, AttemptKept, EndKeeps DEF OnDisk, TransferInv
<1>3. CASE phase' = "walk"
  <2>1. /\ SameItem /\ op'.elevated = op.elevated /\ disk' = [disk EXCEPT ![Dst] = "folder"]
        /\ op'.todo = (IF Barred(Src) THEN {} ELSE {p \in Inside(Src) : disk[p] # "none"})
        /\ Src' = Src /\ Dst' = Dst
    BY <1>3, Opened DEF TransferInv, Copies
  <2>2. Barred(Src) \in BOOLEAN /\ Barred(Src)' = Barred(Src)
    BY <2>1 DEF Barred
  <2>3. CopyKeeps(disk', Src, Dst, op'.todo, Barred(Src), c)
    <3>1. disk[Src] = "folder"
      BY DEF IsDirectory
    <3>2. CopyKeeps([disk EXCEPT ![Dst] = "folder"], Src, Dst,
                    IF Barred(Src) THEN {} ELSE {p \in Inside(Src) : disk[p] # "none"}, Barred(Src), c)
      BY <1>1, <2>2, <3>1, FolderOpensKeeps
    <3>. QED  BY <2>1, <3>2
  <2>4. op'.todo \in SUBSET Inside(Src)
    BY <2>1
  <2>5. \E p \in Places : disk'[p] = c
    BY <1>1, <2>3, <2>4, CopyKept, AttemptKept
  <2>. QED  BY <1>3, <2>1, <2>2, <2>3, <2>5 DEF Kept, OnDisk, SameItem, Copies
<1>4. (Ends /\ disk' = disk) \/ phase' = "walk"
  BY DEF OpenFolder, MustFail, FailsBy, Ends
<1>. QED  BY <1>2, <1>3, <1>4

LEMMA CopiedKeeps ==
    ASSUME TransferInv, GoodInv', AttemptCopy, NEW c \in Contents, Kept(c)
    PROVE  Kept(c)'
<1>1. /\ Src \in Items /\ Dst \in Items /\ Src # Dst /\ GoodDisk(disk) /\ GoodDisk(disk') /\ AttemptKeeps(disk, Src, Dst, c)
      /\ Copies(op) /\ phase = "attempt"
  BY ItemAtWork, SrcApart DEF TransferInv, GoodInv, Past, Working, Kept, Copies, AttemptCopy
<1>2. CASE IsDirectory(Src)
  BY <1>1, <1>2, OpensKeeps DEF AttemptCopy, outerVars
<1>3. CASE ~IsDirectory(Src)
  <2>1. CopySingleFile(Src, Dst, Succeeded)
    BY <1>3 DEF AttemptCopy
  <2>2. Ends
    BY <2>1 DEF CopySingleFile, MustFail, FailsBy, Ends
  <2>3. AttemptKeeps(disk', Src, Dst, c)
    <3>1. disk' = disk \/ (disk[Dst] # "folder" /\ \E v : disk' = [disk EXCEPT ![Dst] = v])
      BY <1>1, <2>1, CopyEffects, ThroughIs DEF IsDirectory
    <3>. QED  BY <1>1, <3>1, FileWritten
  <2>. QED  BY <1>1, <2>2, <2>3, AttemptKept, EndKeeps DEF OnDisk, TransferInv
<1>. QED  BY <1>2, <1>3

LEMMA MovesKeep ==
    ASSUME TransferInv, GoodInv', AttemptMove, NEW c \in Contents, Kept(c)
    PROVE  Kept(c)'
<1>1. /\ Src \in Items /\ Dst \in Items /\ Src # Dst /\ GoodDisk(disk) /\ GoodDisk(disk') /\ AttemptKeeps(disk, Src, Dst, c)
      /\ Copies(op) /\ phase = "attempt"
  BY ItemAtWork, SrcApart DEF TransferInv, GoodInv, Past, Working, Kept, Copies, AttemptMove
<1>2. CASE IsDirectory(Src) /\ OpenFolder(Src, Dst)
  BY <1>1, <1>2, OpensKeeps DEF AttemptMove, outerVars
<1>3. CASE disk' = Moved /\ MayReplace /\ Succeeded
  <2>1. disk[Dst] # "folder"
    BY <1>3, FileOpsAssumption DEF MayReplace
  <2>2. \E p \in Places : disk'[p] = c
    BY <1>1, <1>3, <2>1, ItemMoved DEF Moved
  <2>3. phase' = "next" /\ op' = op
    BY <1>3 DEF Succeeded, Over
  <2>. QED  BY <1>1, <2>2, <2>3 DEF Kept, OnDisk, Copies
<1>4. CASE Ends /\ (disk' = disk \/ (disk[Dst] # "folder" /\ \E v : disk' = [disk EXCEPT ![Dst] = v]))
  <2>1. AttemptKeeps(disk', Src, Dst, c)
    BY <1>1, <1>4, FileWritten
  <2>. QED  BY <1>1, <1>4, <2>1, AttemptKept, EndKeeps DEF OnDisk, TransferInv
<1>5. CASE disk' = Write(Src, Dst) /\ MayReplace /\ Succeeded
  <2>1. disk[Dst] # "folder"
    BY <1>5, FileOpsAssumption DEF MayReplace
  <2>. QED  BY <1>1, <1>4, <1>5, <2>1, ThroughIs DEF Write, Ends
<1>6. CASE disk' \in GivenUp(Dst) /\ Ends
  BY <1>1, <1>4, <1>6, ThroughIs DEF GivenUp, IsDirectory
<1>7. CASE disk' = disk /\ Ends
  BY <1>4, <1>7
<1>. QED  BY <1>2, <1>3, <1>5, <1>6, <1>7 DEF AttemptMove, MustFail, FailsBy, Ends

LEMMA ChildKeeps ==
    ASSUME TransferInv, GoodInv', NEW p, CopyChild(p), NEW c \in Contents, Kept(c)
    PROVE  Kept(c)'
<1>1. /\ Src \in Items /\ Dst \in Items /\ Src # Dst /\ GoodDisk(disk) /\ GoodDisk(disk')
      /\ CopyKeeps(disk, Src, Dst, op.todo, Barred(Src), c) /\ Copies(op) /\ phase = "walk"
      /\ op.todo \in SUBSET Inside(Src) /\ p \in op.todo /\ IsDirectory(Dst) /\ p \in Inside(Src)
  BY ItemAtWork, SrcApart DEF TransferInv, GoodInv, OpInv, WalkInv, Past, Working, Kept, Copies, CopyChild
<1>2. ChildDst(p) = Across(p, Dst) /\ Through(ChildDst(p)) = Lands(disk, Across(p, Dst))
  BY ThroughLands DEF ChildDst, Across
<1>3. CASE phase' = "walk"
  <2>1. /\ SameItem /\ op'.todo = op.todo \ {p} /\ op'.elevated = op.elevated
        /\ \/ disk' = disk /\ disk[p] \notin Contents
           \/ disk[p] \in Contents /\ disk' = [disk EXCEPT ![Through(ChildDst(p))] = disk[p]]
    BY <1>3, WalkGoesOn DEF TransferInv
  <2>2. CopyKeeps(disk', Src, Dst, op.todo \ {p}, Barred(Src), c)
    <3>1. CASE disk' = disk /\ disk[p] \notin Contents
      BY <1>1, <3>1, ChildPassed
    <3>2. CASE disk[p] \in Contents /\ disk' = [disk EXCEPT ![Through(ChildDst(p))] = disk[p]]
      BY <1>1, <1>2, <3>2, ChildWritten DEF IsDirectory
    <3>. QED  BY <2>1, <3>1, <3>2
  <2>3. Src' = Src /\ Dst' = Dst /\ Barred(Src)' = Barred(Src)
    BY <2>1, SameItemPlaces DEF Barred, CopyChild, outerVars
  <2>4. op.todo \ {p} \in SUBSET Inside(Src)
    BY <1>1
  <2>5. \E q \in Places : disk'[q] = c
    BY <1>1, <2>2, <2>4, CopyKept, AttemptKept
  <2>. QED  BY <1>1, <1>3, <2>1, <2>2, <2>3, <2>5 DEF Kept, OnDisk, SameItem, Copies
<1>4. CASE Ends
  <2>1. \/ disk' = disk
        \/ disk[p] \in Contents /\ disk' = [disk EXCEPT ![Through(ChildDst(p))] = disk[p]]
        \/ disk' = [disk EXCEPT ![Through(ChildDst(p))] = "none"]
    BY CopyEffects DEF CopyChild
  <2>2. CopyKeeps(disk', Src, Dst, op.todo, Barred(Src), c)
    <3>1. CASE disk' = disk
      BY <1>1, <3>1
    <3>2. CASE disk[p] \in Contents /\ disk' = [disk EXCEPT ![Through(ChildDst(p))] = disk[p]]
      BY <1>1, <1>2, <3>2, ChildWritten DEF IsDirectory
    <3>3. CASE disk' = [disk EXCEPT ![Through(ChildDst(p))] = "none"]
      BY <1>1, <1>2, <3>3, ChildWritten DEF IsDirectory
    <3>. QED  BY <2>1, <3>1, <3>2, <3>3
  <2>3. AttemptKeeps(disk', Src, Dst, c)
    BY <1>1, <2>2, CopyKept
  <2>. QED  BY <1>1, <1>4, <2>3, AttemptKept, EndKeeps DEF OnDisk, TransferInv
<1>5. phase' = "walk" \/ Ends
  BY <1>1 DEF CopyChild, CopySingleFile, MustFail, FailsBy, Ends, Walked
<1>. QED  BY <1>3, <1>4, <1>5

-----------------------------------------------------------------------------
(* Recycle, delete, rename, restore and other programs keep it too.          *)

LEMMA RemovedIs ==
    ASSUME GoodInv, NEW i \in Items
    PROVE  /\ \A q \in Places \ Under(i) : PutTree(disk, i, NoTree)[q] = disk[q]
           /\ \A q \in Under(i) : PutTree(disk, i, NoTree)[q] = "none"
<1>1. /\ \A q \in Places \ Under(i) : PutTree(disk, i, NoTree)[q] = disk[q]
      /\ PutTree(disk, i, NoTree)[i] = NoTree.node
      /\ \A x \in Parts : PutTree(disk, i, NoTree)[Child(i, x)] = NoTree.inside[x]
  <2>1. disk \in [Places -> Nodes] /\ NoTree \in Trees
    BY NoTreeGood DEF GoodInv, GoodDisk, GoodTrees
  <2>. QED  BY <2>1, PutTreeIs
<1>2. \A q \in Inside(i) : q[3] \in Parts /\ q = Child(i, q[3])
  BY ItemPlaces
<1>. QED  BY <1>1, <1>2, NoTreeGood DEF Under

LEMMA PartlyIs ==
    ASSUME NEW i \in Items, NEW e \in PartlyRemoved(i)
    PROVE  /\ \A q \in Places \ Inside(i) : e[q] = disk[q]
           /\ \A q \in Inside(i) : e[q] \in {disk[q], "none"}
           /\ Barred(i) => e = disk
<1>1. Inside(i) \subseteq Places
  BY ItemPlaces
<1>2. CASE e = disk
  BY <1>2
<1>3. ASSUME NEW gone \in SUBSET Inside(i), e = [p \in Places |-> IF p \in gone THEN "none" ELSE disk[p]], ~Barred(i)
      PROVE  /\ \A q \in Places \ Inside(i) : e[q] = disk[q]
             /\ \A q \in Inside(i) : e[q] \in {disk[q], "none"}
  BY <1>1, <1>3
<1>. QED  BY <1>2, <1>3 DEF PartlyRemoved

LEMMA RemoveKeeps ==
    ASSUME TransferInv, GoodInv', RemoveSource, NEW c \in Contents, Kept(c)
    PROVE  Kept(c)'
<1>1. /\ Src \in Items /\ Dst \in Items /\ Src # Dst /\ GoodDisk(disk) /\ GoodDisk(disk')
      /\ CopyKeeps(disk, Src, Dst, {}, Barred(Src), c) /\ Copies(op) /\ disk[Src] = "folder"
  BY ItemAtWork, SrcApart DEF TransferInv, GoodInv, OpInv, WalkInv, Past, Working, Kept, Copies, RemoveSource, IsDirectory
<1>2. Ends
  BY DEF RemoveSource, MustFail, FailsBy, Ends
<1>3. /\ \A q \in Places \ Under(Src) : disk'[q] = disk[q]
      /\ \A q \in Inside(Src) : disk'[q] \in {disk[q], "none"}
      /\ Barred(Src) => \A q \in Inside(Src) : disk'[q] = disk[q]
  <2>1. CASE ~Resists(Src) /\ disk' = PutTree(disk, Src, NoTree)
    <3>1. Barred(Src) => \A q \in Inside(Src) : disk[q] = "none"
      BY <2>1 DEF Resists
    <3>. QED  BY <1>1, <2>1, <3>1, RemovedIs DEF TransferInv, Under
  <2>2. CASE disk' = disk
    BY <2>2
  <2>3. CASE disk' \in PartlyRemoved(Src)
    BY <1>1, <2>3, PartlyIs DEF Under
  <2>. QED  BY <2>1, <2>2, <2>3 DEF RemoveSource, MustFail, FailsBy
<1>4. AttemptKeeps(disk', Src, Dst, c)
  BY <1>1, <1>3, SourceRemoved
<1>. QED  BY <1>1, <1>2, <1>4, AttemptKept, EndKeeps DEF OnDisk, TransferInv

LEMMA InTree ==
    ASSUME GoodInv, NEW i \in Items, NEW p \in Under(i), disk[p] \in Contents
    PROVE  disk[p] \in ContentsIn(Tree(disk, i))
<1>1. Tree(disk, i).node = disk[i] /\ \A x \in Parts : Tree(disk, i).inside[x] = disk[Child(i, x)]
  BY TreeIs DEF GoodInv, GoodDisk
<1>2. p \in Inside(i) => p[3] \in Parts /\ p = Child(i, p[3])
  BY ItemPlaces
<1>. QED  BY <1>1, <1>2 DEF ContentsIn, Under

LEMMA RecycleKeeps ==
    ASSUME TransferInv, AttemptRecycle(clock), NEW c \in Contents, InBin(c) \/ Kept(c)
    PROVE  (InBin(c) \/ Kept(c))'
<1>1. Src \in Items /\ op.kind = "recycle" /\ Ends /\ CountInv
  BY ItemAtWork DEF TransferInv, AttemptRecycle, Working, MustFail, FailsBy, Ends
<1>2. op'.kind = "recycle" /\ phase' \notin {"walk", "remove"} /\ ~Copies(op')
  BY <1>1, EndsSame, EndsWhere DEF Copies
<1>3. bin \subseteq bin'
  BY DEF AttemptRecycle
<1>4. CASE InBin(c)
  BY <1>3, <1>4 DEF InBin
<1>5. CASE Kept(c) /\ disk' = disk
  BY <1>2, <1>5, StaysOnDisk DEF Kept, OnDisk
<1>6. CASE Kept(c) /\ disk' = PutTree(disk, Src, NoTree) /\ bin' = bin \cup {[item |-> Src, tree |-> Tree(disk, Src), when |-> clock]}
  <2>1. PICK p \in Places : disk[p] = c
    BY <1>6 DEF Kept, OnDisk
  <2>2. CASE p \in Under(Src)
    <3>1. c \in ContentsIn(Tree(disk, Src))
      BY <1>1, <2>1, <2>2, InTree DEF TransferInv
    <3>2. [item |-> Src, tree |-> Tree(disk, Src), when |-> clock] \in bin'
      BY <1>6
    <3>3. \E b \in bin' : c \in ContentsIn(b.tree)
      BY <3>1, <3>2
    <3>. QED  BY <3>3 DEF InBin
  <2>3. CASE p \notin Under(Src)
    <3>1. disk'[p] = c
      BY <1>1, <1>6, <2>1, <2>3, RemovedIs DEF TransferInv
    <3>. QED  BY <1>2, <3>1, StaysOnDisk DEF OnDisk
  <2>. QED  BY <2>2, <2>3
<1>. QED  BY <1>4, <1>5, <1>6 DEF AttemptRecycle, MustFail, FailsBy

LEMMA DeleteKeeps ==
    ASSUME TransferInv, AttemptDelete, NEW c \in Contents, Kept(c)
    PROVE  Kept(c)'
<1>1. Src \in Items /\ op.kind = "delete" /\ Ends /\ CountInv /\ Under(Src) \subseteq Doomed(op)
  BY ItemAtWork, AtDoomed DEF TransferInv, AttemptDelete, Working, MustFail, FailsBy, Ends
<1>2. op'.kind = "delete" /\ SameTask(op', op) /\ phase' \notin {"walk", "remove"}
  BY <1>1, EndsSame, EndsWhere
<1>3. Doomed(op') = Doomed(op)
  BY <1>2 DEF SameTask, Doomed
<1>4. PICK p \in Places \ Doomed(op) : disk[p] = c
  BY <1>1 DEF Kept
<1>5. disk'[p] = c
  <2>1. p \in Places \ Under(Src) /\ p \in Places \ Inside(Src)
    BY <1>1, <1>4 DEF Under
  <2>2. disk' = PutTree(disk, Src, NoTree) \/ disk' = disk \/ disk' \in PartlyRemoved(Src)
    BY DEF AttemptDelete, MustFail, FailsBy
  <2>. QED  BY <1>1, <1>4, <2>1, <2>2, RemovedIs, PartlyIs DEF TransferInv
<1>6. OnDisk(c)'
  BY <1>4, <1>5 DEF OnDisk
<1>7. \E q \in Places \ Doomed(op') : disk'[q] = c
  BY <1>3, <1>4, <1>5
<1>. QED  BY <1>2, <1>6, <1>7 DEF Kept, Copies

\* An item moved to where nothing is.
LEMMA RenamedKeeps ==
    ASSUME NEW d, GoodDisk(d), NEW i \in Items, NEW j \in Items, d[i] # "none", d[j] = "none",
           NEW c \in Contents, \E p \in Places : d[p] = c
    PROVE  \E p \in Places : PutTree(PutTree(d, j, Tree(d, i)), i, NoTree)[p] = c
<1>1. AttemptKeeps(d, i, j, c)
  BY NotAtTarget
<1>. QED  BY <1>1, ItemMoved, FileOpsAssumption

LEMMA RenameKeeps ==
    ASSUME TransferInv, AttemptRename, NEW c \in Contents, Kept(c)
    PROVE  Kept(c)'
<1>1. Src \in Items /\ Dst \in Items /\ op.kind = "rename" /\ Ends /\ CountInv /\ GoodDisk(disk)
  BY ItemAtWork DEF TransferInv, AttemptRename, RenameItem, Working, MustFail, FailsBy, Ends, GoodInv
<1>2. op'.kind = "rename" /\ phase' \notin {"walk", "remove"} /\ ~Copies(op')
  BY <1>1, EndsSame, EndsWhere DEF Copies
<1>3. \E p \in Places : disk[p] = c
  BY DEF Kept, OnDisk
<1>4. \E p \in Places : disk'[p] = c
  BY <1>1, <1>3, RenamedKeeps DEF AttemptRename, RenameItem, MustFail, FailsBy
<1>. QED  BY <1>2, <1>4, StaysOnDisk DEF OnDisk

LEMMA RestoreKeeps ==
    ASSUME TransferInv, AttemptRestore, NEW c \in Contents, InBin(c) \/ Kept(c)
    PROVE  (InBin(c) \/ Kept(c))'
<1>1. op.kind = "restore" /\ Ends /\ CountInv /\ GoodDisk(disk)
  BY DEF TransferInv, AttemptRestore, MustFail, FailsBy, Ends, GoodInv
<1>2. op'.kind = "restore" /\ phase' \notin {"walk", "remove"} /\ ~Copies(op')
  BY <1>1, EndsSame, EndsWhere DEF Copies
<1>3. CASE UNCHANGED <<disk, bin>>
  <2>1. Kept(c) => OnDisk(c)'
    BY <1>3 DEF Kept, OnDisk
  <2>. QED  BY <1>2, <1>3, <2>1, StaysOnDisk DEF InBin
<1>4. ASSUME NEW b \in bin, disk[b.item] = "none", disk' = PutTree(disk, b.item, b.tree), bin' = bin \ {b}
      PROVE  (InBin(c) \/ Kept(c))'
  <2>1. b.item \in Items /\ b.tree \in Trees
    BY DEF TransferInv, GoodInv, GoodTrees
  <2>2. /\ disk'[b.item] = b.tree.node /\ b.item \in Places
        /\ \A x \in Parts : disk'[Child(b.item, x)] = b.tree.inside[x] /\ Child(b.item, x) \in Places
        /\ \A p \in Places \ Under(b.item) : disk'[p] = disk[p]
    BY <1>1, <1>4, <2>1, PutTreeIs, ItemPlaces DEF GoodDisk
  <2>3. CASE c \in ContentsIn(b.tree)
    <3>1. OnDisk(c)'
      BY <2>2, <2>3 DEF OnDisk, ContentsIn
    <3>. QED  BY <1>2, <3>1, StaysOnDisk
  <2>4. CASE InBin(c) /\ c \notin ContentsIn(b.tree)
    BY <1>4, <2>4 DEF InBin
  <2>5. CASE Kept(c)
    <3>1. PICK p \in Places : disk[p] = c
      BY <2>5 DEF Kept, OnDisk
    <3>2. p \notin Under(b.item)
      <4>1. \A q \in Under(b.item) : disk[q] = "none"
        BY <1>1, <1>4, <2>1, GoodDiskIs, FileOpsAssumption DEF Under
      <4>. QED  BY <3>1, <4>1, FileOpsAssumption
    <3>3. OnDisk(c)'
      BY <2>2, <3>1, <3>2 DEF OnDisk
    <3>. QED  BY <1>2, <3>3, StaysOnDisk
  <2>. QED  BY <2>3, <2>4, <2>5
<1>. QED  BY <1>3, <1>4 DEF AttemptRestore, Newest, FoundInBin, MustFail, FailsBy, Exists

LEMMA OthersKeep ==
    ASSUME TransferInv, NEW p \in Places, NEW content \in Contents \cup {"none"}, OtherProgramWrites(p, content),
           NEW c \in owed', owed \subseteq Contents, c \in owed => InBin(c) \/ Kept(c)
    PROVE  (InBin(c) \/ Kept(c))'
<1>1. /\ p # Elsewhere /\ disk[p] \in Contents \cup {"none"} /\ disk' = [disk EXCEPT ![p] = content]
      /\ UNCHANGED <<bin, op, phase, denied>> /\ disk \in [Places -> Nodes] /\ GoodDisk(disk)
  BY DEF OtherProgramWrites, TransferInv, GoodInv, GoodDisk
<1>2. disk'[p] = content /\ \A q \in Places : q # p => disk'[q] = disk[q]
  BY <1>1
<1>3. Src' = Src /\ Dst' = Dst /\ Barred(Src)' = Barred(Src)
  BY <1>1 DEF Src, Dst, SrcOf, DstOf, Barred
<1>4. CASE phase = "idle" /\ c = content
  <2>1. OnDisk(c)'
    BY <1>2, <1>4 DEF OnDisk
  <2>2. op'.kind = "none" /\ phase' = "idle"
    <3>1. op = Idle
      BY <1>4 DEF TransferInv, CountInv
    <3>2. Idle.kind = "none"
      BY DEF Idle
    <3>. QED  BY <1>1, <1>4, <3>1, <3>2
  <2>. QED  BY <2>1, <2>2, StaysOnDisk
<1>5. CASE c \in owed /\ c # disk[p] /\ c # disk[Through(Counterpart(p))]
  <2>1. c \in Contents
    BY <1>5
  <2>2. CASE InBin(c)
    BY <1>1, <2>2 DEF InBin
  <2>3. CASE Kept(c)
    <3>1. OnDisk(c)'
      <4>1. PICK q \in Places : disk[q] = c
        BY <2>3 DEF Kept, OnDisk
      <4>2. disk'[q] = c
        BY <1>2, <1>5, <4>1
      <4>. QED  BY <4>2 DEF OnDisk
    <3>2. op'.kind = "delete" => \E q \in Places \ Doomed(op') : disk'[q] = c
      BY <1>1, <1>2, <1>5, <2>3 DEF Kept
    <3>3. ASSUME phase \in Past, Copies(op)
          PROVE  /\ AttemptKeeps(disk, Src, Dst, c) => AttemptKeeps(disk', Src, Dst, c)
                 /\ \A todo, barred : CopyKeeps(disk, Src, Dst, todo, barred, c) /\ todo \subseteq Inside(Src)
                                      => CopyKeeps(disk', Src, Dst, todo, barred, c)
      <4>1. Src \in Items /\ Dst \in Items /\ Src # Dst
        BY <3>3, ItemAtWork, SrcApart DEF TransferInv, Past, Working, Copies
      <4>2. p \in Inside(Src) => c # disk[Lands(disk, Across(p, Dst))]
        <5>1. SUFFICES ASSUME p \in Inside(Src) PROVE c # disk[Lands(disk, Across(p, Dst))]
          OBVIOUS
        <5>2. Len(p) = 3 /\ <<p[1], p[2]>> = Src
          BY <4>1, <5>1, ItemParts DEF Inside
        <5>3. op.at > 0
          BY <3>3 DEF TransferInv, OpInv, Taken, Past, Working, Task
        <5>4. Counterpart(p) = Across(p, Dst)
          BY <5>2, <5>3 DEF Counterpart, ChildDst, Across
        <5>. QED  BY <1>5, <5>4, ThroughLands
      <4>. QED  BY <1>1, <1>5, <2>1, <4>1, <4>2, WrittenByOthers
    <3>4. phase' \in {"attempt", "error"} /\ Copies(op') => AttemptKeeps(disk', Src, Dst, c)
      BY <1>1, <2>3, <3>3 DEF Kept, Past
    <3>5. phase' \in {"walk", "remove"} => CopyKeeps(disk', Src, Dst, op'.todo, Barred(Src), c)
      <4>1. SUFFICES ASSUME phase \in {"walk", "remove"} PROVE CopyKeeps(disk', Src, Dst, op.todo, Barred(Src), c)
        BY <1>1
      <4>2. Copies(op) /\ op.todo \subseteq Inside(Src) /\ CopyKeeps(disk, Src, Dst, op.todo, Barred(Src), c)
        BY <2>3, <4>1 DEF Kept, TransferInv, OpInv, WalkInv, Copies
      <4>. QED  BY <3>3, <4>1, <4>2 DEF Past
    <3>. QED  BY <1>3, <3>1, <3>2, <3>4, <3>5 DEF Kept
  <2>. QED  BY <1>5, <2>2, <2>3
<1>. QED  BY <1>4, <1>5 DEF OtherProgramWrites

-----------------------------------------------------------------------------
(* Taking an item up, and the answers of the user.                           *)

\* How an item is taken up, and what may be given up with it.
LEMMA ConsentKeeps ==
    ASSUME GoodInv, OpInv', NEW o, Took(o), Consent(o), UNCHANGED <<disk, bin>>,
           SameTask(op', op), DstOf(op') = DstOf(o), phase' \in {"next", "attempt"},
           NEW c \in owed', c \in Contents, InBin(c) \/ Kept(c)
    PROVE  (InBin(c) \/ Kept(c))'
<1>1. Clear(DstOf(o), c)
  BY DEF Consent, Clear
<1>. QED  BY <1>1, TakenUp

LEMMA ChosenKeeps ==
    ASSUME GoodInv, OpInv', NEW o, Took(o), NEW choice, Choose(o, choice), UNCHANGED <<disk, bin>>,
           NEW c \in owed', c \in Contents, InBin(c) \/ Kept(c)
    PROVE  (InBin(c) \/ Kept(c))'
<1>1. CASE op' = o /\ phase' \in {"next", "end"}
  BY <1>1, TakenUp DEF Took
<1>2. CASE Proceed([o EXCEPT !.overwrite = TRUE]) /\ Consent(o)
  <2>. DEFINE p == [o EXCEPT !.overwrite = TRUE]
  <2>1. op' = p /\ phase' \in {"next", "attempt"}
    BY <1>2 DEF Proceed, Over
  <2>2. SameTask(p, op) /\ DstOf(p) = DstOf(o)
    BY DEF Took, SameTask, OpShape, DstOf
  <2>. QED  BY <1>2, <2>1, <2>2, ConsentKeeps
<1>. QED  BY <1>1, <1>2 DEF Choose, Cancelled, Over

LEMMA StartsKeep ==
    ASSUME GoodInv, OpInv', NEW o, Took(o), StartItem(o), UNCHANGED <<disk, bin>>, o.seen = KindOf(DstOf(o)),
           NEW c \in owed', c \in Contents, InBin(c) \/ Kept(c)
    PROVE  (InBin(c) \/ Kept(c))'
<1>1. ASSUME op' = o, phase' \in {"next", "end", "conflict"} PROVE (InBin(c) \/ Kept(c))'
  BY <1>1, TakenUp DEF Took
<1>2. ASSUME op' = o, ~Copies(o), phase' = "attempt" PROVE (InBin(c) \/ Kept(c))'
  BY <1>2, TakenUp DEF Took
<1>3. ASSUME Proceed(o), o.seen = "none" PROVE (InBin(c) \/ Kept(c))'
  <2>1. op' = o /\ phase' \in {"next", "attempt"}
    BY <1>3 DEF Proceed, Over
  <2>2. disk[DstOf(o)] = "none"
    BY <1>3 DEF KindOf
  <2>. QED  BY <2>1, <2>2, TakenUp DEF Clear, Took
<1>4. ASSUME NEW choice, Choose(o, choice) PROVE (InBin(c) \/ Kept(c))'
  BY <1>4, ChosenKeeps
<1>. QED  BY <1>1, <1>2, <1>3, <1>4 DEF StartItem, Clashes, Copies, Over

LEMMA NextItemKeeps ==
    ASSUME TransferInv, OpInv', NextItem, NEW c \in owed', c \in Contents, InBin(c) \/ Kept(c)
    PROVE  (InBin(c) \/ Kept(c))'
<1>1. UNCHANGED <<disk, bin>> /\ OpInv /\ CountInv /\ GoodInv
  BY DEF NextItem, TransferInv
<1>2. CASE UNCHANGED op /\ phase' = "end"
  BY <1>1, <1>2, TakenUp DEF SameTask
<1>3. CASE ~LoopEnds /\ StartItem(NextTaken)
  BY <1>1, <1>3, NextIsTaken, StartsKeep
<1>. QED  BY <1>2, <1>3 DEF NextItem, EscPressed, Cancelled, NextTaken

LEMMA AnswerConflictKeeps ==
    ASSUME TransferInv, OpInv', AnswerConflict, NEW c \in owed', c \in Contents, InBin(c) \/ Kept(c)
    PROVE  (InBin(c) \/ Kept(c))'
<1>1. UNCHANGED <<disk, bin>> /\ OpInv /\ CountInv /\ GoodInv /\ phase \in Working /\ op.target \in Names /\ op.typed \in BOOLEAN
      /\ OpShape(op) /\ ~op.undo
  BY DEF AnswerConflict, TransferInv, Working, OpInv, Taken, Task, CountInv
<1>2. Took(op)
  BY <1>1, TookOp
<1>3. ASSUME NEW choice, Choose(op, choice) PROVE (InBin(c) \/ Kept(c))'
  BY <1>1, <1>2, <1>3, ChosenKeeps
<1>4. ASSUME NEW choice, Choose([op EXCEPT !.blanket = choice], choice) PROVE (InBin(c) \/ Kept(c))'
  <2>. DEFINE o == [op EXCEPT !.blanket = choice]
  <2>1. Alike(o, op) /\ o.target = op.target /\ o.typed = op.typed
    BY <1>1 DEF OpShape, Alike
  <2>2. Choose(o, choice)
    BY <1>4
  <2>. HIDE DEF o
  <2>3. Took(o)
    BY <1>1, <2>1, AlikeTook
  <2>. QED  BY <1>1, <2>2, <2>3, ChosenKeeps
<1>5. ASSUME NEW name \in Names, NEW seen, Proceed([op EXCEPT !.target = name, !.typed = TRUE, !.seen = seen]),
             Consent([op EXCEPT !.target = name, !.typed = TRUE, !.seen = seen])
      PROVE  (InBin(c) \/ Kept(c))'
  <2>. DEFINE o == [op EXCEPT !.target = name, !.typed = TRUE, !.seen = seen]
  <2>1. Took(o)
    BY <1>1, TypedTook
  <2>2. Proceed(o) /\ Consent(o)
    BY <1>5
  <2>. HIDE DEF o
  <2>3. op' = o /\ phase' \in {"next", "attempt"} /\ SameTask(op', op)
    BY <2>1, <2>2 DEF Proceed, Over, Took
  <2>. QED  BY <1>1, <2>1, <2>2, <2>3, ConsentKeeps
<1>. QED  BY <1>3, <1>4, <1>5 DEF AnswerConflict

LEMMA AnswerErrorKeeps ==
    ASSUME TransferInv, AnswerError, NEW c \in owed', c \in Contents, InBin(c) \/ Kept(c)
    PROVE  (InBin(c) \/ Kept(c))'
<1>1. UNCHANGED <<disk, bin, denied>> /\ OpShape(op) /\ phase = "error"
  BY DEF AnswerError, TransferInv, CountInv, outerVars
<1>2. SameItem
  BY <1>1 DEF AnswerError, Over, Cancelled, SameItem, OpShape
<1>3. Src' = Src /\ Dst' = Dst /\ op'.kind = op.kind /\ Doomed(op') = Doomed(op)
  BY <1>2, SameItemPlaces DEF SameItem, Doomed
<1>4. phase' \in {"attempt", "next", "end"}
  BY DEF AnswerError, Over, Cancelled
<1>5. InBin(c) => InBin(c)'
  BY <1>1 DEF InBin
<1>6. ASSUME Kept(c) PROVE Kept(c)'
  <2>1. OnDisk(c)' /\ (op'.kind = "delete" => \E p \in Places \ Doomed(op') : disk'[p] = c)
    BY <1>1, <1>3, <1>6 DEF Kept, OnDisk
  <2>2. Copies(op') => AttemptKeeps(disk', Src', Dst', c)
    BY <1>1, <1>3, <1>6 DEF Kept, Copies
  <2>. QED  BY <1>4, <2>1, <2>2 DEF Kept
<1>. QED  BY <1>5, <1>6

LEMMA FolderDoneKeeps ==
    ASSUME TransferInv, FolderCopied, NEW c \in Contents, Kept(c)
    PROVE  Kept(c)'
<1>1. UNCHANGED <<disk, denied, op>> /\ phase = "walk" /\ Copies(op) /\ phase' \in {"next", "remove"}
  BY DEF FolderCopied, Succeeded, Over, outerVars, TransferInv, OpInv, Copies
<1>2. Src' = Src /\ Dst' = Dst /\ Barred(Src)' = Barred(Src) /\ op'.todo = op.todo
  BY <1>1 DEF Src, Dst, SrcOf, DstOf, Barred
<1>3. OnDisk(c)' /\ CopyKeeps(disk', Src', Dst', op'.todo, Barred(Src)', c)
  BY <1>1, <1>2 DEF Kept, OnDisk
<1>. QED  BY <1>1, <1>3 DEF Kept, Copies

-----------------------------------------------------------------------------
(* Together: the transfer invariant.                                         *)

LEMMA BeginKeeps ==
    ASSUME TransferInv, NEW r \in Requests, PerformCopyOrMove(r) \/ DoDelete(r),
           NEW c \in owed', c \in Contents, InBin(c) \/ Kept(c)
    PROVE  (InBin(c) \/ Kept(c))'
<1>1. op' = Operation(r) /\ phase' = "next" /\ UNCHANGED <<disk, bin>> /\ GoodInv
  BY DEF PerformCopyOrMove, DoDelete, Begin, TransferInv
<1>2. InBin(c) => InBin(c)'
  BY <1>1 DEF InBin
<1>3. ASSUME Kept(c) PROVE Kept(c)'
  <2>1. PICK p \in Places : disk[p] = c
    BY <1>3 DEF Kept, OnDisk
  <2>2. OnDisk(c)'
    BY <1>1, <2>1 DEF OnDisk
  <2>3. op'.kind = r.kind /\ op'.from = r.from /\ op'.names = r.names
    BY <1>1, OperationTask
  <2>4. CASE r.kind # "delete"
    BY <1>1, <2>2, <2>3, <2>4, StaysOnDisk
  <2>5. CASE r.kind = "delete"
    <3>1. owed' = owed \ UNION {ContentsIn(Tree(disk, <<r.from, r.names[n].name>>)) : n \in DOMAIN r.names}
      BY <2>5 DEF PerformCopyOrMove, DoDelete
    <3>2. ASSUME NEW n \in DOMAIN r.names PROVE p \notin Under(<<r.from, r.names[n].name>>)
      <4>1. c \notin ContentsIn(Tree(disk, <<r.from, r.names[n].name>>))
        BY <3>1
      <4>2. r.names[n] \in [name : Names, target : Names] /\ r.from \in Dirs
        <5>1. r.from \in Dirs /\ r.names \in Seq([name : Names, target : Names])
          BY RequestsAssumption
        <5>2. \A T, s : s \in Seq(T) => \A m \in DOMAIN s : s[m] \in T
          OBVIOUS
        <5>. QED  BY <5>1, <5>2, Zenon
      <4>3. <<r.from, r.names[n].name>> \in Items
        BY <4>2, PairIsItem
      <4>. QED  BY <1>1, <2>1, <4>1, <4>3, InTree
    <3>3. p \notin Doomed(op')
      BY <2>3, <3>2 DEF Doomed
    <3>. QED  BY <1>1, <2>1, <2>2, <2>3, <2>5, <3>3 DEF Kept, Copies
  <2>. QED  BY <2>4, <2>5
<1>. QED  BY <1>2, <1>3

LEMMA DoRenameKeeps ==
    ASSUME TransferInv, NEW r \in Requests, DoRename(r), NEW c \in Contents, InBin(c) \/ Kept(c)
    PROVE  (InBin(c) \/ Kept(c))'
<1>1. InBin(c) => InBin(c)'
  BY DEF DoRename, InBin
<1>2. ASSUME Kept(c) PROVE Kept(c)'
  <2>0. r.from \in Dirs /\ r.names \in Seq(NamePairs) /\ r.names # <<>>
    BY RequestsAssumption DEF NamePairs
  <2>1. r.names[1] \in NamePairs /\ 1 \in DOMAIN r.names
    BY <2>0
  <2>2. <<r.from, r.names[1].name>> \in Items /\ <<r.from, r.names[1].target>> \in Items
    BY <2>0, <2>1, PairIsItem DEF NamePairs
  <2>3. disk[<<r.from, r.names[1].name>>] # "none"
    BY <2>1 DEF DoRename, Marked
  <2>4. \E p \in Places : disk'[p] = c
    BY <1>2, <2>2, <2>3, RenamedKeeps DEF DoRename, TransferInv, GoodInv, Kept, OnDisk
  <2>5. op = Idle /\ op' = op /\ phase' = "idle"
    BY DEF TransferInv, CountInv, DoRename
  <2>6. op'.kind # "delete"
    BY <2>5 DEF Idle
  <2>. QED  BY <2>4, <2>5, <2>6, StaysOnDisk DEF OnDisk
<1>. QED  BY <1>1, <1>2

LEMMA BetweenKeeps ==
    ASSUME TransferInv, OpInv', EndOperation \/ EndUndo \/ DoUndo \/ AnswerUndo, NEW c \in Contents, InBin(c) \/ Kept(c)
    PROVE  (InBin(c) \/ Kept(c))'
<1>1. UNCHANGED <<disk, bin>> /\ phase' \in {"idle", "confirm", "next"}
  BY DEF EndOperation, EndUndo, DoUndo, AnswerUndo, BackToIdle
<1>2. op'.kind # "delete"
  <2>1. CASE op' = Idle
    BY <2>1 DEF Idle
  <2>2. CASE op' = UndoOp(undoing) /\ phase = "confirm"
    <3>1. undoing \in GoodEntries
      BY <2>2 DEF TransferInv, OpInv
    <3>2. undoing.kind \in EntryKinds
      BY <3>1 DEF GoodEntries, Entries
    <3>. QED  BY <2>2, <3>1, <3>2, UndoTask DEF EntryKinds
  <2>. QED  BY <2>1, <2>2 DEF EndOperation, EndUndo, DoUndo, AnswerUndo, BackToIdle, TransferInv, CountInv
<1>3. InBin(c) => InBin(c)'
  BY <1>1 DEF InBin
<1>4. Kept(c) => OnDisk(c)'
  BY <1>1 DEF Kept, OnDisk
<1>. QED  BY <1>1, <1>2, <1>3, <1>4, StaysOnDisk

LEMMA SameKept ==
    ASSUME UNCHANGED allVars, NEW c, InBin(c) \/ Kept(c)
    PROVE  (InBin(c) \/ Kept(c))'
BY DEF allVars, fileVars, outerVars, InBin, Kept, OnDisk, Src, Dst, SrcOf, DstOf, Barred, Doomed, Copies

LEMMA InitKept == Init => KeptInv
<1>. SUFFICES ASSUME Init PROVE KeptInv
  OBVIOUS
<1>1. op.kind = "none" /\ phase = "idle" /\ owed = {disk[p] : p \in Places} \cap Contents
  BY DEF Init, Idle
<1>. QED  BY <1>1 DEF KeptInv, Kept, OnDisk, Copies

LEMMA NextKept ==
    ASSUME TransferInv, OpInv', GoodInv', KeptInv, [Next]_allVars
    PROVE  KeptInv'
<1>1. owed' \subseteq Contents
  <2>1. ASSUME NEW w \in Writes, OtherProgramWrites(w[1], w[2]) PROVE owed' \subseteq Contents
    BY <2>1 DEF OtherProgramWrites, KeptInv
  <2>2. owed' \subseteq owed \/ \E w \in Writes : OtherProgramWrites(w[1], w[2])
    BY DEF Next, Engine, EngineStep, UserStarts, NextItem, AnswerConflict, AnswerError, StartItem, Choose, Consent, AttemptCopy,
           AttemptMove, AttemptRecycle, AttemptDelete, AttemptRename, AttemptRestore, CopyChild, FolderCopied, RemoveSource,
           PerformCopyOrMove, DoDelete, DoRename, EndOperation, EndUndo, DoUndo, AnswerUndo, allVars, fileVars
  <2>. QED  BY <2>1, <2>2 DEF KeptInv
<1>2. ASSUME NEW w \in Writes, OtherProgramWrites(w[1], w[2]), NEW c \in owed' PROVE (InBin(c) \/ Kept(c))'
  <2>1. w[1] \in Places /\ w[2] \in Contents \cup {"none"}
    BY OthersAssumption
  <2>. QED  BY <1>2, <2>1, OthersKeep DEF KeptInv
<1>3. ASSUME ~ \E w \in Writes : OtherProgramWrites(w[1], w[2]), NEW c \in owed' PROVE (InBin(c) \/ Kept(c))'
  <2>1. owed' \subseteq owed
    BY <1>3 DEF Next, Engine, EngineStep, UserStarts, NextItem, AnswerConflict, AnswerError, StartItem, Choose, Consent, AttemptCopy,
           AttemptMove, AttemptRecycle, AttemptDelete, AttemptRename, AttemptRestore, CopyChild, FolderCopied, RemoveSource,
           PerformCopyOrMove, DoDelete, DoRename, EndOperation, EndUndo, DoUndo, AnswerUndo, allVars, fileVars
  <2>2. c \in Contents /\ (InBin(c) \/ Kept(c))
    BY <2>1 DEF KeptInv
  <2>3. CASE NextItem \/ AnswerConflict \/ AnswerError
    BY <2>2, <2>3, NextItemKeeps, AnswerConflictKeeps, AnswerErrorKeeps
  <2>4. CASE AttemptRecycle(clock) \/ AttemptRestore
    BY <2>2, <2>4, RecycleKeeps, RestoreKeeps
  <2>5. CASE AttemptCopy \/ AttemptMove \/ AttemptDelete \/ AttemptRename \/ FolderCopied \/ RemoveSource \/ \E p \in Places : CopyChild(p)
    <3>1. UNCHANGED bin
      BY <2>5 DEF AttemptCopy, AttemptMove, AttemptDelete, AttemptRename, FolderCopied, RemoveSource, CopyChild
    <3>2. Kept(c) => Kept(c)'
      BY <2>2, <2>5, CopiedKeeps, MovesKeep, DeleteKeeps, RenameKeeps, FolderDoneKeeps, RemoveKeeps, ChildKeeps
    <3>. QED  BY <2>2, <3>1, <3>2 DEF InBin
  <2>6. ASSUME NEW r \in Requests, PerformCopyOrMove(r) \/ DoDelete(r) PROVE (InBin(c) \/ Kept(c))'
    BY <2>2, <2>6, BeginKeeps
  <2>7. ASSUME NEW r \in Requests, DoRename(r) PROVE (InBin(c) \/ Kept(c))'
    BY <2>2, <2>7, DoRenameKeeps
  <2>8. CASE EndOperation \/ EndUndo \/ DoUndo \/ AnswerUndo
    BY <2>2, <2>8, BetweenKeeps
  <2>9. CASE UNCHANGED allVars
    BY <2>2, <2>9, SameKept
  <2>. QED  BY <1>3, <2>3, <2>4, <2>5, <2>6, <2>7, <2>8, <2>9 DEF Next, Engine, EngineStep, UserStarts
<1>. QED  BY <1>1, <1>2, <1>3 DEF KeptInv

LEMMA InitGood == Init => GoodInv /\ WalkInv
<1>. SUFFICES ASSUME Init PROVE GoodInv /\ WalkInv
  OBVIOUS
<1>1. PICK s \in Starts : disk = s.disk
  BY DEF Init
<1>2. GoodDisk(disk)
  BY <1>1, StartsAssumption, LinksApartGood
<1>. QED  BY <1>2 DEF GoodInv, WalkInv, Init

\* The whole of it is inductive: the counts, the loop's record, the disk in
\* order, the walk over a folder, and where each content is kept.
THEOREM TransferInvariant == Spec => [](TransferInv /\ KeptInv)
<1>1. Init => TransferInv /\ KeptInv
  BY InitCounts, InitOp, InitGood, InitKept DEF TransferInv
<1>2. TransferInv /\ KeptInv /\ [Next]_allVars => (TransferInv /\ KeptInv)'
  <2>. SUFFICES ASSUME TransferInv, KeptInv, [Next]_allVars PROVE (TransferInv /\ KeptInv)'
    OBVIOUS
  <2>1. CountInv'
    BY NextCounts DEF TransferInv
  <2>2. OpInv'
    BY NextOp DEF TransferInv, GoodInv, GoodDisk
  <2>3. GoodInv'
    BY NextGood DEF TransferInv
  <2>4. WalkInv'
    BY NextWalk DEF TransferInv
  <2>5. KeptInv'
    BY <2>2, <2>3, NextKept
  <2>. QED  BY <2>1, <2>2, <2>3, <2>4, <2>5 DEF TransferInv
<1>. QED  BY <1>1, <1>2, PTL DEF Spec

\* No step of an operation takes the last copy of a content away that nobody
\* agreed to give up (NothingLost).
THEOREM ContentsAreKept == Spec => []NothingLost
<1>1. TransferInv /\ KeptInv => NothingLost
  BY DEF KeptInv, Kept, InBin, OnDisk, NothingLost
<1>. QED  BY <1>1, TransferInvariant, PTL

-----------------------------------------------------------------------------
(* What is counted as done is there.                                         *)

\* What the walk over a folder has passed is at the target.
CopiedInv ==
    phase \in {"walk", "remove"} /\ ~disturbed /\ ~Barred(Src) =>
        \A p \in Inside(Src) \ op.todo : disk[p] \in Contents => disk[ChildDst(p)] \in {disk[p], "link"}

LEMMA NextCopied ==
    ASSUME TransferInv, CopiedInv, [Next]_allVars
    PROVE  CopiedInv'
<1>. SUFFICES ASSUME phase' \in {"walk", "remove"}, ~disturbed', ~Barred(Src)', NEW q \in Inside(Src)', q \notin op'.todo,
                     disk'[q] \in Contents
              PROVE  disk'[ChildDst(q)'] \in {disk'[q], "link"}
  BY DEF CopiedInv
<1>0. CountInv /\ OpInv /\ GoodInv /\ WalkInv
  BY DEF TransferInv
<1>1. CASE phase = "attempt" /\ phase' = "walk" /\ op.kind \in {"copy", "move"} /\ IsDirectory(Src) /\ OpenFolder(Src, Dst)
           /\ (AttemptCopy \/ AttemptMove)
  <2>1. /\ op'.todo = (IF Barred(Src) THEN {} ELSE {p \in Inside(Src) : disk[p] # "none"})
        /\ disk' = [disk EXCEPT ![Dst] = "folder"] /\ Src' = Src /\ op'.elevated = op.elevated
    BY <1>0, <1>1, Opened
  <2>2. Src \in Items /\ Dst \in Items
    BY <1>0, <1>1, ItemAtWork DEF Working
  <2>3. ~Barred(Src) /\ q \in Inside(Src)
    BY <1>1, <2>1 DEF Barred, AttemptCopy, AttemptMove, outerVars, Inside
  <2>4. disk[q] = "none"
    BY <2>1, <2>3
  <2>5. q # Dst /\ q \in Places
    BY <2>2, <2>3, ItemsApart, ItemPlaces
  <2>6. disk'[q] = "none"
    BY <1>0, <2>1, <2>4, <2>5 DEF GoodInv, GoodDisk
  <2>. QED  BY <2>6, FileOpsAssumption
<1>2. ASSUME phase = "walk", phase' = "walk", NEW p \in Places, CopyChild(p) PROVE disk'[ChildDst(q)'] \in {disk'[q], "link"}
  <2>1. /\ p \in op.todo /\ p \in Inside(Src) /\ SameItem /\ op'.todo = op.todo \ {p} /\ op'.elevated = op.elevated
        /\ \/ disk' = disk /\ disk[p] \notin Contents
           \/ disk[p] \in Contents /\ disk' = [disk EXCEPT ![Through(ChildDst(p))] = disk[p]]
    BY <1>0, <1>2, WalkGoesOn
  <2>2. Src' = Src /\ Dst' = Dst /\ ChildDst(q)' = ChildDst(q) /\ ~disturbed /\ ~Barred(Src) /\ q \in Inside(Src)
    BY <1>2, <2>1, SameItemPlaces DEF ChildDst, Barred, CopyChild, outerVars, Inside
  <2>3. /\ ChildDst(p) \in Inside(Dst) /\ Through(ChildDst(p)) \in {ChildDst(p), Elsewhere} /\ Through(ChildDst(p)) \notin Inside(Src)
        /\ q \in Places /\ ChildDst(q) \in Inside(Dst) /\ Through(ChildDst(p)) \in Places
    BY <1>0, <1>2, <2>1, <2>2, ChildIs
  <2>4. disk \in [Places -> Nodes] /\ Src \in Items /\ Dst \in Items
    BY <1>0, <1>2, ItemAtWork DEF GoodInv, GoodDisk, Working
  <2>5. disk'[q] = disk[q]
    BY <2>1, <2>2, <2>3, <2>4
  <2>6. ChildDst(q) \in Places /\ ChildDst(q) # Elsewhere
    BY <2>3, <2>4, ItemPlaces
  <2>7. CASE q = p
    <3>1. disk[p] \in Contents /\ disk' = [disk EXCEPT ![Through(ChildDst(p))] = disk[p]]
      BY <2>1, <2>5, <2>7
    <3>2. CASE disk[ChildDst(p)] = "link"
      <4>1. disk'[ChildDst(p)] = "link"
        BY <2>4, <2>6, <2>7, <3>1, <3>2 DEF Through
      <4>. QED  BY <2>2, <2>7, <4>1
    <3>3. CASE disk[ChildDst(p)] # "link"
      <4>1. disk'[ChildDst(p)] = disk[p]
        BY <2>4, <2>6, <2>7, <3>1, <3>3 DEF Through
      <4>. QED  BY <2>2, <2>5, <2>7, <4>1
    <3>. QED  BY <3>2, <3>3
  <2>8. CASE q # p
    <3>1. disk[ChildDst(q)] \in {disk[q], "link"}
      BY <1>2, <2>1, <2>2, <2>5, <2>8 DEF CopiedInv
    <3>2. p = Child(Src, p[3]) /\ q = Child(Src, q[3])
      BY <2>1, <2>2, <2>4, ItemPlaces
    <3>3. ChildDst(q) # ChildDst(p)
      BY <2>8, <3>2 DEF ChildDst, Child
    <3>4. disk'[ChildDst(q)] = disk[ChildDst(q)]
      BY <2>1, <2>3, <2>4, <2>6, <3>3
    <3>. QED  BY <2>2, <2>5, <3>1, <3>4
  <2>. QED  BY <2>7, <2>8
<1>3. CASE phase = "walk" /\ phase' = "remove" /\ FolderCopied /\ UNCHANGED <<op, disk>>
  BY <1>3 DEF CopiedInv, FolderCopied, outerVars, Src, Dst, SrcOf, DstOf, Inside, Barred, ChildDst
<1>4. ASSUME phase' = phase, NEW w \in Writes, OtherProgramWrites(w[1], w[2]) PROVE FALSE
  BY <1>4 DEF OtherProgramWrites
<1>5. CASE UNCHANGED allVars
  BY <1>5 DEF CopiedInv, Src, Dst, SrcOf, DstOf, Inside, Barred, ChildDst, allVars, fileVars, outerVars
<1>. QED  BY <1>0, <1>1, <1>2, <1>3, <1>4, <1>5, IntoWalk

LEMMA NotMore ==
    ASSUME CountInv, \/ Over("failed") \/ Over("skipped") \/ Cancelled \/ UNCHANGED outcome \/ outcome' = NoOutcome
    PROVE  ~(outcome'.succeeded > outcome.succeeded)
<1>1. outcome \in Outcomes
  BY DEF CountInv
<1>2. CASE Over("failed") \/ Over("skipped") \/ Cancelled \/ UNCHANGED outcome
  BY <1>1, <1>2 DEF Outcomes, Over, Count, Cancelled
<1>3. CASE outcome' = NoOutcome
  BY <1>1, <1>3 DEF Outcomes, NoOutcome
<1>. QED  BY <1>2, <1>3

\* An item is counted as succeeded where its attempt got through.
LEMMA WhereSucceeded ==
    ASSUME CountInv, OpInv, [Next]_allVars, outcome'.succeeded > outcome.succeeded
    PROVE  /\ UNCHANGED <<op, uiVars, disturbed>> /\ phase \in {"attempt", "walk", "remove"} /\ phase' = "next"
           /\ \/ /\ op.kind = "copy" /\ phase = "attempt" /\ ~IsDirectory(Src) /\ ~IsDirectory(Dst) /\ disk[Src] \in Contents
                 /\ disk' = Write(Src, Dst)
              \/ op.kind = "move" /\ phase = "attempt" /\ MayReplace /\ (disk' = Moved \/ (crossVolume /\ ~IsDirectory(Src) /\ disk' = Write(Src, Dst)))
              \/ op.kind = "copy" /\ phase = "walk" /\ op.todo = {} /\ disk' = disk
              \/ Copies(op) /\ phase = "remove" /\ disk' = PutTree(disk, Src, NoTree)
              \/ op.kind = "recycle" /\ phase = "attempt" /\ disk[Src] # "none"
              \/ op.kind = "delete" /\ phase = "attempt" /\ disk[Src] # "none"
              \/ op.kind = "rename" /\ phase = "attempt" /\ disk[Src] # "none"
              \/ op.kind = "restore" /\ phase = "attempt"
<1>0. ~Over("failed") /\ ~Over("skipped") /\ ~Cancelled /\ ~UNCHANGED outcome /\ outcome' # NoOutcome
  BY NotMore
<1>1. ~AttemptFailed /\ ~EscPressed /\ ~MustFail /\ \A S : ~FailsBy(S)
  BY <1>0 DEF AttemptFailed, EscPressed, MustFail, FailsBy
<1>2. CASE NextItem \/ AnswerConflict \/ AnswerError
  BY <1>0, <1>1, <1>2 DEF NextItem, AnswerConflict, AnswerError, StartItem, Choose, Proceed
<1>3. CASE AttemptCopy /\ UNCHANGED uiVars
  <2>1. ~OpenFolder(Src, Dst)
    BY <1>0, <1>1 DEF OpenFolder
  <2>2. ~IsDirectory(Src) /\ ~IsDirectory(Dst) /\ disk[Src] \in Contents /\ disk' = Write(Src, Dst) /\ Succeeded
    BY <1>1, <1>3, <2>1 DEF AttemptCopy, CopySingleFile
  <2>. QED  BY <1>3, <2>2 DEF AttemptCopy, Succeeded, Over, outerVars
<1>4. CASE AttemptMove /\ UNCHANGED uiVars
  <2>1. ~OpenFolder(Src, Dst)
    BY <1>0, <1>1 DEF OpenFolder
  <2>2. /\ KindOf(Src) # "none" /\ MayReplace /\ (crossVolume => ~IsDirectory(Src))
        /\ disk' = Moved \/ (crossVolume /\ disk' = Write(Src, Dst))
        /\ Succeeded
    BY <1>1, <1>4, <2>1 DEF AttemptMove
  <2>. QED  BY <1>4, <2>2 DEF AttemptMove, Succeeded, Over, outerVars
<1>5. CASE (AttemptRecycle(clock) \/ AttemptDelete \/ AttemptRename \/ AttemptRestore) /\ UNCHANGED uiVars
  <2>1. Succeeded /\ phase = "attempt" /\ UNCHANGED disturbed
    BY <1>1, <1>5 DEF AttemptRecycle, AttemptDelete, AttemptRename, AttemptRestore, RenameItem, outerVars
  <2>2. \/ op.kind \in {"recycle", "delete", "rename"} /\ disk[Src] # "none"
        \/ op.kind = "restore"
    BY <1>1, <1>5 DEF AttemptRecycle, AttemptDelete, AttemptRename, AttemptRestore, RenameItem
  <2>. QED  BY <1>5, <2>1, <2>2 DEF Succeeded, Over
<1>6. ASSUME NEW p \in Places, CopyChild(p) PROVE FALSE
  BY <1>0, <1>1, <1>6 DEF CopyChild, CopySingleFile, Walked
<1>7. CASE FolderCopied /\ UNCHANGED uiVars
  BY <1>0, <1>7 DEF FolderCopied, Succeeded, Over, outerVars
<1>8. CASE RemoveSource /\ UNCHANGED uiVars
  <2>1. Succeeded /\ disk' = PutTree(disk, Src, NoTree) /\ phase = "remove" /\ UNCHANGED disturbed
    BY <1>1, <1>8 DEF RemoveSource, outerVars
  <2>2. Copies(op)
    BY <1>8 DEF RemoveSource, OpInv, Copies
  <2>. QED  BY <1>8, <2>1, <2>2 DEF Succeeded, Over
<1>9. CASE UserStarts \/ EndOperation \/ DoUndo \/ AnswerUndo \/ EndUndo
  BY <1>0, <1>9 DEF UserStarts, PerformCopyOrMove, DoDelete, DoRename, Begin, EndOperation, BackToIdle, DoUndo, AnswerUndo, EndUndo
<1>10. ASSUME NEW w \in Writes, OtherProgramWrites(w[1], w[2]) PROVE FALSE
  BY <1>0, <1>10 DEF OtherProgramWrites
<1>11. CASE UNCHANGED allVars
  BY <1>0, <1>11 DEF allVars, fileVars
<1>. QED  BY <1>2, <1>3, <1>4, <1>5, <1>6, <1>7, <1>8, <1>9, <1>10, <1>11 DEF Next, Engine, EngineStep

LEMMA DoneThere ==
    ASSUME TransferInv, CopiedInv, [Next]_allVars, outcome'.succeeded > outcome.succeeded, op.kind \in {"copy", "move"}, ~disturbed
    PROVE  /\ disk'[Dst] = Tree(disk, Src).node
           /\ ~Barred(Src) =>
                \A x \in Parts : Tree(disk, Src).inside[x] \in Contents =>
                    disk'[<<Dst[1], Dst[2], x>>] \in {Tree(disk, Src).inside[x], "link"}
<1>0. CountInv /\ OpInv /\ GoodInv /\ WalkInv
  BY DEF TransferInv
<1>1. phase \in {"attempt", "walk", "remove"}
  BY <1>0, WhereSucceeded
<1>2. /\ Src \in Items /\ Dst \in Items /\ Src # Dst /\ GoodDisk(disk) /\ disk \in [Places -> Nodes] /\ Dst \in Places
      /\ Src \in Places
  BY <1>0, <1>1, ItemAtWork, SrcApart, ItemPlaces DEF Working, Past, GoodInv, GoodDisk
<1>3. /\ Tree(disk, Src).node = disk[Src] /\ Tree(disk, Src) \in Trees
      /\ \A x \in Parts : /\ Tree(disk, Src).inside[x] = disk[Child(Src, x)] /\ Child(Src, x) \in Inside(Src)
                          /\ Child(Src, x) \in Places
                          /\ ChildDst(Child(Src, x)) = Child(Dst, x) /\ Child(Dst, x) \in Inside(Dst) /\ Child(Dst, x) \in Places
  BY <1>2, TreeIs, ItemPlaces DEF ChildDst, Child
<1>. SUFFICES disk'[Dst] = disk[Src] /\ (~Barred(Src) => \A x \in Parts : disk[Child(Src, x)] \in Contents =>
                                                          disk'[Child(Dst, x)] \in {disk[Child(Src, x)], "link"})
  BY <1>3 DEF Child
<1>4. CASE ~IsDirectory(Src) /\ disk' = Write(Src, Dst)
  <2>1. disk'[Dst] = disk[Src]
    BY <1>2, <1>4, ThroughIs DEF Write
  <2>2. \A x \in Parts : disk[Child(Src, x)] = "none"
    BY <1>2, <1>3, <1>4, GoodDiskIs DEF IsDirectory
  <2>. QED  BY <2>1, <2>2, FileOpsAssumption
<1>5. CASE disk' = Moved
  <2>. DEFINE m == PutTree(disk, Dst, Tree(disk, Src))
  <2>1. /\ m \in [Places -> Nodes] /\ m[Dst] = disk[Src]
        /\ \A x \in Parts : m[Child(Dst, x)] = disk[Child(Src, x)]
    BY <1>2, <1>3, PutTreeIs
  <2>. HIDE DEF m
  <2>2. \A p \in Places \ Under(Src) : PutTree(m, Src, NoTree)[p] = m[p]
    BY <1>2, <2>1, PutTreeIs, NoTreeGood DEF GoodTrees
  <2>3. Dst \notin Under(Src) /\ \A x \in Parts : Child(Dst, x) \notin Under(Src)
    BY <1>2, <1>3, UnderApart DEF Under
  <2>4. disk' = PutTree(m, Src, NoTree)
    BY <1>5 DEF Moved, m
  <2>. QED  BY <1>2, <1>3, <2>1, <2>2, <2>3, <2>4
<1>6. CASE phase = "walk" /\ op.todo = {} /\ disk' = disk
  <2>1. disk[Src] = "folder" /\ disk[Dst] = "folder"
    BY <1>0, <1>6 DEF WalkInv, IsDirectory
  <2>2. ~Barred(Src) => \A x \in Parts : disk[Child(Src, x)] \in Contents =>
                                          disk[Child(Dst, x)] \in {disk[Child(Src, x)], "link"}
    BY <1>3, <1>6 DEF CopiedInv
  <2>. QED  BY <1>6, <2>1, <2>2
<1>7. CASE phase = "remove" /\ disk' = PutTree(disk, Src, NoTree)
  <2>1. disk[Src] = "folder" /\ disk[Dst] = "folder" /\ op.todo = {}
    BY <1>0, <1>7 DEF WalkInv, IsDirectory
  <2>2. ~Barred(Src) => \A x \in Parts : disk[Child(Src, x)] \in Contents =>
                                          disk[Child(Dst, x)] \in {disk[Child(Src, x)], "link"}
    BY <1>3, <1>7, <2>1 DEF CopiedInv
  <2>3. Dst \notin Under(Src) /\ \A x \in Parts : Child(Dst, x) \notin Under(Src)
    BY <1>2, <1>3, UnderApart DEF Under
  <2>4. \A p \in Places \ Under(Src) : disk'[p] = disk[p]
    BY <1>0, <1>2, <1>7, RemovedIs
  <2>. QED  BY <1>2, <1>3, <2>1, <2>2, <2>3, <2>4
<1>. QED  BY <1>0, <1>4, <1>5, <1>6, <1>7, WhereSucceeded DEF Copies

\* An item counted as copied or moved is at its target, with every file that
\* was in it (DoneMeansThere).
THEOREM DoneIsThere == Spec => DoneMeansThere
<1>1. Init => CopiedInv
  BY DEF Init, CopiedInv
<1>2. TransferInv /\ CopiedInv /\ [Next]_allVars => CopiedInv'
  BY NextCopied
<1>3. TransferInv /\ CopiedInv /\ [Next]_allVars
      => [outcome'.succeeded > outcome.succeeded /\ op.kind \in {"copy", "move"} /\ ~disturbed =>
             LET there == Tree(disk, Src) IN
             /\ disk'[Dst] = there.node
             /\ ~Barred(Src) =>
                   \A x \in Parts : there.inside[x] \in Contents =>
                       disk'[<<Dst[1], Dst[2], x>>] \in {there.inside[x], "link"}]_fileVars
  BY DoneThere
<1>. QED  BY <1>1, <1>2, <1>3, TransferInvariant, PTL DEF Spec, DoneMeansThere

-----------------------------------------------------------------------------
(* What an undo has still to reverse.                                        *)

\* What an undo has still to reverse is as the operation left it.
AsLeft(n) == StillThere(undoing.items[n])
UndoneInv ==
    op.undo /\ op.kind # "restore" /\ ~disturbed =>
        /\ phase = "next" /\ outcome.failed = 0 => \A n \in DOMAIN undoing.items : n > op.at => AsLeft(n)
        /\ phase \in Working => \A n \in DOMAIN undoing.items : n >= op.at => AsLeft(n)

\* The places of an undo's items: they were made by one operation.
LEMMA UndoItems ==
    ASSUME OpInv, op.undo
    PROVE  /\ DOMAIN undoing.items = 1..Len(undoing.items) /\ Len(undoing.items) \in Nat /\ Len(op.names) = Len(undoing.items)
           /\ op.kind \in {"recycle", "move", "rename", "restore"} /\ op.at \in Nat
           /\ op.kind = "rename" => Len(undoing.items) = 1
           /\ \A n \in DOMAIN undoing.items :
                 /\ undoing.items[n] \in ItemRecords
                 /\ undoing.items[n].after \in Items /\ undoing.items[n].before \in Items /\ undoing.items[n].expected \in Trees
                 /\ undoing.items[n].after = <<op.from, op.names[n].name>>
                 /\ undoing.items[n].before = <<op.to, op.names[n].target>>
                 /\ \A m \in DOMAIN undoing.items : m # n => undoing.items[m].after # undoing.items[n].after
<1>1. undoing \in GoodEntries /\ SameTask(op, UndoOp(undoing)) /\ op.at \in 0..Len(op.names)
  BY DEF OpInv
<1>2. undoing.items \in Seq(ItemRecords) /\ undoing.kind \in EntryKinds /\ Tidy(undoing.items)
      /\ (undoing.kind = "rename" => Len(undoing.items) = 1)
  BY <1>1 DEF GoodEntries, Entries
<1>3. /\ Len(UndoOp(undoing).names) = Len(undoing.items) /\ DOMAIN undoing.items = 1..Len(undoing.items)
      /\ UndoOp(undoing).from = undoing.items[1].after[1] /\ UndoOp(undoing).to = undoing.items[1].before[1]
      /\ UndoOp(undoing).kind = IF undoing.kind = "copy" THEN "recycle" ELSE IF undoing.kind = "recycle" THEN "restore" ELSE undoing.kind
      /\ \A n \in DOMAIN undoing.items :
            UndoOp(undoing).names[n] = [name |-> undoing.items[n].after[2], target |-> undoing.items[n].before[2]]
      /\ \A n \in DOMAIN undoing.items : undoing.items[n] \in ItemRecords
  BY <1>1, UndoTask
<1>4. Len(undoing.items) \in Nat /\ Len(op.names) = Len(undoing.items) /\ op.at \in Nat
      /\ (1 \in DOMAIN undoing.items)
  <2>1. Len(undoing.items) \in Nat /\ 1 \in DOMAIN undoing.items
    BY <1>2 DEF Tidy
  <2>. QED  BY <1>1, <1>3, <2>1 DEF SameTask
<1>5. /\ op.kind \in {"recycle", "move", "rename", "restore"} /\ (op.kind = "rename" => Len(undoing.items) = 1)
  BY <1>1, <1>2, <1>3 DEF SameTask, EntryKinds
<1>6. ASSUME NEW n \in DOMAIN undoing.items
      PROVE  /\ undoing.items[n].after \in Items /\ undoing.items[n].before \in Items /\ undoing.items[n].expected \in Trees
             /\ undoing.items[n].after = <<op.from, op.names[n].name>>
             /\ undoing.items[n].before = <<op.to, op.names[n].target>>
             /\ \A m \in DOMAIN undoing.items : m # n => undoing.items[m].after # undoing.items[n].after
  <2>1. undoing.items[n].after \in Items /\ undoing.items[n].before \in Items /\ undoing.items[n].expected \in Trees
    BY <1>3 DEF ItemRecords
  <2>2. undoing.items[n].after[1] = undoing.items[1].after[1] /\ undoing.items[n].before[1] = undoing.items[1].before[1]
        /\ \A m \in DOMAIN undoing.items : m # n => undoing.items[m].after # undoing.items[n].after
    BY <1>2, <1>4 DEF Tidy
  <2>3. op.names[n].name = undoing.items[n].after[2] /\ op.names[n].target = undoing.items[n].before[2]
        /\ op.from = undoing.items[1].after[1] /\ op.to = undoing.items[1].before[1]
    <3>1. UndoOp(undoing).names[n] = [name |-> undoing.items[n].after[2], target |-> undoing.items[n].before[2]]
      BY <1>3
    <3>2. op.names[n] = UndoOp(undoing).names[n] /\ op.from = UndoOp(undoing).from /\ op.to = UndoOp(undoing).to
      BY <1>1 DEF SameTask
    <3>. QED  BY <1>3, <3>1, <3>2
  <2>. QED  BY <2>1, <2>2, <2>3, ItemParts
<1>. QED  BY <1>3, <1>4, <1>5, <1>6

LEMMA UndoAt ==
    ASSUME OpInv, op.undo, phase \in Working
    PROVE  op.at \in DOMAIN undoing.items /\ Src = undoing.items[op.at].after /\ Dst = undoing.items[op.at].before /\ ~op.elevated
<1>1. Taken(op)
  BY DEF OpInv
<1>. QED  BY <1>1, UndoItems DEF Taken, Src, Dst, SrcOf, DstOf

\* Another item of the undo has other places.
LEMMA UndoOthers ==
    ASSUME OpInv, op.undo, op.kind # "restore", phase \in Past, NEW n \in DOMAIN undoing.items, n # op.at
    PROVE  /\ undoing.items[n].after # Src /\ undoing.items[n].after \in Items
           /\ op.kind = "move" => undoing.items[n].after # Dst
           /\ op.kind # "rename"
<1>1. phase \in Working
  BY DEF Past, Working
<1>2. op.at \in DOMAIN undoing.items /\ Src = undoing.items[op.at].after /\ Dst = undoing.items[op.at].before
  BY <1>1, UndoAt
<1>3. op.kind # "rename"
  BY <1>2, UndoItems
<1>4. op.kind = "move" => op.from # op.to
  BY DEF OpInv, Apart
<1>5. op.kind = "move" => undoing.items[n].after # undoing.items[op.at].before
  BY <1>2, <1>4, UndoItems
<1>. QED  BY <1>2, <1>3, <1>5, UndoItems

\* What a step of the loop does to the items that are not its own.
LEMMA OtherItems ==
    ASSUME TransferInv, GoodInv', Engine, Copies(op), NEW i \in Items,
           phase \in Working => i # Src /\ i # Dst
    PROVE  Tree(disk', i) = Tree(disk, i)
<1>0. CountInv /\ OpInv /\ GoodInv /\ WalkInv /\ disk \in [Places -> Nodes] /\ disk' \in [Places -> Nodes]
  BY DEF TransferInv, GoodInv, GoodDisk
<1>1. CASE disk' = disk
  BY <1>1
<1>2. CASE phase \in Working
  <2>1. Src \in Items /\ Dst \in Items /\ i # Src /\ i # Dst /\ Src \in Places /\ Dst \in Places
    BY <1>0, <1>2, ItemAtWork, ItemPlaces
  <2>2. \A p \in Under(i) : p \in Places /\ p \notin Under(Src) /\ p \notin Under(Dst) /\ p # Elsewhere
    BY <2>1, UnderApart
  <2>. SUFFICES ASSUME NEW p \in Under(i) PROVE disk'[p] = disk[p]
    BY <1>0, SameTree
  <2>3. p \in Places /\ p # Src /\ p # Dst /\ p \notin Inside(Src) /\ p \notin Inside(Dst) /\ p # Elsewhere
    BY <2>2 DEF Under
  <2>4. ASSUME disk' = PutTree(disk, Src, NoTree) PROVE disk'[p] = disk[p]
    BY <1>0, <2>1, <2>2, <2>3, <2>4, RemovedIs
  <2>5. ASSUME disk' \in PartlyRemoved(Src) PROVE disk'[p] = disk[p]
    BY <2>1, <2>3, <2>5, PartlyIs
  <2>6. ASSUME NEW q \in Under(Dst), NEW v, disk' = [disk EXCEPT ![Through(q)] = v] PROVE disk'[p] = disk[p]
    <3>1. Through(q) \in {q, Elsewhere} /\ p # q
      BY <2>2, <2>6 DEF Through
    <3>. QED  BY <1>0, <2>3, <2>6, <3>1
  <2>6a. Dst \in Under(Dst) /\ Through(Dst) = Dst
    BY <1>0, <2>1, ThroughIs DEF Under, GoodInv
  <2>7. ASSUME NEW from, NEW to \in Under(Dst), NEW then, CopySingleFile(from, to, then) PROVE disk'[p] = disk[p]
    BY <2>6, <2>7, CopyEffects
  <2>8. ASSUME OpenFolder(Src, Dst) PROVE disk'[p] = disk[p]
    <3>1. disk' = [disk EXCEPT ![Dst] = "folder"] \/ disk' = disk
      BY <2>8 DEF OpenFolder, MustFail, FailsBy
    <3>. QED  BY <1>0, <2>3, <3>1
  <2>9. CASE AttemptCopy
    BY <2>6a, <2>7, <2>8, <2>9 DEF AttemptCopy
  <2>10. CASE AttemptMove
    <3>1. CASE disk' = Moved
      <4>. DEFINE m == PutTree(disk, Dst, Tree(disk, Src))
      <4>1. m \in [Places -> Nodes] /\ m[p] = disk[p]
        BY <1>0, <2>1, <2>2, <2>3, TreeIs, PutTreeIs
      <4>. HIDE DEF m
      <4>2. PutTree(m, Src, NoTree)[p] = m[p]
        BY <2>1, <2>2, <2>3, <4>1, NoTreeGood, PutTreeIs DEF GoodTrees
      <4>. QED  BY <3>1, <4>1, <4>2 DEF Moved, m
    <3>2. CASE disk' = Write(Src, Dst)
      BY <2>6, <2>6a, <3>2 DEF Write
    <3>3. CASE OpenFolder(Src, Dst)
      BY <2>8, <3>3
    <3>4. CASE disk' \in GivenUp(Dst)
      BY <2>6, <2>6a, <3>4 DEF GivenUp
    <3>. QED  BY <1>1, <2>10, <3>1, <3>2, <3>3, <3>4 DEF AttemptMove, MustFail, FailsBy
  <2>11. CASE RemoveSource
    BY <2>4, <2>5, <2>11 DEF RemoveSource, MustFail, FailsBy
  <2>12. ASSUME NEW q \in Places, CopyChild(q) PROVE disk'[p] = disk[p]
    <3>1. ChildDst(q) \in Under(Dst)
      <4>1. q \in Inside(Src)
        BY <1>0, <2>12 DEF CopyChild, WalkInv
      <4>. QED  BY <2>1, <4>1, ItemPlaces DEF ChildDst, Child, Under
    <3>. QED  BY <2>7, <2>12, <3>1 DEF CopyChild
  <2>13. CASE NextItem \/ AnswerConflict \/ AnswerError \/ FolderCopied
    BY <2>13 DEF NextItem, AnswerConflict, AnswerError, FolderCopied
  <2>14. ~AttemptRename /\ ~AttemptRestore /\ ~AttemptRecycle(clock) /\ ~AttemptDelete
    BY DEF AttemptRename, AttemptRestore, AttemptRecycle, AttemptDelete, Copies
  <2>. QED  BY <2>9, <2>10, <2>11, <2>12, <2>13, <2>14 DEF Engine, EngineStep
<1>3. CASE phase \notin Working
  BY <1>1, <1>3 DEF Engine, EngineStep, NextItem, AnswerConflict, AnswerError, AttemptCopy, AttemptMove, AttemptRecycle, AttemptDelete,
       AttemptRename, AttemptRestore, CopyChild, FolderCopied, RemoveSource, Working
<1>. QED  BY <1>2, <1>3

LEMMA OtherRecycled ==
    ASSUME TransferInv, Engine, op.kind = "recycle", NEW i \in Items, phase \in Working => i # Src
    PROVE  Tree(disk', i) = Tree(disk, i)
<1>1. CASE AttemptRecycle(clock)
  <2>1. Src \in Items /\ i # Src /\ disk \in [Places -> Nodes]
    BY <1>1, ItemAtWork DEF AttemptRecycle, Working, TransferInv, GoodInv, GoodDisk
  <2>2. disk' = disk \/ disk' = PutTree(disk, Src, NoTree)
    BY <1>1 DEF AttemptRecycle, MustFail, FailsBy
  <2>3. NoTree \in Trees
    BY NoTreeGood DEF GoodTrees
  <2>. QED  BY <2>1, <2>2, <2>3, PutTreeTree
<1>2. CASE ~AttemptRecycle(clock)
  <2>1. phase \notin {"walk", "remove"}
    BY DEF TransferInv, OpInv
  <2>2. disk' = disk
    BY <1>2, <2>1 DEF Engine, EngineStep, NextItem, AnswerConflict, AnswerError, AttemptCopy, AttemptMove, AttemptDelete,
       AttemptRename, AttemptRestore, CopyChild, FolderCopied, RemoveSource
  <2>. QED  BY <2>2
<1>. QED  BY <1>1, <1>2

\* While the loop is at an item of an undo, its source is untouched.
LEMMA SourceWaits ==
    ASSUME TransferInv, Engine, UNCHANGED uiVars, op.undo, phase \in Working, phase' \in Working
    PROVE  Tree(disk', Src) = Tree(disk, Src) /\ op'.at = op.at
<1>0. CountInv /\ OpInv /\ GoodInv /\ WalkInv /\ disk \in [Places -> Nodes]
  BY DEF TransferInv, GoodInv, GoodDisk
<1>1. ~op.elevated /\ phase \notin {"conflict", "error"} /\ Src \in Items /\ Dst \in Items /\ Dst \in Places
  BY <1>0, UndoAt, ItemAtWork, ItemPlaces DEF OpInv
<1>2. ~Over("failed") /\ ~Over("skipped") /\ ~Over("succeeded") /\ ~Cancelled
  BY DEF Over, Cancelled, Working
<1>3. ~AttemptFailed /\ ~EscPressed /\ ~Succeeded /\ ~MustFail /\ \A S : ~FailsBy(S)
  BY <1>1, <1>2 DEF AttemptFailed, EscPressed, Succeeded, MustFail, FailsBy
<1>4. \/ OpenFolder(Src, Dst) /\ phase = "attempt" /\ phase' = "walk" /\ op.kind \in {"copy", "move"} /\ IsDirectory(Src)
      \/ \E p \in Places : CopyChild(p) /\ phase' = "walk"
      \/ UNCHANGED <<op, disk>>
  <2>1. CASE AttemptCopy \/ AttemptMove
    BY <1>3, <2>1 DEF AttemptCopy, AttemptMove, CopySingleFile, OpenFolder
  <2>2. ASSUME NEW p \in Places, CopyChild(p) PROVE phase' = "walk"
    BY <1>3, <2>2 DEF CopyChild, CopySingleFile, Walked
  <2>3. CASE FolderCopied
    BY <1>3, <2>3 DEF FolderCopied
  <2>4. ~RemoveSource /\ ~AttemptRecycle(clock) /\ ~AttemptDelete /\ ~AttemptRename /\ ~AttemptRestore
    BY <1>3 DEF RemoveSource, AttemptRecycle, AttemptDelete, AttemptRename, AttemptRestore, RenameItem
  <2>5. ~NextItem /\ ~AnswerConflict /\ ~AnswerError
    BY <1>1 DEF NextItem, AnswerConflict, AnswerError, Working
  <2>. QED  BY <2>1, <2>2, <2>3, <2>4, <2>5 DEF Engine, EngineStep
<1>5. CASE OpenFolder(Src, Dst) /\ phase = "attempt" /\ phase' = "walk" /\ op.kind \in {"copy", "move"} /\ IsDirectory(Src)
  <2>1. SameItem /\ disk' = [disk EXCEPT ![Dst] = "folder"]
    BY <1>0, <1>5, Opened
  <2>2. Src # Dst /\ disk' \in [Places -> Nodes]
    BY <1>0, <1>5, <2>1, SrcApart, NoneIsNode DEF Past
  <2>3. Dst \notin Under(Src)
    BY <1>1, <2>2, UnderApart DEF Under
  <2>4. \A q \in Under(Src) : disk'[q] = disk[q]
    <3>1. Under(Src) \subseteq Places
      BY <1>1, ItemPlaces DEF Under
    <3>. QED  BY <1>0, <2>1, <2>3, <3>1
  <2>. QED  BY <1>0, <1>1, <2>1, <2>2, <2>4, SameTree DEF SameItem
<1>6. ASSUME NEW p \in Places, CopyChild(p), phase' = "walk" PROVE Tree(disk', Src) = Tree(disk, Src) /\ op'.at = op.at
  <2>1. /\ p \in Inside(Src) /\ SameItem
        /\ disk' = disk \/ (disk[p] \in Contents /\ disk' = [disk EXCEPT ![Through(ChildDst(p))] = disk[p]])
    BY <1>0, <1>6, WalkGoesOn
  <2>2. Through(ChildDst(p)) \notin Inside(Src) /\ Through(ChildDst(p)) \notin Items
    BY <1>0, <1>6, <2>1, ChildIs DEF CopyChild
  <2>3. \A q \in Under(Src) : disk'[q] = disk[q]
    <3>1. Under(Src) \subseteq Places
      BY <1>1, ItemPlaces DEF Under
    <3>. QED  BY <1>0, <1>1, <2>1, <2>2, <3>1 DEF Under
  <2>4. disk' \in [Places -> Nodes]
    BY <1>0, <2>1, NoneIsNode
  <2>. QED  BY <1>0, <1>1, <2>1, <2>3, <2>4, SameTree DEF SameItem
<1>7. CASE UNCHANGED <<op, disk>>
  BY <1>7
<1>. QED  BY <1>4, <1>5, <1>6, <1>7

LEMMA IdleNoUndo == Idle.undo = FALSE /\ \A r : Operation(r).undo = FALSE
BY DEF Idle, Operation

LEMMA EngineUndo ==
    ASSUME CountInv, OpInv, Engine
    PROVE  /\ op'.undo = op.undo
           /\ op.undo /\ phase \in Working => op'.at = op.at
           /\ op.undo /\ phase = "next" /\ op' # op => ~LoopEnds /\ op'.at = op.at + 1
           /\ phase \notin Working => phase = "next" /\ disk' = disk
<1>0. OpShape(op)
  BY DEF CountInv
<1>1. CASE NextItem
  <2>1. CASE op' = op
    BY <1>1, <2>1 DEF NextItem, Working
  <2>2. CASE ~LoopEnds /\ StartItem(NextTaken)
    <3>1. OpShape(NextTaken) /\ NextTaken.undo = op.undo /\ NextTaken.at = op.at + 1
      BY <2>2, NextIsTaken DEF Took, SameTask
    <3>2. op' = NextTaken \/ (~NextTaken.undo /\ op' = [NextTaken EXCEPT !.overwrite = TRUE])
      BY <2>2 DEF StartItem, Choose, Proceed
    <3>3. [NextTaken EXCEPT !.overwrite = TRUE].undo = NextTaken.undo
      BY <3>1 DEF OpShape
    <3>. QED  BY <1>1, <2>2, <3>1, <3>2, <3>3 DEF NextItem, Working
  <2>. QED  BY <1>1, <2>1, <2>2 DEF NextItem, EscPressed, NextTaken
<1>2. CASE AnswerConflict \/ AnswerError
  <2>1. phase \in {"conflict", "error"} /\ ~op.undo
    BY <1>2 DEF AnswerConflict, AnswerError, OpInv
  <2>2. CASE AnswerError
    <3>1. op'.undo = op.undo
      BY <1>0, <2>2 DEF AnswerError, OpShape
    <3>. QED  BY <2>1, <3>1 DEF Working
  <2>3. CASE AnswerConflict
    <3>1. ASSUME NEW o, o.undo = FALSE, OpShape(o), NEW choice, Choose(o, choice) PROVE op'.undo = FALSE
      <4>1. op' = o \/ op' = [o EXCEPT !.overwrite = TRUE]
        BY <3>1 DEF Choose, Proceed
      <4>2. [o EXCEPT !.overwrite = TRUE].undo = o.undo
        BY <3>1 DEF OpShape
      <4>. QED  BY <3>1, <4>1, <4>2
    <3>2. op.undo = FALSE
      BY <2>1 DEF OpInv, Task
    <3>3. ASSUME NEW choice PROVE OpShape([op EXCEPT !.blanket = choice]) /\ [op EXCEPT !.blanket = choice].undo = FALSE
      BY <1>0, <3>2 DEF OpShape
    <3>4. ASSUME NEW name \in Names, NEW seen, op' = [op EXCEPT !.target = name, !.typed = TRUE, !.seen = seen] PROVE op'.undo = FALSE
      <4>1. Took([op EXCEPT !.target = name, !.typed = TRUE, !.seen = seen])
        BY <2>1, <2>3, <3>4, TypedTook DEF AnswerConflict, Working
      <4>. QED  BY <3>2, <3>4, <4>1 DEF Took, SameTask
    <3>5. ASSUME NEW choice, Choose(op, choice) PROVE op'.undo = FALSE
      BY <1>0, <3>1, <3>2, <3>5
    <3>6. ASSUME NEW choice, Choose([op EXCEPT !.blanket = choice], choice) PROVE op'.undo = FALSE
      <4>. DEFINE o == [op EXCEPT !.blanket = choice]
      <4>1. OpShape(o) /\ o.undo = FALSE /\ Choose(o, choice)
        BY <3>3, <3>6
      <4>. HIDE DEF o
      <4>. QED  BY <3>1, <4>1
    <3>7. op'.undo = FALSE
      <4>1. \/ \E choice : Choose(op, choice) \/ Choose([op EXCEPT !.blanket = choice], choice)
            \/ \E name \in Names : \E seen : op' = [op EXCEPT !.target = name, !.typed = TRUE, !.seen = seen]
        BY <2>3 DEF AnswerConflict, Proceed
      <4>. QED  BY <4>1, <3>4, <3>5, <3>6
    <3>. QED  BY <2>1, <3>2, <3>7 DEF Working
  <2>. QED  BY <1>2, <2>2, <2>3
<1>3. CASE phase \in {"attempt", "walk", "remove"} /\ (Ends \/ \E todo : op' = [op EXCEPT !.todo = todo] \/ UNCHANGED op)
  <2>1. op'.undo = op.undo /\ op'.at = op.at
    BY <1>0, <1>3 DEF Ends, Succeeded, AttemptFailed, EscPressed, OpShape
  <2>. QED  BY <1>3, <2>1 DEF Working
<1>4. CASE AttemptCopy \/ AttemptMove \/ AttemptRecycle(clock) \/ AttemptDelete \/ AttemptRename \/ AttemptRestore
           \/ (\E p \in Places : CopyChild(p)) \/ FolderCopied \/ RemoveSource
  <2>1. phase \in {"attempt", "walk", "remove"}
    BY <1>4 DEF AttemptCopy, AttemptMove, AttemptRecycle, AttemptDelete, AttemptRename, AttemptRestore, CopyChild, FolderCopied,
            RemoveSource
  <2>2. Ends \/ (\E todo : op' = [op EXCEPT !.todo = todo]) \/ UNCHANGED op
    BY <1>4 DEF AttemptCopy, AttemptMove, AttemptRecycle, AttemptDelete, AttemptRename, AttemptRestore, CopyChild, FolderCopied,
            RemoveSource, OpenFolder, CopySingleFile, RenameItem, Walked, MustFail, FailsBy, Ends
  <2>. QED  BY <1>3, <2>1, <2>2
<1>. QED  BY <1>1, <1>2, <1>4 DEF Engine, EngineStep

LEMMA StartUndo ==
    ASSUME OpShape(NextTaken), StartItem(NextTaken), NextTaken.at = op.at + 1, op.at \in Nat
    PROVE  op' # op
<1>1. op' = NextTaken \/ op' = [NextTaken EXCEPT !.overwrite = TRUE]
  BY DEF StartItem, Choose, Proceed
<1>2. [NextTaken EXCEPT !.overwrite = TRUE].at = NextTaken.at
  BY DEF OpShape
<1>3. NextTaken.at # op.at /\ [NextTaken EXCEPT !.overwrite = TRUE].at # op.at
  BY <1>2
<1>. QED  BY <1>1, <1>3

LEMMA EngineUndone ==
    ASSUME TransferInv, OpInv', GoodInv', UndoneInv, Engine, UNCHANGED uiVars
    PROVE  UndoneInv'
<1>. SUFFICES ASSUME op'.undo, op'.kind # "restore", ~disturbed', NEW n \in DOMAIN undoing'.items,
                     (phase' = "next" /\ outcome'.failed = 0 /\ n > op'.at) \/ (phase' \in Working /\ n >= op'.at)
              PROVE  AsLeft(n)'
  BY DEF UndoneInv
<1>0. CountInv /\ OpInv /\ GoodInv /\ undoing' = undoing
  BY DEF TransferInv, uiVars
<1>1. op.undo /\ op.kind # "restore" /\ op.at \in Nat
  <2>1. op.undo
    BY <1>0, EngineUndo
  <2>2. SameTask(op, UndoOp(undoing)) /\ SameTask(op', UndoOp(undoing))
    BY <1>0, <2>1 DEF OpInv
  <2>. QED  BY <1>0, <2>1, <2>2, UndoItems DEF SameTask
<1>2. ~disturbed
  BY DEF Engine, EngineStep, NextItem, AnswerConflict, AnswerError, AttemptCopy, AttemptMove, AttemptRecycle, AttemptDelete,
     AttemptRename, AttemptRestore, CopyChild, FolderCopied, RemoveSource, outerVars
<1>3. n \in DOMAIN undoing.items /\ n \in Nat /\ undoing.items[n].after \in Items
  BY <1>0, <1>1, UndoItems
<1>4. CASE phase \notin Working
  <2>1. phase = "next" /\ disk' = disk
    BY <1>0, <1>4, EngineUndo
  <2>2. NextItem
    BY <2>1 DEF Engine, EngineStep, NextItem, AnswerConflict, AnswerError, AttemptCopy, AttemptMove, AttemptRecycle, AttemptDelete,
       AttemptRename, AttemptRestore, CopyChild, FolderCopied, RemoveSource
  <2>3. op' # op
    <3>1. phase' # "end"
      BY DEF Working
    <3>2. ~LoopEnds /\ StartItem(NextTaken)
      BY <2>2, <3>1 DEF NextItem, EscPressed, Cancelled, NextTaken
    <3>3. OpShape(NextTaken) /\ NextTaken.at = op.at + 1
      BY <1>0, <2>1, <3>2, NextIsTaken DEF Took
    <3>. QED  BY <1>1, <3>2, <3>3, StartUndo
  <2>4. ~LoopEnds /\ op'.at = op.at + 1
    BY <1>0, <1>1, <2>1, <2>3, EngineUndo
  <2>5. outcome.failed = 0
    <3>1. outcome.failed \in Nat
      BY <1>0 DEF CountInv, Outcomes
    <3>. QED  BY <1>1, <2>4, <3>1 DEF LoopEnds
  <2>6. n > op.at
    BY <1>1, <1>3, <2>4
  <2>7. AsLeft(n)
    BY <1>1, <1>2, <1>3, <2>1, <2>5, <2>6 DEF UndoneInv
  <2>. QED  BY <1>0, <2>1, <2>7 DEF AsLeft, StillThere
<1>5. CASE phase \in Working
  <2>1. op'.at = op.at
    BY <1>0, <1>1, <1>5, EngineUndo
  <2>2. n >= op.at /\ AsLeft(n)
    BY <1>1, <1>2, <1>3, <1>5, <2>1 DEF UndoneInv
  <2>3. phase \in Past
    BY <1>0, <1>1, <1>5 DEF OpInv, Working, Past
  <2>4. CASE n = op.at
    <3>1. phase' \in Working
      BY <1>3, <2>1, <2>4
    <3>2. Tree(disk', Src) = Tree(disk, Src) /\ Src = undoing.items[n].after
      BY <1>0, <1>1, <1>5, <2>4, <3>1, SourceWaits, UndoAt
    <3>. QED  BY <1>0, <2>2, <3>2 DEF AsLeft, StillThere
  <2>5. CASE n # op.at
    <3>1. /\ undoing.items[n].after # Src /\ undoing.items[n].after \in Items
          /\ op.kind = "move" => undoing.items[n].after # Dst
          /\ op.kind \in {"recycle", "move"}
      BY <1>0, <1>1, <1>3, <2>3, <2>5, UndoOthers, UndoItems
    <3>2. Tree(disk', undoing.items[n].after) = Tree(disk, undoing.items[n].after)
      BY <3>1, OtherItems, OtherRecycled DEF Copies
    <3>. QED  BY <1>0, <2>2, <3>2 DEF AsLeft, StillThere
  <2>. QED  BY <2>4, <2>5
<1>. QED  BY <1>4, <1>5

LEMMA NextUndone ==
    ASSUME TransferInv, OpInv', GoodInv', UndoneInv, [Next]_allVars
    PROVE  UndoneInv'
<1>0. CountInv /\ OpInv
  BY DEF TransferInv
<1>1. CASE Engine /\ UNCHANGED uiVars
  BY <1>1, EngineUndone
<1>2. CASE UserStarts \/ EndOperation \/ EndUndo \/ DoUndo
  <2>1. op'.undo = FALSE
    BY <1>0, <1>2, IdleNoUndo DEF UserStarts, PerformCopyOrMove, DoDelete, DoRename, Begin, EndOperation, EndUndo, BackToIdle, DoUndo,
       CountInv
  <2>. QED  BY <2>1 DEF UndoneInv
<1>3. CASE AnswerUndo
  <2>1. CASE op' = op
    <3>1. op'.undo = FALSE
      BY <1>0, <1>3, <2>1, IdleNoUndo DEF AnswerUndo, CountInv
    <3>. QED  BY <3>1 DEF UndoneInv
  <2>2. CASE op' = UndoOp(undoing) /\ CheckUndo(undoing) /\ phase' = "next" /\ undoing' = undoing /\ disk' = disk
    <3>1. undoing \in GoodEntries
      BY <1>0, <1>3 DEF OpInv, AnswerUndo
    <3>2. op'.kind # "restore" => \A n \in DOMAIN undoing.items : AsLeft(n)
      BY <2>2, <3>1, UndoTask DEF CheckUndo, AsLeft
    <3>3. op'.kind # "restore" => \A n \in DOMAIN undoing'.items : AsLeft(n)'
      BY <2>2, <3>2 DEF AsLeft, StillThere
    <3>. QED  BY <2>2, <3>3 DEF UndoneInv, Working
  <2>. QED  BY <1>3, <2>1, <2>2 DEF AnswerUndo, CheckedAgain
<1>4. ASSUME NEW w \in Writes, OtherProgramWrites(w[1], w[2]), UNCHANGED uiVars PROVE UndoneInv'
  <2>1. op.undo => disturbed'
    BY <1>0, <1>4 DEF OtherProgramWrites, OpInv
  <2>. QED  BY <1>4, <2>1 DEF UndoneInv, OtherProgramWrites
<1>5. CASE UNCHANGED allVars
  BY <1>5 DEF UndoneInv, AsLeft, StillThere, allVars, fileVars, outerVars, uiVars
<1>. QED  BY <1>1, <1>2, <1>3, <1>4, <1>5 DEF Next

\* An undo moves, recycles or renames only what is exactly as the operation it
\* reverses left it (UndoReversesOnlyItsOwn).
THEOREM UndoTouchesItsOwn == Spec => UndoReversesOnlyItsOwn
<1>1. Init => UndoneInv
  BY IdleNoUndo DEF Init, UndoneInv
<1>2. TransferInv /\ TransferInv' /\ UndoneInv /\ [Next]_allVars => UndoneInv'
  BY NextUndone DEF TransferInv
<1>3. TransferInv /\ UndoneInv /\ [Next]_allVars
      => [op.undo /\ op.kind # "restore" /\ ~disturbed /\ outcome'.succeeded > outcome.succeeded =>
             Tree(disk, undoing.items[op.at].after) = undoing.items[op.at].expected]_allVars
  <2>. SUFFICES ASSUME TransferInv, UndoneInv, [Next]_allVars, op.undo, op.kind # "restore", ~disturbed,
                       outcome'.succeeded > outcome.succeeded
                PROVE  Tree(disk, undoing.items[op.at].after) = undoing.items[op.at].expected
    OBVIOUS
  <2>1. phase \in Working /\ CountInv /\ OpInv
    BY WhereSucceeded DEF TransferInv, Working
  <2>2. op.at \in DOMAIN undoing.items /\ op.at \in Nat
    BY <2>1, UndoAt, UndoItems
  <2>. QED  BY <2>1, <2>2 DEF UndoneInv, AsLeft, StillThere
<1>. QED  BY <1>1, <1>2, <1>3, TransferInvariant, PTL DEF Spec, UndoReversesOnlyItsOwn

-----------------------------------------------------------------------------
(* The place and the target of the item at work.                             *)

\* A step of the loop keeps the task, and the place and target of the item it is
\* at unless a name is typed for it.
LEMMA EngineOp ==
    ASSUME CountInv, OpInv, Engine
    PROVE  /\ SameTask(op', op)
           /\ phase \in Working => op'.at = op.at /\ ((op'.typed = op.typed /\ op'.target = op.target) \/ (op'.typed = TRUE /\ ~op.undo))
           /\ phase \notin Working =>
                 /\ phase = "next" /\ UNCHANGED <<disk, bin>>
                 /\ \/ op' = op /\ phase' = "end"
                    \/ op'.at = op.at + 1 /\ op'.target = op.names[op.at + 1].target /\ op'.typed = op.typed
<1>0. OpShape(op)
  BY DEF CountInv
<1>. DEFINE Kept0(o) == Alike(o, op) /\ o.typed = op.typed /\ o.target = op.target
<1>1. Kept0(op) /\ \A o : Alike(o, op) => SameTask(o, op) /\ o.at = op.at
  BY <1>0 DEF Alike, SameTask
<1>2. ASSUME NEW o, OpShape(o)
      PROVE  LET p == [o EXCEPT !.overwrite = TRUE] IN
             OpShape(p) /\ p.kind = o.kind /\ p.undo = o.undo /\ p.from = o.from /\ p.to = o.to /\ p.names = o.names
             /\ p.at = o.at /\ p.typed = o.typed /\ p.target = o.target
  BY <1>2 DEF OpShape
<1>3. CASE NextItem
  <2>1. phase = "next" /\ phase \notin Working /\ UNCHANGED <<disk, bin>>
    BY <1>3 DEF NextItem, Working
  <2>2. CASE op' = op /\ phase' = "end"
    BY <1>1, <2>1, <2>2
  <2>3. CASE ~LoopEnds /\ StartItem(NextTaken)
    <3>1. /\ OpShape(NextTaken) /\ SameTask(NextTaken, op) /\ NextTaken.at = op.at + 1
          /\ NextTaken.target = op.names[op.at + 1].target
      BY <2>3, NextIsTaken DEF Took
    <3>2. NextTaken.typed = op.typed
      BY <1>0 DEF NextTaken, OpShape
    <3>3. op' = NextTaken \/ op' = [NextTaken EXCEPT !.overwrite = TRUE]
      BY <2>3 DEF StartItem, Choose, Proceed
    <3>4. [NextTaken EXCEPT !.overwrite = TRUE].kind = NextTaken.kind
          /\ [NextTaken EXCEPT !.overwrite = TRUE].undo = NextTaken.undo
          /\ [NextTaken EXCEPT !.overwrite = TRUE].from = NextTaken.from
          /\ [NextTaken EXCEPT !.overwrite = TRUE].to = NextTaken.to
          /\ [NextTaken EXCEPT !.overwrite = TRUE].names = NextTaken.names
          /\ [NextTaken EXCEPT !.overwrite = TRUE].at = NextTaken.at
          /\ [NextTaken EXCEPT !.overwrite = TRUE].typed = NextTaken.typed
          /\ [NextTaken EXCEPT !.overwrite = TRUE].target = NextTaken.target
      BY <1>2, <3>1
    <3>. QED  BY <2>1, <3>1, <3>2, <3>3, <3>4 DEF SameTask
  <2>. QED  BY <1>3, <2>2, <2>3 DEF NextItem, EscPressed, Cancelled, NextTaken
<1>. DEFINE Stays == SameTask(op', op) /\ op'.at = op.at /\ ((op'.typed = op.typed /\ op'.target = op.target) \/ (op'.typed = TRUE /\ ~op.undo))
<1>4. Kept0(op') => Stays
  BY <1>1
<1>5. ASSUME NEW todo, op' = [op EXCEPT !.todo = todo] PROVE Stays
  <2>1. Kept0(op')
    BY <1>0, <1>5 DEF OpShape, Alike
  <2>. QED  BY <1>4, <2>1
<1>6. ASSUME NEW b, op' = [op EXCEPT !.elevated = b] PROVE Stays
  <2>1. Kept0(op')
    BY <1>0, <1>6 DEF OpShape, Alike
  <2>. QED  BY <1>4, <2>1
<1>7. CASE AnswerConflict
  <2>1. phase = "conflict" /\ phase \in Working /\ ~op.undo
    BY <1>7 DEF AnswerConflict, OpInv, Working
  <2>2. ASSUME NEW o, Kept0(o), NEW choice, Choose(o, choice) PROVE Stays
    <3>1. op' = o \/ op' = [o EXCEPT !.overwrite = TRUE]
      BY <2>2 DEF Choose, Proceed
    <3>2. Kept0([o EXCEPT !.overwrite = TRUE])
      BY <1>2, <2>2 DEF Alike
    <3>. QED  BY <1>4, <2>2, <3>1, <3>2
  <2>3. ASSUME NEW choice, Choose([op EXCEPT !.blanket = choice], choice) PROVE Stays
    <3>1. Kept0([op EXCEPT !.blanket = choice])
      BY <1>0 DEF OpShape, Alike
    <3>. QED  BY <2>2, <2>3, <3>1
  <2>4. ASSUME NEW name \in Names, NEW seen, op' = [op EXCEPT !.target = name, !.typed = TRUE, !.seen = seen] PROVE Stays
    <3>1. Took(op')
      BY <2>1, <2>4, TypedTook
    <3>2. op'.at = op.at /\ op'.typed = TRUE
      BY <1>0, <2>4 DEF OpShape
    <3>. QED  BY <2>1, <3>1, <3>2 DEF Took
  <2>5. \/ \E choice : Choose(op, choice) \/ Choose([op EXCEPT !.blanket = choice], choice)
        \/ \E name \in Names : \E seen : op' = [op EXCEPT !.target = name, !.typed = TRUE, !.seen = seen]
    BY <1>7 DEF AnswerConflict, Proceed
  <2>6. Stays
    BY <1>1, <2>2, <2>3, <2>4, <2>5
  <2>. QED  BY <2>1, <2>6
<1>8. CASE AnswerError
  <2>1. Kept0(op')
    <3>1. CASE op' = [op EXCEPT !.elevated = TRUE, !.elevatedAny = TRUE]
      BY <1>0, <3>1 DEF OpShape, Alike
    <3>2. CASE op' = [op EXCEPT !.skipErrors = TRUE]
      BY <1>0, <3>2 DEF OpShape, Alike
    <3>. QED  BY <1>1, <1>8, <3>1, <3>2 DEF AnswerError
  <2>. QED  BY <1>4, <1>8, <2>1 DEF AnswerError, Working
<1>9. CASE AttemptCopy \/ AttemptMove \/ AttemptRecycle(clock) \/ AttemptDelete \/ AttemptRename \/ AttemptRestore
           \/ (\E p \in Places : CopyChild(p)) \/ FolderCopied \/ RemoveSource
  <2>1. phase \in {"attempt", "walk", "remove"}
    BY <1>9 DEF AttemptCopy, AttemptMove, AttemptRecycle, AttemptDelete, AttemptRename, AttemptRestore, CopyChild, FolderCopied,
            RemoveSource
  <2>2. Ends \/ (\E todo : op' = [op EXCEPT !.todo = todo]) \/ UNCHANGED op
    BY <1>9 DEF AttemptCopy, AttemptMove, AttemptRecycle, AttemptDelete, AttemptRename, AttemptRestore, CopyChild, FolderCopied,
            RemoveSource, OpenFolder, CopySingleFile, RenameItem, Walked, MustFail, FailsBy, Ends
  <2>3. Stays
    BY <1>1, <1>4, <1>5, <1>6, <2>2 DEF Ends, Succeeded, AttemptFailed, EscPressed
  <2>. QED  BY <2>1, <2>3 DEF Working
<1>. QED  BY <1>3, <1>7, <1>8, <1>9 DEF Engine, EngineStep

\* While no name is typed, the item at work goes where the task says.
TargetInv ==
    /\ phase \in Working /\ ~op.typed => op.target = op.names[op.at].target
    /\ op.undo => ~op.typed

LEMMA UndoNotTyped == \A e : UndoOp(e).typed = FALSE
BY DEF UndoOp, Idle

LEMMA NextTarget ==
    ASSUME CountInv, OpInv, TargetInv, OpInv', [Next]_allVars
    PROVE  TargetInv'
<1>1. CASE Engine /\ UNCHANGED uiVars
  <2>1. phase' \in Working /\ ~op'.typed => op'.target = op'.names[op'.at].target
    <3>1. CASE phase \in Working
      BY <1>1, <3>1, EngineOp DEF TargetInv, SameTask, OpInv, Task
    <3>2. CASE phase \notin Working
      BY <1>1, <3>2, EngineOp DEF SameTask, Working
    <3>. QED  BY <3>1, <3>2
  <2>2. op'.undo => ~op'.typed
    BY <1>1, EngineOp DEF SameTask, TargetInv
  <2>. QED  BY <2>1, <2>2 DEF TargetInv
<1>2. CASE UserStarts \/ EndOperation \/ EndUndo \/ DoUndo \/ AnswerUndo
  <2>1. phase' \notin Working
    BY <1>2 DEF UserStarts, PerformCopyOrMove, DoDelete, DoRename, Begin, EndOperation, EndUndo, BackToIdle, DoUndo, AnswerUndo, Working
  <2>2. op'.undo => ~op'.typed
    BY <1>2, IdleNoUndo, UndoNotTyped DEF UserStarts, PerformCopyOrMove, DoDelete, DoRename, Begin, EndOperation, EndUndo, BackToIdle,
       DoUndo, AnswerUndo, CountInv
  <2>. QED  BY <2>1, <2>2 DEF TargetInv
<1>3. ASSUME NEW w \in Writes, OtherProgramWrites(w[1], w[2]) PROVE TargetInv'
  BY <1>3 DEF OtherProgramWrites, TargetInv
<1>4. CASE UNCHANGED allVars
  BY <1>4 DEF allVars, fileVars, TargetInv
<1>. QED  BY <1>1, <1>2, <1>3, <1>4 DEF Next

-----------------------------------------------------------------------------
(* A move that nobody interferes with: what is where.                        *)

Plain(v) == IF v = "link" THEN "none" ELSE v
\* Trees that differ in their links only.
SameFiles(t, u) == t.node = u.node /\ \A x \in Parts : Plain(t.inside[x]) = Plain(u.inside[x])

\* An item of a move that was S, with nothing at its target: what is at its two
\* places i and j until it has got through, and then.
OnTheWay(S, d, i, j) ==
    /\ d[i] = S.node /\ d[j] \in {"none", S.node}
    /\ \A x \in Parts :
          /\ d[Child(j, x)] \in {"none", Plain(S.inside[x])}
          /\ d[Child(i, x)] = S.inside[x] \/ (d[Child(i, x)] = "none" /\ d[Child(j, x)] = Plain(S.inside[x]))
Landed(S, d, i, j) == Tree(d, i) = NoTree /\ SameFiles(Tree(d, j), S)

Found(i) == Tree(before, i)
Fresh(i, j) == Exists(before, i) /\ ~Exists(before, j)
Straight == op.kind = "move" /\ ~op.typed /\ ~disturbed

\* The items of a move, where nobody else interferes.
MoveInv ==
    Straight => \A n \in DOMAIN op.names : Fresh(SrcAt(n), DstAt(n)) =>
        \/ OnTheWay(Found(SrcAt(n)), disk, SrcAt(n), DstAt(n))
        \/ n <= op.at /\ (phase \in Working => n # op.at) /\ Landed(Found(SrcAt(n)), disk, SrcAt(n), DstAt(n))
\* The walk over the folder at work.
WalkedInv ==
    Straight /\ phase \in {"walk", "remove"} /\ Fresh(Src, Dst) =>
        \A x \in Parts :
            IF Child(Src, x) \in op.todo THEN disk[Child(Src, x)] = Found(Src).inside[x]
            ELSE ~Barred(Src) => disk[Child(Dst, x)] = Plain(Found(Src).inside[x])

LEMMA TreePoints ==
    ASSUME NEW d \in [Places -> Nodes], NEW e \in [Places -> Nodes], NEW i \in Items, Tree(d, i) = Tree(e, i)
    PROVE  d[i] = e[i] /\ \A x \in Parts : d[Child(i, x)] = e[Child(i, x)]
BY TreeIs

LEMMA SameTrees ==
    ASSUME NEW d \in [Places -> Nodes], NEW e \in [Places -> Nodes], NEW i \in Items, NEW j \in Items,
           Tree(e, i) = Tree(d, i), Tree(e, j) = Tree(d, j), NEW S
    PROVE  (OnTheWay(S, d, i, j) => OnTheWay(S, e, i, j)) /\ (Landed(S, d, i, j) => Landed(S, e, i, j))
BY TreePoints DEF OnTheWay, Landed

LEMMA NoTreeIs ==
    ASSUME NEW d \in [Places -> Nodes], NEW i \in Items, \A p \in Under(i) : d[p] = "none"
    PROVE  Tree(d, i) = NoTree
<1>1. d[i] = "none" /\ \A x \in Parts : d[Child(i, x)] = "none"
  BY ItemPlaces DEF Under
<1>. QED  BY <1>1 DEF Tree, NoTree, Child

LEMMA NothingThere ==
    ASSUME NEW d, GoodDisk(d), NEW i \in Items, d[i] = "none"
    PROVE  Tree(d, i) = NoTree
<1>1. d \in [Places -> Nodes] /\ \A p \in Inside(i) : d[p] = "none"
  BY GoodDiskIs DEF GoodDisk
<1>. QED  BY <1>1, NoTreeIs DEF Under

\* What a step of a move does to the disk.
LEMMA MoveEffects ==
    ASSUME TransferInv, Engine, op.kind = "move", phase \in Working, disk' # disk
    PROVE  \/ phase = "attempt" /\ IsDirectory(Src) /\ disk' = [disk EXCEPT ![Dst] = "folder"]
           \/ phase = "attempt" /\ ~IsDirectory(Src) /\ MayReplace /\ disk' = [disk EXCEPT ![Dst] = disk[Src]]
           \/ phase = "attempt" /\ MayReplace /\ disk' = Moved /\ phase' = "next"
           \/ phase = "attempt" /\ ~IsDirectory(Src) /\ ~IsDirectory(Dst) /\ disk' = [disk EXCEPT ![Dst] = "none"]
           \/ phase = "walk" /\ \E p \in op.todo : \E v \in {"none"} \cup ({disk[p]} \cap Contents) : disk' = [disk EXCEPT ![Through(ChildDst(p))] = v]
           \/ phase = "remove" /\ ~Resists(Src) /\ disk' = PutTree(disk, Src, NoTree) /\ phase' = "next"
           \/ phase = "remove" /\ disk' \in PartlyRemoved(Src)
<1>0. CountInv /\ OpInv /\ GoodInv /\ WalkInv
  BY DEF TransferInv
<1>1. Through(Dst) = Dst
  BY <1>0, ItemAtWork, ThroughIs DEF GoodInv
<1>2. CASE AttemptMove
  <2>1. CASE OpenFolder(Src, Dst) /\ IsDirectory(Src)
    BY <1>2, <2>1 DEF OpenFolder, MustFail, FailsBy, AttemptMove
  <2>2. CASE MayReplace /\ disk' = Moved /\ Succeeded
    BY <1>2, <2>2 DEF Succeeded, Over, AttemptMove
  <2>3. CASE MayReplace /\ ~IsDirectory(Src) /\ disk' = Write(Src, Dst)
    BY <1>1, <1>2, <2>3 DEF Write, AttemptMove
  <2>4. CASE ~IsDirectory(Src) /\ disk' \in GivenUp(Dst)
    BY <1>1, <1>2, <2>4 DEF GivenUp, AttemptMove
  <2>. QED  BY <1>2, <2>1, <2>2, <2>3, <2>4 DEF AttemptMove, MustFail, FailsBy
<1>3. ASSUME NEW p \in Places, CopyChild(p)
      PROVE  phase = "walk" /\ \E q \in op.todo : \E v \in {"none"} \cup ({disk[q]} \cap Contents) : disk' = [disk EXCEPT ![Through(ChildDst(q))] = v]
  <2>1. phase = "walk" /\ p \in op.todo /\ \E then : CopySingleFile(p, ChildDst(p), then)
    BY <1>3 DEF CopyChild
  <2>. QED  BY <2>1, CopyEffects
<1>4. CASE RemoveSource
  BY <1>4 DEF RemoveSource, Succeeded, Over, MustFail, FailsBy
<1>5. CASE NextItem \/ AnswerConflict \/ AnswerError \/ FolderCopied
  BY <1>5 DEF NextItem, AnswerConflict, AnswerError, FolderCopied
<1>6. ~AttemptCopy /\ ~AttemptRename /\ ~AttemptRestore /\ ~AttemptRecycle(clock) /\ ~AttemptDelete
  BY DEF AttemptCopy, AttemptRename, AttemptRestore, AttemptRecycle, AttemptDelete
<1>. QED  BY <1>2, <1>3, <1>4, <1>5, <1>6 DEF Engine, EngineStep

\* The two places of the item at work, point by point.
LEMMA AtWorkPlaces ==
    ASSUME OpInv, GoodInv, phase \in Past, op.kind = "move"
    PROVE  /\ Src \in Items /\ Dst \in Items /\ Src # Dst /\ Src \in Places /\ Dst \in Places
           /\ disk \in [Places -> Nodes]
           /\ \A x \in Parts : /\ Child(Src, x) \in Inside(Src) /\ Child(Src, x) \in Places
                               /\ Child(Dst, x) \in Inside(Dst) /\ Child(Dst, x) \in Places
                               /\ Child(Src, x) \notin {Src, Dst} /\ Child(Dst, x) \notin {Src, Dst}
                               /\ Child(Src, x)[3] = x
                               /\ \A y \in Parts : Child(Src, x) # Child(Dst, y) /\ (x # y => Child(Dst, x) # Child(Dst, y))
                               /\ disk[Child(Src, x)] # "folder"
           /\ disk[Src] # "folder" => \A x \in Parts : disk[Child(Src, x)] = "none"
           /\ disk[Dst] # "folder" => \A x \in Parts : disk[Child(Dst, x)] = "none"
           /\ \A p \in Inside(Src) : \E x \in Parts : p = Child(Src, x) /\ ChildDst(p) = Child(Dst, x)
<1>1. Src \in Items /\ Dst \in Items /\ Src # Dst
  BY ItemAtWork, SrcApart DEF Working, Past
<1>2. GoodDisk(disk) /\ disk \in [Places -> Nodes]
  BY DEF GoodInv, GoodDisk
<1>3. /\ Src \in Places /\ Dst \in Places
      /\ \A x \in Parts : /\ Child(Src, x) \in Inside(Src) /\ Child(Src, x) \in Places /\ Child(Src, x)[3] = x
                          /\ Child(Dst, x) \in Inside(Dst) /\ Child(Dst, x) \in Places
      /\ \A p \in Inside(Src) : \E x \in Parts : p = Child(Src, x) /\ ChildDst(p) = Child(Dst, x)
  BY <1>1, ItemPlaces DEF ChildDst, Child
<1>4. \A x \in Parts : Child(Src, x) \notin {Src, Dst} /\ Child(Dst, x) \notin {Src, Dst}
  BY <1>1, <1>3, ItemsApart
<1>5. \A x, y \in Parts : Child(Src, x) # Child(Dst, y) /\ (x # y => Child(Dst, x) # Child(Dst, y))
  <2>1. Inside(Src) \cap Inside(Dst) = {}
    BY <1>1, ItemsApart
  <2>. QED  BY <1>3, <2>1 DEF Child
<1>6. \A x \in Parts : disk[Child(Src, x)] # "folder"
  BY <1>1, <1>2, <1>3, GoodDiskIs
<1>7. /\ disk[Src] # "folder" => \A x \in Parts : disk[Child(Src, x)] = "none"
      /\ disk[Dst] # "folder" => \A x \in Parts : disk[Child(Dst, x)] = "none"
  BY <1>1, <1>2, <1>3, GoodDiskIs
<1>. QED  BY <1>1, <1>2, <1>3, <1>4, <1>5, <1>6, <1>7

LEMMA PlainIs == Plain("none") = "none" /\ Plain("link") = "none" /\ Plain("folder") = "folder" /\ \A c \in Contents : Plain(c) = c
BY FileOpsAssumption DEF Plain

\* The item at work gets on, or has got through.
LEMMA MoveGetsOn ==
    ASSUME TransferInv, GoodInv', WalkedInv, Engine, Straight, phase \in Past, Fresh(Src, Dst), NEW S, S = Found(Src),
           OnTheWay(S, disk, Src, Dst)
    PROVE  OnTheWay(S, disk', Src, Dst) \/ (phase' = "next" /\ Landed(S, disk', Src, Dst))
<1>0. OpInv /\ GoodInv /\ WalkInv /\ op.kind = "move" /\ phase \in Working
  BY DEF TransferInv, Straight, Past, Working
<1>. DEFINE s(x) == Child(Src, x)
            t(x) == Child(Dst, x)
<1>1. /\ Src \in Items /\ Dst \in Items /\ Src # Dst /\ Src \in Places /\ Dst \in Places
      /\ disk \in [Places -> Nodes]
      /\ \A x \in Parts : /\ s(x) \in Inside(Src) /\ s(x) \in Places /\ t(x) \in Inside(Dst) /\ t(x) \in Places
                          /\ s(x) \notin {Src, Dst} /\ t(x) \notin {Src, Dst}
                          /\ \A y \in Parts : s(x) # t(y) /\ (x # y => t(x) # t(y))
                          /\ disk[s(x)] # "folder"
      /\ disk[Src] # "folder" => \A x \in Parts : disk[s(x)] = "none"
      /\ disk[Dst] # "folder" => \A x \in Parts : disk[t(x)] = "none"
      /\ \A p \in Inside(Src) : \E x \in Parts : p = s(x) /\ ChildDst(p) = t(x)
  BY <1>0, AtWorkPlaces
<1>2. /\ disk[Src] = S.node /\ disk[Dst] \in {"none", S.node}
      /\ \A x \in Parts :
            /\ disk[t(x)] \in {"none", Plain(S.inside[x])}
            /\ disk[s(x)] = S.inside[x] \/ (disk[s(x)] = "none" /\ disk[t(x)] = Plain(S.inside[x]))
  BY DEF OnTheWay
<1>3. disk' \in [Places -> Nodes]
  BY DEF GoodInv, GoodDisk
<1>w. CASE phase \in {"walk", "remove"}
  <2>1. /\ IsDirectory(Src) /\ IsDirectory(Dst) /\ op.todo \subseteq Inside(Src) /\ (phase = "remove" => op.todo = {})
        /\ \A x \in Parts : IF s(x) \in op.todo THEN disk[s(x)] = S.inside[x]
                            ELSE ~Barred(Src) => disk[t(x)] = Plain(S.inside[x])
    BY <1>0, <1>w DEF WalkInv, WalkedInv
  <2>. HIDE DEF s, t
  <2>2. ASSUME NEW p \in op.todo, NEW v \in {"none"} \cup ({disk[p]} \cap Contents),
               disk' = [disk EXCEPT ![Through(ChildDst(p))] = v]
        PROVE  OnTheWay(S, disk', Src, Dst)
    <3>1. PICK x \in Parts : p = s(x) /\ ChildDst(p) = t(x)
      BY <1>1, <2>1
    <3>2. disk[s(x)] = S.inside[x] /\ v \in {"none", Plain(S.inside[x])}
      BY <2>1, <2>2, <3>1, PlainIs
    <3>3. disk[t(x)] # "link"
      BY <1>2, FileOpsAssumption DEF Plain
    <3>4. Through(ChildDst(p)) = t(x)
      BY <3>1, <3>3 DEF Through
    <3>5. /\ disk'[t(x)] = v /\ disk'[Src] = disk[Src] /\ disk'[Dst] = disk[Dst]
          /\ \A y \in Parts : disk'[s(y)] = disk[s(y)] /\ (y # x => disk'[t(y)] = disk[t(y)])
      BY <1>1, <2>2, <3>4
    <3>6. ASSUME NEW y \in Parts
          PROVE  /\ disk'[t(y)] \in {"none", Plain(S.inside[y])}
                 /\ disk'[s(y)] = S.inside[y] \/ (disk'[s(y)] = "none" /\ disk'[t(y)] = Plain(S.inside[y]))
      BY <1>2, <3>2, <3>5
    <3>. QED  BY <1>2, <3>5, <3>6 DEF OnTheWay, s, t
  <2>3. ASSUME phase = "remove", ~Resists(Src), disk' = PutTree(disk, Src, NoTree), phase' = "next"
        PROVE  Landed(S, disk', Src, Dst)
    <3>1. /\ \A q \in Places \ Under(Src) : disk'[q] = disk[q]
          /\ \A q \in Under(Src) : disk'[q] = "none"
      BY <1>0, <1>1, <2>3, RemovedIs
    <3>2. Dst \notin Under(Src) /\ \A x \in Parts : t(x) \notin Under(Src)
      BY <1>1, UnderApart DEF Under
    <3>3. disk'[Dst] = disk[Dst] /\ \A x \in Parts : disk'[t(x)] = disk[t(x)]
      BY <1>1, <3>1, <3>2
    <3>4. ASSUME NEW x \in Parts PROVE disk[t(x)] = Plain(S.inside[x])
      <4>1. s(x) \notin op.todo
        BY <2>1, <2>3
      <4>2. CASE ~Barred(Src)
        BY <2>1, <4>1, <4>2
      <4>3. CASE Barred(Src)
        <5>1. disk[s(x)] = "none"
          BY <1>1, <2>3, <4>3 DEF Resists
        <5>. QED  BY <1>2, <5>1, PlainIs
      <4>. QED  BY <4>2, <4>3
    <3>5. Tree(disk', Src) = NoTree
      BY <1>1, <1>3, <3>1, NoTreeIs
    <3>6. Tree(disk', Dst).node = S.node /\ \A x \in Parts : Tree(disk', Dst).inside[x] = Plain(S.inside[x])
      <4>1. /\ Tree(disk', Dst).node = disk'[Dst]
            /\ \A x \in Parts : Tree(disk', Dst).inside[x] = disk'[t(x)]
        BY <1>1, <1>3, TreeIs DEF t
      <4>2. disk[Dst] = S.node
        BY <1>2, <2>1, FileOpsAssumption DEF IsDirectory
      <4>. QED  BY <3>3, <3>4, <4>1, <4>2
    <3>. QED  BY <3>5, <3>6 DEF Landed, SameFiles, Plain
  <2>4. ASSUME phase = "remove", disk' \in PartlyRemoved(Src)
        PROVE  OnTheWay(S, disk', Src, Dst)
    <3>1. CASE disk' = disk
      BY <3>1
    <3>2. CASE disk' # disk
      <4>1. /\ \A q \in Places \ Inside(Src) : disk'[q] = disk[q]
            /\ \A q \in Inside(Src) : disk'[q] \in {disk[q], "none"}
            /\ ~Barred(Src)
        BY <1>1, <2>4, <3>2, PartlyIs
      <4>2. Dst \notin Inside(Src) /\ Src \notin Inside(Src) /\ \A x \in Parts : t(x) \notin Inside(Src)
        BY <1>1, UnderApart, ItemsApart DEF Under
      <4>3. disk'[Dst] = disk[Dst] /\ disk'[Src] = disk[Src] /\ \A x \in Parts : disk'[t(x)] = disk[t(x)]
        BY <1>1, <4>1, <4>2
      <4>4. \A x \in Parts : disk[t(x)] = Plain(S.inside[x]) /\ disk'[s(x)] \in {disk[s(x)], "none"}
        BY <1>1, <2>1, <2>4, <4>1
      <4>5. ASSUME NEW x \in Parts
            PROVE  /\ disk'[t(x)] \in {"none", Plain(S.inside[x])}
                   /\ disk'[s(x)] = S.inside[x] \/ (disk'[s(x)] = "none" /\ disk'[t(x)] = Plain(S.inside[x]))
        BY <1>2, <4>3, <4>4
      <4>. QED  BY <1>2, <4>3, <4>5 DEF OnTheWay, s, t
    <3>. QED  BY <3>1, <3>2
  <2>. QED  BY <1>0, <1>w, <2>2, <2>3, <2>4, MoveEffects
<1>a. CASE phase = "attempt"
  <2>. HIDE DEF s, t
  <2>1. ASSUME NEW v \in {"none", S.node}, disk' = [disk EXCEPT ![Dst] = v] PROVE OnTheWay(S, disk', Src, Dst)
    <3>1. disk'[Dst] = v /\ disk'[Src] = disk[Src] /\ \A x \in Parts : disk'[s(x)] = disk[s(x)] /\ disk'[t(x)] = disk[t(x)]
      BY <1>1, <2>1
    <3>. QED  BY <1>2, <2>1, <3>1 DEF OnTheWay, s, t
  <2>2. ASSUME MayReplace, disk' = Moved PROVE Landed(S, disk', Src, Dst)
    <3>. DEFINE m == PutTree(disk, Dst, Tree(disk, Src))
    <3>1. Tree(disk, Src) \in Trees /\ NoTree \in Trees /\ m \in [Places -> Nodes]
      BY <1>1, TreeIs, NoTreeGood, PutTreeIs DEF GoodTrees
    <3>2. Tree(m, Dst) = Tree(disk, Src)
      BY <1>1, <3>1, PutTreeTree
    <3>. HIDE DEF m
    <3>3. disk' = PutTree(m, Src, NoTree)
      BY <2>2 DEF Moved, m
    <3>4. Tree(disk', Src) = NoTree /\ Tree(disk', Dst) = Tree(disk, Src)
      BY <1>1, <3>1, <3>2, <3>3, PutTreeTree
    <3>5. disk[Dst] # "folder"
      BY <2>2, FileOpsAssumption DEF MayReplace
    <3>6. \A x \in Parts : Plain(disk[s(x)]) = Plain(S.inside[x])
      BY <1>1, <1>2, <3>5, PlainIs
    <3>7. Tree(disk, Src).node = disk[Src] /\ \A x \in Parts : Tree(disk, Src).inside[x] = disk[s(x)]
      BY <1>1, TreeIs DEF s
    <3>. QED  BY <1>2, <3>4, <3>6, <3>7 DEF Landed, SameFiles
  <2>3. IsDirectory(Src) => S.node = "folder"
    BY <1>2 DEF IsDirectory
  <2>. QED  BY <1>0, <1>2, <1>a, <2>1, <2>2, <2>3, MoveEffects
<1>e. CASE phase = "error"
  BY <1>0, <1>e, MoveEffects
<1>. QED  BY <1>w, <1>a, <1>e DEF Past

-----------------------------------------------------------------------------
(* What its steps do to the item at work, and to the others.                 *)

\* The item at work is the one the task names.
LEMMA AtIsWork ==
    ASSUME OpInv, TargetInv, phase \in Working, ~op.typed
    PROVE  op.at \in DOMAIN op.names /\ Src = SrcAt(op.at) /\ Dst = DstAt(op.at)
BY ItemAtWork DEF TargetInv, Src, Dst, SrcOf, DstOf, SrcAt, DstAt

LEMMA OthersAtWork ==
    ASSUME OpInv, TargetInv, phase \in Working, op.kind = "move", ~op.typed, NEW n \in DOMAIN op.names, n # op.at
    PROVE  SrcAt(n) \notin {Src, Dst} /\ DstAt(n) \notin {Src, Dst} /\ SrcAt(n) \in Items /\ DstAt(n) \in Items
<1>1. op.at \in DOMAIN op.names /\ Src = SrcAt(op.at) /\ Dst = DstAt(op.at)
  BY AtIsWork
<1>2. op.from # op.to
  BY DEF OpInv, Apart, Working, Past
<1>3. op.names[n].name # op.names[op.at].name /\ op.names[n].target # op.names[op.at].target
  BY <1>1 DEF OpInv, Task
<1>. QED  BY <1>1, <1>2, <1>3, AtItems DEF SrcAt, DstAt

LEMMA EngineStraight ==
    ASSUME CountInv, OpInv, Engine, Straight'
    PROVE  Straight /\ disturbed' = disturbed
<1>1. disturbed' = disturbed
  BY DEF Engine, EngineStep, NextItem, AnswerConflict, AnswerError, AttemptCopy, AttemptMove, AttemptRecycle, AttemptDelete,
     AttemptRename, AttemptRestore, CopyChild, FolderCopied, RemoveSource, outerVars
<1>2. op.kind = "move"
  BY EngineOp DEF SameTask, Straight
<1>3. ~op.typed
  BY EngineOp DEF Straight
<1>. QED  BY <1>1, <1>2, <1>3 DEF Straight

LEMMA EngineMove ==
    ASSUME TransferInv, OpInv', GoodInv', TargetInv, MoveInv, WalkedInv, Engine, UNCHANGED uiVars
    PROVE  MoveInv'
<1>0. CountInv /\ OpInv /\ GoodInv /\ disk \in [Places -> Nodes] /\ disk' \in [Places -> Nodes] /\ before' = before
  BY DEF TransferInv, GoodInv, GoodDisk, uiVars
<1>. SUFFICES ASSUME Straight', NEW n \in DOMAIN op.names, Fresh(SrcAt(n), DstAt(n))
              PROVE  \/ OnTheWay(Found(SrcAt(n)), disk', SrcAt(n), DstAt(n))
                     \/ n <= op'.at /\ (phase' \in Working => n # op'.at) /\ Landed(Found(SrcAt(n)), disk', SrcAt(n), DstAt(n))
  <2>1. op'.names = op.names /\ op'.from = op.from /\ op'.to = op.to
    BY <1>0, EngineOp DEF SameTask
  <2>. QED  BY <1>0, <2>1 DEF MoveInv, Found, Fresh, Exists, SrcAt, DstAt, Working
<1>. DEFINE i == SrcAt(n)
            j == DstAt(n)
            S == Found(i)
<1>1. Straight /\ op.kind = "move" /\ ~op.typed
  BY <1>0, EngineStraight DEF Straight
<1>2. \/ OnTheWay(S, disk, i, j)
      \/ n <= op.at /\ (phase \in Working => n # op.at) /\ Landed(S, disk, i, j)
  BY <1>1 DEF MoveInv
<1>3. n \in Nat /\ op.at \in Nat /\ i \in Items /\ j \in Items
  BY <1>0, AtItems DEF OpInv, Task
<1>4. CASE phase \notin Working
  <2>1. disk' = disk /\ ((op' = op /\ phase' = "end") \/ op'.at = op.at + 1)
    BY <1>0, <1>4, EngineOp
  <2>. HIDE DEF i, j, S
  <2>2. n <= op.at => n <= op'.at /\ (phase' \in Working => n # op'.at)
    BY <1>3, <2>1 DEF Working
  <2>. QED  BY <1>2, <2>1, <2>2 DEF i, j, S
<1>5. CASE phase \in Working /\ n # op.at
  <2>1. i \notin {Src, Dst} /\ j \notin {Src, Dst}
    BY <1>0, <1>1, <1>5, OthersAtWork
  <2>2. Tree(disk', i) = Tree(disk, i) /\ Tree(disk', j) = Tree(disk, j)
    BY <1>1, <1>3, <2>1, OtherItems DEF Copies
  <2>3. op'.at = op.at
    BY <1>0, <1>5, EngineOp
  <2>. HIDE DEF i, j, S
  <2>4. (OnTheWay(S, disk, i, j) => OnTheWay(S, disk', i, j)) /\ (Landed(S, disk, i, j) => Landed(S, disk', i, j))
    BY <1>0, <1>3, <2>2, SameTrees
  <2>. QED  BY <1>2, <1>5, <2>3, <2>4 DEF i, j, S
<1>6. CASE phase \in Working /\ n = op.at
  <2>1. i = Src /\ j = Dst /\ op'.at = op.at
    BY <1>0, <1>1, <1>6, AtIsWork, EngineOp
  <2>2. OnTheWay(S, disk, Src, Dst) /\ Fresh(Src, Dst) /\ S = Found(Src)
    BY <1>2, <1>6, <2>1
  <2>3. CASE phase = "conflict"
    <3>1. disk' = disk
      BY <2>3 DEF Engine, EngineStep, NextItem, AnswerConflict, AnswerError, AttemptCopy, AttemptMove, AttemptRecycle, AttemptDelete,
         AttemptRename, AttemptRestore, CopyChild, FolderCopied, RemoveSource
    <3>. QED  BY <2>1, <2>2, <3>1
  <2>4. CASE phase \in Past
    <3>1. OnTheWay(S, disk', Src, Dst) \/ (phase' = "next" /\ Landed(S, disk', Src, Dst))
      BY <1>1, <2>2, <2>4, MoveGetsOn
    <3>2. n <= op'.at
      BY <1>3, <1>6, <2>1
    <3>. QED  BY <2>1, <3>1, <3>2 DEF Working
  <2>. QED  BY <1>6, <2>3, <2>4 DEF Working, Past
<1>. QED  BY <1>4, <1>5, <1>6

\* Where nothing is at the target, a move starts on its way.
LEMMA MoveStarts ==
    ASSUME GoodInv, OpInv', before' = disk, disk' = disk
    PROVE  MoveInv'
<1>1. GoodDisk(disk) /\ disk \in [Places -> Nodes]
  BY DEF GoodInv, GoodDisk
<1>2. ASSUME NEW i \in Items, NEW j \in Items, disk[j] = "none" PROVE OnTheWay(Tree(disk, i), disk, i, j)
  <2>1. Tree(disk, j) = NoTree
    BY <1>1, <1>2, NothingThere
  <2>2. /\ \A x \in Parts : disk[Child(j, x)] = "none"
        /\ Tree(disk, i).node = disk[i] /\ \A x \in Parts : Tree(disk, i).inside[x] = disk[Child(i, x)]
    BY <1>1, <2>1, TreeIs, NoTreeGood
  <2>. QED  BY <1>2, <2>2 DEF OnTheWay
<1>3. ASSUME NEW n \in DOMAIN op'.names PROVE SrcAt(n)' \in Items /\ DstAt(n)' \in Items
  <2>1. op'.names[n] \in NamePairs /\ op'.from \in Dirs /\ op'.to \in Dirs
    BY <1>3 DEF OpInv, Task
  <2>. QED  BY <2>1, PairIsItem DEF NamePairs, SrcAt, DstAt
<1>. QED  BY <1>2, <1>3 DEF MoveInv, Found, Fresh, Exists

LEMMA NextMove ==
    ASSUME TransferInv, OpInv', GoodInv', TargetInv, MoveInv, WalkedInv, [Next]_allVars
    PROVE  MoveInv'
<1>0. CountInv /\ OpInv /\ GoodInv /\ Idle.kind = "none"
  BY DEF TransferInv, Idle
<1>1. CASE Engine /\ UNCHANGED uiVars
  BY <1>1, EngineMove
<1>2. ASSUME NEW r \in Requests, PerformCopyOrMove(r) \/ DoDelete(r) PROVE MoveInv'
  BY <1>0, <1>2, MoveStarts DEF PerformCopyOrMove, DoDelete, Begin
<1>3. CASE op'.kind = "none"
  BY <1>3 DEF MoveInv, Straight
<1>4. CASE (\E r \in Requests : DoRename(r)) \/ EndOperation \/ DoUndo \/ EndUndo
  BY <1>0, <1>3, <1>4 DEF CountInv, DoRename, EndOperation, BackToIdle, DoUndo, EndUndo
<1>5. CASE AnswerUndo
  <2>1. CASE before' = disk /\ disk' = disk
    BY <1>0, <2>1, MoveStarts
  <2>2. CASE UNCHANGED op
    BY <1>0, <1>3, <1>5, <2>2 DEF CountInv, AnswerUndo
  <2>. QED  BY <1>5, <2>1, <2>2 DEF AnswerUndo
<1>6. ASSUME NEW w \in Writes, OtherProgramWrites(w[1], w[2]) PROVE MoveInv'
  <2>1. op' = op /\ disturbed' = (phase # "idle")
    BY <1>6 DEF OtherProgramWrites
  <2>2. CASE phase = "idle"
    BY <1>0, <1>3, <2>1, <2>2 DEF CountInv
  <2>3. CASE phase # "idle"
    BY <2>1, <2>3 DEF MoveInv, Straight
  <2>. QED  BY <2>2, <2>3
<1>7. CASE UNCHANGED allVars
  BY <1>7 DEF MoveInv, Straight, Fresh, Found, Exists, SrcAt, DstAt, Working, allVars, fileVars, uiVars, outerVars
<1>. QED  BY <1>1, <1>2, <1>4, <1>5, <1>6, <1>7 DEF Next, UserStarts

-----------------------------------------------------------------------------
(* The walk over a folder on the move.                                       *)

LEMMA WorkOnTheWay ==
    ASSUME OpInv, TargetInv, MoveInv, Straight, phase \in Working, Fresh(Src, Dst)
    PROVE  OnTheWay(Found(Src), disk, Src, Dst)
<1>1. op.at \in DOMAIN op.names /\ Src = SrcAt(op.at) /\ Dst = DstAt(op.at)
  BY AtIsWork DEF Straight
<1>. QED  BY <1>1 DEF MoveInv

LEMMA NextWalked ==
    ASSUME TransferInv, GoodInv', TargetInv, MoveInv, WalkedInv, [Next]_allVars
    PROVE  WalkedInv'
<1>. SUFFICES ASSUME Straight', phase' \in {"walk", "remove"}, Fresh(Src, Dst)', NEW x \in Parts
              PROVE  IF Child(Src, x)' \in op'.todo THEN disk'[Child(Src, x)'] = Found(Src)'.inside[x]
                     ELSE ~Barred(Src)' => disk'[Child(Dst, x)'] = Plain(Found(Src)'.inside[x])
  BY DEF WalkedInv
<1>0. CountInv /\ OpInv /\ GoodInv /\ WalkInv
  BY DEF TransferInv
<1>s. ASSUME phase \in {"attempt", "walk", "remove"}, Straight, Src' = Src, Dst' = Dst, UNCHANGED <<uiVars, denied>>, op'.elevated = op.elevated
      PROVE  /\ op.kind = "move" /\ phase \in Past /\ phase \in Working
             /\ Fresh(Src, Dst) /\ Found(Src)' = Found(Src) /\ Barred(Src)' = Barred(Src)
             /\ Child(Src, x)' = Child(Src, x) /\ Child(Dst, x)' = Child(Dst, x)
             /\ OnTheWay(Found(Src), disk, Src, Dst)
  <2>1. op.kind = "move" /\ phase \in Past /\ phase \in Working
    BY <1>s DEF Straight, Past, Working
  <2>2. before' = before
    BY <1>s DEF uiVars
  <2>3. Fresh(Src, Dst) /\ Found(Src)' = Found(Src) /\ Child(Src, x)' = Child(Src, x) /\ Child(Dst, x)' = Child(Dst, x)
    BY <1>s, <2>2 DEF Fresh, Exists, Found, Child
  <2>4. Barred(Src)' = Barred(Src)
    BY <1>s DEF Barred
  <2>5. OnTheWay(Found(Src), disk, Src, Dst)
    BY <1>0, <1>s, <2>1, <2>3, WorkOnTheWay
  <2>. QED  BY <2>1, <2>3, <2>4, <2>5
<1>1. CASE phase = "attempt" /\ phase' = "walk" /\ op.kind \in {"copy", "move"} /\ IsDirectory(Src) /\ OpenFolder(Src, Dst)
           /\ (AttemptCopy \/ AttemptMove) /\ UNCHANGED uiVars
  <2>1. /\ op'.todo = (IF Barred(Src) THEN {} ELSE {p \in Inside(Src) : disk[p] # "none"})
        /\ disk' = [disk EXCEPT ![Dst] = "folder"] /\ Src' = Src /\ Dst' = Dst /\ op'.elevated = op.elevated
    BY <1>0, <1>1, Opened
  <2>2. Straight /\ UNCHANGED denied
    BY <1>0, <1>1, EngineStraight DEF Engine, EngineStep, AttemptCopy, AttemptMove, outerVars
  <2>. DEFINE S == Found(Src)
  <2>3. /\ op.kind = "move" /\ phase \in Past /\ phase \in Working
        /\ Fresh(Src, Dst) /\ Found(Src)' = S /\ Barred(Src)' = Barred(Src)
        /\ Child(Src, x)' = Child(Src, x) /\ Child(Dst, x)' = Child(Dst, x)
        /\ OnTheWay(S, disk, Src, Dst)
    BY <1>1, <1>s, <2>1, <2>2
  <2>. DEFINE s == Child(Src, x)
              t == Child(Dst, x)
  <2>4. s \in Inside(Src) /\ s \in Places /\ t \in Places /\ s # Dst /\ t # Dst /\ disk \in [Places -> Nodes]
    BY <1>0, <2>3, AtWorkPlaces
  <2>5. disk[t] \in {"none", Plain(S.inside[x])} /\ (disk[s] = S.inside[x] \/ (disk[s] = "none" /\ disk[t] = Plain(S.inside[x])))
    BY <2>3 DEF OnTheWay
  <2>. HIDE DEF s, t, S
  <2>6. disk'[s] = disk[s] /\ disk'[t] = disk[t]
    BY <2>1, <2>4
  <2>7. s \in op'.todo <=> ~Barred(Src) /\ disk[s] # "none"
    BY <2>1, <2>4
  <2>8. IF s \in op'.todo THEN disk'[s] = S.inside[x] ELSE ~Barred(Src) => disk'[t] = Plain(S.inside[x])
    BY <2>5, <2>6, <2>7, PlainIs
  <2>. QED  BY <2>3, <2>8 DEF s, t
<1>2. ASSUME phase = "walk", phase' = "walk", NEW p \in Places, CopyChild(p), UNCHANGED uiVars
      PROVE  IF Child(Src, x)' \in op'.todo THEN disk'[Child(Src, x)'] = Found(Src)'.inside[x]
             ELSE ~Barred(Src)' => disk'[Child(Dst, x)'] = Plain(Found(Src)'.inside[x])
  <2>1. /\ p \in op.todo /\ p \in Inside(Src) /\ SameItem /\ op'.todo = op.todo \ {p} /\ op'.elevated = op.elevated
        /\ \/ disk' = disk /\ disk[p] \notin Contents
           \/ disk[p] \in Contents /\ disk' = [disk EXCEPT ![Through(ChildDst(p))] = disk[p]]
    BY <1>0, <1>2, WalkGoesOn
  <2>2. Straight /\ UNCHANGED denied
    BY <1>0, <1>2, EngineStraight DEF Engine, EngineStep, CopyChild, outerVars
  <2>. DEFINE S == Found(Src)
  <2>3. /\ op.kind = "move" /\ phase \in Past /\ phase \in Working
        /\ Fresh(Src, Dst) /\ Found(Src)' = S /\ Barred(Src)' = Barred(Src)
        /\ Child(Src, x)' = Child(Src, x) /\ Child(Dst, x)' = Child(Dst, x)
        /\ OnTheWay(S, disk, Src, Dst)
    BY <1>2, <1>s, <2>1, <2>2, SameItemPlaces
  <2>4. /\ IF Child(Src, x) \in op.todo THEN disk[Child(Src, x)] = S.inside[x]
           ELSE ~Barred(Src) => disk[Child(Dst, x)] = Plain(S.inside[x])
        /\ p \in Inside(Src)
    BY <1>2, <2>1, <2>2, <2>3 DEF WalkedInv
  <2>5. PICK y \in Parts : p = Child(Src, y) /\ ChildDst(p) = Child(Dst, y)
    BY <1>0, <2>1, <2>3, AtWorkPlaces
  <2>. DEFINE s == Child(Src, x)
              t == Child(Dst, x)
  <2>6. /\ s \in Places /\ t \in Places /\ disk \in [Places -> Nodes]
        /\ s # Child(Dst, y) /\ (x # y => t # Child(Dst, y)) /\ s[3] = x /\ Child(Src, y)[3] = y
        /\ disk[s] # "folder" /\ Child(Dst, y) \in Places
    BY <1>0, <2>3, AtWorkPlaces
  <2>7. disk[Child(Dst, y)] \in {"none", Plain(S.inside[y])} /\ disk[t] \in {"none", Plain(S.inside[x])}
    BY <2>3 DEF OnTheWay
  <2>8. Through(ChildDst(p)) = Child(Dst, y)
    <3>1. disk[Child(Dst, y)] # "link"
      BY <2>7, FileOpsAssumption DEF Plain
    <3>. QED  BY <2>5, <3>1 DEF Through
  <2>. HIDE DEF s, t, S
  <2>9. disk'[s] = disk[s] /\ (x # y => disk'[t] = disk[t])
    BY <2>1, <2>6, <2>8
  <2>10. s = p <=> x = y
    BY <2>5, <2>6 DEF s
  <2>11. CASE x # y
    BY <2>1, <2>3, <2>4, <2>9, <2>10, <2>11 DEF s, t
  <2>12. CASE x = y
    <3>1. t = Child(Dst, y)
      BY <2>12 DEF t
    <3>2. disk[s] = S.inside[x] /\ s = p /\ s \notin op'.todo
      BY <2>1, <2>4, <2>10, <2>12 DEF s
    <3>3. CASE disk' = disk /\ disk[p] \notin Contents
      <4>1. disk[p] \in {"none", "link"}
        BY <2>6, <3>2, <3>3 DEF Nodes
      <4>2. Plain(S.inside[x]) = "none"
        BY <3>2, <4>1, PlainIs
      <4>3. disk'[t] = Plain(S.inside[x])
        BY <2>7, <3>3, <4>2
      <4>. QED  BY <2>3, <3>2, <4>3 DEF s, t
    <3>4. CASE disk[p] \in Contents /\ disk' = [disk EXCEPT ![Through(ChildDst(p))] = disk[p]]
      <4>1. disk'[t] = disk[p]
        BY <2>6, <2>8, <3>1, <3>4
      <4>2. disk'[t] = Plain(S.inside[x])
        BY <3>2, <3>4, <4>1, PlainIs
      <4>. QED  BY <2>3, <3>2, <4>2 DEF s, t
    <3>. QED  BY <2>1, <3>3, <3>4
  <2>. QED  BY <2>11, <2>12
<1>3. CASE phase = "walk" /\ phase' = "remove" /\ FolderCopied /\ op.todo = {} /\ op.kind = "move" /\ UNCHANGED <<op, disk, outcome, uiVars>>
  BY <1>3 DEF WalkedInv, FolderCopied, outerVars, uiVars, Straight, Fresh, Exists, Found, Src, Dst, SrcOf, DstOf, Child, Barred
<1>4. ASSUME phase' = phase, NEW w \in Writes, OtherProgramWrites(w[1], w[2]) PROVE FALSE
  BY <1>4 DEF OtherProgramWrites, Straight
<1>5. CASE UNCHANGED allVars
  BY <1>5 DEF WalkedInv, Straight, Fresh, Exists, Found, Src, Dst, SrcOf, DstOf, Child, Barred, allVars, fileVars, outerVars, uiVars
<1>. QED  BY <1>0, <1>1, <1>2, <1>3, <1>4, <1>5, IntoWalk

-----------------------------------------------------------------------------
(* What is deleted goes to the bin.                                          *)

\* What steps there are, for an invariant about the operation at work.
LEMMA StepsThereAre ==
    ASSUME CountInv, OpInv, [Next]_allVars
    PROVE  \/ Engine /\ UNCHANGED uiVars
           \/ \E r \in Requests : /\ PerformCopyOrMove(r) \/ DoDelete(r)
                                  /\ op' = Operation(r) /\ before' = disk /\ disk' = disk /\ bin' = bin
           \/ /\ AnswerUndo /\ phase = "confirm" /\ op' = UndoOp(undoing) /\ CheckUndo(undoing) /\ Located(undoing)
              /\ before' = disk /\ disk' = disk /\ bin' = bin /\ UNCHANGED <<undoing, journal, clock>> /\ outcome' = NoOutcome
           \/ op' = Idle /\ UNCHANGED bin
           \/ (\E w \in Writes : OtherProgramWrites(w[1], w[2])) /\ UNCHANGED <<bin, op, phase, outcome, uiVars>> /\ disturbed' = TRUE
           \/ UNCHANGED allVars
<1>1. phase \in {"idle", "confirm"} => op = Idle
  BY DEF CountInv
<1>2. ASSUME NEW r \in Requests, PerformCopyOrMove(r) \/ DoDelete(r)
      PROVE  op' = Operation(r) /\ before' = disk /\ disk' = disk /\ bin' = bin
  BY <1>2 DEF PerformCopyOrMove, DoDelete, Begin
<1>3. ASSUME NEW r \in Requests, DoRename(r) PROVE op' = Idle /\ UNCHANGED bin
  BY <1>1, <1>3 DEF DoRename
<1>4. CASE EndOperation \/ EndUndo \/ DoUndo
  BY <1>1, <1>4 DEF EndOperation, EndUndo, BackToIdle, DoUndo
<1>5. CASE AnswerUndo
  <2>1. phase = "confirm" /\ UNCHANGED <<disk, bin, clock>>
    BY <1>5 DEF AnswerUndo
  <2>2. CASE UNCHANGED op
    BY <1>1, <2>1, <2>2
  <2>. QED  BY <1>5, <2>1, <2>2 DEF AnswerUndo, CheckedAgain
<1>6. ASSUME NEW w \in Writes, OtherProgramWrites(w[1], w[2]), UNCHANGED uiVars
      PROVE  \/ op' = Idle /\ UNCHANGED bin
             \/ UNCHANGED <<bin, op, phase, outcome, uiVars>> /\ disturbed' = TRUE
  <2>1. UNCHANGED <<bin, op, phase, outcome>> /\ disturbed' = (phase # "idle")
    BY <1>6 DEF OtherProgramWrites
  <2>. QED  BY <1>1, <1>6, <2>1
<1>. QED  BY <1>2, <1>3, <1>4, <1>5, <1>6 DEF Next, UserStarts

LEMMA EngineDisturbed ==
    ASSUME Engine
    PROVE  disturbed' = disturbed /\ crossVolume' = crossVolume /\ denied' = denied
BY DEF Engine, EngineStep, NextItem, AnswerConflict, AnswerError, AttemptCopy, AttemptMove, AttemptRecycle, AttemptDelete,
   AttemptRename, AttemptRestore, CopyChild, FolderCopied, RemoveSource, outerVars

\* What was marked was there.
MarkedInv ==
    op.kind \in {"copy", "move", "recycle", "delete"} /\ ~op.undo => \A n \in DOMAIN op.names : Exists(before, SrcAt(n))

LEMMA NextMarked ==
    ASSUME CountInv, OpInv, MarkedInv, [Next]_allVars
    PROVE  MarkedInv'
<1>1. CASE Engine /\ UNCHANGED uiVars
  BY <1>1, EngineOp DEF MarkedInv, SameTask, SrcAt, Exists, uiVars
<1>2. ASSUME NEW r \in Requests, PerformCopyOrMove(r) \/ DoDelete(r), op' = Operation(r), before' = disk
      PROVE  MarkedInv'
  <2>1. Marked(r) /\ op'.names = r.names /\ op'.from = r.from
    BY <1>2, OperationTask DEF PerformCopyOrMove, DoDelete
  <2>. QED  BY <1>2, <2>1 DEF Marked, MarkedInv, SrcAt, Exists
<1>3. CASE op' = UndoOp(undoing) /\ phase = "confirm"
  <2>1. op'.undo = TRUE
    BY <1>3, UndoTask DEF OpInv
  <2>. QED  BY <2>1 DEF MarkedInv
<1>4. CASE op' = Idle
  BY <1>4 DEF Idle, MarkedInv
<1>5. CASE UNCHANGED <<op, before>>
  BY <1>5 DEF MarkedInv, SrcAt, Exists
<1>. QED  BY <1>1, <1>2, <1>3, <1>4, <1>5, StepsThereAre DEF allVars, fileVars, uiVars

\* Thrown away: in the bin, as it was found, since this operation began.
Thrown(b, i) == b.item = i /\ b.tree = Found(i) /\ b.when = clock
RecycleInv ==
    op.kind = "recycle" /\ ~disturbed =>
        \A n \in DOMAIN op.names : Tree(disk, SrcAt(n)) = Found(SrcAt(n)) \/ \E b \in bin : Thrown(b, SrcAt(n))

LEMMA RecycledIs ==
    ASSUME TransferInv, Engine, op.kind = "recycle"
    PROVE  /\ bin \subseteq bin'
           /\ \/ disk' = disk
              \/ [item |-> Src, tree |-> Tree(disk, Src), when |-> clock] \in bin' /\ disk' = PutTree(disk, Src, NoTree) /\ phase \in Working
<1>1. CASE AttemptRecycle(clock)
  <2>1. CASE bin' = bin \cup {[item |-> Src, tree |-> Tree(disk, Src), when |-> clock]} /\ disk' = PutTree(disk, Src, NoTree)
    BY <1>1, <2>1 DEF AttemptRecycle, Working
  <2>2. CASE disk' = disk /\ bin' = bin
    BY <2>2
  <2>. QED  BY <1>1, <2>1, <2>2 DEF AttemptRecycle, MustFail, FailsBy
<1>2. CASE ~AttemptRecycle(clock)
  <2>1. phase \notin {"walk", "remove"}
    BY DEF TransferInv, OpInv
  <2>. QED
    BY <1>2, <2>1 DEF Engine, EngineStep, NextItem, AnswerConflict, AnswerError, AttemptCopy, AttemptMove, AttemptDelete,
       AttemptRename, AttemptRestore, CopyChild, FolderCopied, RemoveSource
<1>. QED  BY <1>1, <1>2

LEMMA SrcIsAt ==
    ASSUME OpInv, NEW n \in DOMAIN op.names
    PROVE  phase \in Working /\ n # op.at => SrcAt(n) # Src
<1>. SUFFICES ASSUME phase \in Working, n # op.at PROVE SrcAt(n) # Src
  OBVIOUS
<1>1. op.at \in DOMAIN op.names
  BY ItemAtWork
<1>2. op.names[n].name # op.names[op.at].name
  BY <1>1 DEF OpInv, Task
<1>. QED  BY <1>2 DEF Src, SrcOf, SrcAt

LEMMA NextRecycled ==
    ASSUME TransferInv, RecycleInv, [Next]_allVars
    PROVE  RecycleInv'
<1>0. CountInv /\ OpInv
  BY DEF TransferInv
<1>1. CASE Engine /\ UNCHANGED uiVars
  <2>1. op'.kind = op.kind /\ op'.names = op.names /\ op'.from = op.from /\ disturbed' = disturbed /\ before' = before /\ clock' = clock
    BY <1>0, <1>1, EngineOp, EngineDisturbed DEF SameTask, uiVars
  <2>. SUFFICES ASSUME op.kind = "recycle", ~disturbed, NEW n \in DOMAIN op.names
                PROVE  Tree(disk', SrcAt(n)) = Found(SrcAt(n)) \/ \E b \in bin' : Thrown(b, SrcAt(n))
    BY <2>1 DEF RecycleInv, SrcAt, Thrown, Found
  <2>2. Tree(disk, SrcAt(n)) = Found(SrcAt(n)) \/ \E b \in bin : Thrown(b, SrcAt(n))
    BY DEF RecycleInv
  <2>3. /\ bin \subseteq bin'
        /\ \/ disk' = disk
           \/ [item |-> Src, tree |-> Tree(disk, Src), when |-> clock] \in bin' /\ disk' = PutTree(disk, Src, NoTree) /\ phase \in Working
    BY <1>1, RecycledIs
  <2>4. CASE disk' = disk
    BY <2>2, <2>3, <2>4
  <2>5. CASE [item |-> Src, tree |-> Tree(disk, Src), when |-> clock] \in bin' /\ phase \in Working
    <3>1. CASE n = op.at
      <4>1. SrcAt(n) = Src
        BY <3>1 DEF SrcAt, Src, SrcOf
      <4>. DEFINE b == [item |-> Src, tree |-> Tree(disk, Src), when |-> clock]
      <4>2. b.item = SrcAt(n) /\ b.tree = Tree(disk, SrcAt(n)) /\ b.when = clock /\ b \in bin'
        BY <2>5, <4>1
      <4>. HIDE DEF b
      <4>3. CASE Tree(disk, SrcAt(n)) = Found(SrcAt(n))
        BY <4>2, <4>3 DEF Thrown
      <4>. QED  BY <2>2, <2>3, <4>3
    <3>2. CASE n # op.at
      <4>1. SrcAt(n) # Src /\ SrcAt(n) \in Items
        BY <1>0, <2>5, <3>2, SrcIsAt, AtItems
      <4>2. Tree(disk', SrcAt(n)) = Tree(disk, SrcAt(n))
        BY <1>1, <4>1, OtherRecycled
      <4>. QED  BY <2>2, <2>3, <4>2
    <3>. QED  BY <3>1, <3>2
  <2>. QED  BY <2>3, <2>4, <2>5
<1>2. CASE before' = disk /\ disk' = disk
  BY <1>2 DEF RecycleInv, Found
<1>3. CASE op' = Idle
  BY <1>3 DEF Idle, RecycleInv
<1>4. CASE disturbed' = TRUE
  BY <1>4 DEF RecycleInv
<1>5. CASE UNCHANGED allVars
  BY <1>5 DEF RecycleInv, SrcAt, Thrown, Found, allVars, fileVars, outerVars, uiVars
<1>. QED  BY <1>0, <1>1, <1>2, <1>3, <1>4, <1>5, StepsThereAre

-----------------------------------------------------------------------------
(* The disk an operation found.                                              *)

LEMMA EnginePhase ==
    ASSUME Engine
    PROVE  phase \in Working \cup {"next"} /\ phase' \in Working \cup {"next", "end"}
<1>1. Ends => phase' \in {"next", "end", "attempt", "error"}
  BY EndsWhere
<1>2. MustFail \/ (\E S : FailsBy(S)) \/ Succeeded \/ AttemptFailed \/ EscPressed => Ends
  BY DEF MustFail, FailsBy, Ends
<1>3. CASE NextItem \/ AnswerConflict \/ AnswerError
  BY <1>3 DEF NextItem, AnswerConflict, AnswerError, StartItem, Choose, Proceed, Over, Cancelled, EscPressed, Working
<1>4. ASSUME AttemptCopy \/ AttemptMove
      PROVE  phase = "attempt" /\ phase' \in {"next", "end", "attempt", "error", "walk"}
  BY <1>1, <1>2, <1>4 DEF AttemptCopy, AttemptMove, OpenFolder, CopySingleFile
<1>5. ASSUME AttemptRecycle(clock) \/ AttemptDelete \/ AttemptRename \/ AttemptRestore
      PROVE  phase = "attempt" /\ phase' \in {"next", "end", "attempt", "error"}
  BY <1>1, <1>2, <1>5 DEF AttemptRecycle, AttemptDelete, AttemptRename, AttemptRestore, RenameItem
<1>6. ASSUME NEW p \in Places, CopyChild(p) PROVE phase = "walk" /\ phase' \in {"next", "end", "attempt", "error", "walk"}
  BY <1>1, <1>2, <1>6 DEF CopyChild, CopySingleFile, Walked
<1>7. ASSUME FolderCopied \/ RemoveSource PROVE phase \in {"walk", "remove"} /\ phase' \in {"next", "end", "attempt", "error", "remove"}
  BY <1>1, <1>2, <1>7 DEF FolderCopied, RemoveSource
<1>. QED  BY <1>3, <1>4, <1>5, <1>6, <1>7 DEF Engine, EngineStep, Working

\* The disk an operation found was in order.
BeforeInv == GoodDisk(before)

LEMMA NoDiskGood == GoodDisk(NoDisk)
<1>1. NoDisk \in [Places -> Nodes]
  BY NoneIsNode DEF NoDisk
<1>2. \A i \in Items : GoodTree(Tree(NoDisk, i))
  <2>. SUFFICES ASSUME NEW i \in Items PROVE GoodTree(Tree(NoDisk, i))
    OBVIOUS
  <2>1. Tree(NoDisk, i) = NoTree
    <3>1. \A p \in Under(i) : NoDisk[p] = "none"
      BY ItemPlaces DEF Under, NoDisk
    <3>. QED  BY <1>1, <3>1, NoTreeIs
  <2>. QED  BY <2>1, NoTreeGood DEF GoodTrees
<1>3. NoDisk[Elsewhere] = "none"
  BY DEF NoDisk, Places
<1>. QED  BY <1>1, <1>2, <1>3, FileOpsAssumption DEF GoodDisk

LEMMA NextBefore ==
    ASSUME GoodInv, BeforeInv, [Next]_allVars
    PROVE  BeforeInv'
<1>1. before' \in {before, disk, NoDisk}
  BY DEF Next, UserStarts, PerformCopyOrMove, DoDelete, DoRename, Begin, EndOperation, EndUndo, BackToIdle, DoUndo, AnswerUndo,
     allVars, uiVars
<1>. QED  BY <1>1, NoDiskGood DEF BeforeInv, GoodInv

-----------------------------------------------------------------------------
(* What the end of an operation says in the journal.                         *)

\* What an entry says of each of its items.
FactsOf(e) ==
    \A n \in DOMAIN e.items :
        LET item == e.items[n] IN
        /\ e.kind # "recycle" => item.was[2] = NoTree /\ item.expected.node # "none"
        /\ e.kind = "rename" => item.expected = item.was[1]
        /\ e.kind = "move" /\ e.clean => SameFiles(item.expected, item.was[1])
        /\ e.kind = "recycle" => item.expected = item.was[1] /\ item.before = item.after

\* An item of a delete is in the bin as it was.
Held(b, e, n) == b.item = e.items[n].before /\ b.tree = e.items[n].was[1] /\ b.when = e.when
AllHeld(e) == \A n \in DOMAIN e.items : \E b \in bin : Held(b, e, n)

LEMMA ItemSays ==
    ASSUME NEW i, NEW j, NEW expected
    PROVE  /\ Item(i, j, expected).before = i /\ Item(i, j, expected).after = j /\ Item(i, j, expected).expected = expected
           /\ Item(i, j, expected).was[1] = Found(i) /\ Item(i, j, expected).was[2] = Found(j)
BY DEF Item, Found

LEMMA MadeSays ==
    ASSUME TransferInv, BeforeInv, MoveInv, MarkedInv, phase = "end", ~op.undo, op.kind \in {"copy", "move"}, MadeItems # <<>>
    PROVE  FactsOf(EntryOf(op.kind, MadeItems))
<1>0. OpInv /\ GoodInv
  BY DEF TransferInv
<1>. DEFINE c == Chosen({n \in DOMAIN op.names : Created(n)})
            e == EntryOf(op.kind, MadeItems)
<1>1. \A k \in DOMAIN c : c[k] \in DOMAIN op.names /\ Created(c[k])
  BY <1>0, ChosenDomain
<1>2. /\ e.kind = op.kind /\ e.items = [k \in DOMAIN c |-> MadeItem(c[k])] /\ e.clean = (~disturbed /\ ~op.typed)
  BY DEF EntryOf, MadeItems
<1>. HIDE DEF e, c
<1>3. ASSUME NEW n \in DOMAIN op.names, Created(n)
      PROVE  /\ Found(DstAt(n)) = NoTree /\ Tree(disk, DstAt(n)).node # "none"
             /\ op.kind = "move" /\ ~disturbed /\ ~op.typed => SameFiles(Tree(disk, DstAt(n)), Found(SrcAt(n)))
  <2>1. SrcAt(n) \in Items /\ DstAt(n) \in Items /\ ~Exists(before, DstAt(n)) /\ Exists(disk, DstAt(n))
    BY <1>0, <1>3, AtItems DEF Created
  <2>2. Found(DstAt(n)) = NoTree
    BY <2>1, NothingThere DEF BeforeInv, Found, Exists
  <2>3. Tree(disk, DstAt(n)).node # "none"
    BY <1>0, <2>1, TreeIs DEF Exists, GoodInv, GoodDisk
  <2>4. ASSUME op.kind = "move", ~disturbed, ~op.typed PROVE SameFiles(Tree(disk, DstAt(n)), Found(SrcAt(n)))
    <3>1. Fresh(SrcAt(n), DstAt(n))
      BY <2>1, <2>4 DEF Fresh, MarkedInv
    <3>2. Found(SrcAt(n)).node # "none" /\ disk[SrcAt(n)] = "none"
      BY <1>3, <2>1, <2>4, <3>1, TreeIs DEF Fresh, Exists, Found, BeforeInv, GoodDisk, Created
    <3>3. Landed(Found(SrcAt(n)), disk, SrcAt(n), DstAt(n))
      BY <2>4, <3>1, <3>2 DEF MoveInv, Straight, OnTheWay
    <3>. QED  BY <3>3 DEF Landed
  <2>. QED  BY <2>2, <2>3, <2>4
<1>4. ASSUME NEW k \in DOMAIN e.items
      PROVE  /\ e.items[k].was[2] = NoTree /\ e.items[k].expected.node # "none"
             /\ e.kind = "move" /\ e.clean => SameFiles(e.items[k].expected, e.items[k].was[1])
  <2>1. k \in DOMAIN c /\ e.items[k] = MadeItem(c[k])
    BY <1>2
  <2>2. c[k] \in DOMAIN op.names /\ Created(c[k])
    BY <1>1, <2>1
  <2>3. /\ e.items[k].expected = Tree(disk, DstAt(c[k]))
        /\ e.items[k].was[1] = Found(SrcAt(c[k])) /\ e.items[k].was[2] = Found(DstAt(c[k]))
    BY <2>1, ItemSays DEF MadeItem
  <2>. QED  BY <1>2, <1>3, <2>2, <2>3
<1>5. e.kind \in {"copy", "move"}
  BY <1>2
<1>. QED  BY <1>4, <1>5 DEF FactsOf, e

LEMMA GoneSays ==
    ASSUME TransferInv, RecycleInv, BeforeInv, phase = "end", op.kind = "recycle", GoneItems # <<>>
    PROVE  FactsOf(EntryOf("recycle", GoneItems)) /\ (~disturbed => AllHeld(EntryOf("recycle", GoneItems)))
<1>0. OpInv /\ GoodInv
  BY DEF TransferInv
<1>. DEFINE c == Chosen({n \in DOMAIN op.names : Gone(n)})
            e == EntryOf("recycle", GoneItems)
<1>1. \A k \in DOMAIN c : c[k] \in DOMAIN op.names /\ Gone(c[k])
  BY <1>0, ChosenDomain
<1>2. /\ e.kind = "recycle" /\ e.items = [k \in DOMAIN c |-> DeletedItem(c[k])] /\ e.when = clock
  BY DEF EntryOf, GoneItems
<1>. HIDE DEF e, c
<1>3. ASSUME NEW n \in DOMAIN op.names, Gone(n), ~disturbed
      PROVE  \E b \in bin : Thrown(b, SrcAt(n))
  <2>1. SrcAt(n) \in Items /\ before[SrcAt(n)] # "none" /\ disk[SrcAt(n)] = "none"
    BY <1>0, <1>3, AtItems DEF Gone, Exists
  <2>2. Tree(disk, SrcAt(n)).node = disk[SrcAt(n)] /\ Found(SrcAt(n)).node = before[SrcAt(n)]
    BY <1>0, <2>1, TreeIs DEF GoodInv, BeforeInv, GoodDisk, Found
  <2>. QED  BY <1>3, <2>1, <2>2 DEF RecycleInv
<1>4. ASSUME NEW k \in DOMAIN e.items
      PROVE  /\ e.items[k].expected = e.items[k].was[1] /\ e.items[k].before = e.items[k].after
             /\ ~disturbed => \E b \in bin : Held(b, e, k)
  <2>1. k \in DOMAIN c /\ e.items[k] = DeletedItem(c[k])
    BY <1>2
  <2>2. c[k] \in DOMAIN op.names /\ Gone(c[k])
    BY <1>1, <2>1
  <2>3. /\ e.items[k].expected = Found(SrcAt(c[k])) /\ e.items[k].was[1] = Found(SrcAt(c[k]))
        /\ e.items[k].before = SrcAt(c[k]) /\ e.items[k].after = SrcAt(c[k])
    BY <2>1, ItemSays DEF DeletedItem, Found
  <2>. QED  BY <1>2, <1>3, <2>2, <2>3 DEF Held, Thrown
<1>. QED  BY <1>2, <1>4 DEF FactsOf, AllHeld, e

\* What the end of an operation does to the journal.
LEMMA SettledIs ==
    ASSUME TransferInv, BeforeInv, MoveInv, MarkedInv, RecycleInv, phase = "end", ~op.undo, Settle
    PROVE  \/ journal' = <<>> \/ UNCHANGED journal
           \/ \E e \in GoodEntries : /\ Push(e) /\ e.when = clock /\ FactsOf(e)
                                     /\ e.kind = "recycle" /\ e.clean => AllHeld(e)
<1>0. OpInv /\ disk \in [Places -> Nodes] /\ clock \in Nat
  BY DEF TransferInv, OpInv, GoodInv, GoodDisk
<1>1. ASSUME NEW kind \in EntryKinds, kind # "rename", NEW items \in Seq(ItemRecords), items # <<>>, Tidy(items)
      PROVE  EntryOf(kind, items) \in GoodEntries /\ EntryOf(kind, items).when = clock /\ EntryOf(kind, items).kind = kind
             /\ EntryOf(kind, items).clean = (~disturbed /\ ~op.typed)
  <2>1. (~disturbed /\ ~op.typed) \in BOOLEAN
    OBVIOUS
  <2>. QED  BY <1>0, <1>1, <2>1 DEF EntryOf, GoodEntries, Entries
<1>2. CASE op.kind \in {"copy", "move"} /\ MadeItems # <<>> /\ Record(op.kind, MadeItems)
  <2>. DEFINE e == EntryOf(op.kind, MadeItems)
  <2>1. MadeItems \in Seq(ItemRecords) /\ Tidy(MadeItems) /\ op.kind \in EntryKinds /\ op.kind # "rename"
    BY <1>0, <1>2, MadeTidy DEF EntryKinds
  <2>2. e \in GoodEntries /\ e.when = clock /\ e.kind # "recycle"
    BY <1>1, <1>2, <2>1
  <2>3. FactsOf(e) /\ Push(e)
    BY <1>2, MadeSays DEF Record
  <2>. QED  BY <2>2, <2>3
<1>3. CASE op.kind = "recycle" /\ GoneItems # <<>> /\ Record("recycle", GoneItems)
  <2>. DEFINE e == EntryOf("recycle", GoneItems)
  <2>1. GoneItems \in Seq(ItemRecords) /\ Tidy(GoneItems) /\ "recycle" \in EntryKinds
    BY <1>0, <1>3, GoneTidy DEF EntryKinds
  <2>2. e \in GoodEntries /\ e.when = clock /\ (e.clean => ~disturbed)
    BY <1>1, <1>3, <2>1
  <2>3. FactsOf(e) /\ Push(e) /\ (~disturbed => AllHeld(e))
    BY <1>3, GoneSays DEF Record
  <2>. QED  BY <2>2, <2>3
<1>. QED  BY <1>2, <1>3 DEF Settle, Record, UndoClear

-----------------------------------------------------------------------------
(* The journal.                                                              *)

\* The journal after a push or a pop, entry by entry.
LEMMA PushIs ==
    ASSUME journal \in Seq(GoodEntries), NEW e, Push(e)
    PROVE  \E s \in {0, 1} : /\ Len(journal') \in Nat /\ DOMAIN journal' = 1..Len(journal')
                             /\ \A n \in DOMAIN journal' :
                                   IF n = Len(journal') THEN journal'[n] = e
                                   ELSE n + s \in DOMAIN journal /\ journal'[n] = journal[n + s]
<1>1. Len(journal) \in Nat /\ DOMAIN journal = 1..Len(journal)
  OBVIOUS
<1>2. CASE Len(journal) = Capacity
  <2>. DEFINE t == Tail(journal)
  <2>1. journal # <<>>
    BY <1>2, JournalAssumption
  <2>2. t \in Seq(GoodEntries) /\ Len(t) = Len(journal) - 1 /\ \A n \in 1..Len(t) : t[n] = journal[n + 1]
    BY <2>1
  <2>. HIDE DEF t
  <2>3. journal' = Append(t, e)
    BY <1>2 DEF Push, t
  <2>4. Len(t) \in Nat /\ Len(journal') = Len(t) + 1 /\ DOMAIN journal' = 1..(Len(t) + 1)
        /\ \A n \in 1..(Len(t) + 1) : journal'[n] = IF n = Len(t) + 1 THEN e ELSE t[n]
    BY <2>2, <2>3
  <2>5. ASSUME NEW n \in DOMAIN journal'
        PROVE  IF n = Len(journal') THEN journal'[n] = e ELSE n + 1 \in DOMAIN journal /\ journal'[n] = journal[n + 1]
    <3>1. n \in 1..(Len(t) + 1) /\ Len(journal') = Len(t) + 1
      BY <2>4
    <3>a. Len(t) = Len(journal) - 1 /\ Len(t) \in Nat /\ Len(journal) \in Nat
      BY <1>1, <2>2, <2>4
    <3>2. n # Len(t) + 1 => n \in 1..Len(t) /\ n + 1 \in 1..Len(journal)
      BY <3>a, <3>1
    <3>. QED  BY <1>1, <2>2, <2>4, <3>1, <3>2
  <2>. QED  BY <2>4, <2>5
<1>3. CASE Len(journal) # Capacity
  <2>1. journal' = Append(journal, e)
    BY <1>3 DEF Push
  <2>2. Len(journal') = Len(journal) + 1 /\ DOMAIN journal' = 1..(Len(journal) + 1)
        /\ \A n \in 1..(Len(journal) + 1) : journal'[n] = IF n = Len(journal) + 1 THEN e ELSE journal[n]
    BY <1>1, <2>1
  <2>3. \A n \in DOMAIN journal' :
           IF n = Len(journal') THEN journal'[n] = e ELSE n + 0 \in DOMAIN journal /\ journal'[n] = journal[n + 0]
    BY <1>1, <2>2
  <2>. QED  BY <1>1, <2>2, <2>3
<1>. QED  BY <1>2, <1>3

LEMMA PopIs ==
    ASSUME journal \in Seq(GoodEntries), journal # <<>>, Pop
    PROVE  /\ DOMAIN journal' \subseteq DOMAIN journal /\ \A n \in DOMAIN journal' : journal'[n] = journal[n]
           /\ Len(journal) \notin DOMAIN journal'
<1>1. Len(journal) \in Nat /\ Len(journal) # 0 /\ DOMAIN journal = 1..Len(journal)
  OBVIOUS
<1>2. SubSeq(journal, 1, Len(journal) - 1) = [n \in 1..(Len(journal) - 1) |-> journal[n]]
  OBVIOUS
<1>. QED  BY <1>1, <1>2 DEF Pop

LEMMA RenamedIs ==
    ASSUME TransferInv, NEW r \in Requests, DoRename(r)
    PROVE  \E e \in GoodEntries : Push(e) /\ e.when = clock' /\ e.kind = "rename" /\ FactsOf(e)
<1>. DEFINE i == <<r.from, r.names[1].name>>
            j == <<r.from, r.names[1].target>>
            item == [before |-> i, after |-> j, expected |-> Tree(disk, i), was |-> <<Tree(disk, i), Tree(disk, j)>>]
            e == [kind |-> "rename", when |-> clock', clean |-> TRUE, items |-> <<item>>]
<1>a. r.from \in Dirs /\ r.names \in Seq([name : Names, target : Names]) /\ r.names # <<>> /\ GoodDisk(disk)
      /\ disk \in [Places -> Nodes]
  BY RequestsAssumption DEF TransferInv, GoodInv, GoodDisk
<1>b. 1 \in DOMAIN r.names
  <2>1. \A T, s : s \in Seq(T) /\ s # <<>> => 1 \in DOMAIN s
    OBVIOUS
  <2>. QED  BY <1>a, <2>1, Zenon
<1>0. r.from \in Dirs /\ r.names \in Seq([name : Names, target : Names]) /\ r.names # <<>> /\ GoodDisk(disk)
      /\ disk \in [Places -> Nodes] /\ 1 \in DOMAIN r.names
  BY <1>a, <1>b
<1>1. r.names[1] \in [name : Names, target : Names] /\ r.from \in Dirs
  <2>1. \A T, s : s \in Seq(T) /\ s # <<>> => s[1] \in T
    OBVIOUS
  <2>2. r.names[1] \in [name : Names, target : Names]
    BY <1>0, <2>1, Zenon
  <2>. QED  BY <1>0, <2>2
<1>2. i \in Items /\ j \in Items
  BY <1>1, PairIsItem
<1>3. Push(e) /\ clock' \in Nat /\ disk[j] = "none" /\ disk[i] # "none"
  <2>1. Push(e) /\ disk[j] = "none"
    BY DEF DoRename
  <2>2. clock' = clock + 1 /\ Marked(r)
    BY DEF DoRename
  <2>3. disk[i] # "none"
    BY <1>0, <2>2 DEF Marked
  <2>. QED  BY <2>1, <2>2, <2>3 DEF TransferInv, OpInv
<1>. HIDE DEF i, j
<1>4. Tree(disk, j) = NoTree /\ Tree(disk, i).node # "none"
  BY <1>0, <1>2, <1>3, NothingThere, TreeIs
<1>5. item \in ItemRecords /\ item.was[2] = NoTree /\ item.expected.node # "none" /\ item.expected = item.was[1]
  BY <1>0, <1>2, <1>4, TreeIs DEF ItemRecords
<1>. HIDE DEF item
<1>6. <<item>> \in Seq(ItemRecords) /\ Tidy(<<item>>) /\ Len(<<item>>) = 1
  BY <1>5 DEF Tidy
<1>7. e \in GoodEntries
  BY <1>3, <1>6 DEF GoodEntries, Entries, EntryKinds
<1>8. FactsOf(e)
  BY <1>5 DEF FactsOf
<1>. QED  BY <1>3, <1>7, <1>8

JournalInv ==
    /\ \A m, n \in DOMAIN journal : m < n => journal[m].when < journal[n].when
    /\ \A n \in DOMAIN journal : journal[n].when <= clock /\ (phase # "idle" => journal[n].when < clock)
    /\ \A n \in DOMAIN journal : FactsOf(journal[n])
    /\ phase = "confirm" \/ op.undo => journal # <<>> /\ undoing = Top

LEMMA PushJournal ==
    ASSUME OpInv, JournalInv, NEW e \in GoodEntries, Push(e), FactsOf(e), clock' \in Nat, e.when = clock',
           \A n \in DOMAIN journal : journal[n].when < e.when,
           phase' = "idle", ~op'.undo
    PROVE  JournalInv'
<1>0. journal \in Seq(GoodEntries)
  BY DEF OpInv
<1>1. PICK s \in {0, 1} : /\ Len(journal') \in Nat /\ DOMAIN journal' = 1..Len(journal')
                          /\ \A n \in DOMAIN journal' :
                                IF n = Len(journal') THEN journal'[n] = e
                                ELSE n + s \in DOMAIN journal /\ journal'[n] = journal[n + s]
  BY <1>0, PushIs
<1>2. DOMAIN journal = 1..Len(journal) /\ Len(journal) \in Nat /\ \A n \in DOMAIN journal : journal[n].when \in Nat
  <2>1. \A n \in DOMAIN journal : journal[n] \in GoodEntries
    BY <1>0
  <2>. QED  BY <1>0, <2>1 DEF GoodEntries, Entries
<1>3. ASSUME NEW m \in DOMAIN journal', NEW n \in DOMAIN journal', m < n PROVE journal'[m].when < journal'[n].when
  <2>1. m # Len(journal') /\ m + s \in DOMAIN journal /\ journal'[m] = journal[m + s]
    BY <1>1, <1>3
  <2>2. CASE n = Len(journal')
    BY <1>1, <2>1, <2>2
  <2>3. CASE n # Len(journal')
    <3>1. n + s \in DOMAIN journal /\ journal'[n] = journal[n + s] /\ m + s < n + s
      BY <1>1, <1>3, <2>3
    <3>. QED  BY <2>1, <3>1 DEF JournalInv
  <2>. QED  BY <2>2, <2>3
<1>4. ASSUME NEW n \in DOMAIN journal' PROVE journal'[n].when <= clock' /\ FactsOf(journal'[n])
  BY <1>1, <1>2 DEF JournalInv
<1>. QED  BY <1>3, <1>4 DEF JournalInv

LEMMA PopJournal ==
    ASSUME OpInv, JournalInv, journal # <<>>, Pop, clock' = clock, phase' = "idle", ~op'.undo
    PROVE  JournalInv'
<1>0. journal \in Seq(GoodEntries)
  BY DEF OpInv
<1>1. DOMAIN journal' \subseteq DOMAIN journal /\ \A n \in DOMAIN journal' : journal'[n] = journal[n]
  BY <1>0, PopIs
<1>. QED  BY <1>1 DEF JournalInv

LEMMA NextJournal ==
    ASSUME TransferInv, BeforeInv, MoveInv, MarkedInv, RecycleInv, JournalInv, [Next]_allVars
    PROVE  JournalInv'
<1>0. CountInv /\ OpInv /\ clock \in Nat /\ journal \in Seq(GoodEntries) /\ Idle.undo = FALSE
      /\ \A n \in DOMAIN journal : journal[n].when \in Nat
  <2>1. \A n \in DOMAIN journal : journal[n] \in GoodEntries
    BY DEF TransferInv, OpInv
  <2>. QED  BY <2>1, IdleNoUndo DEF TransferInv, OpInv, GoodEntries, Entries
<1>1. CASE Engine /\ UNCHANGED uiVars
  <2>1. op'.undo = op.undo /\ phase # "idle" /\ phase' # "confirm"
    BY <1>0, <1>1, EngineOp, EnginePhase DEF SameTask, Working
  <2>. QED  BY <1>1, <2>1 DEF JournalInv, uiVars, Top
<1>2. ASSUME NEW r \in Requests, PerformCopyOrMove(r) \/ DoDelete(r) PROVE JournalInv'
  <2>1. op'.undo = FALSE /\ journal' = journal /\ clock' = clock + 1 /\ phase' = "next"
    BY <1>2, IdleNoUndo DEF PerformCopyOrMove, DoDelete, Begin
  <2>2. \A n \in DOMAIN journal : journal[n].when < clock'
    BY <1>0, <2>1 DEF JournalInv
  <2>. QED  BY <1>0, <2>1, <2>2 DEF JournalInv
<1>3. ASSUME NEW r \in Requests, DoRename(r) PROVE JournalInv'
  <2>1. PICK e \in GoodEntries : Push(e) /\ e.when = clock' /\ e.kind = "rename" /\ FactsOf(e)
    BY <1>3, RenamedIs
  <2>2. op' = Idle /\ phase' = "idle" /\ clock' = clock + 1
    BY <1>0, <1>3 DEF DoRename, CountInv
  <2>3. \A n \in DOMAIN journal : journal[n].when < e.when
    BY <1>0, <2>1, <2>2 DEF JournalInv
  <2>. QED  BY <1>0, <2>1, <2>2, <2>3, PushJournal
<1>4. CASE EndOperation
  <2>1. op' = Idle /\ phase' = "idle" /\ clock' = clock /\ phase = "end" /\ ~op.undo /\ Settle
    BY <1>4 DEF EndOperation, BackToIdle
  <2>2. CASE journal' = <<>>
    BY <1>0, <2>1, <2>2 DEF JournalInv
  <2>3. CASE UNCHANGED journal
    BY <1>0, <2>1, <2>3 DEF JournalInv
  <2>4. ASSUME NEW e \in GoodEntries, Push(e), e.when = clock, FactsOf(e) PROVE JournalInv'
    <3>1. \A n \in DOMAIN journal : journal[n].when < e.when
      BY <2>1, <2>4 DEF JournalInv
    <3>. QED  BY <1>0, <2>1, <2>4, <3>1, PushJournal
  <2>. QED  BY <2>1, <2>2, <2>3, <2>4, SettledIs
<1>5. CASE EndUndo
  <2>1. op' = Idle /\ phase' = "idle" /\ clock' = clock /\ op.undo /\ Pop
    BY <1>5 DEF EndUndo, BackToIdle
  <2>. QED  BY <1>0, <2>1, PopJournal DEF JournalInv
<1>6. CASE DoUndo
  <2>1. op' = Idle /\ journal # <<>>
    BY <1>0, <1>6 DEF DoUndo, CountInv
  <2>2. CASE Pop /\ UNCHANGED <<phase, clock>>
    BY <1>0, <1>6, <2>1, <2>2, PopJournal DEF DoUndo
  <2>3. CASE phase' = "confirm" /\ undoing' = Top /\ clock' = clock + 1 /\ UNCHANGED journal
    <3>1. \A n \in DOMAIN journal : journal[n].when < clock'
      BY <1>0, <2>3 DEF JournalInv
    <3>2. undoing' = Top'
      BY <2>3 DEF Top
    <3>. QED  BY <1>0, <2>1, <2>3, <3>1, <3>2 DEF JournalInv
  <2>. QED  BY <1>6, <2>2, <2>3 DEF DoUndo
<1>7. CASE AnswerUndo
  <2>1. phase = "confirm" /\ op = Idle /\ clock' = clock /\ journal # <<>> /\ undoing = Top
    BY <1>0, <1>7 DEF AnswerUndo, CountInv, JournalInv
  <2>2. CASE phase' = "idle" /\ op' = op /\ UNCHANGED journal
    BY <1>0, <2>1, <2>2 DEF JournalInv
  <2>3. CASE phase' = "next" /\ UNCHANGED <<undoing, journal>>
    BY <2>1, <2>3 DEF JournalInv, Top
  <2>4. CASE Pop /\ phase' = "idle" /\ op' = op
    BY <1>0, <2>1, <2>4, PopJournal
  <2>. QED  BY <1>7, <2>2, <2>3, <2>4 DEF AnswerUndo
<1>8. ASSUME NEW w \in Writes, OtherProgramWrites(w[1], w[2]), UNCHANGED uiVars PROVE JournalInv'
  BY <1>8 DEF OtherProgramWrites, JournalInv, uiVars, Top
<1>9. CASE UNCHANGED allVars
  BY <1>9 DEF JournalInv, allVars, fileVars, uiVars, Top
<1>. QED  BY <1>1, <1>2, <1>3, <1>4, <1>5, <1>6, <1>7, <1>8, <1>9 DEF Next, UserStarts

-----------------------------------------------------------------------------
(* How an undo counts, and what it takes from the bin.                       *)

\* An undo has skipped nothing, and goes on only while nothing has failed.
TallyInv ==
    /\ op.undo => outcome.skipped = 0 /\ (phase \in Working => outcome.failed = 0)
    /\ op.undo => op.skipErrors = FALSE
    /\ op.kind = "restore" => op.undo

LEMMA UndoSkips ==
    ASSUME CountInv, OpInv, Engine, op.undo
    PROVE  op'.skipErrors = op.skipErrors
<1>0. OpShape(op)
  BY DEF CountInv
<1>1. CASE NextItem
  <2>1. CASE op' = op
    BY <2>1
  <2>2. CASE ~LoopEnds /\ StartItem(NextTaken)
    <3>1. OpShape(NextTaken) /\ NextTaken.undo = TRUE
      BY <1>1, <2>2, NextIsTaken DEF Took, SameTask, OpInv, Task, NextItem
    <3>2. op' = NextTaken
      BY <2>2, <3>1 DEF StartItem, Choose, Proceed
    <3>3. NextTaken.skipErrors = op.skipErrors
      BY <1>0 DEF NextTaken, OpShape
    <3>. QED  BY <3>2, <3>3
  <2>. QED  BY <1>1, <2>1, <2>2 DEF NextItem, EscPressed, NextTaken
<1>2. ~AnswerConflict /\ ~AnswerError
  BY DEF AnswerConflict, AnswerError, OpInv
<1>3. CASE AttemptCopy \/ AttemptMove \/ AttemptRecycle(clock) \/ AttemptDelete \/ AttemptRename \/ AttemptRestore
           \/ (\E p \in Places : CopyChild(p)) \/ FolderCopied \/ RemoveSource
  <2>1. Ends \/ (\E todo : op' = [op EXCEPT !.todo = todo]) \/ UNCHANGED op
    BY <1>3 DEF AttemptCopy, AttemptMove, AttemptRecycle, AttemptDelete, AttemptRename, AttemptRestore, CopyChild, FolderCopied,
            RemoveSource, OpenFolder, CopySingleFile, RenameItem, Walked, MustFail, FailsBy, Ends
  <2>. QED  BY <1>0, <2>1 DEF Ends, Succeeded, AttemptFailed, EscPressed, OpShape
<1>. QED  BY <1>1, <1>2, <1>3 DEF Engine, EngineStep

\* How a step of an undo counts.
LEMMA UndoOutcome ==
    ASSUME CountInv, OpInv, TallyInv, Engine, op.undo
    PROVE  \/ outcome' = outcome /\ (phase \notin Working /\ phase' \in Working => outcome.failed = 0)
           \/ Cancelled
           \/ Over("failed") \/ Over("succeeded")
<1>0. ~op.elevated \/ phase \notin Working
  BY UndoAt
<1>1. AttemptFailed /\ phase \in Working => Over("failed")
  BY <1>0 DEF AttemptFailed, TallyInv
<1>2. ~EscPressed
  BY DEF EscPressed
<1>3. Succeeded => Over("succeeded")
  BY DEF Succeeded
<1>4. CASE NextItem
  <2>1. outcome.failed \in Nat /\ phase = "next" /\ phase \notin Working
    BY <1>4 DEF CountInv, Outcomes, NextItem, Working
  <2>2. CASE LoopEnds /\ phase' = "end" /\ UNCHANGED outcome
    BY <2>2 DEF Working
  <2>3. CASE ~LoopEnds /\ StartItem(NextTaken)
    <3>1. outcome.failed = 0
      BY <2>1, <2>3 DEF LoopEnds
    <3>2. NextTaken.undo = TRUE
      BY <2>1, <2>3, NextIsTaken DEF Took, SameTask, OpInv, Task
    <3>3. ASSUME NEW choice, choice = "Cancel", Choose(NextTaken, choice) PROVE Cancelled
      BY <3>3 DEF Choose
    <3>4. ASSUME Proceed(NextTaken) PROVE outcome' = outcome \/ Over("failed")
      BY <3>4 DEF Proceed
    <3>5. outcome' = outcome \/ Over("failed") \/ Cancelled
      BY <2>3, <3>2, <3>3, <3>4 DEF StartItem
    <3>. QED  BY <3>1, <3>5
  <2>. QED  BY <1>2, <1>4, <2>2, <2>3 DEF NextItem, NextTaken
<1>5. ~AnswerConflict /\ ~AnswerError
  BY DEF AnswerConflict, AnswerError, OpInv
<1>6. CASE AttemptCopy \/ AttemptMove \/ AttemptRecycle(clock) \/ AttemptDelete \/ AttemptRename \/ AttemptRestore
           \/ (\E p \in Places : CopyChild(p)) \/ FolderCopied \/ RemoveSource
  <2>1. phase \in Working
    BY <1>6 DEF AttemptCopy, AttemptMove, AttemptRecycle, AttemptDelete, AttemptRename, AttemptRestore, CopyChild, FolderCopied,
            RemoveSource, Working
  <2>2. Ends \/ outcome' = outcome
    BY <1>6 DEF AttemptCopy, AttemptMove, AttemptRecycle, AttemptDelete, AttemptRename, AttemptRestore, CopyChild, FolderCopied,
            RemoveSource, OpenFolder, CopySingleFile, RenameItem, Walked, MustFail, FailsBy, Ends
  <2>. QED  BY <1>1, <1>2, <1>3, <2>1, <2>2 DEF Ends
<1>. QED  BY <1>4, <1>5, <1>6 DEF Engine, EngineStep

LEMMA NextTally ==
    ASSUME CountInv, OpInv, TallyInv, [Next]_allVars
    PROVE  TallyInv'
<1>1. CASE Engine /\ UNCHANGED uiVars
  <2>0. op'.undo = op.undo /\ op'.kind = op.kind /\ (op.undo => op'.skipErrors = FALSE)
    BY <1>1, EngineOp, UndoSkips DEF SameTask, TallyInv
  <2>. SUFFICES ASSUME op.undo PROVE outcome'.skipped = 0 /\ (phase' \in Working => outcome'.failed = 0)
    BY <2>0 DEF TallyInv
  <2>1. outcome.skipped = 0 /\ (phase \in Working => outcome.failed = 0) /\ outcome \in Outcomes
    BY DEF TallyInv, CountInv
  <2>2. \/ outcome' = outcome /\ (phase \notin Working /\ phase' \in Working => outcome.failed = 0)
        \/ Cancelled
        \/ Over("failed") \/ Over("succeeded")
    BY <1>1, UndoOutcome
  <2>3. CASE outcome' = outcome
    BY <2>1, <2>2, <2>3 DEF Cancelled, Over, Working
  <2>4. CASE Cancelled \/ Over("failed") \/ Over("succeeded")
    BY <2>1, <2>4 DEF Outcomes, Cancelled, Over, Count, Working
  <2>. QED  BY <2>2, <2>3, <2>4
<1>2. ASSUME NEW r \in Requests, op' = Operation(r) PROVE TallyInv'
  <2>1. op'.kind = r.kind /\ r.kind # "restore" /\ op'.undo = FALSE
    BY <1>2, OperationTask, RequestsAssumption
  <2>. QED  BY <2>1 DEF TallyInv
<1>3. CASE outcome' = NoOutcome /\ op' = UndoOp(undoing) /\ phase = "confirm"
  <2>1. op'.undo = TRUE /\ op'.skipErrors = FALSE
    BY <1>3, UndoTask DEF OpInv, UndoOp, Idle
  <2>. QED  BY <1>3, <2>1 DEF TallyInv, NoOutcome
<1>4. CASE op' = Idle
  BY <1>4 DEF Idle, TallyInv
<1>5. CASE UNCHANGED <<op, phase, outcome>>
  BY <1>5 DEF TallyInv
<1>. QED  BY <1>1, <1>2, <1>3, <1>4, <1>5, StepsThereAre DEF allVars, fileVars

\* Within an item of an undo, the ones before it are counted as put back.
LEMMA UndoTally ==
    ASSUME CountInv, TallyInv, op.undo, phase \in Working
    PROVE  outcome.succeeded + 1 = op.at /\ outcome.succeeded \in Nat
BY DEF CountInv, TallyInv, Outcomes, counted

\* The bin grows while something is thrown away, and gives one item back.
LEMMA BinSteps ==
    ASSUME Engine
    PROVE  \/ bin' = bin
           \/ op.kind = "recycle" /\ bin \subseteq bin'
           \/ /\ op.kind = "restore" /\ phase = "attempt" /\ op' = op /\ Over("succeeded")
              /\ \E b \in Newest(FoundInBin(undoing, undoing.items[op.at])) :
                    ~Exists(disk, b.item) /\ disk' = PutTree(disk, b.item, b.tree) /\ bin' = bin \ {b}
<1>1. CASE AttemptRecycle(clock)
  BY <1>1 DEF AttemptRecycle
<1>2. CASE AttemptRestore
  BY <1>2 DEF AttemptRestore, Succeeded
<1>. QED
  BY <1>1, <1>2 DEF Engine, EngineStep, NextItem, AnswerConflict, AnswerError, AttemptCopy, AttemptMove, AttemptDelete,
       AttemptRename, CopyChild, FolderCopied, RemoveSource

LEMMA RestoredIs ==
    ASSUME OpInv, JournalInv, op.undo, op.kind = "restore", phase \in Working,
           NEW b \in Newest(FoundInBin(undoing, undoing.items[op.at]))
    PROVE  /\ b \in bin /\ b.item = undoing.items[op.at].before /\ b.when >= undoing.when
           /\ undoing = journal[Len(journal)] /\ Len(journal) \in DOMAIN journal /\ op.at \in DOMAIN undoing.items
           /\ \A n \in DOMAIN undoing.items : n # op.at => undoing.items[n].before # b.item
<1>1. op.at \in DOMAIN undoing.items
  BY UndoAt
<1>2. b \in bin /\ b.item = undoing.items[op.at].before /\ b.when >= undoing.when
  BY DEF Newest, FoundInBin
<1>3. journal # <<>> /\ undoing = journal[Len(journal)] /\ journal \in Seq(GoodEntries)
  BY DEF JournalInv, Top, OpInv
<1>4. Len(journal) \in DOMAIN journal
  BY <1>3
<1>5. Tidy(undoing.items)
  BY DEF OpInv, GoodEntries
<1>. QED  BY <1>1, <1>2, <1>3, <1>4, <1>5 DEF Tidy

\* A delete that nobody interfered with is in the bin, or is being put back.
BinInv ==
    \A k \in DOMAIN journal : journal[k].kind = "recycle" /\ journal[k].clean =>
        \A n \in DOMAIN journal[k].items :
            \/ \E b \in bin : Held(b, journal[k], n)
            \/ op.undo /\ k = Len(journal) /\ n <= outcome.succeeded

LEMMA EngineBin ==
    ASSUME TransferInv, TallyInv, JournalInv, BinInv, Engine, UNCHANGED uiVars
    PROVE  BinInv'
<1>0. CountInv /\ OpInv /\ op'.undo = op.undo /\ outcome \in Outcomes /\ journal' = journal
  BY EngineOp DEF TransferInv, CountInv, SameTask, uiVars
<1>. SUFFICES ASSUME NEW k \in DOMAIN journal, journal[k].kind = "recycle", journal[k].clean, NEW n \in DOMAIN journal[k].items
              PROVE  \/ \E b \in bin' : Held(b, journal[k], n)
                     \/ op'.undo /\ k = Len(journal) /\ n <= outcome'.succeeded
  BY <1>0 DEF BinInv
<1>1. \/ \E b \in bin : Held(b, journal[k], n)
      \/ op.undo /\ k = Len(journal) /\ n <= outcome.succeeded
  BY DEF BinInv
<1>2. n \in Nat /\ journal[k].when \in Nat /\ journal \in Seq(GoodEntries) /\ journal[k] \in GoodEntries
  <2>1. journal[k] \in GoodEntries /\ journal \in Seq(GoodEntries)
    BY <1>0 DEF OpInv
  <2>2. journal[k].items \in Seq(ItemRecords) /\ journal[k].when \in Nat
    BY <2>1 DEF GoodEntries, Entries
  <2>. QED  BY <2>1, <2>2
<1>3. op.undo => outcome'.succeeded >= outcome.succeeded /\ outcome'.succeeded \in Nat /\ outcome.succeeded \in Nat
  <2>1. op.undo => outcome' = outcome \/ Cancelled \/ Over("failed") \/ Over("succeeded")
    BY <1>0, UndoOutcome
  <2>. QED  BY <1>0, <2>1 DEF Outcomes, Cancelled, Over, Count
<1>4. CASE op.undo /\ k = Len(journal) /\ n <= outcome.succeeded
  BY <1>0, <1>2, <1>3, <1>4
<1>5. CASE bin \subseteq bin'
  BY <1>1, <1>4, <1>5
<1>6. ASSUME op.kind = "restore", phase = "attempt", Over("succeeded"),
             NEW r \in Newest(FoundInBin(undoing, undoing.items[op.at])), bin' = bin \ {r},
             NEW b \in bin, Held(b, journal[k], n)
      PROVE  \/ \E c \in bin' : Held(c, journal[k], n)
             \/ op'.undo /\ k = Len(journal) /\ n <= outcome'.succeeded
  <2>1. CASE b # r
    BY <1>6, <2>1
  <2>2. CASE b = r
    <3>1. op.undo /\ phase \in Working
      <4>1. op.undo
        BY <1>6 DEF TallyInv
      <4>. QED  BY <1>6, <4>1 DEF Working
    <3>2. /\ r.item = undoing.items[op.at].before /\ r.when >= undoing.when
          /\ undoing = journal[Len(journal)] /\ Len(journal) \in DOMAIN journal
          /\ \A m \in DOMAIN undoing.items : m # op.at => undoing.items[m].before # r.item
      BY <1>0, <1>6, <3>1, RestoredIs
    <3>3. k = Len(journal)
      <4>1. journal[Len(journal)].when \in Nat
        <5>1. journal[Len(journal)] \in GoodEntries
          BY <1>2, <3>2
        <5>. QED  BY <5>1 DEF GoodEntries, Entries
      <4>2. k # Len(journal) => k < Len(journal)
        BY <1>2
      <4>3. k # Len(journal) => journal[k].when < journal[Len(journal)].when
        BY <3>2, <4>2 DEF JournalInv
      <4>. QED  BY <1>2, <1>6, <2>2, <3>2, <4>1, <4>3 DEF Held
    <3>4. n = op.at
      BY <1>6, <2>2, <3>2, <3>3 DEF Held
    <3>5. outcome'.succeeded = outcome.succeeded + 1 /\ outcome.succeeded + 1 = op.at
      BY <1>0, <1>6, <3>1, UndoTally DEF Over, Count, Outcomes
    <3>. QED  BY <1>0, <1>2, <3>1, <3>3, <3>4, <3>5
  <2>. QED  BY <2>1, <2>2
<1>. QED  BY <1>1, <1>4, <1>5, <1>6, BinSteps

-----------------------------------------------------------------------------
(* What an undo finds.                                                       *)

LEMMA AllAreHeld ==
    ASSUME BinInv, NEW k \in DOMAIN journal, ~op.undo \/ k # Len(journal), journal[k].kind = "recycle", journal[k].clean
    PROVE  AllHeld(journal[k])
BY DEF BinInv, AllHeld

LEMMA NextBin ==
    ASSUME TransferInv, BeforeInv, MoveInv, MarkedInv, RecycleInv, TallyInv, JournalInv, BinInv, [Next]_allVars
    PROVE  BinInv'
<1>0. CountInv /\ OpInv /\ journal \in Seq(GoodEntries) /\ Idle.undo = FALSE
  BY IdleNoUndo DEF TransferInv, OpInv
<1>1. CASE Engine /\ UNCHANGED uiVars
  BY <1>1, EngineBin
<1>2. ASSUME UNCHANGED bin, ~op.undo,
             \A k \in DOMAIN journal' : \/ \E l \in DOMAIN journal : journal'[k] = journal[l]
                                        \/ journal'[k].kind = "recycle" /\ journal'[k].clean => AllHeld(journal'[k])
      PROVE  BinInv'
  <2>1. ASSUME NEW k \in DOMAIN journal', journal'[k].kind = "recycle", journal'[k].clean PROVE AllHeld(journal'[k])
    BY <1>2, <2>1, AllAreHeld
  <2>. QED  BY <1>2, <2>1 DEF BinInv, AllHeld
<1>3. CASE UNCHANGED <<journal, bin>> /\ ~op.undo
  BY <1>2, <1>3
<1>4. ASSUME UNCHANGED bin, ~op.undo, NEW e \in GoodEntries, Push(e), e.kind = "recycle" /\ e.clean => AllHeld(e)
      PROVE  BinInv'
  <2>1. PICK s \in {0, 1} : /\ Len(journal') \in Nat /\ DOMAIN journal' = 1..Len(journal')
                            /\ \A n \in DOMAIN journal' :
                                  IF n = Len(journal') THEN journal'[n] = e
                                  ELSE n + s \in DOMAIN journal /\ journal'[n] = journal[n + s]
    BY <1>0, <1>4, PushIs
  <2>2. ASSUME NEW k \in DOMAIN journal'
        PROVE  \/ \E l \in DOMAIN journal : journal'[k] = journal[l]
               \/ journal'[k].kind = "recycle" /\ journal'[k].clean => AllHeld(journal'[k])
    BY <1>4, <2>1
  <2>. QED  BY <1>2, <1>4, <2>2
<1>5. ASSUME UNCHANGED bin, Pop, journal # <<>> PROVE BinInv'
  <2>1. DOMAIN journal' \subseteq DOMAIN journal /\ Len(journal) \notin DOMAIN journal'
        /\ \A n \in DOMAIN journal' : journal'[n] = journal[n]
    BY <1>0, <1>5, PopIs
  <2>2. ASSUME NEW k \in DOMAIN journal', journal'[k].kind = "recycle", journal'[k].clean PROVE AllHeld(journal'[k])
    BY <2>1, <2>2, AllAreHeld
  <2>. QED  BY <1>5, <2>2 DEF BinInv, AllHeld
<1>6. ASSUME NEW r \in Requests, PerformCopyOrMove(r) \/ DoDelete(r) PROVE BinInv'
  BY <1>0, <1>3, <1>6 DEF PerformCopyOrMove, DoDelete, Begin, CountInv
<1>7. ASSUME NEW r \in Requests, DoRename(r) PROVE BinInv'
  <2>1. PICK e \in GoodEntries : Push(e) /\ e.kind = "rename"
    BY <1>7, RenamedIs
  <2>2. UNCHANGED bin /\ ~op.undo
    BY <1>0, <1>7 DEF DoRename, CountInv
  <2>. QED  BY <1>4, <2>1, <2>2
<1>8. CASE EndOperation
  <2>1. UNCHANGED bin /\ ~op.undo /\ phase = "end" /\ Settle
    BY <1>8 DEF EndOperation
  <2>2. CASE journal' = <<>>
    BY <2>2 DEF BinInv
  <2>. QED  BY <1>3, <1>4, <2>1, <2>2, SettledIs
<1>9. CASE EndUndo
  BY <1>5, <1>9 DEF EndUndo, JournalInv
<1>10. CASE DoUndo
  <2>1. UNCHANGED bin /\ ~op.undo /\ journal # <<>> /\ (Pop \/ UNCHANGED journal)
    BY <1>0, <1>10 DEF DoUndo, CountInv
  <2>. QED  BY <1>3, <1>5, <2>1
<1>11. CASE AnswerUndo
  <2>1. UNCHANGED bin /\ ~op.undo /\ journal # <<>> /\ (Pop \/ UNCHANGED journal)
    BY <1>0, <1>11 DEF AnswerUndo, CountInv, JournalInv
  <2>. QED  BY <1>3, <1>5, <2>1
<1>12. CASE UNCHANGED <<bin, journal, op, outcome>>
  BY <1>12 DEF BinInv
<1>13. ASSUME NEW w \in Writes, OtherProgramWrites(w[1], w[2]), UNCHANGED uiVars PROVE UNCHANGED <<bin, journal, op, outcome>>
  BY <1>13 DEF OtherProgramWrites, uiVars
<1>. QED  BY <1>1, <1>6, <1>7, <1>8, <1>9, <1>10, <1>11, <1>12, <1>13 DEF Next, UserStarts, allVars, fileVars, uiVars

-----------------------------------------------------------------------------
\* Where an undo takes its items from, and where to.
LEMMA UndoPlaces ==
    ASSUME NEW e \in GoodEntries, NEW n \in DOMAIN e.items
    PROVE  /\ <<UndoOp(e).from, UndoOp(e).names[n].name>> = e.items[n].after
           /\ <<UndoOp(e).to, UndoOp(e).names[n].target>> = e.items[n].before
           /\ DOMAIN UndoOp(e).names = DOMAIN e.items
<1>1. /\ UndoOp(e).from = e.items[1].after[1] /\ UndoOp(e).to = e.items[1].before[1]
      /\ UndoOp(e).names[n] = [name |-> e.items[n].after[2], target |-> e.items[n].before[2]]
      /\ e.items[n] \in ItemRecords /\ Task(UndoOp(e)) /\ Len(UndoOp(e).names) = Len(e.items) /\ DOMAIN e.items = 1..Len(e.items)
  BY UndoTask
<1>2. e.items[n].after[1] = e.items[1].after[1] /\ e.items[n].before[1] = e.items[1].before[1]
  <2>1. Tidy(e.items) /\ e.items \in Seq(ItemRecords)
    BY DEF GoodEntries, Entries
  <2>2. 1 \in DOMAIN e.items
    BY <2>1 DEF Tidy
  <2>. QED  BY <2>1, <2>2 DEF Tidy
<1>3. e.items[n].after \in Items /\ e.items[n].before \in Items
  BY <1>1 DEF ItemRecords
<1>4. e.items[n].after = <<e.items[n].after[1], e.items[n].after[2]>> /\ e.items[n].before = <<e.items[n].before[1], e.items[n].before[2]>>
  BY <1>3, ItemParts
<1>5. DOMAIN UndoOp(e).names = 1..Len(UndoOp(e).names)
  BY <1>1 DEF Task
<1>. QED  BY <1>1, <1>2, <1>4, <1>5

\* An undo has found what the entry expects, and nothing where it goes.
FoundInv ==
    op.undo /\ op.kind \in {"move", "rename"} =>
        \A n \in DOMAIN op.names : Found(SrcAt(n)) = undoing.items[n].expected /\ Fresh(SrcAt(n), DstAt(n))

LEMMA NextFound ==
    ASSUME TransferInv, JournalInv, FoundInv, [Next]_allVars
    PROVE  FoundInv'
<1>0. CountInv /\ OpInv /\ Idle.undo = FALSE /\ GoodDisk(disk)
  BY IdleNoUndo DEF TransferInv, GoodInv
<1>1. CASE Engine /\ UNCHANGED uiVars
  <2>1. op'.undo = op.undo /\ op'.kind = op.kind /\ op'.names = op.names /\ op'.from = op.from /\ op'.to = op.to
    BY <1>0, <1>1, EngineOp DEF SameTask
  <2>. QED  BY <1>1, <2>1 DEF FoundInv, Found, Fresh, Exists, SrcAt, DstAt, uiVars
<1>2. ASSUME NEW r \in Requests, op' = Operation(r) PROVE FoundInv'
  BY <1>2, IdleNoUndo DEF FoundInv
<1>3. CASE op' = UndoOp(undoing) /\ phase = "confirm" /\ CheckUndo(undoing) /\ before' = disk /\ undoing' = undoing
  <2>1. undoing \in GoodEntries /\ undoing = Top /\ journal # <<>> /\ journal \in Seq(GoodEntries)
    BY <1>0, <1>3 DEF OpInv, JournalInv
  <2>2. Len(journal) \in DOMAIN journal
    BY <2>1
  <2>3. FactsOf(undoing)
    BY <2>1, <2>2 DEF JournalInv, Top
  <2>. SUFFICES ASSUME op'.kind \in {"move", "rename"}, NEW n \in DOMAIN op'.names
                PROVE  Found(SrcAt(n))' = undoing.items[n].expected /\ Fresh(SrcAt(n), DstAt(n))'
    BY <1>3 DEF FoundInv
  <2>4. n \in DOMAIN undoing.items /\ SrcAt(n)' = undoing.items[n].after /\ DstAt(n)' = undoing.items[n].before
    <3>1. \E m : m \in DOMAIN undoing.items
      <4>1. Tidy(undoing.items) /\ undoing.items \in Seq(ItemRecords)
        BY <2>1 DEF GoodEntries, Entries
      <4>2. 1 \in DOMAIN undoing.items
        BY <4>1 DEF Tidy
      <4>. QED  BY <4>2
    <3>2. n \in DOMAIN undoing.items
      BY <1>3, <2>1, <3>1, UndoPlaces
    <3>. QED  BY <1>3, <2>1, <3>2, UndoPlaces DEF SrcAt, DstAt
  <2>5. undoing.kind \in {"move", "rename"}
    <3>1. undoing.kind \in EntryKinds
      BY <2>1 DEF GoodEntries, Entries
    <3>. QED  BY <1>3, <2>1, <3>1, UndoTask DEF EntryKinds
  <2>6. /\ Tree(disk, undoing.items[n].after) = undoing.items[n].expected /\ ~Exists(disk, undoing.items[n].before)
        /\ undoing.items[n].expected.node # "none"
    BY <1>3, <2>3, <2>4, <2>5 DEF CheckUndo, StillThere, FactsOf
  <2>7. undoing.items[n].after \in Items
    <3>1. undoing.items[n] \in ItemRecords
      BY <2>1, <2>4, UndoTask
    <3>. QED  BY <3>1 DEF ItemRecords
  <2>8. disk[undoing.items[n].after] # "none"
    BY <1>0, <2>6, <2>7, TreeIs DEF GoodDisk
  <2>. QED  BY <1>3, <2>4, <2>6, <2>8 DEF Found, Fresh, Exists
<1>4. CASE op' = Idle
  BY <1>4, IdleNoUndo DEF FoundInv
<1>5. CASE UNCHANGED <<op, uiVars>>
  BY <1>5 DEF FoundInv, Found, Fresh, Exists, SrcAt, DstAt, uiVars
<1>. QED  BY <1>0, <1>1, <1>2, <1>3, <1>4, <1>5, StepsThereAre DEF allVars, fileVars

-----------------------------------------------------------------------------
(* Items that are put back.                                                  *)

\* Item n of an undo is put back, as far as its kind promises.
Back(n) ==
    /\ op.kind \in {"move", "rename"} =>
          SameFiles(Tree(disk, DstAt(n)), Found(SrcAt(n))) /\ (crossVolume \/ Tree(disk, SrcAt(n)) = NoTree)
    /\ op.kind = "recycle" => Tree(disk, SrcAt(n)) = NoTree
    /\ op.kind = "restore" =>
          \/ Tree(disk, undoing.items[n].before) = undoing.items[n].was[1]
          \/ \E b \in bin : b.item = undoing.items[n].before /\ b.tree = undoing.items[n].was[1]
BackInv ==
    op.undo /\ ~disturbed /\ undoing.clean /\ outcome.failed = 0 =>
        \A n \in DOMAIN op.names : n <= outcome.succeeded => Back(n)

\* What a step does that puts an item back.
LEMMA UndoSucceeds ==
    ASSUME CountInv, OpInv, Engine, outcome'.succeeded > outcome.succeeded
    PROVE  /\ op.kind = "recycle" => disk' = PutTree(disk, Src, NoTree)
           /\ op.kind = "rename" => disk' = Moved
           /\ op.kind = "restore" =>
                 \E b \in Newest(FoundInBin(undoing, undoing.items[op.at])) :
                    disk' = PutTree(disk, b.item, b.tree) /\ bin' = bin \ {b}
<1>0. ~Over("failed") /\ ~Over("skipped") /\ ~Cancelled /\ ~UNCHANGED outcome
  BY NotMore
<1>1. ~AttemptFailed /\ ~EscPressed /\ ~MustFail /\ \A S : ~FailsBy(S)
  BY <1>0 DEF AttemptFailed, EscPressed, MustFail, FailsBy
<1>2. ~NextItem /\ ~AnswerConflict /\ ~AnswerError
  BY <1>0, <1>1 DEF NextItem, AnswerConflict, AnswerError, StartItem, Choose, Proceed
<1>3. \A p \in Places : ~CopyChild(p)
  BY <1>0, <1>1 DEF CopyChild, CopySingleFile, Walked
<1>4. CASE op.kind = "recycle" /\ AttemptRecycle(clock)
  BY <1>1, <1>4 DEF AttemptRecycle
<1>5. CASE op.kind = "rename" /\ AttemptRename
  BY <1>1, <1>5 DEF AttemptRename, RenameItem, Moved
<1>6. CASE op.kind = "restore" /\ AttemptRestore
  BY <1>1, <1>6 DEF AttemptRestore
<1>7. FolderCopied \/ RemoveSource => op.kind \in {"copy", "move"}
  BY DEF FolderCopied, RemoveSource, OpInv
<1>. QED
  BY <1>2, <1>3, <1>4, <1>5, <1>6, <1>7 DEF Engine, EngineStep, AttemptCopy, AttemptMove, AttemptRecycle, AttemptDelete, AttemptRename, AttemptRestore
-----------------------------------------------------------------------------
\* A whole item moved.
LEMMA WholeMoved ==
    ASSUME TransferInv, phase \in Past, op.kind \in {"move", "rename"}, Src # Dst, disk' = Moved
    PROVE  Tree(disk', Dst) = Tree(disk, Src) /\ Tree(disk', Src) = NoTree
<1>1. Src \in Items /\ Dst \in Items /\ disk \in [Places -> Nodes]
  BY ItemAtWork DEF TransferInv, GoodInv, GoodDisk, Past, Working
<1>. DEFINE m == PutTree(disk, Dst, Tree(disk, Src))
<1>2. Tree(disk, Src) \in Trees /\ NoTree \in Trees /\ m \in [Places -> Nodes]
  BY <1>1, TreeIs, NoTreeGood, PutTreeIs DEF GoodTrees
<1>3. Tree(m, Dst) = Tree(disk, Src)
  BY <1>1, <1>2, PutTreeTree
<1>. HIDE DEF m
<1>4. disk' = PutTree(m, Src, NoTree)
  BY DEF Moved, m
<1>. QED  BY <1>1, <1>2, <1>3, <1>4, PutTreeTree

\* The move of an item that nobody interfered with got through.
LEMMA MoveBack ==
    ASSUME TransferInv, GoodInv', TargetInv, BeforeInv, MoveInv, WalkedInv, Engine, UNCHANGED uiVars, op.kind = "move", ~op.typed,
           ~disturbed, phase \in Working, Fresh(Src, Dst), outcome'.succeeded > outcome.succeeded
    PROVE  SameFiles(Tree(disk', Dst), Found(Src)) /\ (crossVolume \/ Tree(disk', Src) = NoTree)
<1>0. CountInv /\ OpInv /\ GoodInv /\ disk \in [Places -> Nodes] /\ disk' \in [Places -> Nodes] /\ Straight
  BY DEF TransferInv, GoodInv, GoodDisk, Straight
<1>1. /\ phase \in {"attempt", "walk", "remove"}
      /\ \/ phase = "attempt" /\ MayReplace /\ (disk' = Moved \/ (crossVolume /\ ~IsDirectory(Src) /\ disk' = Write(Src, Dst)))
         \/ phase = "remove" /\ disk' = PutTree(disk, Src, NoTree)
  <2>1. [Next]_allVars
    BY DEF Next
  <2>. QED  BY <1>0, <2>1, WhereSucceeded
<1>2. phase \in Past /\ Src \in Items /\ Dst \in Items /\ Src # Dst /\ OnTheWay(Found(Src), disk, Src, Dst)
  BY <1>0, <1>1, WorkOnTheWay, ItemAtWork, SrcApart DEF Past
<1>3. /\ disk[Src] = Found(Src).node /\ disk[Dst] \in {"none", Found(Src).node}
      /\ Found(Src) \in GoodTrees /\ Found(Src).node # "none"
  <2>1. Found(Src) \in GoodTrees /\ Found(Src).node = before[Src]
    BY <1>2, TreeGood, TreeIs DEF Found, BeforeInv, GoodDisk
  <2>. QED  BY <1>2, <2>1 DEF OnTheWay, Fresh, Exists
<1>4. ASSUME disk'[Src] = "none" PROVE Landed(Found(Src), disk', Src, Dst)
  <2>1. ~OnTheWay(Found(Src), disk', Src, Dst)
    BY <1>3, <1>4 DEF OnTheWay
  <2>. QED  BY <1>0, <1>2, <2>1, MoveGetsOn
<1>5. CASE disk' = Moved
  <2>1. Tree(disk', Src) = NoTree
    BY <1>2, <1>5, WholeMoved
  <2>2. disk'[Src] = "none"
    BY <1>0, <1>2, <2>1, TreeIs, NoTreeGood
  <2>. QED  BY <1>4, <2>2 DEF Landed
<1>6. CASE disk' = PutTree(disk, Src, NoTree)
  <2>1. disk'[Src] = "none"
    BY <1>0, <1>2, <1>6, PutTreeIs, NoTreeGood DEF GoodTrees
  <2>. QED  BY <1>4, <2>1 DEF Landed
<1>7. CASE crossVolume /\ ~IsDirectory(Src) /\ disk' = Write(Src, Dst)
  <2>1. Through(Dst) = Dst
    BY <1>0, <1>2, ThroughIs DEF GoodInv
  <2>2. disk'[Dst] = Found(Src).node /\ disk'[Dst] # "folder"
    <3>1. Dst \in Places
      BY <1>2, ItemPlaces
    <3>. QED  BY <1>0, <1>3, <1>7, <2>1, <3>1 DEF Write, IsDirectory
  <2>3. Tree(disk', Dst).node = disk'[Dst] /\ \A x \in Parts : Tree(disk', Dst).inside[x] = "none"
    <3>1. GoodTree(Tree(disk', Dst)) /\ Tree(disk', Dst).node = disk'[Dst]
      BY <1>0, <1>2, TreeGood, TreeIs DEF GoodInv, GoodTrees
    <3>. QED  BY <2>2, <3>1 DEF GoodTree
  <2>4. \A x \in Parts : Found(Src).inside[x] = "none"
    BY <1>3, <2>2 DEF GoodTrees, GoodTree
  <2>. QED  BY <1>7, <2>2, <2>3, <2>4 DEF SameFiles
<1>. QED  BY <1>1, <1>5, <1>6, <1>7

\* The item at work is put back where it is counted.
LEMMA BackNow ==
    ASSUME TransferInv, OpInv', GoodInv', TargetInv, BeforeInv, MoveInv, WalkedInv, TallyInv, JournalInv, BinInv, FoundInv, UndoneInv,
           Engine, UNCHANGED uiVars, op.undo, ~disturbed, undoing.clean, outcome'.succeeded > outcome.succeeded
    PROVE  op' = op /\ phase \in Working /\ Back(op.at)'
<1>0. CountInv /\ OpInv /\ GoodInv /\ disk \in [Places -> Nodes] /\ disk' \in [Places -> Nodes]
      /\ UNCHANGED <<before, undoing, crossVolume>>
  BY EngineDisturbed DEF TransferInv, GoodInv, GoodDisk, uiVars
<1>1. UNCHANGED op /\ phase \in {"attempt", "walk", "remove"}
  <2>1. [Next]_allVars
    BY DEF Next
  <2>. QED  BY <1>0, <2>1, WhereSucceeded
<1>2. /\ phase \in Working /\ phase \in Past /\ ~op.typed /\ op.at \in DOMAIN op.names
      /\ Src = SrcAt(op.at) /\ Dst = DstAt(op.at) /\ Src \in Items /\ Dst \in Items
      /\ SrcAt(op.at)' = Src /\ DstAt(op.at)' = Dst
      /\ op.at \in DOMAIN undoing.items /\ Src = undoing.items[op.at].after /\ Dst = undoing.items[op.at].before
  <2>1. phase \in Working /\ phase \in Past
    BY <1>1 DEF Working, Past
  <2>2. ~op.typed
    BY DEF TargetInv
  <2>3. op.at \in DOMAIN op.names /\ Src = SrcAt(op.at) /\ Dst = DstAt(op.at)
    BY <1>0, <2>1, <2>2, AtIsWork
  <2>4. SrcAt(op.at)' = Src /\ DstAt(op.at)' = Dst
    BY <1>1, <2>3 DEF SrcAt, DstAt
  <2>. QED  BY <1>0, <2>1, <2>2, <2>3, <2>4, UndoAt, ItemAtWork
<1>3. CASE op.kind = "move"
  <2>1. Fresh(Src, Dst)
    BY <1>2, <1>3 DEF FoundInv
  <2>2. SameFiles(Tree(disk', Dst), Found(Src)) /\ (crossVolume \/ Tree(disk', Src) = NoTree)
    BY <1>2, <1>3, <2>1, MoveBack
  <2>. QED  BY <1>0, <1>1, <1>2, <1>3, <2>2 DEF Back, Found
<1>4. CASE op.kind = "rename"
  <2>1. disk' = Moved
    BY <1>0, <1>4, UndoSucceeds
  <2>2. Fresh(Src, Dst) /\ Found(Src) = undoing.items[op.at].expected
    BY <1>2, <1>4 DEF FoundInv
  <2>3. Tree(disk, Src) = Found(Src)
    <3>1. AsLeft(op.at)
      <4>1. op.at \in Nat
        BY <1>0 DEF OpInv
      <4>. QED  BY <1>2, <1>4, <4>1 DEF UndoneInv
    <3>. QED  BY <1>2, <2>2, <3>1 DEF AsLeft, StillThere
  <2>4. Src # Dst
    BY <2>2 DEF Fresh
  <2>5. Tree(disk', Dst) = Found(Src) /\ Tree(disk', Src) = NoTree
    BY <1>2, <1>4, <2>1, <2>3, <2>4, WholeMoved
  <2>. QED  BY <1>0, <1>1, <1>2, <1>4, <2>5 DEF Back, Found, SameFiles
<1>5. CASE op.kind = "recycle"
  <2>1. disk' = PutTree(disk, Src, NoTree)
    BY <1>0, <1>5, UndoSucceeds
  <2>2. Tree(disk', Src) = NoTree
    BY <1>0, <1>2, <2>1, NoTreeGood, PutTreeTree DEF GoodTrees
  <2>. QED  BY <1>1, <1>2, <1>5, <2>2 DEF Back
<1>6. CASE op.kind = "restore"
  <2>. DEFINE item == undoing.items[op.at]
  <2>1. PICK b \in Newest(FoundInBin(undoing, item)) : disk' = PutTree(disk, b.item, b.tree) /\ bin' = bin \ {b}
    BY <1>0, <1>6, UndoSucceeds
  <2>2. /\ b \in bin /\ b.item = item.before
        /\ undoing = journal[Len(journal)] /\ Len(journal) \in DOMAIN journal
    BY <1>0, <1>2, <1>6, <2>1, RestoredIs
  <2>3. b.item \in Items /\ b.tree \in Trees
    BY <1>0, <2>2 DEF GoodInv, GoodTrees
  <2>4. Tree(disk', b.item) = b.tree
    BY <1>0, <2>1, <2>3, PutTreeTree
  <2>5. undoing.kind = "recycle"
    <3>1. undoing \in GoodEntries /\ SameTask(op, UndoOp(undoing))
      BY <1>0 DEF OpInv
    <3>2. undoing.kind \in EntryKinds
      BY <3>1 DEF GoodEntries, Entries
    <3>. QED  BY <1>6, <3>1, <3>2, UndoTask DEF SameTask, EntryKinds
  <2>6. PICK c \in bin : Held(c, undoing, op.at)
    <3>1. ~(op.at <= outcome.succeeded)
      BY <1>0, <1>2, UndoTally
    <3>. QED  BY <1>2, <2>2, <2>5, <3>1 DEF BinInv
  <2>7. CASE b = c
    <3>1. Tree(disk', undoing.items[op.at].before) = undoing.items[op.at].was[1]
      BY <2>2, <2>4, <2>6, <2>7 DEF Held
    <3>. QED  BY <1>0, <1>1, <1>2, <1>6, <3>1 DEF Back
  <2>8. CASE b # c
    <3>1. c \in bin' /\ c.item = undoing.items[op.at].before /\ c.tree = undoing.items[op.at].was[1]
      BY <2>1, <2>6, <2>8 DEF Held
    <3>. QED  BY <1>0, <1>1, <1>2, <1>6, <3>1 DEF Back
  <2>. QED  BY <1>1, <1>2, <2>7, <2>8
<1>7. op.kind \in {"move", "rename", "recycle", "restore"}
  BY <1>0, UndoItems
<1>. QED  BY <1>1, <1>2, <1>3, <1>4, <1>5, <1>6, <1>7

\* What was put back stays.
LEMMA BackStays ==
    ASSUME TransferInv, GoodInv', TargetInv, TallyInv, JournalInv, Engine, UNCHANGED uiVars, op.undo,
           NEW n \in DOMAIN op.names, phase \in Working => n # op.at, Back(n)
    PROVE  Back(n)'
<1>0. CountInv /\ OpInv /\ GoodInv /\ disk \in [Places -> Nodes] /\ disk' \in [Places -> Nodes] /\ ~op.typed
      /\ UNCHANGED <<before, undoing, crossVolume>>
  BY EngineDisturbed DEF TransferInv, GoodInv, GoodDisk, uiVars, TargetInv
<1>1. op'.kind = op.kind /\ SrcAt(n)' = SrcAt(n) /\ DstAt(n)' = DstAt(n)
  BY <1>0, EngineOp DEF SameTask, SrcAt, DstAt
<1>2. SrcAt(n) \in Items /\ DstAt(n) \in Items
  BY <1>0, AtItems
<1>3. CASE phase \notin Working
  <2>1. disk' = disk /\ bin' = bin
    BY <1>0, <1>3, EngineOp
  <2>. QED  BY <1>0, <1>1, <2>1 DEF Back, Found
<1>4. CASE phase \in Working /\ op.kind = "move"
  <2>1. SrcAt(n) \notin {Src, Dst} /\ DstAt(n) \notin {Src, Dst}
    BY <1>0, <1>4, OthersAtWork
  <2>2. Tree(disk', SrcAt(n)) = Tree(disk, SrcAt(n)) /\ Tree(disk', DstAt(n)) = Tree(disk, DstAt(n))
    BY <1>2, <1>4, <2>1, OtherItems DEF Copies
  <2>. QED  BY <1>0, <1>1, <1>4, <2>2 DEF Back, Found
<1>5. CASE phase \in Working /\ op.kind = "rename"
  <2>1. n \in DOMAIN undoing.items /\ op.at \in DOMAIN undoing.items /\ DOMAIN undoing.items = 1..1
    <3>1. DOMAIN op.names = 1..Len(op.names)
      BY <1>0 DEF OpInv, Task
    <3>. QED  BY <1>0, <1>5, <3>1, UndoItems, UndoAt
  <2>. QED  BY <1>5, <2>1
<1>6. CASE phase \in Working /\ op.kind = "recycle"
  <2>1. SrcAt(n) # Src
    BY <1>0, <1>6, SrcIsAt
  <2>2. Tree(disk', SrcAt(n)) = Tree(disk, SrcAt(n))
    BY <1>2, <1>6, <2>1, OtherRecycled
  <2>. QED  BY <1>1, <1>6, <2>2 DEF Back
<1>7. CASE phase \in Working /\ op.kind = "restore"
  <2>1. n \in DOMAIN undoing.items /\ undoing.items[n].before \in Items
    <3>1. DOMAIN op.names = 1..Len(op.names)
      BY <1>0 DEF OpInv, Task
    <3>. QED  BY <1>0, <3>1, UndoItems
  <2>2. CASE disk' = disk /\ bin' = bin
    BY <1>0, <1>1, <1>7, <2>2 DEF Back
  <2>3. ASSUME NEW b \in Newest(FoundInBin(undoing, undoing.items[op.at])), disk' = PutTree(disk, b.item, b.tree), bin' = bin \ {b}
        PROVE  Back(n)'
    <3>1. b \in bin /\ \A m \in DOMAIN undoing.items : m # op.at => undoing.items[m].before # b.item
      BY <1>0, <1>7, <2>3, RestoredIs
    <3>2. b.item \in Items /\ b.tree \in Trees /\ undoing.items[n].before # b.item
      BY <1>0, <1>7, <2>1, <3>1 DEF GoodInv, GoodTrees
    <3>3. Tree(disk', undoing.items[n].before) = Tree(disk, undoing.items[n].before)
      BY <1>0, <2>1, <2>3, <3>2, PutTreeTree
    <3>4. ASSUME NEW c \in bin, c.item = undoing.items[n].before PROVE c \in bin'
      BY <2>3, <3>2, <3>4
    <3>. QED  BY <1>0, <1>1, <1>7, <3>3, <3>4 DEF Back
  <2>4. (disk' = disk /\ bin' = bin) \/ \E b \in Newest(FoundInBin(undoing, undoing.items[op.at])) : disk' = PutTree(disk, b.item, b.tree) /\ bin' = bin \ {b}
    <3>1. CASE AttemptRestore
      BY <3>1 DEF AttemptRestore, MustFail, FailsBy
    <3>2. phase \notin {"walk", "remove"}
      BY <1>0, <1>7 DEF OpInv
    <3>. QED
      BY <1>7, <3>1, <3>2 DEF Engine, EngineStep, NextItem, AnswerConflict, AnswerError, AttemptCopy, AttemptMove, AttemptRecycle, AttemptDelete,
         AttemptRename, CopyChild, FolderCopied, RemoveSource
  <2>. QED  BY <2>2, <2>3, <2>4
<1>8. op.kind \in {"move", "rename", "recycle", "restore"}
  BY <1>0, UndoItems
<1>. QED  BY <1>3, <1>4, <1>5, <1>6, <1>7, <1>8

\* What was put back is not counted down.
LEMMA EngineBack ==
    ASSUME TransferInv, OpInv', GoodInv', TargetInv, BeforeInv, MoveInv, WalkedInv, TallyInv, JournalInv, BinInv, FoundInv, UndoneInv,
           BackInv, Engine, UNCHANGED uiVars
    PROVE  BackInv'
<1>. SUFFICES ASSUME op'.undo, ~disturbed', undoing'.clean, outcome'.failed = 0, NEW n \in DOMAIN op'.names, n <= outcome'.succeeded
              PROVE  Back(n)'
  BY DEF BackInv
<1>0. CountInv /\ OpInv /\ UNCHANGED <<undoing, disturbed>>
  BY EngineDisturbed DEF TransferInv, uiVars
<1>1. op.undo /\ ~disturbed /\ undoing.clean /\ n \in DOMAIN op.names
  BY <1>0, EngineOp DEF SameTask
<1>2. outcome.failed = 0 /\ (outcome'.succeeded = outcome.succeeded \/ outcome'.succeeded = outcome.succeeded + 1)
      /\ outcome.succeeded \in Nat /\ n \in Nat
  <2>1. outcome \in Outcomes /\ op.names \in Seq(NamePairs)
    BY <1>0 DEF CountInv, OpInv, Task
  <2>2. n \in Nat
    BY <1>1, <2>1
  <2>. QED  BY <1>0, <1>1, <2>1, <2>2, UndoOutcome DEF Over, Cancelled, Outcomes, Count
<1>3. phase \in Working => outcome.succeeded + 1 = op.at
  BY <1>0, <1>1, UndoTally
<1>4. CASE n <= outcome.succeeded
  <2>1. Back(n)
    BY <1>1, <1>2, <1>4 DEF BackInv
  <2>2. phase \in Working => n # op.at
    BY <1>2, <1>3, <1>4
  <2>. QED  BY <1>1, <2>1, <2>2, BackStays
<1>5. CASE ~(n <= outcome.succeeded)
  <2>1. outcome'.succeeded > outcome.succeeded /\ n = outcome.succeeded + 1
    BY <1>2, <1>5
  <2>2. op' = op /\ phase \in Working /\ Back(op.at)'
    BY <1>1, <2>1, BackNow
  <2>3. n = op.at
    BY <1>3, <2>1, <2>2
  <2>. QED  BY <2>2, <2>3 DEF Back
<1>. QED  BY <1>4, <1>5

LEMMA NextBack ==
    ASSUME TransferInv, OpInv', GoodInv', TargetInv, BeforeInv, MoveInv, WalkedInv, TallyInv, JournalInv, BinInv, FoundInv, UndoneInv,
           BackInv, [Next]_allVars
    PROVE  BackInv'
<1>0. CountInv /\ OpInv
  BY DEF TransferInv
<1>1. CASE Engine /\ UNCHANGED uiVars
  BY <1>1, EngineBack
<1>2. CASE op'.undo = FALSE
  BY <1>2 DEF BackInv
<1>3. ASSUME outcome' = NoOutcome PROVE BackInv'
  <2>. SUFFICES ASSUME NEW n \in DOMAIN op'.names, n <= outcome'.succeeded
                PROVE  FALSE
    BY DEF BackInv
  <2>1. op'.names \in Seq(NamePairs)
    BY DEF OpInv, Task
  <2>2. n \in Nat /\ n >= 1
    BY <2>1
  <2>. QED  BY <1>3, <2>2 DEF NoOutcome
<1>4. CASE disturbed' = TRUE
  BY <1>4 DEF BackInv
<1>5. CASE UNCHANGED allVars
  BY <1>5 DEF allVars, fileVars, outerVars, uiVars, BackInv, Back, SrcAt, DstAt, Found
<1>. QED  BY <1>0, <1>1, <1>2, <1>3, <1>4, <1>5, StepsThereAre, IdleNoUndo

-----------------------------------------------------------------------------
RestoreInv ==
    /\ TargetInv /\ BeforeInv /\ MoveInv /\ WalkedInv /\ MarkedInv /\ RecycleInv
    /\ JournalInv /\ TallyInv /\ BinInv /\ FoundInv /\ BackInv

LEMMA InitRestore == Init => RestoreInv
<1>. SUFFICES ASSUME Init PROVE RestoreInv
  OBVIOUS
<1>1. /\ op.kind = "none" /\ op.undo = FALSE /\ phase = "idle" /\ op.skipErrors = FALSE
      /\ journal = <<>> /\ before = NoDisk
  BY DEF Init, Idle
<1>2. TargetInv /\ MoveInv /\ WalkedInv /\ MarkedInv /\ RecycleInv /\ TallyInv /\ FoundInv /\ BackInv
  BY <1>1 DEF TargetInv, MoveInv, WalkedInv, MarkedInv, RecycleInv, TallyInv, FoundInv, BackInv, Straight, Working
<1>3. BeforeInv
  BY <1>1, NoDiskGood DEF BeforeInv
<1>4. DOMAIN journal = {}
  BY <1>1
<1>5. JournalInv /\ BinInv
  BY <1>1, <1>4 DEF JournalInv, BinInv
<1>. QED  BY <1>2, <1>3, <1>5 DEF RestoreInv

LEMMA NextRestore ==
    ASSUME TransferInv, TransferInv', UndoneInv, RestoreInv, [Next]_allVars
    PROVE  RestoreInv'
<1>1. /\ CountInv /\ OpInv /\ GoodInv /\ OpInv' /\ GoodInv'
      /\ TargetInv /\ BeforeInv /\ MoveInv /\ WalkedInv /\ MarkedInv /\ RecycleInv
      /\ JournalInv /\ TallyInv /\ BinInv /\ FoundInv /\ BackInv
  BY DEF TransferInv, RestoreInv
<1>2. TargetInv'
  BY <1>1, NextTarget
<1>3. BeforeInv'
  BY <1>1, NextBefore
<1>4. MoveInv'
  BY <1>1, NextMove
<1>5. WalkedInv'
  BY <1>1, NextWalked
<1>6. MarkedInv'
  BY <1>1, NextMarked
<1>7. RecycleInv'
  BY <1>1, NextRecycled
<1>8. JournalInv'
  BY <1>1, NextJournal
<1>9. TallyInv'
  BY <1>1, NextTally
<1>10. BinInv'
  BY <1>1, NextBin
<1>11. FoundInv'
  BY <1>1, NextFound
<1>12. BackInv'
  BY <1>1, NextBack
<1>. QED  BY <1>2, <1>3, <1>4, <1>5, <1>6, <1>7, <1>8, <1>9, <1>10, <1>11, <1>12 DEF RestoreInv

\* Trees with the same files are the same without their links.
LEMMA SameUnlinked ==
    ASSUME NEW t \in Trees, NEW u \in Trees, SameFiles(t, u)
    PROVE  Unlinked(t) = Unlinked(u)
<1>1. t = [node |-> t.node, inside |-> t.inside] /\ u = [node |-> u.node, inside |-> u.inside]
      /\ t.inside \in [Parts -> Nodes] /\ u.inside \in [Parts -> Nodes]
  BY DEF Trees
<1>. DEFINE bare(f) == [x \in Parts |-> IF f[x] = "link" THEN "none" ELSE f[x]]
<1>2. bare(t.inside) = bare(u.inside)
  BY <1>1 DEF SameFiles, Plain
<1>3. Unlinked(t) = [t EXCEPT !.inside = bare(t.inside)] /\ Unlinked(u) = [u EXCEPT !.inside = bare(u.inside)]
  BY DEF Unlinked
<1>. HIDE DEF bare
<1>4. Unlinked(t) = [node |-> t.node, inside |-> bare(t.inside)] /\ Unlinked(u) = [node |-> u.node, inside |-> bare(u.inside)]
  BY <1>1, <1>3
<1>. QED  BY <1>2, <1>4 DEF SameFiles

\* Where all is counted as put back, the places of the entry are as they were.
LEMMA AllBack == TransferInv /\ RestoreInv => UndoRestores
<1>. SUFFICES ASSUME TransferInv, RestoreInv, AllReversed, NEW n \in DOMAIN undoing.items
              PROVE  LET item == undoing.items[n] IN
                     /\ undoing.kind \in {"rename", "move"} => PutBack(item)
                     /\ undoing.kind = "copy" => Tree(disk, item.after) = item.was[2]
                     /\ undoing.kind = "recycle" =>
                           \/ Tree(disk, item.before) = item.was[1]
                           \/ \E b \in bin : b.item = item.before /\ b.tree = item.was[1]
  BY DEF UndoRestores
<1>. DEFINE item == undoing.items[n]
<1>0. /\ CountInv /\ OpInv /\ GoodInv /\ disk \in [Places -> Nodes] /\ BeforeInv /\ JournalInv /\ FoundInv /\ BackInv
      /\ phase = "end" /\ op.undo /\ outcome.succeeded = Len(op.names) /\ undoing.clean /\ ~disturbed
  BY DEF TransferInv, RestoreInv, GoodInv, GoodDisk, AllReversed
<1>1. outcome.failed = 0
  <2>1. /\ outcome.succeeded \in Nat /\ outcome.skipped \in Nat /\ outcome.failed \in Nat
        /\ outcome.succeeded + outcome.skipped + outcome.failed <= op.at /\ op.at \in Nat
    BY <1>0 DEF CountInv, Outcomes, counted, OpShape
  <2>2. op.at <= Len(op.names)
    BY <1>0, <2>1 DEF OpInv, Task
  <2>3. Len(op.names) \in Nat
    BY <1>0
  <2>. QED  BY <1>0, <2>1, <2>2, <2>3
<1>2. /\ n \in DOMAIN op.names /\ n <= outcome.succeeded
      /\ item.after = SrcAt(n) /\ item.before = DstAt(n) /\ item.after \in Items /\ item.before \in Items
      /\ item.expected \in Trees /\ item.was[1] \in Trees
  <2>1. DOMAIN op.names = 1..Len(op.names) /\ Len(op.names) \in Nat
    BY <1>0 DEF OpInv, Task
  <2>2. n \in 1..Len(op.names)
    BY <1>0, UndoItems
  <2>3. item \in ItemRecords
    BY <1>0, UndoItems
  <2>4. item.was[1] \in Trees
    BY <2>3 DEF ItemRecords
  <2>. QED  BY <1>0, <2>1, <2>2, <2>4, UndoItems DEF SrcAt, DstAt
<1>3. Back(n)
  BY <1>0, <1>1, <1>2 DEF BackInv
<1>4. /\ undoing \in GoodEntries /\ undoing.kind \in EntryKinds
      /\ op.kind = IF undoing.kind = "copy" THEN "recycle" ELSE IF undoing.kind = "recycle" THEN "restore" ELSE undoing.kind
  <2>1. undoing \in GoodEntries /\ SameTask(op, UndoOp(undoing))
    BY <1>0 DEF OpInv
  <2>2. undoing.kind \in EntryKinds
    BY <2>1 DEF GoodEntries, Entries
  <2>. QED  BY <2>1, <2>2, UndoTask DEF SameTask
<1>5. FactsOf(undoing)
  <2>1. journal \in Seq(GoodEntries) /\ journal # <<>> /\ undoing = journal[Len(journal)]
    BY <1>0 DEF OpInv, JournalInv, Top
  <2>2. Len(journal) \in DOMAIN journal
    BY <2>1
  <2>. QED  BY <1>0, <2>1, <2>2 DEF JournalInv
<1>6. CASE undoing.kind \in {"rename", "move"}
  <2>1. /\ item.was[2] = NoTree /\ SameFiles(item.expected, item.was[1])
    BY <1>0, <1>5, <1>6 DEF FactsOf, SameFiles
  <2>2. Found(SrcAt(n)) = item.expected
    BY <1>0, <1>2, <1>4, <1>6 DEF FoundInv
  <2>3. SameFiles(Tree(disk, item.before), item.expected) /\ (crossVolume \/ Tree(disk, item.after) = NoTree)
    BY <1>2, <1>3, <1>4, <1>6, <2>2 DEF Back
  <2>4. SameFiles(Tree(disk, item.before), item.was[1]) /\ Tree(disk, item.before) \in Trees
    BY <1>0, <1>2, <2>1, <2>3, TreeIs DEF SameFiles
  <2>5. Unlinked(Tree(disk, item.before)) = Unlinked(item.was[1])
    BY <1>2, <2>4, SameUnlinked
  <2>6. PutBack(item)
    BY <2>1, <2>3, <2>5 DEF PutBack
  <2>. QED  BY <1>6, <2>6
<1>7. CASE undoing.kind = "copy"
  <2>1. item.was[2] = NoTree
    BY <1>5, <1>7 DEF FactsOf
  <2>. QED  BY <1>2, <1>3, <1>4, <1>7, <2>1 DEF Back
<1>8. CASE undoing.kind = "recycle"
  BY <1>3, <1>4, <1>8 DEF Back
<1>. QED  BY <1>4, <1>6, <1>7, <1>8 DEF EntryKinds

\* An undo that says it reversed every item has (UndoJournal.cpp, PerformUndo):
\* what a rename or a move took away is at its old place again, nothing is left
\* of a copy, and what a delete took away is back, or still in the bin.
THEOREM UndoPutsBack == Spec => []UndoRestores
<1>1. Init => UndoneInv /\ RestoreInv
  BY IdleNoUndo, InitRestore DEF Init, UndoneInv
<1>2. TransferInv /\ TransferInv' /\ UndoneInv /\ RestoreInv /\ [Next]_allVars => (UndoneInv /\ RestoreInv)'
  BY NextUndone, NextRestore DEF TransferInv
<1>3. TransferInv /\ RestoreInv => UndoRestores
  BY AllBack
<1>. QED  BY <1>1, <1>2, <1>3, TransferInvariant, PTL DEF Spec
=============================================================================
