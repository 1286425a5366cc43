------------------------------- MODULE FileOps -------------------------------
(***************************************************************************)
(* The file engines of FileOps.cpp on a small disk: copy, move and delete  *)
(* of several items, with name clashes, failures at any step, retries,     *)
(* elevation, Esc, and other programs writing meanwhile.  A folder is one  *)
(* level deep: its files are moved, copied and removed one by one, as in   *)
(* CopyDirectoryRecursive.  What Windows does to a file is in the steps    *)
(* named after its calls.                                                  *)
(***************************************************************************)
EXTENDS Naturals, Sequences, FiniteSets

CONSTANTS
    Names,       \* names of items in the two panels' folders
    Parts,       \* names of what is inside a folder
    Contents,    \* contents of files, with their size and time
    MaxFaults,   \* bound: how many calls of Windows fail for no reason of their own
    MaxOthers    \* bound: how many times another program writes

ASSUME FileOpsAssumption ==
    /\ MaxFaults \in Nat /\ MaxOthers \in Nat
    /\ "none" \notin Contents /\ "folder" \notin Contents /\ "link" \notin Contents

Dirs == {"left", "right"}            \* the folders of the two panels
Items == Dirs \X Names
Inside(i) == {<<i[1], i[2], x>> : x \in Parts}
Elsewhere == <<"elsewhere">>         \* where a link leads
Places == Items \cup {Elsewhere} \cup UNION {Inside(i) : i \in Items}
Nodes == Contents \cup {"none", "folder", "link"}

VARIABLES
    disk,        \* what is at each place
    crossVolume, \* the two folders are on different volumes
    denied,      \* folders whose listing is refused
    bin,         \* the Recycle Bin
    op,          \* the operation at work and the locals of its loop
    phase,       \* where it is
    outcome,     \* OperationOutcome
    faults, others,
    owed,        \* history: contents nobody has agreed to give up
    disturbed    \* history: another program wrote during the operation

outerVars == <<crossVolume, denied, others, disturbed>>
fileVars == <<disk, bin, op, phase, outcome, faults, owed, outerVars>>

IsDirectory(p) == disk[p] = "folder"
KindOf(p) == IF disk[p] \in {"none", "folder"} THEN disk[p] ELSE "file"
Tree(d, i) == [node |-> d[i], inside |-> [x \in Parts |-> d[<<i[1], i[2], x>>]]]
NoTree == [node |-> "none", inside |-> [x \in Parts |-> "none"]]
PutTree(d, i, tree) ==
    [p \in Places |-> IF p = i THEN tree.node ELSE IF p \in Inside(i) THEN tree.inside[p[3]] ELSE d[p]]
ContentsIn(tree) == ({tree.node} \cup {tree.inside[x] : x \in Parts}) \cap Contents
Links(tree) == {x \in Parts : tree.inside[x] = "link"}

NoOutcome == [succeeded |-> 0, skipped |-> 0, failed |-> 0, cancelled |-> FALSE]
Idle == [kind |-> "none", undo |-> FALSE, from |-> "left", to |-> "left", names |-> <<>>, at |-> 0,
         blanket |-> "none", skipErrors |-> FALSE, elevated |-> FALSE, elevatedAny |-> FALSE, typed |-> FALSE, target |-> "",
         seen |-> "none", overwrite |-> FALSE, todo |-> {}]

SrcOf(o) == <<o.from, o.names[o.at].name>>
DstOf(o) == <<o.to, o.target>>
Src == SrcOf(op)
Dst == DstOf(op)

-----------------------------------------------------------------------------
(* How an item ends, and the loop goes on. *)

Count(field) == outcome' = [outcome EXCEPT ![field] = @ + 1]

\* A likely slip: an item skipped after an error is not counted.
OverUncounted(field) ==
    /\ phase' = "next"
    /\ IF field = "skipped" /\ phase # "conflict" THEN UNCHANGED outcome ELSE Count(field)
Over(field) == Count(field) /\ phase' = "next"

\* Esc, Cancel in a dialog: the loop breaks.
Cancelled == outcome' = [outcome EXCEPT !.cancelled = TRUE] /\ phase' = "end"

\* RunWithRetry, after an attempt that failed.
AttemptFailed ==
    \/ op.elevated /\ op' = [op EXCEPT !.elevated = FALSE] /\ phase' = "attempt" /\ UNCHANGED outcome
    \/ ~op.elevated /\ op.undo /\ UNCHANGED op /\ Over("failed")
    \/ ~op.elevated /\ op.skipErrors /\ UNCHANGED op /\ Over("skipped")
    \/ /\ ~op.elevated /\ ~op.undo /\ ~op.skipErrors
       /\ phase' = "error" /\ UNCHANGED <<op, outcome>>

Succeeded == UNCHANGED op /\ Over("succeeded")

\* The cancel poll of the UI; the elevated helper and an undo have none.
EscPressed == ~op.undo /\ ~op.elevated /\ Cancelled /\ UNCHANGED op

\* A call that fails for a reason outside this model: sharing violation, full disk.
FailsBy(effects) == faults < MaxFaults /\ faults' = faults + 1 /\ disk' \in effects /\ AttemptFailed
MustFail == UNCHANGED <<disk, faults>> /\ AttemptFailed

-----------------------------------------------------------------------------
(* Name clashes and refusals, before an item is touched. *)

Consent(o) ==
    LET there == Tree(disk, DstOf(o))
    IN  owed' = owed \ (ContentsIn(there) \cup (IF Links(there) = {} THEN {} ELSE {disk[Elsewhere]}))

Refused(o) ==
    \/ o.kind = "copy" /\ SrcOf(o) = DstOf(o)
    \/ o.seen # "none" /\ IsDirectory(SrcOf(o)) # (o.seen = "folder")
    \/ o.kind = "move" /\ o.overwrite /\ o.seen = "folder"

Proceed(o) ==
    /\ op' = o
    /\ IF Refused(o) THEN Over("failed") ELSE phase' = "attempt" /\ UNCHANGED outcome

Choose(o, choice) ==
    \/ choice = "Cancel" /\ op' = o /\ Cancelled /\ UNCHANGED owed
    \/ choice = "Skip" /\ op' = o /\ Over("skipped") /\ UNCHANGED owed
    \/ choice = "Overwrite" /\ Proceed([o EXCEPT !.overwrite = TRUE]) /\ Consent(o)

Clashes(o) == o.seen # "none"

StartItem(o) ==
    \/ o.kind \notin {"copy", "move"} /\ op' = o /\ phase' = "attempt" /\ UNCHANGED <<outcome, owed>>
    \/ o.kind = "move" /\ o.from = o.to /\ op' = o /\ Over("failed") /\ UNCHANGED owed
    \/ /\ o.kind = "copy" \/ (o.kind = "move" /\ o.from # o.to)
       /\ \/ ~Clashes(o) /\ Proceed(o) /\ UNCHANGED owed
          \/ Clashes(o) /\ o.undo /\ Choose(o, "Cancel")
          \/ Clashes(o) /\ ~o.undo /\ o.blanket # "none" /\ Choose(o, o.blanket)
          \/ /\ Clashes(o) /\ ~o.undo /\ o.blanket = "none"
             /\ op' = o /\ phase' = "conflict" /\ UNCHANGED <<outcome, owed>>

\* An undo stops at the first item that is not put back.
LoopEnds == op.at = Len(op.names) \/ (op.undo /\ outcome.failed > 0)

NextItem ==
    /\ phase = "next"
    /\ \/ LoopEnds /\ phase' = "end" /\ UNCHANGED <<op, outcome, owed>>
       \/ ~LoopEnds /\ EscPressed /\ UNCHANGED owed
       \/ /\ ~LoopEnds
          /\ LET item == op.names[op.at + 1]
             IN  StartItem([op EXCEPT !.at = @ + 1, !.target = item.target, !.overwrite = FALSE, !.elevated = FALSE,
                                      !.seen = KindOf(<<op.to, item.target>>)])
    /\ UNCHANGED <<disk, bin, faults, outerVars>>

AnswerConflict ==
    /\ phase = "conflict"
    /\ \/ \E choice \in {"Overwrite", "Skip"} :
             \/ Choose(op, choice)
             \/ Choose([op EXCEPT !.blanket = choice], choice)
       \/ Choose(op, "Cancel")
       \/ \E name \in Names :
             LET o == [op EXCEPT !.target = name, !.typed = TRUE, !.seen = KindOf(<<op.to, name>>)]
             IN  Proceed(o) /\ Consent(o)
    /\ UNCHANGED <<disk, bin, faults, outerVars>>

AnswerError ==
    /\ phase = "error"
    /\ \/ phase' = "attempt" /\ UNCHANGED <<op, outcome>>
       \/ /\ op.kind # "recycle"
          /\ phase' = "attempt" /\ op' = [op EXCEPT !.elevated = TRUE, !.elevatedAny = TRUE]
          /\ UNCHANGED outcome
       \/ Over("skipped") /\ UNCHANGED op
       \/ Over("skipped") /\ op' = [op EXCEPT !.skipErrors = TRUE]
       \/ Cancelled /\ UNCHANGED op
    /\ UNCHANGED <<disk, bin, faults, owed, outerVars>>

-----------------------------------------------------------------------------
(* One file, as CopyFileExW and MoveFileWithProgressW leave it. *)

\* CopyFileExW writes through a link at the target.
Through(to) == IF disk[to] = "link" THEN Elsewhere ELSE to
Write(from, to) == [disk EXCEPT ![Through(to)] = disk[from]]

\* Given up or failed: the target is untouched, or begun and deleted again.
GivenUp(to) == {disk} \cup (IF IsDirectory(to) THEN {} ELSE {[disk EXCEPT ![Through(to)] = "none"]})

\* CopySingleFile; `then` is what follows a copy that got through.
CopySingleFile(from, to, then) ==
    \/ disk[from] \in Contents /\ ~IsDirectory(to) /\ disk' = Write(from, to) /\ UNCHANGED faults /\ then
    \/ (disk[from] \notin Contents \/ IsDirectory(to)) /\ MustFail
    \/ FailsBy(GivenUp(to))
    \/ EscPressed /\ disk' \in GivenUp(to) /\ UNCHANGED faults

Barred(i) == i \in denied /\ ~op.elevated
\* A folder that comes up empty and is not cannot be removed.
Resists(i) == Barred(i) /\ \E p \in Inside(i) : disk[p] # "none"

\* CopyDirectoryRecursive, up to its loop.  A listing that is refused comes up
\* empty (skip_permission_denied).
OpenFolder(from, to) ==
    \/ /\ KindOf(to) # "file"
       /\ disk' = [disk EXCEPT ![to] = "folder"]
       /\ op' = [op EXCEPT !.todo = IF Barred(from) THEN {} ELSE {p \in Inside(from) : disk[p] # "none"}]
       /\ phase' = "walk" /\ UNCHANGED <<outcome, faults>>
    \/ KindOf(to) = "file" /\ MustFail
    \/ FailsBy({disk})

-----------------------------------------------------------------------------
(* The attempt at an item. *)

AttemptCopy ==
    /\ phase = "attempt" /\ op.kind = "copy"
    /\ IF IsDirectory(Src) THEN OpenFolder(Src, Dst) ELSE CopySingleFile(Src, Dst, Succeeded)
    /\ UNCHANGED <<bin, owed, outerVars>>

MayReplace == disk[Dst] = "none" \/ (op.overwrite /\ disk[Dst] \in Contents)

Moved == PutTree(PutTree(disk, Dst, Tree(disk, Src)), Src, NoTree)

\* MoveFileWithProgressW, with the copy of CopyDirectoryRecursive behind it for
\* a folder.  A file on another volume is copied and then deleted; a source that
\* cannot be deleted is not an error there.
AttemptMove ==
    /\ phase = "attempt" /\ op.kind = "move"
    /\ \/ /\ KindOf(Src) # "none" /\ MayReplace
          /\ crossVolume => ~IsDirectory(Src)
          /\ \/ disk' = Moved /\ UNCHANGED faults
             \/ crossVolume /\ faults < MaxFaults /\ faults' = faults + 1 /\ disk' = Write(Src, Dst)
          /\ Succeeded
       \/ /\ IsDirectory(Src) /\ (crossVolume \/ ~MayReplace \/ faults < MaxFaults)
          /\ OpenFolder(Src, Dst)
       \/ /\ ~IsDirectory(Src) /\ (KindOf(Src) = "none" \/ ~MayReplace) /\ MustFail
       \/ /\ ~IsDirectory(Src) /\ FailsBy(IF crossVolume THEN GivenUp(Dst) ELSE {disk})
       \/ /\ ~IsDirectory(Src) /\ crossVolume
          /\ EscPressed /\ disk' \in GivenUp(Dst) /\ UNCHANGED faults
    /\ UNCHANGED <<bin, owed, outerVars>>

ChildDst(p) == <<Dst[1], Dst[2], p[3]>>
Walked(p) == op' = [op EXCEPT !.todo = @ \ {p}] /\ UNCHANGED <<phase, outcome>>

\* A likely slip: a file that cannot be copied does not end the copy of its folder.
CopyChildAnyway(p) ==
    /\ phase = "walk" /\ p \in op.todo
    /\ \/ disk[p] # "link" /\ CopySingleFile(p, ChildDst(p), Walked(p))
       \/ faults < MaxFaults /\ faults' = faults + 1 /\ UNCHANGED disk /\ Walked(p)
    /\ UNCHANGED <<bin, owed, outerVars>>

\* The loop over a folder: Esc, a link left out, a file copied.
CopyChild(p) ==
    /\ phase = "walk" /\ p \in op.todo
    /\ \/ EscPressed /\ UNCHANGED <<disk, faults>>
       \/ disk[p] = "link" /\ UNCHANGED <<disk, faults>> /\ Walked(p)
       \/ disk[p] # "link" /\ CopySingleFile(p, ChildDst(p), Walked(p))
    /\ UNCHANGED <<bin, owed, outerVars>>

FolderCopied ==
    /\ phase = "walk" /\ op.todo = {}
    /\ IF op.kind = "copy" THEN Succeeded ELSE phase' = "remove" /\ UNCHANGED <<op, outcome>>
    /\ UNCHANGED <<disk, bin, faults, owed, outerVars>>

\* Some of what may be listed in a folder is gone, the folder is not.
PartlyRemoved(i) ==
    IF Barred(i) \/ ~IsDirectory(i) THEN {disk}
    ELSE {[p \in Places |-> IF p \in gone THEN "none" ELSE disk[p]] : gone \in SUBSET Inside(i)}

\* fs::remove_all on the source of a move: whatever is in it by now.
RemoveSource ==
    /\ phase = "remove"
    /\ \/ ~Resists(Src) /\ disk' = PutTree(disk, Src, NoTree) /\ UNCHANGED faults /\ Succeeded
       \/ Resists(Src) /\ MustFail
       \/ FailsBy(PartlyRemoved(Src))
    /\ UNCHANGED <<bin, owed, outerVars>>

\* RecycleOneItem; `now` is the time the bin keeps.
AttemptRecycle(now) ==
    /\ phase = "attempt" /\ op.kind = "recycle"
    /\ \/ /\ disk[Src] # "none"
          /\ bin' = bin \cup {[item |-> Src, tree |-> Tree(disk, Src), when |-> now]}
          /\ disk' = PutTree(disk, Src, NoTree)
          /\ UNCHANGED faults /\ Succeeded
       \/ disk[Src] = "none" /\ MustFail /\ UNCHANGED bin
       \/ FailsBy({disk}) /\ UNCHANGED bin
    /\ UNCHANGED <<owed, outerVars>>

\* RemoveTreeSafely
AttemptDelete ==
    /\ phase = "attempt" /\ op.kind = "delete"
    /\ \/ /\ disk[Src] # "none" /\ ~Resists(Src)
          /\ disk' = PutTree(disk, Src, NoTree) /\ UNCHANGED faults /\ Succeeded
       \/ (disk[Src] = "none" \/ Resists(Src)) /\ MustFail
       \/ FailsBy(PartlyRemoved(Src))
       \/ /\ IsDirectory(Src)
          /\ EscPressed /\ disk' \in PartlyRemoved(Src) /\ UNCHANGED faults
    /\ UNCHANGED <<bin, owed, outerVars>>

\* MoveFileExW of RenameItem; `then` is what follows.
RenameItem(from, to, then) ==
    \/ /\ disk[from] # "none" /\ disk[to] = "none"
       /\ disk' = PutTree(PutTree(disk, to, Tree(disk, from)), from, NoTree) /\ UNCHANGED faults /\ then
    \/ (disk[from] = "none" \/ disk[to] # "none") /\ MustFail
    \/ FailsBy({disk})

AttemptRename ==
    /\ phase = "attempt" /\ op.kind = "rename" /\ RenameItem(Src, Dst, Succeeded)
    /\ UNCHANGED <<bin, owed, outerVars>>

EngineStep(now) ==
    \/ NextItem \/ AnswerConflict \/ AnswerError
    \/ AttemptCopy \/ AttemptMove \/ AttemptRecycle(now) \/ AttemptDelete \/ AttemptRename
    \/ (\E p \in Places : CopyChild(p)) \/ FolderCopied \/ RemoveSource

-----------------------------------------------------------------------------
(* Another program writes or deletes a file.  What it writes while an        *)
(* operation is at work is nobody's promise, nor is the older version of a   *)
(* file it has written anew where the operation takes it from.               *)
Counterpart(p) == IF op.at > 0 /\ Len(p) = 3 /\ <<p[1], p[2]>> = Src THEN ChildDst(p) ELSE p
OtherProgramWrites(p, content) ==
    /\ others < MaxOthers /\ others' = others + 1
    /\ p # Elsewhere /\ disk[p] \in Contents \cup {"none"} /\ content # disk[p]
    /\ Len(p) = 3 => IsDirectory(<<p[1], p[2]>>)
    /\ disk' = [disk EXCEPT ![p] = content]
    /\ owed' = (owed \ {disk[p], disk[Through(Counterpart(p))]}) \cup (IF phase = "idle" THEN {content} \cap Contents ELSE {})
    /\ disturbed' = (phase # "idle")
    /\ UNCHANGED <<bin, op, phase, outcome, faults, crossVolume, denied>>

-----------------------------------------------------------------------------
(* What must hold. *)

\* No step of an operation, whether it gets through, fails, is tried again, is
\* elevated, given up or undone, takes the last copy of a content away: it is
\* on the disk or in the Recycle Bin, unless the user agreed to give it up (or
\* typed the name of what it replaces).
NothingLost ==
    \A c \in owed :
        \/ \E p \in Places : disk[p] = c
        \/ \E b \in bin : c \in ContentsIn(b.tree)

\* FOP-011: when the loop is over every item has been counted exactly once,
\* and only Esc or Cancel leaves some of them uncounted.
EveryItemCounted ==
    LET counted == outcome.succeeded + outcome.skipped + outcome.failed
    IN  /\ counted <= op.at
        /\ phase = "end" /\ ~outcome.cancelled => counted = op.at
        /\ phase = "end" /\ ~outcome.cancelled /\ ~op.undo => counted = Len(op.names)

\* An item counted as copied or moved is at its target, with every file that
\* was in it when the last attempt opened it; a folder that may not be listed
\* and links are left out (skip_permission_denied, SEC-006).
DoneMeansThere ==
    [][outcome'.succeeded > outcome.succeeded /\ op.kind \in {"copy", "move"} /\ ~disturbed =>
          LET there == Tree(disk, Src) IN
          /\ disk'[Dst] = there.node
          /\ ~Barred(Src) =>
                \A x \in Parts : there.inside[x] \in Contents =>
                    disk'[<<Dst[1], Dst[2], x>>] \in {there.inside[x], "link"}]_fileVars
=============================================================================
