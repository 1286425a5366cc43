----------------------------- MODULE UndoJournal -----------------------------
(***************************************************************************)
(* What the panels do with the engines of FileOps: F5, Shift+F5, F6, F2,   *)
(* F8 and Shift+F8 in main.cpp, the journal entry each leaves, and Ctrl+Z, *)
(* which checks the newest entry, asks, checks again and reverses it item  *)
(* by item (UndoJournal.cpp, and RecycleBin.cpp for a delete).             *)
(***************************************************************************)
EXTENDS FileOps

CONSTANTS
    Starts,        \* what may be there at first: [disk, denied, crossVolume]
    Requests,      \* what the user asks for: [kind, from, to, names]
    Writes,        \* what other programs write: <<place, content>>
    Capacity,      \* kCapacity
    MaxOps         \* bound: operations and undos together

\* Links are only inside folders, at most one in each, as all of them lead to
\* one place; what is marked in a panel has names of its own.
LinksApart(d) ==
    \A i \in Items :
        /\ d[i] # "link" /\ (d[i] # "folder" => \A p \in Inside(i) : d[p] = "none")
        /\ \A p, q \in Inside(i) : d[p] # "folder" /\ (d[p] = "link" /\ d[q] = "link" => p = q)

ASSUME StartsAssumption ==
    \A s \in Starts :
        /\ s.disk \in [Places -> Nodes] /\ s.denied \subseteq Items /\ s.crossVolume \in BOOLEAN
        /\ LinksApart(s.disk) /\ s.disk[Elsewhere] \in Contents \cup {"none"}

ASSUME RequestsAssumption ==
    \A r \in Requests :
        /\ r.kind \in {"copy", "move", "recycle", "delete", "rename"} /\ r.from \in Dirs /\ r.to \in Dirs
        /\ r.names \in Seq([name : Names, target : Names]) /\ r.names # <<>>
        /\ \A m, n \in DOMAIN r.names :
              m # n => r.names[m].name # r.names[n].name /\ r.names[m].target # r.names[n].target

ASSUME OthersAssumption == \A w \in Writes : w \in Places \X (Contents \cup {"none"})

ASSUME JournalAssumption == Capacity \in Nat \ {0} /\ MaxOps \in Nat

VARIABLES
    journal,       \* UndoJournal::entries_
    undoing,       \* DoUndo's copy of the newest entry
    clock,         \* counts operations; the time the bin keeps
    before         \* the disk as the operation found it, destBefore and deleteBefore in it

uiVars == <<journal, undoing, clock, before>>
allVars == <<fileVars, uiVars>>

NoEntry == [kind |-> "none", items |-> <<>>, when |-> 0, clean |-> TRUE]
NoDisk == [p \in Places |-> "none"]

Init ==
    /\ \E s \in Starts : disk = s.disk /\ denied = s.denied /\ crossVolume = s.crossVolume
    /\ bin = {} /\ op = Idle /\ phase = "idle" /\ outcome = NoOutcome
    /\ faults = 0 /\ others = 0 /\ disturbed = FALSE
    /\ owed = {disk[p] : p \in Places} \cap Contents
    /\ journal = <<>> /\ undoing = NoEntry /\ clock = 0 /\ before = NoDisk

-----------------------------------------------------------------------------
(* The journal.                                                              *)

Push(entry) ==
    journal' = IF Len(journal) = Capacity THEN Append(Tail(journal), entry) ELSE Append(journal, entry)
Pop == journal' = SubSeq(journal, 1, Len(journal) - 1)
Top == journal[Len(journal)]

\* before, after and expected; what was at both places is kept beside them.
Item(i, j, expected) ==
    [before |-> i, after |-> j, expected |-> expected,
     was |-> <<Tree(before, i), Tree(before, j)>>]
EntryOf(kind, items) == [kind |-> kind, items |-> items, when |-> clock, clean |-> ~disturbed /\ ~op.typed]

\* UndoRecord: nothing to record, nothing pushed.
Record(kind, items) == IF items = <<>> THEN UNCHANGED journal ELSE Push(EntryOf(kind, items))
UndoClear == journal' = <<>>

-----------------------------------------------------------------------------
(* The operations of the panels.                                             *)

Begin(o) ==
    /\ phase = "idle" /\ clock < MaxOps /\ clock' = clock + 1
    /\ op' = o /\ phase' = "next" /\ outcome' = NoOutcome
    /\ before' = disk /\ disturbed' = FALSE
    /\ UNCHANGED <<disk, crossVolume, denied, bin, faults, others, journal, undoing>>

\* What is marked was in the panel; copy and move may give a target its own
\* name (Shift+F5).
Marked(r) == \A n \in DOMAIN r.names : disk[<<r.from, r.names[n].name>>] # "none"
Operation(r) == [Idle EXCEPT !.kind = r.kind, !.from = r.from, !.to = r.to, !.names = r.names]

PerformCopyOrMove(r) ==
    /\ r.kind \in {"copy", "move"} /\ Marked(r)
    /\ Begin(Operation(r))
    /\ UNCHANGED owed

\* Shift+F8 ("delete") gives up what is in the items, F8 ("recycle") does not.
DoDelete(r) ==
    /\ r.kind \in {"recycle", "delete"} /\ Marked(r)
    /\ Begin(Operation(r))
    /\ owed' = IF r.kind = "recycle" THEN owed
               ELSE owed \ UNION {ContentsIn(Tree(disk, <<r.from, r.names[n].name>>)) : n \in DOMAIN r.names}

\* DoRename: one call, one message when it fails.
DoRename(r) ==
    /\ phase = "idle" /\ clock < MaxOps /\ clock' = clock + 1
    /\ r.kind = "rename" /\ Marked(r)
    /\ LET i == <<r.from, r.names[1].name>>
           j == <<r.from, r.names[1].target>>
       IN  /\ disk[j] = "none"
           /\ disk' = PutTree(PutTree(disk, j, Tree(disk, i)), i, NoTree)
           /\ Push([kind |-> "rename", when |-> clock', clean |-> TRUE,
                    items |-> <<[before |-> i, after |-> j, expected |-> Tree(disk, i),
                                 was |-> <<Tree(disk, i), Tree(disk, j)>>]>>])
    /\ UNCHANGED <<bin, op, phase, outcome, faults, owed, outerVars, undoing, before>>

-----------------------------------------------------------------------------
(* When the loop is over: what the journal gets.                             *)

SrcAt(n) == <<op.from, op.names[n].name>>
DstAt(n) == <<op.to, op.names[n].target>>
Exists(d, i) == d[i] # "none"

\* A likely slip: whatever is at the target now counts as made by the operation.
CreatedWhateverWas(n) ==
    /\ Exists(disk, DstAt(n))
    /\ op.kind = "move" => ~Exists(disk, SrcAt(n))
Created(n) ==
    /\ ~Exists(before, DstAt(n)) /\ Exists(disk, DstAt(n))
    /\ op.kind = "move" => ~Exists(disk, SrcAt(n))
Murky ==
    \/ op.elevatedAny
    \/ \E n \in DOMAIN op.names :
          IF Exists(before, DstAt(n))
          THEN Tree(disk, DstAt(n)) # Tree(before, DstAt(n))
          ELSE op.kind = "move" /\ Exists(disk, DstAt(n)) /\ Exists(disk, SrcAt(n))

\* The chosen indexes, in order; each then becomes an item of the entry.
Chosen(indexes) ==
    LET upTo[n \in 0..Len(op.names)] ==
            IF n = 0 THEN <<>> ELSE IF n \in indexes THEN Append(upTo[n - 1], n) ELSE upTo[n - 1]
    IN  upTo[Len(op.names)]

MadeItem(n) == Item(SrcAt(n), DstAt(n), Tree(disk, DstAt(n)))
Gone(n) == Exists(before, SrcAt(n)) /\ ~Exists(disk, SrcAt(n))
DeletedItem(n) == Item(SrcAt(n), SrcAt(n), Tree(before, SrcAt(n)))

MadeItems ==
    LET made == Chosen({n \in DOMAIN op.names : Created(n)}) IN [k \in DOMAIN made |-> MadeItem(made[k])]
GoneItems ==
    LET gone == Chosen({n \in DOMAIN op.names : Gone(n)}) IN [k \in DOMAIN gone |-> DeletedItem(gone[k])]

Settle ==
    \/ /\ op.kind \in {"copy", "move"}
       /\ IF Murky THEN UndoClear ELSE Record(op.kind, MadeItems)
    \/ /\ op.kind = "delete"
       /\ IF outcome.succeeded > 0 THEN UndoClear ELSE UNCHANGED journal
    \/ /\ op.kind = "recycle"
       /\ IF outcome.succeeded = 0 THEN UNCHANGED journal
          ELSE IF GoneItems = <<>> THEN UndoClear ELSE Record("recycle", GoneItems)

BackToIdle ==
    /\ op' = Idle /\ phase' = "idle" /\ outcome' = NoOutcome /\ before' = NoDisk
    /\ undoing' = NoEntry /\ disturbed' = FALSE

EndOperation ==
    /\ phase = "end" /\ ~op.undo
    /\ Settle /\ BackToIdle
    /\ UNCHANGED <<disk, bin, faults, owed, crossVolume, denied, others, clock>>

-----------------------------------------------------------------------------
(* Ctrl+Z.                                                                   *)

StillThere(item) == Tree(disk, item.after) = item.expected

CheckUndo(entry) ==
    \A n \in DOMAIN entry.items :
        LET item == entry.items[n] IN
        /\ entry.kind = "recycle" => ~Exists(disk, item.after)
        /\ entry.kind # "recycle" => StillThere(item)
        /\ entry.kind \in {"rename", "move"} => ~Exists(disk, item.before)

\* FindInBin: by place and time; by size too when it was a file.
FoundInBin(entry, item) ==
    {b \in bin : /\ b.item = item.before /\ b.when >= entry.when
                 /\ item.expected.node # "folder" => b.tree = item.expected}
Newest(found) == {b \in found : \A c \in found : b.when >= c.when}
Located(entry) ==
    entry.kind = "recycle" => \A n \in DOMAIN entry.items : FoundInBin(entry, entry.items[n]) # {}

DoUndo ==
    /\ phase = "idle" /\ journal # <<>> /\ clock < MaxOps
    /\ IF CheckUndo(Top)
       THEN phase' = "confirm" /\ undoing' = Top /\ clock' = clock + 1 /\ UNCHANGED journal
       ELSE Pop /\ UNCHANGED <<phase, undoing, clock>>
    /\ UNCHANGED <<disk, bin, op, outcome, faults, owed, outerVars, before>>

\* PerformUndo hands every item to an engine by itself, with no handlers: the
\* first that fails ends it.
UndoOp(entry) ==
    LET first == entry.items[1]
        back == [n \in DOMAIN entry.items |->
                    [name |-> entry.items[n].after[2], target |-> entry.items[n].before[2]]]
    IN  [Idle EXCEPT !.undo = TRUE, !.from = first.after[1], !.to = first.before[1], !.names = back,
                     !.kind = IF entry.kind = "copy" THEN "recycle"
                              ELSE IF entry.kind = "recycle" THEN "restore" ELSE entry.kind]

\* A likely slip: what was checked before the question is not checked again.
CheckedOnce(entry) == TRUE
CheckedAgain(entry) == CheckUndo(entry)

AnswerUndo ==
    /\ phase = "confirm"
    /\ \/ phase' = "idle" /\ undoing' = NoEntry /\ UNCHANGED <<op, outcome, journal, before, disturbed>>
       \/ /\ CheckedAgain(undoing) /\ Located(undoing)
          /\ op' = UndoOp(undoing) /\ phase' = "next" /\ outcome' = NoOutcome
          /\ before' = disk /\ disturbed' = FALSE
          /\ UNCHANGED <<undoing, journal>>
       \/ /\ ~(CheckedAgain(undoing) /\ Located(undoing))
          /\ Pop /\ phase' = "idle" /\ undoing' = NoEntry
          /\ UNCHANGED <<op, outcome, before, disturbed>>
    /\ UNCHANGED <<disk, bin, faults, owed, crossVolume, denied, others, clock>>

\* CheckRestore and IRecycleBin::Restore
AttemptRestore ==
    /\ phase = "attempt" /\ op.kind = "restore"
    /\ LET found == FoundInBin(undoing, undoing.items[op.at])
       IN  \/ \E b \in Newest(found) :
                 \/ /\ ~Exists(disk, b.item)
                    /\ disk' = PutTree(disk, b.item, b.tree) /\ bin' = bin \ {b}
                    /\ UNCHANGED faults /\ Succeeded
                 \/ Exists(disk, b.item) /\ MustFail /\ UNCHANGED bin
           \/ found = {} /\ MustFail /\ UNCHANGED bin
           \/ FailsBy({disk}) /\ UNCHANGED bin
    /\ UNCHANGED <<owed, outerVars>>

EndUndo ==
    /\ phase = "end" /\ op.undo
    /\ Pop /\ BackToIdle
    /\ UNCHANGED <<disk, bin, faults, owed, crossVolume, denied, others, clock>>

-----------------------------------------------------------------------------
Engine == EngineStep(clock) \/ AttemptRestore

UserStarts == \E r \in Requests : PerformCopyOrMove(r) \/ DoDelete(r) \/ DoRename(r)

Next ==
    \/ Engine /\ UNCHANGED uiVars
    \/ UserStarts \/ EndOperation
    \/ DoUndo \/ AnswerUndo \/ EndUndo
    \/ (\E w \in Writes : OtherProgramWrites(w[1], w[2])) /\ UNCHANGED uiVars

Spec == Init /\ [][Next]_allVars

-----------------------------------------------------------------------------
(* What must hold. *)

\* An undo moves, recycles or renames only what is exactly as the operation it
\* reverses left it, whatever was written while the user looked at the question.
UndoReversesOnlyItsOwn ==
    [][op.undo /\ op.kind # "restore" /\ ~disturbed /\ outcome'.succeeded > outcome.succeeded =>
          Tree(disk, undoing.items[op.at].after) = undoing.items[op.at].expected]_allVars

Unlinked(tree) == [tree EXCEPT !.inside = [x \in Parts |-> IF @[x] = "link" THEN "none" ELSE @[x]]]

PutBack(item) ==
    /\ Unlinked(Tree(disk, item.before)) = Unlinked(item.was[1])
    /\ crossVolume \/ Tree(disk, item.after) = item.was[2]
AllReversed == phase = "end" /\ op.undo /\ outcome.succeeded = Len(op.names) /\ undoing.clean /\ ~disturbed

\* An undo that reversed every item of a rename or a move leaves its places as
\* they were before the operation (links are lost between volumes, and the
\* source of a move may stay there); of a copy, nothing is left of it; of a
\* delete, the item is back, or still in the bin when another thing that was
\* deleted from its path came back instead.
UndoRestores ==
    AllReversed =>
        \A n \in DOMAIN undoing.items :
            LET item == undoing.items[n] IN
            /\ undoing.kind \in {"rename", "move"} => PutBack(item)
            /\ undoing.kind = "copy" => Tree(disk, item.after) = item.was[2]
            /\ undoing.kind = "recycle" =>
                  \/ Tree(disk, item.before) = item.was[1]
                  \/ \E b \in bin : b.item = item.before /\ b.tree = item.was[1]
=============================================================================
