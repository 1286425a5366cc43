----------------------------- MODULE BatchRename -----------------------------
(* Renaming a batch of items in one folder: the plan and its problems         *)
(* (BuildRenamePlan), the order of its steps, with a temporary name where     *)
(* names swap (OrderRenames, MultiRename.cpp), the steps with retries and     *)
(* Esc, what is put back (RenameItems, FileOps.cpp), and what the undo        *)
(* journal is told (DoGroupRename, main.cpp).  Another program may add and    *)
(* remove items all the while.                                                *)
(*                                                                            *)
(* How masks make new names is left out: any names may be wanted.  A folder   *)
(* is a function from the names in it to the items that have them; an item is *)
(* known by its first name.                                                   *)
EXTENDS Naturals, Sequences, FiniteSets, SequencesExt, FiniteSetsExt, Functions

CONSTANTS
    Names,     \* the names an item may have or get
    Invalid,   \* a new name ValidateNewFileName refuses
    TempNames, \* "~mcren.1.tmp", "~mcren.2.tmp", ... in this order
    Fold,      \* Lower: what a name is compared by
    Starts,    \* the names in the folder at first
    Other,     \* an item of another program
    MaxBatch,  \* bound: items in the batch
    MaxFaults, \* bound: renames that fail for a reason outside the folder
    MaxOthers  \* bound: what another program does

SameName(m, n) == Fold[m] = Fold[n]

ASSUME BatchAssumption ==
    /\ \A n \in Names \cup Range(TempNames) : n \in DOMAIN Fold
    /\ MaxBatch \in Nat /\ MaxFaults \in Nat /\ MaxOthers \in Nat

\* A folder has a name in one spelling, and at first no item of another program.
ASSUME FolderAssumption ==
    \A names \in Starts : Other \notin names /\ \A m, n \in names : SameName(m, n) => m = n

\* The temporary names differ, and the bound on them leaves enough for a batch:
\* the program counts on until it finds a free one.
ASSUME TempAssumption ==
    /\ TempNames \in Seq(Range(TempNames))
    /\ \A i, j \in DOMAIN TempNames : SameName(TempNames[i], TempNames[j]) => i = j
    /\ \A names \in Starts :
          Cardinality({k \in DOMAIN TempNames :
                          \A n \in names \cup Names : ~ SameName(n, TempNames[k])}) >= MaxBatch

VARIABLES
    dir,      \* the folder
    existing, \* its names when the dialog opened
    plan,     \* [old, new, status] of each source, in the panel's order
    steps,    \* the steps still to come
    parked,   \* atTemp: [temp, original] of the items under a temporary name
    phase,    \* "form", "preview", "step", "attempt", "error", "putBack", "journal", "end"
    outcome,  \* what RenameItems counts
    skipAll,  \* haveErrorBlanket
    journal,  \* [cleared, items]: what the batch does to the undo journal
    faults, others

vars == <<dir, existing, plan, steps, parked, phase, outcome, skipAll, journal, faults, others>>

Exists(n) == \E m \in DOMAIN dir : SameName(m, n)
Spelled(n) == CHOOSE m \in DOMAIN dir : SameName(m, n)

-----------------------------------------------------------------------------
(* The plan.                                                                  *)

IsRename(status) == status \in {"Ok", "CaseOnly"}
Renames(p) == {i \in DOMAIN p : IsRename(p[i].status)}

FirstStatus(old, new) ==
    CASE new = old -> "Unchanged"
      [] new = Invalid -> "Invalid"
      [] OTHER -> IF SameName(new, old) THEN "CaseOnly" ELSE "Ok"

\* Two items of the batch would get the same name; one that keeps its name counts.
Duplicated(p, i) ==
    /\ IsRename(p[i].status)
    /\ \E j \in DOMAIN p \ {i} : p[j].status # "Invalid" /\ SameName(p[i].new, p[j].new)

\* The new name is that of an item outside the batch.
Clashes(p, i) ==
    /\ p[i].status = "Ok"
    /\ \E n \in existing : SameName(n, p[i].new)
    /\ \A j \in DOMAIN p : ~ SameName(p[j].old, p[i].new)

BuildRenamePlan(sources, wanted) ==
    LET p == [i \in DOMAIN sources |-> [old |-> sources[i], new |-> wanted[i],
                                       status |-> FirstStatus(sources[i], wanted[i])]]
    IN  [i \in DOMAIN p |-> IF Duplicated(p, i) THEN [p[i] EXCEPT !.status = "Duplicate"]
                            ELSE IF Clashes(p, i) THEN [p[i] EXCEPT !.status = "Clash"] ELSE p[i]]

HasProblems(p) == \E i \in DOMAIN p : p[i].status \in {"Invalid", "Duplicate", "Clash"}

-----------------------------------------------------------------------------
(* The order of the steps.                                                    *)

Waiting(item) == [current |-> item.old, target |-> item.new, original |-> item.old, atTemp |-> FALSE]
Step(p) == [from |-> p.current, to |-> p.target, original |-> p.original,
            toTemp |-> FALSE, fromTemp |-> p.atTemp]

\* A likely slip: names are compared as they are spelled.
BlockedAsSpelled(pending, i) ==
    \E j \in DOMAIN pending \ {i} : pending[j].current = pending[i].target
\* Another item still has the name; a change of case is never blocked.
Blocked(pending, i) ==
    /\ ~ SameName(pending[i].target, pending[i].current)
    /\ \E j \in DOMAIN pending \ {i} : SameName(pending[j].current, pending[i].target)

\* The entries of s at the positions `kept`, in their order.
Only(s, kept) ==
    LET upTo[n \in 0..Len(s)] ==
            IF n = 0 THEN << >> ELSE IF n \in kept THEN Append(upTo[n - 1], s[n]) ELSE upTo[n - 1]
    IN  upTo[Len(s)]

FreeTemps(p) ==
    LET Taken(t) == \/ \E n \in existing : SameName(n, t)
                    \/ \E i \in DOMAIN p : p[i].new # Invalid /\ SameName(p[i].new, t)
    IN  Only(TempNames, {k \in DOMAIN TempNames : ~ Taken(TempNames[k])})

\* The order so far: what is pending, where the pass is, the temporary names
\* still free, and the steps given out.
Unblocked(o) == {i \in DOMAIN o.pending : ~ Blocked(o.pending, i)}
GiveOut(o, i) == [pending |-> RemoveAt(o.pending, i), at |-> i, temps |-> o.temps,
                  given |-> Append(o.given, Step(o.pending[i]))]
Park(o) ==
    LET p == o.pending[1]
        temp == o.temps[1]
    IN  [pending |-> [o.pending EXCEPT ![1].current = temp, ![1].atTemp = TRUE], at |-> 1,
         temps |-> Tail(o.temps),
         given |-> Append(o.given, [from |-> p.current, to |-> temp, original |-> p.original,
                                    toTemp |-> TRUE, fromTemp |-> FALSE])]

\* Passes over what is pending, each giving out what is not blocked; when a pass
\* would give out nothing, the first item is parked under a temporary name.
Advance(o) ==
    LET ahead == {i \in Unblocked(o) : i >= o.at} IN
    IF o.pending = << >> THEN o
    ELSE IF Unblocked(o) = {} THEN Park(o)
    ELSE GiveOut(o, Min(IF ahead = {} THEN Unblocked(o) ELSE ahead))

\* No item is given out twice or parked twice: the order is complete after two
\* steps for each.
OrderRenames(p) ==
    LET renamed == Only(p, Renames(p))
        after[n \in 0..(2 * Len(renamed))] ==
            IF n = 0 THEN [pending |-> [i \in DOMAIN renamed |-> Waiting(renamed[i])], at |-> 1,
                           temps |-> FreeTemps(p), given |-> << >>]
            ELSE Advance(after[n - 1])
    IN  after[2 * Len(renamed)].given

-----------------------------------------------------------------------------
(* One rename (RenameItem): never over another item.                          *)

Renamed(from, to) == [n \in (DOMAIN dir \ {Spelled(from)}) \cup {to} |->
                         IF n = to THEN dir[Spelled(from)] ELSE dir[n]]
CanRename(from, to) == Exists(from) /\ (SameName(from, to) \/ ~ Exists(to))

Init ==
    /\ \E names \in Starts : dir = [n \in names |-> n]
    /\ existing = DOMAIN dir
    /\ plan = << >> /\ steps = << >> /\ parked = << >>
    /\ phase = "form"
    /\ outcome = [succeeded |-> 0, skipped |-> 0, cancelled |-> FALSE, stranded |-> {}]
    /\ skipAll = FALSE
    /\ journal = [cleared |-> FALSE, items |-> {}]
    /\ faults = 0 /\ others = 0

\* The form, and the preview it leads to.
FillForm ==
    /\ phase = "form"
    /\ \E batch \in {b \in SUBSET existing : Cardinality(b) \in 1..MaxBatch} :
       \E sources \in SetToSeqs(batch) :
       \E wanted \in [DOMAIN sources -> Names \cup {Invalid}] :
            plan' = BuildRenamePlan(sources, wanted)
    /\ phase' = "preview"
    /\ UNCHANGED <<dir, existing, steps, parked, outcome, skipAll, journal, faults, others>>

\* Enter on the preview; problems keep it open, and nothing to do ends it.
Confirm ==
    /\ phase = "preview" /\ ~ HasProblems(plan) /\ Renames(plan) # {}
    /\ steps' = OrderRenames(plan)
    /\ phase' = "step"
    /\ UNCHANGED <<dir, existing, plan, parked, outcome, skipAll, journal, faults, others>>

LeavePreview ==
    /\ phase = "preview"
    /\ phase' = "end"
    /\ UNCHANGED <<dir, existing, plan, steps, parked, outcome, skipAll, journal, faults, others>>

-----------------------------------------------------------------------------
(* The loop of RenameItems.                                                   *)

Now == steps[1]
IsParked(temp) == \E i \in DOMAIN parked : parked[i].temp = temp
Cancel == phase' = "putBack" /\ outcome' = [outcome EXCEPT !.cancelled = TRUE]

\* Esc is looked at before an item's first step; the step of an item that is not
\* at its temporary name is left out.
BeginStep ==
    /\ phase = "step"
    /\ \/ steps = << >> /\ phase' = "putBack" /\ UNCHANGED <<steps, outcome>>
       \/ steps # << >> /\ ~ Now.fromTemp /\ Cancel /\ UNCHANGED steps
       \/ /\ steps # << >> /\ (Now.fromTemp => IsParked(Now.from))
          /\ phase' = "attempt" /\ UNCHANGED <<steps, outcome>>
       \/ /\ steps # << >> /\ Now.fromTemp /\ ~ IsParked(Now.from)
          /\ steps' = Tail(steps) /\ UNCHANGED <<phase, outcome>>
    /\ UNCHANGED <<dir, existing, plan, parked, skipAll, journal, faults, others>>

NextStep == steps' = Tail(steps) /\ phase' = "step"
Skip == NextStep /\ outcome' = [outcome EXCEPT !.skipped = @ + 1]

\* A likely slip: an item is forgotten once its last step has been tried.
ParkedAfterTry ==
    IF Now.toTemp THEN Append(parked, [temp |-> Now.to, original |-> Now.original]) ELSE << >>
ParkedAfter ==
    IF Now.toTemp THEN Append(parked, [temp |-> Now.to, original |-> Now.original])
    ELSE Only(parked, {k \in DOMAIN parked : ~ (Now.fromTemp /\ parked[k].temp = Now.from)})

Attempt ==
    /\ phase = "attempt"
    /\ \/ /\ CanRename(Now.from, Now.to)
          /\ dir' = Renamed(Now.from, Now.to)
          /\ parked' = ParkedAfter
          /\ outcome' = IF Now.toTemp THEN outcome ELSE [outcome EXCEPT !.succeeded = @ + 1]
          /\ NextStep
          /\ UNCHANGED faults
       \/ /\ IF CanRename(Now.from, Now.to) THEN faults < MaxFaults /\ faults' = faults + 1
             ELSE UNCHANGED faults
          /\ IF skipAll THEN Skip ELSE phase' = "error" /\ UNCHANGED <<steps, outcome>>
          /\ UNCHANGED <<dir, parked>>
    /\ UNCHANGED <<existing, plan, skipAll, journal, others>>

\* RunWithRetry's question; a rename has no elevated attempt, and asks again.
AnswerError ==
    /\ phase = "error"
    /\ \/ phase' = "attempt" /\ UNCHANGED <<steps, outcome, skipAll>>
       \/ Skip /\ skipAll' \in BOOLEAN
       \/ Cancel /\ UNCHANGED <<steps, skipAll>>
    /\ UNCHANGED <<dir, existing, plan, parked, journal, faults, others>>

\* Every parked item is put back to its first name, or reported.
PutBack ==
    /\ phase = "putBack" /\ parked # << >>
    /\ LET p == parked[1] IN
       \/ /\ CanRename(p.temp, p.original)
          /\ dir' = Renamed(p.temp, p.original)
          /\ UNCHANGED <<outcome, faults>>
       \/ /\ IF CanRename(p.temp, p.original) THEN faults < MaxFaults /\ faults' = faults + 1
             ELSE UNCHANGED faults
          /\ outcome' = [outcome EXCEPT !.stranded = @ \cup {p.original}]
          /\ UNCHANGED dir
    /\ parked' = Tail(parked)
    /\ UNCHANGED <<existing, plan, steps, phase, skipAll, journal, others>>

ItemsDone ==
    /\ phase = "putBack" /\ parked = << >>
    /\ phase' = "journal"
    /\ UNCHANGED <<dir, existing, plan, steps, parked, outcome, skipAll, journal, faults, others>>

-----------------------------------------------------------------------------
(* What Ctrl+Z is told: the items that are seen to have moved, and nothing    *)
(* when a new name was an old one.                                            *)

\* A likely slip: every batch is recorded.
NothingTangled(p) == FALSE
Tangled(p) ==
    \E i \in Renames(p) :
        \/ p[i].status = "CaseOnly"
        \/ \E j \in DOMAIN p \ {i} : p[j].status = "Ok" /\ SameName(p[j].new, p[i].old)

SeenMoved == {i \in Renames(plan) : Exists(plan[i].new) /\ ~ Exists(plan[i].old)}

RecordUndo ==
    /\ phase = "journal"
    /\ journal' = [cleared |-> Tangled(plan), items |-> IF Tangled(plan) THEN {} ELSE SeenMoved]
    /\ phase' = "end"
    /\ UNCHANGED <<dir, existing, plan, steps, parked, outcome, skipAll, faults, others>>

\* Another program adds an item or removes one.
OtherProgram ==
    /\ phase \notin {"form", "end"} /\ others < MaxOthers
    /\ others' = others + 1
    /\ \/ \E n \in Names : ~ Exists(n) /\ dir' = [m \in DOMAIN dir \cup {n} |->
                                                    IF m = n THEN Other ELSE dir[m]]
       \/ \E n \in DOMAIN dir : dir' = Restrict(dir, DOMAIN dir \ {n})
    /\ UNCHANGED <<existing, plan, steps, parked, phase, outcome, skipAll, journal, faults>>

Next ==
    \/ FillForm \/ Confirm \/ LeavePreview
    \/ BeginStep \/ Attempt \/ AnswerError \/ PutBack \/ ItemsDone
    \/ RecordUndo
    \/ OtherProgram

Spec == Init /\ [][Next]_vars

-----------------------------------------------------------------------------
(* What a user relies on.                                                     *)

Has(name, item) == name \in DOMAIN dir /\ dir[name] = item

\* A batch that nothing disturbs is carried out, whatever names swap, cycle,
\* follow each other or change only their case: every item gets its new name,
\* and no item waits for a name that another one never gives up.
PlanCarriedOut ==
    phase = "journal" /\ ~ outcome.cancelled /\ faults = 0 /\ others = 0 =>
        /\ \A i \in Renames(plan) : Has(plan[i].new, plan[i].old)
        /\ outcome.succeeded = Cardinality(Renames(plan))

\* However the batch ends, an item that is still there has its old name or its
\* new one, or is reported under its temporary name (FileOps.h:190).
NoneStranded ==
    phase = "journal" =>
        \A i \in Renames(plan) : \A n \in DOMAIN dir :
            dir[n] = plan[i].old =>
                n \in {plan[i].old, plan[i].new} \/ plan[i].old \in outcome.stranded

\* What is recorded for Ctrl+Z is what was renamed: each recorded item has its
\* new name, and none that has it is missing.
UndoRecordsRenamed ==
    phase = "end" /\ others = 0 /\ ~ journal.cleared =>
        \A i \in Renames(plan) : i \in journal.items <=> Has(plan[i].new, plan[i].old)
=============================================================================
