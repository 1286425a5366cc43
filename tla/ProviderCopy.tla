---------------------------- MODULE ProviderCopy ----------------------------
(* The copy, move and delete engine over file-system providers                *)
(* (ProviderCopy.cpp), between the local disk and a connected server or       *)
(* inside that server.  The engine's recursion over a tree is a stack of      *)
(* tasks; a task makes one provider call and goes on with its answer.  The    *)
(* user answers the conflict and error questions, and may press Esc.          *)
(*                                                                            *)
(* Left out: links, byte progress, attributes and times.  The local disk is   *)
(* changed by nobody else while the operation runs.                           *)
EXTENDS RemotePanel

CONSTANTS
    Jobs,     \* the operations: [kind, from, to, sdir, tdir, items, local, server]
    NewNames  \* what the user may type for a conflict

\* A tree as an operation finds it: what it has is in folders, and no file of it
\* is what a fault or another client would leave.
IsTree(t) ==
    /\ IsFiniteSet(DOMAIN t) /\ DOMAIN t \subseteq Seq(Names)
    /\ \A p \in DOMAIN t :
          /\ t[p] \notin {Partial, Other}
          /\ p # << >> => Parent(p) = << >> \/ IsFolder(t, Parent(p))

\* Between two local folders the host uses its file engine instead.
ASSUME JobsAssumption ==
    /\ NewNames \subseteq Names
    /\ \A j \in Jobs :
          /\ j.kind \in {"Copy", "Move", "Delete"}
          /\ <<j.from, j.to>> \in {<<"local", "remote">>, <<"remote", "local">>, <<"remote", "remote">>}
          /\ j.sdir \in Seq(Names) /\ j.tdir \in Seq(Names) /\ j.items \in Seq(Names)
          /\ IsTree(j.local) /\ IsTree(j.server)

\* No job moves an item onto a folder it is in, inside one provider.  The code does
\* not refuse it (ProviderMoveItems tests only the opposite): a folder moved so is
\* merged into the one it came from, and what was copied back under its own path is
\* deleted with it.
NothingOntoItsAncestor ==
    \A j \in Jobs : j.kind = "Move" /\ j.from = j.to =>
        \A i \in DOMAIN j.items :
            LET source == Append(j.sdir, j.items[i])
                target == Append(j.tdir, j.items[i])
            IN  IsPrefix(target, source) => IsPrefix(source, target)

VARIABLES
    job,       \* the operation
    local,     \* the tree on the local disk
    todo,      \* the tasks left, the current one first
    clean,     \* of CopyNode and DeleteNode: nothing of the item was left out
    errorAll,  \* errorBlanket_
    answerAll, \* conflictBlanket_, "None" unless haveConflictBlanket_
    done,      \* outcome.succeeded, as the items counted
    agreed,    \* history: files the user agreed to overwrite
    unseen,    \* history: files there that a failed or outdated listing hid
    waived     \* history: what was in the files of agreed and unseen

sessionVars == <<server, connected, cache, pendingParts, others, touched, stray>>
vars == <<sessionVars, faults, call, local, job, todo, clean, errorAll, answerAll,
          done, agreed, unseen, waived>>

-----------------------------------------------------------------------------
(* Tasks.                                                                     *)

Task(op, from, to, dir) ==
    [op |-> op, from |-> from, to |-> to, dir |-> dir,
     exists |-> FALSE, stage |-> Folder, then |-> "None"]

\* A file is resolved against what is there, then written or renamed.
Resolve(from, to, then) == [Task("Resolve", from, to, FALSE) EXCEPT !.then = then]

CopyNode(from, to, dir) ==
    IF dir THEN Task("Copy", from, to, TRUE) ELSE Resolve(from, to, "Write")

SameProvider == job.from = job.to
TreeOf(side) == IF side = "local" THEN local ELSE server.tree
Now == Head(todo)

SideOf(t) ==
    CASE t.op \in {"Write", "Reconnect"} -> "remote"
      [] t.op \in {"Look", "Resolve", "Copy", "Mkdir"} -> job.to
      [] OTHER -> job.from

\* StreamFile takes the file from the server first, unless it is local or staged.
Downloads(t) == job.from = "remote" /\ t.stage = Folder

CallOf(t) ==
    CASE t.op = "Item" -> NewCall("Stat", t.from, t.to, Folder)
      [] t.op \in {"Look", "Resolve", "Copy"} -> NewCall("Stat", t.to, t.to, Folder)
      [] t.op = "Mkdir" -> NewCall("Mkdir", t.to, t.to, Folder)
      [] t.op = "Kids" \/ (t.op = "Delete" /\ t.dir) -> NewCall("List", t.from, t.to, Folder)
      [] t.op = "Remove" \/ (t.op = "Delete" /\ ~ t.dir) -> NewCall("Delete", t.from, t.to, Folder)
      [] t.op = "Rename" /\ t.exists -> NewCall("Delete", t.to, t.to, Folder)
      [] t.op = "Rename" /\ ~ t.exists -> NewCall("Rename", t.from, t.to, Folder)
      [] t.op = "Write" /\ Downloads(t) -> NewCall("Download", t.from, t.to, Folder)
      [] t.op = "Write" /\ ~ Downloads(t) ->
            NewCall("Upload", t.to, t.to, IF job.from = "local" THEN local[t.from] ELSE t.stage)
      [] t.op = "Reconnect" -> NewCall("Reconnect", t.to, t.to, Folder)

-----------------------------------------------------------------------------
(* A provider call of the current task: the session takes it, or the local    *)
(* disk answers at once (LocalProvider.cpp).                                  *)

LocalCan(c) ==
    CASE c.op = "Stat" -> c.path \in DOMAIN local
      [] c.op = "List" -> IsFolder(local, c.path)
      [] c.op = "Mkdir" -> IsFree(local, c.path)
      [] c.op = "Delete" -> c.path \in DOMAIN local /\ Children(local, c.path) = {}

LocalAfter(c) ==
    CASE c.op = "Mkdir" -> With(local, c.path, Folder)
      [] c.op = "Delete" -> Without(local, c.path)
      [] OTHER -> local

LocalFound(c) ==
    CASE c.op = "List" -> Listing(local, c.path)
      [] c.op = "Stat" -> [p \in {c.path} |-> IsFolder(local, p)]
      [] OTHER -> << >>

LocalCall(c) ==
    \/ /\ LocalCan(c)
       /\ call' = [c EXCEPT !.step = "done", !.found = LocalFound(c)]
       /\ local' = LocalAfter(c)
       /\ UNCHANGED faults
    \/ /\ ~ LocalCan(c)
       /\ call' = [c EXCEPT !.step = "done", !.st = "NotFound"]
       /\ UNCHANGED <<local, faults>>
    \/ /\ LocalCan(c) /\ faults < MaxFaults
       /\ faults' = faults + 1
       /\ call' = [c EXCEPT !.step = "done", !.st = "Failed", !.blind = TRUE]
       /\ UNCHANGED local

\* What is decided without a provider call.
Decided(t) ==
    \/ t.op \in {"Drop", "End"}
    \/ t.op = "Remove" /\ ~ clean
    \/ t.op = "Copy" /\ SameProvider /\ IsPrefix(t.from, t.to)
    \/ t.op = "Write" /\ SameProvider /\ t.from = t.to

Call ==
    /\ todo # << >> /\ call = NoCall /\ ~ Decided(Now)
    /\ IF SideOf(Now) = "local" THEN LocalCall(CallOf(Now))
       ELSE call' = CallOf(Now) /\ UNCHANGED <<local, faults>>
    /\ UNCHANGED <<sessionVars, job, todo, clean, errorAll, answerAll, done, agreed,
                   unseen, waived>>

-----------------------------------------------------------------------------
(* Going on.                                                                  *)

asked == <<errorAll, answerAll, agreed, unseen, waived>>

\* The current task is replaced by `tasks`, or the operation stops.
Go(tasks) == todo' = tasks \o Tail(todo) /\ call' = NoCall
Stop == todo' = << >> /\ call' = NoCall

Answered(op) == todo # << >> /\ Now.op = op /\ call # NoCall /\ call.step = "done"
AnsweredOk(op) == Answered(op) /\ call.st = "Ok"
Engine == UNCHANGED <<sessionVars, job>>
Rest == UNCHANGED <<faults, local, asked>>

\* Attempt: a call that failed is asked about; an answer for all skips from then
\* on.  Retry after a lost connection reconnects, and a staged file starts over.
Attempt ==
    /\ todo # << >>
    /\ Answered(Now.op)
    /\ Now.op \in {"Item", "Mkdir", "Kids", "Delete", "Remove", "Rename", "Write"}
    /\ call.st # "Ok"
    /\ Engine
    /\ \/ call.st = "Cancelled" /\ Stop /\ UNCHANGED <<clean, errorAll>>
       \/ /\ call.st # "Cancelled"
          /\ Go(<< >>)
          /\ clean' = FALSE
          /\ errorAll' \in {errorAll, TRUE}
       \/ /\ call.st # "Cancelled" /\ ~ errorAll
          /\ \/ Stop /\ UNCHANGED errorAll
             \/ /\ Go((IF call.st = "ConnectionLost"
                       THEN <<Task("Reconnect", Now.from, Now.to, FALSE)>> ELSE << >>)
                      \o <<[Now EXCEPT !.stage = Folder]>>)
                /\ errorAll' \in BOOLEAN
          /\ UNCHANGED clean
    /\ UNCHANGED <<faults, local, answerAll, done, agreed, unseen, waived>>

Reconnected ==
    /\ Answered("Reconnect")
    /\ Go(<< >>)
    /\ Engine /\ Rest /\ UNCHANGED <<clean, done>>

\* Esc, at one of the polls of CopyNode and DeleteNode and between items.
Escape ==
    /\ todo # << >> /\ call = NoCall
    /\ Now.op \in {"Item", "Copy", "Resolve", "Delete"}
    /\ Stop
    /\ Engine /\ Rest /\ UNCHANGED <<clean, done>>

-----------------------------------------------------------------------------
(* CopyImpl, ProviderMoveItems and ProviderDeleteItems, one item.             *)

CopyThenDrop(t, dir) ==
    <<CopyNode(t.from, t.to, dir), Task("Drop", t.from, t.to, dir), Task("End", t.from, t.to, dir)>>

ItemFound ==
    /\ AnsweredOk("Item")
    /\ LET dir == call.found[Now.from]
           end == <<Task("End", Now.from, Now.to, dir)>>
       IN  \/ job.kind = "Delete" /\ Go(<<Task("Delete", Now.from, Now.to, dir)>> \o end)
           \/ job.kind = "Copy" /\ Go(<<CopyNode(Now.from, Now.to, dir)>> \o end)
           \/ /\ job.kind = "Move" /\ SameProvider
              /\ IF IsPrefix(Now.from, Now.to) THEN Go(<< >>)
                 ELSE Go(<<Task("Look", Now.from, Now.to, dir)>>)
           \/ job.kind = "Move" /\ ~ SameProvider /\ Go(CopyThenDrop(Now, dir))
    /\ clean' = TRUE
    /\ Engine /\ Rest /\ UNCHANGED done

\* A move inside a provider is a rename, unless a folder is in the way.
Looked ==
    /\ Answered("Look")
    /\ LET end == <<Task("End", Now.from, Now.to, Now.dir)>>
       IN  \/ call.st = "Cancelled" /\ Stop
           \/ /\ call.st \notin {"Ok", "Cancelled"}
              /\ Go(<<Task("Rename", Now.from, Now.to, Now.dir)>> \o end)
           \/ /\ call.st = "Ok"
              /\ IF ~ call.found[Now.to] /\ ~ Now.dir
                 THEN Go(<<Resolve(Now.from, Now.to, "Rename")>> \o end)
                 ELSE Go(CopyThenDrop(Now, Now.dir))
    /\ Engine /\ Rest /\ UNCHANGED <<clean, done>>

\* The target is deleted first, if the user agreed to replace it.
RenameDone ==
    /\ Answered("Rename")
    /\ IF Now.exists THEN call.st \in {"Ok", "NotFound"} /\ Go(<<[Now EXCEPT !.exists = FALSE]>>)
       ELSE call.st = "Ok" /\ Go(<< >>)
    /\ Engine /\ Rest /\ UNCHANGED <<clean, done>>

\* Mutant of DropAllowed: the source goes whatever was skipped.
DropAlways == TRUE

\* The source of a move goes only if everything under it was copied.
DropAllowed == clean

\* Mutant of Counted: an item with something skipped counts as done.
CountedAlways == {Now.from}

Counted == IF clean THEN {Now.from} ELSE {}

\* What needs no call: the end of an item, and what the engine refuses.
Decide ==
    /\ todo # << >> /\ call = NoCall /\ Decided(Now)
    /\ todo' = (IF Now.op = "Drop" /\ DropAllowed
                THEN <<Task("Delete", Now.from, Now.to, Now.dir)>> ELSE << >>) \o Tail(todo)
    /\ done' = done \cup (IF Now.op = "End" THEN Counted ELSE {})
    /\ clean' = (clean /\ Now.op \notin {"Copy", "Write"})
    /\ UNCHANGED call
    /\ Engine /\ Rest

-----------------------------------------------------------------------------
(* CopyNode, StreamFile and DeleteNode.                                       *)

FolderSeen ==
    /\ Answered("Copy")
    /\ \/ call.st = "Cancelled" /\ Stop /\ UNCHANGED clean
       \/ call.st = "Ok" /\ call.found[Now.to] /\ Go(<<[Now EXCEPT !.op = "Kids"]>>) /\ UNCHANGED clean
       \/ call.st = "Ok" /\ ~ call.found[Now.to] /\ Go(<< >>) /\ clean' = FALSE
       \/ /\ call.st \notin {"Ok", "Cancelled"}
          /\ Go(<<[Now EXCEPT !.op = "Mkdir"]>>) /\ UNCHANGED clean
    /\ Engine /\ Rest /\ UNCHANGED done

FolderMade ==
    /\ AnsweredOk("Mkdir")
    /\ Go(<<[Now EXCEPT !.op = "Kids"]>>)
    /\ Engine /\ Rest /\ UNCHANGED <<clean, done>>

Found == SetToSeq(DOMAIN call.found)

KidsListed ==
    /\ AnsweredOk("Kids")
    /\ Go([i \in DOMAIN Found |->
              CopyNode(Found[i], Append(Now.to, Last(Found[i])), call.found[Found[i]])])
    /\ Engine /\ Rest /\ UNCHANGED <<clean, done>>

Downloaded ==
    /\ AnsweredOk("Write") /\ call.op = "Download"
    /\ \/ /\ job.to = "remote"
          /\ Go(<<[Now EXCEPT !.stage = call.data]>>)
          /\ UNCHANGED <<local, faults>>
       \/ /\ job.to = "local" /\ ~ IsFolder(local, Now.to)
          /\ local' = With(local, Now.to, call.data)
          /\ Go(<< >>)
          /\ UNCHANGED faults
       \/ /\ job.to = "local"
          /\ \/ IsFolder(local, Now.to) /\ UNCHANGED faults
             \/ faults < MaxFaults /\ faults' = faults + 1
          /\ call' = [call EXCEPT !.st = "Failed"]
          /\ UNCHANGED <<todo, local>>
    /\ Engine /\ UNCHANGED <<clean, done, asked>>

Uploaded ==
    /\ AnsweredOk("Write") /\ call.op = "Upload"
    /\ Go(<< >>)
    /\ Engine /\ Rest /\ UNCHANGED <<clean, done>>

Deleted ==
    /\ todo # << >>
    /\ AnsweredOk("Delete") \/ AnsweredOk("Remove")
    /\ Go(IF call.op = "List"
          THEN [i \in DOMAIN Found |-> Task("Delete", Found[i], Found[i], call.found[Found[i]])]
               \o <<[Now EXCEPT !.op = "Remove"]>>
          ELSE << >>)
    /\ Engine /\ Rest /\ UNCHANGED <<clean, done>>

-----------------------------------------------------------------------------
(* ResolveFileConflict.                                                       *)

Proceed(exists) == Go(<<[Now EXCEPT !.op = Now.then, !.exists = exists]>>)

\* The user's answers, and whether each is for all the files to come.
Answers ==
    IF answerAll # "None" THEN {[choice |-> answerAll, all |-> TRUE]}
    ELSE [choice : {"Overwrite", "Skip", "Cancel"}, all : BOOLEAN]

\* Nothing there, or a failure "the write itself will report".
NothingSeen ==
    LET there == IsFile(TreeOf(job.to), Now.to)
        hid   == there /\ (call.blind \/ \E q \in touched : IsPrefix(q, Now.to))
    IN  /\ call.st \notin {"Ok", "Cancelled"}
        /\ Proceed(FALSE)
        /\ unseen' = IF hid THEN unseen \cup {Now.to} ELSE unseen
        /\ waived' = IF hid THEN waived \cup {TreeOf(job.to)[Now.to]} ELSE waived
        /\ UNCHANGED <<clean, answerAll, agreed>>

AnswerGiven ==
    /\ call.st = "Ok" /\ ~ call.found[Now.to]
    /\ \E a \in Answers :
          /\ answerAll' = IF a.all THEN a.choice ELSE answerAll
          /\ \/ /\ a.choice = "Overwrite" /\ Proceed(TRUE)
                /\ agreed' = agreed \cup {Now.to}
                /\ waived' = waived \cup {TreeOf(job.to)[p] : p \in {Now.to} \cap DOMAIN TreeOf(job.to)}
                /\ UNCHANGED clean
             \/ a.choice = "Skip" /\ Go(<< >>) /\ clean' = FALSE /\ UNCHANGED <<agreed, waived>>
             \/ a.choice = "Cancel" /\ Stop /\ UNCHANGED <<clean, agreed, waived>>
    /\ UNCHANGED unseen

\* Another name, which is looked up in turn; the same one skips.
NewNameGiven ==
    /\ call.st = "Ok" /\ ~ call.found[Now.to] /\ answerAll = "None"
    /\ \E n \in NewNames \ {Last(Now.to)} :
          Go(<<[Now EXCEPT !.to = Append(Parent(Now.to), n)]>>)
    /\ UNCHANGED <<clean, answerAll, agreed, unseen, waived>>

ResolveFileConflict ==
    /\ Answered("Resolve")
    /\ \/ NothingSeen \/ AnswerGiven \/ NewNameGiven
       \/ /\ call.st = "Ok" /\ call.found[Now.to]
          /\ Go(<< >>) /\ clean' = FALSE
          /\ UNCHANGED <<answerAll, agreed, unseen, waived>>
       \/ call.st = "Cancelled" /\ Stop /\ UNCHANGED <<clean, answerAll, agreed, unseen, waived>>
    /\ Engine /\ UNCHANGED <<faults, local, errorAll, done>>

-----------------------------------------------------------------------------
Init ==
    /\ job \in Jobs
    /\ local = job.local
    /\ RemoteInit(job.server)
    /\ todo = [i \in DOMAIN job.items |->
                 Task("Item", Append(job.sdir, job.items[i]), Append(job.tdir, job.items[i]), FALSE)]
    /\ clean = TRUE /\ errorAll = FALSE /\ answerAll = "None"
    /\ done = {} /\ agreed = {} /\ unseen = {} /\ waived = {}

Engines ==
    \/ Call \/ Attempt \/ Reconnected \/ Escape \/ Decide
    \/ ItemFound \/ Looked \/ RenameDone \/ FolderSeen \/ FolderMade \/ KidsListed
    \/ Downloaded \/ Uploaded \/ Deleted \/ ResolveFileConflict

OutsideEngine == <<local, job, todo, clean, errorAll, answerAll, done, agreed, unseen, waived>>

Next ==
    \/ Engines
    \/ Session /\ UNCHANGED OutsideEngine
    \/ OtherClient /\ UNCHANGED OutsideEngine
    \/ todo = << >> /\ FsClose /\ UNCHANGED OutsideEngine

Spec == Init /\ [][Next]_vars

-----------------------------------------------------------------------------
(* Properties.                                                                *)

ContentsOf(tree) == {tree[p] : p \in DOMAIN tree}

\* What the operation reads: the files under the items, as they were.
SourceTree == IF job.from = "local" THEN job.local ELSE job.server
UnderItem(p, i) == IsPrefix(Append(job.sdir, i), p)
SourceFiles == {p \in DOMAIN SourceTree : IsFile(SourceTree, p)
                                          /\ \E i \in Range(job.items) : UnderItem(p, i)}

\* Whatever fails, is cancelled, lost, retried or skipped, a file that is copied
\* or moved is complete somewhere, at its source or under a target name, unless
\* it was later written over with the user's consent (or unseen, below).
MoveKeepsContent ==
    job.kind # "Delete" =>
        \A p \in SourceFiles :
            SourceTree[p] \in ContentsOf(local) \cup ContentsOf(server.tree) \cup waived

\* An item counted as succeeded was copied in full, and a moved one is gone from
\* its source but for what another client put there.
SuccessMeansDone ==
    \A p \in SourceFiles, s \in done :
        IsPrefix(s, p) =>
            /\ job.kind # "Delete" =>
                 SourceTree[p] \in waived \cup ContentsOf(Restrict(TreeOf(job.to),
                     {q \in DOMAIN TreeOf(job.to) : IsPrefix(job.tdir, q)}))
            /\ job.kind # "Copy" => p \notin DOMAIN TreeOf(job.from) \/ TreeOf(job.from)[p] = Other

\* A move takes its own source away, which inside one provider may lie in the
\* folder it goes to.
TakesAway(p) ==
    /\ SameProvider /\ todo # << >>
    /\ \E i \in Range(job.items) : UnderItem(p, i)
    /\ IsPrefix(Now.from, p)
    /\ Now.op \in {"Delete", "Remove"} \/ (Now.op = "Rename" /\ ~ Now.exists)

\* The files a step replaces or removes at the target, but for another client's,
\* a second copy of what is being uploaded and what is moved away.
Overwritten ==
    {p \in DOMAIN TreeOf(job.to) :
        /\ IsPrefix(job.tdir, p) /\ IsFile(TreeOf(job.to), p)
        /\ TreeOf(job.to)[p] # Other
        /\ ~ TakesAway(p)
        /\ ~ (call.op = "Upload" /\ TreeOf(job.to)[p] = call.data)
        /\ p \notin DOMAIN TreeOf(job.to)' \/ TreeOf(job.to)'[p] # TreeOf(job.to)[p]}

\* A file is written over only if the user agreed, or if a listing that failed
\* or was out of date hid it.
OverwriteAsked == [][job.kind # "Delete" => Overwritten \subseteq agreed \cup unseen]_vars
=============================================================================
