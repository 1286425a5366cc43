-------------------------- MODULE ProviderMoveProofs --------------------------
(***************************************************************************)
(* Proofs about the trees an operation between two providers works on      *)
(* (ProviderCopy.tla), for any names, trees and jobs, and any number of    *)
(* failures and changes by another client.                                 *)
(*                                                                         *)
(* MoveInv says what a move relies on: what is about to be replaced was    *)
(* given up by the user or is a copy of the source, and what is about to   *)
(* be deleted was copied to where neither the deletion nor a write reaches *)
(* it; each file is where it was or at the target; and while nothing of an *)
(* item was skipped, every file of it is copied, or taken away, or a task  *)
(* that does so is still to come before its end.                           *)
(***************************************************************************)
EXTENDS ProviderCopyProofs

-----------------------------------------------------------------------------
(* What a move keeps.                                                         *)

Here == TreeOf(job.from)
There == TreeOf(job.to)

\* The answers of Stat and List, as far as they are relied upon.
StatOK ==
    call.op = "Stat" /\ call.step = "done" /\ call.st \notin {"Ok", "Cancelled"} =>
        \/ call.blind
        \/ \E q \in touched : IsPrefix(q, call.path)
        \/ call.path \notin DOMAIN TreeOf(SideOf(Now))

ListOK ==
    call.op = "List" /\ call.step = "done" /\ call.st = "Ok" =>
        /\ IsFolder(Here, call.path)
        /\ \A p \in Children(Here, call.path) : p \in DOMAIN call.found \/ Here[p] = Other

AnswerInv == todo # << >> => StatOK /\ ListOK

\* What was taken from the server is still there.
StageInv ==
    \A t \in Range(todo) : t.op = "Write" /\ t.stage # Folder =>
        t.from \in DOMAIN server.tree /\ server.tree[t.from] = t.stage

\* What a write or a rename is about to replace may go, or is a copy of the source.
TargetInv ==
    \A t \in Range(todo) :
        /\ t.op = "Write" \/ (t.op = "Rename" /\ t.exists)
        /\ t.to \in DOMAIN There
        /\ Real(There[t.to])
        => \/ There[t.to] \in waived /\ t.to \in agreed \cup unseen
           \/ /\ t.op = "Write" /\ ~ (SameProvider /\ t.from = t.to)
              /\ t.from \in DOMAIN Here /\ Here[t.from] = There[t.to]

\* A copy of c where the operation goes to, which the deletion of P and the write
\* under way leave alone.
Safe(c, P) ==
    \/ c \in waived
    \/ \E r \in DOMAIN There :
          /\ There[r] = c /\ IsPrefix(job.tdir, r)
          /\ SameProvider => ~ IsPrefix(P, r)
          /\ \A t \in Range(todo) : t.op = "Write" => t.to # r

ToCopy(p) == \E t \in Range(todo) : t.op \in CopyOps /\ IsPrefix(t.from, p)

\* While nothing was skipped, every file under an item whose source is to be
\* dropped is copied or still to be copied.
DropInv ==
    clean => \A t \in Range(todo) : t.op = "Drop" =>
        \A p \in DOMAIN Here : IsPrefix(t.from, p) /\ Real(Here[p]) => ToCopy(p) \/ Safe(Here[p], t.from)

\* What is deleted was copied.
DeleteInv ==
    job.kind # "Delete" /\ (\E t \in Range(todo) : t.op \in DeleteOps) =>
        \E P \in {Append(job.sdir, job.items[i]) : i \in DOMAIN job.items} :
            /\ \A t \in Range(todo) : t.op \in DeleteOps => IsPrefix(P, t.from)
            /\ \A p \in DOMAIN Here : IsPrefix(P, p) /\ Real(Here[p]) => Safe(Here[p], P)

TidyInv == Tidy(server.tree) /\ (job.from = "local" => Tidy(local))

-----------------------------------------------------------------------------
(* What a step does to the two trees, in terms of the current task.           *)

\* The side of a call of the session is the server.
LEMMA SessionSide ==
    ASSUME TaskInv, Session
    PROVE  /\ todo # << >> /\ CallOK /\ DOMAIN call = CallFields /\ SideOf(Now) # "local" /\ call.step # "done"
           /\ Now \in Tasks /\ Good(Now) /\ Now.op \notin {"Drop", "End"}
           /\ call.op = CallOf(Now).op /\ call.path = CallOf(Now).path /\ call.to = CallOf(Now).to
<1>1. todo # << >> /\ CallOK /\ DOMAIN call = CallFields /\ Now \in Tasks /\ Now.op \notin {"Drop", "End"}
  BY SessionIsCall, CallNow
<1>2. call.step # "done"
  BY <1>1, SessionCall
<1>3. Good(Now)
  BY <1>1, NowIs
<1>. QED  BY <1>1, <1>2, <1>3 DEF CallOK

\* The provider each task calls.
LEMMA SidesAre ==
    ASSUME NEW t
    PROVE  /\ t.op \in {"Write", "Reconnect"} => SideOf(t) = "remote"
           /\ t.op \in {"Look", "Resolve", "Copy", "Mkdir"} => SideOf(t) = job.to
           /\ t.op \in DeleteOps \cup {"Kids", "Item", "Rename"} => SideOf(t) = job.from
<1>1. t.op \in {"Write", "Reconnect"} => SideOf(t) = "remote"
  BY Zenon DEF SideOf
<1>2. t.op \in {"Look", "Resolve", "Copy", "Mkdir"} => SideOf(t) = job.to
  <2>1. CASE t.op = "Look"
    BY <2>1, Zenon DEF SideOf
  <2>2. CASE t.op = "Resolve"
    BY <2>2, Zenon DEF SideOf
  <2>3. CASE t.op = "Copy"
    BY <2>3, Zenon DEF SideOf
  <2>4. CASE t.op = "Mkdir"
    BY <2>4, Zenon DEF SideOf
  <2>. QED  BY <2>1, <2>2, <2>3, <2>4
<1>3. t.op \in DeleteOps \cup {"Kids", "Item", "Rename"} => SideOf(t) = job.from
  <2>1. CASE t.op = "Delete"
    BY <2>1, Zenon DEF SideOf
  <2>2. CASE t.op = "Remove"
    BY <2>2, Zenon DEF SideOf
  <2>3. CASE t.op = "Kids"
    BY <2>3, Zenon DEF SideOf
  <2>4. CASE t.op = "Item"
    BY <2>4, Zenon DEF SideOf
  <2>5. CASE t.op = "Rename"
    BY <2>5, Zenon DEF SideOf
  <2>. QED  BY <2>1, <2>2, <2>3, <2>4, <2>5 DEF DeleteOps
<1>. QED  BY <1>1, <1>2, <1>3

\* An upload is the writing of the current task's file: from the local disk, or
\* from what was taken from the server.
LEMMA UploadIs ==
    ASSUME TaskInv, CallOK, call.op = "Upload"
    PROVE  /\ Now.op = "Write" /\ call.path = Now.to /\ job.to = "remote" /\ ~ (SameProvider /\ Now.from = Now.to)
           /\ \/ job.from = "local" /\ call.data = local[Now.from]
              \/ job.from = "remote" /\ Now.stage # Folder /\ call.data = Now.stage
<1>1. Now \in Tasks /\ Now.op \notin {"Drop", "End"} /\ todo # << >> /\ ~ Decided(Now)
  BY CallNow DEF CallOK
<1>2. Good(Now)
  BY <1>1, NowIs
<1>3. CallOf(Now).op = "Upload"
  BY DEF CallOK
<1>4. Now.op = "Write" /\ ~ Downloads(Now)
  BY <1>1, <1>3, CallHas
<1>5. call.path = Now.to /\ call.data = (IF job.from = "local" THEN local[Now.from] ELSE Now.stage)
  BY <1>4, WriteCall
<1>6. ~ (SameProvider /\ Now.from = Now.to)
  BY <1>1, <1>4 DEF Decided
<1>7. CASE job.from = "local"
  BY <1>4, <1>5, <1>6, <1>7, JobIs DEF TaskInv
<1>8. CASE job.from # "local"
  <2>1. job.from = "remote"
    BY <1>8, JobIs DEF TaskInv
  <2>2. Now.stage # Folder
    BY <1>4, <2>1 DEF Downloads
  <2>3. job.to = "remote"
    BY <1>2, <1>4, <2>2 DEF Good
  <2>. QED  BY <1>4, <1>5, <1>6, <2>1, <2>2, <2>3
<1>. QED  BY <1>7, <1>8

\* While a call is under way, the engine waits.
LEMMA SessionNotEngine ==
    ASSUME TaskInv, Session
    PROVE  ~ Engines
<1>1. CallOK /\ DOMAIN call = CallFields /\ call.step # "done" /\ call # NoCall
  BY SessionSide, CallNow
<1>. QED  BY <1>1, EngineStep DEF Call

ServerSame == server'.tree = server.tree

ServerAdds ==
    /\ todo' = todo
    /\ \E p, c : /\ IsFree(server.tree, p) /\ p # << >> /\ server'.tree = With(server.tree, p, c)
                 /\ \/ c = Folder /\ todo # << >> /\ Now.op = "Mkdir" /\ p = Now.to /\ job.to = "remote"
                    \/ c = Other /\ touched' = touched \cup {p}
                    \/ todo # << >> /\ Now.op = "Write" /\ p = Now.to /\ c = call.data /\ call.op = "Upload" /\ CallOK

ServerDeletes ==
    /\ todo' = todo /\ todo # << >> /\ Now.op \in DeleteOps /\ job.from = "remote" /\ Now.from \in DOMAIN server.tree
    /\ IsFile(server.tree, Now.from) \/ Children(server.tree, Now.from) = {}
    /\ server'.tree = Without(server.tree, Now.from)

ServerReplaces ==
    /\ todo' = todo /\ todo # << >> /\ Now.op = "Rename" /\ Now.exists /\ SameProvider /\ Now.to \in DOMAIN server.tree
    /\ IsFile(server.tree, Now.to) \/ Children(server.tree, Now.to) = {}
    /\ server'.tree = Without(server.tree, Now.to)

ServerClears ==
    /\ todo' = todo /\ todo # << >> /\ Now.op = "Write" /\ IsFile(server.tree, Now.to) /\ CallOK /\ call.op = "Upload"
    /\ server'.tree = Without(server.tree, Now.to)

ServerRenames ==
    /\ todo' = todo /\ todo # << >> /\ Now.op = "Rename" /\ ~ Now.exists /\ SameProvider
    /\ Now.from \in DOMAIN server.tree /\ IsFree(server.tree, Now.to)
    /\ server'.tree = Renamed(server.tree, Now.from, Now.to)

\* The six things a step can do to the tree on the server.
LEMMA ServerChange ==
    ASSUME TaskInv, TreeInv, UploadInv, [Next]_vars
    PROVE  ServerSame \/ ServerAdds \/ ServerDeletes \/ ServerReplaces \/ ServerClears \/ ServerRenames
<1>0. DOMAIN server = ServerFields
  BY DEF TreeInv, ServerFields
<1>1. CASE ~ Outside
  <2>1. server' = server
    BY <1>1, StepIs, EngineStep DEF Outside, sessionVars, vars
  <2>. QED  BY <2>1 DEF ServerSame
<1>2. CASE FsClose
  BY <1>0, <1>2, ReconnectTree DEF ServerSame
<1>3. CASE OtherClient
  <2>1. PICK p \in OtherPaths : /\ IsFree(server.tree, p)
                                /\ server' = [server EXCEPT !.tree = With(server.tree, p, Other)]
                                /\ touched' = touched \cup {p}
    BY <1>3 DEF OtherClient
  <2>2. server'.tree = With(server.tree, p, Other)
    BY <1>0, <2>1, ServerWith
  <2>3. p # << >>
    BY RemoteAssumption
  <2>4. todo' = todo
    <3>1. CASE Engines
      <4>1. others' = others
        BY <3>1, EngineStep DEF sessionVars
      <4>2. server' = server
        BY <3>1, EngineStep DEF sessionVars
      <4>3. p \in DOMAIN server'.tree /\ p \notin DOMAIN server.tree
        BY <2>1, <2>2 DEF With, IsFree
      <4>. QED  BY <4>2, <4>3
    <3>2. CASE ~ Engines
      BY <3>2, StepIs DEF OutsideEngine, vars
    <3>. QED  BY <3>1, <3>2
  <2>. QED  BY <2>1, <2>2, <2>3, <2>4 DEF ServerAdds
<1>4. CASE Session
  <2>0. /\ todo # << >> /\ CallOK /\ DOMAIN call = CallFields /\ SideOf(Now) # "local" /\ call.step # "done"
        /\ Now \in Tasks /\ Good(Now) /\ Now.op \notin {"Drop", "End"}
        /\ call.op = CallOf(Now).op /\ call.path = CallOf(Now).path /\ call.to = CallOf(Now).to
    BY <1>4, SessionSide
  <2>1. todo' = todo
    <3>1. ~ Engines
      BY <1>4, SessionNotEngine
    <3>. QED  BY <3>1, StepIs DEF OutsideEngine, vars
  <2>2. call.path # << >>
    BY <2>0, CallNow DEF Named
  <2>3. CASE FsMakeDirectory /\ IsFree(server.tree, call.path) /\ server'.tree = With(server.tree, call.path, Folder)
    <3>1. CallOf(Now).op = "Mkdir"
      BY <2>0, <2>3 DEF FsMakeDirectory, At
    <3>2. Now.op = "Mkdir" /\ call.path = Now.to
      BY <2>0, <3>1, CallHas
    <3>3. job.to # "local"
      BY <2>0, <3>2, SidesAre
    <3>4. job.to = "remote"
      BY <3>3, JobIs DEF TaskInv
    <3>. QED  BY <2>0, <2>1, <2>2, <2>3, <3>2, <3>4 DEF ServerAdds
  <2>4. CASE FsDelete /\ Deletable(call.path) /\ server'.tree = Without(server.tree, call.path)
    <3>1. CallOf(Now).op = "Delete"
      BY <2>0, <2>4 DEF FsDelete, At
    <3>2. \/ Now.op \in DeleteOps /\ call.path = Now.from
          \/ Now.op = "Rename" /\ Now.exists /\ call.path = Now.to
      BY <2>0, <3>1, CallHas
    <3>3. /\ call.path \in DOMAIN server.tree
          /\ IsFile(server.tree, call.path) \/ Children(server.tree, call.path) = {}
      BY <2>4 DEF Deletable, IsFile, IsFolder
    <3>4. CASE Now.op \in DeleteOps /\ call.path = Now.from
      <4>1. job.from # "local"
        BY <2>0, <3>4, SidesAre
      <4>2. job.from = "remote"
        BY <4>1, JobIs DEF TaskInv
      <4>. QED  BY <2>0, <2>1, <2>4, <3>3, <3>4, <4>2 DEF ServerDeletes
    <3>5. CASE Now.op = "Rename" /\ Now.exists /\ call.path = Now.to
      <4>1. SameProvider
        BY <2>0, <3>5 DEF Good, Moves
      <4>. QED  BY <2>0, <2>1, <2>4, <3>3, <3>5, <4>1 DEF ServerReplaces
    <3>. QED  BY <3>2, <3>4, <3>5
  <2>5. CASE ClearTarget /\ IsFile(server.tree, call.path) /\ server'.tree = Without(server.tree, call.path)
    <3>1. call.op = "Upload"
      BY <2>5 DEF ClearTarget, At
    <3>2. Now.op = "Write" /\ call.path = Now.to
      BY <2>0, <3>1, UploadIs
    <3>. QED  BY <2>0, <2>1, <2>5, <3>1, <3>2 DEF ServerClears
  <2>6. CASE /\ PlacePart /\ HasPart(call.path) /\ IsFree(server.tree, call.path)
             /\ server'.tree = With(server.tree, call.path, server.parts[call.path])
    <3>1. call.op = "Upload"
      BY <2>6 DEF PlacePart
    <3>2. Now.op = "Write" /\ call.path = Now.to
      BY <2>0, <3>1, UploadIs
    <3>3. server.parts[call.path] = call.data
      BY <2>6, PlaceIsUpload
    <3>. QED  BY <2>0, <2>1, <2>2, <2>6, <3>1, <3>2, <3>3 DEF ServerAdds
  <2>7. CASE /\ FsRename /\ call.path \in DOMAIN server.tree /\ IsFree(server.tree, call.to)
             /\ server'.tree = Renamed(server.tree, call.path, call.to)
    <3>1. CallOf(Now).op = "Rename"
      BY <2>0, <2>7 DEF FsRename, At
    <3>2. Now.op = "Rename" /\ ~ Now.exists /\ call.path = Now.from /\ call.to = Now.to
      BY <2>0, <3>1, CallHas
    <3>3. SameProvider
      BY <2>0, <3>2 DEF Good, Moves
    <3>. QED  BY <2>0, <2>1, <2>7, <3>2, <3>3 DEF ServerRenames
  <2>. QED  BY <1>0, <1>3, <1>4, <2>3, <2>4, <2>5, <2>6, <2>7, TreeStep DEF ServerSame
<1>. QED  BY <1>1, <1>2, <1>3, <1>4 DEF Outside

LocalDeletes ==
    /\ todo' = todo /\ todo # << >> /\ Now.op \in DeleteOps /\ job.from = "local" /\ Now.from \in DOMAIN local
    /\ Children(local, Now.from) = {} /\ local' = Without(local, Now.from) /\ server' = server

LocalWrites ==
    /\ todo # << >> /\ Now.op = "Write" /\ job.to = "local" /\ ~ IsFolder(local, Now.to) /\ server' = server
    /\ IsFile(server.tree, Now.from) /\ call.data = server.tree[Now.from]
    /\ local' = With(local, Now.to, call.data) /\ Went({})

LocalAdds ==
    /\ todo' = todo /\ job.to = "local" /\ server' = server
    /\ \E p : IsFree(local, p) /\ local' = With(local, p, Folder)

\* The four things a step can do to the local tree.
LEMMA LocalChange ==
    ASSUME TaskInv, TreeInv, UploadInv, [Next]_vars
    PROVE  local' = local \/ LocalAdds \/ LocalDeletes \/ LocalWrites
<1>1. CASE /\ Call /\ SideOf(Now) = "local" /\ CallOf(Now).op = "Mkdir" /\ LocalCan(CallOf(Now))
           /\ local' = With(local, CallOf(Now).path, Folder)
  <2>1. todo' = todo /\ Now \in Tasks /\ Now.op \notin {"Drop", "End"} /\ server' = server
    BY <1>1, CallBegins DEF sessionVars
  <2>2. Now.op = "Mkdir"
    BY <1>1, <2>1, CallHas
  <2>3. job.to = "local"
    BY <1>1, <2>2, SidesAre
  <2>4. IsFree(local, CallOf(Now).path)
    <3>1. PICK c : c = CallOf(Now)
      OBVIOUS
    <3>2. c.op = "Mkdir" /\ LocalCan(c)
      BY <1>1, <3>1
    <3>3. IsFree(local, c.path)
      BY <3>2, Zenon DEF LocalCan
    <3>. QED  BY <3>1, <3>3
  <2>. QED  BY <1>1, <2>1, <2>3, <2>4 DEF LocalAdds
<1>2. CASE /\ Call /\ SideOf(Now) = "local" /\ CallOf(Now).op = "Delete" /\ LocalCan(CallOf(Now))
           /\ local' = Without(local, CallOf(Now).path)
  <2>1. todo' = todo /\ Now \in Tasks /\ Now.op \notin {"Drop", "End"} /\ todo # << >> /\ server' = server
    BY <1>2, CallBegins DEF sessionVars
  <2>2. Good(Now)
    BY <2>1, NowIs
  <2>3. Now.op \in DeleteOps /\ CallOf(Now).path = Now.from
    <3>1. \/ Now.op \in DeleteOps /\ CallOf(Now).path = Now.from
          \/ Now.op = "Rename" /\ Now.exists
      BY <1>2, <2>1, CallHas
    <3>2. Now.op = "Rename" => SameProvider /\ SideOf(Now) = job.from
      BY <2>2, SidesAre DEF Good, Moves
    <3>. QED  BY <1>2, <3>1, <3>2, JobIs DEF TaskInv
  <2>4. job.from = "local"
    BY <1>2, <2>3, SidesAre
  <2>5. Now.from \in DOMAIN local /\ Children(local, Now.from) = {}
    <3>1. PICK c : c = CallOf(Now)
      OBVIOUS
    <3>2. c.op = "Delete" /\ LocalCan(c)
      BY <1>2, <3>1
    <3>3. c.path \in DOMAIN local /\ Children(local, c.path) = {}
      BY <3>2, Zenon DEF LocalCan
    <3>. QED  BY <2>3, <3>1, <3>3
  <2>. QED  BY <1>2, <2>1, <2>3, <2>4, <2>5 DEF LocalDeletes
<1>3. CASE /\ Downloaded /\ job.to = "local" /\ ~ IsFolder(local, Now.to) /\ call.data \in Whole
           /\ local' = With(local, Now.to, call.data)
  <2>1. CallOK /\ Now.op = "Write" /\ call.op = "Download" /\ todo # << >> /\ call.step = "done" /\ call.st = "Ok"
    BY <1>3, AnsweredIs DEF Downloaded, AnsweredOk
  <2>2. call.path = Now.from
    BY <2>1, WriteCall
  <2>3. IsFile(server.tree, Now.from) /\ call.data = server.tree[Now.from]
    BY <2>1, <2>2 DEF UploadInv
  <2>4. server' = server
    BY <1>3 DEF Downloaded, Engine, sessionVars
  <2>5. Went({}) \/ local' = local
    BY <1>3, DownloadedTasks
  <2>. QED  BY <1>3, <2>1, <2>3, <2>4, <2>5 DEF LocalWrites
<1>. QED  BY <1>1, <1>2, <1>3, LocalStep

-----------------------------------------------------------------------------
(* Everything stays in a folder.                                              *)

\* Everything stays in a folder at every step.
LEMMA TidyNext ==
    ASSUME TaskInv, TreeInv, UploadInv, TidyInv, [Next]_vars
    PROVE  TidyInv'
<1>0. TreeOK(server.tree) /\ TreeOK(local) /\ Tidy(server.tree) /\ (job.from = "local" => Tidy(local))
  BY DEF TreeInv, TidyInv
<1>1. job' = job
  BY StepIs, EngineStep DEF OutsideEngine, vars
<1>2. todo # << >> => Now.from \in Named /\ Now.to \in Named /\ Good(Now)
  BY NowIs DEF Tasks
<1>3. Tidy(server'.tree)
  <2>1. CASE ServerSame
    BY <1>0, <2>1 DEF ServerSame
  <2>2. CASE ServerAdds
    <3>1. PICK p, c : IsFree(server.tree, p) /\ server'.tree = With(server.tree, p, c)
      BY <2>2 DEF ServerAdds
    <3>2. Tidy(With(server.tree, p, c))
      BY <1>0, <3>1, WithTidy
    <3>. QED  BY <3>1, <3>2
  <2>3. ASSUME NEW p \in DOMAIN server.tree, p # << >>, IsFile(server.tree, p) \/ Children(server.tree, p) = {},
               server'.tree = Without(server.tree, p)
        PROVE  Tidy(server'.tree)
    <3>1. Tidy(Without(server.tree, p))
      BY <1>0, <2>3, WithoutTidy DEF TreeOK, Path
    <3>. QED  BY <2>3, <3>1
  <2>4. CASE ServerDeletes
    BY <1>2, <2>3, <2>4 DEF ServerDeletes, Named
  <2>5. CASE ServerReplaces
    BY <1>2, <2>3, <2>5 DEF ServerReplaces, Named
  <2>6. CASE ServerClears
    BY <1>2, <2>3, <2>6 DEF ServerClears, Named, IsFile
  <2>7. CASE ServerRenames
    <3>1. ~ IsPrefix(Now.from, Parent(Now.to))
      BY <1>2, <2>7 DEF ServerRenames, Good, Moves
    <3>2. Now.from \in DOMAIN server.tree /\ IsFree(server.tree, Now.to) /\ server'.tree = Renamed(server.tree, Now.from, Now.to)
          /\ Now.from # << >> /\ Now.to \in Seq(Names) /\ Now.to # << >> /\ DOMAIN server.tree \subseteq Seq(Names)
      BY <1>0, <1>2, <2>7 DEF ServerRenames, Named, Path, TreeOK
    <3>3. Tidy(Renamed(server.tree, Now.from, Now.to))
      BY <1>0, <3>1, <3>2, RenamedKeeps
    <3>. QED  BY <3>2, <3>3
  <2>. QED  BY <2>1, <2>2, <2>4, <2>5, <2>6, <2>7, ServerChange
<1>4. ASSUME job.from = "local" PROVE Tidy(local')
  <2>0. job.to # "local"
    BY <1>4, JobIs DEF TaskInv
  <2>1. CASE local' = local
    BY <1>0, <1>4, <2>1
  <2>2. CASE LocalDeletes
    <3>1. Now.from \in DOMAIN local /\ Children(local, Now.from) = {} /\ local' = Without(local, Now.from) /\ Now.from # << >>
      BY <1>2, <2>2 DEF LocalDeletes, Named
    <3>2. Tidy(Without(local, Now.from))
      BY <1>0, <1>4, <3>1, WithoutTidy DEF TreeOK, Path
    <3>. QED  BY <3>1, <3>2
  <2>. QED  BY <2>0, <2>1, <2>2, LocalChange DEF LocalAdds, LocalWrites
<1>. QED  BY <1>1, <1>3, <1>4 DEF TidyInv, Tidy, IsFolder

\* A rename takes what is under the old path to the new one, where nothing was, and
\* leaves the rest.
LEMMA RenameMoves ==
    ASSUME TaskInv, TreeInv, TidyInv, ServerRenames
    PROVE  /\ \A p \in DOMAIN server.tree : ~ IsPrefix(Now.to, p)
           /\ \A p \in DOMAIN server.tree :
                 \/ IsPrefix(Now.from, p)
                 \/ p \in DOMAIN server'.tree /\ server'.tree[p] = server.tree[p]
           /\ \A p \in DOMAIN server.tree : IsPrefix(Now.from, p) =>
                 \E x \in DOMAIN server'.tree : server'.tree[x] = server.tree[p] /\ IsPrefix(Now.to, x)
           /\ \A p \in DOMAIN server'.tree :
                 \/ IsPrefix(Now.to, p)
                 \/ ~ IsPrefix(Now.from, p) /\ p \in DOMAIN server.tree /\ server'.tree[p] = server.tree[p]
<1>1. /\ todo # << >> /\ Now.op = "Rename" /\ Now.from \in DOMAIN server.tree /\ IsFree(server.tree, Now.to)
      /\ server'.tree = Renamed(server.tree, Now.from, Now.to)
  BY DEF ServerRenames
<1>2. Now \in Tasks /\ Good(Now)
  BY <1>1, NowIs
<1>3. /\ ~ IsPrefix(Now.from, Parent(Now.to)) /\ Now.from # << >> /\ Now.from \in Seq(Names)
      /\ Now.to \in Seq(Names) /\ Now.to # << >>
      /\ DOMAIN server.tree \subseteq Seq(Names) /\ IsFiniteSet(DOMAIN server.tree) /\ Tidy(server.tree)
  BY <1>1, <1>2 DEF Good, Moves, Tasks, Named, Path, TreeInv, TreeOK, TidyInv
<1>4. \A p \in DOMAIN server.tree : ~ IsPrefix(Now.to, p)
  BY <1>1, <1>3, OnTheWay DEF IsFree
<1>5. \A p : ~ IsPrefix(Now.from, p) /\ ~ IsPrefix(Now.to, p) /\ p \in DOMAIN server.tree =>
         p \in DOMAIN server'.tree /\ server'.tree[p] = server.tree[p]
  BY <1>1, <1>3, RenamedIs
<1>6. \A p \in DOMAIN server.tree : IsPrefix(Now.from, p) =>
         \E x \in DOMAIN server'.tree : server'.tree[x] = server.tree[p] /\ IsPrefix(Now.to, x)
  BY <1>1, <1>3, RenamedKeeps
<1>7. \A p \in DOMAIN server'.tree :
         \/ IsPrefix(Now.to, p)
         \/ ~ IsPrefix(Now.from, p) /\ p \in DOMAIN server.tree /\ server'.tree[p] = server.tree[p]
  BY <1>1, <1>3, RenamedGone
<1>. QED  BY <1>4, <1>5, <1>6, <1>7

-----------------------------------------------------------------------------
(* The answers of Stat and List.                                              *)

\* The session says "not there" only of what is not there, is unknown, or could not be asked.
LEMMA StatSession ==
    ASSUME TaskInv, TreeInv, CacheInv, UploadInv, Session, todo' = todo, job' = job
    PROVE  StatOK'
<1>0. /\ todo # << >> /\ CallOK /\ DOMAIN call = CallFields /\ SideOf(Now) # "local" /\ call.step # "done"
      /\ call.path \in Named /\ DOMAIN server = ServerFields
  BY SessionSide, CallNow DEF TreeInv, ServerFields
<1>1. SameCall
  BY <1>0, SessionCall
<1>2. SUFFICES ASSUME call.op = "Stat", call'.step = "done", call'.st \notin {"Ok", "Cancelled"}, ~ call'.blind,
                      ~ (\E q \in touched' : IsPrefix(q, call.path))
               PROVE  call.path \notin DOMAIN server'.tree
  <2>1. SideOf(Now)' # "local"
    BY <1>0, CallFrame
  <2>. QED  BY <1>1, <1>2, <2>1 DEF StatOK, SameCall, TreeOf
<1>3. call.path \in Seq(Names) /\ call.path # << >> /\ Parent(call.path) \in Seq(Names)
      /\ Len(call.path) = Len(Parent(call.path)) + 1
  BY <1>0, ParentIs DEF Named, Path
<1>4. CASE FsStatCached
  <2>1. server' = server /\ touched' = touched /\ cache.dir = Parent(call.path)
    BY <1>4 DEF FsStatCached
  <2>2. call.path \notin DOMAIN cache.list
    BY <1>0, <1>2, <1>4, StatCachedCall
  <2>3. ASSUME call.path \in DOMAIN server.tree PROVE FALSE
    <3>1. call.path \in Children(server.tree, cache.dir) /\ cache.dir # NoPath
      BY <1>3, <2>1, <2>3, RemoteAssumption DEF Children
    <3>2. call.path \in Seen(cache, server.tree)
      BY <3>1 DEF Seen
    <3>3. ~ Unknown(call.path) /\ ~ Cleared(call.path)
      BY <1>2, <2>1 DEF Unknown, Cleared
    <3>. QED  BY <2>2, <3>2, <3>3 DEF CacheInv, Agrees
  <2>. QED  BY <2>1, <2>3
<1>5. CASE ListFolder
  <2>1. server' = server
    BY <1>5 DEF ListFolder, Result
  <2>2. call'.st = (IF call.op = "Stat" /\ Mine = << >> THEN "NotFound" ELSE "Ok")
    BY <1>0, <1>2, <1>5, ListFolderCall
  <2>3. Mine = << >>
    BY <1>2, <2>2
  <2>4. ListedDir = Parent(call.path)
    BY <1>2 DEF ListedDir
  <2>5. DOMAIN Mine = Children(server.tree, Parent(call.path)) \cap {call.path}
    <3>1. DOMAIN Listing(server.tree, ListedDir) = Children(server.tree, ListedDir)
      BY DEF Listing
    <3>. QED  BY <1>2, <2>4, <3>1 DEF Mine, Restrict
  <2>6. DOMAIN << >> = {}
    OBVIOUS
  <2>7. call.path \notin Children(server.tree, Parent(call.path))
    BY <2>3, <2>5, <2>6
  <2>. QED  BY <1>3, <2>1, <2>7 DEF Children
<1>6. CASE OfferReconnect
  BY <1>0, <1>2, <1>6, OfferCall
<1>. QED  BY <1>0, <1>2, <1>4, <1>5, <1>6, SessionOps

\* The session lists everything in a folder.
LEMMA ListSession ==
    ASSUME TaskInv, TreeInv, Session, todo' = todo, job' = job, local' = local
    PROVE  ListOK'
<1>0. /\ todo # << >> /\ CallOK /\ DOMAIN call = CallFields /\ SideOf(Now) # "local" /\ call.step # "done"
      /\ Now \in Tasks /\ Now.op \notin {"Drop", "End"} /\ call.op = CallOf(Now).op
  BY SessionSide
<1>1. SameCall
  BY <1>0, SessionCall
<1>2. SUFFICES ASSUME call.op = "List", call'.step = "done", call'.st = "Ok"
               PROVE  /\ IsFolder(Here', call.path)
                      /\ \A p \in Children(Here', call.path) : p \in DOMAIN call'.found \/ Here'[p] = Other
  BY <1>1 DEF ListOK, SameCall, IsFolder, Children
<1>3. Now.op \in {"Kids", "Delete"}
  BY <1>0, <1>2, CallHas
<1>4. job.from # "local"
  BY <1>0, <1>3, SidesAre DEF DeleteOps
<1>5. Here' = server'.tree
  BY <1>4 DEF Here, TreeOf
<1>6. CASE ListFolder
  <2>1. server' = server
    BY <1>6 DEF ListFolder, Result
  <2>2. call'.found = Mine /\ IsFolder(server.tree, ListedDir)
    BY <1>0, <1>2, <1>6, ListFolderCall
  <2>3. ListedDir = call.path /\ Mine = Listing(server.tree, call.path)
    BY <1>2 DEF ListedDir, Mine
  <2>4. DOMAIN call'.found = Children(server.tree, call.path)
    BY <2>2, <2>3 DEF Listing
  <2>. QED  BY <1>5, <2>1, <2>2, <2>3, <2>4
<1>7. CASE FsStatCached \/ OfferReconnect
  BY <1>0, <1>2, <1>7, OfferCall DEF FsStatCached, At
<1>. QED  BY <1>0, <1>2, <1>6, <1>7, SessionOps

\* No step of the engine ends a call with a wrong answer.
LEMMA AnswerEngine ==
    ASSUME TaskInv, TreeInv, UploadInv, Engines
    PROVE  StatOK' /\ ListOK'
<1>1. CASE call' = NoCall
  BY <1>1, NoCallIs DEF StatOK, ListOK
<1>2. CASE WriteFails
  <2>1. CallOK /\ Now.op = "Write" /\ todo # << >>
    BY <1>2, AnsweredIs DEF WriteFails, Downloaded, AnsweredOk
  <2>2. DOMAIN call = CallFields /\ call' = [call EXCEPT !.st = "Failed"]
    BY <1>2, <2>1, CallNow DEF WriteFails
  <2>3. call'.op = call.op
    BY <2>2 DEF CallFields
  <2>4. call'.op \in {"Download", "Upload"}
    BY <2>1, <2>3, WriteCall
  <2>. QED  BY <2>4 DEF StatOK, ListOK
<1>3. CASE Call
  <2>0. /\ job' = job /\ todo' = todo /\ todo # << >> /\ Now \in Tasks /\ Now.op \notin {"Drop", "End"}
        /\ \/ call' = CallOf(Now)
           \/ SideOf(Now) = "local" /\ Now.op # "Write" /\ LocalCall(CallOf(Now))
    BY <1>3, CallBegins
  <2>1. CASE call' = CallOf(Now)
    <3>1. call'.step = "start"
      BY <2>0, <2>1, CallHas
    <3>. QED  BY <3>1 DEF StatOK, ListOK
  <2>2. CASE SideOf(Now) = "local" /\ Now.op # "Write" /\ LocalCall(CallOf(Now))
    <3>1. PICK c : c = CallOf(Now)
      OBVIOUS
    <3>2. DOMAIN c = CallFields /\ c.st = "Ok" /\ c.found = << >> /\ c.path \in Named
          /\ (c.op = "List" => Now.op \in {"Kids", "Delete"})
      BY <2>0, <3>1, CallHas
    <3>3. /\ call'.op = c.op /\ call'.path = c.path
          /\ \/ LocalCan(c) /\ call'.st = "Ok" /\ call'.found = LocalFound(c) /\ local' = LocalAfter(c)
             \/ ~ LocalCan(c) /\ call'.st = "NotFound" /\ call'.found = << >> /\ local' = local
             \/ LocalCan(c) /\ call'.st = "Failed" /\ call'.found = << >> /\ call'.blind /\ local' = local
      BY <2>2, <3>1, <3>2, LocalAnswer
    <3>4. SideOf(Now)' = "local"
      BY <2>0, <2>2, CallFrame
    <3>5. StatOK'
      <4>1. SUFFICES ASSUME call'.op = "Stat", call'.st \notin {"Ok", "Cancelled"}, ~ call'.blind
                     PROVE  call'.path \notin DOMAIN local'
        BY <3>4 DEF StatOK, TreeOf
      <4>2. ~ LocalCan(c) /\ local' = local /\ c.op = "Stat"
        BY <3>3, <4>1
      <4>3. c.path \notin DOMAIN local
        BY <4>2, Zenon DEF LocalCan
      <4>. QED  BY <3>3, <4>2, <4>3
    <3>6. ListOK'
      <4>1. SUFFICES ASSUME call'.op = "List", call'.st = "Ok"
                     PROVE  /\ IsFolder(Here', call'.path)
                            /\ \A p \in Children(Here', call'.path) : p \in DOMAIN call'.found \/ Here'[p] = Other
        BY DEF ListOK, IsFolder, Children
      <4>2. LocalCan(c) /\ call'.found = LocalFound(c) /\ local' = LocalAfter(c) /\ c.op = "List"
        BY <3>3, <4>1
      <4>3. IsFolder(local, c.path)
        BY <4>2, Zenon DEF LocalCan
      <4>4. local' = local
        BY <4>2, LocalAfterIs
      <4>5. LocalFound(c) = Listing(local, c.path)
        BY <3>2, <4>2, LocalFoundIs DEF TreeInv
      <4>6. job.from = "local"
        BY <2>2, <3>2, <4>2, SidesAre DEF DeleteOps
      <4>7. Here' = local'
        BY <2>0, <4>6 DEF Here, TreeOf
      <4>8. DOMAIN call'.found = Children(local, c.path)
        BY <4>2, <4>5 DEF Listing
      <4>. QED  BY <3>3, <4>3, <4>4, <4>7, <4>8
    <3>. QED  BY <3>5, <3>6
  <2>. QED  BY <2>0, <2>1, <2>2
<1>. QED  BY <1>1, <1>2, <1>3, EngineStep

\* What another client adds makes an answer old, not wrong about the source.
LEMMA AnswerOther ==
    ASSUME TaskInv, TreeInv, AnswerInv, todo # << >>, OtherClient, todo' = todo, job' = job, local' = local
    PROVE  StatOK' /\ ListOK'
<1>0. call' = call /\ SideOf(Now)' = SideOf(Now) /\ DOMAIN server = ServerFields
  BY CallFrame DEF OtherClient, TreeInv, ServerFields
<1>1. PICK p \in OtherPaths : /\ IsFree(server.tree, p) /\ touched' = touched \cup {p}
                              /\ server' = [server EXCEPT !.tree = With(server.tree, p, Other)]
  BY DEF OtherClient
<1>2. server'.tree = With(server.tree, p, Other)
  BY <1>0, <1>1, ServerWith
<1>3. IsPrefix(p, p)
  BY PrefixRefl, RemoteAssumption
<1>4. /\ DOMAIN server'.tree = DOMAIN server.tree \cup {p} /\ server'.tree[p] = Other
      /\ \A q \in DOMAIN server.tree : server'.tree[q] = server.tree[q]
  BY <1>1, <1>2 DEF With, IsFree
<1>5. StatOK'
  <2>1. SUFFICES ASSUME call.op = "Stat", call.step = "done", call.st \notin {"Ok", "Cancelled"}, ~ call.blind,
                        ~ (\E q \in touched' : IsPrefix(q, call.path))
                 PROVE  call.path \notin DOMAIN TreeOf(SideOf(Now))'
    BY <1>0 DEF StatOK
  <2>2. call.path # p
    BY <1>1, <1>3, <2>1
  <2>3. call.path \notin DOMAIN TreeOf(SideOf(Now))
    BY <1>1, <2>1 DEF AnswerInv, StatOK
  <2>. QED  BY <1>0, <1>4, <2>2, <2>3 DEF TreeOf
<1>6. ListOK'
  <2>1. SUFFICES ASSUME call.op = "List", call.step = "done", call.st = "Ok"
                 PROVE  /\ IsFolder(Here', call.path)
                        /\ \A x \in Children(Here', call.path) : x \in DOMAIN call.found \/ Here'[x] = Other
    BY <1>0 DEF ListOK, IsFolder, Children
  <2>2. /\ IsFolder(Here, call.path)
        /\ \A x \in Children(Here, call.path) : x \in DOMAIN call.found \/ Here[x] = Other
    BY <2>1 DEF AnswerInv, ListOK
  <2>3. CASE job.from = "local"
    <3>1. Here' = Here
      BY <2>3 DEF Here, TreeOf
    <3>. QED  BY <2>2, <3>1
  <2>4. CASE job.from # "local"
    <3>1. Here = server.tree /\ Here' = server'.tree
      BY <2>4 DEF Here, TreeOf
    <3>. QED  BY <1>4, <2>2, <3>1 DEF IsFolder, Children
  <2>. QED  BY <2>3, <2>4
<1>. QED  BY <1>5, <1>6

\* Answers stay as good as they are relied upon.
LEMMA AnswerNext ==
    ASSUME TaskInv, TreeInv, CacheInv, UploadInv, AnswerInv, [Next]_vars
    PROVE  AnswerInv'
<1>1. CASE Engines
  BY <1>1, AnswerEngine DEF AnswerInv
<1>2. CASE Session /\ UNCHANGED OutsideEngine
  <2>1. StatOK'
    BY <1>2, StatSession DEF OutsideEngine
  <2>2. ListOK'
    BY <1>2, ListSession DEF OutsideEngine
  <2>. QED  BY <2>1, <2>2 DEF AnswerInv
<1>3. CASE OtherClient /\ UNCHANGED OutsideEngine
  <2>1. todo # << >> => StatOK' /\ ListOK'
    BY <1>3, AnswerOther DEF OutsideEngine
  <2>. QED  BY <1>3, <2>1 DEF AnswerInv, OutsideEngine
<1>4. CASE FsClose /\ todo = << >> /\ UNCHANGED OutsideEngine
  BY <1>4 DEF AnswerInv, OutsideEngine
<1>5. CASE UNCHANGED vars
  BY <1>5 DEF vars, sessionVars, AnswerInv, StatOK, ListOK, Here, TreeOf, SideOf, Now, IsFolder, Children
<1>. QED  BY <1>1, <1>2, <1>3, <1>4, <1>5, StepIs

-----------------------------------------------------------------------------
(* What a step does to contents, seen from the source and from the target.    *)

\* There is a copy of c, out of P and of what is being written, after a step.
SafeNext(c, P) ==
    \/ c \in waived'
    \/ \E r \in DOMAIN There' :
          /\ There'[r] = c /\ IsPrefix(job.tdir, r)
          /\ SameProvider => ~ IsPrefix(P, r)
          /\ \A t \in Range(todo') : t.op = "Write" => t.to # r

\* The job does not change.
LEMMA JobStays ==
    ASSUME [Next]_vars
    PROVE  job' = job
BY StepIs, EngineStep DEF OutsideEngine, vars

\* Source and target, before and after a step.
LEMMA SidesThen ==
    ASSUME TaskInv, job' = job
    PROVE  /\ job.from = "local" => Here = local /\ Here' = local' /\ There = server.tree /\ There' = server'.tree
           /\ job.from = "remote" => Here = server.tree /\ Here' = server'.tree
           /\ job.to = "remote" => There = server.tree /\ There' = server'.tree
           /\ job.to = "local" => There = local /\ There' = local' /\ job.from = "remote" /\ ~ SameProvider
           /\ job.from \in {"local", "remote"} /\ job.to \in {"local", "remote"}
           /\ job.from = "remote" /\ job.to = "remote" <=> SameProvider
<1>1. \/ job.from = "local" /\ job.to = "remote" /\ ~ SameProvider
      \/ job.from = "remote" /\ job.to = "local" /\ ~ SameProvider
      \/ job.from = "remote" /\ job.to = "remote" /\ SameProvider
  BY JobIs DEF TaskInv
<1>. QED  BY <1>1 DEF Here, There, TreeOf

\* A tree with one place changed, seen from the new tree.
LEMMA WithFrom ==
    ASSUME NEW t, NEW u, NEW q, NEW c, u = With(t, q, c)
    PROVE  /\ q \in DOMAIN u /\ u[q] = c
           /\ \A p : p # q => (p \in DOMAIN u <=> p \in DOMAIN t) /\ (p \in DOMAIN t => u[p] = t[p])
BY DEF With

\* A tree with one place taken away, seen from the new tree.
LEMMA WithoutFrom ==
    ASSUME NEW t, NEW u, NEW q, u = Without(t, q)
    PROVE  /\ q \notin DOMAIN u
           /\ \A p : p # q => (p \in DOMAIN u <=> p \in DOMAIN t) /\ (p \in DOMAIN t => u[p] = t[p])
BY DEF Without, Restrict

\* The source gains no contents but from a rename, or from a copy inside it.
LEMMA HereStep ==
    ASSUME TaskInv, TreeInv, UploadInv, [Next]_vars, NEW p \in DOMAIN Here', Real(Here'[p])
    PROVE  \/ p \in DOMAIN Here /\ Here[p] = Here'[p]
           \/ todo # << >> /\ todo' = todo /\ Now.op = "Rename"
           \/ todo # << >> /\ todo' = todo /\ Now.op = "Write" /\ SameProvider /\ p = Now.to
<1>1. job' = job
  BY JobStays
<1>2. CASE job.from = "local"
  <2>1. Here = local /\ Here' = local' /\ job.to # "local"
    BY <1>1, <1>2, SidesThen
  <2>2. CASE LocalDeletes
    <3>1. Here' = Without(Here, Now.from)
      BY <2>1, <2>2 DEF LocalDeletes
    <3>. QED  BY <3>1, WithoutFrom
  <2>. QED  BY <2>1, <2>2, LocalChange DEF LocalAdds, LocalWrites
<1>3. CASE job.from = "remote"
  <2>1. Here = server.tree /\ Here' = server'.tree /\ (job.to = "remote" => SameProvider)
    BY <1>1, <1>3, SidesThen
  <2>2. CASE ServerSame
    BY <2>1, <2>2 DEF ServerSame
  <2>3. CASE ServerAdds
    <3>1. PICK q, c : /\ server'.tree = With(server.tree, q, c)
                      /\ \/ c = Folder
                         \/ c = Other
                         \/ todo # << >> /\ Now.op = "Write" /\ q = Now.to /\ call.op = "Upload" /\ CallOK
      BY <2>3 DEF ServerAdds
    <3>0. Here' = With(Here, q, c)
      BY <2>1, <3>1
    <3>2. CASE p # q
      BY <3>0, <3>2, WithFrom
    <3>3. CASE p = q
      <4>1. Here'[p] = c
        BY <3>0, <3>3, WithFrom
      <4>2. c # Folder /\ c # Other
        BY <4>1, Marks
      <4>3. job.to = "remote"
        BY <3>1, <4>2, UploadIs
      <4>. QED  BY <2>1, <2>3, <3>1, <3>3, <4>2, <4>3 DEF ServerAdds
    <3>. QED  BY <3>2, <3>3
  <2>4. ASSUME NEW q, server'.tree = Without(server.tree, q)
        PROVE  p \in DOMAIN Here /\ Here[p] = Here'[p]
    <3>1. Here' = Without(Here, q)
      BY <2>1, <2>4
    <3>. QED  BY <3>1, WithoutFrom
  <2>5. CASE ServerDeletes \/ ServerReplaces \/ ServerClears
    BY <2>4, <2>5 DEF ServerDeletes, ServerReplaces, ServerClears
  <2>6. CASE ServerRenames
    BY <2>6 DEF ServerRenames
  <2>. QED  BY <2>2, <2>3, <2>5, <2>6, ServerChange
<1>. QED  BY <1>1, <1>2, <1>3, SidesThen

\* The target loses contents only where the current task puts a file, and where
\* it is the source too, to a delete or a rename.
LEMMA ThereStep ==
    ASSUME TaskInv, TreeInv, UploadInv, [Next]_vars, NEW r \in DOMAIN There, Real(There[r])
    PROVE  \/ r \in DOMAIN There' /\ There'[r] = There[r]
           \/ /\ todo # << >> /\ todo' = todo /\ Now.op = "Rename"
              /\ ServerRenames \/ (ServerReplaces /\ r = Now.to)
           \/ todo # << >> /\ Now.op = "Write" /\ r = Now.to /\ (ServerClears \/ LocalWrites)
           \/ todo # << >> /\ todo' = todo /\ Now.op \in DeleteOps /\ SameProvider /\ r = Now.from
<1>1. job' = job
  BY JobStays
<1>2. CASE job.to = "local"
  <2>1. There = local /\ There' = local' /\ job.from # "local"
    BY <1>1, <1>2, SidesThen
  <2>2. CASE LocalAdds
    <3>1. PICK q : IsFree(local, q) /\ local' = With(local, q, Folder)
      BY <2>2 DEF LocalAdds
    <3>2. There' = With(There, q, Folder) /\ q # r
      BY <2>1, <3>1 DEF IsFree
    <3>. QED  BY <3>2, WithFrom
  <2>3. CASE LocalWrites
    <3>1. local' = With(local, Now.to, call.data) /\ todo # << >> /\ Now.op = "Write"
      BY <2>3 DEF LocalWrites
    <3>2. There' = With(There, Now.to, call.data)
      BY <2>1, <3>1
    <3>3. CASE r # Now.to
      BY <3>2, <3>3, WithFrom
    <3>. QED  BY <2>3, <3>1, <3>3
  <2>. QED  BY <2>1, <2>2, <2>3, LocalChange DEF LocalDeletes
<1>3. CASE job.to = "remote"
  <2>1. There = server.tree /\ There' = server'.tree /\ (job.from = "remote" => SameProvider)
    BY <1>1, <1>3, SidesThen
  <2>2. CASE ServerSame
    BY <2>1, <2>2 DEF ServerSame
  <2>3. CASE ServerAdds
    <3>1. PICK q, c : IsFree(server.tree, q) /\ server'.tree = With(server.tree, q, c)
      BY <2>3 DEF ServerAdds
    <3>2. There' = With(There, q, c) /\ q # r
      BY <2>1, <3>1 DEF IsFree
    <3>. QED  BY <3>2, WithFrom
  <2>4. ASSUME NEW q, server'.tree = Without(server.tree, q), r # q
        PROVE  r \in DOMAIN There' /\ There'[r] = There[r]
    <3>1. There' = Without(There, q)
      BY <2>1, <2>4
    <3>. QED  BY <2>4, <3>1, WithoutFrom
  <2>5. CASE ServerDeletes
    BY <2>1, <2>4, <2>5 DEF ServerDeletes
  <2>6. CASE ServerReplaces \/ ServerClears
    <3>1. todo # << >> /\ server'.tree = Without(server.tree, Now.to)
      BY <2>6 DEF ServerReplaces, ServerClears
    <3>2. CASE r # Now.to
      BY <2>4, <3>1, <3>2
    <3>. QED  BY <2>6, <3>1, <3>2 DEF ServerReplaces, ServerClears
  <2>7. CASE ServerRenames
    BY <2>7 DEF ServerRenames
  <2>. QED  BY <2>2, <2>3, <2>5, <2>6, <2>7, ServerChange
<1>. QED  BY <1>1, <1>2, <1>3, SidesThen

\* What the user agreed to lose stays agreed.
LEMMA WaivedStay ==
    ASSUME [Next]_vars
    PROVE  waived \subseteq waived' /\ agreed \subseteq agreed' /\ unseen \subseteq unseen'
<1>1. CASE Engines
  <2>1. CASE ResolveFileConflict
    <3>1. CASE NothingSeen
      BY <3>1 DEF NothingSeen
    <3>2. CASE AnswerGiven
      BY <3>2 DEF AnswerGiven
    <3>3. CASE NewNameGiven
      BY <3>3 DEF NewNameGiven
    <3>. QED  BY <2>1, <3>1, <3>2, <3>3 DEF ResolveFileConflict
  <2>2. ~ ResolveFileConflict => waived' = waived /\ agreed' = agreed /\ unseen' = unseen
    BY <1>1 DEF Engines, Call, Attempt, Reconnected, Escape, Decide, ItemFound, Looked, RenameDone,
         FolderSeen, FolderMade, KidsListed, Downloaded, Uploaded, Deleted, Rest, asked
  <2>. QED  BY <2>1, <2>2
<1>. QED  BY <1>1, StepIs DEF OutsideEngine, vars

-----------------------------------------------------------------------------
(* The tasks after a step.                                                    *)

\* What is at the target of the current task may be written over.
MayGo ==
    \A r \in DOMAIN There :
        r = Now.to /\ Real(There[r]) => There[r] \in waived' /\ r \in agreed' \cup unseen'

\* What was taken from the server for a write.
Taken(t) == t.from \in DOMAIN server.tree /\ server.tree[t.from] = t.stage

\* What brings the files of an item, and what takes them away.
Brings(t) == t.op \in CopyOps \/ Moves(t)
Takes(t) == t.op \in DeleteOps \cup {"Drop"} \/ Moves(t)

\* The end of an item comes with the tasks it is to wait for.
EndFits(t) ==
    /\ Now.op \in {"Item", "Look"} /\ t.from = Now.from
    /\ job.kind # "Delete" => \E x \in Range(todo') : Brings(x) /\ x.from = t.from
    /\ job.kind # "Copy" => \E x \in Range(todo') : Takes(x) /\ x.from = t.from

\* A task after a step: it was there, it does no harm, it goes on with the
\* current one, or what it may do was asked or done before.
Fits(t) ==
    \/ t \in Later
    \/ t.op \notin DeleteOps \cup {"Write", "Rename", "Drop", "End"}
    \/ t.op = "End" /\ EndFits(t)
    \/ /\ t.op = Now.op /\ t.op \in {"Write", "Rename"} /\ t.from = Now.from /\ t.to = Now.to
       /\ (t.exists => Now.exists) /\ (t.stage = Folder \/ Taken(t))
    \/ t.op = "Rename" /\ ~ t.exists
    \/ t.op = "Drop" /\ Now.op \in {"Item", "Look"} /\ \E x \in Range(todo') : x.op \in CopyOps /\ x.from = t.from
    \/ t.op \in {"Write", "Rename"} /\ t.to = Now.to /\ Now.op = "Resolve" /\ t.stage = Folder /\ MayGo
    \/ /\ t.op \in DeleteOps
       /\ \/ job.kind = "Delete"
          \/ Now.op \in DeleteOps /\ IsPrefix(Now.from, t.from)
          \/ Now.op = "Drop" /\ clean /\ t.from = Now.from

AllFit ==
    \/ todo' = << >> \/ todo' = todo
    \/ Later \subseteq Range(todo') /\ \A t \in Range(todo') : Fits(t)

\* The tasks after a step fit if the new ones do.
LEMMA WentFits ==
    ASSUME NEW new, Went(new), \A t \in new : Fits(t)
    PROVE  AllFit
<1>1. \A t \in Later : Fits(t)
  BY DEF Fits
<1>. QED  BY <1>1 DEF AllFit, Went

\* A task as it is made.
LEMMA TaskIs ==
    ASSUME NEW op, NEW from, NEW to, NEW dir
    PROVE  /\ Task(op, from, to, dir).op = op /\ Task(op, from, to, dir).from = from
           /\ Task(op, from, to, dir).to = to /\ Task(op, from, to, dir).stage = Folder
           /\ ~ Task(op, from, to, dir).exists /\ Task(op, from, to, dir).then = "None"
BY DEF Task

\* A failed call adds only tasks that fit.
LEMMA AttemptFits ==
    ASSUME TaskInv, Attempt
    PROVE  AllFit
<1>1. /\ todo # << >> /\ Now.op # "Reconnect"
      /\ Now.op \in {"Item", "Mkdir", "Kids", "Delete", "Remove", "Rename", "Write"}
  BY DEF Attempt
<1>2. /\ Again.op = Now.op /\ Again.from = Now.from /\ Again.to = Now.to
      /\ Again.exists = Now.exists /\ Again.stage = Folder /\ Recon.op = "Reconnect"
  BY <1>1, AgainIs
<1>3. IsPrefix(Now.from, Now.from)
  BY <1>1, NowIs, PrefixRefl DEF Tasks, Named, Path
<1>4. Fits(Recon)
  BY <1>2 DEF Fits, DeleteOps
<1>5. Fits(Again)
  BY <1>1, <1>2, <1>3, Zenon DEF Fits, DeleteOps
<1>6. Went({Again}) \/ Went({Recon, Again}) \/ Went({}) => AllFit
  BY <1>4, <1>5, WentFits
<1>. QED  BY <1>6, AttemptTasks DEF AllFit

\* So do an item found and a target looked at.
LEMMA ItemFits ==
    ASSUME TaskInv, ItemFound \/ Looked
    PROVE  AllFit
<1>1. todo # << >> /\ Now.op \in {"Item", "Look"} /\ Now.from \in Named /\ Now.to \in Named
  <2>1. todo # << >> /\ Now.op \in {"Item", "Look"}
    BY DEF ItemFound, Looked, AnsweredOk, Answered
  <2>. QED  BY <2>1, NowIs DEF Tasks
<1>2. ASSUME NEW dir
      PROVE  /\ Fits(Task("Look", Now.from, Now.to, dir))
             /\ ThisEnd(dir).op = "End" /\ ThisEnd(dir).from = Now.from
             /\ ThisDrop(dir).op = "Drop" /\ ThisDrop(dir).from = Now.from
             /\ ThisDelete(dir).op = "Delete" /\ ThisDelete(dir).from = Now.from
  BY TaskIs DEF ThisEnd, ThisDrop, ThisDelete, Fits, DeleteOps
<1>3. ASSUME NEW dir PROVE ThisCopy(dir).op \in CopyOps /\ ThisCopy(dir).from = Now.from /\ Fits(ThisCopy(dir))
  <2>1. ThisCopy(dir).op \in {"Copy", "Resolve"} /\ ThisCopy(dir).from = Now.from
    BY <1>1, CopyNodeIs DEF ThisCopy
  <2>. QED  BY <2>1 DEF Fits, CopyOps, DeleteOps
<1>4. ASSUME NEW dir, NEW x \in Range(todo'), NEW z \in Range(todo'), x.from = Now.from, z.from = Now.from,
             job.kind # "Delete" => Brings(x), job.kind # "Copy" => Takes(z)
      PROVE  Fits(ThisEnd(dir))
  <2>1. EndFits(ThisEnd(dir))
    BY <1>1, <1>2, <1>4 DEF EndFits
  <2>. QED  BY <1>2, <2>1 DEF Fits
<1>5. ASSUME NEW dir, Went({ThisCopy(dir), ThisDrop(dir), ThisEnd(dir)}) PROVE AllFit
  <2>1. ThisCopy(dir) \in Range(todo') /\ ThisDrop(dir) \in Range(todo')
    BY <1>5 DEF Went
  <2>2. Brings(ThisCopy(dir)) /\ Takes(ThisDrop(dir))
    BY <1>2, <1>3 DEF Brings, Takes
  <2>3. Fits(ThisEnd(dir))
    BY <1>2, <1>3, <1>4, <2>1, <2>2
  <2>4. Fits(ThisDrop(dir))
    BY <1>1, <1>2, <1>3, <2>1 DEF Fits
  <2>. QED  BY <1>3, <1>5, <2>3, <2>4, WentFits
<1>6. CASE ItemFound
  <2>1. PICK dir \in BOOLEAN :
              \/ job.kind = "Delete" /\ Went({ThisDelete(dir), ThisEnd(dir)})
              \/ job.kind = "Copy" /\ Went({ThisCopy(dir), ThisEnd(dir)})
              \/ job.kind = "Move" /\ SameProvider /\ Went({})
              \/ job.kind = "Move" /\ SameProvider /\ ~ IsPrefix(Now.from, Now.to)
                    /\ Went({Task("Look", Now.from, Now.to, dir)})
              \/ job.kind = "Move" /\ ~ SameProvider
                    /\ Went({ThisCopy(dir), ThisDrop(dir), ThisEnd(dir)})
    BY <1>6, ItemFoundTasks
  <2>2. CASE job.kind = "Delete" /\ Went({ThisDelete(dir), ThisEnd(dir)})
    <3>1. ThisDelete(dir) \in Range(todo') /\ Takes(ThisDelete(dir)) /\ Fits(ThisDelete(dir))
      BY <1>2, <2>2 DEF Went, Takes, Fits, DeleteOps
    <3>2. Fits(ThisEnd(dir))
      BY <1>2, <1>4, <2>2, <3>1
    <3>. QED  BY <2>2, <3>1, <3>2, WentFits
  <2>3. CASE job.kind = "Copy" /\ Went({ThisCopy(dir), ThisEnd(dir)})
    <3>1. ThisCopy(dir) \in Range(todo') /\ Brings(ThisCopy(dir))
      BY <1>3, <2>3 DEF Went, Brings
    <3>2. Fits(ThisEnd(dir))
      BY <1>3, <1>4, <2>3, <3>1
    <3>. QED  BY <1>3, <2>3, <3>2, WentFits
  <2>. QED  BY <1>2, <1>5, <2>1, <2>2, <2>3, WentFits
<1>7. CASE Looked
  <2>1. ThisRename.op = "Rename" /\ ThisRename.from = Now.from /\ Fits(ThisRename) /\ Moves(ThisRename)
    BY TaskIs DEF ThisRename, Fits, Moves
  <2>2. ThisResolve.op = "Resolve" /\ ThisResolve.then = "Rename" /\ ThisResolve.from = Now.from
    BY DEF ThisResolve, Resolve, Task
  <2>3. Fits(ThisResolve) /\ Moves(ThisResolve)
    BY <2>2 DEF Fits, DeleteOps, Moves
  <2>4. ASSUME NEW x, x.from = Now.from, Moves(x), Fits(x), Went({x, ThisEnd(Now.dir)})
        PROVE  AllFit
    <3>1. x \in Range(todo') /\ Brings(x) /\ Takes(x)
      BY <2>4 DEF Went, Brings, Takes
    <3>2. Fits(ThisEnd(Now.dir))
      BY <1>4, <2>4, <3>1
    <3>. QED  BY <2>4, <3>2, WentFits
  <2>. QED  BY <1>5, <1>7, <2>1, <2>2, <2>3, <2>4, LookedTasks DEF AllFit
<1>. QED  BY <1>6, <1>7

\* So do folders made and listed.
LEMMA CopyingFits ==
    ASSUME TaskInv, FolderSeen \/ FolderMade \/ KidsListed
    PROVE  AllFit
<1>1. todo # << >>
  BY DEF FolderSeen, FolderMade, KidsListed, AnsweredOk, Answered
<1>2. CASE FolderSeen \/ FolderMade
  <2>1. ASSUME NEW op \in {"Mkdir", "Kids"} PROVE Fits([Now EXCEPT !.op = op])
    <3>1. [Now EXCEPT !.op = op].op = op
      BY <1>1, NowIs, TaskWith DEF TaskOps, CopyOps
    <3>. QED  BY <3>1 DEF Fits, DeleteOps
  <2>. QED  BY <1>2, <2>1, FolderTasks, WentFits DEF AllFit
<1>3. CASE KidsListed
  <2>1. Now.op = "Kids" /\ CallOK
    BY <1>3, AnsweredIs DEF KidsListed, AnsweredOk
  <2>2. ASSUME NEW p \in DOMAIN call.found PROVE Fits(ThisKid(p))
    <3>1. ThisKid(p).op \in {"Copy", "Resolve"}
      BY <1>1, <2>1, KidIs
    <3>. QED  BY <3>1 DEF Fits, DeleteOps
  <2>. QED  BY <1>3, <2>2, KidsTasks, WentFits
<1>. QED  BY <1>2, <1>3

\* So do a download and a rename.
LEMMA WritingFits ==
    ASSUME TaskInv, TreeInv, UploadInv, RenameDone \/ Downloaded
    PROVE  AllFit
<1>1. todo # << >> /\ Now.op \in {"Rename", "Write"}
  BY DEF RenameDone, Downloaded, AnsweredOk, Answered
<1>2. CASE RenameDone
  <2>1. PICK b \in BOOLEAN : ~ b /\ b = FALSE
    OBVIOUS
  <2>2. PICK x : x = [Now EXCEPT !.exists = FALSE]
    OBVIOUS
  <2>3. x = [Now EXCEPT !.exists = b]
    BY <2>1, <2>2
  <2>4. x.op = Now.op /\ x.exists = b
    BY <1>1, <2>3, NowIs, TaskWith
  <2>5. Fits(x)
    BY <1>1, <1>2, <2>1, <2>4 DEF Fits, RenameDone, Answered
  <2>. QED  BY <1>2, <2>2, <2>5, RenameDoneTasks, WentFits
<1>3. CASE Downloaded
  <2>1. /\ Now.op = "Write" /\ CallOK /\ call.op = "Download" /\ call.step = "done" /\ call.st = "Ok"
    BY <1>3, AnsweredIs DEF Downloaded, AnsweredOk
  <2>2. call.path = Now.from /\ IsFile(server.tree, call.path) /\ server.tree[call.path] = call.data
    BY <2>1, WriteCall DEF UploadInv
  <2>3. call.data \in Whole
    BY <2>2 DEF IsFile, TreeInv, TreeOK
  <2>4. PICK x : x = [Now EXCEPT !.stage = call.data]
    OBVIOUS
  <2>5. x.op = Now.op /\ x.from = Now.from /\ x.to = Now.to /\ x.exists = Now.exists /\ x.stage = call.data
    BY <1>1, <2>3, <2>4, NowIs, TaskWith
  <2>6. Taken(x)
    BY <2>2, <2>5 DEF Taken, IsFile
  <2>7. Fits(x)
    BY <2>1, <2>5, <2>6, Zenon DEF Fits
  <2>. QED  BY <1>3, <2>3, <2>4, <2>7, DownloadedTasks, WentFits DEF AllFit
<1>. QED  BY <1>2, <1>3

\* So do deletions.
LEMMA DeletingFits ==
    ASSUME TaskInv, Deleted \/ Decide
    PROVE  AllFit
<1>1. todo # << >>
  BY DEF Deleted, Decide
<1>2. Now.from \in Seq(Names)
  BY <1>1, NowIs DEF Tasks, Named, Path
<1>3. CASE Deleted
  <2>1. Now.op \in DeleteOps /\ CallOK
    BY <1>3, DeletedTasks
  <2>2. CASE Went({})
    BY <2>2, WentFits
  <2>3. CASE /\ Went({ThisGone(p) : p \in DOMAIN call.found} \cup {ThisRemove})
             /\ \A p \in DOMAIN call.found :
                   /\ p \in Named /\ Parent(p) = Now.from
                   /\ ThisGone(p).op = "Delete" /\ ThisGone(p).from = p
             /\ ThisRemove.op = "Remove" /\ ThisRemove.from = Now.from
    <3>1. Fits(ThisRemove)
      BY <1>2, <2>1, <2>3, PrefixRefl DEF Fits, DeleteOps
    <3>2. ASSUME NEW p \in DOMAIN call.found PROVE Fits(ThisGone(p))
      <4>0. p \in Seq(Names) /\ p # << >> /\ Parent(p) = Now.from
        BY <2>3 DEF Named, Path
      <4>1. IsPrefix(Parent(p), p)
        BY <4>0, ParentIs
      <4>2. IsPrefix(Now.from, p)
        BY <4>0, <4>1
      <4>. QED  BY <2>1, <2>3, <4>2 DEF Fits, DeleteOps
    <3>. QED  BY <2>3, <3>1, <3>2, WentFits
  <2>. QED  BY <1>3, <2>2, <2>3, DeletedTasks
<1>4. CASE Decide
  <2>1. CASE Went({})
    BY <2>1, WentFits
  <2>2. CASE /\ Now.op = "Drop" /\ clean
             /\ Went({Task("Delete", Now.from, Now.to, Now.dir)})
    <3>1. Fits(Task("Delete", Now.from, Now.to, Now.dir))
      BY <2>2, TaskIs DEF Fits, DeleteOps
    <3>. QED  BY <2>2, <3>1, WentFits
  <2>. QED  BY <1>4, <2>1, <2>2, DecideTasks
<1>. QED  BY <1>3, <1>4

\* A file is written over only if it was waived, which is asked with each step.
LEMMA PutMayGo ==
    ASSUME TaskInv, AnswerInv, ResolveFileConflict
    PROVE  \/ todo' = << >>
           \/ Go(<< >>) /\ clean' = FALSE
           \/ \E n \in NewNames : Go(<<ThisOther(n)>>)
           \/ MayGo
<1>1. todo # << >> /\ Now.op = "Resolve" /\ CallOK /\ call.step = "done"
  BY AnsweredIs DEF ResolveFileConflict
<1>2. CallOf(Now) = NewCall("Stat", Now.to, Now.to, Folder)
  BY <1>1, Zenon DEF CallOf
<1>3. call.op = "Stat" /\ call.path = Now.to
  BY <1>1, <1>2, NewCallIs DEF CallOK
<1>4. There = TreeOf(job.to) /\ TreeOf(SideOf(Now)) = There
  BY <1>1, SidesAre DEF There
<1>5. CASE NothingSeen
  <2>1. ASSUME NEW r \in DOMAIN There, r = Now.to, Real(There[r])
        PROVE  There[r] \in waived' /\ r \in agreed' \cup unseen'
    <3>1. IsFile(TreeOf(job.to), Now.to)
      BY <1>4, <2>1, Marks DEF IsFile
    <3>2. call.st \notin {"Ok", "Cancelled"}
      BY <1>5 DEF NothingSeen
    <3>3. call.blind \/ \E q \in touched : IsPrefix(q, Now.to)
      BY <1>1, <1>3, <1>4, <2>1, <3>2 DEF AnswerInv, StatOK
    <3>4. waived' = waived \cup {TreeOf(job.to)[Now.to]} /\ unseen' = unseen \cup {Now.to}
      BY <1>5, <3>1, <3>3 DEF NothingSeen
    <3>. QED  BY <1>4, <2>1, <3>4
  <2>. QED  BY <2>1 DEF MayGo
<1>6. CASE AnswerGiven
  <2>1. CASE /\ waived' = waived \cup {TreeOf(job.to)[p] : p \in {Now.to} \cap DOMAIN TreeOf(job.to)}
             /\ agreed' = agreed \cup {Now.to}
    BY <1>4, <2>1 DEF MayGo
  <2>. QED  BY <1>6, <2>1 DEF AnswerGiven, Stop
<1>7. CASE NewNameGiven
  BY <1>7 DEF NewNameGiven, ThisOther
<1>. QED  BY <1>5, <1>6, <1>7 DEF ResolveFileConflict, Stop

\* So does the answer to a conflict: what it lets go was waived or is not there.
LEMMA ResolveFits ==
    ASSUME TaskInv, AnswerInv, ResolveFileConflict
    PROVE  AllFit
<1>1. todo # << >> /\ Now.op = "Resolve" /\ Now \in Tasks /\ Good(Now)
  <2>1. todo # << >> /\ Now.op = "Resolve"
    BY DEF ResolveFileConflict, Answered
  <2>. QED  BY <2>1, NowIs
<1>2. ASSUME NEW n \in Names, ThisOther(n).op = "Resolve", Went({ThisOther(n)})
      PROVE  AllFit
  <2>1. Fits(ThisOther(n))
    BY <1>2 DEF Fits, DeleteOps
  <2>. QED  BY <1>2, <2>1, WentFits
<1>3. CASE \E n \in NewNames : Go(<<ThisOther(n)>>)
  <2>1. PICK n \in NewNames : Go(<<ThisOther(n)>>)
    BY <1>3
  <2>2. n \in Names
    BY JobsAssumption
  <2>3. PICK q : q = Append(Parent(Now.to), n)
    OBVIOUS
  <2>4. q \in Named
    <3>1. Now.to \in Seq(Names) /\ Now.to # << >>
      BY <1>1 DEF Tasks, Named, Path
    <3>2. Parent(Now.to) \in Seq(Names)
      BY <3>1, ParentIs
    <3>. QED  BY <2>2, <2>3, <3>2, ChildIs DEF Named, Path
  <2>5. PICK x : x = ThisOther(n)
    OBVIOUS
  <2>6. x.op = Now.op
    BY <1>1, <2>3, <2>4, <2>5, TaskWith DEF ThisOther
  <2>7. x \in GoodTasks /\ \A y \in Later : Follows(x, y)
    <3>1. x = [Now EXCEPT !.to = q]
      BY <2>3, <2>5 DEF ThisOther
    <3>2. x \in Tasks /\ x.from = Now.from /\ x.to = q /\ x.stage = Now.stage /\ x.then = Now.then
      BY <1>1, <2>4, <3>1, TaskWith
    <3>3. Parent(q) = Parent(Now.to)
      <4>1. Now.to \in Seq(Names) /\ Now.to # << >>
        BY <1>1 DEF Tasks, Named, Path
      <4>2. Parent(Now.to) \in Seq(Names)
        BY <4>1, ParentIs
      <4>. QED  BY <2>2, <2>3, <4>2, ChildIs
    <3>4. x.to = Append(Parent(x.to), n)
      BY <2>3, <3>2, <3>3
    <3>. QED  BY <1>1, <2>2, <2>6, <3>2, <3>3, <3>4, SameTask
  <2>8. Fits(x)
    BY <1>1, <2>6 DEF Fits, DeleteOps
  <2>9. Went({x})
    BY <1>1, <2>1, <2>5, <2>7, GoOne DEF Go
  <2>. QED  BY <2>8, <2>9, WentFits
<1>4. CASE Go(<< >>)
  BY <1>1, <1>4, GoNone, WentFits DEF Go
<1>5. CASE MayGo
  <2>1. ASSUME NEW exists \in BOOLEAN, Went({ThisPut(exists)}) PROVE AllFit
    <3>1. /\ ThisPut(exists).op \in {"Write", "Rename"} /\ ThisPut(exists).to = Now.to
          /\ ThisPut(exists).stage = Folder
      BY <1>1, PutIs DEF Good
    <3>2. Fits(ThisPut(exists))
      BY <1>1, <1>5, <3>1 DEF Fits
    <3>. QED  BY <2>1, <3>2, WentFits
  <2>. QED  BY <1>2, <2>1, ResolveTasks, WentFits DEF AllFit
<1>. QED  BY <1>3, <1>4, <1>5, PutMayGo DEF AllFit

\* Every task after a step fits.
LEMMA NewTasks ==
    ASSUME TaskInv, TreeInv, UploadInv, AnswerInv, [Next]_vars
    PROVE  AllFit
<1>1. ~ Engines => todo' = todo
  BY StepIs DEF OutsideEngine, vars
<1>2. CASE Call
  BY <1>2 DEF AllFit, Call
<1>3. CASE Attempt
  BY <1>3, AttemptFits
<1>4. CASE Reconnected \/ Uploaded
  BY <1>4, SimpleTasks, WentFits
<1>5. CASE Escape
  BY <1>5 DEF AllFit, Escape, Stop
<1>6. CASE ItemFound \/ Looked
  BY <1>6, ItemFits
<1>7. CASE FolderSeen \/ FolderMade \/ KidsListed
  BY <1>7, CopyingFits
<1>8. CASE RenameDone \/ Downloaded
  BY <1>8, WritingFits
<1>9. CASE Deleted \/ Decide
  BY <1>9, DeletingFits
<1>10. CASE ResolveFileConflict
  BY <1>10, ResolveFits
<1>. QED  BY <1>1, <1>2, <1>3, <1>4, <1>5, <1>6, <1>7, <1>8, <1>9, <1>10 DEF Engines, AllFit

\* Only a step of a task changes the tasks.
LEMMA StepsHaveNow ==
    ASSUME [Next]_vars
    PROVE  todo' = todo \/ todo # << >>
<1>1. Engines => todo # << >>
  BY DEF Engines, Call, Attempt, Reconnected, Escape, Decide, ItemFound, Looked, RenameDone,
       FolderSeen, FolderMade, KidsListed, Downloaded, Uploaded, Deleted, ResolveFileConflict,
       AnsweredOk, Answered
<1>. QED  BY <1>1, StepIs DEF OutsideEngine, vars

\* What is to be written was to be written before, or may be written over.
LEMMA NewWrites ==
    ASSUME TaskInv, AllFit, [Next]_vars, NEW t \in Range(todo'), t.op = "Write"
    PROVE  \/ \E u \in Range(todo) : u.op = "Write" /\ u.to = t.to
           \/ \A r \in DOMAIN There : r = t.to /\ Real(There[r]) => There[r] \in waived'
<1>1. todo' # << >>
  BY NoTask
<1>2. CASE todo' = todo
  BY <1>2
<1>3. CASE todo # << >> /\ Fits(t)
  BY <1>3, NowIs DEF Fits, DeleteOps, MayGo
<1>. QED  BY <1>1, <1>2, <1>3, StepsHaveNow DEF AllFit

\* A copy stays, unless the current task is to delete outside P, or is a rename.
LEMMA SafeStep ==
    ASSUME TaskInv, TreeInv, UploadInv, AllFit, [Next]_vars, NEW P, NEW c, Real(c), Safe(c, P),
           todo # << >> => Now.op # "Rename" /\ (Now.op \in DeleteOps => IsPrefix(P, Now.from))
    PROVE  SafeNext(c, P)
<1>1. CASE c \in waived
  BY <1>1, WaivedStay DEF SafeNext
<1>2. CASE c \notin waived
  <2>1. PICK r \in DOMAIN There :
           /\ There[r] = c /\ IsPrefix(job.tdir, r)
           /\ SameProvider => ~ IsPrefix(P, r)
           /\ \A t \in Range(todo) : t.op = "Write" => t.to # r
    BY <1>2 DEF Safe
  <2>2. todo # << >> => Now \in Range(todo)
    BY NowIs
  <2>3. r \in DOMAIN There' /\ There'[r] = c
    <3>1. Real(There[r])
      BY <2>1 DEF Real
    <3>2. \/ r \in DOMAIN There' /\ There'[r] = There[r]
          \/ todo # << >> /\ todo' = todo /\ Now.op = "Rename"
          \/ todo # << >> /\ Now.op = "Write" /\ r = Now.to
          \/ todo # << >> /\ todo' = todo /\ Now.op \in DeleteOps /\ SameProvider /\ r = Now.from
      BY <3>1, ThereStep
    <3>. QED  BY <2>1, <2>2, <3>2
  <2>4. CASE \E t \in Range(todo') : t.op = "Write" /\ t.to = r
    <3>0. PICK t \in Range(todo') : t.op = "Write" /\ t.to = r
      BY <2>4
    <3>1. \/ \E u \in Range(todo) : u.op = "Write" /\ u.to = r
          \/ \A q \in DOMAIN There : q = r /\ Real(There[q]) => There[q] \in waived'
      BY <3>0, NewWrites
    <3>2. c \in waived'
      BY <2>1, <3>1 DEF Real
    <3>. QED  BY <3>2 DEF SafeNext
  <2>5. CASE \A t \in Range(todo') : t.op = "Write" => t.to # r
    BY <2>1, <2>3, <2>5 DEF SafeNext
  <2>. QED  BY <2>4, <2>5
<1>. QED  BY <1>1, <1>2

-----------------------------------------------------------------------------
(* Whose tasks these are.                                                     *)

\* An item's places; a name the user typed for a conflict is beside the target.
SourceOf(i) == Append(job.sdir, job.items[i])
TargetOf(i) == Append(job.tdir, job.items[i])
Beside(p, i) == IsPrefix(TargetOf(i), p) \/ \E n \in Names : p = Append(job.tdir, n)

\* The task t is one of the item i.
WorksOn(t, i) ==
    /\ IsPrefix(SourceOf(i), t.from)
    /\ t.op \in {"Item", "Look", "Copy", "Mkdir", "Kids"} => IsPrefix(TargetOf(i), t.to)
    /\ t.op \in {"Resolve", "Write", "Rename"} => Beside(t.to, i)
    /\ t.op = "End" =>
          /\ t.from = SourceOf(i) /\ t.to = TargetOf(i)
          /\ job.kind = "Move" /\ SameProvider => ~ IsPrefix(SourceOf(i), TargetOf(i))

\* A task is one of an item, and does what the operation is for.
Within(t) ==
    /\ \E i \in DOMAIN job.items : WorksOn(t, i)
    /\ t.op \in CopyOps => job.kind # "Delete"
    /\ Moves(t) => job.kind = "Move"
    /\ t.op \in DeleteOps => job.kind # "Copy"

WithinInv == \A t \in Range(todo) : Within(t)
AllWithin == \A t \in Range(todo') : Within(t)

\* The places of an item, and the folders they are in.
LEMMA ItemPaths ==
    ASSUME TaskInv, NEW i \in DOMAIN job.items
    PROVE  /\ job.sdir \in Path /\ SourceOf(i) \in Named /\ SourceOf(i) \in Path
           /\ Parent(SourceOf(i)) = job.sdir /\ IsPrefix(job.sdir, SourceOf(i))
           /\ job.tdir \in Path /\ TargetOf(i) \in Named /\ TargetOf(i) \in Path
           /\ Parent(TargetOf(i)) = job.tdir /\ IsPrefix(job.tdir, TargetOf(i))
<1>1. job.sdir \in Path /\ job.tdir \in Path /\ job.items[i] \in Names
  BY JobIs DEF TaskInv
<1>2. \A d \in Path : /\ Append(d, job.items[i]) \in Named /\ Append(d, job.items[i]) \in Path
                      /\ Parent(Append(d, job.items[i])) = d /\ IsPrefix(d, Append(d, job.items[i]))
  BY <1>1, ChildIs DEF Named, Path
<1>. QED  BY <1>1, <1>2 DEF SourceOf, TargetOf

\* Whatever is beside a target is in the folder the operation goes to.
LEMMA BesideIs ==
    ASSUME TaskInv, NEW i \in DOMAIN job.items, NEW p \in Path, Beside(p, i)
    PROVE  IsPrefix(job.tdir, p)
<1>1. /\ job.tdir \in Seq(Names) /\ TargetOf(i) \in Seq(Names) /\ IsPrefix(job.tdir, TargetOf(i))
      /\ p \in Seq(Names)
  BY ItemPaths DEF Path
<1>2. CASE IsPrefix(TargetOf(i), p)
  BY <1>1, <1>2, PrefixTrans
<1>3. CASE \E n \in Names : p = Append(job.tdir, n)
  BY <1>1, <1>3, ChildIs
<1>. QED  BY <1>2, <1>3 DEF Beside

\* The tasks after a step are items' if the new ones are.
LEMMA WentWithin ==
    ASSUME TaskInv, WithinInv, todo # << >>, NEW new, Went(new), \A t \in new : Within(t)
    PROVE  AllWithin
<1>1. \A t \in Later : Within(t)
  BY NowIs DEF WithinInv
<1>. QED  BY <1>1 DEF AllWithin, Went

\* A task like the current one is the same item's.
LEMMA LikeNow ==
    ASSUME TaskInv, WithinInv, todo # << >>, NEW x, x.op = Now.op, x.from = Now.from, x.to = Now.to,
           x.then = Now.then
    PROVE  Within(x)
<1>1. Within(Now)
  BY NowIs DEF WithinInv
<1>. QED  BY <1>1 DEF Within, WorksOn, Moves

\* A retry is the same item's.
LEMMA AttemptWithin ==
    ASSUME TaskInv, WithinInv, Attempt
    PROVE  AllWithin
<1>1. todo # << >> /\ Now.op # "Reconnect"
  BY DEF Attempt
<1>2. Within(Again)
  BY <1>1, AgainIs, LikeNow
<1>3. Within(Recon)
  <2>1. Recon.op = "Reconnect" /\ Recon.from = Now.from /\ Recon.then = "None"
    BY DEF Recon, Task
  <2>2. PICK i \in DOMAIN job.items : WorksOn(Now, i)
    BY <1>1, NowIs DEF WithinInv, Within
  <2>3. WorksOn(Recon, i)
    BY <2>1, <2>2 DEF WorksOn
  <2>. QED  BY <2>1, <2>3 DEF Within, Moves, CopyOps, DeleteOps
<1>4. Went({Again}) \/ Went({Recon, Again}) \/ Went({}) => AllWithin
  BY <1>1, <1>2, <1>3, WentWithin
<1>. QED  BY <1>4, AttemptTasks, NoTask DEF AllWithin

\* So is what an item found or a target looked at leads to.
LEMMA ItemWithin ==
    ASSUME TaskInv, WithinInv, ItemFound \/ Looked
    PROVE  AllWithin
<1>1. todo # << >> /\ Now.op \in {"Item", "Look"} /\ Now.from \in Named /\ Now.to \in Named /\ Good(Now)
  <2>1. todo # << >> /\ Now.op \in {"Item", "Look"}
    BY DEF ItemFound, Looked, AnsweredOk, Answered
  <2>. QED  BY <2>1, NowIs DEF Tasks
<1>2. PICK i \in DOMAIN job.items : Now.from = SourceOf(i) /\ Now.to = TargetOf(i)
  BY <1>1 DEF Good, ItemOf, SourceOf, TargetOf
<1>3. IsPrefix(Now.from, Now.from) /\ IsPrefix(Now.to, Now.to)
  BY <1>1, PrefixRefl DEF Named, Path
<1>4. ASSUME NEW x, x.from = Now.from, x.to = Now.to, x.op = "End" => Looked \/ ~ (job.kind = "Move" /\ SameProvider)
      PROVE  WorksOn(x, i)
  <2>1. Looked => ~ IsPrefix(Now.from, Now.to)
    BY <1>1 DEF Looked, Answered, Good
  <2>. QED  BY <1>2, <1>3, <1>4, <2>1 DEF WorksOn, Beside
<1>5. ASSUME NEW dir, Looked \/ ~ (job.kind = "Move" /\ SameProvider) PROVE Within(ThisEnd(dir))
  <2>1. ThisEnd(dir).from = Now.from /\ ThisEnd(dir).to = Now.to /\ ThisEnd(dir).op = "End" /\ ThisEnd(dir).then = "None"
    BY TaskIs DEF ThisEnd
  <2>2. WorksOn(ThisEnd(dir), i)
    BY <1>4, <1>5, <2>1
  <2>. QED  BY <2>1, <2>2 DEF Within, Moves, CopyOps, DeleteOps
<1>6. ASSUME NEW dir, job.kind # "Delete" PROVE Within(ThisCopy(dir))
  <2>1. /\ ThisCopy(dir).op \in {"Copy", "Resolve"} /\ ThisCopy(dir).then \in {"None", "Write"}
        /\ ThisCopy(dir).from = Now.from /\ ThisCopy(dir).to = Now.to
    BY <1>1, CopyNodeIs DEF ThisCopy
  <2>2. WorksOn(ThisCopy(dir), i)
    BY <1>4, <2>1
  <2>. QED  BY <1>6, <2>1, <2>2 DEF Within, Moves, DeleteOps
<1>7. ASSUME NEW dir, NEW op \in {"Drop", "Look", "Rename", "Delete"}, op = "Delete" => job.kind = "Delete",
             op = "Rename" => job.kind = "Move"
      PROVE  Within(Task(op, Now.from, Now.to, dir))
  <2>1. PICK x : x = Task(op, Now.from, Now.to, dir)
    OBVIOUS
  <2>2. x.op = op /\ x.from = Now.from /\ x.to = Now.to /\ x.then = "None"
    BY <2>1, TaskIs
  <2>3. WorksOn(x, i)
    BY <1>4, <2>2
  <2>. QED  BY <1>7, <2>1, <2>2, <2>3 DEF Within, Moves, CopyOps, DeleteOps
<1>8. CASE ItemFound
  <2>1. PICK dir \in BOOLEAN :
              \/ job.kind = "Delete" /\ Went({ThisDelete(dir), ThisEnd(dir)})
              \/ job.kind = "Copy" /\ Went({ThisCopy(dir), ThisEnd(dir)})
              \/ job.kind = "Move" /\ SameProvider /\ Went({})
              \/ job.kind = "Move" /\ SameProvider /\ ~ IsPrefix(Now.from, Now.to)
                    /\ Went({Task("Look", Now.from, Now.to, dir)})
              \/ job.kind = "Move" /\ ~ SameProvider
                    /\ Went({ThisCopy(dir), ThisDrop(dir), ThisEnd(dir)})
    BY <1>8, ItemFoundTasks
  <2>2. CASE job.kind = "Delete" /\ Went({ThisDelete(dir), ThisEnd(dir)})
    <3>1. Within(ThisDelete(dir)) /\ Within(ThisEnd(dir))
      BY <1>5, <1>7, <2>2 DEF ThisDelete
    <3>. QED  BY <1>1, <2>2, <3>1, WentWithin
  <2>3. CASE job.kind = "Copy" /\ Went({ThisCopy(dir), ThisEnd(dir)})
    BY <1>1, <1>5, <1>6, <2>3, WentWithin
  <2>4. CASE job.kind = "Move" /\ ~ SameProvider /\ Went({ThisCopy(dir), ThisDrop(dir), ThisEnd(dir)})
    <3>1. Within(ThisDrop(dir))
      BY <1>7 DEF ThisDrop
    <3>. QED  BY <1>1, <1>5, <1>6, <2>4, <3>1, WentWithin
  <2>5. CASE Went({}) \/ Went({Task("Look", Now.from, Now.to, dir)})
    <3>1. Within(Task("Look", Now.from, Now.to, dir))
      BY <1>7
    <3>. QED  BY <1>1, <2>5, <3>1, WentWithin
  <2>. QED  BY <2>1, <2>2, <2>3, <2>4, <2>5
<1>9. CASE Looked
  <2>1. job.kind = "Move"
    BY <1>1, <1>9 DEF Looked, Answered, Good
  <2>2. Within(ThisRename) /\ Within(ThisDrop(Now.dir))
    BY <1>7, <2>1 DEF ThisRename, ThisDrop
  <2>3. Within(ThisResolve)
    <3>1. PICK x : x = ThisResolve
      OBVIOUS
    <3>2. x.op = "Resolve" /\ x.from = Now.from /\ x.to = Now.to
      BY <3>1 DEF ThisResolve, Resolve, Task
    <3>3. WorksOn(x, i)
      BY <1>4, <3>2
    <3>. QED  BY <2>1, <3>1, <3>2, <3>3 DEF Within, DeleteOps
  <2>4. Within(ThisEnd(Now.dir)) /\ Within(ThisCopy(Now.dir))
    BY <1>5, <1>6, <1>9, <2>1
  <2>5. CASE todo' = << >>
    BY <2>5, NoTask DEF AllWithin
  <2>. QED  BY <1>1, <1>9, <2>2, <2>3, <2>4, <2>5, LookedTasks, WentWithin
<1>. QED  BY <1>8, <1>9

\* So are the folders made and what is listed in them.
LEMMA CopyingWithin ==
    ASSUME TaskInv, WithinInv, FolderSeen \/ FolderMade \/ KidsListed
    PROVE  AllWithin
<1>1. todo # << >> /\ Now.op \in {"Copy", "Mkdir", "Kids"} /\ (FolderSeen \/ FolderMade => Now.op \in {"Copy", "Mkdir"})
  BY DEF FolderSeen, FolderMade, KidsListed, AnsweredOk, Answered
<1>2. Within(Now) /\ Now \in Tasks /\ Good(Now)
  BY <1>1, NowIs DEF WithinInv
<1>3. PICK i \in DOMAIN job.items : WorksOn(Now, i)
  BY <1>2 DEF Within
<1>4. job.kind # "Delete" /\ IsPrefix(SourceOf(i), Now.from) /\ IsPrefix(TargetOf(i), Now.to)
  BY <1>1, <1>2, <1>3 DEF Within, WorksOn, CopyOps
<1>5. CASE FolderSeen \/ FolderMade
  <2>1. ASSUME NEW op \in {"Mkdir", "Kids"} PROVE Within([Now EXCEPT !.op = op])
    <3>1. PICK x : x = [Now EXCEPT !.op = op]
      OBVIOUS
    <3>2. x.op = op /\ x.from = Now.from /\ x.to = Now.to /\ x.then = Now.then
      BY <1>2, <3>1, TaskWith DEF TaskOps, CopyOps
    <3>3. ~ Moves(x)
      BY <1>1, <1>2, <1>5, <3>2 DEF Moves, Good
    <3>4. WorksOn(x, i)
      BY <1>4, <3>2 DEF WorksOn
    <3>. QED  BY <1>4, <3>1, <3>2, <3>3, <3>4 DEF Within, DeleteOps
  <2>2. CASE todo' = << >>
    BY <2>2, NoTask DEF AllWithin
  <2>. QED  BY <1>1, <1>5, <2>1, <2>2, FolderTasks, WentWithin
<1>6. CASE KidsListed
  <2>1. Now.op = "Kids" /\ CallOK
    BY <1>6, AnsweredIs DEF KidsListed, AnsweredOk
  <2>2. ASSUME NEW p \in DOMAIN call.found PROVE Within(ThisKid(p))
    <3>1. PICK x, q : x = ThisKid(p) /\ q = Append(Now.to, Last(p))
      OBVIOUS
    <3>2. /\ p \in Named /\ Parent(p) = Now.from /\ Last(p) \in Names /\ q \in Named
          /\ x.op \in {"Copy", "Resolve"} /\ x.then \in {"None", "Write"} /\ x.from = p /\ x.to = q
      BY <1>1, <2>1, <3>1, KidIs
    <3>3. /\ p \in Seq(Names) /\ p # << >> /\ q \in Seq(Names) /\ Now.from \in Seq(Names) /\ Now.to \in Seq(Names)
          /\ SourceOf(i) \in Seq(Names) /\ TargetOf(i) \in Seq(Names)
      BY <1>2, <3>2, ItemPaths DEF Tasks, Named, Path
    <3>4. IsPrefix(SourceOf(i), p)
      <4>1. IsPrefix(Parent(p), p)
        BY <3>3, ParentIs
      <4>. QED  BY <1>4, <3>2, <3>3, <4>1, PrefixTrans
    <3>5. IsPrefix(TargetOf(i), q)
      <4>1. IsPrefix(Now.to, q)
        BY <3>1, <3>2, <3>3, ChildIs
      <4>. QED  BY <1>4, <3>3, <4>1, PrefixTrans
    <3>6. WorksOn(x, i)
      BY <3>2, <3>4, <3>5 DEF WorksOn, Beside
    <3>. QED  BY <1>4, <3>1, <3>2, <3>6 DEF Within, Moves, DeleteOps
  <2>. QED  BY <1>1, <1>6, <2>2, KidsTasks, WentWithin
<1>. QED  BY <1>5, <1>6

\* So is a file downloaded, or a rename once the way is free.
LEMMA WritingWithin ==
    ASSUME TaskInv, TreeInv, UploadInv, WithinInv, RenameDone \/ Downloaded
    PROVE  AllWithin
<1>1. todo # << >>
  BY DEF RenameDone, Downloaded, AnsweredOk, Answered
<1>2. Now \in Tasks
  BY <1>1, NowIs
<1>3. CASE RenameDone
  <2>1. PICK b \in BOOLEAN : b = FALSE
    OBVIOUS
  <2>2. PICK x : x = [Now EXCEPT !.exists = b]
    OBVIOUS
  <2>3. x.op = Now.op /\ x.from = Now.from /\ x.to = Now.to /\ x.then = Now.then
    BY <1>2, <2>2, TaskWith
  <2>4. Within(x)
    BY <1>1, <2>3, LikeNow
  <2>. QED  BY <1>1, <1>3, <2>1, <2>2, <2>4, RenameDoneTasks, WentWithin
<1>4. CASE Downloaded
  <2>1. /\ CallOK /\ call.op = "Download" /\ call.step = "done" /\ call.st = "Ok"
    BY <1>4, AnsweredIs DEF Downloaded, AnsweredOk
  <2>2. call.data \in Whole
    BY <2>1 DEF UploadInv, IsFile, TreeInv, TreeOK
  <2>3. PICK x : x = [Now EXCEPT !.stage = call.data]
    OBVIOUS
  <2>4. x.op = Now.op /\ x.from = Now.from /\ x.to = Now.to /\ x.then = Now.then
    BY <1>2, <2>2, <2>3, TaskWith
  <2>5. Within(x)
    BY <1>1, <2>4, LikeNow
  <2>6. CASE todo' = todo
    BY <2>6 DEF AllWithin, WithinInv
  <2>. QED  BY <1>1, <1>4, <2>2, <2>3, <2>5, <2>6, DownloadedTasks, WentWithin
<1>. QED  BY <1>3, <1>4

\* So is what is deleted.
LEMMA DeletingWithin ==
    ASSUME TaskInv, WithinInv, Deleted \/ Decide
    PROVE  AllWithin
<1>1. todo # << >>
  BY DEF Deleted, Decide
<1>2. Within(Now) /\ Now \in Tasks /\ Good(Now)
  BY <1>1, NowIs DEF WithinInv
<1>3. PICK i \in DOMAIN job.items : WorksOn(Now, i)
  BY <1>2 DEF Within
<1>4. IsPrefix(SourceOf(i), Now.from) /\ SourceOf(i) \in Seq(Names) /\ Now.from \in Seq(Names)
  BY <1>2, <1>3, ItemPaths DEF WorksOn, Tasks, Named, Path
<1>5. ASSUME NEW x, x.op \in DeleteOps, ~ Moves(x) \/ (x.then = Now.then), job.kind # "Copy", IsPrefix(SourceOf(i), x.from)
      PROVE  Within(x)
  <2>1. WorksOn(x, i)
    BY <1>5 DEF WorksOn, DeleteOps
  <2>2. Moves(x) => job.kind = "Move"
    BY <1>2, <1>5 DEF Within, Moves, DeleteOps
  <2>. QED  BY <1>5, <2>1, <2>2 DEF Within, CopyOps, DeleteOps
<1>6. CASE Deleted
  <2>1. Now.op \in DeleteOps
    BY <1>6, DeletedTasks
  <2>2. job.kind # "Copy"
    BY <1>2, <2>1 DEF Within
  <2>3. CASE Went({})
    BY <1>1, <2>3, WentWithin
  <2>4. CASE /\ Went({ThisGone(p) : p \in DOMAIN call.found} \cup {ThisRemove})
             /\ \A p \in DOMAIN call.found :
                   /\ p \in Named /\ Parent(p) = Now.from
                   /\ ThisGone(p).op = "Delete" /\ ThisGone(p).from = p
             /\ ThisRemove.op = "Remove" /\ ThisRemove.from = Now.from
    <3>1. Within(ThisRemove)
      <4>1. ThisRemove.then = Now.then
        BY <1>2, TaskWith DEF ThisRemove, TaskOps, DeleteOps
      <4>. QED  BY <1>4, <1>5, <2>2, <2>4, <4>1 DEF DeleteOps
    <3>2. ASSUME NEW p \in DOMAIN call.found PROVE Within(ThisGone(p))
      <4>1. p \in Seq(Names) /\ p # << >> /\ Parent(p) = Now.from
        BY <2>4 DEF Named, Path
      <4>2. IsPrefix(Parent(p), p)
        BY <4>1, ParentIs
      <4>3. IsPrefix(SourceOf(i), p)
        BY <1>4, <4>1, <4>2, PrefixTrans
      <4>4. ThisGone(p).then = "None"
        BY TaskIs DEF ThisGone
      <4>5. ThisGone(p).op = "Delete" /\ ThisGone(p).from = p
        BY <2>4
      <4>. QED  BY <1>5, <2>2, <4>3, <4>4, <4>5 DEF DeleteOps, Moves
    <3>. QED  BY <1>1, <2>4, <3>1, <3>2, WentWithin
  <2>. QED  BY <1>6, <2>3, <2>4, DeletedTasks
<1>7. CASE Decide
  <2>1. CASE Went({})
    BY <1>1, <2>1, WentWithin
  <2>2. CASE Now.op = "Drop" /\ Went({Task("Delete", Now.from, Now.to, Now.dir)})
    <3>1. PICK x : x = Task("Delete", Now.from, Now.to, Now.dir)
      OBVIOUS
    <3>2. x.op = "Delete" /\ x.from = Now.from /\ x.then = "None"
      BY <3>1, TaskIs
    <3>3. job.kind # "Copy"
      BY <1>2, <2>2 DEF Good
    <3>4. Within(x)
      BY <1>4, <1>5, <3>2, <3>3 DEF DeleteOps, Moves
    <3>. QED  BY <1>1, <2>2, <3>1, <3>4, WentWithin
  <2>. QED  BY <1>7, <2>1, <2>2, DecideTasks
<1>. QED  BY <1>6, <1>7

\* So is a file whose conflict was settled, under whatever name.
LEMMA ResolveWithin ==
    ASSUME TaskInv, WithinInv, ResolveFileConflict
    PROVE  AllWithin
<1>1. todo # << >> /\ Now.op = "Resolve"
  BY DEF ResolveFileConflict, Answered
<1>2. Within(Now) /\ Now \in Tasks
  BY <1>1, NowIs DEF WithinInv
<1>3. PICK i \in DOMAIN job.items : WorksOn(Now, i)
  BY <1>2 DEF Within
<1>4. job.kind # "Delete" /\ IsPrefix(SourceOf(i), Now.from) /\ Beside(Now.to, i) /\ (Moves(Now) => job.kind = "Move")
  BY <1>1, <1>2, <1>3 DEF Within, WorksOn, CopyOps
<1>5. ASSUME NEW x, x.op \in {"Resolve", "Write", "Rename"}, x.from = Now.from, Beside(x.to, i), Moves(x) => Moves(Now)
      PROVE  Within(x)
  <2>1. WorksOn(x, i)
    BY <1>4, <1>5 DEF WorksOn
  <2>. QED  BY <1>4, <1>5, <2>1 DEF Within, DeleteOps
<1>6. ASSUME NEW exists \in BOOLEAN PROVE Within(ThisPut(exists))
  <2>1. PICK x : x = ThisPut(exists)
    OBVIOUS
  <2>2. x.op = Now.then /\ x.op \in {"Write", "Rename"} /\ x.from = Now.from /\ x.to = Now.to /\ x.then = Now.then
    BY <1>1, <2>1, PutIs
  <2>. QED  BY <1>4, <1>5, <2>1, <2>2 DEF Moves
<1>7. ASSUME NEW n \in Names, Append(Parent(Now.to), n) \in Named, ThisOther(n).op = "Resolve", ThisOther(n).from = Now.from,
             ThisOther(n).to = Append(Parent(Now.to), n), ThisOther(n).then = Now.then
      PROVE  Within(ThisOther(n))
  <2>1. PICK q : q = Append(Parent(Now.to), n)
    OBVIOUS
  <2>2. /\ Now.to \in Seq(Names) /\ Now.to # << >> /\ TargetOf(i) \in Seq(Names) /\ job.tdir \in Seq(Names)
        /\ Parent(TargetOf(i)) = job.tdir
    BY <1>2, ItemPaths DEF Tasks, Named, Path
  <2>3. Parent(Now.to) \in Seq(Names) /\ Last(Now.to) \in Names /\ Append(Parent(Now.to), Last(Now.to)) = Now.to
    BY <2>2, ParentIs
  <2>4. q \in Seq(Names) /\ IsPrefix(Parent(Now.to), q)
    BY <2>1, <2>3, ChildIs
  <2>8. Beside(q, i) => Within(ThisOther(n))
    <3>1. PICK x : x = ThisOther(n)
      OBVIOUS
    <3>2. x.op = "Resolve" /\ x.from = Now.from /\ x.to = q /\ x.then = Now.then
      BY <1>7, <2>1, <3>1
    <3>3. Beside(q, i) => Within(x)
      BY <1>1, <1>5, <3>2 DEF Moves
    <3>. QED  BY <3>1, <3>3
  <2>5. CASE IsPrefix(TargetOf(i), Parent(Now.to))
    <3>1. IsPrefix(TargetOf(i), q)
      BY <2>2, <2>3, <2>4, <2>5, PrefixTrans
    <3>. QED  BY <2>8, <3>1 DEF Beside
  <2>6. CASE Parent(Now.to) = job.tdir
    BY <2>1, <2>6, <2>8 DEF Beside
  <2>7. IsPrefix(TargetOf(i), Parent(Now.to)) \/ Parent(Now.to) = job.tdir
    <3>1. CASE IsPrefix(TargetOf(i), Now.to)
      <4>1. PICK a, x : a = Parent(Now.to) /\ x = Last(Now.to)
        OBVIOUS
      <4>2. IsPrefix(TargetOf(i), Append(a, x))
        BY <2>3, <3>1, <4>1
      <4>3. IsPrefix(TargetOf(i), a) \/ TargetOf(i) = Append(a, x)
        BY <2>2, <2>3, <4>1, <4>2, PrefixOfChild
      <4>. QED  BY <2>2, <2>3, <4>1, <4>3
    <3>2. CASE \E m \in Names : Now.to = Append(job.tdir, m)
      BY <2>2, <3>2, ChildIs
    <3>. QED  BY <1>4, <3>1, <3>2 DEF Beside
  <2>. QED  BY <2>5, <2>6, <2>7
<1>8. CASE todo' = << >>
  BY <1>8, NoTask DEF AllWithin
<1>9. Went({}) \/ (\E exists \in BOOLEAN : Went({ThisPut(exists)})) => AllWithin
  BY <1>1, <1>6, WentWithin
<1>. QED  BY <1>1, <1>7, <1>8, <1>9, ResolveTasks, WentWithin

\* Every task is an item's, after every step.
LEMMA WithinNext ==
    ASSUME TaskInv, TreeInv, UploadInv, WithinInv, [Next]_vars
    PROVE  WithinInv'
<1>1. AllWithin
  <2>1. CASE todo' = todo
    BY <2>1 DEF AllWithin, WithinInv
  <2>2. CASE todo' = << >>
    BY <2>2, NoTask DEF AllWithin
  <2>3. CASE Engines
    <3>1. CASE Call
      BY <2>1, <3>1 DEF Call
    <3>2. CASE Reconnected \/ Uploaded
      <4>1. todo # << >>
        BY <3>2 DEF Reconnected, Uploaded, AnsweredOk, Answered
      <4>. QED  BY <3>2, <4>1, SimpleTasks, WentWithin
    <3>3. CASE Escape
      BY <2>2, <3>3 DEF Escape, Stop
    <3>. QED  BY <2>3, <3>1, <3>2, <3>3, AttemptWithin, ItemWithin, CopyingWithin, WritingWithin, DeletingWithin,
                 ResolveWithin DEF Engines
  <2>4. CASE ~ Engines
    BY <2>1, <2>4, StepIs DEF OutsideEngine, vars
  <2>. QED  BY <2>3, <2>4
<1>2. job' = job /\ (SameProvider' <=> SameProvider)
  BY JobStays, GoodFrame
<1>3. \A t : Within(t)' <=> Within(t)
  BY <1>2 DEF Within, WorksOn, Beside, SourceOf, TargetOf, Moves
<1>. QED  BY <1>1, <1>3 DEF WithinInv, AllWithin

-----------------------------------------------------------------------------
(* What is staged, and what is about to be replaced.                          *)

\* A file is written or renamed as the current task, at once or after a reconnect.
LEMMA WriteIsNow ==
    ASSUME TaskInv, todo # << >>, NEW t \in Range(todo), t.op = "Write" \/ Moves(t)
    PROVE  t = Now \/ Now.op = "Reconnect"
BY NowIs DEF Follows

\* The source keeps its contents but for the current delete, rename or target.
LEMMA HereStays ==
    ASSUME TaskInv, TreeInv, UploadInv, [Next]_vars, NEW p \in DOMAIN Here
    PROVE  \/ p \in DOMAIN Here' /\ Here'[p] = Here[p]
           \/ todo # << >> /\ todo' = todo /\ Now.op \in DeleteOps \cup {"Rename"}
           \/ /\ todo # << >> /\ todo' = todo /\ Now.op = "Write" /\ SameProvider /\ p = Now.to
              /\ Now.from # Now.to
<1>1. job' = job
  BY JobStays
<1>2. CASE job.from = "local"
  <2>1. Here = local /\ Here' = local' /\ job.to # "local"
    BY <1>1, <1>2, SidesThen
  <2>. QED  BY <2>1, LocalChange DEF LocalAdds, LocalWrites, LocalDeletes
<1>3. CASE job.from = "remote"
  <2>1. Here = server.tree /\ Here' = server'.tree /\ (job.to = "remote" => SameProvider)
    BY <1>1, <1>3, SidesThen
  <2>2. CASE ServerSame
    BY <2>1, <2>2 DEF ServerSame
  <2>3. CASE ServerAdds
    <3>1. PICK q, c : IsFree(server.tree, q) /\ server'.tree = With(server.tree, q, c)
      BY <2>3 DEF ServerAdds
    <3>2. Here' = With(Here, q, c) /\ q # p
      BY <2>1, <3>1 DEF IsFree
    <3>. QED  BY <3>2, WithFrom
  <2>4. CASE ServerDeletes \/ ServerReplaces \/ ServerRenames
    BY <2>4 DEF ServerDeletes, ServerReplaces, ServerRenames
  <2>5. CASE ServerClears
    <3>1. Here' = Without(Here, Now.to)
      BY <2>1, <2>5 DEF ServerClears
    <3>2. job.to = "remote" /\ ~ (SameProvider /\ Now.from = Now.to)
      BY <2>5, UploadIs DEF ServerClears
    <3>3. CASE p # Now.to
      BY <3>1, <3>3, WithoutFrom
    <3>4. CASE p = Now.to
      BY <2>1, <2>5, <3>2, <3>4 DEF ServerClears
    <3>. QED  BY <3>3, <3>4
  <2>. QED  BY <2>2, <2>3, <2>4, <2>5, ServerChange
<1>. QED  BY <1>1, <1>2, <1>3, SidesThen

\* What an upload puts at the target is what the source has.
LEMMA UploadOf ==
    ASSUME TaskInv, LocalInv, StageInv, CallOK, call.op = "Upload"
    PROVE  /\ Now.op = "Write" /\ call.path = Now.to /\ job.to = "remote" /\ ~ (SameProvider /\ Now.from = Now.to)
           /\ Now.from \in DOMAIN Here /\ Here[Now.from] = call.data /\ IsFile(Here, Now.from)
<1>1. /\ Now.op = "Write" /\ call.path = Now.to /\ job.to = "remote" /\ ~ (SameProvider /\ Now.from = Now.to)
      /\ \/ job.from = "local" /\ call.data = local[Now.from]
         \/ job.from = "remote" /\ Now.stage # Folder /\ call.data = Now.stage
  BY UploadIs
<1>2. todo # << >> /\ Now \in Range(todo)
  BY NowIs DEF CallOK
<1>3. CASE job.from = "local" /\ call.data = local[Now.from]
  <2>1. IsFile(local, Now.from)
    BY <1>1, <1>2, <1>3 DEF LocalInv
  <2>. QED  BY <1>1, <1>3, <2>1 DEF Here, TreeOf, IsFile
<1>4. CASE job.from = "remote" /\ Now.stage # Folder /\ call.data = Now.stage
  <2>1. Now.from \in DOMAIN server.tree /\ server.tree[Now.from] = Now.stage
    BY <1>1, <1>2, <1>4 DEF StageInv
  <2>. QED  BY <1>1, <1>4, <2>1 DEF Here, TreeOf, IsFile
<1>. QED  BY <1>1, <1>3, <1>4

\* What the target gains is the current task's.
LEMMA ThereGains ==
    ASSUME TaskInv, TreeInv, UploadInv, LocalInv, StageInv, [Next]_vars,
           NEW r \in DOMAIN There', Real(There'[r])
    PROVE  \/ r \in DOMAIN There /\ There[r] = There'[r]
           \/ /\ todo # << >> /\ todo' = todo /\ Now.op = "Write" /\ r = Now.to
              /\ ~ (SameProvider /\ Now.from = Now.to)
              /\ Now.from \in DOMAIN Here /\ Here[Now.from] = There'[r]
           \/ todo # << >> /\ todo' = todo /\ Now.op = "Rename" /\ ~ Now.exists
           \/ todo # << >> /\ Now.op = "Write" /\ Went({})
<1>1. job' = job
  BY JobStays
<1>2. CASE job.to = "local"
  <2>1. There = local /\ There' = local' /\ job.from # "local"
    BY <1>1, <1>2, SidesThen
  <2>2. CASE LocalAdds
    <3>1. PICK q : local' = With(local, q, Folder)
      BY <2>2 DEF LocalAdds
    <3>2. There' = With(There, q, Folder)
      BY <2>1, <3>1
    <3>3. r # q
      BY <3>2, WithFrom, Marks
    <3>. QED  BY <3>2, <3>3, WithFrom
  <2>3. CASE LocalWrites
    BY <2>3 DEF LocalWrites
  <2>. QED  BY <2>1, <2>2, <2>3, LocalChange DEF LocalDeletes
<1>3. CASE job.to = "remote"
  <2>1. There = server.tree /\ There' = server'.tree
    BY <1>1, <1>3, SidesThen
  <2>2. CASE ServerSame
    BY <2>1, <2>2 DEF ServerSame
  <2>3. CASE ServerAdds
    <3>1. PICK q, c : /\ server'.tree = With(server.tree, q, c)
                      /\ \/ c = Folder
                         \/ c = Other
                         \/ /\ todo # << >> /\ Now.op = "Write" /\ q = Now.to /\ c = call.data
                            /\ call.op = "Upload" /\ CallOK
      BY <2>3 DEF ServerAdds
    <3>2. There' = With(There, q, c)
      BY <2>1, <3>1
    <3>3. CASE r # q
      BY <3>2, <3>3, WithFrom
    <3>4. CASE r = q
      <4>1. There'[r] = c
        BY <3>2, <3>4, WithFrom
      <4>2. c # Folder /\ c # Other
        BY <4>1, Marks
      <4>3. /\ todo # << >> /\ Now.op = "Write" /\ q = Now.to /\ c = call.data /\ CallOK /\ call.op = "Upload"
        BY <3>1, <4>2
      <4>4. ~ (SameProvider /\ Now.from = Now.to) /\ Now.from \in DOMAIN Here /\ Here[Now.from] = call.data
        BY <4>3, UploadOf
      <4>. QED  BY <2>3, <3>4, <4>1, <4>3, <4>4 DEF ServerAdds
    <3>. QED  BY <3>3, <3>4
  <2>4. ASSUME NEW q, server'.tree = Without(server.tree, q)
        PROVE  r \in DOMAIN There /\ There[r] = There'[r]
    <3>1. There' = Without(There, q)
      BY <2>1, <2>4
    <3>. QED  BY <3>1, WithoutFrom
  <2>5. CASE ServerDeletes \/ ServerReplaces \/ ServerClears
    BY <2>4, <2>5 DEF ServerDeletes, ServerReplaces, ServerClears
  <2>6. CASE ServerRenames
    BY <2>6 DEF ServerRenames
  <2>. QED  BY <2>2, <2>3, <2>5, <2>6, ServerChange
<1>. QED  BY <1>1, <1>2, <1>3, SidesThen

\* What was staged stays on the server until it is written.
LEMMA StageNext ==
    ASSUME TaskInv, TreeInv, UploadInv, LocalInv, StageInv, AllFit, [Next]_vars
    PROVE  StageInv'
<1>1. ASSUME NEW t \in Range(todo'), t.op = "Write", t.stage # Folder
      PROVE  t.from \in DOMAIN server'.tree /\ server'.tree[t.from] = t.stage
  <2>1. todo' # << >> /\ job' = job
    BY NoTask, JobStays
  <2>2. t.from \in DOMAIN server.tree /\ server.tree[t.from] = t.stage
    <3>1. CASE todo' = todo
      BY <1>1, <3>1 DEF StageInv
    <3>2. CASE todo # << >> /\ Fits(t)
      BY <1>1, <3>2, NowIs DEF Fits, Taken, StageInv, DeleteOps
    <3>. QED  BY <2>1, <3>1, <3>2, StepsHaveNow DEF AllFit
  <2>3. SameProvider /\ job.from = "remote"
    <3>1. t \in GoodTasks'
      <4>1. todo' \in Seq(GoodTasks')
        BY TaskNext DEF TaskInv
      <4>. QED  BY <4>1 DEF Range
    <3>2. GoodTasks' = GoodTasks
      BY <2>1, GoodFrame
    <3>. QED  BY <1>1, <3>1, <3>2 DEF GoodTasks, Good, SameProvider
  <2>4. Here = server.tree /\ Here' = server'.tree
    BY <2>1, <2>3, SidesThen
  <2>5. CASE todo # << >> /\ todo' = todo /\ Now.op \in DeleteOps \cup {"Rename"}
    <3>1. t = Now \/ Now.op = "Reconnect"
      BY <1>1, <2>5, WriteIsNow
    <3>. QED  BY <1>1, <2>5, <3>1 DEF DeleteOps
  <2>6. CASE todo # << >> /\ todo' = todo /\ Now.op = "Write" /\ t.from = Now.to /\ Now.from # Now.to
    <3>1. t = Now
      BY <1>1, <2>6, WriteIsNow
    <3>. QED  BY <2>6, <3>1
  <2>. QED  BY <2>2, <2>4, <2>5, <2>6, HereStays
<1>. QED  BY <1>1 DEF StageInv

\* What is about to be replaced may go, after every step.
LEMMA TargetNext ==
    ASSUME TaskInv, TreeInv, UploadInv, LocalInv, StageInv, TargetInv, AllFit, [Next]_vars
    PROVE  TargetInv'
<1>1. ASSUME NEW t \in Range(todo'), t.op = "Write" \/ (t.op = "Rename" /\ t.exists),
             t.to \in DOMAIN There', Real(There'[t.to])
      PROVE  \/ There'[t.to] \in waived' /\ t.to \in agreed' \cup unseen'
             \/ /\ t.op = "Write" /\ ~ (SameProvider /\ t.from = t.to)
                /\ t.from \in DOMAIN Here' /\ Here'[t.from] = There'[t.to]
  <2>1. todo' # << >> /\ job' = job /\ waived \subseteq waived' /\ agreed \subseteq agreed' /\ unseen \subseteq unseen'
    BY NoTask, JobStays, WaivedStay
  <2>2. ASSUME todo' = todo, todo # << >>
        PROVE  t = Now \/ Now.op = "Reconnect"
    BY <1>1, <2>2, WriteIsNow DEF Moves
  <2>3. CASE t.to \in DOMAIN There /\ There[t.to] = There'[t.to]
    <3>1. Real(There[t.to])
      BY <1>1, <2>3
    <3>2. ASSUME NEW u \in Range(todo), u.to = t.to, u.op = t.op, u.from = t.from, t.exists => u.exists
          PROVE  \/ There[t.to] \in waived /\ t.to \in agreed \cup unseen
                 \/ /\ t.op = "Write" /\ ~ (SameProvider /\ t.from = t.to)
                    /\ t.from \in DOMAIN Here /\ Here[t.from] = There[t.to]
      BY <1>1, <2>3, <3>1, <3>2 DEF TargetInv
    <3>3. \/ There[t.to] \in waived' /\ t.to \in agreed' \cup unseen'
          \/ /\ t.op = "Write" /\ ~ (SameProvider /\ t.from = t.to)
             /\ t.from \in DOMAIN Here /\ Here[t.from] = There[t.to]
      <4>1. CASE todo' = todo
        BY <2>1, <3>2, <4>1
      <4>2. CASE todo # << >> /\ Fits(t)
        <5>1. CASE t \in Later
          BY <2>1, <3>2, <4>2, <5>1, NowIs
        <5>2. CASE t.op = Now.op /\ t.from = Now.from /\ t.to = Now.to /\ (t.exists => Now.exists)
          BY <2>1, <3>2, <4>2, <5>2, NowIs
        <5>3. CASE t.to = Now.to /\ MayGo
          BY <2>3, <3>1, <5>3 DEF MayGo
        <5>. QED  BY <1>1, <4>2, <5>1, <5>2, <5>3 DEF Fits, DeleteOps
      <4>. QED  BY <2>1, <4>1, <4>2, StepsHaveNow DEF AllFit
    <3>4. CASE /\ t.op = "Write" /\ ~ (SameProvider /\ t.from = t.to)
               /\ t.from \in DOMAIN Here /\ Here[t.from] = There[t.to]
      <4>1. CASE t.from \in DOMAIN Here' /\ Here'[t.from] = Here[t.from]
        BY <2>3, <3>4, <4>1
      <4>2. CASE todo # << >> /\ todo' = todo /\ Now.op \in DeleteOps \cup {"Rename"}
        BY <2>2, <3>4, <4>2 DEF DeleteOps
      <4>3. CASE todo # << >> /\ todo' = todo /\ Now.op = "Write" /\ t.from = Now.to /\ Now.from # Now.to
        BY <2>2, <3>4, <4>3
      <4>. QED  BY <3>4, <4>1, <4>2, <4>3, HereStays
    <3>. QED  BY <2>3, <3>3, <3>4
  <2>4. CASE /\ todo # << >> /\ todo' = todo /\ Now.op = "Write" /\ t.to = Now.to
             /\ ~ (SameProvider /\ Now.from = Now.to)
             /\ Now.from \in DOMAIN Here /\ Here[Now.from] = There'[t.to]
    <3>1. t = Now
      BY <2>2, <2>4
    <3>2. Now.from \in DOMAIN Here' /\ Here'[Now.from] = Here[Now.from]
      BY <2>4, HereStays DEF DeleteOps
    <3>. QED  BY <2>4, <3>1, <3>2
  <2>5. CASE todo # << >> /\ todo' = todo /\ Now.op = "Rename" /\ ~ Now.exists
    BY <1>1, <2>2, <2>5
  <2>6. CASE todo # << >> /\ Now.op = "Write" /\ Went({})
    <3>1. t \in Later
      BY <1>1, <2>6 DEF Went
    <3>. QED  BY <1>1, <2>6, <3>1, NowIs DEF Follows, Moves
  <2>. QED  BY <1>1, <2>3, <2>4, <2>5, <2>6, ThereGains
<1>2. SameProvider' <=> SameProvider
  BY JobStays, GoodFrame
<1>. QED  BY <1>1, <1>2 DEF TargetInv

-----------------------------------------------------------------------------
(* Nothing is written over unasked.                                           *)

\* What a step takes from under an item of a move is its own source.
LEMMA OwnSource ==
    ASSUME TaskInv, WithinInv, SameProvider, todo # << >>, NEW p \in Path, IsPrefix(Now.from, p),
           Now.op \in DeleteOps \/ (Now.op = "Rename" /\ ~ Now.exists)
    PROVE  TakesAway(p)
<1>1. PICK i \in DOMAIN job.items : IsPrefix(SourceOf(i), Now.from)
  BY NowIs DEF WithinInv, Within, WorksOn
<1>2. SourceOf(i) \in Seq(Names) /\ Now.from \in Seq(Names) /\ p \in Seq(Names)
  BY NowIs, ItemPaths DEF Tasks, Named, Path
<1>3. IsPrefix(SourceOf(i), p)
  BY <1>1, <1>2, PrefixTrans
<1>4. job.items[i] \in Range(job.items) /\ UnderItem(p, job.items[i])
  BY <1>3 DEF Range, UnderItem, SourceOf
<1>. QED  BY <1>4 DEF TakesAway, DeleteOps

\* A step of a copy or a move writes over and removes only what was asked about.
LEMMA OnlyAsked ==
    ASSUME TaskInv, TreeInv, UploadInv, LocalInv, TidyInv, StageInv, TargetInv, WithinInv, [Next]_vars
    PROVE  Overwritten \subseteq agreed \cup unseen
<1>. SUFFICES ASSUME NEW p \in Overwritten PROVE p \in agreed \cup unseen
  OBVIOUS
<1>1. job' = job
  BY JobStays
<1>2. /\ p \in DOMAIN There /\ IsFile(There, p) /\ There[p] # Other /\ ~ TakesAway(p)
      /\ ~ (call.op = "Upload" /\ There[p] = call.data)
      /\ p \notin DOMAIN There' \/ There'[p] # There[p]
  BY DEF Overwritten, There
<1>3. p \in Path /\ Real(There[p])
  <2>1. TreeOK(There)
    BY DEF There, TreeOf, TreeInv
  <2>. QED  BY <1>2, <2>1 DEF TreeOK, Whole, Real, IsFile
<1>4. todo # << >> => Now \in Range(todo) /\ Now \in Tasks
  BY NowIs
<1>5. CASE todo # << >> /\ Now.op = "Write" /\ p = Now.to /\ (ServerClears \/ LocalWrites)
  <2>1. \/ p \in agreed \cup unseen
        \/ Now.from \in DOMAIN Here /\ Here[Now.from] = There[p]
    BY <1>2, <1>3, <1>4, <1>5 DEF TargetInv
  <2>2. CASE ServerClears
    <3>1. Here[Now.from] = call.data /\ call.op = "Upload"
      BY <2>2, UploadOf DEF ServerClears
    <3>. QED  BY <1>2, <2>1, <3>1
  <2>3. CASE LocalWrites
    <3>1. /\ job.to = "local" /\ call.data = server.tree[Now.from] /\ local' = With(local, Now.to, call.data)
      BY <2>3 DEF LocalWrites
    <3>2. There' = local' /\ Here = server.tree
      BY <1>1, <3>1, SidesThen
    <3>3. p \in DOMAIN There' /\ There'[p] = call.data
      BY <1>5, <3>1, <3>2, WithFrom
    <3>. QED  BY <1>2, <2>1, <3>1, <3>2, <3>3
  <2>. QED  BY <1>5, <2>2, <2>3
<1>6. CASE ServerReplaces /\ p = Now.to
  BY <1>2, <1>3, <1>4, <1>6 DEF ServerReplaces, TargetInv
<1>7. CASE ServerRenames
  <2>1. SameProvider /\ todo # << >> /\ Now.op = "Rename" /\ ~ Now.exists
    BY <1>7 DEF ServerRenames
  <2>2. There = server.tree /\ There' = server'.tree
    BY <1>1, <2>1, SidesThen
  <2>3. IsPrefix(Now.from, p)
    BY <1>2, <1>7, <2>2, RenameMoves
  <2>. QED  BY <1>2, <1>3, <2>1, <2>3, OwnSource
<1>8. CASE todo # << >> /\ Now.op \in DeleteOps /\ SameProvider /\ p = Now.from
  <2>1. IsPrefix(Now.from, p)
    BY <1>3, <1>8, PrefixRefl DEF Path
  <2>. QED  BY <1>2, <1>3, <1>8, <2>1, OwnSource
<1>. QED  BY <1>2, <1>3, <1>5, <1>6, <1>7, <1>8, ThereStep

-----------------------------------------------------------------------------
(* What is to be dropped.                                                     *)

\* Only a new item makes clean true again.
LEMMA CleanStep ==
    ASSUME [Next]_vars, clean'
    PROVE  clean \/ (todo # << >> /\ Now.op = "Item")
<1>1. CASE ItemFound
  BY <1>1 DEF ItemFound, AnsweredOk, Answered
<1>2. CASE Decide
  BY <1>2 DEF Decide
<1>3. CASE Attempt
  BY <1>3 DEF Attempt
<1>4. CASE FolderSeen
  BY <1>4 DEF FolderSeen
<1>5. CASE ResolveFileConflict
  BY <1>5 DEF ResolveFileConflict, NothingSeen, AnswerGiven, NewNameGiven
<1>6. CASE Call \/ Reconnected \/ Escape \/ Looked \/ RenameDone \/ FolderMade \/ KidsListed
           \/ Downloaded \/ Uploaded \/ Deleted
  BY <1>6 DEF Call, Reconnected, Escape, Looked, RenameDone, FolderMade, KidsListed, Downloaded, Uploaded, Deleted
<1>7. CASE ~ Engines
  BY <1>7, StepIs DEF OutsideEngine, vars
<1>. QED  BY <1>1, <1>2, <1>3, <1>4, <1>5, <1>6, <1>7 DEF Engines

\* The copying under way goes on, its children are to be copied, or it is done.
LEMMA CopyGoesOn ==
    ASSUME TaskInv, TreeInv, UploadInv, [Next]_vars, clean', todo # << >>, Now.op \in CopyOps, ~ Moves(Now)
    PROVE  \/ todo' = << >> \/ todo' = todo
           \/ \E x \in Range(todo') : x.op \in CopyOps /\ x.from = Now.from
           \/ KidsListed
           \/ Uploaded
           \/ Downloaded /\ job.to = "local" /\ local' = With(local, Now.to, call.data) /\ Went({})
<1>1. Now \in Tasks /\ Now.op \in {"Copy", "Mkdir", "Kids", "Resolve", "Write"} /\ Good(Now)
  BY NowIs DEF CopyOps
<1>2. CASE ~ Engines \/ Call
  BY <1>2, StepIs DEF OutsideEngine, vars, Call
<1>3. CASE Attempt
  <2>1. Again.op = Now.op /\ Again.from = Now.from
    BY <1>1, AgainIs
  <2>2. Went({Again}) \/ Went({Recon, Again}) => Again \in Range(todo')
    BY DEF Went
  <2>3. Went({Again}) \/ Went({Recon, Again}) \/ todo' = << >>
    BY <1>3, AttemptTasks
  <2>. QED  BY <2>1, <2>2, <2>3
<1>4. CASE Reconnected \/ ItemFound \/ Looked \/ RenameDone \/ Deleted
  BY <1>1, <1>4 DEF Reconnected, ItemFound, Looked, RenameDone, Deleted, AnsweredOk, Answered
<1>5. CASE Escape
  BY <1>5 DEF Escape, Stop
<1>6. CASE Decide
  BY <1>1, <1>6 DEF Decide, Decided
<1>7. CASE FolderSeen \/ FolderMade
  <2>1. CASE todo' = << >>
    BY <2>1
  <2>2. CASE FolderSeen /\ Went({}) /\ clean' = FALSE
    BY <2>2
  <2>3. CASE \E op \in {"Mkdir", "Kids"} : Went({[Now EXCEPT !.op = op]})
    <3>1. PICK op \in {"Mkdir", "Kids"} : Went({[Now EXCEPT !.op = op]})
      BY <2>3
    <3>2. [Now EXCEPT !.op = op].op = op /\ [Now EXCEPT !.op = op].from = Now.from
      BY <1>1, TaskWith DEF TaskOps, CopyOps
    <3>3. [Now EXCEPT !.op = op] \in Range(todo')
      BY <3>1 DEF Went
    <3>. QED  BY <3>2, <3>3 DEF CopyOps
  <2>. QED  BY <1>7, <2>1, <2>2, <2>3, FolderTasks
<1>8. CASE Downloaded
  <2>1. CallOK /\ call.op = "Download" /\ call.step = "done" /\ call.st = "Ok"
    BY <1>8, AnsweredIs DEF Downloaded, AnsweredOk
  <2>2. call.data \in Whole
    BY <2>1 DEF UploadInv, IsFile, TreeInv, TreeOK
  <2>3. CASE Went({[Now EXCEPT !.stage = call.data]})
    <3>1. [Now EXCEPT !.stage = call.data].op = Now.op /\ [Now EXCEPT !.stage = call.data].from = Now.from
      BY <1>1, <2>2, TaskWith
    <3>2. [Now EXCEPT !.stage = call.data] \in Range(todo')
      BY <2>3 DEF Went
    <3>. QED  BY <3>1, <3>2
  <2>. QED  BY <1>8, <2>2, <2>3, DownloadedTasks
<1>9. CASE ResolveFileConflict
  <2>1. Now.op = "Resolve" /\ Now.then = "Write"
    BY <1>1, <1>9 DEF ResolveFileConflict, Answered, Good, Moves
  <2>2. CASE \E n \in Names : Went({ThisOther(n)}) /\ ThisOther(n).op = "Resolve" /\ ThisOther(n).from = Now.from
    BY <2>2 DEF Went, CopyOps
  <2>3. CASE \E exists \in BOOLEAN : Went({ThisPut(exists)})
    <3>1. PICK exists \in BOOLEAN : Went({ThisPut(exists)})
      BY <2>3
    <3>2. ThisPut(exists).op = "Write" /\ ThisPut(exists).from = Now.from
      BY <2>1, PutIs
    <3>. QED  BY <3>1, <3>2 DEF Went, CopyOps
  <2>4. todo' = << >> \/ (Went({}) /\ clean' = FALSE)
           \/ (\E n \in Names : Went({ThisOther(n)}) /\ ThisOther(n).op = "Resolve" /\ ThisOther(n).from = Now.from)
           \/ (\E exists \in BOOLEAN : Went({ThisPut(exists)}))
    BY <1>9, ResolveTasks
  <2>. QED  BY <2>2, <2>3, <2>4
<1>. QED  BY <1>2, <1>3, <1>4, <1>5, <1>6, <1>7, <1>8, <1>9 DEF Engines

\* A file under a folder listed is under one of the children to be copied.
LEMMA KidsCover ==
    ASSUME TaskInv, TreeInv, TidyInv, AnswerInv, KidsListed,
           NEW p \in DOMAIN Here, Real(Here[p]), IsPrefix(Now.from, p)
    PROVE  \E x \in Range(todo') : x.op \in CopyOps /\ IsPrefix(x.from, p)
<1>1. /\ todo # << >> /\ Now.op = "Kids" /\ CallOK /\ call.step = "done" /\ call.st = "Ok"
  BY AnsweredIs DEF KidsListed, AnsweredOk
<1>2. CallOf(Now) = NewCall("List", Now.from, Now.to, Folder)
  BY <1>1, Zenon DEF CallOf
<1>3. call.op = "List" /\ call.path = Now.from
  BY <1>1, <1>2, NewCallIs DEF CallOK
<1>4. IsFolder(Here, Now.from) /\ \A c \in Children(Here, Now.from) : c \in DOMAIN call.found \/ Here[c] = Other
  BY <1>1, <1>3 DEF AnswerInv, ListOK
<1>5. DOMAIN Here \subseteq Seq(Names) /\ Tidy(Here)
  <2>1. CASE job.from = "local"
    BY <2>1 DEF TreeInv, TreeOK, TidyInv, Here, TreeOf, Path
  <2>2. CASE job.from # "local"
    BY <2>2 DEF TreeInv, TreeOK, TidyInv, Here, TreeOf, Path
  <2>. QED  BY <2>1, <2>2
<1>6. Now.from \in Seq(Names)
  BY <1>1, NowIs DEF Tasks, Named, Path
<1>7. p # Now.from
  BY <1>4, Marks DEF IsFolder
<1>8. PICK c \in DOMAIN Here : c # << >> /\ Parent(c) = Now.from /\ IsPrefix(c, p)
  BY <1>5, <1>6, <1>7, ChildOnTheWay
<1>9. c \in Children(Here, Now.from)
  <2>1. Len(c) = Len(Parent(c)) + 1
    BY <1>5, <1>8, ParentIs
  <2>. QED  BY <1>8, <2>1 DEF Children
<1>10. Here[c] # Other
  <2>. SUFFICES ASSUME Here[c] = Other PROVE FALSE
    OBVIOUS
  <2>1. IsFile(Here, c)
    BY <1>8, Marks DEF IsFile
  <2>2. p = c
    BY <1>5, <1>8, <2>1, FileIsEnd
  <2>3. Here[p] = Other
    BY <2>2
  <2>. QED  BY <2>3, Marks
<1>11. c \in DOMAIN call.found
  BY <1>4, <1>9, <1>10
<1>12. ThisKid(c).op \in {"Copy", "Resolve"} /\ ThisKid(c).from = c
  BY <1>1, <1>11, KidIs
<1>13. ThisKid(c) \in Range(todo')
  BY <1>11, KidsTasks DEF Went
<1>. QED  BY <1>8, <1>12, <1>13 DEF CopyOps

\* The current task's file is at the target with the contents c.
Written(c) ==
    /\ todo # << >> /\ Now.op = "Write"
    /\ Now.to \in DOMAIN There' /\ There'[Now.to] = c /\ IsPrefix(job.tdir, Now.to)
    /\ \A t \in Range(todo') : t.op # "Write"

\* Files are written into the folder the operation goes to.
LEMMA WritesThere ==
    ASSUME TaskInv, WithinInv, todo # << >>, Now.op \in {"Write", "Rename"}
    PROVE  IsPrefix(job.tdir, Now.to)
<1>1. Now \in Range(todo) /\ Now.to \in Path
  BY NowIs DEF Tasks, Named
<1>2. PICK i \in DOMAIN job.items : WorksOn(Now, i)
  BY <1>1 DEF WithinInv, Within
<1>. QED  BY <1>1, <1>2, BesideIs DEF WorksOn

\* What was uploaded is at the target.
LEMMA UploadedThere ==
    ASSUME TaskInv, TreeInv, UploadInv, LocalInv, StageInv, TidyInv, WithinInv, Uploaded,
           NEW p \in DOMAIN Here, IsPrefix(Now.from, p), NEW c, c = Here[p]
    PROVE  Written(c)
<1>1. /\ todo # << >> /\ Now.op = "Write" /\ CallOK /\ call.op = "Upload" /\ call.step = "done" /\ call.st = "Ok"
  BY AnsweredIs DEF Uploaded, AnsweredOk
<1>2. /\ call.path = Now.to /\ job.to = "remote"
      /\ Now.from \in DOMAIN Here /\ Here[Now.from] = call.data /\ IsFile(Here, Now.from)
  BY <1>1, UploadOf
<1>3. Now.to \in DOMAIN server.tree /\ server.tree[Now.to] = call.data
  BY <1>1, <1>2 DEF UploadInv
<1>4. p = Now.from
  <2>1. DOMAIN Here \subseteq Seq(Names) /\ Tidy(Here)
    <3>1. CASE job.from = "local"
      BY <3>1 DEF TreeInv, TreeOK, TidyInv, Here, TreeOf, Path
    <3>2. CASE job.from # "local"
      BY <3>2 DEF TreeInv, TreeOK, TidyInv, Here, TreeOf, Path
    <3>. QED  BY <3>1, <3>2
  <2>2. Now.from # << >>
    BY <1>1, NowIs DEF Tasks, Named
  <2>. QED  BY <1>2, <2>1, <2>2, FileIsEnd
<1>5. There' = server.tree
  <2>1. job' = job /\ server' = server
    BY DEF Uploaded, Engine, sessionVars
  <2>. QED  BY <1>2, <2>1, SidesThen
<1>6. IsPrefix(job.tdir, Now.to)
  BY <1>1, WritesThere
<1>7. \A u \in Range(todo') : u.op # "Write"
  <2>1. Range(todo') = Later
    BY SimpleTasks DEF Went
  <2>. QED  BY <1>1, <2>1, NowIs DEF Follows
<1>. QED  BY <1>1, <1>2, <1>3, <1>4, <1>5, <1>6, <1>7 DEF Written

\* So is what was downloaded.
LEMMA DownloadedThere ==
    ASSUME TaskInv, TreeInv, UploadInv, TidyInv, WithinInv, Downloaded, job.to = "local",
           local' = With(local, Now.to, call.data), Went({}),
           NEW p \in DOMAIN Here, IsPrefix(Now.from, p), NEW c, c = Here[p]
    PROVE  Written(c)
<1>1. /\ todo # << >> /\ Now.op = "Write" /\ CallOK /\ call.op = "Download" /\ call.step = "done" /\ call.st = "Ok"
  BY AnsweredIs DEF Downloaded, AnsweredOk
<1>2. job' = job
  BY DEF Downloaded, Engine
<1>3. There' = local' /\ Here = server.tree /\ ~ SameProvider
  BY <1>2, SidesThen
<1>4. call.path = Now.from
  BY <1>1, WriteCall
<1>5. IsFile(server.tree, Now.from) /\ server.tree[Now.from] = call.data
  BY <1>1, <1>4 DEF UploadInv
<1>6. p = Now.from
  <2>1. DOMAIN server.tree \subseteq Seq(Names) /\ Tidy(server.tree)
    BY DEF TreeInv, TreeOK, TidyInv, Path
  <2>2. Now.from # << >>
    BY <1>1, NowIs DEF Tasks, Named
  <2>3. p \in DOMAIN server.tree
    BY <1>3
  <2>. QED  BY <1>5, <2>1, <2>2, <2>3, FileIsEnd
<1>7. c = call.data
  BY <1>3, <1>5, <1>6
<1>8. There' = With(local, Now.to, call.data)
  BY <1>3
<1>9. Now.to \in DOMAIN There' /\ There'[Now.to] = c
  BY <1>7, <1>8, WithFrom
<1>10. \A u \in Range(todo') : u.op # "Write"
  BY <1>1, NowIs DEF Follows, Went
<1>11. IsPrefix(job.tdir, Now.to)
  BY <1>1, WritesThere
<1>. QED  BY <1>1, <1>9, <1>10, <1>11 DEF Written

\* Where the copying goes on, every file to be dropped is still to be copied or safe.
LEMMA DropNext ==
    ASSUME TaskInv, TreeInv, UploadInv, LocalInv, TidyInv, AnswerInv, StageInv, WithinInv, DropInv, AllFit,
           NothingOntoItsAncestor, [Next]_vars
    PROVE  DropInv'
<1>1. ASSUME clean', NEW t \in Range(todo'), t.op = "Drop",
             NEW p \in DOMAIN Here', IsPrefix(t.from, p), Real(Here'[p])
      PROVE  \/ \E x \in Range(todo') : x.op \in CopyOps /\ IsPrefix(x.from, p)
             \/ SafeNext(Here'[p], t.from)
  <2>1. todo' # << >>
    BY NoTask
  <2>2. CASE \E x \in Range(todo') : x.op \in CopyOps /\ x.from = t.from
    BY <1>1, <2>2
  <2>3. CASE todo # << >> /\ t \in Range(todo)
    <3>1. Now.op # "Item" /\ Now.op # "Rename" /\ ~ Moves(Now) /\ Now.op \notin DeleteOps
      <4>1. CASE t = Now
        <5>1. Good(Now)
          BY <2>3, NowIs
        <5>. QED  BY <1>1, <4>1, <5>1 DEF DeleteOps, Moves, Good
      <4>2. CASE t \in Later
        BY <1>1, <2>3, <4>2, NowIs DEF Follows, Moves, DeleteOps
      <4>. QED  BY <2>3, <4>1, <4>2, NowIs
    <3>2. clean
      BY <1>1, <3>1, CleanStep
    <3>3. PICK c : c = Here'[p]
      OBVIOUS
    <3>4. Real(c)
      BY <1>1, <3>3
    <3>5. CASE p \in DOMAIN Here /\ Here[p] = c
      <4>1. ToCopy(p) \/ Safe(c, t.from)
        <5>1. Real(Here[p])
          BY <3>4, <3>5
        <5>. QED  BY <1>1, <2>3, <3>2, <3>5, <5>1 DEF DropInv, Safe
      <4>2. CASE Safe(c, t.from)
        <5>1. SafeNext(c, t.from)
          BY <3>1, <3>4, <4>2, SafeStep
        <5>. QED  BY <3>3, <5>1
      <4>3. CASE \E u \in Range(todo) : u \in Range(todo') /\ u.op \in CopyOps /\ IsPrefix(u.from, p)
        BY <4>3
      <4>4. CASE Now.op \in CopyOps /\ IsPrefix(Now.from, p) /\ todo' # todo
        <5>1. t \in Later
          BY <1>1, <2>3, <4>4, NowIs DEF CopyOps
        <5>2. \/ \E x \in Range(todo') : x.op \in CopyOps /\ x.from = Now.from
              \/ KidsListed
              \/ Uploaded
              \/ Downloaded /\ job.to = "local" /\ local' = With(local, Now.to, call.data) /\ Went({})
          BY <1>1, <2>1, <2>3, <3>1, <4>4, CopyGoesOn
        <5>3. CASE KidsListed
          <6>1. Real(Here[p])
            BY <3>4, <3>5
          <6>. QED  BY <3>5, <4>4, <5>3, <6>1, KidsCover
        <5>6. ASSUME Written(c) PROVE SafeNext(Here'[p], t.from)
          <6>1. SameProvider => ~ IsPrefix(t.from, Now.to)
            BY <1>1, <2>3, <5>1, <5>6, NowIs DEF Written, Follows, FarFrom, CopyOps
          <6>2. SafeNext(c, t.from)
            BY <5>6, <6>1 DEF Written, SafeNext
          <6>. QED  BY <3>3, <6>2
        <5>4. CASE Uploaded
          <6>1. Written(c)
            BY <3>5, <4>4, <5>4, UploadedThere
          <6>. QED  BY <5>6, <6>1
        <5>5. CASE Downloaded /\ job.to = "local" /\ local' = With(local, Now.to, call.data) /\ Went({})
          <6>1. Written(c)
            BY <3>5, <4>4, <5>5, DownloadedThere
          <6>. QED  BY <5>6, <6>1
        <5>. QED  BY <4>4, <5>2, <5>3, <5>4, <5>5
      <4>5. ASSUME ToCopy(p) PROVE \/ \E u \in Range(todo) : u \in Range(todo') /\ u.op \in CopyOps /\ IsPrefix(u.from, p)
                                   \/ Now.op \in CopyOps /\ IsPrefix(Now.from, p) /\ todo' # todo
        <5>1. PICK u \in Range(todo) : u.op \in CopyOps /\ IsPrefix(u.from, p)
          BY <4>5 DEF ToCopy
        <5>2. CASE todo' = todo
          BY <5>1, <5>2
        <5>3. CASE todo' # todo
          BY <2>1, <2>3, <5>1, <5>3, NowIs DEF AllFit
        <5>. QED  BY <5>2, <5>3
      <4>. QED  BY <4>1, <4>2, <4>3, <4>4, <4>5
    <3>6. CASE todo' = todo /\ Now.op = "Write" /\ SameProvider /\ p = Now.to
      <4>1. t \in Later
        BY <1>1, <2>3, <3>6, NowIs
      <4>2. ~ IsPrefix(t.from, Now.to)
        BY <1>1, <2>3, <3>6, <4>1, NowIs DEF Follows, FarFrom, CopyOps
      <4>. QED  BY <1>1, <3>6, <4>2
    <3>. QED  BY <1>1, <3>1, <3>3, <3>5, <3>6, HereStep
  <2>4. t \in Range(todo) \/ \E x \in Range(todo') : x.op \in CopyOps /\ x.from = t.from
    <3>1. CASE todo' = todo
      BY <1>1, <3>1
    <3>2. CASE todo # << >> /\ Fits(t)
      BY <1>1, <3>2, NowIs DEF Fits, DeleteOps
    <3>. QED  BY <2>1, <3>1, <3>2, StepsHaveNow DEF AllFit
  <2>5. todo # << >>
    BY <2>1, StepsHaveNow
  <2>. QED  BY <2>2, <2>3, <2>4, <2>5
<1>2. (SameProvider' <=> SameProvider) /\ job' = job
  BY JobStays, GoodFrame
<1>. QED  BY <1>1, <1>2 DEF DropInv, ToCopy, Safe, SafeNext

-----------------------------------------------------------------------------
(* What is deleted.                                                           *)

\* What is deleted stays copied.
LEMMA DeleteNext ==
    ASSUME TaskInv, TreeInv, UploadInv, DropInv, DeleteInv, AllFit, [Next]_vars
    PROVE  DeleteInv'
<1>1. ASSUME job.kind # "Delete", NEW d \in Range(todo'), d.op \in DeleteOps
      PROVE  \E P \in {Append(job.sdir, job.items[i]) : i \in DOMAIN job.items} :
                /\ \A t \in Range(todo') : t.op \in DeleteOps => IsPrefix(P, t.from)
                /\ \A p \in DOMAIN Here' : IsPrefix(P, p) /\ Real(Here'[p]) => SafeNext(Here'[p], P)
  <2>1. todo' # << >> /\ todo # << >>
    <3>1. todo' # << >>
      BY <1>1, NoTask
    <3>. QED  BY <3>1, StepsHaveNow
  <2>2. /\ Now \in Range(todo) /\ Now \in Tasks /\ Good(Now) /\ Range(todo) = {Now} \cup Later
        /\ \A y \in Later : Follows(Now, y)
    BY <2>1, NowIs
  <2>3. CASE Now.op = "Drop" /\ clean /\ \A t \in Range(todo') : Fits(t)
    <3>1. PICK i \in DOMAIN job.items : Now.from = Append(job.sdir, job.items[i])
      BY <2>2, <2>3 DEF Good, ItemOf
    <3>2. PICK P : P = Now.from
      OBVIOUS
    <3>3. \A y \in Later : y.op \in {"End", "Item"}
      BY <2>2, <2>3 DEF Follows
    <3>4. ASSUME NEW t \in Range(todo'), t.op \in DeleteOps PROVE IsPrefix(P, t.from)
      <4>1. t.from = Now.from
        BY <1>1, <2>3, <3>3, <3>4 DEF Fits, DeleteOps
      <4>2. Now.from \in Seq(Names)
        BY <2>2 DEF Tasks, Named, Path
      <4>. QED  BY <3>2, <4>1, <4>2, PrefixRefl
    <3>5. ASSUME NEW p \in DOMAIN Here', IsPrefix(P, p), Real(Here'[p]) PROVE SafeNext(Here'[p], P)
      <4>1. PICK c : c = Here'[p]
        OBVIOUS
      <4>2. Real(c)
        BY <3>5, <4>1
      <4>3. p \in DOMAIN Here /\ Here[p] = c
        BY <2>3, <3>5, <4>1, HereStep
      <4>4. ~ ToCopy(p)
        BY <2>2, <2>3, <3>3 DEF ToCopy, CopyOps
      <4>5. Safe(c, P)
        <5>1. Real(Here[p])
          BY <4>2, <4>3
        <5>. QED  BY <2>2, <2>3, <3>2, <3>5, <4>3, <4>4, <5>1 DEF DropInv, Safe
      <4>6. SafeNext(c, P)
        BY <2>3, <4>2, <4>5, SafeStep DEF DeleteOps
      <4>. QED  BY <4>1, <4>6
    <3>. QED  BY <3>1, <3>2, <3>4, <3>5
  <2>4. CASE \E u \in Range(todo) : u.op \in DeleteOps
    <3>1. PICK P \in {Append(job.sdir, job.items[i]) : i \in DOMAIN job.items} :
              /\ \A t \in Range(todo) : t.op \in DeleteOps => IsPrefix(P, t.from)
              /\ \A p \in DOMAIN Here : IsPrefix(P, p) /\ Real(Here[p]) => Safe(Here[p], P)
      BY <1>1, <2>4 DEF DeleteInv
    <3>2. P \in Seq(Names)
      BY JobIs DEF TaskInv, Named, Path
    <3>3. Now.op \notin {"Rename", "Write", "Drop"}
      BY <2>2, <2>4 DEF Follows, Moves, DeleteOps, CopyOps
    <3>4. ASSUME NEW t \in Range(todo'), t.op \in DeleteOps PROVE IsPrefix(P, t.from)
      <4>1. CASE t \in Range(todo)
        BY <3>1, <3>4, <4>1
      <4>2. CASE Now.op \in DeleteOps /\ IsPrefix(Now.from, t.from)
        <5>1. IsPrefix(P, Now.from)
          BY <2>2, <3>1, <4>2
        <5>2. t \in Tasks
          <6>1. todo' \in Seq(GoodTasks')
            BY TaskNext DEF TaskInv
          <6>2. GoodTasks' = GoodTasks
            BY JobStays, GoodFrame
          <6>. QED  BY <6>1, <6>2 DEF Range, GoodTasks
        <5>3. Now.from \in Seq(Names) /\ t.from \in Seq(Names)
          BY <2>2, <5>2 DEF Tasks, Named, Path
        <5>. QED  BY <3>2, <4>2, <5>1, <5>3, PrefixTrans
      <4>3. CASE Fits(t)
        BY <1>1, <2>2, <3>3, <3>4, <4>1, <4>2, <4>3 DEF Fits, DeleteOps
      <4>. QED  BY <2>1, <4>1, <4>3 DEF AllFit
    <3>5. ASSUME NEW p \in DOMAIN Here', IsPrefix(P, p), Real(Here'[p]) PROVE SafeNext(Here'[p], P)
      <4>1. PICK c : c = Here'[p]
        OBVIOUS
      <4>2. Real(c)
        BY <3>5, <4>1
      <4>3. p \in DOMAIN Here /\ Here[p] = c
        BY <3>3, <3>5, <4>1, HereStep
      <4>4. Safe(c, P)
        <5>1. Real(Here[p])
          BY <4>2, <4>3
        <5>. QED  BY <3>1, <3>5, <4>3, <5>1 DEF Safe
      <4>5. SafeNext(c, P)
        BY <2>2, <3>1, <3>3, <4>2, <4>4, SafeStep
      <4>. QED  BY <4>1, <4>5
    <3>. QED  BY <3>1, <3>4, <3>5
  <2>5. (Now.op = "Drop" /\ clean /\ \A t \in Range(todo') : Fits(t)) \/ \E u \in Range(todo) : u.op \in DeleteOps
    <3>1. CASE todo' = todo
      BY <1>1, <3>1
    <3>2. CASE \A t \in Range(todo') : Fits(t)
      <4>1. Fits(d)
        BY <3>2
      <4>. QED  BY <1>1, <2>2, <3>2, <4>1 DEF Fits, DeleteOps
    <3>. QED  BY <2>1, <3>1, <3>2 DEF AllFit
  <2>. QED  BY <2>3, <2>4, <2>5
<1>2. (SameProvider' <=> SameProvider) /\ job' = job
  BY JobStays, GoodFrame
<1>. QED  BY <1>1, <1>2 DEF DeleteInv, Safe, SafeNext

-----------------------------------------------------------------------------
(* Where each file is.                                                        *)

\* The contents c is at the target, where no write under way puts a file.
Brought(c) ==
    \/ c \in waived
    \/ \E r \in DOMAIN There :
          /\ There[r] = c /\ IsPrefix(job.tdir, r)
          /\ \A t \in Range(todo) : t.op = "Write" => t.to # r

BroughtNext(c) ==
    \/ c \in waived'
    \/ \E r \in DOMAIN There' :
          /\ There'[r] = c /\ IsPrefix(job.tdir, r)
          /\ \A t \in Range(todo') : t.op = "Write" => t.to # r

\* The file p of the source is as it was, and no write under way puts a file there.
Still(p) ==
    /\ p \in DOMAIN Here /\ Here[p] = SourceTree[p]
    /\ SameProvider => \A t \in Range(todo) : t.op = "Write" => t.to # p

\* Every file to be copied or moved is where it was, or at the target.
PlaceInv == job.kind # "Delete" => \A p \in SourceFiles : Still(p) \/ Brought(SourceTree[p])

\* What is safe from a deletion, and what was just written, is at the target.
LEMMA SafeBrought ==
    ASSUME NEW c, NEW P
    PROVE  /\ Safe(c, P) => Brought(c)
           /\ SafeNext(c, P) => BroughtNext(c)
           /\ Written(c) => BroughtNext(c)
<1>1. Safe(c, P) => Brought(c)
  BY DEF Safe, Brought
<1>2. SafeNext(c, P) => BroughtNext(c)
  BY DEF SafeNext, BroughtNext
<1>3. Written(c) => BroughtNext(c)
  BY DEF Written, BroughtNext
<1>. QED  BY <1>1, <1>2, <1>3

\* What the source is read for is real contents.
LEMMA SourceIs ==
    ASSUME TaskInv, NEW p \in SourceFiles
    PROVE  p \in DOMAIN SourceTree /\ Real(SourceTree[p]) /\ p \in Path
<1>1. IsTree(SourceTree) /\ IsFile(SourceTree, p)
  BY JobIs DEF TaskInv, SourceTree, SourceFiles
<1>2. SourceTree[p] \notin {Folder, Partial, Other}
  BY <1>1 DEF IsTree, IsFile
<1>3. p \in Path
  BY <1>1 DEF IsTree, IsFile, Path
<1>. QED  BY <1>1, <1>2, <1>3 DEF Real, IsFile

\* What no write puts a file at is not written to next, or may be written over.
LEMMA StaysBrought ==
    ASSUME TaskInv, AllFit, [Next]_vars, NEW r \in DOMAIN There, NEW c, There[r] = c, Real(c),
           \A t \in Range(todo) : t.op = "Write" => t.to # r
    PROVE  c \in waived' \/ \A t \in Range(todo') : t.op = "Write" => t.to # r
<1>. SUFFICES ASSUME NEW t \in Range(todo'), t.op = "Write", t.to = r
              PROVE  c \in waived'
  OBVIOUS
<1>1. \/ \E u \in Range(todo) : u.op = "Write" /\ u.to = t.to
      \/ \A q \in DOMAIN There : q = t.to /\ Real(There[q]) => There[q] \in waived'
  BY NewWrites
<1>. QED  BY <1>1 DEF Real

\* A rename brings what it moves to where the operation goes.
LEMMA RenameBrings ==
    ASSUME TaskInv, TreeInv, UploadInv, TidyInv, WithinInv, [Next]_vars, ServerRenames,
           NEW q \in DOMAIN server.tree, IsPrefix(Now.from, q), NEW c, server.tree[q] = c
    PROVE  BroughtNext(c)
<1>1. todo' = todo /\ todo # << >> /\ Now.op = "Rename" /\ SameProvider
  BY DEF ServerRenames
<1>2. PICK x \in DOMAIN server'.tree : server'.tree[x] = server.tree[q] /\ IsPrefix(Now.to, x)
  BY RenameMoves
<1>3. There' = server'.tree
  BY <1>1, JobStays, SidesThen
<1>4. IsPrefix(job.tdir, x)
  <2>1. IsPrefix(job.tdir, Now.to)
    BY <1>1, WritesThere
  <2>2. job.tdir \in Seq(Names) /\ Now.to \in Seq(Names)
    BY <1>1, NowIs, JobIs DEF TaskInv, Tasks, Named, Path
  <2>3. TreeInv'
    BY TreeNext
  <2>4. x \in Seq(Names)
    BY <1>2, <2>3 DEF TreeInv, TreeOK, Path
  <2>. QED  BY <1>2, <2>1, <2>2, <2>4, PrefixTrans
<1>5. \A t \in Range(todo') : t.op # "Write"
  BY <1>1, WriteIsNow
<1>6. There'[x] = c /\ x \in DOMAIN There'
  BY <1>2, <1>3
<1>. QED  BY <1>4, <1>5, <1>6 DEF BroughtNext

\* What a deletion takes from where the operation goes is elsewhere there.
LEMMA DeleteBrings ==
    ASSUME TaskInv, TreeInv, UploadInv, DeleteInv, AllFit, [Next]_vars, job.kind # "Delete",
           todo # << >>, Now.op \in DeleteOps, Now.from \in DOMAIN Here, NEW c, Here[Now.from] = c, Real(c)
    PROVE  BroughtNext(c)
<1>1. Now \in Range(todo)
  BY NowIs
<1>2. PICK P : /\ IsPrefix(P, Now.from)
               /\ \A p \in DOMAIN Here : IsPrefix(P, p) /\ Real(Here[p]) => Safe(Here[p], P)
  BY <1>1 DEF DeleteInv
<1>3. Safe(c, P)
  <2>1. Real(Here[Now.from])
    BY DEF Real
  <2>. QED  BY <1>2, <2>1 DEF Safe
<1>4. SafeNext(c, P)
  BY <1>2, <1>3, SafeStep DEF DeleteOps
<1>. QED  BY <1>4, SafeBrought

\* What the current task replaces was given up.
LEMMA ReplacedWaived ==
    ASSUME TaskInv, TargetInv, ServerReplaces, Now.to \in DOMAIN There, Real(There[Now.to])
    PROVE  There[Now.to] \in waived
<1>1. todo # << >> /\ Now.op = "Rename" /\ Now.exists
  BY DEF ServerReplaces
<1>2. Now \in Range(todo)
  BY <1>1, NowIs
<1>. QED  BY <1>1, <1>2 DEF TargetInv

\* What is at the target stays there, or is elsewhere there.
LEMMA BroughtStep ==
    ASSUME TaskInv, TreeInv, UploadInv, TidyInv, TargetInv, WithinInv, DeleteInv, AllFit, [Next]_vars,
           job.kind # "Delete", NEW c, Real(c), Brought(c)
    PROVE  BroughtNext(c)
<1>1. waived \subseteq waived' /\ job' = job
  BY WaivedStay, JobStays
<1>2. CASE c \in waived
  BY <1>1, <1>2 DEF BroughtNext
<1>3. CASE c \notin waived
  <2>1. PICK r \in DOMAIN There :
           /\ There[r] = c /\ IsPrefix(job.tdir, r)
           /\ \A t \in Range(todo) : t.op = "Write" => t.to # r
    BY <1>3 DEF Brought
  <2>2. Real(There[r])
    BY <2>1
  <2>3. CASE r \in DOMAIN There' /\ There'[r] = c
    BY <2>1, <2>2, <2>3, StaysBrought DEF BroughtNext
  <2>4. CASE ServerRenames
    <3>1. There = server.tree /\ There' = server'.tree
      BY <1>1, <2>4, SidesThen DEF ServerRenames
    <3>2. CASE IsPrefix(Now.from, r)
      BY <2>1, <2>4, <3>1, <3>2, RenameBrings
    <3>3. CASE ~ IsPrefix(Now.from, r)
      BY <2>1, <2>3, <2>4, <3>1, <3>3, RenameMoves
    <3>. QED  BY <3>2, <3>3
  <2>5. CASE ServerReplaces /\ r = Now.to
    BY <1>3, <2>1, <2>2, <2>5, ReplacedWaived
  <2>6. CASE todo # << >> /\ Now.op = "Write" /\ r = Now.to
    BY <2>1, <2>6, NowIs
  <2>7. CASE todo # << >> /\ Now.op \in DeleteOps /\ SameProvider /\ r = Now.from
    <3>1. Here = There
      BY <2>7 DEF SameProvider, Here, There
    <3>2. Now.from \in DOMAIN Here /\ Here[Now.from] = c
      BY <2>1, <2>7, <3>1
    <3>. QED  BY <2>7, <3>2, DeleteBrings
  <2>. QED  BY <2>1, <2>2, <2>3, <2>4, <2>5, <2>6, <2>7, ThereStep
<1>. QED  BY <1>2, <1>3

\* The source loses contents only to the current delete, rename or write.
LEMMA HereLoses ==
    ASSUME TaskInv, TreeInv, UploadInv, [Next]_vars, NEW p \in DOMAIN Here, Real(Here[p])
    PROVE  \/ p \in DOMAIN Here' /\ Here'[p] = Here[p]
           \/ SameProvider /\ (ServerRenames \/ (ServerReplaces /\ p = Now.to))
           \/ SameProvider /\ todo # << >> /\ Now.op = "Write" /\ p = Now.to
           \/ todo # << >> /\ Now.op \in DeleteOps /\ p = Now.from
<1>1. job' = job
  BY JobStays
<1>2. CASE SameProvider
  <2>1. Here = There /\ Here' = There'
    BY <1>1, <1>2, SidesThen
  <2>2. p \in DOMAIN There /\ Real(There[p])
    BY <2>1
  <2>3. \/ p \in DOMAIN There' /\ There'[p] = There[p]
        \/ ServerRenames \/ (ServerReplaces /\ p = Now.to)
        \/ todo # << >> /\ Now.op = "Write" /\ p = Now.to
        \/ todo # << >> /\ Now.op \in DeleteOps /\ p = Now.from
    BY <2>2, ThereStep
  <2>. QED  BY <1>2, <2>1, <2>3
<1>3. CASE job.from = "local"
  <2>1. Here = local /\ Here' = local' /\ job.to # "local"
    BY <1>1, <1>3, SidesThen
  <2>2. CASE LocalDeletes
    <3>1. Here' = Without(Here, Now.from) /\ todo # << >> /\ Now.op \in DeleteOps
      BY <2>1, <2>2 DEF LocalDeletes
    <3>. QED  BY <3>1, WithoutFrom
  <2>. QED  BY <2>1, <2>2, LocalChange DEF LocalAdds, LocalWrites
<1>4. CASE job.from = "remote" /\ ~ SameProvider
  <2>1. Here = server.tree /\ Here' = server'.tree
    BY <1>1, <1>4, SidesThen
  <2>2. CASE ServerDeletes
    <3>1. Here' = Without(Here, Now.from) /\ todo # << >> /\ Now.op \in DeleteOps
      BY <2>1, <2>2 DEF ServerDeletes
    <3>. QED  BY <3>1, WithoutFrom
  <2>3. todo # << >> /\ todo' = todo /\ Now.op \in DeleteOps \cup {"Rename"} =>
            ServerDeletes \/ (p \in DOMAIN Here' /\ Here'[p] = Here[p])
    <3>1. CASE ServerSame
      BY <2>1, <3>1 DEF ServerSame
    <3>2. CASE ServerAdds
      <4>1. PICK q, c : IsFree(server.tree, q) /\ server'.tree = With(server.tree, q, c)
        BY <3>2 DEF ServerAdds
      <4>2. Here' = With(Here, q, c) /\ q # p
        BY <2>1, <4>1 DEF IsFree
      <4>. QED  BY <4>2, WithFrom
    <3>3. CASE ServerClears
      BY <3>3 DEF ServerClears, DeleteOps
    <3>. QED  BY <1>4, <3>1, <3>2, <3>3, ServerChange DEF ServerReplaces, ServerRenames
  <2>4. \/ p \in DOMAIN Here' /\ Here'[p] = Here[p]
        \/ todo # << >> /\ todo' = todo /\ Now.op \in DeleteOps \cup {"Rename"}
    BY <1>4, HereStays
  <2>. QED  BY <2>2, <2>3, <2>4
<1>. QED  BY <1>1, <1>2, <1>3, <1>4, SidesThen

\* A file to be copied or moved stays, or comes to the target.
LEMMA PlaceNext ==
    ASSUME TaskInv, TreeInv, UploadInv, TidyInv, TargetInv, WithinInv, DeleteInv, PlaceInv, AllFit, [Next]_vars
    PROVE  PlaceInv'
<1>1. job' = job /\ waived \subseteq waived' /\ (SameProvider' <=> SameProvider)
  BY WaivedStay, JobStays, GoodFrame
<1>2. ASSUME job.kind # "Delete", NEW p \in SourceFiles, NEW c, c = SourceTree[p]
      PROVE  \/ /\ p \in DOMAIN Here' /\ Here'[p] = c
                /\ SameProvider => \A t \in Range(todo') : t.op = "Write" => t.to # p
             \/ BroughtNext(c)
  <2>1. Real(c)
    BY <1>2, SourceIs
  <2>2. CASE Brought(c)
    BY <1>2, <2>1, <2>2, BroughtStep
  <2>3. CASE Still(p)
    <3>1. p \in DOMAIN Here /\ Here[p] = c /\ (SameProvider => \A t \in Range(todo) : t.op = "Write" => t.to # p)
      BY <1>2, <2>3 DEF Still
    <3>2. Real(Here[p])
      BY <2>1, <3>1
    <3>3. SameProvider => Here = There /\ Here = server.tree /\ Here' = server'.tree
      BY <1>1, SidesThen
    <3>4. CASE p \in DOMAIN Here' /\ Here'[p] = Here[p]
      <4>1. SameProvider => c \in waived' \/ \A t \in Range(todo') : t.op = "Write" => t.to # p
        BY <2>1, <3>1, <3>3, StaysBrought
      <4>. QED  BY <3>1, <3>4, <4>1 DEF BroughtNext
    <3>5. CASE SameProvider /\ ServerRenames
      <4>1. CASE IsPrefix(Now.from, p)
        BY <3>1, <3>3, <3>5, <4>1, RenameBrings
      <4>2. CASE ~ IsPrefix(Now.from, p)
        <5>1. p \in DOMAIN Here' /\ Here'[p] = Here[p]
          BY <3>1, <3>3, <3>5, <4>2, RenameMoves
        <5>. QED  BY <3>4, <5>1
      <4>. QED  BY <4>1, <4>2
    <3>6. CASE SameProvider /\ ServerReplaces /\ p = Now.to
      <4>1. c \in waived
        BY <3>1, <3>2, <3>3, <3>6, ReplacedWaived
      <4>. QED  BY <1>1, <4>1 DEF BroughtNext
    <3>7. CASE SameProvider /\ todo # << >> /\ Now.op = "Write" /\ p = Now.to
      BY <3>1, <3>7, NowIs
    <3>8. CASE todo # << >> /\ Now.op \in DeleteOps /\ p = Now.from
      BY <1>2, <2>1, <3>1, <3>8, DeleteBrings
    <3>. QED  BY <3>1, <3>2, <3>4, <3>5, <3>6, <3>7, <3>8, HereLoses
  <2>. QED  BY <1>2, <2>2, <2>3 DEF PlaceInv
<1>3. SourceFiles' = SourceFiles /\ SourceTree' = SourceTree
  BY <1>1 DEF SourceFiles, SourceTree, UnderItem
<1>. QED  BY <1>1, <1>2, <1>3 DEF PlaceInv, Still, Brought, BroughtNext

-----------------------------------------------------------------------------
(* What comes to the source.                                                  *)

\* The source gains what another client adds; inside one provider also the folders
\* and files of the current task, and what a rename brings.
LEMMA HereGains ==
    ASSUME TaskInv, TreeInv, UploadInv, TidyInv, [Next]_vars, NEW p \in DOMAIN Here'
    PROVE  \/ p \in DOMAIN Here /\ Here'[p] = Here[p]
           \/ Here'[p] = Other
           \/ SameProvider /\ todo # << >> /\ Now.op \in {"Mkdir", "Write"} /\ p = Now.to
           \/ SameProvider /\ ServerRenames /\ IsPrefix(Now.to, p)
<1>1. job' = job
  BY JobStays
<1>2. CASE job.from = "local"
  <2>1. Here = local /\ Here' = local' /\ job.to # "local"
    BY <1>1, <1>2, SidesThen
  <2>2. CASE LocalDeletes
    <3>1. Here' = Without(Here, Now.from)
      BY <2>1, <2>2 DEF LocalDeletes
    <3>. QED  BY <3>1, WithoutFrom
  <2>. QED  BY <2>1, <2>2, LocalChange DEF LocalAdds, LocalWrites
<1>3. CASE job.from = "remote"
  <2>1. Here = server.tree /\ Here' = server'.tree /\ (job.to = "remote" => SameProvider)
    BY <1>1, <1>3, SidesThen
  <2>2. CASE ServerSame
    BY <2>1, <2>2 DEF ServerSame
  <2>3. CASE ServerAdds
    <3>1. PICK q, c : /\ server'.tree = With(server.tree, q, c)
                      /\ \/ c = Folder /\ todo # << >> /\ Now.op = "Mkdir" /\ q = Now.to /\ job.to = "remote"
                         \/ c = Other
                         \/ todo # << >> /\ Now.op = "Write" /\ q = Now.to /\ call.op = "Upload" /\ CallOK
      BY <2>3 DEF ServerAdds
    <3>2. Here' = With(Here, q, c)
      BY <2>1, <3>1
    <3>3. CASE p # q
      BY <3>2, <3>3, WithFrom
    <3>4. CASE p = q /\ c # Other
      <4>1. job.to = "remote"
        BY <3>1, <3>4, UploadIs
      <4>. QED  BY <2>1, <3>1, <3>4, <4>1
    <3>5. CASE p = q /\ c = Other
      BY <3>2, <3>5, WithFrom
    <3>. QED  BY <3>3, <3>4, <3>5
  <2>4. ASSUME NEW q, server'.tree = Without(server.tree, q)
        PROVE  p \in DOMAIN Here /\ Here[p] = Here'[p]
    <3>1. Here' = Without(Here, q)
      BY <2>1, <2>4
    <3>. QED  BY <3>1, WithoutFrom
  <2>5. CASE ServerDeletes \/ ServerReplaces \/ ServerClears
    BY <2>4, <2>5 DEF ServerDeletes, ServerReplaces, ServerClears
  <2>6. CASE ServerRenames
    <3>1. SameProvider
      BY <2>6 DEF ServerRenames
    <3>2. CASE IsPrefix(Now.to, p)
      BY <2>6, <3>1, <3>2
    <3>3. CASE ~ IsPrefix(Now.to, p)
      BY <2>1, <2>6, <3>3, RenameMoves
    <3>. QED  BY <3>2, <3>3
  <2>. QED  BY <2>2, <2>3, <2>5, <2>6, ServerChange
<1>. QED  BY <1>1, <1>2, <1>3, SidesThen

\* An item of a move inside one provider does not go under itself.
Live(i) == job.kind = "Move" /\ SameProvider => ~ IsPrefix(SourceOf(i), TargetOf(i))

\* Nor does anything get a name beside the targets that is under such an item.
LEMMA OutOfNames ==
    ASSUME TaskInv, job.kind = "Move", SameProvider, NEW i \in DOMAIN job.items, Live(i), NEW n \in Names
    PROVE  ~ IsPrefix(SourceOf(i), Append(job.tdir, n))
<1>. SUFFICES ASSUME IsPrefix(SourceOf(i), Append(job.tdir, n)) PROVE FALSE
  OBVIOUS
<1>1. /\ job.sdir \in Seq(Names) /\ SourceOf(i) \in Seq(Names) /\ Parent(SourceOf(i)) = job.sdir
      /\ job.tdir \in Seq(Names) /\ TargetOf(i) \in Seq(Names) /\ IsPrefix(job.tdir, TargetOf(i))
  BY ItemPaths DEF Path
<1>2. CASE IsPrefix(SourceOf(i), job.tdir)
  <2>1. IsPrefix(SourceOf(i), TargetOf(i))
    BY <1>1, <1>2, PrefixTrans
  <2>. QED  BY <2>1 DEF Live
<1>3. CASE SourceOf(i) = Append(job.tdir, n)
  <2>1. job.sdir = job.tdir
    BY <1>1, <1>3, ChildIs
  <2>2. SourceOf(i) = TargetOf(i)
    BY <2>1 DEF SourceOf, TargetOf
  <2>3. IsPrefix(SourceOf(i), SourceOf(i))
    BY <1>1, PrefixRefl
  <2>. QED  BY <2>2, <2>3 DEF Live
<1>. QED  BY <1>1, <1>2, <1>3, PrefixOfChild

\* Nor does the target of any other item lie under it.
LEMMA OutOfTargets ==
    ASSUME TaskInv, job.kind = "Move", SameProvider, NothingOntoItsAncestor,
           NEW i \in DOMAIN job.items, Live(i), NEW j \in DOMAIN job.items
    PROVE  ~ IsPrefix(SourceOf(i), TargetOf(j)) /\ ~ IsPrefix(TargetOf(j), SourceOf(i))
<1>1. /\ job.sdir \in Seq(Names) /\ SourceOf(i) \in Seq(Names) /\ TargetOf(j) \in Seq(Names)
      /\ SourceOf(j) \in Seq(Names) /\ SourceOf(j) # << >> /\ Parent(SourceOf(j)) = job.sdir
      /\ IsPrefix(job.sdir, SourceOf(j))
  BY ItemPaths DEF Path, Named
<1>2. job \in Jobs /\ job.items \in Seq(Names)
  BY JobIs DEF TaskInv
<1>3. job.items[i] \in Names /\ job.items[j] \in Names
  BY <1>2
<1>4. ~ IsPrefix(SourceOf(i), TargetOf(j))
  BY <1>3, OutOfNames DEF TargetOf
<1>5. ASSUME IsPrefix(TargetOf(j), SourceOf(i)) PROVE FALSE
  <2>1. IsPrefix(TargetOf(j), job.sdir) \/ TargetOf(j) = SourceOf(i)
    BY <1>1, <1>3, <1>5, PrefixOfChild DEF SourceOf
  <2>2. CASE TargetOf(j) = SourceOf(i)
    BY <1>1, <1>4, <2>2, PrefixRefl
  <2>3. CASE IsPrefix(TargetOf(j), job.sdir)
    <3>1. IsPrefix(TargetOf(j), SourceOf(j))
      BY <1>1, <2>3, PrefixTrans
    <3>2. IsPrefix(SourceOf(j), TargetOf(j))
      BY <1>2, <3>1 DEF NothingOntoItsAncestor, SourceOf, TargetOf, SameProvider
    <3>3. IsPrefix(SourceOf(j), job.sdir)
      BY <1>1, <2>3, <3>2, PrefixTrans
    <3>4. ~ IsPrefix(SourceOf(j), Parent(SourceOf(j)))
      BY <1>1, ParentIs
    <3>. QED  BY <1>1, <3>3, <3>4
  <2>. QED  BY <2>1, <2>2, <2>3
<1>. QED  BY <1>4, <1>5

\* So nothing the current task makes, writes or renames comes to lie under it.
LEMMA OutOfItem ==
    ASSUME TaskInv, WithinInv, job.kind = "Move", SameProvider, NothingOntoItsAncestor,
           todo # << >>, Now.op \in {"Mkdir", "Write", "Rename"}, NEW i \in DOMAIN job.items, Live(i)
    PROVE  ~ IsPrefix(SourceOf(i), Now.to)
<1>. SUFFICES ASSUME IsPrefix(SourceOf(i), Now.to) PROVE FALSE
  OBVIOUS
<1>1. Now \in Range(todo) /\ Now.to \in Seq(Names)
  BY NowIs DEF Tasks, Named, Path
<1>2. PICK j \in DOMAIN job.items : WorksOn(Now, j)
  BY <1>1 DEF WithinInv, Within
<1>3. SourceOf(i) \in Seq(Names) /\ TargetOf(j) \in Seq(Names)
  BY ItemPaths DEF Path
<1>4. IsPrefix(TargetOf(j), Now.to) \/ \E n \in Names : Now.to = Append(job.tdir, n)
  BY <1>2 DEF WorksOn, Beside
<1>5. CASE IsPrefix(TargetOf(j), Now.to)
  BY <1>1, <1>3, <1>5, PrefixEither, OutOfTargets
<1>. QED  BY <1>4, <1>5, OutOfNames

\* Nothing but another client's files comes under an item that is moved or deleted.
LEMMA HereStaysOut ==
    ASSUME TaskInv, TreeInv, UploadInv, TidyInv, WithinInv, NothingOntoItsAncestor, [Next]_vars,
           job.kind # "Copy", NEW i \in DOMAIN job.items, Live(i),
           NEW p \in DOMAIN Here', IsPrefix(SourceOf(i), p)
    PROVE  (p \in DOMAIN Here /\ Here'[p] = Here[p]) \/ Here'[p] = Other
<1>1. job' = job /\ (SameProvider' <=> SameProvider)
  BY JobStays, GoodFrame
<1>2. todo # << >> => Now \in Range(todo) /\ Now.to \in Seq(Names) /\ Now.from \in Seq(Names)
  BY NowIs DEF Tasks, Named, Path
<1>3. todo # << >> /\ Now.op \in {"Mkdir", "Write", "Rename"} => job.kind = "Move"
  <2>1. job.kind \in {"Copy", "Move", "Delete"}
    BY JobIs DEF TaskInv
  <2>. QED  BY <1>2, <2>1 DEF WithinInv, Within, CopyOps, Moves
<1>4. CASE SameProvider /\ todo # << >> /\ Now.op \in {"Mkdir", "Write"} /\ p = Now.to
  BY <1>3, <1>4, OutOfItem
<1>5. CASE SameProvider /\ ServerRenames /\ IsPrefix(Now.to, p)
  <2>1. todo # << >> /\ Now.op = "Rename" /\ Now.from \in DOMAIN server.tree
    BY <1>5 DEF ServerRenames
  <2>2. ~ IsPrefix(SourceOf(i), Now.to)
    BY <1>3, <1>5, <2>1, OutOfItem
  <2>3. p \in Seq(Names)
    <3>1. TreeInv' /\ Here' = server'.tree
      BY <1>1, <1>5, TreeNext, SidesThen
    <3>. QED  BY <3>1 DEF TreeInv, TreeOK, Path
  <2>4. SourceOf(i) \in Seq(Names) /\ job.sdir \in Seq(Names)
    BY ItemPaths DEF Path
  <2>5. IsPrefix(Now.to, SourceOf(i))
    BY <1>2, <1>5, <2>1, <2>2, <2>3, <2>4, PrefixEither
  <2>6. job.items[i] \in Names
    BY JobIs DEF TaskInv
  <2>7. IsPrefix(Now.to, job.sdir) \/ Now.to = SourceOf(i)
    BY <1>2, <2>1, <2>4, <2>5, <2>6, PrefixOfChild DEF SourceOf
  <2>8. CASE Now.to = SourceOf(i)
    BY <2>2, <2>4, <2>8, PrefixRefl
  <2>9. CASE IsPrefix(Now.to, job.sdir)
    <3>1. PICK j \in DOMAIN job.items : IsPrefix(SourceOf(j), Now.from)
      BY <1>2, <2>1 DEF WithinInv, Within, WorksOn
    <3>2. SourceOf(j) \in Seq(Names) /\ IsPrefix(job.sdir, SourceOf(j))
      BY ItemPaths DEF Path
    <3>3. IsPrefix(Now.to, SourceOf(j))
      BY <1>2, <2>1, <2>4, <2>9, <3>2, PrefixTrans
    <3>4. IsPrefix(Now.to, Now.from)
      BY <1>2, <2>1, <3>1, <3>2, <3>3, PrefixTrans
    <3>. QED  BY <1>5, <2>1, <3>4, RenameMoves
  <2>. QED  BY <2>7, <2>8, <2>9
<1>. QED  BY <1>4, <1>5, HereGains
-----------------------------------------------------------------------------
(* What is gone from the source.                                              *)

\* Under a file, and under an empty folder, nothing else is.
LEMMA NothingUnder ==
    ASSUME NEW S, NEW t, DOMAIN t \subseteq Seq(S), Tidy(t), NEW d \in Seq(S), d # << >>,
           IsFile(t, d) \/ Children(t, d) = {}, NEW q \in DOMAIN t, IsPrefix(d, q)
    PROVE  q = d
<1>. SUFFICES ASSUME q # d PROVE FALSE
  OBVIOUS
<1>1. CASE IsFile(t, d)
  BY <1>1, FileIsEnd
<1>2. CASE Children(t, d) = {}
  <2>1. PICK c \in DOMAIN t : c # << >> /\ Parent(c) = d /\ IsPrefix(c, q)
    BY ChildOnTheWay
  <2>2. Len(c) = Len(Parent(c)) + 1
    BY <2>1, ParentIs
  <2>. QED  BY <1>2, <2>1, <2>2 DEF Children
<1>. QED  BY <1>1, <1>2

\* Nothing but another client's files is under the path q of the source.
Left(q) == \A p \in DOMAIN Here : IsPrefix(q, p) => Here[p] = Other
LeftNext(q) == \A p \in DOMAIN Here' : IsPrefix(q, p) => Here'[p] = Other

\* The current task was told that what it takes away is gone.
TookAway ==
    /\ todo # << >>
    /\ Now.op \in DeleteOps \/ (Now.op = "Rename" /\ ~ Now.exists)
    /\ call.op \in {"Delete", "Rename"} /\ call.step = "done" /\ call.st = "Ok"

GoneInv == TookAway => Left(Now.from)

\* A rename leaves nothing under the old path.
LEMMA RenamedAway ==
    ASSUME TaskInv, TreeInv, UploadInv, TidyInv, [Next]_vars, ServerRenames
    PROVE  \A p \in DOMAIN server'.tree : ~ IsPrefix(Now.from, p)
<1>. SUFFICES ASSUME NEW p \in DOMAIN server'.tree, IsPrefix(Now.from, p) PROVE FALSE
  OBVIOUS
<1>1. /\ todo # << >> /\ Now.op = "Rename" /\ Now.from \in DOMAIN server.tree /\ IsFree(server.tree, Now.to)
  BY DEF ServerRenames
<1>2. /\ Now.from \in Seq(Names) /\ Now.to \in Seq(Names) /\ Now.to # << >>
      /\ ~ IsPrefix(Now.from, Parent(Now.to))
  BY <1>1, NowIs DEF Tasks, Named, Path, Good, Moves
<1>3. IsPrefix(Now.to, p)
  BY RenameMoves
<1>4. p \in Seq(Names)
  BY TreeNext DEF TreeInv, TreeOK, Path
<1>5. ~ IsPrefix(Now.to, Now.from)
  BY <1>1, RenameMoves
<1>6. IsPrefix(Now.from, Now.to)
  BY <1>2, <1>3, <1>4, <1>5, PrefixEither
<1>7. /\ Parent(Now.to) \in Seq(Names) /\ Last(Now.to) \in Names
      /\ Append(Parent(Now.to), Last(Now.to)) = Now.to
  BY <1>2, ParentIs
<1>8. Now.from = Now.to
  <2>1. IsPrefix(Now.from, Append(Parent(Now.to), Last(Now.to)))
    BY <1>6, <1>7
  <2>. QED  BY <1>2, <1>7, <2>1, PrefixOfChild
<1>. QED  BY <1>1, <1>8 DEF IsFree

\* The local disk says so of what is gone.
LEMMA GoneEngine ==
    ASSUME TaskInv, TreeInv, TidyInv, Engines
    PROVE  GoneInv'
<1>1. CASE call' = NoCall
  BY <1>1, NoCallIs DEF GoneInv, TookAway
<1>2. CASE WriteFails
  <2>1. CallOK /\ Now.op = "Write" /\ todo # << >>
    BY <1>2, AnsweredIs DEF WriteFails, Downloaded, AnsweredOk
  <2>2. DOMAIN call = CallFields /\ call' = [call EXCEPT !.st = "Failed"]
    BY <1>2, <2>1, CallNow DEF WriteFails
  <2>3. call'.op = call.op
    BY <2>2 DEF CallFields
  <2>4. call'.op \in {"Download", "Upload"}
    BY <2>1, <2>3, WriteCall
  <2>. QED  BY <2>4 DEF GoneInv, TookAway
<1>3. CASE Call
  <2>0. /\ job' = job /\ todo' = todo /\ todo # << >> /\ Now \in Tasks /\ Now.op \notin {"Drop", "End"}
        /\ \/ call' = CallOf(Now)
           \/ SideOf(Now) = "local" /\ LocalCall(CallOf(Now))
    BY <1>3, CallBegins
  <2>3. Now' = Now
    BY <2>0 DEF Now
  <2>1. CASE call' = CallOf(Now)
    <3>1. call'.step = "start"
      BY <2>0, <2>1, CallHas
    <3>. QED  BY <3>1 DEF GoneInv, TookAway
  <2>2. CASE SideOf(Now) = "local" /\ LocalCall(CallOf(Now))
    <3>0. SUFFICES ASSUME TookAway' PROVE LeftNext(Now.from)
      BY <2>3 DEF GoneInv, Left, LeftNext
    <3>1. PICK c : c = CallOf(Now)
      OBVIOUS
    <3>2. /\ DOMAIN c = CallFields /\ c.st = "Ok" /\ c.found = << >>
          /\ c.op = "Delete" => \/ Now.op \in DeleteOps /\ c.path = Now.from
                                \/ Now.op = "Rename" /\ Now.exists /\ c.path = Now.to
          /\ c.op = "Rename" => Now.op = "Rename"
      BY <2>0, <3>1, CallHas
    <3>3. /\ call'.op = c.op
          /\ call'.st = "Ok" => LocalCan(c) /\ local' = LocalAfter(c)
      <4>1. LocalCall(c)
        BY <2>2, <3>1
      <4>. QED  BY <3>2, <4>1, LocalAnswer
    <3>4. /\ c.op \in {"Delete", "Rename"} /\ LocalCan(c) /\ local' = LocalAfter(c)
          /\ Now.op \in DeleteOps \/ (Now.op = "Rename" /\ ~ Now.exists)
      BY <2>3, <3>0, <3>3 DEF TookAway
    <3>5. job.from = "local"
      BY <2>2, <3>4, SidesAre
    <3>6. Now.op # "Rename"
      BY <2>0, <3>5, NowIs, JobIs DEF Good, Moves, TaskInv
    <3>7. c.op = "Delete" /\ Now.op \in DeleteOps /\ c.path = Now.from
      BY <3>2, <3>4, <3>6
    <3>8. Children(local, Now.from) = {}
      BY <3>4, <3>7, Zenon DEF LocalCan
    <3>9. local' = Without(local, Now.from)
      BY <3>4, <3>7, LocalAfterIs
    <3>10. Here' = local'
      BY <2>0, <3>5 DEF Here, TreeOf
    <3>11. DOMAIN local \subseteq Seq(Names) /\ Tidy(local)
      BY <3>5 DEF TreeInv, TreeOK, TidyInv, Path
    <3>12. Now.from \in Seq(Names) /\ Now.from # << >>
      BY <2>0 DEF Tasks, Named, Path
    <3>13. ASSUME NEW p \in DOMAIN Here', IsPrefix(Now.from, p) PROVE FALSE
      <4>1. p \in DOMAIN local /\ p # Now.from
        BY <3>9, <3>10, <3>13, WithoutFrom
      <4>. QED  BY <3>8, <3>11, <3>12, <3>13, <4>1, NothingUnder
    <3>. QED  BY <3>13 DEF LeftNext
  <2>. QED  BY <2>0, <2>1, <2>2
<1>. QED  BY <1>1, <1>2, <1>3, EngineStep

\* And so does the server.
LEMMA GoneSession ==
    ASSUME TaskInv, TreeInv, UploadInv, TidyInv, [Next]_vars, Session
    PROVE  GoneInv'
<1>0. /\ todo # << >> /\ CallOK /\ DOMAIN call = CallFields /\ SideOf(Now) # "local" /\ call.step # "done"
      /\ Now \in Tasks /\ Good(Now) /\ Now.op \notin {"Drop", "End"}
      /\ call.op = CallOf(Now).op /\ call.path = CallOf(Now).path /\ call.to = CallOf(Now).to
  BY SessionSide
<1>1. todo' = todo /\ job' = job
  <2>1. ~ Engines
    BY SessionNotEngine
  <2>. QED  BY <2>1, StepIs, JobStays DEF OutsideEngine, vars
<1>8. Now' = Now
  BY <1>1 DEF Now
<1>2. DOMAIN server = ServerFields
  BY DEF TreeInv, ServerFields
<1>3. SUFFICES ASSUME TookAway' PROVE LeftNext(Now.from)
  BY <1>8 DEF GoneInv, Left, LeftNext
<1>4. call.op \in {"Delete", "Rename"} /\ call'.st = "Ok"
  <2>1. call'.op = call.op
    BY <1>0, SessionCall DEF SameCall
  <2>. QED  BY <1>3, <2>1 DEF TookAway
<1>5. Now.op \in DeleteOps \/ (Now.op = "Rename" /\ ~ Now.exists)
  BY <1>3, <1>8 DEF TookAway
<1>6. CASE call.op = "Delete"
  <2>1. FsDelete
    BY <1>0, <1>6, SessionOps
  <2>2. Now.op \in DeleteOps /\ call.path = Now.from
    BY <1>0, <1>5, <1>6, CallHas DEF DeleteOps
  <2>3. Deletable(Now.from) /\ server'.tree = Without(server.tree, Now.from)
    <3>1. PICK st \in Statuses :
             /\ Result(st, Deletable(call.path), [server EXCEPT !.tree = Without(server.tree, call.path)])
             /\ Return(st)
      BY <2>1 DEF FsDelete
    <3>2. call' = [call EXCEPT !.step = "done", !.st = st]
      BY <3>1 DEF Return
    <3>3. st = "Ok"
      BY <1>0, <1>4, <3>2 DEF CallFields
    <3>4. Deletable(call.path) /\ server' = [server EXCEPT !.tree = Without(server.tree, call.path)]
      BY <3>1, <3>3 DEF Result
    <3>. QED  BY <1>2, <2>2, <3>4, ServerWith
  <2>4. IsFile(server.tree, Now.from) \/ Children(server.tree, Now.from) = {}
    BY <2>3 DEF Deletable
  <2>5. job.from = "remote"
    BY <1>0, <2>2, SidesAre, JobIs DEF TaskInv
  <2>6. Here' = server'.tree
    BY <1>1, <2>5, SidesThen
  <2>7. DOMAIN server.tree \subseteq Seq(Names) /\ Tidy(server.tree)
    BY DEF TreeInv, TreeOK, TidyInv, Path
  <2>8. Now.from \in Seq(Names) /\ Now.from # << >>
    BY <1>0 DEF Tasks, Named, Path
  <2>9. ASSUME NEW p \in DOMAIN Here', IsPrefix(Now.from, p) PROVE FALSE
    <3>1. p \in DOMAIN server.tree /\ p # Now.from
      BY <2>3, <2>6, <2>9, WithoutFrom
    <3>. QED  BY <2>4, <2>7, <2>8, <2>9, <3>1, NothingUnder
  <2>. QED  BY <2>9 DEF LeftNext
<1>7. CASE call.op = "Rename"
  <2>1. FsRename
    BY <1>0, <1>7, SessionOps
  <2>2. Now.op = "Rename" /\ ~ Now.exists /\ call.path = Now.from /\ call.to = Now.to
    BY <1>0, <1>7, CallHas
  <2>3. ServerRenames
    <3>1. PICK st \in Statuses :
             /\ Result(st, call.path \in DOMAIN server.tree /\ IsFree(server.tree, call.to),
                       [server EXCEPT !.tree = Renamed(server.tree, call.path, call.to)])
             /\ Return(st)
      BY <2>1 DEF FsRename
    <3>2. call' = [call EXCEPT !.step = "done", !.st = st]
      BY <3>1 DEF Return
    <3>3. st = "Ok"
      BY <1>0, <1>4, <3>2 DEF CallFields
    <3>4. /\ call.path \in DOMAIN server.tree /\ IsFree(server.tree, call.to)
          /\ server' = [server EXCEPT !.tree = Renamed(server.tree, call.path, call.to)]
      BY <3>1, <3>3 DEF Result
    <3>5. server'.tree = Renamed(server.tree, call.path, call.to)
      BY <1>2, <3>4, ServerWith
    <3>6. SameProvider
      BY <1>0, <2>2 DEF Good, Moves
    <3>. QED  BY <1>0, <1>1, <2>2, <3>4, <3>5, <3>6 DEF ServerRenames
  <2>4. Here' = server'.tree
    BY <1>1, <2>3, SidesThen DEF ServerRenames
  <2>5. ASSUME NEW p \in DOMAIN Here', IsPrefix(Now.from, p) PROVE FALSE
    BY <2>3, <2>4, <2>5, RenamedAway
  <2>. QED  BY <2>5 DEF LeftNext
<1>. QED  BY <1>4, <1>6, <1>7

\* What was said to be gone stays gone while the answer is read.
LEMMA GoneNext ==
    ASSUME TaskInv, TreeInv, UploadInv, TidyInv, GoneInv, [Next]_vars
    PROVE  GoneInv'
<1>1. CASE Engines
  BY <1>1, GoneEngine
<1>2. CASE Session
  BY <1>2, GoneSession
<1>3. CASE OtherClient /\ UNCHANGED OutsideEngine
  <2>1. job' = job /\ todo' = todo /\ local' = local /\ call' = call
    BY <1>3 DEF OutsideEngine, OtherClient
  <2>5. Now' = Now
    BY <2>1 DEF Now
  <2>2. PICK q \in OtherPaths : server' = [server EXCEPT !.tree = With(server.tree, q, Other)]
    BY <1>3 DEF OtherClient
  <2>3. server'.tree = With(server.tree, q, Other)
    <3>1. DOMAIN server = ServerFields
      BY DEF TreeInv, ServerFields
    <3>. QED  BY <2>2, <3>1, ServerWith
  <2>4. ASSUME TookAway' PROVE LeftNext(Now.from)
    <3>1. Left(Now.from)
      BY <2>1, <2>4, <2>5 DEF GoneInv, TookAway
    <3>2. ASSUME NEW p \in DOMAIN Here' PROVE (p \in DOMAIN Here /\ Here'[p] = Here[p]) \/ Here'[p] = Other
      <4>1. CASE job.from = "local"
        BY <2>1, <3>2, <4>1, SidesThen
      <4>2. CASE job.from = "remote"
        <5>1. Here = server.tree /\ Here' = With(Here, q, Other)
          BY <2>1, <2>3, <4>2, SidesThen
        <5>. QED  BY <3>2, <5>1, WithFrom
      <4>. QED  BY <2>1, <4>1, <4>2, SidesThen
    <3>. QED  BY <3>1, <3>2 DEF Left, LeftNext
  <2>. QED  BY <2>4, <2>5 DEF GoneInv, Left, LeftNext
<1>4. CASE FsClose /\ todo = << >> /\ UNCHANGED OutsideEngine
  BY <1>4 DEF OutsideEngine, GoneInv, TookAway
<1>5. CASE UNCHANGED vars
  <2>1. Now' = Now /\ Here' = Here /\ call' = call /\ todo' = todo
    BY <1>5 DEF vars, sessionVars, Now, Here, TreeOf
  <2>. QED  BY <2>1 DEF GoneInv, TookAway, Left
<1>. QED  BY <1>1, <1>2, <1>3, <1>4, <1>5, StepIs
-----------------------------------------------------------------------------
(* The tasks that bring and take away go on until it is done.                 *)

\* A rename that deleted the target goes on; otherwise it is done.
LEMMA RenameGoesOn ==
    ASSUME TaskInv, RenameDone
    PROVE  (\E x \in Range(todo') : Moves(x) /\ x.from = Now.from) \/ TookAway
<1>1. todo # << >> /\ Now.op = "Rename" /\ CallOK /\ call.step = "done"
  BY AnsweredIs DEF RenameDone
<1>2. Now \in Tasks /\ Now \in GoodTasks /\ Tail(todo) \in Seq(GoodTasks)
  BY <1>1, NowIs
<1>3. CASE Now.exists
  <2>1. PICK x : x = [Now EXCEPT !.exists = FALSE]
    OBVIOUS
  <2>2. x \in Tasks /\ x.op = Now.op /\ x.from = Now.from /\ x.to = Now.to /\ x.stage = Now.stage /\ x.then = Now.then
    BY <1>2, <2>1, TaskWith
  <2>3. x \in GoodTasks /\ \A y \in Later : Follows(x, y)
    BY <1>1, <2>2, SameTask
  <2>4. todo' = <<x>> \o Tail(todo)
    BY <1>3, <2>1 DEF RenameDone, Go
  <2>5. x \in Range(todo')
    BY <1>1, <2>3, <2>4, GoOne DEF Went
  <2>. QED  BY <1>1, <2>2, <2>5 DEF Moves
<1>4. CASE ~ Now.exists
  <2>1. call.st = "Ok"
    BY <1>4 DEF RenameDone
  <2>2. CallCases(Now)
    BY <1>1, <1>2, CallIs
  <2>3. CallOf(Now).op = "Rename"
    BY <1>1, <1>4, <2>2, NewCallIs DEF CallCases
  <2>4. call.op = "Rename"
    BY <1>1, <2>3 DEF CallOK
  <2>. QED  BY <1>1, <1>4, <2>1, <2>4 DEF TookAway
<1>. QED  BY <1>3, <1>4

\* A task that moves an item goes on until the rename is done.
LEMMA MoveGoesOn ==
    ASSUME TaskInv, [Next]_vars, clean', todo # << >>, Moves(Now)
    PROVE  \/ todo' = << >> \/ todo' = todo
           \/ \E x \in Range(todo') : Moves(x) /\ x.from = Now.from
           \/ TookAway
<1>1. Now \in Tasks /\ Now.op \in {"Rename", "Resolve"} /\ Good(Now)
  BY NowIs DEF Good, Moves
<1>2. CASE ~ Engines \/ Call
  BY <1>2, StepIs DEF OutsideEngine, vars, Call
<1>3. CASE Attempt
  <2>1. Again.op = Now.op /\ Again.from = Now.from /\ Again.then = Now.then
    BY <1>1, AgainIs
  <2>2. Moves(Again)
    BY <2>1 DEF Moves
  <2>3. Went({Again}) \/ Went({Recon, Again}) => Again \in Range(todo')
    BY DEF Went
  <2>4. Went({Again}) \/ Went({Recon, Again}) \/ todo' = << >>
    BY <1>3, AttemptTasks
  <2>. QED  BY <2>1, <2>2, <2>3, <2>4
<1>4. CASE RenameDone
  BY <1>4, RenameGoesOn
<1>5. CASE Escape
  BY <1>5 DEF Escape, Stop
<1>6. CASE \/ Reconnected \/ Decide \/ ItemFound \/ Looked \/ FolderSeen \/ FolderMade \/ KidsListed
           \/ Downloaded \/ Uploaded \/ Deleted
  BY <1>1, <1>6 DEF Reconnected, Decide, Decided, ItemFound, Looked, FolderSeen, FolderMade, KidsListed,
                    Downloaded, Uploaded, Deleted, AnsweredOk, Answered
<1>7. CASE ResolveFileConflict
  <2>1. Now.op = "Resolve" /\ Now.then = "Rename"
    BY <1>7 DEF ResolveFileConflict, Answered, Moves
  <2>2. CASE \E n \in Names : Went({ThisOther(n)}) /\ ThisOther(n).from = Now.from /\ ThisOther(n).then = Now.then
    BY <2>1, <2>2 DEF Went, Moves
  <2>3. CASE \E exists \in BOOLEAN : Went({ThisPut(exists)})
    <3>1. PICK exists \in BOOLEAN : Went({ThisPut(exists)})
      BY <2>3
    <3>2. ThisPut(exists).op = "Rename" /\ ThisPut(exists).from = Now.from
      BY <2>1, PutIs
    <3>. QED  BY <3>1, <3>2 DEF Went, Moves
  <2>4. todo' = << >> \/ (Went({}) /\ clean' = FALSE)
           \/ (\E n \in Names : Went({ThisOther(n)}) /\ ThisOther(n).from = Now.from /\ ThisOther(n).then = Now.then)
           \/ (\E exists \in BOOLEAN : Went({ThisPut(exists)}))
    BY <1>7, ResolveTasks
  <2>. QED  BY <2>2, <2>3, <2>4
<1>. QED  BY <1>2, <1>3, <1>4, <1>5, <1>6, <1>7 DEF Engines

\* A task that takes something away goes on until it is gone.
LEMMA TakesGoOn ==
    ASSUME TaskInv, [Next]_vars, clean', todo # << >>, Takes(Now)
    PROVE  \/ todo' = << >> \/ todo' = todo
           \/ \E x \in Range(todo') : Takes(x) /\ x.from = Now.from
           \/ TookAway
<1>1. CASE Moves(Now)
  BY <1>1, MoveGoesOn DEF Takes
<1>2. CASE Now.op \in DeleteOps \cup {"Drop"}
  <2>1. Now \in Tasks /\ Now \in GoodTasks
    BY NowIs
  <2>2. CASE ~ Engines \/ Call
    BY <2>2, StepIs DEF OutsideEngine, vars, Call
  <2>3. CASE Attempt
    <3>1. Again.op = Now.op /\ Again.from = Now.from
      BY <1>2, AgainIs DEF DeleteOps
    <3>2. Went({Again}) \/ Went({Recon, Again}) => Again \in Range(todo')
      BY DEF Went
    <3>3. Went({Again}) \/ Went({Recon, Again}) \/ todo' = << >>
      BY <2>3, AttemptTasks
    <3>. QED  BY <1>2, <3>1, <3>2, <3>3 DEF Takes
  <2>4. CASE Escape
    BY <2>4 DEF Escape, Stop
  <2>5. CASE \/ Reconnected \/ RenameDone \/ ItemFound \/ Looked \/ FolderSeen \/ FolderMade \/ KidsListed
             \/ Downloaded \/ Uploaded \/ ResolveFileConflict
    BY <1>2, <2>5 DEF Reconnected, RenameDone, ItemFound, Looked, FolderSeen, FolderMade, KidsListed,
                      Downloaded, Uploaded, ResolveFileConflict, AnsweredOk, Answered, DeleteOps
  <2>6. CASE Decide
    <3>1. Now.op = "Drop" /\ clean
      BY <1>2, <2>6 DEF Decide, Decided, DeleteOps
    <3>2. PICK x : x = Task("Delete", Now.from, Now.to, Now.dir)
      OBVIOUS
    <3>3. x.op = "Delete" /\ x.from = Now.from
      BY <3>2, TaskIs
    <3>4. Went({x})
      BY <2>6, <3>1, <3>2, DecideTasks
    <3>. QED  BY <3>3, <3>4 DEF Went, Takes, DeleteOps
  <2>7. CASE Deleted
    <3>1. CallOK /\ Now.op \in DeleteOps /\ call.step = "done" /\ call.st = "Ok"
      BY <2>7, DeletedTasks
    <3>2. CASE call.op = "List"
      <4>1. Went({ThisGone(p) : p \in DOMAIN call.found} \cup {ThisRemove})
            /\ ThisRemove.op = "Remove" /\ ThisRemove.from = Now.from
        BY <2>7, <3>2, DeletedTasks
      <4>. QED  BY <4>1 DEF Went, Takes, DeleteOps
    <3>3. CASE call.op # "List"
      <4>1. CallCases(Now)
        BY <2>1, <3>1, CallIs DEF DeleteOps
      <4>2. CallOf(Now).op \in {"List", "Delete"}
        BY <3>1, <4>1, NewCallIs DEF CallCases, DeleteOps
      <4>3. call.op = "Delete"
        BY <3>1, <3>3, <4>2 DEF CallOK
      <4>. QED  BY <3>1, <4>3 DEF TookAway
    <3>. QED  BY <3>2, <3>3
  <2>. QED  BY <2>2, <2>3, <2>4, <2>5, <2>6, <2>7 DEF Engines
<1>. QED  BY <1>1, <1>2 DEF Takes

\* A task that brings something goes on, its children are to be brought, or it is done.
LEMMA BringsGoOn ==
    ASSUME TaskInv, TreeInv, UploadInv, [Next]_vars, clean', todo # << >>, Brings(Now)
    PROVE  \/ todo' = << >> \/ todo' = todo
           \/ \E x \in Range(todo') : Brings(x) /\ x.from = Now.from
           \/ KidsListed
           \/ Uploaded
           \/ Downloaded /\ job.to = "local" /\ local' = With(local, Now.to, call.data) /\ Went({})
           \/ TookAway
<1>1. CASE Moves(Now)
  BY <1>1, MoveGoesOn DEF Brings
<1>2. CASE ~ Moves(Now)
  BY <1>2, CopyGoesOn DEF Brings
<1>. QED  BY <1>1, <1>2
-----------------------------------------------------------------------------
(* What an item waits for before it counts as done.                           *)

\* A file is to be brought, or taken away, by one of the tasks left.
Coming(p) == \E y \in Range(todo) : Brings(y) /\ IsPrefix(y.from, p)
ComingNext(p) == \E y \in Range(todo') : Brings(y) /\ IsPrefix(y.from, p)
Going(p) == \E y \in Range(todo) : Takes(y) /\ IsPrefix(y.from, p)
GoingNext(p) == \E y \in Range(todo') : Takes(y) /\ IsPrefix(y.from, p)

\* While nothing of the item was skipped, each of its files is copied or to be copied,
CopiedInv ==
    clean /\ job.kind # "Delete" =>
        \A x \in Range(todo) : x.op = "End" =>
            \A p \in SourceFiles : IsPrefix(x.from, p) => Brought(SourceTree[p]) \/ Coming(p)

\* and whatever is at its source is to be taken away, but for another client's.
TakenInv ==
    clean /\ job.kind # "Copy" =>
        \A x \in Range(todo) : x.op = "End" =>
            \A p \in DOMAIN Here : IsPrefix(x.from, p) => Here[p] = Other \/ Going(p)

\* The end of an item was there, or comes with what it waits for.
LEMMA EndsFit ==
    ASSUME TaskInv, AllFit, [Next]_vars, NEW x \in Range(todo'), x.op = "End"
    PROVE  /\ todo' # << >> /\ todo # << >>
           /\ \/ x \in Range(todo) /\ (clean' => Now.op # "Item" /\ clean)
              \/ EndFits(x)
<1>1. todo' # << >>
  BY NoTask
<1>2. todo # << >>
  BY <1>1, StepsHaveNow
<1>3. x \in Range(todo) \/ EndFits(x)
  <2>1. CASE todo' = todo
    BY <2>1
  <2>2. CASE Fits(x)
    BY <1>2, <2>2, NowIs DEF Fits, DeleteOps
  <2>. QED  BY <1>1, <2>1, <2>2 DEF AllFit
<1>4. ASSUME x \in Range(todo) PROVE Now.op # "Item"
  <2>1. CASE x \in Later
    BY <1>2, <2>1, NowIs DEF Follows
  <2>. QED  BY <1>2, <1>4, <2>1, NowIs
<1>. QED  BY <1>1, <1>2, <1>3, <1>4, CleanStep

\* A task is still to come after a step, unless it is the current one.
LEMMA TasksStay ==
    ASSUME TaskInv, AllFit, todo # << >>, todo' # << >>, NEW y \in Range(todo)
    PROVE  y \in Range(todo') \/ (y = Now /\ todo' # todo)
<1>1. CASE todo' = todo
  BY <1>1
<1>2. CASE todo' # todo
  BY <1>2, NowIs DEF AllFit
<1>. QED  BY <1>1, <1>2

\* Every file of a clean item stays copied or to be copied.
LEMMA CopiedNext ==
    ASSUME TaskInv, TreeInv, UploadInv, LocalInv, TidyInv, AnswerInv, StageInv, TargetInv, WithinInv, DeleteInv,
           PlaceInv, GoneInv, CopiedInv, AllFit, [Next]_vars
    PROVE  CopiedInv'
<1>1. ASSUME clean', job.kind # "Delete", NEW x \in Range(todo'), x.op = "End",
             NEW p \in SourceFiles, IsPrefix(x.from, p), NEW c, c = SourceTree[p]
      PROVE  BroughtNext(c) \/ ComingNext(p)
  <2>1. Real(c)
    BY <1>1, SourceIs
  <2>2. todo' # << >> /\ todo # << >> /\ ((x \in Range(todo) /\ Now.op # "Item" /\ clean) \/ EndFits(x))
    BY <1>1, EndsFit
  <2>3. CASE EndFits(x)
    BY <1>1, <2>3 DEF EndFits, ComingNext
  <2>4. CASE Brought(c)
    BY <1>1, <2>1, <2>4, BroughtStep
  <2>5. CASE x \in Range(todo) /\ clean /\ ~ Brought(c)
    <3>1. Coming(p)
      BY <1>1, <2>5 DEF CopiedInv
    <3>2. PICK y \in Range(todo) : Brings(y) /\ IsPrefix(y.from, p)
      BY <3>1 DEF Coming
    <3>3. CASE y \in Range(todo')
      BY <3>2, <3>3 DEF ComingNext
    <3>4. CASE y = Now /\ todo' # todo
      <4>1. p \in DOMAIN Here /\ Here[p] = c
        <5>1. Still(p)
          BY <1>1, <2>5 DEF PlaceInv
        <5>. QED  BY <1>1, <5>1 DEF Still
      <4>2. Real(Here[p])
        BY <2>1, <4>1
      <4>3. \/ \E z \in Range(todo') : Brings(z) /\ z.from = Now.from
            \/ KidsListed
            \/ Uploaded
            \/ Downloaded /\ job.to = "local" /\ local' = With(local, Now.to, call.data) /\ Went({})
            \/ TookAway
        BY <1>1, <2>2, <3>2, <3>4, BringsGoOn
      <4>4. CASE \E z \in Range(todo') : Brings(z) /\ z.from = Now.from
        BY <3>2, <3>4, <4>4 DEF ComingNext
      <4>5. CASE KidsListed
        <5>1. \E z \in Range(todo') : z.op \in CopyOps /\ IsPrefix(z.from, p)
          BY <3>2, <3>4, <4>1, <4>2, <4>5, KidsCover
        <5>. QED  BY <5>1 DEF ComingNext, Brings
      <4>6. CASE Uploaded
        <5>1. Written(c)
          BY <3>2, <3>4, <4>1, <4>6, UploadedThere
        <5>. QED  BY <5>1, SafeBrought
      <4>7. CASE Downloaded /\ job.to = "local" /\ local' = With(local, Now.to, call.data) /\ Went({})
        <5>1. Written(c)
          BY <3>2, <3>4, <4>1, <4>7, DownloadedThere
        <5>. QED  BY <5>1, SafeBrought
      <4>8. CASE TookAway
        <5>1. Here[p] = Other
          BY <3>2, <3>4, <4>1, <4>8 DEF GoneInv, Left
        <5>. QED  BY <4>2, <5>1 DEF Real
      <4>. QED  BY <4>3, <4>4, <4>5, <4>6, <4>7, <4>8
    <3>. QED  BY <2>2, <3>3, <3>4, TasksStay
  <2>. QED  BY <2>2, <2>3, <2>4, <2>5
<1>2. job' = job
  BY JobStays
<1>3. SourceFiles' = SourceFiles /\ SourceTree' = SourceTree
  BY <1>2 DEF SourceFiles, SourceTree, UnderItem
<1>. QED  BY <1>1, <1>2, <1>3 DEF CopiedInv, Brought, BroughtNext, Coming, ComingNext

\* Whatever is at the source of a clean item is still to be taken away.
LEMMA TakenNext ==
    ASSUME TaskInv, TreeInv, UploadInv, TidyInv, WithinInv, GoneInv, TakenInv, AllFit,
           NothingOntoItsAncestor, [Next]_vars
    PROVE  TakenInv'
<1>1. ASSUME clean', job.kind # "Copy", NEW x \in Range(todo'), x.op = "End",
             NEW p \in DOMAIN Here', IsPrefix(x.from, p), Here'[p] # Other
      PROVE  GoingNext(p)
  <2>1. todo' # << >> /\ todo # << >> /\ ((x \in Range(todo) /\ Now.op # "Item" /\ clean) \/ EndFits(x))
    BY <1>1, EndsFit
  <2>2. CASE EndFits(x)
    BY <1>1, <2>2 DEF EndFits, GoingNext
  <2>3. CASE x \in Range(todo) /\ clean
    <3>1. PICK i \in DOMAIN job.items : WorksOn(x, i)
      BY <2>3 DEF WithinInv, Within
    <3>2. x.from = SourceOf(i) /\ Live(i)
      BY <1>1, <3>1 DEF WorksOn, Live
    <3>3. p \in DOMAIN Here /\ Here'[p] = Here[p]
      BY <1>1, <3>2, HereStaysOut
    <3>4. Going(p)
      BY <1>1, <2>3, <3>3 DEF TakenInv
    <3>5. PICK y \in Range(todo) : Takes(y) /\ IsPrefix(y.from, p)
      BY <3>4 DEF Going
    <3>6. CASE y \in Range(todo')
      BY <3>5, <3>6 DEF GoingNext
    <3>7. CASE y = Now /\ todo' # todo
      <4>1. (\E z \in Range(todo') : Takes(z) /\ z.from = Now.from) \/ TookAway
        BY <1>1, <2>1, <3>5, <3>7, TakesGoOn
      <4>2. CASE TookAway
        BY <1>1, <3>3, <3>5, <3>7, <4>2 DEF GoneInv, Left
      <4>3. CASE \E z \in Range(todo') : Takes(z) /\ z.from = Now.from
        BY <3>5, <3>7, <4>3 DEF GoingNext
      <4>. QED  BY <4>1, <4>2, <4>3
    <3>. QED  BY <2>1, <3>6, <3>7, TasksStay
  <2>. QED  BY <2>1, <2>2, <2>3
<1>2. job' = job
  BY JobStays
<1>. QED  BY <1>1, <1>2 DEF TakenInv, Going, GoingNext

-----------------------------------------------------------------------------
(* What counts as done.                                                       *)

\* The item whose source is q was copied in full, and is gone if it was to go.
Finished(q) ==
    /\ \E i \in DOMAIN job.items : q = SourceOf(i) /\ Live(i)
    /\ job.kind # "Delete" => \A p \in SourceFiles : IsPrefix(q, p) => Brought(SourceTree[p])
    /\ job.kind # "Copy" => Left(q)

DoneInv == \A q \in done : Finished(q)

\* Only the end of a clean item counts it.
LEMMA DoneStep ==
    ASSUME [Next]_vars
    PROVE  done' = done \/ (todo # << >> /\ Now.op = "End" /\ clean /\ done' = done \cup {Now.from})
<1>1. CASE Decide
  BY <1>1 DEF Decide, Counted
<1>2. CASE Call \/ Attempt \/ Reconnected \/ Escape \/ ItemFound \/ Looked \/ RenameDone \/ FolderSeen
           \/ FolderMade \/ KidsListed \/ Downloaded \/ Uploaded \/ Deleted \/ ResolveFileConflict
  BY <1>2 DEF Call, Attempt, Reconnected, Escape, ItemFound, Looked, RenameDone, FolderSeen, FolderMade,
              KidsListed, Downloaded, Uploaded, Deleted, ResolveFileConflict
<1>3. CASE ~ Engines
  BY <1>3, StepIs DEF OutsideEngine, vars
<1>. QED  BY <1>1, <1>2, <1>3 DEF Engines

\* A clean item whose end is reached is finished.
LEMMA EndIsFinished ==
    ASSUME TaskInv, WithinInv, CopiedInv, TakenInv, todo # << >>, Now.op = "End", clean
    PROVE  Finished(Now.from)
<1>1. Now \in Range(todo) /\ Range(todo) = {Now} \cup Later
  BY NowIs
<1>2. \A y \in Range(todo) : ~ Brings(y) /\ ~ Takes(y)
  <2>1. ASSUME NEW y \in Later PROVE y.op = "Item" /\ ~ Moves(y)
    <3>1. y.op = "Item" /\ Good(y)
      BY <2>1, NowIs DEF Follows, GoodTasks
    <3>. QED  BY <3>1 DEF Good, Moves
  <2>2. ~ Moves(Now)
    BY NowIs DEF Good, Moves
  <2>. QED  BY <1>1, <2>1, <2>2 DEF Brings, Takes, CopyOps, DeleteOps
<1>3. PICK i \in DOMAIN job.items : WorksOn(Now, i)
  BY <1>1 DEF WithinInv, Within
<1>4. Now.from = SourceOf(i) /\ Live(i)
  BY <1>3 DEF WorksOn, Live
<1>5. ASSUME job.kind # "Delete", NEW p \in SourceFiles, IsPrefix(Now.from, p) PROVE Brought(SourceTree[p])
  BY <1>1, <1>2, <1>5 DEF CopiedInv, Coming
<1>6. ASSUME job.kind # "Copy" PROVE Left(Now.from)
  BY <1>1, <1>2, <1>6 DEF TakenInv, Going, Left
<1>. QED  BY <1>4, <1>5, <1>6 DEF Finished

\* What is finished stays so.
LEMMA DoneNext ==
    ASSUME TaskInv, TreeInv, UploadInv, TidyInv, TargetInv, WithinInv, DeleteInv, CopiedInv, TakenInv, DoneInv,
           AllFit, NothingOntoItsAncestor, [Next]_vars
    PROVE  DoneInv'
<1>1. ASSUME NEW q \in done' PROVE Finished(q)
  BY <1>1, DoneStep, EndIsFinished DEF DoneInv
<1>2. ASSUME NEW q, Finished(q)
      PROVE  /\ \E i \in DOMAIN job.items : q = SourceOf(i) /\ Live(i)
             /\ job.kind # "Delete" =>
                   \A p \in SourceFiles : IsPrefix(q, p) => \A c : c = SourceTree[p] => BroughtNext(c)
             /\ job.kind # "Copy" => LeftNext(q)
  <2>1. PICK i \in DOMAIN job.items : q = SourceOf(i) /\ Live(i)
    BY <1>2 DEF Finished
  <2>2. ASSUME job.kind # "Delete", NEW p \in SourceFiles, IsPrefix(q, p), NEW c, c = SourceTree[p]
        PROVE  BroughtNext(c)
    <3>1. Real(c)
      BY <2>2, SourceIs
    <3>2. Brought(c)
      BY <1>2, <2>2 DEF Finished
    <3>. QED  BY <2>2, <3>1, <3>2, BroughtStep
  <2>3. ASSUME job.kind # "Copy", NEW p \in DOMAIN Here', IsPrefix(q, p) PROVE Here'[p] = Other
    <3>1. (p \in DOMAIN Here /\ Here'[p] = Here[p]) \/ Here'[p] = Other
      BY <2>1, <2>3, HereStaysOut
    <3>. QED  BY <1>2, <2>3, <3>1 DEF Finished, Left
  <2>. QED  BY <2>1, <2>2, <2>3 DEF LeftNext
<1>3. job' = job /\ (SameProvider' <=> SameProvider)
  BY JobStays, GoodFrame
<1>4. SourceFiles' = SourceFiles /\ SourceTree' = SourceTree
  BY <1>3 DEF SourceFiles, SourceTree, UnderItem
<1>5. \A i : SourceOf(i)' = SourceOf(i) /\ (Live(i)' <=> Live(i))
  BY <1>3 DEF SourceOf, TargetOf, Live
<1>. QED  BY <1>1, <1>2, <1>3, <1>4, <1>5 DEF DoneInv, Finished, Brought, BroughtNext, Left, LeftNext

-----------------------------------------------------------------------------
(* What is written over was asked about.                                      *)

\* What holds throughout: the session, trees in order, answers that are so, tasks
\* of items, and that what is replaced was waived or is the source's own.
AskInv ==
    /\ SessionInv
    /\ TidyInv /\ AnswerInv
    /\ StageInv /\ TargetInv /\ WithinInv

\* It holds initially.
LEMMA InitAsk ==
    ASSUME Init
    PROVE  AskInv /\ \A t \in Range(todo) : t.op = "Item" /\ t.then = "None"
<1>1. SessionInv /\ TaskInv
  BY InitSession DEF SessionInv
<1>2. job \in Jobs /\ local = job.local /\ server.tree = job.server /\ call = NoCall
  BY DEF Init, RemoteInit
<1>3. IsTree(job.local) /\ IsTree(job.server)
  BY <1>2, JobIs
<1>4. TidyInv
  BY <1>2, <1>3 DEF TidyInv, Tidy, IsTree
<1>5. AnswerInv
  BY <1>2, NoCallIs DEF AnswerInv, StatOK, ListOK
<1>6. \A t \in Range(todo) : /\ t.op = "Item" /\ t.then = "None"
                             /\ \E i \in DOMAIN job.items : t.from = SourceOf(i) /\ t.to = TargetOf(i)
  <2>1. DOMAIN todo = DOMAIN job.items
    BY DEF Init
  <2>2. \A i \in DOMAIN todo : todo[i] = Task("Item", SourceOf(i), TargetOf(i), FALSE)
    BY DEF Init, SourceOf, TargetOf
  <2>3. \A i \in DOMAIN todo : /\ todo[i].op = "Item" /\ todo[i].then = "None"
                               /\ todo[i].from = SourceOf(i) /\ todo[i].to = TargetOf(i)
    BY <2>2 DEF Task
  <2>. QED  BY <2>1, <2>3 DEF Range
<1>7. StageInv /\ TargetInv
  BY <1>6 DEF StageInv, TargetInv
<1>8. WithinInv
  <2>1. ASSUME NEW t \in Range(todo) PROVE Within(t)
    <3>1. PICK i \in DOMAIN job.items : t.from = SourceOf(i) /\ t.to = TargetOf(i)
      BY <1>6
    <3>2. IsPrefix(t.from, t.from) /\ IsPrefix(t.to, t.to)
      BY <1>1, <3>1, ItemPaths, PrefixRefl DEF Path
    <3>3. t.op = "Item" /\ t.then = "None"
      BY <1>6
    <3>4. WorksOn(t, i)
      BY <3>1, <3>2, <3>3 DEF WorksOn
    <3>. QED  BY <3>3, <3>4 DEF Within, Moves, CopyOps, DeleteOps
  <2>. QED  BY <2>1 DEF WithinInv
<1>. QED  BY <1>1, <1>4, <1>5, <1>6, <1>7, <1>8 DEF AskInv

\* Every step keeps it.
LEMMA AskNext ==
    ASSUME AskInv, [Next]_vars
    PROVE  AskInv'
<1>1. /\ TaskInv /\ TreeInv /\ CacheInv /\ UploadInv /\ LocalInv
      /\ TidyInv /\ AnswerInv /\ StageInv /\ TargetInv /\ WithinInv
  BY DEF AskInv, SessionInv
<1>2. AllFit
  BY <1>1, NewTasks
<1>3. SessionInv'
  BY SessionNext DEF AskInv
<1>4. TidyInv'
  BY <1>1, TidyNext
<1>5. AnswerInv'
  BY <1>1, AnswerNext
<1>6. StageInv'
  BY <1>1, <1>2, StageNext
<1>7. TargetInv'
  BY <1>1, <1>2, TargetNext
<1>8. WithinInv'
  BY <1>1, WithinNext
<1>. QED  BY <1>3, <1>4, <1>5, <1>6, <1>7, <1>8 DEF AskInv

\* Whatever a copy or a move does between providers, also with answers given for
\* all the files to come and names typed in between, a file at the target is
\* written over only if the user agreed to that very file, or if a failed or
\* outdated listing hid it from the question (ProviderCopy.cpp).
THEOREM NothingUnasked == Spec => OverwriteAsked
<1>1. Init => AskInv
  BY InitAsk
<1>2. AskInv /\ [Next]_vars => AskInv'
  BY AskNext
<1>3. AskInv /\ [Next]_vars => [job.kind # "Delete" => Overwritten \subseteq agreed \cup unseen]_vars
  BY OnlyAsked DEF AskInv, SessionInv
<1>. QED  BY <1>1, <1>2, <1>3, PTL DEF Spec, OverwriteAsked

-----------------------------------------------------------------------------
(* A copy or a move keeps every content, and does what it counts.             *)

\* What holds throughout: beside that, that what is dropped or deleted was waived
\* or is elsewhere, where each file is, and what the end of an item waits for.
MoveInv ==
    /\ AskInv
    /\ DropInv /\ DeleteInv /\ PlaceInv
    /\ GoneInv /\ CopiedInv /\ TakenInv /\ DoneInv

\* The invariant of a move holds initially.
LEMMA InitMove ==
    ASSUME Init
    PROVE  MoveInv
<1>1. AskInv /\ \A t \in Range(todo) : t.op = "Item" /\ t.then = "None"
  BY InitAsk
<1>2. job \in Jobs /\ local = job.local /\ server.tree = job.server /\ call = NoCall /\ done = {}
  BY DEF Init, RemoteInit
<1>3. DropInv /\ CopiedInv /\ TakenInv
  BY <1>1 DEF DropInv, CopiedInv, TakenInv
<1>4. DeleteInv
  BY <1>1 DEF DeleteInv, DeleteOps
<1>5. PlaceInv
  <2>1. Here = SourceTree
    BY <1>2 DEF Here, TreeOf, SourceTree
  <2>2. SourceFiles \subseteq DOMAIN SourceTree
    BY DEF SourceFiles
  <2>. QED  BY <1>1, <2>1, <2>2 DEF PlaceInv, Still
<1>6. GoneInv /\ DoneInv
  BY <1>2, NoCallIs DEF GoneInv, TookAway, DoneInv
<1>. QED  BY <1>1, <1>3, <1>4, <1>5, <1>6 DEF MoveInv

\* And every step keeps it.
LEMMA MoveNext ==
    ASSUME NothingOntoItsAncestor, MoveInv, [Next]_vars
    PROVE  MoveInv'
<1>1. /\ TaskInv /\ TreeInv /\ CacheInv /\ UploadInv /\ LocalInv
      /\ TidyInv /\ AnswerInv /\ StageInv /\ TargetInv /\ WithinInv
      /\ DropInv /\ DeleteInv /\ PlaceInv /\ GoneInv /\ CopiedInv /\ TakenInv /\ DoneInv
  BY DEF MoveInv, AskInv, SessionInv
<1>2. AllFit
  BY <1>1, NewTasks
<1>3. AskInv'
  BY AskNext DEF MoveInv
<1>4. DropInv' /\ DeleteInv'
  BY <1>1, <1>2, DropNext, DeleteNext
<1>5. PlaceInv'
  BY <1>1, <1>2, PlaceNext
<1>6. GoneInv'
  BY <1>1, GoneNext
<1>7. CopiedInv' /\ TakenInv'
  BY <1>1, <1>2, CopiedNext, TakenNext
<1>8. DoneInv'
  BY <1>1, <1>2, DoneNext
<1>. QED  BY <1>3, <1>4, <1>5, <1>6, <1>7, <1>8 DEF MoveInv

\* A file that is where it was, or at the target, is somewhere.
LEMMA PlaceKeeps ==
    ASSUME TaskInv, PlaceInv
    PROVE  MoveKeepsContent
<1>. SUFFICES ASSUME job.kind # "Delete", NEW p \in SourceFiles
              PROVE  SourceTree[p] \in ContentsOf(local) \cup ContentsOf(server.tree) \cup waived
  BY DEF MoveKeepsContent
<1>1. (Here = local \/ Here = server.tree) /\ (There = local \/ There = server.tree)
  BY DEF Here, There, TreeOf
<1>2. Still(p) \/ Brought(SourceTree[p])
  BY DEF PlaceInv
<1>. QED  BY <1>1, <1>2 DEF Still, Brought, ContentsOf

\* What is finished was done.
LEMMA FinishedDone ==
    ASSUME DoneInv
    PROVE  SuccessMeansDone
<1>. SUFFICES ASSUME NEW p \in SourceFiles, NEW s \in done, IsPrefix(s, p)
              PROVE  /\ job.kind # "Delete" =>
                          SourceTree[p] \in waived \cup ContentsOf(Restrict(There,
                              {q \in DOMAIN There : IsPrefix(job.tdir, q)}))
                     /\ job.kind # "Copy" => p \notin DOMAIN Here \/ Here[p] = Other
  BY DEF SuccessMeansDone, Here, There
<1>1. Finished(s)
  BY DEF DoneInv
<1>2. ASSUME job.kind # "Delete"
      PROVE  SourceTree[p] \in waived \cup ContentsOf(Restrict(There, {q \in DOMAIN There : IsPrefix(job.tdir, q)}))
  <2>1. Brought(SourceTree[p])
    BY <1>1, <1>2 DEF Finished
  <2>. QED  BY <2>1 DEF Brought, ContentsOf, Restrict
<1>3. job.kind # "Copy" => p \notin DOMAIN Here \/ Here[p] = Other
  BY <1>1 DEF Finished, Left
<1>. QED  BY <1>2, <1>3

\* Unless an item is moved onto a folder that it is in, a copy or a move between
\* providers keeps the contents of every file, whatever fails, is cancelled, lost,
\* retried or skipped, and whatever another client adds meanwhile (ProviderCopy.cpp).
THEOREM ContentIsKept == NothingOntoItsAncestor => (Spec => []MoveKeepsContent)
<1>1. SUFFICES ASSUME NothingOntoItsAncestor PROVE Spec => []MoveKeepsContent
  OBVIOUS
<1>2. Init => MoveInv
  BY InitMove
<1>3. MoveInv /\ [Next]_vars => MoveInv'
  BY <1>1, MoveNext
<1>4. MoveInv => MoveKeepsContent
  BY PlaceKeeps DEF MoveInv, AskInv, SessionInv
<1>. QED  BY <1>2, <1>3, <1>4, PTL DEF Spec

\* With the same exception, an item that is counted as succeeded was copied in full to
\* the folder the operation goes to, but for files later written over with the user's
\* consent, and a moved or deleted one has left its source, whatever failed before and
\* was retried, and in whatever order the questions came (ProviderCopy.cpp).
THEOREM SuccessIsDone == NothingOntoItsAncestor => (Spec => []SuccessMeansDone)
<1>1. SUFFICES ASSUME NothingOntoItsAncestor PROVE Spec => []SuccessMeansDone
  OBVIOUS
<1>2. Init => MoveInv
  BY InitMove
<1>3. MoveInv /\ [Next]_vars => MoveInv'
  BY <1>1, MoveNext
<1>4. MoveInv => SuccessMeansDone
  BY FinishedDone DEF MoveInv
<1>. QED  BY <1>2, <1>3, <1>4, PTL DEF Spec
=============================================================================
