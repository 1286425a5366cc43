----------------------------- MODULE RemotePanel -----------------------------
(* One connected server as a file-system provider (RemotePanel.cpp, shared by *)
(* the FTP and the SFTP plugin): the provider calls of the host, answered     *)
(* through the calls of a protocol client.  Each client call is one step; a   *)
(* call that fails, is cancelled or loses the connection may have been        *)
(* performed all the same, and another client may change the server between   *)
(* any two of them.                                                           *)
(*                                                                            *)
(* A tree is a function from the paths that exist to their contents, Folder   *)
(* for a folder.  A path is a sequence of names; the part file of a path is   *)
(* kept apart, under the path it is to become.                                *)
EXTENDS Naturals, Sequences, FiniteSets, SequencesExt, Functions

CONSTANTS
    Names,       \* the names of files and folders
    Folder,      \* what a tree has for a folder
    Partial,     \* what an interrupted upload leaves in a file
    Other,       \* what another client writes
    OtherPaths,  \* where another client may put a file
    NoPath,      \* no folder is cached
    MaxFaults,   \* bound: calls that fail, are cancelled or lose the connection
    MaxOthers    \* bound: files other clients create

ASSUME RemoteAssumption ==
    /\ MaxFaults \in Nat /\ MaxOthers \in Nat
    /\ Folder # Partial /\ Partial # Other /\ Other # Folder
    /\ OtherPaths \subseteq Seq(Names) \ {<< >>}
    /\ NoPath \notin Seq(Names)

VARIABLES
    server,        \* [tree, parts]: the files and the part files on the server
    connected,     \* the client's connection is up
    cache,         \* cachedDir (NoPath unless cacheValid) and cached
    pendingParts,  \* unfinished uploads to remove after a reconnect or on close
    call,          \* the provider call in progress, and its answer
    faults,        \* how many calls went wrong
    others,        \* how many files other clients created
    touched,       \* history: paths the cache cannot know the truth about
    stray          \* history: part files whose removal was tried and failed

remoteVars == <<server, connected, cache, pendingParts, call, faults, others,
                touched, stray>>

-----------------------------------------------------------------------------
(* Trees.                                                                     *)

Parent(p) == Front(p)
Children(t, d) == {p \in DOMAIN t : Len(p) = Len(d) + 1 /\ Parent(p) = d}
IsFolder(t, p) == p \in DOMAIN t /\ t[p] = Folder
IsFile(t, p) == p \in DOMAIN t /\ t[p] # Folder
IsFree(t, p) == p \notin DOMAIN t /\ IsFolder(t, Parent(p))

With(t, p, c) == [q \in DOMAIN t \cup {p} |-> IF q = p THEN c ELSE t[q]]
Without(t, p) == Restrict(t, DOMAIN t \ {p})

\* The tree with `from`, and what is under it, at `to`.
Moved(q, from, to) == to \o SubSeq(q, Len(from) + 1, Len(q))
Renamed(t, from, to) ==
    LET under == {q \in DOMAIN t : IsPrefix(from, q)}
        moved == {Moved(u, from, to) : u \in under}
    IN  [q \in (DOMAIN t \ under) \cup moved |->
            IF q \in moved THEN t[Moved(q, to, from)] ELSE t[q]]

\* What a listing of `d` says: each child, and whether it is a folder.
Listing(t, d) == [p \in Children(t, d) |-> t[p] = Folder]

-----------------------------------------------------------------------------
(* A client call (external).  `can`: the server would perform it, to become   *)
(* `after`; a rename never overwrites.                                        *)

Result(st, can, after) ==
    \/ /\ connected
       /\ st = (IF can THEN "Ok" ELSE "Failed")
       /\ server' = (IF can THEN after ELSE server)
       /\ UNCHANGED <<connected, faults>>
    \/ /\ ~ connected
       /\ st = "ConnectionLost"
       /\ UNCHANGED <<server, connected, faults>>
    \/ /\ connected
       /\ faults < MaxFaults
       /\ faults' = faults + 1
       /\ st \in {"Failed", "Cancelled", "ConnectionLost"}
       /\ connected' = (st # "ConnectionLost")
       /\ server' \in {server} \cup (IF can /\ st # "Failed" THEN {after} ELSE {})

Statuses == {"Ok", "Failed", "Cancelled", "ConnectionLost"}

HasPart(p) == p \in DOMAIN server.parts

-----------------------------------------------------------------------------
(* The provider calls.  A call starts at step "start" and is answered when it *)
(* is at "done".  found: what Stat or List found; blind: no listing told so.  *)

NoCall == [op |-> "None"]

NewCall(op, path, to, data) ==
    [op |-> op, path |-> path, to |-> to, data |-> data, step |-> "start",
     st |-> "Ok", found |-> << >>, blind |-> FALSE]

At(op, step) == call.op = op /\ call.step = step
Return(st) == call' = [call EXCEPT !.step = "done", !.st = st]

CacheUpsert(p, isDir) ==
    IF cache.dir # Parent(p) THEN cache
    ELSE [cache EXCEPT !.list = [q \in DOMAIN @ \cup {p} |-> IF q = p THEN isDir ELSE @[q]]]

CacheRemove(p) ==
    IF cache.dir # Parent(p) THEN cache
    ELSE [cache EXCEPT !.list = Restrict(@, DOMAIN @ \ {p})]

NoCache == [dir |-> NoPath, list |-> << >>]

\* What is tried on a path without an Ok may have happened nevertheless.
Touch(st, paths) == touched' = IF st = "Ok" THEN touched ELSE touched \cup paths

\* RemovePendingParts: every part is deleted, none remembered, whatever the
\* server says of it.  Called when a connection was just made, or on close.
RemovePendingParts(up) ==
    LET there == pendingParts \cap DOMAIN server.parts
    IN  \E kept \in SUBSET there :
          /\ up => kept = {} \/ faults < MaxFaults
          /\ ~ up => kept = there
          /\ server' = [server EXCEPT !.parts = Restrict(@, DOMAIN @ \ (there \ kept))]
          /\ faults' = faults + (IF up /\ kept # {} THEN 1 ELSE 0)
          /\ stray' = stray \cup kept
          /\ pendingParts' = {}

-----------------------------------------------------------------------------
(* FsList and FsStat, and the cache between them.                             *)

ListedDir == IF call.op = "List" THEN call.path ELSE Parent(call.path)

\* A cache of up to 30 seconds answers Stat; it may be younger or older.
FsStatCached ==
    /\ At("Stat", "start")
    /\ cache.dir = Parent(call.path)
    /\ call' = [call EXCEPT !.step = "done",
                            !.st = IF call.path \in DOMAIN cache.list THEN "Ok" ELSE "NotFound",
                            !.found = Restrict(cache.list, DOMAIN cache.list \cap {call.path})]
    /\ UNCHANGED <<server, connected, cache, pendingParts, faults, others, touched, stray>>

\* ListFolder.  For Stat, a folder that cannot be listed has no such file.
Listed(st) ==
    LET list == Listing(server.tree, ListedDir)
        mine == IF call.op = "List" THEN list
                ELSE Restrict(list, DOMAIN list \cap {call.path})
    IN  IF st = "Ok"
        THEN /\ cache' = [dir |-> ListedDir, list |-> list]
             /\ touched' = {q \in touched : Parent(q) # ListedDir}
             /\ call' = [call EXCEPT !.step = "done", !.found = mine,
                                     !.st = IF call.op = "Stat" /\ mine = << >>
                                            THEN "NotFound" ELSE "Ok"]
        ELSE /\ UNCHANGED <<cache, touched>>
             /\ call' = [call EXCEPT !.step = "done", !.blind = TRUE,
                                     !.st = IF call.op = "Stat" /\ st = "Failed"
                                            THEN "NotFound" ELSE st]

ListFolder ==
    /\ call.op \in {"List", "Stat"}
    /\ call.step \in {"start", "again"}
    /\ \E st \in Statuses :
          /\ Result(st, IsFolder(server.tree, ListedDir), server)
          /\ \/ Listed(st)
             \/ /\ st = "ConnectionLost" /\ call.step = "start"
                /\ call' = [call EXCEPT !.step = "offer"]
                /\ UNCHANGED <<cache, touched>>
    /\ UNCHANGED <<pendingParts, others, stray>>

\* Connect: the user agreed to reconnect, here or by Retry.
Connect(ok) ==
    IF ok THEN connected' = TRUE /\ RemovePendingParts(TRUE)
    ELSE /\ faults < MaxFaults /\ faults' = faults + 1
         /\ connected' = FALSE
         /\ UNCHANGED <<server, pendingParts, stray>>

OfferReconnect ==
    /\ call.op \in {"List", "Stat"} /\ call.step = "offer"
    /\ \E ok \in BOOLEAN :
          /\ Connect(ok)
          /\ IF ok THEN call' = [call EXCEPT !.step = "again"]
             ELSE call' = [call EXCEPT !.step = "done", !.st = "ConnectionLost", !.blind = TRUE]
    /\ UNCHANGED <<cache, others, touched>>

FsReconnect ==
    /\ At("Reconnect", "start")
    /\ \E ok \in BOOLEAN :
          /\ Connect(ok)
          /\ cache' = IF ok THEN NoCache ELSE cache
          /\ Return(IF ok THEN "Ok" ELSE "ConnectionLost")
    /\ UNCHANGED <<others, touched>>

-----------------------------------------------------------------------------
(* FsMakeDirectory, FsDelete and FsRename, one client call each.              *)

\* Mutant of CacheAfterDelete: the deleted name stays in the cache.
CacheKept(st) == cache

CacheAfterDelete(st) == IF st = "Ok" THEN CacheRemove(call.path) ELSE cache

Deletable(p) ==
    \/ IsFile(server.tree, p)
    \/ IsFolder(server.tree, p) /\ Children(server.tree, p) = {}
                                /\ Children(server.parts, p) = {}

FsDelete ==
    /\ At("Delete", "start")
    /\ \E st \in Statuses :
          /\ Result(st, Deletable(call.path), [server EXCEPT !.tree = Without(@, call.path)])
          /\ cache' = CacheAfterDelete(st)
          /\ Touch(st, {call.path})
          /\ Return(st)
    /\ UNCHANGED <<pendingParts, others, stray>>

FsMakeDirectory ==
    /\ At("Mkdir", "start")
    /\ \E st \in Statuses :
          /\ Result(st, IsFree(server.tree, call.path),
                    [server EXCEPT !.tree = With(@, call.path, Folder)])
          /\ cache' = IF st = "Ok" THEN CacheUpsert(call.path, TRUE) ELSE cache
          /\ Touch(st, {call.path})
          /\ Return(st)
    /\ UNCHANGED <<pendingParts, others, stray>>

FsRename ==
    /\ At("Rename", "start")
    /\ \E st \in Statuses :
          /\ Result(st, call.path \in DOMAIN server.tree /\ IsFree(server.tree, call.to),
                    [server EXCEPT !.tree = Renamed(@, call.path, call.to)])
          /\ cache' = IF st = "Ok" THEN NoCache ELSE cache
          /\ Touch(st, {call.path, call.to})
          /\ Return(st)
    /\ UNCHANGED <<pendingParts, others, stray>>

\* The client writes into a local file the caller removes unless all of it came.
FsDownloadToFile ==
    /\ At("Download", "start")
    /\ \E st \in Statuses :
          /\ Result(st, IsFile(server.tree, call.path), server)
          /\ call' = [call EXCEPT !.step = "done", !.st = st,
                                  !.data = IF st = "Ok" THEN server.tree[call.path] ELSE @]
    /\ UNCHANGED <<cache, pendingParts, others, touched, stray>>
-----------------------------------------------------------------------------
(* UploadReplacing, one client call after the other: the part file is written *)
(* ("start") and renamed over the target ("place"); if the server refuses,    *)
(* the target is deleted ("clear") and the rename tried again ("again").  If  *)
(* that fails the part file is removed ("undo").                              *)

\* Mutant of AfterFailure: the part is forgotten when the connection is lost.
AfterFailureForgets(st) ==
    /\ call' = [call EXCEPT !.step = IF st = "ConnectionLost" THEN "done" ELSE "undo", !.st = st]
    /\ pendingParts' = pendingParts \ {call.path}

\* After a lost connection the part is left for RemovePendingParts.
AfterFailure(st) ==
    /\ call' = [call EXCEPT !.step = IF st = "ConnectionLost" THEN "done" ELSE "undo", !.st = st]
    /\ pendingParts' = pendingParts \cup {call.path}

\* An upload that was stopped leaves what it had sent.
Interrupted(st, p) ==
    /\ connected /\ IsFolder(server.tree, Parent(p))
    /\ faults < MaxFaults /\ faults' = faults + 1
    /\ st \in {"Failed", "Cancelled", "ConnectionLost"}
    /\ connected' = (st # "ConnectionLost")
    /\ server' = [server EXCEPT !.parts = With(@, p, Partial)]

UploadPart ==
    /\ At("Upload", "start")
    /\ \E st \in Statuses :
          /\ \/ Result(st, IsFolder(server.tree, Parent(call.path)),
                       [server EXCEPT !.parts = With(@, call.path, call.data)])
             \/ Interrupted(st, call.path)
          /\ IF st = "Ok"
             THEN /\ call' = [call EXCEPT !.step = "place"]
                  /\ pendingParts' = pendingParts \cup {call.path}
             ELSE AfterFailure(st)
    /\ UNCHANGED <<cache, others, touched, stray>>

\* RenameRemote(part, path).
Place(st) ==
    Result(st, HasPart(call.path) /\ IsFree(server.tree, call.path),
           [tree |-> With(server.tree, call.path,
                          IF HasPart(call.path) THEN server.parts[call.path] ELSE Partial),
            parts |-> Without(server.parts, call.path)])

\* Mutant of Placed: the new file is not noted in the cache.
PlacedUncached ==
    /\ pendingParts' = pendingParts \ {call.path}
    /\ Return("Ok")
    /\ UNCHANGED <<cache, touched>>

Placed ==
    /\ pendingParts' = pendingParts \ {call.path}
    /\ cache' = CacheUpsert(call.path, FALSE)
    /\ Return("Ok")
    /\ UNCHANGED touched

NotPlaced(st) ==
    /\ AfterFailure(st)
    /\ Touch(st, {call.path})
    /\ UNCHANGED cache

PlacePart ==
    /\ call.op = "Upload" /\ call.step \in {"place", "again"}
    /\ \E st \in Statuses :
          /\ Place(st)
          /\ \/ st = "Ok" /\ Placed
             \/ /\ st = "Failed" /\ call.step = "place"
                /\ call' = [call EXCEPT !.step = "clear"]
                /\ UNCHANGED <<pendingParts, cache, touched>>
             \/ st # "Ok" /\ ~ (st = "Failed" /\ call.step = "place") /\ NotPlaced(st)
    /\ UNCHANGED <<others, stray>>

\* DeleteRemoteFile(path): unless it is Ok the first rename's Failed stands.
ClearTarget ==
    /\ At("Upload", "clear")
    /\ \E st \in Statuses :
          /\ Result(st, IsFile(server.tree, call.path),
                    [server EXCEPT !.tree = Without(@, call.path)])
          /\ IF st = "Ok"
             THEN /\ call' = [call EXCEPT !.step = "again"]
                  /\ UNCHANGED <<pendingParts, cache, touched>>
             ELSE NotPlaced("Failed")
    /\ UNCHANGED <<others, stray>>

\* DeleteRemoteFile(part): what it answers is ignored.
UndoPart ==
    /\ At("Upload", "undo")
    /\ \E st \in Statuses :
          /\ Result(st, HasPart(call.path), [server EXCEPT !.parts = Without(@, call.path)])
          /\ stray' = stray \cup ({call.path} \cap DOMAIN server'.parts)
    /\ pendingParts' = pendingParts \ {call.path}
    /\ Return(call.st)
    /\ UNCHANGED <<cache, others, touched>>

-----------------------------------------------------------------------------
\* FsClose: the session ends when no call is in progress.
FsClose ==
    /\ call = NoCall
    /\ RemovePendingParts(connected)
    /\ connected' = FALSE
    /\ call' = [op |-> "Closed"]
    /\ UNCHANGED <<cache, others, touched>>

\* Another client puts a file where there is none.
OtherClient ==
    /\ others < MaxOthers
    /\ \E p \in OtherPaths :
          /\ IsFree(server.tree, p)
          /\ server' = [server EXCEPT !.tree = With(@, p, Other)]
          /\ touched' = touched \cup {p}
    /\ others' = others + 1
    /\ UNCHANGED <<connected, cache, pendingParts, call, faults, stray>>

RemoteInit(tree) ==
    /\ server = [tree |-> tree, parts |-> << >>]
    /\ connected = TRUE
    /\ cache = NoCache
    /\ pendingParts = {} /\ call = NoCall
    /\ faults = 0 /\ others = 0 /\ touched = {} /\ stray = {}

Session ==
    \/ FsStatCached \/ ListFolder \/ OfferReconnect \/ FsReconnect
    \/ FsDelete \/ FsMakeDirectory \/ FsRename \/ FsDownloadToFile
    \/ UploadPart \/ PlacePart \/ ClearTarget \/ UndoPart

-----------------------------------------------------------------------------
(* Properties.                                                                *)

\* FsStat's cache follows the session's own changes: what it says of a path is
\* so, unless another client put a file there, a call on it did not end well, or
\* an upload is under way to it (RemotePanel.cpp:119-133, 267-394).
CacheTracksOwnChanges ==
    \A p \in DOMAIN cache.list \cup (IF cache.dir = NoPath THEN {} ELSE Children(server.tree, cache.dir)) :
        \/ \E q \in touched : IsPrefix(q, p)
        \/ call.op = "Upload" /\ call.path = p
        \/ /\ p \in DOMAIN cache.list /\ p \in DOMAIN server.tree
           /\ cache.list[p] = (server.tree[p] = Folder)

\* A half-written file is never seen under the name it is meant for
\* (RemotePanel.h:12-16). It is a part, and one the session will remove, is
\* making, or tried to remove and could not: no path through UploadReplacing
\* just forgets it (RemotePanel.h:78).
PartsRemembered ==
    /\ DOMAIN server.parts \subseteq pendingParts \cup stray
    /\ \A p \in DOMAIN server.tree : server.tree[p] # Partial
=============================================================================
