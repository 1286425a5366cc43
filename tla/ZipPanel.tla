------------------------------ MODULE ZipPanel ------------------------------
(* ZIP archives as panel folders (ZipPlugin.cpp): an opened archive is read   *)
(* into memory, edited there, and written back over the file when the panel   *)
(* leaves it.  Each panel that opens the archive has its own copy.  The host  *)
(* asks Save / Don't save / Cancel on leaving and before quitting             *)
(* (PluginManager.cpp, main.cpp); the write may fail half-way, and another    *)
(* program may replace the file at any time.                                  *)
(*                                                                            *)
(* An archive is a function from paths to entries, Broken when the file is    *)
(* not one.  A path is a sequence of names; a folder is there because it has  *)
(* a marker or because something is in it.  Everything the plugin does runs   *)
(* to its end on the main thread, the questions it asks included.             *)
EXTENDS Naturals, Sequences, FiniteSets, SequencesExt, Functions

CONSTANTS
    Panels,        \* the panels, in the order they are asked on quitting
    Paths,         \* the paths the user may name
    NewBytes,      \* what the user may write in a file
    Marker,        \* what a folder's marker has for content
    Passwords,     \* the passwords a user may type
    NoKey,         \* of an entry: plain; of a view: no password is known
    Broken,        \* the file is no archive: cut short, gone or something else
    Archives,      \* what the file may be at first
    OtherArchives, \* what another program may put there
    Nobody,
    MaxEdits,      \* bound: edits
    MaxFaults,     \* bound: writes of the file that fail
    MaxOthers      \* bound: times another program replaces the file

ASSUME ZipAssumption ==
    /\ Panels \in Seq(Range(Panels)) /\ Panels # << >>
    /\ Nobody \notin Range(Panels) /\ NoKey \notin Passwords
    /\ MaxEdits \in Nat /\ MaxFaults \in Nat /\ MaxOthers \in Nat

VARIABLES
    archive, \* the file
    views,   \* g_archives: what each panel has open
    phase,   \* "run", "quit" while quitting asks the panels, "gone"
    asking,  \* the panels quitting has still to ask
    edits, faults, others,
    synced,  \* history: the views that read or wrote the file as it is now
    gaveUp   \* history: who in the last step agreed to lose unsaved changes

vars == <<archive, views, phase, asking, edits, faults, others, synced, gaveUp>>

Sides == Range(Panels)
Root == << >>
Parent(p) == Front(p)

-----------------------------------------------------------------------------
(* Entries, and the file they are packed into.                                *)

IsFile(e, p) == p \in DOMAIN e /\ e[p] # Marker
FolderExists(e, p) ==
    \/ p = Root
    \/ \E q \in DOMAIN e : IsPrefix(p, q) /\ (q = p => e[q] = Marker)
HasContent(e, p) == \E q \in DOMAIN e : IsStrictPrefix(p, q)

With(e, p, c) == [q \in DOMAIN e \cup {p} |-> IF q = p THEN c ELSE e[q]]
Without(e, p) == Restrict(e, DOMAIN e \ {p})

Moved(q, from, to) == to \o SubSeq(q, Len(from) + 1, Len(q))
Renamed(e, from, to) ==
    LET under == IF IsFile(e, from) THEN {from} ELSE {q \in DOMAIN e : IsPrefix(from, q)}
        moved == {Moved(u, from, to) : u \in under}
    IN  [q \in (DOMAIN e \ under) \cup moved |->
            IF q \in moved THEN e[Moved(q, to, from)] ELSE e[q]]

\* The entries of the file that need a password, and those that are damaged.
Locked(a) == {p \in DOMAIN a : a[p].key # NoKey}
Damaged(a) == {p \in DOMAIN a : a[p].damaged}
Readable(a) == [p \in DOMAIN a \ Damaged(a) |-> a[p].bytes]

Packed(e, key) ==
    [p \in DOMAIN e |-> [bytes |-> e[p], damaged |-> FALSE,
                         key |-> IF e[p] = Marker THEN NoKey ELSE key]]

-----------------------------------------------------------------------------
(* Reading and writing the file.  A view is what one panel has open.          *)

Closed == [open |-> FALSE, entries |-> << >>, dirty |-> FALSE, encrypted |-> FALSE,
           key |-> NoKey]

LoadedView(v, a, key) ==
    [v EXCEPT !.open = TRUE, !.entries = Readable(a), !.dirty = FALSE,
              !.encrypted = Locked(a) # {}, !.key = key]

\* Nothing but the password of a view changes when reading fails.
FailedLoadPartly(v, a, key) == [v EXCEPT !.key = key, !.entries = Restrict(Readable(a),
    {p \in DOMAIN Readable(a) : a[p].key \in {NoKey, key}})]
FailedLoad(v, a, key) == [v EXCEPT !.key = key]

KeysOf(a, ps) == {a[p].key : p \in ps}

\* The password of the last encrypted entry read is the one that is kept.
LoadedViews(v, a) ==
    IF a = Broken \/ Damaged(a) \cap Locked(a) # {} THEN {}
    ELSE {LoadedView(v, a, key) :
             key \in IF Locked(a) = {} THEN {v.key} ELSE KeysOf(a, Locked(a))}

\* The file is no archive, an encrypted entry is damaged, or the password that
\* was asked for is wrong three times or not given.
FailedLoads(v, a) ==
    IF a = Broken THEN {v}
    ELSE {FailedLoad(v, a, key) : key \in KeysOf(a, Damaged(a) \cap Locked(a))}
         \cup {FailedLoad(v, a, NoKey) : p \in {q \in Locked(a) : a[q].key # v.key}}

\* A lost password is asked for again; nothing tests the answer.
KeysUnasked(v) == IF v.encrypted THEN {v.key} ELSE {NoKey}
KeysToSave(v) ==
    IF ~ v.encrypted THEN {NoKey} ELSE IF v.key = NoKey THEN Passwords ELSE {v.key}

\* WriteArchiveEntries and SaveArchiveIfDirty by panel s: the file is written
\* over; it cannot be opened, or the write ends early.
SaveOk(s) ==
    /\ \E key \in KeysToSave(views[s]) : archive' = Packed(views[s].entries, key)
    /\ synced' = {s}
    /\ UNCHANGED faults

SaveFails(s) ==
    \/ views[s].encrypted /\ views[s].key = NoKey /\ UNCHANGED <<archive, views, synced, faults>>
    \/ /\ faults < MaxFaults /\ faults' = faults + 1
       /\ \E key \in KeysToSave(views[s]) : views' = [views EXCEPT ![s].key = key]
       /\ \/ UNCHANGED <<archive, synced>>
          \/ archive' = Broken /\ synced' = {}

-----------------------------------------------------------------------------
(* The panels.                                                                *)

Init ==
    /\ archive \in Archives
    /\ views = [s \in Sides |-> Closed]
    /\ phase = "run" /\ asking = << >>
    /\ edits = 0 /\ faults = 0 /\ others = 0
    /\ synced = {} /\ gaveUp = Nobody

\* EnterArchive: Enter on the file, in a panel that shows a local folder.
Open(s) ==
    /\ phase = "run" /\ ~ views[s].open
    /\ \E v \in LoadedViews(views[s], archive) : views' = [views EXCEPT ![s] = v]
    /\ synced' = synced \cup {s}
    /\ gaveUp' = Nobody
    /\ UNCHANGED <<archive, phase, asking, edits, faults, others>>

\* ZipReload, on Ctrl+R; unsaved changes are asked about first.
Reload(s) ==
    /\ phase = "run" /\ views[s].open
    /\ \/ /\ \E v \in LoadedViews(views[s], archive) : views' = [views EXCEPT ![s] = v]
          /\ synced' = synced \cup {s}
       \/ /\ \E v \in FailedLoads(views[s], archive) : views' = [views EXCEPT ![s] = v]
          /\ UNCHANGED synced
    /\ gaveUp' = IF views[s].dirty THEN s ELSE Nobody
    /\ UNCHANGED <<archive, phase, asking, edits, faults, others>>

Changed(v, e) == [v EXCEPT !.entries = e, !.dirty = TRUE]

\* The entries a panel's view has after one edit (ZipOpenWrite to ZipFinishWrite,
\* ZipMakeDirectory, ZipDelete, ZipRename, ZipSetAttributes).  New things go in
\* a folder the panel shows.
Write(e) ==
    {With(e, p, c) : p \in {q \in Paths : FolderExists(e, Parent(q))
                                          /\ (FolderExists(e, q) => IsFile(e, q))},
                     c \in NewBytes}
MakeDirectory(e) ==
    {With(e, p, Marker) : p \in {q \in Paths : /\ FolderExists(e, Parent(q))
                                               /\ ~ IsFile(e, q) /\ ~ FolderExists(e, q)}}
Delete(e) ==
    {Without(e, p) : p \in {q \in DOMAIN e : IsFile(e, q) \/ ~ HasContent(e, q)}}

CanRenameOntoFolder(e, from, to) ==
    /\ from = to \/ ~ IsFile(e, to)
    /\ IsFile(e, from) \/ (FolderExists(e, from) /\ ~ IsStrictPrefix(from, to))
CanRename(e, from, to) ==
    /\ from = to \/ ~ (IsFile(e, to) \/ FolderExists(e, to))
    /\ IsFile(e, from) \/ (FolderExists(e, from) /\ ~ IsStrictPrefix(from, to))
Rename(e) ==
    {Renamed(e, x[1], x[2]) : x \in {y \in Paths \X Paths :
        FolderExists(e, Parent(y[2])) /\ CanRename(e, y[1], y[2])}}
SetAttributes(e) == {e : p \in DOMAIN e}

Edit(s) ==
    /\ phase = "run" /\ views[s].open /\ edits < MaxEdits
    /\ LET e == views[s].entries
       IN  \E new \in Write(e) \cup MakeDirectory(e) \cup Delete(e) \cup Rename(e)
                      \cup SetAttributes(e) :
              /\ DOMAIN new \subseteq Paths
              /\ views' = [views EXCEPT ![s] = Changed(@, new)]
    /\ edits' = edits + 1
    /\ gaveUp' = Nobody
    /\ UNCHANGED <<archive, phase, asking, faults, others, synced>>

\* ConfirmLeaveProvider and LeaveProviderFor; Cancel changes nothing.
SaveAndLeave(s) ==
    /\ views[s].open /\ views[s].dirty
    /\ SaveOk(s)
    /\ views' = [views EXCEPT ![s] = Closed]
    /\ gaveUp' = Nobody

SaveAndStay(s) ==
    /\ views[s].open /\ views[s].dirty
    /\ SaveFails(s)
    /\ gaveUp' = Nobody

LeaveUnsaved(s) ==
    /\ views[s].open
    /\ views' = [views EXCEPT ![s] = Closed]
    /\ gaveUp' = IF views[s].dirty THEN s ELSE Nobody
    /\ UNCHANGED <<archive, synced, faults>>

Leave(s) ==
    /\ phase = "run"
    /\ SaveAndLeave(s) \/ SaveAndStay(s) \/ LeaveUnsaved(s)
    /\ UNCHANGED <<phase, asking, edits, others>>

-----------------------------------------------------------------------------
(* Quitting (F10): each panel with unsaved changes is asked, then both are    *)
(* closed without a question.                                                 *)

AskedFirstOnly == <<Head(Panels)>>
AskedOnQuit == Panels

Quit ==
    /\ phase = "run"
    /\ phase' = "quit" /\ asking' = AskedOnQuit
    /\ gaveUp' = Nobody
    /\ UNCHANGED <<archive, views, edits, faults, others, synced>>

QuitNext == asking' = Tail(asking) /\ UNCHANGED phase
QuitStops == asking' = << >> /\ phase' = "run"

QuitAsks ==
    /\ phase = "quit" /\ asking # << >>
    /\ LET s == Head(asking) IN
       \/ /\ ~ views[s].dirty
          /\ QuitNext /\ gaveUp' = Nobody
          /\ UNCHANGED <<archive, views, faults, synced>>
       \/ views[s].dirty /\ (SaveAndLeave(s) \/ LeaveUnsaved(s)) /\ QuitNext
       \/ SaveAndStay(s) /\ QuitStops
       \/ /\ views[s].dirty \* Cancel
          /\ QuitStops /\ gaveUp' = Nobody
          /\ UNCHANGED <<archive, views, faults, synced>>
    /\ UNCHANGED <<edits, others>>

QuitCloses ==
    /\ phase = "quit" /\ asking = << >>
    /\ views' = [s \in Sides |-> Closed]
    /\ phase' = "gone"
    /\ gaveUp' = Nobody
    /\ UNCHANGED <<archive, asking, edits, faults, others, synced>>

\* F10 on a window too small to ask in leaves the loop if there is nothing to ask.
HasPendingProviderChanges == \E s \in Sides : views[s].dirty

QuitUnasked ==
    /\ phase = "run" /\ ~ HasPendingProviderChanges
    /\ views' = [s \in Sides |-> Closed]
    /\ phase' = "gone"
    /\ gaveUp' = Nobody
    /\ UNCHANGED <<archive, asking, edits, faults, others, synced>>

\* Another program replaces the file.
Replaced ==
    /\ others < MaxOthers
    /\ others' = others + 1
    /\ archive' \in OtherArchives
    /\ synced' = {} /\ gaveUp' = Nobody
    /\ UNCHANGED <<views, phase, asking, edits, faults>>

Next ==
    \/ \E s \in Sides : Open(s) \/ Reload(s) \/ Edit(s) \/ Leave(s)
    \/ Quit \/ QuitAsks \/ QuitCloses \/ QuitUnasked
    \/ Replaced

Spec == Init /\ [][Next]_vars

-----------------------------------------------------------------------------
(* What a user relies on.                                                     *)

\* A panel without unsaved changes shows the file as it is, unless someone
\* wrote the file since: no entry is missing from the panel, and so from the
\* next save, because a reload failed or a password was not given.
CleanViewIsOnDisk ==
    \A s \in synced :
        views[s].open /\ ~ views[s].dirty =>
            archive # Broken /\ views[s].entries = Readable(archive)

\* No edit makes a file of a folder that has something in it: every entry can
\* be reached through the folders above it.
NoFileIsAFolder ==
    \A s \in Sides : \A p, q \in DOMAIN views[s].entries :
        IsStrictPrefix(p, q) => ~ IsFile(views[s].entries, p)

\* Where that holds at first: the archives in which no file has anything in it,
\* as far as they can be read.  A path is a sequence of names.
IsPath(p) == p \in Seq(Range(p)) /\ p # Root
IsTree(e) ==
    /\ \A p \in DOMAIN e : IsPath(p)
    /\ \A p, q \in DOMAIN e : IsStrictPrefix(p, q) => ~ IsFile(e, p)
OnlyTrees ==
    /\ \A p \in Paths : IsPath(p)
    /\ \A a \in Archives \cup OtherArchives : a = Broken \/ IsTree(Readable(a))

\* Unsaved changes are gone from a panel only once the file has them or the user
\* agreed to lose them, also when quitting asks two panels and then closes both.
UnsavedChangesKept ==
    [][\A s \in Sides :
          views[s].dirty /\ ~ views'[s].dirty =>
              \/ gaveUp' = s
              \/ archive' # Broken /\ Readable(archive') = views[s].entries]_vars

\* An archive with an encrypted entry is never written back plain by a panel
\* that read it, whatever became of the password in between.
EncryptedStaysEncrypted ==
    [][\A s \in synced :
          /\ archive # Broken /\ Locked(archive) # {} /\ archive' \notin {archive, Broken}
          /\ views[s].dirty /\ ~ views'[s].dirty /\ gaveUp' # s
          => \A p \in DOMAIN archive' : archive'[p].bytes = Marker \/ archive'[p].key # NoKey]_vars
=============================================================================
