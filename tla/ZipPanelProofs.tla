---------------------------- MODULE ZipPanelProofs ----------------------------
(***************************************************************************)
(* What a user relies on in the panels of ZIP archives, for any number of   *)
(* panels, edits, failed writes and files put there by other programs.      *)
(***************************************************************************)
EXTENDS ZipPanel, SequenceTheorems, TLAPS

IsAFunction(e) == e = [p \in DOMAIN e |-> e[p]]

\* A view is a record with the fields of Closed.
ViewShape(v) ==
    /\ v = [open |-> v.open, entries |-> v.entries, dirty |-> v.dirty,
            encrypted |-> v.encrypted, key |-> v.key]
    /\ v.open \in BOOLEAN /\ v.dirty \in BOOLEAN /\ v.encrypted \in BOOLEAN
    /\ IsAFunction(v.entries)
    /\ v.dirty => v.open

ViewsShape == views = [s \in Sides |-> views[s]] /\ \A s \in Sides : ViewShape(views[s])

\* While quitting asks, every panel with unsaved changes has still to be asked.
AskingInv ==
    /\ phase \in {"run", "quit", "gone"}
    /\ asking \in Seq(Sides)
    /\ phase = "quit" => \A s \in Sides : views[s].dirty => s \in Range(asking)

\* A view that read the file as it is knows whether it has encrypted entries.
KnowsEncrypted ==
    \A s \in synced : views[s].open /\ archive # Broken /\ Locked(archive) # {}
                        => views[s].encrypted

ZipInv ==
    /\ ViewsShape /\ AskingInv
    /\ synced \subseteq Sides
    /\ CleanViewIsOnDisk /\ KnowsEncrypted

-----------------------------------------------------------------------------
(* Reading and writing the file.                                              *)

LEMMA PackedIsRead ==
    ASSUME NEW e, NEW key, IsAFunction(e)
    PROVE  Readable(Packed(e, key)) = e
BY DEF Readable, Packed, Damaged, IsAFunction

LEMMA LoadedShape ==
    ASSUME NEW v, ViewShape(v), NEW w \in LoadedViews(v, archive)
    PROVE  /\ ViewShape(w) /\ ~ w.dirty /\ w.open
           /\ archive # Broken /\ w.entries = Readable(archive)
           /\ w.encrypted = (Locked(archive) # {})
<1>1. archive # Broken /\ \E key : w = LoadedView(v, archive, key)
  BY DEF LoadedViews
<1>2. PICK key : w = LoadedView(v, archive, key)
  BY <1>1
<1>. QED  BY <1>1, <1>2 DEF LoadedView, ViewShape, IsAFunction, Readable

LEMMA FailedShape ==
    ASSUME NEW v, ViewShape(v), NEW w \in FailedLoads(v, archive)
    PROVE  /\ ViewShape(w) /\ w.dirty = v.dirty /\ w.open = v.open
           /\ w.entries = v.entries /\ w.encrypted = v.encrypted
<1>1. w = v \/ \E key : w = FailedLoad(v, archive, key)
  BY DEF FailedLoads
<1>. QED  BY <1>1 DEF FailedLoad, ViewShape

LEMMA EditedEntries ==
    ASSUME NEW e, NEW new \in Write(e) \cup MakeDirectory(e) \cup Delete(e) \cup Rename(e)
                              \cup SetAttributes(e), IsAFunction(e)
    PROVE  IsAFunction(new)
<1>1. \A p, c : IsAFunction(With(e, p, c))
  BY DEF With, IsAFunction
<1>2. \A p : IsAFunction(Without(e, p))
  BY DEF Without, Restrict, IsAFunction
<1>3. \A from, to : IsAFunction(Renamed(e, from, to))
  BY DEF Renamed, IsAFunction
<1>4. CASE new \in Write(e) \cup MakeDirectory(e)
  BY <1>1, <1>4 DEF Write, MakeDirectory
<1>5. CASE new \in Delete(e)
  BY <1>2, <1>5 DEF Delete
<1>6. CASE new \in Rename(e)
  BY <1>3, <1>6 DEF Rename
<1>7. CASE new \in SetAttributes(e)
  BY <1>7 DEF SetAttributes
<1>. QED  BY <1>4, <1>5, <1>6, <1>7

LEMMA ChangedShape ==
    ASSUME NEW v, ViewShape(v), v.open, NEW e, IsAFunction(e)
    PROVE  /\ ViewShape(Changed(v, e)) /\ Changed(v, e).dirty
           /\ Changed(v, e).encrypted = v.encrypted
<1>1. PICK w : w = [v EXCEPT !.entries = e]
  OBVIOUS
<1>2. w = [open |-> v.open, entries |-> e, dirty |-> v.dirty,
           encrypted |-> v.encrypted, key |-> v.key]
  BY <1>1 DEF ViewShape
<1>3. Changed(v, e) = [w EXCEPT !.dirty = TRUE]
  BY <1>1, Zenon DEF Changed
<1>. QED  BY <1>2, <1>3 DEF ViewShape

LEMMA ClosedShape == ViewShape(Closed) /\ ~ Closed.dirty /\ ~ Closed.open
BY DEF Closed, ViewShape, IsAFunction

-----------------------------------------------------------------------------
(* The invariant.  One view changes in most steps; what of it matters.        *)

\* A step that changes the view of s only, for one that holds nothing unsaved
\* that was not held before.
OneView(s, w) ==
    /\ s \in Sides /\ views' = [views EXCEPT ![s] = w]
    /\ ViewShape(w)
    /\ phase' = "quit" /\ w.dirty => views[s].dirty

LEMMA OneViewShapes ==
    ASSUME ViewsShape, NEW s, NEW w, OneView(s, w)
    PROVE  /\ ViewsShape'
           /\ views'[s] = w
           /\ \A t \in Sides \ {s} : views'[t] = views[t]
BY DEF ViewsShape, OneView

LEMMA ZipInit == Init => ZipInv
<1>. SUFFICES ASSUME Init PROVE ZipInv
  OBVIOUS
<1>1. ViewsShape
  BY ClosedShape DEF Init, ViewsShape
<1>2. AskingInv
  BY DEF Init, AskingInv
<1>3. CleanViewIsOnDisk /\ KnowsEncrypted /\ synced \subseteq Sides
  BY DEF Init, CleanViewIsOnDisk, KnowsEncrypted
<1>. QED  BY <1>1, <1>2, <1>3 DEF ZipInv

LEMMA OpenKeeps == ASSUME ZipInv, NEW s \in Sides, Open(s) PROVE ZipInv'
<1>. USE DEF ZipInv
<1>1. PICK v \in LoadedViews(views[s], archive) : views' = [views EXCEPT ![s] = v]
  BY DEF Open
<1>2. /\ ViewShape(v) /\ ~ v.dirty /\ archive # Broken
      /\ v.entries = Readable(archive) /\ v.encrypted = (Locked(archive) # {})
  BY <1>1, LoadedShape DEF ViewsShape
<1>3. /\ ViewsShape' /\ views'[s] = v
      /\ \A t \in Sides \ {s} : views'[t] = views[t]
  BY <1>1, <1>2, OneViewShapes DEF OneView
<1>4. synced' = synced \cup {s} /\ UNCHANGED <<archive, phase, asking>>
  BY DEF Open
<1>5. AskingInv'
  BY <1>2, <1>3, <1>4 DEF AskingInv
<1>6. CleanViewIsOnDisk' /\ KnowsEncrypted'
  BY <1>2, <1>3, <1>4 DEF CleanViewIsOnDisk, KnowsEncrypted
<1>. QED  BY <1>3, <1>4, <1>5, <1>6

LEMMA ReloadKeeps == ASSUME ZipInv, NEW s \in Sides, Reload(s) PROVE ZipInv'
<1>. USE DEF ZipInv
<1>1. UNCHANGED <<archive, phase, asking>> /\ phase = "run"
  BY DEF Reload
<1>2. CASE /\ \E v \in LoadedViews(views[s], archive) : views' = [views EXCEPT ![s] = v]
           /\ synced' = synced \cup {s}
  <2>1. PICK v \in LoadedViews(views[s], archive) : views' = [views EXCEPT ![s] = v]
    BY <1>2
  <2>2. /\ ViewShape(v) /\ ~ v.dirty /\ archive # Broken
        /\ v.entries = Readable(archive) /\ v.encrypted = (Locked(archive) # {})
    BY <2>1, LoadedShape DEF ViewsShape
  <2>3. /\ ViewsShape' /\ views'[s] = v
        /\ \A t \in Sides \ {s} : views'[t] = views[t]
    BY <2>1, <2>2, OneViewShapes DEF OneView
  <2>4. CleanViewIsOnDisk' /\ KnowsEncrypted'
    BY <1>1, <1>2, <2>2, <2>3 DEF CleanViewIsOnDisk, KnowsEncrypted
  <2>. QED  BY <1>1, <1>2, <2>3, <2>4 DEF AskingInv
<1>3. CASE /\ \E v \in FailedLoads(views[s], archive) : views' = [views EXCEPT ![s] = v]
           /\ UNCHANGED synced
  <2>1. PICK v \in FailedLoads(views[s], archive) : views' = [views EXCEPT ![s] = v]
    BY <1>3
  <2>2. /\ ViewShape(v) /\ v.dirty = views[s].dirty /\ v.open = views[s].open
        /\ v.entries = views[s].entries /\ v.encrypted = views[s].encrypted
    BY <2>1, FailedShape DEF ViewsShape
  <2>3. /\ ViewsShape' /\ views'[s] = v
        /\ \A t \in Sides \ {s} : views'[t] = views[t]
    BY <2>1, <2>2, OneViewShapes DEF OneView
  <2>4. CleanViewIsOnDisk' /\ KnowsEncrypted'
    BY <1>1, <1>3, <2>2, <2>3 DEF CleanViewIsOnDisk, KnowsEncrypted
  <2>. QED  BY <1>1, <1>3, <2>3, <2>4 DEF AskingInv
<1>. QED  BY <1>2, <1>3 DEF Reload

LEMMA EditKeeps == ASSUME ZipInv, NEW s \in Sides, Edit(s) PROVE ZipInv'
<1>. USE DEF ZipInv
<1>1. PICK new : /\ new \in Write(views[s].entries) \cup MakeDirectory(views[s].entries)
                            \cup Delete(views[s].entries) \cup Rename(views[s].entries)
                            \cup SetAttributes(views[s].entries)
                 /\ views' = [views EXCEPT ![s] = Changed(views[s], new)]
  BY DEF Edit, ViewsShape
<1>2. IsAFunction(new)
  BY <1>1, EditedEntries DEF ViewsShape, ViewShape
<1>3. /\ ViewShape(Changed(views[s], new)) /\ Changed(views[s], new).dirty
      /\ Changed(views[s], new).encrypted = views[s].encrypted
  BY <1>2, ChangedShape DEF ViewsShape, Edit
<1>4. phase = "run" /\ UNCHANGED <<archive, phase, asking, synced>> /\ views[s].open
  BY DEF Edit
<1>5. /\ ViewsShape' /\ views'[s] = Changed(views[s], new)
      /\ \A t \in Sides \ {s} : views'[t] = views[t]
  BY <1>1, <1>3, <1>4, OneViewShapes DEF OneView
<1>6. CleanViewIsOnDisk' /\ KnowsEncrypted'
  BY <1>3, <1>4, <1>5 DEF CleanViewIsOnDisk, KnowsEncrypted
<1>. QED  BY <1>4, <1>5, <1>6 DEF AskingInv

\* The panel leaves the archive, its changes saved or given up.
LEMMA LeftShapes ==
    ASSUME ZipInv, NEW s \in Sides, SaveAndLeave(s) \/ LeaveUnsaved(s)
    PROVE  /\ ViewsShape' /\ ~ views'[s].dirty
           /\ \A t \in Sides \ {s} : views'[t] = views[t]
           /\ synced' \subseteq Sides /\ CleanViewIsOnDisk' /\ KnowsEncrypted'
<1>. USE DEF ZipInv
<1>1. /\ ViewsShape' /\ views'[s] = Closed
      /\ \A t \in Sides \ {s} : views'[t] = views[t]
  BY ClosedShape DEF ViewsShape, SaveAndLeave, LeaveUnsaved
<1>2. synced' = {s} \/ UNCHANGED <<archive, synced>>
  BY DEF SaveAndLeave, SaveOk, LeaveUnsaved
<1>. QED  BY <1>1, <1>2, ClosedShape DEF CleanViewIsOnDisk, KnowsEncrypted

\* The write failed: the panel stays, the file may be cut short.
LEMMA StayedShapes ==
    ASSUME ZipInv, NEW s \in Sides, SaveAndStay(s)
    PROVE  /\ ViewsShape' /\ \A t \in Sides : views'[t].dirty = views[t].dirty
           /\ synced' \subseteq Sides /\ CleanViewIsOnDisk' /\ KnowsEncrypted'
<1>. USE DEF ZipInv
<1>1. views' = views \/ \E key : views' = [views EXCEPT ![s].key = key]
  BY DEF SaveAndStay, SaveFails
<1>2. \A key : ViewShape([views[s] EXCEPT !.key = key])
  BY DEF ViewsShape, ViewShape
<1>3. /\ ViewsShape'
      /\ \A t \in Sides : /\ views'[t].dirty = views[t].dirty
                          /\ views'[t].open = views[t].open
                          /\ views'[t].entries = views[t].entries
                          /\ views'[t].encrypted = views[t].encrypted
  <2>1. CASE views' = views
    BY <2>1 DEF ViewsShape
  <2>2. ASSUME NEW key, views' = [views EXCEPT ![s].key = key] PROVE <1>3
    <3>1. views'[s] = [views[s] EXCEPT !.key = key] /\ \A t \in Sides \ {s} : views'[t] = views[t]
      BY <2>2 DEF ViewsShape
    <3>2. /\ views'[s].dirty = views[s].dirty /\ views'[s].open = views[s].open
          /\ views'[s].entries = views[s].entries /\ views'[s].encrypted = views[s].encrypted
      BY <3>1 DEF ViewsShape, ViewShape
    <3>3. ViewsShape'
      BY <1>2, <2>2, <3>1 DEF ViewsShape
    <3>. QED  BY <3>1, <3>2, <3>3
  <2>. QED  BY <1>1, <2>1, <2>2
<1>4. synced' = {} \/ UNCHANGED <<archive, synced>>
  BY DEF SaveAndStay, SaveFails
<1>. QED  BY <1>3, <1>4 DEF CleanViewIsOnDisk, KnowsEncrypted

LEMMA LeaveKeeps == ASSUME ZipInv, NEW s \in Sides, Leave(s) PROVE ZipInv'
<1>1. phase = "run" /\ UNCHANGED <<phase, asking>>
  BY DEF Leave
<1>2. AskingInv'
  BY <1>1 DEF ZipInv, AskingInv
<1>3. ViewsShape' /\ synced' \subseteq Sides /\ CleanViewIsOnDisk' /\ KnowsEncrypted'
  BY LeftShapes, StayedShapes DEF Leave
<1>. QED  BY <1>2, <1>3 DEF ZipInv

LEMMA TailAsked ==
    ASSUME asking \in Seq(Sides), asking # << >>
    PROVE  /\ Tail(asking) \in Seq(Sides) /\ Head(asking) \in Sides
           /\ Range(asking) = {Head(asking)} \cup Range(Tail(asking))
<1>1. Tail(asking) \in Seq(Sides) /\ Head(asking) \in Sides
  OBVIOUS
<1>2. ASSUME NEW i \in DOMAIN asking
      PROVE  asking[i] = Head(asking) \/ (i - 1 \in DOMAIN Tail(asking) /\ asking[i] = Tail(asking)[i - 1])
  OBVIOUS
<1>3. ASSUME NEW i \in DOMAIN Tail(asking)
      PROVE  i + 1 \in DOMAIN asking /\ Tail(asking)[i] = asking[i + 1]
  OBVIOUS
<1>4. 1 \in DOMAIN asking /\ Head(asking) = asking[1]
  OBVIOUS
<1>5. Range(asking) \subseteq {Head(asking)} \cup Range(Tail(asking))
  BY <1>2 DEF Range
<1>6. Range(Tail(asking)) \subseteq Range(asking) /\ Head(asking) \in Range(asking)
  BY <1>3, <1>4 DEF Range
<1>. QED  BY <1>1, <1>5, <1>6

LEMMA QuitAsksKeeps == ASSUME ZipInv, QuitAsks PROVE ZipInv'
<1>. USE DEF ZipInv
<1>1. /\ phase = "quit" /\ asking # << >> /\ asking \in Seq(Sides)
      /\ \A s \in Sides : views[s].dirty => s \in Range(asking)
  BY DEF QuitAsks, AskingInv
<1>. DEFINE s == Head(asking)
<1>2. /\ Tail(asking) \in Seq(Sides) /\ s \in Sides
      /\ Range(asking) = {s} \cup Range(Tail(asking))
  BY <1>1, TailAsked
<1>3. << >> \in Seq(Sides)
  OBVIOUS
<1>4. CASE ~ views[s].dirty /\ QuitNext /\ UNCHANGED <<archive, views, synced>>
  BY <1>1, <1>2, <1>4 DEF QuitNext, AskingInv, ViewsShape, CleanViewIsOnDisk, KnowsEncrypted
<1>5. CASE (SaveAndLeave(s) \/ LeaveUnsaved(s)) /\ QuitNext
  <2>1. /\ ViewsShape' /\ ~ views'[s].dirty
        /\ \A t \in Sides \ {s} : views'[t] = views[t]
        /\ synced' \subseteq Sides /\ CleanViewIsOnDisk' /\ KnowsEncrypted'
    BY <1>2, <1>5, LeftShapes
  <2>2. AskingInv'
    BY <1>1, <1>2, <1>5, <2>1 DEF QuitNext, AskingInv
  <2>. QED  BY <2>1, <2>2
<1>6. CASE SaveAndStay(s) /\ QuitStops
  BY <1>2, <1>3, <1>6, StayedShapes DEF QuitStops, AskingInv
<1>7. CASE QuitStops /\ UNCHANGED <<archive, views, synced>>
  BY <1>3, <1>7 DEF QuitStops, AskingInv, ViewsShape, CleanViewIsOnDisk, KnowsEncrypted
<1>. QED  BY <1>4, <1>5, <1>6, <1>7 DEF QuitAsks

LEMMA ZipStep == ZipInv /\ [Next]_vars => ZipInv'
<1>. SUFFICES ASSUME ZipInv, [Next]_vars PROVE ZipInv'
  OBVIOUS
<1>. USE DEF ZipInv
<1>1. ASSUME NEW s \in Sides, Open(s) \/ Reload(s) \/ Edit(s) \/ Leave(s) PROVE ZipInv'
  BY <1>1, OpenKeeps, ReloadKeeps, EditKeeps, LeaveKeeps
<1>2. CASE Quit
  <2>1. Panels \in Seq(Sides) /\ \A s \in Sides : s \in Range(Panels)
    BY ZipAssumption DEF Sides
  <2>. QED  BY <1>2, <2>1 DEF Quit, AskedOnQuit, AskingInv, ViewsShape, CleanViewIsOnDisk,
                              KnowsEncrypted
<1>3. CASE QuitAsks
  BY <1>3, QuitAsksKeeps
<1>4. CASE QuitCloses \/ QuitUnasked
  <2>1. /\ views' = [s \in Sides |-> Closed] /\ phase' = "gone"
        /\ UNCHANGED <<archive, asking, synced>>
    BY <1>4 DEF QuitCloses, QuitUnasked
  <2>2. ViewsShape' /\ \A s \in Sides : ~ views'[s].open
    BY <2>1, ClosedShape DEF ViewsShape
  <2>. QED  BY <2>1, <2>2 DEF AskingInv, CleanViewIsOnDisk, KnowsEncrypted
<1>5. CASE Replaced
  BY <1>5 DEF Replaced, AskingInv, ViewsShape, CleanViewIsOnDisk, KnowsEncrypted
<1>6. CASE UNCHANGED vars
  BY <1>6 DEF vars, AskingInv, ViewsShape, CleanViewIsOnDisk, KnowsEncrypted, Locked
<1>. QED  BY <1>1, <1>2, <1>3, <1>4, <1>5, <1>6 DEF Next

\* The inductive invariant of the archives: what is open, what quitting has
\* still to ask, and what each panel knows of the file.
THEOREM ZipInvariant == Spec => []ZipInv
BY ZipInit, ZipStep, PTL DEF Spec

\* A panel without unsaved changes shows the file as it is, unless someone wrote
\* the file since: no reload that fails and no forgotten password makes an entry
\* vanish from it.
THEOREM CleanViewsAreOnDisk == Spec => []CleanViewIsOnDisk
BY ZipInvariant, PTL DEF ZipInv

-----------------------------------------------------------------------------
(* What a step may do.                                                        *)

\* What a panel writes is an archive.
ArchivesAreNotBroken == \A e, key : Packed(e, key) # Broken

\* A view that stops being dirty was saved or given up in this step.
LEMMA HowChangesEnd ==
    ASSUME ZipInv, Next, NEW s \in Sides, views[s].dirty, ~ views'[s].dirty
    PROVE  \/ gaveUp' = s
           \/ \E key \in KeysToSave(views[s]) : archive' = Packed(views[s].entries, key)
<1>. USE DEF ZipInv
<1>1. \A t \in Sides : SaveAndLeave(t) =>
        /\ \A u \in Sides \ {t} : views'[u] = views[u]
        /\ \E key \in KeysToSave(views[t]) : archive' = Packed(views[t].entries, key)
  BY DEF SaveAndLeave, SaveOk, ViewsShape
<1>2. \A t \in Sides : LeaveUnsaved(t) =>
        /\ \A u \in Sides \ {t} : views'[u] = views[u]
        /\ views[t].dirty => gaveUp' = t
  BY DEF LeaveUnsaved, ViewsShape
<1>3. \A t \in Sides : ~ SaveAndStay(t)
  BY StayedShapes
<1>4. ASSUME NEW t \in Sides, Open(t) PROVE FALSE
  <2>1. t # s /\ \E v \in LoadedViews(views[t], archive) : views' = [views EXCEPT ![t] = v]
    BY <1>4 DEF Open, ViewsShape, ViewShape
  <2>. QED  BY <2>1 DEF ViewsShape
<1>5. ASSUME NEW t \in Sides, Reload(t) PROVE gaveUp' = s
  <2>1. \E v : views' = [views EXCEPT ![t] = v]
    BY <1>5 DEF Reload
  <2>2. t = s
    BY <2>1 DEF ViewsShape
  <2>. QED  BY <1>5, <2>2 DEF Reload
<1>6. ASSUME NEW t \in Sides, Edit(t) PROVE FALSE
  <2>1. PICK e : views' = [views EXCEPT ![t] = Changed(views[t], e)]
    BY <1>6 DEF Edit, ViewsShape
  <2>2. Changed(views[t], e).dirty
    BY DEF Changed, ViewsShape, ViewShape
  <2>. QED  BY <2>1, <2>2 DEF ViewsShape
<1>7. CASE \E t \in Sides : Leave(t)
  BY <1>1, <1>2, <1>3, <1>7 DEF Leave
<1>8. CASE QuitAsks
  <2>1. Head(asking) \in Sides
    BY <1>8, TailAsked DEF QuitAsks, AskingInv
  <2>. QED  BY <1>1, <1>2, <1>3, <1>8, <2>1 DEF QuitAsks
<1>9. ~ Quit /\ ~ Replaced
  BY DEF Quit, Replaced
<1>10. ~ QuitCloses
  BY DEF QuitCloses, AskingInv, Range
<1>11. ~ QuitUnasked
  BY DEF QuitUnasked, HasPendingProviderChanges
<1>. QED  BY <1>4, <1>5, <1>6, <1>7, <1>8, <1>9, <1>10, <1>11 DEF Next

\* Unsaved changes are gone from a panel only once the file has them or the user
\* agreed to lose them, however many panels quitting asks and whatever fails.
THEOREM ChangesAreKept == ArchivesAreNotBroken => (Spec => UnsavedChangesKept)
<1>. SUFFICES ASSUME ArchivesAreNotBroken PROVE Spec => UnsavedChangesKept
  OBVIOUS
<1>. DEFINE Kept == \A s \in Sides :
          views[s].dirty /\ ~ views'[s].dirty =>
              \/ gaveUp' = s
              \/ archive' # Broken /\ Readable(archive') = views[s].entries
<1>1. ASSUME ZipInv, Next, NEW s \in Sides, views[s].dirty, ~ views'[s].dirty, gaveUp' # s
      PROVE  archive' # Broken /\ Readable(archive') = views[s].entries
  <2>1. PICK key : archive' = Packed(views[s].entries, key)
    BY <1>1, HowChangesEnd
  <2>2. IsAFunction(views[s].entries)
    BY <1>1 DEF ZipInv, ViewsShape, ViewShape
  <2>. QED  BY <2>1, <2>2, PackedIsRead DEF ArchivesAreNotBroken
<1>2. ZipInv /\ [Next]_vars => [Kept]_vars
  BY <1>1
<1>. QED  BY <1>2, ZipInvariant, PTL DEF Spec, UnsavedChangesKept

\* An archive with an encrypted entry is never written back plain by a panel
\* that read it, also when the password was lost in between and is asked again.
THEOREM SecretsStaySecret == Spec => EncryptedStaysEncrypted
<1>. DEFINE Secret == \A s \in synced :
          /\ archive # Broken /\ Locked(archive) # {} /\ archive' \notin {archive, Broken}
          /\ views[s].dirty /\ ~ views'[s].dirty /\ gaveUp' # s
          => \A p \in DOMAIN archive' : archive'[p].bytes = Marker \/ archive'[p].key # NoKey
<1>1. ASSUME ZipInv, Next, NEW s \in synced, archive # Broken, Locked(archive) # {},
             views[s].dirty, ~ views'[s].dirty, gaveUp' # s
      PROVE  \A p \in DOMAIN archive' : archive'[p].bytes = Marker \/ archive'[p].key # NoKey
  <2>1. s \in Sides /\ views[s].encrypted
    BY <1>1 DEF ZipInv, ViewsShape, ViewShape, KnowsEncrypted
  <2>2. PICK key \in KeysToSave(views[s]) : archive' = Packed(views[s].entries, key)
    BY <1>1, <2>1, HowChangesEnd
  <2>3. key # NoKey
    BY <2>1, <2>2, ZipAssumption DEF KeysToSave
  <2>. QED  BY <2>2, <2>3 DEF Packed
<1>2. ZipInv /\ [Next]_vars => [Secret]_vars
  BY <1>1
<1>. QED  BY <1>2, ZipInvariant, PTL DEF Spec, EncryptedStaysEncrypted

-----------------------------------------------------------------------------
(* Paths, prefix by prefix.                                                   *)

\* s begins t, name by name.
Begins(s, t) == Len(s) <= Len(t) /\ \A i \in 1..Len(s) : s[i] = t[i]

LEMMA FirstOf ==
    ASSUME NEW S, NEW s \in Seq(S), NEW n \in 0..Len(s)
    PROVE  /\ SubSeq(s, 1, n) \in Seq(S) /\ Len(SubSeq(s, 1, n)) = n
           /\ \A i \in 1..n : SubSeq(s, 1, n)[i] = s[i]
<1>1. \A i \in 1..n : s[i] \in S
  OBVIOUS
<1>. QED  BY <1>1, SubSeqProperties

LEMMA PrefixBegins ==
    ASSUME NEW S, NEW s \in Seq(S), NEW t \in Seq(S)
    PROVE  IsPrefix(s, t) <=> Begins(s, t)
<1>1. CASE Len(s) <= Len(t)
  <2>1. /\ SubSeq(s, 1, Len(s)) \in Seq(S) /\ Len(SubSeq(s, 1, Len(s))) = Len(s)
        /\ \A i \in 1..Len(s) : SubSeq(s, 1, Len(s))[i] = s[i]
    BY FirstOf
  <2>2. /\ SubSeq(t, 1, Len(s)) \in Seq(S) /\ Len(SubSeq(t, 1, Len(s))) = Len(s)
        /\ \A i \in 1..Len(s) : SubSeq(t, 1, Len(s))[i] = t[i]
    BY <1>1, FirstOf
  <2>. DEFINE a == SubSeq(s, 1, Len(s))
              b == SubSeq(t, 1, Len(s))
  <2>3. a = b <=> \A i \in 1..Len(s) : a[i] = b[i]
    <3>. HIDE DEF a, b
    <3>. QED  BY <2>1, <2>2, SeqEqual DEF a, b
  <2>. QED  BY <1>1, <2>1, <2>2, <2>3 DEF IsPrefix, Begins
<1>2. CASE ~ (Len(s) <= Len(t))
  BY <1>2 DEF IsPrefix, Begins
<1>. QED  BY <1>1, <1>2

LEMMA StrictlyBegins ==
    ASSUME NEW S, NEW s \in Seq(S), NEW t \in Seq(S)
    PROVE  IsStrictPrefix(s, t) <=> Begins(s, t) /\ Len(s) < Len(t)
<1>1. Begins(s, t) /\ s # t => Len(s) < Len(t)
  BY SeqEqual DEF Begins
<1>. QED  BY <1>1, PrefixBegins DEF IsStrictPrefix, Begins

LEMMA FrontBegins ==
    ASSUME NEW S, NEW s \in Seq(S), s # << >>
    PROVE  /\ Front(s) \in Seq(S) /\ Len(Front(s)) = Len(s) - 1
           /\ \A i \in 1..(Len(s) - 1) : Front(s)[i] = s[i]
<1>1. Len(s) \in Nat \ {0} /\ Len(s) - 1 \in 0..Len(s)
  OBVIOUS
<1>. QED  BY <1>1, FirstOf DEF Front

\* What the path q becomes when the folder it is in gets another path.
LEMMA MovedPath ==
    ASSUME NEW S, NEW q \in Seq(S), NEW from \in Seq(S), NEW to \in Seq(S), Begins(from, q)
    PROVE  /\ Moved(q, from, to) \in Seq(S)
           /\ Len(Moved(q, from, to)) = Len(to) + Len(q) - Len(from)
           /\ \A i \in 1..Len(to) : Moved(q, from, to)[i] = to[i]
           /\ \A i \in (Len(from) + 1)..Len(q) :
                 Moved(q, from, to)[i - Len(from) + Len(to)] = q[i]
<1>. DEFINE m == Len(from) + 1
            rest == SubSeq(q, m, Len(q))
<1>1. Len(from) \in Nat /\ Len(q) \in Nat /\ Len(to) \in Nat /\ Len(from) <= Len(q)
  BY DEF Begins
<1>2. \A i \in m..Len(q) : q[i] \in S
  BY <1>1
<1>3. /\ rest \in Seq(S) /\ Len(rest) = Len(q) - Len(from)
      /\ \A i \in 1..(Len(q) - Len(from)) : rest[i] = q[Len(from) + i]
  <2>1. /\ rest \in Seq(S)
        /\ Len(rest) = IF m <= Len(q) THEN Len(q) - m + 1 ELSE 0
        /\ \A i \in 1..(Len(q) - m + 1) : rest[i] = q[m + i - 1]
    BY <1>1, <1>2, SubSeqProperties
  <2>. HIDE DEF rest
  <2>. QED  BY SMTT(60), <1>1, <2>1
<1>. HIDE DEF rest
<1>4. /\ to \o rest \in Seq(S) /\ Len(to \o rest) = Len(to) + Len(rest)
      /\ \A i \in 1..(Len(to) + Len(rest)) :
            (to \o rest)[i] = IF i <= Len(to) THEN to[i] ELSE rest[i - Len(to)]
  BY <1>3, ConcatProperties
<1>5. Moved(q, from, to) = to \o rest
  BY DEF Moved, rest
<1>6. ASSUME NEW i \in m..Len(q) PROVE (to \o rest)[i - Len(from) + Len(to)] = q[i]
  <2>1. i - Len(from) \in 1..(Len(q) - Len(from))
    BY <1>1
  <2>2. PICK j \in 1..(Len(q) - Len(from)) : j = i - Len(from)
    BY <2>1
  <2>3. rest[j] = q[i]
    BY <1>1, <1>3, <2>2
  <2>4. (to \o rest)[j + Len(to)] = rest[j]
    BY <1>1, <1>3, <1>4, <2>2
  <2>. QED  BY <2>2, <2>3, <2>4
<1>. QED  BY <1>1, <1>3, <1>4, <1>5, <1>6

\* Moving there and back again.
LEMMA MovedBack ==
    ASSUME NEW S, NEW q \in Seq(S), NEW from \in Seq(S), NEW to \in Seq(S), Begins(from, q)
    PROVE  Begins(to, Moved(q, from, to)) /\ Moved(Moved(q, from, to), to, from) = q
<1>. DEFINE there == Moved(q, from, to)
<1>1. there \in Seq(S) /\ Len(there) = Len(to) + Len(q) - Len(from)
  BY MovedPath
<1>2. /\ \A i \in 1..Len(to) : there[i] = to[i]
      /\ \A i \in (Len(from) + 1)..Len(q) : there[i - Len(from) + Len(to)] = q[i]
  <2>1. \A i \in 1..Len(to) : there[i] = to[i]
    BY MovedPath
  <2>2. \A i \in (Len(from) + 1)..Len(q) : there[i - Len(from) + Len(to)] = q[i]
    BY MovedPath
  <2>. QED  BY <2>1, <2>2
<1>. HIDE DEF there
<1>3. Begins(to, there)
  BY <1>1, <1>2 DEF Begins
<1>. DEFINE back == Moved(there, to, from)
<1>4. back \in Seq(S) /\ Len(back) = Len(from) + Len(there) - Len(to)
  BY <1>1, <1>3, MovedPath
<1>5. /\ \A i \in 1..Len(from) : back[i] = from[i]
      /\ \A i \in (Len(to) + 1)..Len(there) : back[i - Len(to) + Len(from)] = there[i]
  <2>1. \A i \in 1..Len(from) : back[i] = from[i]
    BY <1>1, <1>3, MovedPath
  <2>2. ASSUME NEW i \in (Len(to) + 1)..Len(there)
        PROVE  back[i - Len(to) + Len(from)] = there[i]
    BY <1>1, <1>3, MovedPath, SMTT(60)
  <2>. QED  BY <2>1, <2>2
<1>. HIDE DEF back
<1>6. ASSUME NEW i \in 1..Len(q) PROVE back[i] = q[i]
  <2>1. CASE i <= Len(from)
    BY <1>5, <2>1 DEF Begins
  <2>2. CASE i > Len(from)
    <3>1. PICK j \in (Len(to) + 1)..Len(there) : j = i - Len(from) + Len(to)
      <4>1. i - Len(from) + Len(to) \in (Len(to) + 1)..Len(there)
        BY <1>1, <2>2
      <4>. QED  BY <4>1
    <3>2. back[j - Len(to) + Len(from)] = there[j]
      BY <1>5
    <3>3. there[j] = q[i]
      BY <1>2, <2>2, <3>1
    <3>4. j - Len(to) + Len(from) = i
      BY <3>1
    <3>. QED  BY <3>2, <3>3, <3>4
  <2>. QED  BY <2>1, <2>2
<1>7. back = q
  BY <1>1, <1>4, <1>6, SeqEqual
<1>. QED  BY <1>3, <1>7 DEF there, back

\* Of two paths in a moved folder, one is above the other after the move only
\* if it was before.
LEMMA MovedKeepsAbove ==
    ASSUME NEW S, NEW u \in Seq(S), NEW w \in Seq(S), NEW from \in Seq(S), NEW to \in Seq(S),
           Begins(from, u), Begins(from, w),
           IsStrictPrefix(Moved(u, from, to), Moved(w, from, to))
    PROVE  IsStrictPrefix(u, w)
<1>. DEFINE mu == Moved(u, from, to)
            mw == Moved(w, from, to)
<1>1. IsStrictPrefix(mu, mw)
  OBVIOUS
<1>2. /\ mu \in Seq(S) /\ Len(mu) = Len(to) + Len(u) - Len(from)
      /\ \A i \in (Len(from) + 1)..Len(u) : mu[i - Len(from) + Len(to)] = u[i]
  BY MovedPath
<1>3. /\ mw \in Seq(S) /\ Len(mw) = Len(to) + Len(w) - Len(from)
      /\ \A i \in (Len(from) + 1)..Len(w) : mw[i - Len(from) + Len(to)] = w[i]
  BY MovedPath
<1>. HIDE DEF mu, mw
<1>4. Begins(mu, mw) /\ Len(mu) < Len(mw)
  BY <1>1, <1>2, <1>3, StrictlyBegins
<1>5. Len(u) < Len(w)
  BY <1>2, <1>3, <1>4
<1>6. ASSUME NEW i \in 1..Len(u) PROVE u[i] = w[i]
  <2>1. CASE i <= Len(from)
    BY <2>1 DEF Begins
  <2>2. CASE i > Len(from)
    <3>1. PICK j \in 1..Len(mu) : j = i - Len(from) + Len(to)
      <4>1. i - Len(from) + Len(to) \in 1..Len(mu)
        BY <1>2, <2>2
      <4>. QED  BY <4>1
    <3>2. mu[j] = u[i]
      <4>1. i \in (Len(from) + 1)..Len(u)
        BY <2>2
      <4>. QED  BY <1>2, <3>1, <4>1
    <3>3. i \in (Len(from) + 1)..Len(w)
      BY <1>5, <2>2
    <3>4. mw[j] = w[i]
      BY <1>3, <3>1, <3>3
    <3>5. mu[j] = mw[j]
      BY <1>4 DEF Begins
    <3>. QED  BY <3>2, <3>4, <3>5
  <2>. QED  BY <2>1, <2>2
<1>7. Begins(u, w)
  BY <1>5, <1>6 DEF Begins
<1>. QED  BY <1>5, <1>7, StrictlyBegins

-----------------------------------------------------------------------------
(* No edit makes a file of a folder.                                          *)

NoFileAbove(e) == \A p, q \in DOMAIN e : IsStrictPrefix(p, q) => ~ IsFile(e, p)

\* Entries of which each can be reached, their paths over the names S.
ClearOver(S, e) == DOMAIN e \subseteq Seq(S) \ {Root} /\ NoFileAbove(e)

\* Above a path whose folder is there, there is no file.
LEMMA FoldersAbove ==
    ASSUME NEW S, NEW e, ClearOver(S, e), NEW p \in Seq(S) \ {Root},
           FolderExists(e, Parent(p)), NEW q \in DOMAIN e, IsStrictPrefix(q, p)
    PROVE  ~ IsFile(e, q)
<1>1. q \in Seq(S) /\ q # Root
  BY DEF ClearOver
<1>2. Begins(q, p) /\ Len(q) < Len(p)
  BY <1>1, StrictlyBegins
<1>3. /\ Parent(p) \in Seq(S) /\ Len(Parent(p)) = Len(p) - 1
      /\ \A i \in 1..(Len(p) - 1) : Parent(p)[i] = p[i]
  BY FrontBegins DEF Parent, Root
<1>4. Begins(q, Parent(p))
  BY <1>1, <1>2, <1>3 DEF Begins
<1>5. Parent(p) # Root
  <2>1. Len(q) # 0
    BY <1>1 DEF Root
  <2>2. Len(Parent(p)) # 0
    BY <1>1, <1>3, <1>4, <2>1 DEF Begins
  <2>. QED  BY <2>2 DEF Root
<1>6. PICK r \in DOMAIN e : IsPrefix(Parent(p), r) /\ (r = Parent(p) => e[r] = Marker)
  BY <1>5 DEF FolderExists
<1>7. r \in Seq(S) /\ Begins(Parent(p), r)
  BY <1>3, <1>6, PrefixBegins DEF ClearOver
<1>8. Begins(q, r)
  BY <1>1, <1>3, <1>4, <1>7 DEF Begins
<1>9. CASE q = r
  <2>1. Len(Parent(p)) = Len(q)
    BY <1>1, <1>3, <1>4, <1>7, <1>9 DEF Begins
  <2>2. Parent(p) = q
    BY <1>1, <1>3, <1>4, <2>1, SeqEqual DEF Begins
  <2>. QED  BY <1>6, <1>9, <2>2 DEF IsFile
<1>10. CASE q # r
  <2>1. IsStrictPrefix(q, r)
    BY <1>1, <1>7, <1>8, <1>10, PrefixBegins DEF IsStrictPrefix
  <2>. QED  BY <2>1 DEF ClearOver, NoFileAbove
<1>. QED  BY <1>9, <1>10

LEMMA WithKeepsClear ==
    ASSUME NEW S, NEW e, ClearOver(S, e), NEW p \in Seq(S) \ {Root}, NEW c,
           FolderExists(e, Parent(p)), FolderExists(e, p) => IsFile(e, p)
    PROVE  NoFileAbove(With(e, p, c))
<1>. DEFINE f == With(e, p, c)
<1>1. DOMAIN f = DOMAIN e \cup {p} /\ \A q \in DOMAIN e \ {p} : f[q] = e[q]
  BY DEF With
<1>2. ~ IsStrictPrefix(p, p)
  BY DEF IsStrictPrefix
<1>3. ASSUME NEW q \in DOMAIN e, IsStrictPrefix(p, q) PROVE FALSE
  <2>1. FolderExists(e, p)
    BY <1>3 DEF FolderExists, IsStrictPrefix
  <2>. QED  BY <1>3, <2>1 DEF ClearOver, NoFileAbove, IsFile
<1>4. ASSUME NEW q \in DOMAIN e \ {p}, IsStrictPrefix(q, p) PROVE ~ IsFile(e, q)
  BY <1>4, FoldersAbove
<1>. QED  BY <1>1, <1>2, <1>3, <1>4 DEF NoFileAbove, ClearOver, IsFile

LEMMA WithoutKeepsClear ==
    ASSUME NEW e, NoFileAbove(e), NEW p
    PROVE  NoFileAbove(Without(e, p))
BY DEF NoFileAbove, Without, Restrict, IsFile

LEMMA RenamedKeepsClear ==
    ASSUME NEW S, NEW e, ClearOver(S, e), NEW from \in Seq(S) \ {Root}, NEW to \in Seq(S) \ {Root},
           FolderExists(e, Parent(to)), CanRename(e, from, to)
    PROVE  NoFileAbove(Renamed(e, from, to))
<1>. DEFINE under == IF IsFile(e, from) THEN {from} ELSE {q \in DOMAIN e : IsPrefix(from, q)}
            moved == {Moved(u, from, to) : u \in under}
            f == Renamed(e, from, to)
<1>1. under \subseteq DOMAIN e /\ \A u \in under : u \in Seq(S) /\ Begins(from, u)
  <2>1. CASE IsFile(e, from)
    BY <2>1 DEF IsFile, ClearOver, Begins
  <2>2. CASE ~ IsFile(e, from)
    BY <2>2, PrefixBegins DEF ClearOver
  <2>. QED  BY <2>1, <2>2
<1>2. /\ DOMAIN f = (DOMAIN e \ under) \cup moved
      /\ \A q \in moved : f[q] = e[Moved(q, to, from)]
      /\ \A q \in (DOMAIN e \ under) \ moved : f[q] = e[q]
  BY DEF Renamed
<1>3. \A u \in under : /\ Begins(to, Moved(u, from, to)) /\ Moved(u, from, to) \in Seq(S)
                       /\ Moved(Moved(u, from, to), to, from) = u
  BY <1>1, MovedBack, MovedPath
<1>. HIDE DEF under, moved
<1>4. CASE from = to
  <2>1. \A u \in under : Moved(u, from, to) = u
    <3>. TAKE u \in under
    <3>. DEFINE m == Moved(u, from, to)
    <3>1. u \in Seq(S) /\ Begins(from, u)
      BY <1>1
    <3>2. m \in Seq(S) /\ Len(m) = Len(to) + Len(u) - Len(from)
      BY <3>1, MovedPath
    <3>3. \A i \in 1..Len(to) : m[i] = to[i]
      BY <3>1, MovedPath
    <3>4. \A i \in (Len(from) + 1)..Len(u) : m[i - Len(from) + Len(to)] = u[i]
      BY <3>1, MovedPath
    <3>. HIDE DEF m
    <3>5. ASSUME NEW i \in 1..Len(u) PROVE m[i] = u[i]
      <4>1. CASE i \in 1..Len(from)
        BY <1>4, <3>1, <3>3, <4>1 DEF Begins
      <4>2. CASE i \in (Len(from) + 1)..Len(u)
        BY <1>4, <3>4, <4>2
      <4>. QED  BY <3>1, <4>1, <4>2
    <3>6. m = u
      BY <1>4, <3>1, <3>2, <3>5, SeqEqual
    <3>. QED  BY <3>6 DEF m
  <2>2. moved = under
    BY <2>1 DEF moved
  <2>3. DOMAIN f = DOMAIN e /\ \A q \in DOMAIN e : f[q] = e[q]
    BY <1>1, <1>2, <1>4, <2>1, <2>2
  <2>. QED  BY <2>3 DEF ClearOver, NoFileAbove, IsFile
<1>5. CASE from # to
  <2>1. ~ IsFile(e, to) /\ ~ FolderExists(e, to)
    BY <1>5 DEF CanRename
  <2>2. \A q \in DOMAIN e : ~ Begins(to, q)
    <3>1. \A q \in DOMAIN e : ~ IsPrefix(to, q)
      BY <2>1 DEF IsFile, FolderExists
    <3>. QED  BY <3>1, PrefixBegins DEF ClearOver
  <2>3. \A q \in moved : q \in Seq(S) /\ Begins(to, q)
    BY <1>3 DEF moved
  <2>4. ASSUME NEW p \in DOMAIN f, NEW q \in DOMAIN f, IsStrictPrefix(p, q), IsFile(f, p)
        PROVE  FALSE
    <3>1. p \in Seq(S) /\ q \in Seq(S)
      BY <1>2, <2>3 DEF ClearOver
    <3>2. Begins(p, q) /\ Len(p) < Len(q)
      BY <2>4, <3>1, StrictlyBegins
    <3>3. CASE p \in DOMAIN e \ under /\ q \in DOMAIN e \ under
      BY <1>2, <2>2, <2>3, <2>4, <3>3 DEF ClearOver, NoFileAbove, IsFile
    <3>4. CASE p \in DOMAIN e \ under /\ q \in moved
      <4>1. ~ Begins(to, p) /\ Begins(to, q)
        BY <2>2, <2>3, <3>4
      <4>2. Begins(p, to) /\ Len(p) < Len(to)
        <5>1. ~ (Len(to) <= Len(p))
          BY <3>1, <3>2, <4>1 DEF Begins
        <5>. QED  BY <3>1, <3>2, <4>1, <5>1 DEF Begins
      <4>3. IsStrictPrefix(p, to)
        BY <3>1, <4>2, StrictlyBegins
      <4>4. ~ IsFile(e, p)
        BY <3>4, <4>3, FoldersAbove
      <4>. QED  BY <1>2, <2>2, <2>3, <2>4, <3>4, <4>4 DEF IsFile
    <3>5. CASE p \in moved /\ q \in DOMAIN e \ under
      <4>1. Begins(to, q)
        BY <2>3, <3>1, <3>2, <3>5 DEF Begins
      <4>. QED  BY <2>2, <3>5, <4>1
    <3>6. CASE p \in moved /\ q \in moved
      <4>1. PICK u \in under : p = Moved(u, from, to)
        BY <3>6 DEF moved
      <4>2. PICK w \in under : q = Moved(w, from, to)
        BY <3>6 DEF moved
      <4>3. IsStrictPrefix(u, w)
        BY <1>1, <2>4, <4>1, <4>2, MovedKeepsAbove
      <4>4. f[p] = e[u]
        BY <1>2, <1>3, <3>6, <4>1
      <4>. QED  BY <1>1, <2>4, <4>3, <4>4 DEF ClearOver, NoFileAbove, IsFile
    <3>. QED  BY <1>2, <3>3, <3>4, <3>5, <3>6
  <2>. QED  BY <2>4 DEF NoFileAbove
<1>. QED  BY <1>4, <1>5

-----------------------------------------------------------------------------
(* The invariant: in what is open and in the file, no file has anything in it. *)

TreeInv ==
    /\ archive = Broken \/ IsTree(Readable(archive))
    /\ \A s \in Sides : IsTree(views[s].entries)

\* The names in the paths of e and in those a user may type.
NamesIn(e) == UNION {Range(p) : p \in DOMAIN e \cup Paths}

LEMMA TreeIsClear ==
    ASSUME OnlyTrees, NEW e, IsTree(e)
    PROVE  ClearOver(NamesIn(e), e) /\ Paths \subseteq Seq(NamesIn(e)) \ {Root}
<1>1. ASSUME NEW p \in DOMAIN e \cup Paths PROVE p \in Seq(NamesIn(e)) /\ p # Root
  <2>1. p \in Seq(Range(p)) /\ p # Root
    BY <1>1 DEF OnlyTrees, IsTree, IsPath
  <2>2. Range(p) \subseteq NamesIn(e)
    BY <1>1 DEF NamesIn
  <2>. QED  BY <2>1, <2>2
<1>. QED  BY <1>1 DEF ClearOver, NoFileAbove, IsTree

LEMMA EditKeepsTree ==
    ASSUME OnlyTrees, NEW e, IsTree(e), NEW new, DOMAIN new \subseteq Paths,
           new \in Write(e) \cup MakeDirectory(e) \cup Delete(e) \cup Rename(e) \cup SetAttributes(e)
    PROVE  IsTree(new)
<1>. DEFINE S == NamesIn(e)
<1>1. ClearOver(S, e) /\ Paths \subseteq Seq(S) \ {Root}
  BY TreeIsClear
<1>. HIDE DEF S
<1>2. NoFileAbove(new)
  <2>1. CASE new \in Write(e) \cup MakeDirectory(e)
    <3>1. PICK p \in Paths : \E c : /\ new = With(e, p, c) /\ FolderExists(e, Parent(p))
                                    /\ FolderExists(e, p) => IsFile(e, p)
      BY <2>1 DEF Write, MakeDirectory
    <3>2. PICK c : /\ new = With(e, p, c) /\ FolderExists(e, Parent(p)) /\ (FolderExists(e, p) => IsFile(e, p))
      BY <3>1
    <3>. QED  BY <1>1, <3>2, WithKeepsClear
  <2>2. CASE new \in Delete(e)
    BY <1>1, <2>2, WithoutKeepsClear DEF Delete, ClearOver
  <2>3. CASE new \in Rename(e)
    <3>1. PICK x \in Paths \X Paths : /\ new = Renamed(e, x[1], x[2])
                                      /\ FolderExists(e, Parent(x[2])) /\ CanRename(e, x[1], x[2])
      BY <2>3 DEF Rename
    <3>. QED  BY <1>1, <3>1, RenamedKeepsClear
  <2>4. CASE new \in SetAttributes(e)
    BY <1>1, <2>4 DEF SetAttributes, ClearOver
  <2>. QED  BY <2>1, <2>2, <2>3, <2>4
<1>. QED  BY <1>2 DEF IsTree, NoFileAbove, OnlyTrees

LEMMA ClosedIsTree == IsTree(Closed.entries)
BY DEF Closed, IsTree

\* What a step makes of the entries of a panel, but for an edit.
LEMMA EntriesAfter ==
    ASSUME ZipInv, Next, \A s \in Sides : ~ Edit(s), NEW s \in Sides
    PROVE  \/ views'[s].entries \in {views[s].entries, Closed.entries}
           \/ archive # Broken /\ views'[s].entries = Readable(archive)
<1>. USE DEF ZipInv
<1>1. ASSUME NEW t \in Sides, \E v \in LoadedViews(views[t], archive) : views' = [views EXCEPT ![t] = v]
      PROVE  \/ views'[s].entries = views[s].entries
             \/ archive # Broken /\ views'[s].entries = Readable(archive)
  BY <1>1, LoadedShape DEF ViewsShape
<1>2. ASSUME NEW t \in Sides, \E v \in FailedLoads(views[t], archive) : views' = [views EXCEPT ![t] = v]
      PROVE  views'[s].entries = views[s].entries
  BY <1>2, FailedShape DEF ViewsShape
<1>3. ASSUME NEW t \in Sides, SaveAndLeave(t) \/ LeaveUnsaved(t)
      PROVE  views'[s].entries \in {views[s].entries, Closed.entries}
  BY <1>3 DEF SaveAndLeave, LeaveUnsaved, ViewsShape
<1>4. ASSUME NEW t \in Sides, SaveAndStay(t) PROVE views'[s].entries = views[s].entries
  <2>1. views' = views \/ \E key : views' = [views EXCEPT ![t].key = key]
    BY <1>4 DEF SaveAndStay, SaveFails
  <2>. QED  BY <2>1 DEF ViewsShape, ViewShape
<1>5. CASE \E t \in Sides : Open(t) \/ Reload(t) \/ Leave(t)
  BY <1>1, <1>2, <1>3, <1>4, <1>5 DEF Open, Reload, Leave
<1>6. CASE QuitAsks
  <2>1. Head(asking) \in Sides
    BY <1>6, TailAsked DEF QuitAsks, AskingInv
  <2>. QED  BY <1>3, <1>4, <1>6, <2>1 DEF QuitAsks
<1>7. CASE Quit \/ QuitCloses \/ QuitUnasked \/ Replaced
  BY <1>7 DEF Quit, QuitCloses, QuitUnasked, Replaced
<1>. QED  BY <1>5, <1>6, <1>7 DEF Next

\* What a step makes of the file.
LEMMA FileAfter ==
    ASSUME ZipInv, Next
    PROVE  \/ archive' \in {archive, Broken} \cup OtherArchives
           \/ \E s \in Sides : \E key : archive' = Packed(views[s].entries, key)
<1>1. ASSUME NEW s \in Sides, SaveAndLeave(s) \/ LeaveUnsaved(s) \/ SaveAndStay(s)
      PROVE  \/ archive' \in {archive, Broken}
             \/ \E key : archive' = Packed(views[s].entries, key)
  BY <1>1 DEF SaveAndLeave, SaveOk, LeaveUnsaved, SaveAndStay, SaveFails
<1>2. CASE QuitAsks
  <2>1. Head(asking) \in Sides
    BY <1>2, TailAsked DEF ZipInv, QuitAsks, AskingInv
  <2>. QED  BY <1>1, <1>2, <2>1 DEF QuitAsks
<1>3. CASE \E s \in Sides : Open(s) \/ Reload(s) \/ Edit(s) \/ Leave(s)
  BY <1>1, <1>3 DEF Open, Reload, Edit, Leave
<1>4. CASE Quit \/ QuitCloses \/ QuitUnasked \/ Replaced
  BY <1>4 DEF Quit, QuitCloses, QuitUnasked, Replaced
<1>. QED  BY <1>2, <1>3, <1>4 DEF Next

LEMMA TreeStep == OnlyTrees /\ ZipInv /\ TreeInv /\ [Next]_vars => TreeInv'
<1>. SUFFICES ASSUME OnlyTrees, ZipInv, TreeInv, Next PROVE TreeInv'
  <2>1. UNCHANGED vars /\ TreeInv => TreeInv'
    BY DEF vars, TreeInv, IsTree, IsFile, Readable, Damaged
  <2>. QED  BY <2>1
<1>1. archive' = Broken \/ IsTree(Readable(archive'))
  <2>1. \A s \in Sides : \A key : Readable(Packed(views[s].entries, key)) = views[s].entries
    BY PackedIsRead DEF ZipInv, ViewsShape, ViewShape
  <2>. QED  BY <2>1, FileAfter DEF TreeInv, OnlyTrees
<1>2. ASSUME NEW s \in Sides PROVE IsTree(views'[s].entries)
  <2>1. ASSUME NEW t \in Sides, Edit(t) PROVE IsTree(views'[s].entries)
    <3>1. PICK new : /\ new \in Write(views[t].entries) \cup MakeDirectory(views[t].entries)
                                \cup Delete(views[t].entries) \cup Rename(views[t].entries)
                                \cup SetAttributes(views[t].entries)
                     /\ DOMAIN new \subseteq Paths
                     /\ views' = [views EXCEPT ![t] = Changed(views[t], new)]
      BY <2>1 DEF Edit, ZipInv, ViewsShape
    <3>2. IsTree(new)
      BY <3>1, EditKeepsTree DEF TreeInv
    <3>3. Changed(views[t], new).entries = new
      BY DEF Changed, ZipInv, ViewsShape, ViewShape
    <3>. QED  BY <3>1, <3>2, <3>3 DEF TreeInv, ZipInv, ViewsShape
  <2>2. CASE \A t \in Sides : ~ Edit(t)
    BY <2>2, EntriesAfter, ClosedIsTree DEF TreeInv
  <2>. QED  BY <2>1, <2>2
<1>. QED  BY <1>1, <1>2 DEF TreeInv, IsTree, IsFile, Readable, Damaged

\* No edit makes a file of a folder that has something in it, whatever is
\* written, made, deleted and renamed in however many panels: if no archive that
\* comes from outside has such a file, none is ever shown or written.
THEOREM FoldersStayFolders == OnlyTrees => (Spec => []NoFileIsAFolder)
<1>. SUFFICES ASSUME OnlyTrees PROVE Spec => []NoFileIsAFolder
  OBVIOUS
<1>1. Init => TreeInv
  BY ClosedIsTree DEF Init, TreeInv, OnlyTrees
<1>2. TreeInv => NoFileIsAFolder
  BY DEF TreeInv, IsTree, NoFileIsAFolder
<1>3. ZipInv /\ TreeInv /\ [Next]_vars => TreeInv'
  BY TreeStep
<1>. QED  BY <1>1, <1>2, <1>3, ZipInvariant, PTL DEF Spec
=============================================================================
