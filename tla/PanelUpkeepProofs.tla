------------------------- MODULE PanelUpkeepProofs -------------------------
(***************************************************************************)
(* What the upkeep of a panel promises for any folders, names, changes of   *)
(* other programs, slices of a listing and capacity of the size cache: no   *)
(* change goes unnoticed, no measurement is given up that is wanted, and no  *)
(* folder is shown as being measured that the worker does not have.          *)
(***************************************************************************)
EXTENDS PanelUpkeep, TLAPS, WellFoundedInduction, FiniteSetTheorems

-----------------------------------------------------------------------------
(* The panel and its watch.  Shapes say which fields a record has.            *)

IsPanel(p) ==
    DOMAIN p = {"path", "entries", "selected", "toRead", "unread", "loading", "unseen",
                "preserve", "kept", "keptPath", "content"}
IsAuto(a) == DOMAIN a = {"mode", "armedPath", "contentShown", "pending", "refresh"}
IsWatch(w) == DOMAIN w = {"state", "path", "signalled", "lost"}

Shapes ==
    /\ IsPanel(panel) /\ IsAuto(auto) /\ IsWatch(watch)
    /\ panel.path \in Paths
    /\ panel.entries = [x \in DOMAIN panel.entries |-> panel.entries[x]]
    /\ panel.loading \in BOOLEAN /\ exposed \in BOOLEAN
    /\ auto.pending \in BOOLEAN /\ auto.refresh \in BOOLEAN /\ auto.contentShown \in BOOLEAN
    /\ watch.signalled \in BOOLEAN /\ watch.lost \in BOOLEAN
    /\ DOMAIN disk = Paths

\* What was read, or left out because reading failed, is as it is on the disk,
\* and the rest is still to be read.
Fresh ==
    /\ DOMAIN panel.entries \cup DOMAIN panel.unread \cup panel.toRead = Present(panel.path)
    /\ \A x \in DOMAIN panel.entries : panel.entries[x] = disk[panel.path][x]
    /\ \A x \in DOMAIN panel.unread : panel.unread[x] = disk[panel.path][x]

AtHome == auto.armedPath = panel.path

\* A poll has taken note of the listing, and what changed since is on its way,
\* if the folder can be watched at all.
Covered ==
    /\ AtHome /\ "auto" \notin panel.unseen
    /\ watch.state = "Active" => OnItsWay

\* Names are to be read during a listing, and left out at its end.
ListingEnds(p) == IF p.loading THEN DOMAIN p.unread = {} ELSE p.toRead = {}

\* A listing that a poll took note of is the one the watch is armed for, or content
\* was shown since, and the next poll arms it.
Noted ==
    /\ auto.contentShown => auto.armedPath = NoPath
    /\ auto.mode # "Off" /\ "auto" \notin panel.unseen => AtHome \/ auto.contentShown

\* A handle whose volume went away has that to report, until a poll gives it up.
Attached(w) == w.state = "Active" /\ w.path \in gone => w.signalled /\ w.lost

NoticeInv ==
    /\ Shapes
    /\ Noted
    /\ Attached(watch)
    /\ ListingEnds(panel)
    /\ auto.refresh => auto.pending
    /\ watch.state = "Active" => watch.path = auto.armedPath
    /\ auto.mode # "Off" /\ ~ exposed =>
          \/ Fresh
          \/ auto.contentShown
          \/ Covered

LEMMA FinishedPanel ==
    ASSUME NEW p, IsPanel(p)
    PROVE  LET q == FinishRefresh(p)
           IN  /\ IsPanel(q) /\ q.loading = FALSE
               /\ q.path = p.path /\ q.entries = p.entries /\ q.toRead = p.toRead
               /\ q.unread = p.unread /\ q.unseen = p.unseen
BY DEF IsPanel, FinishRefresh, ApplyPreservedState

\* A listing that is cut short has left out what it had still to read.
LeftOut(p, q) ==
    /\ IsPanel(q) /\ q.loading = FALSE
    /\ q.path = p.path /\ q.entries = p.entries /\ q.toRead = {} /\ q.unseen = p.unseen
    /\ DOMAIN q.unread = p.toRead
    /\ \A x \in p.toRead : q.unread[x] = WriteTime(p.path, x)

LEMMA CutPanel ==
    ASSUME NEW p, IsPanel(p)
    PROVE  LeftOut(p, CutShort(p))
<1>1. PICK u : u = [x \in p.toRead |-> WriteTime(p.path, x)]
  OBVIOUS
<1>2. DOMAIN u = p.toRead /\ \A x \in p.toRead : u[x] = WriteTime(p.path, x)
  BY <1>1
<1>3. PICK r : r = [p EXCEPT !.unread = u, !.toRead = {}]
  OBVIOUS
<1>4. /\ IsPanel(r) /\ r.path = p.path /\ r.entries = p.entries /\ r.toRead = {}
      /\ r.unread = u /\ r.unseen = p.unseen
  BY <1>3 DEF IsPanel
<1>5. CutShort(p) = FinishRefresh(r)
  BY <1>1, <1>3 DEF CutShort
<1>6. PICK q : q = FinishRefresh(r)
  OBVIOUS
<1>7. /\ IsPanel(q) /\ q.loading = FALSE /\ q.path = p.path /\ q.entries = p.entries
      /\ q.toRead = {} /\ q.unread = u /\ q.unseen = p.unseen
  BY <1>4, <1>6, FinishedPanel
<1>. QED  BY <1>2, <1>5, <1>6, <1>7 DEF LeftOut

\* A listing that begins is as fresh as can be, whether the folder could be
\* opened or not, and nobody has seen it.
LEMMA BegunPanel ==
    ASSUME NEW p, IsPanel(p), NEW opens
    PROVE  LET q == BeginRefresh(p, opens)
           IN  /\ IsPanel(q) /\ q.loading \in BOOLEAN
               /\ q.path = p.path /\ q.entries = << >> /\ q.unseen = Observers
               /\ DOMAIN q.unread \cup q.toRead = Present(p.path)
               /\ \A x \in DOMAIN q.unread : q.unread[x] = WriteTime(p.path, x)
               /\ ListingEnds(q)
<1> DEFINE begun == [p EXCEPT !.entries = << >>, !.selected = {}, !.unread = << >>,
                              !.toRead = Present(p.path), !.unseen = Observers]
<1>1. /\ IsPanel(begun) /\ begun.path = p.path /\ begun.entries = << >>
      /\ begun.unread = << >> /\ begun.toRead = Present(p.path) /\ begun.unseen = Observers
  BY DEF IsPanel
<1> HIDE DEF begun
<1>2. CASE ~ (opens /\ p.path \notin gone)
  <2>1. BeginRefresh(p, opens) = CutShort(begun)
    BY <1>2 DEF BeginRefresh, begun
  <2>2. PICK q : q = CutShort(begun)
    OBVIOUS
  <2>3. LeftOut(begun, q)
    BY <1>1, <2>2, CutPanel
  <2>4. /\ IsPanel(q) /\ q.loading = FALSE /\ q.path = p.path /\ q.entries = << >>
        /\ q.unseen = Observers /\ q.toRead = {}
        /\ DOMAIN q.unread = Present(p.path)
        /\ \A x \in Present(p.path) : q.unread[x] = WriteTime(p.path, x)
    BY <1>1, <2>3 DEF LeftOut
  <2>. QED  BY <2>1, <2>2, <2>4 DEF ListingEnds
<1>3. CASE opens /\ p.path \notin gone
  <2>1. BeginRefresh(p, opens) = [begun EXCEPT !.loading = TRUE]
    BY <1>3 DEF BeginRefresh, begun
  <2>2. PICK q : q = [begun EXCEPT !.loading = TRUE]
    OBVIOUS
  <2>3. /\ IsPanel(q) /\ q.loading = TRUE /\ q.path = p.path /\ q.entries = << >>
        /\ q.unread = << >> /\ q.toRead = Present(p.path) /\ q.unseen = Observers
    BY <1>1, <2>2 DEF IsPanel
  <2>4. DOMAIN q.unread = {}
    BY <2>3
  <2>. QED  BY <2>1, <2>2, <2>3, <2>4 DEF ListingEnds
<1>. QED  BY <1>2, <1>3

\* A listing begun for the panel re-establishes the invariant, whether the poll
\* that follows it has been told or not.
LEMMA BegunIsFresh ==
    ASSUME NEW p, IsPanel(p), p.path \in Paths, NEW opens,
           \/ panel' = BeginRefresh(p, opens)
           \/ panel' = [BeginRefresh(p, opens) EXCEPT !.unseen = @ \ {"auto"}],
           UNCHANGED <<disk, gone>>
    PROVE  /\ IsPanel(panel') /\ panel'.path \in Paths /\ panel'.loading \in BOOLEAN
           /\ panel'.entries = [x \in DOMAIN panel'.entries |-> panel'.entries[x]]
           /\ ListingEnds(panel') /\ Fresh'
<1>1. PICK q : q = BeginRefresh(p, opens)
  OBVIOUS
<1>2. /\ IsPanel(q) /\ q.loading \in BOOLEAN
      /\ q.path = p.path /\ q.entries = << >>
      /\ DOMAIN q.unread \cup q.toRead = Present(p.path)
      /\ \A x \in DOMAIN q.unread : q.unread[x] = WriteTime(p.path, x)
      /\ ListingEnds(q)
  BY <1>1, BegunPanel
<1>3. /\ IsPanel(panel') /\ panel'.loading = q.loading /\ panel'.path = p.path
      /\ panel'.entries = << >> /\ panel'.toRead = q.toRead /\ panel'.unread = q.unread
  BY <1>1, <1>2 DEF IsPanel
<1>4. DOMAIN panel'.entries = {}
  BY <1>3
<1>5. Present(p.path)' = Present(p.path) /\ disk' = disk
  BY DEF Present
<1>6. \A x \in DOMAIN panel'.unread : panel'.unread[x] = disk'[p.path][x]
  BY <1>2, <1>3, <1>5 DEF WriteTime, Present
<1>7. Fresh'
  BY <1>2, <1>3, <1>4, <1>5, <1>6 DEF Fresh
<1>. QED  BY <1>2, <1>3, <1>4, <1>7 DEF ListingEnds

-----------------------------------------------------------------------------
(* The steps of the UI thread.                                                *)

LEMMA ReadPanel ==
    ASSUME IsPanel(panel), NEW some
    PROVE  LET q == ReadEntries(some)
           IN  /\ IsPanel(q) /\ q.path = panel.path /\ q.loading = panel.loading
               /\ q.unseen = panel.unseen /\ q.unread = panel.unread
               /\ q.toRead = panel.toRead \ some
               /\ q.entries = [x \in DOMAIN panel.entries \cup some |->
                                 IF x \in some THEN WriteTime(panel.path, x) ELSE panel.entries[x]]
BY DEF ReadEntries, IsPanel

\* A slice moves some names from those to be read to those that are read, and
\* the rest, when it is cut short, to those left out.
Slice(some) ==
    /\ IsPanel(panel') /\ panel'.path = panel.path /\ panel'.unseen = panel.unseen
    /\ panel'.loading \in BOOLEAN /\ ListingEnds(panel')
    /\ panel'.entries = ReadEntries(some).entries
    /\ DOMAIN panel'.unread \cup panel'.toRead = panel.toRead \ some
    /\ \A x \in DOMAIN panel'.unread : panel'.unread[x] = WriteTime(panel.path, x)

LEMMA Pumped ==
    ASSUME NoticeInv, PumpRefresh, ~ UNCHANGED panel
    PROVE  \E some \in SUBSET panel.toRead : Slice(some)
<1>1. PICK some \in SUBSET panel.toRead :
        \/ some = panel.toRead /\ panel' = FinishRefresh(ReadEntries(some))
        \/ panel' = ReadEntries(some)
        \/ panel' = CutShort(ReadEntries(some))
  BY DEF PumpRefresh
<1>2. panel.loading /\ DOMAIN panel.unread = {} /\ IsPanel(panel) /\ panel.loading \in BOOLEAN
  BY DEF PumpRefresh, NoticeInv, Shapes, ListingEnds
<1>3. PICK q : q = ReadEntries(some)
  OBVIOUS
<1>4. /\ IsPanel(q) /\ q.path = panel.path /\ q.loading = panel.loading
      /\ q.unseen = panel.unseen /\ q.unread = panel.unread
      /\ q.toRead = panel.toRead \ some
  BY <1>2, <1>3, ReadPanel
<1>5. CASE some = panel.toRead /\ panel' = FinishRefresh(q)
  <2>1. /\ IsPanel(panel') /\ panel'.loading = FALSE /\ panel'.path = panel.path
        /\ panel'.entries = q.entries /\ panel'.toRead = panel.toRead \ some
        /\ panel'.unread = panel.unread /\ panel'.unseen = panel.unseen
    BY <1>4, <1>5, FinishedPanel
  <2>2. panel'.toRead = {}
    BY <1>5, <2>1
  <2>3. DOMAIN panel'.unread = {}
    BY <1>2, <2>1
  <2>. QED  BY <1>3, <1>5, <2>1, <2>2, <2>3 DEF ListingEnds, Slice
<1>6. CASE panel' = q
  <2>1. DOMAIN panel'.unread = {}
    BY <1>2, <1>4, <1>6
  <2>. QED  BY <1>2, <1>3, <1>4, <1>6, <2>1 DEF ListingEnds, Slice
<1>7. CASE panel' = CutShort(q)
  <2>1. LeftOut(q, panel')
    BY <1>4, <1>7, CutPanel
  <2>. QED  BY <1>3, <1>4, <2>1 DEF ListingEnds, Slice, LeftOut
<1>. QED  BY <1>1, <1>3, <1>5, <1>6, <1>7

LEMMA PumpKeeps ==
    ASSUME NoticeInv, PumpRefresh, UNCHANGED <<disk, gone, watch, auto, exposed>>
    PROVE  NoticeInv'
<1>1. CASE UNCHANGED panel
  BY <1>1 DEF NoticeInv, Shapes, Noted, Attached, Fresh, AtHome, Covered, OnItsWay, Present, ListingEnds
<1>2. CASE ~ UNCHANGED panel
  <2>0. PICK some \in SUBSET panel.toRead : Slice(some)
    BY <1>2, Pumped
  <2>1. /\ IsPanel(panel') /\ panel'.path = panel.path /\ panel'.unseen = panel.unseen
        /\ panel'.loading \in BOOLEAN /\ ListingEnds(panel')
        /\ panel'.entries =
              [x \in DOMAIN panel.entries \cup some |->
                 IF x \in some THEN WriteTime(panel.path, x) ELSE panel.entries[x]]
        /\ DOMAIN panel'.unread \cup panel'.toRead = panel.toRead \ some
        /\ \A x \in DOMAIN panel'.unread : panel'.unread[x] = WriteTime(panel.path, x)
    BY <2>0, ReadPanel DEF Slice, NoticeInv, Shapes
  <2>2. ASSUME Fresh PROVE Fresh'
    <3>1. DOMAIN panel.unread = {}
      BY <1>2 DEF PumpRefresh, NoticeInv, ListingEnds
    <3>2. /\ Present(panel.path)' = Present(panel.path) /\ disk' = disk
          /\ panel.toRead \subseteq Present(panel.path)
          /\ \A x \in panel.toRead : WriteTime(panel.path, x) = disk[panel.path][x]
      BY <2>1, <2>2 DEF Fresh, Present, WriteTime
    <3>. QED  BY <2>1, <2>2, <3>1, <3>2 DEF Fresh
  <2>3. AtHome' = AtHome /\ Covered' = Covered
    BY <2>1 DEF AtHome, Covered, OnItsWay
  <2>4. Shapes' /\ Noted' /\ Attached(watch)'
    BY <2>1 DEF NoticeInv, Shapes, Noted, Attached, AtHome
  <2>. QED  BY <2>1, <2>2, <2>3, <2>4 DEF NoticeInv, ListingEnds
<1>. QED  BY <1>1, <1>2

\* Polling a handle takes its report away and leaves the path.
LEMMA Polled ==
    ASSUME NEW w, IsWatch(w), w.signalled \in BOOLEAN, w.lost \in BOOLEAN, Attached(w)
    PROVE  LET q == AfterPoll(w)
           IN  /\ IsWatch(q) /\ q.path = w.path
               /\ q.signalled \in BOOLEAN /\ q.lost \in BOOLEAN
               /\ q.state = "Active" => w.state = "Active"
               /\ Attached(q)
BY DEF IsWatch, AfterPoll, PollSays, Attached

LEMMA Armed ==
    ASSUME NEW p
    PROVE  /\ IsWatch(Arm(p)) /\ Arm(p).path = p
           /\ Arm(p).signalled = FALSE /\ Arm(p).lost = FALSE
           /\ Attached(Arm(p))
BY DEF Arm, Closed, IsWatch, Attached

LEMMA PollClosedKeeps ==
    ASSUME NoticeInv, ~ auto.refresh, PollClosed, UNCHANGED <<disk, gone, exposed>>
    PROVE  NoticeInv'
<1>1. /\ IsAuto(auto') /\ auto'.mode = auto.mode /\ auto'.armedPath = NoPath
      /\ auto'.pending = FALSE /\ auto'.refresh = FALSE
      /\ auto'.contentShown = (auto.contentShown \/ (auto.mode # "Off" /\ panel.content))
  BY DEF NoticeInv, Shapes, PollClosed, Disarmed, IsAuto
<1>2. IsWatch(watch') /\ watch'.state = "Closed" /\ watch'.signalled = FALSE /\ watch'.lost = FALSE
  BY DEF PollClosed, Closed, IsWatch
<1>3. UNCHANGED panel
  BY DEF PollClosed
<1>4. Shapes'
  BY <1>1, <1>2, <1>3 DEF NoticeInv, Shapes
<1>6. auto'.mode # "Off" => auto'.contentShown
  BY <1>1 DEF PollClosed
<1>7. Noted' /\ Attached(watch)'
  BY <1>1, <1>2, <1>6 DEF Noted, Attached
<1>. QED  BY <1>1, <1>2, <1>3, <1>4, <1>6, <1>7 DEF NoticeInv, ListingEnds

LEMMA PollWatchedKeeps ==
    ASSUME NoticeInv, ~ auto.refresh, NEW busy, PollWatched(busy), UNCHANGED <<disk, gone, exposed>>
    PROVE  NoticeInv'
<1> DEFINE rearm == auto.armedPath # panel.path
           armed == IF rearm THEN Arm(panel.path) ELSE watch
           relisted == NewListing(rearm)
           drained == IF relisted THEN Drain(armed) ELSE armed
           burst == Burst(relisted, rearm)
           polled == AfterPoll(drained)
<1>1. PICK late \in BOOLEAN, tick \in BOOLEAN :
        LET timer == tick /\ auto.mode = "Poll" /\ polled.state # "Active"
            due == late /\ burst /\ ~ rearm /\ ~ busy /\ ~ panel.loading
        IN  /\ watch' = IF due THEN Drain(polled) ELSE polled
            /\ panel' = [panel EXCEPT !.unseen = @ \ {"auto"}]
            /\ auto' = [auto EXCEPT !.armedPath = panel.path,
                                    !.contentShown = @ /\ ~ rearm,
                                    !.pending = burst \/ PollSays(drained) \/ timer,
                                    !.refresh = due]
  BY DEF PollWatched
<1>2. /\ IsPanel(panel') /\ panel'.path = panel.path /\ panel'.entries = panel.entries
      /\ panel'.toRead = panel.toRead /\ panel'.unread = panel.unread
      /\ panel'.loading = panel.loading /\ "auto" \notin panel'.unseen
  BY <1>1 DEF NoticeInv, Shapes, IsPanel
<1>3. /\ IsAuto(auto') /\ auto'.mode = auto.mode /\ auto'.armedPath = panel.path
      /\ auto'.contentShown = FALSE
      /\ auto'.pending \in BOOLEAN /\ auto'.refresh \in BOOLEAN
      /\ (burst \/ PollSays(drained)) => auto'.pending
      /\ auto'.refresh => auto'.pending
  <2>1. panel.path # NoPath
    BY ListingAssumption DEF NoticeInv, Shapes
  <2>. QED  BY <1>1, <2>1 DEF NoticeInv, Shapes, Noted, IsAuto, PollSays
<1>4. /\ IsWatch(armed) /\ armed.signalled \in BOOLEAN /\ armed.lost \in BOOLEAN
      /\ armed.state = "Active" => armed.path = panel.path
      /\ Attached(armed)
  BY Armed DEF NoticeInv, Shapes
<1>5. /\ IsWatch(drained) /\ drained.signalled \in BOOLEAN /\ drained.lost \in BOOLEAN
      /\ drained.path = armed.path /\ (drained.state = "Active" => armed.state = "Active")
      /\ Attached(drained)
  BY <1>4, Polled DEF Drain
<1>6. /\ IsWatch(polled) /\ polled.signalled \in BOOLEAN /\ polled.lost \in BOOLEAN
      /\ polled.path = armed.path /\ (polled.state = "Active" => drained.state = "Active")
      /\ Attached(polled)
  BY <1>5, Polled
<1>7. /\ IsWatch(watch') /\ watch'.signalled \in BOOLEAN /\ watch'.lost \in BOOLEAN
      /\ watch'.path = armed.path
      /\ watch'.state = "Active" => polled.state = "Active"
      /\ Attached(watch')
  BY <1>1, <1>6, Polled DEF Drain
<1>8. Shapes'
  BY <1>2, <1>3, <1>7 DEF NoticeInv, Shapes
<1>9. Fresh => Fresh'
  BY <1>2 DEF Fresh, Present
<1>10. AtHome' /\ (auto'.pending => Covered')
  BY <1>2, <1>3 DEF AtHome, Covered, OnItsWay
<1>11. auto.contentShown => auto'.pending
  <2>1. auto.contentShown => rearm
    BY ListingAssumption DEF NoticeInv, Shapes, Noted
  <2>. QED  BY <1>3, <2>1 DEF NewListing, Burst
<1>12. Covered => Covered'
  <2>1. SUFFICES ASSUME Covered PROVE Covered'
    OBVIOUS
  <2>2. ~ relisted /\ ~ rearm
    BY <2>1 DEF Covered, AtHome, NewListing
  <2>3. CASE watch.state # "Active"
    <3>1. watch'.state # "Active"
      BY <1>5, <1>6, <1>7, <2>2, <2>3
    <3>. QED  BY <3>1, <1>2, <1>10 DEF Covered
  <2>4. CASE watch.state = "Active"
    <3>1. watch.signalled \/ auto.pending
      BY <2>1, <2>4 DEF Covered, OnItsWay
    <3>2. burst \/ PollSays(drained)
      BY <2>2, <2>4, <3>1 DEF PollSays, Burst
    <3>. QED  BY <3>2, <1>3, <1>10
  <2>. QED  BY <2>3, <2>4
<1> HIDE DEF armed, drained, polled, burst, relisted, rearm
<1>13. watch'.state = "Active" => watch'.path = auto'.armedPath
  BY <1>3, <1>4, <1>5, <1>6, <1>7
<1>14. Noted' /\ Attached(watch)'
  BY <1>3, <1>7, <1>10 DEF Noted, Attached
<1>. QED  BY <1>2, <1>3, <1>8, <1>9, <1>10, <1>11, <1>12, <1>13, <1>14 DEF NoticeInv, ListingEnds

LEMMA AutoRefreshKeeps ==
    ASSUME NoticeInv, AtHome, AutoRefresh
    PROVE  NoticeInv'
<1> DEFINE p == [panel EXCEPT !.kept = panel.selected, !.preserve = TRUE,
                              !.keptPath = panel.path]
<1>1. IsPanel(p) /\ p.path = panel.path
  BY DEF NoticeInv, Shapes, IsPanel
<1>2. PICK opens \in BOOLEAN : panel' = [BeginRefresh(p, opens) EXCEPT !.unseen = @ \ {"auto"}]
  BY DEF AutoRefresh, RefreshPreservingState
<1>3. IsAuto(auto') /\ auto'.mode = auto.mode /\ auto'.armedPath = auto.armedPath
      /\ auto'.contentShown = auto.contentShown /\ auto'.pending = FALSE /\ auto'.refresh = FALSE
  BY DEF AutoRefresh, NoticeInv, Shapes, IsAuto
<1> HIDE DEF p
<1>4. panel'.path = panel.path
  BY <1>1, <1>2, BegunPanel DEF IsPanel
<1>5. /\ IsPanel(panel') /\ panel'.path \in Paths /\ panel'.loading \in BOOLEAN
      /\ panel'.entries = [x \in DOMAIN panel'.entries |-> panel'.entries[x]]
      /\ ListingEnds(panel') /\ Fresh'
  BY <1>1, <1>2, BegunIsFresh DEF AutoRefresh, NoticeInv, Shapes
<1>. QED  BY <1>3, <1>4, <1>5
    DEF AutoRefresh, NoticeInv, Shapes, Noted, Attached, AtHome, ListingEnds

LEMMA UserKeeps ==
    ASSUME NoticeInv, UserOp, UNCHANGED <<disk, gone, watch, auto>>
    PROVE  NoticeInv'
<1>1. CASE Refresh \/ \E p \in Paths : SetLocation(p)
  <2>1. PICK p, opens : /\ IsPanel(p) /\ p.path \in Paths /\ opens \in BOOLEAN
                        /\ panel' = BeginRefresh(p, opens)
    <3>1. CASE Refresh
      BY <3>1 DEF Refresh, NoticeInv, Shapes
    <3>2. ASSUME NEW to \in Paths, SetLocation(to)
          PROVE  \E p, opens : /\ IsPanel(p) /\ p.path \in Paths /\ opens \in BOOLEAN
                               /\ panel' = BeginRefresh(p, opens)
      <4>1. PICK p : p = [panel EXCEPT !.path = to]
        OBVIOUS
      <4>2. IsPanel(p) /\ p.path = to
        BY <4>1 DEF NoticeInv, Shapes, IsPanel
      <4>. QED  BY <3>2, <4>1, <4>2 DEF SetLocation
    <3>. QED  BY <1>1, <3>1, <3>2
  <2>2. exposed' = FALSE
    BY <1>1 DEF Refresh, SetLocation
  <2>3. /\ IsPanel(panel') /\ panel'.path \in Paths /\ panel'.loading \in BOOLEAN
        /\ panel'.entries = [x \in DOMAIN panel'.entries |-> panel'.entries[x]]
        /\ ListingEnds(panel') /\ Fresh'
    BY <2>1, BegunIsFresh
  <2>4. "auto" \in panel'.unseen
    BY <2>1, BegunPanel DEF Observers
  <2>. QED  BY <2>2, <2>3, <2>4 DEF NoticeInv, Shapes, Noted, Attached, ListingEnds
<1>2. CASE ToggleContent \/ \E x \in Names : ToggleSelected(x)
  <2>1. /\ IsPanel(panel') /\ panel'.path = panel.path /\ panel'.entries = panel.entries
        /\ panel'.toRead = panel.toRead /\ panel'.unread = panel.unread
        /\ panel'.loading = panel.loading /\ panel'.unseen = panel.unseen
    BY <1>2 DEF ToggleContent, ToggleSelected, NoticeInv, Shapes, IsPanel
  <2>2. UNCHANGED exposed
    BY <1>2 DEF ToggleContent, ToggleSelected
  <2>. QED  BY <2>1, <2>2
      DEF NoticeInv, Shapes, Noted, Attached, Fresh, AtHome, Covered, OnItsWay, Present, ListingEnds
<1>. QED  BY <1>1, <1>2 DEF UserOp

\* The frame takes note of the listing for the sizes, not for the watch.
LEMMA SizesKeeps ==
    ASSUME NoticeInv, Sizes
    PROVE  NoticeInv'
<1>1. /\ IsPanel(panel') /\ panel'.path = panel.path /\ panel'.entries = panel.entries
      /\ panel'.toRead = panel.toRead /\ panel'.unread = panel.unread
      /\ panel'.loading = panel.loading
      /\ ("auto" \in panel.unseen <=> "auto" \in panel'.unseen)
  BY DEF Sizes, NoticeInv, Shapes, IsPanel
<1>2. UNCHANGED <<disk, gone, watch, auto, exposed>>
  BY DEF Sizes, UI
<1>. QED  BY <1>1, <1>2
    DEF NoticeInv, Shapes, Noted, Attached, Fresh, AtHome, Covered, OnItsWay, Present, ListingEnds

-----------------------------------------------------------------------------
(* The steps of other programs.                                               *)

\* Whatever changes in the panel's folder is signalled, was not covered, or
\* cannot be seen by the watch.
LEMMA ChangeKeeps ==
    ASSUME NoticeInv, NEW p \in Paths, NEW lost \in BOOLEAN, Notify(p, lost),
           DOMAIN disk' = Paths, gone' = IF lost THEN gone \cup {p} ELSE gone,
           p # panel.path => Present(panel.path)' = Present(panel.path)
                             /\ disk'[panel.path] = disk[panel.path]
    PROVE  NoticeInv'
<1>1. /\ IsWatch(watch') /\ watch'.state = watch.state /\ watch'.path = watch.path
      /\ watch'.signalled \in BOOLEAN /\ watch'.lost \in BOOLEAN
      /\ watch.signalled => watch'.signalled
      /\ IsWatched(p) => watch'.signalled /\ (lost => watch'.lost)
      /\ watch.lost => watch'.lost
  BY DEF Notify, NoticeInv, Shapes, IsWatch
<1>2. UNCHANGED <<panel, auto>> /\ (exposed => exposed') /\ exposed' \in BOOLEAN
  BY DEF Notify, NoticeInv, Shapes, TooEarly
<1>3. Shapes' /\ Noted' /\ Attached(watch)'
  BY <1>1, <1>2 DEF NoticeInv, Shapes, Noted, Attached, IsWatched, AtHome
<1>4. Covered => Covered'
  BY <1>1, <1>2 DEF Covered, AtHome, OnItsWay
<1>5. CASE p = panel.path
  <2>1. auto.mode # "Off" /\ ~ exposed' /\ ~ auto.contentShown => AtHome /\ "auto" \notin panel.unseen
    BY <1>5 DEF Notify, TooEarly, NoticeInv, Noted
  <2>2. auto.mode # "Off" /\ ~ exposed' /\ ~ auto.contentShown => Covered'
    BY <2>1, <1>1, <1>2, <1>5 DEF Covered, AtHome, OnItsWay, IsWatched, NoticeInv
  <2>. QED  BY <1>1, <1>2, <1>3, <2>2 DEF NoticeInv, ListingEnds
<1>6. CASE p # panel.path
  <2>1. Fresh => Fresh'
    BY <1>2, <1>6 DEF Fresh
  <2>2. AtHome' = AtHome
    BY <1>2 DEF AtHome
  <2>. QED  BY <1>1, <1>2, <1>3, <1>4, <2>1, <2>2 DEF NoticeInv, ListingEnds
<1>. QED  BY <1>5, <1>6

LEMMA OthersKeep ==
    ASSUME NoticeInv, OtherPrograms
    PROVE  NoticeInv'
<1>1. PICK p \in Paths : VolumeGoes(p) \/ VolumeReturns(p) \/ \E x \in Names : Change(p, x)
  BY DEF OtherPrograms
<1>2. CASE \E x \in Names : Change(p, x)
  <2>1. PICK x \in Names : Change(p, x)
    BY <1>2
  <2>2. PICK time : disk' = [disk EXCEPT ![p][x] = time]
    BY <2>1 DEF Change
  <2>3. DOMAIN disk' = Paths /\ (p # panel.path => disk'[panel.path] = disk[panel.path])
    BY <2>2 DEF NoticeInv, Shapes
  <2>4. p # panel.path => Present(panel.path)' = Present(panel.path)
    BY <2>1, <2>3 DEF Present, Change, Notify
  <2>. QED  BY <2>1, <2>3, <2>4, ChangeKeeps DEF Change
<1>3. CASE VolumeGoes(p)
  <2>1. p # panel.path => Present(panel.path)' = Present(panel.path)
    BY <1>3 DEF VolumeGoes, Notify, Present
  <2>. QED  BY <1>3, <2>1, ChangeKeeps DEF VolumeGoes, NoticeInv, Shapes
<1>4. CASE VolumeReturns(p)
  <2>1. p # panel.path => Present(panel.path)' = Present(panel.path)
    BY <1>4 DEF VolumeReturns, Present
  <2>2. p # panel.path => (Fresh => Fresh')
    BY <2>1, <1>4 DEF Fresh, VolumeReturns
  <2>3. AtHome' = AtHome /\ Covered' = Covered /\ Noted' = Noted
    BY <1>4 DEF VolumeReturns, AtHome, Covered, OnItsWay, Noted
  <2>4. Shapes' /\ (exposed => exposed') /\ Attached(watch)'
    BY <1>4 DEF VolumeReturns, NoticeInv, Shapes, TooEarly, Attached
  <2>5. p = panel.path /\ auto.mode # "Off" /\ ~ exposed' /\ ~ auto.contentShown => Covered
    BY <1>4 DEF VolumeReturns, TooEarly, NoticeInv, Noted, AtHome, Attached, Covered, OnItsWay
  <2>. QED  BY <1>4, <2>2, <2>3, <2>4, <2>5 DEF VolumeReturns, NoticeInv, ListingEnds
<1>. QED  BY <1>1, <1>2, <1>3, <1>4

-----------------------------------------------------------------------------

\* A refresh the poll asked for is for the folder the watch is armed for, and is
\* the UI thread's next step.
RefreshInv == auto.refresh => phase = "relist" /\ AtHome

LEMMA RefreshStep == NoticeInv /\ RefreshInv /\ [Next]_vars => RefreshInv'
<1> SUFFICES ASSUME NoticeInv, RefreshInv, [Next]_vars PROVE RefreshInv'
  OBVIOUS
<1>1. CASE Poll
  <2>1. CASE PollClosed
    <3>1. ~ auto.refresh /\ IsAuto(auto)
      BY <1>1 DEF Poll, NoticeInv, Shapes
    <3>2. auto'.refresh = auto.refresh
      BY <2>1, <3>1 DEF PollClosed, Disarmed, IsAuto
    <3>. QED  BY <3>1, <3>2 DEF RefreshInv
  <2>2. ASSUME NEW busy, PollWatched(busy) PROVE RefreshInv'
    <3>1. panel'.path = panel.path /\ auto'.armedPath = panel.path
      BY <2>2 DEF PollWatched, NoticeInv, Shapes, IsPanel, IsAuto
    <3>2. auto'.refresh => phase' = "relist"
      BY <1>1 DEF Poll, UI
    <3>. QED  BY <3>1, <3>2 DEF RefreshInv, AtHome
  <2>. QED  BY <1>1, <2>1, <2>2 DEF Poll
<1>2. CASE Relist
  BY <1>2 DEF Relist, AutoRefresh, NoticeInv, Shapes, IsAuto, RefreshInv
<1>3. CASE Pump \/ Sizes \/ Draw \/ Idle \/ Input
  BY <1>3 DEF Pump, Sizes, Draw, Idle, Input, UI, RefreshInv
<1>4. CASE Worker
  BY <1>4 DEF Worker, listVars, RefreshInv, AtHome
<1>5. CASE Others
  BY <1>5 DEF Others, OtherPrograms, VolumeGoes, VolumeReturns, Change, Notify, RefreshInv, AtHome
<1>6. CASE UNCHANGED vars
  BY <1>6 DEF vars, listVars, RefreshInv, AtHome
<1>. QED  BY <1>1, <1>2, <1>3, <1>4, <1>5, <1>6 DEF Next

LEMMA NoticeInit == Init => NoticeInv /\ RefreshInv
<1> SUFFICES ASSUME Init PROVE NoticeInv /\ RefreshInv
  OBVIOUS
<1>1. PICK p : p = [path |-> StartPath, entries |-> << >>, selected |-> {},
                    toRead |-> {}, unread |-> << >>, loading |-> FALSE, unseen |-> {},
                    preserve |-> FALSE, kept |-> {}, keptPath |-> StartPath,
                    content |-> FALSE]
  OBVIOUS
<1>2. IsPanel(p) /\ p.path = StartPath
  BY <1>1 DEF IsPanel
<1>3. PICK opens \in BOOLEAN : panel = BeginRefresh(p, opens)
  BY <1>1 DEF Init, ListInit
<1>4. /\ IsPanel(panel) /\ panel.loading \in BOOLEAN
      /\ panel.path = StartPath /\ panel.entries = << >> /\ DOMAIN panel.entries = {}
      /\ DOMAIN panel.unread \cup panel.toRead = Present(StartPath)
      /\ \A x \in DOMAIN panel.unread : panel.unread[x] = WriteTime(StartPath, x)
      /\ ListingEnds(panel)
  BY <1>2, <1>3, BegunPanel
<1>5. IsAuto(auto) /\ auto.pending = FALSE /\ auto.refresh = FALSE /\ auto.contentShown = FALSE
  BY DEF Init, ListInit, IsAuto
<1>6. IsWatch(watch) /\ watch.state = "Closed" /\ watch.signalled = FALSE /\ watch.lost = FALSE
  BY DEF Init, ListInit, Closed, IsWatch
<1>7. Shapes
  <2>1. DOMAIN disk = Paths /\ exposed = FALSE
    BY ListingAssumption DEF Init, ListInit
  <2>2. panel.path \in Paths
    BY <1>4, ListingAssumption
  <2>3. panel.entries = [x \in DOMAIN panel.entries |-> panel.entries[x]]
    BY <1>4
  <2>. QED  BY <1>4, <1>5, <1>6, <2>1, <2>2, <2>3 DEF Shapes
<1>8. Fresh
  BY <1>4 DEF Fresh, WriteTime, Present
<1>9. "auto" \in panel.unseen
  BY <1>2, <1>3, BegunPanel DEF Observers
<1>. QED  BY <1>4, <1>5, <1>6, <1>7, <1>8, <1>9 DEF NoticeInv, Noted, Attached, RefreshInv

LEMMA NoticeStep == NoticeInv /\ RefreshInv /\ [Next]_vars => NoticeInv'
<1> SUFFICES ASSUME NoticeInv, RefreshInv, [Next]_vars PROVE NoticeInv'
  OBVIOUS
<1>1. CASE Pump
  BY <1>1, PumpKeeps DEF Pump, UI
<1>2. CASE Poll
  BY <1>2, PollClosedKeeps, PollWatchedKeeps DEF Poll, UI
<1>3. CASE Relist
  BY <1>3, AutoRefreshKeeps DEF Relist, AutoRefresh, RefreshInv
<1>4. CASE Sizes
  BY <1>4, SizesKeeps
<1>5. CASE UNCHANGED listVars
  BY <1>5
    DEF listVars, NoticeInv, Shapes, Noted, Attached, Fresh, AtHome, Covered, OnItsWay, Present, ListingEnds
<1>6. CASE Draw \/ Idle \/ Worker
  BY <1>5, <1>6 DEF Draw, Idle, Worker, UI, listVars
<1>7. CASE Input
  <2>1. CASE UserOp
    BY <1>7, <2>1, UserKeeps DEF Input, UI
  <2>2. CASE SwitchSizes
    BY <1>5, <1>7, <2>2 DEF Input, SwitchSizes, UI, listVars
  <2>. QED  BY <1>7, <2>1, <2>2 DEF Input
<1>8. CASE Others
  BY <1>8, OthersKeep DEF Others
<1>9. CASE UNCHANGED vars
  BY <1>5, <1>9 DEF vars
<1>. QED  BY <1>1, <1>2, <1>3, <1>4, <1>6, <1>7, <1>8, <1>9 DEF Next

\* What a panel shows is the folder as it was read, less what a failed read left
\* out, and every later change is somewhere between the handle and the refresh,
\* but for one that comes between a listing and the poll that takes note of it.
THEOREM NoticeInvariant == Spec => [](NoticeInv /\ RefreshInv)
BY NoticeInit, NoticeStep, RefreshStep, PTL DEF Spec

\* A watched panel that no longer shows its folder has a refresh on its way, but
\* for two exceptions: a change in the time between a listing and the poll that
\* takes note of it, and names that a listing left out because reading the folder
\* failed, as long as they do not change.  It holds for any folders, slices,
\* changes, failed reads, lost volumes and user commands.
THEOREM ChangesAreNoticed == Spec => []ChangeNoticed
<1>1. NoticeInv => ChangeNoticed
  <2> SUFFICES ASSUME NoticeInv, Outdated, ~ exposed PROVE OnItsWay
    BY DEF ChangeNoticed
  <2>1. AtHome /\ watch.state = "Active"
    BY DEF NoticeInv, Outdated, IsWatched, AtHome
  <2>2. ~ Fresh
    <3>1. ASSUME Fresh PROVE AccountsForDisk
      <4>1. DOMAIN panel.entries \cup DOMAIN panel.unread = Present(panel.path)
        BY <3>1 DEF Fresh, NoticeInv, Outdated, ListingEnds
      <4>2. \A x \in Present(panel.path) :
               (IF x \in DOMAIN panel.entries THEN panel.entries[x] ELSE panel.unread[x])
                  = WriteTime(panel.path, x)
        BY <3>1, <4>1 DEF Fresh, WriteTime, Present
      <4>. QED  BY <4>1, <4>2 DEF AccountsForDisk, Accounted
    <3>. QED  BY <3>1 DEF Outdated
  <2>3. ~ auto.contentShown
    BY <2>1, ListingAssumption DEF AtHome, NoticeInv, Shapes, Noted
  <2>. QED  BY <2>1, <2>2, <2>3 DEF NoticeInv, Outdated, Covered
<1>. QED  BY <1>1, NoticeInvariant, PTL

-----------------------------------------------------------------------------
(* The worker's cancel flag.                                                  *)

\* A flag that is up was raised since the worker took its folder, for a frame
\* that does not show it.
CancelInv == cancelCurrent => unwanted

LEMMA CancelStep == CancelInv /\ [Next]_vars => CancelInv'
<1> SUFFICES ASSUME CancelInv, [Next]_vars PROVE CancelInv'
  OBVIOUS
<1>1. CASE \E rows : Want(rows)
  <2>1. PICK rows : Want(rows)
    BY <1>1
  <2>2. PICK drop : /\ cancelCurrent' = (cancelCurrent \/ drop)
                    /\ unwanted' = (unwanted \/ drop)
    BY <2>1 DEF Want
  <2>. QED  BY <2>2 DEF CancelInv
<1>2. CASE UNCHANGED <<cancelCurrent, unwanted>>
  BY <1>2 DEF CancelInv
<1>3. CASE Pump \/ Poll \/ Relist \/ Idle \/ Others
  BY <1>2, <1>3 DEF Pump, Poll, Relist, Idle, Others, sizeVars
<1>4. CASE Sizes
  BY <1>2, <1>4 DEF Sizes, InvalidateAll, sizeVars
<1>5. CASE Draw
  BY <1>1, <1>2, <1>5 DEF Draw, sizeVars
<1>6. CASE Input
  <2>1. CASE SwitchSizes
    BY <2>1 DEF SwitchSizes, Switch, CancelInv
  <2>2. CASE UNCHANGED sizeVars
    BY <1>2, <2>2 DEF sizeVars
  <2>. QED  BY <1>6, <2>1, <2>2 DEF Input
<1>7. CASE Worker
  <2>1. CASE TakeFolder
    <3>1. cancelCurrent' = FALSE
      BY <2>1 DEF TakeFolder
    <3>. QED  BY <3>1 DEF CancelInv
  <2>2. CASE Measured \/ MeasureCancelled
    BY <1>2, <2>2 DEF Measured, MeasureCancelled
  <2>. QED  BY <1>7, <2>1, <2>2 DEF Worker, WorkerStep
<1>8. CASE UNCHANGED vars
  BY <1>2, <1>8 DEF vars, sizeVars
<1>. QED  BY <1>3, <1>4, <1>5, <1>6, <1>7, <1>8 DEF Next

\* No measurement is given up while every frame drawn since it began shows its
\* folder, however the frames, the worker and the setting interleave.
THEOREM OnlyUnwantedAreCancelled == Spec => OnlyUnwantedCancelled
<1>1. Init => CancelInv
  BY DEF Init, SizeInit, CancelInv
<1>2. CancelInv /\ [Next]_vars => [MeasureCancelled => unwanted]_sizeVars
  BY DEF CancelInv, MeasureCancelled
<1>. QED  BY <1>1, <1>2, CancelStep, PTL DEF Spec, OnlyUnwantedCancelled

-----------------------------------------------------------------------------
(* Names and times.                                                           *)

\* Times are numbers, and only names are read.
NamesInv ==
    /\ clock \in Nat
    /\ disk \in [Paths -> [Names -> Nat]]
    /\ panel.toRead \subseteq Names /\ DOMAIN panel.entries \subseteq Names
    /\ \A x \in DOMAIN panel.entries : panel.entries[x] \in Nat

LEMMA NamesInit == Init => NamesInv
<1> SUFFICES ASSUME Init PROVE NamesInv
  OBVIOUS
<1>1. PICK p : p = [path |-> StartPath, entries |-> << >>, selected |-> {},
                    toRead |-> {}, unread |-> << >>, loading |-> FALSE, unseen |-> {},
                    preserve |-> FALSE, kept |-> {}, keptPath |-> StartPath,
                    content |-> FALSE]
  OBVIOUS
<1>2. IsPanel(p)
  BY <1>1 DEF IsPanel
<1>3. PICK opens \in BOOLEAN : panel = BeginRefresh(p, opens)
  BY <1>1 DEF Init, ListInit
<1>4. DOMAIN panel.entries = {} /\ panel.toRead \subseteq Names
  BY <1>2, <1>3, BegunPanel DEF Present
<1>5. disk \in [Paths -> [Names -> Nat]] /\ clock \in Nat
  <2>1. disk \in [Paths -> [Names -> {0, 1}]] /\ clock = 0
    BY ListingAssumption DEF Init, ListInit
  <2>2. {0, 1} \subseteq Nat
    OBVIOUS
  <2>3. [Names -> {0, 1}] \subseteq [Names -> Nat]
    BY <2>2
  <2>. QED  BY <2>1, <2>3
<1>. QED  BY <1>4, <1>5 DEF NamesInv

LEMMA BegunNames ==
    ASSUME NamesInv, NEW p, IsPanel(p), NEW opens, UNCHANGED <<clock, disk>>,
           \/ panel' = BeginRefresh(p, opens)
           \/ panel' = [BeginRefresh(p, opens) EXCEPT !.unseen = @ \ {"auto"}]
    PROVE  NamesInv'
<1>1. PICK q : q = BeginRefresh(p, opens)
  OBVIOUS
<1>2. IsPanel(q) /\ q.entries = << >> /\ q.toRead \subseteq Present(p.path)
  BY <1>1, BegunPanel
<1>3. panel'.entries = << >> /\ panel'.toRead \subseteq Names
  BY <1>1, <1>2 DEF IsPanel, Present
<1>4. DOMAIN panel'.entries = {}
  BY <1>3
<1>. QED  BY <1>3, <1>4 DEF NamesInv

LEMMA NamesStep == NoticeInv /\ NamesInv /\ [Next]_vars => NamesInv'
<1> SUFFICES ASSUME NoticeInv, NamesInv, [Next]_vars PROVE NamesInv'
  OBVIOUS
<1>0. ASSUME UNCHANGED <<clock, disk>>, panel'.toRead = panel.toRead, panel'.entries = panel.entries
      PROVE  NamesInv'
  BY <1>0 DEF NamesInv
<1>1. CASE Pump
  <2>1. CASE UNCHANGED panel
    BY <1>0, <1>1, <2>1 DEF Pump, UI
  <2>2. CASE ~ UNCHANGED panel
    <3>0. PICK some \in SUBSET panel.toRead : Slice(some)
      BY <1>1, <2>2, Pumped DEF Pump
    <3>1. /\ panel'.entries =
                [x \in DOMAIN panel.entries \cup some |->
                   IF x \in some THEN WriteTime(panel.path, x) ELSE panel.entries[x]]
          /\ panel'.toRead \subseteq panel.toRead
      BY <3>0, ReadPanel DEF Slice, NoticeInv, Shapes
    <3>2. \A x \in some : WriteTime(panel.path, x) \in Nat
      BY DEF NamesInv, NoticeInv, Shapes, WriteTime
    <3>. QED  BY <1>1, <3>1, <3>2 DEF NamesInv, Pump, UI
  <2>. QED  BY <2>1, <2>2
<1>2. CASE Poll
  BY <1>0, <1>2 DEF Poll, PollClosed, PollWatched, UI, NoticeInv, Shapes, IsPanel
<1>3. CASE Relist
  <2>1. IsPanel(panel)
    BY DEF NoticeInv, Shapes
  <2>. DEFINE p == [panel EXCEPT !.kept = panel.selected, !.preserve = TRUE, !.keptPath = panel.path]
  <2>2. IsPanel(p)
    BY <2>1 DEF IsPanel
  <2>3. PICK opens \in BOOLEAN : panel' = [BeginRefresh(p, opens) EXCEPT !.unseen = @ \ {"auto"}]
    BY <1>3 DEF Relist, AutoRefresh, RefreshPreservingState
  <2>. HIDE DEF p
  <2>. QED  BY <1>3, <2>2, <2>3, BegunNames DEF Relist, AutoRefresh
<1>4. CASE Sizes
  BY <1>0, <1>4 DEF Sizes, UI, NoticeInv, Shapes, IsPanel
<1>5. CASE UNCHANGED listVars
  BY <1>0, <1>5 DEF listVars
<1>6. CASE Draw \/ Idle \/ Worker
  BY <1>5, <1>6 DEF Draw, Idle, Worker, UI, listVars
<1>7. CASE Input
  <2>1. CASE Refresh
    BY <1>7, <2>1, BegunNames DEF Refresh, Input, UI, NoticeInv, Shapes
  <2>2. CASE \E p \in Paths : SetLocation(p)
    <3>1. PICK p \in Paths, opens \in BOOLEAN :
            panel' = BeginRefresh([panel EXCEPT !.path = p], opens)
      BY <2>2 DEF SetLocation
    <3>2. IsPanel([panel EXCEPT !.path = p])
      BY DEF NoticeInv, Shapes, IsPanel
    <3>. QED  BY <1>7, <3>1, <3>2, BegunNames DEF Input, UI
  <2>3. CASE ToggleContent \/ \E x \in Names : ToggleSelected(x)
    BY <1>0, <1>7, <2>3 DEF ToggleContent, ToggleSelected, Input, UI, NoticeInv, Shapes, IsPanel
  <2>4. CASE SwitchSizes
    BY <1>0, <1>7, <2>4 DEF SwitchSizes, Input, UI
  <2>. QED  BY <1>7, <2>1, <2>2, <2>3, <2>4 DEF Input, UserOp
<1>8. CASE Others
  <2>1. PICK p \in Paths : VolumeGoes(p) \/ VolumeReturns(p) \/ \E x \in Names : Change(p, x)
    BY <1>8 DEF Others, OtherPrograms
  <2>2. CASE VolumeGoes(p) \/ VolumeReturns(p)
    BY <2>2 DEF VolumeGoes, VolumeReturns, Notify, NamesInv
  <2>3. CASE \E x \in Names : Change(p, x)
    <3>1. PICK x \in Names : Change(p, x)
      BY <2>3
    <3>2. PICK time \in {clock + 2} \cup ({0} \ {disk[p][x]}) : disk' = [disk EXCEPT ![p][x] = time]
      BY <3>1 DEF Change
    <3>3. time \in Nat /\ clock' \in Nat /\ UNCHANGED panel
      BY <3>1, <3>2 DEF NamesInv, Change, Notify
    <3>4. disk' \in [Paths -> [Names -> Nat]]
      BY <3>2, <3>3 DEF NamesInv
    <3>. QED  BY <3>3, <3>4 DEF NamesInv
  <2>. QED  BY <2>1, <2>2, <2>3
<1>9. CASE UNCHANGED vars
  BY <1>5, <1>9 DEF vars
<1>. QED  BY <1>1, <1>2, <1>3, <1>4, <1>6, <1>7, <1>8, <1>9 DEF Next

\* The members of a finite set, in some order.
LEMMA SetToSeqIs ==
    ASSUME NEW S, IsFiniteSet(S)
    PROVE  SetToSeq(S) \in Seq(S)
<1>1. Cardinality(S) \in Nat /\ ExistsBijection(1..Cardinality(S), S)
  BY FS_CardinalityType
<1>2. PICK f \in [1..Cardinality(S) -> S] : IsInjective(f)
  BY <1>1 DEF ExistsBijection, Bijection, Injection
<1>3. SetToSeq(S) \in [1..Cardinality(S) -> S]
  BY <1>2 DEF SetToSeq
<1>. HIDE DEF SetToSeq
<1>4. \A n, f1 : n \in Nat /\ f1 \in [1..n -> S] => f1 \in Seq(S)
  OBVIOUS
<1>. QED  BY <1>1, <1>3, <1>4

LEMMA RowsFinite ==
    ASSUME NamesInv PROVE IsFiniteSet(Rows)
<1>1. IsFiniteSet(DOMAIN panel.entries)
  BY ListingAssumption, FS_Subset DEF NamesInv
<1>. DEFINE F == [x \in DOMAIN panel.entries |-> [path |-> <<panel.path, x>>, time |-> panel.entries[x]]]
<1>2. F \in Surjection(DOMAIN panel.entries, Rows)
  BY DEF Rows, Surjection
<1>. QED  BY <1>1, <1>2, FS_Surjection DEF ExistsSurjection


-----------------------------------------------------------------------------
(* Functions that are defined by recursion on a number.                       *)

LEMMA Least ==
    ASSUME NEW S \in SUBSET Nat, S # {}
    PROVE  \E n \in S : \A m \in S : n <= m
<1>. DEFINE R == {ss \in Nat \X Nat : ss[1] < ss[2]}
<1>1. IsWellFoundedOn(R, Nat)
  BY NatLessThanWellFounded DEF OpToRel
<1>2. PICK n \in S : \A m \in S : ~(<<m, n>> \in R)
  <2>. HIDE DEF R
  <2>. QED  BY <1>1, WFMin
<1>3. \A m \in S : ~(m < n)
  BY <1>2
<1>. QED  BY <1>3

Runs(g, first, F, n) == g[0] = first /\ \A m \in 1..n : g[m] = F[m][g[m - 1]]

LEMMA Recursion ==
    ASSUME NEW T, NEW first \in T, NEW N \in Nat, NEW F \in [1..N -> [T -> T]]
    PROVE  \E g \in [0..N -> T] : Runs(g, first, F, N)
<1>. DEFINE Bad == {n \in 0..N : ~ \E g \in [0..n -> T] : Runs(g, first, F, n)}
<1>. SUFFICES ASSUME Bad # {} PROVE FALSE
  OBVIOUS
<1>1. PICK n \in Bad : \A m \in Bad : n <= m
  <2>1. Bad \in SUBSET Nat
    OBVIOUS
  <2>. HIDE DEF Bad
  <2>. QED  BY <2>1, Least
<1>2. CASE n = 0
  <2>. DEFINE g == [m \in 0..0 |-> first]
  <2>1. g \in [0..0 -> T] /\ g[0] = first
    OBVIOUS
  <2>2. Runs(g, first, F, 0)
    <3>1. 1..0 = {}
      OBVIOUS
    <3>. QED  BY <2>1, <3>1 DEF Runs
  <2>. HIDE DEF g
  <2>. QED  BY <1>1, <1>2, <2>1, <2>2
<1>3. CASE n # 0
  <2>1. n \in 1..N /\ n - 1 \in 0..N /\ n - 1 \notin Bad
    BY <1>1, <1>3
  <2>2. PICK g \in [0..(n - 1) -> T] : Runs(g, first, F, n - 1)
    BY <2>1
  <2>. DEFINE next == F[n][g[n - 1]]
              h == [m \in 0..n |-> IF m < n THEN g[m] ELSE next]
  <2>3. next \in T
    <3>1. F[n] \in [T -> T] /\ n - 1 \in 0..(n - 1)
      BY <2>1
    <3>. QED  BY <2>2, <3>1
  <2>. HIDE DEF next
  <2>4. h \in [0..n -> T]
    BY <2>1, <2>2, <2>3
  <2>5. h[0] = first
    <3>1. 0 \in 0..n /\ 0 < n
      BY <2>1
    <3>. QED  BY <2>2, <3>1 DEF Runs
  <2>6. ASSUME NEW m \in 1..n PROVE h[m] = F[m][h[m - 1]]
    <3>1. h[m - 1] = g[m - 1] /\ (m = n => h[m] = next) /\ (m # n => m \in 1..(n - 1) /\ h[m] = g[m])
      BY <2>1, <2>6
    <3>. HIDE DEF h
    <3>2. CASE m = n
      BY <3>1, <3>2 DEF next
    <3>3. CASE m # n
      BY <3>1, <3>3, <2>2 DEF Runs
    <3>. QED  BY <3>2, <3>3
  <2>. QED  BY <1>1, <2>4, <2>5, <2>6 DEF Runs
<1>. QED  BY <1>2, <1>3

-----------------------------------------------------------------------------
(* Only: a part of a sequence.                                                *)


LEMMA OnlyIs ==
    ASSUME NEW T, NEW c \in Seq(T), NEW kept
    PROVE  /\ Only(c, kept) \in Seq(T)
           /\ \A n \in DOMAIN Only(c, kept) : \E k \in DOMAIN c : k \in kept /\ Only(c, kept)[n] = c[k]
<1>. DEFINE S == {c[k] : k \in DOMAIN c \cap kept}
            F == [n \in 1..Len(c) |-> [s \in Seq(S) |-> IF n \in kept THEN Append(s, c[n]) ELSE s]]
            step(g, n) == IF n = 0 THEN << >> ELSE IF n \in kept THEN Append(g[n - 1], c[n]) ELSE g[n - 1]
<1>0. Len(c) \in Nat /\ DOMAIN c = 1..Len(c) /\ \A k \in 1..Len(c) : c[k] \in T /\ (k \in kept => c[k] \in S)
  OBVIOUS
<1>1. << >> \in Seq(S)
  OBVIOUS
<1>2. F \in [1..Len(c) -> [Seq(S) -> Seq(S)]]
  <2>1. ASSUME NEW n \in 1..Len(c), NEW s \in Seq(S) PROVE (IF n \in kept THEN Append(s, c[n]) ELSE s) \in Seq(S)
    <3>1. n \in kept => c[n] \in S
      BY <1>0
    <3>. HIDE DEF S
    <3>. QED  BY <3>1
  <2>. HIDE DEF S
  <2>. QED  BY <2>1
<1>3. PICK g \in [0..Len(c) -> Seq(S)] : Runs(g, << >>, F, Len(c))
  <2>. HIDE DEF F, S
  <2>. QED  BY <1>0, <1>1, <1>2, Recursion
<1>4. g = [n \in 0..Len(c) |-> step(g, n)]
  <2>1. ASSUME NEW n \in 0..Len(c) PROVE g[n] = step(g, n)
    <3>1. CASE n = 0
      BY <1>3, <3>1 DEF Runs
    <3>2. CASE n # 0
      <4>1. n \in 1..Len(c) /\ n - 1 \in 0..Len(c)
        BY <1>0, <3>2
      <4>2. g[n - 1] \in Seq(S) /\ g[n] = F[n][g[n - 1]]
        BY <1>3, <4>1 DEF Runs
      <4>3. F[n][g[n - 1]] = IF n \in kept THEN Append(g[n - 1], c[n]) ELSE g[n - 1]
        BY <4>1, <4>2
      <4>. QED  BY <3>2, <4>2, <4>3
    <3>. QED  BY <3>1, <3>2
  <2>. QED  BY <1>3, <2>1
<1>. DEFINE u == CHOOSE f : f = [n \in 0..Len(c) |-> step(f, n)]
<1>5. u = [n \in 0..Len(c) |-> step(u, n)]
  BY <1>4
<1>6. Only(c, kept) = u[Len(c)]
  BY DEF Only
<1>7. \A n \in 0..Len(c) : u[n] = step(u, n)
  <2>. HIDE DEF u
  <2>. QED  BY <1>5
<1>. HIDE DEF u
<1>8. \A n \in 0..Len(c) : u[n] = g[n]
  <2>. DEFINE Bad == {n \in 0..Len(c) : u[n] # g[n]}
  <2>. SUFFICES ASSUME Bad # {} PROVE FALSE
    OBVIOUS
  <2>1. PICK n \in Bad : \A m \in Bad : n <= m
    <3>1. Bad \in SUBSET Nat
      BY <1>0
    <3>. HIDE DEF Bad
    <3>. QED  BY <3>1, Least
  <2>2. \A m \in 0..Len(c) : g[m] = step(g, m)
    BY <1>4
  <2>3. CASE n = 0
    BY <1>7, <2>1, <2>2, <2>3
  <2>4. CASE n # 0
    <3>1. n \in 0..Len(c) /\ n - 1 \in 0..Len(c) /\ n - 1 \notin Bad
      BY <1>0, <2>1, <2>4
    <3>2. u[n - 1] = g[n - 1]
      BY <3>1
    <3>. QED  BY <1>7, <2>1, <2>2, <2>4, <3>1, <3>2
  <2>. QED  BY <2>3, <2>4
<1>9. Only(c, kept) \in Seq(S)
  <2>1. Len(c) \in 0..Len(c)
    BY <1>0
  <2>. HIDE DEF S
  <2>. QED  BY <1>3, <1>6, <1>8, <2>1
<1>10. \A n \in DOMAIN Only(c, kept) : Only(c, kept)[n] \in S
  <2>. HIDE DEF S
  <2>1. \A s : s \in Seq(S) => \A n \in DOMAIN s : s[n] \in S
    OBVIOUS
  <2>. QED  BY <1>9, <2>1
<1>11. Only(c, kept) \in Seq(T)
  <2>1. S \subseteq T
    BY <1>0
  <2>. HIDE DEF S
  <2>. QED  BY <1>9, <2>1
<1>. QED  BY <1>10, <1>11

-----------------------------------------------------------------------------
(* The cache of sizes: in it at most one folder is being measured.            *)

FolderPaths == Paths \X Names
FolderRows == [path : FolderPaths, time : Nat]
SizeEntries == [path : FolderPaths, state : FolderSizeStates, hasValue : BOOLEAN,
                invalidated : BOOLEAN, writeTime : Nat]

\* Caches in which no folder but p is being measured.
MeasuringIn(c, p) == \A n \in DOMAIN c : c[n].state = "Computing" => c[n].path = p
CachesFor(p) == {c \in Seq(SizeEntries) : MeasuringIn(c, p)}

LEMMA OnlyKeeps ==
    ASSUME NEW p, NEW c \in CachesFor(p), NEW kept
    PROVE  Only(c, kept) \in CachesFor(p)
<1>1. c \in Seq(SizeEntries)
  BY DEF CachesFor
<1>2. /\ Only(c, kept) \in Seq(SizeEntries)
      /\ \A n \in DOMAIN Only(c, kept) : \E k \in DOMAIN c : k \in kept /\ Only(c, kept)[n] = c[k]
  <2>. HIDE DEF SizeEntries
  <2>. QED  BY <1>1, OnlyIs
<1>. QED  BY <1>2 DEF CachesFor, MeasuringIn

\* A sequence of any entries but those of p, with an entry of p at its end.
LEMMA TouchIs ==
    ASSUME NEW p, NEW c \in CachesFor(p), NEW e \in SizeEntries, NEW q,
           e.state = "Computing" => e.path = q,
           p = q \/ p = e.path
    PROVE  Touch(c, e) \in CachesFor(q)
<1>. DEFINE rest == Only(c, {n \in DOMAIN c : c[n].path # e.path})
<1>1. c \in Seq(SizeEntries) /\ MeasuringIn(c, p)
  BY DEF CachesFor
<1>2. /\ rest \in Seq(SizeEntries)
      /\ \A n \in DOMAIN rest : \E k \in DOMAIN c : c[k].path # e.path /\ rest[n] = c[k]
  <2>1. \A K : /\ Only(c, K) \in Seq(SizeEntries)
               /\ \A n \in DOMAIN Only(c, K) : \E k \in DOMAIN c : k \in K /\ Only(c, K)[n] = c[k]
    BY <1>1, OnlyIs
  <2>2. /\ Only(c, {n \in DOMAIN c : c[n].path # e.path}) \in Seq(SizeEntries)
        /\ \A n \in DOMAIN Only(c, {n \in DOMAIN c : c[n].path # e.path}) :
              \E k \in DOMAIN c : /\ k \in {m \in DOMAIN c : c[m].path # e.path}
                                  /\ Only(c, {m \in DOMAIN c : c[m].path # e.path})[n] = c[k]
    BY <2>1
  <2>. QED  BY <2>2
<1>3. Touch(c, e) = Append(rest, e)
  BY DEF Touch
<1>4. MeasuringIn(rest, q)
  BY <1>1, <1>2 DEF MeasuringIn
<1>. HIDE DEF rest
<1>5. \A T, s, x : s \in Seq(T) /\ x \in T =>
        /\ Append(s, x) \in Seq(T)
        /\ \A n \in DOMAIN Append(s, x) : (n \in DOMAIN s /\ Append(s, x)[n] = s[n]) \/ Append(s, x)[n] = x
  OBVIOUS
<1>6. /\ Append(rest, e) \in Seq(SizeEntries)
      /\ \A n \in DOMAIN Append(rest, e) :
            (n \in DOMAIN rest /\ Append(rest, e)[n] = rest[n]) \/ Append(rest, e)[n] = e
  BY <1>2, <1>5
<1>7. MeasuringIn(Append(rest, e), q)
  BY <1>4, <1>6 DEF MeasuringIn
<1>. QED  BY <1>3, <1>6, <1>7 DEF CachesFor

LEMMA EvictKeeps ==
    ASSUME NEW p, NEW c \in CachesFor(p)
    PROVE  EvictIfNeeded(c) \in CachesFor(p)
BY OnlyKeeps DEF EvictIfNeeded

LEMMA EntryOfIs ==
    ASSUME NEW p, NEW c \in CachesFor(p), NEW q \in FolderPaths
    PROVE  /\ EntryOf(c, q) \in SizeEntries /\ EntryOf(c, q).path = q
           /\ EntryOf(c, q).state = "Computing" => q = p
<1>1. CASE Known(c, q)
  <2>1. EntryOf(c, q) \in Range(c) /\ EntryOf(c, q).path = q
    BY <1>1 DEF EntryOf, Known
  <2>2. PICK n \in DOMAIN c : EntryOf(c, q) = c[n]
    BY <2>1 DEF Range
  <2>3. c \in Seq(SizeEntries) /\ MeasuringIn(c, p)
    BY DEF CachesFor
  <2>4. \A T, s : s \in Seq(T) => \A k \in DOMAIN s : s[k] \in T
    OBVIOUS
  <2>5. c[n] \in SizeEntries
    BY <2>3, <2>4
  <2>. QED  BY <2>1, <2>2, <2>3, <2>5 DEF MeasuringIn
<1>2. CASE ~ Known(c, q)
  <2>1. EntryOf(c, q) = [path |-> q, state |-> "Unknown", hasValue |-> FALSE,
                         invalidated |-> FALSE, writeTime |-> 0]
    BY <1>2 DEF EntryOf
  <2>. QED  BY <2>1 DEF SizeEntries, FolderSizeStates
<1>. QED  BY <1>1, <1>2

LEMMA WithState ==
    ASSUME NEW e \in SizeEntries, NEW s \in FolderSizeStates
    PROVE  /\ [e EXCEPT !.state = s] \in SizeEntries
           /\ [e EXCEPT !.state = s].path = e.path /\ [e EXCEPT !.state = s].state = s
BY DEF SizeEntries

\* Showing a folder, and putting it on the queue.
LEMMA ShownKeeps ==
    ASSUME NEW p, NEW c \in CachesFor(p), NEW q \in FolderPaths
    PROVE  Get(c, q) \in CachesFor(p) /\ MarkPending(c, q) \in CachesFor(p)
<1>1. /\ EntryOf(c, q) \in SizeEntries /\ EntryOf(c, q).path = q
      /\ EntryOf(c, q).state = "Computing" => q = p
  BY EntryOfIs
<1>2. Get(c, q) \in CachesFor(p)
  <2>1. Touch(c, EntryOf(c, q)) \in CachesFor(p)
    BY <1>1, TouchIs
  <2>. QED  BY <2>1 DEF Get
<1>3. PICK e : e = [EntryOf(c, q) EXCEPT !.state = "Pending"]
  OBVIOUS
<1>4. e \in SizeEntries /\ e.state = "Pending"
  BY <1>1, <1>3, WithState DEF FolderSizeStates, BusyStates
<1>5. Touch(c, e) \in CachesFor(p)
  BY <1>4, TouchIs
<1>. QED  BY <1>2, <1>3, <1>5, EvictKeeps DEF MarkPending

LEMMA AbandonIs ==
    ASSUME NEW p, NEW q, NEW c \in CachesFor(p), NEW dropped, p = q \/ p \in dropped
    PROVE  Abandon(c, dropped) \in CachesFor(q)
<1>1. c \in Seq(SizeEntries) /\ MeasuringIn(c, p)
  BY DEF CachesFor
<1>2. Len(c) \in Nat /\ DOMAIN c = 1..Len(c) /\ \A n \in 1..Len(c) : c[n] \in SizeEntries
  <2>. HIDE DEF SizeEntries
  <2>1. \A T, s : s \in Seq(T) => Len(s) \in Nat /\ DOMAIN s = 1..Len(s) /\ \A k \in 1..Len(s) : s[k] \in T
    OBVIOUS
  <2>. QED  BY <1>1, <2>1
<1>. DEFINE F(n) == IF c[n].path \in dropped
                    THEN [c[n] EXCEPT !.state = IF c[n].hasValue THEN "Done" ELSE "Unknown"]
                    ELSE c[n]
<1>3. ASSUME NEW n \in 1..Len(c)
      PROVE  /\ F(n) \in SizeEntries
             /\ F(n).state = "Computing" => F(n) = c[n] /\ c[n].path \notin dropped
  <2>1. PICK s : s = IF c[n].hasValue THEN "Done" ELSE "Unknown"
    OBVIOUS
  <2>2. s \in FolderSizeStates /\ s # "Computing"
    BY <2>1 DEF FolderSizeStates
  <2>3. c[n] \in SizeEntries
    BY <1>2
  <2>4. [c[n] EXCEPT !.state = s] \in SizeEntries /\ [c[n] EXCEPT !.state = s].state = s
    BY <2>2, <2>3, WithState
  <2>. QED  BY <2>1, <2>2, <2>3, <2>4
<1>4. Abandon(c, dropped) = [n \in 1..Len(c) |-> F(n)]
  BY <1>2 DEF Abandon
<1>. HIDE DEF F
<1>5. Abandon(c, dropped) \in Seq(SizeEntries)
  <2>1. [n \in 1..Len(c) |-> F(n)] \in [1..Len(c) -> SizeEntries]
    BY <1>3
  <2>2. \A T, m, s : m \in Nat /\ s \in [1..m -> T] => s \in Seq(T)
    OBVIOUS
  <2>. QED  BY <1>2, <1>4, <2>1, <2>2
<1>6. MeasuringIn(Abandon(c, dropped), q)
  BY <1>1, <1>2, <1>3, <1>4 DEF MeasuringIn
<1>. QED  BY <1>5, <1>6 DEF CachesFor

LEMMA InvalidatedKeeps ==
    ASSUME NEW p, NEW c \in CachesFor(p)
    PROVE  Invalidated(c) \in CachesFor(p)
<1>1. c \in Seq(SizeEntries) /\ MeasuringIn(c, p)
  BY DEF CachesFor
<1>2. Len(c) \in Nat /\ DOMAIN c = 1..Len(c) /\ \A n \in 1..Len(c) : c[n] \in SizeEntries
  <2>. HIDE DEF SizeEntries
  <2>1. \A T, s : s \in Seq(T) => Len(s) \in Nat /\ DOMAIN s = 1..Len(s) /\ \A k \in 1..Len(s) : s[k] \in T
    OBVIOUS
  <2>. QED  BY <1>1, <2>1
<1>. DEFINE F(n) == [c[n] EXCEPT !.invalidated = @ \/ c[n].hasValue]
<1>3. ASSUME NEW n \in 1..Len(c)
      PROVE  F(n) \in SizeEntries /\ F(n).state = c[n].state /\ F(n).path = c[n].path
  <2>1. PICK b : b = (c[n].invalidated \/ c[n].hasValue)
    OBVIOUS
  <2>2. b \in BOOLEAN
    BY <1>2, <2>1 DEF SizeEntries
  <2>3. [c[n] EXCEPT !.invalidated = b] \in SizeEntries
        /\ [c[n] EXCEPT !.invalidated = b].state = c[n].state
        /\ [c[n] EXCEPT !.invalidated = b].path = c[n].path
    BY <1>2, <2>2 DEF SizeEntries
  <2>. QED  BY <2>1, <2>3
<1>4. Invalidated(c) = [n \in 1..Len(c) |-> F(n)]
  BY <1>2 DEF Invalidated
<1>. HIDE DEF F
<1>5. Invalidated(c) \in Seq(SizeEntries)
  <2>1. [n \in 1..Len(c) |-> F(n)] \in [1..Len(c) -> SizeEntries]
    BY <1>3
  <2>2. \A T, m, s : m \in Nat /\ s \in [1..m -> T] => s \in Seq(T)
    OBVIOUS
  <2>. QED  BY <1>2, <1>4, <2>1, <2>2
<1>6. MeasuringIn(Invalidated(c), p)
  BY <1>1, <1>2, <1>3, <1>4 DEF MeasuringIn
<1>. QED  BY <1>5, <1>6 DEF CachesFor

\* What Want makes of the rows it is given.
LEMMA WantRowsKeep ==
    ASSUME NEW p, NEW c \in CachesFor(p), NEW rows \in Seq(FolderRows)
    PROVE  LET acc == WantRows([cache |-> c, queue |-> << >>], rows)
           IN  acc.cache \in CachesFor(p) /\ acc.queue \in Seq(FolderRows)
<1>. DEFINE Accs == [cache : CachesFor(p), queue : Seq(FolderRows)]
            first == [cache |-> c, queue |-> << >>]
            F == [n \in 1..Len(rows) |-> [acc \in Accs |-> WantRow(acc, rows[n])]]
            step(g, n) == IF n = 0 THEN first ELSE WantRow(g[n - 1], rows[n])
<1>0. Len(rows) \in Nat /\ \A n \in 1..Len(rows) : rows[n] \in FolderRows
  <2>. HIDE DEF FolderRows
  <2>. QED  OBVIOUS
<1>1. first \in Accs
  <2>1. << >> \in Seq(FolderRows)
    OBVIOUS
  <2>. QED  BY <2>1
<1>2. ASSUME NEW acc \in Accs, NEW row \in FolderRows PROVE WantRow(acc, row) \in Accs
  <2>1. acc.cache \in CachesFor(p) /\ acc.queue \in Seq(FolderRows) /\ row.path \in FolderPaths
    BY DEF FolderRows
  <2>2. PICK got : got = Get(acc.cache, row.path)
    OBVIOUS
  <2>3. got \in CachesFor(p)
    BY <2>1, <2>2, ShownKeeps
  <2>4. MarkPending(got, row.path) \in CachesFor(p)
    BY <2>1, <2>3, ShownKeeps
  <2>5. Append(acc.queue, row) \in Seq(FolderRows)
    <3>. HIDE DEF FolderRows
    <3>. QED  BY <2>1
  <2>6. [acc EXCEPT !.cache = got] \in Accs
    BY <2>3
  <2>7. [cache |-> MarkPending(got, row.path), queue |-> Append(acc.queue, row)] \in Accs
    BY <2>4, <2>5
  <2>. HIDE DEF Accs
  <2>. QED  BY <2>2, <2>6, <2>7 DEF WantRow
<1>3. F \in [1..Len(rows) -> [Accs -> Accs]]
  <2>. HIDE DEF Accs
  <2>. QED  BY <1>0, <1>2
<1>4. PICK g \in [0..Len(rows) -> Accs] : Runs(g, first, F, Len(rows))
  <2>. HIDE DEF F, Accs, first
  <2>. QED  BY <1>0, <1>1, <1>3, Recursion
<1>5. g = [n \in 0..Len(rows) |-> step(g, n)]
  <2>1. ASSUME NEW n \in 0..Len(rows) PROVE g[n] = step(g, n)
    <3>. HIDE DEF Accs, first
    <3>1. CASE n = 0
      BY <1>4, <3>1 DEF Runs
    <3>2. CASE n # 0
      <4>1. n \in 1..Len(rows) /\ n - 1 \in 0..Len(rows)
        BY <1>0, <3>2
      <4>2. g[n - 1] \in Accs /\ g[n] = F[n][g[n - 1]]
        <5>. HIDE DEF F
        <5>. QED  BY <1>4, <4>1 DEF Runs
      <4>3. F[n][g[n - 1]] = WantRow(g[n - 1], rows[n])
        BY <4>1, <4>2
      <4>. QED  BY <3>2, <4>2, <4>3
    <3>. QED  BY <3>1, <3>2
  <2>. HIDE DEF Accs, step
  <2>. QED  BY <1>4, <2>1
<1>. DEFINE u == CHOOSE f : f = [n \in 0..Len(rows) |-> step(f, n)]
<1>6. u = [n \in 0..Len(rows) |-> step(u, n)]
  <2>. HIDE DEF first
  <2>. QED  BY <1>5
<1>7. WantRows(first, rows) = u[Len(rows)]
  BY DEF WantRows
<1>8. \A n \in 0..Len(rows) : u[n] = step(u, n)
  <2>. HIDE DEF u, first
  <2>. QED  BY <1>6
<1>9. \A n \in 0..Len(rows) : g[n] = step(g, n)
  <2>. HIDE DEF first
  <2>. QED  BY <1>5
<1>. HIDE DEF u, first, Accs
<1>10. \A n \in 0..Len(rows) : u[n] = g[n]
  <2>. DEFINE Bad == {n \in 0..Len(rows) : u[n] # g[n]}
  <2>. SUFFICES ASSUME Bad # {} PROVE FALSE
    OBVIOUS
  <2>1. PICK n \in Bad : \A m \in Bad : n <= m
    <3>1. Bad \in SUBSET Nat
      BY <1>0
    <3>. HIDE DEF Bad
    <3>. QED  BY <3>1, Least
  <2>2. CASE n = 0
    BY <1>8, <1>9, <2>1, <2>2
  <2>3. CASE n # 0
    <3>1. n \in 0..Len(rows) /\ n - 1 \in 0..Len(rows) /\ n - 1 \notin Bad
      BY <1>0, <2>1, <2>3
    <3>2. u[n - 1] = g[n - 1]
      BY <3>1
    <3>. QED  BY <1>8, <1>9, <2>1, <2>3, <3>1, <3>2
  <2>. QED  BY <2>2, <2>3
<1>11. WantRows(first, rows) \in Accs
  <2>1. Len(rows) \in 0..Len(rows)
    BY <1>0
  <2>. QED  BY <1>4, <1>7, <1>10, <2>1
<1>12. WantRows(first, rows).cache \in CachesFor(p) /\ WantRows(first, rows).queue \in Seq(FolderRows)
  BY <1>11 DEF Accs
<1>. QED  BY <1>12 DEF first

-----------------------------------------------------------------------------
(* The worker and the frames.                                                 *)

SizesInv ==
    /\ queue \in Seq(FolderRows)
    /\ measuring \in FolderRows \cup {NoJob}
    /\ cache \in CachesFor(measuring.path)

LEMMA EmptyCache == \A p : << >> \in CachesFor(p)
<1>1. << >> \in Seq(SizeEntries)
  OBVIOUS
<1>2. DOMAIN << >> = {}
  OBVIOUS
<1>. QED  BY <1>1, <1>2 DEF CachesFor, MeasuringIn

LEMMA WorkerKeeps ==
    ASSUME SizesInv, WorkerStep
    PROVE  SizesInv'
<1>1. CASE TakeFolder
  <2>1. queue \in Seq(FolderRows) /\ queue # << >>
    BY <1>1 DEF SizesInv, TakeFolder
  <2>2. Head(queue) \in FolderRows /\ Tail(queue) \in Seq(FolderRows)
    <3>. HIDE DEF FolderRows
    <3>. QED  BY <2>1
  <2>3. PICK job : job = Head(queue)
    OBVIOUS
  <2>4. measuring' = job /\ queue' = Tail(queue) /\ cache' = MarkComputing(cache, job.path)
    BY <1>1, <2>3 DEF TakeFolder
  <2>5. job.path \in FolderPaths
    BY <2>2, <2>3 DEF FolderRows
  <2>6. cache \in CachesFor(NoFolder)
    BY <1>1 DEF SizesInv, TakeFolder, NoJob
  <2>7. cache \in CachesFor(job.path)
    <3>1. cache \in Seq(SizeEntries) /\ MeasuringIn(cache, NoFolder)
      BY <2>6 DEF CachesFor
    <3>2. \A n \in DOMAIN cache : cache[n].path # NoFolder
      <4>1. \A T, s : s \in Seq(T) => \A k \in DOMAIN s : s[k] \in T
        OBVIOUS
      <4>2. \A n \in DOMAIN cache : cache[n] \in SizeEntries
        BY <3>1, <4>1
      <4>. QED  BY <4>2, UpkeepAssumption DEF SizeEntries, FolderPaths
    <3>. QED  BY <3>1, <3>2 DEF CachesFor, MeasuringIn
  <2>8. PICK e : e = [EntryOf(cache, job.path) EXCEPT !.state = "Computing"]
    OBVIOUS
  <2>9. e \in SizeEntries /\ e.path = job.path
    <3>1. EntryOf(cache, job.path) \in SizeEntries /\ EntryOf(cache, job.path).path = job.path
      BY <2>5, <2>7, EntryOfIs
    <3>2. "Computing" \in FolderSizeStates
      BY DEF FolderSizeStates, BusyStates
    <3>. QED  BY <2>8, <3>1, <3>2, WithState
  <2>10. Touch(cache, e) \in CachesFor(job.path)
    BY <2>7, <2>9, TouchIs
  <2>. QED  BY <2>2, <2>3, <2>4, <2>8, <2>10 DEF MarkComputing, SizesInv
<1>2. CASE Measured
  <2>1. measuring \in FolderRows
    BY <1>2 DEF Measured, SizesInv
  <2>2. PICK e : e = [path |-> measuring.path, state |-> "Done", hasValue |-> TRUE,
                      invalidated |-> FALSE, writeTime |-> measuring.time]
    OBVIOUS
  <2>3. e \in SizeEntries /\ e.path = measuring.path /\ e.state # "Computing"
    BY <2>1, <2>2 DEF SizeEntries, FolderRows, FolderSizeStates
  <2>4. cache \in CachesFor(measuring.path)
    BY DEF SizesInv
  <2>5. Touch(cache, e) \in CachesFor(NoFolder)
    BY <2>3, <2>4, TouchIs
  <2>6. cache' \in CachesFor(NoFolder)
    BY <1>2, <2>2, <2>5, EvictKeeps DEF Measured, Complete
  <2>. QED  BY <1>2, <2>6 DEF Measured, SizesInv, NoJob
<1>3. CASE MeasureCancelled
  <2>1. cache \in CachesFor(measuring.path)
    BY DEF SizesInv
  <2>2. cache' \in CachesFor(NoFolder)
    BY <1>3, <2>1, AbandonIs DEF MeasureCancelled
  <2>. QED  BY <1>3, <2>2 DEF MeasureCancelled, SizesInv, NoJob
<1>. QED  BY <1>1, <1>2, <1>3 DEF WorkerStep

LEMMA WantKeeps ==
    ASSUME SizesInv, NEW rows \in Seq(FolderRows), Want(rows)
    PROVE  SizesInv'
<1>1. PICK left : left = Abandon(cache, PathsIn(queue) \ PathsIn(rows))
  OBVIOUS
<1>2. left \in CachesFor(measuring.path)
  BY <1>1, AbandonIs DEF SizesInv
<1>3. PICK acc : acc = WantRows([cache |-> left, queue |-> << >>], rows)
  OBVIOUS
<1>4. acc.cache \in CachesFor(measuring.path) /\ acc.queue \in Seq(FolderRows)
  BY <1>2, <1>3, WantRowsKeep
<1>5. cache' = acc.cache /\ queue' = acc.queue /\ UNCHANGED measuring
  BY <1>1, <1>3 DEF Want
<1>. QED  BY <1>4, <1>5 DEF SizesInv

LEMMA SizesStep == NoticeInv /\ NamesInv /\ SizesInv /\ [Next]_vars => SizesInv'
<1> SUFFICES ASSUME NoticeInv, NamesInv, SizesInv, [Next]_vars PROVE SizesInv'
  OBVIOUS
<1>1. CASE UNCHANGED sizeVars
  BY <1>1 DEF sizeVars, SizesInv
<1>2. CASE Pump \/ Poll \/ Relist \/ Idle \/ Others
  BY <1>1, <1>2 DEF Pump, Poll, Relist, Idle, Others
<1>3. CASE Sizes
  <2>1. CASE InvalidateAll
    BY <2>1, InvalidatedKeeps DEF InvalidateAll, SizesInv
  <2>. QED  BY <1>1, <1>3, <2>1 DEF Sizes
<1>4. CASE Draw
  <2>1. Rows \in SUBSET FolderRows
    BY DEF Rows, FolderRows, FolderPaths, NamesInv, NoticeInv, Shapes
  <2>2. SetToSeq(Rows) \in Seq(FolderRows)
    <3>1. SetToSeq(Rows) \in Seq(Rows)
      BY RowsFinite, SetToSeqIs
    <3>. HIDE DEF FolderRows, Rows, SetToSeq
    <3>. QED  BY <2>1, <3>1
  <2>3. << >> \in Seq(FolderRows)
    OBVIOUS
  <2>4. ASSUME NEW rows, rows = (IF panel.content THEN << >> ELSE SetToSeq(Rows)), Want(rows)
        PROVE  SizesInv'
    <3>1. rows \in Seq(FolderRows)
      BY <2>2, <2>3, <2>4
    <3>. QED  BY <2>4, <3>1, WantKeeps
  <2>. QED  BY <1>1, <1>4, <2>4 DEF Draw
<1>5. CASE Input
  <2>1. CASE SwitchSizes
    <3>1. cache' = << >> /\ queue' = << >> /\ measuring' = NoJob
      BY <2>1 DEF SwitchSizes, Switch
    <3>2. << >> \in Seq(FolderRows)
      OBVIOUS
    <3>. QED  BY <3>1, <3>2, EmptyCache DEF SizesInv
  <2>. QED  BY <1>1, <1>5, <2>1 DEF Input
<1>6. CASE Worker
  BY <1>6, WorkerKeeps DEF Worker
<1>7. CASE UNCHANGED vars
  BY <1>1, <1>7 DEF vars
<1>. QED  BY <1>2, <1>3, <1>4, <1>5, <1>6, <1>7 DEF Next

\* An entry shown as being measured is the folder the worker has: no frame,
\* eviction, cancellation, end of a measurement or change of the setting leaves
\* one behind, for any capacity, rows, write times and changes of the disk.
THEOREM ComputingHasWorker == Spec => []ComputingIsMeasured
<1>1. Init => SizesInv
  <2>1. << >> \in Seq(FolderRows)
    OBVIOUS
  <2>. QED  BY <2>1, EmptyCache DEF Init, SizeInit, SizesInv
<1>2. SizesInv => ComputingIsMeasured
  <2> SUFFICES ASSUME SizesInv PROVE ComputingIsMeasured
    OBVIOUS
  <2>1. MeasuringIn(cache, measuring.path)
    BY DEF SizesInv, CachesFor
  <2>. QED  BY <2>1 DEF ComputingIsMeasured, MeasuringIn, Range
<1>. QED  BY <1>1, <1>2, NoticeInvariant, NamesInit, NamesStep, SizesStep, PTL DEF Spec
=============================================================================
