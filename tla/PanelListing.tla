---------------------------- MODULE PanelListing ----------------------------
(* One panel's listing and its automatic refresh: Panel.cpp's incremental     *)
(* listing, FolderWatch and Debouncer, and PollAutoRefresh (main.cpp).  Other *)
(* programs change the folders at any moment; the UI thread lists a folder in *)
(* several slices, and learns of changes by polling a notification handle.    *)
(*                                                                            *)
(* Abstracted: an entry is its name and its last-write time, and one that     *)
(* cannot be queried (it is shown as inaccessible) is not told apart; sorting, *)
(* filters and scrolling are left out.  A debouncer's burst is due at any     *)
(* poll after the one that began it.                                          *)
EXTENDS Naturals, FiniteSets, Functions

CONSTANTS
    Paths,      \* the folders a panel may show
    Names,      \* the names they may contain
    NoPath,     \* an empty path
    StartPath,  \* the folder the panel shows first
    StartDisk,  \* what is in the folders before anything changes
    StartModes, \* the settings of automatic refresh it may start with
    PumpSize,   \* maxEntries of PumpRefresh
    MaxChanges  \* bound: how often other programs change something

Modes == {"Off", "On", "Poll"}

ASSUME ListingAssumption ==
    /\ StartModes \subseteq Modes
    /\ PumpSize \in Nat \ {0}
    /\ MaxChanges \in Nat
    /\ NoPath \notin Paths /\ IsFiniteSet(Names)
    /\ StartPath \in Paths
    /\ StartDisk \in [Paths -> [Names -> {0, 1}]]

VARIABLES
    clock,    \* how often other programs changed something: the write time they left
    disk,     \* per folder and name: the write time, 0 when there is no such name
    gone,     \* folders whose volume is not there now
    panel,    \* the Panel object
    watch,    \* the panel's FolderWatch
    auto,     \* the rest of its AutoRefreshState, and the setting
    exposed   \* history: it changed between its listing's start and the next poll

listVars == <<clock, disk, gone, panel, watch, auto, exposed>>

\* Who has not yet seen that a new listing started (seenStarts, seen.starts).
Observers == {"auto", "sizes"}

Present(p) == IF p \in gone THEN {} ELSE {x \in Names : disk[p][x] # 0}

\* GetLastWriteTimeOrZero.
WriteTime(p, x) == IF p \in gone THEN 0 ELSE disk[p][x]

\* What the panel shows, and what its listing left out when reading failed.
Accounted ==
    [x \in DOMAIN panel.entries \cup DOMAIN panel.unread |->
        IF x \in DOMAIN panel.entries THEN panel.entries[x] ELSE panel.unread[x]]

\* That is the folder as it is.
AccountsForDisk == Accounted = [x \in Present(panel.path) |-> WriteTime(panel.path, x)]

-----------------------------------------------------------------------------
(* Panel.                                                                     *)

ApplyPreservedState(p) ==
    [p EXCEPT !.selected = @ \cup (IF p.preserve
                                   THEN p.kept \cap DOMAIN p.entries ELSE {}),
              !.kept = {},
              !.preserve = FALSE]

FinishRefresh(p) == ApplyPreservedState([p EXCEPT !.loading = FALSE])

\* Reading the folder failed: the listing ends with what was read.  unread is
\* history: the names left out, and their times then.
CutShort(p) ==
    FinishRefresh([p EXCEPT !.unread = [x \in p.toRead |-> WriteTime(p.path, x)], !.toRead = {}])

\* Refresh and BeginRefresh: what is shown goes at once; the directory iterator
\* holds the names to read, or could not be opened.
BeginRefresh(p, opens) ==
    LET begun == [p EXCEPT !.entries = << >>, !.selected = {}, !.unread = << >>,
                           !.toRead = Present(p.path), !.unseen = Observers]
    IN  IF opens /\ p.path \notin gone THEN [begun EXCEPT !.loading = TRUE] ELSE CutShort(begun)

\* keptPath is history: the folder whose selection was kept.
RefreshPreservingState(p, opens) ==
    BeginRefresh([p EXCEPT !.kept = p.selected, !.preserve = TRUE, !.keptPath = p.path], opens)

\* The next entries, each with what the disk says of it now.
ReadEntries(some) ==
    [panel EXCEPT !.entries = [x \in DOMAIN @ \cup some |->
                                 IF x \in some THEN WriteTime(panel.path, x) ELSE @[x]],
                  !.toRead = @ \ some]

\* PumpRefresh: up to maxEntries of them.  When increment fails after an entry,
\* the listing ends there without a message; a folder that denies permission has
\* no first entry (skip_permission_denied).
PumpRefresh ==
    \/ panel.loading = FALSE /\ UNCHANGED panel
    \/ /\ panel.loading
       /\ \E some \in SUBSET panel.toRead :
             /\ Cardinality(some) <= PumpSize
             /\ \/ some = panel.toRead /\ panel' = FinishRefresh(ReadEntries(some))
                \/ /\ some # panel.toRead /\ Cardinality(some) = PumpSize
                   /\ panel' = ReadEntries(some)
                \/ /\ some # panel.toRead /\ (some = {} => DOMAIN panel.entries = {})
                   /\ panel' = CutShort(ReadEntries(some))

-----------------------------------------------------------------------------
(* FolderWatch.  signalled: the handle has something to report; lost: what it *)
(* watched went away, which only a poll finds out.                            *)

Closed == [state |-> "Closed", path |-> NoPath, signalled |-> FALSE, lost |-> FALSE]

Arm(p) == [Closed EXCEPT !.state = IF p \in gone THEN "Unavailable" ELSE "Active",
                         !.path = p]

\* Poll's answer, and the handle after it: one whose volume went away reports
\* once and is given up.
PollSays(w) == w.state = "Active" /\ w.signalled
AfterPoll(w) ==
    IF ~ PollSays(w) THEN w
    ELSE [w EXCEPT !.signalled = FALSE,
                   !.lost = FALSE,
                   !.state = IF w.lost THEN "Unavailable" ELSE "Active"]
Drain(w) == AfterPoll(w)

-----------------------------------------------------------------------------
(* PollAutoRefresh, up to the refresh itself, which the operator only asks    *)
(* for: another program may change the folder between Drain and the listing.  *)

Disarmed(a) == [a EXCEPT !.armedPath = NoPath, !.pending = FALSE]

\* The watch of a panel that shows something else, or none is wanted.
PollClosed ==
    /\ auto.mode = "Off" \/ panel.content
    /\ watch' = Closed
    /\ auto' = [Disarmed(auto) EXCEPT
                  !.contentShown = @ \/ (auto.mode # "Off" /\ panel.content)]
    /\ UNCHANGED panel

\* RefreshStarts() differs from seenStarts: what was signalled is drained.
NewListing(rearm) == ~ rearm /\ "auto" \in panel.unseen

\* Mutant of Burst: a panel that shows its folder again is not listed anew.
BurstBeforeContent(relisted, rearm) == ~ relisted /\ ~ rearm /\ auto.pending

\* The debouncer before the handle is polled: a burst is on after content was
\* shown, or still on.
Burst(relisted, rearm) == ~ relisted /\ IF rearm THEN auto.contentShown ELSE auto.pending

PollWatched(busy) ==
    /\ auto.mode # "Off" /\ ~ panel.content
    /\ \E late, tick \in BOOLEAN :
         LET rearm    == auto.armedPath # panel.path
             armed    == IF rearm THEN Arm(panel.path) ELSE watch
             relisted == NewListing(rearm)
             drained  == IF relisted THEN Drain(armed) ELSE armed
             burst    == Burst(relisted, rearm)
             polled   == AfterPoll(drained)
             timer    == tick /\ auto.mode = "Poll" /\ polled.state # "Active"
             pending  == burst \/ PollSays(drained) \/ timer
             due      == late /\ burst /\ ~ rearm /\ ~ busy /\ ~ panel.loading
         IN  /\ watch' = IF due THEN Drain(polled) ELSE polled
             /\ panel' = [panel EXCEPT !.unseen = @ \ {"auto"}]
             /\ auto' = [auto EXCEPT !.armedPath = panel.path,
                                     !.contentShown = @ /\ ~ rearm,
                                     !.pending = pending,
                                     !.refresh = due]

\* ... panel.RefreshPreservingState(); debounce.Clear(); seenStarts = ...
AutoRefresh ==
    /\ auto.refresh
    /\ \E opens \in BOOLEAN :
          panel' = [RefreshPreservingState(panel, opens) EXCEPT !.unseen = @ \ {"auto"}]
    /\ auto' = [auto EXCEPT !.pending = FALSE, !.refresh = FALSE]
    /\ exposed' = FALSE
    /\ UNCHANGED <<clock, disk, gone, watch>>

-----------------------------------------------------------------------------
(* What the user does to the panel.                                           *)

\* Ctrl+R, and every command that re-lists.
Refresh ==
    /\ \E opens \in BOOLEAN : panel' = BeginRefresh(panel, opens)
    /\ exposed' = FALSE

\* SetLocation: another folder, or this one again.
SetLocation(p) ==
    /\ \E opens \in BOOLEAN : panel' = BeginRefresh([panel EXCEPT !.path = p], opens)
    /\ exposed' = FALSE

ToggleSelected(x) ==
    /\ x \in DOMAIN panel.entries
    /\ panel' = [panel EXCEPT !.selected = IF x \in @ THEN @ \ {x} ELSE @ \cup {x}]
    /\ UNCHANGED exposed

\* A plugin or the directory tree takes the panel's area, and gives it back.
ToggleContent ==
    /\ panel' = [panel EXCEPT !.content = ~ @]
    /\ UNCHANGED exposed

UserOp ==
    \/ Refresh
    \/ \E p \in Paths : SetLocation(p)
    \/ \E x \in Names : ToggleSelected(x)
    \/ ToggleContent

-----------------------------------------------------------------------------
(* Other programs.                                                            *)

IsWatched(p) == watch.state = "Active" /\ watch.path = p

\* The panel's listing began, and no poll has seen it: the next one drains what
\* this change signals, or arms the watch after it, and no burst is started.
TooEarly(p) == p = panel.path /\ "auto" \in panel.unseen /\ ~ auto.contentShown

\* The watched folder's handle is signalled by every change in it.
Notify(p, lost) ==
    /\ watch' = IF IsWatched(p)
                THEN [watch EXCEPT !.signalled = TRUE, !.lost = @ \/ lost] ELSE watch
    /\ exposed' = (exposed \/ TooEarly(p))
    /\ clock < MaxChanges
    /\ clock' = clock + 1
    /\ UNCHANGED <<panel, auto>>

\* A name appears, is written, or goes away.
Change(p, x) ==
    /\ p \notin gone
    /\ \E time \in {clock + 2} \cup ({0} \ {disk[p][x]}) :
          disk' = [disk EXCEPT ![p][x] = time]
    /\ Notify(p, FALSE)
    /\ UNCHANGED gone

VolumeGoes(p) ==
    /\ p \notin gone
    /\ gone' = gone \cup {p}
    /\ Notify(p, TRUE)
    /\ UNCHANGED disk

\* Nothing tells the program that a volume is back.
VolumeReturns(p) ==
    /\ p \in gone
    /\ gone' = gone \ {p}
    /\ exposed' = (exposed \/ TooEarly(p))
    /\ UNCHANGED <<clock, disk, panel, watch, auto>>

OtherPrograms ==
    \E p \in Paths : VolumeGoes(p) \/ VolumeReturns(p) \/ \E x \in Names : Change(p, x)

-----------------------------------------------------------------------------
(* Start, with the first listing begun (the constructor of Panel).            *)

ListInit ==
    /\ clock = 0
    /\ disk = StartDisk
    /\ gone = {}
    /\ \E opens \in BOOLEAN :
          panel = BeginRefresh([path |-> StartPath, entries |-> << >>, selected |-> {},
                                toRead |-> {}, unread |-> << >>, loading |-> FALSE, unseen |-> {},
                                preserve |-> FALSE, kept |-> {}, keptPath |-> StartPath,
                                content |-> FALSE], opens)
    /\ watch = Closed
    /\ auto \in [mode : StartModes, armedPath : {NoPath}, contentShown : {FALSE},
                 pending : {FALSE}, refresh : {FALSE}]
    /\ exposed = FALSE

-----------------------------------------------------------------------------
(* Properties.                                                                *)

\* The panel is watched and its listing is done, and yet the folder is neither
\* what it shows nor what it failed to read.
Outdated ==
    /\ auto.mode # "Off" /\ ~ panel.content
    /\ IsWatched(panel.path)
    /\ "auto" \notin panel.unseen /\ ~ panel.loading
    /\ ~ AccountsForDisk

OnItsWay == watch.signalled \/ auto.pending \/ auto.refresh

\* A panel that no longer shows its folder as it is has a refresh on its way: a
\* signal in the handle, a burst in the debouncer, or the refresh itself.  There
\* are two exceptions, which the code has.  A change (or the return of a volume)
\* after a listing began that was not an automatic refresh, and before the poll
\* that takes note of it: the poll drains the handle as "covered by that listing"
\* (main.cpp:4077-4082), or only then arms it (4064-4075).  And names that a
\* listing left out because reading the folder failed (Panel.cpp:297-302,
\* 317-321): nothing lists it again until something in it changes, which is
\* noticed also if it is one of these names.
ChangeNoticed == Outdated => OnItsWay \/ exposed

\* Panel.h:115-118: an automatic refresh keeps the selection.  It is the one of
\* the folder listed: no entry is selected for having the name of an entry the
\* user selected in another folder.
SelectionStaysInFolder ==
    [][(panel.preserve /\ ~ panel'.preserve /\ panel'.selected # panel.selected)
         => panel.keptPath = panel'.path]_listVars
=============================================================================
