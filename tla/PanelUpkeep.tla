---------------------------- MODULE PanelUpkeep ----------------------------
(* The main loop's upkeep of a panel (main.cpp, one pass every 16 ms): it     *)
(* reads another slice of the listing, polls for changes, invalidates folder  *)
(* sizes after a re-listing, draws a frame, which tells the size worker what  *)
(* is on screen, and takes one event of the user.  The worker's thread and    *)
(* other programs step in between any two of these.                           *)
(*                                                                            *)
(* Every name is a folder; a folder's size is kept under its path and name.   *)
EXTENDS FolderSizes, PanelListing

CONSTANT MaxUserOps     \* bound: what the user does

ASSUME UpkeepAssumption == NoFolder \notin Paths \X Names /\ MaxUserOps \in Nat

VARIABLES
    phase,      \* where the UI thread is in its loop
    seenPath,   \* leftSizeSeen.path
    sizesOn,    \* gFolderSizesOn, and the worker exists
    userOps     \* how many events were taken

vars == <<sizeVars, listVars, phase, seenPath, sizesOn, userOps>>

Phases == {"top", "relist", "sizes", "draw", "input"}

UI(from, to) ==
    /\ phase = from /\ phase' = to
    /\ UNCHANGED <<clock, disk, gone>>

Pump ==
    /\ UI("top", "relist")
    /\ PumpRefresh
    /\ UNCHANGED <<sizeVars, watch, auto, exposed, seenPath, sizesOn, userOps>>

\* A menu, a typed command or a drag makes the UI busy.
Poll ==
    /\ ~ auto.refresh
    /\ PollClosed \/ \E busy \in BOOLEAN : PollWatched(busy)
    /\ UI("relist", IF auto'.refresh THEN "relist" ELSE "sizes")
    /\ UNCHANGED <<sizeVars, exposed, seenPath, sizesOn, userOps>>

Relist ==
    /\ phase = "relist" /\ phase' = "sizes"
    /\ AutoRefresh
    /\ UNCHANGED <<sizeVars, seenPath, sizesOn, userOps>>

\* A re-listing of the same folder makes every total stale.
Sizes ==
    /\ UI("sizes", "draw")
    /\ IF sizesOn /\ seenPath = panel.path /\ "sizes" \in panel.unseen
       THEN InvalidateAll ELSE UNCHANGED sizeVars
    /\ IF sizesOn
       THEN /\ seenPath' = panel.path
            /\ panel' = [panel EXCEPT !.unseen = @ \ {"sizes"}]
       ELSE UNCHANGED <<seenPath, panel>>
    /\ UNCHANGED <<watch, auto, exposed, sizesOn, userOps>>

\* The rows drawn, in some order: the listing is in the disk's order until done.
Rows == {[path |-> <<panel.path, x>>, time |-> panel.entries[x]] : x \in DOMAIN panel.entries}

Draw ==
    /\ UI("draw", "input")
    /\ IF sizesOn
       THEN Want(IF panel.content THEN << >> ELSE SetToSeq(Rows))
       ELSE UNCHANGED sizeVars
    /\ UNCHANGED <<panel, watch, auto, exposed, seenPath, sizesOn, userOps>>

Idle ==
    /\ UI("input", "top")
    /\ UNCHANGED <<sizeVars, panel, watch, auto, exposed, seenPath, sizesOn, userOps>>

\* The setting is changed between two frames.
SwitchSizes ==
    /\ sizesOn' = ~ sizesOn
    /\ Switch
    /\ UNCHANGED <<panel, exposed>>

Input ==
    /\ UI("input", "top")
    /\ userOps < MaxUserOps
    /\ userOps' = userOps + 1
    /\ \/ UserOp /\ UNCHANGED <<sizeVars, sizesOn>>
       \/ SwitchSizes
    /\ UNCHANGED <<watch, auto, seenPath>>

Worker ==
    /\ sizesOn
    /\ WorkerStep
    /\ UNCHANGED <<listVars, phase, seenPath, sizesOn, userOps>>

Others ==
    /\ OtherPrograms
    /\ UNCHANGED <<sizeVars, phase, seenPath, sizesOn, userOps>>

Init ==
    /\ SizeInit /\ ListInit
    /\ phase = "top" /\ seenPath = NoPath
    /\ sizesOn \in BOOLEAN /\ userOps = 0

Next ==
    \/ Pump \/ Poll \/ Relist \/ Sizes \/ Draw \/ Idle \/ Input
    \/ Worker
    \/ Others

Spec == Init /\ [][Next]_vars
=============================================================================
