---------------------------- MODULE FolderSizes ----------------------------
(* Folder sizes in the panel's Size column: the cache of measured totals and  *)
(* the one background thread that measures folders (FolderSize.cpp).  The UI  *)
(* thread reads the cache and replaces the queue on every frame it draws; the *)
(* worker takes a folder, measures it without the lock, and publishes.        *)
(*                                                                            *)
(* Abstracted: the totals themselves (only whether there is one, and the      *)
(* write time it was measured at, decide anything), and the 200 ms wait of an *)
(* idle worker, which a lost wake-up can only lengthen.                       *)
EXTENDS Naturals, Sequences, FiniteSets, SequencesExt

CONSTANTS
    Capacity,   \* kDefaultCapacity: entries the cache keeps
    NoFolder    \* the empty path: nothing is being measured

ASSUME CapacityAssumption == Capacity \in Nat \ {0}

VARIABLES
    cache,          \* entries_, the least recently shown first
    queue,          \* queue_: folders to measure, with their write times
    running,        \* running_: the folder being measured
    cancelCurrent,  \* cancelCurrent_: the running measurement is not wanted
    measuring,      \* the worker's local job, from pop_front to publication
    unwanted        \* history: a frame since that pop did not show the folder

sizeVars == <<cache, queue, running, cancelCurrent, measuring, unwanted>>

BusyStates == {"Pending", "Computing"}
FolderSizeStates == {"Unknown", "Done"} \cup BusyStates
NoJob == [path |-> NoFolder, time |-> 0]

-----------------------------------------------------------------------------
(* FolderSizeCache.  A cache value is a sequence of entries in the order they *)
(* were last shown; Touch is a move to the end.                               *)

Known(c, p) == \E e \in Range(c) : e.path = p

EntryOf(c, p) ==
    IF Known(c, p) THEN CHOOSE e \in Range(c) : e.path = p
    ELSE [path |-> p, state |-> "Unknown", hasValue |-> FALSE,
          invalidated |-> FALSE, writeTime |-> 0]

\* The entries of c at the positions `kept`, in their order.
Only(c, kept) ==
    LET upTo[n \in 0..Len(c)] ==
            IF n = 0 THEN << >> ELSE IF n \in kept THEN Append(upTo[n - 1], c[n]) ELSE upTo[n - 1]
    IN  upTo[Len(c)]

Touch(c, e) == Append(Only(c, {n \in DOMAIN c : c[n].path # e.path}), e)

IsBusy(e) == e.state \in BusyStates

\* Idle entries go first, then busy ones, each in the order they were shown.
EvictIfNeeded(c) ==
    LET busy  == {n \in DOMAIN c : IsBusy(c[n])}
        order == Only(c, DOMAIN c \ busy) \o Only(c, busy)
        out   == {order[i].path : i \in {k \in DOMAIN order : k + Capacity <= Len(c)}}
    IN  Only(c, {n \in DOMAIN c : c[n].path \notin out})

\* A write time of 0 is unknown and makes nothing stale.
Stale(e, time) ==
    e.hasValue /\ (e.invalidated \/ (time # 0 /\ e.writeTime # time))

NeedsMeasuring(e, time) == ~ IsBusy(e) /\ (~ e.hasValue \/ Stale(e, time))

\* Get: reading a known entry counts as showing it.
Get(c, p) == IF Known(c, p) THEN Touch(c, EntryOf(c, p)) ELSE c

MarkPending(c, p) ==
    EvictIfNeeded(Touch(c, [EntryOf(c, p) EXCEPT !.state = "Pending"]))

MarkComputing(c, p) == Touch(c, [EntryOf(c, p) EXCEPT !.state = "Computing"])

Complete(c, p, time) ==
    EvictIfNeeded(Touch(c, [path |-> p, state |-> "Done", hasValue |-> TRUE,
                            invalidated |-> FALSE, writeTime |-> time]))

Abandon(c, paths) ==
    [i \in DOMAIN c |->
        IF c[i].path \in paths
        THEN [c[i] EXCEPT !.state = IF c[i].hasValue THEN "Done" ELSE "Unknown"]
        ELSE c[i]]

Invalidated(c) ==
    [i \in DOMAIN c |-> [c[i] EXCEPT !.invalidated = @ \/ c[i].hasValue]]

-----------------------------------------------------------------------------
(* FolderSizeWorker, the calls of the UI thread.                              *)

SizeInit ==
    /\ cache = << >> /\ queue = << >> /\ running = NoFolder
    /\ cancelCurrent = FALSE /\ measuring = NoJob /\ unwanted = FALSE

\* One row of Want: queue it if it has no total, or a stale one.
WantRow(acc, row) ==
    IF NeedsMeasuring(EntryOf(acc.cache, row.path), row.time)
    THEN [cache |-> MarkPending(Get(acc.cache, row.path), row.path),
          queue |-> Append(acc.queue, row)]
    ELSE [acc EXCEPT !.cache = Get(@, row.path)]

WantRows(first, rows) ==
    LET after[n \in 0..Len(rows)] == IF n = 0 THEN first ELSE WantRow(after[n - 1], rows[n])
    IN  after[Len(rows)]

PathsIn(rows) == {rows[i].path : i \in DOMAIN rows}

\* Want: the frame just drawn showed exactly the folders of `visible`.
Want(visible) ==
    LET left == Abandon(cache, PathsIn(queue) \ PathsIn(visible))
        acc  == WantRows([cache |-> left, queue |-> << >>], visible)
        drop == running # NoFolder /\ running \notin PathsIn(visible)
    IN  /\ cache' = acc.cache
        /\ queue' = acc.queue
        /\ cancelCurrent' = (cancelCurrent \/ drop)
        /\ unwanted' = (unwanted \/ drop)
        /\ UNCHANGED <<running, measuring>>

InvalidateAll ==
    /\ cache' = Invalidated(cache)
    /\ UNCHANGED <<queue, running, cancelCurrent, measuring, unwanted>>

\* The setting goes off: the destructor stops the thread, waits for it and
\* forgets every total.  (It waits ten seconds at most; SumTree is taken to
\* notice the stop within them.)
Switch ==
    /\ cache' = << >> /\ queue' = << >> /\ running' = NoFolder
    /\ cancelCurrent' = FALSE /\ measuring' = NoJob /\ unwanted' = FALSE

-----------------------------------------------------------------------------
(* FolderSizeWorker::Run, the thread.                                         *)

\* Mutant of TakeFolder: cancelCurrent_ is not reset for the next folder.
TakeFolderUncleared ==
    /\ measuring = NoJob
    /\ queue # << >>
    /\ measuring' = Head(queue)
    /\ queue' = Tail(queue)
    /\ running' = Head(queue).path
    /\ unwanted' = FALSE
    /\ cache' = MarkComputing(cache, Head(queue).path)
    /\ UNCHANGED cancelCurrent

TakeFolder ==
    /\ measuring = NoJob
    /\ queue # << >>
    /\ measuring' = Head(queue)
    /\ queue' = Tail(queue)
    /\ running' = Head(queue).path
    /\ cancelCurrent' = FALSE
    /\ unwanted' = FALSE
    /\ cache' = MarkComputing(cache, Head(queue).path)

\* SumTree came to the end, whether or not it was cancelled after its last poll.
Measured ==
    /\ measuring # NoJob
    /\ cache' = Complete(cache, measuring.path, measuring.time)
    /\ running' = NoFolder
    /\ measuring' = NoJob
    /\ UNCHANGED <<queue, cancelCurrent, unwanted>>

\* Mutant of MeasureCancelled: the entry keeps its state.
MeasureDropped ==
    /\ measuring # NoJob
    /\ cancelCurrent
    /\ running' = NoFolder
    /\ measuring' = NoJob
    /\ UNCHANGED <<cache, queue, cancelCurrent, unwanted>>

\* SumTree polled cancelCurrent_ and stopped.
MeasureCancelled ==
    /\ measuring # NoJob
    /\ cancelCurrent
    /\ cache' = Abandon(cache, {measuring.path})
    /\ running' = NoFolder
    /\ measuring' = NoJob
    /\ UNCHANGED <<queue, cancelCurrent, unwanted>>

WorkerStep == TakeFolder \/ Measured \/ MeasureCancelled

-----------------------------------------------------------------------------
(* Properties.                                                                *)

\* A folder shown as being measured is the one the worker is measuring: no
\* cancellation, eviction or replaced queue leaves an entry Computing for good,
\* which would keep it from ever being queued again (FolderSize.cpp:60).
ComputingIsMeasured ==
    \A e \in Range(cache) : e.state = "Computing" => e.path = measuring.path

\* A measurement is given up only if a frame drawn since it began did not show
\* its folder: a cancel meant for one folder never stops the next one
\* (FolderSize.cpp:130).
OnlyUnwantedCancelled == [][MeasureCancelled => unwanted]_sizeVars
=============================================================================
