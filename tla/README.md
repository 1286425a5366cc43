# A TLA+ model of MyCommander

MyCommander is a two-panel file manager for the Windows console, written in C++.
This directory holds TLA+ modules that model its core logic, the TLC configurations
that check them on small instances, and proofs, checked by TLAPS, that hold for every
value of the constants. `PROJECT.json` maps every definition to the lines it models.

    tlc -workers 2 -config MCJobWorker.cfg MCJobWorker    # check a run
    tlapm CommanderProofs.tla                             # check a module's proofs

Paths below are relative to `src/Source/` unless they start with `src/`.

## 1. The system

One UI thread (`wmain` in `MyCommander/main.cpp`) reads keys, draws two panels, opens
dialogs and runs most operations itself. Beside it run: one worker thread per
background job, the folder-size thread, the threads of plugins (network scans), and,
outside the process, an elevated helper and servers reached over FTP and SFTP.

| Part | State it keeps | Operations | Talks to | What is hard |
|---|---|---|---|---|
| Job queue (`MyCommander/OperationQueue`) | jobs in order, their state, next id | Enqueue, CancelQueued, NextToRun, SetState, Finish, ActiveJobTouching | owned by the job worker, under its mutex | exclusion by path and by drive, no overtaking |
| Job worker (`JobWorker`, `PauseToken`) | cancel flags, pause tokens, thread handles, open prompts, `shuttingDown_` | Enqueue, Cancel, Pause(All), Resume(All), AnswerConflict/Error, RunJob, destructor | UI thread by calls, workers by mutex and condition variable, engines by callbacks | lost wake-ups, cancel against pause against answer, shutdown with workers in any place, calls made of several lock scopes |
| Main loop (`main.cpp`) | panels, `JobsWatch::seen`, refresh timers, the undo journal | keys, prompts, job list, foreground operations, quit | everything | snapshots acted on later, several ways out |
| File engines (`FileOps`) | none of their own: the disk, and the "for all" answers of one call | copy, move, rename, delete, create, attributes | job worker and UI thread by callbacks | partial failure, retries, conflicts, cross-drive moves |
| Batch rename (`MultiRename`) | a plan | BuildRenamePlan, OrderRenames | FileOps::RenameItems | cycles of names, rollback |
| Undo journal (`UndoJournal`) | a stack of at most 20 entries with fingerprints | Push, Pop, Clear, CheckUndo, PerformUndo | main loop, FileOps, Recycle Bin | entry out of date when used, undo that fails half-way |
| Panels (`Panel`, `Navigation`) | listing, cursor, selection, history | load, pump, refresh, swap, select | main loop, providers | listing in slices, state put back on a later listing |
| Folder sizes (`FolderSize`) | a bounded cache, one running measurement | Want, Get, InvalidateAll, worker loop | main loop, its own thread | invalidation during a measurement, cancel against re-want |
| Folder watch (`FolderWatch`) | a change handle per panel, debounce times | Poll, Drain | main loop | a change lost between listing and draining |
| Provider copy (`ProviderCopy`, `LocalProvider`, `MemoryProvider`) | answers for all, part files | copy, move, delete, mkdir between providers | main loop, plugin adapters | a move as copy and delete, retry after a lost connection |
| Plugin host (`PluginManager`, `PluginProviderAdapter`) | loaded plugins, enabled flags, open panels | load, enable, disable, shutdown, file-system calls | plugins through a C ABI | order of shutdown, re-entrancy |
| Remote panels (`PluginCommon/RemotePanel`) | one session per server, cached listing, pending part files | list, stat, upload, download, rename, delete, reconnect | FTP and SFTP clients | replacing a file by steps, connection lost between them |
| FTP client (`FtpPlugin/FtpClient`) | control connection, reply buffer | commands, transfers, abort and drain | a server | a reply read for the wrong command |
| SFTP client (`SftpPlugin`) | a libssh2 session | the same interface | a server | mostly inside libssh2 |
| Zip panel (`ZipPlugin`) | an archive in memory, dirty flag, passwords | open, edit, commit, reload | provider adapter | pending changes lost, archive written in place |
| Network plugin (`NetInfoPlugin`) | a table of hosts, scan generations | start, tick, stop, apply | detached threads | late results of an abandoned scan |
| Recycle Bin, Elevation, DirSync, DirCompare | a listing or a plan | restore, purge; run elevated; plan, execute | Windows, FileOps | the plan is older than the disk |
| Session, Config, Labels, Favorites, histories | text files | load, save | main loop | plain sequential code |
| Key map, menus, dialogs, viewers, help, text diff | layout, cursor | key handling | main loop | one actor, unit-tested |
| Setup, example plugin, miniz, libssh2 | – | – | – | one-shot, sample or third-party code |

What makes each modelled part correct is stated by its properties (section 4);
`PROJECT.json` lists every part under `components` and, under `hazards`, what in this
code is hard to test, each at its line, with the properties that would catch it.

## 2. The modules

| Module | Models | Extends |
|---|---|---|
| `ExclusiveJobs` | the promise of the queue, without its mechanism: jobs wait, are at work, are over; conflicting ones never at work together; submission order on shared files | – |
| `OperationQueue` | `OperationQueue.h/.cpp` | – |
| `JobWorker` | `JobWorker.h/.cpp`, `PauseToken.cpp`, and the engines as a worker sees them | `OperationQueue` |
| `Commander` | the loop of `wmain` beside the workers: `ServiceJobPrompts`, `PollBackgroundJobs`, `ShowJobQueue`, `RefuseIfBusyWithJob` and what it guards, `ConfirmQuitWithJobs` | `JobWorker` |
| `FileOps` | `FileOps.cpp`: the loops of copy, move, recycle and delete over a small disk, `RenameItem`, `RunWithRetry`, and the Windows calls under them | – |
| `UndoJournal` | `UndoJournal.h/.cpp`, the file operations of `main.cpp` that record in it, `DoUndo`, `FindInBin` and `Restore` | `FileOps` |
| `FolderSizes` | `FolderSize.h/.cpp`: the cache, `Want`, the worker thread | – |
| `PanelListing` | `Panel.cpp`'s listing in slices, `FolderWatch`, the debouncer, `PollAutoRefresh` | – |
| `PanelUpkeep` | one pass of the loop of `wmain` over a panel: pump, poll, sizes, frame, key | both |
| `RemotePanel` | `PluginCommon/RemotePanel.cpp`: a session of a server as a provider | – |
| `ProviderCopy` | `ProviderCopy.cpp` and `LocalProvider.cpp`: copy, move and delete between two providers | `RemotePanel` |
| `ZipPanel` | `ZipPlugin.cpp`: archives opened in panels; the questions of `PluginManager.cpp` and `main.cpp` | – |
| `BatchRename` | `MultiRename.cpp`, `RenameItems` of `FileOps.cpp`, `DoGroupRename` of `main.cpp` | – |
| `FtpClient` | `FtpPlugin/FtpClient.cpp`: the control connection | – |
| `CommanderProofs` (with the queue's and the worker's), `FileTransferProofs` (with the undo's), `PanelUpkeepProofs`, `ProviderCopyProofs` (the session), `ProviderMoveProofs` (the trees), `ZipPanelProofs`, `BatchRenameProofs`, `FtpClientProofs` | theorems and proofs | the module they are about, and `ProviderCopyProofs` under `ProviderMoveProofs` |
| `MC…` | values of the constants for TLC | the module they check |

### OperationQueue
`jobs_` is the pair of functions `jobs` (what was submitted under an id) and `state`
(`"New"` before, `"Removed"` after it is erased from the list); ids are given in
order, so the order of the list is the order of ids. A path is the sequence of its
components, the first one the drive or share; `Fold` is `towlower` on a component.
`JobsOverlap` compares all pairs of paths as `JobsOverlap` in the code does, while
`VolumeKey` keeps the spelling, as `FindFilesystemRoot` does. The properties have
their own definition of "same tree" and "same drive", so they can disagree with the
code's. Symbolic links and mount points are outside this model: the code compares
paths lexically as well.

### JobWorker
One action per lock scope. `pc[j]` is where job j's thread is; `holder` is set only
while `StartRunnableLocked` runs, the one long critical section whose steps are
separate actions (`StartNext`, `ThreadCreated`, `ThreadNotCreated`, `StartDone`); all
other critical sections are one atomic action guarded by `MutexFree`. The cancel flag
and the pause token are atomics, read without the lock in `Poll`, `PauseWait` and
`LastCheck`, one action per read, as in the `pausableCancel` lambda. A thread inside
`cv_.wait` is `"asleep"` and is woken only by `NotifyAll`; testing the predicate and
falling asleep are one action because the wait holds the mutex. The prompt slots, their
sequence numbers and the answers follow `prompts_`. PauseAll and ResumeAll are a
collecting action and one action per id, since each `Pause(id)` takes the lock anew.
The engine of a job is a loop over its items that polls, may ask about a conflict, may
ask about an error, and ends each item as done, skipped or failed.

### Commander
The UI thread's place in its loop is `loop`. Its calls into the worker are the
worker's own actions, conjoined with where the loop is. What the UI thread remembers
across calls is state of its own: the copy of the open prompts (`asked`), of the jobs
to cancel (`doomed`), the job-list line as it was drawn (`chosen`), the paths its own
operation was checked for (`foreground`), the jobs already noticed (`noticed`).
`queuedThen` is a history variable used only by a property.

### FileOps
`disk` says what is at each place: nothing, a folder, a link, or a file with a content.
There are two folders, the panels', whose items are files or folders, and a folder's own
items are files and links: one level shows every way in which half of a tree can be
copied or removed. A content stands for a file's bytes, size and time together. Links are only inside
folders and all lead to `Elsewhere`, since `CopyFileExW` writes through one that is at its
target. `denied` folders refuse to be listed, which `skip_permission_denied` turns into an
empty listing. `op` holds the locals of the engine's loop (the item's index, both "for
all" answers, the target, what was seen there, the folder's files still to come) and
`phase` its place: between items, in a dialog, before an attempt, in the walk over a
folder, before the source's removal. The disk may change under it between any two of
these steps (`OtherProgramWrites`), and a Windows call may fail for no reason of the
model's (`MaxFaults`), leaving what such a call may leave. An attempt the user elevates
is the same attempt without the denied folders and without a cancel poll; it is offered
after every failure of an operation that knows it, not only on "access denied".

### UndoJournal
`journal` is `entries_`. An entry keeps the items' fingerprints, here the exact trees
(the code compares number, bytes, newest time and attributes), and beside them, for the
properties, what had been at both places before. `Settle` is what `PerformCopyOrMove`
and `DoDelete` do after the engine returned: one entry of what was made or is gone, or
`UndoClear`. Ctrl+Z is three actions: `DoUndo` (check, and the question), `AnswerUndo`
(check again, and for a delete find everything in the bin), then the engine of the
reversal, item by item without handlers, until `EndUndo`. The bin keeps whole trees with the time of
their deletion, counted in operations; the two seconds of slack, and drives without a
bin, are left out. `RefuseIfBusyWithJob` is in `Commander`; here no job is at work.
Entries of attributes, new folders and new files are not modelled.

### FolderSizes, PanelListing, PanelUpkeep
`cache` is `entries_` in the order the entries were last shown, so `Touch` is a move to the
end and `EvictIfNeeded` takes from the front, idle entries first. `Want` is one action, as it
holds the lock throughout: rows that left the queue are abandoned, the queue is built anew, and
a running measurement nobody wants is cancelled by a flag. The worker is three actions: take a
folder, publish a total, give it up. Between taking and publishing it holds no lock, and frames,
invalidations and the setting (`Switch`) step in.

`panel` is the fields of `Panel` that listing and refresh use. A refresh shows nothing at first;
`toRead` is what its directory iterator has still to give, and `PumpRefresh` reads up to
`PumpSize` names, each with what the disk says of it at that moment. The folder may not open, and
reading on may fail after any entry: the listing then ends with what was read, like a complete one
(`CutShort`). `unread` is history: the names it left out, and their times then. `unseen` stands for the
start counters: who has not yet noticed that a listing began. `watch` is the notification
handle: other programs signal it, only a poll takes the signal away, and a handle whose volume
went away reports once. `PollAutoRefresh` is an action up to the refresh it may ask for, which
is the next action, because another program may write between `Drain` and the listing.
`PanelUpkeep` puts these in the loop's order and joins the two parts as the code does: a
re-listing of the same folder invalidates all totals, a frame tells the worker the rows drawn.
`exposed` is history: the folder changed after a listing began and before the poll that takes note
of it. Left out: sorting, filters, the cursor, the other panel, the mark on an entry that cannot be
queried, and the time a burst lasts (due at any poll after the one that began it).

### RemotePanel, ProviderCopy
The server is a tree of paths, the part files beside it. A client call is one step with an
answer; `Result` lets a call that failed, was cancelled or lost the connection have been
performed all the same, and another client may write between two calls. `call` is the provider
call in progress with its stage: an upload over an existing file is stat, part, rename, delete,
rename, and every way out of these; `pendingParts` is what `RemovePendingParts` tries again.
`cache` is the one listing a session keeps; that it expires after 30 s is a step that may happen
at any time. The engine's recursion over a tree is a stack of tasks (`todo`): each makes one
provider call and goes on with its answer, so that a retry, a reconnect, Skip, Skip all or Esc
can follow any call. `touched`, `stray`, `agreed`, `unseen` and `waived` are history: what the
session cannot know, part files whose removal was tried and failed, files the user agreed to
overwrite or that a failed or old listing hid. Left out: links, streams, byte progress,
attributes and times, `ProviderCopyAs`, and `MemoryProvider`, which only tests use. Each answer of
the client is taken to be that of the call it was given to: what `reply_one_behind` shows of the FTP
client, a reply taken for the next command's, is not composed with these modules, and their
properties say nothing of a session after it.

### ZipPanel
An archive is a function from paths to entries with bytes, a key and whether it is damaged;
a view is what one panel holds in memory. `Open`, `Reload`, the edits, `Leave` and the three
ends of quitting are one action each, as everything a plugin does runs to its end on the main
thread, the questions it asks included; the answers are chosen inside the action. A save asks
for a password that is not known, packs, and writes over the file: the write may fail and leave
`Broken`. Quitting asks the panels one by one (`QuitAsks`) and then closes all. Two panels on
one archive have copies of their own and overwrite each other's saves, as in the code.

### BatchRename
`BuildRenamePlan` gives each item a status, `OrderRenames` the steps, with a temporary name
where names swap; `RenameItems` executes them with retries, Skip all and Esc, and puts parked
items back; `DoGroupRename` then finds out from the folder's names what to tell the journal.
Names are compared through `Fold`. How masks, counters and case make the new names is left
out: any names may be wanted. A rename fails because a name is taken or gone, or for a reason
of its own (`MaxFaults`), and another program may add and remove names (`MaxOthers`).

### FtpClient
A call is a list of commands still to send and a place: sending, waiting for a reply, in the
body of a transfer, draining after ABOR. A reply is the number of the command it answers and a
kind of code; the client sees only the code. The server may answer, or not, refuse, complete a
transfer, send 120 first, answer ABOR once or twice, and go away between any two steps.
`NoReply` is every way out of a wait: the deadline, Esc, the socket closed. `gaveUp` is history:
a reply the server still owed was given up on while the connection stayed open. The bytes of
a transfer, reply texts and local files are abstracted.

## 3. The runs

| Run | Shows | Bounds and why they are enough |
|---|---|---|
| `operation_queue` | exclusion, order, and refinement of `ExclusiveJobs` | 3 jobs from 5 submissions: a third job is needed for overtaking (a waits for b's drive, c shares files with a); the submissions overlap through source, destination, containment and letter case |
| `job_worker` | the worker's safety, with every UI call in any order | 2 jobs, 2 prompts; the first job has two items and the second may be beside or behind it. Two jobs suffice for pair properties; with two prompts a slot can be stale |
| `job_worker_live` | a cancelled job ends, the destructor returns | 2 jobs, 1 prompt |
| `commander` | the loop's snapshots against moving workers, and the end of the wait | 2 jobs on one drive (the second waits for the first), 1 prompt, one foreground operation that meets a queued job's files |
| `file_transfer` | the engines and the undo of what they did | 2 names, folders of 2, 5 contents; one start on one volume with a link and a file that clashes with a folder, one on two volumes with a folder that cannot be listed and clashes below; 3 operations or undos (an operation, a second that spoils or follows it, an undo; or two undos), 1 fault, 1 write by another program, a journal of 2. 2.1 million states |
| `panel_upkeep` | sizes, listing and watch of one panel against its worker and other programs | 2 folders, the first with 1 name and the second with 2, slices of 1 name, a cache of 2 (so that a frame of a folder evicts), 1 change of another program (it may fall anywhere in a listing of two slices), 2 user operations (leave a folder and come back, show and hide content, switch sizes off and on), automatic refresh off or with the timer (which need not be due, so it covers the mode without), reading that fails at any point of any listing. 1.2 million states |
| `remote_move` | a move, copy or delete with a server at one end or both | 9 operations: two files of which one is there already, a folder merged into one, a folder into a free place; in all directions. 3 faults: a rename refused, a removal that fails and a connection lost are needed together to strand a part; 1 file of another client. 1.3 million states |
| `zip_panel` | two panels on one archive | a file, a folder, what is in it and a name that would be under a file; 3 edits, 1 failed write, 1 foreign change, 2 passwords; archives plain, with folder markers, encrypted, with two keys. 1.2 million states |
| `batch_rename` | every batch of up to 4 items with any new names | 4 names, one also in capitals, and 5 temporary names of which one may be taken: cycles of 2, 3 and 4, two swaps, chains, changes of case; 2 faults (a step fails and putting back fails), 1 change by another program |
| `ftp_client` | commands and replies in step, and every call ends | 5 commands sent: connecting, or a listing with a transfer and ABOR, and a call after it. 1 million states |
| `selection_leak`, `reply_one_behind` | each one statement of the repository that the code does not keep; see the findings | `MCPanelUpkeep`, and `MCFtpClient` with `OnlyAbortGivesUp`: the behaviours in which no reply is given up on but by `DrainAfterAbort` |

`MaxJobs` bounds the jobs ever enqueued, `MaxPrompts` the prompts ever opened. When
the prompts are used up the engines go on without asking, so no behaviour is cut off
and no liveness is gained except that the questions come to an end, which is what
"Skip all" or a finite list of items does in the code. The other bounds count what the
environment does: `MaxFaults`, `MaxOthers`, `MaxChanges`, and what the user does: `MaxOps`,
`MaxUserOps`, `MaxEdits`, `MaxBatch`, `MaxSent`.

`CHECK_DEADLOCK FALSE` is said where the system comes to rest: the queue when all jobs have
ended, `file_transfer` when its operations are used up, `remote_move` when the operation is over
and the session closed, `zip_panel` when the program has quit, `batch_rename` when the batch is
over, `ftp_client` when `MaxSent` commands have been sent. The worker, the loop and the
panel's upkeep are checked for deadlock; after the destructor the worker stutters (`Gone`).

### Fairness
`FairSpec` assumes weak fairness of each worker thread, of the section under the mutex
and of a UI call already begun: the operating system schedules threads and hands on
the mutex. Nothing is assumed of the user, and nothing of a transfer: a cancelled job
must end by its polls alone. `FairCommanderSpec` adds weak fairness of the loop
itself, of the user's answer to a dialog the loop is blocked in (`UserAnswers`: the
wait before quitting shows dialogs, and cannot end if nobody answers), and strong
fairness of `ItemDone`, since a file that is copied tick by tick gets done although
each tick leaves the state where it can end. `WaitEnds` needs the last two, the other
liveness properties do not.

`FtpClient` assumes weak fairness of the client's steps alone: each of its waits has a
deadline, so one of its ways out is always taken. Of the server nothing is assumed. That a
transfer's body ends is because data that keeps coming is finite, and that a command can
always be sent is because a control line fits the socket's buffer.

## 4. The properties

*Queue.* `FilesExclusive`: jobs at work never share files. `OneJobPerVolume`: nor a
drive they write to. `QueueOrderKept`: no overtaking on shared files. `KeepsPromise`:
refinement of `ExclusiveJobs`.

*Worker.* `WorkersExclusive`: the same about live threads rather than job states, so
that a state that changes too early or too late is noticed. `SomebodyRestarts`: a
queued job always has a live thread whose end restarts the queue. `PromptsMatchJobs`:
job list, prompt list and thread positions agree. `NoLostWakeup`: no thread sleeps
through what it waits for. `PauseShown`: shown state and token agree, also around a
question. `ResumeAllResumes`: after ResumeAll no live job is held, although jobs move
between its lock scopes. `UsesQueue`: the worker uses the queue within its protocol, which
carries the queue's theorems over. `CancelledJobEnds`, `ShutdownCompletes`: liveness without
the user.

*Loop.* `ForegroundMeetsOnlyQueued`: the most that holds of FOP-014: the UI thread's own
operation meets a worker on its files only if that job was queued when the check was
made. `NoAnswerWasted`: an answer given from a stale copy still finds its prompt, unless
the job was cancelled. `CancelReachesAll`: cancelling job by job from a copy leaves no job
running uncancelled. `WaitEnds`: the wait before quitting ends.

*Files and undo.* `NothingLost`: whatever fails, is retried, elevated, given up or undone,
every content the user did not agree to give up is on the disk or in the bin. A
clash answered with a typed name counts as agreement to replace what bears that name: the engine
does not ask again. What another program writes while an operation works is not
promised to anyone. `EveryItemCounted`: succeeded, skipped and failed add up to the items,
unless Esc or Cancel left some. `DoneMeansThere`: an item counted as copied or moved is at its
target with every file it had, links and unlistable folders excepted.
`UndoReversesOnlyItsOwn`: each item an undo takes away is at that moment exactly what the
operation left, although the user may look at the question for long and items of one
undo follow each other. `UndoRestores`: after a complete undo the places are as before
the operation. It leaves out operations in which a clash was answered with a typed name: that
name may be the place an earlier item of the same operation was just moved to, and then no undo
can be exact.

*Panels.* `ComputingIsMeasured`: a folder shown as being measured is the one the worker
measures; an entry left `Computing` by a cancel, an eviction or a new queue would never be
queued again. `OnlyUnwantedCancelled`: a cancel meant for one folder never stops the next.
`ChangeNoticed`: a watched panel that does not show its folder as it is has a refresh on its
way, with two exceptions the code has. A change (or the return of a volume) after a listing began
that was not an automatic refresh, and before the poll that takes note of it: the poll drains the
handle or arms it only then. And names that a listing left out because reading the folder failed:
nothing lists it again until something in it changes, which is noticed also if it is one of them.

*Remote panels.* `CacheTracksOwnChanges`: the cached listing agrees with the server about
everything the session itself did. `PartsRemembered`: a part file on the server is being
written, is remembered for removal, or its removal was tried and failed. `MoveKeepsContent`:
every file of a copy or move is complete somewhere whatever fails, unless an item
is moved onto a folder it is in. `SuccessMeansDone`: an
item counted as succeeded was copied in full and, when moved, is gone from its source but for
what another client put there. `OverwriteAsked`: nothing is written over without the user's
consent, unless a failed or old listing hid it; what a move takes away from its own source,
which inside one provider may lie in the target folder, is not meant.

*Archives.* `CleanViewIsOnDisk`: a panel without unsaved changes shows the file as it is.
`NoFileIsAFolder`: no edit puts an entry under a file. `UnsavedChangesKept`: changes leave
memory only into the file or with the user's consent, also when quitting asks two panels.
`EncryptedStaysEncrypted`: an encrypted archive is not written back plain.

*Batch rename.* `PlanCarriedOut`: an undisturbed batch gives every item its new name, whatever
names swap, cycle or change case. `NoneStranded`: after failures an item has its old name, its
new one, or is reported. `UndoRecordsRenamed`: the journal is told exactly what was renamed.

*FTP.* `RepliesInStep`: a command reads its own reply, unless one was given up on while the
connection stayed. `OkMeansDone`: a call that says Ok was carried out. `CallEnds`: every call
ends, whatever the server does or fails to do.

Every property has a mutant, a plausible slip in a mapped definition, under which TLC
finds it violated.

### What the violation runs show
1. `selection_leak`: the selection kept over an automatic refresh is put back by name when the
   listing is done, also if the panel was moved to another folder in between; entries with the
   same names are then selected there (`Panel.cpp:213-230`, against `Panel.h:115-118`).
2. `reply_one_behind`: when a cancelled transfer had ended by itself, its reply is the first answer
   that `DrainAfterAbort` reads, and if the one to ABOR takes longer than a second more it is left to
   be taken for the next command's (`FtpClient.cpp:406-429`, against `FtpClient.h:100-102`). The run
   leaves out the other ways to the same end, which no comment speaks of: Esc while a reply is waited
   for (`FtpClient.cpp:198-201`), and an active data connection that never comes
   (`FtpClient.cpp:447-453`).

### Disagreements met while modelling, without a run of their own
The models keep what the code does in each of these; the properties are stated so that they hold.

* `d:` and `D:` are two volumes to the queue (`OperationQueue.cpp:10, 96`, against
  `OperationQueue.h:33-35`). The runs of `OneJobPerVolume` and `WorkersExclusive` spell each drive in
  one way; for all spellings there is `WorkersNeverMeet` (section 5).
* A listing whose reading fails half-way ends without a message and without a mark on the panel
  (`Panel.cpp:317-320`), whereas `Panel.h:107-111` tells of two cases only: a path that could not be
  listed at all, which is marked, and an unreadable entry, which is marked as well.
* Cancelling a queued job frees the jobs behind it but starts none (`JobWorker.cpp:75`, against
  `OperationQueue.h:64-70`).
* The check before a foreground operation does not see queued jobs (`main.cpp:2833`,
  `OperationQueue.cpp:55`, against `src/AIPrompt/my-commander.md:1449`).
* The wait before quitting may end before the last job's failures were shown (`main.cpp:3444`,
  against `main.cpp:3346`); on a window too small to draw in F10 does not ask about jobs
  (`main.cpp:7544-7546`, against `src/README.md:867`).
* A permanent delete given up inside a folder, or a copy whose clash was answered with a new
  name, neither records nor clears the undo journal (`main.cpp:6959-6961, 5575-5578`, against
  `main.cpp:672-674`). The undo of a delete takes the newest thing in the bin with that path
  (`RecycleBin.cpp:261`, against `UndoJournal.h:79-80`).
* A row that is `Pending` when a frame replaces the queue is not queued again
  (`FolderSize.cpp:60, 162-176`, against `FolderSize.h:43-45`).
* An upload over an existing file deletes it before the part takes its name, and a failed second
  rename leaves neither (`RemotePanel.cpp:283-292`, against `RemotePanel.h:13-15, 265-266`). A
  failed `Stat` of the target counts as "not there" (`ProviderCopy.cpp:88-90`, against
  `ProviderCopy.h:11-12`).
* Inside one provider nothing refuses to move a folder onto one that it is in
  (`ProviderCopy.cpp:409-414` tests only the opposite). Moving `/a/a` to `/` when there is `/a`
  merges it into `/a` and then deletes `/a/a`, and with it what was copied from `/a/a/a` back to
  `/a/a`: the files in it are lost, although everything under the source was copied
  (`ProviderCopy.h:18-19`). `NothingOntoItsAncestor` leaves such jobs out of the runs; on an instance
  that has one TLC finds `MoveKeepsContent` violated without any failure.
* A parked item whose original name was taken keeps its `~mcren` name and is reported
  (`FileOps.cpp:621`). Labels after chains and swaps follow the names one by one
  (`main.cpp:665-670, 3645`).
* A reload that fails may have cleared the password (`ZipPlugin.cpp:1414-1415`); a damaged plain
  entry is lost at the next save (`ZipPlugin.cpp:1037`); two panels on one archive overwrite each
  other's saves (`ZipPlugin.cpp:979, 1473`).

## 5. The proofs

TLAPS proves, for every value of the constants, every safety and action property that a passing
run checks; the liveness properties are only model-checked.

* `CommanderProofs`, the queue. `QueueInv` is types, for every pair of jobs at work no overlap
  and different volume keys, and no started job with an earlier overlapping queued one. It is
  inductive because `NextToRun` re-establishes each pair for the job it starts and no other
  step starts one. From it follow `FilesAreExclusive`, `OrderIsKept` and, under the assumption
  that no drive is spelled in two ways (`RootsSpelledAlike`), `VolumesAreSerialized`; the
  assumption is needed, since the volume key is the drive as it was typed, and the code does not
  ensure it. The lemma that the
  code's overlap test agrees with `SharesFiles` rests on `IsSameOrInside` being a prefix test.
  `QueueKeepsPromise`: the initial state maps to the initial state and each step to a step or a
  stutter.
* `CommanderProofs`, the threads. Every step of the worker is a step of the queue or leaves it
  alone (`WorkerUsesQueue`), so the queue's theorems hold inside it (`WorkersKeepOrder`); that a
  thread is alive exactly while its job is active, with the place of the mutex's holder, gives
  `WorkersNeverMeet`: live workers share no files, and the roots they write to are not spelled alike,
  whatever is submitted. `WorkersAreExclusive`, that they do not write to the same drive, needs
  `RootsSpelledAlike` again, which the code does not ensure. `UsesQueue` needs this invariant: that a worker's `SetState` finds its
  job active is not visible in one step. `PausesAreShown` and `AllAreResumed` need that no job
  is held before it has started and that, while ResumeAll goes on, every held job is still on
  its list (`HeldInv`). `PromptsInStep` and `NoWakeupIsLost` hold together (`WaitInv`): a
  sleeper's own prompt is the only one with its job, so no other worker's question or answer
  changes what it waits for. `SomebodyIsLeft`: when StartRunnableLocked gives up, the first queued
  job is blocked, and by no earlier queued one, so by an active job, whose thread is alive;
  between two such points nothing is queued and no active job ends.
* `CommanderProofs`, the loop. Each step of the program is a step of the worker or leaves it alone
  (`CommanderUsesWorker`), for which the loop must call only what it may (it picks listed jobs,
  it leaves last); so the worker's theorems hold below the loop. `LoopInv` then says what each
  snapshot still is good for: prompts in `asked` are open or their job was cancelled, each
  pending job is in `doomed` or has been told, each job that uses the foreground's files was
  queued when the check was made. `ForegroundIsChecked`, `AnswersAreUsed` and `AllAreCancelled`
  are its three parts.
* `FileTransferProofs`, the engines, for any disk, requests, failures and writes of other programs.
  `EveryItemIsCounted`: `CountInv` adds the numbers at every other place of the loop (all past
  items between two, all but the present one within one) and that an idle user interface has
  none; every way in which an attempt can end is one of three (`Ends`), so the proof has one
  lemma per ending and one per action. `ContentsAreKept`: `TransferInv` adds the task and the
  item the loop is at (`OpInv`), a disk in order (`GoodInv`) and the walk over a folder
  (`WalkInv`); with it `KeptInv` says where each content not given up is, by what the operation
  may still take away: during a copy or a move of the item at work there is a place that neither
  the overwriting nor the removal of the source reaches. `DoneIsThere`: what the walk has passed
  is at the target (`CopiedInv`).
* `FileTransferProofs`, the undo, with `TransferInv` below. `UndoTouchesItsOwn`: what is left of an undo is as the
  operation left it until its turn comes (`UndoneInv`), because the items of one entry are at
  different places and the check was made again after the question. `UndoPutsBack`: `RestoreInv`
  follows an entry from the operation that made it to the undo that uses it. A move on its way has
  each part at one of two places (`MoveInv`, `WalkedInv`), what is thrown away is in the bin with
  this operation's time (`RecycleInv`), an entry states what was found (`JournalInv`) and stays
  true of the bin (`BinInv`), an undo counts only what it did (`TallyInv`), finds what its entry
  expects (`FoundInv`) and has put back what it counted (`BackInv`).
* `PanelUpkeepProofs`. `ChangesAreNoticed` speaks of panels whose listing is
  done; the invariant `NoticeInv` says for all others which of three things holds: what was read
  or left out by a failed read is as it is and the rest is still to be read (`Fresh`); content was
  shown in the folder's place, so that the next poll arms the watch anew and starts a burst; or a
  poll has taken note of the listing and what changed since is in the handle, the debouncer or the
  refresh (`Covered`). Each step of another program breaks the first only by establishing the third,
  or by the first of the two exceptions; the second is in what `Fresh` counts as read. That a volume
  may return needs that a handle which lost its volume has that to report (`Attached`).
  `OnlyUnwantedAreCancelled` needs only that a raised flag was raised since the worker took its
  folder. `ComputingHasWorker`: `SizesInv` says that the cache is one in which only the folder
  being measured is `Computing`. `Want` goes over the rows by a recursive function; that each of
  its values is such a cache is shown without an induction theorem, from the least row at which
  it would not be.
* `ZipPanelProofs`: `CleanViewsAreOnDisk`, `ChangesAreKept`, `SecretsStaySecret`. The invariant
  `ZipInv` adds to the first that a view which read the file knows whether it has encrypted
  entries, and that quitting has still to ask every panel with changes. `ChangesAreKept` assumes
  `ArchivesAreNotBroken`: what a panel packs is never the value that stands for a file that is no
  archive (TLC's instance uses a model value). `FoldersStayFolders`: each edit of a tree gives a
  tree (`TreeInv`), provided that the archives on disk are trees (`OnlyTrees`, which the run
  checks of its instance): the code takes an archive as it comes.
* `BatchRenameProofs`. `OrderIsSound` says what `OrderRenames` gives for any plan without problems:
  no step takes an item to a name that another one has and has still to leave; temporary names are
  free and each is used for one item; the steps of an item follow each other, one through a
  temporary name or none; every item of the batch is brought to its new name. The order is a
  recursive function of the number of steps given out; the invariant of `Advance` (`Orders`) says
  this of the part given out and the rest together, and what remains to be given out (`ToGo`:
  two for a pending item, one for a parked one) falls with each step, since a pass that gives out
  nothing parks the first item and the blocked item's name is then free. That every value of the
  function has the invariant is shown without an induction theorem, from the least one that has not.
  `BatchInvariant` follows the execution: where a step or a put-back takes its item from no other
  item of the folder is (`StepsInv`), each item has its first name, its new one, the one it is
  parked under, or is reported (`PlacesInv`), nothing is lost (`KeptInv`), nothing is parked when
  nothing is tangled (`UntangledInv`), and in a batch that nothing disturbs the next step of each
  item can be done (`CarriedInv`). `BatchCarriesOut`, `BatchStrandsNone` and `BatchRecordsRenamed`
  follow from it. `FolderAssumption` (a folder has a name in one spelling) and `TempAssumption` (the
  bound on the temporary names leaves a free one for each item, as the program, which counts on,
  always has) are needed, and TLC evaluates both.
* `FtpClientProofs`. `RepliesStayInStep`: `StepInv` says, for each place of a call,
  which commands the server has not answered, which transfer it is busy with and which replies are
  on the wire; a reply then can only be that of the command just sent. ABOR is the hard case: one
  answer or two, before or after the transfer ended by itself. `OkIsDone`: no reply on its way to a
  call says that something was done which was not (`Told`, in `DoneInv`).
* `ProviderCopyProofs`, for any trees, names and jobs and any number of failures and changes by
  another client. `SessionInv` has five parts: the tasks left are such that each may follow the
  one before it, and the call in progress is the current task's (`TaskInv`); both sides hold trees
  (`TreeInv`); what the cached listing says of a path is so, or the path is unknown to the session,
  or is the target an upload has just deleted (`CacheInv`); part files are accounted for
  (`UploadInv`); local sources and what was found of them are there (`LocalInv`). It gives `CacheIsTrue` and
  `PartsAreKnown`.
* `ProviderMoveProofs`, with `SessionInv` below, for the trees on both sides.
  `NothingUnasked` rests on `AskInv`: what a write or a rename is about to replace was given up
  by the user, was hidden by a listing, or is a copy of the source (`TargetInv`); for this the
  answers of Stat and List must be as good as they are relied upon (`AnswerInv`), everything be in
  a folder (`TidyInv`), what was staged be still on the server (`StageInv`), and each task be one
  of an item. It needs nothing of the jobs.
  `ContentIsKept` and `SuccessIsDone` rest on `MoveInv`, which says ahead of a step why what it
  takes away may go. While nothing of an item was skipped, every file under a source to be dropped
  is still to be copied or is safe, which means a copy where neither the deletion nor the write at
  work reaches it (`DropInv`); when the deletion begins everything under the item is safe and stays
  so (`DeleteInv`). So each file of the source is where it was and nothing is being written over
  it, or its content is under the target folder or was given up (`PlaceInv`). What a call reported as gone is gone
  (`GoneInv`): only another client can put something back. While the end of an item is to come and
  nothing was skipped, each of its files is at the target or one of the tasks left brings it
  (`CopiedInv`), and one of them takes away whatever is at its source (`TakenInv`). When the end is
  the next task only other items are left, so the item is finished when it is counted, and no
  other item's tasks reach what it did (`DoneInv`). Both theorems have the hypothesis
  `NothingOntoItsAncestor` (no item is moved onto a folder it is in, inside one provider): the code
  does not refuse such a move, and it loses files (see section 4). The run checks it of its
  instance.

Beside the modules' own `ASSUME`s, which TLC evaluates on every run, the theorems have four
named hypotheses: `RootsSpelledAlike`, `ArchivesAreNotBroken`, `OnlyTrees` and
`NothingOntoItsAncestor`, each said above where it is used; the runs check the last two of
their instances. Of the disks that `UndoJournal` starts from it is assumed that links are only
inside folders and at most one in each (all lead to one place), and of requests that the names
in one are distinct, as in a panel; of panels that names are finitely many.

Only model-checked are the liveness properties (`CancelledJobEnds`, `ShutdownCompletes`,
`WaitEnds`, `CallEnds`), since TLAPS proves no liveness under fairness and no ENABLED, and of
course what the violation runs refute.

## 6. Assumptions, and what is not modelled

Assumptions shared by the models: links make no cycles, a path names one file (no mount points or
short names), the program does not crash in the middle of a write (nothing in it recovers from
that; the operating system does), dialogs are modal, and a call into a plugin returns before the
loop goes on.

What could be added to the modelled parts: entries of the undo journal for attributes and new
items, `ProviderCopyAs` and links, packing and unpacking from the menu, a second panel in
`PanelUpkeep`, the elevated helper as a process.

Not modelled, with the reason also in `PROJECT.json`. Most of the repository is layout, dialogs,
key tables, viewers, formats and thin wrappers of Windows calls, and about as many lines again
are unit tests: one actor and no state that outlives a call.

| Part | Why |
|---|---|
| Reply and listing parsers, key map, menus, hints, help, viewers, dialogs, text diff | pure functions and screens of one actor; unit-tested |
| Zip encryption | cryptographic arithmetic, checked by test vectors |
| SFTP client | a synchronous wrapper of libssh2, which keeps requests and answers in step; the panel above it is `RemotePanel` |
| Network information plugin | detached threads fill a table of their own that only the display copies |
| Directory compare and synchronisation | pure functions from two listings to a plan, carried out by the file engines |
| Session, configuration, histories, favourites, labels, directory tree | text files and maps of one thread |
| Search, checks, secure delete, file actions | synchronous walks with a cancel poll |
| Plugin host, but for leaving a provider | loading DLLs and adapters of a C interface, on one thread |
| Setup, example plugin, vendored libraries | one-shot, sample or third-party code |
