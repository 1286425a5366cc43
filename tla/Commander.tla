------------------------------ MODULE Commander ------------------------------
(***************************************************************************)
(* The UI thread (wmain's loop in main.cpp) beside the background jobs of  *)
(* JobWorker.tla: answering the jobs' prompts, noticing the jobs that      *)
(* ended, the job list, the file operations the UI thread runs itself, and *)
(* leaving while jobs are pending.  Every call into the worker is the      *)
(* worker's own action, so the loop adds only where the UI thread is, what *)
(* it remembers, and which snapshot it is working from.                    *)
(***************************************************************************)
EXTENDS JobWorker

CONSTANT ForegroundOps     \* the sets of paths an operation of the UI thread may touch

ASSUME ForegroundAssumption == \A paths \in ForegroundOps : paths # {} /\ paths \subseteq Paths

VARIABLES
    loop,                  \* where the UI thread is
    waiting,               \* inside the wait of ConfirmQuitWithJobs
    asked,                 \* the prompts of the snapshot still to be answered
    doomed,                \* the jobs of the snapshot still to be cancelled
    chosen,                \* the line picked in the job list, as it was drawn
    noticed,               \* jobs whose end PollBackgroundJobs has handled (JobsWatch::seen)
    foreground,            \* the paths the UI thread's own operation was checked for
    queuedThen             \* history: the jobs that were queued at that check

quitVars == <<waiting, doomed>>
fgVars == <<foreground, queuedThen>>
memory == <<asked, chosen, noticed, quitVars, fgVars>>
loopVars == <<loop, memory>>
commanderVars == <<vars, loopVars>>

LoopPoints == {"prompts", "asking", "poll", "input", "jobList", "picked", "confirmCancel",
               "fgConfirm", "fgWork", "quitAsk", "cancelling", "countJobs", "escape",
               "resolve", "leaving", "closed"}
NoChoice == [job |-> 0, state |-> "New"]

CommanderInit ==
    /\ Init
    /\ loop = "prompts"
    /\ waiting = FALSE
    /\ asked = {} /\ doomed = {}
    /\ chosen = NoChoice
    /\ noticed = {}
    /\ foreground = {} /\ queuedThen = {}

\* The jobs that have not ended (IsActiveJob counts the queued ones too).
\* A likely slip: only the started ones.
PendingStartedOnly == {j \in JobIds : IsActive(state[j])}
Pending == {j \in JobIds : IsActive(state[j]) \/ state[j] = "Queued"}

Listed == {j \in JobIds : state[j] \notin {"New", "Removed"}}

GoTo(point) == loop' = point
OnlyGoTo(point) == loop' = point /\ UNCHANGED memory

-----------------------------------------------------------------------------
(* One pass of the loop: ServiceJobPrompts, PollBackgroundJobs, a key. *)

\* PendingPrompts: the unanswered slots, copied under the lock.
TakePrompts ==
    /\ loop = "prompts" /\ UiCalls
    /\ asked' = {p \in prompts : p.answer = NoAnswer}
    /\ GoTo("asking")
    /\ UNCHANGED <<vars, chosen, noticed, quitVars, fgVars>>

\* A dialog for the next one; its answer goes to the slot with that number,
\* if it is still there.
AnswerNext(choice) ==
    \E p \in asked :
        /\ loop = "asking"
        /\ \A q \in asked : p.seq <= q.seq
        /\ \/ p \in prompts /\ Answer(p, choice)
           \/ p \notin prompts /\ UiCalls /\ UNCHANGED vars
        /\ asked' = asked \ {p}
        /\ UNCHANGED <<loop, chosen, noticed, quitVars, fgVars>>

AllAnswered ==
    /\ loop = "asking" /\ asked = {}
    /\ OnlyGoTo("poll")
    /\ UNCHANGED vars

\* Every job seen ended for the first time has its failures shown, its labels
\* moved and its panels refreshed.
PollBackgroundJobs ==
    /\ loop = "poll" /\ UiCalls
    /\ noticed' = noticed \cup {j \in JobIds : state[j] \in FinalStates}
    /\ GoTo(IF waiting THEN "escape" ELSE "input")
    /\ UNCHANGED <<vars, asked, chosen, quitVars, fgVars>>

\* No key within 16 ms.
NoKey ==
    /\ loop = "input"
    /\ OnlyGoTo("prompts")
    /\ UNCHANGED vars

\* Alt+F5, Alt+F6, Alt+F8.
QueueJob(d) ==
    /\ loop = "input"
    /\ EnqueueJob(d)
    /\ OnlyGoTo("prompts")

-----------------------------------------------------------------------------
(* ShowJobQueue. *)

OpenJobList ==
    /\ loop = "input"
    /\ OnlyGoTo("jobList")
    /\ UNCHANGED vars

\* The list is drawn from a copy; the user picks one of its lines.
PickJob(j) ==
    /\ loop = "jobList" /\ UiCalls
    /\ j \in Listed
    /\ chosen' = [job |-> j, state |-> state[j]]
    /\ GoTo("picked")
    /\ UNCHANGED <<vars, asked, noticed, quitVars, fgVars>>

LeaveJobList ==
    /\ loop = "jobList" /\ UiCalls
    /\ OnlyGoTo("prompts")
    /\ UNCHANGED vars

\* P: by the state that was drawn, not by the one the job has now.
KeyPause ==
    /\ loop = "picked"
    /\ IF chosen.state = "Paused" THEN Resume(chosen.job) ELSE Pause(chosen.job)
    /\ chosen' = NoChoice
    /\ GoTo("jobList")
    /\ UNCHANGED <<asked, noticed, quitVars, fgVars>>

\* A and R: for all jobs.
KeyAll ==
    /\ loop = "picked"
    /\ PauseAll \/ ResumeAll
    /\ chosen' = NoChoice
    /\ GoTo("jobList")
    /\ UNCHANGED <<asked, noticed, quitVars, fgVars>>

\* Enter or Del, on a job drawn as pending.
KeyCancel ==
    /\ loop = "picked"
    /\ IF chosen.state \in ActiveStates \cup {"Queued"}
       THEN GoTo("confirmCancel") /\ UNCHANGED chosen
       ELSE GoTo("prompts") /\ chosen' = NoChoice
    /\ UNCHANGED <<vars, asked, noticed, quitVars, fgVars>>

\* JobWorker::Cancel: of a queued job, of an active one, of one that has ended.
CancelJob(j) ==
    \/ CancelQueuedJob(j)
    \/ CancelActiveJob(j)
    \/ UiCalls /\ state[j] \notin ActiveStates \cup {"Queued"} /\ UNCHANGED vars

ConfirmCancel ==
    /\ loop = "confirmCancel"
    /\ CancelJob(chosen.job) \/ (UiCalls /\ UNCHANGED vars)
    /\ chosen' = NoChoice
    /\ GoTo("prompts")
    /\ UNCHANGED <<asked, noticed, quitVars, fgVars>>

-----------------------------------------------------------------------------
(* The UI thread's own operations: F5, F6, F8, rename, attributes. *)

\* RefuseIfBusyWithJob: refused while an active job uses one of the paths.
Foreground(paths) ==
    /\ loop = "input" /\ UiCalls
    /\ ~ActiveJobTouching(paths)
    /\ foreground' = paths
    /\ queuedThen' = {j \in JobIds : state[j] = "Queued"}
    /\ GoTo("fgConfirm")
    /\ UNCHANGED <<vars, asked, chosen, noticed, quitVars>>

\* What is asked after the check: may this be deleted, shall the folder be made.
ForegroundConfirmed ==
    /\ loop = "fgConfirm"
    /\ OnlyGoTo("fgWork")
    /\ UNCHANGED vars

ForegroundOver ==
    /\ loop \in {"fgConfirm", "fgWork"}
    /\ GoTo("prompts")
    /\ foreground' = {} /\ queuedThen' = {}
    /\ UNCHANGED <<vars, asked, chosen, noticed, quitVars>>

-----------------------------------------------------------------------------
(* Leaving. *)

\* F10: ConfirmQuitWithJobs asks when a job is pending.
KeyQuit ==
    /\ loop = "input" /\ UiCalls
    /\ OnlyGoTo(IF Pending = {} THEN "resolve" ELSE "quitAsk")
    /\ UNCHANGED vars

\* F10 on a window too small to draw in ends the loop by itself.
KeyQuitTooSmall ==
    /\ loop = "input"
    /\ OnlyGoTo("leaving")
    /\ UNCHANGED vars

\* A likely slip: the wait does not resume what is paused.
QuitWaitsAsItIs ==
    /\ loop = "quitAsk" /\ UiCalls
    /\ waiting' = TRUE
    /\ GoTo("countJobs")
    /\ UNCHANGED <<vars, asked, doomed, chosen, noticed, fgVars>>
QuitWaits ==
    /\ loop = "quitAsk"
    /\ ResumeAll
    /\ waiting' = TRUE
    /\ GoTo("countJobs")
    /\ UNCHANGED <<asked, doomed, chosen, noticed, fgVars>>

QuitCancels ==
    /\ loop = "quitAsk" /\ UiCalls
    /\ doomed' = Pending
    /\ GoTo("cancelling")
    /\ UNCHANGED <<vars, waiting, asked, chosen, noticed, fgVars>>

QuitStays ==
    /\ loop = "quitAsk"
    /\ OnlyGoTo("prompts")
    /\ UNCHANGED vars

\* The jobs of the copy are cancelled one by one, in the order of the list.
CancelNext ==
    \E j \in doomed :
        /\ loop = "cancelling"
        /\ \A k \in doomed : j <= k
        /\ CancelJob(j)
        /\ doomed' = doomed \ {j}
        /\ UNCHANGED <<loop, waiting, asked, chosen, noticed, fgVars>>

AllCancelled ==
    /\ loop = "cancelling" /\ doomed = {}
    /\ OnlyGoTo("resolve")
    /\ UNCHANGED vars

\* The wait: another pass while a job is pending ...
CountJobs ==
    /\ loop = "countJobs" /\ UiCalls
    /\ OnlyGoTo(IF Pending = {} THEN "resolve" ELSE "prompts")
    /\ UNCHANGED vars

\* ... and Esc cancels what is left.
PeekEscape ==
    /\ loop = "escape" /\ UiCalls
    /\ \/ GoTo("countJobs") /\ UNCHANGED <<waiting, doomed>>
       \/ GoTo("cancelling") /\ doomed' = Pending /\ waiting' = FALSE
    /\ UNCHANGED <<vars, asked, chosen, noticed, fgVars>>

\* ResolveProviderChangesBeforeQuit may keep the program running.
Resolve ==
    /\ loop = "resolve"
    /\ \/ GoTo("leaving") /\ UNCHANGED waiting
       \/ GoTo("prompts") /\ waiting' = FALSE
    /\ UNCHANGED <<vars, asked, doomed, chosen, noticed, fgVars>>

\* The worker is destroyed with wmain's locals.
Leave ==
    /\ loop = "leaving"
    /\ Destroy
    /\ OnlyGoTo("closed")

-----------------------------------------------------------------------------
(* The whole program. *)

\* The threads beside the loop, and the calls of the loop that take time.
WorkersMove ==
    /\ (\E j \in JobIds : WorkerStep(j)) \/ StartStep \/ UiStep \/ Gone
    /\ UNCHANGED loopVars

\* What the loop does by itself.
LoopStep ==
    \/ TakePrompts \/ AllAnswered \/ PollBackgroundJobs
    \/ CancelNext \/ AllCancelled \/ CountJobs \/ PeekEscape \/ Resolve \/ Leave

\* What the user does at a dialog or a key.
UserAnswers == \E choice \in ConflictChoices \cup ErrorChoices : AnswerNext(choice)

UserActs ==
    \/ NoKey \/ OpenJobList \/ LeaveJobList \/ KeyPause \/ KeyAll \/ KeyCancel \/ ConfirmCancel
    \/ \E j \in JobIds : PickJob(j)
    \/ \E d \in Submissions : QueueJob(d)
    \/ \E paths \in ForegroundOps : Foreground(paths)
    \/ ForegroundConfirmed \/ ForegroundOver
    \/ KeyQuit \/ KeyQuitTooSmall \/ QuitWaits \/ QuitCancels \/ QuitStays

CommanderNext == WorkersMove \/ LoopStep \/ UserAnswers \/ UserActs

CommanderSpec == CommanderInit /\ [][CommanderNext]_commanderVars

\* The threads run, the loop goes round, the user answers the dialogs the loop
\* is blocked in, and a transfer that is polled again and again gets done.
CommanderFairness ==
    /\ \A j \in JobIds : WF_commanderVars(WorkerStep(j) /\ UNCHANGED loopVars)
    /\ \A j \in JobIds : SF_commanderVars(ItemDone(j) /\ UNCHANGED loopVars)
    /\ WF_commanderVars(StartStep /\ UNCHANGED loopVars)
    /\ WF_commanderVars(UiStep /\ UNCHANGED loopVars)
    /\ WF_commanderVars(LoopStep)
    /\ WF_commanderVars(UserAnswers)

FairCommanderSpec == CommanderSpec /\ CommanderFairness

-----------------------------------------------------------------------------
(* What must hold. *)

UsesForegroundFiles(j) == \E p \in UsedPaths(jobs[j]), q \in foreground : SameTree(p, q)

\* FOP-014 as far as it holds: while the UI thread works on files, the only
\* worker it can meet there is one whose job was already queued when
\* RefuseIfBusyWithJob looked.
ForegroundMeetsOnlyQueued ==
    loop = "fgWork" =>
        \A j \in JobIds : Alive(j) /\ UsesForegroundFiles(j) => j \in queuedThen

\* No answer is thrown away: a prompt taken from the snapshot is still open
\* when the user has answered its dialog, whatever the workers did meanwhile,
\* unless its job had been cancelled.
NoAnswerWasted == loop = "asking" => \A p \in asked : p \in prompts \/ cancel[p.job]

\* "Cancel them and quit" and Esc in the wait reach every job, also those
\* that start while the others are being cancelled.
CancelReachesAll ==
    loop = "cancelling" /\ doomed = {} /\ MutexFree =>
        \A j \in JobIds : state[j] # "Queued" /\ (Alive(j) => cancel[j])

\* "Wait until they finish, then quit" comes to an end: no job is left paused,
\* none is left queued with nobody to start it.
WaitEnds == loop = "countJobs" ~> loop = "resolve"
=============================================================================
