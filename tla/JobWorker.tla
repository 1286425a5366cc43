------------------------------ MODULE JobWorker ------------------------------
(***************************************************************************)
(* Background jobs on worker threads (JobWorker.h/.cpp, PauseToken.cpp):   *)
(* the queue of OperationQueue.tla under mutex_, one thread per started    *)
(* job, the cancel flag and the pause token of each job, the prompts a     *)
(* worker waits on until the UI thread answers, and the destructor.  The   *)
(* file engines a worker calls are reduced to what the queue can see of    *)
(* them: the polls they make, the questions they ask, how an item ends.    *)
(***************************************************************************)
EXTENDS OperationQueue

CONSTANT MaxPrompts        \* bound: how many prompts are ever opened

ASSUME MaxPromptsAssumption == MaxPrompts \in Nat

VARIABLES
    cancel,                \* cancelFlags_[id]: an atomic<bool>
    paused,                \* pauseTokens_[id]: PauseToken::paused_
    threads,               \* threads_: the handles, by the job each one runs
    prompts,               \* prompts_: the open slots
    nextPromptSeq,         \* nextPromptSeq_
    shuttingDown,          \* shuttingDown_
    holder,                \* who holds mutex_ inside StartRunnableLocked
    pc,                    \* where each job's worker thread is
    item,                  \* the item its engine is at
    resumeAt,              \* where a cancel poll returns to
    result,                \* how the job would end, as RunJob knows it so far
    ui                     \* the UI thread's call that takes several lock scopes

tokenVars == <<cancel, paused>>
promptVars == <<prompts, nextPromptSeq>>
workVars == <<item, resumeAt, result>>
vars == <<queueVars, tokenVars, threads, promptVars, shuttingDown, holder, pc, workVars, ui>>

Nobody == 0              \* mutex_ is free
UiThread == MaxJobs + 1
Holders == {Nobody, UiThread} \cup JobIds

ConflictChoices == {"Overwrite", "Rename", "Skip", "Cancel"}
ErrorChoices == {"Retry", "Skip", "Cancel"}
PromptKinds == {"Conflict", "Error"}
NoAnswer == "none"

\* "asleep" is a thread inside cv_.wait; "await" is about to test its predicate.
ProgramPoints == {"none", "creating", "started", "nextItem", "poll", "pauseWait", "lastCheck",
                  "check", "attempt", "await", "asleep", "finish", "exiting", "exited"}
UiIdle == [call |-> "idle", left |-> {}]

Init ==
    /\ QueueInit
    /\ cancel = [j \in JobIds |-> FALSE]
    /\ paused = [j \in JobIds |-> FALSE]
    /\ threads = <<>>
    /\ prompts = {}
    /\ nextPromptSeq = 1
    /\ shuttingDown = FALSE
    /\ holder = Nobody
    /\ pc = [j \in JobIds |-> "none"]
    /\ item = [j \in JobIds |-> 1]
    /\ resumeAt = [j \in JobIds |-> "check"]
    /\ result = [j \in JobIds |-> "Done"]
    /\ ui = UiIdle

-----------------------------------------------------------------------------
(* Helpers. *)

MutexFree == holder = Nobody

\* cv_.notify_all(): every sleeper tests its predicate again.
\* A likely slip: nobody is told.
NotifyAllForgotten(points) == points
NotifyAll(points) ==
    [j \in JobIds |-> IF points[j] = "asleep" THEN "await" ELSE points[j]]

MoveTo(j, point) == pc' = [pc EXCEPT ![j] = point]

PromptOf(j) == CHOOSE p \in prompts : p.job = j

-----------------------------------------------------------------------------
(* StartRunnableLocked: runs to its end while mutex_ is held. *)

StartsThreads == ~shuttingDown

\* A likely slip: one job is started where several may.
NothingToStartAfterOne == TRUE
NothingToStart == \A j \in JobIds : ~MayStart(j)

StartNext(i) ==
    /\ ~MutexFree /\ StartsThreads
    /\ \A j \in JobIds : pc[j] # "creating"
    /\ NextToRun(i)
    /\ MoveTo(i, "creating")
    /\ UNCHANGED <<tokenVars, threads, promptVars, shuttingDown, holder, workVars, ui>>

\* CreateThread succeeds.
ThreadCreated(i) ==
    /\ pc[i] = "creating"
    /\ MoveTo(i, "started")
    /\ threads' = Append(threads, i)
    /\ UNCHANGED <<queueVars, tokenVars, promptVars, shuttingDown, holder, workVars, ui>>

\* CreateThread fails: the job ends without ever running.
ThreadNotCreated(i) ==
    /\ pc[i] = "creating"
    /\ MoveTo(i, "none")
    /\ Finish(i, "Failed")
    /\ UNCHANGED <<tokenVars, threads, promptVars, shuttingDown, holder, workVars, ui>>

\* Nothing more may start.  A finishing worker then notifies and returns.
StartDone ==
    /\ ~MutexFree
    /\ \A j \in JobIds : pc[j] # "creating"
    /\ StartsThreads => NothingToStart
    /\ holder' = Nobody
    /\ pc' = IF holder = UiThread THEN pc
             ELSE NotifyAll([pc EXCEPT ![holder] = "exited"])
    /\ UNCHANGED <<queueVars, tokenVars, threads, promptVars, shuttingDown, workVars, ui>>

-----------------------------------------------------------------------------
(* The UI thread's calls. *)

UiCalls == MutexFree /\ ui = UiIdle

EnqueueJob(d) ==
    /\ UiCalls
    /\ Enqueue(d)
    /\ holder' = UiThread
    /\ UNCHANGED <<tokenVars, threads, promptVars, shuttingDown, pc, workVars, ui>>

\* A queued job is erased; an active one is told to stop, and leaves its pause.
CancelQueuedJob(j) ==
    /\ UiCalls
    /\ CancelQueued(j)
    /\ UNCHANGED <<tokenVars, threads, promptVars, shuttingDown, holder, pc, workVars, ui>>

CancelActiveJob(j) ==
    /\ UiCalls
    /\ IsActive(state[j])
    /\ cancel' = [cancel EXCEPT ![j] = TRUE]
    /\ paused' = [paused EXCEPT ![j] = FALSE]
    /\ pc' = NotifyAll(pc)
    /\ UNCHANGED <<queueVars, threads, promptVars, shuttingDown, holder, workVars, ui>>

\* What Pause(id) and Resume(id) do to the job under the lock.
\* A likely slip: a job that has not started is paused.
PausableEvenQueued(j) == state[j] \in {"Running", "Queued"}
Pausable(j) == state[j] = "Running"

PauseJob(j) ==
    \/ /\ Pausable(j)
       /\ paused' = [paused EXCEPT ![j] = TRUE]
       /\ SetState(j, "Paused")
    \/ /\ state[j] = "WaitingForAnswer"
       /\ paused' = [paused EXCEPT ![j] = TRUE]
       /\ UNCHANGED queueVars
    \/ /\ ~Pausable(j) /\ state[j] # "WaitingForAnswer"
       /\ UNCHANGED <<paused, queueVars>>

ResumeJob(j) ==
    \/ /\ state[j] = "Paused"
       /\ paused' = [paused EXCEPT ![j] = FALSE]
       /\ SetState(j, "Running")
    \/ /\ state[j] = "WaitingForAnswer"
       /\ paused' = [paused EXCEPT ![j] = FALSE]
       /\ UNCHANGED queueVars
    \/ /\ state[j] \notin {"Paused", "WaitingForAnswer"}
       /\ UNCHANGED <<paused, queueVars>>

otherThanPause == <<cancel, threads, promptVars, shuttingDown, holder, pc, workVars>>

Pause(j) == UiCalls /\ PauseJob(j) /\ UNCHANGED <<otherThanPause, ui>>
Resume(j) == UiCalls /\ ResumeJob(j) /\ UNCHANGED <<otherThanPause, ui>>

\* PauseAll and ResumeAll: the ids are collected in one lock scope, then each
\* job is paused or resumed in one of its own, in the order of the list.
PauseAll ==
    /\ UiCalls
    /\ ui' = [call |-> "pauseAll",
              left |-> {j \in JobIds : \/ state[j] = "Running"
                                       \/ state[j] = "WaitingForAnswer" /\ ~paused[j]}]
    /\ UNCHANGED <<queueVars, paused, otherThanPause>>

\* A likely slip: a job waiting for an answer is not resumed with the others.
HeldJobsShownPaused == {j \in JobIds : state[j] = "Paused"}
HeldJobs == {j \in JobIds : \/ state[j] = "Paused"
                            \/ state[j] = "WaitingForAnswer" /\ paused[j]}

ResumeAll ==
    /\ UiCalls
    /\ ui' = [call |-> "resumeAll", left |-> HeldJobs]
    /\ UNCHANGED <<queueVars, paused, otherThanPause>>

\* The next id of the list.
AllStep(j) ==
    /\ MutexFree
    /\ j \in ui.left /\ \A k \in ui.left : j <= k
    /\ \/ ui.call = "pauseAll" /\ PauseJob(j)
       \/ ui.call = "resumeAll" /\ ResumeJob(j)
    /\ ui' = [ui EXCEPT !.left = @ \ {j}]
    /\ UNCHANGED otherThanPause

AllDone ==
    /\ ui.call \in {"pauseAll", "resumeAll"} /\ ui.left = {}
    /\ ui' = UiIdle
    /\ UNCHANGED <<queueVars, paused, otherThanPause>>

\* AnswerConflict / AnswerError with a slot's seq; any other seq changes nothing.
Answer(p, choice) ==
    /\ UiCalls
    /\ p.answer = NoAnswer
    /\ choice \in (IF p.kind = "Conflict" THEN ConflictChoices ELSE ErrorChoices)
    /\ prompts' = (prompts \ {p}) \cup {[p EXCEPT !.answer = choice]}
    /\ pc' = NotifyAll(pc)
    /\ UNCHANGED <<queueVars, tokenVars, threads, nextPromptSeq, shuttingDown, holder, workVars, ui>>

-----------------------------------------------------------------------------
(* The destructor. *)

Destroy ==
    /\ UiCalls
    /\ shuttingDown' = TRUE
    /\ cancel' = [j \in JobIds |-> j < nextId]
    /\ paused' = [j \in JobIds |-> FALSE]
    /\ pc' = NotifyAll(pc)
    /\ ui' = [call |-> "joining", left |-> {}]
    /\ UNCHANGED <<queueVars, threads, promptVars, holder, workVars>>

\* The last handle is taken off the list ...
TakeHandle ==
    /\ MutexFree
    /\ ui.call = "joining" /\ ui.left = {} /\ threads # <<>>
    /\ ui' = [ui EXCEPT !.left = {threads[Len(threads)]}]
    /\ threads' = SubSeq(threads, 1, Len(threads) - 1)
    /\ UNCHANGED <<queueVars, tokenVars, promptVars, shuttingDown, holder, pc, workVars>>

\* ... and waited for, without the lock.
Join(j) ==
    /\ ui.call = "joining" /\ j \in ui.left
    /\ pc[j] = "exited"
    /\ ui' = [ui EXCEPT !.left = {}]
    /\ UNCHANGED <<queueVars, tokenVars, threads, promptVars, shuttingDown, holder, pc, workVars>>

Destroyed ==
    /\ MutexFree
    /\ ui.call = "joining" /\ ui.left = {} /\ threads = <<>>
    /\ ui' = [call |-> "destroyed", left |-> {}]
    /\ UNCHANGED <<queueVars, tokenVars, threads, promptVars, shuttingDown, holder, pc, workVars>>

-----------------------------------------------------------------------------
(* A worker thread: RunJob and what it passes to the engines. *)

onlyPcMoves == <<queueVars, tokenVars, threads, promptVars, shuttingDown, holder, ui>>

\* RunJob fetches its flag and its token under the lock.
Begin(j) ==
    /\ pc[j] = "started" /\ MutexFree
    /\ MoveTo(j, "nextItem")
    /\ UNCHANGED <<onlyPcMoves, workVars>>

\* onItemStart publishes the progress, then polls; after the last item
\* RunJob publishes once more and ends.
NextItem(j) ==
    /\ pc[j] = "nextItem" /\ MutexFree
    /\ IF item[j] <= Len(jobs[j].sources)
       THEN MoveTo(j, "poll") /\ resumeAt' = [resumeAt EXCEPT ![j] = "check"]
       ELSE MoveTo(j, "finish") /\ UNCHANGED resumeAt
    /\ UNCHANGED <<onlyPcMoves, item, result>>

\* The engine reports outcome.cancelled.
StopCancelled(j) ==
    /\ MoveTo(j, "finish")
    /\ result' = [result EXCEPT ![j] = "Cancelled"]
    /\ UNCHANGED <<item, resumeAt>>

\* pausableCancel: the flag, then the pause (cancel ends it), then the flag.
Poll(j) ==
    /\ pc[j] = "poll"
    /\ IF cancel[j] THEN StopCancelled(j)
       ELSE MoveTo(j, "pauseWait") /\ UNCHANGED workVars
    /\ UNCHANGED onlyPcMoves

\* WaitWhilePaused looks at both, again and again.
\* A likely slip: it does not look at the cancel flag.
PauseEndsOnResumeOnly(j) == ~paused[j]
PauseEnds(j) == cancel[j] \/ ~paused[j]

PauseWait(j) ==
    /\ pc[j] = "pauseWait"
    /\ PauseEnds(j)
    /\ MoveTo(j, "lastCheck")
    /\ UNCHANGED <<onlyPcMoves, workVars>>

LastCheck(j) ==
    /\ pc[j] = "lastCheck"
    /\ IF cancel[j] THEN StopCancelled(j)
       ELSE MoveTo(j, resumeAt[j]) /\ UNCHANGED workVars
    /\ UNCHANGED onlyPcMoves

\* An item is over: done, skipped, or recorded as failed.
ItemOver(j, failed) ==
    /\ item' = [item EXCEPT ![j] = @ + 1]
    /\ result' = [result EXCEPT ![j] = IF failed THEN "Failed" ELSE @]
    /\ UNCHANGED resumeAt

\* AwaitConflict / AwaitError, up to the wait.
Ask(j, kind) ==
    /\ MutexFree
    /\ nextPromptSeq <= MaxPrompts
    /\ prompts' = prompts \cup {[seq |-> nextPromptSeq, job |-> j, kind |-> kind, answer |-> NoAnswer]}
    /\ nextPromptSeq' = nextPromptSeq + 1
    /\ SetState(j, "WaitingForAnswer")
    /\ pc' = NotifyAll([pc EXCEPT ![j] = "await"])
    /\ UNCHANGED <<tokenVars, threads, shuttingDown, holder, workVars, ui>>

\* Before the transfer: a name clash is asked about (not for a delete), a
\* refused item is recorded, or the transfer begins.
Check(j) ==
    /\ pc[j] = "check"
    /\ \/ jobs[j].kind # "Delete" /\ Ask(j, "Conflict")
       \/ MoveTo(j, "attempt") /\ UNCHANGED <<onlyPcMoves, workVars>>
       \/ MoveTo(j, "nextItem") /\ ItemOver(j, TRUE) /\ UNCHANGED onlyPcMoves

\* The transfer: a progress tick polls, an error is asked about, or it is over.
Tick(j) ==
    /\ pc[j] = "attempt"
    /\ MoveTo(j, "poll")
    /\ resumeAt' = [resumeAt EXCEPT ![j] = "attempt"]
    /\ UNCHANGED <<onlyPcMoves, item, result>>

AskError(j) == pc[j] = "attempt" /\ Ask(j, "Error")

ItemDone(j) ==
    /\ pc[j] = "attempt"
    /\ MoveTo(j, "nextItem")
    /\ ItemOver(j, FALSE)
    /\ UNCHANGED onlyPcMoves

\* The wait's predicate, and what follows when it holds.
\* A likely slip: the wait has no predicate, any notify ends it.
WakesUpOnAnyNotify(j) == TRUE
WakesUp(j) == shuttingDown \/ cancel[j] \/ PromptOf(j).answer # NoAnswer

AnswerGiven(j) == IF PromptOf(j).answer # NoAnswer THEN PromptOf(j).answer ELSE "Cancel"

FallAsleep(j) ==
    /\ pc[j] = "await" /\ MutexFree
    /\ ~WakesUp(j)
    /\ MoveTo(j, "asleep")
    /\ UNCHANGED <<onlyPcMoves, workVars>>

GoOnWith(j, choice) ==
    \/ choice \in {"Overwrite", "Rename", "Retry"} /\ MoveTo(j, "attempt") /\ UNCHANGED workVars
    \/ choice \in {"Overwrite", "Rename"} /\ MoveTo(j, "nextItem") /\ ItemOver(j, TRUE)
    \/ choice = "Skip" /\ MoveTo(j, "nextItem") /\ ItemOver(j, FALSE)
    \/ choice = "Cancel" /\ StopCancelled(j)

\* A likely slip: the job is Running again although it was paused meanwhile.
StateAfterAnswerForgetsPause(j) == "Running"
StateAfterAnswer(j) == IF paused[j] THEN "Paused" ELSE "Running"

\* A likely slip: the slot stays in the list.
RemovePromptForgotten(j) == prompts
RemovePrompt(j) == prompts \ {PromptOf(j)}

TakeAnswer(j) ==
    /\ pc[j] = "await" /\ MutexFree
    /\ WakesUp(j)
    /\ GoOnWith(j, AnswerGiven(j))
    /\ prompts' = RemovePrompt(j)
    /\ SetState(j, StateAfterAnswer(j))
    /\ UNCHANGED <<tokenVars, threads, nextPromptSeq, shuttingDown, holder, ui>>

\* The job ends; RunJob's locals go with it.
ForgetLocals(j) ==
    /\ item' = [item EXCEPT ![j] = 1]
    /\ resumeAt' = [resumeAt EXCEPT ![j] = "check"]
    /\ result' = [result EXCEPT ![j] = "Done"]

EndJob(j) ==
    /\ pc[j] = "finish" /\ MutexFree
    /\ Finish(j, result[j])
    /\ ForgetLocals(j)
    /\ MoveTo(j, "exiting")
    /\ holder' = j
    /\ UNCHANGED <<tokenVars, threads, promptVars, shuttingDown, ui>>

-----------------------------------------------------------------------------
(* The whole system. *)

WorkerStep(j) ==
    \/ Begin(j) \/ NextItem(j) \/ Poll(j) \/ PauseWait(j) \/ LastCheck(j)
    \/ Check(j) \/ Tick(j) \/ AskError(j) \/ ItemDone(j)
    \/ FallAsleep(j) \/ TakeAnswer(j) \/ EndJob(j)

StartStep ==
    \/ \E j \in JobIds : StartNext(j) \/ ThreadCreated(j) \/ ThreadNotCreated(j)
    \/ StartDone

\* What the user asks for, in any order.
UserCall ==
    \/ \E d \in Submissions : EnqueueJob(d)
    \/ \E j \in JobIds : CancelQueuedJob(j) \/ CancelActiveJob(j) \/ Pause(j) \/ Resume(j)
    \/ PauseAll \/ ResumeAll
    \/ \E p \in prompts, choice \in ConflictChoices \cup ErrorChoices : Answer(p, choice)
    \/ Destroy

\* A call the UI thread has begun goes on by itself.
UiStep ==
    \/ \E j \in JobIds : AllStep(j) \/ Join(j)
    \/ AllDone \/ TakeHandle \/ Destroyed

Gone == ui.call = "destroyed" /\ UNCHANGED vars

Next == (\E j \in JobIds : WorkerStep(j)) \/ StartStep \/ UserCall \/ UiStep \/ Gone

Spec == Init /\ [][Next]_vars

\* Threads are scheduled, mutex_ is handed on, and a begun call goes on.
\* Nothing is assumed of the user.
Fairness ==
    /\ \A j \in JobIds : WF_vars(WorkerStep(j))
    /\ WF_vars(StartStep)
    /\ WF_vars(UiStep)

FairSpec == Spec /\ Fairness

-----------------------------------------------------------------------------
(* What must hold. *)

Prompts == [seq : Nat \ {0}, job : JobIds, kind : PromptKinds,
            answer : {NoAnswer} \cup ConflictChoices \cup ErrorChoices]
UiCallNames == {"idle", "pauseAll", "resumeAll", "joining", "destroyed"}

WorkerTypeOK ==
    /\ cancel \in [JobIds -> BOOLEAN] /\ paused \in [JobIds -> BOOLEAN]
    /\ threads \in Seq(JobIds)
    /\ prompts \subseteq Prompts
    /\ nextPromptSeq \in Nat \ {0}
    /\ shuttingDown \in BOOLEAN
    /\ holder \in Holders
    /\ pc \in [JobIds -> ProgramPoints]
    /\ item \in [JobIds -> Nat \ {0}]
    /\ resumeAt \in [JobIds -> {"check", "attempt"}]
    /\ result \in [JobIds -> FinalStates]
    /\ ui \in [call : UiCallNames, left : SUBSET JobIds]

TypeOK == QueueTypeOK /\ WorkerTypeOK

\* Where a worker may be reading or writing its job's files.
Alive(j) == pc[j] \notin {"none", "exiting", "exited"}
Waits(j) == pc[j] \in {"await", "asleep"}

\* Two live worker threads never have jobs that share files or write to the
\* same drive -- across pauses, questions, cancels and shutdown (FOP-014).
WorkersExclusive ==
    \A j, k \in JobIds :
        j # k /\ Alive(j) /\ Alive(k) =>
            /\ ~SharesFiles(jobs[j], jobs[k])
            /\ WrittenDrive(jobs[j]) # WrittenDrive(jobs[k])

\* While a job is queued some worker is alive whose end starts the next ones:
\* the queue is never left with nobody to restart it (RunJob's last lines).
SomebodyRestarts ==
    MutexFree /\ ~shuttingDown /\ (\E j \in JobIds : state[j] = "Queued")
        => \E k \in JobIds : Alive(k)

\* The job list and the prompt list agree: a job shown as waiting for an
\* answer has exactly one open prompt, and any other job has none.
PromptsMatchJobs ==
    \A j \in JobIds :
        /\ state[j] = "WaitingForAnswer" <=> Waits(j)
        /\ Waits(j) <=> \E p \in prompts : p.job = j
        /\ \A p, q \in prompts : p.job = j /\ q.job = j => p = q

\* No worker sleeps on cv_ through the answer, the cancel or the shutdown it
\* waits for.
NoLostWakeup == \A j \in JobIds : pc[j] = "asleep" => ~WakesUp(j)

\* The state the job list shows and the token the worker polls agree: a job
\* shown as Running is not held, one shown as Paused is held or cancelled.
PauseShown ==
    \A j \in JobIds :
        /\ state[j] = "Running" => ~paused[j]
        /\ state[j] = "Paused" => paused[j] \/ cancel[j]

\* When ResumeAll returns no active job is left held, although the jobs go
\* on changing state between the two lock scopes (the wait before quitting
\* relies on it, ConfirmQuitWithJobs).
ResumeAllResumes ==
    [][ui.call = "resumeAll" /\ ui'.call = "idle"
         => \A j \in JobIds : Alive(j) => ~paused[j]]_vars

\* The worker and the UI use the queue only as OperationQueue allows: an
\* active job moves between the active states and ends once.
UsesQueue == QueueSpec

\* A cancelled job ends without any help from the user, even when it is
\* paused or waits for an answer ("cancel wins over a pause").
CancelledJobEnds == \A j \in JobIds : cancel[j] /\ Alive(j) ~> ~Alive(j)

\* The destructor joins every thread and returns.
ShutdownCompletes == shuttingDown ~> ui.call = "destroyed"
=============================================================================
