--------------------------- MODULE CommanderProofs ---------------------------
(***************************************************************************)
(* Proofs about OperationQueue.tla, JobWorker.tla and Commander.tla, for    *)
(* any number of jobs and prompts, any submissions and any paths the UI     *)
(* thread works on.  First the queue by itself: its invariant, exclusion,   *)
(* order and what it promises.  Then the worker: exclusion among the jobs   *)
(* at work and, beyond it, that pauses are what the job list shows, that    *)
(* every question has its prompt and every sleeper its wake-up, and that    *)
(* the queue is never left with nobody to restart it.  Last the main loop:  *)
(* it calls the worker only as JobWorker.tla allows, so all that is proved  *)
(* of the worker holds beside the loop; what the loop remembers in its      *)
(* snapshots is added here.                                                 *)
(***************************************************************************)
EXTENDS Commander, TLAPS, SequenceTheorems, WellFoundedInduction

(* The queue by itself, for every set of submissions. *)

-----------------------------------------------------------------------------
(* The code's overlap test decides exactly "one path is on the way to the
   other, in any spelling". *)

LEMMA KeyFacts ==
    ASSUME NEW p \in Paths
    PROVE  /\ OverlapKey(p) \in Seq(Components)
           /\ Len(OverlapKey(p)) = Len(p)
           /\ \A i \in 1..Len(p) : OverlapKey(p)[i] = Fold[p[i]]
           /\ OverlapKey(p) # <<>>
           /\ Len(p) \in Nat \ {0}
  <1>1. p \in Seq(Components) /\ Len(p) \in Nat \ {0}
    BY DEF Paths
  <1>2. \A i \in 1..Len(p) : Fold[p[i]] \in Components
    BY <1>1, FoldAssumption
  <1>3. OverlapKey(p) \in Seq(Components) /\ Len(OverlapKey(p)) = Len(p)
    BY <1>1, <1>2 DEF OverlapKey
  <1> QED
    BY <1>1, <1>3 DEF OverlapKey

LEMMA LexicalTestIsSameTree ==
    ASSUME NEW p \in Paths, NEW q \in Paths
    PROVE  PathsOverlapLexically(p, q) <=> SameTree(p, q)
  <1>1. IsSameOrInside(OverlapKey(p), OverlapKey(q))
          <=> /\ Len(p) <= Len(q)
              /\ \A i \in 1..Len(p) : Fold[p[i]] = Fold[q[i]]
    BY KeyFacts DEF IsSameOrInside
  <1>2. IsSameOrInside(OverlapKey(q), OverlapKey(p))
          <=> /\ Len(q) <= Len(p)
              /\ \A i \in 1..Len(q) : Fold[p[i]] = Fold[q[i]]
    BY KeyFacts DEF IsSameOrInside
  <1>3. Len(p) \in Nat /\ Len(q) \in Nat
    BY KeyFacts
  <1>4. CASE Len(p) <= Len(q)
    <2>1. (1..Len(p)) \cap (1..Len(q)) = 1..Len(p)
      BY <1>3, <1>4
    <2> QED
      BY <1>1, <1>2, <1>3, <1>4, <2>1 DEF PathsOverlapLexically, SameTree
  <1>5. CASE Len(q) <= Len(p)
    <2>1. (1..Len(p)) \cap (1..Len(q)) = 1..Len(q)
      BY <1>3, <1>5
    <2> QED
      BY <1>1, <1>2, <1>3, <1>5, <2>1 DEF PathsOverlapLexically, SameTree
  <1> QED
    BY <1>3, <1>4, <1>5

LEMMA PathsOfSubmission ==
    ASSUME NEW d \in Submissions
    PROVE  JobPaths(d) = UsedPaths(d) /\ UsedPaths(d) \subseteq Paths
  <1>1. /\ d.sources \in Seq(Paths)
        /\ IF d.kind = "Delete" THEN d.destination = <<>> ELSE d.destination \in Paths
    BY SubmissionsAssumption
  <1>2. \A i \in 1..Len(d.sources) : d.sources[i] \in Paths
    BY <1>1
  <1> QED
    BY <1>1, <1>2 DEF JobPaths, UsedPaths, SourcePaths, Paths

LEMMA OverlapIsSharing ==
    ASSUME NEW d \in Submissions, NEW e \in Submissions
    PROVE  /\ JobsOverlap(d, e) <=> SharesFiles(d, e)
           /\ SharesFiles(d, e) <=> SharesFiles(e, d)
  <1>1. JobsOverlap(d, e) <=> SharesFiles(d, e)
    BY PathsOfSubmission, LexicalTestIsSameTree DEF JobsOverlap, SharesFiles
  <1>2. ASSUME NEW p \in Paths, NEW q \in Paths
        PROVE  SameTree(p, q) <=> SameTree(q, p)
    BY DEF SameTree
  <1>3. SharesFiles(d, e) <=> SharesFiles(e, d)
    BY <1>2, PathsOfSubmission DEF SharesFiles
  <1> QED
    BY <1>1, <1>3

-----------------------------------------------------------------------------
(* The inductive invariant. *)

\* Two active jobs have different volumes, as the code spells them.
VolumesExclusive ==
    \A j, k \in JobIds :
        j # k /\ AtWork(j) /\ AtWork(k) => Volume(jobs[j]) # Volume(jobs[k])

QueueInv == QueueTypeOK /\ FilesExclusive /\ VolumesExclusive /\ QueueOrderKept

LEMMA InitQueueInv == QueueInit => QueueInv
  <1> SUFFICES ASSUME QueueInit PROVE QueueInv
    OBVIOUS
  <1>1. \A j \in JobIds : state[j] = "New"
    BY DEF QueueInit
  <1>2. QueueTypeOK
    BY MaxJobsAssumption DEF QueueInit, QueueTypeOK, JobIds, JobStates
  <1> QED
    BY <1>1, <1>2 DEF QueueInv, FilesExclusive, VolumesExclusive, QueueOrderKept,
                      AtWork, HasStarted, ActiveStates, FinalStates

\* A job that may start conflicts with nothing that is active and with
\* nothing that was queued before it.
LEMMA MayStartIsClear ==
    ASSUME QueueTypeOK, NEW i \in JobIds, MayStart(i), NEW j \in JobIds, j # i
    PROVE  /\ AtWork(j) => /\ ~SharesFiles(jobs[i], jobs[j])
                           /\ ~SharesFiles(jobs[j], jobs[i])
                           /\ Volume(jobs[j]) # Volume(jobs[i])
           /\ state[j] = "Queued" /\ j < i => ~SharesFiles(jobs[j], jobs[i])
  <1>1. ~Blocked(i) /\ jobs[i] \in Submissions
    BY DEF MayStart, QueueTypeOK
  <1>2. AtWork(j) \/ state[j] = "Queued" => jobs[j] \in Submissions
    BY DEF QueueTypeOK, AtWork, ActiveStates
  <1>3. AtWork(j) => Volume(jobs[j]) # Volume(jobs[i]) /\ ~JobsOverlap(jobs[i], jobs[j])
    BY <1>1 DEF Blocked, IsActive, AtWork
  <1>4. state[j] = "Queued" /\ j < i => ~JobsOverlap(jobs[i], jobs[j])
    BY <1>1 DEF Blocked
  <1> QED
    BY <1>1, <1>2, <1>3, <1>4, OverlapIsSharing

LEMMA NextQueueInv == QueueInv /\ [QueueNext]_queueVars => QueueInv'
  <1> SUFFICES ASSUME QueueInv, [QueueNext]_queueVars PROVE QueueInv'
    OBVIOUS
  <1> USE DEF QueueInv
  <1>1. ASSUME NEW d \in Submissions, Enqueue(d)
        PROVE  QueueInv'
    <2>1. /\ nextId \in JobIds /\ state[nextId] = "New"
          /\ \A j \in JobIds : nextId <= j => state[j] = "New"
      BY <1>1 DEF Enqueue, QueueTypeOK, JobIds
    <2>2. \A j \in JobIds : /\ j # nextId => state'[j] = state[j] /\ jobs'[j] = jobs[j]
                            /\ j = nextId => state'[j] = "Queued" /\ jobs'[j] = d
      BY <1>1 DEF Enqueue, QueueTypeOK
    <2>3. QueueTypeOK'
      BY <1>1, <2>1, <2>2 DEF Enqueue, QueueTypeOK, JobIds, JobStates
    <2>4. \A j \in JobIds : AtWork(j)' => AtWork(j) /\ j # nextId
      BY <2>2 DEF AtWork, ActiveStates
    <2>5. FilesExclusive' /\ VolumesExclusive'
      BY <2>2, <2>4 DEF FilesExclusive, VolumesExclusive, AtWork
    <2>6. QueueOrderKept'
      <3> SUFFICES ASSUME NEW j \in JobIds, NEW k \in JobIds, j < k,
                          SharesFiles(jobs[j], jobs[k])', HasStarted(k)'
                   PROVE  state'[j] # "Queued"
        BY DEF QueueOrderKept
      <3>1. k # nextId /\ HasStarted(k)
        BY <2>2 DEF HasStarted, AtWork, ActiveStates, FinalStates
      <3>2. j # nextId
        BY <2>1, <3>1 DEF JobIds, HasStarted, AtWork, ActiveStates, FinalStates
      <3> QED
        BY <2>2, <3>1, <3>2 DEF QueueOrderKept
    <2> QED
      BY <2>3, <2>5, <2>6
  <1>2. ASSUME NEW i \in JobIds, CancelQueued(i)
        PROVE  QueueInv'
    <2>1. \A j \in JobIds : /\ jobs'[j] = jobs[j]
                            /\ j # i => state'[j] = state[j]
                            /\ j = i => state'[j] = "Removed"
      BY <1>2 DEF CancelQueued, QueueTypeOK
    <2>2. QueueTypeOK'
      BY <1>2 DEF CancelQueued, QueueTypeOK, JobStates
    <2>3. FilesExclusive' /\ VolumesExclusive' /\ QueueOrderKept'
      BY <2>1 DEF FilesExclusive, VolumesExclusive, QueueOrderKept, AtWork, HasStarted,
                  ActiveStates, FinalStates
    <2> QED
      BY <2>2, <2>3
  <1>3. ASSUME NEW i \in JobIds, NextToRun(i)
        PROVE  QueueInv'
    <2>1. \A j \in JobIds : /\ jobs'[j] = jobs[j]
                            /\ j # i => state'[j] = state[j]
                            /\ j = i => state'[j] = "Running"
      BY <1>3 DEF NextToRun, QueueTypeOK
    <2>2. MayStart(i) /\ state[i] = "Queued"
      BY <1>3 DEF NextToRun, MayStart
    <2>3. QueueTypeOK'
      BY <1>3, <2>2 DEF NextToRun, QueueTypeOK, JobStates, ActiveStates
    <2>4. \A j \in JobIds : j # i => (AtWork(j)' <=> AtWork(j)) /\ (HasStarted(j)' <=> HasStarted(j))
      BY <2>1 DEF AtWork, HasStarted
    <2>5. FilesExclusive'
      BY <2>1, <2>2, <2>4, MayStartIsClear DEF FilesExclusive
    <2>6. VolumesExclusive'
      BY <2>1, <2>2, <2>4, MayStartIsClear DEF VolumesExclusive
    <2>7. QueueOrderKept'
      BY <2>1, <2>2, <2>4, MayStartIsClear DEF QueueOrderKept, JobIds
    <2> QED
      BY <2>3, <2>5, <2>6, <2>7
  <1>4. ASSUME NEW i \in JobIds, IsActive(state[i]),
               NEW s \in ActiveStates \cup FinalStates, SetState(i, s)
        PROVE  QueueInv'
    <2>1. \A j \in JobIds : /\ jobs'[j] = jobs[j]
                            /\ j # i => state'[j] = state[j]
                            /\ j = i => state'[j] = s
      BY <1>4 DEF SetState, QueueTypeOK
    <2>2. QueueTypeOK'
      BY <1>4 DEF SetState, QueueTypeOK, JobStates, IsActive, ActiveStates, FinalStates
    <2>3. \A j \in JobIds : (AtWork(j)' => AtWork(j)) /\ (HasStarted(j)' => HasStarted(j))
      BY <1>4, <2>1 DEF AtWork, HasStarted, IsActive
    <2>4. \A j \in JobIds : state'[j] = "Queued" => state[j] = "Queued"
      BY <1>4, <2>1 DEF ActiveStates, FinalStates
    <2> QED
      BY <2>1, <2>2, <2>3, <2>4 DEF FilesExclusive, VolumesExclusive, QueueOrderKept
  <1>5. CASE UNCHANGED queueVars
    BY <1>5 DEF queueVars, QueueTypeOK, FilesExclusive, VolumesExclusive, QueueOrderKept,
                AtWork, HasStarted
  <1> QED
    BY <1>1, <1>2, <1>3, <1>4, <1>5 DEF QueueNext, Finish

THEOREM QueueInvariant == QueueSpec => []QueueInv
  BY InitQueueInv, NextQueueInv, PTL DEF QueueSpec

\* Jobs that are running, waiting for an answer or paused never share files,
\* whatever is submitted.
THEOREM FilesAreExclusive == QueueSpec => []FilesExclusive
  BY QueueInvariant, PTL DEF QueueInv

\* Jobs on the same files start in the order they were queued.
THEOREM OrderIsKept == QueueSpec => []QueueOrderKept
  BY QueueInvariant, PTL DEF QueueInv

LEMMA VolumesOfQueueInv ==
    ASSUME RootsSpelledAlike, QueueInv
    PROVE  OneJobPerVolume
  <1> SUFFICES ASSUME NEW j \in JobIds, NEW k \in JobIds, j # k, AtWork(j), AtWork(k)
               PROVE  WrittenDrive(jobs[j]) # WrittenDrive(jobs[k])
    BY DEF OneJobPerVolume
  <1>1. jobs[j] \in Submissions /\ jobs[k] \in Submissions
    BY DEF QueueInv, QueueTypeOK, AtWork, ActiveStates
  <1>2. ASSUME NEW d \in Submissions
        PROVE  WrittenDrive(d) = Fold[Volume(d)]
    BY <1>2, SubmissionsAssumption DEF WrittenDrive, Volume, VolumeKey, Paths
  <1>3. Volume(jobs[j]) # Volume(jobs[k])
    BY DEF QueueInv, VolumesExclusive
  <1> QED
    BY <1>1, <1>2, <1>3 DEF RootsSpelledAlike

\* Rule D1 holds when no drive is spelled in two ways: Volume compares the
\* destination's drive as it was typed.
THEOREM VolumesAreSerialized ==
    ASSUME RootsSpelledAlike
    PROVE  QueueSpec => []OneJobPerVolume
  <1>1. QueueInv => OneJobPerVolume
    BY VolumesOfQueueInv
  <1> QED
    BY <1>1, QueueInvariant, PTL

-----------------------------------------------------------------------------
(* The queue implements ExclusiveJobs. *)

LEMMA PromiseInit == QueueInit => Promise!Init
  <1>1. QueueInit => [j \in JobIds |-> StatusOf(state[j])] = [j \in JobIds |-> "absent"]
    BY DEF QueueInit, StatusOf
  <1> QED
    BY <1>1 DEF QueueInit, Promise!Init

LEMMA PromiseStep ==
    QueueTypeOK /\ [QueueNext]_queueVars => [Promise!Next]_(Promise!abstractVars)
  <1> DEFINE st == [j \in JobIds |-> StatusOf(state[j])]
  <1> SUFFICES ASSUME QueueTypeOK, [QueueNext]_queueVars
               PROVE  Promise!Next \/ (jobs' = jobs /\ st' = st)
    BY DEF Promise!abstractVars
  <1>0. \A j \in JobIds : st[j] = StatusOf(state[j]) /\ st'[j] = StatusOf(state'[j])
    OBVIOUS
  <1>1. ASSUME NEW d \in Submissions, Enqueue(d)
        PROVE  Promise!Next
    <2>1. nextId \in JobIds /\ state[nextId] = "New"
      BY <1>1 DEF Enqueue, QueueTypeOK, JobIds
    <2>2. \A k \in JobIds : st[k] # "absent" => k < nextId
      BY <2>1 DEF QueueTypeOK, StatusOf, JobIds
    <2>3. st' = [st EXCEPT ![nextId] = "waiting"]
      BY <1>1 DEF Enqueue, QueueTypeOK, StatusOf
    <2>4. Promise!Submit(nextId, d)
      BY <1>1, <2>1, <2>2, <2>3 DEF Promise!Submit, Enqueue, StatusOf
    <2> QED
      BY <2>1, <2>4 DEF Promise!Next
  <1>2. ASSUME NEW i \in JobIds, CancelQueued(i)
        PROVE  Promise!Next
    <2>1. st' = [st EXCEPT ![i] = "over"] /\ st[i] = "waiting"
      BY <1>2 DEF CancelQueued, QueueTypeOK, StatusOf, ActiveStates
    <2> QED
      BY <1>2, <2>1 DEF CancelQueued, Promise!Next, Promise!Drop
  <1>3. ASSUME NEW i \in JobIds, NextToRun(i)
        PROVE  Promise!Next
    <2>1. st' = [st EXCEPT ![i] = "atWork"] /\ st[i] = "waiting"
      BY <1>3 DEF NextToRun, MayStart, QueueTypeOK, StatusOf, ActiveStates
    <2>2. MayStart(i) /\ jobs' = jobs
      BY <1>3 DEF NextToRun
    <2>3. ASSUME NEW k \in JobIds \ {i}
          PROVE  /\ st[k] = "atWork" =>
                      /\ ~SharesFiles(jobs[i], jobs[k])
                      /\ Volume(jobs[i]) # Volume(jobs[k])
                 /\ st[k] = "waiting" /\ k < i => ~SharesFiles(jobs[i], jobs[k])
      <3>1. /\ st[k] = "atWork" => AtWork(k)
            /\ st[k] = "waiting" => state[k] = "Queued"
        BY <1>0 DEF StatusOf, AtWork
      <3>2. jobs[i] \in Submissions /\ (AtWork(k) \/ state[k] = "Queued" => jobs[k] \in Submissions)
        BY <2>2 DEF MayStart, QueueTypeOK, AtWork, ActiveStates
      <3> QED
        BY <2>2, <3>1, <3>2, MayStartIsClear, OverlapIsSharing
    <2>4. Promise!Begin(i)
      BY <2>1, <2>2, <2>3 DEF Promise!Begin
    <2> QED
      BY <2>4 DEF Promise!Next
  <1>4. ASSUME NEW i \in JobIds, IsActive(state[i]), NEW s \in ActiveStates, SetState(i, s)
        PROVE  jobs' = jobs /\ st' = st
    <2>1. \A j \in JobIds : StatusOf(state'[j]) = StatusOf(state[j])
      BY <1>4 DEF SetState, IsActive, StatusOf, QueueTypeOK, ActiveStates
    <2> QED
      BY <1>4, <2>1 DEF SetState
  <1>5. ASSUME NEW i \in JobIds, IsActive(state[i]), NEW s \in FinalStates, SetState(i, s)
        PROVE  Promise!Next
    <2>1. st' = [st EXCEPT ![i] = "over"] /\ st[i] = "atWork"
      BY <1>5 DEF SetState, IsActive, StatusOf, QueueTypeOK, ActiveStates, FinalStates
    <2> QED
      BY <1>5, <2>1 DEF SetState, Promise!Next, Promise!End
  <1>6. CASE UNCHANGED queueVars
    BY <1>6 DEF queueVars
  <1> QED
    BY <1>1, <1>2, <1>3, <1>4, <1>5, <1>6 DEF QueueNext, Finish

\* Every behaviour of the queue is a behaviour of ExclusiveJobs.
THEOREM QueueKeepsPromise == QueueSpec => KeepsPromise
  <1>1. QueueInv => QueueTypeOK
    BY DEF QueueInv
  <1> QED
    BY <1>1, PromiseInit, PromiseStep, QueueInvariant, PTL
       DEF QueueSpec, KeepsPromise, Promise!Spec

-----------------------------------------------------------------------------
(* The worker: its steps are the queue's. *)

-----------------------------------------------------------------------------
(* The core of the inductive invariant: a job is active in the queue exactly
   while a thread of its own is alive, and mutex_ is held only by the UI
   thread or by a worker on its way out. *)

AliveIsActive == \A j \in JobIds : Alive(j) <=> AtWork(j)

EndedIsFinal == \A j \in JobIds : pc[j] \in {"exiting", "exited"} => state[j] \in FinalStates

HolderOK ==
    \A j \in JobIds :
        /\ pc[j] = "exiting" <=> holder = j
        /\ pc[j] = "creating" => ~MutexFree

CoreInv == QueueInv /\ WorkerTypeOK /\ AliveIsActive /\ EndedIsFinal /\ HolderOK

LEMMA InitCoreInv == Init => CoreInv
  <1> SUFFICES ASSUME Init PROVE CoreInv
    OBVIOUS
  <1>1. QueueInv
    BY InitQueueInv DEF Init
  <1>2. \A j \in JobIds : state[j] = "New" /\ pc[j] = "none"
    BY DEF Init, QueueInit
  <1>3. WorkerTypeOK
    <2>1. cancel \in [JobIds -> BOOLEAN] /\ paused \in [JobIds -> BOOLEAN]
      BY Zenon DEF Init
    <2>2. /\ threads \in Seq(JobIds) /\ prompts \subseteq Prompts /\ nextPromptSeq \in Nat \ {0}
          /\ item \in [JobIds -> Nat \ {0}]
      BY DEF Init
    <2>3. shuttingDown \in BOOLEAN /\ holder \in Holders
      BY DEF Init, Holders
    <2>4. pc \in [JobIds -> ProgramPoints]
      BY DEF Init, ProgramPoints
    <2>5. resumeAt \in [JobIds -> {"check", "attempt"}] /\ result \in [JobIds -> FinalStates]
      BY DEF Init, FinalStates
    <2>6. ui \in [call : UiCallNames, left : SUBSET JobIds]
      BY DEF Init, UiIdle, UiCallNames
    <2> QED
      BY <2>1, <2>2, <2>3, <2>4, <2>5, <2>6 DEF WorkerTypeOK
  <1>4. \A j \in JobIds : holder # j
    BY DEF Init, Nobody, JobIds
  <1> QED
    BY <1>1, <1>2, <1>3, <1>4
       DEF CoreInv, AliveIsActive, EndedIsFinal, HolderOK, Alive, AtWork, ActiveStates

-----------------------------------------------------------------------------
(* Every step of the workers and of the UI thread is a step of the queue. *)

LEMMA CoreQueueStep == CoreInv /\ [Next]_vars => [QueueNext]_queueVars
  <1> SUFFICES ASSUME CoreInv, [Next]_vars PROVE QueueNext \/ UNCHANGED queueVars
    OBVIOUS
  <1>a. \A j \in JobIds : Alive(j) => IsActive(state[j])
    BY DEF CoreInv, AliveIsActive, AtWork, IsActive
  <1>b. ASSUME NEW j \in JobIds, Alive(j), NEW s \in ActiveStates \cup FinalStates, SetState(j, s)
        PROVE  QueueNext
    BY <1>a, <1>b DEF QueueNext, Finish
  <1>c. ASSUME NEW j \in JobIds, NEW kind, pc[j] \in {"check", "attempt"}, Ask(j, kind)
        PROVE  QueueNext
    BY <1>b, <1>c DEF Ask, Alive, ActiveStates
  <1>1. ASSUME NEW j \in JobIds, WorkerStep(j)
        PROVE  QueueNext \/ UNCHANGED queueVars
    <2>1. CASE Begin(j) \/ NextItem(j) \/ Poll(j) \/ PauseWait(j) \/ LastCheck(j) \/ Tick(j)
               \/ ItemDone(j) \/ FallAsleep(j)
      BY <2>1 DEF Begin, NextItem, Poll, PauseWait, LastCheck, Tick, ItemDone, FallAsleep, onlyPcMoves
    <2>2. CASE Check(j)
      <3>1. Ask(j, "Conflict") \/ UNCHANGED onlyPcMoves
        BY <2>2 DEF Check
      <3>2. Ask(j, "Conflict") => QueueNext
        BY <2>2, <1>c DEF Check
      <3> QED
        BY <3>1, <3>2 DEF onlyPcMoves
    <2>3. CASE AskError(j)
      BY <2>3, <1>c DEF AskError
    <2>4. CASE TakeAnswer(j)
      BY <2>4, <1>b DEF TakeAnswer, StateAfterAnswer, Alive, ActiveStates
    <2>5. CASE EndJob(j)
      <3>1. result[j] \in FinalStates /\ Alive(j)
        BY <2>5 DEF EndJob, CoreInv, WorkerTypeOK, Alive
      <3> QED
        BY <2>5, <3>1, <1>b DEF EndJob, Finish
    <2> QED
      BY <1>1, <2>1, <2>2, <2>3, <2>4, <2>5 DEF WorkerStep
  <1>2. CASE StartStep
    <2>1. ASSUME NEW i \in JobIds, StartNext(i) PROVE QueueNext
      BY <2>1 DEF StartNext, QueueNext
    <2>2. ASSUME NEW i \in JobIds, ThreadNotCreated(i) PROVE QueueNext
      BY <2>2, <1>b DEF ThreadNotCreated, Finish, Alive, FinalStates
    <2>3. ASSUME NEW i \in JobIds, ThreadCreated(i) PROVE UNCHANGED queueVars
      BY <2>3 DEF ThreadCreated
    <2>4. CASE StartDone
      BY <2>4 DEF StartDone
    <2> QED
      BY <1>2, <2>1, <2>2, <2>3, <2>4 DEF StartStep
  <1>d. ASSUME NEW j \in JobIds, PauseJob(j) \/ ResumeJob(j)
        PROVE  QueueNext \/ UNCHANGED queueVars
    <2>1. ASSUME state[j] \in {"Running", "Paused"}, NEW s \in ActiveStates, SetState(j, s)
          PROVE  QueueNext
      BY <2>1 DEF QueueNext, IsActive, ActiveStates
    <2> QED
      BY <1>d, <2>1 DEF PauseJob, ResumeJob, Pausable, ActiveStates
  <1>3. CASE UserCall
    <2>1. ASSUME NEW d \in Submissions, EnqueueJob(d) PROVE QueueNext
      BY <2>1 DEF EnqueueJob, QueueNext
    <2>2. ASSUME NEW j \in JobIds, CancelQueuedJob(j) PROVE QueueNext
      BY <2>2 DEF CancelQueuedJob, QueueNext
    <2>3. ASSUME NEW j \in JobIds, Pause(j) \/ Resume(j)
          PROVE  QueueNext \/ UNCHANGED queueVars
      BY <2>3, <1>d DEF Pause, Resume
    <2>4. ASSUME \/ \E j \in JobIds : CancelActiveJob(j)
                 \/ PauseAll \/ ResumeAll \/ Destroy
                 \/ \E p \in prompts, choice \in ConflictChoices \cup ErrorChoices : Answer(p, choice)
          PROVE  UNCHANGED queueVars
      BY <2>4 DEF CancelActiveJob, PauseAll, ResumeAll, Destroy, Answer
    <2> QED
      BY <1>3, <2>1, <2>2, <2>3, <2>4 DEF UserCall
  <1>4. CASE UiStep
    <2>1. ASSUME NEW j \in JobIds, AllStep(j)
          PROVE  QueueNext \/ UNCHANGED queueVars
      BY <2>1, <1>d DEF AllStep
    <2> QED
      BY <1>4, <2>1 DEF UiStep, Join, AllDone, TakeHandle, Destroyed
  <1>5. CASE Gone \/ UNCHANGED vars
    BY <1>5 DEF Gone, vars
  <1> QED
    BY <1>1, <1>2, <1>3, <1>4, <1>5 DEF Next

-----------------------------------------------------------------------------
(* The core invariant is preserved. *)

ThreadInv == AliveIsActive /\ EndedIsFinal /\ HolderOK

\* Points a worker moves between while its job is active.
BusyPoints == {"started", "nextItem", "poll", "pauseWait", "lastCheck",
               "check", "attempt", "await", "asleep", "finish"}

LEMMA NotifyFacts ==
    ASSUME NEW f \in [JobIds -> ProgramPoints]
    PROVE  /\ NotifyAll(f) \in [JobIds -> ProgramPoints]
           /\ \A j \in JobIds : /\ f[j] = "asleep" => NotifyAll(f)[j] = "await"
                                /\ f[j] # "asleep" => NotifyAll(f)[j] = f[j]
  BY DEF NotifyAll, ProgramPoints

\* A busy worker stays busy, its job stays active, and nobody else moves.
LEMMA BusyMove ==
    ASSUME CoreInv, NEW i \in JobIds, pc[i] \in BusyPoints, holder' = holder,
           pc' \in [JobIds -> ProgramPoints], pc'[i] \in BusyPoints,
           \A j \in JobIds \ {i} : pc'[j] = pc[j] \/ (pc[j] = "asleep" /\ pc'[j] = "await"),
           state'[i] \in ActiveStates,
           \A j \in JobIds \ {i} : state'[j] = state[j]
    PROVE  ThreadInv'
  <1>1. \A j \in JobIds : Alive(j)' <=> Alive(j)
    BY DEF Alive, BusyPoints
  <1>2. \A j \in JobIds : AtWork(j)' <=> AtWork(j)
    BY DEF CoreInv, AliveIsActive, AtWork, Alive, BusyPoints
  <1>3. \A j \in JobIds : /\ pc'[j] = "exiting" <=> pc[j] = "exiting"
                          /\ pc'[j] = "exited" <=> pc[j] = "exited"
                          /\ pc'[j] = "creating" <=> pc[j] = "creating"
    BY DEF BusyPoints
  <1>4. AliveIsActive'
    BY <1>1, <1>2 DEF CoreInv, AliveIsActive
  <1>5. EndedIsFinal'
    BY <1>3 DEF CoreInv, EndedIsFinal, BusyPoints
  <1>6. HolderOK'
    BY <1>3 DEF CoreInv, HolderOK, MutexFree
  <1> QED
    BY <1>4, <1>5, <1>6 DEF ThreadInv

LEMMA WorkerStepThreadInv ==
    ASSUME CoreInv, NEW i \in JobIds, WorkerStep(i)
    PROVE  WorkerTypeOK' /\ ThreadInv'
  <1> USE DEF CoreInv
  <1>0. state \in [JobIds -> JobStates] /\ pc \in [JobIds -> ProgramPoints]
    BY DEF QueueInv, QueueTypeOK, WorkerTypeOK
  <1>a. ASSUME pc[i] \in BusyPoints, NEW point \in BusyPoints, MoveTo(i, point),
               UNCHANGED <<state, holder>>
        PROVE  ThreadInv' /\ pc' \in [JobIds -> ProgramPoints]
    <2>1. pc' \in [JobIds -> ProgramPoints] /\ pc'[i] = point
      BY <1>0, <1>a DEF MoveTo, BusyPoints, ProgramPoints
    <2>2. state[i] \in ActiveStates
      BY <1>a DEF AliveIsActive, AtWork, Alive, BusyPoints
    <2> QED
      BY <1>0, <1>a, <2>1, <2>2, BusyMove DEF MoveTo
  <1>b. ASSUME NEW failed \in BOOLEAN, ItemOver(i, failed)
        PROVE  /\ item' \in [JobIds -> Nat \ {0}]
               /\ resumeAt' \in [JobIds -> {"check", "attempt"}]
               /\ result' \in [JobIds -> FinalStates]
    BY <1>b DEF ItemOver, WorkerTypeOK, FinalStates
  <1>c. ASSUME result' = [result EXCEPT ![i] = "Cancelled"]
        PROVE  result' \in [JobIds -> FinalStates]
    BY <1>c DEF WorkerTypeOK, FinalStates
  <1>d. ASSUME NEW kind \in PromptKinds, pc[i] \in {"check", "attempt"}, Ask(i, kind)
        PROVE  WorkerTypeOK' /\ ThreadInv'
    <2>1. /\ [pc EXCEPT ![i] = "await"] \in [JobIds -> ProgramPoints]
          /\ [pc EXCEPT ![i] = "await"][i] = "await"
      BY <1>0 DEF ProgramPoints
    <2>2. /\ pc' \in [JobIds -> ProgramPoints] /\ pc'[i] = "await"
          /\ \A j \in JobIds \ {i} : pc'[j] = pc[j] \/ (pc[j] = "asleep" /\ pc'[j] = "await")
      BY <1>d, <2>1, NotifyFacts DEF Ask
    <2>3. /\ state'[i] = "WaitingForAnswer"
          /\ \A j \in JobIds \ {i} : state'[j] = state[j]
      BY <1>0, <1>d DEF Ask, SetState
    <2>4. ThreadInv'
      BY <1>d, <2>2, <2>3, BusyMove DEF Ask, BusyPoints, ActiveStates
    <2>5. prompts' \subseteq Prompts /\ nextPromptSeq' \in Nat \ {0}
      BY <1>d DEF Ask, WorkerTypeOK, Prompts, NoAnswer
    <2>6. WorkerTypeOK'
      BY <1>d, <2>2, <2>5 DEF Ask, WorkerTypeOK, tokenVars, workVars
    <2> QED
      BY <2>4, <2>6
  <1>1. CASE Begin(i)
    BY <1>1, <1>a DEF Begin, onlyPcMoves, queueVars, tokenVars, promptVars, workVars, WorkerTypeOK, BusyPoints
  <1>2. CASE NextItem(i)
    BY <1>2, <1>a DEF NextItem, onlyPcMoves, queueVars, tokenVars, promptVars, workVars, WorkerTypeOK, BusyPoints
  <1>3. CASE Poll(i)
    BY <1>3, <1>a, <1>c DEF Poll, StopCancelled, onlyPcMoves, queueVars, tokenVars, promptVars, workVars,
                            WorkerTypeOK, BusyPoints
  <1>4. CASE PauseWait(i)
    BY <1>4, <1>a DEF PauseWait, onlyPcMoves, queueVars, tokenVars, promptVars, workVars, WorkerTypeOK, BusyPoints
  <1>5. CASE LastCheck(i)
    <2>1. resumeAt[i] \in BusyPoints
      BY DEF WorkerTypeOK, BusyPoints
    <2> QED
      BY <1>5, <1>a, <1>c, <2>1 DEF LastCheck, StopCancelled, onlyPcMoves, queueVars, tokenVars, promptVars, workVars,
                            WorkerTypeOK, BusyPoints
  <1>6. CASE Check(i)
    <2>1. CASE Ask(i, "Conflict")
      BY <1>6, <2>1, <1>d DEF Check, PromptKinds
    <2>2. CASE MoveTo(i, "attempt") /\ UNCHANGED <<onlyPcMoves, workVars>>
      BY <1>6, <2>2, <1>a DEF Check, onlyPcMoves, queueVars, tokenVars, promptVars, workVars, WorkerTypeOK, BusyPoints
    <2>3. CASE MoveTo(i, "nextItem") /\ ItemOver(i, TRUE) /\ UNCHANGED onlyPcMoves
      BY <1>6, <2>3, <1>a, <1>b DEF Check, onlyPcMoves, queueVars, tokenVars, promptVars, WorkerTypeOK, BusyPoints
    <2> QED
      BY <1>6, <2>1, <2>2, <2>3 DEF Check
  <1>7. CASE Tick(i)
    BY <1>7, <1>a DEF Tick, onlyPcMoves, queueVars, tokenVars, promptVars, workVars, WorkerTypeOK, BusyPoints
  <1>8. CASE AskError(i)
    BY <1>8, <1>d DEF AskError, PromptKinds
  <1>9. CASE ItemDone(i)
    BY <1>9, <1>a, <1>b DEF ItemDone, onlyPcMoves, queueVars, tokenVars, promptVars, WorkerTypeOK, BusyPoints
  <1>10. CASE FallAsleep(i)
    BY <1>10, <1>a DEF FallAsleep, onlyPcMoves, queueVars, tokenVars, promptVars, workVars, WorkerTypeOK, BusyPoints
  <1>11. CASE TakeAnswer(i)
    <2>1. /\ \E point \in BusyPoints : MoveTo(i, point)
          /\ item' \in [JobIds -> Nat \ {0}]
          /\ resumeAt' \in [JobIds -> {"check", "attempt"}]
          /\ result' \in [JobIds -> FinalStates]
      BY <1>11, <1>b, <1>c DEF TakeAnswer, GoOnWith, StopCancelled, BusyPoints, WorkerTypeOK, workVars
    <2>2. /\ pc' \in [JobIds -> ProgramPoints] /\ pc'[i] \in BusyPoints
          /\ \A j \in JobIds \ {i} : pc'[j] = pc[j]
      BY <1>0, <2>1 DEF MoveTo, BusyPoints, ProgramPoints
    <2>3. /\ state'[i] \in ActiveStates
          /\ \A j \in JobIds \ {i} : state'[j] = state[j]
      BY <1>0, <1>11 DEF TakeAnswer, SetState, StateAfterAnswer, ActiveStates
    <2>4. ThreadInv'
      BY <1>11, <2>2, <2>3, BusyMove DEF TakeAnswer, BusyPoints
    <2>5. prompts' \subseteq Prompts
      BY <1>11 DEF TakeAnswer, RemovePrompt, WorkerTypeOK
    <2> QED
      BY <1>11, <2>1, <2>2, <2>4, <2>5 DEF TakeAnswer, WorkerTypeOK, tokenVars
  <1>12. CASE EndJob(i)
    <2>1. /\ pc' \in [JobIds -> ProgramPoints] /\ pc'[i] = "exiting" /\ pc[i] = "finish"
          /\ \A j \in JobIds \ {i} : pc'[j] = pc[j]
      BY <1>0, <1>12 DEF EndJob, MoveTo, ProgramPoints
    <2>2. /\ state'[i] \in FinalStates
          /\ \A j \in JobIds \ {i} : state'[j] = state[j]
      BY <1>0, <1>12 DEF EndJob, Finish, SetState, WorkerTypeOK
    <2>3. AliveIsActive'
      BY <2>1, <2>2 DEF AliveIsActive, Alive, AtWork, ActiveStates, FinalStates
    <2>4. EndedIsFinal'
      BY <2>1, <2>2 DEF EndedIsFinal
    <2>5. HolderOK'
      BY <1>12, <2>1 DEF HolderOK, EndJob, MutexFree, Nobody, JobIds
    <2>6. WorkerTypeOK'
      <3>1. /\ item' \in [JobIds -> Nat \ {0}]
            /\ resumeAt' \in [JobIds -> {"check", "attempt"}]
            /\ result' \in [JobIds -> FinalStates]
        BY <1>12 DEF EndJob, ForgetLocals, WorkerTypeOK, FinalStates
      <3>2. holder' \in Holders
        BY <1>12 DEF EndJob, Holders
      <3> QED
        BY <1>12, <2>1, <3>1, <3>2 DEF EndJob, WorkerTypeOK, tokenVars, promptVars
    <2> QED
      BY <2>3, <2>4, <2>5, <2>6 DEF ThreadInv
  <1> QED
    BY <1>1, <1>2, <1>3, <1>4, <1>5, <1>6, <1>7, <1>8, <1>9, <1>10, <1>11, <1>12 DEF WorkerStep

LEMMA StartStepThreadInv ==
    ASSUME CoreInv, StartStep
    PROVE  WorkerTypeOK' /\ ThreadInv'
  <1> USE DEF CoreInv
  <1>0. state \in [JobIds -> JobStates] /\ pc \in [JobIds -> ProgramPoints]
    BY DEF QueueInv, QueueTypeOK, WorkerTypeOK
  <1>1. ASSUME NEW i \in JobIds, StartNext(i)
        PROVE  WorkerTypeOK' /\ ThreadInv'
    <2>1. /\ pc' \in [JobIds -> ProgramPoints] /\ pc'[i] = "creating"
          /\ \A j \in JobIds \ {i} : pc'[j] = pc[j]
      BY <1>0, <1>1 DEF StartNext, MoveTo, ProgramPoints
    <2>2. /\ state[i] = "Queued" /\ state'[i] = "Running"
          /\ \A j \in JobIds \ {i} : state'[j] = state[j]
      BY <1>0, <1>1 DEF StartNext, NextToRun, MayStart
    <2>3. pc[i] \notin {"exiting", "exited"}
      BY <2>2 DEF EndedIsFinal, FinalStates
    <2>4. ThreadInv'
      BY <1>1, <2>1, <2>2, <2>3
         DEF StartNext, ThreadInv, AliveIsActive, EndedIsFinal, HolderOK, MutexFree, Alive, AtWork, ActiveStates
    <2> QED
      BY <1>1, <2>1, <2>4 DEF StartNext, WorkerTypeOK, tokenVars, promptVars, workVars
  <1>2. ASSUME NEW i \in JobIds, ThreadCreated(i)
        PROVE  WorkerTypeOK' /\ ThreadInv'
    <2>1. /\ pc' \in [JobIds -> ProgramPoints] /\ pc'[i] = "started" /\ pc[i] = "creating"
          /\ \A j \in JobIds \ {i} : pc'[j] = pc[j]
      BY <1>0, <1>2 DEF ThreadCreated, MoveTo, ProgramPoints
    <2>2. ThreadInv'
      BY <1>2, <2>1 DEF ThreadCreated, queueVars, ThreadInv, AliveIsActive, EndedIsFinal, HolderOK,
                        MutexFree, Alive, AtWork
    <2>3. threads' \in Seq(JobIds)
      BY <1>2 DEF ThreadCreated, WorkerTypeOK
    <2> QED
      BY <1>2, <2>1, <2>2, <2>3 DEF ThreadCreated, WorkerTypeOK, tokenVars, promptVars, workVars
  <1>3. ASSUME NEW i \in JobIds, ThreadNotCreated(i)
        PROVE  WorkerTypeOK' /\ ThreadInv'
    <2>1. /\ pc' \in [JobIds -> ProgramPoints] /\ pc'[i] = "none" /\ pc[i] = "creating"
          /\ \A j \in JobIds \ {i} : pc'[j] = pc[j]
      BY <1>0, <1>3 DEF ThreadNotCreated, MoveTo, ProgramPoints
    <2>2. /\ state'[i] = "Failed"
          /\ \A j \in JobIds \ {i} : state'[j] = state[j]
      BY <1>0, <1>3 DEF ThreadNotCreated, Finish, SetState
    <2>3. ThreadInv'
      BY <1>3, <2>1, <2>2
         DEF ThreadNotCreated, ThreadInv, AliveIsActive, EndedIsFinal, HolderOK, MutexFree, Alive, AtWork, ActiveStates
    <2> QED
      BY <1>3, <2>1, <2>3 DEF ThreadNotCreated, WorkerTypeOK, tokenVars, promptVars, workVars
  <1>4. CASE StartDone
    <2>1. holder \in JobIds \cup {UiThread} /\ Nobody \notin JobIds /\ UiThread \notin JobIds
      BY <1>4, MaxJobsAssumption DEF StartDone, MutexFree, WorkerTypeOK, Holders, Nobody, UiThread, JobIds
    <2>2. CASE holder = UiThread
      <3>1. pc' = pc /\ state' = state /\ holder' = Nobody
        BY <1>4, <2>2 DEF StartDone, queueVars
      <3>2. ThreadInv'
        BY <1>4, <2>1, <2>2, <3>1
           DEF StartDone, ThreadInv, AliveIsActive, EndedIsFinal, HolderOK, MutexFree, Alive, AtWork
      <3> QED
        BY <1>4, <3>1, <3>2 DEF StartDone, WorkerTypeOK, tokenVars, promptVars, workVars, Holders
    <2>3. CASE holder \in JobIds
      <3>1. /\ [pc EXCEPT ![holder] = "exited"] \in [JobIds -> ProgramPoints]
            /\ [pc EXCEPT ![holder] = "exited"][holder] = "exited"
            /\ \A j \in JobIds \ {holder} : [pc EXCEPT ![holder] = "exited"][j] = pc[j]
        BY <1>0, <2>3 DEF ProgramPoints
      <3>2. pc' = NotifyAll([pc EXCEPT ![holder] = "exited"]) /\ state' = state /\ holder' = Nobody
        BY <1>4, <2>1, <2>3 DEF StartDone, queueVars
      <3>3. /\ pc' \in [JobIds -> ProgramPoints] /\ pc'[holder] = "exited"
            /\ \A j \in JobIds \ {holder} : pc'[j] = pc[j] \/ (pc[j] = "asleep" /\ pc'[j] = "await")
        BY <3>1, <3>2, NotifyFacts, <2>3
      <3>4. pc[holder] = "exiting"
        BY <2>3 DEF HolderOK
      <3>5. \A j \in JobIds : pc'[j] # "creating" /\ pc'[j] # "exiting"
        BY <1>4, <2>3, <3>3 DEF StartDone, HolderOK
      <3>6. AliveIsActive' /\ EndedIsFinal'
        BY <2>3, <3>2, <3>3, <3>4 DEF AliveIsActive, EndedIsFinal, Alive, AtWork
      <3>7. HolderOK'
        BY <2>1, <3>2, <3>5 DEF HolderOK
      <3> QED
        BY <1>4, <3>2, <3>3, <3>6, <3>7
           DEF StartDone, ThreadInv, WorkerTypeOK, tokenVars, promptVars, workVars, Holders
    <2> QED
      BY <2>1, <2>2, <2>3
  <1> QED
    BY <1>1, <1>2, <1>3, <1>4 DEF StartStep

\* No thread begins, ends or starts: jobs only change between states of the
\* same sort, and sleepers may be woken.
LEMMA QuietMove ==
    ASSUME CoreInv, pc' \in [JobIds -> ProgramPoints],
           \A j \in JobIds : pc'[j] = pc[j] \/ (pc[j] = "asleep" /\ pc'[j] = "await"),
           \A j \in JobIds : AtWork(j)' <=> AtWork(j),
           \A j \in JobIds : state[j] \in FinalStates => state'[j] = state[j],
           holder' = holder \/ (MutexFree /\ holder' = UiThread)
    PROVE  ThreadInv'
  <1>1. \A j \in JobIds : Alive(j)' <=> Alive(j)
    BY DEF Alive
  <1>2. AliveIsActive'
    BY <1>1 DEF CoreInv, AliveIsActive
  <1>3. EndedIsFinal'
    BY DEF CoreInv, EndedIsFinal
  <1>4. \A j \in JobIds : UiThread # j /\ Nobody # j
    BY MaxJobsAssumption DEF UiThread, Nobody, JobIds
  <1>5. HolderOK'
    BY <1>4 DEF CoreInv, HolderOK, MutexFree
  <1> QED
    BY <1>2, <1>3, <1>5 DEF ThreadInv

\* Pausing and resuming move a job between active states only.
LEMMA PauseMove ==
    ASSUME CoreInv, NEW i \in JobIds, PauseJob(i) \/ ResumeJob(i)
    PROVE  /\ paused' \in [JobIds -> BOOLEAN]
           /\ \A j \in JobIds : AtWork(j)' <=> AtWork(j)
           /\ \A j \in JobIds : state[j] \in FinalStates => state'[j] = state[j]
  <1>1. state \in [JobIds -> JobStates] /\ paused \in [JobIds -> BOOLEAN]
    BY DEF CoreInv, QueueInv, QueueTypeOK, WorkerTypeOK
  <1>2. paused' \in [JobIds -> BOOLEAN]
    BY <1>1 DEF PauseJob, ResumeJob
  <1>3. \/ UNCHANGED state
        \/ /\ state[i] \in ActiveStates
           /\ \E s \in ActiveStates : state' = [state EXCEPT ![i] = s]
    BY DEF PauseJob, ResumeJob, Pausable, SetState, ActiveStates, queueVars
  <1>4. \A j \in JobIds : \/ state'[j] = state[j]
                          \/ state[j] \in ActiveStates /\ state'[j] \in ActiveStates
    BY <1>1, <1>3
  <1> QED
    BY <1>2, <1>4 DEF AtWork, ActiveStates, FinalStates

LEMMA UserCallThreadInv ==
    ASSUME CoreInv, UserCall
    PROVE  WorkerTypeOK' /\ ThreadInv'
  <1> USE DEF CoreInv
  <1>0. /\ state \in [JobIds -> JobStates] /\ pc \in [JobIds -> ProgramPoints]
        /\ NotifyAll(pc) \in [JobIds -> ProgramPoints]
        /\ \A j \in JobIds : \/ NotifyAll(pc)[j] = pc[j]
                             \/ pc[j] = "asleep" /\ NotifyAll(pc)[j] = "await"
    <2>1. state \in [JobIds -> JobStates] /\ pc \in [JobIds -> ProgramPoints]
      BY DEF QueueInv, QueueTypeOK, WorkerTypeOK
    <2> QED
      BY <2>1, NotifyFacts
  <1>a. ASSUME UNCHANGED <<state, holder>>, pc' = pc \/ pc' = NotifyAll(pc)
        PROVE  ThreadInv' /\ pc' \in [JobIds -> ProgramPoints]
    BY <1>0, <1>a, QuietMove DEF AtWork
  <1>1. ASSUME NEW d \in Submissions, EnqueueJob(d)
        PROVE  WorkerTypeOK' /\ ThreadInv'
    <2>1. /\ state[nextId] = "New" /\ state'[nextId] = "Queued" /\ nextId \in JobIds
          /\ \A j \in JobIds \ {nextId} : state'[j] = state[j]
      BY <1>0, <1>1 DEF EnqueueJob, Enqueue, QueueInv, QueueTypeOK, JobIds
    <2>2. ThreadInv'
      BY <1>0, <1>1, <2>1, QuietMove DEF EnqueueJob, UiCalls, AtWork, ActiveStates, FinalStates
    <2> QED
      BY <1>1, <2>2 DEF EnqueueJob, WorkerTypeOK, Holders, tokenVars, promptVars, workVars
  <1>2. ASSUME NEW i \in JobIds, CancelQueuedJob(i)
        PROVE  WorkerTypeOK' /\ ThreadInv'
    <2>1. /\ state[i] = "Queued" /\ state'[i] = "Removed"
          /\ \A j \in JobIds \ {i} : state'[j] = state[j]
      BY <1>0, <1>2 DEF CancelQueuedJob, CancelQueued
    <2>2. ThreadInv'
      BY <1>0, <1>2, <2>1, QuietMove DEF CancelQueuedJob, AtWork, ActiveStates, FinalStates
    <2> QED
      BY <1>2, <2>2 DEF CancelQueuedJob, WorkerTypeOK, tokenVars, promptVars, workVars
  <1>3. ASSUME NEW i \in JobIds, CancelActiveJob(i)
        PROVE  WorkerTypeOK' /\ ThreadInv'
    <2>1. ThreadInv' /\ pc' \in [JobIds -> ProgramPoints]
      BY <1>3, <1>a DEF CancelActiveJob, queueVars
    <2>2. cancel' \in [JobIds -> BOOLEAN] /\ paused' \in [JobIds -> BOOLEAN]
      BY <1>3 DEF CancelActiveJob, WorkerTypeOK
    <2> QED
      BY <1>3, <2>1, <2>2 DEF CancelActiveJob, WorkerTypeOK, promptVars, workVars
  <1>4. ASSUME NEW i \in JobIds, Pause(i) \/ Resume(i)
        PROVE  WorkerTypeOK' /\ ThreadInv'
    <2>1. PauseJob(i) \/ ResumeJob(i)
      BY <1>4 DEF Pause, Resume
    <2>2. UNCHANGED <<otherThanPause, ui>>
      BY <1>4 DEF Pause, Resume
    <2>3. paused' \in [JobIds -> BOOLEAN] /\ ThreadInv'
      BY <1>0, <2>1, <2>2, PauseMove, QuietMove DEF otherThanPause
    <2> QED
      BY <2>2, <2>3 DEF WorkerTypeOK, otherThanPause, promptVars, workVars
  <1>5. CASE PauseAll \/ ResumeAll
    <2>1. UNCHANGED <<queueVars, paused, otherThanPause>>
      BY <1>5 DEF PauseAll, ResumeAll
    <2>2. ui' \in [call : UiCallNames, left : SUBSET JobIds]
      BY <1>5 DEF PauseAll, ResumeAll, HeldJobs, UiCallNames
    <2>3. ThreadInv'
      BY <2>1, <1>a DEF otherThanPause, queueVars
    <2> QED
      BY <2>1, <2>2, <2>3 DEF WorkerTypeOK, otherThanPause, promptVars, workVars
  <1>6. ASSUME NEW p \in prompts, NEW choice \in ConflictChoices \cup ErrorChoices, Answer(p, choice)
        PROVE  WorkerTypeOK' /\ ThreadInv'
    <2>1. ThreadInv' /\ pc' \in [JobIds -> ProgramPoints]
      BY <1>6, <1>a DEF Answer, queueVars
    <2>2. prompts' \subseteq Prompts
      BY <1>6 DEF Answer, WorkerTypeOK, Prompts
    <2> QED
      BY <1>6, <2>1, <2>2 DEF Answer, WorkerTypeOK, tokenVars, workVars
  <1>7. CASE Destroy
    <2>1. ThreadInv' /\ pc' \in [JobIds -> ProgramPoints]
      BY <1>7, <1>a DEF Destroy, queueVars
    <2>2. cancel' \in [JobIds -> BOOLEAN] /\ paused' \in [JobIds -> BOOLEAN]
      BY <1>7 DEF Destroy
    <2>3. ui' \in [call : UiCallNames, left : SUBSET JobIds]
      BY <1>7 DEF Destroy, UiCallNames
    <2> QED
      BY <1>7, <2>1, <2>2, <2>3 DEF Destroy, WorkerTypeOK, promptVars, workVars
  <1> QED
    BY <1>1, <1>2, <1>3, <1>4, <1>5, <1>6, <1>7 DEF UserCall

LEMMA UiStepThreadInv ==
    ASSUME CoreInv, UiStep
    PROVE  WorkerTypeOK' /\ ThreadInv'
  <1> USE DEF CoreInv
  <1>0. state \in [JobIds -> JobStates] /\ pc \in [JobIds -> ProgramPoints]
    BY DEF QueueInv, QueueTypeOK, WorkerTypeOK
  <1>1. ASSUME NEW i \in JobIds, AllStep(i)
        PROVE  WorkerTypeOK' /\ ThreadInv'
    <2>1. PauseJob(i) \/ ResumeJob(i)
      BY <1>1 DEF AllStep
    <2>2. paused' \in [JobIds -> BOOLEAN] /\ ThreadInv'
      BY <1>0, <1>1, <2>1, PauseMove, QuietMove DEF AllStep, otherThanPause
    <2>3. ui' \in [call : UiCallNames, left : SUBSET JobIds]
      BY <1>1 DEF AllStep, WorkerTypeOK
    <2> QED
      BY <1>1, <2>2, <2>3 DEF AllStep, WorkerTypeOK, otherThanPause, promptVars, workVars
  <1>2. ASSUME \/ \E j \in JobIds : Join(j)
               \/ AllDone \/ TakeHandle \/ Destroyed
        PROVE  WorkerTypeOK' /\ ThreadInv'
    <2>1. UNCHANGED <<queueVars, tokenVars, promptVars, shuttingDown, holder, pc, workVars>>
      BY <1>2 DEF Join, AllDone, TakeHandle, Destroyed, otherThanPause, tokenVars
    <2>2. ThreadInv'
      BY <1>0, <2>1, QuietMove DEF queueVars, AtWork
    <2>3. threads' \in Seq(JobIds)
      <3>1. ASSUME threads # <<>>
            PROVE  SubSeq(threads, 1, Len(threads) - 1) \in Seq(JobIds)
        <4>1. threads \in Seq(JobIds) /\ Len(threads) \in Nat /\ Len(threads) >= 1
          BY <3>1 DEF WorkerTypeOK
        <4> QED
          BY <4>1, SubSeqProperties
      <3> QED
        BY <1>2, <3>1 DEF Join, AllDone, TakeHandle, Destroyed, otherThanPause, WorkerTypeOK
    <2>4. ui' \in [call : UiCallNames, left : SUBSET JobIds]
      <3>1. ASSUME threads # <<>>
            PROVE  threads[Len(threads)] \in JobIds
        BY <3>1 DEF WorkerTypeOK
      <3> QED
        BY <1>2, <3>1 DEF Join, AllDone, TakeHandle, Destroyed, UiIdle, UiCallNames, WorkerTypeOK
    <2> QED
      BY <2>1, <2>2, <2>3, <2>4 DEF WorkerTypeOK, tokenVars, promptVars, workVars
  <1> QED
    BY <1>1, <1>2 DEF UiStep

-----------------------------------------------------------------------------
(* The invariant and what follows from it. *)

LEMMA NextCoreInv == CoreInv /\ [Next]_vars => CoreInv'
  <1> SUFFICES ASSUME CoreInv, [Next]_vars PROVE CoreInv'
    OBVIOUS
  <1>1. QueueInv'
    BY CoreQueueStep, NextQueueInv DEF CoreInv
  <1>2. CASE Gone \/ UNCHANGED vars
    <2>1. UNCHANGED vars
      BY <1>2 DEF Gone
    <2> QED
      BY <2>1, <1>1 DEF vars, queueVars, tokenVars, promptVars, workVars, CoreInv, WorkerTypeOK,
             AliveIsActive, EndedIsFinal, HolderOK, Alive, AtWork, MutexFree
  <1>3. WorkerTypeOK' /\ ThreadInv'
    BY <1>2, WorkerStepThreadInv, StartStepThreadInv, UserCallThreadInv, UiStepThreadInv
       DEF Next, CoreInv, ThreadInv
  <1> QED
    BY <1>1, <1>3 DEF CoreInv, ThreadInv

\* In every reachable state the queue is in order and its active jobs are
\* exactly those with a live thread (JobWorker.cpp, RunJob and
\* StartRunnableLocked).
THEOREM WorkerInvariant == Spec => []CoreInv
  <1>1. Init => CoreInv
    BY InitCoreInv
  <1>2. CoreInv /\ [Next]_vars => CoreInv'
    BY NextCoreInv
  <1> QED
    BY <1>1, <1>2, PTL DEF Spec

\* Every variable of the queue and of the workers keeps its type.
THEOREM WorkerTypeCorrect == Spec => []TypeOK
  <1>1. CoreInv => TypeOK
    BY DEF CoreInv, QueueInv, TypeOK
  <1> QED
    BY WorkerInvariant, <1>1, PTL

\* Whatever the workers and the UI thread do, the queue sees only steps that
\* OperationQueue allows, so all that is proved of the queue holds here too.
THEOREM WorkerUsesQueue == Spec => UsesQueue
  <1>1. Init => QueueInit
    BY DEF Init
  <1>2. CoreInv /\ [Next]_vars => [QueueNext]_queueVars
    BY CoreQueueStep
  <1> QED
    BY <1>1, <1>2, WorkerInvariant, PTL DEF Spec, UsesQueue, QueueSpec

\* Two live workers share no file, and the roots they write to are not spelled
\* alike.  That they are not one drive does not follow: d: and D: are two volumes
\* to the queue (OperationQueue.cpp, VolumeKey).
WorkersApart ==
    \A j, k \in JobIds :
        j # k /\ Alive(j) /\ Alive(k) =>
            ~SharesFiles(jobs[j], jobs[k]) /\ Volume(jobs[j]) # Volume(jobs[k])

\* No two live worker threads work on the same files, in any spelling, or write
\* to the same root, spelled in the same way: whatever is submitted.
THEOREM WorkersNeverMeet == Spec => []WorkersApart
  <1>1. CoreInv => WorkersApart
    <2> SUFFICES ASSUME CoreInv, NEW j \in JobIds, NEW k \in JobIds, j # k, Alive(j), Alive(k)
                 PROVE  ~SharesFiles(jobs[j], jobs[k]) /\ Volume(jobs[j]) # Volume(jobs[k])
      BY DEF WorkersApart
    <2>1. AtWork(j) /\ AtWork(k)
      BY DEF CoreInv, AliveIsActive
    <2> QED
      BY <2>1 DEF CoreInv, QueueInv, FilesExclusive, VolumesExclusive
  <1> QED
    BY <1>1, WorkerInvariant, PTL

\* They do not write to the same drive either when no drive is spelled in two
\* ways, which is an assumption on what is submitted: the code does not ensure it.
THEOREM WorkersAreExclusive ==
    ASSUME RootsSpelledAlike
    PROVE  Spec => []WorkersExclusive
  <1>1. CoreInv /\ WorkersApart => WorkersExclusive
    <2> SUFFICES ASSUME CoreInv, WorkersApart,
                        NEW j \in JobIds, NEW k \in JobIds, j # k, Alive(j), Alive(k)
                 PROVE  /\ ~SharesFiles(jobs[j], jobs[k])
                        /\ WrittenDrive(jobs[j]) # WrittenDrive(jobs[k])
      BY DEF WorkersExclusive
    <2>1. AtWork(j) /\ AtWork(k)
      BY DEF CoreInv, AliveIsActive
    <2>2. ~SharesFiles(jobs[j], jobs[k])
      BY DEF WorkersApart
    <2>3. OneJobPerVolume
      BY VolumesOfQueueInv DEF CoreInv
    <2> QED
      BY <2>1, <2>2, <2>3 DEF OneJobPerVolume
  <1> QED
    BY <1>1, WorkerInvariant, WorkersNeverMeet, PTL

\* Jobs on the same files start in the order they were submitted, whatever is
\* paused, cancelled or refused a thread in between.
THEOREM WorkersKeepOrder == Spec => []QueueOrderKept
  <1>1. CoreInv => QueueOrderKept
    BY DEF CoreInv, QueueInv
  <1> QED
    BY <1>1, WorkerInvariant, PTL

Functional ==
    /\ state \in [JobIds -> JobStates] /\ pc \in [JobIds -> ProgramPoints]
    /\ cancel \in [JobIds -> BOOLEAN] /\ paused \in [JobIds -> BOOLEAN]
    /\ prompts \subseteq Prompts

LEMMA CoreTypes == CoreInv => Functional
BY DEF CoreInv, QueueInv, QueueTypeOK, WorkerTypeOK, Functional

-----------------------------------------------------------------------------
(* Pauses.                                                                    *)

\* A job is not held before it has started.
NotYetHeld == \A j \in JobIds : state[j] \in {"New", "Queued"} => ~ paused[j]

\* While ResumeAll goes on, every held job is still on its list.
LeftToResume ==
    ui.call = "resumeAll" => \A j \in JobIds : AtWork(j) /\ paused[j] => j \in ui.left

HeldInv == PauseShown /\ NotYetHeld /\ LeftToResume

\* One job changes state, and to none that its token forbids.
LEMMA HeldStateStep ==
    ASSUME CoreInv, HeldInv, NEW i \in JobIds, NEW s,
           state' = [state EXCEPT ![i] = s], UNCHANGED <<tokenVars, ui>>,
           s \in {"Running", "New", "Queued"} => ~ paused[i],
           s = "Paused" => paused[i],
           s \in ActiveStates /\ paused[i] => AtWork(i)
    PROVE  HeldInv'
<1>1. Functional /\ state' = [state EXCEPT ![i] = s] /\ cancel' = cancel /\ paused' = paused /\ ui' = ui
  BY CoreTypes DEF tokenVars
<1>2. /\ state'[i] = s /\ \A j \in JobIds \ {i} : state'[j] = state[j]
  BY <1>1 DEF Functional
<1>3. PauseShown' /\ NotYetHeld'
  BY <1>1, <1>2 DEF HeldInv, PauseShown, NotYetHeld
<1>4. LeftToResume'
  BY <1>1, <1>2 DEF HeldInv, LeftToResume, AtWork
<1>. QED  BY <1>3, <1>4 DEF HeldInv

LEMMA HeldWorkerStep ==
    ASSUME CoreInv, HeldInv, NEW i \in JobIds, WorkerStep(i)
    PROVE  HeldInv'
<1>1. CASE UNCHANGED <<state, tokenVars, ui>>
  BY <1>1 DEF HeldInv, PauseShown, NotYetHeld, LeftToResume, AtWork, tokenVars
<1>2. CASE pc[i] \in {"check", "attempt"} /\ \E kind \in PromptKinds : Ask(i, kind)
  <2>1. AtWork(i)
    BY <1>2 DEF CoreInv, AliveIsActive, Alive
  <2>. QED  BY <1>2, <2>1, HeldStateStep DEF Ask, SetState
<1>3. CASE TakeAnswer(i)
  <2>1. AtWork(i)
    BY <1>3 DEF TakeAnswer, CoreInv, AliveIsActive, Alive
  <2>2. paused[i] \in BOOLEAN
    BY CoreTypes DEF Functional
  <2>. QED  BY <1>3, <2>1, <2>2, HeldStateStep DEF TakeAnswer, SetState, StateAfterAnswer
<1>4. CASE EndJob(i)
  <2>1. result[i] \in FinalStates
    BY DEF CoreInv, WorkerTypeOK
  <2>. QED  BY <1>4, <2>1, HeldStateStep DEF EndJob, Finish, SetState, FinalStates, ActiveStates
<1>5. ASSUME ~ UNCHANGED <<state, tokenVars, ui>>
      PROVE  \/ pc[i] \in {"check", "attempt"} /\ \E kind \in PromptKinds : Ask(i, kind)
             \/ TakeAnswer(i) \/ EndJob(i)
  BY <1>5 DEF WorkerStep, Begin, NextItem, Poll, PauseWait, LastCheck, Check, Tick, AskError,
     ItemDone, FallAsleep, onlyPcMoves, queueVars, PromptKinds
<1>. QED  BY <1>1, <1>2, <1>3, <1>4, <1>5

LEMMA HeldStartStep ==
    ASSUME CoreInv, HeldInv, StartStep
    PROVE  HeldInv'
<1>1. CASE UNCHANGED <<state, tokenVars, ui>>
  BY <1>1 DEF HeldInv, PauseShown, NotYetHeld, LeftToResume, AtWork, tokenVars
<1>2. ASSUME NEW i \in JobIds, StartNext(i) PROVE HeldInv'
  <2>1. ~ paused[i]
    BY <1>2 DEF StartNext, NextToRun, MayStart, HeldInv, NotYetHeld
  <2>. QED  BY <1>2, <2>1, HeldStateStep DEF StartNext, NextToRun
<1>3. ASSUME NEW i \in JobIds, ThreadNotCreated(i) PROVE HeldInv'
  BY <1>3, HeldStateStep DEF ThreadNotCreated, Finish, SetState, ActiveStates
<1>. QED  BY <1>1, <1>2, <1>3 DEF StartStep, ThreadCreated, StartDone, queueVars

LEMMA PausedShown ==
    ASSUME CoreInv, PauseShown, NotYetHeld, NEW i \in JobIds, PauseJob(i) \/ ResumeJob(i),
           UNCHANGED cancel
    PROVE  PauseShown' /\ NotYetHeld'
<1>1. Functional
  BY CoreTypes
<1>2. \/ UNCHANGED <<state, paused>>
      \/ /\ state[i] = "Running" /\ paused' = [paused EXCEPT ![i] = TRUE]
         /\ state' = [state EXCEPT ![i] = "Paused"]
      \/ /\ state[i] = "WaitingForAnswer" /\ UNCHANGED state
         /\ \E b \in BOOLEAN : paused' = [paused EXCEPT ![i] = b]
      \/ /\ state[i] = "Paused" /\ paused' = [paused EXCEPT ![i] = FALSE]
         /\ state' = [state EXCEPT ![i] = "Running"]
  BY DEF PauseJob, ResumeJob, Pausable, SetState, queueVars
<1>3. \A j \in JobIds \ {i} : state'[j] = state[j] /\ paused'[j] = paused[j]
  BY <1>1, <1>2 DEF Functional
<1>4. \/ state'[i] = state[i] /\ paused'[i] = paused[i]
      \/ state'[i] = "Paused" /\ paused'[i] = TRUE
      \/ state'[i] = "WaitingForAnswer"
      \/ state'[i] = "Running" /\ paused'[i] = FALSE
  BY <1>1, <1>2 DEF Functional
<1>. QED  BY <1>3, <1>4 DEF PauseShown, NotYetHeld

LEMMA HeldUserCall ==
    ASSUME CoreInv, HeldInv, UserCall
    PROVE  HeldInv'
<1>0. Functional
  BY CoreTypes
<1>1. ASSUME NEW d \in Submissions, EnqueueJob(d) PROVE HeldInv'
  <2>1. nextId \in JobIds /\ state[nextId] = "New"
    BY <1>1 DEF EnqueueJob, Enqueue, CoreInv, QueueInv, QueueTypeOK, JobIds
  <2>. QED  BY <1>1, <2>1, HeldStateStep DEF EnqueueJob, Enqueue, HeldInv, NotYetHeld
<1>2. ASSUME NEW j \in JobIds, CancelQueuedJob(j) PROVE HeldInv'
  BY <1>2, HeldStateStep DEF CancelQueuedJob, CancelQueued, ActiveStates
<1>3. ASSUME NEW i \in JobIds, CancelActiveJob(i) PROVE HeldInv'
  <2>1. /\ state' = state /\ ui' = ui /\ cancel' = [cancel EXCEPT ![i] = TRUE]
        /\ paused' = [paused EXCEPT ![i] = FALSE]
    BY <1>3 DEF CancelActiveJob, queueVars
  <2>2. /\ \A j \in JobIds : cancel[j] => cancel'[j]
        /\ \A j \in JobIds : paused'[j] => paused[j]
        /\ cancel'[i] = TRUE /\ \A j \in JobIds \ {i} : paused'[j] = paused[j]
        /\ paused'[i] = FALSE
    BY <1>0, <2>1 DEF Functional
  <2>. QED  BY <2>1, <2>2 DEF HeldInv, PauseShown, NotYetHeld, LeftToResume, AtWork
<1>4. ASSUME NEW i \in JobIds, Pause(i) \/ Resume(i) PROVE HeldInv'
  <2>1. PauseShown' /\ NotYetHeld'
    BY <1>4, PausedShown DEF Pause, Resume, otherThanPause, HeldInv
  <2>2. ui'.call = "idle"
    BY <1>4 DEF Pause, Resume, UiCalls, UiIdle
  <2>. QED  BY <2>1, <2>2 DEF HeldInv, LeftToResume
<1>5. CASE PauseAll
  BY <1>5 DEF PauseAll, otherThanPause, queueVars, HeldInv, PauseShown, NotYetHeld, LeftToResume
<1>6. CASE ResumeAll
  <2>1. ui'.left = HeldJobs /\ UNCHANGED <<state, paused, cancel>>
    BY <1>6 DEF ResumeAll, otherThanPause, queueVars
  <2>2. LeftToResume'
    BY <2>1 DEF HeldJobs, HeldInv, PauseShown, LeftToResume, AtWork, ActiveStates
  <2>. QED  BY <2>1, <2>2 DEF HeldInv, PauseShown, NotYetHeld
<1>7. ASSUME NEW p \in prompts, NEW choice, Answer(p, choice) PROVE HeldInv'
  BY <1>7 DEF Answer, HeldInv, PauseShown, NotYetHeld, LeftToResume, AtWork, tokenVars, queueVars
<1>8. CASE Destroy
  <2>1. /\ \A j \in JobIds : ~ paused'[j] /\ (cancel'[j] <=> j < nextId)
        /\ UNCHANGED state /\ ui'.call = "joining"
    BY <1>8 DEF Destroy, queueVars
  <2>2. \A j \in JobIds : state[j] = "Paused" => j < nextId
    BY DEF CoreInv, QueueInv, QueueTypeOK, JobIds
  <2>. QED  BY <2>1, <2>2 DEF HeldInv, PauseShown, NotYetHeld, LeftToResume
<1>. QED  BY <1>1, <1>2, <1>3, <1>4, <1>5, <1>6, <1>7, <1>8 DEF UserCall

LEMMA HeldUiStep ==
    ASSUME CoreInv, HeldInv, UiStep
    PROVE  HeldInv'
<1>0. Functional
  BY CoreTypes
<1>1. CASE AllDone \/ (\E j \in JobIds : Join(j)) \/ TakeHandle \/ Destroyed
  <2>1. UNCHANGED <<state, paused, cancel>> /\ ui'.call # "resumeAll"
    BY <1>1 DEF AllDone, Join, TakeHandle, Destroyed, UiIdle, otherThanPause, queueVars, tokenVars,
       CoreInv, WorkerTypeOK
  <2>. QED  BY <2>1 DEF HeldInv, PauseShown, NotYetHeld, LeftToResume
<1>2. ASSUME NEW i \in JobIds, AllStep(i) PROVE HeldInv'
  <2>1. PauseShown' /\ NotYetHeld'
    BY <1>2, PausedShown DEF AllStep, otherThanPause, HeldInv
  <2>2. ui'.call = ui.call /\ ui'.left = ui.left \ {i}
    BY <1>2 DEF AllStep, CoreInv, WorkerTypeOK
  <2>3. ASSUME ui.call = "resumeAll"
        PROVE  /\ \A j \in JobIds : AtWork(j)' => AtWork(j)
               /\ \A j \in JobIds : paused'[j] => paused[j]
               /\ AtWork(i) => ~ paused'[i]
    <3>1. ResumeJob(i)
      BY <1>2, <2>3 DEF AllStep
    <3>2. CASE state[i] = "Paused"
      BY <1>0, <3>1, <3>2 DEF ResumeJob, SetState, Functional, AtWork, ActiveStates
    <3>3. CASE state[i] # "Paused"
      BY <1>0, <3>1, <3>3 DEF ResumeJob, queueVars, Functional, AtWork, ActiveStates, HeldInv, PauseShown
    <3>. QED  BY <3>2, <3>3
  <2>4. LeftToResume'
    BY <2>2, <2>3 DEF HeldInv, LeftToResume
  <2>. QED  BY <2>1, <2>4 DEF HeldInv
<1>. QED  BY <1>1, <1>2 DEF UiStep

LEMMA HeldStep == CoreInv /\ HeldInv /\ [Next]_vars => HeldInv'
<1> SUFFICES ASSUME CoreInv, HeldInv, [Next]_vars PROVE HeldInv'
  OBVIOUS
<1>1. CASE UNCHANGED vars
  BY <1>1 DEF vars, queueVars, tokenVars, HeldInv, PauseShown, NotYetHeld, LeftToResume, AtWork
<1>. QED  BY <1>1, HeldWorkerStep, HeldStartStep, HeldUserCall, HeldUiStep DEF Next, Gone

LEMMA HeldInit == Init => HeldInv
BY DEF Init, QueueInit, UiIdle, HeldInv, PauseShown, NotYetHeld, LeftToResume

-----------------------------------------------------------------------------
(* Prompts and wake-ups.                                                      *)

WaitInv == PromptsMatchJobs /\ NoLostWakeup

\* No question is asked or answered, and who still sleeps has no reason to wake.
LEMMA WaitQuietStep ==
    ASSUME WaitInv, UNCHANGED prompts,
           \A j \in JobIds : Waits(j)' <=> Waits(j),
           \A j \in JobIds : state'[j] = "WaitingForAnswer" <=> state[j] = "WaitingForAnswer",
           \A j \in JobIds : pc'[j] = "asleep" =>
              pc[j] = "asleep" /\ cancel'[j] = cancel[j] /\ shuttingDown' = shuttingDown
    PROVE  WaitInv'
<1>1. PromptsMatchJobs'
  BY DEF WaitInv, PromptsMatchJobs
<1>2. NoLostWakeup'
  BY DEF WaitInv, NoLostWakeup, WakesUp, PromptOf
<1>. QED  BY <1>1, <1>2 DEF WaitInv

\* One worker moves from one place to another, neither of them in a wait.
LEMMA WaitMoveStep ==
    ASSUME CoreInv, WaitInv, NEW i \in JobIds, NEW point \in ProgramPoints \ {"await", "asleep"},
           pc[i] \notin {"await", "asleep"}, MoveTo(i, point),
           UNCHANGED <<prompts, cancel, shuttingDown>>,
           \A j \in JobIds : state'[j] = "WaitingForAnswer" <=> state[j] = "WaitingForAnswer"
    PROVE  WaitInv'
<1>1. pc'[i] = point /\ \A j \in JobIds \ {i} : pc'[j] = pc[j]
  BY CoreTypes DEF MoveTo, Functional
<1>. QED  BY <1>1, WaitQuietStep DEF Waits

\* After a notify nobody sleeps.
LEMMA Notified ==
    ASSUME NEW f \in [JobIds -> ProgramPoints]
    PROVE  \A j \in JobIds : NotifyAll(f)[j] # "asleep"
                             /\ (NotifyAll(f)[j] = "await" <=> f[j] \in {"await", "asleep"})
BY DEF NotifyAll

LEMMA WaitNotifyStep ==
    ASSUME CoreInv, WaitInv, UNCHANGED prompts, pc' = NotifyAll(pc), UNCHANGED state
    PROVE  WaitInv'
<1>1. pc \in [JobIds -> ProgramPoints]
  BY CoreTypes DEF Functional
<1>2. \A j \in JobIds : pc'[j] # "asleep" /\ (Waits(j)' <=> Waits(j))
  BY <1>1, Notified DEF Waits
<1>. QED  BY <1>2, WaitQuietStep

\* The prompt a job waits with is the only one it has.
LEMMA PromptOfJob ==
    ASSUME PromptsMatchJobs, NEW i \in JobIds, Waits(i)
    PROVE  /\ PromptOf(i) \in prompts /\ PromptOf(i).job = i
           /\ \A p \in prompts : p.job = i => p = PromptOf(i)
<1>1. \E p \in prompts : p.job = i
  BY DEF PromptsMatchJobs
<1>. QED  BY <1>1 DEF PromptOf, PromptsMatchJobs

LEMMA AskKeeps ==
    ASSUME CoreInv, WaitInv, NEW i \in JobIds, NEW kind, pc[i] \in {"check", "attempt"}, Ask(i, kind)
    PROVE  WaitInv'
<1>1. PICK new : new = [seq |-> nextPromptSeq, job |-> i, kind |-> kind, answer |-> NoAnswer]
  OBVIOUS
<1>2. prompts' = prompts \cup {new} /\ new.job = i
  BY <1>1 DEF Ask
<1>3. ~ Waits(i) /\ \A p \in prompts : p.job # i
  BY DEF WaitInv, PromptsMatchJobs, Waits
<1>4. /\ state'[i] = "WaitingForAnswer" /\ \A j \in JobIds \ {i} : state'[j] = state[j]
  BY CoreTypes DEF Ask, SetState, Functional
<1>5. PICK f : f = [pc EXCEPT ![i] = "await"]
  OBVIOUS
<1>6. /\ Waits(i)' /\ \A j \in JobIds \ {i} : Waits(j)' <=> Waits(j)
      /\ \A j \in JobIds : pc'[j] # "asleep"
  <2>1. /\ f \in [JobIds -> ProgramPoints] /\ f[i] = "await"
        /\ \A j \in JobIds \ {i} : f[j] = pc[j]
    BY <1>5, CoreTypes DEF Functional, ProgramPoints
  <2>2. pc' = NotifyAll(f)
    BY <1>5 DEF Ask
  <2>3. \A j \in JobIds : pc'[j] # "asleep" /\ (pc'[j] = "await" <=> f[j] \in {"await", "asleep"})
    BY <2>1, <2>2, Notified
  <2>. QED  BY <2>1, <2>3 DEF Waits
<1>7. PromptsMatchJobs'
  BY <1>2, <1>3, <1>4, <1>6 DEF WaitInv, PromptsMatchJobs
<1>8. NoLostWakeup'
  BY <1>6 DEF NoLostWakeup
<1>. QED  BY <1>7, <1>8 DEF WaitInv

LEMMA TakeAnswerKeeps ==
    ASSUME CoreInv, WaitInv, NEW i \in JobIds, TakeAnswer(i)
    PROVE  WaitInv'
<1>1. /\ prompts' = prompts \ {PromptOf(i)} /\ Waits(i)
      /\ UNCHANGED <<cancel, shuttingDown>>
  BY DEF TakeAnswer, RemovePrompt, Waits, tokenVars
<1>2. \A p \in prompts : p.job = i <=> p = PromptOf(i)
  BY <1>1, PromptOfJob DEF WaitInv
<1>3. \E point \in ProgramPoints \ {"await", "asleep"} : MoveTo(i, point)
  BY DEF TakeAnswer, GoOnWith, StopCancelled, ProgramPoints
<1>4. /\ ~ Waits(i)' /\ \A j \in JobIds \ {i} : pc'[j] = pc[j]
  BY <1>3, CoreTypes DEF MoveTo, Waits, Functional
<1>5. /\ state'[i] # "WaitingForAnswer" /\ \A j \in JobIds \ {i} : state'[j] = state[j]
  BY CoreTypes DEF TakeAnswer, SetState, StateAfterAnswer, Functional
<1>6. PromptsMatchJobs'
  <2> SUFFICES ASSUME NEW j \in JobIds
               PROVE  /\ state'[j] = "WaitingForAnswer" <=> Waits(j)'
                      /\ Waits(j)' <=> \E p \in prompts' : p.job = j
                      /\ \A p, q \in prompts' : p.job = j /\ q.job = j => p = q
    BY DEF PromptsMatchJobs
  <2>1. CASE j = i
    BY <1>1, <1>2, <1>4, <1>5, <2>1
  <2>2. CASE j # i
    <3>1. \A p : p \in prompts' /\ p.job = j <=> p \in prompts /\ p.job = j
      BY <1>1, <1>2, <2>2
    <3>2. (Waits(j)' <=> Waits(j)) /\ state'[j] = state[j]
      BY <1>4, <1>5, <2>2 DEF Waits
    <3>. QED  BY <3>1, <3>2 DEF WaitInv, PromptsMatchJobs
  <2>. QED  BY <2>1, <2>2
<1>7. NoLostWakeup'
  <2> SUFFICES ASSUME NEW j \in JobIds, pc'[j] = "asleep" PROVE ~ WakesUp(j)'
    BY DEF NoLostWakeup
  <2>1. j # i /\ pc[j] = "asleep" /\ Waits(j) /\ Waits(j)'
    BY <1>4 DEF Waits
  <2>2. PromptOf(j) \in prompts /\ PromptOf(j).job = j
    BY <2>1, PromptOfJob DEF WaitInv
  <2>3. PromptOf(j)' \in prompts' /\ PromptOf(j)'.job = j
    <3>1. \E p \in prompts' : p.job = j
      BY <1>6, <2>1 DEF PromptsMatchJobs
    <3>. QED  BY <3>1 DEF PromptOf
  <2>4. PromptOf(j)' = PromptOf(j)
    BY <1>1, <2>1, <2>2, <2>3, PromptOfJob DEF WaitInv
  <2>5. ~ WakesUp(j)
    BY <2>1 DEF WaitInv, NoLostWakeup
  <2>. QED  BY <1>1, <2>4, <2>5 DEF WakesUp
<1>. QED  BY <1>6, <1>7 DEF WaitInv

LEMMA AnswerKeeps ==
    ASSUME CoreInv, WaitInv, NEW p \in prompts, NEW choice, Answer(p, choice)
    PROVE  WaitInv'
<1>1. PICK q : q = [p EXCEPT !.answer = choice]
  OBVIOUS
<1>2. p \in Prompts
  BY CoreTypes DEF Functional
<1>3. q.job = p.job /\ p.job \in JobIds
  BY <1>1, <1>2 DEF Prompts
<1>4. prompts' = (prompts \ {p}) \cup {q} /\ UNCHANGED state
  BY <1>1 DEF Answer, queueVars
<1>5. \A j \in JobIds : pc'[j] # "asleep" /\ (Waits(j)' <=> Waits(j))
  BY CoreTypes, Notified DEF Answer, Waits, Functional
<1>6. PromptsMatchJobs'
  BY <1>3, <1>4, <1>5 DEF WaitInv, PromptsMatchJobs
<1>. QED  BY <1>5, <1>6 DEF WaitInv, NoLostWakeup

LEMMA WaitWorkerStep ==
    ASSUME CoreInv, WaitInv, NEW i \in JobIds, WorkerStep(i)
    PROVE  WaitInv'
<1>a. resumeAt[i] \in {"check", "attempt"}
  BY DEF CoreInv, WorkerTypeOK
<1>1. CASE Begin(i) \/ NextItem(i) \/ Poll(i) \/ PauseWait(i) \/ LastCheck(i) \/ Tick(i) \/ ItemDone(i)
  <2>1. /\ \E point \in ProgramPoints \ {"await", "asleep"} : MoveTo(i, point)
        /\ pc[i] \notin {"await", "asleep"} /\ UNCHANGED onlyPcMoves
    BY <1>1, <1>a DEF Begin, NextItem, Poll, PauseWait, LastCheck, Tick, ItemDone, StopCancelled, ProgramPoints
  <2>. QED  BY <2>1, WaitMoveStep DEF onlyPcMoves, queueVars, tokenVars, promptVars
<1>2. CASE Check(i)
  <2>1. CASE Ask(i, "Conflict")
    BY <1>2, <2>1, AskKeeps DEF Check
  <2>2. CASE /\ MoveTo(i, "attempt") \/ MoveTo(i, "nextItem")
             /\ UNCHANGED onlyPcMoves
    <3>1. \E point \in ProgramPoints \ {"await", "asleep"} : MoveTo(i, point)
      BY <2>2 DEF ProgramPoints
    <3>2. pc[i] \notin {"await", "asleep"}
      BY <1>2 DEF Check
    <3>. QED  BY <2>2, <3>1, <3>2, WaitMoveStep DEF onlyPcMoves, queueVars, tokenVars, promptVars
  <2>. QED  BY <1>2, <2>1, <2>2 DEF Check
<1>3. CASE AskError(i)
  BY <1>3, AskKeeps DEF AskError
<1>4. CASE FallAsleep(i)
  <2>1. pc'[i] = "asleep" /\ pc[i] = "await" /\ \A j \in JobIds \ {i} : pc'[j] = pc[j]
    BY <1>4, CoreTypes DEF FallAsleep, MoveTo, Functional
  <2>2. UNCHANGED <<prompts, cancel, shuttingDown, state>>
    BY <1>4 DEF FallAsleep, onlyPcMoves, queueVars, tokenVars, promptVars
  <2>3. \A j \in JobIds : Waits(j)' <=> Waits(j)
    BY <2>1 DEF Waits
  <2>4. PromptsMatchJobs'
    BY <2>2, <2>3 DEF WaitInv, PromptsMatchJobs
  <2>5. \A j \in JobIds : WakesUp(j)' <=> WakesUp(j)
    BY <2>2 DEF WakesUp, PromptOf
  <2>6. NoLostWakeup'
    BY <1>4, <2>1, <2>5 DEF WaitInv, NoLostWakeup, FallAsleep
  <2>. QED  BY <2>4, <2>6 DEF WaitInv
<1>5. CASE TakeAnswer(i)
  BY <1>5, TakeAnswerKeeps
<1>6. CASE EndJob(i)
  <2>1. result[i] # "WaitingForAnswer" /\ state[i] # "WaitingForAnswer"
    BY <1>6 DEF EndJob, CoreInv, WorkerTypeOK, FinalStates, WaitInv, PromptsMatchJobs, Waits
  <2>2. \A j \in JobIds : state'[j] = "WaitingForAnswer" <=> state[j] = "WaitingForAnswer"
    BY <1>6, <2>1, CoreTypes DEF EndJob, Finish, SetState, Functional
  <2>. QED  BY <1>6, <2>2, WaitMoveStep DEF EndJob, ProgramPoints, tokenVars, promptVars
<1>. QED  BY <1>1, <1>2, <1>3, <1>4, <1>5, <1>6 DEF WorkerStep

LEMMA WaitStartStep ==
    ASSUME CoreInv, WaitInv, StartStep
    PROVE  WaitInv'
<1>1. ASSUME NEW i \in JobIds, StartNext(i) PROVE WaitInv'
  <2>1. pc[i] \notin {"await", "asleep"} /\ state[i] = "Queued"
    BY <1>1 DEF StartNext, NextToRun, MayStart, WaitInv, PromptsMatchJobs, Waits
  <2>2. \A j \in JobIds : state'[j] = "WaitingForAnswer" <=> state[j] = "WaitingForAnswer"
    BY <1>1, <2>1, CoreTypes DEF StartNext, NextToRun, Functional
  <2>. QED  BY <1>1, <2>1, <2>2, WaitMoveStep DEF StartNext, ProgramPoints, tokenVars, promptVars
<1>2. ASSUME NEW i \in JobIds, ThreadCreated(i) PROVE WaitInv'
  BY <1>2, WaitMoveStep DEF ThreadCreated, ProgramPoints, queueVars, tokenVars, promptVars
<1>3. ASSUME NEW i \in JobIds, ThreadNotCreated(i) PROVE WaitInv'
  <2>1. pc[i] = "creating" /\ state[i] # "WaitingForAnswer"
    BY <1>3 DEF ThreadNotCreated, WaitInv, PromptsMatchJobs, Waits
  <2>2. \A j \in JobIds : state'[j] = "WaitingForAnswer" <=> state[j] = "WaitingForAnswer"
    BY <1>3, <2>1, CoreTypes DEF ThreadNotCreated, Finish, SetState, Functional
  <2>. QED  BY <1>3, <2>1, <2>2, WaitMoveStep DEF ThreadNotCreated, ProgramPoints, tokenVars, promptVars
<1>4. CASE StartDone
  <2>1. UNCHANGED <<prompts, cancel, shuttingDown, state>>
    BY <1>4 DEF StartDone, queueVars, tokenVars, promptVars
  <2>2. CASE holder = UiThread
    BY <1>4, <2>1, <2>2, WaitQuietStep DEF StartDone, Waits
  <2>3. CASE holder # UiThread
    <3>1. holder \in JobIds /\ pc[holder] = "exiting"
      BY <1>4, <2>3 DEF StartDone, MutexFree, CoreInv, WorkerTypeOK, Holders, HolderOK
    <3>2. PICK f : f = [pc EXCEPT ![holder] = "exited"]
      OBVIOUS
    <3>3. f \in [JobIds -> ProgramPoints] /\ \A j \in JobIds : Waits(j) <=> f[j] \in {"await", "asleep"}
      BY <3>1, <3>2, CoreTypes DEF Functional, ProgramPoints, Waits
    <3>4. pc' = NotifyAll(f)
      BY <1>4, <2>3, <3>2 DEF StartDone
    <3>5. \A j \in JobIds : pc'[j] # "asleep" /\ (Waits(j)' <=> Waits(j))
      BY <3>3, <3>4, Notified DEF Waits
    <3>. QED  BY <2>1, <3>5, WaitQuietStep
  <2>. QED  BY <2>2, <2>3
<1>. QED  BY <1>1, <1>2, <1>3, <1>4 DEF StartStep

LEMMA WaitPauseStep ==
    ASSUME CoreInv, WaitInv, NEW i \in JobIds, PauseJob(i) \/ ResumeJob(i), UNCHANGED otherThanPause
    PROVE  WaitInv'
<1>1. \/ UNCHANGED state
      \/ state[i] = "Running" /\ state' = [state EXCEPT ![i] = "Paused"]
      \/ state[i] = "Paused" /\ state' = [state EXCEPT ![i] = "Running"]
  BY DEF PauseJob, ResumeJob, Pausable, SetState, queueVars
<1>2. \A j \in JobIds : state'[j] = "WaitingForAnswer" <=> state[j] = "WaitingForAnswer"
  BY <1>1, CoreTypes DEF Functional
<1>. QED  BY <1>2, WaitQuietStep DEF otherThanPause, promptVars, Waits

LEMMA WaitUserCall ==
    ASSUME CoreInv, WaitInv, UserCall
    PROVE  WaitInv'
<1>1. ASSUME NEW d \in Submissions, EnqueueJob(d) PROVE WaitInv'
  <2>1. nextId \in JobIds /\ state[nextId] = "New"
    BY <1>1 DEF EnqueueJob, Enqueue, CoreInv, QueueInv, QueueTypeOK, JobIds
  <2>2. \A j \in JobIds : state'[j] = "WaitingForAnswer" <=> state[j] = "WaitingForAnswer"
    BY <1>1, <2>1, CoreTypes DEF EnqueueJob, Enqueue, Functional
  <2>. QED  BY <1>1, <2>2, WaitQuietStep DEF EnqueueJob, tokenVars, promptVars, Waits
<1>2. ASSUME NEW i \in JobIds, CancelQueuedJob(i) PROVE WaitInv'
  <2>1. \A j \in JobIds : state'[j] = "WaitingForAnswer" <=> state[j] = "WaitingForAnswer"
    BY <1>2, CoreTypes DEF CancelQueuedJob, CancelQueued, Functional
  <2>. QED  BY <1>2, <2>1, WaitQuietStep DEF CancelQueuedJob, tokenVars, promptVars, Waits
<1>3. CASE Destroy \/ \E i \in JobIds : CancelActiveJob(i)
  BY <1>3, WaitNotifyStep DEF Destroy, CancelActiveJob, queueVars, promptVars
<1>4. ASSUME NEW i \in JobIds, Pause(i) \/ Resume(i) PROVE WaitInv'
  BY <1>4, WaitPauseStep DEF Pause, Resume
<1>5. CASE PauseAll \/ ResumeAll
  BY <1>5, WaitQuietStep DEF PauseAll, ResumeAll, otherThanPause, queueVars, promptVars, Waits
<1>. QED  BY <1>1, <1>2, <1>3, <1>4, <1>5, AnswerKeeps DEF UserCall

LEMMA WaitStep == CoreInv /\ WaitInv /\ [Next]_vars => WaitInv'
<1> SUFFICES ASSUME CoreInv, WaitInv, [Next]_vars PROVE WaitInv'
  OBVIOUS
<1>1. CASE UNCHANGED vars
  BY <1>1, WaitQuietStep DEF vars, queueVars, tokenVars, promptVars, Waits
<1>2. CASE UiStep
  <2>1. ASSUME NEW i \in JobIds, AllStep(i) PROVE WaitInv'
    BY <2>1, WaitPauseStep DEF AllStep
  <2>2. ASSUME ~ \E i \in JobIds : AllStep(i)
        PROVE  UNCHANGED <<state, prompts, cancel, shuttingDown, pc>>
    BY <1>2, <2>2 DEF UiStep, AllDone, Join, TakeHandle, Destroyed, otherThanPause, queueVars,
       tokenVars, promptVars
  <2>. QED  BY <2>1, <2>2, WaitQuietStep DEF Waits
<1>. QED  BY <1>1, <1>2, WaitWorkerStep, WaitStartStep, WaitUserCall DEF Next, Gone

LEMMA WaitInit == Init => WaitInv
BY DEF Init, QueueInit, WaitInv, PromptsMatchJobs, NoLostWakeup, Waits

-----------------------------------------------------------------------------
(* Somebody restarts the queue: of the jobs still queued when StartRunnable  *)
(* gives up, the first can only be blocked by an active one.                  *)

LEMMA Least ==
    ASSUME NEW T \in SUBSET Nat, T # {}
    PROVE  \E x \in T : \A y \in T : x <= y
<1> DEFINE R == {ss \in Nat \X Nat : ss[1] < ss[2]}
<1>1. IsWellFoundedOn(R, Nat)
  BY NatLessThanWellFounded DEF OpToRel
<1>2. PICK x \in T : \A y \in T : ~ (<<y, x>> \in R)
  <2> HIDE DEF R
  <2>. QED  BY <1>1, WFMin
<1>3. \A y \in T : ~ (y < x)
  BY <1>2
<1>. QED  BY <1>3

LEMMA FirstQueuedIsBlockedByActive ==
    ASSUME CoreInv, NothingToStart, \E j \in JobIds : state[j] = "Queued"
    PROVE  \E k \in JobIds : AtWork(k)
<1>1. PICK i \in JobIds : state[i] = "Queued" /\ \A j \in JobIds : state[j] = "Queued" => i <= j
  <2> DEFINE T == {j \in JobIds : state[j] = "Queued"}
  <2>1. T \in SUBSET Nat /\ T # {}
    BY DEF JobIds
  <2>2. \E x \in T : \A y \in T : x <= y
    <3> HIDE DEF T
    <3>. QED  BY <2>1, Least
  <2>. QED  BY <2>2
<1>2. Blocked(i)
  BY <1>1 DEF NothingToStart, MayStart
<1>3. PICK j \in JobIds : IsActive(state[j]) \/ (state[j] = "Queued" /\ j < i)
  BY <1>2 DEF Blocked
<1>4. ~ (state[j] = "Queued" /\ j < i)
  BY <1>1, <1>3 DEF JobIds
<1>. QED  BY <1>3, <1>4 DEF AtWork, IsActive

\* A step with mutex_ free before and after starts no wait and ends no job.
LEMMA UnlockedStep ==
    ASSUME CoreInv, [Next]_vars, MutexFree, MutexFree'
    PROVE  \A j \in JobIds : /\ state'[j] = "Queued" => state[j] = "Queued"
                             /\ AtWork(j) => AtWork(j)'
<1>0. Functional
  BY CoreTypes
<1>a. ASSUME NEW i \in JobIds, NEW s \in ActiveStates, state' = [state EXCEPT ![i] = s]
      PROVE  \A j \in JobIds : /\ state'[j] = "Queued" => state[j] = "Queued"
                               /\ AtWork(j) => AtWork(j)'
  BY <1>0, <1>a DEF Functional, AtWork, ActiveStates
<1>1. CASE UNCHANGED vars
  BY <1>1 DEF vars, queueVars, AtWork
<1>2. ASSUME NEW i \in JobIds, WorkerStep(i)
      PROVE  state' = state \/ \E s \in ActiveStates : state' = [state EXCEPT ![i] = s]
  <2>1. ~ EndJob(i)
    BY DEF EndJob, MutexFree, Nobody, JobIds
  <2>. QED
    BY <1>2, <2>1 DEF WorkerStep, Begin, NextItem, Poll, PauseWait, LastCheck, Check, Tick, AskError,
       ItemDone, FallAsleep, TakeAnswer, StateAfterAnswer, Ask, SetState, onlyPcMoves, queueVars, ActiveStates
<1>3. CASE StartStep
  BY <1>3 DEF StartStep, StartNext, ThreadCreated, ThreadNotCreated, StartDone, CoreInv, HolderOK
<1>4. CASE UserCall
  <2>1. ASSUME NEW i \in JobIds, CancelQueuedJob(i)
        PROVE  \A j \in JobIds : /\ state'[j] = "Queued" => state[j] = "Queued"
                                 /\ AtWork(j) => AtWork(j)'
    BY <1>0, <2>1 DEF CancelQueuedJob, CancelQueued, Functional, AtWork, ActiveStates
  <2>2. ASSUME NEW i \in JobIds, Pause(i) \/ Resume(i)
        PROVE  state' = state \/ \E s \in ActiveStates : state' = [state EXCEPT ![i] = s]
    BY <2>2 DEF Pause, Resume, PauseJob, ResumeJob, SetState, queueVars, ActiveStates
  <2>3. \A d \in Submissions : ~ EnqueueJob(d)
    BY MaxJobsAssumption DEF EnqueueJob, MutexFree, Nobody, UiThread
  <2>4. CASE \/ PauseAll \/ ResumeAll \/ Destroy
             \/ \E i \in JobIds : CancelActiveJob(i)
             \/ \E p \in prompts, choice \in ConflictChoices \cup ErrorChoices : Answer(p, choice)
    BY <2>4 DEF PauseAll, ResumeAll, Destroy, CancelActiveJob, Answer, queueVars, AtWork
  <2>. QED  BY <1>4, <1>a, <2>1, <2>2, <2>3, <2>4 DEF UserCall, AtWork
<1>5. CASE UiStep
  <2>1. ASSUME NEW i \in JobIds, AllStep(i)
        PROVE  state' = state \/ \E s \in ActiveStates : state' = [state EXCEPT ![i] = s]
    BY <2>1 DEF AllStep, PauseJob, ResumeJob, SetState, queueVars, ActiveStates
  <2>2. ASSUME ~ \E i \in JobIds : AllStep(i)
        PROVE  state' = state
    BY <1>5, <2>2 DEF UiStep, Join, AllDone, TakeHandle, Destroyed, queueVars
  <2>. QED  BY <1>a, <2>1, <2>2 DEF AtWork
<1>. QED  BY <1>a, <1>1, <1>2, <1>3, <1>4, <1>5 DEF Next, Gone, AtWork

LEMMA RestartStep == CoreInv /\ SomebodyRestarts /\ [Next]_vars => SomebodyRestarts'
<1> SUFFICES ASSUME CoreInv, SomebodyRestarts, [Next]_vars, MutexFree', ~ shuttingDown',
                    NEW q \in JobIds, state'[q] = "Queued"
             PROVE  \E k \in JobIds : Alive(k)'
  BY DEF SomebodyRestarts
<1>1. AliveIsActive'
  BY NextCoreInv DEF CoreInv
<1>2. ~ shuttingDown
  BY DEF Next, Gone, WorkerStep, Begin, NextItem, Poll, PauseWait, LastCheck, Check, Tick, AskError,
     ItemDone, FallAsleep, TakeAnswer, EndJob, Ask, StartStep, StartNext, ThreadCreated, ThreadNotCreated,
     StartDone, UserCall, EnqueueJob, CancelQueuedJob, CancelActiveJob, Pause, Resume, PauseAll, ResumeAll,
     Answer, Destroy, UiStep, AllStep, Join, AllDone, TakeHandle, Destroyed, onlyPcMoves, otherThanPause,
     vars, CoreInv, WorkerTypeOK
<1>3. CASE MutexFree
  <2>1. \E k \in JobIds : Alive(k)
    BY <1>2, <1>3, UnlockedStep DEF SomebodyRestarts
  <2>2. \E k \in JobIds : AtWork(k)
    BY <2>1 DEF CoreInv, AliveIsActive
  <2>. QED  BY <1>1, <1>3, <2>2, UnlockedStep DEF AliveIsActive
<1>4. CASE ~ MutexFree
  <2>1. StartDone
    BY <1>4 DEF Next, Gone, WorkerStep, Begin, NextItem, Poll, PauseWait, LastCheck, Check, Tick, AskError,
       ItemDone, FallAsleep, TakeAnswer, EndJob, Ask, StartStep, StartNext, ThreadCreated, ThreadNotCreated,
       UserCall, EnqueueJob, CancelQueuedJob, CancelActiveJob, Pause, Resume, PauseAll, ResumeAll,
       Answer, Destroy, UiStep, AllStep, Join, AllDone, TakeHandle, Destroyed, UiCalls, onlyPcMoves,
       otherThanPause, vars, MutexFree
  <2>2. NothingToStart /\ state' = state
    BY <1>2, <2>1 DEF StartDone, StartsThreads, queueVars
  <2>3. \E k \in JobIds : AtWork(k)
    BY <2>2, FirstQueuedIsBlockedByActive
  <2>. QED  BY <1>1, <2>2, <2>3 DEF AliveIsActive, AtWork
<1>. QED  BY <1>3, <1>4

-----------------------------------------------------------------------------
(* The theorems. *)

LEMMA PromptInvariant == Spec => [](HeldInv /\ WaitInv /\ SomebodyRestarts)
<1>1. Init => HeldInv /\ WaitInv /\ SomebodyRestarts
  BY HeldInit, WaitInit DEF Init, QueueInit, SomebodyRestarts
<1>2. /\ CoreInv /\ HeldInv /\ WaitInv /\ SomebodyRestarts /\ [Next]_vars
      => (HeldInv /\ WaitInv /\ SomebodyRestarts)'
  BY HeldStep, WaitStep, RestartStep
<1>. QED  BY <1>1, <1>2, WorkerInvariant, PTL DEF Spec

\* The state the job list shows and the token the worker polls never disagree,
\* however pauses, answers, cancels and the destructor interleave.
THEOREM PausesAreShown == Spec => []PauseShown
<1>1. HeldInv => PauseShown
  BY DEF HeldInv
<1>. QED  BY <1>1, PromptInvariant, PTL

\* A job shown as waiting for an answer has exactly one open prompt, and no
\* other job has one (AwaitConflict, AwaitError).
THEOREM PromptsInStep == Spec => []PromptsMatchJobs
<1>1. WaitInv => PromptsMatchJobs
  BY DEF WaitInv
<1>. QED  BY <1>1, PromptInvariant, PTL

\* No worker sleeps on cv_ through what it waits for.
THEOREM NoWakeupIsLost == Spec => []NoLostWakeup
<1>1. WaitInv => NoLostWakeup
  BY DEF WaitInv
<1>. QED  BY <1>1, PromptInvariant, PTL

\* While jobs are queued some worker is alive whose end starts the next one.
THEOREM SomebodyIsLeft == Spec => []SomebodyRestarts
<1>. QED  BY PromptInvariant, PTL

\* When ResumeAll returns no live worker is held, although jobs went on
\* changing state between its lock scopes.
THEOREM AllAreResumed == Spec => ResumeAllResumes
<1>1. ASSUME CoreInv, HeldInv, [Next]_vars
      PROVE  [ui.call = "resumeAll" /\ ui'.call = "idle"
                => \A j \in JobIds : Alive(j) => ~paused[j]]_vars
  <2> SUFFICES ASSUME ui.call = "resumeAll", ui'.call = "idle", ui' # ui
               PROVE  \A j \in JobIds : Alive(j) => ~paused[j]
    OBVIOUS
  <2>a. ~ UserCall
    <3>1. ui # UiIdle
      BY DEF UiIdle
    <3>. QED  BY <3>1 DEF UserCall, EnqueueJob, CancelQueuedJob, CancelActiveJob, Pause, Resume, PauseAll,
         ResumeAll, Answer, Destroy, UiCalls
  <2>b. \A i \in JobIds : ~ WorkerStep(i)
    BY DEF WorkerStep, Begin, NextItem, Poll, PauseWait, LastCheck, Check, Tick, AskError,
       ItemDone, FallAsleep, TakeAnswer, EndJob, Ask, onlyPcMoves
  <2>c. ~ StartStep
    BY DEF StartStep, StartNext, ThreadCreated, ThreadNotCreated, StartDone
  <2>1. UiStep
    BY <1>1, <2>a, <2>b, <2>c DEF Next, Gone, vars
  <2>2. ASSUME NEW i \in JobIds, AllStep(i) PROVE FALSE
    BY <1>1, <2>2 DEF AllStep, CoreInv, WorkerTypeOK
  <2>3. AllDone
    BY <2>1, <2>2 DEF UiStep, Join, TakeHandle, Destroyed
  <2>4. ui.left = {}
    BY <2>3 DEF AllDone
  <2>. QED  BY <1>1, <2>4 DEF HeldInv, LeftToResume, CoreInv, AliveIsActive
<1>2. HeldInv /\ WaitInv /\ SomebodyRestarts => HeldInv
  OBVIOUS
<1>. QED  BY <1>1, <1>2, WorkerInvariant, PromptInvariant, PTL DEF Spec, ResumeAllResumes

-----------------------------------------------------------------------------
(* The inductive invariant of the loop. *)

\* The line picked in the job list is a job.
ChosenIsListed == loop \in {"picked", "confirmCancel"} => chosen.job \in JobIds

\* The snapshot to be cancelled is one of jobs.
DoomedAreJobs == doomed \subseteq JobIds

\* The worker lives until the loop is left.
LeftLast == shuttingDown => loop = "closed"

\* A snapshot of prompts holds unanswered ones.
AskedAreOpen ==
    loop = "asking" =>
        \A p \in asked : p.answer = NoAnswer /\ (p \in prompts \/ cancel[p.job])

\* While the snapshot of jobs is cancelled, each pending job is still on it or
\* has been told.
DoomedOrTold ==
    loop = "cancelling" =>
        \A j \in JobIds : /\ state[j] = "Queued" => j \in doomed
                          /\ AtWork(j) => j \in doomed \/ cancel[j]

\* While the UI thread asks about its own operation, and while it works.
CheckedAgainst ==
    loop \in {"fgConfirm", "fgWork"} =>
        \A j \in JobIds : /\ state[j] = "Queued" => j \in queuedThen
                          /\ AtWork(j) /\ UsesForegroundFiles(j) => j \in queuedThen

LoopInv == ChosenIsListed /\ DoomedAreJobs /\ LeftLast /\ AskedAreOpen /\ DoomedOrTold /\ CheckedAgainst

\* What is known of the worker.
BelowInv == CoreInv /\ HeldInv /\ WaitInv /\ SomebodyRestarts

-----------------------------------------------------------------------------
(* The loop uses the worker only as it may be used. *)

LEMMA CancelIsCall ==
    ASSUME NEW j \in JobIds, CancelJob(j)
    PROVE  [Next]_vars
BY DEF CancelJob, Next, UserCall, vars

LEMMA LoopUsesWorker == LoopInv /\ [CommanderNext]_commanderVars => [Next]_vars
<1> SUFFICES ASSUME LoopInv, CommanderNext PROVE [Next]_vars
  BY DEF commanderVars
<1>1. CASE WorkersMove
  BY <1>1 DEF WorkersMove, Next
<1>2. CASE LoopStep
  <2>1. CASE CancelNext
    <3>1. PICK j \in JobIds : CancelJob(j)
      BY <2>1 DEF CancelNext, LoopInv, DoomedAreJobs
    <3>. QED  BY <3>1, CancelIsCall
  <2>. QED
    BY <1>2, <2>1 DEF LoopStep, TakePrompts, AllAnswered, PollBackgroundJobs, AllCancelled, CountJobs,
       PeekEscape, Resolve, Leave, Next, UserCall, vars
<1>3. CASE UserAnswers
  <2>1. PICK choice \in ConflictChoices \cup ErrorChoices : AnswerNext(choice)
    BY <1>3 DEF UserAnswers
  <2>. QED  BY <2>1 DEF AnswerNext, Next, UserCall
<1>4. CASE UserActs
  <2>1. CASE KeyPause
    BY <2>1 DEF KeyPause, LoopInv, ChosenIsListed, Next, UserCall
  <2>2. CASE ConfirmCancel
    <3>1. chosen.job \in JobIds
      BY <2>2 DEF ConfirmCancel, LoopInv, ChosenIsListed
    <3>. QED  BY <2>2, <3>1, CancelIsCall DEF ConfirmCancel
  <2>3. CASE \E d \in Submissions : QueueJob(d)
    BY <2>3 DEF QueueJob, Next, UserCall
  <2>. QED
    BY <1>4, <2>1, <2>2, <2>3 DEF UserActs, NoKey, OpenJobList, LeaveJobList, KeyAll, KeyCancel, PickJob,
       Foreground, ForegroundConfirmed, ForegroundOver, KeyQuit, KeyQuitTooSmall, QuitWaits, QuitCancels,
       QuitStays, Next, UserCall
<1>. QED  BY <1>1, <1>2, <1>3, <1>4 DEF CommanderNext

-----------------------------------------------------------------------------
(* What the threads may do beside the loop. *)

\* No step of theirs queues a job, tells one to stop or begins the shutdown,
\* and a job at work was at work or queued before.
ThreadsOnly ==
    /\ UNCHANGED <<jobs, cancel, shuttingDown>>
    /\ \A j \in JobIds : /\ state'[j] = "Queued" => state[j] = "Queued"
                         /\ AtWork(j)' => AtWork(j) \/ state[j] = "Queued"

LEMMA OneJobMoves ==
    ASSUME CoreInv, NEW i \in JobIds, NEW s, state' = [state EXCEPT ![i] = s], s # "Queued",
           s \in ActiveStates => AtWork(i) \/ state[i] = "Queued",
           UNCHANGED <<jobs, cancel, shuttingDown>>
    PROVE  ThreadsOnly
<1>1. state'[i] = s /\ \A j \in JobIds \ {i} : state'[j] = state[j]
  BY CoreTypes DEF Functional
<1>. QED  BY <1>1 DEF ThreadsOnly, AtWork

LEMMA ThreadsMove ==
    ASSUME CoreInv, (\E j \in JobIds : WorkerStep(j)) \/ StartStep \/ UiStep \/ Gone
    PROVE  ThreadsOnly
<1>0. CASE UNCHANGED <<jobs, state, cancel, shuttingDown>>
  BY <1>0 DEF ThreadsOnly, AtWork
<1>1. ASSUME NEW i \in JobIds, WorkerStep(i) PROVE ThreadsOnly
  <2>1. CASE pc[i] \in {"check", "attempt"} /\ \E kind \in PromptKinds : Ask(i, kind)
    <3>1. AtWork(i)
      BY <2>1 DEF CoreInv, AliveIsActive, Alive
    <3>. QED  BY <2>1, <3>1, OneJobMoves DEF Ask, SetState, tokenVars
  <2>2. CASE TakeAnswer(i)
    <3>1. AtWork(i)
      BY <2>2 DEF TakeAnswer, CoreInv, AliveIsActive, Alive
    <3>. QED  BY <2>2, <3>1, OneJobMoves DEF TakeAnswer, SetState, StateAfterAnswer, tokenVars
  <2>3. CASE EndJob(i)
    <3>1. result[i] \in FinalStates
      BY DEF CoreInv, WorkerTypeOK
    <3>. QED  BY <2>3, <3>1, OneJobMoves DEF EndJob, Finish, SetState, FinalStates, ActiveStates, tokenVars
  <2>. QED
    BY <1>0, <1>1, <2>1, <2>2, <2>3 DEF WorkerStep, Begin, NextItem, Poll, PauseWait, LastCheck, Check, Tick,
       AskError, ItemDone, FallAsleep, onlyPcMoves, queueVars, tokenVars, PromptKinds
<1>2. CASE StartStep
  <2>1. ASSUME NEW i \in JobIds, StartNext(i) PROVE ThreadsOnly
    BY <2>1, OneJobMoves DEF StartNext, NextToRun, MayStart, tokenVars
  <2>2. ASSUME NEW i \in JobIds, ThreadNotCreated(i) PROVE ThreadsOnly
    BY <2>2, OneJobMoves DEF ThreadNotCreated, Finish, SetState, ActiveStates, tokenVars
  <2>. QED  BY <1>0, <1>2, <2>1, <2>2 DEF StartStep, ThreadCreated, StartDone, queueVars, tokenVars
<1>3. CASE UiStep
  <2>1. ASSUME NEW i \in JobIds, AllStep(i) PROVE ThreadsOnly
    <3>1. \/ UNCHANGED state
          \/ AtWork(i) /\ \E s \in ActiveStates : state' = [state EXCEPT ![i] = s]
      BY <2>1 DEF AllStep, PauseJob, ResumeJob, Pausable, SetState, queueVars, AtWork, ActiveStates
    <3>2. UNCHANGED <<jobs, cancel, shuttingDown>>
      BY <2>1 DEF AllStep, PauseJob, ResumeJob, SetState, queueVars, otherThanPause
    <3>3. "Queued" \notin ActiveStates
      BY DEF ActiveStates
    <3>. QED  BY <1>0, <3>1, <3>2, <3>3, OneJobMoves
  <2>. QED
    BY <1>0, <1>3, <2>1 DEF UiStep, Join, AllDone, TakeHandle, Destroyed, otherThanPause, queueVars, tokenVars
<1>4. CASE Gone
  BY <1>0, <1>4 DEF Gone, vars, queueVars, tokenVars
<1>. QED  BY <1>1, <1>2, <1>3, <1>4

\* An open prompt leaves the list only when it is answered or its job was
\* told to stop.
LEMMA PromptLeaves ==
    ASSUME CoreInv, WaitInv, ~ shuttingDown,
           (\E j \in JobIds : WorkerStep(j)) \/ StartStep \/ UiStep \/ Gone,
           NEW p \in prompts, p.answer = NoAnswer, p \notin prompts'
    PROVE  cancel[p.job]
<1>1. PICK i \in JobIds : TakeAnswer(i)
  BY DEF WorkerStep, Begin, NextItem, Poll, PauseWait, LastCheck, Check, Tick, AskError, ItemDone,
     FallAsleep, EndJob, Ask, StartStep, StartNext, ThreadCreated, ThreadNotCreated, StartDone, UiStep,
     AllStep, Join, AllDone, TakeHandle, Destroyed, Gone, onlyPcMoves, otherThanPause, promptVars, vars
<1>2. p = PromptOf(i) /\ Waits(i)
  BY <1>1 DEF TakeAnswer, RemovePrompt, Waits
<1>3. p.job = i
  BY <1>2, PromptOfJob DEF WaitInv
<1>. QED  BY <1>1, <1>2, <1>3 DEF TakeAnswer, WakesUp

-----------------------------------------------------------------------------
(* The invariant is kept. *)

LEMMA LoopInvBesideThreads ==
    ASSUME BelowInv, LoopInv, WorkersMove
    PROVE  LoopInv'
<1>1. UNCHANGED <<loop, chosen, asked, doomed, foreground, queuedThen>>
  BY DEF WorkersMove, loopVars, memory, quitVars, fgVars
<1>2. ThreadsOnly
  BY ThreadsMove DEF WorkersMove, BelowInv
<1>3. ChosenIsListed' /\ DoomedAreJobs' /\ LeftLast'
  BY <1>1, <1>2 DEF LoopInv, ChosenIsListed, DoomedAreJobs, LeftLast, ThreadsOnly
<1>4. AskedAreOpen'
  <2> SUFFICES ASSUME loop = "asking", NEW p \in asked
               PROVE  p.answer = NoAnswer /\ (p \in prompts' \/ cancel[p.job])
    BY <1>1, <1>2 DEF AskedAreOpen, ThreadsOnly
  <2>1. p.answer = NoAnswer /\ (p \in prompts \/ cancel[p.job]) /\ ~ shuttingDown
    BY DEF LoopInv, AskedAreOpen, LeftLast
  <2>. QED  BY <2>1, PromptLeaves DEF WorkersMove, BelowInv
<1>5. DoomedOrTold'
  BY <1>1, <1>2 DEF LoopInv, DoomedOrTold, ThreadsOnly
<1>6. CheckedAgainst'
  <2>1. \A j \in JobIds : UsesForegroundFiles(j)' <=> UsesForegroundFiles(j)
    BY <1>1, <1>2 DEF UsesForegroundFiles, ThreadsOnly
  <2>. QED  BY <1>1, <1>2, <2>1 DEF LoopInv, CheckedAgainst, ThreadsOnly
<1>. QED  BY <1>3, <1>4, <1>5, <1>6 DEF LoopInv

\* Where no snapshot is used, there is only the choice to look at.
LEMMA NoSnapshot ==
    ASSUME ChosenIsListed', DoomedAreJobs', ~ shuttingDown \/ loop' = "closed", UNCHANGED shuttingDown \/ loop' = "closed",
           loop' \notin {"asking", "cancelling", "fgConfirm", "fgWork"}
    PROVE  LoopInv'
BY DEF LoopInv, LeftLast, AskedAreOpen, DoomedOrTold, CheckedAgainst

\* No active job uses what the UI thread was allowed to work on.
LEMMA BusyTestIsExact ==
    ASSUME CoreInv, NEW paths \in ForegroundOps, ~ ActiveJobTouching(paths), NEW j \in JobIds, AtWork(j)
    PROVE  ~ \E p \in UsedPaths(jobs[j]), q \in paths : SameTree(p, q)
<1>1. jobs[j] \in Submissions
  BY DEF CoreInv, QueueInv, QueueTypeOK, AtWork, ActiveStates
<1>2. JobPaths(jobs[j]) = UsedPaths(jobs[j]) /\ UsedPaths(jobs[j]) \subseteq Paths
  BY <1>1, PathsOfSubmission
<1>3. paths \subseteq Paths
  BY ForegroundAssumption
<1>. QED  BY <1>2, <1>3, LexicalTestIsSameTree DEF ActiveJobTouching, AtWork, IsActive

\* The next job of the snapshot is cancelled.
LEMMA CancelNextKeeps ==
    ASSUME BelowInv, LoopInv, CancelNext
    PROVE  LoopInv'
<1>0. Functional
  BY CoreTypes DEF BelowInv
<1>1. PICK i \in doomed : CancelJob(i) /\ doomed' = doomed \ {i}
  BY DEF CancelNext
<1>2. loop = "cancelling" /\ loop' = loop
  BY DEF CancelNext
<1>3. /\ UNCHANGED shuttingDown
      /\ \A j \in JobIds : /\ state'[j] = "Queued" => state[j] = "Queued" /\ j # i
                           /\ AtWork(j)' => AtWork(j) /\ (j = i => cancel'[j])
                           /\ cancel[j] => cancel'[j]
  <2>1. CASE CancelQueuedJob(i)
    BY <1>0, <2>1 DEF CancelQueuedJob, CancelQueued, Functional, AtWork, ActiveStates, tokenVars
  <2>2. CASE CancelActiveJob(i)
    BY <1>0, <2>2 DEF CancelActiveJob, IsActive, Functional, AtWork, ActiveStates, queueVars
  <2>3. CASE state[i] \notin ActiveStates \cup {"Queued"} /\ UNCHANGED vars
    BY <2>3 DEF AtWork, vars, queueVars, tokenVars
  <2>. QED  BY <1>1, <2>1, <2>2, <2>3 DEF CancelJob
<1>4. DoomedOrTold'
  BY <1>1, <1>2, <1>3 DEF LoopInv, DoomedOrTold
<1>5. UNCHANGED chosen
  BY DEF CancelNext
<1>. QED
  BY <1>1, <1>2, <1>3, <1>4, <1>5 DEF LoopInv, ChosenIsListed, DoomedAreJobs, LeftLast, AskedAreOpen, CheckedAgainst

LEMMA LoopInvLoopStep ==
    ASSUME BelowInv, LoopInv, LoopStep
    PROVE  LoopInv'
<1>1. CASE TakePrompts
  <2>1. /\ loop = "prompts" /\ loop' = "asking"
        /\ UNCHANGED <<prompts, shuttingDown, doomed>>
        /\ asked' = {p \in prompts : p.answer = NoAnswer}
    BY <1>1 DEF TakePrompts, GoTo, vars, promptVars, quitVars
  <2>. QED
    BY <2>1 DEF LoopInv, ChosenIsListed, DoomedAreJobs, LeftLast, AskedAreOpen, DoomedOrTold, CheckedAgainst
<1>2. CASE AllAnswered \/ PollBackgroundJobs \/ AllCancelled \/ CountJobs \/ Resolve
  <2>1. /\ UNCHANGED <<shuttingDown>>
        /\ loop # "closed"
        /\ loop' \in {"poll", "escape", "input", "resolve", "prompts", "leaving"}
    BY <1>2 DEF AllAnswered, PollBackgroundJobs, AllCancelled, CountJobs, Resolve, OnlyGoTo, GoTo, vars
  <2>2. UNCHANGED doomed
    BY <1>2 DEF AllAnswered, PollBackgroundJobs, AllCancelled, CountJobs, Resolve, OnlyGoTo, memory, quitVars
  <2>. QED  BY <2>1, <2>2, NoSnapshot DEF LoopInv, ChosenIsListed, DoomedAreJobs, LeftLast
<1>3. CASE CancelNext
  BY <1>3, CancelNextKeeps
<1>4. CASE PeekEscape
  BY <1>4 DEF PeekEscape, GoTo, vars, queueVars, tokenVars, Pending, IsActive, AtWork, LoopInv,
     ChosenIsListed, DoomedAreJobs, LeftLast, AskedAreOpen, DoomedOrTold, CheckedAgainst
<1>5. CASE Leave
  BY <1>5, NoSnapshot DEF Leave, OnlyGoTo, memory, quitVars, LoopInv, ChosenIsListed, DoomedAreJobs
<1>. QED  BY <1>1, <1>2, <1>3, <1>4, <1>5 DEF LoopStep

LEMMA LoopInvAnswer ==
    ASSUME BelowInv, LoopInv, NEW choice, AnswerNext(choice)
    PROVE  LoopInv'
<1>1. PICK p \in asked : /\ (p \in prompts /\ Answer(p, choice)) \/ (p \notin prompts /\ UNCHANGED vars)
                         /\ asked' = asked \ {p}
  BY DEF AnswerNext
<1>2. loop = "asking" /\ UNCHANGED <<loop, shuttingDown, cancel, doomed>>
  BY <1>1 DEF AnswerNext, Answer, vars, tokenVars, quitVars
<1>3. \A q \in prompts \ {p} : q \in prompts'
  BY <1>1 DEF Answer, vars, promptVars
<1>. QED
  BY <1>1, <1>2, <1>3 DEF LoopInv, ChosenIsListed, DoomedAreJobs, LeftLast, AskedAreOpen, DoomedOrTold, CheckedAgainst

LEMMA LoopInvUserActs ==
    ASSUME BelowInv, LoopInv, UserActs
    PROVE  LoopInv'
<1>1. ASSUME NEW paths \in ForegroundOps, Foreground(paths) PROVE LoopInv'
  <2>1. /\ UNCHANGED <<shuttingDown, jobs, state>> /\ loop = "input" /\ loop' = "fgConfirm"
        /\ foreground' = paths /\ queuedThen' = {j \in JobIds : state[j] = "Queued"}
        /\ ~ ActiveJobTouching(paths)
    BY <1>1 DEF Foreground, GoTo, vars, queueVars
  <2>2. \A j \in JobIds : AtWork(j)' => ~ UsesForegroundFiles(j)'
    BY <2>1, BusyTestIsExact DEF UsesForegroundFiles, BelowInv, AtWork
  <2>3. CheckedAgainst'
    BY <2>1, <2>2 DEF CheckedAgainst
  <2>4. UNCHANGED doomed
    BY <1>1 DEF Foreground, quitVars
  <2>. QED  BY <2>1, <2>3, <2>4 DEF LoopInv, ChosenIsListed, DoomedAreJobs, LeftLast, AskedAreOpen, DoomedOrTold
<1>2. CASE ForegroundConfirmed
  BY <1>2 DEF ForegroundConfirmed, OnlyGoTo, memory, quitVars, fgVars, vars, queueVars, AtWork, UsesForegroundFiles,
     LoopInv, ChosenIsListed, DoomedAreJobs, LeftLast, AskedAreOpen, DoomedOrTold, CheckedAgainst
<1>3. CASE QuitCancels
  BY <1>3 DEF QuitCancels, GoTo, vars, queueVars, tokenVars, Pending, IsActive, AtWork, LoopInv,
     ChosenIsListed, DoomedAreJobs, LeftLast, AskedAreOpen, DoomedOrTold, CheckedAgainst
<1>4. ASSUME NEW j \in JobIds, PickJob(j) PROVE LoopInv'
  BY <1>4, NoSnapshot DEF PickJob, GoTo, vars, quitVars, LoopInv, ChosenIsListed, DoomedAreJobs, LeftLast
<1>5. CASE KeyCancel
  BY <1>5, NoSnapshot DEF KeyCancel, GoTo, vars, quitVars, LoopInv, ChosenIsListed, DoomedAreJobs, LeftLast
<1>6. CASE \/ NoKey \/ OpenJobList \/ LeaveJobList \/ KeyPause \/ KeyAll \/ ConfirmCancel
           \/ \E d \in Submissions : QueueJob(d)
           \/ ForegroundOver \/ KeyQuit \/ KeyQuitTooSmall \/ QuitWaits \/ QuitStays
  <2>1. loop # "closed" /\ loop' \in {"prompts", "jobList", "resolve", "quitAsk", "leaving", "countJobs"}
    BY <1>6 DEF NoKey, OpenJobList, LeaveJobList, KeyPause, KeyAll, ConfirmCancel, QueueJob, ForegroundOver,
       KeyQuit, KeyQuitTooSmall, QuitWaits, QuitStays, OnlyGoTo, GoTo
  <2>2. UNCHANGED shuttingDown
    BY <1>6 DEF NoKey, OpenJobList, LeaveJobList, KeyPause, KeyAll, ConfirmCancel, QueueJob, ForegroundOver,
       KeyQuit, KeyQuitTooSmall, QuitWaits, QuitStays, vars, Resume, Pause, otherThanPause, PauseAll,
       ResumeAll, CancelJob, CancelQueuedJob, CancelActiveJob, EnqueueJob
  <2>3. UNCHANGED doomed
    BY <1>6 DEF NoKey, OpenJobList, LeaveJobList, KeyPause, KeyAll, ConfirmCancel, QueueJob, ForegroundOver,
       KeyQuit, KeyQuitTooSmall, QuitWaits, QuitStays, OnlyGoTo, memory, quitVars
  <2>. QED  BY <2>1, <2>2, <2>3, NoSnapshot DEF LoopInv, ChosenIsListed, DoomedAreJobs, LeftLast
<1>. QED  BY <1>1, <1>2, <1>3, <1>4, <1>5, <1>6 DEF UserActs

LEMMA LoopInvStep == BelowInv /\ LoopInv /\ [CommanderNext]_commanderVars => LoopInv'
<1> SUFFICES ASSUME BelowInv, LoopInv, [CommanderNext]_commanderVars PROVE LoopInv'
  OBVIOUS
<1>1. CASE UNCHANGED commanderVars
  BY <1>1 DEF commanderVars, loopVars, memory, quitVars, fgVars, vars, queueVars, tokenVars, promptVars,
     LoopInv, ChosenIsListed, DoomedAreJobs, LeftLast, AskedAreOpen, DoomedOrTold, CheckedAgainst, AtWork, UsesForegroundFiles
<1>. QED
  BY <1>1, LoopInvBesideThreads, LoopInvLoopStep, LoopInvAnswer, LoopInvUserActs
     DEF CommanderNext, UserAnswers

LEMMA LoopInvInit == CommanderInit => LoopInv
BY DEF CommanderInit, Init, LoopInv, ChosenIsListed, DoomedAreJobs, LeftLast, AskedAreOpen, DoomedOrTold, CheckedAgainst

-----------------------------------------------------------------------------
(* The theorems. *)

LEMMA BelowStep == BelowInv /\ [Next]_vars => BelowInv'
BY NextCoreInv, HeldStep, WaitStep, RestartStep DEF BelowInv

LEMMA BelowInit == Init => BelowInv
BY InitCoreInv, HeldInit, WaitInit DEF BelowInv, SomebodyRestarts, Init, QueueInit

\* The loop's snapshots are as good as the loop needs them to be, in every
\* reachable state, beside a worker in which its own invariants hold.
THEOREM CommanderInvariant == CommanderSpec => [](BelowInv /\ LoopInv)
<1>1. CommanderInit => BelowInv /\ LoopInv
  BY BelowInit, LoopInvInit DEF CommanderInit
<1>2. BelowInv /\ LoopInv /\ [CommanderNext]_commanderVars => (BelowInv /\ LoopInv)'
  BY LoopUsesWorker, BelowStep, LoopInvStep
<1>. QED  BY <1>1, <1>2, PTL DEF CommanderSpec

\* The program implements the worker's specification: wmain calls JobWorker
\* only as any user of it may, so every safety theorem about the worker holds
\* of the whole program.
THEOREM CommanderUsesWorker == CommanderSpec => Spec
<1>1. CommanderInit => Init
  BY DEF CommanderInit
<1>2. LoopInv /\ [CommanderNext]_commanderVars => [Next]_vars
  BY LoopUsesWorker
<1>. QED  BY <1>1, <1>2, CommanderInvariant, PTL DEF CommanderSpec, Spec

\* While the UI thread works on files the only worker it can meet there is one
\* whose job was queued when RefuseIfBusyWithJob looked.
THEOREM ForegroundIsChecked == CommanderSpec => []ForegroundMeetsOnlyQueued
<1>1. BelowInv /\ LoopInv => ForegroundMeetsOnlyQueued
  BY DEF BelowInv, CoreInv, AliveIsActive, LoopInv, CheckedAgainst, ForegroundMeetsOnlyQueued
<1>. QED  BY <1>1, CommanderInvariant, PTL

\* A prompt of the snapshot is still open when its dialog is answered, unless
\* its job was told to stop (ServiceJobPrompts).
THEOREM AnswersAreUsed == CommanderSpec => []NoAnswerWasted
<1>1. LoopInv => NoAnswerWasted
  BY DEF LoopInv, AskedAreOpen, NoAnswerWasted
<1>. QED  BY <1>1, CommanderInvariant, PTL

\* Cancelling and quitting reaches every job, also those that start while the
\* others are being cancelled (ConfirmQuitWithJobs).
THEOREM AllAreCancelled == CommanderSpec => []CancelReachesAll
<1>1. BelowInv /\ LoopInv => CancelReachesAll
  BY DEF BelowInv, CoreInv, AliveIsActive, LoopInv, DoomedOrTold, CancelReachesAll
<1>. QED  BY <1>1, CommanderInvariant, PTL
=============================================================================
