--------------------------- MODULE OperationQueue ---------------------------
(***************************************************************************)
(* The pure job model behind the background copy, move and delete jobs     *)
(* (OperationQueue.h/.cpp): which jobs wait, which one may start next, and *)
(* which files an active job is using.  It has no threads; JobWorker.tla   *)
(* adds the mutex, the worker threads and the UI thread's calls.           *)
(***************************************************************************)
EXTENDS Naturals, Sequences

CONSTANTS
    MaxJobs,      \* bound: how many jobs are ever enqueued
    Submissions,  \* the jobs the user may submit: [kind, sources, destination]
    Fold          \* towlower on path components: [component -> component]

(***************************************************************************)
(* A path is the sequence of its components, the first one being the drive *)
(* or share it is on, written as the user or the panel spelled it.  A      *)
(* Delete has the destination <<>>.                                        *)
(***************************************************************************)
Kinds == {"Copy", "Move", "Delete"}
Components == DOMAIN Fold
Paths == Seq(Components) \ {<<>>}

ASSUME MaxJobsAssumption == MaxJobs \in Nat
ASSUME FoldAssumption == Fold \in [Components -> Components]
ASSUME SubmissionsAssumption ==
    \A d \in Submissions :
        /\ DOMAIN d = {"kind", "sources", "destination"}
        /\ d.kind \in Kinds
        /\ d.sources \in Seq(Paths) \ {<<>>}
        /\ IF d.kind = "Delete" THEN d.destination = <<>> ELSE d.destination \in Paths

VARIABLES
    jobs,         \* jobs_: what was submitted under each id
    state,        \* jobs_[id].state; "New" = no such id yet, "Removed" = erased
    nextId        \* nextId_

queueVars == <<jobs, state, nextId>>

JobIds == 1..MaxJobs
NoJob == [kind |-> "None", sources |-> <<>>, destination |-> <<>>]
ActiveStates == {"Running", "WaitingForAnswer", "Paused"}
FinalStates == {"Done", "Cancelled", "Failed"}
JobStates == {"New", "Queued", "Removed"} \cup ActiveStates \cup FinalStates

-----------------------------------------------------------------------------
(* Which files and which volume a job uses. *)

\* A likely slip: a path is only compared with the ones below it.
IsSameOrInsideOnlySame(base, p) == base # <<>> /\ p = base
IsSameOrInside(base, p) ==
    /\ base # <<>>
    /\ Len(base) <= Len(p)
    /\ \A i \in 1..Len(base) : base[i] = p[i]

OverlapKey(p) == [i \in 1..Len(p) |-> Fold[p[i]]]

PathsOverlapLexically(a, b) ==
    \/ IsSameOrInside(OverlapKey(a), OverlapKey(b))
    \/ IsSameOrInside(OverlapKey(b), OverlapKey(a))

\* A likely slip: only the destination is protected, not what is read.
JobPathsDestinationOnly(d) == {d.destination} \ {<<>>}
JobPaths(d) ==
    {d.sources[i] : i \in 1..Len(d.sources)}
    \cup (IF d.kind = "Delete" THEN {} ELSE {d.destination} \ {<<>>})

JobsOverlap(d, e) ==
    \E p \in JobPaths(d), q \in JobPaths(e) : PathsOverlapLexically(p, q)

\* FindFilesystemRoot keeps the spelling it is given: no Fold here.
VolumeKey(p) == p[1]

\* A likely slip: the volume of the source instead of the one written to.
VolumeOfSource(d) == VolumeKey(d.sources[1])
Volume(d) == VolumeKey(IF d.destination = <<>> THEN d.sources[1] ELSE d.destination)

-----------------------------------------------------------------------------
(* Which job may start. *)

\* A likely slip: Paused was added to the states later than the others.
IsActiveButNotPaused(s) == s \in {"Running", "WaitingForAnswer"}
IsActive(s) == s \in ActiveStates

\* A likely slip: an overlapping job queued earlier is overtaken.
BlockedByActiveOnly(i) ==
    \E j \in JobIds \ {i} :
        /\ IsActive(state[j])
        /\ Volume(jobs[j]) = Volume(jobs[i]) \/ JobsOverlap(jobs[i], jobs[j])
Blocked(i) ==
    \E j \in JobIds \ {i} :
        \/ IsActive(state[j]) /\ Volume(jobs[j]) = Volume(jobs[i])
        \/ /\ IsActive(state[j]) \/ (state[j] = "Queued" /\ j < i)
           /\ JobsOverlap(jobs[i], jobs[j])

MayStart(i) == state[i] = "Queued" /\ ~Blocked(i)

\* ActiveJobTouching: is some active job using one of these paths?
ActiveJobTouching(paths) ==
    \E j \in JobIds :
        /\ IsActive(state[j])
        /\ \E p \in JobPaths(jobs[j]), q \in paths : PathsOverlapLexically(p, q)

-----------------------------------------------------------------------------
(* The operations. *)

QueueInit ==
    /\ jobs = [j \in JobIds |-> NoJob]
    /\ state = [j \in JobIds |-> "New"]
    /\ nextId = 1

\* A likely slip: the id is handed out again.
EnqueueReusingId(d) ==
    /\ nextId \in JobIds
    /\ jobs' = [jobs EXCEPT ![nextId] = d]
    /\ state' = [state EXCEPT ![nextId] = "Queued"]
    /\ UNCHANGED nextId
Enqueue(d) ==
    /\ nextId \in JobIds
    /\ jobs' = [jobs EXCEPT ![nextId] = d]
    /\ state' = [state EXCEPT ![nextId] = "Queued"]
    /\ nextId' = nextId + 1

CancelQueued(j) ==
    /\ state[j] = "Queued"
    /\ state' = [state EXCEPT ![j] = "Removed"]
    /\ UNCHANGED <<jobs, nextId>>

\* The first job of the list that may start becomes Running.
NextToRun(i) ==
    /\ MayStart(i)
    /\ \A j \in JobIds : MayStart(j) => i <= j
    /\ state' = [state EXCEPT ![i] = "Running"]
    /\ UNCHANGED <<jobs, nextId>>

SetState(j, s) ==
    /\ state' = [state EXCEPT ![j] = s]
    /\ UNCHANGED <<jobs, nextId>>

Finish(j, s) == SetState(j, s)

\* What the owner of the queue does with it: an active job moves between the
\* active states and then ends once.
QueueNext ==
    \/ \E d \in Submissions : Enqueue(d)
    \/ \E j \in JobIds :
        \/ CancelQueued(j)
        \/ NextToRun(j)
        \/ IsActive(state[j]) /\ \E s \in ActiveStates : SetState(j, s)
        \/ IsActive(state[j]) /\ \E s \in FinalStates : Finish(j, s)

QueueSpec == QueueInit /\ [][QueueNext]_queueVars

-----------------------------------------------------------------------------
(* What must hold.  These definitions do not use the code's own overlap    *)
(* test or its IsActive, so that they can disagree with them.              *)

QueueTypeOK ==
    /\ jobs \in [JobIds -> Submissions \cup {NoJob}]
    /\ state \in [JobIds -> JobStates]
    /\ nextId \in Nat /\ nextId >= 1
    /\ \A j \in JobIds : state[j] = "New" <=> nextId <= j
    /\ \A j \in JobIds : state[j] # "New" => jobs[j] \in Submissions

\* One path is the other, or lies on the way to it, in any spelling.
SameTree(p, q) ==
    \A i \in (1..Len(p)) \cap (1..Len(q)) : Fold[p[i]] = Fold[q[i]]

SourcePaths(d) == {d.sources[i] : i \in 1..Len(d.sources)}
UsedPaths(d) ==
    IF d.kind = "Delete" THEN SourcePaths(d) ELSE SourcePaths(d) \cup {d.destination}

SharesFiles(d, e) == \E p \in UsedPaths(d), q \in UsedPaths(e) : SameTree(p, q)

\* The drive or share a job writes to or deletes from, whatever its spelling.
WrittenDrive(d) ==
    Fold[IF d.kind = "Delete" THEN d.sources[1][1] ELSE d.destination[1]]

AtWork(j) == state[j] \in ActiveStates
HasStarted(j) == AtWork(j) \/ state[j] \in FinalStates

\* Two jobs that are running, waiting for an answer or paused never use
\* overlapping paths (NextToRun's "same files" rule; a paused job keeps its
\* paths, JobWorker.h).
FilesExclusive ==
    \A j, k \in JobIds :
        j # k /\ AtWork(j) /\ AtWork(k) => ~SharesFiles(jobs[j], jobs[k])

\* D1, OperationQueue.h: jobs on the same volume are serialized.
OneJobPerVolume ==
    \A j, k \in JobIds :
        j # k /\ AtWork(j) /\ AtWork(k) => WrittenDrive(jobs[j]) # WrittenDrive(jobs[k])

\* Jobs on the same files keep their queue order: a later one has not
\* started while an earlier overlapping one still waits (OperationQueue.h:
\* "a delete ... queued after a copy ... never overtakes the copy").
QueueOrderKept ==
    \A j, k \in JobIds :
        j < k /\ SharesFiles(jobs[j], jobs[k]) /\ HasStarted(k) => state[j] # "Queued"

\* No volume is spelled in two ways among the submissions.
RootsSpelledAlike ==
    \A d, e \in Submissions : Fold[Volume(d)] = Fold[Volume(e)] => Volume(d) = Volume(e)

(* The promise the queue implements. *)
StatusOf(s) ==
    IF s = "New" THEN "absent"
    ELSE IF s = "Queued" THEN "waiting"
    ELSE IF s \in ActiveStates THEN "atWork" ELSE "over"

Promise == INSTANCE ExclusiveJobs WITH
    Ids <- JobIds,
    Requests <- Submissions,
    Nothing <- NoJob,
    FileConflicts <- {c \in Submissions \X Submissions : SharesFiles(c[1], c[2])},
    Conflicts <- {c \in Submissions \X Submissions :
                     SharesFiles(c[1], c[2]) \/ Volume(c[1]) = Volume(c[2])},
    request <- jobs,
    status <- [j \in JobIds |-> StatusOf(state[j])]

\* Every behaviour of the queue is one the promise allows: conflicting jobs
\* never at work together, submission order on shared files, no job twice.
KeepsPromise == Promise!Spec
=============================================================================
