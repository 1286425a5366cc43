---------------------------- MODULE ExclusiveJobs ----------------------------
(***************************************************************************)
(* What the job queue promises, without saying how: jobs are submitted in  *)
(* a fixed order, each one waits, is at work, and is over for good; two    *)
(* conflicting jobs are never at work together, and jobs that use the same *)
(* files go to work in the order they were submitted.                      *)
(***************************************************************************)
EXTENDS Naturals

CONSTANTS
    Ids,            \* the jobs' numbers, in the order of submission
    Requests,       \* what a job may ask for
    Nothing,        \* the request of a number not submitted yet
    FileConflicts,  \* pairs of requests that use the same files
    Conflicts       \* pairs of requests that must not be served together

VARIABLES request, status

abstractVars == <<request, status>>

Statuses == {"absent", "waiting", "atWork", "over"}

Init ==
    /\ status = [j \in Ids |-> "absent"]
    /\ request = [j \in Ids |-> Nothing]

Submit(j, d) ==
    /\ status[j] = "absent"
    /\ \A k \in Ids : status[k] # "absent" => k < j
    /\ request' = [request EXCEPT ![j] = d]
    /\ status' = [status EXCEPT ![j] = "waiting"]

Begin(j) ==
    /\ status[j] = "waiting"
    /\ \A k \in Ids \ {j} :
        /\ status[k] = "atWork" => <<request[j], request[k]>> \notin Conflicts
        /\ status[k] = "waiting" /\ k < j => <<request[j], request[k]>> \notin FileConflicts
    /\ status' = [status EXCEPT ![j] = "atWork"]
    /\ UNCHANGED request

\* Cancelled before it began.
Drop(j) ==
    /\ status[j] = "waiting"
    /\ status' = [status EXCEPT ![j] = "over"]
    /\ UNCHANGED request

End(j) ==
    /\ status[j] = "atWork"
    /\ status' = [status EXCEPT ![j] = "over"]
    /\ UNCHANGED request

Next ==
    \E j \in Ids :
        \/ \E d \in Requests : Submit(j, d)
        \/ Begin(j) \/ Drop(j) \/ End(j)

Spec == Init /\ [][Next]_abstractVars
=============================================================================
