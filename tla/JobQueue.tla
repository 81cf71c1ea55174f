------------------------------ MODULE JobQueue ------------------------------
(***************************************************************************)
(* What the job queue in Postgres promises the program: the functions of   *)
(* procrastinate_schema.sql, as far as tasks are deferred and run here.    *)
(*                                                                         *)
(* No task of the program has a lock, a queueing lock, a priority or a     *)
(* schedule, nobody aborts or cancels a job, and nothing looks for stalled *)
(* jobs, so those columns are left out and the functions that only serve   *)
(* them are no actions here.                                               *)
(***************************************************************************)
EXTENDS Naturals

CONSTANTS
    Jobs,          \* job ids, in the order in which rows are inserted
    Workers,
    Tasks,         \* names of tasks
    Retries(_),    \* the retry argument of a task
    NoJob          \* what an idle worker holds

VARIABLES
    state,   \* procrastinate_jobs.status; "free" while the id is not used
    task,    \* procrastinate_jobs.task_name
    tries,   \* procrastinate_jobs.attempts
    holds    \* the job a worker process is executing

queueVars == <<state, task, tries, holds>>

Unused == "none"

QueueInit ==
    /\ state = [j \in Jobs |-> "free"]
    /\ task = [j \in Jobs |-> Unused]
    /\ tries = [j \in Jobs |-> 0]
    /\ holds = [w \in Workers |-> NoJob]

\* procrastinate_defer_jobs_v1.
Enqueue(t) ==
    \E j \in Jobs :
        /\ state[j] = "free"
        /\ \A i \in Jobs : i < j => state[i] # "free"
        /\ state' = [state EXCEPT ![j] = "todo"]
        /\ task' = [task EXCEPT ![j] = t]
        /\ UNCHANGED <<tries, holds>>

\* procrastinate_fetch_job_v2: found and marked in one statement.
Fetch(w) ==
    /\ holds[w] = NoJob
    /\ \E j \in Jobs :
         /\ state[j] = "todo"
         /\ \A i \in Jobs : i < j => state[i] # "todo"
         /\ state' = [state EXCEPT ![j] = "doing"]
         /\ holds' = [holds EXCEPT ![w] = j]
    /\ UNCHANGED <<task, tries>>

\* procrastinate_finish_job_v1 and procrastinate_retry_job_v2 both count the try.
Leave(w, outcome) ==
    /\ state' = [state EXCEPT ![holds[w]] = outcome]
    /\ tries' = [tries EXCEPT ![holds[w]] = @ + 1]
    /\ holds' = [holds EXCEPT ![w] = NoJob]
    /\ UNCHANGED task

Succeed(w) == holds[w] # NoJob /\ Leave(w, "succeeded")

Retry(w) ==
    /\ holds[w] # NoJob
    /\ tries[holds[w]] < Retries(task[holds[w]])
    /\ Leave(w, "todo")

Fail(w) ==
    /\ holds[w] # NoJob
    /\ tries[holds[w]] >= Retries(task[holds[w]])
    /\ Leave(w, "failed")

\* The process dies: the row is not touched.
Lose(w) ==
    /\ holds[w] # NoJob
    /\ holds' = [holds EXCEPT ![w] = NoJob]
    /\ UNCHANGED <<state, task, tries>>

QueueNext ==
    \/ \E t \in Tasks : Enqueue(t)
    \/ \E w \in Workers : Fetch(w) \/ Succeed(w) \/ Retry(w) \/ Fail(w) \/ Lose(w)

QueueSpec == QueueInit /\ [][QueueNext]_queueVars

-----------------------------------------------------------------------------
(* What follows from it for whoever runs the jobs. *)

QueueTypeOK ==
    /\ state \in [Jobs -> {"free", "todo", "doing", "succeeded", "failed"}]
    /\ task \in [Jobs -> Tasks \cup {Unused}]
    /\ tries \in [Jobs -> Nat]
    /\ holds \in [Workers -> Jobs \cup {NoJob}]

\* A job runs on one worker at a time, and is marked doing while it does.
OneHolder ==
    /\ \A w \in Workers : holds[w] # NoJob => state[holds[w]] = "doing"
    /\ \A u, w \in Workers : u # w /\ holds[u] = holds[w] => holds[w] = NoJob
    /\ \A j \in Jobs : state[j] # "free" => task[j] \in Tasks

\* A task is attempted at most once more than its retry argument allows: with one
\* try left while the job waits or runs, and none too many when it has ended.
AttemptsBounded ==
    \A j \in Jobs :
        /\ state[j] \in {"todo", "doing"} => tries[j] <= Retries(task[j])
        /\ state[j] \in {"succeeded", "failed"} => tries[j] <= Retries(task[j]) + 1

\* A job that has ended is never run again.
EndedStaysEnded ==
    [][\A j \in Jobs : state[j] \in {"succeeded", "failed"} => state'[j] = state[j]]_queueVars

=============================================================================
