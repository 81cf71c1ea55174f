---------------------------- MODULE RunLifecycle ----------------------------
(***************************************************************************)
(* The life of a run: the row in `runs`, the jobs that work on it, the     *)
(* worker that executes them (app/jobs/tasks.py) and the web handlers that *)
(* create, approve, stop, edit and delete it (app/main.py).                *)
(*                                                                         *)
(* The web process and the worker share nothing but Postgres.  Each step   *)
(* below is one database transaction, or one long await between two of     *)
(* them: a handler that checks a status and writes later is two steps, and *)
(* a stage of the worker is a state (`pc`) the others interleave with.     *)
(*                                                                         *)
(* Abstracted: what pages, plans and files contain.  A page inventory is   *)
(* `none`, `raw` (as crawled) or `copied` (model copy written back); a     *)
(* file is `none`, or rendered from all pages or from the edited flags.    *)
(* A database error in the middle of a transaction is not modelled.        *)
(***************************************************************************)
EXTENDS Naturals, FiniteSets

CONSTANTS
    Runs,              \* ids of run rows; an id is never used twice
    Workers,           \* worker slots: processes * concurrency (deployed: one)
    Requests,          \* web requests that can be in flight at once
    MaxJobs,           \* bound: jobs ever deferred
    PreflightRetries,  \* retry=2 on preflight_task
    GenerateRetries,   \* retry=1 on generate_task
    Crashes,           \* which of "worker", "web" may die between two steps
    NoRun              \* the run of a job id that has not been used

ASSUME BoundsAssumption ==
    /\ MaxJobs \in Nat
    /\ PreflightRetries \in Nat
    /\ GenerateRetries \in Nat
ASSUME NoRunAssumption == NoRun \notin Runs

Jobs == 1..MaxJobs

VARIABLES
    status,     \* runs.status, plus "none" (no row yet) and "deleted"
    source,     \* runs.source
    plan,       \* runs.plan_source: who decided the plan stored on the run
    rows,       \* the run's rows in `pages`
    edited,     \* a user has unticked pages (pages.included)
    file,       \* runs.llmstxt, by the page flags it was rendered from
    jobState,   \* procrastinate_jobs.status ("free": id not used yet)
    jobTask,    \* procrastinate_jobs.task_name
    jobRun,     \* the run_id in procrastinate_jobs.args
    jobTries,   \* procrastinate_jobs.attempts
    pc,         \* where a worker is
    at,         \* the job it holds, 0 when idle
    workerPlan, \* the plan it read when the job began
    reqOp,      \* what a web request is in the middle of
    reqRun,     \* the run it is about
    approved,   \* history: a person has approved this run's plan
    stopped     \* history: a person has stopped this run and not restarted it

runVars == <<status, source, plan, rows, edited, file>>
jobVars == <<jobState, jobTask, jobRun, jobTries>>
workerVars == <<pc, at, workerPlan>>
reqVars == <<reqOp, reqRun>>
history == <<approved, stopped>>
vars == <<runVars, jobVars, workerVars, reqVars, history>>

-----------------------------------------------------------------------------
(* Statuses and stages. *)

Terminal == {"complete", "failed", "cancelled"}

\* The statuses a generate job writes while it works.
StageStatuses == {"crawling", "triaging", "summarising", "assembling"}

RunStatus ==
    {"pending", "preflight", "awaiting_review"} \cup StageStatuses \cup Terminal

Exists(r) == status[r] \in RunStatus

\* The three `_abort_if_cancelled` calls, and the stage behind each.
Gates == {"gate_crawl", "gate_triage", "gate_summarise"}
Behind(gate) ==
    CASE gate = "gate_crawl"     -> "fetching"
      [] gate = "gate_triage"    -> "triaging"
      [] gate = "gate_summarise" -> "summarising"

\* The stages a check guards: "the crawl and the per-page LLM spend".
ExpensiveStages == {"fetching", "triaging", "summarising"}

GenerateStages == Gates \cup ExpensiveStages \cup {"importing", "assembling"}
PreflightStages == {"recon", "planning"}

\* The status the worker has written by the time it is at each stage.
StatusAt(stage) ==
    CASE stage \in PreflightStages -> "preflight"
      [] stage \in {"importing", "gate_crawl", "fetching"} -> "crawling"
      [] stage \in {"gate_triage", "triaging"} -> "triaging"
      [] stage \in {"gate_summarise", "summarising"} -> "summarising"
      [] stage = "assembling" -> "assembling"

Retries(task) ==
    IF task = "preflight" THEN PreflightRetries ELSE GenerateRetries

\* The run a worker's job is about.
RunOf(w) == jobRun[at[w]]

-----------------------------------------------------------------------------
(* Initially nothing has been created. *)

Init ==
    /\ status = [r \in Runs |-> "none"]
    /\ source = [r \in Runs |-> "crawl"]
    /\ plan = [r \in Runs |-> "none"]
    /\ rows = [r \in Runs |-> "none"]
    /\ edited = [r \in Runs |-> FALSE]
    /\ file = [r \in Runs |-> "none"]
    /\ jobState = [j \in Jobs |-> "free"]
    /\ jobTask = [j \in Jobs |-> "none"]
    /\ jobRun = [j \in Jobs |-> NoRun]
    /\ jobTries = [j \in Jobs |-> 0]
    /\ pc = [w \in Workers |-> "idle"]
    /\ at = [w \in Workers |-> 0]
    /\ workerPlan = [w \in Workers |-> "none"]
    /\ reqOp = [q \in Requests |-> "idle"]
    /\ reqRun = [q \in Requests |-> NoRun]
    /\ approved = [r \in Runs |-> FALSE]
    /\ stopped = [r \in Runs |-> FALSE]

-----------------------------------------------------------------------------
(* Shared steps. *)

\* The deferral of a task: a new row, in id order.
Defer(task, r) ==
    \E j \in Jobs :
        /\ jobState[j] = "free"
        /\ \A i \in Jobs : i < j => jobState[i] # "free"
        /\ jobState' = [jobState EXCEPT ![j] = "todo"]
        /\ jobTask' = [jobTask EXCEPT ![j] = task]
        /\ jobRun' = [jobRun EXCEPT ![j] = r]
        /\ UNCHANGED jobTries

\* Bound: no request begins that would need a job id beyond MaxJobs.
MayDefer ==
    Cardinality({j \in Jobs : jobState[j] = "free"}) >
    Cardinality({q \in Requests :
                   reqOp[q] \in {"approve", "defer_preflight", "defer_generate"}})

\* `set_status`: an assignment, whatever the row said before.
SetStatus(r, s) == status' = [status EXCEPT ![r] = s]

\* A transaction that sets a run's status when the run still exists.
SetStatusIfPresent(r, s) ==
    status' = IF Exists(r) THEN [status EXCEPT ![r] = s] ELSE status

Ask(q, op, r) ==
    /\ reqOp[q] = "idle"
    /\ reqOp' = [reqOp EXCEPT ![q] = op]
    /\ reqRun' = [reqRun EXCEPT ![q] = r]

Answered(q) ==
    /\ reqOp' = [reqOp EXCEPT ![q] = "idle"]
    /\ reqRun' = [reqRun EXCEPT ![q] = NoRun]

\* The cascade on the foreign keys takes the pages with the run.
RemoveRuns(gone) ==
    /\ status' = [r \in Runs |-> IF r \in gone THEN "deleted" ELSE status[r]]
    /\ rows' = [r \in Runs |-> IF r \in gone THEN "none" ELSE rows[r]]
    /\ edited' = [r \in Runs |-> IF r \in gone THEN FALSE ELSE edited[r]]
    /\ file' = [r \in Runs |-> IF r \in gone THEN "none" ELSE file[r]]
    /\ UNCHANGED <<source, plan>>

\* Mutant: the attempt is not counted.
JobEnds_Uncounted(w, outcome) ==
    /\ jobState' = [jobState EXCEPT ![at[w]] = outcome]
    /\ pc' = [pc EXCEPT ![w] = "idle"]
    /\ at' = [at EXCEPT ![w] = 0]
    /\ UNCHANGED <<jobTask, jobRun, jobTries, workerPlan>>

\* The worker's job ends and the worker is free; procrastinate counts the try.
JobEnds(w, outcome) ==
    /\ jobState' = [jobState EXCEPT ![at[w]] = outcome]
    /\ jobTries' = [jobTries EXCEPT ![at[w]] = @ + 1]
    /\ pc' = [pc EXCEPT ![w] = "idle"]
    /\ at' = [at EXCEPT ![w] = 0]
    /\ UNCHANGED <<jobTask, jobRun, workerPlan>>

WorkerGoes(w, stage) ==
    /\ pc' = [pc EXCEPT ![w] = stage]
    /\ UNCHANGED <<at, workerPlan>>

-----------------------------------------------------------------------------
(* The web handlers. *)

\* POST /runs: the row is committed first.  What follows is either the brief
\* form or, in the same request, `StartPreflight`.
CreateRun(r) ==
    /\ status[r] = "none"
    /\ SetStatus(r, "pending")
    /\ source' = [source EXCEPT ![r] = "crawl"]
    /\ UNCHANGED <<plan, rows, edited, file, jobVars, workerVars, reqVars, history>>

\* `_start_preflight`, from POST /runs and from saving or skipping the brief.
\* It asks only that the run exists, and can be asked again.
StartPreflight(r) ==
    /\ Exists(r)
    /\ MayDefer
    /\ Defer("preflight", r)
    /\ stopped' = [stopped EXCEPT ![r] = FALSE]
    /\ UNCHANGED <<runVars, workerVars, reqVars, approved>>

\* Mutant: a rerun reuses the approval of the run it clones.
Rerun_SkipsReview(q, original, r) ==
    /\ Exists(original)
    /\ status[r] = "none"
    /\ MayDefer
    /\ SetStatus(r, "pending")
    /\ source' = [source EXCEPT ![r] = source[original]]
    /\ Ask(q, "defer_generate", r)
    /\ UNCHANGED <<plan, rows, edited, file, jobVars, workerVars, history>>

\* POST /runs/{id}/rerun: the clone is committed, then its preflight deferred.
Rerun(q, original, r) ==
    /\ Exists(original)
    /\ status[r] = "none"
    /\ MayDefer
    /\ SetStatus(r, "pending")
    /\ source' = [source EXCEPT ![r] = source[original]]
    /\ Ask(q, "defer_preflight", r)
    /\ UNCHANGED <<plan, rows, edited, file, jobVars, workerVars, history>>

\* POST /imports/screaming-frog: rows stored and status written, then the job.
ImportRun(q, r) ==
    /\ status[r] = "none"
    /\ MayDefer
    /\ SetStatus(r, "crawling")
    /\ source' = [source EXCEPT ![r] = "screaming-frog"]
    /\ plan' = [plan EXCEPT ![r] = "screaming-frog"]
    /\ rows' = [rows EXCEPT ![r] = "raw"]
    /\ Ask(q, "defer_generate", r)
    /\ UNCHANGED <<edited, file, jobVars, workerVars, history>>

\* The same handler when the embargo removes every row: it answers with an
\* error page, and the session commits the run it had already flushed.
ImportNothing(r) ==
    /\ status[r] = "none"
    /\ SetStatus(r, "pending")
    /\ source' = [source EXCEPT ![r] = "screaming-frog"]
    /\ plan' = [plan EXCEPT ![r] = "screaming-frog"]
    /\ UNCHANGED <<rows, edited, file, jobVars, workerVars, reqVars, history>>

\* The `defer_async` after a handler's commit.
DeferAfterCommit(q) ==
    /\ \/ reqOp[q] = "defer_preflight" /\ Defer("preflight", reqRun[q])
       \/ reqOp[q] = "defer_generate" /\ Defer("generate", reqRun[q])
    /\ Answered(q)
    /\ UNCHANGED <<runVars, workerVars, history>>

\* POST /runs/{id}/plan, up to the await of the form.
BeginApprove(q, r) ==
    /\ status[r] = "awaiting_review"
    /\ MayDefer
    /\ Ask(q, "approve", r)
    /\ UNCHANGED <<runVars, jobVars, workerVars, history>>

\* The rest of it: the plan is written and the job comes next; the status is
\* left alone.  An UPDATE of a row that is gone fails the request.
CommitApprove(q) ==
    LET r == reqRun[q] IN
    /\ reqOp[q] = "approve"
    /\ IF Exists(r)
         THEN /\ plan' = [plan EXCEPT ![r] = "manual"]
              /\ approved' = [approved EXCEPT ![r] = TRUE]
              /\ stopped' = [stopped EXCEPT ![r] = FALSE]
              /\ reqOp' = [reqOp EXCEPT ![q] = "defer_generate"]
              /\ UNCHANGED reqRun
         ELSE Answered(q) /\ UNCHANGED <<plan, history>>
    /\ UNCHANGED <<status, source, rows, edited, file, jobVars, workerVars>>

\* POST /runs/{id}/cancel: refused once the run is terminal.
BeginCancel(q, r) ==
    /\ Exists(r) /\ status[r] \notin Terminal
    /\ Ask(q, "cancel", r)
    /\ UNCHANGED <<runVars, jobVars, workerVars, history>>

CommitCancel(q) ==
    LET r == reqRun[q] IN
    /\ reqOp[q] = "cancel"
    /\ SetStatusIfPresent(r, "cancelled")
    /\ stopped' = [stopped EXCEPT ![r] = IF Exists(r) THEN TRUE ELSE @]
    /\ Answered(q)
    /\ UNCHANGED <<source, plan, rows, edited, file, jobVars, workerVars, approved>>

\* POST /runs/{id}/delete: terminal runs only, checked before the form is read.
BeginDelete(q, r) ==
    /\ status[r] \in Terminal
    /\ Ask(q, "delete", r)
    /\ UNCHANGED <<runVars, jobVars, workerVars, history>>

CommitDelete(q) ==
    /\ reqOp[q] = "delete"
    /\ RemoveRuns({r \in {reqRun[q]} : Exists(r)})
    /\ Answered(q)
    /\ UNCHANGED <<jobVars, workerVars, history>>

\* POST /sites/{domain}/delete, for the one domain all of Runs belong to.
BeginDeleteClient(q) ==
    /\ \A r \in Runs : Exists(r) => status[r] \in Terminal
    /\ Ask(q, "delete_client", NoRun)
    /\ UNCHANGED <<runVars, jobVars, workerVars, history>>

CommitDeleteClient(q) ==
    /\ reqOp[q] = "delete_client"
    /\ RemoveRuns({r \in Runs : Exists(r)})
    /\ Answered(q)
    /\ UNCHANGED <<jobVars, workerVars, history>>

\* POST /runs/{id}/pages, whatever the run's status: the flags are stored and
\* the file is rendered from them.
EditPages(r) ==
    /\ Exists(r)
    /\ \E unticked \in BOOLEAN :
         /\ unticked => rows[r] # "none"
         /\ edited' = [edited EXCEPT ![r] = unticked]
         /\ file' = [file EXCEPT ![r] = IF unticked THEN "edited" ELSE "all"]
    /\ UNCHANGED <<status, source, plan, rows, jobVars, workerVars, reqVars, history>>

\* The web process dies after a commit and before the deferral.
WebCrash(q) ==
    /\ "web" \in Crashes
    /\ reqOp[q] \in {"defer_preflight", "defer_generate"}
    /\ reqOp' = [reqOp EXCEPT ![q] = "died"]
    /\ UNCHANGED <<runVars, jobVars, workerVars, reqRun, history>>

-----------------------------------------------------------------------------
(* The worker: fetching a job, and preflight_task. *)

\* Mutant: the job is returned and not marked doing.
FetchJob_Unmarked(w) ==
    /\ pc[w] = "idle"
    /\ \E j \in Jobs :
         /\ jobState[j] = "todo"
         /\ \A i \in Jobs : i < j => jobState[i] # "todo"
         /\ at' = [at EXCEPT ![w] = j]
    /\ pc' = [pc EXCEPT ![w] = "fetched"]
    /\ UNCHANGED <<runVars, jobVars, workerPlan, reqVars, history>>

\* The oldest job that is todo; no job has a lock or a priority of its own.
FetchJob(w) ==
    /\ pc[w] = "idle"
    /\ \E j \in Jobs :
         /\ jobState[j] = "todo"
         /\ \A i \in Jobs : i < j => jobState[i] # "todo"
         /\ jobState' = [jobState EXCEPT ![j] = "doing"]
         /\ at' = [at EXCEPT ![w] = j]
    /\ pc' = [pc EXCEPT ![w] = "fetched"]
    /\ UNCHANGED <<runVars, jobTask, jobRun, jobTries, workerPlan, reqVars, history>>

\* `if run is None: return`, in the first and last transaction of each task.
RunIsGone(w) ==
    /\ pc[w] \in {"fetched", "planning", "assembling"}
    /\ ~Exists(RunOf(w))
    /\ JobEnds(w, "succeeded")
    /\ UNCHANGED <<runVars, reqVars, history>>

BeginPreflight(w) ==
    /\ pc[w] = "fetched" /\ jobTask[at[w]] = "preflight"
    /\ Exists(RunOf(w))
    /\ SetStatus(RunOf(w), "preflight")
    /\ WorkerGoes(w, "recon")
    /\ UNCHANGED <<source, plan, rows, edited, file, jobVars, reqVars, history>>

ReconDone(w) ==
    /\ pc[w] = "recon"
    /\ WorkerGoes(w, "planning")
    /\ UNCHANGED <<runVars, jobVars, reqVars, history>>

\* An unreadable site fails the run, and the task returns: it is not retried.
ReconFails(w) ==
    /\ pc[w] = "recon"
    /\ SetStatusIfPresent(RunOf(w), "failed")
    /\ JobEnds(w, "succeeded")
    /\ UNCHANGED <<source, plan, rows, edited, file, reqVars, history>>

\* The plan is stored, model-made or heuristic, and the run waits at the gate.
PlanStored(w) ==
    LET r == RunOf(w) IN
    /\ pc[w] = "planning"
    /\ Exists(r)
    /\ plan' = [plan EXCEPT ![r] = "machine"]
    /\ SetStatus(r, "awaiting_review")
    /\ JobEnds(w, "succeeded")
    /\ UNCHANGED <<source, rows, edited, file, reqVars, history>>

\* Everything after the recon is outside the task's try.
PlanningRaises(w) ==
    /\ pc[w] = "planning"
    /\ WorkerGoes(w, "raised")
    /\ UNCHANGED <<runVars, jobVars, reqVars, history>>

-----------------------------------------------------------------------------
(* generate_task. *)

\* Mutant: the status is left to the first stage that ends.
BeginGenerate_Silent(w) ==
    LET r == RunOf(w) IN
    /\ pc[w] = "fetched" /\ jobTask[at[w]] = "generate"
    /\ Exists(r)
    /\ pc' = [pc EXCEPT ![w] = IF source[r] = "screaming-frog"
                               THEN "importing" ELSE "gate_crawl"]
    /\ workerPlan' = [workerPlan EXCEPT ![w] = plan[r]]
    /\ UNCHANGED <<runVars, jobVars, at, reqVars, history>>

BeginGenerate(w) ==
    LET r == RunOf(w) IN
    /\ pc[w] = "fetched" /\ jobTask[at[w]] = "generate"
    /\ Exists(r)
    /\ SetStatus(r, "crawling")
    /\ pc' = [pc EXCEPT ![w] = IF source[r] = "screaming-frog"
                               THEN "importing" ELSE "gate_crawl"]
    /\ workerPlan' = [workerPlan EXCEPT ![w] = plan[r]]
    /\ UNCHANGED <<source, plan, rows, edited, file, jobVars, at, reqVars, history>>

\* `_abort_if_cancelled`: a cancelled run ends here as a success of the job.
\* A run that is gone is not a cancelled one.
Gate(w) ==
    /\ pc[w] \in Gates
    /\ IF status[RunOf(w)] = "cancelled"
         THEN JobEnds(w, "succeeded")
         ELSE WorkerGoes(w, Behind(pc[w])) /\ UNCHANGED jobVars
    /\ UNCHANGED <<runVars, reqVars, history>>

\* Mutant: rows are stored whether or not the run is still there.
InventoryStored_Anyway(w) ==
    LET r == RunOf(w) IN
    /\ pc[w] \in {"fetching", "importing"}
    /\ pc[w] = "importing" => rows[r] # "none"
    /\ rows' = [rows EXCEPT ![r] = "raw"]
    /\ edited' = [edited EXCEPT ![r] = FALSE]
    /\ SetStatusIfPresent(r, "triaging")
    /\ WorkerGoes(w, "gate_triage")
    /\ UNCHANGED <<source, plan, file, jobVars, reqVars, history>>

\* `replace_pages` deletes the inventory, edits with it, and stores a new one,
\* in the transaction that moves the run to triaging.  The foreign key refuses
\* rows of a run that is gone, and an import with no rows raises.
InventoryStored(w) ==
    LET r == RunOf(w) IN
    /\ pc[w] \in {"fetching", "importing"}
    /\ Exists(r)
    /\ pc[w] = "importing" => rows[r] # "none"
    /\ rows' = [rows EXCEPT ![r] = "raw"]
    /\ edited' = [edited EXCEPT ![r] = FALSE]
    /\ SetStatus(r, "triaging")
    /\ WorkerGoes(w, "gate_triage")
    /\ UNCHANGED <<source, plan, file, jobVars, reqVars, history>>

\* The transaction after triage: an event, refused if the run is gone, and the
\* next status.
TriageDone(w) ==
    LET r == RunOf(w) IN
    /\ pc[w] = "triaging"
    /\ Exists(r)
    /\ SetStatus(r, "summarising")
    /\ WorkerGoes(w, "gate_summarise")
    /\ UNCHANGED <<source, plan, rows, edited, file, jobVars, reqVars, history>>

\* The same after the copy is written; no check stands before assembly.
SummariseDone(w) ==
    LET r == RunOf(w) IN
    /\ pc[w] = "summarising"
    /\ Exists(r)
    /\ SetStatus(r, "assembling")
    /\ WorkerGoes(w, "assembling")
    /\ UNCHANGED <<source, plan, rows, edited, file, jobVars, reqVars, history>>

\* Mutant: the copy stays in the worker's memory.
GenerateDone_CopyLost(w) ==
    LET r == RunOf(w) IN
    /\ pc[w] = "assembling"
    /\ Exists(r)
    /\ file' = [file EXCEPT ![r] = "all"]
    /\ SetStatus(r, "complete")
    /\ JobEnds(w, "succeeded")
    /\ UNCHANGED <<source, plan, rows, edited, reqVars, history>>

\* Mutant: a status the enum does not have.
GenerateDone_Misspelt(w) ==
    LET r == RunOf(w) IN
    /\ pc[w] = "assembling"
    /\ Exists(r)
    /\ file' = [file EXCEPT ![r] = "all"]
    /\ rows' = [rows EXCEPT ![r] = IF @ = "none" THEN "none" ELSE "copied"]
    /\ SetStatus(r, "completed")
    /\ JobEnds(w, "succeeded")
    /\ UNCHANGED <<source, plan, edited, reqVars, history>>

\* The last transaction: the file, the copy on the rows, the status.  The file
\* lists what the worker crawled, whatever the flags say by now.
GenerateDone(w) ==
    LET r == RunOf(w) IN
    /\ pc[w] = "assembling"
    /\ Exists(r)
    /\ file' = [file EXCEPT ![r] = "all"]
    /\ rows' = [rows EXCEPT ![r] = IF @ = "none" THEN "none" ELSE "copied"]
    /\ SetStatus(r, "complete")
    /\ JobEnds(w, "succeeded")
    /\ UNCHANGED <<source, plan, edited, reqVars, history>>

\* Mutant: the exception is raised without writing FAILED.
StageFails_Silent(w) ==
    /\ pc[w] \in ExpensiveStages \cup {"importing", "assembling"}
    /\ WorkerGoes(w, "raised")
    /\ UNCHANGED <<runVars, jobVars, reqVars, history>>

\* Any exception inside the try: no page fetched, an import with no rows, an
\* event for a run that is gone, a bug.  FAILED is written, then it is raised.
StageFails(w) ==
    /\ pc[w] \in ExpensiveStages \cup {"importing", "assembling"}
    /\ SetStatusIfPresent(RunOf(w), "failed")
    /\ WorkerGoes(w, "raised")
    /\ UNCHANGED <<source, plan, rows, edited, file, jobVars, reqVars, history>>

\* Mutant: one attempt too many.
JobRaised_OneMore(w) ==
    LET j == at[w]
        again == jobTries[j] <= Retries(jobTask[j])
    IN
    /\ pc[w] = "raised"
    /\ JobEnds(w, IF again THEN "todo" ELSE "failed")
    /\ UNCHANGED <<runVars, reqVars, history>>

\* procrastinate retries a job that raised until its strategy says no more.
JobRaised(w) ==
    LET j == at[w]
        again == jobTries[j] < Retries(jobTask[j])
    IN
    /\ pc[w] = "raised"
    /\ JobEnds(w, IF again THEN "todo" ELSE "failed")
    /\ UNCHANGED <<runVars, reqVars, history>>

\* The worker process dies and a new one starts.  Nothing looks for stalled
\* jobs, so the one it held stays `doing`.
WorkerCrash(w) ==
    /\ "worker" \in Crashes
    /\ pc[w] # "idle"
    /\ pc' = [pc EXCEPT ![w] = "idle"]
    /\ at' = [at EXCEPT ![w] = 0]
    /\ UNCHANGED <<runVars, jobVars, workerPlan, reqVars, history>>

-----------------------------------------------------------------------------
(* The specification. *)

WorkerStep(w) ==
    \/ FetchJob(w) \/ RunIsGone(w)
    \/ BeginPreflight(w) \/ ReconDone(w) \/ ReconFails(w)
    \/ PlanStored(w) \/ PlanningRaises(w)
    \/ BeginGenerate(w) \/ Gate(w) \/ InventoryStored(w)
    \/ TriageDone(w) \/ SummariseDone(w) \/ GenerateDone(w)
    \/ StageFails(w) \/ JobRaised(w)

RequestStep(q) ==
    \/ DeferAfterCommit(q)
    \/ CommitApprove(q) \/ CommitCancel(q)
    \/ CommitDelete(q) \/ CommitDeleteClient(q)

UserStep ==
    \/ \E r \in Runs : CreateRun(r) \/ StartPreflight(r) \/ ImportNothing(r)
                       \/ EditPages(r)
    \/ \E q \in Requests, r \in Runs :
         \/ ImportRun(q, r) \/ BeginApprove(q, r)
         \/ BeginCancel(q, r) \/ BeginDelete(q, r)
         \/ \E original \in Runs : Rerun(q, original, r)
    \/ \E q \in Requests : BeginDeleteClient(q)

Next ==
    \/ UserStep
    \/ \E q \in Requests : RequestStep(q) \/ WebCrash(q)
    \/ \E w \in Workers : WorkerStep(w) \/ WorkerCrash(w)

Spec == Init /\ [][Next]_vars

\* The worker keeps working and a request that has begun is answered.  Nobody
\* is obliged to make a request.
Fairness ==
    /\ \A w \in Workers : WF_vars(WorkerStep(w))
    /\ \A q \in Requests : WF_vars(RequestStep(q))

FairSpec == Spec /\ Fairness

-----------------------------------------------------------------------------
(* Properties. *)

TypeOfRuns ==
    /\ status \in [Runs -> RunStatus \cup {"none", "deleted"}]
    /\ source \in [Runs -> {"crawl", "screaming-frog"}]
    /\ plan \in [Runs -> {"none", "machine", "manual", "screaming-frog"}]
    /\ rows \in [Runs -> {"none", "raw", "copied"}]
    /\ edited \in [Runs -> BOOLEAN]
    /\ file \in [Runs -> {"none", "all", "edited"}]

TypeOfJobs ==
    /\ jobState \in [Jobs -> {"free", "todo", "doing", "succeeded", "failed"}]
    /\ jobTask \in [Jobs -> {"none", "preflight", "generate"}]
    /\ jobRun \in [Jobs -> Runs \cup {NoRun}]
    /\ jobTries \in [Jobs -> Nat]

TypeOfWorkers ==
    /\ pc \in [Workers -> {"idle", "fetched", "raised"}
                          \cup PreflightStages \cup GenerateStages]
    /\ at \in [Workers -> Jobs \cup {0}]
    /\ workerPlan \in [Workers -> {"none", "machine", "manual", "screaming-frog"}]

TypeOfRequests ==
    /\ reqOp \in [Requests -> {"idle", "defer_preflight", "defer_generate", "approve",
                               "cancel", "delete", "delete_client", "died"}]
    /\ reqRun \in [Requests -> Runs \cup {NoRun}]

TypeOfHistory ==
    /\ approved \in [Runs -> BOOLEAN]
    /\ stopped \in [Runs -> BOOLEAN]

TypeOK ==
    TypeOfRuns /\ TypeOfJobs /\ TypeOfWorkers /\ TypeOfRequests /\ TypeOfHistory

\* A worker and the queue agree: a busy worker's job is marked doing and has a
\* run, no two workers hold one job, and a stage is only reached by the task
\* it belongs to.  Everything the worker writes is written under such a claim
\* (fetch_job_v2 marks the row before it returns it).
ClaimsAreExclusive ==
    /\ \A w \in Workers :
         /\ (pc[w] = "idle") <=> (at[w] = 0)
         /\ at[w] # 0 => jobState[at[w]] = "doing" /\ RunOf(w) \in Runs
         /\ pc[w] \in GenerateStages => jobTask[at[w]] = "generate"
         /\ pc[w] \in PreflightStages => jobTask[at[w]] = "preflight"
    /\ \A u, w \in Workers : u # w /\ at[u] = at[w] => at[w] = 0

\* The human gate: whatever is retried, repeated, cloned or deferred twice, no
\* generate job works on a crawled run whose plan nobody has approved
\* (save_plan is the only way to a crawl; an import has no gate).
ReviewGate ==
    \A w \in Workers :
        pc[w] \in GenerateStages /\ source[RunOf(w)] = "crawl"
            => approved[RunOf(w)]

\* A run that says a generate stage is in progress has someone who will move it
\* on: a worker in that task, a job still to be fetched, or a request about to
\* defer one.  Otherwise a process died while responsible for it: a job is
\* marked doing that no worker holds, or a request ended between its commit and
\* its deferral.  Failures and cancellations alone never strand a run.
Working(r) ==
    \/ \E w \in Workers :
         /\ at[w] # 0 /\ RunOf(w) = r
         /\ \/ pc[w] \in GenerateStages
            \/ pc[w] = "fetched" /\ jobTask[at[w]] = "generate"
    \/ \E j \in Jobs :
         jobTask[j] = "generate" /\ jobRun[j] = r /\ jobState[j] = "todo"
    \/ \E q \in Requests : reqOp[q] = "defer_generate" /\ reqRun[q] = r

Abandoned(r) ==
    \/ \E j \in Jobs :
         /\ jobTask[j] = "generate" /\ jobRun[j] = r /\ jobState[j] = "doing"
         /\ \A w \in Workers : at[w] # j
    \/ \E q \in Requests : reqOp[q] = "died" /\ reqRun[q] = r

NoStrandedRun ==
    \A r \in Runs : status[r] \in StageStatuses => Working(r) \/ Abandoned(r)

\* With one worker, the status a reader sees while a stage runs is that stage's,
\* or CANCELLED, or the run has been deleted: no other job writes in between.
\* Two workers, or a second job of the same run, would break it.
StatusTracksStage ==
    \A w \in Workers :
        pc[w] \in PreflightStages \cup GenerateStages
            => status[RunOf(w)] \in {StatusAt(pc[w]), "cancelled", "deleted"}

\* A deleted run leaves nothing behind and nothing comes back to it, although a
\* worker may still be in the middle of it ("would write rows back after the
\* delete", delete_run): no pages, no file.
NothingWithoutARun ==
    \A r \in Runs : ~Exists(r) => rows[r] = "none" /\ file[r] = "none"

\* A run that says complete has its file, and its rows carry the copy the file
\* was rendered from: a retry, a second job or an edit on the way never leaves
\* COMPLETE beside an inventory that has been replaced.
CompleteIsWhole ==
    \A r \in Runs : status[r] = "complete" => file[r] # "none" /\ rows[r] = "copied"

\* What the invariants above rest on, and no reader would ask for by itself.

\* Jobs and requests in flight name a run that has been created.
Created(r) == r \in Runs /\ status[r] # "none"
References ==
    /\ \A j \in Jobs : jobState[j] # "free" => jobTask[j] # "none" /\ Created(jobRun[j])
    /\ \A q \in Requests :
         reqOp[q] \notin {"idle", "delete_client"} => Created(reqRun[q])

\* Only an approval puts a crawled run's generate job on its way.
ApprovedBeforeDeferral ==
    /\ \A j \in Jobs :
         jobState[j] # "free" /\ jobTask[j] = "generate" /\ source[jobRun[j]] = "crawl"
            => approved[jobRun[j]]
    /\ \A q \in Requests :
         reqOp[q] = "defer_generate" /\ source[reqRun[q]] = "crawl"
            => approved[reqRun[q]]

\* Past the crawl, a run that still exists has its inventory.
InventoryBehindTheStages ==
    \A w \in Workers :
        pc[w] \in {"gate_triage", "triaging", "gate_summarise", "summarising", "assembling"}
            => ~Exists(RunOf(w)) \/ rows[RunOf(w)] # "none"

Supports ==
    References /\ ApprovedBeforeDeferral /\ InventoryBehindTheStages

\* Under a worker that does not crash, a job that is fetched or waits is over in
\* the end: retries are bounded and no job starves behind a failing one.
QueueDrains ==
    \A j \in Jobs :
        jobState[j] \in {"todo", "doing"} ~> jobState[j] \in {"succeeded", "failed"}

\* ... and a run does not say a stage is in progress for ever.
StagesEnd ==
    \A r \in Runs : status[r] \in StageStatuses ~> status[r] \notin StageStatuses

-----------------------------------------------------------------------------
(* The queue the tasks run on. *)

Queue == INSTANCE JobQueue WITH
    state <- jobState, task <- jobTask, tries <- jobTries, holds <- at,
    Tasks <- {"preflight", "generate"}, NoJob <- 0

\* Every step of handlers and workers is a step of the queue or leaves it alone:
\* they touch jobs only as the queue's functions do, one job per worker.
ImplementsQueue == Queue!QueueSpec

\* No task runs more often than its retry argument allows, whatever crashes and
\* whoever defers it again: every attempt at a crawl costs the crawl once more.
AttemptsBounded == Queue!AttemptsBounded

-----------------------------------------------------------------------------
(* What comments and handlers of the program say, and the code does not do. *)

\* "What stopping guarantees is that no further expensive stage begins"
\* (cancel_run): no worker enters the crawl, triage or summaries of a run after
\* a person has stopped it.
NoStageAfterStop ==
    [][\A w \in Workers :
         pc[w] \in Gates /\ pc'[w] \in ExpensiveStages => ~stopped[RunOf(w)]]_vars

\* "Persist the human's edits to the crawl plan, then start the crawl"
\* (save_plan): the crawl reads the plan the person approved.
CrawlsTheApprovedPlan ==
    \A w \in Workers :
        pc[w] \in GenerateStages /\ source[RunOf(w)] = "crawl"
            => workerPlan[w] = "manual"

=============================================================================
