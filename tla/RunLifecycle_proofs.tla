------------------------ MODULE RunLifecycle_proofs ------------------------
(* Theorems about RunLifecycle, for any runs, workers, requests and bounds. *)
EXTENDS RunLifecycle, TLAPS

USE BoundsAssumption, NoRunAssumption

(***************************************************************************)
(* Type correctness, a part of the state at a time.  Reading a run through *)
(* a job needs to know that the job names a run, so the type invariant is  *)
(* proved together with References and ClaimsAreExclusive.                 *)
(***************************************************************************)

Base == TypeOK /\ References /\ ClaimsAreExclusive

LEMMA BaseInit == Init => Base
  BY DEF Init, Base, TypeOK, TypeOfRuns, TypeOfJobs, TypeOfWorkers, TypeOfRequests,
         TypeOfHistory, Jobs, RunStatus, References, ClaimsAreExclusive,
         PreflightStages, GenerateStages, Gates, ExpensiveStages

\* A busy worker's job and the run it names.
LEMMA BusyWorker ==
  ASSUME Base, NEW w \in Workers, pc[w] # "idle"
  PROVE  /\ at[w] \in Jobs /\ jobState[at[w]] = "doing"
         /\ RunOf(w) \in Runs /\ status[RunOf(w)] # "none"
         /\ RunOf(w) = jobRun[at[w]]
  BY DEF Base, TypeOK, TypeOfWorkers, TypeOfJobs, References, Created,
         ClaimsAreExclusive, RunOf

LEMMA GuardedStage == ASSUME NEW gate \in Gates PROVE Behind(gate) \in ExpensiveStages
  BY DEF Gates, Behind, ExpensiveStages

LEMMA EndTypes ==
  ASSUME TypeOK, NEW w \in Workers, at[w] \in Jobs,
         NEW outcome \in {"todo", "succeeded", "failed"}, JobEnds(w, outcome)
  PROVE  TypeOfJobs' /\ TypeOfWorkers'
<1>1. TypeOfJobs'
  BY DEF TypeOK, TypeOfJobs, JobEnds
<1>2. TypeOfWorkers'
  BY DEF TypeOK, TypeOfWorkers, JobEnds
<1> QED
  BY <1>1, <1>2

LEMMA StageTypes ==
  ASSUME TypeOK, NEW w \in Workers,
         NEW stage \in PreflightStages \cup GenerateStages \cup {"raised"},
         WorkerGoes(w, stage)
  PROVE  TypeOfWorkers'
  BY DEF TypeOK, TypeOfWorkers, WorkerGoes

\* Which worker steps end a job and which only move on, said once.
LEMMA WorkerShape ==
  ASSUME Base, NEW w \in Workers, WorkerStep(w)
  PROVE  \/ FetchJob(w)
         \/ BeginGenerate(w)
         \/ \E stage \in PreflightStages \cup GenerateStages \cup {"raised"} :
              /\ pc[w] # "idle" /\ WorkerGoes(w, stage) /\ UNCHANGED jobVars
              /\ stage \in GenerateStages => jobTask[at[w]] = "generate"
              /\ stage \in PreflightStages => jobTask[at[w]] = "preflight"
         \/ \E outcome \in {"todo", "succeeded", "failed"} :
              pc[w] # "idle" /\ JobEnds(w, outcome)
<1> USE DEF Base, ClaimsAreExclusive, TypeOK, TypeOfWorkers
<1>1. CASE FetchJob(w) \/ BeginGenerate(w)
  BY <1>1
<1>2. CASE RunIsGone(w) \/ ReconFails(w) \/ PlanStored(w) \/ GenerateDone(w)
           \/ JobRaised(w)
  BY <1>2 DEF RunIsGone, ReconFails, PlanStored, GenerateDone, JobRaised
<1>3. CASE BeginPreflight(w) \/ ReconDone(w) \/ PlanningRaises(w)
  BY <1>3 DEF BeginPreflight, ReconDone, PlanningRaises, PreflightStages,
              GenerateStages, Gates, ExpensiveStages
<1>4. CASE InventoryStored(w) \/ TriageDone(w) \/ SummariseDone(w) \/ StageFails(w)
  BY <1>4 DEF InventoryStored, TriageDone, SummariseDone, StageFails,
              PreflightStages, GenerateStages, Gates, ExpensiveStages
<1>5. CASE Gate(w)
  <2>1. CASE JobEnds(w, "succeeded")
    BY <1>5, <2>1 DEF Gate, Gates
  <2>2. CASE WorkerGoes(w, Behind(pc[w])) /\ UNCHANGED jobVars
    BY <1>5, <2>2, GuardedStage
       DEF Gate, Gates, GenerateStages, PreflightStages, ExpensiveStages
  <2> QED
    BY <1>5, <2>1, <2>2 DEF Gate
<1> QED
  BY <1>1, <1>2, <1>3, <1>4, <1>5 DEF WorkerStep

\* A user's step starts nothing on the worker and takes no job away.
LEMMA TypeUser == ASSUME Base, UserStep PROVE TypeOK'
<1> USE DEF Base, TypeOK, UserStep, CreateRun, StartPreflight, ImportNothing, EditPages,
            ImportRun, BeginApprove, BeginCancel, BeginDelete, Rerun, BeginDeleteClient
<1>1. TypeOfRuns'
  BY DEF TypeOfRuns, SetStatus, RunStatus, StageStatuses, runVars
<1>2. TypeOfJobs'
  BY DEF TypeOfJobs, Defer, jobVars
<1>3. TypeOfRequests'
  BY DEF TypeOfRequests, Ask, reqVars
<1>4. TypeOfWorkers' /\ TypeOfHistory'
  BY DEF TypeOfWorkers, TypeOfHistory, workerVars, history
<1> QED
  BY <1>1, <1>2, <1>3, <1>4

\* What a request step may do to each part of the state.
LEMMA RequestShape ==
  ASSUME NEW q \in Requests, RequestStep(q) \/ WebCrash(q)
  PROVE  /\ \/ UNCHANGED <<status, rows, edited, file>>
            \/ RemoveRuns({r \in {reqRun[q]} : Exists(r)})
            \/ RemoveRuns({r \in Runs : Exists(r)})
            \/ SetStatusIfPresent(reqRun[q], "cancelled")
               /\ UNCHANGED <<rows, edited, file>>
         /\ source' = source
         /\ plan' = plan \/ plan' = [plan EXCEPT ![reqRun[q]] = "manual"]
         /\ UNCHANGED workerVars
         /\ \/ UNCHANGED jobVars
            \/ reqOp[q] = "defer_preflight" /\ Defer("preflight", reqRun[q])
            \/ reqOp[q] = "defer_generate" /\ Defer("generate", reqRun[q])
         /\ \/ Answered(q)
            \/ reqOp[q] = "approve" /\ reqRun' = reqRun
               /\ reqOp' = [reqOp EXCEPT ![q] = "defer_generate"]
            \/ reqOp[q] \in {"defer_preflight", "defer_generate"} /\ reqRun' = reqRun
               /\ reqOp' = [reqOp EXCEPT ![q] = "died"]
<1>1. CASE DeferAfterCommit(q)
  BY <1>1 DEF DeferAfterCommit, runVars
<1>2. CASE CommitApprove(q)
  <2>1. CASE Exists(reqRun[q])
    BY <1>2, <2>1 DEF CommitApprove
  <2>2. CASE ~Exists(reqRun[q])
    BY <1>2, <2>2 DEF CommitApprove
  <2> QED
    BY <2>1, <2>2
<1>3. CASE CommitCancel(q)
  BY <1>3 DEF CommitCancel
<1>4. CASE CommitDelete(q)
  BY <1>4 DEF CommitDelete, RemoveRuns
<1>5. CASE CommitDeleteClient(q)
  BY <1>5 DEF CommitDeleteClient, RemoveRuns
<1>6. CASE WebCrash(q)
  BY <1>6 DEF WebCrash, runVars
<1> QED
  BY <1>1, <1>2, <1>3, <1>4, <1>5, <1>6 DEF RequestStep

LEMMA TypeRequest ==
  ASSUME Base, NEW q \in Requests, RequestStep(q) \/ WebCrash(q)
  PROVE  TypeOK'
<1> USE DEF Base, TypeOK
<1>1. TypeOfRuns'
  <2>1. plan' \in [Runs -> {"none", "machine", "manual", "screaming-frog"}] /\ source' = source
    BY RequestShape DEF TypeOfRuns
  <2>2. CASE UNCHANGED <<status, rows, edited, file>>
    BY <2>1, <2>2 DEF TypeOfRuns
  <2>3. ASSUME NEW gone, RemoveRuns(gone) PROVE TypeOfRuns'
    BY <2>1, <2>3 DEF TypeOfRuns, RemoveRuns
  <2>4. CASE SetStatusIfPresent(reqRun[q], "cancelled") /\ UNCHANGED <<rows, edited, file>>
    BY <2>1, <2>4 DEF TypeOfRuns, SetStatusIfPresent, RunStatus, Terminal
  <2> QED
    BY <2>2, <2>3, <2>4, RequestShape
<1>2. TypeOfJobs' /\ TypeOfWorkers'
  <2>1. ASSUME NEW task \in {"preflight", "generate"}, Defer(task, reqRun[q])
        PROVE  TypeOfJobs'
    BY <2>1 DEF TypeOfJobs, TypeOfRequests, Defer
  <2>2. ASSUME UNCHANGED jobVars PROVE TypeOfJobs'
    BY <2>2 DEF TypeOfJobs, jobVars
  <2>3. TypeOfWorkers'
    BY RequestShape DEF TypeOfWorkers, workerVars
  <2> QED
    BY <2>1, <2>2, <2>3, RequestShape
<1>3. TypeOfRequests'
  BY RequestShape DEF TypeOfRequests, Answered
<1>4. TypeOfHistory'
  <2>1. CASE CommitApprove(q)
    BY <2>1 DEF CommitApprove, TypeOfHistory, history
  <2>2. CASE CommitCancel(q)
    BY <2>2 DEF CommitCancel, TypeOfHistory
  <2>3. CASE ~CommitApprove(q) /\ ~CommitCancel(q)
    BY <2>3 DEF RequestStep, WebCrash, DeferAfterCommit, CommitDelete,
                CommitDeleteClient, TypeOfHistory, history
  <2> QED
    BY <2>1, <2>2, <2>3
<1> QED
  BY <1>1, <1>2, <1>3, <1>4

LEMMA TypeWorker ==
  ASSUME Base, NEW w \in Workers, WorkerStep(w)
  PROVE  TypeOK'
<1> USE DEF Base, TypeOK
<1>1. TypeOfRuns'
  <2> USE DEF TypeOfRuns, SetStatus, SetStatusIfPresent, RunStatus, StageStatuses, Terminal
  <2>1. CASE UNCHANGED runVars
    BY <2>1 DEF runVars
  <2>2. CASE BeginPreflight(w) \/ ReconFails(w) \/ BeginGenerate(w) \/ StageFails(w)
             \/ TriageDone(w) \/ SummariseDone(w)
    BY <2>2 DEF BeginPreflight, ReconFails, BeginGenerate, StageFails, TriageDone,
                SummariseDone
  <2>3. CASE PlanStored(w)
    BY <2>3 DEF PlanStored
  <2>4. CASE InventoryStored(w) \/ GenerateDone(w)
    BY <2>4 DEF InventoryStored, GenerateDone
  <2> QED
    BY <2>1, <2>2, <2>3, <2>4
       DEF WorkerStep, FetchJob, RunIsGone, ReconDone, PlanningRaises, Gate, JobRaised
<1>2. TypeOfJobs' /\ TypeOfWorkers'
  <2>1. CASE FetchJob(w)
    BY <2>1 DEF FetchJob, TypeOfJobs, TypeOfWorkers
  <2>2. CASE BeginGenerate(w)
    <3>1. pc[w] # "idle" /\ UNCHANGED jobVars
      BY <2>2 DEF BeginGenerate
    <3>2. plan[RunOf(w)] \in {"none", "machine", "manual", "screaming-frog"}
      BY <3>1, BusyWorker DEF TypeOfRuns
    <3> QED
      BY <2>2, <3>1, <3>2 DEF BeginGenerate, TypeOfJobs, TypeOfWorkers, jobVars,
                              GenerateStages, Gates
  <2>3. ASSUME NEW stage \in PreflightStages \cup GenerateStages \cup {"raised"},
               WorkerGoes(w, stage), UNCHANGED jobVars
        PROVE  TypeOfJobs' /\ TypeOfWorkers'
    BY <2>3, StageTypes DEF TypeOfJobs, jobVars
  <2>4. ASSUME NEW outcome \in {"todo", "succeeded", "failed"},
               pc[w] # "idle", JobEnds(w, outcome)
        PROVE  TypeOfJobs' /\ TypeOfWorkers'
    BY <2>4, EndTypes, BusyWorker
  <2> QED
    BY <2>1, <2>2, <2>3, <2>4, WorkerShape
<1>3. TypeOfRequests' /\ TypeOfHistory'
  BY DEF TypeOfRequests, TypeOfHistory, WorkerStep, FetchJob, RunIsGone, BeginPreflight,
         ReconDone, ReconFails, PlanStored, PlanningRaises, BeginGenerate, Gate,
         InventoryStored, TriageDone, SummariseDone, GenerateDone, StageFails, JobRaised,
         reqVars, history
<1> QED
  BY <1>1, <1>2, <1>3

LEMMA TypeCrash == ASSUME Base, NEW w \in Workers, WorkerCrash(w) PROVE TypeOK'
  BY DEF Base, TypeOK, TypeOfRuns, TypeOfJobs, TypeOfWorkers, TypeOfRequests,
         TypeOfHistory, WorkerCrash, runVars, jobVars, reqVars, history

-----------------------------------------------------------------------------
(***************************************************************************)
(* References and claims.                                                  *)
(***************************************************************************)

\* A run that has been created stays created: ids are not used again.
LEMMA CreatedStays ==
  ASSUME Base, [Next]_vars, NEW r \in Runs, status[r] # "none"
  PROVE  status'[r] # "none"
<1> USE DEF Base, TypeOK, TypeOfRuns
<1>1. CASE UserStep
  BY <1>1 DEF UserStep, CreateRun, StartPreflight, ImportNothing, EditPages, ImportRun,
              BeginApprove, BeginCancel, BeginDelete, Rerun, BeginDeleteClient,
              SetStatus, runVars
<1>2. ASSUME NEW q \in Requests, RequestStep(q) \/ WebCrash(q)
      PROVE  status'[r] # "none"
  <2>1. ASSUME NEW gone, RemoveRuns(gone) PROVE status'[r] # "none"
    BY <2>1 DEF RemoveRuns
  <2>2. CASE SetStatusIfPresent(reqRun[q], "cancelled")
    BY <2>2 DEF SetStatusIfPresent
  <2> QED
    BY <1>2, <2>1, <2>2, RequestShape
<1>3. ASSUME NEW w \in Workers, WorkerStep(w) \/ WorkerCrash(w)
      PROVE  status'[r] # "none"
  BY <1>3 DEF WorkerStep, FetchJob, RunIsGone, BeginPreflight, ReconDone, ReconFails,
              PlanStored, PlanningRaises, BeginGenerate, Gate, InventoryStored,
              TriageDone, SummariseDone, GenerateDone, StageFails, JobRaised, SetStatus,
              SetStatusIfPresent, WorkerCrash, runVars
<1> QED
  BY <1>1, <1>2, <1>3 DEF Next, vars, runVars

\* A job in the queue was there before, with the same task and run, or has just
\* been deferred for a run that exists: a preflight, or a generate on behalf of a
\* request that stands before its deferral.
LEMMA JobsAfter ==
  ASSUME Base, [Next]_vars, NEW j \in Jobs, jobState'[j] # "free"
  PROVE  \/ /\ jobState[j] # "free"
            /\ jobTask'[j] = jobTask[j] /\ jobRun'[j] = jobRun[j]
         \/ /\ jobState[j] = "free"
            /\ jobTask'[j] = "preflight" /\ Created(jobRun'[j])
         \/ /\ jobState[j] = "free"
            /\ jobTask'[j] = "generate" /\ Created(jobRun'[j])
            /\ \E q \in Requests : reqOp[q] = "defer_generate" /\ reqRun[q] = jobRun'[j]
<1> USE DEF Base, TypeOK
<1> DEFINE Kept == jobState[j] # "free" /\ jobTask'[j] = jobTask[j] /\ jobRun'[j] = jobRun[j]
<1>1. ASSUME UNCHANGED jobVars PROVE Kept
  BY <1>1 DEF jobVars
<1>2. ASSUME NEW task, NEW r \in Runs, Defer(task, r)
      PROVE  Kept \/ (jobState[j] = "free" /\ jobTask'[j] = task /\ jobRun'[j] = r)
  BY <1>2 DEF Defer, TypeOfJobs
<1>3. CASE UserStep
  <2>1. CASE \E r \in Runs : StartPreflight(r)
    <3> PICK r \in Runs : StartPreflight(r)
      BY <2>1
    <3>1. Created(r) /\ Defer("preflight", r)
      BY DEF StartPreflight, Exists, Created, RunStatus, StageStatuses, Terminal
    <3> QED
      BY <3>1, <1>2
  <2>2. CASE ~ \E r \in Runs : StartPreflight(r)
    <3>1. UNCHANGED jobVars
      BY <1>3, <2>2 DEF UserStep, CreateRun, ImportNothing, EditPages, ImportRun,
            BeginApprove, BeginCancel, BeginDelete, Rerun, BeginDeleteClient
    <3> QED
      BY <3>1, <1>1
  <2> QED
    BY <2>1, <2>2
<1>4. ASSUME NEW q \in Requests, RequestStep(q) \/ WebCrash(q)
      PROVE  \/ Kept
             \/ /\ jobState[j] = "free"
                /\ jobTask'[j] = "preflight" /\ Created(jobRun'[j])
             \/ /\ jobState[j] = "free"
                /\ jobTask'[j] = "generate" /\ Created(jobRun'[j])
                /\ reqOp[q] = "defer_generate" /\ reqRun[q] = jobRun'[j]
  <2>1. CASE UNCHANGED jobVars
    BY <2>1, <1>1
  <2>2. CASE reqOp[q] = "defer_preflight" /\ Defer("preflight", reqRun[q])
    <3>1. Created(reqRun[q])
      BY <2>2 DEF References
    <3> QED
      BY <2>2, <3>1, <1>2 DEF Created
  <2>3. CASE reqOp[q] = "defer_generate" /\ Defer("generate", reqRun[q])
    <3>1. Created(reqRun[q])
      BY <2>3 DEF References
    <3> QED
      BY <2>3, <3>1, <1>2 DEF Created
  <2> QED
    BY <1>4, <2>1, <2>2, <2>3, RequestShape
<1>5. ASSUME NEW w \in Workers, WorkerStep(w) PROVE Kept
  <2>1. CASE FetchJob(w)
    BY <2>1 DEF FetchJob, TypeOfJobs
  <2>2. CASE UNCHANGED jobVars
    BY <2>2, <1>1
  <2>3. ASSUME NEW outcome, pc[w] # "idle", JobEnds(w, outcome) PROVE Kept
    <3>1. at[w] \in Jobs /\ jobState[at[w]] = "doing"
      BY <2>3, BusyWorker
    <3> QED
      BY <2>3, <3>1 DEF JobEnds, TypeOfJobs
  <2>4. BeginGenerate(w) => UNCHANGED jobVars
    BY DEF BeginGenerate
  <2> QED
    BY <1>5, <2>1, <2>2, <2>3, <2>4, WorkerShape
<1>6. ASSUME NEW w \in Workers, WorkerCrash(w) PROVE Kept
  BY <1>6, <1>1 DEF WorkerCrash
<1>7. CASE UNCHANGED vars
  BY <1>7, <1>1 DEF vars
<1> HIDE DEF Kept
<1> QED
  <2>1. CASE Kept
    BY <2>1 DEF Kept
  <2> QED
    BY <1>3, <1>4, <1>5, <1>6, <1>7, <2>1 DEF Next

\* The same of requests: one stands where it stood, has gone from its approval to
\* the deferral, has died before the deferral, or is new and about a run that
\* exists; a new one that will defer a generate comes from an import.
LEMMA RequestsAfter ==
  ASSUME Base, [Next]_vars, NEW q \in Requests,
         reqOp'[q] \notin {"idle", "delete_client"}
  PROVE  \/ /\ reqOp'[q] = reqOp[q] /\ reqRun'[q] = reqRun[q]
         \/ /\ reqOp[q] = "approve" /\ reqRun'[q] = reqRun[q]
            /\ reqOp'[q] = "defer_generate" /\ approved'[reqRun[q]]
         \/ /\ reqOp[q] \in {"defer_preflight", "defer_generate"}
            /\ reqOp'[q] = "died" /\ reqRun'[q] = reqRun[q]
         \/ /\ reqRun'[q] \in Runs /\ status'[reqRun'[q]] # "none"
            /\ reqOp'[q] = "defer_generate" => source'[reqRun'[q]] # "crawl"
<1> USE DEF Base, TypeOK
<1> DEFINE Kept == reqOp'[q] = reqOp[q] /\ reqRun'[q] = reqRun[q]
           New == /\ reqRun'[q] \in Runs /\ status'[reqRun'[q]] # "none"
                  /\ reqOp'[q] = "defer_generate" => source'[reqRun'[q]] # "crawl"
<1>1. ASSUME UNCHANGED reqVars PROVE Kept
  BY <1>1 DEF reqVars
<1>2. CASE UserStep
  <2>1. ASSUME NEW r \in Runs, NEW p \in Requests, NEW op, Ask(p, op, r),
               status'[r] # "none", op = "defer_generate" => source'[r] # "crawl"
        PROVE  Kept \/ New
    BY <2>1 DEF Ask, TypeOfRequests
  <2>2. ASSUME NEW p \in Requests, BeginDeleteClient(p) PROVE Kept
    BY <2>2 DEF BeginDeleteClient, Ask, TypeOfRequests
  <2>3. ASSUME NEW p \in Requests, NEW r \in Runs,
               BeginApprove(p, r) \/ BeginCancel(p, r) \/ BeginDelete(p, r)
        PROVE  Kept \/ New
    BY <2>1, <2>3 DEF BeginApprove, BeginCancel, BeginDelete, Exists, RunStatus, Terminal,
                      StageStatuses, runVars
  <2>4. ASSUME NEW p \in Requests, NEW r \in Runs, ImportRun(p, r) PROVE Kept \/ New
    BY <2>1, <2>4 DEF ImportRun, SetStatus, TypeOfRuns
  <2>5. ASSUME NEW p \in Requests, NEW r \in Runs, NEW original \in Runs,
               Rerun(p, original, r)
        PROVE  Kept \/ New
    BY <2>1, <2>5 DEF Rerun, SetStatus, TypeOfRuns
  <2>6. ASSUME NEW r \in Runs,
               CreateRun(r) \/ StartPreflight(r) \/ ImportNothing(r) \/ EditPages(r)
        PROVE  Kept
    BY <1>1, <2>6 DEF CreateRun, StartPreflight, ImportNothing, EditPages
  <2> HIDE DEF Kept, New
  <2>7. Kept \/ New
    BY <1>2, <2>2, <2>3, <2>4, <2>5, <2>6 DEF UserStep
  <2> QED
    BY <2>7 DEF Kept, New
<1>3. ASSUME NEW p \in Requests, RequestStep(p) \/ WebCrash(p)
      PROVE  \/ Kept
             \/ /\ reqOp[q] = "approve" /\ reqRun'[q] = reqRun[q]
                /\ reqOp'[q] = "defer_generate" /\ approved'[reqRun[q]]
             \/ /\ reqOp[q] \in {"defer_preflight", "defer_generate"}
                /\ reqOp'[q] = "died" /\ reqRun'[q] = reqRun[q]
  <2>1. CASE CommitApprove(p) /\ Exists(reqRun[p])
    <3>1. reqOp[p] = "approve" /\ reqRun[p] \in Runs
      BY <2>1 DEF CommitApprove, References, Created
    <3> QED
      BY <2>1, <3>1 DEF CommitApprove, TypeOfRequests, TypeOfHistory
  <2>2. CASE WebCrash(p)
    BY <2>2 DEF WebCrash, TypeOfRequests
  <2>3. CASE ~(CommitApprove(p) /\ Exists(reqRun[p])) /\ ~WebCrash(p)
    <3>1. Answered(p)
      BY <1>3, <2>3 DEF RequestStep, DeferAfterCommit, CommitApprove, CommitCancel,
                        CommitDelete, CommitDeleteClient
    <3> QED
      BY <3>1 DEF Answered, TypeOfRequests
  <2> QED
    BY <2>1, <2>2, <2>3
<1>4. ASSUME NEW w \in Workers, WorkerStep(w) \/ WorkerCrash(w) PROVE Kept
  BY <1>1, <1>4
     DEF WorkerStep, WorkerCrash, FetchJob, RunIsGone, BeginPreflight, ReconDone,
         ReconFails, PlanStored, PlanningRaises, BeginGenerate, Gate, InventoryStored,
         TriageDone, SummariseDone, GenerateDone, StageFails, JobRaised
<1>5. CASE UNCHANGED vars
  BY <1>5, <1>1 DEF vars
<1> HIDE DEF Kept
<1> QED
  <2>1. CASE Kept
    BY <2>1 DEF Kept
  <2> QED
    BY <1>2, <1>3, <1>4, <1>5, <2>1 DEF Next

LEMMA ReferencesStep == ASSUME Base, [Next]_vars PROVE References'
<1>1. ASSUME NEW j \in Jobs, jobState'[j] # "free"
      PROVE  jobTask'[j] # "none" /\ Created(jobRun[j])'
  <2>1. jobTask'[j] # "none" /\ Created(jobRun'[j])
    BY <1>1, JobsAfter DEF Base, References
  <2> QED
    BY <2>1, CreatedStays DEF Created
<1>2. ASSUME NEW q \in Requests, reqOp'[q] \notin {"idle", "delete_client"}
      PROVE  Created(reqRun[q])'
  BY <1>2, RequestsAfter, CreatedStays DEF Base, References, Created
<1> QED
  BY <1>1, <1>2 DEF References

\* A deferral takes a free id, so it disturbs no job that a worker holds.
LEMMA ClaimsKept ==
  ASSUME Base, UNCHANGED workerVars,
         UNCHANGED jobVars \/ \E task, r : Defer(task, r)
  PROVE  ClaimsAreExclusive'
<1> USE DEF Base, TypeOK, TypeOfWorkers, TypeOfJobs, workerVars, ClaimsAreExclusive, RunOf
<1>1. CASE UNCHANGED jobVars
  BY <1>1 DEF jobVars
<1>2. ASSUME NEW task, NEW r, Defer(task, r) PROVE ClaimsAreExclusive'
  <2>1. PICK j \in Jobs :
           /\ jobState[j] = "free" /\ jobState' = [jobState EXCEPT ![j] = "todo"]
           /\ jobTask' = [jobTask EXCEPT ![j] = task]
           /\ jobRun' = [jobRun EXCEPT ![j] = r]
    BY <1>2 DEF Defer
  <2>2. ASSUME NEW w \in Workers
        PROVE  at[w] # 0 => /\ at[w] \in Jobs
                            /\ jobState'[at[w]] = jobState[at[w]]
                            /\ jobTask'[at[w]] = jobTask[at[w]]
                            /\ jobRun'[at[w]] = jobRun[at[w]]
    BY <2>1
  <2>3. ASSUME NEW w \in Workers, at[w] = 0
        PROVE  pc[w] \notin GenerateStages \cup PreflightStages
    BY <2>3 DEF GenerateStages, PreflightStages, Gates, ExpensiveStages
  <2> QED
    BY <2>2, <2>3
<1> QED
  BY <1>1, <1>2

LEMMA ClaimsStep == ASSUME Base, [Next]_vars PROVE ClaimsAreExclusive'
<1> USE DEF Base, TypeOK
<1>1. CASE UserStep
  BY <1>1, ClaimsKept
     DEF UserStep, CreateRun, StartPreflight, ImportNothing, EditPages, ImportRun,
         BeginApprove, BeginCancel, BeginDelete, Rerun, BeginDeleteClient
<1>2. ASSUME NEW q \in Requests, RequestStep(q) \/ WebCrash(q)
      PROVE  ClaimsAreExclusive'
  BY <1>2, ClaimsKept, RequestShape
<1>3. ASSUME NEW w \in Workers, WorkerStep(w) PROVE ClaimsAreExclusive'
  <2> USE DEF TypeOfWorkers, TypeOfJobs, ClaimsAreExclusive, RunOf
  <2>1. CASE FetchJob(w)
    <3>1. PICK j \in Jobs : /\ jobState[j] = "todo"
                            /\ jobState' = [jobState EXCEPT ![j] = "doing"]
                            /\ at' = [at EXCEPT ![w] = j]
      BY <2>1 DEF FetchJob
    <3>2. j # 0 /\ jobRun[j] \in Runs
      BY <3>1 DEF Jobs, References, Created
    <3>3. jobRun' = jobRun /\ jobTask' = jobTask /\ pc' = [pc EXCEPT ![w] = "fetched"]
      BY <2>1 DEF FetchJob
    <3> QED
      BY <3>1, <3>2, <3>3 DEF GenerateStages, PreflightStages, Gates, ExpensiveStages
  <2>2. CASE BeginGenerate(w)
    BY <2>2 DEF BeginGenerate, GenerateStages, PreflightStages, Gates, ExpensiveStages,
                jobVars
  <2>3. ASSUME NEW stage \in PreflightStages \cup GenerateStages \cup {"raised"},
               pc[w] # "idle", WorkerGoes(w, stage), UNCHANGED jobVars,
               stage \in GenerateStages => jobTask[at[w]] = "generate",
               stage \in PreflightStages => jobTask[at[w]] = "preflight"
        PROVE  ClaimsAreExclusive'
    BY <2>3 DEF WorkerGoes, jobVars, GenerateStages, PreflightStages, Gates,
                ExpensiveStages
  <2>4. ASSUME NEW outcome, pc[w] # "idle", JobEnds(w, outcome)
        PROVE  ClaimsAreExclusive'
    BY <2>4 DEF JobEnds, GenerateStages, PreflightStages, Gates, ExpensiveStages
  <2> QED
    BY <1>3, <2>1, <2>2, <2>3, <2>4, WorkerShape
<1>4. ASSUME NEW w \in Workers, WorkerCrash(w) PROVE ClaimsAreExclusive'
  BY <1>4 DEF WorkerCrash, TypeOfWorkers, ClaimsAreExclusive, RunOf, jobVars,
              GenerateStages, PreflightStages, Gates, ExpensiveStages
<1>5. CASE UNCHANGED vars
  BY <1>5, ClaimsKept DEF vars
<1> QED
  BY <1>1, <1>2, <1>3, <1>4, <1>5 DEF Next

LEMMA BaseStep == ASSUME Base, [Next]_vars PROVE Base'
<1>1. TypeOK'
  <2>1. CASE UNCHANGED vars
    BY <2>1 DEF Base, vars, runVars, jobVars, workerVars, reqVars, history, TypeOK,
                TypeOfRuns, TypeOfJobs, TypeOfWorkers, TypeOfRequests, TypeOfHistory
  <2> QED
    BY <2>1, TypeUser, TypeRequest, TypeWorker, TypeCrash DEF Next
<1> QED
  BY <1>1, ReferencesStep, ClaimsStep DEF Base

\* Every behaviour of the system is type-correct.
THEOREM TypeCorrect == Spec => []TypeOK
<1>1. Base => TypeOK
  BY DEF Base
<1> QED
  BY <1>1, BaseInit, BaseStep, PTL DEF Spec

\* A worker's job is always its own, marked doing, of the task it runs and about a
\* run that was created (fetch_job_v2 beside preflight_task and generate_task).
THEOREM ClaimsCorrect == Spec => []ClaimsAreExclusive
<1>1. Base => ClaimsAreExclusive
  BY DEF Base
<1> QED
  BY <1>1, BaseInit, BaseStep, PTL DEF Spec

-----------------------------------------------------------------------------
(***************************************************************************)
(* The human gate.  ReviewGate speaks of the worker only; what is          *)
(* inductive is that the approval already stands behind the request and    *)
(* behind the job, and that neither an approval nor a source is taken back *)
(***************************************************************************)

LEMMA SourceStays ==
  ASSUME Base, [Next]_vars, NEW r \in Runs, status[r] # "none"
  PROVE  source'[r] = source[r]
<1> USE DEF Base, TypeOK, TypeOfRuns
<1>1. CASE UserStep
  BY <1>1 DEF UserStep, CreateRun, StartPreflight, ImportNothing, EditPages, ImportRun,
              BeginApprove, BeginCancel, BeginDelete, Rerun, BeginDeleteClient, runVars
<1>2. ASSUME NEW q \in Requests, RequestStep(q) \/ WebCrash(q)
      PROVE  source'[r] = source[r]
  BY <1>2, RequestShape
<1>3. ASSUME NEW w \in Workers, WorkerStep(w) \/ WorkerCrash(w)
      PROVE  source'[r] = source[r]
  BY <1>3 DEF WorkerStep, FetchJob, RunIsGone, BeginPreflight, ReconDone, ReconFails,
              PlanStored, PlanningRaises, BeginGenerate, Gate, InventoryStored,
              TriageDone, SummariseDone, GenerateDone, StageFails, JobRaised,
              WorkerCrash, runVars
<1> QED
  BY <1>1, <1>2, <1>3 DEF Next, vars, runVars

LEMMA ApprovalStays ==
  ASSUME Base, [Next]_vars, NEW r \in Runs, approved[r]
  PROVE  approved'[r]
<1> USE DEF Base, TypeOK, TypeOfHistory
<1>1. CASE UserStep
  BY <1>1 DEF UserStep, CreateRun, StartPreflight, ImportNothing, EditPages, ImportRun,
              BeginApprove, BeginCancel, BeginDelete, Rerun, BeginDeleteClient, history
<1>2. ASSUME NEW q \in Requests, RequestStep(q) \/ WebCrash(q)
      PROVE  approved'[r]
  <2>1. CASE CommitApprove(q)
    BY <2>1 DEF CommitApprove, history
  <2>2. CASE ~CommitApprove(q)
    BY <1>2, <2>2 DEF RequestStep, WebCrash, DeferAfterCommit, CommitCancel,
                      CommitDelete, CommitDeleteClient, history
  <2> QED
    BY <2>1, <2>2
<1>3. ASSUME NEW w \in Workers, WorkerStep(w) \/ WorkerCrash(w)
      PROVE  approved'[r]
  BY <1>3 DEF WorkerStep, FetchJob, RunIsGone, BeginPreflight, ReconDone, ReconFails,
              PlanStored, PlanningRaises, BeginGenerate, Gate, InventoryStored,
              TriageDone, SummariseDone, GenerateDone, StageFails, JobRaised,
              WorkerCrash, history
<1> QED
  BY <1>1, <1>2, <1>3 DEF Next, vars, history

LEMMA ApprovalStep ==
  ASSUME Base, ApprovedBeforeDeferral, [Next]_vars
  PROVE  ApprovedBeforeDeferral'
<1>1. ASSUME NEW j \in Jobs, jobState'[j] # "free", jobTask'[j] = "generate",
             source'[jobRun'[j]] = "crawl"
      PROVE  approved'[jobRun'[j]]
  <2>1. CASE jobState[j] # "free" /\ jobTask'[j] = jobTask[j] /\ jobRun'[j] = jobRun[j]
    <3>1. Created(jobRun[j])
      BY <2>1 DEF Base, References
    <3>2. source[jobRun[j]] = "crawl"
      BY <1>1, <2>1, <3>1, SourceStays DEF Created
    <3>3. approved[jobRun[j]]
      BY <1>1, <2>1, <3>2 DEF ApprovedBeforeDeferral
    <3> QED
      BY <2>1, <3>1, <3>3, ApprovalStays DEF Created
  <2>2. ASSUME NEW q \in Requests, reqOp[q] = "defer_generate", Created(jobRun'[j]),
               reqRun[q] = jobRun'[j]
        PROVE  approved'[jobRun'[j]]
    <3>1. source[reqRun[q]] = "crawl"
      BY <1>1, <2>2, SourceStays DEF Created
    <3>2. approved[reqRun[q]]
      BY <2>2, <3>1 DEF ApprovedBeforeDeferral
    <3> QED
      BY <2>2, <3>2, ApprovalStays DEF Created
  <2> QED
    BY <1>1, <2>1, <2>2, JobsAfter
<1>2. ASSUME NEW q \in Requests, reqOp'[q] = "defer_generate",
             source'[reqRun'[q]] = "crawl"
      PROVE  approved'[reqRun'[q]]
  <2>1. CASE reqOp'[q] = reqOp[q] /\ reqRun'[q] = reqRun[q]
    <3>1. Created(reqRun[q])
      BY <1>2, <2>1 DEF Base, References
    <3>2. source[reqRun[q]] = "crawl"
      BY <1>2, <2>1, <3>1, SourceStays DEF Created
    <3>3. approved[reqRun[q]]
      BY <1>2, <2>1, <3>2 DEF ApprovedBeforeDeferral
    <3> QED
      BY <2>1, <3>1, <3>3, ApprovalStays DEF Created
  <2> QED
    BY <1>2, <2>1, RequestsAfter
<1> QED
  BY <1>1, <1>2 DEF ApprovedBeforeDeferral

\* Every crawl is behind an approval: however often jobs are retried, duplicated or
\* cloned, no worker is in a stage of a crawled run that nobody approved (save_plan).
THEOREM ReviewGateHolds == Spec => []ReviewGate
<1>1. Init => ApprovedBeforeDeferral
  BY DEF Init, ApprovedBeforeDeferral
<1>2. Base /\ ApprovedBeforeDeferral => ReviewGate
  BY BusyWorker
     DEF ReviewGate, ApprovedBeforeDeferral, Base, ClaimsAreExclusive, RunOf,
         GenerateStages, Gates, ExpensiveStages
<1> QED
  BY <1>1, <1>2, BaseInit, BaseStep, ApprovalStep, PTL DEF Spec

-----------------------------------------------------------------------------
(***************************************************************************)
(* What is stored for a run.  RunAfter says, of one run, everything that a *)
(* step of anybody may do to its status, its pages and its file.           *)
(***************************************************************************)

LEMMA RunAfter ==
  ASSUME Base, [Next]_vars, NEW r \in Runs
  PROVE  \/ UNCHANGED <<status[r], rows[r], file[r]>>
         \* created, by hand or by an import
         \/ /\ status[r] = "none" /\ file'[r] = file[r]
            /\ \/ status'[r] = "pending" /\ rows'[r] = rows[r]
               \/ /\ status'[r] = "crawling" /\ rows'[r] = "raw"
                  /\ \E q \in Requests : reqOp'[q] = "defer_generate" /\ reqRun'[q] = r
         \* deleted
         \/ status'[r] = "deleted" /\ rows'[r] = "none" /\ file'[r] = "none"
         \* edited
         \/ /\ Exists(r) /\ status'[r] = status[r] /\ rows'[r] = rows[r]
            /\ file'[r] # "none"
         \* crawled, moved on to a stage, or finished by a worker
         \/ /\ Exists(r) /\ status'[r] \in StageStatuses /\ file'[r] = file[r]
            /\ rows'[r] \in {rows[r], "raw"}
            /\ \E w \in Workers : /\ at[w] # 0 /\ at' = at /\ jobRun' = jobRun
                                  /\ jobRun[at[w]] = r /\ pc'[w] \in GenerateStages
         \/ /\ Exists(r) /\ status'[r] = "complete" /\ file'[r] = "all"
            /\ rows'[r] = IF rows[r] = "none" THEN "none" ELSE "copied"
            /\ \E w \in Workers : pc[w] = "assembling" /\ RunOf(w) = r
         \* given another status
         \/ /\ Exists(r) /\ rows'[r] = rows[r] /\ file'[r] = file[r]
            /\ status'[r] \in {"preflight", "awaiting_review", "failed", "cancelled"}
<1> USE DEF Base, TypeOK, TypeOfRuns
<1> DEFINE Kept == UNCHANGED <<status[r], rows[r], file[r]>>
           NewStatus == /\ Exists(r) /\ rows'[r] = rows[r] /\ file'[r] = file[r]
                        /\ status'[r] \in {"preflight", "awaiting_review", "failed",
                                           "cancelled"}
<1>1. CASE UserStep
  <2>1. ASSUME NEW s \in Runs, CreateRun(s) \/ ImportNothing(s)
        PROVE  Kept \/ (/\ status[r] = "none" /\ file'[r] = file[r]
                        /\ status'[r] = "pending" /\ rows'[r] = rows[r])
    BY <2>1 DEF CreateRun, ImportNothing, SetStatus
  <2>2. ASSUME NEW s \in Runs, NEW q \in Requests, NEW original \in Runs,
               Rerun(q, original, s)
        PROVE  Kept \/ (/\ status[r] = "none" /\ file'[r] = file[r]
                        /\ status'[r] = "pending" /\ rows'[r] = rows[r])
    BY <2>2 DEF Rerun, SetStatus
  <2>3. ASSUME NEW s \in Runs, NEW q \in Requests, ImportRun(q, s)
        PROVE  Kept \/ (/\ status[r] = "none" /\ file'[r] = file[r]
                        /\ status'[r] = "crawling" /\ rows'[r] = "raw"
                        /\ reqOp'[q] = "defer_generate" /\ reqRun'[q] = r)
    BY <2>3 DEF ImportRun, SetStatus, Ask, TypeOfRequests
  <2>4. ASSUME NEW s \in Runs, EditPages(s)
        PROVE  Kept \/ (/\ Exists(r) /\ status'[r] = status[r] /\ rows'[r] = rows[r]
                        /\ file'[r] # "none")
    BY <2>4 DEF EditPages
  <2>5. ASSUME UNCHANGED runVars PROVE Kept
    BY <2>5 DEF runVars
  <2>6. ASSUME NEW s \in Runs, StartPreflight(s) PROVE Kept
    BY <2>5, <2>6 DEF StartPreflight
  <2>7. ASSUME NEW s \in Runs, NEW q \in Requests,
               BeginApprove(q, s) \/ BeginCancel(q, s) \/ BeginDelete(q, s)
               \/ BeginDeleteClient(q)
        PROVE  Kept
    BY <2>5, <2>7 DEF BeginApprove, BeginCancel, BeginDelete, BeginDeleteClient
  <2> HIDE DEF Kept
  <2>8. CASE Kept
    BY <2>8 DEF Kept
  <2> QED
    BY <1>1, <2>1, <2>2, <2>3, <2>4, <2>6, <2>7, <2>8 DEF UserStep
<1>2. ASSUME NEW q \in Requests, RequestStep(q) \/ WebCrash(q)
      PROVE  \/ Kept \/ NewStatus
             \/ status'[r] = "deleted" /\ rows'[r] = "none" /\ file'[r] = "none"
  <2>1. ASSUME NEW gone, RemoveRuns(gone)
        PROVE  Kept \/ (status'[r] = "deleted" /\ rows'[r] = "none" /\ file'[r] = "none")
    BY <2>1 DEF RemoveRuns
  <2>2. ASSUME SetStatusIfPresent(reqRun[q], "cancelled"),
               UNCHANGED <<rows, edited, file>>
        PROVE  Kept \/ NewStatus
    BY <2>2 DEF SetStatusIfPresent
  <2>3. ASSUME UNCHANGED <<status, rows, edited, file>> PROVE Kept
    BY <2>3
  <2> HIDE DEF Kept, NewStatus
  <2> QED
    BY <1>2, <2>1, <2>2, <2>3, RequestShape
<1>3. ASSUME NEW w \in Workers, WorkerStep(w)
      PROVE  \/ Kept \/ NewStatus
             \/ /\ Exists(r) /\ status'[r] \in StageStatuses /\ file'[r] = file[r]
                /\ rows'[r] \in {rows[r], "raw"}
                /\ at[w] # 0 /\ at' = at /\ jobRun' = jobRun
                /\ jobRun[at[w]] = r /\ pc'[w] \in GenerateStages
             \/ /\ Exists(r) /\ status'[r] = "complete" /\ file'[r] = "all"
                /\ rows'[r] = IF rows[r] = "none" THEN "none" ELSE "copied"
                /\ pc[w] = "assembling" /\ RunOf(w) = r
  <2>1. CASE UNCHANGED runVars
    BY <2>1 DEF runVars
  <2>2. CASE BeginPreflight(w) \/ PlanStored(w)
    BY <2>2 DEF BeginPreflight, PlanStored, SetStatus
  <2>3. CASE ReconFails(w) \/ StageFails(w)
    BY <2>3 DEF ReconFails, StageFails, SetStatusIfPresent
  <2>4. CASE BeginGenerate(w) \/ InventoryStored(w) \/ TriageDone(w) \/ SummariseDone(w)
    <3>1. pc[w] # "idle" /\ at' = at /\ jobRun' = jobRun /\ Exists(RunOf(w))
      BY <2>4 DEF BeginGenerate, InventoryStored, TriageDone, SummariseDone, WorkerGoes,
                  jobVars
    <3>2. RunOf(w) \in Runs /\ at[w] # 0 /\ RunOf(w) = jobRun[at[w]]
      BY <3>1, BusyWorker DEF Jobs
    <3>3. pc'[w] \in GenerateStages
      BY <2>4 DEF BeginGenerate, InventoryStored, TriageDone, SummariseDone, WorkerGoes,
                  GenerateStages, Gates, TypeOfWorkers
    <3>4. CASE r # RunOf(w)
      BY <2>4, <3>2, <3>4 DEF BeginGenerate, InventoryStored, TriageDone, SummariseDone,
                              SetStatus
    <3>5. CASE r = RunOf(w)
      BY <2>4, <3>1, <3>2, <3>3, <3>5
         DEF BeginGenerate, InventoryStored, TriageDone, SummariseDone, SetStatus,
             StageStatuses
    <3> QED
      BY <3>4, <3>5
  <2>5. CASE GenerateDone(w)
    BY <2>5 DEF GenerateDone, SetStatus
  <2> QED
    BY <1>3, <2>1, <2>2, <2>3, <2>4, <2>5
       DEF WorkerStep, FetchJob, RunIsGone, ReconDone, PlanningRaises, Gate, JobRaised
<1>4. ASSUME NEW w \in Workers, WorkerCrash(w) PROVE Kept
  BY <1>4 DEF WorkerCrash, runVars
<1>5. CASE UNCHANGED vars
  BY <1>5 DEF vars, runVars
<1> HIDE DEF Kept, NewStatus
<1>6. CASE Kept
  BY <1>6 DEF Kept
<1>7. CASE NewStatus
  BY <1>7 DEF NewStatus
<1> QED
  BY <1>1, <1>2, <1>3, <1>4, <1>5, <1>6, <1>7 DEF Next

\* Nothing is stored for a run that is not there (delete_run, replace_pages and
\* store_result, and the foreign key between them).
THEOREM NothingWithoutARunHolds == Spec => []NothingWithoutARun
<1>1. Init => NothingWithoutARun
  BY DEF Init, NothingWithoutARun
<1>2. ASSUME Base, NothingWithoutARun, [Next]_vars PROVE NothingWithoutARun'
  <2> SUFFICES ASSUME NEW r \in Runs, ~Exists(r)'
               PROVE  rows'[r] = "none" /\ file'[r] = "none"
    BY DEF NothingWithoutARun
  <2>1. status'[r] \notin RunStatus
    BY DEF Exists
  <2>2. status'[r] \notin StageStatuses \cup {"complete", "pending", "crawling",
              "preflight", "awaiting_review", "failed", "cancelled"}
    BY <2>1 DEF RunStatus, StageStatuses, Terminal
  <2> QED
    BY <1>2, <2>1, <2>2, RunAfter DEF NothingWithoutARun, Exists
<1> QED
  BY <1>1, <1>2, BaseInit, BaseStep, PTL DEF Spec

\* Only a worker's own steps, and its crash, move it.
LEMMA WorkerAfter ==
  ASSUME Base, [Next]_vars, NEW w \in Workers
  PROVE  \/ pc'[w] = pc[w] /\ at'[w] = at[w]
         \/ WorkerStep(w)
         \/ WorkerCrash(w)
<1> USE DEF Base, TypeOK, TypeOfWorkers
<1>1. CASE UserStep
  BY <1>1 DEF UserStep, CreateRun, StartPreflight, ImportNothing, EditPages, ImportRun,
     BeginApprove, BeginCancel, BeginDelete, Rerun, BeginDeleteClient, workerVars
<1>2. ASSUME NEW q \in Requests, RequestStep(q) \/ WebCrash(q)
      PROVE  pc'[w] = pc[w] /\ at'[w] = at[w]
  BY <1>2, RequestShape DEF workerVars
<1>3. ASSUME NEW v \in Workers, WorkerStep(v), v # w
      PROVE  pc'[w] = pc[w] /\ at'[w] = at[w]
  BY <1>3, WorkerShape DEF FetchJob, BeginGenerate, WorkerGoes, JobEnds
<1>4. ASSUME NEW v \in Workers, WorkerCrash(v), v # w
      PROVE  pc'[w] = pc[w] /\ at'[w] = at[w]
  BY <1>4 DEF WorkerCrash
<1> QED
  BY <1>1, <1>2, <1>3, <1>4 DEF Next, vars, workerVars

\* A worker is past the crawl of a run only if it has just stored its pages, or was
\* there already and still works on the same run.
LEMMA PastTheCrawl ==
  ASSUME Base, [Next]_vars, NEW w \in Workers,
         pc'[w] \in {"gate_triage", "triaging", "gate_summarise", "summarising",
                     "assembling"}
  PROVE  /\ RunOf(w)' = RunOf(w) /\ RunOf(w) \in Runs /\ status[RunOf(w)] # "none"
         /\ \/ pc[w] \in {"gate_triage", "triaging", "gate_summarise", "summarising",
                          "assembling"}
            \/ rows'[RunOf(w)] # "none"
<1> USE DEF Base, TypeOK, TypeOfWorkers
<1> DEFINE Past == {"gate_triage", "triaging", "gate_summarise", "summarising",
                    "assembling"}
<1>1. \/ /\ pc'[w] = pc[w] /\ at'[w] = at[w]
      \/ /\ pc[w] # "idle" /\ at'[w] = at[w] /\ jobRun' = jobRun
         /\ pc[w] \in Past \/ rows'[RunOf(w)] # "none"
  <2>1. ASSUME WorkerStep(w)
        PROVE  /\ pc[w] # "idle" /\ at'[w] = at[w] /\ jobRun' = jobRun
               /\ pc[w] \in Past \/ rows'[RunOf(w)] # "none"
    <3>1. CASE InventoryStored(w)
      <4>1. RunOf(w) \in Runs /\ at' = at /\ jobRun' = jobRun /\ pc[w] # "idle"
        BY <3>1, BusyWorker DEF InventoryStored, WorkerGoes, jobVars
      <4> QED
        BY <3>1, <4>1 DEF InventoryStored, TypeOfRuns
    <3>2. CASE Gate(w) \/ TriageDone(w) \/ SummariseDone(w)
      BY <3>2 DEF Gate, Gates, Behind, TriageDone, SummariseDone, WorkerGoes, JobEnds,
                  jobVars
    <3>3. CASE ~(InventoryStored(w) \/ Gate(w) \/ TriageDone(w) \/ SummariseDone(w))
      BY <2>1, <3>3
         DEF WorkerStep, FetchJob, RunIsGone, BeginPreflight, ReconDone, ReconFails,
             PlanStored, PlanningRaises, BeginGenerate, GenerateDone, StageFails,
             JobRaised, WorkerGoes, JobEnds
    <3> QED
      BY <3>1, <3>2, <3>3
  <2>2. ~WorkerCrash(w)
    BY DEF WorkerCrash
  <2> HIDE DEF Past
  <2> QED
    BY <2>1, <2>2, WorkerAfter
<1>2. pc[w] # "idle"
  BY <1>1
<1>3. at[w] \in Jobs /\ jobState[at[w]] = "doing" /\ RunOf(w) \in Runs
      /\ status[RunOf(w)] # "none" /\ RunOf(w) = jobRun[at[w]]
  BY <1>2, BusyWorker
<1>4. at'[w] = at[w]
  BY <1>1
<1>5. jobRun'[at[w]] = jobRun[at[w]]
  <2>1. jobState'[at[w]] # "free"
    BY <1>3, <1>4, ClaimsStep DEF ClaimsAreExclusive, Jobs
  <2> QED
    BY <1>3, <2>1, JobsAfter
<1> QED
  BY <1>1, <1>3, <1>4, <1>5 DEF RunOf

LEMMA InventoryStep ==
  ASSUME Base, InventoryBehindTheStages, [Next]_vars
  PROVE  InventoryBehindTheStages'
<1> SUFFICES ASSUME NEW w \in Workers,
                    pc'[w] \in {"gate_triage", "triaging", "gate_summarise",
                                "summarising", "assembling"},
                    Exists(RunOf(w))'
             PROVE  (rows[RunOf(w)] # "none")'
  BY DEF InventoryBehindTheStages
<1> DEFINE r == RunOf(w)
<1>1. RunOf(w)' = r /\ r \in Runs /\ status[r] # "none"
  BY PastTheCrawl
<1>2. status'[r] \in RunStatus
  BY <1>1 DEF Exists
<1>3. CASE pc[w] \in {"gate_triage", "triaging", "gate_summarise", "summarising",
                      "assembling"}
  <2>1. status[r] \notin RunStatus \/ rows[r] # "none"
    BY <1>3 DEF InventoryBehindTheStages, Exists
  <2> HIDE DEF r
  <2>2. rows'[r] # "none"
    BY <1>1, <1>2, <2>1, RunAfter DEF Exists, RunStatus, StageStatuses, Terminal
  <2> QED
    BY <1>1, <2>2
<1> QED
  BY <1>1, <1>3, PastTheCrawl

\* COMPLETE always stands beside a file and an inventory that carries the copy the
\* file was rendered from (the last transaction of generate_task).
THEOREM CompleteIsWholeHolds == Spec => []CompleteIsWhole
<1>1. Init => InventoryBehindTheStages /\ CompleteIsWhole
  BY DEF Init, InventoryBehindTheStages, CompleteIsWhole
<1>2. ASSUME Base, InventoryBehindTheStages, CompleteIsWhole, [Next]_vars
      PROVE  CompleteIsWhole'
  <2> SUFFICES ASSUME NEW r \in Runs, status'[r] = "complete"
               PROVE  file'[r] # "none" /\ rows'[r] = "copied"
    BY DEF CompleteIsWhole
  <2>1. CASE Exists(r) /\ file'[r] = "all"
             /\ rows'[r] = (IF rows[r] = "none" THEN "none" ELSE "copied")
             /\ \E w \in Workers : pc[w] = "assembling" /\ RunOf(w) = r
    <3>1. rows[r] # "none"
      BY <1>2, <2>1 DEF InventoryBehindTheStages
    <3> QED
      BY <2>1, <3>1
  <2>2. status[r] = "complete" => file[r] # "none" /\ rows[r] = "copied"
    BY <1>2 DEF CompleteIsWhole
  <2> QED
    BY <1>2, <2>1, <2>2, RunAfter DEF StageStatuses
<1> QED
  BY <1>1, <1>2, BaseInit, BaseStep, InventoryStep, PTL DEF Spec

-----------------------------------------------------------------------------
(***************************************************************************)
(* Nobody is stranded.  Whoever is responsible for a run that says a stage *)
(* is in progress is followed from the request to the job to the worker;   *)
(* only a crash of one of them leaves the run, and then it is Abandoned.   *)
(***************************************************************************)

\* A job that is marked doing keeps its task and run, and stays marked until the
\* worker that holds it ends it.
LEMMA DoingStays ==
  ASSUME Base, [Next]_vars, NEW j \in Jobs, jobState[j] = "doing"
  PROVE  /\ jobTask'[j] = jobTask[j] /\ jobRun'[j] = jobRun[j]
         /\ jobState'[j] = "doing"
            \/ \E w \in Workers, outcome \in {"todo", "succeeded", "failed"} :
                 at[w] = j /\ WorkerStep(w) /\ JobEnds(w, outcome)
<1> USE DEF Base, TypeOK, TypeOfJobs
<1>1. jobState'[j] = "doing"
      \/ \E w \in Workers, outcome \in {"todo", "succeeded", "failed"} :
           at[w] = j /\ WorkerStep(w) /\ JobEnds(w, outcome)
  <2>1. ASSUME UNCHANGED jobVars \/ \E task, r : Defer(task, r)
        PROVE  jobState'[j] = "doing"
    BY <2>1 DEF jobVars, Defer
  <2>2. CASE UserStep
    BY <2>1, <2>2
       DEF UserStep, CreateRun, StartPreflight, ImportNothing, EditPages, ImportRun,
           BeginApprove, BeginCancel, BeginDelete, Rerun, BeginDeleteClient
  <2>3. ASSUME NEW q \in Requests, RequestStep(q) \/ WebCrash(q)
        PROVE  jobState'[j] = "doing"
    BY <2>1, <2>3, RequestShape
  <2>4. ASSUME NEW w \in Workers, WorkerStep(w)
        PROVE  jobState'[j] = "doing"
               \/ \E outcome \in {"todo", "succeeded", "failed"} :
                    at[w] = j /\ JobEnds(w, outcome)
    <3>1. ASSUME NEW outcome \in {"todo", "succeeded", "failed"}, JobEnds(w, outcome)
          PROVE  jobState'[j] = "doing" \/ at[w] = j
      BY <3>1 DEF JobEnds
    <3>2. CASE FetchJob(w)
      BY <3>2 DEF FetchJob
    <3>3. CASE BeginGenerate(w)
      BY <2>1, <3>3 DEF BeginGenerate
    <3> QED
      BY <2>1, <2>4, <3>1, <3>2, <3>3, WorkerShape
  <2>5. ASSUME NEW w \in Workers, WorkerCrash(w) PROVE jobState'[j] = "doing"
    BY <2>1, <2>5 DEF WorkerCrash
  <2> QED
    BY <2>1, <2>2, <2>3, <2>4, <2>5 DEF Next, vars
<1>2. jobState'[j] # "free"
  BY <1>1 DEF JobEnds
<1> QED
  BY <1>1, <1>2, JobsAfter

\* A worker comes to hold a job only by fetching one that waits.
LEMMA HoldsAfter ==
  ASSUME Base, [Next]_vars, NEW w \in Workers
  PROVE  at'[w] \in {at[w], 0} \/ jobState[at'[w]] = "todo"
<1> USE DEF Base, TypeOK, TypeOfWorkers
<1>1. ASSUME WorkerStep(w) PROVE at'[w] \in {at[w], 0} \/ jobState[at'[w]] = "todo"
  BY <1>1, WorkerShape DEF FetchJob, BeginGenerate, WorkerGoes, JobEnds
<1>2. ASSUME WorkerCrash(w) PROVE at'[w] = 0
  BY <1>2 DEF WorkerCrash
<1> QED
  BY <1>1, <1>2, WorkerAfter

\* A job that waits goes on waiting or is fetched.
LEMMA TodoStays ==
  ASSUME Base, [Next]_vars, NEW j \in Jobs, jobState[j] = "todo"
  PROVE  /\ jobTask'[j] = jobTask[j] /\ jobRun'[j] = jobRun[j]
         /\ jobState'[j] = "todo"
            \/ \E w \in Workers : at'[w] = j /\ pc'[w] = "fetched"
<1> USE DEF Base, TypeOK, TypeOfJobs
<1>1. /\ jobState'[j] # "free"
      /\ jobState'[j] = "todo" \/ \E w \in Workers : at'[w] = j /\ pc'[w] = "fetched"
  <2>1. ASSUME UNCHANGED jobVars \/ \E task, r : Defer(task, r)
        PROVE  jobState'[j] = "todo"
    BY <2>1 DEF jobVars, Defer
  <2>2. CASE UserStep
    BY <2>1, <2>2
       DEF UserStep, CreateRun, StartPreflight, ImportNothing, EditPages, ImportRun,
           BeginApprove, BeginCancel, BeginDelete, Rerun, BeginDeleteClient
  <2>3. ASSUME NEW q \in Requests, RequestStep(q) \/ WebCrash(q)
        PROVE  jobState'[j] = "todo"
    BY <2>1, <2>3, RequestShape
  <2>4. ASSUME NEW w \in Workers, WorkerStep(w)
        PROVE  /\ jobState'[j] # "free"
               /\ jobState'[j] = "todo" \/ (at'[w] = j /\ pc'[w] = "fetched")
    <3>1. ASSUME NEW outcome, pc[w] # "idle", JobEnds(w, outcome)
          PROVE  jobState'[j] = "todo"
      BY <3>1, BusyWorker DEF JobEnds
    <3>2. CASE FetchJob(w)
      BY <3>2 DEF FetchJob, TypeOfWorkers
    <3>3. CASE BeginGenerate(w)
      BY <2>1, <3>3 DEF BeginGenerate
    <3> QED
      BY <2>1, <2>4, <3>1, <3>2, <3>3, WorkerShape
  <2>5. ASSUME NEW w \in Workers, WorkerCrash(w) PROVE jobState'[j] = "todo"
    BY <2>1, <2>5 DEF WorkerCrash
  <2> QED
    BY <2>1, <2>2, <2>3, <2>4, <2>5 DEF Next, vars
<1> QED
  BY <1>1, JobsAfter

\* A request between its commit and its deferral defers, or dies there for good.
LEMMA DeferralStays ==
  ASSUME Base, [Next]_vars, NEW q \in Requests, reqOp[q] \in {"defer_generate", "died"}
  PROVE  \/ reqOp'[q] \in {reqOp[q], "died"} /\ reqRun'[q] = reqRun[q]
         \/ /\ reqOp[q] = "defer_generate"
            /\ Defer("generate", reqRun[q])
<1> USE DEF Base, TypeOK, TypeOfRequests
<1>1. CASE UserStep
  BY <1>1 DEF UserStep, CreateRun, StartPreflight, ImportNothing, EditPages, ImportRun,
     BeginApprove, BeginCancel, BeginDelete, Rerun, BeginDeleteClient, reqVars, Ask
<1>2. ASSUME NEW p \in Requests, RequestStep(p), p # q
      PROVE  reqOp'[q] = reqOp[q] /\ reqRun'[q] = reqRun[q]
  BY <1>2, RequestShape DEF Answered
<1>3. ASSUME RequestStep(q)
      PROVE  reqOp[q] = "defer_generate" /\ Defer("generate", reqRun[q])
  BY <1>3 DEF RequestStep, DeferAfterCommit, CommitApprove, CommitCancel, CommitDelete,
              CommitDeleteClient
<1>4. ASSUME NEW p \in Requests, WebCrash(p)
      PROVE  reqOp'[q] \in {reqOp[q], "died"} /\ reqRun'[q] = reqRun[q]
  BY <1>4 DEF WebCrash
<1>5. ASSUME NEW w \in Workers, WorkerStep(w) \/ WorkerCrash(w)
      PROVE  reqOp' = reqOp /\ reqRun' = reqRun
  BY <1>5 DEF WorkerStep, WorkerCrash, FetchJob, RunIsGone, BeginPreflight, ReconDone,
     ReconFails, PlanStored, PlanningRaises, BeginGenerate, Gate, InventoryStored,
     TriageDone, SummariseDone, GenerateDone, StageFails, JobRaised, reqVars
<1> QED
  BY <1>1, <1>2, <1>3, <1>4, <1>5 DEF Next, vars, reqVars

\* A worker in a run's generate job, while the run keeps saying a stage is in
\* progress: it goes on, or it has crashed and leaves the job marked doing.
LEMMA HolderGoesOn ==
  ASSUME Base, [Next]_vars, NEW r \in Runs, NEW w \in Workers,
         status[r] \in StageStatuses, status'[r] \in StageStatuses,
         at[w] # 0, RunOf(w) = r,
         pc[w] \in GenerateStages \/ (pc[w] = "fetched" /\ jobTask[at[w]] = "generate")
  PROVE  Working(r)' \/ Abandoned(r)'
<1> DEFINE j == at[w]
<1>1. pc[w] # "idle" /\ jobTask[j] = "generate"
  BY DEF Base, ClaimsAreExclusive
<1>2. j \in Jobs /\ jobState[j] = "doing" /\ jobRun[j] = r
  BY <1>1, BusyWorker
<1>3. jobTask'[j] = "generate" /\ jobRun'[j] = r
  BY <1>1, <1>2, DoingStays
<1>4. ASSUME at'[w] = j,
             pc'[w] \in GenerateStages \/ pc'[w] = "fetched"
      PROVE  Working(r)'
  BY <1>2, <1>3, <1>4 DEF Working, RunOf
<1>5. CASE pc'[w] = pc[w] /\ at'[w] = at[w]
  BY <1>4, <1>5
<1>6. CASE WorkerCrash(w)
  <2>1. jobState'[j] = "doing"
    BY <1>2, <1>6 DEF WorkerCrash, jobVars
  <2>2. ASSUME NEW u \in Workers PROVE at'[u] # j
    BY <1>2, <1>6 DEF WorkerCrash, Base, TypeOK, TypeOfWorkers, ClaimsAreExclusive, Jobs
  <2> QED
    BY <1>2, <1>3, <2>1, <2>2 DEF Abandoned
<1>7. CASE WorkerStep(w)
  <2> USE DEF Base, TypeOK, TypeOfWorkers
  <2>1. Exists(r)
    BY DEF Exists, RunStatus
  <2>2. CASE BeginGenerate(w) \/ InventoryStored(w) \/ TriageDone(w) \/ SummariseDone(w)
    BY <1>4, <2>2
       DEF BeginGenerate, InventoryStored, TriageDone, SummariseDone, WorkerGoes,
           GenerateStages, Gates
  <2>3. CASE Gate(w)
    BY <1>4, <2>3, GuardedStage
       DEF Gate, WorkerGoes, GenerateStages, StageStatuses
  <2>4. CASE GenerateDone(w)
    BY <2>4 DEF GenerateDone, SetStatus, StageStatuses, TypeOfRuns
  <2>5. CASE StageFails(w)
    BY <2>1, <2>5 DEF StageFails, SetStatusIfPresent, StageStatuses, TypeOfRuns
  <2>6. ~FetchJob(w) /\ ~RunIsGone(w) /\ ~BeginPreflight(w) /\ ~JobRaised(w)
    BY <1>1, <2>1 DEF FetchJob, RunIsGone, BeginPreflight, JobRaised, GenerateStages,
                      Gates, ExpensiveStages
  <2>7. ~ReconDone(w) /\ ~ReconFails(w) /\ ~PlanStored(w) /\ ~PlanningRaises(w)
    BY DEF ReconDone, ReconFails, PlanStored, PlanningRaises, GenerateStages, Gates,
           ExpensiveStages
  <2> QED
    BY <1>7, <2>2, <2>3, <2>4, <2>5, <2>6, <2>7 DEF WorkerStep
<1> QED
  BY <1>5, <1>6, <1>7, WorkerAfter

LEMMA StrandedStep ==
  ASSUME Base, NoStrandedRun, [Next]_vars
  PROVE  NoStrandedRun'
<1> SUFFICES ASSUME NEW r \in Runs, status'[r] \in StageStatuses
             PROVE  Working(r)' \/ Abandoned(r)'
  BY DEF NoStrandedRun
<1>1. CASE \E q \in Requests : reqOp'[q] = "defer_generate" /\ reqRun'[q] = r
  BY <1>1 DEF Working
<1>2. CASE \E w \in Workers : /\ at[w] # 0 /\ at' = at /\ jobRun' = jobRun
                              /\ jobRun[at[w]] = r /\ pc'[w] \in GenerateStages
  BY <1>2 DEF Working, RunOf
<1>3. CASE status'[r] = status[r]
  <2>1. Working(r) \/ Abandoned(r)
    BY <1>3 DEF NoStrandedRun
  <2>2. CASE \E w \in Workers :
               /\ at[w] # 0 /\ RunOf(w) = r
               /\ \/ pc[w] \in GenerateStages
                  \/ pc[w] = "fetched" /\ jobTask[at[w]] = "generate"
    BY <1>3, <2>2, HolderGoesOn
  <2>3. ASSUME NEW j \in Jobs,
               jobTask[j] = "generate", jobRun[j] = r, jobState[j] = "todo"
        PROVE  Working(r)'
    <3>1. CASE jobState'[j] = "todo"
      BY <2>3, <3>1, TodoStays DEF Working
    <3>2. ASSUME NEW w \in Workers, at'[w] = j, pc'[w] = "fetched" PROVE Working(r)'
      BY <2>3, <3>2, TodoStays DEF Working, RunOf, Jobs
    <3> QED
      BY <2>3, <3>1, <3>2, TodoStays
  <2>4. ASSUME NEW j \in Jobs, jobTask[j] = "generate", jobRun[j] = r,
               jobState[j] = "doing", \A w \in Workers : at[w] # j
        PROVE  Abandoned(r)'
    <3>1. jobTask'[j] = "generate" /\ jobRun'[j] = r /\ jobState'[j] = "doing"
      BY <2>4, DoingStays
    <3>2. ASSUME NEW w \in Workers PROVE at'[w] # j
      BY <2>4, HoldsAfter DEF Jobs
    <3> QED
      BY <3>1, <3>2 DEF Abandoned
  <2>5. ASSUME NEW q \in Requests, reqOp[q] \in {"defer_generate", "died"}, reqRun[q] = r
        PROVE  Working(r)' \/ Abandoned(r)'
    <3>1. CASE Defer("generate", r)
      BY <3>1 DEF Defer, Working, Base, TypeOK, TypeOfJobs
    <3>2. CASE reqOp'[q] \in {reqOp[q], "died"} /\ reqRun'[q] = r
      BY <2>5, <3>2 DEF Working, Abandoned
    <3> QED
      BY <2>5, <3>1, <3>2, DeferralStays
  <2> QED
    BY <2>1, <2>2, <2>3, <2>4, <2>5 DEF Working, Abandoned
<1> QED
  BY <1>1, <1>2, <1>3, RunAfter DEF StageStatuses

\* A run that says a generate stage is in progress has a worker, a job or a request
\* that will move it on, or one that died holding it (generate_task's except clauses,
\* fetch_job_v2, and the deferrals after a commit).
THEOREM NoStrandedRunHolds == Spec => []NoStrandedRun
<1>1. Init => NoStrandedRun
  BY DEF Init, NoStrandedRun, StageStatuses
<1> QED
  BY <1>1, BaseInit, BaseStep, StrandedStep, PTL DEF Spec

-----------------------------------------------------------------------------
(***************************************************************************)
(* One worker.  Handlers can only cancel or delete a run under the worker; *)
(* with a second worker another job of the same run could write between.   *)
(***************************************************************************)

LEMMA HandlersAndStatus ==
  ASSUME Base, NEW r \in Runs, status[r] # "none",
         \/ UserStep
         \/ \E q \in Requests : RequestStep(q) \/ WebCrash(q)
  PROVE  status'[r] \in {status[r], "cancelled", "deleted"}
<1> USE DEF Base, TypeOK, TypeOfRuns
<1>1. CASE UserStep
  BY <1>1 DEF UserStep, CreateRun, StartPreflight, ImportNothing, EditPages, ImportRun,
     BeginApprove, BeginCancel, BeginDelete, Rerun, BeginDeleteClient, SetStatus, runVars
<1>2. ASSUME NEW q \in Requests, RequestStep(q) \/ WebCrash(q)
      PROVE  status'[r] \in {status[r], "cancelled", "deleted"}
  <2>1. ASSUME NEW gone, RemoveRuns(gone) PROVE status'[r] \in {status[r], "deleted"}
    BY <2>1 DEF RemoveRuns
  <2>2. ASSUME SetStatusIfPresent(reqRun[q], "cancelled")
        PROVE  status'[r] \in {status[r], "cancelled"}
    BY <2>2 DEF SetStatusIfPresent
  <2>3. ASSUME UNCHANGED <<status, rows, edited, file>> PROVE status'[r] = status[r]
    BY <2>3
  <2> QED
    BY <1>2, <2>1, <2>2, <2>3, RequestShape
<1> QED
  BY <1>1, <1>2

LEMMA StagesByName ==
  /\ \A gate \in Gates : StatusAt(Behind(gate)) = StatusAt(gate)
  /\ StatusAt("recon") = "preflight" /\ StatusAt("planning") = "preflight"
  /\ StatusAt("importing") = "crawling" /\ StatusAt("gate_crawl") = "crawling"
  /\ StatusAt("gate_triage") = "triaging"
  /\ StatusAt("gate_summarise") = "summarising"
  /\ StatusAt("assembling") = "assembling"
  BY DEF StatusAt, Behind, Gates, PreflightStages

LEMMA StatusStep ==
  ASSUME Base, StatusTracksStage, [Next]_vars, \A u, v \in Workers : u = v
  PROVE  StatusTracksStage'
<1> USE DEF Base, TypeOK, TypeOfWorkers
<1> SUFFICES ASSUME NEW w \in Workers,
                    pc'[w] \in PreflightStages \cup GenerateStages
             PROVE  status'[RunOf(w)'] \in {StatusAt(pc'[w]), "cancelled", "deleted"}
  BY DEF StatusTracksStage
<1>1. CASE UNCHANGED vars
  <2>1. RunOf(w)' = RunOf(w) /\ pc' = pc /\ status' = status
    BY <1>1 DEF vars, runVars, jobVars, workerVars, RunOf
  <2> QED
    BY <2>1 DEF StatusTracksStage
<1>2. CASE UserStep \/ \E q \in Requests : RequestStep(q) \/ WebCrash(q)
  <2>1. pc' = pc /\ at' = at
    BY <1>2, RequestShape
       DEF UserStep, CreateRun, StartPreflight, ImportNothing, EditPages, ImportRun,
           BeginApprove, BeginCancel, BeginDelete, Rerun, BeginDeleteClient, workerVars
  <2>2. pc[w] # "idle"
    BY <2>1 DEF PreflightStages, GenerateStages, Gates, ExpensiveStages
  <2>3. /\ at[w] \in Jobs /\ jobState[at[w]] = "doing" /\ RunOf(w) = jobRun[at[w]]
        /\ RunOf(w) \in Runs /\ status[RunOf(w)] # "none"
    BY <2>2, BusyWorker
  <2>4. RunOf(w)' = RunOf(w)
    BY <2>1, <2>3, DoingStays DEF RunOf
  <2>5. status[RunOf(w)] \in {StatusAt(pc[w]), "cancelled", "deleted"}
    BY <2>1 DEF StatusTracksStage
  <2> QED
    BY <1>2, <2>1, <2>3, <2>4, <2>5, HandlersAndStatus
<1>3. ASSUME NEW v \in Workers, WorkerStep(v)
      PROVE  status'[RunOf(w)'] \in {StatusAt(pc'[w]), "cancelled", "deleted"}
  <2>1. v = w
    OBVIOUS
  <2>2. CASE Gate(w)
    <3>1. WorkerGoes(w, Behind(pc[w])) /\ UNCHANGED <<status, jobRun>> /\ pc[w] \in Gates
      BY <2>2 DEF Gate, JobEnds, runVars, jobVars, PreflightStages, GenerateStages,
                  Gates, ExpensiveStages
    <3>2. RunOf(w)' = RunOf(w) /\ pc'[w] = Behind(pc[w])
      BY <3>1 DEF WorkerGoes, RunOf
    <3>3. status[RunOf(w)] \in {StatusAt(pc[w]), "cancelled", "deleted"}
      BY <3>1 DEF StatusTracksStage, GenerateStages
    <3> QED
      BY <3>1, <3>2, <3>3, StagesByName
  <2>3. CASE ReconDone(w)
    <3>1. RunOf(w)' = RunOf(w) /\ status' = status /\ pc'[w] = "planning"
          /\ pc[w] = "recon"
      BY <2>3 DEF ReconDone, WorkerGoes, RunOf, runVars, jobVars
    <3> QED
      BY <3>1, StagesByName DEF StatusTracksStage, PreflightStages
  <2>4. CASE BeginPreflight(w) \/ BeginGenerate(w) \/ InventoryStored(w) \/ TriageDone(w)
             \/ SummariseDone(w)
    <3>1. RunOf(w)' = RunOf(w) /\ pc[w] # "idle"
      BY <2>4 DEF BeginPreflight, BeginGenerate, InventoryStored, TriageDone,
                  SummariseDone, WorkerGoes, RunOf, jobVars
    <3>2. RunOf(w) \in Runs
      BY <3>1, BusyWorker
    <3>3. status'[RunOf(w)] = StatusAt(pc'[w])
      BY <2>4, <3>2, StagesByName
         DEF BeginPreflight, BeginGenerate, InventoryStored, TriageDone, SummariseDone,
             WorkerGoes, SetStatus, TypeOfRuns
    <3> QED
      BY <3>1, <3>3
  <2>5. CASE FetchJob(w) \/ RunIsGone(w) \/ ReconFails(w) \/ PlanStored(w)
             \/ PlanningRaises(w) \/ GenerateDone(w) \/ StageFails(w) \/ JobRaised(w)
    BY <2>5 DEF FetchJob, RunIsGone, ReconFails, PlanStored, PlanningRaises,
                GenerateDone, StageFails, JobRaised, JobEnds, WorkerGoes,
                PreflightStages, GenerateStages, Gates, ExpensiveStages
  <2> QED
    BY <1>3, <2>1, <2>2, <2>3, <2>4, <2>5 DEF WorkerStep
<1>4. ASSUME NEW v \in Workers, WorkerCrash(v) PROVE FALSE
  <2>1. pc'[w] = "idle"
    BY <1>4 DEF WorkerCrash
  <2> QED
    BY <2>1 DEF PreflightStages, GenerateStages, Gates, ExpensiveStages
<1> QED
  BY <1>1, <1>2, <1>3, <1>4 DEF Next

\* With the one worker that is deployed, the status of a run under a stage is that
\* stage's, unless a person cancelled or deleted the run meanwhile (set_status in
\* preflight_task and generate_task).
THEOREM StatusTracksStageHolds ==
  ASSUME \A u, v \in Workers : u = v
  PROVE  Spec => []StatusTracksStage
<1>1. Init => StatusTracksStage
  BY DEF Init, StatusTracksStage, PreflightStages, GenerateStages, Gates, ExpensiveStages
<1>2. Base /\ StatusTracksStage /\ [Next]_vars => StatusTracksStage'
  BY StatusStep
<1> QED
  BY <1>1, <1>2, BaseInit, BaseStep, PTL DEF Spec

-----------------------------------------------------------------------------
(***************************************************************************)
(* The queue by itself, for the jobs and the workers there are.  One       *)
(* induction carries all three invariants: a try is counted by the worker  *)
(* that holds the job, so the bound needs the holder to be the only one,   *)
(* and the holder's row to say doing, and a new job to be untried.         *)
(***************************************************************************)

NewIsUntried == \A j \in Jobs : jobState[j] = "free" => jobTries[j] = 0

QueueInv == Queue!QueueTypeOK /\ Queue!OneHolder /\ Queue!AttemptsBounded /\ NewIsUntried

LEMMA QueueInvInit ==
  ASSUME 0 \notin Jobs
  PROVE  Queue!QueueInit => QueueInv
  BY DEF Queue!QueueInit, QueueInv, Queue!QueueTypeOK, Queue!OneHolder, Queue!AttemptsBounded, NewIsUntried

\* What is needed of the constants: ids are not the mark of an idle worker, and a
\* retry argument is a number of retries.
LEMMA LeaveInv ==
  ASSUME 0 \notin Jobs,
         \A t \in {"preflight", "generate"} : Retries(t) \in Nat,
         QueueInv, NEW w \in Workers, at[w] # 0,
         NEW outcome \in {"todo", "succeeded", "failed"}, Queue!Leave(w, outcome),
         outcome = "todo" => jobTries[at[w]] < Retries(jobTask[at[w]])
  PROVE  QueueInv'
<1> DEFINE j == at[w]
<1>1. j \in Jobs /\ jobState[j] = "doing" /\ jobTask[j] \in {"preflight", "generate"}
  BY DEF QueueInv, Queue!QueueTypeOK, Queue!OneHolder
<1>2. jobTries[j] \in Nat /\ Retries(jobTask[j]) \in Nat /\ jobTries[j] <= Retries(jobTask[j])
  BY <1>1 DEF QueueInv, Queue!QueueTypeOK, Queue!AttemptsBounded
<1>3. Queue!QueueTypeOK'
  BY <1>1, <1>2 DEF QueueInv, Queue!QueueTypeOK, Queue!Leave
<1>4. Queue!OneHolder'
  BY <1>1 DEF QueueInv, Queue!QueueTypeOK, Queue!OneHolder, Queue!Leave
<1>5. Queue!AttemptsBounded'
  <2> SUFFICES ASSUME NEW i \in Jobs
               PROVE  /\ jobState'[i] \in {"todo", "doing"} => jobTries'[i] <= Retries(jobTask'[i])
                      /\ jobState'[i] \in {"succeeded", "failed"}
                           => jobTries'[i] <= Retries(jobTask'[i]) + 1
    BY DEF Queue!AttemptsBounded
  <2>1. CASE i = j
    BY <1>1, <1>2, <2>1 DEF QueueInv, Queue!QueueTypeOK, Queue!Leave
  <2>2. CASE i # j
    BY <1>1, <2>2 DEF QueueInv, Queue!QueueTypeOK, Queue!AttemptsBounded, Queue!Leave
  <2> QED
    BY <2>1, <2>2
<1>6. NewIsUntried'
  BY <1>1 DEF QueueInv, Queue!QueueTypeOK, NewIsUntried, Queue!Leave
<1> QED
  BY <1>3, <1>4, <1>5, <1>6 DEF QueueInv

LEMMA QueueInvStep ==
  ASSUME 0 \notin Jobs,
         \A t \in {"preflight", "generate"} : Retries(t) \in Nat,
         QueueInv, [Queue!QueueNext]_Queue!queueVars
  PROVE  QueueInv'
<1>1. ASSUME NEW t \in {"preflight", "generate"}, Queue!Enqueue(t) PROVE QueueInv'
  <2>1. PICK j \in Jobs : /\ jobState[j] = "free"
                          /\ jobState' = [jobState EXCEPT ![j] = "todo"]
                          /\ jobTask' = [jobTask EXCEPT ![j] = t]
    BY <1>1 DEF Queue!Enqueue
  <2>2. jobTries' = jobTries /\ at' = at
    BY <1>1 DEF Queue!Enqueue
  <2>3. Queue!QueueTypeOK' /\ Queue!OneHolder' /\ NewIsUntried'
    BY <2>1, <2>2 DEF QueueInv, Queue!QueueTypeOK, Queue!OneHolder, NewIsUntried
  <2>4. Queue!AttemptsBounded'
    BY <2>1, <2>2 DEF QueueInv, Queue!QueueTypeOK, Queue!AttemptsBounded, NewIsUntried
  <2> QED
    BY <2>3, <2>4 DEF QueueInv
<1>2. ASSUME NEW w \in Workers, Queue!Fetch(w) PROVE QueueInv'
  BY <1>2 DEF Queue!Fetch, QueueInv, Queue!QueueTypeOK, Queue!OneHolder, Queue!AttemptsBounded, NewIsUntried
<1>3. ASSUME NEW w \in Workers, Queue!Succeed(w) \/ Queue!Retry(w) \/ Queue!Fail(w) PROVE QueueInv'
  BY <1>3, LeaveInv DEF Queue!Succeed, Queue!Retry, Queue!Fail
<1>4. ASSUME NEW w \in Workers, Queue!Lose(w) PROVE QueueInv'
  BY <1>4 DEF Queue!Lose, QueueInv, Queue!QueueTypeOK, Queue!OneHolder, Queue!AttemptsBounded, NewIsUntried
<1>5. CASE UNCHANGED Queue!queueVars
  BY <1>5 DEF Queue!queueVars, QueueInv, Queue!QueueTypeOK, Queue!OneHolder, Queue!AttemptsBounded, NewIsUntried
<1> QED
  BY <1>1, <1>2, <1>3, <1>4, <1>5 DEF Queue!QueueNext

\* One holder per job and no more attempts than the retry argument allows
\* (fetch_job_v2, finish_job_v1 and retry_job_v2 over any interleaving of workers).
THEOREM QueueSafe ==
  ASSUME 0 \notin Jobs,
         \A t \in {"preflight", "generate"} : Retries(t) \in Nat
  PROVE  Queue!QueueSpec => [](Queue!OneHolder /\ Queue!AttemptsBounded)
<1>1. Queue!QueueInit => QueueInv
  BY QueueInvInit DEF Queue!QueueInit, QueueInv, Queue!QueueTypeOK, Queue!AttemptsBounded
<1>2. QueueInv /\ [Queue!QueueNext]_Queue!queueVars => QueueInv'
  BY QueueInvStep
<1>3. QueueInv => Queue!OneHolder /\ Queue!AttemptsBounded
  BY DEF QueueInv
<1> QED
  BY <1>1, <1>2, <1>3, PTL DEF Queue!QueueSpec

\* A job that has ended stays ended: only a job that is free, waiting or held by a
\* worker is ever written (finish_job_v1 refuses a row that is not todo or doing).
THEOREM QueueEnds ==
  ASSUME 0 \notin Jobs,
         \A t \in {"preflight", "generate"} : Retries(t) \in Nat
  PROVE  Queue!QueueSpec => Queue!EndedStaysEnded
<1>1. Queue!QueueInit => QueueInv
  BY QueueInvInit DEF Queue!QueueInit, QueueInv, Queue!QueueTypeOK, Queue!AttemptsBounded
<1>2. QueueInv /\ [Queue!QueueNext]_Queue!queueVars => QueueInv'
  BY QueueInvStep
<1>3. ASSUME QueueInv, [Queue!QueueNext]_Queue!queueVars
      PROVE  [\A j \in Jobs : jobState[j] \in {"succeeded", "failed"}
                => jobState'[j] = jobState[j]]_Queue!queueVars
  BY <1>3 DEF QueueInv, Queue!QueueTypeOK, Queue!OneHolder, Queue!QueueNext, Queue!Enqueue, Queue!Fetch, Queue!Succeed,
              Queue!Retry, Queue!Fail, Queue!Lose, Queue!Leave, Queue!queueVars
<1> QED
  BY <1>1, <1>2, <1>3, PTL DEF Queue!QueueSpec, Queue!EndedStaysEnded

-----------------------------------------------------------------------------
(***************************************************************************)
(* The queue underneath.  Each step is a step of JobQueue on the same jobs *)
(* or leaves them alone, so what JobQueue promises holds here.             *)
(***************************************************************************)

\* A job that was free when it was deferred leaves the worker's claims alone.
LEMMA DeferIsEnqueue ==
  ASSUME NEW task \in {"preflight", "generate"}, NEW r, Defer(task, r), at' = at
  PROVE  Queue!QueueNext
  BY DEF Defer, Queue!QueueNext, Queue!Enqueue

LEMMA EndIsLeave ==
  ASSUME NEW w \in Workers, NEW outcome, JobEnds(w, outcome)
  PROVE  Queue!Leave(w, outcome)
  BY DEF JobEnds, Queue!Leave

LEMMA QueueStep ==
  ASSUME Base, [Next]_vars
  PROVE  [Queue!QueueNext]_Queue!queueVars
<1> USE DEF Queue!queueVars, jobVars
<1>1. CASE UserStep
  <2>1. ASSUME NEW r \in Runs, StartPreflight(r) PROVE Queue!QueueNext
    BY <2>1, DeferIsEnqueue DEF StartPreflight, workerVars
  <2> QED
    BY <1>1, <2>1
       DEF UserStep, CreateRun, ImportNothing, EditPages, ImportRun, BeginApprove,
           BeginCancel, BeginDelete, Rerun, BeginDeleteClient, workerVars
<1>2. ASSUME NEW q \in Requests, RequestStep(q) \/ WebCrash(q)
      PROVE  [Queue!QueueNext]_Queue!queueVars
  BY <1>2, RequestShape, DeferIsEnqueue DEF workerVars
<1>3. ASSUME NEW w \in Workers, WorkerStep(w)
      PROVE  [Queue!QueueNext]_Queue!queueVars
  <2>1. pc[w] # "idle" => at[w] # 0
    BY DEF Base, ClaimsAreExclusive
  <2>2. CASE FetchJob(w)
    <3>1. at[w] = 0
      BY <2>2 DEF FetchJob, Base, ClaimsAreExclusive
    <3>2. Queue!Fetch(w)
      BY <2>2, <3>1 DEF FetchJob, Queue!Fetch
    <3> QED
      BY <3>2 DEF Queue!QueueNext
  <2>3. CASE RunIsGone(w) \/ ReconFails(w) \/ PlanStored(w) \/ GenerateDone(w)
    <3>1. pc[w] # "idle" /\ JobEnds(w, "succeeded")
      BY <2>3 DEF RunIsGone, ReconFails, PlanStored, GenerateDone
    <3> QED
      BY <2>1, <3>1, EndIsLeave DEF Queue!Succeed, Queue!QueueNext
  <2>4. CASE Gate(w)
    BY <2>1, <2>4, EndIsLeave
       DEF Gate, Gates, WorkerGoes, Queue!Succeed, Queue!QueueNext
  <2>5. CASE JobRaised(w)
    <3>1. CASE jobTries[at[w]] < Retries(jobTask[at[w]])
      <4>1. JobEnds(w, "todo") /\ at[w] # 0
        BY <2>1, <2>5, <3>1 DEF JobRaised
      <4> QED
        BY <3>1, <4>1, EndIsLeave DEF Queue!Retry, Queue!QueueNext
    <3>2. CASE ~(jobTries[at[w]] < Retries(jobTask[at[w]]))
      <4>1. JobEnds(w, "failed") /\ at[w] # 0 /\ pc[w] # "idle"
        BY <2>1, <2>5, <3>2 DEF JobRaised
      <4>2. jobTries[at[w]] \in Nat /\ Retries(jobTask[at[w]]) \in Nat
        BY <4>1, BusyWorker DEF Base, TypeOK, TypeOfJobs, Retries
      <4>3. jobTries[at[w]] >= Retries(jobTask[at[w]])
        BY <3>2, <4>2
      <4> QED
        BY <4>1, <4>3, EndIsLeave DEF Queue!Fail, Queue!QueueNext
    <3> QED
      BY <3>1, <3>2
  <2>6. CASE BeginPreflight(w) \/ ReconDone(w) \/ PlanningRaises(w) \/ BeginGenerate(w)
             \/ InventoryStored(w) \/ TriageDone(w) \/ SummariseDone(w) \/ StageFails(w)
    BY <2>6 DEF BeginPreflight, ReconDone, PlanningRaises, BeginGenerate,
                InventoryStored, TriageDone, SummariseDone, StageFails, WorkerGoes
  <2> QED
    BY <1>3, <2>2, <2>3, <2>4, <2>5, <2>6 DEF WorkerStep
<1>4. ASSUME NEW w \in Workers, WorkerCrash(w) PROVE Queue!QueueNext
  <2>1. at[w] # 0
    BY <1>4 DEF WorkerCrash, Base, ClaimsAreExclusive
  <2>2. Queue!Lose(w)
    BY <1>4, <2>1 DEF WorkerCrash, Queue!Lose
  <2> QED
    BY <2>2 DEF Queue!QueueNext
<1>5. CASE UNCHANGED vars
  BY <1>5 DEF vars, workerVars
<1> QED
  BY <1>1, <1>2, <1>3, <1>4, <1>5 DEF Next

\* Handlers and workers use the queue only as its functions allow: the system
\* implements JobQueue.
THEOREM RefinesQueue == Spec => ImplementsQueue
<1>1. Init => Queue!QueueInit
  BY DEF Init, Queue!QueueInit, Queue!Unused
<1>2. Base /\ [Next]_vars => [Queue!QueueNext]_Queue!queueVars
  BY QueueStep
<1> QED
  BY <1>1, <1>2, BaseInit, BaseStep, PTL DEF Spec, ImplementsQueue, Queue!QueueSpec

\* No task is attempted more often than its retry argument allows (retry=2 on
\* preflight_task, retry=1 on generate_task).
THEOREM AttemptsBoundedHolds == Spec => []AttemptsBounded
<1>1. 0 \notin Jobs
  BY DEF Jobs
<1>2. \A t \in {"preflight", "generate"} : Retries(t) \in Nat
  BY DEF Retries
<1>3. Queue!QueueSpec => [](Queue!OneHolder /\ Queue!AttemptsBounded)
  BY <1>1, <1>2, QueueSafe
<1> QED
  BY <1>3, RefinesQueue, PTL DEF ImplementsQueue, AttemptsBounded

=============================================================================
