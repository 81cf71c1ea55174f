# A verification project for the llms.txt generator

TLA+ modules, TLC configurations and TLAPS proofs for the program in `src/`: a web
application that plans, crawls, summarises and publishes an `llms.txt` for a client's
site. One FastAPI process answers people; one procrastinate worker executes two long
tasks, `preflight` and `generate`; they share nothing but a Postgres database.

Run the model checker with `tlc -config X.cfg M` and the prover with `tlapm M.tla`,
in this directory. Paths below are relative to the repository.

## 1. Inventory

| component | state it keeps | operations | modelled |
|---|---|---|---|
| Run lifecycle (`app/main.py`, `app/jobs/tasks.py`, `app/db/repo.py`) | `runs`: status, source, plan, file; `pages` | create, brief, approve, cancel, delete, rerun, import, tick pages; the two tasks stage by stage | `RunLifecycle` |
| Job queue (procrastinate, `app/jobs/queue.py`, its SQL under `app/db/migrations/sql`) | `procrastinate_jobs`: status, attempts, arguments | defer, fetch, finish, retry; a worker that dies | `JobQueue` |
| Fetch ladder and politeness (`app/scrape/fetch.py`, `politeness.py`, `firecrawl.py`) | slots, permits, one result per page, counts, the Firecrawl breaker | wait for a slot, climb http / dynamic / stealth / firecrawl, record | `FetchLadder` |
| Stored pages, files and embargo (`app/db/repo.py`, brief and upload routes of `main.py`) | the brief's embargo, page rows, `llms.txt`, `llms-full.txt`, revisions, metrics | save or skip a brief, purge embargoed URLs, upload metrics, import, crawl, write the file | `SiteDocuments` |
| Editing a finished file (`app/core/edits.py`, edit and chat routes of `main.py`) | the same rows and files, a revision per chat turn | tick pages, ask for an edit, gate it, apply it | `SiteDocuments` |
| Refining the agent files (`app/core/refine.py`, refine routes) | one edit of `agents.md` per client: operations, facts, messages | ask a model, gate, append, reset, replay on a new probe | `Refine` |
| Spend ledger (`app/db/repo.py`, `app/core/pricing.py`) | one row per model call | record, count the day's calls, refuse over the ceiling | what a chat call records: `SiteDocuments`; the ceiling: `Refine` |
| Share links and throttle (`app/core/share.py`, `throttle.py`, `app/pdf.py`) | `share_links`; token buckets and the one browser slot, in the process | mint, open, download, revoke, export a PDF | `ShareLinks` |
| Accounts and sessions (`app/accounts.py`, `auth.py`) | `users`, a cookie in each browser | claim the instance, add a teammate, log in by password or Google, log out | `Accounts` |
| Discovery, sizing, robots rules (`app/scrape/discover.py`, `sizing.py`, `politeness.py`) | none | walk of the sitemaps, estimate of the size, longest match of Allow and Disallow | `CrawlList`, `SitePlan` |
| Planning of a crawl (`app/scrape/preflight.py`, `app/llm/stages.py`) | `runs.plan`, `runs.max_pages` | templates, rules of the model or the heuristic, review, selection under the cap | `CrawlList`, `SitePlan` |
| Onboarding, search metrics, verdicts (`app/core/onboarding.py`, `metrics.py`, `planning.py`, `app/metrics`) | `site_configs.brief`, `observed_shape`, `site_metrics`, the run's planning table | answer or skip the brief, upload an export, judge each sitemap group, name drift | `Verdicts`, `GroupTable` |
| Filtering, ranking, rendering (`app/core/pipeline.py`, `ranking.py`, `render.py`, `full_text.py`) | the two files, the rows | filters, copy, sections, order, budget, rebuild from rows | `PageText`, `LlmsFile` |
| Rules engine (`app/core/rules`, `document.py`) | none | read the two documents, judge and score them | `LlmsRules`, `OwnFiles`; the other rule sets are not modelled |
| Checklist and status (`app/core/components.py`, `site_state.py`) | `site_snapshots`, `component_marks`, a client's label | create and refresh a client, mark and unmark, the lists of client and developer | `Components`, `SiteStatus` |
| Pushed audits (`receive_audit`, `save_audit`) | `site_audits` | push, update, retract | `Audits` |
| LLM client and stages (`app/llm`) | none | calls, retries, repair of answers | what each stage makes of an answer: `SitePlan`, `LlmsFile`, `Verdicts` |
| Other per-domain records (`app/core/site_state.py`) | business summaries, the cached count of indexed pages | replace, load | one writer each; not modelled |
| Readiness and the other probes, sitemap check, reports, bundle, agents' documents, prompts, migrations, configuration | none, or read-only | one request and a classification; wording and layout | not modelled (section 7) |

How they interact. A handler commits its transaction and *then* defers a job, so a job
never runs before its row exists but a process that dies in between leaves a row without a
job. The worker fetches jobs one at a time (`WORKER_CONCURRENCY=1` as deployed); each stage of a
task ends in its own transaction that also writes the next status; between two of them the
worker awaits a crawl or a model for minutes, and handlers run. Cancelling is only a status that the worker
looks at on three boundaries. A crawl is one asyncio loop in the worker: a task per URL,
two semaphores, one lock around the next slot.

What is hard here, and what each part must get right:

* *Interleaving of handlers and worker on one row*: every handler reads a status, decides,
  and writes later; the worker writes its status whatever the row says. To hold: the
  review gate, a status that means what it says, no output for a deleted run.
* *Crashes and retries*: a job is retried from its beginning on rows its first attempt left;
  a process may die between any two transactions. To hold: a run that says it is being
  worked on has somebody responsible for it; a bounded number of attempts; COMPLETE only
  beside a whole result.
* *Deferral that is repeated*: a form submitted twice, two approvals, a rerun.
* *Bounded resources in a crawl*: permits that must come back on each of the ways a page leaves a
  rung; a delay that concurrency must not defeat; money that must not be spent on a page that is settled.
* *Derived copies of what must not be kept*: an embargoed URL is in pages, metrics, files
  and revisions, and a worker or a chat turn may be about to write it again. To hold: what a saved brief
  embargoes is nowhere, and whoever reads the brief from then on does not bring it back.
* *State read before a model call and written after it*: a chat turn holds the rows and the file for as
  long as a model takes, a refine turn the probe, the operations and the facts. To hold: the file shows the rows; a revision is what
  stood before the turn; no operation is lost; the gate's verdict is about the file that results; every call is on the ledger.
* *A door that closes while somebody is in it*: a link is revoked, expires, goes with its client or with a redeploy while a request
  renders its page, and an export waits for a browser that comes back through that door. To hold: who comes after the end is refused, and no export is.
* *Counting, then adding*: two mints of a link, two claims of an instance, two uploads, two pushes of one audit, two marks. To hold: one admin, one row an audit,
  no figures of an export that another has replaced, and a ceiling that is passed only by requests that crossed.
* *Long chains of pure steps over odd data*: sitemaps that fail or repeat each other, rules from three authors on templates that overlap, five declarations that
  beat each other in an order, pages that pass filters, sections, budget and a rebuild. To hold: nothing lost, nothing twice, no declaration moved past.
* *A file written by one part and read by another*: to hold: the linter reads what the generator wrote as it was meant, but for the titles, addresses and bodies that the format cannot hold.
* *A limit that is read before the call it limits and counted after it*: to hold: it is passed by a bounded number of calls.

`PROJECT.json` lists the hazards one by one, with the line where each bites.

## 2. Plan

| order | modules | question | state |
|---|---|---|---|
| 1 | `RunLifecycle`, on the abstract `JobQueue` | handlers, worker, queue, crashes on the run row | done, proved |
| 2 | `FetchLadder` | a crawl's permits, slots, rungs and counts | done, proved |
| 3 | `SiteDocuments`: rows, files, revisions and metrics of a domain under the brief, the worker, the edit form and the chat | what an embargo removes and what comes back; file and rows agree; a revision is what stood; no edit is free | done, proved |
| 4 | `Refine`: operations and facts of an edit, the gate, checks of the site, reset, daily ceiling | two turns at once lose no operation; what the gate saw is what results; the ceiling; every call accounted for | done, proved |
| 5 | `ShareLinks`, `Accounts` | no page after the end of a link; one first account; ceilings and throttle | done, proved |
| 6 | `SitePlan`, `CrawlList` | the walk is whole; the crawl list is lawful and loses no template | done, proved |
| 7 | `PageText`, `LlmsFile`, `LlmsRules`, `OwnFiles` | the file lists each page once, keeps its budget, settles under edits, and is read by the linter | done, proved but for the linter |
| 8 | `Verdicts`, `GroupTable`, `Components`, `SiteStatus`, `Audits` | what is kept of a client besides its runs | done, proved |
| 9 | run events; the sitemap check and readiness probes | | later |

Abstract specifications worth stating: the queue (done: `JobQueue`, implemented by `RunLifecycle`). The pure parts are compared with declarative definitions inside
their properties (`Within` for the walk, `Moved` for drift, `Expected` for the listing) instead.
Modules to be proved about use recursive functions and the folds of the library, never RECURSIVE operators.

## 3. Modules and their correspondence to the code

### JobQueue

The abstract queue: what the SQL functions promise, without runs and handlers.
`state[j]` is `free` (id not used), `todo`, `doing`, `succeeded` or `failed`. `Enqueue` is
`defer_jobs_v1`, `Fetch` `fetch_job_v2` (which marks the row before returning it),
`Succeed`, `Fail` and `Retry` the ends of a job under a retry limit, `Lose` a worker that
dies: its job stays `doing`, since the program schedules nothing that looks for stalled jobs.

### RunLifecycle

| model | code |
|---|---|
| `status`, `source`, `plan`, `file` | columns of `runs`; `none` before the row, `deleted` after |
| `rows`, `edited` | the run's `pages`: none, as crawled, with the model's copy; whether a person changed `included` |
| `job*` | rows of `procrastinate_jobs` |
| `pc`, `at`, `workerPlan` | the stage a worker is in, its job, the plan it read at the start |
| `reqOp`, `reqRun` | a request between two of its transactions |
| `CreateRun`, `StartPreflight`, `Rerun`, `ImportRun`, `ImportNothing`, `EditPages` | handlers that act in one transaction (the deferral that follows is `DeferAfterCommit`) |
| `BeginApprove`/`CommitApprove`, `BeginCancel`/..., `BeginDelete`/..., `BeginDeleteClient`/... | handlers that read a status, then write |
| `BeginPreflight` ... `PlanStored`, `PlanningRaises` | `preflight_task` |
| `BeginGenerate`, `Gate`, `InventoryStored`, `TriageDone`, `SummariseDone`, `GenerateDone`, `StageFails` | `generate_task`, one action per transaction |
| `FetchJob`, `JobEnds`, `JobRaised` | procrastinate's fetch, finish, retry |
| `WorkerCrash`, `WebCrash` | a process that dies; the `Crashes` constant says which may |
| `approved`, `stopped` | history variables: written, never read by an action |

Abstracted: the contents of pages, plans and files. Left out: event and error texts, prices,
a database error in the middle of a transaction.

### FetchLadder

`slot` and `nextAt` are `Politeness`; `permits` the two semaphores; `ladder`, `rung`, `result`
the local variables of `PageFetcher.fetch`; `disabled` the Firecrawl breaker; `stats` the
`FetchStats`. A step is what the event loop runs between two awaits: `ClaimSlot` (the
lock around the slot), `StartLadder` (the sleep is over), `Acquire` (`async with`), `Answered`
(the request comes back in any of the ways `_attempt` returns: status, length class, terminal
or not). `Tick` is the clock. `sentAt` is a history variable. Abstracted: a page is thin or full, and the word count
used for the JavaScript finding keeps only its order of magnitude. Extraction of text is
taken not to raise.

### SiteDocuments

| model | code |
|---|---|
| `embargo` | the URLs matched by the `embargo` of `site_configs.brief` |
| `metrics` | the rows of `site_metrics` that came with an upload |
| `rows`, `ticked` | `pages` of a run: the kind of copy each carries, and `included` |
| `listed`, `written`, `full` | `runs.llmstxt` line by line, whether it is blank, `runs.llms_full` |
| `revisions` | `document_revisions`: both texts and the snapshot of the pages |
| `complete`, `imported` | `runs.status`, `runs.source` |
| `pc`, `sees`, `entries` | where `generate_task` is, its local `site_brief`, its local `entries` |
| `chat` | a request in `chat_edit`: the ORM objects it read before it awaits the model |
| `calls`, `ledger` | model calls made by chat; those in `llm_spend` |
| `SaveBrief`, `SkipBrief`, `UploadMetrics`, `ImportRun`, `EditPages` | handlers of one transaction |
| `BeginGenerate`, `InventoryStored`, `GenerateDone`, `JobStops` | the transactions of `generate_task` that touch a document |
| `BeginChat`, then `ChatNothing`, `ChatRefused`, `ChatApplied` or `ChatBreaks` | `chat_edit` before and after the model's answer |
| `overtaken`, `crossed`, `dropped`, `uploaded` | history variables: no guard reads them |

A chat turn writes through SQLAlchemy, which sends only the columns whose value differs from the one that was
loaded: `Landing` is that rule, for the two texts. A row that another transaction deleted makes the flush raise
(`ChatBreaks`), and the whole turn is rolled back. `Purge` is `purge_embargoed`, all four places in the one transaction of the brief form.

The history variables say when a claim is not owed. `overtaken[r]` holds if somebody was between reading and writing
for run `r` when the last brief was saved; `crossed[r]` if somebody wrote its rows or file while somebody else held a copy of
them; `dropped[r]` are the pages which filters left out of the last generated file, and `uploaded` the pages in metrics that came after the
brief. Each of those cases is a run of its own or a finding in section 6.

Abstracted: the text of a page is the kind of copy it has (as crawled, a model's, a chat's), a file is the copy of each line, an
embargo the set of URLs it matches. Left out: sections, order and the Optional list, URLs that one page's text mentions of another,
deletion of runs, and of the operations a chat may ask for all but ticking a page and changing its copy.

### Refine

| model | code |
|---|---|
| `checked`, `probed` | there is a row of `site_snapshots`; the URLs its probe confirmed |
| `stored`, `ops`, `facts` | the row of `artifact_edits` for `agents-md`: its `operations`, its `facts` counted by text |
| `turn` | a request in `refine_turn`: where it is, and the document and facts it read at its start |
| `found`, `gone` in it | whether `record_chat` found a row, and whether that row was deleted since |
| `spent`, `records` | `llm_spend` of today, by refining and by others; the rows that turns of refining have left |
| `Begin`, `Ask` or `OverCeiling`, `Answered`, then `TurnNothing`, `TurnRefused`, `TurnApplied` or `TurnBreaks` | `refine_turn`, cut at its awaits |
| `SaveEdit` | `load_edit` and `save_edit` at the end of an applied turn |
| `Passes` | the gate `AGT-004` on the file the turn would make of what it read |
| `Check`, `Reset`, `DeleteClient`, `OtherCall`, `Midnight`, `WebCrash` | the writer of the snapshot, `clear_edit`, `delete_client`, calls by other routes, the day that ends, a web process that dies |
| `calls`, `lost`, `asked`, `crossed`, `moved` | history variables: no guard but the bound on `calls` reads them |

The last steps of a turn are one action because the flush in `record_chat` writes the row and so locks it until the commit: what
`load_edit` reads after it is current, and no other turn gets between. What the turn read before the model was called is not
current: its facts (`list(facts)`) and the document the gate judged. `SaveEdit` is exactly that mixture. A flush that meets a row made or deleted since `record_chat`
looked raises (`TurnBreaks`): the unique constraint of `artifact_edits`, or an update of no row.

`crossed` says that facts were written, or the edit discarded, while another turn held older ones; `moved` that the site was
checked again, with another result, under an edit or a turn. They are the premises of `FactsFollowTheOperations` and `EvidenceBacksTheFile`;
without them both fail, and section 6 says what then happens.

Abstracted: a document is the URLs it names, a label the URL it mentions or none; whatever cannot be applied is one operation, `Unusable`. Left out: prose
operations, the order of the file, policies apart from other links, the conversation kept in the row. A turn may be refused for any
reason, which covers the other rules of the gate.

### ShareLinks

| model | code |
|---|---|
| `row` | `share_links`; `unborn` is a row added and not committed, `gone` one of a deleted client; `own` marks the link an export minted for itself |
| `bucket`, `order` | `TokenBucket._seen` and the order of its keys |
| `request`, `export`, `slot` | a handler between two of its awaits; one that waits for the browser; who holds `pdf._SLOT` |
| `enabled`, `checked`, `clock` | `share_links_enabled` as the process read it; domains with a snapshot; time |
| `BeginMint`/`CommitMint`, `BeginRevoke`/`CommitRevoke` | `create_share`, `revoke_share` |
| `BeginView`, `Resolve`, `Show`, `ShowFails` | `_share_render`: the throttle, the row, the page and its view count, or the one refusal |
| `StaffExport`, `TakeSlot`, `Load`, `RenderEnds`, `GiveUpSlot` | `client_preview_pdf`, the client's download, `render_pdf` and its two timeouts |
| `Check`, `DeleteClient`, `Redeploy`, `Tick` | the rest of the system as far as a link can tell |
| `granted`, `refused`, `crowd`, `late` | history variables, which no guard reads |

A refusal is one action, `Refusal`, because the code gives the same answer to all of them; it also ends an export whose browser asked. `Allow` is
one step of the event loop: refill, spend, move to the end, evict. Abstracted: tokens are the identities of links, drawn once; sections, labels, the
count of views and who revoked are left out; one unit serves days, minutes and tokens.

### Accounts

`account` is `users`, `lock` the holder of the advisory lock, `cookie` the address in a session, `visit` a request in flight. `Signup`,
`LockForClaim`, `ClaimEnds` are `claim_instance`; `GoogleCallback`, `LockForGoogle`, `GoogleEnds` are `resolve_sso`; `BeginCreate`, `CreateEnds` are
`create_teammate`, which takes no lock; `Login`, `Logout`, `RequestDies` the rest. `SetFlags` and `Remove` are an operator in the database: no route does either.
`claimed` is the history of who was made an admin.

### SitePlan and CrawlList

`SitePlan` has the functions of the crawl's preparation and no state: templates of addresses (`Clusters`), the count of pages and its tier
(`IndexedCount`, `Assess`, `EffectiveCap`), the plan of the model or the heuristic (`PlanCrawl`), the review (`Approved`), the selection
(`SelectUrls`) and robots.txt (`MatchLength`, `PathIsAllowed`, `Delay`). A list is filtered by the set of the places it keeps (`KeptAt`, `Kept`) and sorted by the set of the pairs that
stand in order (`SortedBy`), which is what makes them fit to be proved about. An address is a sequence of parts. `CrawlList` walks a site with them: `Walks` is one batch of
`collect_sitemap_urls`, of which any requests may fail; `Preflight` the end of `run_preflight` and the plan stage; `Approve` is `save_plan`, after
which the site may have been rebuilt; `Select` is `generate_task` up to the fetcher. `lost` is a history variable. Where these stages stand among
other tasks is `RunLifecycle`'s.

### PageText, LlmsFile, LlmsRules and OwnFiles

`PageText` is the text of one page: titles and descriptions and their fallbacks, importance, the section of an address, the checks of copy. A document is a sequence of
lines of a few kinds. `LlmsFile` makes the two files: `entries` are the pages the task holds, `rows` the same as stored, `file` the documents. `Triage`,
`Summarise`, `Assemble` are the stages of `generate_task`, with any answer of the model; `EditPages` is the edit form, from rows to a rebuilt file and back to
rows (`FromRows`, `Rebuilt`, `WrittenBack`). `LlmsRules` is the linter: `ParseIndex` and `ParseFull` read the documents, one operator stands for each rule,
`Audit` runs and scores them. Whatever the code filters, sorts or groups is said by the places it keeps and the order they are in (`KeptAt`, `InOrder`, `Grouped`, in place of loops), which is what makes it
fit to be proved about. `OwnFiles` puts the two together: generator and linter share a format, the patterns of a heading and of a "Source:" line, and two thresholds.
A line of a document holds the parts it was written from. The linter reads text, so `LlmsRules` says what the text of the parts reads as where that is not what was written: a link line ends its title at
the first "]" and its address at the first ")" (`WellFormed`), a mark of a source may go on to the next line that says anything (`Marks`), and a heading without a text leaves a space (`Full006`).

### Verdicts and GroupTable

`Verdicts` has the functions: the reading of a Search Console export (`Parses`, `ParseGscExport`), the merge of spellings of one address and the join with the site
(`MergeMetrics`, `JoinMetrics`), the verdict of a sitemap group by the figures (`ByTheNumbers`) and the declarations that beat it (`ApplyOverrides`, `ApplyBrief`), intents
(`Intent`), the table (`PlanningTable`), the shape of a site and its drift (`SiteShape`, `DetectDrift`). A shape counts, under each name, the places of the listing that bear it.

| model | code |
|---|---|
| `site`, `brief`, `observed`, `metrics` | what the sitemaps list; `site_configs.brief` and `.observed_shape`; `site_metrics` |
| `upload` | a transaction of `upload_metrics`: what its DELETE saw, the rows it adds and, as history, the uploads committed before it (`after`) |
| `job`, `table` | `preflight_task` with what it has read; the planning table, drift and join in `runs.stats` |
| `UploadBegins`, `UploadCommits`, `UploadFails` | `replace_site_metrics`, cut where another transaction may commit, under the unique constraint |
| `SaveBrief`, `SkipBrief` | the brief's routes, with the purge of metrics |
| `DeleteClient` | `delete_client`, of what it deletes of a domain's brief, shape and metrics, and of its run |
| `Recon`, `LoadBrief`, `LoadMetrics`, `StoreTable`, `JobFails` | `preflight_task` |
| `answered`, `made`, `superseded` | history variables: what a table was made of; the uploads that one which began after them, or a deletion of the client, has put an end to |

### Components, SiteStatus and Audits

`Components` is the registry: families, who has to do a component, which type of site it is expected of, which file is generated for it. `SiteStatus` derives the four
states (`StateOf`) and the lists from a check's findings and the marks; `CreateClient`, `SaveClientSettings`, `RefreshClient` write the client and the last check, and a mark
is a transaction (`MarkBegins`, `MarkCommits`, `ClearMark`). `DeleteClientStatus` takes all of it. A mark's row is known by who inserted it: an update of a row that was deleted and inserted anew fails. `Audits` is `receive_audit` and `save_audit`: `AuditArrives` loads the row, `AuditStored` inserts one or
writes the columns that differ from those loaded, `DeleteAudit` takes one back and `DeleteClientAudits` those of a client; `created` counts the rows of an id, so that an update is of the row that was loaded and of no later one, and `retracted` is history.
`delete_client` is one transaction; each module has the part of it that its variables are (`ShareLinks` has the links).

## 4. Runs

| run | instance | shows |
|---|---|---|
| `lifecycle_deployed` | 2 runs, 1 worker, 1 request, 2 jobs, crashes | `TypeOK`, `ReviewGate`, `NoStrandedRun`, `NothingWithoutARun` |
| `lifecycle_contended` | 1 run, 2 workers, 2 requests, 2 jobs, crashes | `ClaimsAreExclusive`, `CompleteIsWhole`, and that the whole implements `JobQueue` (`ImplementsQueue`) |
| `lifecycle_live` | no crashes, fair worker | `QueueDrains`, `StagesEnd` |
| `fetch_ladder` | 2 pages, 1 permit of each kind, delay 1 | `SlotsApart`, `NothingSpentOnASettledPage`, `StatsAddUp`, `EveryPageEnds` |
| `documents` | 1 run, 2 jobs, 1 chat turn, an embargoable and a public page | `EmbargoReachesEverything`, `FileShowsTheRows`, `RevisionHoldsWhatStood`, `EditsArePaidFor` |
| `refine` | 2 requests in flight, 3 calls, 1 operation a turn, a page and an endpoint that comes and goes, ceiling 1 | `NothingAskedIsLost`, `FactsFollowTheOperations`, `EvidenceBacksTheFile`, `OvershootIsBounded`, `EveryCallIsOnRecord` |
| `access` | a client with 2 links, 2 requests, 1 export; beside it 2 browsers and 2 addresses | `NothingAfterTheEnd`, `LiveLinksBounded`, `ThrottleHolds`, `OwnPageOpens`, `ClaimedOnce` |
| `crawl_list` | 4 sites of 5 sitemaps, 2 walks, any failed answers, 5 kinds of reply of the model, any review | `WalkIsWhole`, `FetchesOnlyWhatItMay`, `OnlyTheReviewLeavesPagesOut` |
| `llms_file` | 9 small sites, 2 types of site, any placement by the model, 2 edits | `ListedOnce`, `FullKeepsWhatMatters`, `OwnFileReads`, `EditsSettle` |
| `client_records` | 2 uploads, 2 answers, 2 preflights; 2 people who mark; 3 pushes of 2 audits and 1 retraction; the deletion of the client | `BriefBoundsTheVerdict`, `DriftTellsTheMoves`, `OldFiguresAreGone`, `NoMarkBeatsAMeasurement`, `ListsAgree`, `AuditsBalance` |
| `stop_is_overwritten`, `embargo_outlived` | 1 run | the code does not do what a comment or a document says (section 6): `NoStageAfterStop`, `EmbargoMeansGone` |

Type invariants other than the lifecycle's, `StatusTracksStage`, `AttemptsBounded` and `PermitsAreReturned` are not among the runs: they are proved (section 5). Seven more
configurations (`MCRunLifecycle_CrawlsTheApprovedPlan`, `MCFetchLadder_RequestsApart`, `MCFetchLadder_JsFindingIsEarned`, `MCRefine_PanelIsTheDownload`,
`MCLlmsFile_IdentityIsListed`, `MCLlmsFile_OwnFilePasses`, `MCClientRecords_ReplacedNotMerged`) reproduce findings of section 6 with `tlc -config X.cfg M`.

`MCAccess` and `MCClientRecords` instantiate machines that share no variable. One of them moves while the others stand at their start, so the states are those of each
and not their products; no property relates two of them.

Bounds and why they are enough. Every property of the lifecycle is about one run, its jobs and
those who work on them; a second run matters where one worker is shared or a rerun clones, and
two of each are there. Two jobs are enough for a preflight and a generate, or for two
generates of one run, which is what repeated deferrals lead to; three jobs in the small violation runs. `MaxJobs` bounds
only the number of deferrals: an id is used once. Retries are 1 instead of 2 for preflight: two attempts show a retry on top of what the first left.
In the crawl two pages compete for one permit of each kind, so every wait happens; `MaxClock` lets
time pass beyond what the slots need. In the documents one page may be embargoed and one may not, so a purge has something to take and
something to leave; the second job regenerates a run that was edited in between. Two turns in flight and longer chains of
revisions add states and no kind of step; the proofs cover any number of them. In `Refine` two requests cross in every order and a third call
comes after them, on an edit of up to two operations when it begins (`MaxStored`); with a ceiling of 1 the second request is over it or passes it. `MaxCalls`
bounds calls, `MaxAsked` the operations of a turn, and calls by others are counted up to the ceiling. The symmetry of run ids, and of
refine requests, is used where no liveness is checked.

In `access` a ceiling of 1 and two requests make a crossing of mints; the second link outlives the first, and one unit of time is what lets a link expire while its page is
rendered. The burst is 1 and one key fits in the bucket, so the second request is refused, refilled or admitted because its key was evicted. Two browsers are the two
sides of a claim, a third party adds nothing to the lock; the proofs are for any number of all of them.
In `crawl_list` two sites of five sitemaps each, under two robots.txt files, hold between them a sitemap listed twice, a cycle, one that nests too deep, one that only a line of robots.txt names, and a
page listed by three; batches of 2 and a ceiling of 5 make the last batch end both under and at the ceiling. `MaxDepth` 1 shows what a limit cuts. One reply of the model rules twice on a template and once on one the site has not, which is what first rules and invented templates take. A rebuild between plan and crawl moves
templates. Thresholds are small so that the same branches are met with seven addresses: three siblings collapse, a template of two is sampled, and caps of 2 and 3 bite.
In `llms_file` the sites are a home page with about and article, an article at two addresses beside a thin page, a page that names a canonical, a flat site with a deep
page, a short page beside the home page, one whose address puts it into a section named Optional, a title with a "]" beside an address with a ")", and the home page beside a body that the full file cannot hold; the bodies have a heading of their own, a fence that holds a heading and a "Source:" line, a fence that holds a heading in emphasis, "Source:" on a line of its own, an empty heading, and blocks that repeat. Two edits are a
change and its repetition. In `client_records` two uploads, two answers, two jobs and a deletion of the client cross in every order; there are two exports that share no page, so a crossing either fails on the unique constraint (of one export with itself) or leaves rows of both;
three deliveries are enough for a row that is deleted and inserted anew under one that loaded it (three marks would be, the proof covers them); the figures make each of the verdicts, and the declarations meet in pairs that contradict each other.

Fairness. Lifecycle: weak fairness of the steps of each worker (procrastinate's loop polls for ever and every
stage is under a timeout or fails) and of requests that have begun (the server answers them); none for users, none for
crashes. Without fairness for users nothing says a run is ever approved, and nothing here claims it.
Documents, refining and the four runs of the later modules: no fairness, since nothing there is claimed to happen eventually.
Crawl: weak fairness of time and of each page's steps; `asyncio.Semaphore` is first in first out, so weak
fairness of a waiting page is less than the code gives, and enough because each page makes finitely many requests.

`CHECK_DEADLOCK FALSE` stands where the system may stop: all job ids used and all runs
deleted, a crawl finished, a run's jobs used up with no page left to edit, all calls made, time and tokens used up, the edits of a file used up, the requests on a client's records used up.
`crawl_list` checks for deadlock: its run always ends in `Over`.

## 5. Proofs

`RunLifecycle_proofs` (with the theorems of `JobQueue`), `FetchLadder_proofs`, `SiteDocuments_proofs`, `Refine_proofs`, `Access_proofs`, `CrawlList_proofs`, `ClientRecords_proofs` and `LlmsFile_proofs` hold for every value of the constants that
satisfies the named assumptions (bounds are naturals, `NoRun` is no run, pools are not empty, `Urls`
is finite in a crawl, embargoes and uploads name pages of the site, finitely many chat, refine or share requests are in flight, the ceiling is positive,
the link an export mints outlives both timeouts of `app/pdf.py`, the components a probe decides are of layer 1, `NoAudit` is no row; what a site serves are sequences of lines and of locations, an index names sitemaps of the site, the tiers are not empty; the pages of an inventory have different addresses and no section yet, the alphabet has every
name a section can get, a note fits into its reserve, and the words the program writes are strings; and the places of a listing
of a client's site are finitely many). The model's replies and the answers of the search engine are any values at all, but for the schema a strict response format enforces on the model's plan (`Conforms`).

*Lifecycle.* `Base == TypeOK /\ References /\ ClaimsAreExclusive` is inductive: the claims need the
references (a job in use names a run that was created), and every action needs the types to be
read at all. On top of it, each with one step per action: `ApprovedBeforeDeferral`, from which `ReviewGate` follows (the
gate itself is not inductive: it says nothing of jobs that wait); `InventoryBehindTheStages`, from which
`CompleteIsWhole`; `NothingWithoutARun`; `NoStrandedRun`, whose hard cases are the fetch (the job is
no longer `todo`) and the end of a job; `StatusTracksStage`, under `Cardinality(Workers) = 1`. `RefinesQueue` shows that every step is a step of `JobQueue`
or a stutter of it, and `AttemptsBoundedHolds` carries `JobQueue`'s theorem through that refinement.

*Crawl.* `Base == TypeOK /\ Climbing` (a page under way has a non-empty ladder and a rung on it) is
inductive; `SlotsApart` needs in addition that every claimed slot is at least the delay before `nextAt`;
`NothingSpentOnASettledPage` that a page that climbs has just failed; `PermitsAreReturned` counts with
`FiniteSetTheorems` as the set of holders gains and loses one page. `StatsAddUp` relates four counters to the sizes of sets of pages, each of which gains a page in the step that counts it.

*Documents.* On `TypeOK` stand three inductive invariants, one per claim.
`EmbargoInv` adds to "nothing held is embargoed" (`Apart`) that nothing which was *read* is (`Unread`): the brief the worker has in its hand covers the
present embargo, and its entries and each turn's copy avoid it. That is needed because they write later what they read, and it is what a brief saved in between breaks.
`FileInv` says, unless the run was crossed, that the worker holds exactly the rows and each turn's copy is current (`Uncrossed`); then
a finished file `Shows` the rows, and from the same invariant `RevisionHoldsWhatStood` follows as an action property. `SpendInv`
counts the turns in flight beside the ledger, with `FiniteSetTheorems`. `PurgeEffect` and `AppliedTurn` state once what a purge and a landed turn do.

*Refining.* All six properties of the run, for any site, labels, facts, number of requests and ceiling. `Kept` counts the requests that have called
and not written beside the ledger; it is inductive on `TypeOK`. `Asked` adds to `NothingAskedIsLost` what `FactsFollowTheOperations` needs: that until a write crosses a
turn, who is in flight has read the facts that are there. Its step rests on `ToldConcat`, that facts counted turn by turn are those of the whole list, proved with a
bijection of positions. `Backed` adds to `EvidenceBacksTheFile` that who is in flight has read the present probe. The operations it read may be old
even so: `GateSees` shows that the verdict still counts, because a turn only names links of the file it was shown.

*Share links.* `Base` is the types, that a bucket's times are not ahead of the clock, and that whoever works has a link in hand (`Named`). On it stand four invariants. `Accounted` is the throttle:
what a key was granted plus what it has left is at most the burst and what time has refilled since it entered, which is inductive where the claim alone is not. `Bearings` carries that a request
that was let in was judged by a row that ends for good: revoked, expired and deleted are never undone, and time does not go back (`EndsAreFinal`). `Counted` bounds the links of staff that are live or
waiting to be committed by the ceiling and the crowd of mints, with `FiniteSetTheorems`. `Owned` says that the link of a staff export is committed, is in nobody else's hands, is fresh in the bucket
and ends after both timeouts; that is where `ExportLife > SlotWait + RenderTimeout` is used.

*Accounts.* What was read under the lock still holds (`ReadUnderTheLock`), because whoever works under it holds it and every insert that is made without it needs an admin to be there.

*Crawl list.* Four invariants. `Shape` types the walk: its queue is a sequence of entries of sitemaps the site has, what it lists are addresses that the sitemap it names does list. `ListIsSelected` says that what was
fetched is the crawl list of the walk, the plan and the cap that stand, and `FetchesOnlyWhatItMay` is then a statement about operators: that sorting and sampling keep members, that `Distinct` makes a list
injective and the cut keeps it so, and that the longest match is what the rules say it is (`AllowedMeans`), for any plan. `WalkReaches` is the argument about the walk. It says that there is a distance for each sitemap
that was ever queued: the queue is in order of it, spans two consecutive values at most, holds whatever was queued and not yet seen, and whatever was seen and answered has its children at one more or is at the limit.
That is breadth first search; at the end of the queue the sitemaps seen are those `Within` reaches in as many steps, by induction on the depth in both directions. A batch is a fold of `Absorbed` over the answers, and the invariant
is carried over it one answer at a time. Induction over data is possible here because neither the hypothesis nor the step is an operator: `Induct`, `Recursion` and `FoldRuns` speak of a set of numbers, of a
function and of a run of states in place of one, and are proved from the library's well-foundedness of sets of naturals.
`Reviewed` says that from the review on the plan has a rule of the schema's kind for every template of the addresses it was made of, and none that samples once it is approved. `OnlyTheReviewLeavesPagesOut` follows
by going after one address: its own template fits it (`OwnTemplateFits`, which needs that segments have placeholders for shapes) and depends only on the set of addresses (`SameTemplates`); its rule includes it or was unticked;
what is included enters the list with the rule's priority (`ChosenWhole`); and of a list sorted by priority, with duplicates dropped and the homepage in front, the budget cuts off what weighs most (`RanksSay`, `CutSays`).

*Client records.* `DeclarationsBound` is by cases over `ApplyOverrides` and `ApplyBrief` for any group, figures and brief (`GroupIsBounded`), and `Tabled` says of what a table was made.
`OldFiguresGo` adds that of the uploads stored before one began, all the rows there are are among those it deletes, that those it adds are its own, and that what has been put an end to was stored. `MarksNeverWin` holds of every list of findings since a mark is only ever
loaded for what no probe decides. `AuditsAreOnce` is inductive on the types: it is the unique constraint that makes it so. `DriftIsTold` needs `Baselined`: what a job compares with is the shape of a listing, stored with the brief it read, so each
share is a count over a count that is not zero; then every move past the limit is told and nothing else is, by arithmetic over products (`TimesAsLarge`, `ResizedSays`). `ListsAgreeHolds` has no need of an invariant, only of
the definitions: each family's components fall into disjoint sets by their state, and a sum of the sizes of disjoint sets is the size of their union (`SumsUp`, by induction over the set summed over).

*The two files.* `ListedOnceHolds` follows a set of pages through the program. `Well(S, O, X)` says that sections and optional pages hold each page of `X` once, in sections of different names; the filters keep
such pages (`Shortlist`), grouping by the model's answers or by address makes such sections (`SectionedSays`), merging of singletons, sorting and both orders of sections keep them, but for a section named
Optional (`OrderedHolds`), what is made of the rows has them (`RowsHold`), and of an index rendered from them the links are those of `X` (`LinksAre`). Every step is a lemma about an operator, for any pages: a filter or a sort is a
numbering of the places it keeps, a dict is the first places of its names. With the types (`LlmsFileTypes`) the claim is inductive.
`EditsSettleHolds` needs to know more of the rows. `Settled` says that the file is what the rows, as they stand, make with the type of site as it stands; it is inductive because an edit writes back the places
of the very sections it rendered (`EditStamps`): sorted by `position` and grouped by `section` they give each section the same pages in the same order, and the optional ones theirs (`StampedSame`), copy that was read from a row is
written to it unchanged, and the order of sections depends only on which there are, not on how they came (`BuiltAgain`). `1000 * (k - 1) + n - 1` orders the pages of one section, which is all that grouping asks of it; it does not have to keep
sections of a thousand pages apart.
`FullKeepsWhatMattersHolds` adds up lengths along the full file. `Fills` says which blocks a budget takes when it is spent from the front: one that was left out found no room behind what had been taken before it, so none behind the
whole either (`FillsFits`), and it is longer than any later block that was taken. The file that is put together of a heading, the shared section, the blocks and the note has the length that was counted for it
(`FillsSum`, `FullTextSays`); its marks are those of the pages taken, because a body that is clear has no line that passes for one, before trimming or after (`QuietBears`, `MarksAre`). What is left is that the property says all of this of the *links of
the index*, while `render_llms_full` works on a list of pages by importance: `Listing` and `Matched` pair the two one to one, so that what many bodies share is counted alike on both sides (`SharedSays`), and `BuiltLists` shows that what
`build_result` makes is such a pair. After an edit the pages are read from rows; what an edit does not read back, neither importance nor bodies depend on (`Alike`, `EditKeeps`).

Only model-checked: the liveness properties (`QueueDrains`, `StagesEnd`, `EveryPageEnds`), which need ENABLED; and `OwnFileReads`, which reads two whole
documents line by line with another parser than the one that wrote them.

## 6. What the checks found

Two of them are runs that violate what the repository says of itself (`stop_is_overwritten`, `embargo_outlived`). For seven more a configuration beside the modules asks TLC for the
counterexample; the others were read off the models. `PROJECT.json` quotes the lines.

* **A stop can be overwritten.** The stage in flight ends by writing the next status over `CANCELLED`; the check behind it
  reads that status and the next expensive stage begins.
* **A run can be deleted under a worker.** Cancelling makes it terminal at once. The proofs show that nothing is left behind all the same (read off the model, no run).
* **An approved plan can be replaced.** A second submission of the brief defers a second preflight, which may run after the approval (`MCRunLifecycle_CrawlsTheApprovedPlan.cfg`).
* **The crawl delay can be defeated.** A page claims its time and then waits for a permit; the pages that waited go out together (`MCFetchLadder_RequestsApart.cfg`).
* **A bot wall is reported as JavaScript.** The comparison takes an undelivered raw page for one of no words (`MCFetchLadder_JsFindingIsEarned.cfg`).
* **An embargo can be outlived.** `generate_task` reads the brief once; a brief saved while it works is purged from what is stored, and the job then stores the page again.
* **A chat turn writes over an edit.** The rows it renders were read before the model was asked; an edit saved meanwhile stays in the rows and is missing from the file (read off the model, no run).
* **The panel and the download are not the same file.** The bundle replays `add_fact` on top of the stored facts, so a stated fact is downloaded and shared twice (`MCRefine_PanelIsTheDownload.cfg`).
* **A refused Firecrawl key is paid for again** by every page whose ladder was built before the refusal (read off the model, no run).
* Read off the documents, no run: two more surfaces hold an embargoed URL than the purge knows (the page snapshot of a revision, `js_only_urls` in the run's stats);
  an upload of metrics does not look at the embargo; a chat turn the gate refuses loses the record of its call; the daily ceiling is not asked in the brief wizard;
  `set_page_copy` changes the title and then refuses the operation.
* Read off `Refine`, no run: a turn in flight writes back the facts that a reset discarded; a label may mention a URL that a later check no longer confirms; of two first turns on
  one client the second breaks on the unique constraint and takes the record of its call with it.
* **An identity page can vanish.** The model may put the home page into the section named Optional, which every template offers; its flag is refused, the section stays and is dropped with the page
  (`MCLlmsFile_IdentityIsListed.cfg`). So does any page whose address begins with `/optional/`, where the address names the section: `order_sections` takes it for the list that comes last and drops it (`Expected` in `LlmsFile` leaves those out).
* **Two uploads that cross leave rows of both.** Each deletes what it sees before the other commits; where they share no page the unique constraint does not object, and the figures are merged, against "Replace rather than
  merge" (`repo.py:721`; `MCClientRecords_ReplacedNotMerged.cfg`). What `OldFiguresAreGone` holds to is what is true all the same: one that began after another was stored leaves none of its rows.
* **The program's own file can fail its own linter.** "The thing that generates and the thing that checks cannot drift apart" (`full_text.py:8-11`; `MCLlmsFile_OwnFilePasses.cfg`). They can in five ways, which `OwnFileReads` names. A title with
  a "]" or an address with a ")" is a malformed item to `LINK_LINE` (`render.py:158`, `document.py:30`; IDX-006). A page the model placed without a title leaves a space behind its `##` (`render.py:242`; FULL-006). `normalise_body` leaves fences
  alone, and FULL-007 reads them, so a comment `# __init__` in a sample fails it (`full_text.py:126`, `full_rules.py:174`). `SOURCE_LINE` goes on to the next line, while bodies are escaped line by line, so "Source:" above
  a single word is counted as a mark (`document.py:37`, `155`, `full_text.py:139`; FULL-002). A "Source: ..." line in a fence is one for the parser and not for `normalise_body`.
* Read off the later models, no run: a review turns every ticked `sample` into `include`; of two revocations that cross, the second stands; two spellings of a page without clicks merge into one with 0;
  an embargoed group without figures is for review, not excluded; columns of one push of an audit may stay beside the payload of another; a bare group name in a brief matches nothing;
  the planning table and its orphans keep embargoed addresses; `publishable` is asked only where refining is offered.

## 7. Not modelled

* Prompts, the client report and presentation, agents' documents and the bundle, database sessions, migrations, configuration and the web shell: no state of their own, or wording and formats only.
  Commit and rollback are part of every action that models a transaction.
* The snapshot and evidence of a site, and the probes behind it (`readiness.py`, the probes of technology, agents' surfaces and speed): one request each and a classification of
  its answer, read-only. `SiteStatus` takes any finding a check may come by.
* `sitemap_check.py`, the parsing of XML and HTML, `templates_lib.py`, the rules of robots.txt, headers and agents' documents apart from `AGT-004`.
* Business summaries and the cached count of indexed pages: one writer each. Run events: texts, and the times at which they appear.
* The contents of answers from sites and models are external: every outcome the code distinguishes is possible at every call.

Known to be outside what a property says, where the models allow the behaviour or leave it out: a rerun of an imported run clones no rows, and its job can only fail; an import of nothing
leaves a `PENDING` run; an exception after the recon is outside `preflight_task`'s `try`; the event that tells of a cancellation is rolled back with the raise; `runs.error` is never
cleared; pages whose ladder was built before the Firecrawl breaker opened call the refused service all the same; a page on which every rung is blocked with 200 characters or more counts as read; a purge that blanks `llms_full` keeps it from being rendered again.
