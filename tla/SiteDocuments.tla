---------------------------- MODULE SiteDocuments ----------------------------
(***************************************************************************)
(* What is stored about the pages of one domain, and the files derived     *)
(* from it: the rows of each run, its llms.txt and llms-full.txt, the      *)
(* revisions kept before an edit, the metrics, and the embargo of the      *)
(* brief that all of them must honour.                                     *)
(*                                                                         *)
(* Four kinds of actor write it: the brief form, whose purge goes through  *)
(* every place (app/db/repo.py); the worker, which reads the brief once    *)
(* and writes minutes later (app/jobs/tasks.py); the edit form, one        *)
(* transaction; and the chat edit, which reads the rows, awaits a model    *)
(* and writes what it has read (app/main.py).                              *)
(*                                                                         *)
(* Abstracted: the text of a page is the kind of copy it carries, a file   *)
(* is the lines it lists, an embargo is the set of URLs its patterns       *)
(* match.  Sections, order and the Optional list are left out, and so are  *)
(* URLs that one page's text mentions of another.  Runs are not deleted    *)
(* here; the statuses around a job are those of RunLifecycle.              *)
(***************************************************************************)
EXTENDS Naturals, Sequences, FiniteSets

CONSTANTS
    Urls,       \* the pages of the site
    Runs,       \* runs of the domain
    Chats,      \* chat requests that can be in flight at once
    Embargoes,  \* the embargoes a brief can declare
    Uploads,    \* the pages an export of metrics can name
    WantsFull,  \* runs.generate_full
    MaxJobs,    \* bound: times a run's job is begun
    MaxCalls    \* bound: model calls by chat about one run

ASSUME EmbargoAssumption == Embargoes \subseteq SUBSET Urls
ASSUME ChatsAssumption == IsFiniteSet(Chats)
ASSUME UploadAssumption == Uploads \subseteq SUBSET Urls
ASSUME FullAssumption == WantsFull \in BOOLEAN
ASSUME BoundAssumption == MaxJobs \in Nat /\ MaxCalls \in Nat

VARIABLES
    embargo,   \* site_configs.brief: the URLs its embargo matches
    metrics,   \* site_metrics of the upload
    rows,      \* pages: the copy each carries, "none" without a row
    ticked,    \* pages.included
    listed,    \* runs.llmstxt: the copy of each line
    written,   \* it is not blank
    full,      \* runs.llms_full: not blank, and whose bodies it holds
    revisions, \* document_revisions, in order
    complete,  \* runs.status = COMPLETE
    imported,  \* runs.source = screaming-frog
    pc,        \* the run's job
    jobs,      \* how often it was begun
    sees,      \* site_brief: the embargo the job has read
    entries,   \* the pages it has in memory
    chat,      \* a chat request, with what it has read
    calls,     \* model calls made for a run's chat
    ledger,    \* llm_spend: those on record
    overtaken, \* history: the last brief was saved while someone worked on the run
    crossed,   \* history: its rows or file were written while someone worked on it
    dropped,   \* history: pages the filters took out of the file just made
    uploaded   \* history: pages of an upload later than the brief

documents == <<rows, ticked, listed, written, full, revisions>>
job == <<complete, imported, pc, jobs, sees, entries>>
spend == <<calls, ledger>>
history == <<overtaken, crossed, dropped, uploaded>>
vars == <<embargo, metrics, documents, job, chat, spend, history>>

-----------------------------------------------------------------------------
(* Rows and files. *)

Copies == {"page", "model", "chat"}
Lines == [Urls -> Copies \cup {"none"}]

\* The URLs a set of lines, or of rows, has.
Shown(lines) == {u \in Urls : lines[u] # "none"}

\* The lines without those of some pages.
Without(lines, pages) == [u \in Urls |-> IF u \in pages THEN "none" ELSE lines[u]]

\* `rebuild(_result_from_rows(...))`: a line for every row that is included.
Rendered(lines, included) == Without(lines, Urls \ included)

Blank == [kept |-> FALSE, urls |-> {}]
Bodies(pages) == [kept |-> TRUE, urls |-> pages]

\* The full text is rendered again only where there is one.
RenderedFull(before, lines) == IF before.kept THEN Bodies(Shown(lines)) ELSE Blank

\* "Blanked entirely, not edited", when it mentions an embargoed page.
PurgedFull(text, pages) ==
    IF text.kept /\ text.urls \cap pages # {} THEN Blank ELSE text

NoChat == [busy |-> FALSE]

Asking(r) == {c \in Chats : chat[c].busy /\ chat[c].run = r}

\* Someone is between reading about a run and writing to it.
InFlight(r) == pc[r] # "idle" \/ Asking(r) # {}

\* ... and would write over what is written now.
Overlapped(r, but) == pc[r] = "writing" \/ Asking(r) \ but # {}

-----------------------------------------------------------------------------

Init ==
    /\ embargo = {} /\ metrics = {}
    /\ rows = [r \in Runs |-> [u \in Urls |-> "none"]]
    /\ ticked = [r \in Runs |-> {}]
    /\ listed = [r \in Runs |-> [u \in Urls |-> "none"]]
    /\ written = [r \in Runs |-> FALSE]
    /\ full = [r \in Runs |-> Blank]
    /\ revisions = [r \in Runs |-> <<>>]
    /\ complete = [r \in Runs |-> FALSE]
    /\ imported = [r \in Runs |-> FALSE]
    /\ pc = [r \in Runs |-> "idle"]
    /\ jobs = [r \in Runs |-> 0]
    /\ sees = [r \in Runs |-> {}]
    /\ entries = [r \in Runs |-> {}]
    /\ chat = [c \in Chats |-> NoChat]
    /\ calls = [r \in Runs |-> 0]
    /\ ledger = [r \in Runs |-> 0]
    /\ overtaken = [r \in Runs |-> FALSE]
    /\ crossed = [r \in Runs |-> FALSE]
    /\ dropped = [r \in Runs |-> {}]
    /\ uploaded = {}

-----------------------------------------------------------------------------
(* The brief, its purge, the metrics. *)

\* Mutant: the first version, which cleared the page store alone.
Purge_RowsOnly(pages) ==
    /\ rows' = [r \in Runs |-> Without(rows[r], pages)]
    /\ ticked' = [r \in Runs |-> ticked[r] \ pages]
    /\ metrics' = metrics \ pages
    /\ UNCHANGED <<listed, full, revisions>>

\* Both texts of a revision; its snapshot of the pages is left as it is.
PurgedRevision(rev, pages) ==
    [rev EXCEPT !.listed = Without(@, pages), !.full = PurgedFull(@, pages)]

\* `purge_embargoed`: the four places that hold a page.
Purge(pages) ==
    /\ rows' = [r \in Runs |-> Without(rows[r], pages)]
    /\ ticked' = [r \in Runs |-> ticked[r] \ pages]
    /\ metrics' = metrics \ pages
    /\ listed' = [r \in Runs |-> Without(listed[r], pages)]
    /\ full' = [r \in Runs |-> PurgedFull(full[r], pages)]
    /\ revisions' = [r \in Runs |->
         [i \in 1..Len(revisions[r]) |-> PurgedRevision(revisions[r][i], pages)]]

\* The brief form, in one transaction.
SaveBrief(pages) ==
    /\ embargo' = pages
    /\ Purge(pages)
    /\ overtaken' = [r \in Runs |-> InFlight(r)]
    /\ crossed' = [r \in Runs |-> crossed[r] \/ Overlapped(r, {})]
    /\ uploaded' = {}
    /\ UNCHANGED <<written, job, chat, spend, dropped>>

\* "Start the run unbriefed": the stored brief is replaced by an empty one.
SkipBrief ==
    /\ embargo' = {}
    /\ UNCHANGED <<metrics, documents, job, chat, spend, history>>

\* An export of metrics replaces the one before.
UploadMetrics(pages) ==
    /\ metrics' = pages
    /\ uploaded' = pages
    /\ UNCHANGED <<embargo, documents, job, chat, spend, overtaken, crossed, dropped>>

-----------------------------------------------------------------------------
(* The worker. *)

\* New rows for a run, with the copy of the page itself and all included.
ReplacePages(r, pages) ==
    /\ rows' = [rows EXCEPT ![r] = [u \in Urls |-> IF u \in pages THEN "page" ELSE "none"]]
    /\ ticked' = [ticked EXCEPT ![r] = pages]

\* An uploaded crawl: rows without the embargoed pages, in one transaction.
ImportRun(r) ==
    /\ jobs[r] = 0 /\ Shown(rows[r]) = {} /\ ~written[r]
    /\ \E pages \in SUBSET Urls :
         pages \ embargo # {} /\ ReplacePages(r, pages \ embargo)
    /\ imported' = [imported EXCEPT ![r] = TRUE]
    /\ UNCHANGED <<embargo, metrics, listed, written, full, revisions, complete, pc,
                   jobs, sees, entries, chat, spend, history>>

\* The first transactions of `generate`: the brief, and an import's rows.
BeginGenerate(r) ==
    /\ pc[r] = "idle" /\ jobs[r] < MaxJobs
    /\ jobs' = [jobs EXCEPT ![r] = @ + 1]
    /\ sees' = [sees EXCEPT ![r] = embargo]
    /\ entries' = [entries EXCEPT ![r] = IF imported[r] THEN Shown(rows[r]) ELSE {}]
    /\ complete' = [complete EXCEPT ![r] = FALSE]
    /\ pc' = [pc EXCEPT ![r] = "fetching"]
    /\ UNCHANGED <<embargo, metrics, documents, imported, chat, spend, history>>

\* The crawl is over: some of the pages the brief allows could be fetched.
InventoryStored(r) ==
    /\ pc[r] = "fetching"
    /\ \E pages \in SUBSET Urls :
         /\ pages # {}
         /\ IF imported[r] THEN pages = entries[r] ELSE pages \cap sees[r] = {}
         /\ ReplacePages(r, pages)
         /\ entries' = [entries EXCEPT ![r] = pages]
    /\ chat' = [c \in Chats |-> IF c \in Asking(r) THEN [chat[c] EXCEPT !.gone = TRUE]
                                ELSE chat[c]]
    /\ pc' = [pc EXCEPT ![r] = "writing"]
    /\ crossed' = [crossed EXCEPT ![r] = Asking(r) # {}]
    /\ UNCHANGED <<embargo, metrics, listed, written, full, revisions, complete,
                   imported, jobs, sees, spend, overtaken, dropped, uploaded>>

\* Mutant: the placement is written back and the copy is not.
WriteCopyBack_Placement(r, shown) == UNCHANGED rows

\* `store_result`: the copy of the lines is written back to the rows that are there.
WriteCopyBack(r, shown) ==
    rows' = [rows EXCEPT ![r] = [u \in Urls |->
               IF u \in shown /\ @[u] # "none" THEN "model" ELSE @[u]]]

\* The last transaction.  Where no page was placed by a model the filters choose
\* among the pages; otherwise the file has them all.
GenerateDone(r) ==
    /\ pc[r] = "writing"
    /\ \E shown \in SUBSET entries[r] :
         /\ listed' = [listed EXCEPT ![r] =
                         [u \in Urls |-> IF u \in shown THEN "model" ELSE "none"]]
         /\ full' = [full EXCEPT ![r] = IF WantsFull THEN Bodies(shown) ELSE Blank]
         /\ WriteCopyBack(r, shown)
         /\ dropped' = [dropped EXCEPT ![r] = entries[r] \ shown]
    /\ written' = [written EXCEPT ![r] = TRUE]
    /\ complete' = [complete EXCEPT ![r] = TRUE]
    /\ pc' = [pc EXCEPT ![r] = "idle"]
    /\ crossed' = [crossed EXCEPT ![r] = @ \/ Asking(r) # {}]
    /\ UNCHANGED <<embargo, metrics, ticked, revisions, imported, jobs, sees, entries,
                   chat, spend, overtaken, uploaded>>

\* The job stops: cancelled at a boundary, or an exception.
JobStops(r) ==
    /\ pc[r] # "idle"
    /\ pc' = [pc EXCEPT ![r] = "idle"]
    /\ UNCHANGED <<embargo, metrics, documents, complete, imported, jobs, sees, entries,
                   chat, spend, history>>

-----------------------------------------------------------------------------
(* The edit form. *)

\* Include and exclude pages, render again, in one transaction.
EditPages(r) ==
    /\ \E keep \in SUBSET Shown(rows[r]) :
         LET lines == Rendered(rows[r], keep) IN
         /\ ticked' = [ticked EXCEPT ![r] = keep]
         /\ listed' = [listed EXCEPT ![r] = lines]
         /\ full' = [full EXCEPT ![r] = RenderedFull(@, lines)]
    /\ written' = [written EXCEPT ![r] = TRUE]
    /\ crossed' = [crossed EXCEPT ![r] = Overlapped(r, {})]
    /\ dropped' = [dropped EXCEPT ![r] = {}]
    /\ UNCHANGED <<embargo, metrics, rows, revisions, job, chat, spend, overtaken,
                   uploaded>>

-----------------------------------------------------------------------------
(* The chat edit. *)

\* What is read before the model is asked.  Its objects are written later.
BeginChat(c, r) ==
    /\ ~chat[c].busy /\ written[r]
    /\ calls[r] < MaxCalls
    /\ calls' = [calls EXCEPT ![r] = @ + 1]
    /\ chat' = [chat EXCEPT ![c] =
                  [busy |-> TRUE, run |-> r, rows |-> rows[r], ticked |-> ticked[r],
                   listed |-> listed[r], full |-> full[r], gone |-> FALSE]]
    /\ UNCHANGED <<embargo, metrics, documents, job, ledger, history>>

ChatEnds(c) == chat' = [chat EXCEPT ![c] = NoChat]

\* No operations: the call is recorded, nothing else is.
ChatNothing(c) ==
    /\ chat[c].busy
    /\ ChatEnds(c)
    /\ ledger' = [ledger EXCEPT ![chat[c].run] = @ + 1]
    /\ UNCHANGED <<embargo, metrics, documents, job, calls, history>>

\* The gate: a new error rolls the turn back, the record of the call with it.
ChatRefused(c) ==
    /\ chat[c].busy
    /\ ChatEnds(c)
    /\ UNCHANGED <<embargo, metrics, documents, job, spend, history>>

\* What an operation makes of a page: it is ticked or unticked, or gets new copy.
Edits == {"tick", "copy"}
EditedTicks(edit, u, included) ==
    IF edit # "tick" THEN included
    ELSE IF u \in included THEN included \ {u} ELSE included \cup {u}

\* Mutant: the name of the operation is stored for its text.
EditedRows_Swapped(edit, u, lines) ==
    IF edit = "copy" THEN [lines EXCEPT ![u] = edit] ELSE lines

EditedRows(edit, u, lines) ==
    IF edit = "copy" THEN [lines EXCEPT ![u] = "chat"] ELSE lines

\* A column is written when its value is not the one that was read.  What the
\* model abstracts (dates, titles) can make equal lines a different text.
Landing(new, read, now) == IF new = read THEN {now, new} ELSE {new}

\* Mutant: the snapshot is taken when the turn is done.
Snapshot_After(c, lines, text) ==
    [listed |-> lines, full |-> text, pages |-> Shown(chat[c].rows)]

\* The revision: the file and the pages as they were read.
Snapshot(c, lines, text) ==
    [listed |-> chat[c].listed, full |-> chat[c].full, pages |-> Shown(chat[c].rows)]

\* Mutant: the route has no usage object ("every chat turn ... as nothing").
RecordSpend_Forgotten(r) == UNCHANGED ledger

\* `record_spend`
RecordSpend(r) == ledger' = [ledger EXCEPT ![r] = @ + 1]

\* The edited page is the row that was read, and still there.
Lands(c, u) == ~chat[c].gone /\ rows[chat[c].run][u] # "none"

\* A turn lands: the revision, the page it changes, the files rendered from what
\* was read.
ChatApplied(c) ==
    /\ chat[c].busy
    /\ LET r == chat[c].run IN
       /\ \E u \in Shown(chat[c].rows), edit \in Edits :
            LET lines == Rendered(EditedRows(edit, u, chat[c].rows),
                                  EditedTicks(edit, u, chat[c].ticked))
                text == RenderedFull(chat[c].full, lines)
            IN
            /\ Lands(c, u)
            /\ rows' = [rows EXCEPT ![r] = EditedRows(edit, u, @)]
            /\ ticked' = [ticked EXCEPT ![r] =
                 IF edit # "tick" THEN @
                 ELSE IF u \in chat[c].ticked THEN @ \ {u} ELSE @ \cup {u}]
            /\ \E new \in Landing(lines, chat[c].listed, listed[r]) :
                 listed' = [listed EXCEPT ![r] = new]
            /\ \E new \in Landing(text, chat[c].full, full[r]) :
                 full' = [full EXCEPT ![r] = new]
            /\ revisions' = [revisions EXCEPT ![r] = Append(@, Snapshot(c, lines, text))]
       /\ RecordSpend(r)
       /\ crossed' = [crossed EXCEPT ![r] = @ \/ Overlapped(r, {c})]
       /\ dropped' = [dropped EXCEPT ![r] = {}]
    /\ ChatEnds(c)
    /\ UNCHANGED <<embargo, metrics, written, job, calls, overtaken, uploaded>>

\* A row it wants to update is gone: the flush raises, everything is rolled back.
ChatBreaks(c) ==
    /\ chat[c].busy
    /\ \E u \in Shown(chat[c].rows) : ~Lands(c, u)
    /\ ChatEnds(c)
    /\ UNCHANGED <<embargo, metrics, documents, job, spend, history>>

-----------------------------------------------------------------------------

Next ==
    \/ \E pages \in Embargoes : SaveBrief(pages)
    \/ SkipBrief
    \/ \E pages \in Uploads : UploadMetrics(pages)
    \/ \E r \in Runs :
         \/ ImportRun(r) \/ BeginGenerate(r) \/ InventoryStored(r)
         \/ GenerateDone(r) \/ JobStops(r) \/ EditPages(r)
         \/ \E c \in Chats : BeginChat(c, r)
    \/ \E c \in Chats :
         ChatNothing(c) \/ ChatRefused(c) \/ ChatApplied(c) \/ ChatBreaks(c)

Spec == Init /\ [][Next]_vars

-----------------------------------------------------------------------------
(* Properties. *)

Texts == {Blank} \cup [kept : {TRUE}, urls : SUBSET Urls]
Revisions == [listed : Lines, full : Texts, pages : SUBSET Urls]
Turns == [busy : {TRUE}, run : Runs, rows : Lines, ticked : SUBSET Urls,
          listed : Lines, full : Texts, gone : BOOLEAN]

TypeOfDocuments ==
    /\ rows \in [Runs -> Lines]
    /\ ticked \in [Runs -> SUBSET Urls]
    /\ listed \in [Runs -> Lines]
    /\ written \in [Runs -> BOOLEAN]
    /\ full \in [Runs -> Texts]
    /\ revisions \in [Runs -> Seq(Revisions)]

TypeOfJobs ==
    /\ complete \in [Runs -> BOOLEAN]
    /\ imported \in [Runs -> BOOLEAN]
    /\ pc \in [Runs -> {"idle", "fetching", "writing"}]
    /\ jobs \in [Runs -> Nat]
    /\ sees \in [Runs -> SUBSET Urls]
    /\ entries \in [Runs -> SUBSET Urls]

TypeOfTurns ==
    /\ chat \in [Chats -> Turns \cup {NoChat}]
    /\ calls \in [Runs -> Nat]
    /\ ledger \in [Runs -> Nat]

TypeOfDomain ==
    /\ embargo \in SUBSET Urls
    /\ metrics \in SUBSET Urls

TypeOfHistory ==
    /\ overtaken \in [Runs -> BOOLEAN]
    /\ crossed \in [Runs -> BOOLEAN]
    /\ dropped \in [Runs -> SUBSET Urls]
    /\ uploaded \in SUBSET Urls

TypeOK ==
    TypeOfDocuments /\ TypeOfJobs /\ TypeOfTurns /\ TypeOfDomain /\ TypeOfHistory

\* An embargo reaches every place: no row, line, body, revision of either or
\* metric of an embargoed page is left, whatever was crawled, imported, edited or
\* kept before the brief was saved.  It fails only for a run somebody was in the
\* middle of at that moment, and for metrics uploaded since (purge_embargoed).
Held(r) ==
    Shown(rows[r]) \cup Shown(listed[r]) \cup full[r].urls
        \cup UNION {Shown(revisions[r][i].listed) \cup revisions[r][i].full.urls :
                      i \in 1..Len(revisions[r])}

EmbargoReachesEverything ==
    /\ \A r \in Runs : ~overtaken[r] => Held(r) \cap embargo = {}
    /\ metrics \cap embargo \subseteq uploaded

\* A finished run's file shows its rows, line by line, and its full text has the
\* bodies of those lines: rendering it again changes nothing (store_result).  It
\* fails only for the pages that the filters dropped, and where somebody wrote
\* while somebody else was between reading and writing.
FileShowsTheRows ==
    \A r \in Runs :
        complete[r] /\ ~crossed[r]
            => /\ listed[r] = Rendered(rows[r], ticked[r] \ dropped[r])
               /\ full[r].kept => full[r].urls = Shown(listed[r])

\* What a chat edit leaves behind is the file and the pages as they stood before
\* it ("so undo is real", DocumentRevision), unless its turn was crossed.
RevisionHoldsWhatStood ==
    [][\A r \in Runs :
         Len(revisions'[r]) > Len(revisions[r]) /\ ~crossed'[r]
            => revisions'[r][Len(revisions'[r])] =
                 [listed |-> listed[r], full |-> full[r], pages |-> Shown(rows[r])]]_vars

\* No edit is free: a turn that changed a file is on the ledger, and the ledger
\* shows no more calls than were made.
EditsArePaidFor ==
    \A r \in Runs : Len(revisions[r]) <= ledger[r] /\ ledger[r] <= calls[r]

-----------------------------------------------------------------------------
(* What documents and comments of the program say, and the code does not do. *)

\* "Embargo means never crawled, never stored, and not left in derived artifacts"
\* (docs/CONVENTIONS.md): no run holds an embargoed page.
EmbargoMeansGone == \A r \in Runs : Held(r) \cap embargo = {}

=============================================================================
