----------------------------- MODULE GroupTable -----------------------------
(***************************************************************************)
(* One domain's brief, search figures and observed shape, the requests     *)
(* that change them, and the preflight jobs that make a planning table of  *)
(* them (app/main.py, app/jobs/tasks.py, app/db/repo.py).  An upload is    *)
(* one transaction: it deletes what it sees, and a page's row is unique.   *)
(* A job reads the site, the brief and the figures one after the other,    *)
(* and stores what it made of them last.  An admin may delete the client   *)
(* with all of it.  The pages and files an embargo takes are               *)
(* SiteDocuments', the plan itself CrawlList's.                            *)
(***************************************************************************)
EXTENDS Verdicts

CONSTANTS
    Uploads,     \* the requests that upload an export
    Files,       \* what they may upload
    Sites,       \* what the site may list, one form at a time
    Answers,     \* what an operator may answer
    Replies,     \* the intents the model may give
    MaxAnswers,  \* bound: how often the brief is answered or skipped
    MaxRuns      \* bound: how many preflight jobs there are

ASSUME SitesAssumption == \A listing \in Sites : IsFiniteSet(DOMAIN listing)

VARIABLES
    site,      \* what the site lists
    brief,     \* site_configs.brief
    observed,  \* site_configs.observed_shape
    metrics,   \* site_metrics: [url, clicks, impressions, by]
    upload,    \* each upload: its stage, the rows it deletes, those it adds, and, as a
               \* history, the uploads committed before it began
    job,       \* the preflight job: its stage and what it has read
    table,     \* the run's stats: the planning table, the drift and the join
    answered,  \* history: how often the brief was written, and the shape observed then
    made,      \* history: what the table was made of
    superseded \* history: the uploads that a later one, or a deletion, has put an end to

vars == <<site, brief, observed, metrics, upload, job, table, answered, made, superseded>>

-----------------------------------------------------------------------------
Idle == [stage |-> "idle", runs |-> 0]
NotBegun == [stage |-> "to do", gone |-> {}, new |-> {}, after |-> {}]
NoTable == [rows |-> {}, drift |-> {}, join |-> JoinMetrics({}, {})]

Init ==
    /\ site \in Sites
    /\ brief = NoBrief /\ observed = <<>> /\ metrics = {} /\ table = NoTable
    /\ upload = [w \in Uploads |-> NotBegun]
    /\ job = Idle
    /\ answered = [times |-> 0, at |-> <<>>] /\ made = <<>> /\ superseded = {}

SiteMoves ==
    /\ site' \in Sites \ {site}
    /\ UNCHANGED <<brief, observed, metrics, upload, job, table, answered, made, superseded>>

Committed == {w \in Uploads : upload[w].stage = "stored"}

\* upload_metrics, up to replace_site_metrics' DELETE; a file it cannot read
\* is refused and nothing is written.
UploadBegins(w) ==
    /\ upload[w].stage = "to do"
    /\ \E file \in Files :
          /\ Parses(file)
          /\ upload' = [upload EXCEPT ![w] =
                [stage |-> "deleted", gone |-> metrics, after |-> Committed,
                 new |-> {[url |-> row.url, clicks |-> row.clicks, impressions |-> row.impressions,
                           by |-> w] : row \in ParseGscExport(file)}]]
    /\ UNCHANGED <<site, brief, observed, metrics, job, table, answered, made, superseded>>

\* uq_site_metrics_domain_url_source.
Pages(rows) == {row.url : row \in rows}
NoneTwice(rows, new) == Pages(rows) \cap Pages(new) = {}

\* A bug to show what the property needs: a merge, which keeps the rows there are.
Replaced_Merged(rows, gone, new) == rows \cup {row \in new : row.url \notin Pages(rows)}

\* replace_site_metrics.
Replaced(rows, gone, new) == (rows \ gone) \cup new

UploadCommits(w) ==
    LET u == upload[w]
    IN  /\ u.stage = "deleted"
        /\ NoneTwice(metrics \ u.gone, u.new)
        /\ metrics' = Replaced(metrics, u.gone, u.new)
        /\ upload' = [upload EXCEPT ![w].stage = "stored"]
        /\ superseded' = superseded \cup u.after
        /\ UNCHANGED <<site, brief, observed, job, table, answered, made>>

\* Another upload has put in a row of the same page meanwhile: rolled back.
UploadFails(w) ==
    /\ upload[w].stage = "deleted" /\ ~NoneTwice(metrics \ upload[w].gone, upload[w].new)
    /\ upload' = [upload EXCEPT ![w] = [NotBegun EXCEPT !.stage = "failed"]]
    /\ UNCHANGED <<site, brief, observed, metrics, job, table, answered, made, superseded>>

\* save_brief: the answers, the shape last observed, and the purge.
SaveBrief ==
    /\ answered.times < MaxAnswers
    /\ \E answers \in Answers :
          LET new == BriefFromAnswers(answers, observed)
          IN  /\ brief' = new
              /\ metrics' = {row \in metrics : MatchesAny(row.url.path, new.embargoed) = <<>>}
    /\ answered' = [times |-> answered.times + 1, at |-> observed]
    /\ UNCHANGED <<site, observed, upload, job, table, made, superseded>>

\* skip_brief: an empty brief takes the place of any there was.
SkipBrief ==
    /\ answered.times < MaxAnswers
    /\ brief' = NoBrief
    /\ answered' = [times |-> answered.times + 1, at |-> <<>>]
    /\ UNCHANGED <<site, observed, metrics, upload, job, table, made, superseded>>

\* delete_client, which goes ahead once a person has stopped the client's runs:
\* a job that still works for one then finds no run to store in.  What an upload
\* that is under way adds, it does not see.
DeleteClient ==
    /\ brief' = NoBrief /\ observed' = <<>> /\ metrics' = {} /\ table' = NoTable
    /\ job' = [stage |-> "idle", runs |-> job.runs]
    /\ answered' = [times |-> answered.times, at |-> <<>>] /\ made' = <<>>
    /\ superseded' = Committed
    /\ UNCHANGED <<site, upload>>

-----------------------------------------------------------------------------
(* preflight_task. *)

\* A job of another run, which has no table yet.
Recon ==
    /\ job.stage = "idle" /\ job.runs < MaxRuns
    /\ job' = [stage |-> "sited", runs |-> job.runs + 1, site |-> site]
    /\ table' = NoTable /\ made' = <<>>
    /\ UNCHANGED <<site, brief, observed, metrics, upload, answered, superseded>>

LoadBrief ==
    /\ job.stage = "sited"
    /\ job' = [stage |-> "briefed", runs |-> job.runs, site |-> job.site, brief |-> brief,
               baseline |-> answered.at]
    /\ UNCHANGED <<site, brief, observed, metrics, upload, table, answered, made, superseded>>

\* load_site_metrics, of the one source there is.
LoadSiteMetrics ==
    {[url |-> row.url, clicks |-> row.clicks, impressions |-> row.impressions] : row \in metrics}

LoadMetrics ==
    /\ job.stage = "briefed"
    /\ job' = [stage |-> "ready", runs |-> job.runs, site |-> job.site, brief |-> job.brief,
               baseline |-> job.baseline, metrics |-> LoadSiteMetrics]
    /\ UNCHANGED <<site, brief, observed, metrics, upload, table, answered, made, superseded>>

\* The last transaction, after the model has answered; record_observed_shape.
StoreTable ==
    /\ job.stage = "ready"
    /\ LET shape == SiteShape(job.site)
           urls == {job.site[i].url : i \in DOMAIN job.site}
       IN  /\ \E reply \in Replies :
                 table' = [rows |-> PlanningTable(job.site, job.metrics, job.brief, reply),
                           drift |-> DetectDrift(job.brief.shape, shape),
                           join |-> IF job.metrics = {} THEN NoTable.join
                                    ELSE JoinMetrics(urls, job.metrics)]
           /\ observed' = shape
           /\ made' = <<[site |-> job.site, brief |-> job.brief, metrics |-> job.metrics,
                         baseline |-> job.baseline, shape |-> shape]>>
    /\ job' = [stage |-> "idle", runs |-> job.runs]
    /\ UNCHANGED <<site, brief, metrics, upload, answered, superseded>>

\* The site does not answer, or the run is gone by then.
JobFails ==
    /\ job.stage # "idle"
    /\ job' = [stage |-> "idle", runs |-> job.runs]
    /\ UNCHANGED <<site, brief, observed, metrics, upload, table, answered, made, superseded>>

Next ==
    \/ SiteMoves \/ SaveBrief \/ SkipBrief \/ DeleteClient
    \/ Recon \/ LoadBrief \/ LoadMetrics \/ StoreTable \/ JobFails
    \/ \E w \in Uploads : UploadBegins(w) \/ UploadCommits(w) \/ UploadFails(w)

Spec == Init /\ [][Next]_vars

-----------------------------------------------------------------------------
(* Correctness. *)

\* Whatever the figures, a declaration moves a verdict as far as it should
\* and no further: a measured group under embargo is excluded; one that is
\* valuable or holds a page that must appear is not excluded without an
\* embargo; one that is noise is never included whole; and pages in no
\* sitemap are held (app/core/metrics.py:556-694, planning.py:131-137).
BriefBoundsTheVerdict ==
    \A m \in ToSet(made), row \in table.rows :
        LET group == CHOOSE g \in ToSet(Groups(m.site)) : g.key = row.key
            Says(patterns) == Declared(group, patterns) # <<>>
            measured == Summary(group, m.metrics).measured # 0
            verdict == row.judged.verdict
        IN  IF row.key = Unsourced THEN verdict = "review"
            ELSE /\ Says(m.brief.embargoed) /\ measured => verdict = "exclude"
                 /\ (Says(m.brief.valuable) \/ Identity(group, m.brief)) /\ ~Says(m.brief.embargoed)
                        => verdict # "exclude"
                 /\ Says(m.brief.noise) => verdict # "include_group"

\* A run names exactly the groups that moved since the brief was answered:
\* that came, that went, or that are twice what they were or half
\* (app/core/onboarding.py:396-422, 597-623; app/main.py:787-793).
DriftTellsTheMoves ==
    \A m \in ToSet(made) :
        LET was == m.baseline
            is == m.shape
            Moved(name) ==
                \/ name \notin DOMAIN was \/ name \notin DOMAIN is
                \/ /\ was[name] >= Limits.floor \/ is[name] >= Limits.floor
                   /\ was[name] >= Limits.fold * is[name] \/ is[name] >= Limits.fold * was[name]
        IN  table.drift = IF was = <<>> THEN {}
                          ELSE {name \in DOMAIN was \cup DOMAIN is : Moved(name)}

\* Search figures are of one export: nothing is left of an upload that had been
\* stored before another began which is stored by now, nor of one stored before
\* the client was deleted, and no page has figures of two uploads, whatever
\* uploads, briefs and deletions cross (app/db/repo.py:403, 712-747;
\* app/db/models.py:552-556).
OldFiguresAreGone ==
    /\ \A row \in metrics : row.by \notin superseded
    /\ \A one, other \in metrics : one.url = other.url => one.by = other.by

\* "Replace rather than merge: [...] merging would leave the rows they were trying
\* to correct in place" (app/db/repo.py:721): what is stored is of one upload.
ReplacedNotMerged == \A one, other \in metrics : one.by = other.by
=============================================================================
