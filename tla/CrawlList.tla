------------------------------ MODULE CrawlList -----------------------------
(***************************************************************************)
(* From a site to the list of pages a run fetches: the walk of its         *)
(* sitemaps, the plan, a person's review of it, and the second walk, of    *)
(* the site as it is by then, that the approved plan is applied to         *)
(* (app/scrape/discover.py, preflight.py, app/jobs/tasks.py,               *)
(* app/main.py).  The statuses and the jobs are RunLifecycle's.            *)
(*                                                                         *)
(* A site is a record of the lines of its robots.txt and of its sitemaps,  *)
(* each of which is an index or not and has a list of locations.           *)
(***************************************************************************)
EXTENDS SitePlan

CONSTANTS
    Sites,                        \* the forms the site may take
    Conventional,                 \* the sitemaps every site is tried for
    Numbered, NameSize,           \* the sitemaps named by a number; how long each name is
    Batch, MaxSitemaps, MaxDepth, \* 10, MAX_SITEMAPS, MAX_SITEMAP_DEPTH
    Answers,                      \* what the search engine may answer
    Replies(_),                   \* what the model may reply, of some templates
    Ceilings,                     \* the page caps a person may ask for, 0 for none
    Configured,                   \* crawl_default_max_pages
    Embargoes                     \* the embargoes of the site's brief

\* What a site serves: its robots.txt names sitemaps, patterns and a delay,
\* an index names sitemaps, the others pages.
IsSequence(s) == s \in Seq(ToSet(s))
GlobOk(glob) == IsSequence(glob.head) /\ IsSequence(glob.tail)
LineOk(line, maps) ==
    /\ line.field = "sitemap" => line.value \in DOMAIN maps
    /\ line.field \in {"disallow", "allow"} => GlobOk(line.value)
    /\ line.field = "crawl-delay" => line.value \in Int
MapOk(map, maps) ==
    /\ IsSequence(map.locs)
    /\ IF map.index THEN ToSet(map.locs) \subseteq DOMAIN maps
       ELSE \A url \in ToSet(map.locs) : IsSequence(url)
SiteOk(at) ==
    /\ IsSequence(at.robots) /\ \A line \in ToSet(at.robots) : LineOk(line, at.maps)
    /\ ToSet(Conventional) \subseteq DOMAIN at.maps
    /\ \A map \in DOMAIN at.maps :
          MapOk(at.maps[map], at.maps) /\ map \in ToSet(Alphabet) /\ NameSize[map] \in Nat

ASSUME CrawlListAssumption ==
    /\ {Batch, MaxSitemaps, Configured} \subseteq Nat \ {0}
    /\ MaxDepth \in Nat /\ Ceilings \subseteq Nat
    /\ IsSequence(Conventional) /\ IsSequence(Alphabet)
    /\ \A at \in Sites : SiteOk(at)

VARIABLES
    site,      \* the site as it stands
    stage,     \* how far the run is
    walk,      \* the walk in progress
    planned,   \* the addresses the plan was made of
    plan,      \* runs.plan
    cap,       \* runs.max_pages
    embargoed, \* the brief's embargoed patterns
    fetched,   \* the addresses handed to the fetcher, and its delay
    lost       \* history: the sitemaps of this walk that did not answer

vars == <<site, stage, walk, planned, plan, cap, embargoed, fetched, lost>>

-----------------------------------------------------------------------------
(* The walk. *)

\* parse_robots: the rules under the lines that name the user agent `*`.
ParseRobots(lines) ==
    LET Agents(i) == {j \in 1..(i - 1) : lines[j].field = "user-agent"}
        InStar(i) == /\ Agents(i) # {}
                     /\ lines[CHOOSE j \in Agents(i) : \A k \in Agents(i) : k <= j].value = "*"
        Values(field) == {lines[i].value : i \in {j \in DOMAIN lines : lines[j].field = field /\ InStar(j)}}
        delays == {i \in DOMAIN lines : lines[i].field = "crawl-delay" /\ InStar(i)}
    IN  [sitemaps |-> Mapped(Kept(lines, LAMBDA line : line.field = "sitemap"),
                             LAMBDA line : line.value),
         disallowed |-> Values("disallow"), allowed |-> Values("allow"),
         delay |-> IF delays = {} THEN 0
                   ELSE lines[CHOOSE i \in delays : \A j \in delays : j <= i].value]

\* parse_sitemap: an index lists sitemaps and no page.
PagesOf(map) == IF map.index THEN <<>> ELSE map.locs
NestedIn(map) == IF map.index THEN map.locs ELSE <<>>

\* sitemap_candidates: those robots.txt names, then the conventional ones.
Candidates(robots) ==
    robots.sitemaps \o Kept(Conventional, LAMBDA map : map \notin ToSet(robots.sitemaps))

NewWalk(robots) ==
    [robots |-> robots, queue |-> Mapped(Candidates(robots), LAMBDA map : [map |-> map, depth |-> 0]),
     queued |-> ToSet(Candidates(robots)), seen |-> {}, listed |-> <<>>]

\* fetch_robots: a robots.txt that does not answer is one that says nothing.
FetchRobots(at) == {ParseRobots(at.robots), ParseRobots(<<>>)}

Walking == walk.queue # <<>> /\ Cardinality(walk.seen) < MaxSitemaps

\* Mutant: the limit is one level too far.
Absorbed_Deeper(w, entry) ==
    LET map == site.maps[entry.map]
        fresh == IF entry.depth > MaxDepth THEN <<>>
                 ELSE Kept(NestedIn(map), LAMBDA child : child \notin w.queued)
    IN  [w EXCEPT !.listed = @ \o Mapped(PagesOf(map), LAMBDA url : [url |-> url, by |-> entry.map]),
                  !.queued = @ \cup ToSet(fresh),
                  !.queue = @ \o Mapped(fresh, LAMBDA child : [map |-> child, depth |-> entry.depth + 1])]

\* One sitemap's answer: its pages are listed under it, and the sitemaps it
\* names join the queue unless they ever were on it.
Absorbed(w, entry) ==
    LET map == site.maps[entry.map]
        fresh == IF entry.depth >= MaxDepth THEN <<>>
                 ELSE Kept(NestedIn(map), LAMBDA child : child \notin w.queued)
    IN  [w EXCEPT !.listed = @ \o Mapped(PagesOf(map), LAMBDA url : [url |-> url, by |-> entry.map]),
                  !.queued = @ \cup ToSet(fresh),
                  !.queue = @ \o Mapped(fresh, LAMBDA child : [map |-> child, depth |-> entry.depth + 1])]

\* One turn of collect_sitemap_urls: the requests of a batch go out together,
\* and those that fail, or answer with anything but 200, are passed over.
FetchBatch ==
    LET front == SubSeq(walk.queue, 1, SmallerOf(Batch, Len(walk.queue)))
        batch == Kept(front, LAMBDA entry : entry.map \notin walk.seen)
        taken == [walk EXCEPT !.queue = SubSeq(@, Len(front) + 1, Len(@)),
                              !.seen = @ \cup {batch[i].map : i \in DOMAIN batch}]
    IN  \E failed \in SUBSET {batch[i].map : i \in DOMAIN batch} :
            /\ walk' = FoldLeft(Absorbed, taken,
                                Kept(batch, LAMBDA entry : entry.map \notin failed))
            /\ lost' = lost \cup failed

\* most_specific_sitemap: a name before a number, then the longest name, then the last as text.
MostSpecific(maps) ==
    LET Below(a, b) ==
            \/ a \in Numbered /\ b \notin Numbered
            \/ /\ (a \in Numbered) = (b \in Numbered)
               /\ \/ NameSize[a] < NameSize[b]
                  \/ NameSize[a] = NameSize[b] /\ Rank(a) < Rank(b)
    IN  CHOOSE a \in maps : \A b \in maps \ {a} : Below(b, a)

\* SiteRecon: the addresses in the order they were first seen, and where each is from.
Urls(w) == Distinct(Mapped(w.listed, LAMBDA pair : pair.url))
ListedBy(w, url) == {w.listed[i].by : i \in {j \in DOMAIN w.listed : w.listed[j].url = url}}
Source(w, url) == MostSpecific(ListedBy(w, url))

-----------------------------------------------------------------------------
(* The run. *)

\* schema: what a strict response format lets through of the rules in a reply.
RuleOk(rule) ==
    /\ rule = Rule(rule.template, rule.action, rule.priority)
    /\ rule.action \in {"include", "exclude", "sample"} /\ rule.priority \in 1..5
Conforms(reply) ==
    reply.kind = "object" =>
        IsSequence(reply.rules) /\ \A rule \in ToSet(reply.rules) : RuleOk(rule)

NoPlan == [rules |-> <<>>, source |-> "", fallbacks |-> 0]

Init ==
    /\ site \in Sites /\ embargoed \in Embargoes
    /\ stage = "preflight" /\ lost = {}
    /\ \E robots \in FetchRobots(site) : walk = NewWalk(robots)
    /\ planned = <<>> /\ plan = NoPlan /\ cap = 0 /\ fetched = [urls |-> <<>>, delay |-> 0]

Walks ==
    /\ stage \in {"preflight", "crawling"} /\ Walking
    /\ FetchBatch
    /\ UNCHANGED <<site, stage, planned, plan, cap, embargoed, fetched>>

\* The end of run_preflight and of the plan stage.
Preflight ==
    /\ stage = "preflight" /\ ~Walking
    /\ \E answer \in Answers, requested \in Ceilings :
        cap' = EffectiveCap(Assess(Urls(walk), IndexedCount(answer)), requested, Configured)
    /\ \E reply \in {r \in Replies(Clusters(Urls(walk))) : Conforms(r)} :
        plan' = PlanCrawl(reply, Clusters(Urls(walk)))
    /\ planned' = Urls(walk) /\ stage' = "review"
    /\ UNCHANGED <<site, walk, embargoed, fetched, lost>>

\* save_plan.  By the time the job runs, the site may have been rebuilt.
Approve ==
    /\ stage = "review"
    /\ \E ticked \in SUBSET {plan.rules[i].template : i \in DOMAIN plan.rules} :
        plan' = Approved(plan, ticked)
    /\ \E ceiling \in Ceilings : cap' = IF ceiling > 0 THEN ceiling ELSE cap
    /\ site' \in Sites
    /\ stage' = "crawling" /\ lost' = {}
    /\ \E robots \in FetchRobots(site') : walk' = NewWalk(robots)
    /\ UNCHANGED <<planned, embargoed, fetched>>

\* generate_task, up to the fetcher.
Select ==
    /\ stage = "crawling" /\ ~Walking
    /\ fetched' = [urls |-> CrawlListOf(Urls(walk), plan, cap, embargoed, walk.robots),
                   delay |-> Delay(walk.robots)]
    /\ stage' = "fetching"
    /\ UNCHANGED <<site, walk, planned, plan, cap, embargoed, lost>>

Over == stage = "fetching" /\ UNCHANGED vars

Next == Walks \/ Preflight \/ Approve \/ Select \/ Over
Spec == Init /\ [][Next]_vars

-----------------------------------------------------------------------------
(* Properties. *)

\* The sitemaps up to MaxDepth links from the seeds, through those that answered.
Within ==
    LET Reached[n \in 0..MaxDepth] ==
            IF n = 0 THEN ToSet(Candidates(walk.robots))
            ELSE Reached[n - 1] \cup
                    UNION {ToSet(NestedIn(site.maps[map])) : map \in Reached[n - 1] \ lost}
    IN  Reached[MaxDepth]

\* A walk that ends below its ceiling has asked for every sitemap within the
\* depth limit, whatever failed and however the batches fell, it knows every
\* page those that answered list, and attributes each to one that lists it;
\* one that meets the ceiling passes it by less than a batch.
WalkIsWhole ==
    /\ Cardinality(walk.seen) < MaxSitemaps + Batch
    /\ ~Walking /\ Cardinality(walk.seen) < MaxSitemaps =>
        /\ walk.seen = Within
        /\ ToSet(Urls(walk)) = UNION {ToSet(PagesOf(site.maps[map])) : map \in walk.seen \ lost}
        /\ \A url \in ToSet(Urls(walk)) : url \in ToSet(PagesOf(site.maps[Source(walk, url)]))

\* What is fetched is inside the budget, each page once, none under embargo,
\* and none that a Disallow of the robots.txt the run read covers with no
\* Allow as long; and nothing else was taken off the list than those.
FetchesOnlyWhatItMay ==
    LET selected == SelectUrls(Urls(walk), plan, cap)
        Withheld(url) == \E glob \in embargoed : Matches(url, glob)
        Barred(url) ==
            \E rule \in walk.robots.disallowed :
                /\ MatchLength(url, rule) >= 0
                /\ \A other \in walk.robots.allowed : MatchLength(url, other) < MatchLength(url, rule)
    IN  stage = "fetching" =>
            /\ Len(fetched.urls) <= cap /\ IsInjective(fetched.urls)
            /\ ToSet(fetched.urls) = {url \in ToSet(selected) : ~Withheld(url) /\ ~Barred(url)}

\* Where the crawl finds the addresses the plan was made of, an address is
\* left out only because the person at the review left its template unticked
\* or because the budget is full of pages that come before it: a template the
\* model did not rule on is not lost.  What an address weighs is the priority
\* of the first rule of a template it fits, of those the site has.
OnlyTheReviewLeavesPagesOut ==
    LET list == SelectUrls(Urls(walk), plan, cap)
        templates == {TemplateOf(url, planned) : url \in ToSet(planned)}
        Unticked(url) ==
            \E i \in DOMAIN plan.rules : /\ plan.rules[i].template = TemplateOf(url, planned)
                                         /\ plan.rules[i].action = "exclude"
        Taking(url) ==
            {template \in templates :
                /\ Fits(url, template) /\ RulesFor(plan, template) # <<>>
                /\ RulesFor(plan, template)[1].action = "include"}
        Priorities(url) == {RulesFor(plan, template)[1].priority : template \in Taking(url)}
        Before(u, v) == \A n \in Priorities(v) : \E m \in Priorities(u) : m <= n
    IN  stage = "fetching" /\ ToSet(Urls(walk)) = ToSet(planned) =>
            \A url \in ToSet(planned) \ ToSet(list) :
                \/ Unticked(url)
                \/ Len(list) = cap /\ \A u \in ToSet(list) \ {<<>>} : Before(u, url)

=============================================================================
