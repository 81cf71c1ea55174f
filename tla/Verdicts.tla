------------------------------ MODULE Verdicts ------------------------------
(***************************************************************************)
(* What search figures and an operator's declarations make of each         *)
(* sitemap group: the import of a Search Console export, the join with the *)
(* site's addresses, the verdict and the rules that beat it, the intent,   *)
(* and the drift of a site's shape (app/core/metrics.py, planning.py,      *)
(* onboarding.py, app/metrics/gsc_csv.py, app/llm/stages.py).              *)
(*                                                                         *)
(* An address is a record of its path, of the way it is spelled and of its *)
(* query; a group is named by the path of its sitemap, <<>> where a page   *)
(* is in none.  Abstracted: rates, positions, medians and rationales; a    *)
(* pattern is a glob over paths.                                           *)
(***************************************************************************)
EXTENDS SitePlan

CONSTANTS
    Tracking,         \* TRACKING_PARAMS
    WrongDimensions,  \* WRONG_DIMENSION: the exports that are not of pages
    Limits,           \* Thresholds, and the bounds of an intent and of drift
    Decile,           \* 10: the part of a group that is its head
    ExemplarLimit,    \* how many exemplars a group keeps
    UtilityNames      \* the names that make a sitemap a utility one

ASSUME VerdictsAssumption ==
    /\ Decile \in Nat \ {0} /\ ExemplarLimit \in Nat
    /\ \A name \in DOMAIN Limits : Limits[name] \in Nat
    /\ {"floor", "fold"} \subseteq DOMAIN Limits
    /\ Limits.exclude <= Limits.include

Unsourced == <<>>
Unknown == -1
OrZero(n) == IF n = Unknown THEN 0 ELSE n
Total(s) == FoldLeft(LAMBDA sum, n : sum + n, 0, s)

-----------------------------------------------------------------------------
(* Figures, and the pages they are of. *)

\* canonical_metric_url: the scheme, www., the spelling of the path, the
\* order and the repetition of parameters go, and the tracking parameters.
CanonicalUrl(url) == [path |-> url.path, query |-> ToSet(url.query) \ Tracking]

HasSearchData(row) == row.clicks # Unknown \/ row.impressions # Unknown

\* merge_metrics: one row for a page; two unknowns add up to none.
MergeMetrics(rows) ==
    LET Add(done, row) ==
            LET key == CanonicalUrl(row.url)
                same == {r \in done : r.url = key}
            IN  (done \ same) \cup
                  IF same = {} THEN {[row EXCEPT !.url = key]}
                  ELSE {[r EXCEPT !.clicks = OrZero(@) + OrZero(row.clicks),
                                  !.impressions = OrZero(@) + OrZero(row.impressions)] : r \in same}
    IN  FoldLeft(Add, {}, rows)

\* A cell of a column the file lacks, or one no number can be read from.
Cell(file, row, column) == IF column \in file.columns THEN row[column] ELSE Unknown

Usable(file) == Kept(file.rows, LAMBDA row : row.absolute)

\* parse_gsc_export: what it refuses, and the rows it returns.
Parses(file) ==
    /\ file.hasPages
    /\ file.dimension \notin WrongDimensions
    /\ "url" \in file.columns
    /\ {"clicks", "impressions"} \cap file.columns # {}
    /\ Usable(file) # <<>>

ParseGscExport(file) ==
    MergeMetrics(Mapped(Usable(file), LAMBDA row :
        [url |-> row.url, clicks |-> Cell(file, row, "clicks"),
         impressions |-> Cell(file, row, "impressions")]))

\* join_metrics, and JoinReport.looks_broken.
Clicks(rows) == MapThenSumSet(LAMBDA row : OrZero(row.clicks), rows)

JoinMetrics(urls, metrics) ==
    LET known == {CanonicalUrl(url) : url \in urls}
        orphans == {row \in metrics : row.url \notin known}
    IN  [rows |-> Cardinality(metrics), orphans |-> orphans,
         broken |-> \/ 10 * Cardinality(orphans) > Cardinality(metrics)
                    \/ 10 * Clicks(orphans) > Clicks(metrics)]

-----------------------------------------------------------------------------
(* What the operator declared. *)

\* matches_any: the first pattern that matches, as a sequence of at most one.
First(s) == SubSeq(s, 1, SmallerOf(1, Len(s)))
MatchesAny(path, patterns) == First(Kept(patterns, LAMBDA pattern : Matches(path, pattern)))

\* The pattern that matches the group's name, or else one of its addresses.
Declared(group, patterns) ==
    First(MatchesAny(group.key, patterns)
            \o FlattenSeq(Mapped(group.urls, LAMBDA url : MatchesAny(url.path, patterns))))

\* SiteBrief.from_dict of nothing, and brief_from_answers.
NoBrief == [valuable |-> <<>>, noise |-> <<>>, mustAppear |-> <<>>, embargoed |-> <<>>,
            shape |-> <<>>]

BriefFromAnswers(answers, shape) ==
    [valuable |-> Distinct(answers.valuable), noise |-> Distinct(answers.noise),
     mustAppear |-> Distinct(answers.mustAppear), embargoed |-> Distinct(answers.embargoed),
     shape |-> shape]

-----------------------------------------------------------------------------
(* The verdict. *)

\* _head_share: what the top tenth of the earners takes of how much, 0 of 0
\* where there are too few of them to say.
HeadShare(clicks) ==
    LET earners == Sorted(Kept(clicks, LAMBDA n : n > 0), LAMBDA a, b : a > b)
        cut == LargerOf(1, Len(earners) \div Decile)
    IN  IF earners = <<>> \/ Len(earners) < LargerOf(1, Len(clicks) \div Decile)
        THEN [top |-> 0, of |-> 0]
        ELSE [top |-> Total(SubSeq(earners, 1, cut)), of |-> Total(earners)]

\* The rows of the group's addresses, one for each address.
Measured(urls, metrics) ==
    LET RowOf(url) == SetToSeq({row \in metrics : row.url = CanonicalUrl(url) /\ HasSearchData(row)})
    IN  FlattenSeq(Mapped(urls, RowOf))

Summary(group, metrics) ==
    LET known == Measured(group.urls, metrics)
        clicks == Mapped(known, LAMBDA row : OrZero(row.clicks))
        best == Sorted(known, LAMBDA a, b : OrZero(a.clicks) > OrZero(b.clicks))
        top == SubSeq(best, 1, SmallerOf(ExemplarLimit, Len(best)))
    IN  [size |-> Len(group.urls), measured |-> Len(known), clicks |-> Total(clicks),
         earning |-> Len(Kept(clicks, LAMBDA n : n > 0)),
         impressions |-> Total(Mapped(known, LAMBDA row : OrZero(row.impressions))),
         share |-> HeadShare(clicks),
         exemplars |-> Mapped(Kept(top, LAMBDA row : OrZero(row.clicks) >= Limits.exemplar),
                              LAMBDA row : row.url),
         material |-> /\ Total(clicks) >= Limits.promote
                      /\ \E i \in DOMAIN clicks : clicks[i] >= Limits.exemplar]

Covers(s, percent) == 100 * s.earning >= percent * s.size
Confidence(s) == IF 100 * s.measured >= 80 * s.size THEN "high"
                 ELSE IF 100 * s.measured >= 40 * s.size THEN "medium" ELSE "low"

\* summarise_group, before the rules that beat the arithmetic.
ByTheNumbers(s) ==
    LET shaped == s.share.of > 0
        concentrated == shaped /\ 100 * s.share.top >= Limits.concentration * s.share.of
        Say(verdict) == [verdict |-> verdict, confidence |-> Confidence(s),
                         exemplars |-> s.exemplars, declared |-> <<>>]
    IN  IF Covers(s, Limits.include) THEN Say("include_group")
        ELSE IF concentrated /\ s.material THEN Say("promote_exemplars")
        ELSE IF ~shaped /\ s.material THEN [Say("review") EXCEPT !.confidence = "low"]
        ELSE IF ~Covers(s, Limits.exclude) /\ s.size > Limits.group THEN Say("exclude")
        ELSE Say("review")

\* _apply_brief: a floor, and a ceiling.
ApplyBrief(said, group, brief) ==
    LET floor == Declared(group, brief.valuable)
        ceiling == Declared(group, brief.noise)
        Held(pattern) == [said EXCEPT !.declared = pattern,
                            !.verdict = IF said.exemplars = <<>> THEN "review" ELSE "promote_exemplars"]
    IN  IF said.verdict = "exclude" /\ floor # <<>> THEN Held(floor)
        ELSE IF said.verdict = "include_group" /\ ceiling # <<>> THEN Held(ceiling)
        ELSE said

\* Impressions at scale that nobody picks, and no page worth keeping.
Faceted(s, said) ==
    /\ said.exemplars = <<>> /\ said.verdict # "exclude"
    /\ s.impressions >= Limits.impressions
    /\ 1000 * s.clicks < Limits.perMille * s.impressions
    /\ s.size > Limits.group

\* Excluded or not, whatever the numbers: identity pages, facets, thin evidence.
Overridden(said, s, identity) ==
    LET excluded == said.verdict = "exclude"
    IN  [said EXCEPT !.verdict =
            IF identity THEN IF excluded THEN "include_group" ELSE @
            ELSE IF Faceted(s, said) THEN "exclude"
            ELSE IF excluded /\ said.confidence = "low" THEN "review" ELSE @]

Identity(group, brief) ==
    \E i \in DOMAIN group.urls : MatchesAny(group.urls[i].path, brief.mustAppear) # <<>>

\* A bug to show what the property needs: a page that must appear is the last word.
ApplyOverrides_Final(said, s, group, brief) ==
    LET embargo == Declared(group, brief.embargoed)
        identity == Identity(group, brief)
    IN  IF embargo # <<>> THEN [said EXCEPT !.verdict = "exclude", !.declared = embargo]
        ELSE IF identity THEN Overridden(said, s, identity)
        ELSE ApplyBrief(Overridden(said, s, identity), group, brief)

\* _apply_overrides: the embargo is absolute; the brief comes last.
ApplyOverrides(said, s, group, brief) ==
    LET embargo == Declared(group, brief.embargoed)
    IN  IF embargo # <<>> THEN [said EXCEPT !.verdict = "exclude", !.declared = embargo]
        ELSE ApplyBrief(Overridden(said, s, Identity(group, brief)), group, brief)

Unjudged == [verdict |-> "review", confidence |-> "low", exemplars |-> <<>>, declared |-> <<>>]

SummariseGroup(group, metrics, brief) ==
    LET s == Summary(group, metrics)
    IN  IF s.measured = 0 THEN Unjudged
        ELSE ApplyOverrides(ByTheNumbers(s), s, group, brief)

-----------------------------------------------------------------------------
(* The planning table. *)

\* A site is a sequence of what it lists: an address, the sitemap it is put
\* down to and how many list it.
Sources(site) == Distinct(Mapped(site, LAMBDA entry : entry.by))

GroupOf(site, key) ==
    LET members == Kept(site, LAMBDA entry : entry.by = key)
    IN  [key |-> key, urls |-> Mapped(members, LAMBDA entry : entry.url),
         several |-> Len(Kept(members, LAMBDA entry : entry.listed > 1))]

Groups(site) == Mapped(Sources(site), LAMBDA key : GroupOf(site, key))

\* _heuristic_intents: from the shape alone.
HeuristicIntent(row) ==
    IF ToSet(row.key) \cap UtilityNames # {} THEN "utility"
    ELSE IF /\ row.size >= Limits.faceted
            /\ row.size >= Limits.perTemplate * LargerOf(1, row.diversity) THEN "faceted"
    ELSE IF row.size <= Limits.hub /\ row.diversity <= Limits.shapes THEN "hub"
    ELSE IF row.diversity > Limits.shapes THEN "editorial" ELSE "unknown"

\* classify_groups: what the model said of a group, or else its shape.
Intent(row, reply) == IF row.key \in DOMAIN reply THEN reply[row.key] ELSE HeuristicIntent(row)

\* build_planning_table, with the intents and without.
Diversity(urls) == Len(Clusters(Mapped(urls, LAMBDA url : url.path)))

Planned(group, metrics, brief, reply) ==
    LET row == [key |-> group.key, size |-> Len(group.urls), several |-> group.several,
                diversity |-> Diversity(group.urls), sample |-> Sample(group.urls, SampleSize),
                judged |-> IF group.key = Unsourced THEN Unjudged
                           ELSE SummariseGroup(group, metrics, brief)]
    IN  [key |-> row.key, size |-> row.size, several |-> row.several, sample |-> row.sample,
         judged |-> row.judged, intent |-> Intent(row, reply)]

PlanningTable(site, metrics, brief, reply) ==
    {Planned(group, metrics, brief, reply) : group \in ToSet(Groups(site))}

-----------------------------------------------------------------------------
(* Drift. *)

\* site_shape of recon.sitemap_groups: of two sitemaps of one name, the one
\* with the fewer addresses.
SiteShape(site) ==
    LET keys == {site[i].by : i \in DOMAIN site} \ {Unsourced}
        Name(key) == key[Len(key)]
        Size(key) == Cardinality({i \in DOMAIN site : site[i].by = key})
    IN  [name \in {Name(key) : key \in keys} |->
            Min({Size(key) : key \in {k \in keys : Name(k) = name}})]

\* A bug to show what the property needs: growth in percent, as it first was.
Resized_Percent(old, new) == LargerOf(old, new) >= Limits.floor /\ new >= Limits.fold * old

\* fold_change(old, new) >= DRIFT_COUNT_FOLD, of groups that are not small.
Resized(old, new) ==
    /\ LargerOf(old, new) >= Limits.floor
    /\ LargerOf(old, new) >= Limits.fold * SmallerOf(old, new)

\* detect_drift, and Drift.affected.
DetectDrift(previous, current) ==
    IF previous = <<>> THEN {}
    ELSE LET before == DOMAIN previous
             now == DOMAIN current
         IN  (now \ before) \cup (before \ now)
               \cup {name \in before \cap now : Resized(previous[name], current[name])}
=============================================================================
