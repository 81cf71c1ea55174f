------------------------------ MODULE SitePlan ------------------------------
(***************************************************************************)
(* What a run makes of a site before it fetches a page: the shapes of its  *)
(* addresses, its size, a plan for each shape, the crawl list, and what    *)
(* the embargo and robots.txt take off it (app/scrape/recon.py, sizing.py, *)
(* preflight.py, politeness.py, app/llm/stages.py, client.py and           *)
(* prompts/plan.py, app/core/onboarding.py).                               *)
(*                                                                         *)
(* Abstracted: an address is the sequence of the segments of its path, so  *)
(* the host, the query and a trailing slash do not appear; the regular     *)
(* expressions that give a segment its shape and find the junk are         *)
(* constants; no segment is the beginning of another, so that a path       *)
(* prefix is a prefix of segments.                                         *)
(***************************************************************************)
EXTENDS Integers, Sequences, FiniteSets, SequencesExt

CONSTANTS
    Alphabet,      \* the segments and placeholders, in the order of their text
    Shapes,        \* classify_segment: the placeholder of each segment that has one
    JunkParts,     \* the segments JUNK_PATTERNS finds
    Assets,        \* the last segments with an extension of NON_HTML_EXTENSIONS
    CollapseMin,   \* COLLAPSE_MIN_CHILDREN
    Tiers,         \* TIERS: a sequence of [below, cap], cap 0 for no cap
    Plenty,        \* 50: the count under which a surplus of listed pages is normal
    SampleThreshold, SampleSize,  \* SAMPLE_THRESHOLD, SAMPLE_SIZE
    MaxDelay       \* MAX_DELAY_SECONDS

ASSUME SitePlanAssumption ==
    /\ {CollapseMin, SampleSize, MaxDelay} \subseteq Nat \ {0}
    /\ {Plenty, SampleThreshold} \subseteq Nat
    /\ Tiers \in Seq([below : Nat, cap : Nat]) /\ Tiers # <<>>
    /\ IsFiniteSet(JunkParts) /\ IsFiniteSet(Assets)

-----------------------------------------------------------------------------
(* Helpers. *)

SmallerOf(a, b) == IF a < b THEN a ELSE b
LargerOf(a, b) == IF a > b THEN a ELSE b
Rank(part) == CHOOSE i \in DOMAIN Alphabet : Alphabet[i] = part

Mapped(s, Op(_)) == [i \in DOMAIN s |-> Op(s[i])]

\* The elements of a sequence at some places, and those that pass a test, in order.
KeptAt(s, places) ==
    LET kept[i \in 0..Len(s)] ==
            IF i = 0 THEN <<>>
            ELSE IF i \in places THEN Append(kept[i - 1], s[i]) ELSE kept[i - 1]
    IN  kept[Len(s)]

Kept(s, Test(_)) == KeptAt(s, {i \in DOMAIN s : Test(s[i])})

\* dict.fromkeys: the first of each.
Distinct(s) == KeptAt(s, {i \in DOMAIN s : \A j \in 1..(i - 1) : s[j] # s[i]})

\* list.sort is stable: an element goes in behind those it is not ahead of.
SortedBy(s, ahead) ==
    LET Insert(done, x) ==
            Kept(done, LAMBDA y : <<x, y>> \notin ahead) \o <<x>>
                \o Kept(done, LAMBDA y : <<x, y>> \in ahead)
    IN  FoldLeft(Insert, <<>>, s)

Sorted(s, Ahead(_, _)) ==
    SortedBy(s, {pair \in ToSet(s) \X ToSet(s) : Ahead(pair[1], pair[2])})

\* The order of two paths as text.
TextBefore(a, b) ==
    \E n \in 0..SmallerOf(Len(a), Len(b)) :
        /\ SubSeq(a, 1, n) = SubSeq(b, 1, n)
        /\ \/ n = Len(a) /\ n < Len(b)
           \/ n < Len(a) /\ n < Len(b) /\ Rank(a[n + 1]) < Rank(b[n + 1])

-----------------------------------------------------------------------------
(* Shapes of addresses. *)

Placeholders == {"{date}", "{id}", "{slug}", "{uuid}", "{year}"}
ASSUME ShapesAssumption == \A segment \in DOMAIN Shapes : Shapes[segment] \in Placeholders
Classify(segment) == IF segment \in DOMAIN Shapes THEN Shapes[segment] ELSE "{slug}"

\* The segments seen right under a prefix.
Children(urls, prefix) ==
    {urls[i][Len(prefix) + 1] : i \in {j \in DOMAIN urls :
        Len(urls[j]) > Len(prefix) /\ SubSeq(urls[j], 1, Len(prefix)) = prefix}}

\* A position collapses where its concrete prefix has enough children.
TemplateOf(url, urls) ==
    [i \in DOMAIN url |->
        IF Cardinality(Children(urls, SubSeq(url, 1, i - 1))) >= CollapseMin
        THEN Classify(url[i]) ELSE url[i]]

\* cluster_urls: the templates, the most populous first.
Clusters(urls) ==
    LET of == Mapped(urls, LAMBDA url : TemplateOf(url, urls))
        Count(t) == Len(Kept(of, LAMBDA u : u = t))
        Ahead(t, u) ==
            \/ t.count > u.count
            \/ t.count = u.count /\ TextBefore(t.template, u.template)
    IN  Sorted(Mapped(Distinct(of), LAMBDA t : [template |-> t, count |-> Count(t)]), Ahead)

\* _matches: by shape, not by cluster.
Fits(url, template) ==
    /\ Len(url) = Len(template)
    /\ \A i \in DOMAIN url : template[i] \in Placeholders \/ template[i] = url[i]

-----------------------------------------------------------------------------
(* Size. *)

HttpReasons ==
    [code \in {401, 402, 403, 429} |->
        CASE code = 402 -> "out_of_credits" [] code = 429 -> "rate_limited" [] OTHER -> "auth_failed"]

TaskReasons ==
    [code \in {40100, 40101, 40200, 40201, 40202, 40207, 40209, 40501} |->
        CASE code \in {40100, 40101} -> "auth_failed"
          [] code \in {40200, 40201, 40202} -> "out_of_credits"
          [] code = 40207 -> "not_whitelisted"
          [] code = 40209 -> "rate_limited"
          [] OTHER -> "api_error"]

ReasonIn(table, code) == IF code \in DOMAIN table THEN table[code] ELSE "api_error"
NoCount == -1

\* parse_results_count: the first count of any task, else the first refusal.
ParseCount(tasks) ==
    LET counts == FlattenSeq(Mapped(tasks, LAMBDA task : Kept(task.counts, LAMBDA c : c >= 0)))
        refused == Kept(tasks, LAMBDA task : task.code # 20000)
    IN  IF counts # <<>> THEN [count |-> counts[1], reason |-> "ok"]
        ELSE [count |-> NoCount,
              reason |-> IF refused # <<>> THEN ReasonIn(TaskReasons, refused[1].code)
                         ELSE "no_results"]

\* indexed_page_count: what the search engine's answer comes to.
IndexedCount(answer) ==
    CASE answer.kind = "no credentials" -> [count |-> NoCount, reason |-> "no_credentials"]
      [] answer.kind = "raised" -> [count |-> NoCount, reason |-> "transport_error"]
      [] answer.kind = "refused" ->
            [count |-> NoCount, reason |-> ReasonIn(HttpReasons, answer.code)]
      [] OTHER -> ParseCount(answer.tasks)

CountHtml(urls) ==
    Len(Kept(urls, LAMBDA url : url = <<>> \/ url[Len(url)] \notin Assets))

\* classify: the first tier above the count, else the last.
TierOf(count) ==
    LET above == {i \in DOMAIN Tiers : count < Tiers[i].below}
    IN  IF above = {} THEN Len(Tiers) ELSE CHOOSE i \in above : \A j \in above : i <= j

Assess(urls, indexed) ==
    LET html == CountHtml(urls)
        known == indexed.count # NoCount
        tier == TierOf(LargerOf(html, indexed.count))
    IN  [total |-> Len(urls), html |-> html, tier |-> tier, cap |-> Tiers[tier].cap,
         warnings |-> {w \in {"assets", "orphans", "not kept", "uncounted", "no pages", "huge"} :
            CASE w = "assets" -> html < Len(urls)
              [] w = "orphans" -> known /\ html > 0 /\ indexed.count > 3 * html
              [] w = "not kept" -> known /\ html > 0 /\ html > LargerOf(3 * indexed.count, Plenty)
              [] w = "uncounted" -> ~known
              [] w = "no pages" -> html = 0
              [] w = "huge" -> tier = Len(Tiers)}]

EffectiveCap(size, requested, configured) ==
    IF requested > 0 THEN requested
    ELSE IF size.cap # 0 THEN SmallerOf(size.cap, configured)
    ELSE IF size.html > 0 THEN size.html ELSE configured

-----------------------------------------------------------------------------
(* The plan. *)

Rule(template, action, priority) == [template |-> template, action |-> action, priority |-> priority]

HeuristicRules(templates) ==
    LET RuleOf(found) ==
            LET t == found.template
            IN  IF ToSet(t) \cap JunkParts # {} THEN Rule(t, "exclude", 5)
                ELSE IF found.count > SampleThreshold THEN Rule(t, "sample", 3)
                ELSE Rule(t, "include", SmallerOf(5, LargerOf(1, Len(t))))
    IN  Mapped(templates, RuleOf)

\* LLMClient.structured: nothing, or the object the model sent; every
\* failure of an enabled client is recorded with the run's usage.
Structured(answer) ==
    IF answer.kind = "object" THEN [rules |-> answer.rules, fallbacks |-> 0]
    ELSE [rules |-> <<>>, fallbacks |-> 1]

\* Mutant: the model's rules are the plan.
PlanCrawl_AsSent(answer, templates) ==
    LET rules == Structured(answer).rules
    IN  [rules |-> IF rules = <<>> THEN HeuristicRules(templates) ELSE rules,
         source |-> "llm", fallbacks |-> 0]

\* plan_crawl: what the model did not rule on keeps its heuristic rule.
PlanCrawl(answer, templates) ==
    LET heuristic == HeuristicRules(templates)
        sent == Structured(answer)
        Unruled(rule) == \A i \in DOMAIN sent.rules : sent.rules[i].template # rule.template
    IN  CASE answer.kind = "no key" -> [rules |-> heuristic, source |-> "heuristic", fallbacks |-> 0]
          [] answer.kind # "no key" /\ sent.rules = <<>> ->
                [rules |-> heuristic, source |-> "heuristic", fallbacks |-> 1]
          [] OTHER -> [rules |-> sent.rules \o Kept(heuristic, Unruled),
                       source |-> "llm", fallbacks |-> 0]

\* save_plan: the form sends the templates that are ticked.
Approved(plan, ticked) ==
    [plan EXCEPT !.source = "manual",
                 !.rules = Mapped(@, LAMBDA rule :
                    [rule EXCEPT !.action = IF rule.template \in ticked THEN "include" ELSE "exclude"])]

-----------------------------------------------------------------------------
(* The crawl list. *)

\* _sample: evenly spaced.
Sample(urls, size) ==
    IF Len(urls) <= size THEN urls
    ELSE Mapped([i \in 1..size |-> i - 1], LAMBDA i : urls[(i * Len(urls)) \div size + 1])

\* CrawlPlan.rule_for: the first rule of the template, if it has one that includes.
RulesFor(plan, template) ==
    Kept(plan.rules, LAMBDA rule : rule.template = template)

Weighed(urls, priority) == Mapped(urls, LAMBDA url : [url |-> url, priority |-> priority])

\* The members of each template whose rule includes it, and what a sample of them leaves.
Chosen(urls, plan) ==
    LET templates == Clusters(urls)
        Taken(template) ==
            LET rules == RulesFor(plan, template)
                members == Kept(urls, LAMBDA url : Fits(url, template))
                some == Sample(members, SampleSize)
            IN  IF rules = <<>> THEN [whole |-> <<>>, rest |-> <<>>]
                ELSE CASE rules[1].action = "include" ->
                            [whole |-> Weighed(members, rules[1].priority), rest |-> <<>>]
                       [] rules[1].action = "sample" ->
                            [whole |-> Weighed(some, rules[1].priority),
                             rest |-> Weighed(Kept(members, LAMBDA u : u \notin ToSet(some)),
                                              rules[1].priority)]
                       [] OTHER -> [whole |-> <<>>, rest |-> <<>>]
        taken == Mapped(templates, LAMBDA found : Taken(found.template))
    IN  [whole |-> FlattenSeq(Mapped(taken, LAMBDA of : of.whole)),
         rests |-> Kept(Mapped(taken, LAMBDA of : of.rest), LAMBDA rest : rest # <<>>)]

\* A sample is a floor: what is left of the budget tops the sampled templates up.
ToppedUp(chosen, cap) ==
    LET Top(list, rest) ==
            IF cap > Len(list) THEN list \o Sample(rest, cap - Len(list)) ELSE list
    IN  FoldLeft(Top, chosen.whole, Sorted(chosen.rests, LAMBDA r, q : r[1].priority < q[1].priority))

\* select_urls: by priority, the homepage if no rule took it, inside the budget.
SelectUrls(urls, plan, cap) ==
    LET sorted == Sorted(ToppedUp(Chosen(urls, plan), cap), LAMBDA p, q : p.priority < q.priority)
        ordered == Distinct(Mapped(sorted, LAMBDA pair : pair.url))
        all == IF <<>> \in ToSet(ordered) THEN ordered ELSE <<(<<>>)>> \o ordered
    IN  IF cap > 0 /\ cap < Len(all) THEN SubSeq(all, 1, cap) ELSE all

-----------------------------------------------------------------------------
(* Patterns: a glob is a head, then, if it has a star, anything and a tail. *)

Glob(head, star, tail, end) == [head |-> head, star |-> star, tail |-> tail, end |-> end]

StartsWith(path, prefix) == Len(prefix) <= Len(path) /\ SubSeq(path, 1, Len(prefix)) = prefix
Matches(path, glob) ==  \* fnmatch, of the whole path
    IF ~glob.star THEN path = glob.head
    ELSE /\ StartsWith(path, glob.head)
         /\ \E n \in Len(glob.head)..Len(path) :
                SubSeq(path, n + 1, Len(path)) = glob.tail

\* _match_length: how much of a robots.txt rule matches the path, -1 for none.
MatchLength(path, rule) ==
    LET length == 1 + Len(rule.head) + (IF rule.star THEN 1 + Len(rule.tail) ELSE 0)
        hit == IF rule.end THEN Matches(path, rule)
               ELSE \E n \in 0..Len(path) : Matches(SubSeq(path, 1, n), rule)
    IN  IF hit THEN length ELSE -1

\* path_is_allowed: the longest match wins, and a tie goes to Allow.
Longest(path, rules) ==
    LET lengths == {MatchLength(path, rule) : rule \in rules} \cup {-1}
    IN  CHOOSE n \in lengths : \A m \in lengths : m <= n

\* Mutant: Disallow alone, as the function first was.
PathIsAllowed_NoAllow(path, robots) == Longest(path, robots.disallowed) < 0

PathIsAllowed(path, robots) ==
    LET block == Longest(path, robots.disallowed)
    IN  block < 0 \/ Longest(path, robots.allowed) >= block

\* split_disallowed and split_embargoed: what may be fetched.
SplitDisallowed(urls, robots) == Kept(urls, LAMBDA url : PathIsAllowed(url, robots))
SplitEmbargoed(urls, embargoed) ==
    Kept(urls, LAMBDA url : \A glob \in embargoed : ~Matches(url, glob))

\* Politeness.from_robots: the seconds between two requests.
Delay(robots) == IF robots.delay <= 0 THEN 0 ELSE SmallerOf(robots.delay, MaxDelay)

\* generate_task: the embargo before robots.txt, both after the budget.
CrawlListOf(urls, plan, cap, embargoed, robots) ==
    SplitDisallowed(SplitEmbargoed(SelectUrls(urls, plan, cap), embargoed), robots)

=============================================================================
