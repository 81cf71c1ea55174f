----------------------------- MODULE FetchLadder -----------------------------
(***************************************************************************)
(* The crawl of one run: `PageFetcher.fetch_many` (app/scrape/fetch.py)    *)
(* under the delay the site asks for (app/scrape/politeness.py).           *)
(*                                                                         *)
(* Every URL is a task of one event loop, so a step is what runs between   *)
(* two awaits: the sleep to its slot, the wait for a permit, the request.  *)
(* Abstracted: a page is `thin` or `full`, and only its order of magnitude *)
(* in words is kept; a status is `ok`, `blocked` (ESCALATE_STATUSES) or    *)
(* `gone` (any other error).  Extracting text from a page does not raise.  *)
(***************************************************************************)
EXTENDS Naturals, Sequences, FiniteSets

CONSTANTS
    Urls,         \* the pages of the crawl
    MaxHttp,      \* max_http_concurrency
    MaxBrowser,   \* max_browser_concurrency
    Delay,        \* the site's Crawl-delay in ticks, 0 for none
    AllowBrowser, \* allow_browser
    HasFirecrawl, \* a Firecrawl key is configured
    MaxClock      \* bound: time passes beyond it only for a page that sleeps

ASSUME PoolAssumption == MaxHttp \in Nat \ {0} /\ MaxBrowser \in Nat \ {0}
ASSUME DelayAssumption == Delay \in Nat
ASSUME LadderAssumption == AllowBrowser \in BOOLEAN /\ HasFirecrawl \in BOOLEAN
ASSUME UrlsAssumption == IsFiniteSet(Urls)

VARIABLES
    clock,     \* time.monotonic
    nextAt,    \* Politeness._next_at
    slot,      \* the time a page may be requested from
    stage,     \* where the task of a page is
    ladder,    \* the rungs it climbs, decided when it starts
    rung,      \* the one it is on
    result,    \* its FetchResult
    permits,   \* the semaphores
    disabled,  \* firecrawl_disabled_reason is set
    stats,     \* FetchStats: pages recorded by tier, and as failed
    sentAt     \* history: when the first request for a page was sent

vars == <<clock, nextAt, slot, stage, ladder, rung, result, permits, disabled,
          stats, sentAt>>

-----------------------------------------------------------------------------
(* Rungs, and what they can answer. *)

Browsers == {"dynamic", "stealth"}
Tiers == {"http", "firecrawl"} \cup Browsers

\* `_ladder`, as it would be built now.
Ladder ==
    LET tiers == IF AllowBrowser THEN <<"http", "dynamic", "stealth">> ELSE <<"http">>
    IN  IF HasFirecrawl /\ ~disabled THEN Append(tiers, "firecrawl") ELSE tiers

\* The semaphore a rung runs under.
Pool(tier) == IF tier \in Browsers THEN "browser" ELSE "http"

Size == [pool \in {"http", "browser"} |-> IF pool = "http" THEN MaxHttp ELSE MaxBrowser]

Statuses == {"none", "ok", "blocked", "gone"}
Pages == {"none", "thin", "full"}

\* What `_attempt` and `_attempt_firecrawl` return, exceptions included: no
\* status and no page.  A shell is a plain response that only HTTP refuses.
\* Firecrawl's 401 and 402 end the ladder; any page it sends is a page.
Answers(tier) ==
    LET Answer(statuses, pages, ends) ==
            [status : statuses, page : pages, terminal : {ends}]
    IN  Answer({"none"}, {"none"}, FALSE)
        \cup CASE tier = "http" ->
                    Answer({"gone"}, {"none"}, TRUE)
                    \cup Answer({"ok", "blocked"}, Pages, FALSE)
               [] tier \in Browsers ->
                    Answer({"gone"}, {"none"}, TRUE)
                    \cup Answer({"ok", "blocked"}, {"thin", "full"}, FALSE)
               [] tier = "firecrawl" ->
                    Answer({"none"}, {"none"}, TRUE)
                    \cup Answer({"ok", "blocked", "gone"}, Pages, FALSE)

\* `_should_escalate`
ShouldEscalate(attempt) == attempt.status = "blocked" \/ attempt.page # "full"

\* word_count: a thin page has well below JS_VISIBLE_SHARE of a full one.
Words(page) == CASE page = "none" -> 0 [] page = "thin" -> 1 [] page = "full" -> 3

NoResult == [page |-> "none", status |-> "none", tier |-> "none",
             http |-> "untried", raw |-> 0, rendered |-> 0]

Ok(r) == r.page = "full"

NeedsJavascript(r) == r.rendered # 0 /\ r.raw * 10 < r.rendered * 6

\* One turn of the loop in `fetch`: what an attempt leaves on the result.
Record(r, tier, attempt) ==
    [page |-> IF attempt.page # "none" THEN attempt.page ELSE r.page,
     status |-> IF attempt.status # "none" THEN attempt.status ELSE r.status,
     tier |-> tier,
     http |-> IF tier = "http" THEN attempt.status ELSE r.http,
     raw |-> IF tier = "http" THEN Words(attempt.page) ELSE r.raw,
     rendered |-> IF tier \in Browsers /\ Words(attempt.page) > r.rendered
                    THEN Words(attempt.page) ELSE r.rendered]

-----------------------------------------------------------------------------

Init ==
    /\ clock = 0 /\ nextAt = 0
    /\ slot = [u \in Urls |-> 0]
    /\ stage = [u \in Urls |-> "new"]
    /\ ladder = [u \in Urls |-> <<>>]
    /\ rung = [u \in Urls |-> 1]
    /\ result = [u \in Urls |-> NoResult]
    /\ permits = Size
    /\ disabled = FALSE
    /\ stats = [tier \in Tiers \cup {"failed"} |-> 0]
    /\ sentAt = [u \in Urls |-> 0]

Tier(u) == ladder[u][rung[u]]

Go(u, where) == stage' = [stage EXCEPT ![u] = where]

\* Mutant: the next slot is counted from the one before, however late it is taken.
ClaimSlot_FromTheLast(u) ==
    /\ stage[u] = "new"
    /\ IF Delay = 0 THEN UNCHANGED <<slot, nextAt>>
       ELSE /\ slot' = [slot EXCEPT ![u] = IF nextAt > clock THEN nextAt ELSE clock]
            /\ nextAt' = nextAt + Delay
    /\ Go(u, "pacing")
    /\ UNCHANGED <<clock, ladder, rung, result, permits, disabled, stats, sentAt>>

\* `Politeness.wait`, up to its sleep: the slot is claimed under the lock.
ClaimSlot(u) ==
    /\ stage[u] = "new"
    /\ IF Delay = 0 THEN UNCHANGED <<slot, nextAt>>
       ELSE LET mine == IF nextAt > clock THEN nextAt ELSE clock
            IN  /\ slot' = [slot EXCEPT ![u] = mine]
                /\ nextAt' = mine + Delay
    /\ Go(u, "pacing")
    /\ UNCHANGED <<clock, ladder, rung, result, permits, disabled, stats, sentAt>>

\* The sleep is over; the ladder is built, once, for the whole page.
StartLadder(u) ==
    /\ stage[u] = "pacing" /\ slot[u] <= clock
    /\ ladder' = [ladder EXCEPT ![u] = Ladder]
    /\ Go(u, "waiting")
    /\ UNCHANGED <<clock, nextAt, slot, rung, result, permits, disabled, stats, sentAt>>

\* Mutant: a permit is taken without waiting for one.
Acquire_NoWait(u) ==
    /\ stage[u] = "waiting"
    /\ permits' = [permits EXCEPT ![Pool(Tier(u))] = @ - 1]
    /\ sentAt' = IF rung[u] = 1 THEN [sentAt EXCEPT ![u] = clock] ELSE sentAt
    /\ Go(u, "sent")
    /\ UNCHANGED <<clock, nextAt, slot, ladder, rung, result, disabled, stats>>

\* `async with semaphore`
Acquire(u) ==
    /\ stage[u] = "waiting" /\ permits[Pool(Tier(u))] > 0
    /\ permits' = [permits EXCEPT ![Pool(Tier(u))] = @ - 1]
    /\ sentAt' = IF rung[u] = 1 THEN [sentAt EXCEPT ![u] = clock] ELSE sentAt
    /\ Go(u, "sent")
    /\ UNCHANGED <<clock, nextAt, slot, ladder, rung, result, disabled, stats>>

\* Mutant: only pages that were read are recorded.
RecordStats_ReadOnly(r) ==
    stats' = IF Ok(r) THEN [stats EXCEPT ![r.tier] = @ + 1] ELSE stats

\* `stats.record`
RecordStats(r) ==
    LET key == IF Ok(r) THEN r.tier ELSE "failed"
    IN  stats' = [stats EXCEPT ![key] = @ + 1]

\* Mutant: a request that raised keeps its permit.
Release_NotAfterError(u, attempt) ==
    permits' = IF attempt.status = "none" THEN permits
               ELSE [permits EXCEPT ![Pool(Tier(u))] = @ + 1]

\* The end of `async with semaphore`, whatever the request came to.
Release(u, attempt) == permits' = [permits EXCEPT ![Pool(Tier(u))] = @ + 1]

\* Mutant: an error that settles the question is escalated like the others.
Ends_TerminalIgnored(u, attempt) ==
    ~ShouldEscalate(attempt) \/ rung[u] = Len(ladder[u])

\* A page goes no further after an answer that is good enough, one that settles
\* the question, or the last rung.
Ends(u, attempt) ==
    attempt.terminal \/ ~ShouldEscalate(attempt) \/ rung[u] = Len(ladder[u])

\* The request is answered: the page is recorded, or climbs.  A key that
\* Firecrawl refuses takes the rung off the ladders built from now on.
Answered(u) ==
    /\ stage[u] = "sent"
    /\ \E attempt \in Answers(Tier(u)) :
         LET r == Record(result[u], Tier(u), attempt) IN
         /\ Release(u, attempt)
         /\ result' = [result EXCEPT ![u] = r]
         /\ disabled' = (disabled \/ (attempt.terminal /\ Tier(u) = "firecrawl"))
         /\ \/ /\ Ends(u, attempt)
               /\ Go(u, "done") /\ RecordStats(r)
               /\ UNCHANGED rung
            \/ /\ ~Ends(u, attempt)
               /\ Go(u, "waiting") /\ rung' = [rung EXCEPT ![u] = @ + 1]
               /\ UNCHANGED stats
    /\ UNCHANGED <<clock, nextAt, slot, ladder, sentAt>>

\* Time passes.
Tick ==
    /\ clock < MaxClock \/ \E u \in Urls : slot[u] > clock
    /\ clock' = clock + 1
    /\ UNCHANGED <<nextAt, slot, stage, ladder, rung, result, permits, disabled,
                   stats, sentAt>>

PageStep(u) == ClaimSlot(u) \/ StartLadder(u) \/ Acquire(u) \/ Answered(u)

Next == Tick \/ \E u \in Urls : PageStep(u)

Spec == Init /\ [][Next]_vars

\* The same with an event loop that is never late: time passes only when every
\* task sleeps, waits for a permit or waits for an answer.
Ready(u) ==
    \/ stage[u] = "new"
    \/ stage[u] = "pacing" /\ slot[u] <= clock
    \/ stage[u] = "waiting" /\ permits[Pool(Tier(u))] > 0

PromptSpec == Init /\ [][Next /\ (clock' # clock => \A u \in Urls : ~Ready(u))]_vars

\* Time passes, the event loop runs every task that can run, and every request
\* is answered or times out.
FairSpec == Spec /\ WF_vars(Tick) /\ \A u \in Urls : WF_vars(PageStep(u))

-----------------------------------------------------------------------------
(* Properties. *)

TypeOK ==
    /\ clock \in Nat /\ nextAt \in Nat
    /\ slot \in [Urls -> Nat]
    /\ stage \in [Urls -> {"new", "pacing", "waiting", "sent", "done"}]
    /\ ladder \in [Urls -> Seq(Tiers)]
    /\ rung \in [Urls -> Nat \ {0}]
    /\ result \in [Urls -> [page : Pages, status : Statuses,
                            tier : Tiers \cup {"none"},
                            http : Statuses \cup {"untried"},
                            raw : Nat, rendered : Nat]]
    /\ permits \in [{"http", "browser"} -> Nat]
    /\ disabled \in BOOLEAN
    /\ stats \in [Tiers \cup {"failed"} -> Nat]
    /\ sentAt \in [Urls -> Nat]

\* The door of the host: whatever order the pages arrive in, the times they are
\* let in are at least the site's delay apart, and no page is requested before
\* its own ("rather than letting each take its own turn", Politeness.wait).
Claimed(u) == stage[u] # "new"
Sent(u) == stage[u] \in {"sent", "done"} \/ rung[u] > 1

SlotsApart ==
    /\ \A u, v \in Urls :
         u # v /\ Claimed(u) /\ Claimed(v)
            => slot[u] + Delay <= slot[v] \/ slot[v] + Delay <= slot[u]
    /\ \A u \in Urls : Sent(u) => slot[u] <= sentAt[u]

\* Every permit is with a request in flight or back in its pool: an exception, an
\* escalation or the paid rung, which runs under the HTTP budget, loses none.
Holders(pool) == {u \in Urls : stage[u] = "sent" /\ Pool(Tier(u)) = pool}

PermitsAreReturned ==
    \A pool \in {"http", "browser"} :
        permits[pool] + Cardinality(Holders(pool)) = Size[pool]

\* No browser and no paid call for a page that is settled: one whose last status
\* says it is not there, or which has been read in full from a rung that was not
\* blocked ("a 404 is not going to become a 200 because we spent 800MB
\* launching Chromium at it").
NothingSpentOnASettledPage ==
    \A u \in Urls :
        stage[u] \in {"waiting", "sent"} /\ rung[u] > 1
            => /\ result[u].status # "gone"
               /\ ~(result[u].status = "ok" /\ Ok(result[u]))

\* The counts shown for the run add up to the pages that are finished, whichever
\* way a page left its ladder.
Sum(tiers) == LET total[n \in 0..Len(tiers)] ==
                    IF n = 0 THEN 0 ELSE total[n - 1] + stats[tiers[n]]
              IN  total[Len(tiers)]

StatsAddUp ==
    Sum(<<"http", "dynamic", "stealth", "firecrawl", "failed">>)
        = Cardinality({u \in Urls : stage[u] = "done"})

\* `fetch_many` returns: every page leaves its ladder, however many compete for
\* the permits.
EveryPageEnds == <>(\A u \in Urls : stage[u] = "done")

-----------------------------------------------------------------------------
(* What comments and tests of the program say, and the code does not do. *)

\* "Eight fetchers must not mean eight simultaneous hits"
\* (test_concurrency_does_not_defeat_the_delay): first requests of two pages
\* reach the host at least the delay apart, on an event loop that is never late.
RequestsApart ==
    \A u, v \in Urls :
        u # v /\ Sent(u) /\ Sent(v)
            => sentAt[u] + Delay <= sentAt[v] \/ sentAt[v] + Delay <= sentAt[u]

\* A page "merely behind a bot wall" (test_firecrawl_is_not_counted_as_a_render)
\* is not reported as needing JavaScript: the raw HTML it is compared with has
\* been served.
JsFindingIsEarned ==
    \A u \in Urls :
        stage[u] = "done" /\ NeedsJavascript(result[u]) => result[u].http = "ok"

=============================================================================
