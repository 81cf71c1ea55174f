--------------------------- MODULE MCClientRecords --------------------------
(* Small instances of GroupTable, SiteStatus and Audits.  The three share   *)
(* no variable, so one moves while the others stand at their start.        *)
(* The site: a section of listings that grows and shrinks, a few guides    *)
(* and a page in no sitemap; figures that include, promote, exclude and    *)
(* hold a group.                                                           *)
EXTENDS GroupTable, SiteStatus, Audits, TLC

Alike == Permutations(Uploads)

TheAlphabet == <<"cars", "facets.xml", "four", "guides.xml", "help", "one", "three", "two", "{id}", "{slug}">>
NoShapes == <<>>
TheTiers == <<[below |-> 9, cap |-> 0]>>
TheLimits ==
    [include |-> 60, exclude |-> 30, concentration |-> 70, group |-> 2, promote |-> 9,
     exemplar |-> 5, impressions |-> 50, perMille |-> 200, faceted |-> 3, perTemplate |-> 3,
     hub |-> 1, shapes |-> 1, floor |-> 2, fold |-> 2]

Plainly(path) == [path |-> path, www |-> FALSE, query |-> <<>>]
Tagged(path) == [path |-> path, www |-> TRUE, query |-> <<"page", "utm", "page">>]
Car(n) == <<"cars", n>>
Lists(path, by, listed) == [url |-> Plainly(path), by |-> by, listed |-> listed]
Facets == <<"facets.xml">>
Guides == <<"guides.xml">>
Old == <<Lists(Car("one"), Facets, 1), Lists(Car("two"), Facets, 1), Lists(Car("three"), Facets, 2),
         Lists(Car("four"), Facets, 1), Lists(<<"help">>, Guides, 1), Lists(<<>>, Unsourced, 1)>>
New == <<Lists(Car("one"), Facets, 1), Lists(<<"help", "one">>, <<"help">> \o Facets, 1),
         Lists(<<>>, Unsourced, 1)>>
TheSites == {Old, New}

Row(url, clicks, impressions) ==
    [url |-> url, absolute |-> TRUE, clicks |-> clicks, impressions |-> impressions]
File(columns, rows) == [hasPages |-> TRUE, dimension |-> "pages", columns |-> columns, rows |-> rows]
Both == {"url", "clicks", "impressions"}
TheFiles ==
    {File({"url", "clicks"}, <<Row(Plainly(Car("four")), 9, 9)>>),
     File(Both, <<Row(Plainly(Car("one")), 1, 60), Row(Plainly(Car("two")), 1, 1),
                  Row(Tagged(Car("two")), Unknown, 2), Row(Plainly(Car("three")), Unknown, 1),
                  Row([Plainly(<<"help">>) EXCEPT !.www = TRUE], 1, 2)>>),
     [File(Both, <<Row(Plainly(<<>>), 1, 1)>>) EXCEPT !.dimension = "queries"]}

AllCars == <<Glob(<<"cars">>, TRUE, <<>>, FALSE)>>
Help == <<Glob(<<"help">>, TRUE, <<>>, FALSE)>>
Says(valuable, noise, mustAppear, embargoed) ==
    [valuable |-> valuable, noise |-> noise, mustAppear |-> mustAppear, embargoed |-> embargoed]
TheAnswers ==
    {Says(AllCars, AllCars, <<>>, <<>>), Says(<<>>, AllCars \o Help, AllCars, <<>>),
     Says(AllCars, <<>>, <<>>, AllCars \o Help)}
TheReplies == {Facets :> "hub"}

\* A check that measured nothing, and ones where the probes that came later
\* decide what could be marked by hand, for better and for worse.
Found(sells, passed, failed, artifacts) ==
    [sells |-> sells, artifacts |-> artifacts, templates |-> Templated,
     checks |-> [key \in Keys |-> IF key \in passed THEN "pass"
                                  ELSE IF key \in failed THEN "fail" ELSE "manual"]]
TheFindings ==
    {Found(FALSE, {}, {}, {}),
     Found(FALSE, {"robots", "cls"}, {"llms-txt", "tap-targets"}, {"llms.txt", "_headers"}),
     Found(TRUE, {"tap-targets", "sitemap"}, {"cls", "webmcp"}, {"robots.txt", "agents.md"})}

Push(id, domain, score, at) == [id |-> id, domain |-> domain, score |-> score, at |-> at]
ThePushes ==
    {Push("a1", "x.com", 5, 1), Push("a1", "x.com", 7, 2), Push("a2", "y.com", 5, 2)}

AllInit == Init /\ StatusInit /\ AuditsInit
AllNext ==
    \/ Next /\ StatusInit /\ AuditsInit /\ UNCHANGED <<statusVars, auditVars>>
    \/ StatusNext /\ Init /\ AuditsInit /\ UNCHANGED <<vars, auditVars>>
    \/ AuditsNext /\ Init /\ StatusInit /\ UNCHANGED <<vars, statusVars>>
AllSpec == AllInit /\ [][AllNext]_<<vars, statusVars, auditVars>>
=============================================================================
