---------------------------- MODULE MCCrawlList -----------------------------
(* Sites of five sitemaps and seven addresses: two forests, of which the   *)
(* second has the children that make two positions collapse, each under    *)
(* two robots.txt files.                                                   *)
EXTENDS CrawlList

TheAlphabet == <<"1", "7", "a", "b", "doc.pdf", "index", "old", "pages", "posts", "tag", "x", "y",
                 "{id}", "{slug}">>
TheConventional == <<"index">>
TheShapes == [s \in {"7"} |-> "{id}"]
TheTiers == <<[below |-> 4, cap |-> 0], [below |-> 6, cap |-> 2], [below |-> 9, cap |-> 3]>>
TheNames == [map \in {"1", "index", "old", "pages", "posts"} |->
                CASE map = "1" -> 1 [] map = "old" -> 3 [] OTHER -> 5]

Index(locs) == [index |-> TRUE, locs |-> locs]
UrlSet(locs) == [index |-> FALSE, locs |-> locs]
Home == <<>>
Small ==
    ("index" :> Index(<<"pages", "old">>)) @@ ("old" :> Index(<<"1", "index">>))
    @@ ("pages" :> UrlSet(<<Home, <<"a">>, <<"a", "x">>>>))
    @@ ("posts" :> UrlSet(<<<<"tag", "x">>>>)) @@ ("1" :> UrlSet(<<<<"a">>, <<"doc.pdf">>>>))
Grown ==
    ("index" :> Index(<<"posts", "1", "pages">>)) @@ ("old" :> Index(<<"1", "posts">>))
    @@ ("pages" :> UrlSet(<<<<"a">>, <<"b">>, <<"7">>>>))
    @@ ("posts" :> UrlSet(<<<<"tag", "x">>, <<"b">>>>)) @@ ("1" :> UrlSet(<<<<"b">>, <<"a", "x">>>>))

Says(field, value) == [field |-> field, value |-> value]
Open == <<>>
Strict ==
    <<Says("sitemap", "posts"), Says("user-agent", "*"), Says("crawl-delay", 9),
      Says("disallow", Glob(<<"a">>, FALSE, <<>>, FALSE)),
      Says("disallow", Glob(<<>>, TRUE, <<"x">>, TRUE)),
      Says("allow", Glob(<<"a", "x">>, FALSE, <<>>, FALSE)),
      Says("user-agent", "other"), Says("disallow", Glob(<<>>, FALSE, <<>>, FALSE)),
      Says("sitemap", "old")>>
TheSites == {[robots |-> robots, maps |-> maps] : robots \in {Open, Strict}, maps \in {Small, Grown}}
TheEmbargoes == {{}, {Glob(<<"b">>, TRUE, <<>>, FALSE)}}

Task(counts, code) == [counts |-> counts, code |-> code]
TheAnswers ==
    {[kind |-> "no credentials"], [kind |-> "refused", code |-> 403],
     [kind |-> "body", tasks |-> <<Task(<<>>, 40207)>>],
     [kind |-> "body", tasks |-> <<Task(<<>>, 20000), Task(<<20>>, 20000)>>]}

\* No key, a truncated reply, rules for some of the templates, or two for
\* one and one for a template the site has not.
SomeReplies(templates) ==
    {[kind |-> "no key"], [kind |-> "length"]} \cup
    {[kind |-> "object",
      rules |-> Kept([i \in DOMAIN templates |-> Rule(templates[i].template, "sample", (i % 2) * 2 + 1)],
                          LAMBDA rule : rule.template \in ruled)] :
        ruled \in SUBSET {templates[i].template : i \in {1, Len(templates)} \cap DOMAIN templates}}
    \cup
    {[kind |-> "object",
      rules |-> <<Rule(templates[i].template, "include", 4), Rule(templates[i].template, "exclude", 1),
                  Rule(<<"{slug}">>, "include", 1)>>] : i \in {2} \cap DOMAIN templates}
=============================================================================
