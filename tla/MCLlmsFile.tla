----------------------------- MODULE MCLlmsFile -----------------------------
(* Small sites: a home page, an about page and an article; a page reachable *)
(* at two addresses beside a thin one; a flat site; one with deep pages; a  *)
(* page all of whose text is shared; addresses under "/optional"; a title   *)
(* and an address with brackets; bodies that the full file cannot hold.     *)
EXTENDS OwnFiles

Identity == {"About", "Contact", "Pricing"}
Contact == {"Contact"}
Calls == {"discover"}
Claims == {"best"}

At(path) == NewPage(Url(path, FALSE, FALSE))
H(level, word) == Heading(level, <<word>>)

Body1 == <<H(1, "Title"), Blank, Blank, Prose(<<"terms", "apply">>), Blank, Prose(<<"own">>)>>
Body2 == <<Prose(<<"terms", "apply">>), Blank, Plain("fence"), H(1, "comment"), Blank, Blank,
           Plain("fence"), Heading(2, <<>>), Line("source", 0, <<"Source:">>, NoUrl)>>
Body3 == <<H(2, "Part"), Prose(<<"a", "long", "story", "it", "is">>)>>
Body4 == <<Prose(<<"terms", "apply">>)>>
Body5 == <<Prose(<<"as", "in">>), Plain("fence"), Heading(1, <<"_", "init", "_">>), Plain("fence")>>
Body6 == <<Prose(<<"they", "say", "so">>), Blank, Prose(<<"Source:">>), Blank, Prose(<<"Reuters">>)>>

Body == [b1 |-> Body1, b2 |-> Body2, b3 |-> Body3, b4 |-> Body4, b5 |-> Body5, b6 |-> Body6]

Home == [At(<<>>) EXCEPT !.title = <<"Acme", "|", "Brand">>, !.depth = 0, !.words = 300,
                         !.markdown = "b1"]
About == [At(<<"About">>) EXCEPT !.title = <<"About", "us", "|", "Brand">>, !.words = 90,
                                 !.description = <<"who", "we", "are">>, !.markdown = "b2"]
Article == [At(<<"Blog", "Story">>) EXCEPT !.h1 = <<"*", "Story", "*">>, !.words = 500,
                                           !.hash = "s", !.markdown = "b3"]
Copy == [Article EXCEPT !.url = Url(<<"Blog", "Copy">>, TRUE, FALSE), !.inlinks = 3, !.link = 40,
                        !.canonical = Url(<<"Blog", "Copy">>, TRUE, FALSE)]
Thin == [At(<<"Shop">>) EXCEPT !.words = 10, !.markdown = "b4"]
Deep == [At(<<"Docs", "A", "B", "Contact">>) EXCEPT !.words = 60, !.link = 3, !.inlinks = 2]
Printed == [At(<<"Blog", "Print">>) EXCEPT !.canonical = Article.url, !.markdown = "b3"]
Brief == [At(<<"Shop">>) EXCEPT !.words = 60, !.markdown = "b4"]
Extra == [At(<<"Optional", "Extra">>) EXCEPT !.words = 70]

Noted == [At(<<"Blog", "Noted">>) EXCEPT !.title = <<"Noted", "]">>, !.words = 80,
                                         !.markdown = "b3"]
Wiki == [At(<<"Docs", "Acme (disambiguation)">>) EXCEPT !.words = 90, !.markdown = "b4"]
Snippet == [At(<<"Docs", "Snippet">>) EXCEPT !.title = <<"Snippet">>, !.words = 90, !.markdown = "b5"]
Quoting == [At(<<"Blog", "Quoting">>) EXCEPT !.title = <<"Quoting">>, !.words = 90, !.markdown = "b6"]

Sites == {<<Noted, Wiki>>, <<Home, Snippet>>, <<Home, Quoting>>, <<Home, About, Article>>, <<Article, Copy, Thin>>, <<Article, Printed>>,
          <<Article, Deep>>, <<Home, Brief>>, <<Home, Extra>>}

Kinds == [catalog |-> <<"Guides", "Optional">>, agency |-> <<"Blog", "Optional">>]
Names == <<"About", "Blog", "Contact", "Docs", "Guides", "Main", "Optional", "Pages", "Shop">>
Texts == {[title |-> <<"Guide">>, description |-> <<"discover", "the", "best">>]}

Parentheses == {"Acme (disambiguation)"}
Stranded == {"About", "Contact"}
Auth == {"Login"}
Spellings == {<<"color", "colour">>}

=============================================================================
