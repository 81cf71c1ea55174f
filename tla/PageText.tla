------------------------------ MODULE PageText ------------------------------
(***************************************************************************)
(* Pages, addresses and text, as the assembly of a file and the rules that *)
(* judge it see them, with the ranking of pages (app/core/models.py,       *)
(* text.py, ranking.py, copyrules.py).                                     *)
(*                                                                         *)
(* Abstracted: a text is a sequence of words and marks, so lengths count   *)
(* words; a segment of an address is written as the heading it becomes     *)
(* ("case-studies" is "Case Studies"), so that letter case and hyphens do  *)
(* not appear; scores are multiplied by 300 to be integers.                *)
(***************************************************************************)
EXTENDS Integers, Sequences, FiniteSets, SequencesExt

CONSTANTS
    IdentityWords,   \* IDENTITY_URL_PATTERNS, IDENTITY_TITLE_KEYWORDS
    ContactWords,    \* CONTACT_URL_KEYWORDS, CONTACT_TITLE_KEYWORDS
    Openers, Superlatives,  \* banned at the start of, and anywhere in, a description
    MaxTitle, MinDescription, MaxDescription  \* in words

ASSUME TextAssumption ==
    MaxTitle \in Nat \ {0} /\ MinDescription \in Nat /\ MaxDescription \in Nat \ {0}

-----------------------------------------------------------------------------
(* PageEntry.  `depth` is crawl_depth, -1 where no crawler counted it;    *)
(* `markdown` is the name of a body.                                      *)

\* A page without a section, a body or a hash has this for it.
Unset == ""

Url(path, query, slash) == [path |-> path, query |-> query, slash |-> slash]

NewPage(url) ==
    [url |-> url, title |-> <<>>, description |-> <<>>, h1 |-> <<>>, words |-> 0, depth |-> -1,
     inlinks |-> 0, link |-> 0, hash |-> Unset, canonical |-> url, similar |-> 0, markdown |-> Unset,
     section |-> Unset, optional |-> FALSE]

DisplayTitle(page) == IF page.title # <<>> THEN page.title ELSE page.h1

-----------------------------------------------------------------------------
(* Text. *)

Least(a, b) == IF a < b THEN a ELSE b
Most(a, b) == IF a > b THEN a ELSE b
Words(text) == {text[i] : i \in DOMAIN text}

\* The last `mark` of the first `most` words, if two fifths of them come before it.
LastMark(text, mark, most) ==
    LET places == {i \in 1..Least(most, Len(text)) : text[i] = mark /\ 5 * i > 2 * most}
    IN  IF places = {} THEN 0 ELSE CHOOSE i \in places : \A j \in places : j <= i

\* truncate_text: at the end of a sentence, else of a clause, else of a word.
Truncated(text, most) ==
    LET stop == LastMark(text, ".", most)
        comma == LastMark(text, ",", most)
    IN  IF Len(text) <= most THEN text
        ELSE SubSeq(text, 1, IF stop > 0 THEN stop ELSE IF comma > 0 THEN comma - 1 ELSE most)

\* truncate_title: what stands before the brand, else the first words.
ShortTitle(text) ==
    LET bars == {i \in 2..Len(text) : text[i] = "|" /\ i <= MaxTitle + 1}
    IN  IF bars # {} THEN SubSeq(text, 1, (CHOOSE i \in bars : \A j \in bars : i <= j) - 1)
        ELSE Truncated(text, MaxTitle)

TitleFromUrl(url) == IF url.path = <<>> THEN <<"Home">> ELSE <<Last(url.path)>>

\* The last two segments of the path.
DescriptionFromUrl(url) ==
    LET n == Len(url.path)
    IN  IF n = 0 THEN <<"Homepage">>
        ELSE IF n = 1 THEN url.path ELSE <<url.path[n - 1], ">", url.path[n]>>

-----------------------------------------------------------------------------
(* Ranking. *)

EffectiveDepth(page) == IF page.depth >= 0 THEN page.depth ELSE Len(page.url.path)

\* score_breakdown and importance_score, times 300: the weights of the link
\* graph are shared out where the run has no link graph.
Importance(page) ==
    LET depth == Most(0, 100 - 20 * EffectiveDepth(page))
        content == IF page.words > 0 THEN Least(page.words, 1000) ELSE 500
        inlinks == Least(10 * page.inlinks, 100)
    IN  IF page.link > 0 \/ page.inlinks > 0
        THEN 3 * (20 * depth + content + 40 * page.link + 30 * inlinks)
        ELSE 10 * (20 * depth + content)

\* is_optional_page: deep, and weakly linked.
LooksOptional(page) ==
    /\ EffectiveDepth(page) >= 4
    /\ page.inlinks <= 1 \/ page.link \in 1..5

LooksContact(page) ==
    (Words(page.url.path) \cup Words(DisplayTitle(page))) \cap ContactWords # {}

SectionOfUrl(url) == IF url.path = <<>> THEN "Main" ELSE Head(url.path)

\* is_identity_page: the homepage, or an address or a title that says so.
IsIdentity(page) ==
    \/ page.url.path = <<>>
    \/ (Words(page.url.path) \cup Words(DisplayTitle(page))) \cap IdentityWords # {}

\* The members of S, each after those that are ahead of it.
InOrder(S, ahead) ==
    [k \in 1..Cardinality(S) |-> CHOOSE i \in S : Cardinality(ahead[i]) = k - 1]

Ascending(S) == InOrder(S, [i \in S |-> {j \in S : j < i}])

\* What a sequence holds at some places, and those of its elements that are so.
KeptAt(s, places) == LET order == Ascending(places) IN [k \in DOMAIN order |-> s[order[k]]]
Those(s, Is(_)) == KeptAt(s, {i \in DOMAIN s : Is(s[i])})

\* sorted(.., reverse=True) keeps the order of equals.
ByImportance(pages) ==
    LET Ahead(i, j) == \/ Importance(pages[i]) > Importance(pages[j])
                       \/ Importance(pages[i]) = Importance(pages[j]) /\ i < j
        order == InOrder(DOMAIN pages, [i \in DOMAIN pages |-> {j \in DOMAIN pages : Ahead(j, i)}])
    IN  [p \in DOMAIN pages |-> pages[order[p]]]

-----------------------------------------------------------------------------
(* The rules of copy. *)

\* check_copy: what is wrong with one link line.
CopyProblems(title, description) ==
    {p \in {"no title", "long title", "no description", "short", "long", "opener", "superlative"} :
        CASE p = "no title" -> title = <<>>
          [] p = "long title" -> Len(title) > MaxTitle
          [] p = "no description" -> description = <<>>
          [] p = "short" -> description # <<>> /\ Len(description) < MinDescription
          [] p = "long" -> Len(description) > MaxDescription
          [] p = "opener" -> description # <<>> /\ Head(description) \in Openers
          [] p = "superlative" -> Words(description) \cap Superlatives # {}}

\* check_all: the entries at fault, with those that repeat an earlier description.
Faulty(entries) ==
    {i \in DOMAIN entries :
        \/ CopyProblems(entries[i].title, entries[i].description) # {}
        \/ /\ entries[i].description # <<>>
           /\ \E j \in 1..(i - 1) : entries[j].description = entries[i].description}

-----------------------------------------------------------------------------
(* Lines of a document. *)

Line(kind, level, text, url) == [kind |-> kind, level |-> level, text |-> text, url |-> url]
NoUrl == Url(<<>>, FALSE, FALSE)
Heading(level, text) == Line("heading", level, text, NoUrl)
Plain(kind) == Line(kind, 0, <<>>, NoUrl)  \* blank, fence, break, footer
Blank == Plain("blank")
Prose(text) == Line("prose", 0, text, NoUrl)

\* A list line keeps its title and its description apart.
Link(page) == [kind |-> "link", level |-> 0, text |-> DisplayTitle(page), url |-> page.url,
               description |-> page.description]

LineSize(line) == 1 + line.level + Len(line.text)
Size(lines) ==
    LET upTo[n \in 0..Len(lines)] ==
            IF n = 0 THEN 0 ELSE upTo[n - 1] + LineSize(lines[n])
    IN  upTo[Len(lines)]

\* Which lines a code fence holds, its marks included.
Fenced(lines) ==
    LET Marks(n) == Cardinality({j \in 1..n : lines[j].kind = "fence"})
    IN  [i \in DOMAIN lines |-> lines[i].kind = "fence" \/ Marks(i - 1) % 2 = 1]

=============================================================================
