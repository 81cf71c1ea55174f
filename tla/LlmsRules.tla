------------------------------ MODULE LlmsRules ------------------------------
(***************************************************************************)
(* The linter of llms.txt and llms-full.txt: the two parsers, the rules of *)
(* the index, of the full file and of the pair, and the score              *)
(* (app/core/rules/document.py, index_rules.py, full_rules.py,             *)
(* registry.py, __init__.py).                                              *)
(*                                                                         *)
(* A rule is written as the condition under which it fails.  Counts and    *)
(* examples, which findings carry for their reader, are left out.          *)
(*                                                                         *)
(* The linter reads text.  A line of the model holds the parts it was      *)
(* written from, and what the text of some parts reads as is said here:    *)
(* the link lines and the "Source:" marks.                                 *)
(***************************************************************************)
EXTENDS PageText

CONSTANTS
    Bracketed,       \* the segments of addresses that hold a ")"
    StrandedWords,   \* IDENTITY_PATTERNS of the linter, fewer than the generator's
    AuthWords,       \* _AUTH_HINTS
    LocalePairs,     \* LOCALE_PAIRS
    MinBlock, MaxShares, MinPage, MaxTokens  \* the thresholds of the full rules

ASSUME RuleAssumption ==
    MinBlock \in Nat \ {0} /\ MaxShares \in Nat /\ MinPage \in Nat /\ MaxTokens \in Nat

-----------------------------------------------------------------------------
(* Parsing an index. *)

None == 0
Earliest(S) == IF S = {} THEN None ELSE CHOOSE i \in S : \A j \in S : i <= j

\* _headings: those outside code fences.
Headings(lines) ==
    LET inside == Fenced(lines) IN {i \in DOMAIN lines : lines[i].kind = "heading" /\ ~inside[i]}

HeadingsAt(lines, level) == {i \in Headings(lines) : lines[i].level = level}

\* Where the sections begin, and the line after each.
SectionEnd(lines, i) ==
    LET next == Earliest({j \in HeadingsAt(lines, 2) : j > i})
    IN  IF next = None THEN Len(lines) + 1 ELSE next

\* LINK_LINE, of a line that _link_line wrote: the title ends at the first "]",
\* the address at the first ")", and what has neither comes back as it was.
WellFormed(link) == "]" \notin Words(link.text) /\ Words(link.url.path) \cap Bracketed = {}

MalformedItem ==
    [kind |-> "malformed", level |-> 0, text |-> <<>>, url |-> Url(<<"">>, FALSE, FALSE),
     description |-> <<>>]
Malformed(link) == link.kind = "malformed"

SectionLinks(lines, i) ==
    LET Is(line) == line.kind = "link"
        links == SelectSeq(SubSeq(lines, i, SectionEnd(lines, i) - 1), Is)
    IN  [k \in DOMAIN links |-> IF WellFormed(links[k]) THEN links[k] ELSE MalformedItem]

\* parse_index.
ParseIndex(lines) ==
    LET h1 == Earliest(HeadingsAt(lines, 1))
        h2s == Ascending(HeadingsAt(lines, 2))
        stop == IF h2s = <<>> THEN Len(lines) + 1 ELSE h2s[1]
        Quoted(i) == lines[i].kind = "quote"
        quote == Earliest({i \in (h1 + 1)..(stop - 1) : Quoted(i)})
        quoteEnd == IF quote = None THEN h1
                    ELSE CHOOSE i \in quote..(stop - 1) :
                        (\A j \in quote..i : Quoted(j)) /\ (i + 1 = stop \/ ~Quoted(i + 1))
        last == IF h2s = <<>> THEN None ELSE Last(h2s)
        inLast == {i \in DOMAIN lines : i > last /\ lines[i].kind = "link"}
        after == IF inLast = {} THEN last ELSE CHOOSE i \in inLast : \A j \in inLast : j <= i
    IN  [lines |-> lines, h1 |-> h1, quote |-> quote,
         blockquote |-> IF quote = None THEN <<>>
                        ELSE FlattenSeq([k \in 1..(quoteEnd - quote + 1) |->
                                            lines[quote + k - 1].text]),
         introHeadings |-> {i \in Headings(lines) : quoteEnd < i /\ i < stop},
         sections |-> [k \in DOMAIN h2s |-> [name |-> lines[h2s[k]].text,
                                             links |-> SectionLinks(lines, h2s[k])]],
         trailing |-> IF last = None THEN <<>>
                      ELSE LET Said(line) == line.kind # "blank"
                           IN  SelectSeq(SubSeq(lines, after + 1, Len(lines)), Said)]

DocLinks(doc) == FlattenSeq([k \in DOMAIN doc.sections |-> doc.sections[k].links])

-----------------------------------------------------------------------------
(* Parsing a full file. *)

\* SOURCE_LINE: "Source:" and one more token, on its line or, as it skips all
\* white space, on the next line that says anything, unless that one is another
\* match's already.
Lone(line) == line.kind = "prose" /\ line.text = <<"Source:">>

Tokens(line) ==
    CASE line.kind \in {"fence", "break"} -> 1
      [] line.kind \in {"prose", "html"} /\ line.text # <<"Source\\:">> -> Len(line.text)
      [] line.kind \in {"heading", "quote"} -> 1 + Len(line.text)
      [] OTHER -> 2

Marks(lines) ==
    LET After(j) == Earliest({i \in (j + 1)..Len(lines) : lines[i].kind # "blank"})
        mark[j \in DOMAIN lines] ==
            \/ lines[j].kind = "source"
            \/ /\ Lone(lines[j]) /\ After(j) # None /\ Tokens(lines[After(j)]) = 1
               /\ \A k \in 1..(j - 1) : Lone(lines[k]) /\ After(k) = j => ~mark[k]
    IN  {j \in DOMAIN lines : mark[j]}

\* The address of the first mark; what stands for one on a line of its own is no
\* page's.
FirstSource(lines) ==
    LET mark == Earliest(Marks(lines))
    IN  IF lines[mark].kind = "source" THEN lines[mark].url ELSE Url(lines[mark].text, FALSE, FALSE)

\* A page starts at an H2 that a mark follows within a few lines.
Window(lines, i) == SubSeq(lines, i + 1, Least(i + 6, Len(lines)))
Boundaries(lines) == {i \in HeadingsAt(lines, 2) : Marks(Window(lines, i)) # {}}

\* parse_full.
ParseFull(lines) ==
    LET starts == Ascending(Boundaries(lines))
        End(k) == IF k < Len(starts) THEN starts[k + 1] - 1 ELSE Len(lines)
        Body(k) == SubSeq(lines, starts[k] + 1, End(k))
    IN  [lines |-> lines,
         h1s |-> HeadingsAt(lines, 1), h2s |-> HeadingsAt(lines, 2),
         blockquote |-> FlattenSeq([i \in 1..Least(12, Len(lines)) |->
                            IF lines[i].kind = "quote" THEN lines[i].text ELSE <<>>]),
         sources |-> Marks(lines),
         orphans |-> HeadingsAt(lines, 2) \ Boundaries(lines),
         pages |-> [k \in DOMAIN starts |->
             [title |-> lines[starts[k]].text, source |-> FirstSource(Body(k)), body |-> Body(k),
              bodyH1s |-> {i \in HeadingsAt(lines, 1) : starts[k] < i /\ i <= End(k)}]]]

-----------------------------------------------------------------------------
(* The rules of the index: structure. *)

Idx001(doc) ==
    \/ Cardinality(HeadingsAt(doc.lines, 1)) # 1
    \/ doc.h1 # Earliest({i \in DOMAIN doc.lines : doc.lines[i].kind # "blank"})

Idx002(doc) == doc.blockquote = <<>> \/ (doc.h1 # None /\ doc.quote > doc.h1 + 3)

Idx003(doc) == doc.introHeadings # {}

IsOptional(section) == section.name = <<"Optional">>

Idx004(doc) ==
    /\ \E k \in DOMAIN doc.sections : IsOptional(doc.sections[k])
    /\ ~IsOptional(Last(doc.sections))

\* A break and a line in italics, at most three lines of these, are a footer.
Idx005(doc) ==
    /\ doc.trailing # <<>>
    /\ \/ Len(doc.trailing) > 3
       \/ \E k \in DOMAIN doc.trailing : doc.trailing[k].kind \notin {"break", "footer"}

Idx006(doc) == \E link \in ToSet(DocLinks(doc)) : Malformed(link)

\* Trailing slashes: more than one in twenty of the addresses that could end in
\* one goes against the others.
Idx007(doc) ==
    LET Could(link) == ~Malformed(link) /\ link.url.path # <<>>
        links == SelectSeq(DocLinks(doc), Could)
        with == Cardinality({k \in DOMAIN links : links[k].url.slash})
    IN  20 * Least(with, Len(links) - with) > Len(links)

Idx008(doc) ==
    LET Formed(link) == ~Malformed(link)
        links == SelectSeq(DocLinks(doc), Formed)
    IN  \E i, j \in DOMAIN links :
            /\ i # j
            /\ \/ links[i].url = links[j].url
               \/ links[i].text = links[j].text /\ links[i].text # <<>>

\* A profile bounds sizes and counts; 0 is no bound.
Idx009(doc, profile) == Size(doc.lines) > profile.maxBytes

Idx010(doc, profile) ==
    \/ Len(DocLinks(doc)) > profile.maxLinks
    \/ Len(DocLinks(doc)) < profile.minLinks

Idx011(doc, profile) ==
    \E name \in DOMAIN profile.sections :
        LET its == {k \in DOMAIN doc.sections : doc.sections[k].name = <<name>>}
            count == IF its = {} THEN 0
                     ELSE Len(doc.sections[CHOOSE k \in its : \A j \in its : j <= k].links)
        IN  count < profile.sections[name].least \/ count > profile.sections[name].most

-----------------------------------------------------------------------------
(* ... the copy, and what does not belong in an index. *)

Idx012(doc) == \E link \in ToSet(DocLinks(doc)) : ~Malformed(link) /\ link.description = <<>>

Idx013(doc) == \E link \in ToSet(DocLinks(doc)) : Words(link.description) \cap Superlatives # {}

Idx014(doc) ==
    \E link \in ToSet(DocLinks(doc)) :
        link.description # <<>> /\ Head(link.description) \in Openers

Idx015(doc) ==
    LET said == UNION {Words(doc.lines[i].text) : i \in DOMAIN doc.lines}
                    \cup UNION {Words(link.description) : link \in ToSet(DocLinks(doc))}
    IN  \E pair \in LocalePairs : {pair[1], pair[2]} \subseteq said

Idx016(doc) ==
    \E link \in ToSet(DocLinks(doc)) :
        link.url.query \/ Words(link.url.path) \cap AuthWords # {}

Idx017(doc) ==
    \E section \in ToSet(doc.sections) :
        /\ IsOptional(section)
        /\ \E link \in ToSet(section.links) : Words(link.url.path) \cap StrandedWords # {}

Idx018(doc) == \E i \in DOMAIN doc.lines : doc.lines[i].kind = "html"

\* The network: `answers` are the addresses that resolve.
Companion(doc) == \E i \in DOMAIN doc.lines : "llms-full.txt" \in Words(doc.lines[i].text)

Idx019(doc, net) == Companion(doc) /\ ~net.companion

Idx020(doc, net) ==
    \E link \in ToSet(DocLinks(doc)) : ~Malformed(link) /\ link.url \notin net.answers

-----------------------------------------------------------------------------
(* The rules of the full file, and of the pair. *)

Full001(doc) == Cardinality(doc.h1s) # 1

Full002(doc) ==
    ~(Len(doc.pages) = Cardinality(doc.sources) /\ Cardinality(doc.sources) = Cardinality(doc.h2s))

Full003(doc) == doc.orphans # {} \/ \E page \in ToSet(doc.pages) : page.bodyH1s # {}

Full004(doc) == doc.pages = <<>>  \* a page has its source by how it is found

\* Blocks as blank lines part them, code fences or not.
PlainBlocks(body) ==
    LET starts == {i \in DOMAIN body : body[i].kind # "blank" /\ (i = 1 \/ body[i - 1].kind = "blank")}
        End(i) == CHOOSE j \in i..Len(body) :
            (\A k \in i..j : body[k].kind # "blank")
                /\ (j = Len(body) \/ body[j + 1].kind = "blank")
    IN  {SubSeq(body, i, End(i)) : i \in starts}

Full005(doc) ==
    LET blocks == [k \in DOMAIN doc.pages |-> PlainBlocks(doc.pages[k].body)]
    IN  \E block \in UNION {blocks[k] : k \in DOMAIN blocks} :
            /\ Size(block) >= MinBlock
            /\ Cardinality({k \in DOMAIN blocks : block \in blocks[k]}) > MaxShares

\* White space that says nothing: three blank lines, or some at the end of a
\* line, which no line has but a heading without a text.
Full006(doc) ==
    \/ \E i \in 1..(Len(doc.lines) - 2) : \A j \in i..(i + 2) : doc.lines[j].kind = "blank"
    \/ \E i \in DOMAIN doc.lines : doc.lines[i].kind = "heading" /\ doc.lines[i].text = <<>>

\* Of every line, code fences or not.
Full007(doc) ==
    \E i \in DOMAIN doc.lines :
        doc.lines[i].kind = "heading" /\ doc.lines[i].text # <<>>
            /\ Head(doc.lines[i].text) \in {"*", "_"}

Full008(doc) == \E page \in ToSet(doc.pages) : Size(page.body) \in 1..(MinPage - 1)

Full009(doc) == Size(doc.lines) > 4 * MaxTokens

Xf001(index, full) ==
    \/ full.blockquote = <<>>
    \/ index.blockquote # <<>> /\ index.blockquote # full.blockquote

Xf002(index, full) ==
    LET Stem(url) == [url EXCEPT !.slash = FALSE]
        present == {Stem(page.source) : page \in ToSet(full.pages)}
    IN  \E link \in ToSet(DocLinks(index)) : ~Malformed(link) /\ Stem(link.url) \notin present

-----------------------------------------------------------------------------
(* Severities and the score. *)

\* INDEX_RULES, FULL_RULES, CROSS_RULES: 5 for an error, 2 for a warning, 1 for info.
IndexErrors == {"IDX-001", "IDX-002", "IDX-006", "IDX-007", "IDX-017"}
IndexInfos == {"IDX-011", "IDX-015"}
IndexIds == IndexErrors \cup IndexInfos \cup
    {"IDX-003", "IDX-004", "IDX-005", "IDX-008", "IDX-009", "IDX-010", "IDX-012", "IDX-013",
     "IDX-014", "IDX-016", "IDX-018", "IDX-019", "IDX-020"}
FullErrors == {"FULL-001", "FULL-002", "FULL-003"}
FullInfos == {"FULL-006", "FULL-007", "FULL-008"}
FullIds == FullErrors \cup FullInfos \cup {"FULL-004", "FULL-005", "FULL-009"}
CrossIds == {"XF-001", "XF-002"}

Weight(id) == IF id \in IndexErrors \cup FullErrors THEN 5
              ELSE IF id \in IndexInfos \cup FullInfos THEN 1 ELSE 2

WeightOf(ids) == FoldSet(LAMBDA id, sum : Weight(id) + sum, 0, ids)

\* round(): to the nearest, halves to the even.
Rounded(n, d) ==
    LET down == n \div d
        twice == 2 * (n % d)
    IN  IF twice < d \/ (twice = d /\ down % 2 = 0) THEN down ELSE down + 1

\* score_report, capped by the worst that failed.
Score(applied, failed) ==
    LET raw == IF applied = {} THEN 0
               ELSE Rounded(100 * WeightOf(applied \ failed), WeightOf(applied))
    IN  IF failed \cap (IndexErrors \cup FullErrors) # {} THEN Least(raw, 49)
        ELSE IF \E id \in failed : Weight(id) = 2 THEN Least(raw, 79)
        ELSE raw

IndexFailures(doc, profile, net) ==
    {id \in IndexIds :
        CASE id = "IDX-001" -> Idx001(doc) [] id = "IDX-002" -> Idx002(doc)
          [] id = "IDX-003" -> Idx003(doc) [] id = "IDX-004" -> Idx004(doc)
          [] id = "IDX-005" -> Idx005(doc) [] id = "IDX-006" -> Idx006(doc)
          [] id = "IDX-007" -> Idx007(doc) [] id = "IDX-008" -> Idx008(doc)
          [] id = "IDX-009" -> profile.maxBytes > 0 /\ Idx009(doc, profile)
          [] id = "IDX-010" -> profile.maxLinks > 0 /\ Idx010(doc, profile)
          [] id = "IDX-011" -> profile.sections # <<>> /\ Idx011(doc, profile)
          [] id = "IDX-012" -> Idx012(doc) [] id = "IDX-013" -> Idx013(doc)
          [] id = "IDX-014" -> Idx014(doc) [] id = "IDX-015" -> Idx015(doc)
          [] id = "IDX-016" -> Idx016(doc) [] id = "IDX-017" -> Idx017(doc)
          [] id = "IDX-018" -> Idx018(doc)
          [] id = "IDX-019" -> net.checked /\ Idx019(doc, net)
          [] id = "IDX-020" -> net.checked /\ Idx020(doc, net)}

FullFailures(doc) ==
    {id \in FullIds :
        CASE id = "FULL-001" -> Full001(doc) [] id = "FULL-002" -> Full002(doc)
          [] id = "FULL-003" -> Full003(doc) [] id = "FULL-004" -> Full004(doc)
          [] id = "FULL-005" -> Full005(doc) [] id = "FULL-006" -> Full006(doc)
          [] id = "FULL-007" -> Full007(doc) [] id = "FULL-008" -> Full008(doc)
          [] id = "FULL-009" -> Full009(doc)}

\* The rules that ran: the others had no file, no profile or no network.
Skipped(doc, profile, net) ==
    {id \in IndexIds :
        \/ id = "IDX-009" /\ profile.maxBytes = 0
        \/ id = "IDX-010" /\ profile.maxLinks = 0
        \/ id = "IDX-011" /\ profile.sections = <<>>
        \/ id = "IDX-019" /\ ~net.checked /\ Companion(doc)
        \/ id = "IDX-020" /\ ~net.checked}

Applied(index, full, profile, net) ==
    (IF index = <<>> THEN {} ELSE IndexIds \ Skipped(ParseIndex(index), profile, net))
    \cup (IF full = <<>> THEN {} ELSE FullIds)
    \cup (IF index = <<>> \/ full = <<>> THEN {} ELSE CrossIds)

\* audit.
Audit(index, full, profile, net) ==
    LET doc == ParseIndex(index)
        whole == ParseFull(full)
        failed == (IF index = <<>> THEN {} ELSE IndexFailures(doc, profile, net))
            \cup (IF full = <<>> THEN {} ELSE FullFailures(whole))
            \cup (IF index = <<>> \/ full = <<>> THEN {}
                  ELSE (IF Xf001(doc, whole) THEN {"XF-001"} ELSE {})
                       \cup (IF Xf002(doc, whole) THEN {"XF-002"} ELSE {}))
    IN  [failed |-> failed, score |-> Score(Applied(index, full, profile, net), failed)]

=============================================================================
