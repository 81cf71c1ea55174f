------------------------------ MODULE LlmsFile ------------------------------
(***************************************************************************)
(* How pages become llms.txt and llms-full.txt, and what an edit makes of  *)
(* the two: filters, fallback copy, the model's sections or the address's, *)
(* the order of sections, the two renderers, and the rows that the next    *)
(* edit starts from (app/core/pipeline.py, render.py, full_text.py,        *)
(* csv_source.py, the assembly of app/jobs/tasks.py, edit_pages).          *)
(*                                                                         *)
(* Abstracted: a document is a sequence of lines, each of a kind; the      *)
(* model's answers are any sections of the template and a few texts; where *)
(* the stages stand among other tasks is in RunLifecycle, and what chat    *)
(* and purges do to the rows is in SiteDocuments.                          *)
(***************************************************************************)
EXTENDS PageText

CONSTANTS
    Bodies,          \* the markdown of pages, by name
    Inventories,     \* sequences of pages a crawl or an import can leave
    Templates,       \* PATTERN_TEMPLATES: a pattern's sections, in order
    DefaultPattern,
    Alphabet,        \* the names of sections, as sorted() puts them
    FullAsked,       \* generate_full, as the form can send it
    Copies, Summaries,  \* titles and descriptions, and summaries, the model may write
    MinWords, MaxSimilar,          \* the thresholds of the filters
    MinRepeat, RepeatThreshold,    \* REPEAT_MIN_CHARS, REPEAT_THRESHOLD
    MaxSize, NoteReserve,          \* full_max_chars, TRUNCATION_NOTE_RESERVE
    MaxEdits                       \* a bound on the edits of one run

\* What says that pages were left out.
Note == <<Blank, Plain("break"), Plain("footer")>>

ASSUME PatternAssumption == DefaultPattern \in DOMAIN Templates
ASSUME SizeAssumption ==
    /\ MaxSize \in Nat /\ NoteReserve \in Nat /\ NoteReserve < MaxSize
    /\ Size(Note) <= NoteReserve
    /\ MinRepeat \in Nat \ {0} /\ RepeatThreshold \in Nat \ {0}
    /\ MinWords \in Nat /\ MaxSimilar \in Nat /\ MaxEdits \in Nat

Text == Seq(STRING)
SectionNames == ToSet(Alphabet)
Address == [path : Text, query : BOOLEAN, slash : BOOLEAN]
PageEntry == [url : Address, title : Text, description : Text, h1 : Text, words : Nat,
              depth : Int, inlinks : Nat, link : Nat, hash : STRING, canonical : Address,
              similar : Nat, markdown : DOMAIN Bodies \cup {Unset},
              section : SectionNames \cup {Unset}, optional : BOOLEAN]
LineKind == {"heading", "quote", "prose", "link", "source", "fence", "html", "blank", "break",
             "footer"}
BodyLine == [kind : LineKind, level : Nat, text : Text, url : Address]

\* uq_pages_run_url: a run has one row for an address.
ASSUME InventoryAssumption ==
    /\ Bodies \in [DOMAIN Bodies -> Seq(BodyLine)]
    /\ \A pages \in Inventories :
          /\ pages \in Seq(PageEntry) /\ IsInjective([i \in DOMAIN pages |-> pages[i].url])
          /\ \A i \in DOMAIN pages : pages[i].section = Unset

\* The alphabet has every name a section can get.
ASSUME NamesAssumption ==
    /\ Alphabet \in Seq(STRING) /\ Unset \notin SectionNames
    /\ {"Main", "Contact", "Pages"} \subseteq SectionNames
    /\ \A p \in DOMAIN Templates : Templates[p] \in Seq(SectionNames)
    /\ \A pages \in Inventories : \A i \in DOMAIN pages :
          SectionOfUrl(pages[i].url) \in SectionNames

\* The words the program itself writes.
ASSUME WordAssumption ==
    {"Home", "Homepage", ">", "Optional", "Official", "For full page content, see", "llms-full.txt",
     "Site", "Repeated", "Included once", "Source:", "Source\\:", "\\*", "\\_"} \subseteq STRING

ASSUME WritingAssumption ==
    Copies \subseteq [title : Text, description : Text] /\ Summaries \subseteq Text
        /\ FullAsked \subseteq BOOLEAN

VARIABLES
    stage,     \* how far generate_task is
    pattern, wantsFull,  \* of the run
    entries,   \* the pages the task has in hand
    rows,      \* the same pages, as stored
    file,      \* the two documents, as stored
    edits      \* history: how many edits there were, and what the last one asked

vars == <<stage, pattern, wantsFull, entries, rows, file, edits>>

-----------------------------------------------------------------------------
Concat(seqs) == FlattenSeq(seqs)
Urls(pages) == {pages[i].url : i \in DOMAIN pages}

-----------------------------------------------------------------------------
(* The filters. *)

\* deduplicate: a page that names another of the set as canonical goes, and so
\* does one whose content was seen on a page that stayed.
Deduplicated(pages) ==
    LET Canonical(i) == pages[i].canonical = pages[i].url \/ pages[i].canonical \notin Urls(pages)
        First(i) == \/ pages[i].hash = Unset
                    \/ \A j \in 1..(i - 1) : Canonical(j) => pages[j].hash # pages[i].hash
    IN  KeptAt(pages, {i \in DOMAIN pages : Canonical(i) /\ First(i)})

\* A word count of 0 means it is not known.
Substantial(pages) ==
    LET Thick(page) == page.words = 0 \/ page.words >= MinWords IN Those(pages, Thick)

\* filter_near_duplicates, which keeps the most linked tenth.
Unlike(pages) ==
    LET sorted == SortSeq([i \in DOMAIN pages |-> pages[i].inlinks], >)
        floor == sorted[1 + Len(pages) \div 10]
        Keeps(page) == page.similar < MaxSimilar \/ (floor > 0 /\ page.inlinks >= floor)
    IN  IF pages = <<>> THEN <<>> ELSE Those(pages, Keeps)

\* apply_filters.
Filtered(pages, options) ==
    LET distinct == IF options.dedup THEN Deduplicated(pages) ELSE pages
        unlike == IF options.near THEN Unlike(distinct) ELSE distinct
    IN  IF options.thin THEN Substantial(unlike) ELSE unlike

\* The options of generate_task.
TaskFilters == [dedup |-> TRUE, near |-> FALSE, thin |-> TRUE]

\* apply_fallback_copy.
WithFallback(page) ==
    [page EXCEPT
        !.title = IF ShortTitle(DisplayTitle(page)) # <<>> THEN ShortTitle(DisplayTitle(page))
                  ELSE TitleFromUrl(page.url),
        !.description = IF @ # <<>> THEN Truncated(@, MaxDescription)
                        ELSE DescriptionFromUrl(page.url)]

-----------------------------------------------------------------------------
(* Sections.  A dict keeps the order in which its keys came. *)

Section(name, pages) == [name |-> name, pages |-> pages]

\* Things in a row under the names that `named` gives their places.
Grouped(things, named) ==
    LET fresh == {i \in DOMAIN things : \A j \in 1..(i - 1) : named[j] # named[i]}
        heads == KeptAt(named, fresh)
        In(name) == KeptAt(things, {i \in DOMAIN things : named[i] = name})
    IN  [k \in DOMAIN heads |-> Section(heads[k], In(heads[k]))]

Sorted(sections) ==
    [k \in DOMAIN sections |-> [sections[k] EXCEPT !.pages = ByImportance(@)]]

\* consolidate_singletons: where three fifths of three or more sections hold
\* one page, those become "Pages".
Consolidated(sections) ==
    LET Single(s) == Len(s.pages) < 2 /\ s.name # "Contact"
        Kept(s) == ~Single(s)
        Other(s) == Kept(s) /\ s.name # "Pages"
        singles == Those(sections, Single)
        kept == Those(sections, Kept)
        merged == Concat([k \in DOMAIN singles |-> singles[k].pages])
        Swollen(s) == IF s.name = "Pages" THEN Section("Pages", ByImportance(s.pages \o merged))
                      ELSE s
    IN  IF Len(sections) < 3 \/ 5 * Len(singles) < 3 * Len(sections) THEN sections
        ELSE IF \E k \in DOMAIN kept : kept[k].name = "Pages"
             THEN [k \in DOMAIN kept |-> Swollen(kept[k])]
             ELSE Append(kept, Section("Pages", ByImportance(merged)))

\* group_by_url: what groups pages when no model did.
GroupedByUrl(pages) ==
    LET Main(page) == ~LooksOptional(page)
        Name(page) == IF LooksContact(page) THEN "Contact" ELSE SectionOfUrl(page.url)
        main == Those(pages, Main)
    IN  [sections |-> Consolidated(Sorted(Grouped(main, [i \in DOMAIN main |-> Name(main[i])]))),
         optional |-> ByImportance(Those(pages, LooksOptional))]

\* _sections_from: pages without a section join the first that has one.
Assigned(page) == page.section # Unset /\ ~page.optional

\* Mutant: a page the model skipped is in no section.
SectionsFrom_Skipping(pages) ==
    LET Optional(page) == page.optional
        assigned == Those(pages, Assigned)
        groups == Grouped(assigned, [i \in DOMAIN assigned |-> assigned[i].section])
    IN  [sections |-> Sorted(groups),
         optional |-> Those(pages, Optional)]

SectionsFrom(pages) ==
    LET Skipped(page) == page.section = Unset /\ ~page.optional
        Optional(page) == page.optional
        assigned == Those(pages, Assigned)
        groups == Grouped(assigned, [i \in DOMAIN assigned |-> assigned[i].section])
    IN  [sections |-> Sorted([groups EXCEPT ![1].pages = @ \o Those(pages, Skipped)]),
         optional |-> Those(pages, Optional)]

TemplateOrder(p) == IF p \in DOMAIN Templates THEN Templates[p] ELSE Templates["catalog"]

\* by_name: of sections with one name the last is kept.
NamedBy(sections, name) ==
    LET its == {k \in DOMAIN sections : sections[k].name = name}
    IN  sections[CHOOSE k \in its : \A j \in its : j <= k]

\* What has been popped is not there for a second time.
Picked(sections, names) ==
    LET Has(name) == \E k \in DOMAIN sections : sections[k].name = name
        First(i) == \A j \in 1..(i - 1) : names[j] # names[i]
        listed == KeptAt(names, {i \in DOMAIN names : Has(names[i]) /\ First(i)})
    IN  [k \in DOMAIN listed |-> NamedBy(sections, listed[k])]

\* order_sections: "Main", the template, the others by name, "Contact".  A
\* section called "Optional" is dropped.
Ordered(sections, p) ==
    LET Shown(s) == s.name # "Optional" /\ s.pages # <<>>
        pinned == {"Main", "Contact", "Optional"}
        Free(name) == name \notin pinned
        Rest(name) == Free(name) /\ name \notin ToSet(TemplateOrder(p))
    IN  Picked(Those(sections, Shown),
               <<"Main">> \o Those(TemplateOrder(p), Free) \o Those(Alphabet, Rest)
                   \o <<"Contact">>)

\* apply_manual_order.
ManuallyOrdered(sections, names) ==
    LET Unlisted(name) == name \notin ToSet(names)
    IN  Picked(sections, names \o Those(Alphabet, Unlisted))

-----------------------------------------------------------------------------
(* llms.txt. *)

\* render_llmstxt.  build_result never asks to leave out the line that names
\* the companion file.  A link line holds the parts _link_line writes, as they
\* are; what its text reads as to a parser is LlmsRules' (WellFormed).
RenderIndex(name, summary, sections, optional, p) ==
    LET ordered == Ordered(sections, p)
        Links(pages) == [i \in DOMAIN pages |-> Link(pages[i])]
        Part(s) == <<Blank, Heading(2, <<s.name>>), Blank>> \o Links(s.pages)
    IN  <<Heading(1, name), Blank,
          Line("quote", 0, IF summary # <<>> THEN summary ELSE <<"Official">>, NoUrl), Blank,
          Prose(<<"For full page content, see", "llms-full.txt">>)>>
        \o Concat([k \in DOMAIN ordered |-> Part(ordered[k])])
        \o (IF optional = <<>> THEN <<>> ELSE Part(Section("Optional", optional)))
        \o <<Blank, Plain("break"), Plain("footer")>>

-----------------------------------------------------------------------------
(* One page's markdown, made fit to stand under an H2. *)

Emphasis == {"*", "_"}

Escaped(mark) == IF mark = "*" THEN "\\*" ELSE "\\_"

\* strip_emphasis: pairs of marks around the whole go, one that is left is escaped.
StripEmphasis(text) ==
    LET n == Len(text)
        Wraps(k) == 2 * k < n /\ text[k] \in Emphasis /\ text[n + 1 - k] = text[k]
        depth == CHOOSE d \in 0..n : (\A k \in 1..d : Wraps(k)) /\ ~Wraps(d + 1)
        inner == SubSeq(text, depth + 1, n - depth)
    IN  IF n > 0 /\ inner[1] \in Emphasis THEN <<Escaped(inner[1])>> \o Tail(inner) ELSE inner

\* _collapse_blanks: one blank line stands for a run, or two in a code fence.
Collapsed(lines) ==
    LET inside == Fenced(lines)
        Written(i) == lines[i].kind # "blank"
        Before(i) == {j \in 1..i : Written(j)}  \* ... and what stood up to line i
        RunStart(i) == CHOOSE j \in 1..i :
            /\ \A k \in j..i : ~Written(k)
            /\ j = 1 \/ Written(j - 1)
        Keeps(i) == \/ Written(i)
                    \/ /\ Before(i) # {} /\ \E j \in i..Len(lines) : Written(j)
                       /\ \/ i = RunStart(i)
                          \/ i = RunStart(i) + 1 /\ inside[RunStart(i)] /\ inside[i]
    IN  KeptAt(lines, {i \in DOMAIN lines : Keeps(i)})

\* Mutant: headings stay at their level.
Normalised_Unshifted(lines) ==
    LET inside == Fenced(lines)
        Counts(i) == ~inside[i] /\ lines[i].kind = "heading"
        Rewritten(i) ==
            IF Counts(i)
            THEN Heading(Least(6, lines[i].level), StripEmphasis(lines[i].text))
            ELSE IF ~inside[i] /\ lines[i].kind = "source" THEN Prose(<<"Source\\:">>)
            ELSE lines[i]
        Said(i) == ~(Counts(i) /\ lines[i].text = <<>>)
    IN  Collapsed(KeptAt([i \in DOMAIN lines |-> Rewritten(i)], {i \in DOMAIN lines : Said(i)}))

\* normalise_body: headings go down to the third level and below, a line that
\* reads like a page boundary no longer does.
Normalised(lines) ==
    LET inside == Fenced(lines)
        Counts(i) == ~inside[i] /\ lines[i].kind = "heading"
        levels == {lines[i].level : i \in {j \in DOMAIN lines : Counts(j) /\ lines[j].text # <<>>}}
        shift == IF levels = {} THEN 0
                 ELSE Most(0, 3 - CHOOSE l \in levels : \A m \in levels : l <= m)
        Rewritten(i) ==
            IF Counts(i)
            THEN Heading(Least(6, lines[i].level + shift), StripEmphasis(lines[i].text))
            ELSE IF ~inside[i] /\ lines[i].kind = "source" THEN Prose(<<"Source\\:">>)
            ELSE lines[i]
        Said(i) == ~(Counts(i) /\ lines[i].text = <<>>)
    IN  Collapsed(KeptAt([i \in DOMAIN lines |-> Rewritten(i)], {i \in DOMAIN lines : Said(i)}))

NormalBody == [name \in DOMAIN Bodies |-> Normalised(Bodies[name])]

\* split_blocks: a blank line ends a block, but not in a code fence.
Blocks(lines) ==
    LET inside == Fenced(lines)
        Gap(i) == lines[i].kind = "blank" /\ ~inside[i]
        starts == {i \in DOMAIN lines : ~Gap(i) /\ (i = 1 \/ Gap(i - 1))}
        End(i) == CHOOSE j \in i..Len(lines) :
            (\A k \in i..j : ~Gap(k)) /\ (j = Len(lines) \/ Gap(j + 1))
        order == Ascending(starts)
    IN  [k \in DOMAIN order |-> SubSeq(lines, order[k], End(order[k]))]

Joined(blocks) ==
    Concat([k \in DOMAIN blocks |-> IF k = 1 THEN blocks[k] ELSE <<Blank>> \o blocks[k]])

\* hoist_repeated: the blocks, code apart, that more than a few pages share, the
\* most frequent first.
MostShared(blocks) ==
    LET flat == Concat(blocks)
        Shares(block) == Cardinality({b \in DOMAIN blocks : block \in ToSet(blocks[b])})
        First(i) == \A j \in 1..(i - 1) : flat[j] # flat[i]
        chosen == {i \in DOMAIN flat : /\ First(i) /\ flat[i][1].kind # "fence"
                                       /\ Size(flat[i]) >= MinRepeat
                                       /\ Shares(flat[i]) > RepeatThreshold}
        Ahead(i, j) == \/ Shares(flat[i]) > Shares(flat[j])
                       \/ Shares(flat[i]) = Shares(flat[j]) /\ i < j
        order == InOrder(chosen, [i \in chosen |-> {j \in chosen : Ahead(j, i)}])
    IN  [k \in DOMAIN order |-> flat[order[k]]]

Repeated(bodies) == MostShared([b \in DOMAIN bodies |-> Blocks(bodies[b])])

Trimmed(body, drop) == LET Own(block) == block \notin drop IN Joined(Those(Blocks(body), Own))

-----------------------------------------------------------------------------
(* llms-full.txt. *)

SharedPart(shared) ==
    <<Blank, Heading(3, <<"Repeated">>), Blank, Prose(<<"Included once">>), Blank>>
        \o Joined(shared)

PageBlock(title, url, body) ==
    <<Blank, Plain("break"), Blank, Heading(2, StripEmphasis(title)), Blank,
      Line("source", 0, <<"Source:">>, url), Blank>> \o body

\* The blocks that fit, taken in order: one that does not fit is passed over.
Fitting(blocks, start, budget) ==
    LET used[k \in 0..Len(blocks)] ==
            IF k = 0 THEN start
            ELSE IF used[k - 1] + Size(blocks[k]) > budget THEN used[k - 1]
            ELSE used[k - 1] + Size(blocks[k])
    IN  KeptAt(blocks, {k \in DOMAIN blocks : ~(used[k - 1] + Size(blocks[k]) > budget)})

\* Mutant: no room is kept for the note.
Room_Unreserved(most) == most
Room(most) == most - NoteReserve

\* The text of pages in order, each by what is its own, under what they share.
FullText(name, pages, own, shared, most) ==
    LET solid == Ascending({i \in DOMAIN pages : own[i] # <<>>})
        top == <<Heading(1, name), Blank>> \o (IF shared = <<>> THEN <<>> ELSE SharedPart(shared))
        Block(i) == PageBlock(DisplayTitle(pages[i]), pages[i].url, own[i])
        blocks == [k \in DOMAIN solid |-> Block(solid[k])]
        fitting == Fitting(blocks, Size(top), Room(most))
    IN  top \o Concat(fitting)
            \o (IF Len(fitting) < Len(pages) THEN Note ELSE <<>>)

Hoisted(name, pages, bodies, shared, most) ==
    FullText(name, pages,
             [i \in DOMAIN bodies |-> IF shared = <<>> THEN bodies[i] ELSE Trimmed(bodies[i], ToSet(shared))],
             shared, most)

\* render_llms_full.
RenderFull(name, pages, most) ==
    LET Filled(page) == page.markdown # Unset
        ordered == ByImportance(Those(pages, Filled))
        bodies == [i \in DOMAIN ordered |-> NormalBody[ordered[i].markdown]]
    IN  IF ordered = <<>> THEN <<>> ELSE Hoisted(name, ordered, bodies, Repeated(bodies), most)

-----------------------------------------------------------------------------
(* Results. *)

\* validate: the levels of what is wrong with an index.
Issues(index, pages) ==
    LET Is(kind) == {i \in DOMAIN index : index[i].kind = kind}
        Says(i, word) == word \in Words(index[i].text)
    IN  {level \in {"error", "warning", "info"} :
          CASE level = "error" ->
                 \/ index = <<>> \/ index[1].kind # "heading" \/ index[1].level # 1
                 \/ Is("quote") \cap 1..5 = {}
            [] level = "warning" -> \E i \in DOMAIN index : index[i].kind = "html"
            [] level = "info" ->
                 \/ \A i \in Is("heading") : index[i].level # 2
                 \/ /\ \A i \in Is("heading") : ~Says(i, "Contact")
                    /\ \A page \in ToSet(pages) : ~LooksContact(page)
                 \/ \A i \in DOMAIN index : ~Says(i, "llms-full.txt")}

PagesOf(sections) == Concat([k \in DOMAIN sections |-> sections[k].pages])

\* build_result.
Built(name, summary, sections, optional, p, withFull, judged) ==
    LET ordered == Ordered(sections, p)
        index == RenderIndex(name, summary, ordered, optional, p)
    IN  [name |-> name, summary |-> summary, sections |-> ordered, optional |-> optional,
         index |-> index, issues |-> Issues(index, judged),
         full |-> IF withFull THEN RenderFull(name, PagesOf(ordered) \o optional, MaxSize)
                  ELSE <<>>]

\* The filters and the fallback copy work on the pages of the whole site.
Shortlist(pages) ==
    LET kept == Filtered(pages, TaskFilters) IN [i \in DOMAIN kept |-> WithFallback(kept[i])]

\* generate, with the sections of _sections_from if a model placed any page;
\* these hold the pages as they were.
ByModel(pages) == \E i \in DOMAIN pages : Assigned(pages[i])
Sectioned(pages) == IF ByModel(pages) THEN SectionsFrom(pages) ELSE GroupedByUrl(Shortlist(pages))

Generated(pages, name, summary, p, withFull) ==
    LET grouped == Sectioned(pages)
    IN  Built(name, summary, grouped.sections, grouped.optional, p, withFull, Shortlist(pages))

\* rebuild.
Rebuilt(old, off, names, p) ==
    LET Stays(page) == page.url \notin off
        Filled(s) == s.pages # <<>>
        kept == Those([k \in DOMAIN old.sections |->
                    [old.sections[k] EXCEPT !.pages = Those(@, Stays)]], Filled)
        sections == IF names = <<>> THEN kept ELSE ManuallyOrdered(kept, names)
        optional == Those(old.optional, Stays)
    IN  Built(old.name, old.summary, sections, optional, p, old.full # <<>>,
              PagesOf(sections) \o optional)

-----------------------------------------------------------------------------
(* Rows.  The stored pages are in the order of the entries, and addresses  *)
(* sort in that order too.                                                 *)

Stored(page) ==
    [title |-> page.title, description |-> page.description, section |-> page.section,
     optional |-> page.optional, position |-> 0, included |-> TRUE]

\* Page.to_entry; where a page is placed stays in its row, and is read there.
Entry(i) ==
    [entries[i] EXCEPT !.title = rows[i].title, !.description = rows[i].description,
                       !.section = Unset, !.optional = FALSE]

\* store_result: what is in the file is written to its rows, the others keep
\* what they had.
WrittenBack(built) ==
    LET Places(i, pages) == {n \in DOMAIN pages : pages[n].url = entries[i].url}
        Holding(i) == {k \in DOMAIN built.sections : Places(i, built.sections[k].pages) # {}}
        Copied(row, page) ==
            [row EXCEPT !.title = IF page.title # <<>> THEN page.title ELSE @,
                        !.description = IF page.description # <<>> THEN page.description ELSE @]
        InSection(i) ==
            LET k == CHOOSE k \in Holding(i) : \A j \in Holding(i) : j <= k
                n == CHOOSE n \in Places(i, built.sections[k].pages) : TRUE
            IN  [Copied(rows[i], built.sections[k].pages[n]) EXCEPT
                    !.section = built.sections[k].name, !.optional = FALSE,
                    !.position = 1000 * (k - 1) + n - 1]
        Skippable(i) ==
            [Copied(rows[i], built.optional[CHOOSE n \in Places(i, built.optional) : TRUE]) EXCEPT
                !.section = Unset, !.optional = TRUE]
    IN  [i \in DOMAIN rows |->
            IF Holding(i) # {} THEN InSection(i)
            ELSE IF Places(i, built.optional) # {} THEN Skippable(i)
            ELSE rows[i]]

\* Mutant: the last of a section comes first.
FromRows_Backwards(ticked) ==
    LET Ahead(i, j) == \/ ticked[i].position > ticked[j].position
                       \/ ticked[i].position = ticked[j].position /\ i < j
        order == InOrder(DOMAIN ticked, [i \in DOMAIN ticked |-> {j \in DOMAIN ticked : Ahead(j, i)}])
        Optional(i) == ticked[i].optional
        Main(i) == ~ticked[i].optional
        Name(i) == IF ticked[i].section = Unset THEN "Pages" ELSE ticked[i].section
        Pages(places) == [k \in DOMAIN places |-> Entry(places[k])]
        main == Those(order, Main)
        groups == Grouped(main, [k \in DOMAIN main |-> Name(main[k])])
    IN  [name |-> file.name, summary |-> file.summary, full |-> file.full,
         sections |-> [k \in DOMAIN groups |-> Section(groups[k].name, Pages(groups[k].pages))],
         optional |-> Pages(Those(order, Optional))]

\* _result_from_rows: pages by position; one without a section is under "Pages".
FromRows(ticked) ==
    LET Ahead(i, j) == \/ ticked[i].position < ticked[j].position
                       \/ ticked[i].position = ticked[j].position /\ i < j
        order == InOrder(DOMAIN ticked, [i \in DOMAIN ticked |-> {j \in DOMAIN ticked : Ahead(j, i)}])
        Optional(i) == ticked[i].optional
        Main(i) == ~ticked[i].optional
        Name(i) == IF ticked[i].section = Unset THEN "Pages" ELSE ticked[i].section
        Pages(places) == [k \in DOMAIN places |-> Entry(places[k])]
        main == Those(order, Main)
        groups == Grouped(main, [k \in DOMAIN main |-> Name(main[k])])
    IN  [name |-> file.name, summary |-> file.summary, full |-> file.full,
         sections |-> [k \in DOMAIN groups |-> Section(groups[k].name, Pages(groups[k].pages))],
         optional |-> Pages(Those(order, Optional))]

-----------------------------------------------------------------------------
(* The run. *)

NoAnswer == [section |-> Unset, optional |-> FALSE]
Answers == [section : ToSet(TemplateOrder(pattern)), optional : BOOLEAN]

\* triage_pages: a batch that failed, or a page left out of one, has no answer.
Placements == [DOMAIN entries -> Answers \cup {NoAnswer}]

NoFile == [name |-> <<>>, summary |-> <<>>, index |-> <<>>, full |-> <<>>, issues |-> {}]

\* What store_result keeps of a result, but for the rows.
Kept(built) == [name |-> built.name, summary |-> built.summary, index |-> built.index,
                full |-> built.full, issues |-> built.issues]

Untouched == [count |-> 0, same |-> FALSE]

\* The task has read the pages and scored them: entries and rows agree.
Init ==
    /\ pattern \in DOMAIN Templates /\ wantsFull \in FullAsked
    /\ \E pages \in Inventories :
          entries = [i \in DOMAIN pages |->
                        [pages[i] EXCEPT !.optional = LooksOptional(pages[i])]]
    /\ rows = [i \in DOMAIN entries |-> Stored(entries[i])]
    /\ stage = "crawled" /\ file = NoFile /\ edits = Untouched

\* The model places any of the pages, under the names of the template, and
\* its "optional" is refused for an identity page.
Triage ==
    /\ stage = "crawled"
    /\ \E answer \in Placements :
          entries' = [i \in DOMAIN entries |->
              IF answer[i] = NoAnswer THEN entries[i]
              ELSE [entries[i] EXCEPT
                       !.section = answer[i].section,
                       !.optional = answer[i].optional /\ ~IsIdentity(entries[i])]]
    /\ stage' = "triaged"
    /\ UNCHANGED <<pattern, wantsFull, rows, file, edits>>

\* summarise_pages: copy for some pages; what it leaves empty stays as it was.
Rewritten(pages, which, copy) ==
    [i \in DOMAIN pages |->
        IF i \notin which THEN pages[i]
        ELSE [pages[i] EXCEPT !.title = IF copy.title # <<>> THEN copy.title ELSE @,
                              !.description = IF copy.description # <<>>
                                              THEN copy.description \o pages[i].url.path ELSE @]]

\* enforce_copy_rules: a second try for those whose line breaks a rule; what still
\* breaks one is flagged and shipped.
Enforced(pages, again, copy) == Rewritten(pages, Faulty(pages) \cap again, copy)

Summarise ==
    /\ stage = "triaged"
    /\ \E written, again \in {{}, DOMAIN entries}, first, second \in Copies :
          entries' = Enforced(Rewritten(entries, written, first), again, second)
    /\ stage' = "written"
    /\ UNCHANGED <<pattern, wantsFull, rows, file, edits>>

\* generate and store_result.
Assemble ==
    /\ stage = "written"
    /\ \E summary \in Summaries \cup {<<>>} :
          LET built == Generated(entries, <<"Site">>, summary, pattern, wantsFull)
          IN  /\ file' = Kept(built)
              /\ rows' = WrittenBack(built)
    /\ stage' = "complete"
    /\ UNCHANGED <<pattern, wantsFull, entries, edits>>

\* What the task held is gone with it; the rest is as it was read.
Bare(page) == [page EXCEPT !.title = <<>>, !.description = <<>>, !.section = Unset,
                           !.optional = FALSE]

\* edit_pages: the form sends the ticked pages, and perhaps an order of
\* sections and another type of site.
EditPages(keep, names, p) ==
    LET ticked == [i \in DOMAIN rows |-> [rows[i] EXCEPT !.included = i \in keep]]
        off == {entries[i].url : i \in DOMAIN entries \ keep}
        built == Rebuilt(FromRows(ticked), off, names, p)
    IN  /\ stage = "complete" /\ edits.count < MaxEdits
        /\ pattern' = p
        /\ file' = Kept(built)
        /\ rows' = [i \in DOMAIN rows |-> [WrittenBack(built)[i] EXCEPT !.included = i \in keep]]
        /\ edits' = [count |-> edits.count + 1,
                     same |-> /\ edits.count > 0 /\ p = pattern /\ names = <<>>
                              /\ keep = {i \in DOMAIN rows : rows[i].included}]
        /\ entries' = [i \in DOMAIN entries |-> Bare(entries[i])]
        /\ UNCHANGED <<stage, wantsFull>>

\* The sections of the file, the other way round.
Orders ==
    LET Names(line) == line.kind = "heading" /\ line.level = 2
        headings == Reverse(Those(file.index, Names))
    IN  {<<>>, [k \in DOMAIN headings |-> headings[k].text[1]]}

Next ==
    \/ Triage \/ Summarise \/ Assemble
    \/ \E keep \in SUBSET DOMAIN entries, names \in Orders, p \in DOMAIN Templates :
          EditPages(keep, names, p)

Spec == Init /\ [][Next]_vars

-----------------------------------------------------------------------------
(* Properties. *)

Links == LET Is(line) == line.kind = "link" IN Those(file.index, Is)
Listed == Urls(Links)
SourceLines == LET Is(line) == line.kind = "source" IN Those(file.full, Is)
Sources == Urls(SourceLines)

\* What a file is expected to list: as it was made, the pages of the model's
\* sections or those that pass the filters; after an edit, the ticked ones.
\* What was put under "Optional" is lost with that section.
Expected ==
    LET byUrl == GroupedByUrl(Shortlist(entries)).sections
        first == Head(Those(entries, Assigned)).section
        Lost(i) == /\ ~entries[i].optional
                   /\ "Optional" = IF entries[i].section = Unset THEN first ELSE entries[i].section
    IN  IF edits.count > 0 THEN {entries[i].url : i \in {j \in DOMAIN rows : rows[j].included}}
        ELSE IF ByModel(entries)
        THEN {entries[i].url : i \in {j \in DOMAIN entries : ~Lost(j)}}
        ELSE Urls(Filtered(entries, TaskFilters))
                 \ UNION {Urls(byUrl[k].pages) : k \in {j \in DOMAIN byUrl : byUrl[j].name = "Optional"}}

\* No page is listed twice, none is lost on the way through grouping, ordering
\* and rebuilding, and none comes from nowhere.
ListedOnce ==
    stage = "complete" =>
        /\ Listed = Expected
        /\ Len(Links) = Cardinality(Listed)

\* An edit that ticks what the last edit ticked changes nothing: the rows hold
\* all that the file shows.
EditsSettle == [][edits'.same => file' = file]_vars

\* The pages that the full file is made of, by the places of their links, and
\* what each has of its own once what many share is said at the top.
Entered(l) == entries[CHOOSE i \in DOMAIN entries : entries[i].url = Links[l].url]
Eligible == {l \in DOMAIN Links : Entered(l).markdown # Unset}
BodyOf(l) == NormalBody[Entered(l).markdown]
BlocksOf(l) == ToSet(Blocks(BodyOf(l)))
SharedBlocks ==
    {block \in UNION {BlocksOf(l) : l \in Eligible} :
        /\ block[1].kind # "fence" /\ Size(block) >= MinRepeat
        /\ Cardinality({l \in Eligible : block \in BlocksOf(l)}) > RepeatThreshold}
OwnText(l) == IF SharedBlocks = {} THEN BodyOf(l) ELSE Trimmed(BodyOf(l), SharedBlocks)
Cost(l) == Size(PageBlock(Links[l].text, Links[l].url, OwnText(l)))

\* llms-full.txt holds a page once and none that the index does not list, keeps
\* to its budget once it holds one, and leaves out a page with a text of its own
\* only if it would not fit, and for a less important one only if it is longer.
\* (A line "Source: ..." in a code fence passes for the mark of a page.)
FullKeepsWhatMatters ==
    LET Out(l) == Links[l].url \notin Sources
        Clear(body) == \A i \in DOMAIN body : body[i].kind = "source" => ~Fenced(body)[i]
    IN  (/\ stage = "complete" /\ file.full # <<>>
         /\ \A l \in Eligible : Clear(Bodies[Entered(l).markdown])) =>
            /\ Len(SourceLines) = Cardinality(Sources)
            /\ Sources \subseteq {Links[l].url : l \in Eligible}
            /\ Sources # {} => Size(file.full) <= MaxSize
            /\ \A q \in Eligible : (Out(q) /\ OwnText(q) # <<>>) =>
                  /\ Size(file.full) + Cost(q) > Room(MaxSize)
                  /\ \A p \in Eligible :
                        (~Out(p) /\ Importance(Entered(q)) > Importance(Entered(p))) =>
                            Cost(q) > Cost(p)

\* "These can never be dropped and can never be marked Optional"
\* (app/core/ranking.py:284): an identity page is in the file.
IdentityIsListed ==
    (stage = "complete" /\ edits.count = 0) =>
        \A page \in ToSet(Filtered(entries, TaskFilters)) :
            IsIdentity(page) => page.url \in Listed

=============================================================================
