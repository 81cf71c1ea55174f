------------------------------ MODULE OwnFiles ------------------------------
(***************************************************************************)
(* The generator and the linter, which share a format and two patterns:    *)
(* what render.py and full_text.py write, document.py reads.               *)
(***************************************************************************)
EXTENDS LlmsFile, LlmsRules

\* A body that the full file can hold: every code fence is closed, none holds a
\* line "Source: ..." or a heading that begins with emphasis, and no "Source:"
\* is on a line of its own.  normalise_body mends none of these.
Safe(body) ==
    LET inside == Fenced(body)
        Emphasised(line) == line.kind = "heading" /\ line.text # <<>> /\ Head(line.text) \in Emphasis
    IN  /\ Cardinality({i \in DOMAIN body : body[i].kind = "fence"}) % 2 = 0
        /\ \A i \in DOMAIN body :
              /\ inside[i] => body[i].kind # "source" /\ ~Emphasised(body[i])
              /\ ~Lone(body[i])

NoProfile == [maxBytes |-> 0, minLinks |-> 0, maxLinks |-> 0, sections |-> <<>>]
Offline == [checked |-> FALSE, companion |-> FALSE, answers |-> {}]

\* The rules of structure.
IndexStructure == {"IDX-001", "IDX-002", "IDX-003", "IDX-004", "IDX-005", "IDX-006"}
FullStructure == {"FULL-001", "FULL-002", "FULL-003", "FULL-006", "FULL-007"}

Failed == Audit(file.index, file.full, NoProfile, Offline).failed

\* The linter reads the program's own two files as they were meant.  Of the
\* index, every link is found under its heading and no rule of structure fails,
\* but that a title with a "]" or an address with a ")" is a malformed item
\* (IDX-006).  Of the full file, every page is found with its source, and no
\* other, and no rule of structure fails, but that a page without a title leaves
\* a space behind its heading (FULL-006); this whatever headings, code, "Source:"
\* lines and emphasis the bodies bring, as long as they are safe.
OwnFileReads ==
    stage = "complete" =>
        LET index == ParseIndex(file.index)
            full == ParseFull(file.full)
            Formed(link) == ~Malformed(link)
            Titled(line) == line.kind = "heading" /\ line.level = 2
            titles == Those(file.index, Titled)
            misread == \E link \in ToSet(Links) : ~WellFormed(link)
            untitled == \E link \in ToSet(Links) : link.text = <<>> /\ link.url \in Sources
        IN  /\ Failed \cap IndexStructure = IF misread THEN {"IDX-006"} ELSE {}
            /\ Those(DocLinks(index), Formed) = Those(Links, WellFormed)
            /\ Len(DocLinks(index)) = Len(Links)
            /\ [k \in DOMAIN index.sections |-> index.sections[k].name]
                   = [k \in DOMAIN titles |-> titles[k].text]
            /\ (\A page \in ToSet(entries) : page.markdown # Unset => Safe(Bodies[page.markdown])) =>
                  /\ Failed \cap FullStructure = IF untitled THEN {"FULL-006"} ELSE {}
                  /\ {page.source : page \in ToSet(full.pages)} = Sources
                  /\ Len(full.pages) = Cardinality(Sources)

\* "So the thing that generates and the thing that checks cannot drift apart"
\* (app/core/full_text.py:8-11): a file of the program's own passes.
OwnFilePasses == stage = "complete" => Failed \cap (IndexStructure \cup FullStructure) = {}

=============================================================================
