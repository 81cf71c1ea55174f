------------------------ MODULE SiteDocuments_proofs ------------------------
(***************************************************************************)
(* What holds of the stored pages and files for every site, every number   *)
(* of runs, of jobs and of chat turns in flight.                           *)
(***************************************************************************)
EXTENDS SiteDocuments, FiniteSetTheorems, SequenceTheorems, TLAPS

-----------------------------------------------------------------------------
(* Rows, files, revisions. *)

LEMMA WithoutPages ==
  ASSUME NEW lines \in Lines, NEW pages
  PROVE  /\ Without(lines, pages) \in Lines
         /\ Shown(Without(lines, pages)) = Shown(lines) \ pages
  BY DEF Without, Shown, Lines

LEMMA PurgedText ==
  ASSUME NEW text \in Texts, NEW pages
  PROVE  /\ PurgedFull(text, pages) \in Texts
         /\ PurgedFull(text, pages).urls \subseteq text.urls
         /\ PurgedFull(text, pages).urls \cap pages = {}
         /\ PurgedFull(text, pages).kept => PurgedFull(text, pages) = text
  <1>1. CASE text = Blank
    BY <1>1 DEF PurgedFull, Texts, Blank
  <1>2. CASE text \in [kept : {TRUE}, urls : SUBSET Urls]
    BY <1>2 DEF PurgedFull, Texts, Blank
  <1> QED BY <1>1, <1>2 DEF Texts

LEMMA RenderedTypes ==
  ASSUME NEW lines \in Lines, NEW included, NEW text \in Texts
  PROVE  /\ Rendered(lines, included) \in Lines
         /\ Shown(Rendered(lines, included)) \subseteq Shown(lines)
         /\ RenderedFull(text, lines) \in Texts
         /\ RenderedFull(text, lines).urls \subseteq Shown(lines)
         /\ RenderedFull(text, lines).kept => RenderedFull(text, lines).urls = Shown(lines)
  <1>1. /\ Rendered(lines, included) \in Lines
        /\ Shown(Rendered(lines, included)) \subseteq Shown(lines)
    BY WithoutPages DEF Rendered
  <1>2. Shown(lines) \in SUBSET Urls
    BY DEF Shown
  <1> QED BY <1>1, <1>2 DEF RenderedFull, Bodies, Blank, Texts

LEMMA EditedTypes ==
  ASSUME NEW lines \in Lines, NEW included \in SUBSET Urls, NEW u \in Urls, NEW edit \in Edits
  PROVE  /\ EditedRows(edit, u, lines) \in Lines
         /\ EditedTicks(edit, u, included) \in SUBSET Urls
         /\ Shown(EditedRows(edit, u, lines)) \subseteq Shown(lines) \cup {u}
  BY DEF EditedRows, EditedTicks, Lines, Copies, Shown, Edits

LEMMA FunctionAsSequence ==
  ASSUME NEW S, NEW n \in Nat, NEW f \in [1..n -> S]
  PROVE  f \in Seq(S) /\ Len(f) = n
  <1>1. f \in Seq(S)
    BY SeqDef
  <1>2. DOMAIN f = 1..Len(f) /\ Len(f) \in Nat
    BY <1>1, LenProperties
  <1>3. 1..Len(f) = 1..n
    BY <1>2
  <1> QED BY <1>1, <1>2, <1>3

LEMMA PurgedOne ==
  ASSUME NEW rev \in Revisions, NEW pages
  PROVE  /\ PurgedRevision(rev, pages) \in Revisions
         /\ Shown(PurgedRevision(rev, pages).listed) = Shown(rev.listed) \ pages
         /\ PurgedRevision(rev, pages).full = PurgedFull(rev.full, pages)
  <1>1. /\ Without(rev.listed, pages) \in Lines /\ PurgedFull(rev.full, pages) \in Texts
        /\ Shown(Without(rev.listed, pages)) = Shown(rev.listed) \ pages
    BY WithoutPages, PurgedText DEF Revisions
  <1> QED BY <1>1 DEF Revisions, PurgedRevision

-----------------------------------------------------------------------------
(* Types. *)

\* What `purge_embargoed` makes of every place, run by run.
LEMMA PurgeEffect ==
  ASSUME TypeOfDocuments, metrics \in SUBSET Urls, NEW pages, Purge(pages)
  PROVE  /\ rows' \in [Runs -> Lines]
         /\ ticked' \in [Runs -> SUBSET Urls]
         /\ listed' \in [Runs -> Lines]
         /\ full' \in [Runs -> Texts]
         /\ revisions' \in [Runs -> Seq(Revisions)]
         /\ metrics' = metrics \ pages
         /\ \A r \in Runs :
              /\ rows'[r] = Without(rows[r], pages)
              /\ ticked'[r] = ticked[r] \ pages
              /\ listed'[r] = Without(listed[r], pages)
              /\ full'[r] = PurgedFull(full[r], pages)
              /\ Len(revisions'[r]) = Len(revisions[r])
              /\ \A i \in 1..Len(revisions[r]) :
                   /\ Shown(revisions'[r][i].listed) = Shown(revisions[r][i].listed) \ pages
                   /\ revisions'[r][i].full = PurgedFull(revisions[r][i].full, pages)
  <1>1. \A r \in Runs : /\ rows[r] \in Lines /\ listed[r] \in Lines
                        /\ full[r] \in Texts /\ ticked[r] \in SUBSET Urls
                        /\ revisions[r] \in Seq(Revisions)
    BY DEF TypeOfDocuments
  <1>2. \A r \in Runs : /\ Without(rows[r], pages) \in Lines
                        /\ Without(listed[r], pages) \in Lines
                        /\ PurgedFull(full[r], pages) \in Texts
    BY <1>1, WithoutPages, PurgedText
  <1>3. /\ rows' \in [Runs -> Lines] /\ ticked' \in [Runs -> SUBSET Urls]
        /\ listed' \in [Runs -> Lines] /\ full' \in [Runs -> Texts]
        /\ metrics' = metrics \ pages
        /\ \A r \in Runs : /\ rows'[r] = Without(rows[r], pages)
                           /\ ticked'[r] = ticked[r] \ pages
                           /\ listed'[r] = Without(listed[r], pages)
                           /\ full'[r] = PurgedFull(full[r], pages)
    <2>1. /\ rows' = [r \in Runs |-> Without(rows[r], pages)]
          /\ ticked' = [r \in Runs |-> ticked[r] \ pages]
          /\ metrics' = metrics \ pages
          /\ listed' = [r \in Runs |-> Without(listed[r], pages)]
          /\ full' = [r \in Runs |-> PurgedFull(full[r], pages)]
      BY DEF Purge
    <2> QED BY <2>1, <1>1, <1>2
  <1>4. ASSUME NEW r \in Runs
        PROVE  /\ revisions'[r] \in Seq(Revisions)
               /\ Len(revisions'[r]) = Len(revisions[r])
               /\ \A i \in 1..Len(revisions[r]) :
                    /\ Shown(revisions'[r][i].listed) = Shown(revisions[r][i].listed) \ pages
                    /\ revisions'[r][i].full = PurgedFull(revisions[r][i].full, pages)
    <2>1. revisions'[r] = [i \in 1..Len(revisions[r]) |->
                            PurgedRevision(revisions[r][i], pages)]
      BY DEF Purge
    <2> DEFINE old == revisions[r]  new == revisions'[r]
    <2>2. new = [i \in 1..Len(old) |-> PurgedRevision(old[i], pages)]
      BY <2>1
    <2>3. old \in Seq(Revisions)
      BY <1>1
    <2> HIDE DEF old, new
    <2>4. \A i \in 1..Len(old) : /\ old[i] \in Revisions
                                 /\ new[i] = PurgedRevision(old[i], pages)
      BY <2>2, <2>3, ElementOfSeq
    <2>5. new \in [1..Len(old) -> Revisions]
      BY <2>2, <2>4, PurgedOne
    <2>6. Len(old) \in Nat
      BY <2>3, LenProperties
    <2>7. new \in Seq(Revisions) /\ Len(new) = Len(old)
      BY <2>5, <2>6, FunctionAsSequence
    <2>8. \A i \in 1..Len(old) :
            /\ Shown(new[i].listed) = Shown(old[i].listed) \ pages
            /\ new[i].full = PurgedFull(old[i].full, pages)
      BY <2>4, PurgedOne
    <2> QED BY <2>7, <2>8 DEF old, new
  <1>5. revisions' \in [Runs -> Seq(Revisions)]
    <2>1. DOMAIN revisions' = Runs /\ revisions' = [r \in Runs |-> revisions'[r]]
      BY Zenon DEF Purge
    <2> QED BY <2>1, <1>4
  <1> QED BY <1>3, <1>4, <1>5

LEMMA InitType == Init => TypeOK
  <1> SUFFICES ASSUME Init PROVE TypeOK
    OBVIOUS
  <1> USE DEF Init
  <1>1. /\ [u \in Urls |-> "none"] \in Lines /\ Blank \in Texts
        /\ <<>> \in Seq(Revisions)
    BY EmptySeq DEF Lines, Texts, Blank
  <1>2. TypeOfDocuments
    BY <1>1 DEF TypeOfDocuments
  <1>3. TypeOfJobs /\ TypeOfTurns /\ TypeOfDomain /\ TypeOfHistory
    BY DEF TypeOfJobs, TypeOfTurns, TypeOfDomain, TypeOfHistory
  <1> QED BY <1>2, <1>3 DEF TypeOK

LEMMA ReplacedTypes ==
  ASSUME TypeOfDocuments, NEW r \in Runs, NEW pages \in SUBSET Urls, ReplacePages(r, pages)
  PROVE  rows' \in [Runs -> Lines] /\ ticked' \in [Runs -> SUBSET Urls]
  <1>1. [u \in Urls |-> IF u \in pages THEN "page" ELSE "none"] \in Lines
    BY DEF Lines, Copies
  <1> QED BY <1>1 DEF ReplacePages, TypeOfDocuments

LEMMA SnapshotType ==
  ASSUME TypeOfTurns, NEW c \in Chats, chat[c].busy, NEW lines, NEW text
  PROVE  /\ chat[c] \in Turns
         /\ chat[c].run \in Runs /\ chat[c].rows \in Lines /\ chat[c].ticked \in SUBSET Urls
         /\ chat[c].listed \in Lines /\ chat[c].full \in Texts
         /\ Snapshot(c, lines, text) \in Revisions
         /\ Snapshot(c, lines, text) =
              [listed |-> chat[c].listed, full |-> chat[c].full, pages |-> Shown(chat[c].rows)]
  <1>1. chat[c] \in Turns
    BY DEF TypeOfTurns, NoChat
  <1>2. /\ chat[c].run \in Runs /\ chat[c].rows \in Lines /\ chat[c].ticked \in SUBSET Urls
        /\ chat[c].listed \in Lines /\ chat[c].full \in Texts
    BY <1>1 DEF Turns
  <1>3. Shown(chat[c].rows) \in SUBSET Urls
    BY DEF Shown
  <1> QED BY <1>1, <1>2, <1>3 DEF Snapshot, Revisions

LEMMA ChatEndsType ==
  ASSUME TypeOfTurns, NEW c \in Chats, ChatEnds(c)
  PROVE  chat' \in [Chats -> Turns \cup {NoChat}]
  BY DEF TypeOfTurns, ChatEnds

\* The files a turn renders, and the revision it leaves.
TurnLines(c, u, edit) ==
    Rendered(EditedRows(edit, u, chat[c].rows), EditedTicks(edit, u, chat[c].ticked))
TurnText(c, u, edit) == RenderedFull(chat[c].full, TurnLines(c, u, edit))
Kept(c) == [listed |-> chat[c].listed, full |-> chat[c].full, pages |-> Shown(chat[c].rows)]

\* What a turn that lands does, with its operation named.
Landed(c, r, u, edit) ==
    /\ chat[c].busy /\ r = chat[c].run /\ r \in Runs /\ u \in Urls
    /\ TurnLines(c, u, edit) \in Lines /\ TurnText(c, u, edit) \in Texts
    /\ Kept(c) \in Revisions
    /\ rows[r][u] # "none"
    /\ rows' = [rows EXCEPT ![r] = EditedRows(edit, u, rows[r])]
    /\ EditedRows(edit, u, rows[r]) \in Lines
    /\ ticked' \in [Runs -> SUBSET Urls]
    /\ ticked'[r] = IF edit # "tick" THEN ticked[r]
                    ELSE IF u \in chat[c].ticked THEN ticked[r] \ {u}
                    ELSE ticked[r] \cup {u}
    /\ \A x \in Runs \ {r} : ticked'[x] = ticked[x]
    /\ \E new \in {listed[r], TurnLines(c, u, edit)} :
         /\ listed' = [listed EXCEPT ![r] = new]
         /\ new # TurnLines(c, u, edit) => TurnLines(c, u, edit) = chat[c].listed
    /\ \E new \in {full[r], TurnText(c, u, edit)} :
         /\ full' = [full EXCEPT ![r] = new]
         /\ new # TurnText(c, u, edit) => TurnText(c, u, edit) = chat[c].full
    /\ revisions' = [revisions EXCEPT ![r] = Append(revisions[r], Kept(c))]
    /\ ledger' = [ledger EXCEPT ![r] = ledger[r] + 1]
    /\ crossed' = [crossed EXCEPT ![r] = crossed[r] \/ Overlapped(r, {c})]
    /\ dropped' = [dropped EXCEPT ![r] = {}]
    /\ chat' = [chat EXCEPT ![c] = NoChat]
    /\ UNCHANGED <<embargo, metrics, written, job, calls, overtaken, uploaded>>

LEMMA AppliedTurn ==
  ASSUME TypeOK, NEW c \in Chats, ChatApplied(c)
  PROVE  \E r \in Runs, u \in Shown(chat[c].rows), edit \in Edits : Landed(c, r, u, edit)
  <1> DEFINE r == chat[c].run
  <1>1. chat[c].busy
    BY DEF ChatApplied
  <1>2. /\ chat[c] \in Turns /\ r \in Runs /\ chat[c].rows \in Lines
        /\ chat[c].ticked \in SUBSET Urls
        /\ chat[c].listed \in Lines /\ chat[c].full \in Texts
    BY <1>1, SnapshotType DEF TypeOK
  <1>3. PICK u \in Shown(chat[c].rows), edit \in Edits :
          /\ Lands(c, u)
          /\ rows' = [rows EXCEPT ![r] = EditedRows(edit, u, @)]
          /\ ticked' = [ticked EXCEPT ![r] =
               IF edit # "tick" THEN @
               ELSE IF u \in chat[c].ticked THEN @ \ {u} ELSE @ \cup {u}]
          /\ \E new \in Landing(TurnLines(c, u, edit), chat[c].listed, listed[r]) :
               listed' = [listed EXCEPT ![r] = new]
          /\ \E new \in Landing(TurnText(c, u, edit), chat[c].full, full[r]) :
               full' = [full EXCEPT ![r] = new]
          /\ revisions' = [revisions EXCEPT ![r] =
               Append(@, Snapshot(c, TurnLines(c, u, edit), TurnText(c, u, edit)))]
    BY Zenon DEF ChatApplied, TurnLines, TurnText
  <1>4. /\ RecordSpend(r)
        /\ crossed' = [crossed EXCEPT ![r] = @ \/ Overlapped(r, {c})]
        /\ dropped' = [dropped EXCEPT ![r] = {}]
        /\ ChatEnds(c)
        /\ UNCHANGED <<embargo, metrics, written, job, calls, overtaken, uploaded>>
    BY DEF ChatApplied
  <1>5. u \in Urls /\ rows[r] \in Lines /\ ticked[r] \in SUBSET Urls
    BY <1>2 DEF Shown, TypeOK, TypeOfDocuments
  <1>6. /\ TurnLines(c, u, edit) \in Lines /\ TurnText(c, u, edit) \in Texts
        /\ EditedRows(edit, u, rows[r]) \in Lines
    BY <1>2, <1>5, EditedTypes, RenderedTypes DEF TurnLines, TurnText
  <1>7. Kept(c) \in Revisions /\ Snapshot(c, TurnLines(c, u, edit), TurnText(c, u, edit)) = Kept(c)
    BY <1>1, SnapshotType DEF TypeOK, Kept
  <1>8. /\ ticked' \in [Runs -> SUBSET Urls]
        /\ ticked'[r] = IF edit # "tick" THEN ticked[r]
                        ELSE IF u \in chat[c].ticked THEN ticked[r] \ {u}
                        ELSE ticked[r] \cup {u}
        /\ \A x \in Runs \ {r} : ticked'[x] = ticked[x]
    BY <1>2, <1>3, <1>5 DEF TypeOK, TypeOfDocuments
  <1>9. \E new \in {listed[r], TurnLines(c, u, edit)} :
          /\ listed' = [listed EXCEPT ![r] = new]
          /\ new # TurnLines(c, u, edit) => TurnLines(c, u, edit) = chat[c].listed
    BY <1>3, Zenon DEF Landing
  <1>10. \E new \in {full[r], TurnText(c, u, edit)} :
          /\ full' = [full EXCEPT ![r] = new]
          /\ new # TurnText(c, u, edit) => TurnText(c, u, edit) = chat[c].full
    BY <1>3, Zenon DEF Landing
  <1>11. /\ rows[r][u] # "none"
         /\ rows' = [rows EXCEPT ![r] = EditedRows(edit, u, rows[r])]
         /\ revisions' = [revisions EXCEPT ![r] = Append(revisions[r], Kept(c))]
    BY <1>3, <1>7, Zenon DEF Lands
  <1>12. /\ ledger' = [ledger EXCEPT ![r] = ledger[r] + 1]
         /\ crossed' = [crossed EXCEPT ![r] = crossed[r] \/ Overlapped(r, {c})]
         /\ dropped' = [dropped EXCEPT ![r] = {}]
         /\ chat' = [chat EXCEPT ![c] = NoChat]
         /\ UNCHANGED <<embargo, metrics, written, job, calls, overtaken, uploaded>>
    BY <1>4, Zenon DEF RecordSpend, ChatEnds
  <1>13. /\ chat[c].busy /\ r \in Runs /\ u \in Urls
         /\ TurnLines(c, u, edit) \in Lines /\ TurnText(c, u, edit) \in Texts
         /\ Kept(c) \in Revisions
         /\ EditedRows(edit, u, rows[r]) \in Lines
    BY <1>1, <1>2, <1>5, <1>6, <1>7
  <1>14. Landed(c, r, u, edit)
    BY <1>3, <1>8, <1>9, <1>10, <1>11, <1>12, <1>13, Zenon DEF Landed
  <1> QED BY <1>2, <1>14

LEMMA NextType == TypeOK /\ [Next]_vars => TypeOK'
  <1> SUFFICES ASSUME TypeOK, [Next]_vars PROVE TypeOK'
    OBVIOUS
  <1>t. TypeOfDocuments /\ TypeOfJobs /\ TypeOfTurns /\ TypeOfDomain /\ TypeOfHistory
    BY DEF TypeOK
  <1>1. ASSUME NEW pages \in Embargoes, SaveBrief(pages) PROVE TypeOK'
    <2> USE DEF SaveBrief, job, spend
    <2>1. pages \in SUBSET Urls
      BY EmbargoAssumption
    <2>2. Purge(pages)
      BY <1>1
    <2>3. TypeOfDocuments' /\ metrics' \in SUBSET Urls
      BY <1>t, <1>1, <2>2, PurgeEffect DEF TypeOfDocuments, TypeOfDomain
    <2>4. TypeOfJobs' /\ TypeOfTurns'
      BY <1>t, <1>1 DEF TypeOfJobs, TypeOfTurns
    <2>5. TypeOfDomain' /\ TypeOfHistory'
      BY <1>t, <1>1, <2>1, <2>3 DEF TypeOfDomain, TypeOfHistory, InFlight, Overlapped
    <2> QED BY <2>3, <2>4, <2>5 DEF TypeOK
  <1>2. CASE SkipBrief
    BY <1>t, <1>2 DEF SkipBrief, documents, job, spend, history,
         TypeOK, TypeOfDocuments, TypeOfJobs, TypeOfTurns, TypeOfDomain, TypeOfHistory
  <1>3. ASSUME NEW pages \in Uploads, UploadMetrics(pages) PROVE TypeOK'
    BY <1>t, <1>3, UploadAssumption DEF UploadMetrics, documents, job, spend,
         TypeOK, TypeOfDocuments, TypeOfJobs, TypeOfTurns, TypeOfDomain, TypeOfHistory
  <1>4. ASSUME NEW r \in Runs, ImportRun(r) PROVE TypeOK'
    <2> USE DEF ImportRun, spend, history
    <2>1. PICK pages \in SUBSET Urls : ReplacePages(r, pages \ embargo)
      BY <1>4
    <2>2. rows' \in [Runs -> Lines] /\ ticked' \in [Runs -> SUBSET Urls]
      BY <1>t, <2>1, ReplacedTypes
    <2>3. TypeOfDocuments'
      BY <1>t, <1>4, <2>2 DEF TypeOfDocuments
    <2> QED BY <1>t, <1>4, <2>3
              DEF TypeOK, TypeOfJobs, TypeOfTurns, TypeOfDomain, TypeOfHistory
  <1>5. ASSUME NEW r \in Runs, BeginGenerate(r) PROVE TypeOK'
    <2> USE DEF BeginGenerate, documents, spend, history
    <2>1. (IF imported[r] THEN Shown(rows[r]) ELSE {}) \in SUBSET Urls
      BY DEF Shown
    <2>2. TypeOfJobs'
      BY <1>t, <1>5, <2>1 DEF TypeOfJobs, TypeOfDomain
    <2> QED BY <1>t, <1>5, <2>2
              DEF TypeOK, TypeOfDocuments, TypeOfTurns, TypeOfDomain, TypeOfHistory
  <1>6. ASSUME NEW r \in Runs, InventoryStored(r) PROVE TypeOK'
    <2> USE DEF InventoryStored
    <2>1. PICK pages \in SUBSET Urls :
            ReplacePages(r, pages) /\ entries' = [entries EXCEPT ![r] = pages]
      BY <1>6
    <2>2. rows' \in [Runs -> Lines] /\ ticked' \in [Runs -> SUBSET Urls]
      BY <1>t, <2>1, ReplacedTypes
    <2>3. TypeOfDocuments' /\ TypeOfJobs'
      BY <1>t, <1>6, <2>1, <2>2 DEF TypeOfDocuments, TypeOfJobs
    <2>4. TypeOfTurns'
      <3>1. \A c \in Asking(r) : [chat[c] EXCEPT !.gone = TRUE] \in Turns
        <4> TAKE c \in Asking(r)
        <4>1. chat[c] \in Turns
          BY <1>t DEF TypeOfTurns, Asking, NoChat
        <4> QED BY <4>1 DEF Turns
      <3> QED BY <1>t, <1>6, <3>1 DEF TypeOfTurns, spend
    <2> QED BY <1>t, <1>6, <2>3, <2>4 DEF TypeOK, TypeOfDomain, TypeOfHistory
  <1>7. ASSUME NEW r \in Runs, GenerateDone(r) PROVE TypeOK'
    <2> USE DEF GenerateDone, spend
    <2>1. PICK shown \in SUBSET entries[r] :
            /\ listed' = [listed EXCEPT ![r] =
                            [u \in Urls |-> IF u \in shown THEN "model" ELSE "none"]]
            /\ full' = [full EXCEPT ![r] = IF WantsFull THEN Bodies(shown) ELSE Blank]
            /\ WriteCopyBack(r, shown)
            /\ dropped' = [dropped EXCEPT ![r] = entries[r] \ shown]
      BY <1>7
    <2>2. shown \in SUBSET Urls /\ entries[r] \ shown \in SUBSET Urls
      BY <1>t DEF TypeOfJobs
    <2>3. /\ [u \in Urls |-> IF u \in shown THEN "model" ELSE "none"] \in Lines
          /\ (IF WantsFull THEN Bodies(shown) ELSE Blank) \in Texts
          /\ [u \in Urls |-> IF u \in shown /\ rows[r][u] # "none"
                             THEN "model" ELSE rows[r][u]] \in Lines
      <3>1. rows[r] \in Lines
        BY <1>t DEF TypeOfDocuments
      <3>2. Bodies(shown) \in Texts /\ Blank \in Texts
        BY <2>2 DEF Bodies, Texts
      <3> QED BY <3>1, <3>2 DEF Lines, Copies
    <2>4. TypeOfDocuments'
      BY <1>t, <1>7, <2>1, <2>3 DEF TypeOfDocuments, WriteCopyBack
    <2>5. TypeOfJobs' /\ TypeOfTurns' /\ TypeOfDomain'
      BY <1>t, <1>7 DEF TypeOfJobs, TypeOfTurns, TypeOfDomain
    <2>6. TypeOfHistory'
      BY <1>t, <1>7, <2>1, <2>2 DEF TypeOfHistory
    <2> QED BY <2>4, <2>5, <2>6 DEF TypeOK
  <1>8. ASSUME NEW r \in Runs, JobStops(r) PROVE TypeOK'
    BY <1>t, <1>8 DEF JobStops, documents, spend, history,
         TypeOK, TypeOfDocuments, TypeOfJobs, TypeOfTurns, TypeOfDomain, TypeOfHistory
  <1>9. ASSUME NEW r \in Runs, EditPages(r) PROVE TypeOK'
    <2> USE DEF EditPages, job, spend
    <2>1. PICK keep \in SUBSET Shown(rows[r]) :
            LET lines == Rendered(rows[r], keep) IN
            /\ ticked' = [ticked EXCEPT ![r] = keep]
            /\ listed' = [listed EXCEPT ![r] = lines]
            /\ full' = [full EXCEPT ![r] = RenderedFull(full[r], lines)]
      BY <1>9
    <2>2. rows[r] \in Lines /\ full[r] \in Texts /\ keep \in SUBSET Urls
      BY <1>t DEF TypeOfDocuments, Shown
    <2>3. /\ Rendered(rows[r], keep) \in Lines
          /\ RenderedFull(full[r], Rendered(rows[r], keep)) \in Texts
      BY <2>2, RenderedTypes
    <2>4. TypeOfDocuments'
      BY <1>t, <1>9, <2>1, <2>2, <2>3 DEF TypeOfDocuments
    <2>5. TypeOfJobs' /\ TypeOfTurns' /\ TypeOfDomain'
      BY <1>t, <1>9 DEF TypeOfJobs, TypeOfTurns, TypeOfDomain
    <2>6. TypeOfHistory'
      BY <1>t, <1>9 DEF TypeOfHistory, Overlapped
    <2> QED BY <2>4, <2>5, <2>6 DEF TypeOK
  <1>10. ASSUME NEW r \in Runs, NEW c \in Chats, BeginChat(c, r) PROVE TypeOK'
    <2> USE DEF BeginChat
    <2>1. [busy |-> TRUE, run |-> r, rows |-> rows[r], ticked |-> ticked[r],
           listed |-> listed[r], full |-> full[r], gone |-> FALSE] \in Turns
      BY <1>t DEF TypeOfDocuments, Turns
    <2>2. TypeOfTurns'
      BY <1>t, <1>10, <2>1 DEF TypeOfTurns
    <2> QED BY <1>t, <1>10, <2>2 DEF documents, job, history,
              TypeOK, TypeOfDocuments, TypeOfJobs, TypeOfDomain, TypeOfHistory
  <1>11. ASSUME NEW c \in Chats, ChatNothing(c) PROVE TypeOK'
    <2> USE DEF ChatNothing
    <2>1. chat' \in [Chats -> Turns \cup {NoChat}]
      BY <1>t, <1>11, ChatEndsType
    <2>2. chat[c].run \in Runs
      BY <1>t, <1>11, SnapshotType
    <2>3. TypeOfTurns'
      BY <1>t, <1>11, <2>1, <2>2 DEF TypeOfTurns
    <2> QED BY <1>t, <1>11, <2>3 DEF documents, job, history,
              TypeOK, TypeOfDocuments, TypeOfJobs, TypeOfDomain, TypeOfHistory
  <1>12. ASSUME NEW c \in Chats, ChatRefused(c) \/ ChatBreaks(c) PROVE TypeOK'
    <2> USE DEF ChatRefused, ChatBreaks
    <2>1. chat' \in [Chats -> Turns \cup {NoChat}]
      BY <1>t, <1>12, ChatEndsType
    <2>2. UNCHANGED <<embargo, metrics, documents, job, spend, history>>
      BY <1>12
    <2> QED BY <1>t, <2>1, <2>2 DEF documents, job, spend, history,
              TypeOK, TypeOfDocuments, TypeOfJobs, TypeOfTurns, TypeOfDomain, TypeOfHistory
  <1>13. ASSUME NEW c \in Chats, ChatApplied(c) PROVE TypeOK'
    <2>1. PICK r \in Runs, u \in Shown(chat[c].rows), edit \in Edits : Landed(c, r, u, edit)
      BY <1>13, AppliedTurn
    <2> USE DEF Landed
    <2>2. Append(revisions[r], Kept(c)) \in Seq(Revisions)
      BY <1>t, <2>1, AppendProperties DEF TypeOfDocuments
    <2>3. listed' \in [Runs -> Lines] /\ full' \in [Runs -> Texts]
      BY <1>t, <2>1 DEF TypeOfDocuments
    <2>4. TypeOfDocuments'
      BY <1>t, <2>1, <2>2, <2>3 DEF TypeOfDocuments
    <2>5. TypeOfTurns'
      BY <1>t, <2>1 DEF TypeOfTurns
    <2>6. TypeOfJobs' /\ TypeOfDomain'
      BY <1>t, <2>1 DEF TypeOfJobs, TypeOfDomain, job
    <2>7. TypeOfHistory'
      BY <1>t, <2>1 DEF TypeOfHistory, Overlapped
    <2> QED BY <2>4, <2>5, <2>6, <2>7 DEF TypeOK
  <1>14. CASE UNCHANGED vars
    BY <1>t, <1>14 DEF vars, documents, job, spend, history,
         TypeOK, TypeOfDocuments, TypeOfJobs, TypeOfTurns, TypeOfDomain, TypeOfHistory
  <1> QED BY <1>1, <1>2, <1>3, <1>4, <1>5, <1>6, <1>7, <1>8, <1>9, <1>10, <1>11, <1>12,
             <1>13, <1>14, Zenon DEF Next

\* What is stored of a domain stays in its types, for any site, runs and turns.
THEOREM DocumentsTypeCorrect == Spec => []TypeOK
  <1>1. Init => TypeOK
    BY InitType
  <1>2. TypeOK /\ [Next]_vars => TypeOK'
    BY NextType
  <1> QED BY <1>1, <1>2, PTL DEF Spec

-----------------------------------------------------------------------------
(* The embargo. *)

\* Nothing of what somebody has read about a run is embargoed: the worker's brief
\* covers the embargo and its pages avoid it, and so do the turns in flight.
Unread(r) ==
    /\ pc[r] = "fetching" => embargo \subseteq sees[r]
    /\ pc[r] # "idle" => entries[r] \cap embargo = {}
    /\ \A c \in Asking(r) : /\ Shown(chat[c].rows) \cap embargo = {}
                            /\ Shown(chat[c].listed) \cap embargo = {}
                            /\ chat[c].full.urls \cap embargo = {}

\* `Held(r) \cap embargo = {}`, place by place.
Apart(r) ==
    /\ Shown(rows[r]) \cap embargo = {}
    /\ Shown(listed[r]) \cap embargo = {}
    /\ full[r].urls \cap embargo = {}
    /\ \A i \in 1..Len(revisions[r]) :
         /\ Shown(revisions[r][i].listed) \cap embargo = {}
         /\ revisions[r][i].full.urls \cap embargo = {}

EmbargoInv ==
    /\ \A r \in Runs : ~overtaken[r] => Apart(r) /\ Unread(r)
    /\ metrics \cap embargo \subseteq uploaded

LEMMA EmbargoInvSuffices == EmbargoInv => EmbargoReachesEverything
  <1>1. ASSUME NEW r \in Runs, Apart(r) PROVE Held(r) \cap embargo = {}
    <2>1. /\ (Shown(rows[r]) \cup Shown(listed[r]) \cup full[r].urls) \cap embargo = {}
          /\ \A i \in 1..Len(revisions[r]) :
               (Shown(revisions[r][i].listed) \cup revisions[r][i].full.urls) \cap embargo = {}
      BY <1>1 DEF Apart
    <2> QED BY <2>1, Zenon DEF Held
  <1> QED BY <1>1, Zenon DEF EmbargoInv, EmbargoReachesEverything

LEMMA EmbargoInvInit == Init => EmbargoInv
  <1> SUFFICES ASSUME Init PROVE EmbargoInv
    OBVIOUS
  <1>1. ASSUME NEW r \in Runs PROVE Apart(r) /\ Unread(r)
    BY DEF Init, Apart, Unread, Asking, NoChat
  <1> QED BY <1>1 DEF Init, EmbargoInv

\* Where nothing changes but a turn's end, a run stays apart and unread.
LEMMA EmbargoUnmoved ==
  ASSUME NEW r \in Runs, Apart(r), Unread(r),
         UNCHANGED <<embargo, documents, pc, sees, entries>>,
         \A c \in Asking(r)' : c \in Asking(r) /\ chat'[c] = chat[c]
  PROVE  Apart(r)' /\ Unread(r)'
  BY DEF Apart, Unread, documents

LEMMA EmbargoInvNext == TypeOK /\ EmbargoInv /\ [Next]_vars => EmbargoInv'
  <1> SUFFICES ASSUME TypeOK, EmbargoInv, [Next]_vars PROVE EmbargoInv'
    OBVIOUS
  <1>t. TypeOfDocuments /\ TypeOfJobs /\ TypeOfTurns /\ TypeOfDomain /\ TypeOfHistory
    BY DEF TypeOK
  <1>i. /\ \A x \in Runs : ~overtaken[x] => Apart(x) /\ Unread(x)
        /\ metrics \cap embargo \subseteq uploaded
    BY DEF EmbargoInv
  <1>1. ASSUME NEW pages \in Embargoes, SaveBrief(pages) PROVE EmbargoInv'
    <2>1. Purge(pages) /\ embargo' = pages /\ uploaded' = {}
      BY <1>1 DEF SaveBrief
    <2>2. metrics' = metrics \ pages
      BY <2>1 DEF Purge
    <2>3. ASSUME NEW x \in Runs, ~overtaken'[x] PROVE Apart(x)'
      <3>1. /\ rows[x] \in Lines /\ listed[x] \in Lines /\ full[x] \in Texts
            /\ revisions[x] \in Seq(Revisions)
        BY <1>t DEF TypeOfDocuments
      <3>2. \A i \in 1..Len(revisions[x]) : revisions[x][i].full \in Texts
        <4> TAKE i \in 1..Len(revisions[x])
        <4>1. revisions[x][i] \in Revisions
          BY <3>1, ElementOfSeq
        <4> QED BY <4>1 DEF Revisions
      <3>3. /\ rows'[x] = Without(rows[x], pages) /\ listed'[x] = Without(listed[x], pages)
            /\ full'[x] = PurgedFull(full[x], pages)
            /\ Len(revisions'[x]) = Len(revisions[x])
            /\ \A i \in 1..Len(revisions[x]) :
                 /\ Shown(revisions'[x][i].listed) = Shown(revisions[x][i].listed) \ pages
                 /\ revisions'[x][i].full = PurgedFull(revisions[x][i].full, pages)
        BY <1>t, <2>1, PurgeEffect DEF TypeOfDomain
      <3>4. /\ Shown(rows'[x]) \cap pages = {} /\ Shown(listed'[x]) \cap pages = {}
            /\ full'[x].urls \cap pages = {}
        BY <3>1, <3>3, WithoutPages, PurgedText
      <3>5. \A i \in 1..Len(revisions[x]) :
              /\ Shown(revisions'[x][i].listed) \cap pages = {}
              /\ revisions'[x][i].full.urls \cap pages = {}
        BY <3>2, <3>3, PurgedText
      <3> QED BY <2>1, <3>3, <3>4, <3>5 DEF Apart
    <2>4. ASSUME NEW x \in Runs, ~overtaken'[x] PROVE Unread(x)'
      <3>1. pc[x] = "idle" /\ Asking(x) = {}
        BY <1>1, <2>4 DEF SaveBrief, InFlight
      <3>2. pc'[x] = "idle" /\ Asking(x)' = {}
        BY <1>1, <3>1 DEF SaveBrief, Asking, job
      <3> QED BY <3>2 DEF Unread
    <2> QED BY <2>1, <2>2, <2>3, <2>4 DEF EmbargoInv
  <1>2. CASE SkipBrief
    <2>1. embargo' = {} /\ UNCHANGED <<metrics, documents, job, chat, spend, history>>
      BY <1>2 DEF SkipBrief
    <2>2. ASSUME NEW x \in Runs PROVE Apart(x)' /\ Unread(x)'
      BY <2>1 DEF Apart, Unread
    <2> QED BY <2>1, <2>2 DEF EmbargoInv
  <1>3. ASSUME NEW pages \in Uploads, UploadMetrics(pages) PROVE EmbargoInv'
    <2>1. /\ UNCHANGED <<embargo, documents, job, chat, spend, overtaken, crossed, dropped>>
          /\ metrics' = uploaded'
      BY <1>3 DEF UploadMetrics
    <2>2. ASSUME NEW x \in Runs, ~overtaken'[x] PROVE Apart(x)' /\ Unread(x)'
      BY <1>i, <2>1, <2>2, EmbargoUnmoved DEF job, Asking
    <2> QED BY <2>1, <2>2 DEF EmbargoInv
  <1>4. ASSUME NEW r \in Runs, ImportRun(r) PROVE EmbargoInv'
    <2>1. PICK pages \in SUBSET Urls : ReplacePages(r, pages \ embargo)
      BY <1>4 DEF ImportRun
    <2>2. /\ UNCHANGED <<embargo, metrics, listed, full, revisions, pc, sees, entries, chat,
                         overtaken, uploaded>>
          /\ rows' = [rows EXCEPT ![r] =
                        [u \in Urls |-> IF u \in pages \ embargo THEN "page" ELSE "none"]]
      BY <1>4, <2>1 DEF ImportRun, ReplacePages, history
    <2>3. ASSUME NEW x \in Runs, ~overtaken'[x] PROVE Apart(x)' /\ Unread(x)'
      <3>1. Apart(x) /\ Unread(x)
        BY <1>i, <2>2, <2>3
      <3>2. Shown(rows'[x]) \cap embargo = {}
        BY <1>t, <2>2, <3>1 DEF Shown, TypeOfDocuments, Apart
      <3>3. Apart(x)'
        BY <2>2, <3>1, <3>2 DEF Apart
      <3>4. Unread(x)'
        BY <2>2, <3>1 DEF Unread, Asking
      <3> QED BY <3>3, <3>4
    <2> QED BY <1>i, <2>2, <2>3 DEF EmbargoInv
  <1>5. ASSUME NEW r \in Runs, BeginGenerate(r) PROVE EmbargoInv'
    <2>1. /\ UNCHANGED <<embargo, metrics, documents, chat, history>>
          /\ sees' = [sees EXCEPT ![r] = embargo]
          /\ entries' = [entries EXCEPT ![r] = IF imported[r] THEN Shown(rows[r]) ELSE {}]
          /\ pc' = [pc EXCEPT ![r] = "fetching"]
      BY <1>5 DEF BeginGenerate
    <2>2. ASSUME NEW x \in Runs, ~overtaken'[x] PROVE Apart(x)' /\ Unread(x)'
      <3>1. Apart(x) /\ Unread(x)
        BY <1>i, <2>1, <2>2 DEF history
      <3>2. Apart(x)'
        BY <2>1, <3>1 DEF Apart, documents
      <3>3. /\ pc'[x] = "fetching" => embargo \subseteq sees'[x]
            /\ pc'[x] # "idle" => entries'[x] \cap embargo = {}
        BY <1>t, <2>1, <3>1 DEF Apart, Unread, TypeOfJobs
      <3> QED BY <2>1, <3>1, <3>2, <3>3 DEF Unread, Asking
    <2> QED BY <1>i, <2>1, <2>2 DEF EmbargoInv, history
  <1>6. ASSUME NEW r \in Runs, InventoryStored(r) PROVE EmbargoInv'
    <2>1. PICK pages \in SUBSET Urls :
            /\ IF imported[r] THEN pages = entries[r] ELSE pages \cap sees[r] = {}
            /\ ReplacePages(r, pages)
            /\ entries' = [entries EXCEPT ![r] = pages]
      BY <1>6 DEF InventoryStored
    <2>2. /\ UNCHANGED <<embargo, metrics, listed, full, revisions, overtaken, uploaded>>
          /\ rows' = [rows EXCEPT ![r] =
                        [u \in Urls |-> IF u \in pages THEN "page" ELSE "none"]]
          /\ pc[r] = "fetching" /\ pc' = [pc EXCEPT ![r] = "writing"]
          /\ sees' = sees
          /\ chat' = [c \in Chats |-> IF c \in Asking(r) THEN [chat[c] EXCEPT !.gone = TRUE]
                                      ELSE chat[c]]
      BY <1>6, <2>1 DEF InventoryStored, ReplacePages
    <2>3. \A c \in Chats : /\ chat'[c].busy <=> chat[c].busy
                           /\ chat[c].busy => /\ chat'[c].run = chat[c].run
                                              /\ chat'[c].rows = chat[c].rows
                                              /\ chat'[c].listed = chat[c].listed
                                              /\ chat'[c].full = chat[c].full
      <3> TAKE c \in Chats
      <3>1. CASE chat[c] \in Turns
        BY <2>2, <3>1 DEF Turns
      <3>2. CASE chat[c] = NoChat
        BY <2>2, <3>2 DEF Asking, NoChat
      <3> QED BY <1>t, <3>1, <3>2 DEF TypeOfTurns
    <2>4. ASSUME NEW x \in Runs, ~overtaken'[x] PROVE Apart(x)' /\ Unread(x)'
      <3>1. Apart(x) /\ Unread(x)
        BY <1>i, <2>2, <2>4
      <3>2. x = r => pages \cap embargo = {}
        BY <2>1, <2>2, <3>1 DEF Unread
      <3>3. Shown(rows'[x]) \cap embargo = {}
        BY <1>t, <2>2, <3>1, <3>2 DEF Shown, TypeOfDocuments, Apart
      <3>4. Apart(x)'
        BY <2>2, <3>1, <3>3 DEF Apart
      <3>5. /\ pc'[x] = "fetching" => embargo \subseteq sees'[x]
            /\ pc'[x] # "idle" => entries'[x] \cap embargo = {}
        BY <1>t, <2>1, <2>2, <3>1, <3>2 DEF Unread, TypeOfJobs
      <3>6. \A c \in Asking(x)' : c \in Asking(x)
        BY <2>3 DEF Asking
      <3> QED BY <2>2, <2>3, <3>1, <3>4, <3>5, <3>6 DEF Unread, Asking
    <2> QED BY <1>i, <2>2, <2>4 DEF EmbargoInv
  <1>7. ASSUME NEW r \in Runs, GenerateDone(r) PROVE EmbargoInv'
    <2>1. PICK shown \in SUBSET entries[r] :
            /\ listed' = [listed EXCEPT ![r] =
                            [u \in Urls |-> IF u \in shown THEN "model" ELSE "none"]]
            /\ full' = [full EXCEPT ![r] = IF WantsFull THEN Bodies(shown) ELSE Blank]
            /\ WriteCopyBack(r, shown)
      BY <1>7 DEF GenerateDone
    <2>2. /\ UNCHANGED <<embargo, metrics, revisions, sees, entries, chat, overtaken, uploaded>>
          /\ pc[r] = "writing" /\ pc' = [pc EXCEPT ![r] = "idle"]
      BY <1>7 DEF GenerateDone
    <2>3. ASSUME NEW x \in Runs, ~overtaken'[x] PROVE Apart(x)' /\ Unread(x)'
      <3>1. Apart(x) /\ Unread(x)
        BY <1>i, <2>2, <2>3
      <3>2. x = r => shown \cap embargo = {}
        BY <2>2, <3>1 DEF Unread
      <3>3. Shown(rows'[x]) \subseteq Shown(rows[x])
        BY <1>t, <2>1 DEF WriteCopyBack, Shown, TypeOfDocuments
      <3>4. /\ Shown(listed'[x]) \cap embargo = {}
            /\ full'[x].urls \cap embargo = {}
        <4>1. CASE x = r
          BY <1>t, <2>1, <3>2, <4>1 DEF Shown, TypeOfDocuments, Bodies, Blank
        <4>2. CASE x # r
          BY <1>t, <2>1, <3>1, <4>2 DEF Shown, TypeOfDocuments, Apart
        <4> QED BY <4>1, <4>2
      <3>5. Apart(x)'
        BY <2>2, <3>1, <3>3, <3>4 DEF Apart
      <3>6. Unread(x)'
        BY <1>t, <2>2, <3>1 DEF Unread, Asking, TypeOfJobs
      <3> QED BY <3>5, <3>6
    <2> QED BY <1>i, <2>2, <2>3 DEF EmbargoInv
  <1>8. ASSUME NEW r \in Runs, JobStops(r) PROVE EmbargoInv'
    <2>1. /\ UNCHANGED <<embargo, metrics, documents, sees, entries, chat, overtaken, uploaded>>
          /\ pc' = [pc EXCEPT ![r] = "idle"]
      BY <1>8 DEF JobStops, history
    <2>2. ASSUME NEW x \in Runs, ~overtaken'[x] PROVE Apart(x)' /\ Unread(x)'
      <3>1. Apart(x) /\ Unread(x)
        BY <1>i, <2>1, <2>2
      <3>2. Apart(x)'
        BY <2>1, <3>1 DEF Apart, documents
      <3>3. Unread(x)'
        BY <1>t, <2>1, <3>1 DEF Unread, Asking, TypeOfJobs
      <3> QED BY <3>2, <3>3
    <2> QED BY <1>i, <2>1, <2>2 DEF EmbargoInv
  <1>9. ASSUME NEW r \in Runs, EditPages(r) PROVE EmbargoInv'
    <2>1. PICK keep \in SUBSET Shown(rows[r]) :
            /\ listed' = [listed EXCEPT ![r] = Rendered(rows[r], keep)]
            /\ full' = [full EXCEPT ![r] = RenderedFull(full[r], Rendered(rows[r], keep))]
      BY <1>9 DEF EditPages
    <2>2. UNCHANGED <<embargo, metrics, rows, revisions, job, chat, overtaken, uploaded>>
      BY <1>9 DEF EditPages
    <2>3. rows[r] \in Lines /\ full[r] \in Texts
      BY <1>t DEF TypeOfDocuments
    <2>4. /\ Rendered(rows[r], keep) \in Lines
          /\ Shown(Rendered(rows[r], keep)) \subseteq Shown(rows[r])
      BY <2>3, RenderedTypes
    <2>5. RenderedFull(full[r], Rendered(rows[r], keep)).urls \subseteq Shown(rows[r])
      BY <2>3, <2>4, RenderedTypes
    <2>6. ASSUME NEW x \in Runs, ~overtaken'[x] PROVE Apart(x)' /\ Unread(x)'
      <3>1. Apart(x) /\ Unread(x)
        BY <1>i, <2>2, <2>6
      <3>2. Shown(listed'[x]) \cap embargo = {} /\ full'[x].urls \cap embargo = {}
        BY <1>t, <2>1, <2>4, <2>5, <3>1 DEF TypeOfDocuments, Apart
      <3>3. Apart(x)'
        BY <2>2, <3>1, <3>2 DEF Apart
      <3>4. Unread(x)'
        BY <2>2, <3>1 DEF Unread, Asking, job
      <3> QED BY <3>3, <3>4
    <2> QED BY <1>i, <2>2, <2>6 DEF EmbargoInv
  <1>10. ASSUME NEW r \in Runs, NEW c \in Chats, BeginChat(c, r) PROVE EmbargoInv'
    <2>1. /\ UNCHANGED <<embargo, metrics, documents, job, history>>
          /\ chat' = [chat EXCEPT ![c] =
                        [busy |-> TRUE, run |-> r, rows |-> rows[r], ticked |-> ticked[r],
                         listed |-> listed[r], full |-> full[r], gone |-> FALSE]]
      BY <1>10 DEF BeginChat
    <2>2. ASSUME NEW x \in Runs, ~overtaken'[x] PROVE Apart(x)' /\ Unread(x)'
      <3>1. Apart(x) /\ Unread(x)
        BY <1>i, <2>1, <2>2 DEF history
      <3>2. Apart(x)'
        BY <2>1, <3>1 DEF Apart, documents
      <3>3. \A d \in Asking(x)' : /\ Shown(chat'[d].rows) \cap embargo = {}
                                  /\ Shown(chat'[d].listed) \cap embargo = {}
                                  /\ chat'[d].full.urls \cap embargo = {}
        BY <1>t, <2>1, <3>1 DEF Apart, Unread, Asking, TypeOfTurns
      <3> QED BY <2>1, <3>1, <3>2, <3>3 DEF Unread, job
    <2> QED BY <1>i, <2>1, <2>2 DEF EmbargoInv, history
  <1>11. ASSUME NEW c \in Chats, ChatNothing(c) \/ ChatRefused(c) \/ ChatBreaks(c)
         PROVE  EmbargoInv'
    <2>1. UNCHANGED <<embargo, metrics, documents, job, history>> /\ ChatEnds(c)
      BY <1>11 DEF ChatNothing, ChatRefused, ChatBreaks
    <2>2. ASSUME NEW x \in Runs, ~overtaken'[x] PROVE Apart(x)' /\ Unread(x)'
      <3>1. Apart(x) /\ Unread(x)
        BY <1>i, <2>1, <2>2 DEF history
      <3>2. \A d \in Asking(x)' : d \in Asking(x) /\ chat'[d] = chat[d]
        BY <1>t, <2>1 DEF ChatEnds, Asking, NoChat, TypeOfTurns
      <3> QED BY <2>1, <3>1, <3>2, EmbargoUnmoved DEF job
    <2> QED BY <1>i, <2>1, <2>2 DEF EmbargoInv, history
  <1>12. ASSUME NEW c \in Chats, ChatApplied(c) PROVE EmbargoInv'
    <2>1. PICK r \in Runs, u \in Shown(chat[c].rows), edit \in Edits : Landed(c, r, u, edit)
      BY <1>12, AppliedTurn
    <2>2. /\ chat[c].busy /\ chat[c].run = r /\ u \in Urls /\ rows[r][u] # "none"
          /\ UNCHANGED <<embargo, metrics, job, overtaken, uploaded>>
          /\ chat' = [chat EXCEPT ![c] = NoChat]
      BY <2>1 DEF Landed
    <2>3. /\ rows[r] \in Lines /\ chat[c].rows \in Lines /\ chat[c].full \in Texts
          /\ chat[c].ticked \in SUBSET Urls /\ revisions[r] \in Seq(Revisions)
      BY <1>t, <2>2, SnapshotType DEF TypeOfDocuments
    <2>4. /\ Shown(TurnLines(c, u, edit)) \subseteq Shown(chat[c].rows)
          /\ TurnText(c, u, edit).urls \subseteq Shown(chat[c].rows)
      <3>1. /\ EditedRows(edit, u, chat[c].rows) \in Lines
            /\ Shown(EditedRows(edit, u, chat[c].rows)) \subseteq Shown(chat[c].rows)
        <4>1. /\ EditedRows(edit, u, chat[c].rows) \in Lines
              /\ Shown(EditedRows(edit, u, chat[c].rows)) \subseteq Shown(chat[c].rows) \cup {u}
          BY <2>2, <2>3, EditedTypes
        <4> QED BY <4>1
      <3>2. /\ TurnLines(c, u, edit) \in Lines
            /\ Shown(TurnLines(c, u, edit)) \subseteq Shown(chat[c].rows)
        BY <3>1, <2>3, RenderedTypes DEF TurnLines
      <3> QED BY <3>2, <2>3, RenderedTypes DEF TurnText
    <2>5. ASSUME NEW x \in Runs, ~overtaken'[x] PROVE Apart(x)' /\ Unread(x)'
      <3>1. Apart(x) /\ Unread(x)
        BY <1>i, <2>2, <2>5
      <3>2. \A d \in Asking(x)' : d \in Asking(x) /\ chat'[d] = chat[d]
        BY <1>t, <2>2 DEF Asking, NoChat, TypeOfTurns
      <3>3. Unread(x)'
        BY <2>2, <3>1, <3>2 DEF Unread, job
      <3>4. CASE x # r
        <4>1. /\ rows'[x] = rows[x] /\ listed'[x] = listed[x] /\ full'[x] = full[x]
              /\ revisions'[x] = revisions[x]
          BY <1>t, <2>1, <3>4 DEF Landed, TypeOfDocuments
        <4> QED BY <2>2, <3>1, <3>3, <4>1 DEF Apart
      <3>5. CASE x = r
        <4>1. c \in Asking(r)
          BY <2>2 DEF Asking
        <4>2. /\ Shown(chat[c].rows) \cap embargo = {} /\ Shown(chat[c].listed) \cap embargo = {}
              /\ chat[c].full.urls \cap embargo = {}
          BY <3>1, <3>5, <4>1 DEF Unread
        <4>3. Shown(rows'[r]) \cap embargo = {}
          <5>1. rows'[r] = EditedRows(edit, u, rows[r])
            BY <1>t, <2>1 DEF Landed, TypeOfDocuments
          <5>2. Shown(EditedRows(edit, u, rows[r])) \subseteq Shown(rows[r]) \cup {u}
            BY <2>1, <2>2, <2>3, EditedTypes
          <5>3. u \in Shown(rows[r])
            BY <2>2 DEF Shown
          <5> QED BY <3>1, <3>5, <5>1, <5>2, <5>3 DEF Apart
        <4>4. listed'[r] \in {listed[r], TurnLines(c, u, edit)}
          BY <1>t, <2>1 DEF Landed, TypeOfDocuments
        <4>5. full'[r] \in {full[r], TurnText(c, u, edit)}
          BY <1>t, <2>1 DEF Landed, TypeOfDocuments
        <4>6. Shown(listed'[r]) \cap embargo = {} /\ full'[r].urls \cap embargo = {}
          BY <2>4, <3>1, <3>5, <4>2, <4>4, <4>5 DEF Apart
        <4>7. ASSUME NEW i \in 1..Len(revisions'[r])
              PROVE  /\ Shown(revisions'[r][i].listed) \cap embargo = {}
                     /\ revisions'[r][i].full.urls \cap embargo = {}
          <5>1. Kept(c) \in Revisions /\ revisions'[r] = Append(revisions[r], Kept(c))
            BY <1>t, <2>1 DEF Landed, TypeOfDocuments
          <5>2. /\ Len(revisions'[r]) = Len(revisions[r]) + 1 /\ Len(revisions[r]) \in Nat
                /\ \A j \in 1..Len(revisions[r]) : revisions'[r][j] = revisions[r][j]
                /\ revisions'[r][Len(revisions[r]) + 1] = Kept(c)
            BY <2>3, <5>1, AppendProperties, LenProperties
          <5>3. CASE i \in 1..Len(revisions[r])
            BY <3>1, <3>5, <5>2, <5>3 DEF Apart
          <5>4. CASE i = Len(revisions[r]) + 1
            BY <4>2, <5>2, <5>4 DEF Kept
          <5> QED BY <5>2, <5>3, <5>4
        <4> QED BY <2>2, <3>3, <3>5, <4>3, <4>6, <4>7 DEF Apart
      <3> QED BY <3>4, <3>5
    <2> QED BY <1>i, <2>2, <2>5 DEF EmbargoInv
  <1>13. CASE UNCHANGED vars
    <2>1. UNCHANGED <<embargo, metrics, documents, job, chat, history>>
      BY <1>13 DEF vars
    <2>2. ASSUME NEW x \in Runs, ~overtaken'[x] PROVE Apart(x)' /\ Unread(x)'
      BY <1>i, <2>1, <2>2, EmbargoUnmoved DEF job, history, Asking
    <2> QED BY <1>i, <2>1, <2>2 DEF EmbargoInv, history
  <1> QED BY <1>1, <1>2, <1>3, <1>4, <1>5, <1>6, <1>7, <1>8, <1>9, <1>10, <1>11, <1>12,
             <1>13, Zenon DEF Next

\* An embargo reaches every place that holds a page of a run nobody was working on
\* when it was declared, whatever was read, imported, edited or kept before.
THEOREM EmbargoReachesEverythingHolds == Spec => []EmbargoReachesEverything
  <1>1. Init => EmbargoInv
    BY EmbargoInvInit
  <1>2. TypeOK /\ EmbargoInv /\ [Next]_vars => EmbargoInv'
    BY EmbargoInvNext
  <1>3. EmbargoInv => EmbargoReachesEverything
    BY EmbargoInvSuffices
  <1> QED BY <1>1, <1>2, <1>3, DocumentsTypeCorrect, PTL DEF Spec

-----------------------------------------------------------------------------
(* Files, rows and revisions. *)

\* A turn has read what is still there.
Current(c, r) ==
    /\ chat[c].rows = rows[r] /\ chat[c].ticked = ticked[r]
    /\ chat[c].listed = listed[r] /\ chat[c].full = full[r]

\* What the run's flags say of each other.
Progress(r) ==
    /\ complete[r] => written[r]
    /\ pc[r] # "idle" => ~complete[r] /\ jobs[r] > 0
    /\ Asking(r) # {} => written[r]

\* Unless it was crossed: what the worker holds are the rows, all ticked, and what
\* the turns in flight have read is current.
Uncrossed(r) ==
    /\ pc[r] = "writing" => Shown(rows[r]) = entries[r] /\ ticked[r] = entries[r]
    /\ \A c \in Asking(r) : Current(c, r)

Shows(r) ==
    /\ listed[r] = Rendered(rows[r], ticked[r] \ dropped[r])
    /\ full[r].kept => full[r].urls = Shown(listed[r])

Fine(r) ==
    /\ Progress(r)
    /\ ~crossed[r] => Uncrossed(r) /\ (complete[r] => Shows(r))

FileInv == \A r \in Runs : Fine(r)

LEMMA FileInvInit == Init => FileInv
  <1> SUFFICES ASSUME Init, NEW r \in Runs PROVE Fine(r)
    BY DEF FileInv
  <1> QED BY DEF Init, Fine, Progress, Uncrossed, Asking, NoChat

\* A run whose places are left alone, and whose turns end at most, stays fine.
LEMMA FileUnmoved ==
  ASSUME NEW r \in Runs, Fine(r),
         rows'[r] = rows[r], ticked'[r] = ticked[r], listed'[r] = listed[r],
         full'[r] = full[r], written'[r] = written[r], complete'[r] = complete[r],
         pc'[r] = pc[r], jobs'[r] = jobs[r], entries'[r] = entries[r],
         crossed'[r] = crossed[r], dropped'[r] = dropped[r],
         \A c \in Asking(r)' :
           /\ c \in Asking(r)
           /\ chat'[c].rows = chat[c].rows /\ chat'[c].ticked = chat[c].ticked
           /\ chat'[c].listed = chat[c].listed /\ chat'[c].full = chat[c].full
  PROVE  Fine(r)'
  <1>1. Progress(r)'
    BY DEF Fine, Progress
  <1>2. Uncrossed(r) => Uncrossed(r)'
    BY DEF Uncrossed, Current
  <1>3. Shows(r) => Shows(r)'
    BY DEF Shows
  <1> QED BY <1>1, <1>2, <1>3 DEF Fine

LEMMA FileInvNext == TypeOK /\ FileInv /\ [Next]_vars => FileInv'
  <1> SUFFICES ASSUME TypeOK, FileInv, [Next]_vars, NEW x \in Runs PROVE Fine(x)'
    BY DEF FileInv
  <1>t. TypeOfDocuments /\ TypeOfJobs /\ TypeOfTurns /\ TypeOfDomain /\ TypeOfHistory
    BY DEF TypeOK
  <1>i. Fine(x)
    BY DEF FileInv
  <1>1. ASSUME NEW pages \in Embargoes, SaveBrief(pages) PROVE Fine(x)'
    <2>1. /\ Purge(pages) /\ UNCHANGED <<written, job, chat, dropped>>
          /\ crossed' = [r \in Runs |-> crossed[r] \/ Overlapped(r, {})]
      BY <1>1 DEF SaveBrief
    <2>2. /\ rows[x] \in Lines /\ listed[x] \in Lines /\ full[x] \in Texts
      BY <1>t DEF TypeOfDocuments
    <2>3. /\ rows'[x] = Without(rows[x], pages) /\ listed'[x] = Without(listed[x], pages)
          /\ ticked'[x] = ticked[x] \ pages /\ full'[x] = PurgedFull(full[x], pages)
      BY <1>t, <2>1, PurgeEffect DEF TypeOfDomain
    <2>4. Progress(x)'
      BY <1>i, <2>1 DEF Fine, Progress, Asking, job
    <2>5. ASSUME ~crossed'[x] PROVE Uncrossed(x)' /\ (complete'[x] => Shows(x)')
      <3>1. ~crossed[x] /\ pc[x] # "writing" /\ Asking(x) = {}
        BY <2>1, <2>5 DEF Overlapped
      <3>2. Uncrossed(x)'
        BY <2>1, <3>1 DEF Uncrossed, Asking, job
      <3>3. ASSUME complete'[x] PROVE Shows(x)'
        <4>1. Shows(x)
          BY <1>i, <2>1, <3>1, <3>3 DEF Fine, job
        <4>2. listed'[x] = Rendered(rows'[x], ticked'[x] \ dropped'[x])
          <5>1. listed'[x] = Without(Rendered(rows[x], ticked[x] \ dropped[x]), pages)
            BY <2>3, <4>1 DEF Shows
          <5>2. Without(Rendered(rows[x], ticked[x] \ dropped[x]), pages)
                  = Rendered(Without(rows[x], pages), (ticked[x] \ pages) \ dropped[x])
            BY DEF Without, Rendered
          <5>3. dropped'[x] = dropped[x]
            BY <2>1
          <5> QED BY <2>3, <5>1, <5>2, <5>3
        <4>3. ASSUME full'[x].kept PROVE full'[x].urls = Shown(listed'[x])
          <5>1. full'[x] = full[x] /\ full'[x].urls \cap pages = {}
            BY <2>2, <2>3, <4>3, PurgedText
          <5>2. Shown(listed'[x]) = Shown(listed[x]) \ pages
            BY <2>2, <2>3, WithoutPages
          <5> QED BY <4>1, <4>3, <5>1, <5>2 DEF Shows
        <4> QED BY <4>2, <4>3 DEF Shows
      <3> QED BY <3>2, <3>3
    <2> QED BY <2>4, <2>5 DEF Fine
  <1>2. CASE SkipBrief
    BY <1>i, <1>2, FileUnmoved DEF SkipBrief, documents, job, history, Asking
  <1>3. ASSUME NEW pages \in Uploads, UploadMetrics(pages) PROVE Fine(x)'
    BY <1>i, <1>3, FileUnmoved DEF UploadMetrics, documents, job, Asking
  <1>4. ASSUME NEW r \in Runs, ImportRun(r) PROVE Fine(x)'
    <2>1. PICK pages \in SUBSET Urls : ReplacePages(r, pages \ embargo)
      BY <1>4 DEF ImportRun
    <2>2. UNCHANGED <<listed, written, full, complete, pc, jobs, entries, chat, crossed, dropped>>
      BY <1>4 DEF ImportRun, history
    <2>3. CASE x # r
      <3>1. rows'[x] = rows[x] /\ ticked'[x] = ticked[x]
        BY <1>t, <2>1, <2>3 DEF ReplacePages, TypeOfDocuments
      <3> QED BY <1>i, <2>2, <3>1, FileUnmoved DEF Asking
    <2>4. CASE x = r
      <3>1. jobs[x] = 0 /\ ~written[x]
        BY <1>4, <2>4 DEF ImportRun
      <3>2. pc[x] = "idle" /\ ~complete[x] /\ Asking(x) = {}
        BY <1>i, <3>1 DEF Fine, Progress
      <3>3. pc'[x] = "idle" /\ ~complete'[x] /\ Asking(x)' = {}
        BY <2>2, <3>2 DEF Asking
      <3> QED BY <3>3 DEF Fine, Progress, Uncrossed
    <2> QED BY <2>3, <2>4
  <1>5. ASSUME NEW r \in Runs, BeginGenerate(r) PROVE Fine(x)'
    <2>1. /\ UNCHANGED <<documents, chat, history>>
          /\ jobs' = [jobs EXCEPT ![r] = @ + 1]
          /\ entries' = [entries EXCEPT ![r] = IF imported[r] THEN Shown(rows[r]) ELSE {}]
          /\ complete' = [complete EXCEPT ![r] = FALSE]
          /\ pc' = [pc EXCEPT ![r] = "fetching"]
      BY <1>5 DEF BeginGenerate
    <2>2. CASE x # r
      BY <1>i, <1>t, <2>1, <2>2, FileUnmoved DEF documents, history, Asking, TypeOfJobs
    <2>3. CASE x = r
      <3>1. jobs'[x] > 0 /\ ~complete'[x] /\ pc'[x] = "fetching"
        BY <1>t, <2>1, <2>3 DEF TypeOfJobs
      <3>2. Asking(x)' = Asking(x) /\ written' = written
        BY <2>1 DEF Asking, documents
      <3>3. Progress(x)'
        BY <1>i, <3>1, <3>2 DEF Fine, Progress
      <3>4. ~crossed'[x] => Uncrossed(x)'
        BY <1>i, <2>1, <3>1, <3>2 DEF Fine, Uncrossed, Current, documents, history
      <3> QED BY <3>1, <3>3, <3>4 DEF Fine
    <2> QED BY <2>2, <2>3
  <1>6. ASSUME NEW r \in Runs, InventoryStored(r) PROVE Fine(x)'
    <2>1. PICK pages \in SUBSET Urls :
            ReplacePages(r, pages) /\ entries' = [entries EXCEPT ![r] = pages]
      BY <1>6 DEF InventoryStored
    <2>2. /\ UNCHANGED <<listed, written, full, complete, jobs, dropped>>
          /\ rows' = [rows EXCEPT ![r] =
                        [u \in Urls |-> IF u \in pages THEN "page" ELSE "none"]]
          /\ ticked' = [ticked EXCEPT ![r] = pages]
          /\ pc[r] = "fetching" /\ pc' = [pc EXCEPT ![r] = "writing"]
          /\ crossed' = [crossed EXCEPT ![r] = Asking(r) # {}]
          /\ chat' = [c \in Chats |-> IF c \in Asking(r) THEN [chat[c] EXCEPT !.gone = TRUE]
                                      ELSE chat[c]]
      BY <1>6, <2>1 DEF InventoryStored, ReplacePages
    <2>3. \A c \in Chats : /\ chat'[c].busy <=> chat[c].busy
                           /\ chat[c].busy => /\ chat'[c].run = chat[c].run
                                              /\ chat'[c].rows = chat[c].rows
                                              /\ chat'[c].ticked = chat[c].ticked
                                              /\ chat'[c].listed = chat[c].listed
                                              /\ chat'[c].full = chat[c].full
      <3> TAKE c \in Chats
      <3>1. CASE chat[c] \in Turns
        BY <2>2, <3>1 DEF Turns
      <3>2. CASE chat[c] = NoChat
        BY <2>2, <3>2 DEF Asking, NoChat
      <3> QED BY <1>t, <3>1, <3>2 DEF TypeOfTurns
    <2>4. Asking(x)' = Asking(x)
      BY <2>3 DEF Asking
    <2>5. CASE x # r
      <3>1. /\ rows'[x] = rows[x] /\ ticked'[x] = ticked[x] /\ pc'[x] = pc[x]
            /\ entries'[x] = entries[x] /\ crossed'[x] = crossed[x]
        BY <1>t, <2>1, <2>2, <2>5 DEF TypeOfDocuments, TypeOfJobs, TypeOfHistory
      <3>2. \A c \in Asking(x)' :
              /\ c \in Asking(x)
              /\ chat'[c].rows = chat[c].rows /\ chat'[c].ticked = chat[c].ticked
              /\ chat'[c].listed = chat[c].listed /\ chat'[c].full = chat[c].full
        BY <2>3, <2>4 DEF Asking
      <3> QED BY <1>i, <2>2, <3>1, <3>2, FileUnmoved
    <2>6. CASE x = r
      <3>1. /\ rows'[x] = [u \in Urls |-> IF u \in pages THEN "page" ELSE "none"]
            /\ ticked'[x] = pages /\ entries'[x] = pages /\ pc'[x] = "writing"
            /\ crossed'[x] = (Asking(x) # {})
        BY <1>t, <2>1, <2>2, <2>6 DEF TypeOfDocuments, TypeOfJobs, TypeOfHistory
      <3>2. ~complete[x] /\ jobs[x] > 0 /\ (Asking(x) # {} => written[x])
        BY <1>i, <2>2, <2>6 DEF Fine, Progress
      <3>3. Progress(x)' /\ ~complete'[x]
        BY <2>2, <2>4, <3>2 DEF Progress
      <3>4. ~crossed'[x] => Uncrossed(x)'
        BY <2>4, <3>1 DEF Uncrossed, Shown
      <3> QED BY <3>3, <3>4 DEF Fine
    <2> QED BY <2>5, <2>6
  <1>7. ASSUME NEW r \in Runs, GenerateDone(r) PROVE Fine(x)'
    <2>1. PICK shown \in SUBSET entries[r] :
            /\ listed' = [listed EXCEPT ![r] =
                            [u \in Urls |-> IF u \in shown THEN "model" ELSE "none"]]
            /\ full' = [full EXCEPT ![r] = IF WantsFull THEN Bodies(shown) ELSE Blank]
            /\ WriteCopyBack(r, shown)
            /\ dropped' = [dropped EXCEPT ![r] = entries[r] \ shown]
      BY <1>7 DEF GenerateDone
    <2>2. /\ UNCHANGED <<ticked, jobs, entries, chat>>
          /\ pc[r] = "writing" /\ pc' = [pc EXCEPT ![r] = "idle"]
          /\ written' = [written EXCEPT ![r] = TRUE]
          /\ complete' = [complete EXCEPT ![r] = TRUE]
          /\ crossed' = [crossed EXCEPT ![r] = @ \/ Asking(r) # {}]
      BY <1>7 DEF GenerateDone
    <2>3. Asking(x)' = Asking(x)
      BY <2>2 DEF Asking
    <2>4. CASE x # r
      <3>1. /\ rows'[x] = rows[x] /\ listed'[x] = listed[x] /\ full'[x] = full[x]
            /\ written'[x] = written[x]
        BY <1>t, <2>1, <2>2, <2>4 DEF TypeOfDocuments, WriteCopyBack
      <3>2. /\ complete'[x] = complete[x] /\ pc'[x] = pc[x]
            /\ crossed'[x] = crossed[x] /\ dropped'[x] = dropped[x]
        BY <1>t, <2>1, <2>2, <2>4 DEF TypeOfJobs, TypeOfHistory
      <3> QED BY <1>i, <2>2, <2>3, <3>1, <3>2, FileUnmoved
    <2>5. CASE x = r
      <3>1. /\ rows'[x] = [u \in Urls |-> IF u \in shown /\ rows[x][u] # "none"
                                          THEN "model" ELSE rows[x][u]]
            /\ listed'[x] = [u \in Urls |-> IF u \in shown THEN "model" ELSE "none"]
            /\ full'[x] = IF WantsFull THEN Bodies(shown) ELSE Blank
            /\ written'[x] = TRUE /\ pc'[x] = "idle"
            /\ crossed'[x] = (crossed[x] \/ Asking(x) # {})
            /\ dropped'[x] = entries[x] \ shown
        BY <1>t, <2>1, <2>2, <2>5 DEF TypeOfDocuments, TypeOfJobs, TypeOfHistory, WriteCopyBack
      <3>2. Progress(x)'
        BY <3>1 DEF Progress
      <3>3. ASSUME ~crossed'[x] PROVE Uncrossed(x)' /\ Shows(x)'
        <4>1. ~crossed[x] /\ Asking(x) = {}
          BY <3>1, <3>3
        <4>2. Shown(rows[x]) = entries[x] /\ ticked[x] = entries[x] /\ rows[x] \in Lines
          BY <1>i, <1>t, <2>2, <2>5, <4>1 DEF Fine, Uncrossed, TypeOfDocuments
        <4>3. Uncrossed(x)'
          BY <2>3, <3>1, <4>1 DEF Uncrossed
        <4>4. listed'[x] = Rendered(rows'[x], ticked'[x] \ dropped'[x])
          <5>1. ticked'[x] \ dropped'[x] = shown
            BY <2>2, <2>5, <3>1, <4>2
          <5>2. \A u \in shown : u \in Urls /\ rows[x][u] # "none"
            BY <2>5, <4>2 DEF Shown
          <5>3. Rendered(rows'[x], shown) = [u \in Urls |-> IF u \in shown THEN "model" ELSE "none"]
            BY <3>1, <5>2 DEF Rendered, Without
          <5> QED BY <3>1, <5>1, <5>3
        <4>5. full'[x].kept => full'[x].urls = Shown(listed'[x])
          <5>1. shown \in SUBSET Urls
            BY <1>t DEF TypeOfJobs
          <5>2. Shown(listed'[x]) = shown
            BY <3>1, <5>1 DEF Shown
          <5> QED BY <3>1, <5>2 DEF Bodies, Blank
        <4> QED BY <4>3, <4>4, <4>5 DEF Shows
      <3> QED BY <3>2, <3>3 DEF Fine
    <2> QED BY <2>4, <2>5
  <1>8. ASSUME NEW r \in Runs, JobStops(r) PROVE Fine(x)'
    <2>1. /\ UNCHANGED <<documents, complete, jobs, entries, chat, history>>
          /\ pc' = [pc EXCEPT ![r] = "idle"]
      BY <1>8 DEF JobStops
    <2>2. pc'[x] \in {pc[x], "idle"}
      BY <1>t, <2>1 DEF TypeOfJobs
    <2>3. Asking(x)' = Asking(x)
      BY <2>1 DEF Asking
    <2>4. Progress(x)'
      BY <1>i, <2>1, <2>2, <2>3 DEF Fine, Progress, documents
    <2>5. Uncrossed(x) => Uncrossed(x)'
      BY <2>1, <2>2, <2>3 DEF Uncrossed, Current, documents
    <2>6. Shows(x) => Shows(x)'
      BY <2>1 DEF Shows, documents, history
    <2> QED BY <1>i, <2>1, <2>4, <2>5, <2>6 DEF Fine, history
  <1>9. ASSUME NEW r \in Runs, EditPages(r) PROVE Fine(x)'
    <2>1. PICK keep \in SUBSET Shown(rows[r]) :
            /\ ticked' = [ticked EXCEPT ![r] = keep]
            /\ listed' = [listed EXCEPT ![r] = Rendered(rows[r], keep)]
            /\ full' = [full EXCEPT ![r] = RenderedFull(full[r], Rendered(rows[r], keep))]
      BY <1>9 DEF EditPages
    <2>2. /\ UNCHANGED <<rows, job, chat>>
          /\ written' = [written EXCEPT ![r] = TRUE]
          /\ crossed' = [crossed EXCEPT ![r] = Overlapped(r, {})]
          /\ dropped' = [dropped EXCEPT ![r] = {}]
      BY <1>9 DEF EditPages
    <2>3. Asking(x)' = Asking(x)
      BY <2>2 DEF Asking
    <2>4. CASE x # r
      <3>1. /\ ticked'[x] = ticked[x] /\ listed'[x] = listed[x] /\ full'[x] = full[x]
            /\ written'[x] = written[x] /\ crossed'[x] = crossed[x] /\ dropped'[x] = dropped[x]
        BY <1>t, <2>1, <2>2, <2>4 DEF TypeOfDocuments, TypeOfHistory
      <3> QED BY <1>i, <2>2, <2>3, <3>1, FileUnmoved DEF job
    <2>5. CASE x = r
      <3>1. /\ ticked'[x] = keep /\ listed'[x] = Rendered(rows[x], keep)
            /\ full'[x] = RenderedFull(full[x], listed'[x])
            /\ written'[x] = TRUE /\ crossed'[x] = Overlapped(x, {}) /\ dropped'[x] = {}
        BY <1>t, <2>1, <2>2, <2>5 DEF TypeOfDocuments, TypeOfHistory
      <3>2. Progress(x)'
        BY <1>i, <2>2, <3>1 DEF Fine, Progress, job
      <3>3. ~crossed'[x] => Uncrossed(x)'
        BY <2>2, <2>3, <3>1 DEF Uncrossed, Overlapped, job
      <3>4. rows[x] \in Lines /\ full[x] \in Texts
        BY <1>t DEF TypeOfDocuments
      <3>5. listed'[x] \in Lines
        BY <3>1, <3>4, RenderedTypes
      <3>6. full'[x].kept => full'[x].urls = Shown(listed'[x])
        BY <3>1, <3>4, <3>5, RenderedTypes
      <3>7. keep \ {} = keep
        OBVIOUS
      <3>8. Shows(x)'
        BY <2>2, <3>1, <3>6, <3>7 DEF Shows
      <3> QED BY <3>2, <3>3, <3>8 DEF Fine
    <2> QED BY <2>4, <2>5
  <1>10. ASSUME NEW r \in Runs, NEW c \in Chats, BeginChat(c, r) PROVE Fine(x)'
    <2>1. /\ UNCHANGED <<documents, job, history>>
          /\ ~chat[c].busy /\ written[r]
          /\ chat' = [chat EXCEPT ![c] =
                        [busy |-> TRUE, run |-> r, rows |-> rows[r], ticked |-> ticked[r],
                         listed |-> listed[r], full |-> full[r], gone |-> FALSE]]
      BY <1>10 DEF BeginChat
    <2>2. \A d \in Asking(x)' : \/ d \in Asking(x) /\ chat'[d] = chat[d]
                                \/ d = c /\ x = r
      BY <1>t, <2>1 DEF Asking, TypeOfTurns
    <2>3. CASE x # r
      <3>1. \A d \in Asking(x)' : d \in Asking(x) /\ chat'[d] = chat[d]
        BY <2>2, <2>3
      <3> QED BY <1>i, <2>1, <3>1, FileUnmoved DEF documents, job, history
    <2>4. CASE x = r
      <3>1. Progress(x)'
        BY <1>i, <2>1, <2>4 DEF Fine, Progress, documents, job
      <3>2. Current(c, x)'
        BY <1>t, <2>1, <2>4 DEF Current, TypeOfTurns, documents
      <3>3. \A d \in Asking(x) : Current(d, x) /\ chat'[d] = chat[d] => Current(d, x)'
        BY <2>1 DEF Current, documents
      <3>4. Uncrossed(x) => Uncrossed(x)'
        BY <2>1, <2>2, <3>2, <3>3 DEF Uncrossed, documents, job
      <3>5. Shows(x) => Shows(x)'
        BY <2>1 DEF Shows, documents, history
      <3> QED BY <1>i, <2>1, <3>1, <3>4, <3>5 DEF Fine, job, history
    <2> QED BY <2>3, <2>4
  <1>11. ASSUME NEW c \in Chats, ChatNothing(c) \/ ChatRefused(c) \/ ChatBreaks(c)
         PROVE  Fine(x)'
    <2>1. UNCHANGED <<documents, job, history>> /\ ChatEnds(c)
      BY <1>11 DEF ChatNothing, ChatRefused, ChatBreaks
    <2>2. \A d \in Asking(x)' : d \in Asking(x) /\ chat'[d] = chat[d]
      BY <1>t, <2>1 DEF ChatEnds, Asking, NoChat, TypeOfTurns
    <2> QED BY <1>i, <2>1, <2>2, FileUnmoved DEF documents, job, history
  <1>12. ASSUME NEW c \in Chats, ChatApplied(c) PROVE Fine(x)'
    <2>1. PICK r \in Runs, u \in Shown(chat[c].rows), edit \in Edits : Landed(c, r, u, edit)
      BY <1>12, AppliedTurn
    <2>2. /\ chat[c].busy /\ chat[c].run = r /\ u \in Urls
          /\ UNCHANGED <<written, job>> /\ chat' = [chat EXCEPT ![c] = NoChat]
          /\ crossed' = [crossed EXCEPT ![r] = crossed[r] \/ Overlapped(r, {c})]
          /\ dropped' = [dropped EXCEPT ![r] = {}]
      BY <2>1 DEF Landed
    <2>3. \A d \in Asking(x)' : d \in Asking(x) /\ d # c /\ chat'[d] = chat[d]
      BY <1>t, <2>2 DEF Asking, NoChat, TypeOfTurns
    <2>4. CASE x # r
      <3>1. /\ rows'[x] = rows[x] /\ ticked'[x] = ticked[x] /\ listed'[x] = listed[x]
            /\ full'[x] = full[x] /\ crossed'[x] = crossed[x] /\ dropped'[x] = dropped[x]
        BY <1>t, <2>1, <2>4 DEF Landed, TypeOfDocuments, TypeOfHistory
      <3> QED BY <1>i, <2>2, <2>3, <3>1, FileUnmoved DEF job
    <2>5. CASE x = r
      <3>1. Progress(x)'
        BY <1>i, <2>2, <2>3 DEF Fine, Progress, job
      <3>2. ASSUME ~crossed'[x] PROVE Uncrossed(x)' /\ Shows(x)'
        <4>1. ~crossed[x] /\ pc[x] # "writing" /\ Asking(x) \ {c} = {}
          BY <1>t, <2>2, <2>5, <3>2 DEF Overlapped, TypeOfHistory
        <4>2. Uncrossed(x)'
          BY <2>2, <2>3, <4>1 DEF Uncrossed, job
        <4>3. Current(c, x)
          BY <1>i, <2>2, <2>5, <4>1 DEF Fine, Uncrossed, Asking
        <4>4. /\ TurnLines(c, u, edit) \in Lines /\ TurnText(c, u, edit) \in Texts
              /\ rows'[x] = EditedRows(edit, u, chat[c].rows)
              /\ ticked'[x] = EditedTicks(edit, u, chat[c].ticked)
              /\ dropped'[x] = {}
          BY <1>t, <2>1, <2>5, <4>3
             DEF Landed, Current, EditedTicks, TypeOfDocuments, TypeOfHistory
        <4>5. listed'[x] = TurnLines(c, u, edit)
          BY <1>t, <2>1, <2>5, <4>3 DEF Landed, Current, TypeOfDocuments
        <4>6. full'[x] = TurnText(c, u, edit)
          BY <1>t, <2>1, <2>5, <4>3 DEF Landed, Current, TypeOfDocuments
        <4>7. ticked'[x] \ dropped'[x] = ticked'[x]
          BY <4>4
        <4>8. listed'[x] = Rendered(rows'[x], ticked'[x] \ dropped'[x])
          BY <4>4, <4>5, <4>7 DEF TurnLines
        <4>9. chat[c].full \in Texts
          BY <1>t, <2>2, SnapshotType
        <4>10. full'[x].kept => full'[x].urls = Shown(listed'[x])
          BY <4>4, <4>5, <4>6, <4>9, RenderedTypes DEF TurnText
        <4> QED BY <4>2, <4>8, <4>10 DEF Shows
      <3> QED BY <3>1, <3>2 DEF Fine
    <2> QED BY <2>4, <2>5
  <1>13. CASE UNCHANGED vars
    BY <1>i, <1>13, FileUnmoved DEF vars, documents, job, history, Asking
  <1> QED BY <1>1, <1>2, <1>3, <1>4, <1>5, <1>6, <1>7, <1>8, <1>9, <1>10, <1>11, <1>12,
             <1>13, Zenon DEF Next

\* A finished run's file shows its rows, and its full text the lines of the file,
\* unless somebody wrote while somebody else was between reading and writing.
THEOREM FileShowsTheRowsHolds == Spec => []FileShowsTheRows
  <1>1. Init => FileInv
    BY FileInvInit
  <1>2. TypeOK /\ FileInv /\ [Next]_vars => FileInv'
    BY FileInvNext
  <1>3. FileInv => FileShowsTheRows
    BY DEF FileInv, Fine, Shows, FileShowsTheRows
  <1> QED BY <1>1, <1>2, <1>3, DocumentsTypeCorrect, PTL DEF Spec

LEMMA RevisionStep ==
  TypeOK /\ FileInv /\ [Next]_vars =>
    \A r \in Runs :
      Len(revisions'[r]) > Len(revisions[r]) /\ ~crossed'[r]
        => revisions'[r][Len(revisions'[r])] =
             [listed |-> listed[r], full |-> full[r], pages |-> Shown(rows[r])]
  <1> SUFFICES ASSUME TypeOK, FileInv, [Next]_vars, NEW x \in Runs,
                      Len(revisions'[x]) > Len(revisions[x]), ~crossed'[x]
               PROVE  revisions'[x][Len(revisions'[x])] =
                        [listed |-> listed[x], full |-> full[x], pages |-> Shown(rows[x])]
    OBVIOUS
  <1>t. TypeOfDocuments /\ TypeOfTurns /\ TypeOfDomain /\ TypeOfHistory
    BY DEF TypeOK
  <1>0. revisions[x] \in Seq(Revisions) /\ Len(revisions[x]) \in Nat
    BY <1>t, LenProperties DEF TypeOfDocuments
  <1>1. ASSUME NEW pages \in Embargoes, SaveBrief(pages) PROVE FALSE
    <2>1. Len(revisions'[x]) = Len(revisions[x])
      BY <1>t, <1>1, PurgeEffect DEF SaveBrief, TypeOfDomain
    <2> QED BY <1>0, <2>1
  <1>2. CASE UNCHANGED revisions
    BY <1>0, <1>2
  <1>3. ASSUME NEW c \in Chats, ChatApplied(c)
        PROVE  revisions'[x][Len(revisions'[x])] =
                 [listed |-> listed[x], full |-> full[x], pages |-> Shown(rows[x])]
    <2>1. PICK r \in Runs, u \in Shown(chat[c].rows), edit \in Edits : Landed(c, r, u, edit)
      BY <1>3, AppliedTurn
    <2>2. x = r
      BY <1>t, <1>0, <2>1 DEF Landed, TypeOfDocuments
    <2>3. /\ Kept(c) \in Revisions /\ revisions'[x] = Append(revisions[x], Kept(c))
          /\ crossed'[x] = (crossed[x] \/ Overlapped(x, {c}))
          /\ c \in Asking(x)
      BY <1>t, <2>1, <2>2 DEF Landed, TypeOfDocuments, TypeOfHistory, Asking
    <2>4. revisions'[x][Len(revisions'[x])] = Kept(c)
      BY <1>0, <2>3, AppendProperties
    <2>5. Current(c, x)
      BY <2>3 DEF FileInv, Fine, Uncrossed
    <2> QED BY <2>4, <2>5 DEF Kept, Current
  <1> QED BY <1>1, <1>2, <1>3 DEF Next, vars, documents, SkipBrief, UploadMetrics, ImportRun,
            BeginGenerate, InventoryStored, GenerateDone, JobStops, EditPages, BeginChat,
            ChatNothing, ChatRefused, ChatBreaks

\* A chat edit keeps the file and the pages as they stood before it, unless its turn
\* was crossed.
THEOREM RevisionHoldsWhatStoodHolds == Spec => RevisionHoldsWhatStood
  <1>1. Init => FileInv
    BY FileInvInit
  <1>2. TypeOK /\ FileInv /\ [Next]_vars => FileInv'
    BY FileInvNext
  <1>3. TypeOK /\ FileInv /\ [Next]_vars =>
          [\A r \in Runs :
             Len(revisions'[r]) > Len(revisions[r]) /\ ~crossed'[r]
               => revisions'[r][Len(revisions'[r])] =
                    [listed |-> listed[r], full |-> full[r], pages |-> Shown(rows[r])]]_vars
    BY RevisionStep
  <1> QED BY <1>1, <1>2, <1>3, DocumentsTypeCorrect, PTL DEF Spec, RevisionHoldsWhatStood

-----------------------------------------------------------------------------
(* The ledger. *)

\* Every revision is on the ledger; what is on it, and the turns in flight, are calls.
Spent(r) ==
    /\ Len(revisions[r]) <= ledger[r]
    /\ ledger[r] + Cardinality(Asking(r)) <= calls[r]

SpendInv == \A r \in Runs : Spent(r)

LEMMA AskingFinite ==
  ASSUME NEW r
  PROVE  IsFiniteSet(Asking(r)) /\ Cardinality(Asking(r)) \in Nat
  <1>1. Asking(r) \subseteq Chats
    BY DEF Asking
  <1> QED BY <1>1, ChatsAssumption, FS_Subset, FS_CardinalityType

LEMMA SpendInvInit == Init => SpendInv
  <1> SUFFICES ASSUME Init, NEW r \in Runs PROVE Spent(r)
    BY DEF SpendInv
  <1>1. Asking(r) = {} /\ revisions[r] = <<>> /\ ledger[r] = 0 /\ calls[r] = 0
    BY DEF Init, Asking, NoChat
  <1> QED BY <1>1, FS_EmptySet DEF Spent

LEMMA SpendInvNext == TypeOK /\ SpendInv /\ [Next]_vars => SpendInv'
  <1> SUFFICES ASSUME TypeOK, SpendInv, [Next]_vars, NEW x \in Runs PROVE Spent(x)'
    BY DEF SpendInv
  <1>t. TypeOfDocuments /\ TypeOfTurns /\ TypeOfDomain
    BY DEF TypeOK
  <1>i. /\ Len(revisions[x]) <= ledger[x]
        /\ ledger[x] + Cardinality(Asking(x)) <= calls[x]
    BY DEF SpendInv, Spent
  <1>n. /\ revisions[x] \in Seq(Revisions) /\ Len(revisions[x]) \in Nat
        /\ ledger[x] \in Nat /\ calls[x] \in Nat
        /\ IsFiniteSet(Asking(x)) /\ Cardinality(Asking(x)) \in Nat
    BY <1>t, LenProperties, AskingFinite DEF TypeOfDocuments, TypeOfTurns
  <1>1. ASSUME NEW pages \in Embargoes, SaveBrief(pages) PROVE Spent(x)'
    <2>1. Len(revisions'[x]) = Len(revisions[x])
      BY <1>t, <1>1, PurgeEffect DEF SaveBrief, TypeOfDomain
    <2>2. UNCHANGED <<chat, calls, ledger>> /\ Asking(x)' = Asking(x)
      BY <1>1 DEF SaveBrief, spend, Asking
    <2> QED BY <1>i, <2>1, <2>2 DEF Spent
  <1>2. CASE UNCHANGED <<revisions, spend>> /\ Asking(x)' = Asking(x)
    BY <1>i, <1>2 DEF Spent, spend
  <1>3. ASSUME NEW r \in Runs, InventoryStored(r) PROVE Asking(x)' = Asking(x)
    <2>1. \A c \in Chats : /\ chat'[c].busy <=> chat[c].busy
                           /\ chat[c].busy => chat'[c].run = chat[c].run
      <3> TAKE c \in Chats
      <3>0. chat'[c] = IF c \in Asking(r) THEN [chat[c] EXCEPT !.gone = TRUE] ELSE chat[c]
        BY <1>3 DEF InventoryStored
      <3>1. CASE chat[c] \in Turns
        BY <3>0, <3>1 DEF Turns
      <3>2. CASE chat[c] = NoChat
        BY <3>0, <3>2 DEF Asking, NoChat
      <3> QED BY <1>t, <3>1, <3>2 DEF TypeOfTurns
    <2> QED BY <2>1 DEF Asking
  <1>4. ASSUME NEW r \in Runs, NEW c \in Chats, BeginChat(c, r) PROVE Spent(x)'
    <2>1. /\ ~chat[c].busy /\ revisions' = revisions /\ ledger' = ledger
          /\ calls' = [calls EXCEPT ![r] = @ + 1]
          /\ chat' = [chat EXCEPT ![c] =
                        [busy |-> TRUE, run |-> r, rows |-> rows[r], ticked |-> ticked[r],
                         listed |-> listed[r], full |-> full[r], gone |-> FALSE]]
      BY <1>4 DEF BeginChat, documents
    <2>2. CASE x # r
      <3>1. Asking(x)' = Asking(x) /\ calls'[x] = calls[x]
        BY <1>t, <2>1, <2>2 DEF Asking, TypeOfTurns
      <3> QED BY <1>i, <2>1, <3>1 DEF Spent
    <2>3. CASE x = r
      <3>1. /\ Asking(x)' = Asking(x) \cup {c} /\ c \notin Asking(x)
            /\ calls'[x] = calls[x] + 1
        BY <1>t, <2>1, <2>3 DEF Asking, TypeOfTurns
      <3>2. Cardinality(Asking(x)') = Cardinality(Asking(x)) + 1
        BY <1>n, <3>1, FS_AddElement
      <3> QED BY <1>i, <1>n, <2>1, <3>1, <3>2 DEF Spent
    <2> QED BY <2>2, <2>3
  <1>5. ASSUME NEW c \in Chats, chat[c].busy, chat' = [chat EXCEPT ![c] = NoChat]
        PROVE  IF chat[c].run = x
               THEN Cardinality(Asking(x)') = Cardinality(Asking(x)) - 1
               ELSE Asking(x)' = Asking(x)
    <2>1. CASE chat[c].run = x
      <3>1. Asking(x)' = Asking(x) \ {c} /\ c \in Asking(x)
        BY <1>t, <1>5, <2>1 DEF Asking, NoChat, TypeOfTurns
      <3>2. Cardinality(Asking(x)') = Cardinality(Asking(x)) - 1
        BY <1>n, <3>1, FS_RemoveElement
      <3> QED BY <2>1, <3>2
    <2>2. CASE chat[c].run # x
      BY <1>t, <1>5, <2>2 DEF Asking, NoChat, TypeOfTurns
    <2> QED BY <2>1, <2>2
  <1>6. ASSUME NEW c \in Chats, ChatRefused(c) \/ ChatBreaks(c) PROVE Spent(x)'
    <2>1. /\ chat[c].busy /\ chat' = [chat EXCEPT ![c] = NoChat]
          /\ revisions' = revisions /\ ledger' = ledger /\ calls' = calls
      BY <1>6 DEF ChatRefused, ChatBreaks, ChatEnds, documents, spend
    <2>2. Cardinality(Asking(x)') \in {Cardinality(Asking(x)), Cardinality(Asking(x)) - 1}
      BY <1>5, <2>1
    <2> QED BY <1>i, <1>n, <2>1, <2>2 DEF Spent
  <1>7. ASSUME NEW c \in Chats, ChatNothing(c) PROVE Spent(x)'
    <2>1. /\ chat[c].busy /\ chat' = [chat EXCEPT ![c] = NoChat]
          /\ revisions' = revisions /\ calls' = calls
          /\ ledger' = [ledger EXCEPT ![chat[c].run] = @ + 1]
      BY <1>7 DEF ChatNothing, ChatEnds, documents
    <2>2. CASE chat[c].run = x
      <3>1. ledger'[x] = ledger[x] + 1
        BY <1>t, <2>1, <2>2 DEF TypeOfTurns
      <3>2. Cardinality(Asking(x)') = Cardinality(Asking(x)) - 1
        BY <1>5, <2>1, <2>2
      <3> QED BY <1>i, <1>n, <2>1, <3>1, <3>2 DEF Spent
    <2>3. CASE chat[c].run # x
      <3>1. ledger'[x] = ledger[x]
        BY <1>t, <2>1, <2>3 DEF TypeOfTurns
      <3> QED BY <1>i, <1>5, <2>1, <2>3, <3>1 DEF Spent
    <2> QED BY <2>2, <2>3
  <1>8. ASSUME NEW c \in Chats, ChatApplied(c) PROVE Spent(x)'
    <2>1. PICK r \in Runs, u \in Shown(chat[c].rows), edit \in Edits : Landed(c, r, u, edit)
      BY <1>8, AppliedTurn
    <2>2. /\ chat[c].busy /\ chat[c].run = r /\ chat' = [chat EXCEPT ![c] = NoChat]
          /\ calls' = calls /\ ledger' = [ledger EXCEPT ![r] = ledger[r] + 1]
          /\ revisions' = [revisions EXCEPT ![r] = Append(revisions[r], Kept(c))]
          /\ Kept(c) \in Revisions
      BY <2>1 DEF Landed
    <2>3. CASE x = r
      <3>1. ledger'[x] = ledger[x] + 1 /\ revisions'[x] = Append(revisions[x], Kept(c))
        BY <1>t, <2>2, <2>3 DEF TypeOfTurns, TypeOfDocuments
      <3>2. Len(revisions'[x]) = Len(revisions[x]) + 1
        BY <1>n, <2>2, <3>1, AppendProperties
      <3>3. Cardinality(Asking(x)') = Cardinality(Asking(x)) - 1
        BY <1>5, <2>2, <2>3
      <3> QED BY <1>i, <1>n, <2>2, <3>1, <3>2, <3>3 DEF Spent
    <2>4. CASE x # r
      <3>1. ledger'[x] = ledger[x] /\ revisions'[x] = revisions[x]
        BY <1>t, <2>2, <2>4 DEF TypeOfTurns, TypeOfDocuments
      <3> QED BY <1>i, <1>5, <2>2, <2>4, <3>1 DEF Spent
    <2> QED BY <2>3, <2>4
  <1>9. ASSUME UNCHANGED chat PROVE Asking(x)' = Asking(x)
    BY <1>9 DEF Asking
  <1> QED BY <1>1, <1>2, <1>3, <1>4, <1>6, <1>7, <1>8, <1>9
          DEF Next, vars, documents, spend, SkipBrief, UploadMetrics, ImportRun,
              BeginGenerate, InventoryStored, GenerateDone, JobStops, EditPages

\* No edit is free, and the ledger shows no more calls than were made, for any number
\* of turns in flight.
THEOREM EditsArePaidForHolds == Spec => []EditsArePaidFor
  <1>1. Init => SpendInv
    BY SpendInvInit
  <1>2. TypeOK /\ SpendInv /\ [Next]_vars => SpendInv'
    BY SpendInvNext
  <1>3. TypeOK /\ SpendInv => EditsArePaidFor
    <2> SUFFICES ASSUME TypeOK, SpendInv, NEW r \in Runs
                 PROVE  Len(revisions[r]) <= ledger[r] /\ ledger[r] <= calls[r]
      BY DEF EditsArePaidFor
    <2>1. ledger[r] \in Nat /\ calls[r] \in Nat /\ Cardinality(Asking(r)) \in Nat
      BY AskingFinite DEF TypeOK, TypeOfTurns
    <2> QED BY <2>1 DEF SpendInv, Spent
  <1> QED BY <1>1, <1>2, <1>3, DocumentsTypeCorrect, PTL DEF Spec

=============================================================================
