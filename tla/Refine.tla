------------------------------- MODULE Refine -------------------------------
(***************************************************************************)
(* Conversational edits of one client's agents.md.  What a turn asks for   *)
(* is stored as operations (artifact_edits) and replayed onto whatever the *)
(* last probe of the site makes of the file.                               *)
(*                                                                         *)
(* A turn reads the stored edit, asks a model, and writes minutes later:   *)
(* the operations after the ones it finds then, the facts it worked out    *)
(* from the ones it read before (refine_turn, app/main.py).  Meanwhile     *)
(* other people take turns, discard the edit, check the site again, delete *)
(* the client, or spend from the same daily ceiling.                       *)
(*                                                                         *)
(* Abstracted: the document is the URLs it names, a label is the URL it    *)
(* mentions or none, facts are counted per text.  Prose, the order of the  *)
(* file and the conversation kept beside the edit are left out.            *)
(***************************************************************************)
EXTENDS Naturals, Sequences, FiniteSets

CONSTANTS
    Urls,       \* what a probe can confirm: capabilities, links, policies
    Probes,     \* what a check can find
    Labels,     \* the URLs a label can mention
    Facts,      \* sentences an operator can state
    Turns,      \* refine requests that can be in flight at once
    Ceiling,    \* max_interactive_calls_per_day
    MaxAsked,   \* bound: operations of one turn
    MaxStored,  \* bound: operations of an edit when a turn begins
    MaxCalls    \* bound: calls that turns make

ASSUME ProbesAssumption == Probes \subseteq SUBSET Urls
ASSUME LabelsAssumption == Labels \subseteq Urls
ASSUME CeilingAssumption == Ceiling \in Nat \ {0}
ASSUME TurnsAssumption == IsFiniteSet(Turns)
ASSUME BoundAssumption == MaxAsked \in Nat /\ MaxStored \in Nat /\ MaxCalls \in Nat

VARIABLES
    checked,   \* there is a row of site_snapshots
    probed,    \* the URLs that probe confirmed
    stored,    \* there is a row of artifact_edits
    ops,       \* its operations
    facts,     \* its facts
    turn,      \* a request, with what it has read
    spent,     \* llm_spend of today: calls by refining, and by others
    records,   \* llm_spend: rows a turn of refining has left
    calls,     \* history: calls that turns have made
    lost,      \* history: those whose rows were rolled back, or went with the client
    asked,     \* history: operations of the turns told that they were applied
    crossed,   \* history: the facts were written while someone worked on them
    moved      \* history: the site was checked again under an edit

edit == <<stored, ops, facts>>
ledger == <<spent, records>>
history == <<calls, lost, asked, crossed, moved>>
site == <<checked, probed>>
vars == <<site, edit, turn, ledger, history>>

-----------------------------------------------------------------------------
(* Operations, and the file they make. *)

Drop(u) == [op |-> "drop", url |-> u]
Relabel(u, text) == [op |-> "relabel", url |-> u, text |-> text]
State(f) == [op |-> "add_fact", text |-> f]
Clear == [op |-> "clear_facts"]
Unusable == [op |-> "refused"]  \* empty, too long, a URL in prose: never applied

\* What the schema lets the model ask for: URLs of the file it is shown.
Operations(named) ==
    {Drop(u) : u \in named}
        \cup {Relabel(u, text) : u \in named, text \in Labels \cup {"plain"}}
        \cup {State(f) : f \in Facts} \cup {Clear, Unusable}

\* The URLs a document made from `urls` still has when operations were replayed.
Named(urls, s) == {u \in urls : \A i \in 1..Len(s) : s[i] # Drop(u)}

\* ... and those its labels mention: the last relabelling of a link counts.
Mentioned(urls, s) ==
    {v \in Labels : \E u \in Named(urls, s), i \in 1..Len(s) :
        /\ s[i] = Relabel(u, v)
        /\ \A j \in (i + 1)..Len(s) : \A text \in Labels \cup {"plain"} : s[j] # Relabel(u, text)}

NoFacts == [f \in Facts |-> 0]

\* Where a fact was stated and not cleared after; how often each one was.
Standing(s, f) == {i \in 1..Len(s) : s[i] = State(f) /\ \A j \in i..Len(s) : s[j] # Clear}
Told(s) == [f \in Facts |-> Cardinality(Standing(s, f))]

\* Mutant: clearing takes the old facts off a list that starts empty.
FactsAfter_TakenOff(before, s) ==
    [f \in Facts |->
        Told(s)[f] + IF \E i \in 1..Len(s) : s[i] = Clear THEN 0 - before[f] ELSE before[f]]

\* `apply_refinements`, as far as facts go.
FactsAfter(before, s) ==
    [f \in Facts |->
        Told(s)[f] + IF \E i \in 1..Len(s) : s[i] = Clear THEN 0 ELSE before[f]]

\* `report.changed`: each link asked about was in the file.
Changed(s) == \E i \in 1..Len(s) : s[i] # Unusable

\* The file of the panel (`_refine_state`), and that of the bundle, which is
\* downloaded and shared (`_refined`, `_from_snapshot`).
Panel == [named |-> Named(probed, ops), facts |-> facts]
Download == [named |-> Named(probed, ops), facts |-> FactsAfter(facts, ops)]

-----------------------------------------------------------------------------
(* Turns in flight. *)

Idle == [at |-> "idle"]
InFlight == {t \in Turns : turn[t].at # "idle"}
Called == {t \in Turns : turn[t].at \in {"asking", "writing"}}

Init ==
    /\ checked = FALSE /\ probed = {}
    /\ stored = FALSE /\ ops = <<>> /\ facts = NoFacts
    /\ turn = [t \in Turns |-> Idle]
    /\ spent = [refine |-> 0, other |-> 0]
    /\ records = 0
    /\ calls = 0 /\ lost = 0
    /\ asked = <<>> /\ crossed = FALSE /\ moved = FALSE

\* A request reads the file it will edit; there must have been a check.
Begin(t) ==
    /\ turn[t] = Idle /\ checked
    /\ Len(ops) <= MaxStored /\ calls < MaxCalls
    /\ turn' = [turn EXCEPT ![t] =
         [at |-> "reading", probed |-> probed, ops |-> ops, facts |-> facts]]
    /\ UNCHANGED <<site, edit, ledger, history>>

SpentToday == spent.refine + spent.other

\* Mutant: `>` for `>=`.
Ask_OneMore(t) ==
    /\ turn[t].at = "reading" /\ SpentToday <= Ceiling
    /\ turn' = [turn EXCEPT ![t].at = "asking"]
    /\ calls' = calls + 1
    /\ UNCHANGED <<site, edit, ledger, lost, asked, crossed, moved>>

\* The ceiling is looked at, and the model is called.
Ask(t) ==
    /\ turn[t].at = "reading" /\ SpentToday < Ceiling
    /\ turn' = [turn EXCEPT ![t].at = "asking"]
    /\ calls' = calls + 1
    /\ UNCHANGED <<site, edit, ledger, lost, asked, crossed, moved>>

Ends(t) == turn' = [turn EXCEPT ![t] = Idle]

\* Over the ceiling: the message is kept, in a row made for it.
OverCeiling(t) ==
    /\ turn[t].at = "reading" /\ SpentToday >= Ceiling
    /\ Ends(t)
    /\ stored' = TRUE
    /\ UNCHANGED <<site, ops, facts, ledger, history>>

\* The model has answered or failed; `record_chat` looks for the row.
Answered(t) ==
    /\ turn[t].at = "asking"
    /\ turn' = [turn EXCEPT ![t] =
         [at |-> "writing", probed |-> @.probed, ops |-> @.ops, facts |-> @.facts,
          found |-> stored, gone |-> FALSE]]
    /\ UNCHANGED <<site, edit, ledger, history>>

\* The flush that follows can be done: the row found is there, or none is yet.
\* From it on the row is locked until the turn commits.
CanWrite(t) ==
    /\ turn[t].at = "writing"
    /\ IF turn[t].found THEN ~turn[t].gone ELSE ~stored

\* `record_spend`: a call that raised is a row of no calls.
RecordSpend(n) ==
    /\ spent' = [spent EXCEPT !.refine = @ + n]
    /\ records' = records + 1

\* Nothing usable came back.
TurnNothing(t) ==
    /\ CanWrite(t)
    /\ Ends(t)
    /\ \E n \in {0, 1} : RecordSpend(n)
    /\ stored' = TRUE
    /\ UNCHANGED <<site, ops, facts, history>>

\* What the model can have asked for, given what it was shown.
AskedFor(t) ==
    UNION {[1..n -> Operations(Named(turn[t].probed, turn[t].ops))] : n \in 0..MaxAsked}

\* Mutant: the gate of the other editor, which lets a file stay broken.
Passes_Always(t, s) == TRUE

\* The gate AGT-004: no URL in the candidate that the probe did not confirm.
Passes(t, s) == Mentioned(turn[t].probed, turn[t].ops \o s) \subseteq turn[t].probed

\* Mutant: the refused turn is rolled back as a whole.
TurnRefused_RolledBack(t) ==
    /\ CanWrite(t)
    /\ Ends(t)
    /\ UNCHANGED <<site, edit, ledger, history>>

\* Refused by the gate, for this or for another rule.  "A refused turn still
\* spent tokens."
TurnRefused(t) ==
    /\ CanWrite(t)
    /\ Ends(t)
    /\ RecordSpend(1)
    /\ stored' = TRUE
    /\ UNCHANGED <<site, ops, facts, history>>

\* Mutants: the operations added to the ones read before the call; the facts left
\* to the replay of the operations.
SaveEdit_Stale(t, s) ==
    /\ ops' = IF Changed(s) THEN turn[t].ops \o s ELSE ops
    /\ facts' = FactsAfter(turn[t].facts, s)
SaveEdit_NoFacts(t, s) ==
    /\ ops' = IF Changed(s) THEN ops \o s ELSE ops
    /\ facts' = facts

\* `load_edit` and `save_edit`: operations as they are now, facts as they were.
SaveEdit(t, s) ==
    /\ ops' = IF Changed(s) THEN ops \o s ELSE ops
    /\ facts' = FactsAfter(turn[t].facts, s)

\* The turn is applied.
TurnApplied(t) ==
    /\ CanWrite(t)
    /\ \E s \in AskedFor(t) :
         /\ Passes(t, s)
         /\ SaveEdit(t, s)
         /\ asked' = IF Changed(s) THEN asked \o s ELSE asked
    /\ Ends(t)
    /\ RecordSpend(1)
    /\ stored' = TRUE
    /\ crossed' = (crossed \/ InFlight # {t})
    /\ UNCHANGED <<site, calls, lost, moved>>

\* The row was made, or deleted, between the look and the flush: a constraint or a
\* stale update raises, and the record of the call is rolled back with the rest.
TurnBreaks(t) ==
    /\ turn[t].at = "writing" /\ ~CanWrite(t)
    /\ Ends(t)
    /\ lost' = lost + 1
    /\ UNCHANGED <<site, edit, ledger, calls, asked, crossed, moved>>

\* The web process dies with everything it had in flight.
WebCrash ==
    /\ InFlight # {}
    /\ turn' = [t \in Turns |-> Idle]
    /\ lost' = lost + Cardinality(Called)
    /\ UNCHANGED <<site, edit, ledger, calls, asked, crossed, moved>>

-----------------------------------------------------------------------------
(* The others. *)

\* A check of the site replaces its snapshot.
Check(urls) ==
    /\ checked' = TRUE /\ probed' = urls
    /\ moved' = (moved \/ (urls # probed /\ (ops # <<>> \/ InFlight # {})))
    /\ UNCHANGED <<edit, turn, ledger, calls, lost, asked, crossed>>

\* The row goes; who has found it already will miss it.
EditDeleted ==
    /\ stored' = FALSE /\ ops' = <<>> /\ facts' = NoFacts
    /\ turn' = [t \in Turns |->
         IF turn[t].at = "writing" THEN [turn[t] EXCEPT !.gone = TRUE] ELSE turn[t]]
    /\ asked' = <<>>
    /\ crossed' = (InFlight # {})
    /\ moved' = (moved /\ InFlight # {})

\* "Discard every refinement."
Reset ==
    /\ EditDeleted
    /\ UNCHANGED <<site, ledger, calls, lost>>

\* The client is deleted, its snapshot and its ledger with it.
DeleteClient ==
    /\ EditDeleted
    /\ checked' = FALSE /\ probed' = {}
    /\ spent' = [refine |-> 0, other |-> 0] /\ records' = 0
    /\ lost' = lost + records
    /\ UNCHANGED calls

\* The chat editor and the brief wizard record calls and ask no ceiling.  Counted up
\* to the ceiling: beyond it a further call makes no difference to a turn.
OtherCall ==
    /\ spent.other < Ceiling
    /\ spent' = [spent EXCEPT !.other = @ + 1]
    /\ UNCHANGED <<site, edit, turn, records, history>>

Midnight ==
    /\ spent' = [refine |-> 0, other |-> 0]
    /\ UNCHANGED <<site, edit, turn, records, history>>

-----------------------------------------------------------------------------

Next ==
    \/ \E t \in Turns :
         \/ Begin(t) \/ Ask(t) \/ OverCeiling(t) \/ Answered(t)
         \/ TurnNothing(t) \/ TurnRefused(t) \/ TurnApplied(t) \/ TurnBreaks(t)
    \/ \E urls \in Probes : Check(urls)
    \/ Reset \/ DeleteClient \/ OtherCall \/ Midnight \/ WebCrash

Spec == Init /\ [][Next]_vars

-----------------------------------------------------------------------------
(* Properties. *)

AnOperation == Operations(Urls)
Counts == [Facts -> Nat]
Requests ==
    {Idle}
        \cup [at : {"reading", "asking"}, probed : SUBSET Urls, ops : Seq(AnOperation),
              facts : Counts]
        \cup [at : {"writing"}, probed : SUBSET Urls, ops : Seq(AnOperation),
              facts : Counts, found : BOOLEAN, gone : BOOLEAN]

TypeOK ==
    /\ checked \in BOOLEAN /\ probed \in SUBSET Urls
    /\ stored \in BOOLEAN /\ ops \in Seq(AnOperation) /\ facts \in Counts
    /\ turn \in [Turns -> Requests]
    /\ spent \in [refine : Nat, other : Nat]
    /\ records \in Nat /\ calls \in Nat /\ lost \in Nat
    /\ asked \in Seq(AnOperation) /\ crossed \in BOOLEAN /\ moved \in BOOLEAN

\* "The row is the current state of what the operator asked for" (save_edit): every
\* operation of every turn that was told it was applied is there, in order, until
\* the edit is discarded, whoever else took a turn meanwhile.
NothingAskedIsLost == ops = asked /\ (~stored => ops = <<>> /\ facts = NoFacts)

\* The facts of the panel are those the operations have stated and not cleared.  It
\* fails only where a turn landed, or the edit was discarded, under another turn.
FactsFollowTheOperations == ~crossed => facts = Told(ops)

\* The file only mentions URLs that the probe confirmed (AGT-004), however many
\* turns made it, as long as the site was not checked again under the edit.
EvidenceBacksTheFile ==
    ~moved => Mentioned(probed, ops) \subseteq probed

\* The ceiling is read before the call and the call recorded after it, so it can be
\* passed, but by no more than the other requests in flight.
OvershootIsBounded ==
    spent.refine + Cardinality(Called) < Ceiling + Cardinality(Turns)

\* "Persisted whether or not the model returned anything usable": a call has left a
\* row, is in flight, was rolled back or cut off, or went with the client.
EveryCallIsOnRecord == calls = records + lost + Cardinality(Called)

-----------------------------------------------------------------------------
(* What comments of the program say, and the code does not do. *)

\* "The panel, the turn handler and the download must agree about what the current
\* file is" (_refine_state).
PanelIsTheDownload == checked => Panel = Download

=============================================================================
