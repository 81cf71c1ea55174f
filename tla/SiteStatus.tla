----------------------------- MODULE SiteStatus -----------------------------
(***************************************************************************)
(* What a client's pages say of each component of the checklist, from the  *)
(* last check of the site and from what people marked by hand              *)
(* (app/core/site_state.py, app/main.py, app/db/repo.py).  A mark is a     *)
(* transaction: it loads a row, and commits after others may have.         *)
(*                                                                         *)
(* Abstracted: the details and the commands shown beside a state, and how  *)
(* a check comes by what it finds.                                         *)
(***************************************************************************)
EXTENDS Integers, FiniteSets, Functions, Components

CONSTANTS
    StaticLayer1,   \* STATIC_LAYER1: the keys of layer 1 the probe decides
    DashboardKeys,  \* webmcp and web-bot-auth
    Findings,       \* what a check of the site may find
    Markers, Nobody,      \* requests that mark or unmark; no one
    Labels          \* the names a client is given, "" for none

ASSUME StatusAssumption == StaticLayer1 \subseteq Layer1 /\ StaticLayer1 \cap DashboardKeys = {}

VARIABLES
    client,     \* site_configs: whether there is a row, and its label
    snapshot,   \* site_snapshots: the last check's finding, none before any
    marks,      \* component_marks: the row of each key, or Nobody: who inserted it, which
                \* tells one row from another, and who marked it last
    marking     \* each marker's transaction

statusVars == <<client, snapshot, marks, marking>>

-----------------------------------------------------------------------------
(* The four states, derived each time. *)

\* manually_markable: nothing but a person can tell.
ManuallyMarkable(key) ==
    \/ key \in Layer1 /\ key \notin StaticLayer1
    \/ key \in DashboardKeys

SiteType(found) == IF found.sells THEN "ecommerce" ELSE "content"

\* A measurement, either way; a check to be made by hand is none.
Decided(key, found) == found.checks[key] \in {"pass", "fail"}

\* A bug to show what the property needs: a mark that only a pass overrules.
MarkedDone_OverAFailure(key, found, marked) ==
    marked[key] # Nobody /\ ManuallyMarkable(key)

MarkedDone(key, found, marked) ==
    marked[key] # Nobody /\ ManuallyMarkable(key) /\ ~Decided(key, found)

\* derive.
StateOf(key, found, marked) ==
    IF ~Applies(key, SiteType(found)) THEN "not_applicable"
    ELSE IF found.checks[key] = "pass" \/ MarkedDone(key, found, marked) THEN "live"
    ELSE IF key \in DOMAIN Artifact /\ Artifact[key] \in found.artifacts THEN "ready"
    ELSE IF key \in Templated /\ key \in found.templates THEN "template"
    ELSE "missing"

Applicable(found, marked) == {key \in Keys : StateOf(key, found, marked) # "not_applicable"}

\* for_client, for_developer and the todo of each; family_counts.
ForClient(found, marked) == {key \in Applicable(found, marked) : ~NeedsDeveloper(key)}
\* A bug to show what the property needs: what the site is not expected to have
\* is on the developer's list.
ForDeveloper_Everything(found, marked) == {key \in Keys : NeedsDeveloper(key)}

ForDeveloper(found, marked) == {key \in Applicable(found, marked) : NeedsDeveloper(key)}
Todo(keys, found, marked) == {key \in keys : StateOf(key, found, marked) # "live"}

FamilyCounts(found, marked) ==
    LET Members(family) == family \cap Applicable(found, marked)
        Count(family, state) ==
            Cardinality({key \in Members(family) : StateOf(key, found, marked) = state})
    IN  [family \in {f \in Families : Members(f) # {}} |->
            [state \in {"live", "ready", "template", "missing"} |-> Count(family, state)]]

-----------------------------------------------------------------------------
StatusInit ==
    /\ client = [exists |-> FALSE, label |-> ""] /\ snapshot = {}
    /\ marks = [key \in Keys |-> Nobody]
    /\ marking = [w \in Markers |-> [stage |-> "to do"]]

\* save_site_config: a blank label leaves the one there is.
SaveSiteConfig(label) ==
    client' = [exists |-> TRUE, label |-> IF label = "" THEN client.label ELSE label]

\* create_client: the row first; the check may be skipped or fail.
CreateClient ==
    /\ \E label \in Labels : SaveSiteConfig(label)
    /\ snapshot' \in {{found} : found \in Findings} \cup {snapshot}
    /\ UNCHANGED <<marks, marking>>

\* save_client_settings.
SaveClientSettings ==
    /\ \E label \in Labels : SaveSiteConfig(label)
    /\ UNCHANGED <<snapshot, marks, marking>>

\* refresh_client: it needs no client, and a check that fails changes nothing.
RefreshClient ==
    /\ snapshot' \in {{found} : found \in Findings}
    /\ UNCHANGED <<client, marks, marking>>

\* set_component_mark up to set_mark's SELECT; what the probe decides is refused.
MarkBegins(w) ==
    /\ marking[w].stage = "to do"
    /\ \E key \in Keys :
          /\ ManuallyMarkable(key)
          /\ marking' = [marking EXCEPT ![w] =
                [stage |-> "loaded", key |-> key, held |-> marks[key]]]
    /\ UNCHANGED <<client, snapshot, marks>>

\* An insert of a key that is there by now fails, and so does an update of a
\* row that is gone, whatever took its place; uq_component_marks_domain_key.
MarkCommits(w) ==
    LET key == marking[w].key
        held == marking[w].held
        mark == marks[key]
        accepted == IF held = Nobody THEN mark = Nobody
                    ELSE mark # Nobody /\ mark.row = held.row
    IN  /\ marking[w].stage = "loaded"
        /\ marks' = IF accepted
                    THEN [marks EXCEPT ![key] =
                             [row |-> IF mark = Nobody THEN w ELSE mark.row, by |-> w]]
                    ELSE marks
        /\ marking' = [marking EXCEPT ![w] = [stage |-> "done"]]
        /\ UNCHANGED <<client, snapshot>>

ClearMark(w) ==
    /\ marking[w].stage = "to do"
    /\ \E key \in Keys : ManuallyMarkable(key) /\ marks' = [marks EXCEPT ![key] = Nobody]
    /\ marking' = [marking EXCEPT ![w] = [stage |-> "done"]]
    /\ UNCHANGED <<client, snapshot>>

\* delete_client, of what this page shows.
DeleteClientStatus ==
    /\ client' = [exists |-> FALSE, label |-> ""] /\ snapshot' = {}
    /\ marks' = [key \in Keys |-> Nobody]
    /\ UNCHANGED marking

StatusNext ==
    \/ CreateClient \/ SaveClientSettings \/ RefreshClient \/ DeleteClientStatus
    \/ \E w \in Markers : MarkBegins(w) \/ MarkCommits(w) \/ ClearMark(w)

StatusSpec == StatusInit /\ [][StatusNext]_statusVars

-----------------------------------------------------------------------------
(* Correctness. *)

\* A page says that a component is live only if the last check saw it pass,
\* or if a person said so of one that check did not measure; what it found
\* wrong stays wrong whoever marked it, before or since, and no mark is ever
\* stored on what a probe decides (app/core/site_state.py:151-163, 217-252;
\* app/main.py:2916-2923).
NoMarkBeatsAMeasurement ==
    /\ \A found \in snapshot, key \in Keys :
          /\ found.checks[key] = "fail" => StateOf(key, found, marks) # "live"
          /\ StateOf(key, found, marks) = "live" /\ found.checks[key] # "pass" =>
                marks[key] # Nobody /\ key \notin StaticLayer1
    /\ \A key \in StaticLayer1 : marks[key] = Nobody

\* The client's list, the developer's and the overview never contradict each
\* other: what is left to do on the two lists is what the overview does not
\* count as live (app/core/site_state.py:86-148; app/main.py:2765-2789).
ListsAgree ==
    \A found \in snapshot :
        LET counts == FamilyCounts(found, marks)
            Sum(states) ==
                SumFunction([family \in DOMAIN counts |-> SumFunctionOnSet(counts[family], states)])
            client_todo == Todo(ForClient(found, marks), found, marks)
            dev_todo == Todo(ForDeveloper(found, marks), found, marks)
        IN  /\ Cardinality(client_todo) + Cardinality(dev_todo) = Sum({"ready", "template", "missing"})
            /\ Cardinality(Applicable(found, marks)) =
                  Sum({"live", "ready", "template", "missing"})
=============================================================================
