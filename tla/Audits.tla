------------------------------- MODULE Audits -------------------------------
(***************************************************************************)
(* The audits another tool, the Checker, pushes, and an admin takes back,  *)
(* one by one or with their client (app/main.py, app/db/repo.py).  A push  *)
(* is a transaction: it loads the row of its audit id and commits after    *)
(* others may have; a row that was loaded is updated, by its primary key,  *)
(* in the columns that differ from what was loaded, as SQLAlchemy does.    *)
(* The token and the shape of a payload are left out: a push that is       *)
(* refused stores nothing.                                                 *)
(***************************************************************************)
EXTENDS Integers, FiniteSetsExt

CONSTANTS
    Pushes,         \* what the Checker may push: [id, domain, score, at]
    Deliveries,     \* the times a push arrives
    NoAudit,        \* no row
    MaxRetractions  \* bound: after how many audits taken back an admin stops

AuditIds == {push.id : push \in Pushes}

\* SiteAudit: what a row may hold.
Rows == [domain : {push.domain : push \in Pushes}, payload : Pushes,
         score : {push.score : push \in Pushes}, at : {push.at : push \in Pushes}]

ASSUME NoAuditAssumption == NoAudit \notin Rows

VARIABLES
    audits,     \* site_audits: the row of each audit id, or NoAudit
    delivery,   \* each delivery's transaction
    created,    \* how often a row of each id was inserted, and a push answered "created":
                \* it tells a row from the one that was there before, as the primary key does
    retracted   \* history: how often a row of each id was removed

auditVars == <<audits, delivery, created, retracted>>

AuditsInit ==
    /\ audits = [id \in AuditIds |-> NoAudit]
    /\ delivery = [d \in Deliveries |-> [stage |-> "to do"]]
    /\ created = [id \in AuditIds |-> 0] /\ retracted = [id \in AuditIds |-> 0]

-----------------------------------------------------------------------------
\* receive_audit up to save_audit's SELECT.  A push may arrive twice, and
\* after a later one.
AuditArrives(d) ==
    /\ delivery[d].stage = "to do"
    /\ \E push \in Pushes :
          delivery' = [delivery EXCEPT ![d] =
              [stage |-> "loaded", push |-> push, row |-> audits[push.id],
               key |-> created[push.id]]]
    /\ UNCHANGED <<audits, created, retracted>>

RowOf(push) == [domain |-> push.domain, payload |-> push, score |-> push.score, at |-> push.at]

\* The columns that differ from those loaded, over the row as it is now.
Updated(now, loaded, push) ==
    LET new == RowOf(push)
        Of(column) == IF new[column] # loaded[column] THEN new[column] ELSE now[column]
    IN  [domain |-> Of("domain"), payload |-> Of("payload"), score |-> Of("score"),
         at |-> Of("at")]

\* A bug to show what the property needs: without the unique audit_id a
\* second first push is stored beside the other, and both are new.
Accepted_Twice(loaded, now, same) == loaded = NoAudit \/ now # NoAudit

\* The insert meets no row of its id; the update still has the row that was
\* loaded, and not one that took its place.  Else the flush fails, and the
\* push is rolled back.
Accepted(loaded, now, same) ==
    IF loaded = NoAudit THEN now = NoAudit ELSE now # NoAudit /\ same

AuditStored(d) ==
    LET push == delivery[d].push
        loaded == delivery[d].row
        now == audits[push.id]
        same == delivery[d].key = created[push.id]
    IN  /\ delivery[d].stage = "loaded"
        /\ delivery' = [delivery EXCEPT ![d] = [stage |-> "done"]]
        /\ IF Accepted(loaded, now, same)
           THEN /\ audits' = [audits EXCEPT ![push.id] =
                       IF loaded = NoAudit THEN RowOf(push) ELSE Updated(now, loaded, push)]
                /\ created' = [created EXCEPT ![push.id] = @ + (IF loaded = NoAudit THEN 1 ELSE 0)]
           ELSE UNCHANGED <<audits, created>>
        /\ UNCHANGED retracted

Retractions == MapThenSumSet(LAMBDA id : retracted[id], AuditIds)

TakenBack(ids) ==
    /\ Retractions < MaxRetractions
    /\ audits' = [id \in AuditIds |-> IF id \in ids THEN NoAudit ELSE audits[id]]
    /\ retracted' = [id \in AuditIds |-> retracted[id] + (IF id \in ids THEN 1 ELSE 0)]
    /\ UNCHANGED <<delivery, created>>

\* delete_audit_route, of an audit that is there.
DeleteAudit == \E id \in AuditIds : audits[id] # NoAudit /\ TakenBack({id})

\* delete_client, of the audits of its domain.
DeleteClientAudits ==
    \E domain \in {push.domain : push \in Pushes} :
        TakenBack({id \in AuditIds : audits[id] # NoAudit /\ audits[id].domain = domain})

AuditsNext ==
    \/ DeleteAudit \/ DeleteClientAudits
    \/ \E d \in Deliveries : AuditArrives(d) \/ AuditStored(d)

AuditsSpec == AuditsInit /\ [][AuditsNext]_auditVars

-----------------------------------------------------------------------------
(* Correctness. *)

\* However often a push arrives, and with however many others under way, an
\* audit the Checker was told is stored is there until an admin takes it
\* back, and it was told so as new once for each time it was put there
\* (app/db/repo.py:410, 1080-1113, 1131; app/db/models.py:621-622).
AuditsBalance ==
    \A id \in AuditIds :
        created[id] - retracted[id] = IF audits[id] = NoAudit THEN 0 ELSE 1
=============================================================================
