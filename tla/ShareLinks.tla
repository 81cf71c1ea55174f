----------------------------- MODULE ShareLinks -----------------------------
(***************************************************************************)
(* Links a client can open (share_links), the token bucket in front of     *)
(* them, and the PDF export that opens one itself.                         *)
(*                                                                         *)
(* A request reads the row of its token, renders for a while, and counts   *)
(* the view in the row as it read it; meanwhile the link may be revoked,   *)
(* expire, or go with its client.  Minting counts the live links and then  *)
(* adds one.  An export holds the one browser slot while the browser       *)
(* comes back through the same door as any client (app/main.py,            *)
(* app/core/share.py, throttle.py, app/pdf.py).                            *)
(*                                                                         *)
(* Abstracted: a token is the identity of its link, drawn once; sections,  *)
(* labels, the count and the dates of views and who revoked a link are     *)
(* left out; one unit of time for days, minutes and tokens of the bucket.  *)
(***************************************************************************)
EXTENDS Integers, Sequences, FiniteSets

CONSTANTS
    Domains, Links,
    Strangers,     \* tokens that name no link
    Requests,      \* requests in flight at once
    Exports,       \* PDF exports in flight at once
    NoLink, NoExport,
    DefaultDays, MaxDays, Cap,   \* share_link_default_days, _max_days, share_links_per_domain
    ExportLife,    \* life of the link that a staff export mints for itself
    SlotWait, RenderTimeout,     \* the timeouts of app/pdf.py
    Rate, Burst, MaxKeys,        \* the bucket: tokens per unit of time, most of them, keys
    DaysAsked,     \* what the form can send
    MaxClock       \* a bound

ASSUME NamesAssumption ==
    NoLink \notin Links /\ NoExport \notin Exports
        /\ Strangers \cap Links = {}
ASSUME RequestsAssumption == IsFiniteSet(Requests) /\ IsFiniteSet(Links) /\ Requests # {}
ASSUME DaysAssumption ==
    DefaultDays \in Int /\ MaxDays \in Int /\ DaysAsked \subseteq Int /\ Cap \in Nat
ASSUME TimeoutAssumption ==
    /\ SlotWait \in Nat /\ RenderTimeout \in Nat /\ ExportLife \in Nat
    /\ ExportLife > SlotWait + RenderTimeout  \* 120 s, 20 s and 45 s
ASSUME BucketAssumption ==
    Rate \in Nat /\ Burst \in Nat \ {0} /\ MaxKeys \in Nat \ {0}
ASSUME BoundAssumption == MaxClock \in Nat

VARIABLES
    clock,
    enabled,   \* share_links_enabled, as the process read it when it started
    row,       \* share_links
    checked,   \* the domains that have a snapshot to show
    bucket,    \* TokenBucket._seen: tokens and when they were counted
    order,     \* ... and the order of its keys, least recently seen first
    request,   \* a handler that awaits the database
    export,    \* a handler that awaits the browser
    slot,      \* who holds pdf._SLOT
    granted,   \* history: since when a key is in the bucket, and the requests it let in
    refused,   \* history: staff exports whose own page was refused though their link stood
    crowd,     \* history: the most requests that minted a link together
    late       \* history: links whose page went out to a request that began when they had ended

web == <<request, export, slot>>
throttle == <<bucket, order, granted>>
history == <<refused, crowd, late>>
vars == <<clock, enabled, row, checked, throttle, web, history>>

-----------------------------------------------------------------------------
(* Rows. *)

Row == [status : {"free", "unborn", "row", "gone"},  \* unborn: added, not committed
        domain : Domains, expires : Int, revoked : BOOLEAN, own : BOOLEAN]

Stored(l) == row[l].status = "row"

\* ShareLink.state
Live(l) == Stored(l) /\ ~row[l].revoked /\ row[l].expires > clock

\* live_share_link_count
LiveLinks(d) == {l \in Links : Live(l) /\ row[l].domain = d}

\* A token is drawn once: the row of a deleted client leaves only its name.
Gone(l) == [status |-> "gone", domain |-> row[l].domain, expires |-> 0, revoked |-> FALSE,
            own |-> FALSE]

NewRow(d, life, own, status) ==
    [status |-> status, domain |-> d, expires |-> clock + life, revoked |-> FALSE,
     own |-> own]

-----------------------------------------------------------------------------
(* The bucket. *)

Keys == Links \cup Strangers
Absent == [tokens |-> -1, last |-> 0]
None == [since |-> 0, count |-> 0]
Lesser(a, b) == IF a < b THEN a ELSE b

\* What a key has when it asks now.
Refilled(key) ==
    IF bucket[key] = Absent THEN Burst
    ELSE Lesser(Burst, bucket[key].tokens + (clock - bucket[key].last) * Rate)

\* The keys in order, once `key` was taken out and put back at the end.
Touched(key) ==
    LET Other(k) == k # key IN Append(SelectSeq(order, Other), key)

Evicted(queue) == {queue[i] : i \in 1..(Len(queue) - MaxKeys)}

Permits(key) == Refilled(key) >= 1

\* Mutant: the time a key was seen is not brought forward, so it refills twice.
Allow_Refills(key) ==
    LET queue == Touched(key)
        left == IF Permits(key) THEN Refilled(key) - 1 ELSE Refilled(key)
        mine == [tokens |-> left, last |-> IF bucket[key] = Absent THEN clock ELSE bucket[key].last]
        before == IF bucket[key] = Absent THEN [None EXCEPT !.since = clock] ELSE granted[key]
    IN  /\ order' = SubSeq(queue, 1 + Cardinality(Evicted(queue)), Len(queue))
        /\ bucket' = [k \in Keys |-> IF k \in Evicted(queue) THEN Absent
                                     ELSE IF k = key THEN mine ELSE bucket[k]]
        /\ granted' = [k \in Keys |->
               IF k \in Evicted(queue) THEN None
               ELSE IF k # key THEN granted[k]
               ELSE IF Permits(key) THEN [before EXCEPT !.count = @ + 1] ELSE before]

\* TokenBucket.allow, all of it one step of the event loop.
Allow(key) ==
    LET queue == Touched(key)
        left == IF Permits(key) THEN Refilled(key) - 1 ELSE Refilled(key)
        mine == [tokens |-> left, last |-> clock]
        before == IF bucket[key] = Absent THEN [None EXCEPT !.since = clock] ELSE granted[key]
    IN  /\ order' = SubSeq(queue, 1 + Cardinality(Evicted(queue)), Len(queue))
        /\ bucket' = [k \in Keys |-> IF k \in Evicted(queue) THEN Absent
                                     ELSE IF k = key THEN mine ELSE bucket[k]]
        /\ granted' = [k \in Keys |->
               IF k \in Evicted(queue) THEN None
               ELSE IF k # key THEN granted[k]
               ELSE IF Permits(key) THEN [before EXCEPT !.count = @ + 1] ELSE before]

-----------------------------------------------------------------------------
Idle == [pc |-> "idle", link |-> NoLink, live |-> FALSE, revoked |-> FALSE,
         for |-> NoExport, pdf |-> FALSE]

Request == [pc : {"idle", "asked", "resolved", "minting", "revoking"},
            link : Links \cup {NoLink},
            live : BOOLEAN,               \* history: the link was live when the request began
            revoked : BOOLEAN,            \* revoked_at as it was read
            for : Exports \cup {NoExport},  \* the export whose browser asks
            pdf : BOOLEAN]                \* the client pressed the download button

Resting == [pc |-> "idle", link |-> NoLink, since |-> 0]

Export == [pc : {"idle", "queued", "rendering", "loading", "printing"},
           link : Links \cup {NoLink}, since : 0..MaxClock]

Free(q) == request[q].pc = "idle"
Under(e) == export[e].pc \in {"rendering", "loading", "printing"}

Init ==
    /\ clock = 0 /\ enabled \in BOOLEAN /\ checked = {}
    /\ row \in [Links -> {[status |-> "free", domain |-> d, expires |-> 0,
                           revoked |-> FALSE, own |-> FALSE] : d \in Domains}]
    /\ bucket = [k \in Keys |-> Absent] /\ order = <<>>
    /\ granted = [k \in Keys |-> None]
    /\ request = [q \in Requests |-> Idle]
    /\ export = [e \in Exports |-> Resting] /\ slot = NoExport
    /\ refused = {} /\ crowd = 0 /\ late = {}

-----------------------------------------------------------------------------
(* Minting and revoking. *)

Minting == {q \in Requests : request[q].pc = "minting"}

\* Mutant: the live links are not counted.
BeginMint_Uncounted(q, l, d, days) ==
    LET wanted == IF days = 0 THEN DefaultDays ELSE days
    IN  /\ Free(q) /\ enabled /\ row[l].status = "free"
        /\ wanted <= MaxDays
        /\ row' = [row EXCEPT ![l] = NewRow(d, wanted, FALSE, "unborn")]
        /\ request' = [request EXCEPT ![q] = [Idle EXCEPT !.pc = "minting", !.link = l]]
        /\ crowd' = IF crowd > Cardinality(Minting) THEN crowd ELSE Cardinality(Minting) + 1
        /\ UNCHANGED <<clock, enabled, checked, throttle, export, slot, refused, late>>

\* create_share up to the count of live links.  Refusals change nothing.
BeginMint(q, l, d, days) ==
    LET wanted == IF days = 0 THEN DefaultDays ELSE days
    IN  /\ Free(q) /\ enabled /\ row[l].status = "free"
        /\ wanted <= MaxDays
        /\ Cardinality(LiveLinks(d)) < Cap
        /\ row' = [row EXCEPT ![l] = NewRow(d, wanted, FALSE, "unborn")]
        /\ request' = [request EXCEPT ![q] = [Idle EXCEPT !.pc = "minting", !.link = l]]
        /\ crowd' = IF crowd > Cardinality(Minting) THEN crowd ELSE Cardinality(Minting) + 1
        /\ UNCHANGED <<clock, enabled, checked, throttle, export, slot, refused, late>>

CommitMint(q) ==
    /\ request[q].pc = "minting"
    /\ row' = [row EXCEPT ![request[q].link].status = "row"]
    /\ request' = [request EXCEPT ![q] = Idle]
    /\ UNCHANGED <<clock, enabled, checked, throttle, export, slot, history>>

\* revoke_share: the row is read, and written if it was not revoked then.
BeginRevoke(q, l) ==
    /\ Free(q) /\ Stored(l)
    /\ request' = [request EXCEPT ![q] =
                      [Idle EXCEPT !.pc = "revoking", !.link = l, !.revoked = row[l].revoked]]
    /\ UNCHANGED <<clock, enabled, row, checked, throttle, export, slot, history>>

CommitRevoke(q) ==
    LET l == request[q].link
    IN  /\ request[q].pc = "revoking"
        /\ row' = IF Stored(l) /\ ~request[q].revoked
                  THEN [row EXCEPT ![l].revoked = TRUE]
                  ELSE row  \* it was revoked already, or the flush finds no row and raises
        /\ request' = [request EXCEPT ![q] = Idle]
        /\ UNCHANGED <<clock, enabled, checked, throttle, export, slot, history>>

-----------------------------------------------------------------------------
(* Opening a link: _share_render, for a page, a download or an export. *)

\* The token was shown once, to who minted the link; the one of an export is in nobody's hands.
Known(key) == key \in Links => row[key].status \in {"row", "gone"} /\ ~row[key].own

\* The throttle, which answers 429 by itself.
BeginView(q, key, pdf) ==
    /\ Free(q) /\ enabled /\ Known(key)
    /\ Allow(key)
    /\ request' = [request EXCEPT ![q] =
          IF Permits(key) /\ key \in Links
          THEN [Idle EXCEPT !.pc = "asked", !.link = key, !.live = Live(key), !.pdf = pdf]
          ELSE Idle]
    /\ UNCHANGED <<clock, enabled, row, checked, export, slot, history>>

\* An export ends: its browser closes, its slot is free, and nobody waits for its page.
ExportEnds(e) ==
    /\ export' = [export EXCEPT ![e] = Resting]
    /\ slot' = IF slot = e THEN NoExport ELSE slot

Detached(asking, e) ==
    [q \in Requests |-> IF asking[q].for = e THEN [asking[q] EXCEPT !.for = NoExport]
                        ELSE asking[q]]

\* A refusal.  If an export asked, render_pdf raises PdfFailed.
Refusal(q) ==
    LET e == request[q].for
        l == request[q].link
        asking == [request EXCEPT ![q] = Idle]
    IN  /\ request' = asking
        /\ IF e = NoExport THEN UNCHANGED <<export, slot, refused>>
           ELSE /\ ExportEnds(e)
                /\ refused' = IF row[l].own /\ row[l].status # "gone" /\ ~row[l].revoked
                              THEN refused \cup {l} ELSE refused

\* Mutant: the page does not ask whether the link was revoked.
Resolve_Revoked(q) ==
    LET l == request[q].link
    IN  /\ request[q].pc = "asked"
        /\ IF Stored(l) /\ row[l].expires > clock
           THEN /\ request' = [request EXCEPT ![q].pc = "resolved"]
                /\ UNCHANGED <<export, slot, refused>>
           ELSE Refusal(q)
        /\ UNCHANGED <<clock, enabled, row, checked, throttle, crowd, late>>

\* The row is read, and judged by the time it is read.
Resolve(q) ==
    LET l == request[q].link
    IN  /\ request[q].pc = "asked"
        /\ IF Live(l)
           THEN /\ request' = [request EXCEPT ![q].pc = "resolved"]
                /\ UNCHANGED <<export, slot, refused>>
           ELSE Refusal(q)
        /\ UNCHANGED <<clock, enabled, row, checked, throttle, crowd, late>>

\* The snapshot is read, the view is recorded, the page goes out.  Of the row
\* only the count and the dates of views are written.
Show(q) ==
    LET l == request[q].link
        e == request[q].for
    IN  /\ request[q].pc = "resolved"
        /\ row[l].domain \in checked /\ Stored(l)
        /\ request' = [request EXCEPT ![q] = Idle]
        /\ late' = IF request[q].live THEN late ELSE late \cup {l}
        /\ \/ /\ e # NoExport
              /\ export' = [export EXCEPT ![e].pc = "printing"]
           \/ /\ e = NoExport /\ request[q].pdf
              /\ \E x \in Exports :
                    /\ export[x].pc = "idle"
                    /\ export' = [export EXCEPT ![x] =
                                     [pc |-> "queued", link |-> l, since |-> clock]]
           \/ e = NoExport /\ ~request[q].pdf /\ UNCHANGED export
        /\ UNCHANGED <<clock, enabled, row, checked, throttle, slot, refused, crowd>>

\* No snapshot, or the row went while the page was rendered: the flush raises.
ShowFails(q) ==
    LET l == request[q].link
    IN  /\ request[q].pc = "resolved"
        /\ row[l].domain \notin checked \/ ~Stored(l)
        /\ Refusal(q)
        /\ UNCHANGED <<clock, enabled, row, checked, throttle, crowd, late>>

-----------------------------------------------------------------------------
(* Exports. *)

\* Mutant: the link outlives the wait for the slot and not the render.
StaffExport_ShortLived(e, l, d) ==
    /\ export[e].pc = "idle" /\ enabled /\ d \in checked /\ row[l].status = "free"
    /\ row' = [row EXCEPT ![l] = NewRow(d, SlotWait, TRUE, "row")]
    /\ export' = [export EXCEPT ![e] = [pc |-> "queued", link |-> l, since |-> clock]]
    /\ UNCHANGED <<clock, enabled, checked, throttle, request, slot, history>>

\* client_preview_pdf mints a link of its own, without counting the live ones.
StaffExport(e, l, d) ==
    /\ export[e].pc = "idle" /\ enabled /\ d \in checked /\ row[l].status = "free"
    /\ row' = [row EXCEPT ![l] = NewRow(d, ExportLife, TRUE, "row")]
    /\ export' = [export EXCEPT ![e] = [pc |-> "queued", link |-> l, since |-> clock]]
    /\ UNCHANGED <<clock, enabled, checked, throttle, request, slot, history>>

TakeSlot(e) ==
    /\ export[e].pc = "queued" /\ slot = NoExport
    /\ slot' = e
    /\ export' = [export EXCEPT ![e].pc = "rendering", ![e].since = clock]
    /\ UNCHANGED <<clock, enabled, row, checked, throttle, request, history>>

\* The browser fetches /share/<token>?print=1 from this process.
Load(e, q) ==
    LET l == export[e].link
    IN  /\ export[e].pc = "rendering" /\ Free(q)
        /\ Allow(l)
        /\ IF Permits(l)
           THEN /\ request' = [request EXCEPT ![q] =
                     [Idle EXCEPT !.pc = "asked", !.link = l, !.live = Live(l), !.for = e]]
                /\ export' = [export EXCEPT ![e].pc = "loading"]
                /\ UNCHANGED <<slot, refused>>
           ELSE /\ ExportEnds(e)
                /\ refused' = IF row[l].own THEN refused \cup {l} ELSE refused
                /\ UNCHANGED request
        /\ UNCHANGED <<clock, enabled, row, checked, crowd, late>>

\* The bytes are there, the browser failed, or the render took too long.
RenderEnds(e) ==
    /\ Under(e)
    /\ ExportEnds(e)
    /\ request' = Detached(request, e)
    /\ UNCHANGED <<clock, enabled, row, checked, throttle, history>>

GiveUpSlot(e) ==
    /\ export[e].pc = "queued" /\ clock - export[e].since >= SlotWait
    /\ ExportEnds(e)
    /\ UNCHANGED <<clock, enabled, row, checked, throttle, request, history>>

-----------------------------------------------------------------------------
(* The rest of the system. *)

Check(d) ==
    /\ checked' = checked \cup {d}
    /\ UNCHANGED <<clock, enabled, row, throttle, web, history>>

DeleteClient(d) ==
    /\ checked' = checked \ {d}
    /\ row' = [l \in Links |-> IF Stored(l) /\ row[l].domain = d
                               THEN Gone(l) ELSE row[l]]
    /\ UNCHANGED <<clock, enabled, throttle, web, history>>

\* The web process stops and another starts, perhaps with the feature the other way.
Redeploy ==
    /\ enabled' \in BOOLEAN
    /\ row' = [l \in Links |-> IF row[l].status = "unborn"
                               THEN Gone(l) ELSE row[l]]
    /\ bucket' = [k \in Keys |-> Absent] /\ order' = <<>>
    /\ granted' = [k \in Keys |-> None]
    /\ request' = [q \in Requests |-> Idle]
    /\ export' = [e \in Exports |-> Resting] /\ slot' = NoExport
    /\ UNCHANGED <<clock, checked, history>>

\* Time passes; the two timeouts of an export fire when they are due.
Tick ==
    /\ clock < MaxClock
    /\ \A e \in Exports :
          /\ export[e].pc = "queued" => clock - export[e].since < SlotWait
          /\ Under(e) => clock - export[e].since < RenderTimeout
    /\ clock' = clock + 1
    /\ UNCHANGED <<enabled, row, checked, throttle, web, history>>

Next ==
    \/ \E q \in Requests :
          \/ \E l \in Links :
                \/ \E d \in Domains, days \in DaysAsked : BeginMint(q, l, d, days)
                \/ BeginRevoke(q, l)
          \/ \E key \in Keys, pdf \in BOOLEAN : BeginView(q, key, pdf)
          \/ CommitMint(q) \/ CommitRevoke(q)
          \/ Resolve(q) \/ Show(q) \/ ShowFails(q)
          \/ \E e \in Exports : Load(e, q)
    \/ \E e \in Exports :
          \/ \E l \in Links, d \in Domains : StaffExport(e, l, d)
          \/ TakeSlot(e) \/ RenderEnds(e) \/ GiveUpSlot(e)
    \/ \E d \in Domains : Check(d) \/ DeleteClient(d)
    \/ Redeploy \/ Tick

Spec == Init /\ [][Next]_vars

-----------------------------------------------------------------------------
(* Properties. *)

\* Every record has its shape.
TypeOK ==
    /\ clock \in 0..MaxClock /\ enabled \in BOOLEAN /\ checked \in SUBSET Domains
    /\ row \in [Links -> Row]
    /\ bucket \in [Keys -> [tokens : -1..Burst, last : 0..MaxClock]]
    /\ granted \in [Keys -> [since : 0..MaxClock, count : Nat]]
    /\ request \in [Requests -> Request]
    /\ export \in [Exports -> Export] /\ slot \in Exports \cup {NoExport}
    /\ refused \in SUBSET Links /\ late \in SUBSET Links /\ crowd \in Nat

\* A page goes out only to a request that began while its link was live: what
\* began after a revocation, the expiry, the deletion of the client or a
\* redeploy that turned links off gets the one refusal, however requests cross.
NothingAfterTheEnd == late = {}

\* The links staff minted for a client pass the ceiling only where requests
\* counted together, and by no more than their number less one (create_share
\* counts, then inserts).
Minted(d) == {l \in LiveLinks(d) : ~row[l].own}
LiveLinksBounded ==
    \A d \in Domains : Minted(d) # {} => Cardinality(Minted(d)) <= Cap + crowd - 1

\* The requests a key was let in with stay under its burst and what time refills,
\* from when the key entered the bucket.
ThrottleHolds ==
    \A k \in Keys : bucket[k] # Absent =>
        granted[k].count <= Burst + Rate * (clock - granted[k].since)

\* A staff export that got the slot is not refused its own page: the link it
\* minted is committed before the browser asks and outlives both timeouts, and
\* its key is fresh in the bucket.
OwnPageOpens == refused = {}

=============================================================================
