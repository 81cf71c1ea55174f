---------------------------- MODULE Access_proofs ----------------------------
(***************************************************************************)
(* Who gets in.  Accounts: the instance is claimed once, for any number of *)
(* browsers, addresses and transactions that die.  Share links, their      *)
(* throttle and the exports: for every number of links, requests and       *)
(* exports, every ceiling, every rate of the bucket, and every pair of     *)
(* timeouts that the life of a link covers.                                *)
(***************************************************************************)
EXTENDS ShareLinks, Accounts, FiniteSetTheorems, TLAPS

-----------------------------------------------------------------------------
(* Accounts. *)

USE AccountsAssumption, NoAccountAssumption

\* Who works under the lock holds it.
UnderTheLock ==
    \A b \in Browsers : visit[b].pc \in {"claims", "googles"} => lock = b

\* What was read under the lock still holds: nobody is there, or somebody is;
\* and an admin's form is open only where there is an account.
ReadUnderTheLock ==
    \A b \in Browsers :
        /\ visit[b].pc = "claims" => ~Bootstrapped
        /\ visit[b].pc = "googles" => visit[b].first = ~Bootstrapped
        /\ visit[b].pc = "creating" => Bootstrapped

\* No account without a claim, no claim without an account, and one claim.
OneClaim ==
    /\ \A e, f \in claimed : e = f
    /\ Bootstrapped <=> claimed # {}

\* A request in flight names an address, an admin's form also the admin's.
Addressed ==
    \A b \in Browsers :
        /\ visit[b].pc # "idle" => visit[b].email \in Emails
        /\ visit[b].pc = "creating" => visit[b].by \in Emails

AccountsInv == AccountsTypeOK /\ Addressed /\ UnderTheLock /\ ReadUnderTheLock /\ OneClaim

LEMMA AccountsInitially == AccountsInit => AccountsInv
  BY DEF AccountsInit, AccountsInv, AccountsTypeOK, Addressed, UnderTheLock, ReadUnderTheLock, OneClaim,
         Bootstrapped, Exists, Away, Visit

\* A row that is inserted is one, and it is there.
LEMMA Inserted ==
  ASSUME AccountsInv, NEW e \in Emails, NEW admin \in BOOLEAN, NEW password \in BOOLEAN,
         NEW madeBy \in Emails \cup {"self", "google-sso"},
         Insert(e, admin, password, madeBy)
  PROVE  /\ account' \in [Emails -> Account \cup {NoAccount}]
         /\ claimed' \in SUBSET Emails
         /\ Bootstrapped'
         /\ claimed' = IF admin THEN claimed \cup {e} ELSE claimed
  <1> DEFINE new == [admin |-> admin, active |-> TRUE, password |-> password, madeBy |-> madeBy]
  <1>1. new \in Account
    BY DEF Account
  <1>2. account' = [account EXCEPT ![e] = new] /\ account \in [Emails -> Account \cup {NoAccount}]
    BY DEF Insert, AccountsInv, AccountsTypeOK
  <1>3. account' \in [Emails -> Account \cup {NoAccount}] /\ account'[e] = new
    BY <1>1, <1>2
  <1>4. account'[e] # NoAccount
    BY <1>1, <1>3
  <1> QED BY <1>3, <1>4 DEF Insert, Bootstrapped, Exists, AccountsInv, AccountsTypeOK

\* Each step keeps the shapes, the lock, what was read under it, and the claim.
LEMMA AccountsStep == AccountsInv /\ [AccountsNext]_accountsVars => AccountsInv'
  <1> SUFFICES ASSUME AccountsInv, [AccountsNext]_accountsVars PROVE AccountsInv'
    OBVIOUS
  <1> USE DEF AccountsInv
  <1>1. ASSUME NEW b \in Browsers, NEW e \in Emails, Signup(b, e) \/ GoogleCallback(b, e)
        PROVE  AccountsInv'
    <2>1. PICK pc \in {"claiming", "googling"} : visit' = [visit EXCEPT ![b] = [Away EXCEPT !.pc = pc, !.email = e]]
      BY <1>1 DEF Signup, GoogleCallback, Go
    <2>2. UNCHANGED <<account, lock, cookie, claimed>>
      BY <1>1 DEF Signup, GoogleCallback
    <2> DEFINE mine == [Away EXCEPT !.pc = pc, !.email = e]
    <2>4. mine \in Visit /\ mine.pc = pc /\ mine.email = e
      BY DEF Away, Visit
    <2>5. visit' = [visit EXCEPT ![b] = mine]
      BY <2>1
    <2> HIDE DEF mine
    <2>3. visit' \in [Browsers -> Visit] /\ visit'[b].pc = pc /\ visit'[b].email = e
          /\ \A c \in Browsers \ {b} : visit'[c] = visit[c]
      BY <2>4, <2>5 DEF AccountsTypeOK
    <2> QED BY <2>2, <2>3 DEF AccountsTypeOK, Addressed, UnderTheLock, ReadUnderTheLock, OneClaim,
               Bootstrapped, Exists
  <1>2. ASSUME NEW b \in Browsers, LockForClaim(b) PROVE AccountsInv'
    <2>1. CASE Bootstrapped
      <3>1. /\ visit' = [visit EXCEPT ![b] = Away]
            /\ UNCHANGED <<account, lock, cookie, claimed>>
        BY <1>2, <2>1 DEF LockForClaim, Leave
      <3>2. visit' \in [Browsers -> Visit] /\ visit'[b].pc = "idle"
            /\ \A c \in Browsers \ {b} : visit'[c] = visit[c]
        BY <3>1 DEF AccountsTypeOK, Away, Visit
      <3> QED BY <3>1, <3>2 DEF AccountsTypeOK, Addressed, UnderTheLock, ReadUnderTheLock, OneClaim,
                 Bootstrapped, Exists
    <2>2. CASE ~Bootstrapped
      <3>1. /\ lock = NoBrowser /\ lock' = b
            /\ visit' = [visit EXCEPT ![b].pc = "claims"]
            /\ UNCHANGED <<account, cookie, claimed>>
        BY <1>2, <2>2 DEF LockForClaim
      <3>2. visit' \in [Browsers -> Visit] /\ visit'[b].pc = "claims" /\ visit'[b].email = visit[b].email
            /\ \A c \in Browsers \ {b} : visit'[c] = visit[c]
        BY <3>1 DEF AccountsTypeOK, Visit
      <3>3. \A c \in Browsers : visit[c].pc \notin {"claims", "googles"}
        BY <3>1 DEF UnderTheLock
      <3>4. AccountsTypeOK' /\ Addressed' /\ UnderTheLock'
        BY <1>2, <3>1, <3>2, <3>3 DEF LockForClaim, AccountsTypeOK, Addressed, UnderTheLock
      <3>5. Bootstrapped' = Bootstrapped
        BY <3>1 DEF Bootstrapped, Exists
      <3>6. ReadUnderTheLock' /\ OneClaim'
        BY <2>2, <3>1, <3>2, <3>5 DEF ReadUnderTheLock, OneClaim
      <3> QED BY <3>4, <3>6
    <2> QED BY <2>1, <2>2
  <1>3. ASSUME NEW b \in Browsers, LockForGoogle(b) PROVE AccountsInv'
    <2> DEFINE e == visit[b].email
    <2>0. visit[b] \in Visit /\ lock = NoBrowser /\ visit[b].pc = "googling"
      BY <1>3 DEF LockForGoogle, AccountsTypeOK
    <2>1. CASE Exists(e)
      <3>1. /\ visit' = [visit EXCEPT ![b] = Away]
            /\ UNCHANGED <<account, lock, claimed>>
            /\ cookie' = IF account[e].active THEN [cookie EXCEPT ![b] = e] ELSE cookie
        BY <1>3, <2>1 DEF LockForGoogle, Leave
      <3>2. visit' \in [Browsers -> Visit] /\ visit'[b].pc = "idle"
            /\ \A c \in Browsers \ {b} : visit'[c] = visit[c]
        BY <3>1 DEF AccountsTypeOK, Away, Visit
      <3>3. cookie' \in [Browsers -> Emails \cup {NoEmail}]
        BY <2>0, <3>1 DEF AccountsTypeOK, Visit
      <3> QED BY <3>1, <3>2, <3>3 DEF AccountsTypeOK, Addressed, UnderTheLock, ReadUnderTheLock, OneClaim,
                 Bootstrapped, Exists
    <2>2. CASE ~Exists(e)
      <3>1. PICK first \in BOOLEAN : first = ~Bootstrapped
        OBVIOUS
      <3>2. /\ lock' = b
            /\ visit' = [visit EXCEPT ![b].pc = "googles", ![b].first = first]
            /\ UNCHANGED <<account, cookie, claimed>>
        BY <1>3, <2>2, <3>1 DEF LockForGoogle
      <3>4. visit' \in [Browsers -> Visit] /\ visit'[b].pc = "googles"
            /\ visit'[b].first = first /\ visit'[b].email = visit[b].email
            /\ \A c \in Browsers \ {b} : visit'[c] = visit[c]
        <4> DEFINE mine == [visit[b] EXCEPT !.pc = "googles", !.first = first]
        <4>1. mine \in Visit /\ mine.pc = "googles"
          BY <2>0 DEF Visit
        <4>2. mine.first = first /\ mine.email = visit[b].email
          BY <2>0 DEF Visit
        <4>3. visit' = [visit EXCEPT ![b] = mine] /\ visit \in [Browsers -> Visit]
          BY <3>2 DEF AccountsTypeOK
        <4> HIDE DEF mine
        <4> QED BY <4>1, <4>2, <4>3
      <3>3. \A c \in Browsers : visit[c].pc \notin {"claims", "googles"}
        BY <2>0 DEF UnderTheLock
      <3>5. AccountsTypeOK' /\ Addressed' /\ UnderTheLock'
        <4>1. AccountsTypeOK'
          BY <3>2, <3>4 DEF AccountsTypeOK
        <4>2. Addressed'
          BY <2>0, <3>4 DEF Addressed
        <4>3. UnderTheLock'
          BY <3>2, <3>3, <3>4 DEF UnderTheLock
        <4> QED BY <4>1, <4>2, <4>3
      <3>6. Bootstrapped' = Bootstrapped
        BY <3>2 DEF Bootstrapped, Exists
      <3>7. ReadUnderTheLock' /\ OneClaim'
        BY <3>1, <3>2, <3>4, <3>6 DEF ReadUnderTheLock, OneClaim
      <3> QED BY <3>5, <3>7
    <2> QED BY <2>1, <2>2
  <1>4. ASSUME NEW b \in Browsers, ClaimEnds(b) \/ GoogleEnds(b) PROVE AccountsInv'
    <2> DEFINE e == visit[b].email
    <2>1. /\ visit' = [visit EXCEPT ![b] = Away] /\ lock' = NoBrowser
          /\ visit[b] \in Visit /\ lock = b
      BY <1>4 DEF ClaimEnds, GoogleEnds, Leave, AccountsTypeOK, UnderTheLock
    <2>2. visit' \in [Browsers -> Visit] /\ visit'[b].pc = "idle"
          /\ \A c \in Browsers \ {b} : visit'[c] = visit[c]
      BY <2>1 DEF AccountsTypeOK, Away, Visit
    <2>3. \A c \in Browsers : visit'[c].pc \notin {"claims", "googles"}
      BY <2>1, <2>2 DEF UnderTheLock
    <2>4. CASE UNCHANGED <<account, cookie, claimed>>
      BY <2>1, <2>2, <2>3, <2>4 DEF AccountsTypeOK, Addressed, UnderTheLock, ReadUnderTheLock, OneClaim,
            Bootstrapped, Exists
    <2>5. ASSUME NEW a \in Emails, NEW admin \in BOOLEAN, NEW password \in BOOLEAN,
                 NEW madeBy \in {"self", "google-sso"},
                 Insert(a, admin, password, madeBy), admin = ~Bootstrapped,
                 cookie' = [cookie EXCEPT ![b] = a]
          PROVE  AccountsInv'
      <3>1. /\ account' \in [Emails -> Account \cup {NoAccount}]
            /\ claimed' \in SUBSET Emails
            /\ Bootstrapped'
            /\ claimed' = IF admin THEN claimed \cup {a} ELSE claimed
        BY <2>5, Inserted
      <3>2. cookie' \in [Browsers -> Emails \cup {NoEmail}]
        BY <2>5 DEF AccountsTypeOK
      <3>3. OneClaim'
        BY <2>5, <3>1 DEF OneClaim
      <3>4. AccountsTypeOK' /\ Addressed'
        BY <2>1, <2>2, <3>1, <3>2 DEF AccountsTypeOK, Addressed
      <3>5. UnderTheLock' /\ ReadUnderTheLock'
        BY <2>2, <2>3, <3>1 DEF UnderTheLock, ReadUnderTheLock
      <3> QED BY <3>3, <3>4, <3>5
    <2>6. PICK a \in Emails : a = visit[b].email
      BY <1>4 DEF ClaimEnds, GoogleEnds, Addressed
    <2>7. CASE ClaimEnds(b) /\ ~UNCHANGED <<account, cookie, claimed>>
      <3>1. /\ ~Bootstrapped /\ Insert(a, TRUE, TRUE, "self")
            /\ cookie' = [cookie EXCEPT ![b] = a]
        BY <2>6, <2>7 DEF ClaimEnds, ReadUnderTheLock
      <3> QED BY <2>5, <3>1
    <2>8. CASE GoogleEnds(b) /\ ~UNCHANGED <<account, cookie, claimed>>
      <3>1. PICK first \in BOOLEAN : first = ~Bootstrapped
        OBVIOUS
      <3>2. visit[b].first = first
        BY <2>8, <3>1 DEF GoogleEnds, ReadUnderTheLock
      <3>3. /\ Insert(a, first, FALSE, IF first THEN "self" ELSE "google-sso")
            /\ cookie' = [cookie EXCEPT ![b] = a]
        BY <2>6, <2>8, <3>2 DEF GoogleEnds
      <3>4. PICK madeBy \in {"self", "google-sso"} :
              madeBy = IF first THEN "self" ELSE "google-sso"
        OBVIOUS
      <3> QED BY <2>5, <3>1, <3>3, <3>4
    <2> QED BY <1>4, <2>4, <2>7, <2>8
  <1>5. ASSUME NEW b \in Browsers, CreateEnds(b) PROVE AccountsInv'
    <2>1. /\ visit' = [visit EXCEPT ![b] = Away]
          /\ visit[b] \in Visit /\ visit[b].pc = "creating" /\ Bootstrapped
          /\ UNCHANGED <<lock, cookie>>
      BY <1>5 DEF CreateEnds, Leave, AccountsTypeOK, ReadUnderTheLock
    <2>2. visit' \in [Browsers -> Visit] /\ visit'[b].pc = "idle"
          /\ \A c \in Browsers \ {b} : visit'[c] = visit[c]
      BY <2>1 DEF AccountsTypeOK, Away, Visit
    <2>3. PICK a \in Emails : a = visit[b].email
      BY <2>1 DEF Addressed
    <2>4. CASE UNCHANGED <<account, claimed>>
      BY <2>1, <2>2, <2>4 DEF AccountsTypeOK, Addressed, UnderTheLock, ReadUnderTheLock,
            OneClaim, Bootstrapped, Exists
    <2>5. CASE Insert(a, FALSE, TRUE, visit[b].by)
      <3>1. PICK by \in Emails \cup {"self", "google-sso"} : by = visit[b].by
        BY <2>1 DEF Addressed
      <3>2. /\ account' \in [Emails -> Account \cup {NoAccount}]
            /\ claimed' \in SUBSET Emails
            /\ Bootstrapped'
            /\ claimed' = claimed
        BY <2>5, <3>1, Inserted
      <3>3. AccountsTypeOK' /\ Addressed'
        BY <2>1, <2>2, <3>2 DEF AccountsTypeOK, Addressed
      <3>4. UnderTheLock' /\ OneClaim'
        BY <2>1, <2>2, <3>2 DEF UnderTheLock, OneClaim
      <3>5. ReadUnderTheLock'
        BY <2>1, <2>2, <3>2 DEF ReadUnderTheLock
      <3> QED BY <3>3, <3>4, <3>5
    <2> QED BY <1>5, <2>3, <2>4, <2>5 DEF CreateEnds
  <1>6. ASSUME NEW b \in Browsers, RequestDies(b) PROVE AccountsInv'
    <2>1. /\ visit' = [visit EXCEPT ![b] = Away]
          /\ lock' = IF lock = b THEN NoBrowser ELSE lock
          /\ UNCHANGED <<account, cookie, claimed>>
      BY <1>6 DEF RequestDies, Leave
    <2>2. visit' \in [Browsers -> Visit] /\ visit'[b].pc = "idle"
          /\ \A c \in Browsers \ {b} : visit'[c] = visit[c]
      BY <2>1 DEF AccountsTypeOK, Away, Visit
    <2> QED BY <2>1, <2>2 DEF AccountsTypeOK, Addressed, UnderTheLock, ReadUnderTheLock,
               OneClaim, Bootstrapped, Exists
  <1>7. ASSUME NEW b \in Browsers, NEW e \in Emails, Login(b, e) PROVE AccountsInv'
    BY <1>7 DEF Login, AccountsTypeOK, Addressed, UnderTheLock, ReadUnderTheLock, OneClaim,
       Bootstrapped, Exists
  <1>8. ASSUME NEW b \in Browsers, Logout(b) PROVE AccountsInv'
    BY <1>8 DEF Logout, AccountsTypeOK, Addressed, UnderTheLock, ReadUnderTheLock, OneClaim,
       Bootstrapped, Exists
  <1>9. ASSUME NEW b \in Browsers, NEW e \in Emails, BeginCreate(b, e) PROVE AccountsInv'
    <2>1. /\ visit' = [visit EXCEPT ![b] =
                          [Away EXCEPT !.pc = "creating", !.email = e, !.by = cookie[b]]]
          /\ cookie[b] \in Emails /\ Bootstrapped /\ visit[b].pc = "idle"
          /\ UNCHANGED <<account, lock, cookie, claimed>>
      BY <1>9 DEF BeginCreate, MayAdminister, AccountsTypeOK, Bootstrapped, Unoccupied
    <2>2. /\ visit' \in [Browsers -> Visit]
          /\ visit'[b].pc = "creating" /\ visit'[b].email \in Emails /\ visit'[b].by \in Emails
          /\ \A c \in Browsers \ {b} : visit'[c] = visit[c]
      BY <2>1 DEF AccountsTypeOK, Away, Visit
    <2> QED BY <2>1, <2>2 DEF AccountsTypeOK, Addressed, UnderTheLock, ReadUnderTheLock,
               OneClaim, Bootstrapped, Exists
  <1>10. ASSUME NEW e \in Emails, SetFlags(e) PROVE AccountsInv'
    <2>1. /\ \E admin, active \in BOOLEAN :
                 account' = [account EXCEPT ![e].admin = admin, ![e].active = active]
          /\ account[e] \in Account
          /\ UNCHANGED <<lock, cookie, visit, claimed>>
      BY <1>10 DEF SetFlags, Exists, AccountsTypeOK
    <2>2. /\ account' \in [Emails -> Account \cup {NoAccount}]
          /\ account'[e] \in Account
          /\ \A f \in Emails \ {e} : account'[f] = account[f]
      <3>1. PICK admin \in BOOLEAN, active \in BOOLEAN :
              account' = [account EXCEPT ![e].admin = admin, ![e].active = active]
        BY <2>1
      <3> DEFINE new == [account[e] EXCEPT !.admin = admin, !.active = active]
      <3>2. new \in Account
        BY <2>1 DEF Account
      <3>3. account' = [account EXCEPT ![e] = new]
        BY <3>1, <2>1 DEF AccountsTypeOK
      <3> HIDE DEF new
      <3> QED BY <3>2, <3>3 DEF AccountsTypeOK
    <2>3. Bootstrapped' = Bootstrapped
      BY <2>1, <2>2 DEF Bootstrapped, Exists
    <2> QED BY <2>1, <2>2, <2>3 DEF AccountsTypeOK, Addressed, UnderTheLock, ReadUnderTheLock,
               OneClaim
  <1>11. ASSUME NEW e \in Emails, Remove(e) PROVE AccountsInv'
    <2>1. /\ account' = [account EXCEPT ![e] = NoAccount]
          /\ UNCHANGED <<lock, cookie, visit, claimed>>
          /\ Bootstrapped
      BY <1>11 DEF Remove, Bootstrapped
    <2>2. Bootstrapped'
      BY <1>11, <2>1 DEF Remove, Bootstrapped, Exists, AccountsTypeOK
    <2> QED BY <2>1, <2>2 DEF AccountsTypeOK, Addressed, UnderTheLock, ReadUnderTheLock, OneClaim
  <1>12. CASE UNCHANGED accountsVars
    BY <1>12 DEF accountsVars, AccountsTypeOK, Addressed, UnderTheLock, ReadUnderTheLock,
       OneClaim, Bootstrapped, Exists
  <1> QED BY <1>1, <1>2, <1>3, <1>4, <1>5, <1>6, <1>7, <1>8, <1>9, <1>10, <1>11, <1>12
          DEF AccountsNext

\* Every record of an account, a session or a request has its shape (app/accounts.py:84-230).
THEOREM AccountsTypeCorrect == AccountsSpec => []AccountsTypeOK
  <1>1. AccountsInv => AccountsTypeOK
    BY DEF AccountsInv
  <1> QED BY <1>1, AccountsInitially, AccountsStep, PTL DEF AccountsSpec

\* The program makes at most one admin, whichever way people arrive and
\* whichever of their transactions die, and nobody has an account before
\* (app/accounts.py:90-140, 170-230).
THEOREM ClaimedOnceHolds == AccountsSpec => []ClaimedOnce
  <1>1. AccountsInv => ClaimedOnce
    BY DEF AccountsInv, OneClaim, ClaimedOnce
  <1> QED BY <1>1, AccountsInitially, AccountsStep, PTL DEF AccountsSpec

-----------------------------------------------------------------------------
(* Share links. *)

USE NamesAssumption, RequestsAssumption, DaysAssumption, TimeoutAssumption, BucketAssumption,
    BoundAssumption

-----------------------------------------------------------------------------
(* Shapes. *)

\* The time kept with a key is never ahead of the clock.
Behind == \A k \in Keys : bucket[k].last <= clock

\* Whoever works, works on a link.
Named ==
    /\ \A q \in Requests : request[q].pc # "idle" => request[q].link \in Links
    /\ \A e \in Exports : export[e].pc \in {"queued", "rendering"} => export[e].link \in Links

Base == TypeOK /\ Behind /\ Named

LEMMA BaseInitially == Init => Base
  <1> SUFFICES ASSUME Init PROVE Base
    OBVIOUS
  <1>1. \A d \in Domains :
          [status |-> "free", domain |-> d, expires |-> 0, revoked |-> FALSE, own |-> FALSE] \in Row
    BY DEF Row
  <1>2. row \in [Links -> Row]
    BY <1>1 DEF Init
  <1>3. Idle \in Request /\ Resting \in Export
    BY DEF Idle, Request, Resting, Export
  <1>4. bucket \in [Keys -> [tokens : -1..Burst, last : 0..MaxClock]]
        /\ granted \in [Keys -> [since : 0..MaxClock, count : Nat]]
    BY DEF Init, Absent, None
  <1>5. Behind /\ Named
    BY DEF Init, Absent, Behind, Named, Idle, Resting
  <1> QED BY <1>2, <1>3, <1>4, <1>5 DEF Init, Base, TypeOK

\* A request that asks the bucket leaves it in shape.
LEMMA AllowShapes ==
  ASSUME Base, NEW key \in Keys, Allow(key), clock' = clock
  PROVE  /\ bucket' \in [Keys -> [tokens : -1..Burst, last : 0..MaxClock]]
         /\ granted' \in [Keys -> [since : 0..MaxClock, count : Nat]]
         /\ Behind'
  <1> DEFINE left == IF Permits(key) THEN Refilled(key) - 1 ELSE Refilled(key)
             mine == [tokens |-> left, last |-> clock]
             before == IF bucket[key] = Absent THEN [None EXCEPT !.since = clock] ELSE granted[key]
             counted == IF Permits(key) THEN [before EXCEPT !.count = @ + 1] ELSE before
             out == Evicted(Touched(key))
  <1>1. bucket[key].tokens \in -1..Burst /\ bucket[key].last \in 0..clock /\ clock \in 0..MaxClock
    BY DEF Base, TypeOK, Behind
  <1>2. (clock - bucket[key].last) * Rate \in Nat
    <2>1. clock - bucket[key].last \in Nat
      BY <1>1
    <2> QED BY <2>1
  <1>3. Refilled(key) \in -1..Burst
    BY <1>1, <1>2 DEF Refilled, Lesser
  <1>4. left \in -1..Burst
    BY <1>3 DEF Permits
  <1>5. mine \in [tokens : -1..Burst, last : 0..MaxClock] /\ mine.last = clock
    BY <1>1, <1>4
  <1>6. before \in [since : 0..MaxClock, count : Nat]
    BY <1>1 DEF Base, TypeOK, None
  <1>7. counted \in [since : 0..MaxClock, count : Nat]
    BY <1>6
  <1>8. Absent \in [tokens : -1..Burst, last : 0..MaxClock] /\ Absent.last = 0
        /\ None \in [since : 0..MaxClock, count : Nat]
    BY DEF Absent, None
  <1>9. /\ bucket' = [k \in Keys |-> IF k \in out THEN Absent ELSE IF k = key THEN mine ELSE bucket[k]]
        /\ granted' = [k \in Keys |-> IF k \in out THEN None
                                      ELSE IF k # key THEN granted[k] ELSE counted]
    BY DEF Allow
  <1> HIDE DEF mine, counted, out, left, before
  <1> QED BY <1>1, <1>5, <1>7, <1>8, <1>9 DEF Base, TypeOK, Behind

\* The end of an export, and a request that nobody waits for any more.
LEMMA EndShapes ==
  ASSUME TypeOK, NEW e \in Exports
  PROVE  /\ ExportEnds(e) => /\ export' \in [Exports -> Export]
                             /\ slot' \in Exports \cup {NoExport}
         /\ \A asking \in [Requests -> Request] : Detached(asking, e) \in [Requests -> Request]
  <1>1. Resting \in Export
    BY DEF Resting, Export
  <1>2. \A r \in Request : [r EXCEPT !.for = NoExport] \in Request
    BY DEF Request
  <1> QED BY <1>1, <1>2 DEF ExportEnds, Detached, TypeOK

LEMMA RefusalShapes ==
  ASSUME TypeOK, NEW q \in Requests, request[q].link \in Links, Refusal(q)
  PROVE  /\ request' = [request EXCEPT ![q] = Idle]
         /\ request' \in [Requests -> Request]
         /\ export' \in [Exports -> Export] /\ slot' \in Exports \cup {NoExport}
         /\ refused' \in SUBSET Links
  <1>1. Idle \in Request /\ request[q] \in Request
    BY DEF Idle, Request, TypeOK
  <1>2. request[q].for \in Exports \cup {NoExport}
    BY <1>1 DEF Request
  <1>3. CASE request[q].for = NoExport
    BY <1>1, <1>3 DEF Refusal, TypeOK
  <1>4. CASE request[q].for \in Exports
    <2>1. ExportEnds(request[q].for)
      BY <1>2, <1>4 DEF Refusal
    <2> QED BY <1>1, <1>4, <2>1, EndShapes DEF Refusal, TypeOK
  <1> QED BY <1>2, <1>3, <1>4

\* A row that is gone, and a new one.
LEMMA GoneShapes ==
  ASSUME TypeOK, NEW l \in Links
  PROVE  /\ Gone(l) \in Row /\ Gone(l).status = "gone" /\ ~Gone(l).own
         /\ Gone(l).domain = row[l].domain
  BY DEF Gone, Row, TypeOK

LEMMA RowShapes ==
  ASSUME TypeOK, NEW d \in Domains, NEW life \in Int, NEW own \in BOOLEAN,
         NEW status \in {"free", "unborn", "row", "gone"}
  PROVE  /\ NewRow(d, life, own, status) \in Row
         /\ NewRow(d, life, own, status).status = status
         /\ NewRow(d, life, own, status).own = own
         /\ NewRow(d, life, own, status).domain = d
         /\ NewRow(d, life, own, status).expires = clock + life
         /\ NewRow(d, life, own, status).revoked = FALSE
  <1>1. clock + life \in Int
    BY DEF TypeOK
  <1> QED BY <1>1 DEF NewRow, Row

-----------------------------------------------------------------------------
\* What the parts of the steps do to a row and to a request.
LEMMA RowEdits ==
  \A r \in Row : /\ [r EXCEPT !.status = "row"] \in Row
                 /\ [r EXCEPT !.revoked = TRUE] \in Row
  BY DEF Row

LEMMA RequestEdits ==
  \A r \in Request : /\ [r EXCEPT !.pc = "resolved"] \in Request
                     /\ [r EXCEPT !.pc = "resolved"].link = r.link
                     /\ [r EXCEPT !.for = NoExport] \in Request
                     /\ [r EXCEPT !.for = NoExport].pc = r.pc
                     /\ [r EXCEPT !.for = NoExport].link = r.link
  BY DEF Request

LEMMA ExportEdits ==
  \A x \in Export : \A pc \in {"loading", "printing"} :
    /\ [x EXCEPT !.pc = pc] \in Export
    /\ [x EXCEPT !.pc = pc].link = x.link
    /\ [x EXCEPT !.pc = pc].since = x.since
    /\ [x EXCEPT !.pc = pc].pc = pc
  BY DEF Export

LEMMA BaseStep == Base /\ [Next]_vars => Base'
  <1> SUFFICES ASSUME Base, [Next]_vars PROVE Base'
    OBVIOUS
  <1>0. TypeOK /\ Idle \in Request /\ Resting \in Export /\ Idle.pc = "idle" /\ Resting.pc = "idle"
    BY DEF Base, Idle, Request, Resting, Export
  <1> DEFINE Quiet == UNCHANGED <<clock, bucket, granted>>
  <1>a. ASSUME Quiet,
               enabled' \in BOOLEAN, checked' \in SUBSET Domains, row' \in [Links -> Row],
               request' \in [Requests -> Request], export' \in [Exports -> Export],
               slot' \in Exports \cup {NoExport},
               refused' \in SUBSET Links, late' \in SUBSET Links, crowd' \in Nat,
               Named'
        PROVE  Base'
    BY <1>a DEF Base, TypeOK, Behind
  <1>b. ASSUME NEW q \in Requests, NEW r \in Request, request' = [request EXCEPT ![q] = r],
               r.pc # "idle" => r.link \in Links
        PROVE  /\ request' \in [Requests -> Request]
               /\ export' = export => Named'
    BY <1>0, <1>b DEF Base, Named, TypeOK
  <1>1. ASSUME NEW q \in Requests, NEW l \in Links, NEW d \in Domains, NEW days \in DaysAsked,
               BeginMint(q, l, d, days)
        PROVE  Base'
    <2> DEFINE wanted == IF days = 0 THEN DefaultDays ELSE days
               mine == [Idle EXCEPT !.pc = "minting", !.link = l]
               new == NewRow(d, wanted, FALSE, "unborn")
    <2>1. wanted \in Int
      BY DEF BeginMint
    <2>2. mine \in Request /\ mine.link = l
      BY DEF Idle, Request
    <2>3. Cardinality(Minting) \in Nat
      BY FS_Subset, FS_CardinalityType DEF Minting
    <2>4. /\ row' = [row EXCEPT ![l] = new]
          /\ request' = [request EXCEPT ![q] = mine]
          /\ crowd' = IF crowd > Cardinality(Minting) THEN crowd ELSE Cardinality(Minting) + 1
          /\ UNCHANGED <<clock, enabled, checked, throttle, export, slot, refused, late>>
      BY <1>1 DEF BeginMint
    <2>5. new \in Row
      BY <1>0, <2>1, RowShapes
    <2> HIDE DEF wanted, mine, new
    <2>6. request' \in [Requests -> Request] /\ Named'
      BY <1>b, <2>2, <2>4
    <2>7. row' \in [Links -> Row] /\ crowd' \in Nat
      BY <1>0, <2>3, <2>4, <2>5 DEF TypeOK
    <2> QED BY <1>0, <1>a, <2>4, <2>6, <2>7 DEF throttle, TypeOK
  <1>2. ASSUME NEW q \in Requests, CommitMint(q) PROVE Base'
    <2>1. [row EXCEPT ![request[q].link].status = "row"] \in [Links -> Row]
      BY <1>0, RowEdits DEF TypeOK
    <2>2. request' \in [Requests -> Request] /\ Named'
      BY <1>0, <1>2, <1>b DEF CommitMint
    <2> QED BY <1>0, <1>2, <1>a, <2>1, <2>2 DEF CommitMint, throttle, history, TypeOK
  <1>3. ASSUME NEW q \in Requests, NEW l \in Links, BeginRevoke(q, l) PROVE Base'
    <2>0. PICK revoked \in BOOLEAN : revoked = row[l].revoked
      BY <1>0 DEF TypeOK, Row
    <2> DEFINE mine == [Idle EXCEPT !.pc = "revoking", !.link = l, !.revoked = revoked]
    <2>1. mine \in Request /\ mine.link = l
      BY <1>0 DEF Idle, Request
    <2>2. request' = [request EXCEPT ![q] = mine]
          /\ UNCHANGED <<clock, enabled, row, checked, throttle, export, slot, history>>
      BY <1>3, <2>0 DEF BeginRevoke
    <2> HIDE DEF mine
    <2>3. request' \in [Requests -> Request] /\ Named'
      BY <1>b, <2>1, <2>2
    <2> QED BY <1>0, <1>a, <2>2, <2>3 DEF throttle, history, TypeOK
  <1>4. ASSUME NEW q \in Requests, CommitRevoke(q) PROVE Base'
    <2>1. [row EXCEPT ![request[q].link].revoked = TRUE] \in [Links -> Row]
      BY <1>0, RowEdits DEF TypeOK
    <2>2. row' \in [Links -> Row]
      BY <1>0, <1>4, <2>1 DEF CommitRevoke, TypeOK
    <2>3. request' \in [Requests -> Request] /\ Named'
      BY <1>0, <1>4, <1>b DEF CommitRevoke
    <2> QED BY <1>0, <1>4, <1>a, <2>2, <2>3 DEF CommitRevoke, throttle, history, TypeOK
  <1>5. ASSUME NEW q \in Requests, NEW key \in Keys, NEW pdf \in BOOLEAN, BeginView(q, key, pdf)
        PROVE  Base'
    <2>1. /\ bucket' \in [Keys -> [tokens : -1..Burst, last : 0..MaxClock]]
          /\ granted' \in [Keys -> [since : 0..MaxClock, count : Nat]]
          /\ Behind'
      BY <1>5, AllowShapes DEF BeginView
    <2>2. request' \in [Requests -> Request] /\ Named'
      <3>1. CASE Permits(key) /\ key \in Links
        <4>1. PICK live \in BOOLEAN : live = Live(key)
          BY DEF Live
        <4> DEFINE mine == [Idle EXCEPT !.pc = "asked", !.link = key, !.live = live, !.pdf = pdf]
        <4>2. request' = [request EXCEPT ![q] = mine] /\ export' = export
          BY <1>5, <3>1, <4>1 DEF BeginView
        <4>3. mine \in Request /\ mine.link = key
          BY <3>1 DEF Idle, Request
        <4> HIDE DEF mine
        <4> QED BY <1>b, <3>1, <4>2, <4>3
      <3>2. CASE ~(Permits(key) /\ key \in Links)
        BY <1>0, <1>5, <1>b, <3>2 DEF BeginView
      <3> QED BY <3>1, <3>2
    <2> QED BY <1>0, <1>5, <2>1, <2>2 DEF BeginView, history, TypeOK, Base
  <1>c. ASSUME NEW q \in Requests, Refusal(q), request[q].pc # "idle",
               UNCHANGED <<clock, enabled, row, checked, throttle, crowd, late>>
        PROVE  Base'
    <2>1. /\ request' = [request EXCEPT ![q] = Idle]
          /\ request' \in [Requests -> Request]
          /\ export' \in [Exports -> Export] /\ slot' \in Exports \cup {NoExport}
          /\ refused' \in SUBSET Links
      BY <1>0, <1>c, RefusalShapes DEF Base, Named
    <2>2. export' = export \/ export' = [export EXCEPT ![request[q].for] = Resting]
      BY <1>c DEF Refusal, ExportEnds
    <2>3. Named'
      BY <1>0, <2>1, <2>2 DEF Base, Named, TypeOK
    <2> QED BY <1>0, <1>a, <1>c, <2>1, <2>3 DEF throttle, TypeOK
  <1>6. ASSUME NEW q \in Requests, Resolve(q) PROVE Base'
    <2>1. CASE Live(request[q].link)
      <3> DEFINE mine == [request[q] EXCEPT !.pc = "resolved"]
      <3>1. mine \in Request /\ mine.link = request[q].link
        BY <1>0, RequestEdits DEF TypeOK
      <3>2. request' = [request EXCEPT ![q] = mine] /\ UNCHANGED <<export, slot, refused>>
        BY <1>6, <2>1 DEF Resolve
      <3>3. request[q].link \in Links
        BY <1>6 DEF Resolve, Base, Named
      <3> HIDE DEF mine
      <3>4. request' \in [Requests -> Request] /\ Named'
        BY <1>b, <3>1, <3>2, <3>3
      <3> QED BY <1>0, <1>6, <1>a, <3>2, <3>4 DEF Resolve, throttle, TypeOK
    <2>2. CASE ~Live(request[q].link)
      BY <1>6, <1>c, <2>2 DEF Resolve
    <2> QED BY <2>1, <2>2
  <1>7. ASSUME NEW q \in Requests, ShowFails(q) PROVE Base'
    BY <1>7, <1>c DEF ShowFails
  <1>8. ASSUME NEW q \in Requests, Show(q) PROVE Base'
    <2>0. request[q].link \in Links /\ clock \in 0..MaxClock
      BY <1>0, <1>8 DEF Show, Base, Named, TypeOK
    <2>1. request' = [request EXCEPT ![q] = Idle]
          /\ UNCHANGED <<clock, enabled, row, checked, throttle, slot, refused, crowd>>
          /\ late' \in SUBSET Links
      BY <1>0, <1>8, <2>0 DEF Show, TypeOK
    <2>2. request' \in [Requests -> Request]
      BY <1>0, <1>b, <2>1
    <2>3. export' \in [Exports -> Export]
          /\ \A x \in Exports : export'[x].pc \in {"queued", "rendering"} => export'[x].link \in Links
      <3>1. CASE /\ request[q].for # NoExport
                 /\ export' = [export EXCEPT ![request[q].for].pc = "printing"]
        <4>1. PICK x \in Exports : x = request[q].for
          BY <1>0, <3>1 DEF TypeOK, Request
        <4>2. export[x] \in Export
          BY <1>0, <4>1 DEF TypeOK
        <4>3. [export[x] EXCEPT !.pc = "printing"] \in Export
              /\ [export[x] EXCEPT !.pc = "printing"].pc = "printing"
          BY <4>2, ExportEdits
        <4>4. export' = [export EXCEPT ![x] = [export[x] EXCEPT !.pc = "printing"]]
          BY <1>0, <3>1, <4>1 DEF TypeOK
        <4> QED BY <1>0, <4>3, <4>4 DEF Base, Named, TypeOK
      <3>2. ASSUME NEW x \in Exports,
                   export' = [export EXCEPT ![x] =
                                 [pc |-> "queued", link |-> request[q].link, since |-> clock]]
            PROVE  /\ export' \in [Exports -> Export]
                   /\ \A y \in Exports : export'[y].pc \in {"queued", "rendering"} =>
                                            export'[y].link \in Links
        <4>1. [pc |-> "queued", link |-> request[q].link, since |-> clock] \in Export
          BY <2>0 DEF Export
        <4> QED BY <1>0, <2>0, <3>2, <4>1 DEF Base, Named, TypeOK
      <3>3. CASE export' = export
        BY <1>0, <3>3 DEF Base, Named, TypeOK
      <3> QED BY <1>8, <3>1, <3>2, <3>3 DEF Show
    <2>4. Named'
      BY <1>0, <2>1, <2>3 DEF Base, Named, TypeOK
    <2> QED BY <1>0, <1>a, <2>1, <2>2, <2>3, <2>4 DEF throttle, TypeOK
  <1>d. ASSUME NEW e \in Exports, NEW x \in Export, export' = [export EXCEPT ![e] = x],
               x.pc \in {"queued", "rendering"} => x.link \in Links
        PROVE  /\ export' \in [Exports -> Export]
               /\ request' = request => Named'
    BY <1>0, <1>d DEF Base, Named, TypeOK
  <1>9. ASSUME NEW e \in Exports, NEW l \in Links, NEW d \in Domains, StaffExport(e, l, d)
        PROVE  Base'
    <2>1. /\ row' = [row EXCEPT ![l] = NewRow(d, ExportLife, TRUE, "row")]
          /\ export' = [export EXCEPT ![e] = [pc |-> "queued", link |-> l, since |-> clock]]
          /\ UNCHANGED <<clock, enabled, checked, throttle, request, slot, history>>
      BY <1>9 DEF StaffExport
    <2>2. NewRow(d, ExportLife, TRUE, "row") \in Row
      <3>1. ExportLife \in Int
        OBVIOUS
      <3> QED BY <1>0, <3>1, RowShapes
    <2>3. [pc |-> "queued", link |-> l, since |-> clock] \in Export
      BY <1>0 DEF Export, TypeOK
    <2>4. export' \in [Exports -> Export] /\ Named'
      BY <1>d, <2>1, <2>3
    <2>5. row' \in [Links -> Row]
      BY <1>0, <2>1, <2>2 DEF TypeOK
    <2> QED BY <1>0, <1>a, <2>1, <2>4, <2>5 DEF throttle, history, TypeOK
  <1>10. ASSUME NEW e \in Exports, TakeSlot(e) PROVE Base'
    <2> DEFINE x == [export[e] EXCEPT !.pc = "rendering", !.since = clock]
    <2>1. x \in Export /\ x.link = export[e].link
      BY <1>0 DEF Export, TypeOK
    <2>2. export' = [export EXCEPT ![e] = x] /\ slot' = e
          /\ UNCHANGED <<clock, enabled, row, checked, throttle, request, history>>
      BY <1>0, <1>10 DEF TakeSlot, TypeOK
    <2>3. export[e].link \in Links
      BY <1>10 DEF TakeSlot, Base, Named
    <2> HIDE DEF x
    <2>4. export' \in [Exports -> Export] /\ Named'
      BY <1>d, <2>1, <2>2, <2>3
    <2> QED BY <1>0, <1>a, <2>2, <2>4 DEF throttle, history, TypeOK
  <1>11. ASSUME NEW e \in Exports, NEW q \in Requests, Load(e, q) PROVE Base'
    <2> DEFINE l == export[e].link
    <2>0. l \in Links /\ l \in Keys
      BY <1>11 DEF Load, Base, Named, Keys
    <2>1. /\ bucket' \in [Keys -> [tokens : -1..Burst, last : 0..MaxClock]]
          /\ granted' \in [Keys -> [since : 0..MaxClock, count : Nat]]
          /\ Behind'
      BY <1>11, <2>0, AllowShapes DEF Load
    <2>2. CASE Permits(l)
      <3>1. PICK live \in BOOLEAN : live = Live(l)
        BY DEF Live
      <3> DEFINE mine == [Idle EXCEPT !.pc = "asked", !.link = l, !.live = live, !.for = e]
                 x == [export[e] EXCEPT !.pc = "loading"]
      <3>2. /\ request' = [request EXCEPT ![q] = mine] /\ export' = [export EXCEPT ![e] = x]
            /\ UNCHANGED <<slot, refused>>
        BY <1>0, <1>11, <2>2, <3>1 DEF Load, TypeOK
      <3>3. mine \in Request /\ mine.link = l
        BY <2>0 DEF Idle, Request
      <3>4. x \in Export /\ x.pc = "loading"
        BY <1>0, ExportEdits DEF TypeOK
      <3> HIDE DEF mine, x, l
      <3>5. request' \in [Requests -> Request] /\ export' \in [Exports -> Export] /\ Named'
        BY <1>0, <2>0, <3>2, <3>3, <3>4 DEF Base, Named, TypeOK
      <3> QED BY <1>0, <1>11, <2>1, <3>2, <3>5 DEF Load, TypeOK, Base
    <2>3. CASE ~Permits(l)
      <3>1. ExportEnds(e) /\ refused' \in SUBSET Links /\ UNCHANGED request
        BY <1>0, <1>11, <2>0, <2>3 DEF Load, TypeOK
      <3>2. export' \in [Exports -> Export] /\ slot' \in Exports \cup {NoExport} /\ Named'
        BY <1>0, <1>d, <3>1 DEF ExportEnds, TypeOK
      <3> QED BY <1>0, <1>11, <2>1, <3>1, <3>2 DEF Load, TypeOK, Base
    <2> QED BY <2>2, <2>3
  <1>12. ASSUME NEW e \in Exports, RenderEnds(e) PROVE Base'
    <2>1. request' = Detached(request, e) /\ ExportEnds(e)
          /\ UNCHANGED <<clock, enabled, row, checked, throttle, history>>
      BY <1>12 DEF RenderEnds
    <2>2. /\ request' \in [Requests -> Request]
          /\ \A q \in Requests : request'[q].pc = request[q].pc /\ request'[q].link = request[q].link
      BY <1>0, <2>1, RequestEdits DEF Detached, TypeOK
    <2>3. export' \in [Exports -> Export] /\ slot' \in Exports \cup {NoExport}
      BY <1>0, <2>1, EndShapes
    <2>4. Named'
      BY <1>0, <2>1, <2>2 DEF Base, Named, TypeOK, ExportEnds
    <2> QED BY <1>0, <1>a, <2>1, <2>2, <2>3, <2>4 DEF throttle, history, TypeOK
  <1>13. ASSUME NEW e \in Exports, GiveUpSlot(e) PROVE Base'
    <2>1. export' \in [Exports -> Export] /\ slot' \in Exports \cup {NoExport} /\ Named'
      BY <1>0, <1>13, <1>d DEF GiveUpSlot, ExportEnds, TypeOK
    <2> QED BY <1>0, <1>13, <1>a, <2>1 DEF GiveUpSlot, throttle, history, TypeOK
  <1>14. ASSUME NEW d \in Domains, Check(d) PROVE Base'
    BY <1>0, <1>14, <1>a DEF Check, throttle, web, history, TypeOK, Base, Named
  <1>15. ASSUME NEW d \in Domains, DeleteClient(d) PROVE Base'
    <2>1. row' \in [Links -> Row]
      BY <1>0, <1>15, GoneShapes DEF DeleteClient, TypeOK
    <2> QED BY <1>0, <1>15, <1>a, <2>1 DEF DeleteClient, throttle, web, history, TypeOK, Base, Named
  <1>16. CASE Redeploy
    <2>1. row' \in [Links -> Row]
      BY <1>0, <1>16, GoneShapes DEF Redeploy, TypeOK
    <2>2. /\ bucket' \in [Keys -> [tokens : -1..Burst, last : 0..MaxClock]]
          /\ granted' \in [Keys -> [since : 0..MaxClock, count : Nat]]
          /\ Behind'
      BY <1>0, <1>16 DEF Redeploy, Absent, None, Behind, TypeOK
    <2>3. /\ request' \in [Requests -> Request] /\ export' \in [Exports -> Export] /\ Named'
          /\ slot' \in Exports \cup {NoExport}
      BY <1>0, <1>16 DEF Redeploy, Named
    <2> QED BY <1>0, <1>16, <2>1, <2>2, <2>3 DEF Redeploy, history, TypeOK, Base
  <1>17. CASE Tick
    BY <1>0, <1>17 DEF Tick, throttle, web, history, TypeOK, Base, Named, Behind
  <1>18. CASE UNCHANGED vars
    BY <1>0, <1>18 DEF vars, throttle, web, history, TypeOK, Base, Named, Behind
  <1> QED BY <1>1, <1>2, <1>3, <1>4, <1>5, <1>6, <1>7, <1>8, <1>9, <1>10, <1>11, <1>12, <1>13,
             <1>14, <1>15, <1>16, <1>17, <1>18 DEF Next

-----------------------------------------------------------------------------
(* Throttle. *)

LEMMA RateAdds ==
  \A r, m, n \in Nat : r * (m + n) = r * m + r * n /\ m * r = r * m /\ r * m \in Nat
  OBVIOUS

\* What a key was let in with, and what it has left, come from its burst and
\* from the time up to which it was refilled.
Accounted ==
    \A k \in Keys :
        \/ bucket[k] = Absent
        \/ /\ bucket[k].tokens \in 0..Burst
           /\ granted[k].since <= bucket[k].last
           /\ granted[k].count + bucket[k].tokens <=
                Burst + Rate * (bucket[k].last - granted[k].since)

LEMMA AllowAccounts ==
  ASSUME Base, Accounted, NEW key \in Keys, Allow(key), clock' = clock
  PROVE  Accounted'
  <1> DEFINE left == IF Permits(key) THEN Refilled(key) - 1 ELSE Refilled(key)
             mine == [tokens |-> left, last |-> clock]
             before == IF bucket[key] = Absent THEN [None EXCEPT !.since = clock] ELSE granted[key]
             counted == IF Permits(key) THEN [before EXCEPT !.count = @ + 1] ELSE before
             out == Evicted(Touched(key))
  <1>1. /\ bucket' = [k \in Keys |-> IF k \in out THEN Absent ELSE IF k = key THEN mine ELSE bucket[k]]
        /\ granted' = [k \in Keys |-> IF k \in out THEN None
                                      ELSE IF k # key THEN granted[k] ELSE counted]
    BY DEF Allow
  <1>2. clock \in Nat /\ before \in [since : 0..MaxClock, count : Nat]
    BY DEF Base, TypeOK, None
  <1>3. /\ mine.tokens = left /\ mine.last = clock
        /\ counted.since = before.since
        /\ counted.count = IF Permits(key) THEN before.count + 1 ELSE before.count
    BY <1>2
  <1>4. /\ before.since \in 0..clock /\ Refilled(key) \in 0..Burst
        /\ before.count + Refilled(key) <= Burst + Rate * (clock - before.since)
    <2>1. CASE bucket[key] = Absent
      <3>1. before.since = clock /\ before.count = 0 /\ Refilled(key) = Burst
        BY <2>1 DEF None, Refilled
      <3>2. Rate * (clock - before.since) = 0
        BY <1>2, <3>1
      <3> QED BY <1>2, <3>1, <3>2
    <2>2. CASE bucket[key] # Absent
      <3> DEFINE since == granted[key].since
                 last == bucket[key].last
                 tokens == bucket[key].tokens
      <3>1. /\ since \in 0..last /\ last \in 0..clock /\ tokens \in 0..Burst
            /\ granted[key].count \in Nat
            /\ granted[key].count + tokens <= Burst + Rate * (last - since)
        BY <2>2 DEF Accounted, Base, TypeOK, Behind
      <3>2. before = granted[key]
        BY <2>2
      <3>3. Refilled(key) = Lesser(Burst, tokens + (clock - last) * Rate)
        BY <2>2 DEF Refilled
      <3> HIDE DEF since, last, tokens, before
      <3>4. /\ last - since \in Nat /\ clock - last \in Nat /\ clock - since \in Nat
            /\ clock - since = (last - since) + (clock - last)
        BY <1>2, <3>1
      <3>5. /\ Rate * (clock - since) = Rate * (last - since) + Rate * (clock - last)
            /\ (clock - last) * Rate = Rate * (clock - last)
            /\ Rate * (clock - last) \in Nat /\ Rate * (last - since) \in Nat
        BY <3>4, RateAdds
      <3>6. /\ Refilled(key) \in 0..Burst
            /\ Refilled(key) <= tokens + Rate * (clock - last)
        BY <3>1, <3>3, <3>5 DEF Lesser
      <3>7. granted[key].count + Refilled(key) <= Burst + Rate * (clock - since)
        BY <3>1, <3>5, <3>6
      <3> QED BY <1>2, <3>1, <3>2, <3>6, <3>7 DEF since
    <2> QED BY <2>1, <2>2
  <1>5. left \in 0..Burst /\ counted.count + left = before.count + Refilled(key)
    BY <1>2, <1>3, <1>4 DEF Permits
  <1> HIDE DEF mine, counted, before, out, left
  <1>6. ASSUME NEW k \in Keys
        PROVE  \/ bucket'[k] = Absent
               \/ /\ bucket'[k].tokens \in 0..Burst
                  /\ granted'[k].since <= bucket'[k].last
                  /\ granted'[k].count + bucket'[k].tokens <=
                       Burst + Rate * (bucket'[k].last - granted'[k].since)
    <2>1. CASE k \in out
      BY <1>1, <2>1
    <2>2. CASE k \notin out /\ k = key
      <3>1. bucket'[k] = mine /\ granted'[k] = counted
        BY <1>1, <2>2
      <3> QED BY <1>2, <1>3, <1>4, <1>5, <3>1
    <2>3. CASE k \notin out /\ k # key
      <3>1. bucket'[k] = bucket[k] /\ granted'[k] = granted[k]
        BY <1>1, <2>3
      <3> QED BY <3>1 DEF Accounted
    <2> QED BY <2>1, <2>2, <2>3
  <1> QED BY <1>6 DEF Accounted

LEMMA AccountedInitially == Init => Accounted
  BY DEF Init, Accounted

LEMMA AccountedStep == Base /\ Accounted /\ [Next]_vars => Accounted'
  <1> SUFFICES ASSUME Base, Accounted, [Next]_vars PROVE Accounted'
    OBVIOUS
  <1>1. CASE UNCHANGED <<bucket, granted>>
    BY <1>1 DEF Accounted
  <1>2. ASSUME NEW q \in Requests, NEW key \in Keys, NEW pdf \in BOOLEAN, BeginView(q, key, pdf)
        PROVE  Accounted'
    BY <1>2, AllowAccounts DEF BeginView
  <1>3. ASSUME NEW q \in Requests, NEW e \in Exports, Load(e, q) PROVE Accounted'
    <2>1. export[e].link \in Keys
      BY <1>3 DEF Load, Base, Named, Keys
    <2> QED BY <1>3, <2>1, AllowAccounts DEF Load
  <1>4. CASE Redeploy
    BY <1>4 DEF Redeploy, Accounted
  <1>5. CASE \/ \E q \in Requests :
                  \/ \E l \in Links : \/ \E d \in Domains, days \in DaysAsked : BeginMint(q, l, d, days)
                                      \/ BeginRevoke(q, l)
                  \/ CommitMint(q) \/ CommitRevoke(q) \/ Resolve(q) \/ Show(q) \/ ShowFails(q)
             \/ \E e \in Exports :
                  \/ \E l \in Links, d \in Domains : StaffExport(e, l, d)
                  \/ TakeSlot(e) \/ RenderEnds(e) \/ GiveUpSlot(e)
             \/ \E d \in Domains : Check(d) \/ DeleteClient(d)
             \/ Tick \/ UNCHANGED vars
    <2>1. UNCHANGED <<bucket, granted>>
      BY <1>5 DEF BeginMint, BeginRevoke, CommitMint, CommitRevoke, Resolve, Show, ShowFails,
         StaffExport, TakeSlot, RenderEnds, GiveUpSlot, Check, DeleteClient, Tick, vars, throttle
    <2> QED BY <1>1, <2>1
  <1> QED BY <1>2, <1>3, <1>4, <1>5 DEF Next

LEMMA AccountedHolds == Base /\ Accounted => ThrottleHolds
  <1> SUFFICES ASSUME Base, Accounted, NEW k \in Keys, bucket[k] # Absent
               PROVE  granted[k].count <= Burst + Rate * (clock - granted[k].since)
    BY DEF ThrottleHolds
  <1> DEFINE since == granted[k].since
             last == bucket[k].last
  <1>1. /\ since \in 0..last /\ last \in 0..clock /\ clock \in Nat
        /\ granted[k].count \in Nat
        /\ granted[k].count <= Burst + Rate * (last - since)
    BY DEF Accounted, Base, TypeOK, Behind
  <1> HIDE DEF since, last
  <1>2. /\ last - since \in Nat /\ clock - last \in Nat
        /\ clock - since = (last - since) + (clock - last)
    BY <1>1
  <1>3. /\ Rate * (clock - since) = Rate * (last - since) + Rate * (clock - last)
        /\ Rate * (clock - last) \in Nat /\ Rate * (last - since) \in Nat
    BY <1>2, RateAdds
  <1>4. granted[k].count <= Burst + Rate * (clock - since)
    BY <1>1, <1>3
  <1> QED BY <1>4 DEF since

-----------------------------------------------------------------------------
(* What a request may believe of its link. *)

Sound(q) ==
    LET r == request[q]
    IN  /\ r.pc = "minting" => row[r.link].status = "unborn"
        /\ r.pc \in {"asked", "resolved", "revoking"} => row[r.link].status \in {"row", "gone"}
        /\ r.pc = "asked" /\ ~r.live => ~Live(r.link)
        /\ r.pc = "resolved" => r.live

\* A row that is added and not committed belongs to one request.
Apart == \A q, r \in Requests :
            /\ request[q].pc = "minting" /\ request[r].pc = "minting"
            /\ request[q].link = request[r].link
            => q = r

Claimed == \A l \in Links : row[l].status = "unborn" =>
              \E q \in Requests : request[q].pc = "minting" /\ request[q].link = l

Ready == \A e \in Exports : export[e].pc \in {"queued", "rendering"} =>
            row[export[e].link].status \in {"row", "gone"}

Bearings == /\ \A q \in Requests : Sound(q)
            /\ Apart /\ Claimed /\ Ready /\ late = {}

\* A link that is born stays so, and one that ended never comes back.
Onward(l) ==
    row[l].status \in {"row", "gone"} =>
        /\ row'[l].status \in {"row", "gone"}
        /\ row'[l].status = "row" /\ ~row'[l].revoked /\ row'[l].expires > clock' => Live(l)

LEMMA BearingsInitially == Init => Bearings
  <1> SUFFICES ASSUME Init PROVE Bearings
    OBVIOUS
  <1>1. \A q \in Requests : request[q].pc = "idle"
    BY DEF Init, Idle
  <1>2. \A e \in Exports : export[e].pc = "idle"
    BY DEF Init, Resting
  <1>3. \A l \in Links : row[l].status = "free"
    BY DEF Init
  <1> QED BY <1>1, <1>2, <1>3 DEF Init, Bearings, Sound, Apart, Claimed, Ready

LEMMA EveryLinkOnward ==
  ASSUME Base, Bearings, [Next]_vars, NEW l \in Links
  PROVE  Onward(l)
  <1>0. TypeOK /\ row[l] \in Row /\ clock \in Nat
    BY DEF Base, TypeOK
  <1>1. CASE UNCHANGED <<row, clock>>
    BY <1>1 DEF Onward, Live, Stored
  <1>2. ASSUME NEW q \in Requests, NEW m \in Links, NEW d \in Domains, NEW days \in DaysAsked,
               BeginMint(q, m, d, days)
        PROVE  Onward(l)
    BY <1>0, <1>2 DEF BeginMint, Onward, Live, Stored, TypeOK
  <1>3. ASSUME NEW q \in Requests, CommitMint(q) PROVE Onward(l)
    <2>1. row[request[q].link].status = "unborn"
      BY <1>3 DEF CommitMint, Bearings, Sound
    <2> QED BY <1>0, <1>3, <2>1 DEF CommitMint, Onward, Live, Stored, TypeOK
  <1>4. ASSUME NEW q \in Requests, CommitRevoke(q) PROVE Onward(l)
    <2>1. \A r \in Row : /\ [r EXCEPT !.revoked = TRUE].status = r.status
                         /\ [r EXCEPT !.revoked = TRUE].revoked = TRUE
      BY DEF Row
    <2>2. row'[l] = row[l] \/ row'[l] = [row[l] EXCEPT !.revoked = TRUE]
      BY <1>0, <1>4 DEF CommitRevoke, TypeOK
    <2> QED BY <1>0, <1>4, <2>1, <2>2 DEF CommitRevoke, Onward, Live, Stored
  <1>5. ASSUME NEW e \in Exports, NEW m \in Links, NEW d \in Domains, StaffExport(e, m, d)
        PROVE  Onward(l)
    BY <1>0, <1>5 DEF StaffExport, Onward, Live, Stored, TypeOK
  <1>6. ASSUME NEW d \in Domains, DeleteClient(d) PROVE Onward(l)
    BY <1>0, <1>6, GoneShapes DEF DeleteClient, Onward, Live, Stored
  <1>7. CASE Redeploy
    BY <1>0, <1>7 DEF Redeploy, Onward, Live, Stored
  <1>8. CASE Tick
    <2>1. row[l].expires \in Int /\ row' = row /\ clock' = clock + 1
      BY <1>0, <1>8 DEF Tick, Row
    <2> QED BY <1>0, <2>1 DEF Onward, Live, Stored
  <1>9. CASE \/ \E q \in Requests :
                  \/ \E m \in Links : BeginRevoke(q, m)
                  \/ \E key \in Keys, pdf \in BOOLEAN : BeginView(q, key, pdf)
                  \/ Resolve(q) \/ Show(q) \/ ShowFails(q)
                  \/ \E e \in Exports : Load(e, q)
             \/ \E e \in Exports : TakeSlot(e) \/ RenderEnds(e) \/ GiveUpSlot(e)
             \/ \E d \in Domains : Check(d)
             \/ UNCHANGED vars
    BY <1>1, <1>9 DEF BeginRevoke, BeginView, Resolve, Show, ShowFails, Load, TakeSlot, RenderEnds,
       GiveUpSlot, Check, vars
  <1> QED BY <1>2, <1>3, <1>4, <1>5, <1>6, <1>7, <1>8, <1>9 DEF Next

\* A request that goes on as it was, its link still its own.
LEMMA Carried ==
  ASSUME Base, Bearings, NEW q \in Requests, \A l \in Links : Onward(l),
         request'[q].pc = request[q].pc, request'[q].link = request[q].link,
         request'[q].live = request[q].live,
         request[q].pc = "minting" => row'[request[q].link].status = "unborn"
  PROVE  Sound(q)'
  <1>1. request[q].pc # "idle" => request[q].link \in Links
    BY DEF Base, Named
  <1>2. request[q].pc \in {"idle", "asked", "resolved", "minting", "revoking"}
    BY DEF Base, TypeOK, Request
  <1>3. Sound(q)
    BY DEF Bearings
  <1>4. CASE request[q].pc = "idle"
    BY <1>4 DEF Sound
  <1>5. CASE request[q].pc = "minting"
    BY <1>5 DEF Sound
  <1>6. CASE request[q].pc \in {"asked", "resolved", "revoking"}
    <2>1. Onward(request[q].link)
      BY <1>1, <1>6
    <2> QED BY <1>3, <1>6, <2>1 DEF Sound, Onward, Live, Stored
  <1> QED BY <1>2, <1>4, <1>5, <1>6

\* Steps that leave the rows that are not committed, and the requests that
\* add them, as they are.
LEMMA OthersStand ==
  ASSUME Base, Bearings, \A l \in Links : Onward(l),
         \A l \in Links : row'[l].status = "unborn" <=> row[l].status = "unborn",
         \A q \in Requests : request[q].pc = "minting" \/ request'[q].pc = "minting" =>
                                request'[q] = request[q]
  PROVE  Apart' /\ Claimed'
  BY DEF Bearings, Apart, Claimed

LEMMA BearingsStep ==
  ASSUME Base, Bearings, [Next]_vars
  PROVE  Bearings'
  <1>0. /\ TypeOK
        /\ \A l \in Links : Onward(l)
        /\ \A q \in Requests : request[q] \in Request /\ Sound(q)
    BY EveryLinkOnward DEF Base, TypeOK, Bearings
  \* The exports that wait or render are the ones that did, on the links they had.
  <1>a. ASSUME \A e \in Exports : export'[e].pc \in {"queued", "rendering"} =>
                  export[e].pc \in {"queued", "rendering"} /\ export'[e].link = export[e].link
        PROVE  Ready'
    BY <1>0, <1>a DEF Base, Named, Bearings, Ready, Onward
  \* All requests go on as they were, and so do the rows they add.
  <1>b. ASSUME \A q \in Requests : /\ request'[q].pc = request[q].pc
                                   /\ request'[q].link = request[q].link
                                   /\ request'[q].live = request[q].live,
               \A l \in Links : row'[l].status = "unborn" <=> row[l].status = "unborn"
        PROVE  (\A q \in Requests : Sound(q)') /\ Apart' /\ Claimed'
    <2>1. ASSUME NEW q \in Requests PROVE Sound(q)'
      <3>1. request[q].pc = "minting" => row'[request[q].link].status = "unborn"
        BY <1>0, <1>b DEF Base, Named, Sound
      <3> QED BY <1>0, <1>b, <3>1, Carried
    <2> QED BY <1>b, <2>1 DEF Bearings, Apart, Claimed
  \* One request moves, and is not minting before or after.
  <1>c. ASSUME NEW q \in Requests, NEW r, request' = [request EXCEPT ![q] = r],
               request[q].pc # "minting", r.pc # "minting",
               \A l \in Links : row'[l].status = "unborn" <=> row[l].status = "unborn",
               Sound(q)'
        PROVE  (\A p \in Requests : Sound(p)') /\ Apart' /\ Claimed'
    <2>1. /\ request'[q] = r
          /\ \A p \in Requests : p # q => request'[p] = request[p]
      BY <1>0, <1>c DEF TypeOK
    <2>2. ASSUME NEW p \in Requests PROVE Sound(p)'
      <3>1. CASE p = q
        BY <1>c, <3>1
      <3>2. CASE p # q
        <4>1. request[p].pc = "minting" => row'[request[p].link].status = "unborn"
          BY <1>0, <1>c DEF Base, Named, Sound
        <4> QED BY <1>0, <2>1, <3>2, <4>1, Carried
      <3> QED BY <3>1, <3>2
    <2>3. Apart' /\ Claimed'
      BY <1>c, <2>1 DEF Bearings, Apart, Claimed
    <2> QED BY <2>2, <2>3
  <1>d. ASSUME NEW q \in Requests, request'[q] = Idle PROVE Sound(q)'
    BY <1>d DEF Sound, Idle
  <1>e. ASSUME UNCHANGED row
        PROVE  \A l \in Links : row'[l].status = "unborn" <=> row[l].status = "unborn"
    BY <1>e
  <1>1. ASSUME NEW q \in Requests, NEW l \in Links, NEW d \in Domains, NEW days \in DaysAsked,
               BeginMint(q, l, d, days)
        PROVE  Bearings'
    <2> DEFINE mine == [Idle EXCEPT !.pc = "minting", !.link = l]
    <2>1. /\ request[q].pc = "idle" /\ row[l].status = "free"
          /\ request' = [request EXCEPT ![q] = mine]
          /\ UNCHANGED <<export, late>>
      BY <1>1 DEF BeginMint, Free
    <2>2. mine.pc = "minting" /\ mine.link = l
      BY DEF Idle
    <2>3. row'[l].status = "unborn" /\ \A m \in Links : m # l => row'[m] = row[m]
      BY <1>0, <1>1 DEF BeginMint, NewRow, TypeOK
    <2> HIDE DEF mine
    <2>4. /\ request'[q] = mine
          /\ \A p \in Requests : p # q => request'[p] = request[p]
      BY <1>0, <2>1 DEF TypeOK
    <2>5. ASSUME NEW p \in Requests, p # q, request[p].pc = "minting"
          PROVE  request[p].link \in Links /\ request[p].link # l
      BY <1>0, <2>1, <2>5 DEF Base, Named, Sound
    <2>6. ASSUME NEW p \in Requests PROVE Sound(p)'
      <3>1. CASE p = q
        BY <2>2, <2>3, <2>4, <3>1 DEF Sound
      <3>2. CASE p # q
        <4>1. request[p].pc = "minting" => row'[request[p].link].status = "unborn"
          BY <1>0, <2>3, <2>5, <3>2 DEF Sound
        <4> QED BY <1>0, <2>4, <3>2, <4>1, Carried
      <3> QED BY <3>1, <3>2
    <2>7. Apart'
      BY <2>2, <2>4, <2>5 DEF Bearings, Apart
    <2>8. Claimed'
      BY <2>1, <2>2, <2>3, <2>4 DEF Bearings, Claimed
    <2>9. Ready'
      BY <1>a, <2>1
    <2> QED BY <2>1, <2>6, <2>7, <2>8, <2>9 DEF Bearings
  <1>2. ASSUME NEW q \in Requests, NEW l \in Links, BeginRevoke(q, l) PROVE Bearings'
    <2> DEFINE mine == [Idle EXCEPT !.pc = "revoking", !.link = l, !.revoked = row[l].revoked]
    <2>1. /\ request[q].pc = "idle" /\ row[l].status = "row"
          /\ request' = [request EXCEPT ![q] = mine]
          /\ UNCHANGED <<export, row, clock, late>>
      BY <1>2 DEF BeginRevoke, Free, Stored, history
    <2>2. mine.pc = "revoking" /\ mine.link = l
      BY DEF Idle
    <2> HIDE DEF mine
    <2>3. request'[q] = mine
      BY <1>0, <2>1 DEF TypeOK
    <2>4. Sound(q)'
      BY <2>1, <2>2, <2>3 DEF Sound
    <2> QED BY <1>a, <1>c, <1>e, <2>1, <2>2, <2>4 DEF Bearings
  <1>3. ASSUME NEW q \in Requests, CommitMint(q) PROVE Bearings'
    <2> DEFINE l == request[q].link
    <2>1. /\ request[q].pc = "minting" /\ request' = [request EXCEPT ![q] = Idle]
          /\ row' = [row EXCEPT ![l].status = "row"]
          /\ UNCHANGED <<export, late>>
      BY <1>3 DEF CommitMint, history
    <2>2. l \in Links
      BY <2>1 DEF Base, Named
    <2>3. row'[l].status = "row" /\ \A m \in Links : m # l => row'[m] = row[m]
      <3>1. \A x \in Row : [x EXCEPT !.status = "row"].status = "row"
        BY DEF Row
      <3> QED BY <1>0, <2>1, <2>2, <3>1 DEF TypeOK
    <2>4. /\ request'[q] = Idle /\ Idle.pc = "idle"
          /\ \A p \in Requests : p # q => request'[p] = request[p]
      BY <1>0, <2>1 DEF TypeOK, Idle
    <2>5. ASSUME NEW p \in Requests, p # q, request[p].pc = "minting"
          PROVE  request[p].link \in Links /\ request[p].link # l
      BY <2>1, <2>5 DEF Base, Named, Bearings, Apart
    <2> HIDE DEF l
    <2>6. ASSUME NEW p \in Requests PROVE Sound(p)'
      <3>1. CASE p = q
        BY <1>d, <2>4, <3>1
      <3>2. CASE p # q
        <4>1. request[p].pc = "minting" => row'[request[p].link].status = "unborn"
          BY <1>0, <2>3, <2>5, <3>2 DEF Sound
        <4> QED BY <1>0, <2>4, <3>2, <4>1, Carried
      <3> QED BY <3>1, <3>2
    <2>7. Apart'
      BY <2>4 DEF Bearings, Apart
    <2>8. Claimed'
      BY <2>3, <2>4 DEF Bearings, Claimed, l
    <2>9. Ready'
      BY <1>a, <2>1
    <2> QED BY <2>1, <2>6, <2>7, <2>8, <2>9 DEF Bearings
  <1>4. ASSUME NEW q \in Requests, CommitRevoke(q) PROVE Bearings'
    <2>1. /\ request[q].pc = "revoking" /\ request' = [request EXCEPT ![q] = Idle]
          /\ UNCHANGED <<export, late>>
      BY <1>4 DEF CommitRevoke, history
    <2>2. \A l \in Links : row'[l].status = "unborn" <=> row[l].status = "unborn"
      <3>1. \A x \in Row : [x EXCEPT !.revoked = TRUE].status = x.status
        BY DEF Row
      <3>2. \A l \in Links : row'[l] = row[l] \/ row'[l] = [row[l] EXCEPT !.revoked = TRUE]
        BY <1>0, <1>4 DEF CommitRevoke, TypeOK
      <3> QED BY <1>0, <3>1, <3>2 DEF TypeOK
    <2>3. request'[q] = Idle /\ Idle.pc = "idle"
      BY <1>0, <2>1 DEF TypeOK, Idle
    <2> QED BY <1>a, <1>c, <1>d, <2>1, <2>2, <2>3 DEF Bearings
  <1>5. ASSUME NEW q \in Requests, NEW key \in Keys, NEW pdf \in BOOLEAN, BeginView(q, key, pdf)
        PROVE  Bearings'
    <2>1. /\ request[q].pc = "idle" /\ Known(key)
          /\ UNCHANGED <<export, row, clock, late>>
      BY <1>5 DEF BeginView, Free, history
    <2>2. CASE ~(Permits(key) /\ key \in Links)
      <3>1. request' = [request EXCEPT ![q] = Idle]
        BY <1>5, <2>2 DEF BeginView
      <3>2. request'[q] = Idle /\ Idle.pc = "idle"
        BY <1>0, <3>1 DEF TypeOK, Idle
      <3> QED BY <1>a, <1>c, <1>d, <1>e, <2>1, <3>1, <3>2 DEF Bearings
    <2>3. CASE Permits(key) /\ key \in Links
      <3>0. PICK live \in BOOLEAN : live = Live(key)
        BY DEF Live
      <3> DEFINE mine == [Idle EXCEPT !.pc = "asked", !.link = key, !.live = live, !.pdf = pdf]
      <3>1. request' = [request EXCEPT ![q] = mine]
        BY <1>5, <2>3, <3>0 DEF BeginView
      <3>2. mine.pc = "asked" /\ mine.link = key /\ mine.live = live
        BY DEF Idle
      <3> HIDE DEF mine
      <3>3. request'[q] = mine
        BY <1>0, <3>1 DEF TypeOK
      <3>4. Live(key)' = Live(key)
        BY <2>1 DEF Live, Stored
      <3>5. Sound(q)'
        BY <2>1, <2>3, <3>0, <3>2, <3>3, <3>4 DEF Sound, Known
      <3> QED BY <1>a, <1>c, <1>e, <2>1, <3>1, <3>2, <3>5 DEF Bearings
    <2> QED BY <2>2, <2>3
  \* A refusal only puts its request to rest.
  <1>f. ASSUME NEW q \in Requests, request[q].pc \in {"asked", "resolved"}, Refusal(q),
               UNCHANGED <<row, clock, late>>
        PROVE  Bearings'
    <2>1. request[q].link \in Links
      BY <1>f DEF Base, Named
    <2>2. request' = [request EXCEPT ![q] = Idle]
      BY <1>0, <1>f, <2>1, RefusalShapes
    <2>3. request'[q] = Idle /\ Idle.pc = "idle"
      BY <1>0, <2>2 DEF TypeOK, Idle
    <2>4. \A e \in Exports : export'[e] = export[e] \/ export'[e].pc = "idle"
      BY <1>0, <1>f DEF Refusal, ExportEnds, Resting, TypeOK
    <2>5. Ready'
      BY <1>a, <2>4
    <2> QED BY <1>c, <1>d, <1>e, <1>f, <2>2, <2>3, <2>5 DEF Bearings
  <1>6. ASSUME NEW q \in Requests, Resolve(q) PROVE Bearings'
    <2>1. request[q].pc = "asked" /\ request[q].link \in Links
          /\ UNCHANGED <<row, clock, late>>
      BY <1>6 DEF Resolve, Base, Named
    <2>2. CASE ~Live(request[q].link)
      BY <1>6, <1>f, <2>1, <2>2 DEF Resolve
    <2>3. CASE Live(request[q].link)
      <3> DEFINE mine == [request[q] EXCEPT !.pc = "resolved"]
      <3>1. request' = [request EXCEPT ![q] = mine] /\ UNCHANGED export
        BY <1>0, <1>6, <2>3 DEF Resolve, TypeOK
      <3>2. mine.pc = "resolved" /\ mine.link = request[q].link /\ mine.live = request[q].live
        BY <1>0 DEF Request
      <3> HIDE DEF mine
      <3>3. request'[q] = mine
        BY <1>0, <3>1 DEF TypeOK
      <3>4. request[q].live /\ row[request[q].link].status \in {"row", "gone"}
        BY <1>0, <2>1, <2>3 DEF Sound
      <3>5. Sound(q)'
        BY <2>1, <3>2, <3>3, <3>4 DEF Sound
      <3> QED BY <1>a, <1>c, <1>e, <2>1, <3>1, <3>2, <3>5 DEF Bearings
    <2> QED BY <2>2, <2>3
  <1>7. ASSUME NEW q \in Requests, Show(q) PROVE Bearings'
    <2>1. /\ request[q].pc = "resolved" /\ request[q].link \in Links
          /\ request' = [request EXCEPT ![q] = Idle]
          /\ UNCHANGED <<row, clock>>
      BY <1>7 DEF Show, Base, Named
    <2>2. request[q].live /\ row[request[q].link].status \in {"row", "gone"}
      BY <1>0, <2>1 DEF Sound
    <2>3. late' = {}
      BY <1>7, <2>2 DEF Show, Bearings
    <2>4. request'[q] = Idle /\ Idle.pc = "idle"
      BY <1>0, <2>1 DEF TypeOK, Idle
    <2>5. Ready'
      <3>1. CASE \E x \in Exports :
                    /\ export[x].pc = "idle"
                    /\ export' = [export EXCEPT ![x] =
                          [pc |-> "queued", link |-> request[q].link, since |-> clock]]
        BY <1>0, <2>1, <2>2, <3>1 DEF Bearings, Ready, TypeOK
      <3>2. CASE request[q].for \in Exports
                 /\ export' = [export EXCEPT ![request[q].for].pc = "printing"]
        <4>1. \A e \in Exports : export'[e] = export[e] \/ export'[e].pc = "printing"
          BY <1>0, <3>2, ExportEdits DEF TypeOK
        <4> QED BY <1>a, <4>1
      <3>3. CASE UNCHANGED export
        BY <1>a, <3>3
      <3>4. request[q].for \in Exports \cup {NoExport}
        BY <1>0 DEF Request
      <3> QED BY <1>7, <3>1, <3>2, <3>3, <3>4 DEF Show
    <2> QED BY <1>c, <1>d, <1>e, <2>1, <2>3, <2>4, <2>5 DEF Bearings
  <1>8. ASSUME NEW q \in Requests, ShowFails(q) PROVE Bearings'
    BY <1>8, <1>f DEF ShowFails
  <1>9. ASSUME NEW e \in Exports, NEW q \in Requests, Load(e, q) PROVE Bearings'
    <2>0. PICK l \in Links : l = export[e].link
      BY <1>9 DEF Load, Base, Named
    <2>1. /\ request[q].pc = "idle" /\ export[e].pc = "rendering"
          /\ row[l].status \in {"row", "gone"}
          /\ UNCHANGED <<row, clock, late>>
      BY <1>9, <2>0 DEF Load, Free, Bearings, Ready
    <2>2. CASE ~Permits(l)
      <3>1. ExportEnds(e) /\ UNCHANGED request
        BY <1>9, <2>0, <2>2 DEF Load
      <3>2. Ready'
        BY <1>0, <1>a, <3>1 DEF ExportEnds, Resting, TypeOK
      <3> QED BY <1>b, <1>e, <2>1, <3>1, <3>2 DEF Bearings
    <2>3. CASE Permits(l)
      <3>0. PICK live \in BOOLEAN : live = Live(l)
        BY DEF Live
      <3> DEFINE mine == [Idle EXCEPT !.pc = "asked", !.link = l, !.live = live, !.for = e]
      <3>1. request' = [request EXCEPT ![q] = mine]
            /\ export' = [export EXCEPT ![e] = [export[e] EXCEPT !.pc = "loading"]]
        BY <1>0, <1>9, <2>0, <2>3, <3>0 DEF Load, TypeOK
      <3>2. mine.pc = "asked" /\ mine.link = l /\ mine.live = live
        BY DEF Idle
      <3>3. Ready'
        BY <1>0, <1>a, <3>1, ExportEdits DEF TypeOK
      <3> HIDE DEF mine
      <3>4. request'[q] = mine
        BY <1>0, <3>1 DEF TypeOK
      <3>5. Live(l)' = Live(l)
        BY <2>1 DEF Live, Stored
      <3>6. Sound(q)'
        BY <2>1, <3>0, <3>2, <3>4, <3>5 DEF Sound
      <3> QED BY <1>c, <1>e, <2>1, <3>1, <3>2, <3>3, <3>6 DEF Bearings
    <2> QED BY <2>2, <2>3
  <1>10. ASSUME NEW e \in Exports, NEW l \in Links, NEW d \in Domains, StaffExport(e, l, d)
         PROVE  Bearings'
    <2>1. /\ row[l].status = "free" /\ row'[l].status = "row"
          /\ \A m \in Links : m # l => row'[m] = row[m]
          /\ export' = [export EXCEPT ![e] = [pc |-> "queued", link |-> l, since |-> clock]]
          /\ UNCHANGED <<request, late>>
      BY <1>0, <1>10 DEF StaffExport, NewRow, TypeOK, history
    <2>2. \A m \in Links : row'[m].status = "unborn" <=> row[m].status = "unborn"
      BY <2>1
    <2>3. Ready'
      <3>1. ASSUME NEW x \in Exports, export'[x].pc \in {"queued", "rendering"}
            PROVE  row'[export'[x].link].status \in {"row", "gone"}
        <4>1. CASE x = e
          BY <1>0, <2>1, <4>1 DEF TypeOK
        <4>2. CASE x # e
          <5>1. export'[x] = export[x]
            BY <1>0, <2>1, <4>2 DEF TypeOK
          <5> QED BY <1>0, <3>1, <5>1 DEF Base, Named, Bearings, Ready, Onward
        <4> QED BY <4>1, <4>2
      <3> QED BY <3>1 DEF Ready
    <2> QED BY <1>b, <2>1, <2>2, <2>3 DEF Bearings
  <1>11. ASSUME NEW e \in Exports, TakeSlot(e) PROVE Bearings'
    <2>1. \A x \in Exports : export'[x].pc \in {"queued", "rendering"} =>
              export[x].pc \in {"queued", "rendering"} /\ export'[x].link = export[x].link
      <3>1. \A y \in Export : [y EXCEPT !.pc = "rendering", !.since = clock].link = y.link
        BY DEF Export
      <3>2. export' = [export EXCEPT ![e] =
                          [export[e] EXCEPT !.pc = "rendering", !.since = clock]]
            /\ export[e].pc = "queued"
        BY <1>0, <1>11 DEF TakeSlot, TypeOK
      <3> QED BY <1>0, <3>1, <3>2 DEF TypeOK
    <2> QED BY <1>11, <1>a, <1>b, <1>e, <2>1 DEF TakeSlot, Bearings, history
  <1>12. ASSUME NEW e \in Exports, RenderEnds(e) \/ GiveUpSlot(e) PROVE Bearings'
    <2>1. ExportEnds(e) /\ UNCHANGED <<row, late>>
          /\ (request' = Detached(request, e) \/ UNCHANGED request)
      BY <1>12 DEF RenderEnds, GiveUpSlot, history
    <2>2. \A r \in Request : [r EXCEPT !.for = NoExport].live = r.live
      BY DEF Request
    <2>3. \A q \in Requests : /\ request'[q].pc = request[q].pc
                              /\ request'[q].link = request[q].link
                              /\ request'[q].live = request[q].live
      BY <1>0, <2>1, <2>2, RequestEdits DEF Detached
    <2>4. Ready'
      BY <1>0, <1>a, <2>1 DEF ExportEnds, Resting, TypeOK
    <2> QED BY <1>b, <1>e, <2>1, <2>3, <2>4 DEF Bearings
  <1>13. ASSUME NEW d \in Domains, DeleteClient(d) PROVE Bearings'
    <2>1. UNCHANGED <<request, export, late>>
      BY <1>13 DEF DeleteClient, web, history
    <2>2. \A l \in Links : row'[l].status = "unborn" <=> row[l].status = "unborn"
      BY <1>0, <1>13, GoneShapes DEF DeleteClient, Stored
    <2>3. Ready'
      BY <1>a, <2>1
    <2> QED BY <1>b, <2>1, <2>2, <2>3 DEF Bearings
  <1>14. CASE Redeploy
    <2>1. \A q \in Requests : request'[q].pc = "idle"
      BY <1>14 DEF Redeploy, Idle
    <2>2. \A e \in Exports : export'[e].pc = "idle"
      BY <1>14 DEF Redeploy, Resting
    <2>3. \A l \in Links : row'[l].status # "unborn"
      BY <1>0, <1>14, GoneShapes DEF Redeploy
    <2>4. late' = {}
      BY <1>14 DEF Redeploy, history, Bearings
    <2> QED BY <2>1, <2>2, <2>3, <2>4 DEF Bearings, Sound, Apart, Claimed, Ready
  <1>15. CASE \/ \E d \in Domains : Check(d)
              \/ Tick \/ UNCHANGED vars
    <2>1. UNCHANGED <<request, export, row, late>>
      BY <1>15 DEF Check, Tick, vars, web, history
    <2>2. Ready'
      BY <1>a, <2>1
    <2> QED BY <1>b, <1>e, <2>1, <2>2 DEF Bearings
  <1> QED BY <1>1, <1>2, <1>3, <1>4, <1>5, <1>6, <1>7, <1>8, <1>9, <1>10, <1>11, <1>12, <1>13,
             <1>14, <1>15 DEF Next

-----------------------------------------------------------------------------
(* How many links a client has. *)

\* What staff minted, committed or not.
Held(l) == Live(l) \/ row[l].status = "unborn"
Staff(d) == {l \in Links : Held(l) /\ ~row[l].own /\ row[l].domain = d}
Unborn == {l \in Links : row[l].status = "unborn"}

Counted == \A d \in Domains : Staff(d) # {} => Cardinality(Staff(d)) <= Cap + crowd - 1

\* The rows that are not committed are no more than the requests that add them.
LEMMA UnbornAreMinted ==
  ASSUME Base, Bearings
  PROVE  /\ IsFiniteSet(Minting) /\ IsFiniteSet(Unborn)
         /\ Cardinality(Unborn) <= Cardinality(Minting)
  <1> DEFINE f == [q \in Minting |-> request[q].link]
  <1>1. Minting \in SUBSET Requests
    BY DEF Minting
  <1>2. IsFiniteSet(Minting)
    BY <1>1, FS_Subset
  <1>3. \A q \in Minting : f[q] \in Unborn
    BY DEF Minting, Unborn, Base, Named, Bearings, Sound
  <1>4. \A l \in Unborn : \E q \in Minting : f[q] = l
    BY DEF Minting, Unborn, Bearings, Claimed
  <1>5. f \in [Minting -> Unborn]
    BY <1>3
  <1> HIDE DEF f
  <1>6. f \in Surjection(Minting, Unborn)
    BY <1>4, <1>5 DEF Surjection
  <1> QED BY <1>2, <1>6, FS_Surjection

\* One more link of staff, where its domain had room when it was counted.
LEMMA MintCounts ==
  ASSUME Base, Bearings, Counted,
         NEW q \in Requests, NEW l \in Links, NEW d \in Domains, NEW days \in DaysAsked,
         BeginMint(q, l, d, days)
  PROVE  Counted'
  <1>1. /\ row[l].status = "free"
        /\ Cardinality(LiveLinks(d)) < Cap
        /\ crowd' = IF crowd > Cardinality(Minting) THEN crowd ELSE Cardinality(Minting) + 1
        /\ UNCHANGED clock
    BY DEF BeginMint
  <1>2. /\ row'[l].status = "unborn" /\ row'[l].domain = d
        /\ \A m \in Links : m # l => row'[m] = row[m]
    BY DEF BeginMint, NewRow, Base, TypeOK
  <1>3. /\ Cardinality(Minting) \in Nat /\ Cardinality(Unborn) <= Cardinality(Minting)
        /\ Cardinality(Unborn) \in Nat /\ IsFiniteSet(Unborn)
    BY UnbornAreMinted, FS_CardinalityType
  <1>4. LiveLinks(d) \in SUBSET Links
    BY DEF LiveLinks
  <1>5. IsFiniteSet(LiveLinks(d)) /\ Cardinality(LiveLinks(d)) \in Nat
    BY <1>4, FS_Subset, FS_CardinalityType
  <1>6. crowd \in Nat
    BY DEF Base, TypeOK
  <1>7. ASSUME NEW x \in Domains, x # d, Staff(x)' # {}
        PROVE  Cardinality(Staff(x)') <= Cap + crowd' - 1
    <2>1. Staff(x)' = Staff(x)
      BY <1>1, <1>2, <1>7 DEF Staff, Held, Live, Stored
    <2>2. Staff(x) \in SUBSET Links
      BY DEF Staff
    <2>3. Cardinality(Staff(x)) \in Nat
      BY <2>2, FS_Subset, FS_CardinalityType
    <2> QED BY <1>1, <1>3, <1>6, <1>7, <2>1, <2>3 DEF Counted
  <1>8. Cardinality(Staff(d)') <= Cap + crowd' - 1
    <2> DEFINE most == (LiveLinks(d) \cup Unborn) \cup {l}
    <2>1. Staff(d)' \subseteq most
      BY <1>1, <1>2 DEF Staff, Held, Live, Stored, LiveLinks, Unborn
    <2>2. LiveLinks(d) \cap Unborn = {}
      BY DEF LiveLinks, Live, Stored, Unborn
    <2>3. /\ IsFiniteSet(LiveLinks(d) \cup Unborn)
          /\ Cardinality(LiveLinks(d) \cup Unborn) =
               Cardinality(LiveLinks(d)) + Cardinality(Unborn)
      <3>1. /\ IsFiniteSet(LiveLinks(d) \cup Unborn)
            /\ Cardinality(LiveLinks(d) \cup Unborn) =
                 Cardinality(LiveLinks(d)) + Cardinality(Unborn) - Cardinality({})
        BY <1>3, <1>5, <2>2, FS_Union
      <3>2. Cardinality({}) = 0
        BY FS_EmptySet
      <3> QED BY <1>3, <1>5, <3>1, <3>2
    <2>4. /\ IsFiniteSet(most)
          /\ Cardinality(most) <= Cardinality(LiveLinks(d)) + Cardinality(Unborn) + 1
      <3> DEFINE both == LiveLinks(d) \cup Unborn
      <3>1. Cardinality(both) \in Nat
        BY <1>3, <1>5, <2>3
      <3>2. IsFiniteSet(both)
        BY <2>3
      <3>3. /\ IsFiniteSet(both \cup {l})
            /\ Cardinality(both \cup {l}) = IF l \in both THEN Cardinality(both)
                                             ELSE Cardinality(both) + 1
        BY <3>2, FS_AddElement
      <3>4. Cardinality(both) = Cardinality(LiveLinks(d)) + Cardinality(Unborn)
        BY <2>3
      <3> QED BY <3>1, <3>3, <3>4
    <2>5. Cardinality(most) \in Nat
      BY <2>4, FS_CardinalityType
    <2> HIDE DEF most
    <2>6. IsFiniteSet(Staff(d)') /\ Cardinality(Staff(d)') <= Cardinality(most)
      BY <2>1, <2>4, FS_Subset
    <2>7. Cardinality(Staff(d)') \in Nat
      BY <2>6, FS_CardinalityType
    <2> QED BY <1>1, <1>3, <1>5, <1>6, <2>4, <2>5, <2>6, <2>7
  <1> QED BY <1>7, <1>8 DEF Counted

\* Every other step leaves a client with fewer links of staff, or as many.
LEMMA OthersDoNotAdd ==
  ASSUME Base, Bearings, Counted, UNCHANGED crowd,
         \A l \in Links :
            (/\ row'[l].status = "unborn" \/ /\ row'[l].status = "row" /\ ~row'[l].revoked
                                             /\ row'[l].expires > clock'
             /\ ~row'[l].own)
            => Held(l) /\ ~row[l].own /\ row'[l].domain = row[l].domain
  PROVE  Counted'
  <1> SUFFICES ASSUME NEW d \in Domains, Staff(d)' # {}
               PROVE  Cardinality(Staff(d)') <= Cap + crowd' - 1
    BY DEF Counted
  <1>1. Staff(d)' \in SUBSET Staff(d)
    BY DEF Staff, Held, Live, Stored
  <1>2. Staff(d) \in SUBSET Links
    BY DEF Staff
  <1>3. IsFiniteSet(Staff(d)) /\ Cardinality(Staff(d)) \in Nat
    BY <1>2, FS_Subset, FS_CardinalityType
  <1>4. Cardinality(Staff(d)') <= Cardinality(Staff(d)) /\ Cardinality(Staff(d)') \in Nat
    BY <1>1, <1>3, FS_Subset, FS_CardinalityType
  <1>5. Cardinality(Staff(d)) <= Cap + crowd - 1
    BY <1>1 DEF Counted
  <1>6. crowd \in Nat
    BY DEF Base, TypeOK
  <1> QED BY <1>3, <1>4, <1>5, <1>6

LEMMA CountedInitially == Init => Counted
  BY DEF Init, Counted, Staff, Held, Live, Stored

LEMMA CountedStep ==
  ASSUME Base, Bearings, Counted, [Next]_vars
  PROVE  Counted'
  <1>0. TypeOK /\ clock \in Nat /\ \A l \in Links : row[l] \in Row
    BY DEF Base, TypeOK
  <1>1. ASSUME NEW q \in Requests, NEW l \in Links, NEW d \in Domains, NEW days \in DaysAsked,
               BeginMint(q, l, d, days)
        PROVE  Counted'
    BY <1>1, MintCounts
  <1>2. ASSUME NEW q \in Requests, CommitMint(q) PROVE Counted'
    <2> DEFINE l == request[q].link
    <2>1. /\ l \in Links /\ row[l].status = "unborn"
          /\ row' = [row EXCEPT ![l].status = "row"] /\ UNCHANGED <<clock, crowd>>
      BY <1>2 DEF CommitMint, history, Base, Named, Bearings, Sound
    <2>2. \A x \in Row : /\ [x EXCEPT !.status = "row"].own = x.own
                         /\ [x EXCEPT !.status = "row"].domain = x.domain
      BY DEF Row
    <2>3. \A m \in Links : m # l => row'[m] = row[m]
      BY <1>0, <2>1 DEF TypeOK
    <2>4. row'[l].own = row[l].own /\ row'[l].domain = row[l].domain
      BY <1>0, <2>1, <2>2 DEF TypeOK
    <2> HIDE DEF l
    <2> QED BY <2>1, <2>3, <2>4, OthersDoNotAdd DEF Held, Live, Stored
  <1>3. ASSUME NEW q \in Requests, CommitRevoke(q) PROVE Counted'
    <2>1. \A x \in Row : [x EXCEPT !.revoked = TRUE].revoked = TRUE
                         /\ [x EXCEPT !.revoked = TRUE].status = x.status
      BY DEF Row
    <2>2. \A l \in Links : \/ row'[l] = row[l]
                           \/ /\ Stored(l) /\ row'[l] = [row[l] EXCEPT !.revoked = TRUE]
      BY <1>0, <1>3 DEF CommitRevoke, TypeOK
    <2>3. UNCHANGED <<clock, crowd>>
      BY <1>3 DEF CommitRevoke, history
    <2>4. ASSUME NEW l \in Links,
                 \/ row'[l].status = "unborn"
                 \/ row'[l].status = "row" /\ ~row'[l].revoked /\ row'[l].expires > clock'
          PROVE  row'[l] = row[l]
      BY <1>0, <2>1, <2>2, <2>4 DEF Stored
    <2> QED BY <2>3, <2>4, OthersDoNotAdd DEF Held, Live, Stored
  <1>4. ASSUME NEW e \in Exports, NEW l \in Links, NEW d \in Domains, StaffExport(e, l, d)
        PROVE  Counted'
    <2>1. /\ row'[l].own /\ \A m \in Links : m # l => row'[m] = row[m]
          /\ UNCHANGED <<clock, crowd>>
      BY <1>0, <1>4 DEF StaffExport, NewRow, history, TypeOK
    <2> QED BY <2>1, OthersDoNotAdd DEF Held, Live, Stored
  <1>5. ASSUME NEW d \in Domains, DeleteClient(d) PROVE Counted'
    <2>1. /\ \A l \in Links : row'[l] = row[l] \/ row'[l].status = "gone"
          /\ UNCHANGED <<clock, crowd>>
      BY <1>0, <1>5, GoneShapes DEF DeleteClient, history
    <2> QED BY <2>1, OthersDoNotAdd DEF Held, Live, Stored
  <1>6. CASE Redeploy
    <2>1. /\ \A l \in Links : row'[l] = row[l] \/ row'[l].status = "gone"
          /\ UNCHANGED <<clock, crowd>>
      BY <1>0, <1>6, GoneShapes DEF Redeploy, history
    <2> QED BY <2>1, OthersDoNotAdd DEF Held, Live, Stored
  <1>7. CASE Tick
    <2>1. UNCHANGED <<row, crowd>> /\ clock' = clock + 1
      BY <1>7 DEF Tick, history
    <2>2. \A l \in Links : row[l].expires \in Int
      BY <1>0 DEF Row
    <2> QED BY <1>0, <2>1, <2>2, OthersDoNotAdd DEF Held, Live, Stored
  <1>8. CASE UNCHANGED <<row, clock, crowd>>
    BY <1>8, OthersDoNotAdd DEF Held, Live, Stored
  <1>9. CASE \/ \E q \in Requests :
                  \/ \E m \in Links : BeginRevoke(q, m)
                  \/ \E key \in Keys, pdf \in BOOLEAN : BeginView(q, key, pdf)
                  \/ Resolve(q) \/ Show(q) \/ ShowFails(q)
                  \/ \E e \in Exports : Load(e, q)
             \/ \E e \in Exports : TakeSlot(e) \/ RenderEnds(e) \/ GiveUpSlot(e)
             \/ \E d \in Domains : Check(d)
             \/ UNCHANGED vars
    BY <1>8, <1>9 DEF BeginRevoke, BeginView, Resolve, Show, ShowFails, Load, TakeSlot, RenderEnds,
       GiveUpSlot, Check, vars, history
  <1> QED BY <1>1, <1>2, <1>3, <1>4, <1>5, <1>6, <1>7, <1>9 DEF Next

LEMMA CountedBounds == Base /\ Counted => LiveLinksBounded
  <1> SUFFICES ASSUME Base, Counted, NEW d \in Domains, Minted(d) # {}
               PROVE  Cardinality(Minted(d)) <= Cap + crowd - 1
    BY DEF LiveLinksBounded
  <1>1. Minted(d) \in SUBSET Staff(d) /\ Staff(d) \in SUBSET Links
    BY DEF Minted, LiveLinks, Staff, Held
  <1>2. IsFiniteSet(Staff(d)) /\ Cardinality(Staff(d)) \in Nat
    BY <1>1, FS_Subset, FS_CardinalityType
  <1>3. Cardinality(Minted(d)) <= Cardinality(Staff(d)) /\ Cardinality(Minted(d)) \in Nat
    BY <1>1, <1>2, FS_Subset, FS_CardinalityType
  <1>4. Cardinality(Staff(d)) <= Cap + crowd - 1 /\ crowd \in Nat
    BY <1>1 DEF Counted, Base, TypeOK
  <1> QED BY <1>2, <1>3, <1>4

-----------------------------------------------------------------------------
(* An export and its own page. *)

\* The link an export minted stands with its client; a link nobody opened yet
\* has no tokens spent.
Kept ==
    \A l \in Links :
        /\ row[l].own => row[l].status = "row" /\ row[l].domain \in checked
        /\ row[l].status \in {"free", "unborn"} => bucket[l] = Absent

\* Until its page is there, an export has a link that covers the timeout it
\* is under, and until the browser asks, a key that asked for nothing.
Timely(e) ==
    LET x == export[e]
        l == x.link
    IN  /\ x.pc \in {"queued", "rendering", "loading"} =>
              l \in Links /\ row[l].status \in {"row", "gone"}
        /\ x.pc \in {"queued", "rendering"} /\ row[l].own => bucket[l] = Absent
        /\ x.pc = "queued" /\ row[l].own =>
              /\ row[l].expires >= x.since + ExportLife
              /\ clock <= x.since + SlotWait
        /\ x.pc \in {"rendering", "loading"} /\ row[l].own =>
              /\ row[l].expires > x.since + RenderTimeout
              /\ clock <= x.since + RenderTimeout

Waits(e) == export[e].pc \in {"queued", "rendering"} /\ row[export[e].link].own
Single == \A e, x \in Exports : /\ Waits(e) /\ Waits(x) /\ export[e].link = export[x].link
                                => e = x

\* Who asks for an export asks for the page it loads, and nobody else does.
Asking(q) ==
    LET r == request[q]
    IN  /\ r.pc \in {"asked", "resolved"} /\ r.pdf => ~row[r.link].own
        /\ r.for # NoExport => /\ r.pc \in {"asked", "resolved"}
                               /\ export[r.for].pc = "loading"
                               /\ export[r.for].link = r.link
Alone == \A q, r \in Requests : request[q].for = request[r].for /\ request[q].for # NoExport
                                => q = r

Owned == /\ Kept /\ Single /\ Alone /\ refused = {}
         /\ \A e \in Exports : Timely(e)
         /\ \A q \in Requests : Asking(q)

LEMMA OwnedInitially == Init => Owned
  <1> SUFFICES ASSUME Init PROVE Owned
    OBVIOUS
  <1>1. \A q \in Requests : request[q] = Idle
    BY DEF Init
  <1>2. Idle.pc = "idle" /\ Idle.for = NoExport
    BY DEF Idle
  <1>3. \A e \in Exports : export[e].pc = "idle"
    BY DEF Init, Resting
  <1>4. \A l \in Links : ~row[l].own /\ bucket[l] = Absent
    BY DEF Init, Keys
  <1>5. Kept
    BY <1>4 DEF Kept
  <1>6. Single /\ \A e \in Exports : Timely(e)
    BY <1>3 DEF Single, Waits, Timely
  <1>7. Alone /\ \A q \in Requests : Asking(q)
    BY <1>1, <1>2 DEF Alone, Asking
  <1> QED BY <1>5, <1>6, <1>7 DEF Init, Owned

\* Only the key that asks has its tokens counted.
LEMMA AllowTouches ==
  ASSUME NEW key \in Keys, Allow(key)
  PROVE  \A k \in Keys \ {key} : bucket'[k] = bucket[k] \/ bucket'[k] = Absent
  BY DEF Allow

\* Whose a link is and how long it lives are settled when it is drawn.
OwnOnward(l) ==
    row[l].status # "free" /\ row'[l].own =>
        row[l].own /\ row'[l].expires = row[l].expires

LEMMA EveryLinkOwned ==
  ASSUME Base, Bearings, [Next]_vars, NEW l \in Links
  PROVE  OwnOnward(l)
  <1>0. TypeOK /\ row[l] \in Row
    BY DEF Base, TypeOK
  <1>1. CASE UNCHANGED row
    BY <1>1 DEF OwnOnward
  <1>2. ASSUME NEW q \in Requests, NEW m \in Links, NEW d \in Domains, NEW days \in DaysAsked,
               BeginMint(q, m, d, days)
        PROVE  OwnOnward(l)
    BY <1>0, <1>2 DEF BeginMint, OwnOnward, TypeOK
  <1>3. ASSUME NEW q \in Requests, CommitMint(q) \/ CommitRevoke(q) PROVE OwnOnward(l)
    <2>1. \A r \in Row : /\ [r EXCEPT !.status = "row"].own = r.own
                         /\ [r EXCEPT !.status = "row"].expires = r.expires
                         /\ [r EXCEPT !.revoked = TRUE].own = r.own
                         /\ [r EXCEPT !.revoked = TRUE].expires = r.expires
      BY DEF Row
    <2>2. \/ row'[l] = row[l]
          \/ row'[l] = [row[l] EXCEPT !.status = "row"]
          \/ row'[l] = [row[l] EXCEPT !.revoked = TRUE]
      BY <1>0, <1>3 DEF CommitMint, CommitRevoke, TypeOK
    <2> QED BY <1>0, <2>1, <2>2 DEF OwnOnward
  <1>4. ASSUME NEW e \in Exports, NEW m \in Links, NEW d \in Domains, StaffExport(e, m, d)
        PROVE  OwnOnward(l)
    BY <1>0, <1>4 DEF StaffExport, OwnOnward, TypeOK
  <1>5. ASSUME (\E d \in Domains : DeleteClient(d)) \/ Redeploy PROVE OwnOnward(l)
    <2>1. row'[l] = row[l] \/ row'[l] = Gone(l)
      BY <1>5 DEF DeleteClient, Redeploy
    <2> QED BY <1>0, <2>1, GoneShapes DEF OwnOnward
  <1>6. CASE \/ \E q \in Requests :
                  \/ \E m \in Links : BeginRevoke(q, m)
                  \/ \E key \in Keys, pdf \in BOOLEAN : BeginView(q, key, pdf)
                  \/ Resolve(q) \/ Show(q) \/ ShowFails(q)
                  \/ \E e \in Exports : Load(e, q)
             \/ \E e \in Exports : TakeSlot(e) \/ RenderEnds(e) \/ GiveUpSlot(e)
             \/ \E d \in Domains : Check(d)
             \/ Tick \/ UNCHANGED vars
    BY <1>1, <1>6 DEF BeginRevoke, BeginView, Resolve, Show, ShowFails, Load, TakeSlot, RenderEnds,
       GiveUpSlot, Check, Tick, vars
  <1> QED BY <1>2, <1>3, <1>4, <1>5, <1>6 DEF Next

LEMMA KeptStep ==
  ASSUME Base, Bearings, Owned, [Next]_vars
  PROVE  Kept'
  <1>0. TypeOK /\ Kept /\ \A l \in Links : row[l] \in Row /\ l \in Keys
    BY DEF Base, TypeOK, Owned, Keys
  <1>1. CASE UNCHANGED <<row, checked, bucket>>
    BY <1>1, <1>0 DEF Kept
  <1>2. ASSUME NEW q \in Requests, NEW l \in Links, NEW d \in Domains, NEW days \in DaysAsked,
               BeginMint(q, l, d, days)
        PROVE  Kept'
    <2>1. /\ row[l].status = "free" /\ ~row'[l].own
          /\ \A m \in Links : m # l => row'[m] = row[m]
          /\ UNCHANGED <<checked, bucket>>
      BY <1>0, <1>2 DEF BeginMint, NewRow, throttle, TypeOK
    <2> QED BY <1>0, <2>1 DEF Kept
  <1>3. ASSUME NEW q \in Requests, CommitMint(q) PROVE Kept'
    <2> DEFINE l == request[q].link
    <2>1. /\ l \in Links /\ row[l].status = "unborn"
          /\ row' = [row EXCEPT ![l].status = "row"] /\ UNCHANGED <<checked, bucket>>
      BY <1>3 DEF CommitMint, throttle, Base, Named, Bearings, Sound
    <2>2. \A x \in Row : /\ [x EXCEPT !.status = "row"].own = x.own
                         /\ [x EXCEPT !.status = "row"].status = "row"
      BY DEF Row
    <2>3. \A m \in Links : m # l => row'[m] = row[m]
      BY <1>0, <2>1 DEF TypeOK
    <2>4. row'[l].own = row[l].own /\ row'[l].status = "row"
      BY <1>0, <2>1, <2>2 DEF TypeOK
    <2> HIDE DEF l
    <2> QED BY <1>0, <2>1, <2>3, <2>4 DEF Kept
  <1>4. ASSUME NEW q \in Requests, CommitRevoke(q) PROVE Kept'
    <2>1. \A x \in Row : /\ [x EXCEPT !.revoked = TRUE].own = x.own
                         /\ [x EXCEPT !.revoked = TRUE].status = x.status
                         /\ [x EXCEPT !.revoked = TRUE].domain = x.domain
      BY DEF Row
    <2>2. \A l \in Links : row'[l] = row[l] \/ row'[l] = [row[l] EXCEPT !.revoked = TRUE]
      BY <1>0, <1>4 DEF CommitRevoke, TypeOK
    <2>3. \A l \in Links : /\ row'[l].own = row[l].own /\ row'[l].status = row[l].status
                           /\ row'[l].domain = row[l].domain
      BY <1>0, <2>1, <2>2
    <2>4. UNCHANGED <<checked, bucket>>
      BY <1>4 DEF CommitRevoke, throttle
    <2> QED BY <1>0, <2>3, <2>4 DEF Kept
  <1>5. ASSUME NEW e \in Exports, NEW l \in Links, NEW d \in Domains, StaffExport(e, l, d)
        PROVE  Kept'
    <2>1. /\ row'[l].status = "row" /\ row'[l].domain = d /\ d \in checked
          /\ \A m \in Links : m # l => row'[m] = row[m]
          /\ UNCHANGED <<checked, bucket>>
      BY <1>0, <1>5 DEF StaffExport, NewRow, throttle, TypeOK
    <2> QED BY <1>0, <2>1 DEF Kept
  <1>6. ASSUME NEW q \in Requests, NEW key \in Keys, NEW pdf \in BOOLEAN, BeginView(q, key, pdf)
        PROVE  Kept'
    <2>1. \A k \in Keys \ {key} : bucket'[k] = bucket[k] \/ bucket'[k] = Absent
      BY <1>6, AllowTouches DEF BeginView
    <2>2. key \in Links => row[key].status \in {"row", "gone"}
      BY <1>6 DEF BeginView, Known
    <2>3. UNCHANGED <<row, checked>>
      BY <1>6 DEF BeginView
    <2> QED BY <1>0, <2>1, <2>2, <2>3 DEF Kept
  <1>7. ASSUME NEW e \in Exports, NEW q \in Requests, Load(e, q) PROVE Kept'
    <2>1. PICK l \in Links : l = export[e].link
      BY <1>7 DEF Load, Base, Named
    <2>2. row[l].status \in {"row", "gone"} /\ Allow(l)
      BY <1>7, <2>1 DEF Load, Bearings, Ready
    <2>3. \A k \in Keys \ {l} : bucket'[k] = bucket[k] \/ bucket'[k] = Absent
      BY <1>0, <2>2, AllowTouches
    <2>4. UNCHANGED <<row, checked>>
      BY <1>7 DEF Load
    <2> QED BY <1>0, <2>2, <2>3, <2>4 DEF Kept
  <1>8. ASSUME NEW d \in Domains, DeleteClient(d) PROVE Kept'
    <2>1. /\ \A l \in Links : IF row[l].status = "row" /\ row[l].domain = d
                              THEN row'[l] = Gone(l) ELSE row'[l] = row[l]
          /\ checked' = checked \ {d} /\ UNCHANGED bucket
      BY <1>8 DEF DeleteClient, Stored, throttle
    <2> QED BY <1>0, <2>1, GoneShapes DEF Kept
  <1>9. CASE Redeploy
    <2>1. /\ \A l \in Links : row'[l] = Gone(l) \/ row'[l] = row[l]
          /\ \A l \in Links : bucket'[l] = Absent
          /\ UNCHANGED checked
      BY <1>0, <1>9 DEF Redeploy
    <2> QED BY <1>0, <2>1, GoneShapes DEF Kept
  <1>10. ASSUME NEW d \in Domains, Check(d) PROVE Kept'
    BY <1>0, <1>10 DEF Check, throttle, Kept
  <1>11. CASE \/ \E q \in Requests :
                   \/ \E m \in Links : BeginRevoke(q, m)
                   \/ Resolve(q) \/ Show(q) \/ ShowFails(q)
              \/ \E e \in Exports : TakeSlot(e) \/ RenderEnds(e) \/ GiveUpSlot(e)
              \/ Tick \/ UNCHANGED vars
    BY <1>1, <1>11 DEF BeginRevoke, Resolve, Show, ShowFails, TakeSlot, RenderEnds,
       GiveUpSlot, Tick, vars, throttle
  <1> QED BY <1>2, <1>3, <1>4, <1>5, <1>6, <1>7, <1>8, <1>9, <1>10, <1>11 DEF Next

\* An export that goes on as it was, on the same link, while its key rests.
LEMMA ExportCarried ==
  ASSUME NEW e \in Exports, Timely(e),
         \A l \in Links : Onward(l) /\ OwnOnward(l),
         export'[e] = export[e], clock' = clock,
         Waits(e) /\ row'[export[e].link].own => bucket'[export[e].link] = Absent
  PROVE  Timely(e)' /\ (Waits(e)' => Waits(e))
  <1> DEFINE l == export[e].link
  <1>1. CASE export[e].pc \notin {"queued", "rendering", "loading"}
    BY <1>1 DEF Timely, Waits
  <1>2. CASE export[e].pc \in {"queued", "rendering", "loading"}
    <2>1. l \in Links /\ row[l].status \in {"row", "gone"}
      BY <1>2 DEF Timely
    <2>2. row'[l].status \in {"row", "gone"}
          /\ (row'[l].own => row[l].own /\ row'[l].expires = row[l].expires)
      BY <2>1 DEF Onward, OwnOnward
    <2>3. export'[e].link = l /\ export'[e].pc = export[e].pc /\ export'[e].since = export[e].since
      OBVIOUS
    <2>4. Waits(e)' => Waits(e)
      BY <2>2, <2>3 DEF Waits
    <2> QED BY <1>2, <2>1, <2>2, <2>3, <2>4 DEF Timely, Waits
  <1> QED BY <1>1, <1>2

LEMMA ExportsStep ==
  ASSUME Base, Bearings, Owned, [Next]_vars
  PROVE  Single' /\ \A e \in Exports : Timely(e)'
  <1> DEFINE Goal == Single' /\ \A e \in Exports : Timely(e)'
  <1>0. /\ TypeOK /\ Kept /\ Single /\ clock \in Nat
        /\ \A e \in Exports : Timely(e) /\ export[e] \in Export
        /\ \A l \in Links : Onward(l) /\ OwnOnward(l) /\ row[l] \in Row /\ l \in Keys
    BY EveryLinkOnward, EveryLinkOwned DEF Base, TypeOK, Owned, Keys
  \* Exports that go on as they were, or end.
  <1>a. ASSUME clock' = clock,
               \A x \in Exports : \/ /\ export'[x] = export[x]
                                     /\ Waits(x) /\ row'[export[x].link].own =>
                                            bucket'[export[x].link] = Absent
                                  \/ export'[x].pc \in {"idle", "printing"}
        PROVE  Goal
    <2>1. ASSUME NEW x \in Exports
          PROVE  /\ Timely(x)'
                 /\ Waits(x)' => Waits(x) /\ export'[x].link = export[x].link
      <3>1. CASE export'[x].pc \in {"idle", "printing"}
        BY <3>1 DEF Timely, Waits
      <3>2. CASE /\ export'[x] = export[x]
                 /\ Waits(x) /\ row'[export[x].link].own => bucket'[export[x].link] = Absent
        BY <1>0, <1>a, <3>2, ExportCarried
      <3> QED BY <1>a, <3>1, <3>2
    <2> QED BY <1>0, <2>1 DEF Single
  \* ... while the bucket rests.
  <1>b. ASSUME clock' = clock, UNCHANGED bucket,
               \A x \in Exports : export'[x] = export[x] \/ export'[x].pc \in {"idle", "printing"}
        PROVE  Goal
    <2>1. \A x \in Exports : Waits(x) /\ row'[export[x].link].own =>
                                bucket'[export[x].link] = Absent
      BY <1>0, <1>b DEF Waits, Timely
    <2> QED BY <1>a, <1>b, <2>1
  <1>c. ASSUME NEW e \in Exports, ExportEnds(e)
        PROVE  \A x \in Exports : export'[x] = export[x] \/ export'[x].pc \in {"idle", "printing"}
    BY <1>0, <1>c DEF ExportEnds, Resting, TypeOK
  <1>d. ASSUME NEW q \in Requests, Refusal(q), clock' = clock, UNCHANGED bucket
        PROVE  Goal
    <2>1. request[q].for \in Exports \cup {NoExport}
      BY DEF Base, TypeOK, Request
    <2>2. UNCHANGED export \/ \E e \in Exports : ExportEnds(e)
      BY <1>d, <2>1 DEF Refusal
    <2> QED BY <1>b, <1>c, <1>d, <2>2
  <1>1. CASE \E q \in Requests :
                \/ \E l \in Links :
                      \/ \E d \in Domains, days \in DaysAsked : BeginMint(q, l, d, days)
                      \/ BeginRevoke(q, l)
                \/ CommitMint(q) \/ CommitRevoke(q)
    BY <1>b, <1>1 DEF BeginMint, BeginRevoke, CommitMint, CommitRevoke, throttle
  <1>2. CASE \/ \E d \in Domains : Check(d) \/ DeleteClient(d)
             \/ UNCHANGED vars
    BY <1>b, <1>2 DEF Check, DeleteClient, vars, throttle, web
  <1>3. ASSUME NEW q \in Requests, Resolve(q) PROVE Goal
    <2>1. clock' = clock /\ UNCHANGED bucket /\ (UNCHANGED export \/ Refusal(q))
      BY <1>3 DEF Resolve, throttle
    <2> QED BY <1>b, <1>d, <2>1
  <1>4. ASSUME NEW q \in Requests, ShowFails(q) PROVE Goal
    BY <1>4, <1>d DEF ShowFails, throttle
  <1>5. ASSUME NEW e \in Exports, RenderEnds(e) \/ GiveUpSlot(e) PROVE Goal
    BY <1>5, <1>b, <1>c DEF RenderEnds, GiveUpSlot, throttle
  <1>6. ASSUME NEW q \in Requests, NEW key \in Keys, NEW pdf \in BOOLEAN, BeginView(q, key, pdf)
        PROVE  Goal
    <2>1. \A k \in Keys \ {key} : bucket'[k] = bucket[k] \/ bucket'[k] = Absent
      BY <1>6, AllowTouches DEF BeginView
    <2>2. key \in Links => ~row[key].own
      BY <1>6 DEF BeginView, Known
    <2>3. UNCHANGED <<row, clock, export>>
      BY <1>6 DEF BeginView
    <2>4. ASSUME NEW x \in Exports, Waits(x)
          PROVE  bucket'[export[x].link] = Absent
      <3>1. export[x].link \in Links /\ bucket[export[x].link] = Absent /\ row[export[x].link].own
        BY <1>0, <2>4 DEF Waits, Timely
      <3> QED BY <1>0, <2>1, <2>2, <3>1
    <2> QED BY <1>a, <2>3, <2>4
  <1>7. ASSUME NEW q \in Requests, Show(q) PROVE Goal
    <2> DEFINE l == request[q].link
    <2>1. /\ request[q].pc = "resolved" /\ l \in Links /\ row[l].status \in {"row", "gone"}
          /\ UNCHANGED <<row, clock, bucket>>
      BY <1>7 DEF Show, throttle, Base, Named, Bearings, Sound
    <2>2. CASE UNCHANGED export
      BY <1>b, <2>1, <2>2
    <2>3. CASE request[q].for \in Exports /\ export' = [export EXCEPT ![request[q].for].pc = "printing"]
      <3>1. \A x \in Exports : export'[x] = export[x] \/ export'[x].pc = "printing"
        BY <1>0, <2>3, ExportEdits DEF TypeOK
      <3> QED BY <1>b, <2>1, <3>1
    <2>4. ASSUME request[q].pdf, NEW x \in Exports,
                 export' = [export EXCEPT ![x] = [pc |-> "queued", link |-> l, since |-> clock]]
          PROVE  Goal
      <3>1. ~row[l].own
        BY <2>1, <2>4 DEF Owned, Asking
      <3>2. export'[x].pc = "queued" /\ export'[x].link = l
        BY <1>0, <2>4 DEF TypeOK
      <3>3. Timely(x)' /\ ~Waits(x)'
        BY <2>1, <3>1, <3>2 DEF Timely, Waits
      <3>4. ASSUME NEW y \in Exports, y # x
            PROVE  Timely(y)' /\ (Waits(y)' => Waits(y)) /\ export'[y].link = export[y].link
        <4>1. export'[y] = export[y]
          BY <1>0, <2>4, <3>4 DEF TypeOK
        <4>2. Waits(y) => bucket'[export[y].link] = Absent
          BY <1>0, <2>1 DEF Waits, Timely
        <4> QED BY <1>0, <2>1, <4>1, <4>2, ExportCarried
      <3> QED BY <1>0, <3>3, <3>4 DEF Single
    <2>5. request[q].for \in Exports \cup {NoExport}
      BY DEF Base, TypeOK, Request
    <2> HIDE DEF l, Goal
    <2> QED BY <1>7, <2>2, <2>3, <2>4, <2>5 DEF Show, l
  <1>8. ASSUME NEW e \in Exports, NEW l \in Links, NEW d \in Domains, StaffExport(e, l, d)
        PROVE  Goal
    <2>1. /\ row[l].status = "free" /\ row'[l].status = "row"
          /\ row'[l].expires = clock + ExportLife
          /\ \A m \in Links : m # l => row'[m] = row[m]
          /\ export' = [export EXCEPT ![e] = [pc |-> "queued", link |-> l, since |-> clock]]
          /\ UNCHANGED <<clock, bucket>>
      BY <1>0, <1>8 DEF StaffExport, NewRow, throttle, TypeOK
    <2>2. /\ export'[e].pc = "queued" /\ export'[e].link = l /\ export'[e].since = clock
          /\ \A x \in Exports : x # e => export'[x] = export[x]
      BY <1>0, <2>1 DEF TypeOK
    <2>3. bucket[l] = Absent
      BY <1>0, <2>1 DEF Kept
    <2>4. Timely(e)'
      <3>1. /\ row'[l].expires >= export'[e].since + ExportLife
            /\ clock' <= export'[e].since + SlotWait
        BY <1>0, <2>1, <2>2
      <3> QED BY <2>1, <2>2, <2>3, <3>1 DEF Timely
    <2>5. ASSUME NEW x \in Exports, x # e
          PROVE  /\ Timely(x)'
                 /\ Waits(x)' => Waits(x) /\ export'[x].link = export[x].link
                                          /\ export[x].link # l
      <3>1. export'[x] = export[x]
        BY <2>2, <2>5
      <3>2. Waits(x) => bucket'[export[x].link] = Absent
        BY <1>0, <2>1 DEF Waits, Timely
      <3>3. Waits(x) => export[x].link # l
        BY <1>0, <2>1 DEF Waits, Timely
      <3> QED BY <1>0, <2>1, <3>1, <3>2, <3>3, ExportCarried
    <2> QED BY <1>0, <2>2, <2>4, <2>5 DEF Single
  <1>9. ASSUME NEW e \in Exports, TakeSlot(e) PROVE Goal
    <2> DEFINE l == export[e].link
    <2>1. /\ export[e].pc = "queued"
          /\ export' = [export EXCEPT ![e] =
                           [export[e] EXCEPT !.pc = "rendering", !.since = clock]]
          /\ UNCHANGED <<clock, row, bucket>>
      BY <1>0, <1>9 DEF TakeSlot, throttle, TypeOK
    <2>2. \A y \in Export : LET z == [y EXCEPT !.pc = "rendering", !.since = clock]
                            IN  z.link = y.link /\ z.pc = "rendering" /\ z.since = clock
      BY DEF Export
    <2>3. /\ export'[e].pc = "rendering" /\ export'[e].link = l /\ export'[e].since = clock
          /\ \A x \in Exports : x # e => export'[x] = export[x]
      BY <1>0, <2>1, <2>2 DEF TypeOK
    <2>4. l \in Links /\ row[l].status \in {"row", "gone"} /\ row[l].expires \in Int
          /\ export[e].since \in Nat
      BY <1>0, <2>1 DEF Timely, Row, Export
    <2>5. row[l].own => /\ bucket[l] = Absent
                        /\ row[l].expires >= export[e].since + ExportLife
                        /\ clock <= export[e].since + SlotWait
      BY <1>0, <2>1 DEF Timely
    <2>6. row[l].own => row[l].expires > clock + RenderTimeout /\ clock <= clock + RenderTimeout
      BY <1>0, <2>4, <2>5
    <2> HIDE DEF l
    <2>7. Timely(e)'
      BY <2>1, <2>3, <2>4, <2>5, <2>6 DEF Timely
    <2>8. Waits(e)' => Waits(e)
      BY <2>1, <2>3 DEF Waits, l
    <2>9. ASSUME NEW x \in Exports, x # e
          PROVE  /\ Timely(x)'
                 /\ Waits(x)' => Waits(x)
      <3>1. Waits(x) => bucket'[export[x].link] = Absent
        BY <1>0, <2>1 DEF Waits, Timely
      <3> QED BY <1>0, <2>1, <2>3, <2>9, <3>1, ExportCarried
    <2> QED BY <1>0, <2>3, <2>7, <2>8, <2>9 DEF Single, l
  <1>10. ASSUME NEW e \in Exports, NEW q \in Requests, Load(e, q) PROVE Goal
    <2>1. PICK l \in Links : l = export[e].link
      BY <1>10 DEF Load, Base, Named
    <2>2. /\ export[e].pc = "rendering" /\ Allow(l)
          /\ UNCHANGED <<row, clock>>
      BY <1>10, <2>1 DEF Load
    <2>3. \A k \in Keys \ {l} : bucket'[k] = bucket[k] \/ bucket'[k] = Absent
      BY <1>0, <2>2, AllowTouches
    <2>4. ASSUME NEW x \in Exports, x # e, Waits(x)
          PROVE  bucket'[export[x].link] = Absent
      <3>1. export[x].link \in Links /\ bucket[export[x].link] = Absent
        BY <1>0, <2>4 DEF Waits, Timely
      <3>2. export[x].link # l
        BY <1>0, <2>1, <2>2, <2>4 DEF Single, Waits
      <3> QED BY <1>0, <2>3, <3>1, <3>2
    <2>5. CASE ~Permits(l)
      <3>1. ExportEnds(e)
        BY <1>10, <2>1, <2>5 DEF Load
      <3>2. /\ export'[e].pc = "idle"
            /\ \A x \in Exports : x # e => export'[x] = export[x]
        BY <1>0, <3>1 DEF ExportEnds, Resting, TypeOK
      <3> QED BY <1>a, <2>2, <2>4, <3>2
    <2>6. CASE Permits(l)
      <3>1. export' = [export EXCEPT ![e] = [export[e] EXCEPT !.pc = "loading"]]
        BY <1>0, <1>10, <2>1, <2>6 DEF Load, TypeOK
      <3>2. /\ export'[e].pc = "loading" /\ export'[e].link = l
            /\ export'[e].since = export[e].since
            /\ \A x \in Exports : x # e => export'[x] = export[x]
        BY <1>0, <2>1, <3>1, ExportEdits DEF TypeOK
      <3>3. Timely(e)' /\ ~Waits(e)'
        BY <1>0, <2>1, <2>2, <3>2 DEF Timely, Waits
      <3>4. ASSUME NEW x \in Exports, x # e
            PROVE  Timely(x)' /\ (Waits(x)' => Waits(x))
        BY <1>0, <2>2, <2>4, <3>2, <3>4, ExportCarried
      <3> QED BY <1>0, <3>2, <3>3, <3>4 DEF Single
    <2> QED BY <2>5, <2>6
  <1>11. CASE Redeploy
    <2>1. \A e \in Exports : export'[e].pc = "idle"
      BY <1>11 DEF Redeploy, Resting
    <2> QED BY <2>1 DEF Single, Waits, Timely
  <1>12. CASE Tick
    <2>1. /\ UNCHANGED <<row, export, bucket>> /\ clock' = clock + 1
          /\ \A e \in Exports :
                /\ export[e].pc = "queued" => clock - export[e].since < SlotWait
                /\ export[e].pc \in {"rendering", "loading"} =>
                      clock - export[e].since < RenderTimeout
      BY <1>12 DEF Tick, Under, web, throttle
    <2>2. \A e \in Exports : export[e].since \in Nat
      BY <1>0 DEF Export
    <2>3. \A e \in Exports : Timely(e)'
      <3>1. ASSUME NEW e \in Exports
            PROVE  /\ export[e].pc = "queued" => clock' <= export[e].since + SlotWait
                   /\ export[e].pc \in {"rendering", "loading"} =>
                         clock' <= export[e].since + RenderTimeout
        BY <1>0, <2>1, <2>2
      <3> QED BY <1>0, <2>1, <3>1 DEF Timely
    <2>4. Single'
      BY <1>0, <2>1 DEF Single, Waits
    <2> QED BY <2>3, <2>4
  <1>13. CASE \E q \in Requests :
                 \/ \E key \in Keys, pdf \in BOOLEAN : BeginView(q, key, pdf)
                 \/ Resolve(q) \/ Show(q) \/ ShowFails(q)
                 \/ \E e \in Exports : Load(e, q)
    BY <1>3, <1>4, <1>6, <1>7, <1>10, <1>13
  <1>14. CASE \E e \in Exports :
                 \/ \E l \in Links, d \in Domains : StaffExport(e, l, d)
                 \/ TakeSlot(e) \/ RenderEnds(e) \/ GiveUpSlot(e)
    BY <1>5, <1>8, <1>9, <1>14
  <1> QED BY <1>1, <1>2, <1>11, <1>12, <1>13, <1>14 DEF Next

\* A request that goes on as it was; the export it loads for, if any, still loads.
LEMMA AskingCarried ==
  ASSUME Base, Bearings, NEW q \in Requests, Asking(q),
         \A l \in Links : OwnOnward(l),
         request'[q].pc = request[q].pc, request'[q].link = request[q].link,
         request'[q].pdf = request[q].pdf,
         \/ request'[q].for = NoExport
         \/ /\ request'[q].for = request[q].for
            /\ request[q].for # NoExport => export'[request[q].for] = export[request[q].for]
  PROVE  Asking(q)'
  <1>1. request[q].pc \in {"asked", "resolved"} =>
           request[q].link \in Links /\ row[request[q].link].status \in {"row", "gone"}
    BY DEF Base, Named, Bearings, Sound
  <1> QED BY <1>1 DEF Asking, OwnOnward

LEMMA RequestsStep ==
  ASSUME Base, Bearings, Owned, [Next]_vars
  PROVE  Alone' /\ refused' = {} /\ \A q \in Requests : Asking(q)'
  <1> DEFINE Goal == Alone' /\ refused' = {} /\ \A q \in Requests : Asking(q)'
  <1>0. /\ TypeOK /\ Kept /\ Alone /\ refused = {}
        /\ \A e \in Exports : Timely(e) /\ export[e] \in Export
        /\ \A q \in Requests : Asking(q) /\ request[q] \in Request
        /\ \A l \in Links : OwnOnward(l) /\ row[l] \in Row
        /\ Idle.pc = "idle" /\ Idle.for = NoExport /\ ~Idle.pdf
    BY EveryLinkOwned DEF Base, TypeOK, Owned, Idle
  \* Exports that load go on as they were, and every request as it was or to rest.
  <1>a. ASSUME \A q \in Requests : request'[q] = request[q] \/ request'[q] = Idle,
               \A q \in Requests : request'[q].for # NoExport =>
                                      export'[request[q].for] = export[request[q].for],
               refused' = {}
        PROVE  Goal
    <2>1. ASSUME NEW q \in Requests PROVE Asking(q)'
      <3>1. CASE request'[q] = Idle
        BY <1>0, <3>1 DEF Asking
      <3>2. CASE request'[q] = request[q]
        BY <1>0, <1>a, <3>2, AskingCarried
      <3> QED BY <1>a, <3>1, <3>2
    <2>2. Alone'
      BY <1>0, <1>a DEF Alone
    <2> QED BY <1>a, <2>1, <2>2
  \* One request begins for nobody's export, and not with a link of one.
  <1>b. ASSUME NEW q \in Requests, NEW r, request' = [request EXCEPT ![q] = r],
               r.for = NoExport, r.pc \in {"asked", "resolved"} /\ r.pdf => ~row'[r.link].own,
               UNCHANGED <<export, refused>>
        PROVE  Goal
    <2>1. request'[q] = r /\ \A p \in Requests : p # q => request'[p] = request[p]
      BY <1>0, <1>b DEF TypeOK
    <2>2. ASSUME NEW p \in Requests PROVE Asking(p)'
      <3>1. CASE p = q
        BY <1>b, <2>1, <3>1 DEF Asking
      <3>2. CASE p # q
        BY <1>0, <1>b, <2>1, <3>2, AskingCarried
      <3> QED BY <3>1, <3>2
    <2>3. Alone'
      BY <1>0, <1>b, <2>1 DEF Alone
    <2> QED BY <1>0, <1>b, <2>2, <2>3
  \* A refusal of what no export of staff asked.
  <1>c. ASSUME NEW q \in Requests, request[q].pc \in {"asked", "resolved"}, Refusal(q),
               row[request[q].link].own => row[request[q].link].revoked
        PROVE  Goal
    <2>1. request[q].link \in Links
      BY <1>c DEF Base, Named
    <2>2. request' = [request EXCEPT ![q] = Idle]
      BY <1>0, <1>c, <2>1, RefusalShapes
    <2>3. \A p \in Requests : request'[p] = IF p = q THEN Idle ELSE request[p]
      BY <1>0, <2>2 DEF TypeOK
    <2>4. request[q].for \in Exports \cup {NoExport}
      BY DEF Base, TypeOK, Request
    <2>5. CASE request[q].for = NoExport
      <3>1. UNCHANGED <<export, refused>>
        BY <1>c, <2>5 DEF Refusal
      <3> QED BY <1>0, <1>a, <2>3, <3>1
    <2>6. CASE request[q].for \in Exports
      <3>1. ExportEnds(request[q].for) /\ refused' = {}
        BY <1>0, <1>c, <2>6 DEF Refusal
      <3>2. \A x \in Exports : x # request[q].for => export'[x] = export[x]
        BY <1>0, <3>1 DEF ExportEnds, TypeOK
      <3>3. ASSUME NEW p \in Requests, request'[p].for # NoExport
            PROVE  export'[request[p].for] = export[request[p].for]
        <4>1. p # q /\ request'[p] = request[p]
          BY <1>0, <2>3, <3>3
        <4>2. request[p].for \in Exports /\ request[p].for # request[q].for
          BY <1>0, <2>6, <3>3, <4>1 DEF Alone, Request
        <4> QED BY <3>2, <4>2
      <3> QED BY <1>a, <2>3, <3>1, <3>3
    <2> QED BY <2>4, <2>5, <2>6
  <1>1. ASSUME NEW q \in Requests, NEW l \in Links, NEW d \in Domains, NEW days \in DaysAsked,
               BeginMint(q, l, d, days)
        PROVE  Goal
    <2> DEFINE mine == [Idle EXCEPT !.pc = "minting", !.link = l]
    <2>1. request' = [request EXCEPT ![q] = mine] /\ UNCHANGED <<export, refused>>
      BY <1>1 DEF BeginMint
    <2>2. mine.for = NoExport /\ mine.pc = "minting"
      BY DEF Idle
    <2> HIDE DEF mine
    <2> QED BY <1>b, <2>1, <2>2
  <1>2. ASSUME NEW q \in Requests, NEW l \in Links, BeginRevoke(q, l) PROVE Goal
    <2> DEFINE mine == [Idle EXCEPT !.pc = "revoking", !.link = l, !.revoked = row[l].revoked]
    <2>1. request' = [request EXCEPT ![q] = mine] /\ UNCHANGED <<export, refused>>
      BY <1>2 DEF BeginRevoke, history
    <2>2. mine.for = NoExport /\ mine.pc = "revoking"
      BY DEF Idle
    <2> HIDE DEF mine
    <2> QED BY <1>b, <2>1, <2>2
  <1>3. ASSUME NEW q \in Requests, CommitMint(q) \/ CommitRevoke(q) PROVE Goal
    <2>1. request' = [request EXCEPT ![q] = Idle] /\ UNCHANGED <<export, refused>>
      BY <1>3 DEF CommitMint, CommitRevoke, history
    <2> QED BY <1>0, <1>b, <2>1
  <1>4. ASSUME NEW q \in Requests, NEW key \in Keys, NEW pdf \in BOOLEAN, BeginView(q, key, pdf)
        PROVE  Goal
    <2>1. UNCHANGED <<export, refused, row>>
      BY <1>4 DEF BeginView, history
    <2>2. CASE ~(Permits(key) /\ key \in Links)
      <3>1. request' = [request EXCEPT ![q] = Idle]
        BY <1>4, <2>2 DEF BeginView
      <3> QED BY <1>0, <1>b, <2>1, <3>1
    <2>3. CASE Permits(key) /\ key \in Links
      <3>0. PICK live \in BOOLEAN : live = Live(key)
        BY DEF Live
      <3> DEFINE mine == [Idle EXCEPT !.pc = "asked", !.link = key, !.live = live, !.pdf = pdf]
      <3>1. request' = [request EXCEPT ![q] = mine]
        BY <1>4, <2>3, <3>0 DEF BeginView
      <3>2. mine.for = NoExport /\ mine.link = key
        BY DEF Idle
      <3> HIDE DEF mine
      <3>3. ~row'[mine.link].own
        BY <1>4, <2>1, <2>3, <3>2 DEF BeginView, Known
      <3> QED BY <1>b, <2>1, <3>1, <3>2, <3>3
    <2> QED BY <2>2, <2>3
  <1>5. ASSUME NEW q \in Requests, Resolve(q) PROVE Goal
    <2>1. request[q].pc = "asked" /\ request[q].link \in Links
          /\ UNCHANGED <<row, clock>>
      BY <1>5 DEF Resolve, Base, Named
    <2>2. CASE ~Live(request[q].link)
      <3> DEFINE l == request[q].link
                 e == request[q].for
      <3>0. Refusal(q)
        BY <1>5, <2>2 DEF Resolve
      <3>1. CASE e = NoExport
        <4>1. request' = [request EXCEPT ![q] = Idle] /\ UNCHANGED <<export, refused>>
          BY <1>0, <2>1, <3>0, <3>1, RefusalShapes DEF Refusal
        <4> QED BY <1>0, <1>b, <4>1
      <3>2. CASE e \in Exports
        <4>1. export[e].pc = "loading" /\ export[e].link = l
          BY <1>0, <3>2 DEF Asking
        <4>2. row[l].own => row[l].status = "row" /\ row[l].expires > clock
          <5>1. row[l].own => /\ row[l].expires > export[e].since + RenderTimeout
                              /\ clock <= export[e].since + RenderTimeout
            BY <1>0, <3>2, <4>1 DEF Timely
          <5>2. export[e].since \in Nat /\ row[l].expires \in Int /\ clock \in Nat
            BY <1>0, <2>1, <3>2 DEF Row, Export, TypeOK
          <5>3. row[l].own => row[l].status = "row"
            BY <1>0, <2>1 DEF Kept
          <5> HIDE DEF l, e
          <5> QED BY <5>1, <5>2, <5>3
        <4>3. row[l].own => row[l].revoked
          BY <2>2, <4>2 DEF Live, Stored
        <4> QED BY <1>c, <2>1, <3>0, <4>3
      <3>3. e \in Exports \cup {NoExport}
        BY <1>0 DEF Request
      <3> QED BY <3>1, <3>2, <3>3
    <2>3. CASE Live(request[q].link)
      <3> DEFINE mine == [request[q] EXCEPT !.pc = "resolved"]
      <3>1. request' = [request EXCEPT ![q] = mine] /\ UNCHANGED <<export, refused>>
        BY <1>0, <1>5, <2>3 DEF Resolve, TypeOK
      <3>2. mine.pc = "resolved" /\ mine.link = request[q].link
            /\ mine.pdf = request[q].pdf /\ mine.for = request[q].for
        BY <1>0 DEF Request
      <3> HIDE DEF mine
      <3>3. request'[q] = mine /\ \A p \in Requests : p # q => request'[p] = request[p]
        BY <1>0, <3>1 DEF TypeOK
      <3>4. Asking(q)'
        BY <1>0, <2>1, <3>1, <3>2, <3>3 DEF Asking
      <3>5. ASSUME NEW p \in Requests, p # q PROVE Asking(p)'
        BY <1>0, <3>1, <3>3, <3>5, AskingCarried
      <3>6. Alone'
        BY <1>0, <3>2, <3>3 DEF Alone
      <3> QED BY <1>0, <3>1, <3>4, <3>5, <3>6
    <2> QED BY <2>2, <2>3
  <1>6. ASSUME NEW q \in Requests, ShowFails(q) PROVE Goal
    <2>1. /\ request[q].pc = "resolved" /\ request[q].link \in Links /\ Refusal(q)
          /\ row[request[q].link].domain \notin checked \/ ~Stored(request[q].link)
      BY <1>6 DEF ShowFails, Base, Named
    <2>2. ~row[request[q].link].own
      BY <1>0, <2>1 DEF Kept, Stored
    <2> QED BY <1>c, <2>1, <2>2
  <1>7. ASSUME NEW q \in Requests, Show(q) PROVE Goal
    <2>1. request' = [request EXCEPT ![q] = Idle] /\ UNCHANGED refused
          /\ request[q].pc = "resolved"
      BY <1>7 DEF Show
    <2>2. \A p \in Requests : request'[p] = IF p = q THEN Idle ELSE request[p]
      BY <1>0, <2>1 DEF TypeOK
    <2>3. ASSUME NEW p \in Requests, request'[p].for # NoExport
          PROVE  export'[request[p].for] = export[request[p].for]
      <3>1. p # q /\ request[p].for \in Exports /\ request[p].for # request[q].for
            /\ export[request[p].for].pc = "loading"
        BY <1>0, <2>2, <2>3 DEF Alone, Asking, Request
      <3>2. export'[request[p].for] = export[request[p].for]
        <4>1. CASE UNCHANGED export
          BY <4>1
        <4>2. CASE request[q].for # NoExport
                   /\ export' = [export EXCEPT ![request[q].for].pc = "printing"]
          <5>1. request[q].for \in Exports
            BY <1>0, <4>2 DEF Request
          <5>2. \A y \in Exports \ {request[q].for} : export'[y] = export[y]
            BY <1>0, <4>2 DEF TypeOK
          <5> QED BY <3>1, <5>1, <5>2
        <4>3. CASE \E x \in Exports :
                      /\ export[x].pc = "idle"
                      /\ export' = [export EXCEPT ![x] =
                            [pc |-> "queued", link |-> request[q].link, since |-> clock]]
          <5>1. PICK x \in Exports :
                      /\ export[x].pc = "idle"
                      /\ export' = [export EXCEPT ![x] =
                            [pc |-> "queued", link |-> request[q].link, since |-> clock]]
            BY <4>3
          <5>2. x # request[p].for /\ \A y \in Exports \ {x} : export'[y] = export[y]
            BY <1>0, <3>1, <5>1 DEF TypeOK
          <5> QED BY <3>1, <5>2
        <4> QED BY <1>7, <4>1, <4>2, <4>3 DEF Show
      <3> QED BY <3>2
    <2> QED BY <1>0, <1>a, <2>1, <2>2, <2>3
  <1>8. ASSUME NEW e \in Exports, NEW q \in Requests, Load(e, q) PROVE Goal
    <2>1. PICK l \in Links : l = export[e].link
      BY <1>8 DEF Load, Base, Named
    <2>2. /\ export[e].pc = "rendering" /\ request[q].pc = "idle"
          /\ UNCHANGED row
      BY <1>8, <2>1 DEF Load, Free
    <2>3. \A p \in Requests : request[p].for # e
      BY <1>0, <2>2 DEF Asking
    <2>4. CASE ~Permits(l)
      <3>1. ExportEnds(e) /\ UNCHANGED request
            /\ refused' = IF row[l].own THEN refused \cup {l} ELSE refused
        BY <1>8, <2>1, <2>4 DEF Load
      <3>2. ~row[l].own
        <4>1. row[l].own => bucket[l] = Absent
          BY <1>0, <2>1, <2>2 DEF Timely
        <4>2. bucket[l] = Absent => Permits(l)
          BY DEF Permits, Refilled
        <4> QED BY <2>4, <4>1, <4>2
      <3>3. \A x \in Exports : x # e => export'[x] = export[x]
        BY <1>0, <3>1 DEF ExportEnds, TypeOK
      <3>4. \A p \in Requests : request'[p].for # NoExport =>
               export'[request[p].for] = export[request[p].for]
        BY <1>0, <2>3, <3>1, <3>3 DEF Request
      <3> QED BY <1>0, <1>a, <3>1, <3>2, <3>4
    <2>5. CASE Permits(l)
      <3>0. PICK live \in BOOLEAN : live = Live(l)
        BY DEF Live
      <3> DEFINE mine == [Idle EXCEPT !.pc = "asked", !.link = l, !.live = live, !.for = e]
      <3>1. /\ request' = [request EXCEPT ![q] = mine] /\ UNCHANGED refused
            /\ export' = [export EXCEPT ![e] = [export[e] EXCEPT !.pc = "loading"]]
        BY <1>0, <1>8, <2>1, <2>5, <3>0 DEF Load, TypeOK
      <3>2. mine.pc = "asked" /\ mine.link = l /\ mine.for = e /\ ~mine.pdf
        BY DEF Idle
      <3> HIDE DEF mine
      <3>3. request'[q] = mine /\ \A p \in Requests : p # q => request'[p] = request[p]
        BY <1>0, <3>1 DEF TypeOK
      <3>4. /\ export'[e].pc = "loading" /\ export'[e].link = l
            /\ \A x \in Exports : x # e => export'[x] = export[x]
        BY <1>0, <2>1, <3>1, ExportEdits DEF TypeOK
      <3>5. Asking(q)'
        BY <3>2, <3>3, <3>4 DEF Asking
      <3>6. ASSUME NEW p \in Requests, p # q PROVE Asking(p)'
        <4>1. request[p].for # NoExport => export'[request[p].for] = export[request[p].for]
          BY <1>0, <2>3, <3>4 DEF Request
        <4> QED BY <1>0, <3>3, <3>6, <4>1, AskingCarried
      <3>7. Alone'
        BY <1>0, <2>3, <3>2, <3>3 DEF Alone
      <3> QED BY <1>0, <3>1, <3>5, <3>6, <3>7
    <2> QED BY <2>4, <2>5
  <1>9. ASSUME NEW e \in Exports, NEW l \in Links, NEW d \in Domains, StaffExport(e, l, d)
        PROVE  Goal
    <2>1. /\ export[e].pc = "idle" /\ UNCHANGED <<request, refused>>
          /\ export' = [export EXCEPT ![e] = [pc |-> "queued", link |-> l, since |-> clock]]
      BY <1>9 DEF StaffExport, history
    <2>2. \A p \in Requests : request[p].for # NoExport =>
             export'[request[p].for] = export[request[p].for]
      <3>1. \A x \in Exports : x # e => export'[x] = export[x]
        BY <1>0, <2>1 DEF TypeOK
      <3> QED BY <1>0, <2>1, <3>1 DEF Asking, Request
    <2> QED BY <1>0, <1>a, <2>1, <2>2
  <1>10. ASSUME NEW e \in Exports, TakeSlot(e) \/ GiveUpSlot(e) PROVE Goal
    <2>1. /\ export[e].pc = "queued" /\ UNCHANGED <<request, refused>>
          /\ \A x \in Exports : x # e => export'[x] = export[x]
      BY <1>0, <1>10 DEF TakeSlot, GiveUpSlot, ExportEnds, history, TypeOK
    <2>2. \A p \in Requests : request[p].for # NoExport =>
             export'[request[p].for] = export[request[p].for]
      BY <1>0, <2>1 DEF Asking, Request
    <2> QED BY <1>0, <1>a, <2>1, <2>2
  <1>11. ASSUME NEW e \in Exports, RenderEnds(e) PROVE Goal
    <2>1. /\ request' = Detached(request, e) /\ UNCHANGED refused
          /\ \A x \in Exports : x # e => export'[x] = export[x]
      BY <1>0, <1>11 DEF RenderEnds, ExportEnds, history, TypeOK
    <2>2. \A r \in Request : [r EXCEPT !.for = NoExport].pdf = r.pdf
                             /\ [r EXCEPT !.for = NoExport].for = NoExport
      BY DEF Request
    <2>3. \A q \in Requests : /\ request'[q].pc = request[q].pc
                              /\ request'[q].link = request[q].link
                              /\ request'[q].pdf = request[q].pdf
                              /\ \/ request'[q].for = NoExport
                                 \/ request'[q].for = request[q].for /\ request[q].for # e
      BY <1>0, <2>1, <2>2, RequestEdits DEF Detached
    <2>4. ASSUME NEW q \in Requests PROVE Asking(q)'
      <3>1. request'[q].for = request[q].for /\ request[q].for # e /\ request[q].for # NoExport =>
               export'[request[q].for] = export[request[q].for]
        BY <1>0, <2>1 DEF Request
      <3> QED BY <1>0, <2>3, <3>1, AskingCarried
    <2>5. Alone'
      BY <1>0, <2>3 DEF Alone
    <2> QED BY <1>0, <2>1, <2>4, <2>5
  <1>12. CASE Redeploy
    <2>1. \A q \in Requests : request'[q] = Idle
      BY <1>12 DEF Redeploy
    <2>2. UNCHANGED refused
      BY <1>12 DEF Redeploy, history
    <2> QED BY <1>0, <1>a, <2>1, <2>2
  <1>13. CASE \/ \E d \in Domains : Check(d) \/ DeleteClient(d)
              \/ Tick \/ UNCHANGED vars
    <2>1. UNCHANGED <<request, export, refused>>
      BY <1>13 DEF Check, DeleteClient, Tick, vars, web, history
    <2> QED BY <1>0, <1>a, <2>1
  <1>14. CASE \E q \in Requests :
                 \/ \E l \in Links :
                       \/ \E d \in Domains, days \in DaysAsked : BeginMint(q, l, d, days)
                       \/ BeginRevoke(q, l)
                 \/ CommitMint(q) \/ CommitRevoke(q)
                 \/ \E key \in Keys, pdf \in BOOLEAN : BeginView(q, key, pdf)
                 \/ Resolve(q) \/ Show(q) \/ ShowFails(q)
                 \/ \E e \in Exports : Load(e, q)
    BY <1>1, <1>2, <1>3, <1>4, <1>5, <1>6, <1>7, <1>8, <1>14
  <1> QED BY <1>9, <1>10, <1>11, <1>12, <1>13, <1>14 DEF Next

LEMMA OwnedStep ==
  ASSUME Base, Bearings, Owned, [Next]_vars
  PROVE  Owned'
  <1>1. Kept'
    BY KeptStep
  <1>2. Single' /\ \A e \in Exports : Timely(e)'
    BY ExportsStep
  <1>3. Alone' /\ refused' = {} /\ \A q \in Requests : Asking(q)'
    BY RequestsStep
  <1> QED BY <1>1, <1>2, <1>3 DEF Owned

-----------------------------------------------------------------------------
(* Theorems. *)

\* Every record has its shape.
THEOREM TypeCorrect == Spec => []TypeOK
  <1>1. Base => TypeOK
    BY DEF Base
  <1> QED BY <1>1, BaseInitially, BaseStep, PTL DEF Spec

\* No key is let in with more requests than its burst and what time refilled
\* (TokenBucket.allow), however many keys there are and whichever are evicted.
THEOREM ThrottleIsHeld == Spec => []ThrottleHolds
  BY BaseInitially, BaseStep, AccountedInitially, AccountedStep, AccountedHolds, PTL DEF Spec

\* A page goes out only to a request that began while its link was live
\* (_share_render, ShareLink.state), for any number of requests that cross with
\* revocations, deletions, redeploys and time.
THEOREM EndsAreFinal == Spec => []NothingAfterTheEnd
  <1>1. Base /\ Bearings /\ [Next]_vars => Bearings'
    BY BearingsStep
  <1>2. Bearings => NothingAfterTheEnd
    BY DEF Bearings, NothingAfterTheEnd
  <1> QED BY <1>1, <1>2, BaseInitially, BaseStep, BearingsInitially, PTL DEF Spec

\* The links that staff minted for a client pass the ceiling by less than the
\* requests that counted together (create_share, live_share_link_count).
THEOREM LinksAreBounded == Spec => []LiveLinksBounded
  <1>1. Base /\ Bearings /\ [Next]_vars => Bearings'
    BY BearingsStep
  <1>2. Base /\ Bearings /\ Counted /\ [Next]_vars => Counted'
    BY CountedStep
  <1> QED BY <1>1, <1>2, BaseInitially, BaseStep, BearingsInitially, CountedInitially,
             CountedBounds, PTL DEF Spec

\* An export of staff is not refused its own page (client_preview_pdf,
\* render_pdf): its link is committed, outlives both timeouts and has a key
\* that asked for nothing, whatever the timeouts and the life of the link,
\* as long as the life covers the timeouts.
THEOREM OwnPagesOpen == Spec => []OwnPageOpens
  <1>1. Base /\ Bearings /\ [Next]_vars => Bearings'
    BY BearingsStep
  <1>2. Base /\ Bearings /\ Owned /\ [Next]_vars => Owned'
    BY OwnedStep
  <1>3. Owned => OwnPageOpens
    BY DEF Owned, OwnPageOpens
  <1> QED BY <1>1, <1>2, <1>3, BaseInitially, BaseStep, BearingsInitially, OwnedInitially,
             PTL DEF Spec

=============================================================================
