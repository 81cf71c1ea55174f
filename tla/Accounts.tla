------------------------------ MODULE Accounts ------------------------------
(***************************************************************************)
(* Who may use an instance: the first person to arrive claims it, with a   *)
(* password or through Google, and becomes its admin; every later account  *)
(* is made by an admin or by a Google sign-in from an allowed domain       *)
(* (app/accounts.py, app/auth.py, the sign-in routes of app/main.py).      *)
(*                                                                         *)
(* Both ways of claiming read whether there is an account and insert one   *)
(* under one advisory lock, which is held to the commit.  A cookie says    *)
(* who somebody is; what they may do is read from the row on each request. *)
(* No route changes or removes an account: an operator does, in the        *)
(* database.                                                               *)
(***************************************************************************)
EXTENDS Naturals, FiniteSets

CONSTANTS
    Emails,
    Allowed,     \* the addresses of allowed_domains
    Browsers,    \* each has one cookie, and one request at a time
    NoAccount, NoBrowser, NoEmail,
    Sso          \* sso_enabled

ASSUME AccountsAssumption ==
    Allowed \subseteq Emails /\ NoBrowser \notin Browsers /\ NoEmail \notin Emails /\ Sso \in BOOLEAN

VARIABLES
    account,   \* users
    lock,      \* the holder of SIGNUP_LOCK_KEY
    cookie,    \* the address in each browser's session
    visit,     \* a request in flight
    claimed    \* history: who was made an admin by the program, in order of arrival

accountsVars == <<account, lock, cookie, visit, claimed>>

-----------------------------------------------------------------------------
Account == [admin : BOOLEAN, active : BOOLEAN, password : BOOLEAN,
            madeBy : Emails \cup {"self", "google-sso"}]

ASSUME NoAccountAssumption == NoAccount \notin Account

Exists(e) == account[e] # NoAccount
Bootstrapped == \E e \in Emails : Exists(e)

Away == [pc |-> "idle", email |-> NoEmail, first |-> FALSE, by |-> NoEmail]
Visit == [pc : {"idle", "claiming", "claims", "googling", "googles", "creating"},
          email : Emails \cup {NoEmail},
          first : BOOLEAN,                \* Google's: no account was there under the lock
          by : Emails \cup {NoEmail}]     \* the admin whose request it is

AccountsInit ==
    /\ account = [e \in Emails |-> NoAccount]
    /\ lock = NoBrowser
    /\ cookie = [b \in Browsers |-> NoEmail]
    /\ visit = [b \in Browsers |-> Away]
    /\ claimed = {}

Unoccupied(b) == visit[b].pc = "idle"
Go(b, pc, e) == visit' = [visit EXCEPT ![b] = [Away EXCEPT !.pc = pc, !.email = e]]
Leave(b) == visit' = [visit EXCEPT ![b] = Away]

Insert(e, admin, password, madeBy) ==
    /\ account' = [account EXCEPT ![e] =
                      [admin |-> admin, active |-> TRUE, password |-> password, madeBy |-> madeBy]]
    /\ claimed' = IF admin THEN claimed \cup {e} ELSE claimed

-----------------------------------------------------------------------------
(* Claiming the instance. *)

\* POST /signup and the Google callback begin by waiting for the lock.  The
\* callback has checked the domain in the signed token.
Signup(b, e) ==
    /\ Unoccupied(b) /\ Go(b, "claiming", e)
    /\ UNCHANGED <<account, lock, cookie, claimed>>

GoogleCallback(b, e) ==
    /\ Sso /\ e \in Allowed
    /\ Unoccupied(b) /\ Go(b, "googling", e)
    /\ UNCHANGED <<account, lock, cookie, claimed>>

\* Mutant: nobody waits for the lock.
LockForClaim_Unlocked(b) ==
    /\ visit[b].pc = "claiming"
    /\ IF Bootstrapped
       THEN Leave(b) /\ UNCHANGED lock  \* SignupClosed
       ELSE /\ lock' = b
            /\ visit' = [visit EXCEPT ![b].pc = "claims"]
    /\ UNCHANGED <<account, cookie, claimed>>

\* pg_advisory_xact_lock, and the reads that follow it.
LockForClaim(b) ==
    /\ visit[b].pc = "claiming" /\ lock = NoBrowser
    /\ IF Bootstrapped
       THEN Leave(b) /\ UNCHANGED lock  \* SignupClosed
       ELSE /\ lock' = b
            /\ visit' = [visit EXCEPT ![b].pc = "claims"]
    /\ UNCHANGED <<account, cookie, claimed>>

LockForGoogle(b) ==
    LET e == visit[b].email
    IN  /\ visit[b].pc = "googling" /\ lock = NoBrowser
        /\ IF Exists(e)
           THEN /\ Leave(b) /\ UNCHANGED lock
                /\ cookie' = IF account[e].active THEN [cookie EXCEPT ![b] = e] ELSE cookie
           ELSE /\ lock' = b
                /\ visit' = [visit EXCEPT ![b].pc = "googles", ![b].first = ~Bootstrapped]
                /\ UNCHANGED cookie
        /\ UNCHANGED <<account, claimed>>

\* The insert and the commit, which gives the lock back.  A password too short
\* raises before the insert; the unique constraint on the address may raise.
ClaimEnds(b) ==
    LET e == visit[b].email
    IN  /\ visit[b].pc = "claims"
        /\ \/ /\ ~Exists(e)
              /\ Insert(e, TRUE, TRUE, "self")
              /\ cookie' = [cookie EXCEPT ![b] = e]
           \/ UNCHANGED <<account, cookie, claimed>>
        /\ lock' = NoBrowser /\ Leave(b)

GoogleEnds(b) ==
    LET e == visit[b].email
        first == visit[b].first
    IN  /\ visit[b].pc = "googles"
        /\ IF Exists(e) THEN UNCHANGED <<account, cookie, claimed>>
           ELSE /\ Insert(e, first, FALSE, IF first THEN "self" ELSE "google-sso")
                /\ cookie' = [cookie EXCEPT ![b] = e]
        /\ lock' = NoBrowser /\ Leave(b)

\* The connection is lost, the process stops: the transaction takes the lock with it.
RequestDies(b) ==
    /\ ~Unoccupied(b)
    /\ lock' = IF lock = b THEN NoBrowser ELSE lock
    /\ Leave(b)
    /\ UNCHANGED <<account, cookie, claimed>>

-----------------------------------------------------------------------------
(* Signing in and out, and the operator path. *)

\* authenticate: a Google account has no password hash and cannot be used here.
Login(b, e) ==
    /\ Unoccupied(b) /\ Exists(e) /\ account[e].active /\ account[e].password
    /\ cookie' = [cookie EXCEPT ![b] = e]
    /\ UNCHANGED <<account, lock, visit, claimed>>

Logout(b) ==
    /\ cookie[b] # NoEmail
    /\ cookie' = [cookie EXCEPT ![b] = NoEmail]
    /\ UNCHANGED <<account, lock, visit, claimed>>

\* require_user and require_admin read the row, whatever the cookie remembers.
MayAdminister(b) ==
    /\ cookie[b] # NoEmail
    /\ Exists(cookie[b]) /\ account[cookie[b]].active /\ account[cookie[b]].admin

BeginCreate(b, e) ==
    /\ Unoccupied(b) /\ MayAdminister(b)
    /\ visit' = [visit EXCEPT ![b] =
                    [Away EXCEPT !.pc = "creating", !.email = e, !.by = cookie[b]]]
    /\ UNCHANGED <<account, lock, cookie, claimed>>

\* create_teammate: refused for an address that has an account; the admin row it
\* asks is the one its own session read.
CreateEnds(b) ==
    LET e == visit[b].email
    IN  /\ visit[b].pc = "creating"
        /\ IF Exists(e) THEN UNCHANGED <<account, claimed>>
           ELSE Insert(e, FALSE, TRUE, visit[b].by)
        /\ Leave(b)
        /\ UNCHANGED <<lock, cookie>>

-----------------------------------------------------------------------------
(* The operator, in the database.  The last account is not removed: that
   would open the instance again. *)

SetFlags(e) ==
    /\ Exists(e)
    /\ \E admin, active \in BOOLEAN :
          account' = [account EXCEPT ![e].admin = admin, ![e].active = active]
    /\ UNCHANGED <<lock, cookie, visit, claimed>>

Remove(e) ==
    /\ Exists(e) /\ \E other \in Emails \ {e} : Exists(other)
    /\ account' = [account EXCEPT ![e] = NoAccount]
    /\ UNCHANGED <<lock, cookie, visit, claimed>>

AccountsNext ==
    \/ \E b \in Browsers :
          \/ \E e \in Emails : Signup(b, e) \/ GoogleCallback(b, e) \/ Login(b, e) \/ BeginCreate(b, e)
          \/ LockForClaim(b) \/ LockForGoogle(b) \/ ClaimEnds(b) \/ GoogleEnds(b)
          \/ CreateEnds(b) \/ RequestDies(b) \/ Logout(b)
    \/ \E e \in Emails : SetFlags(e) \/ Remove(e)

AccountsSpec == AccountsInit /\ [][AccountsNext]_accountsVars

-----------------------------------------------------------------------------
(* Properties. *)

\* Every record has its shape, and the lock is held by who works under it.
AccountsTypeOK ==
    /\ account \in [Emails -> Account \cup {NoAccount}]
    /\ lock \in Browsers \cup {NoBrowser}
    /\ cookie \in [Browsers -> Emails \cup {NoEmail}]
    /\ visit \in [Browsers -> Visit]
    /\ claimed \in SUBSET Emails

\* The instance is claimed once, by whoever comes first and whichever way: the
\* program makes at most one admin, and no account is there before that one.
ClaimedOnce ==
    /\ \A e, f \in claimed : e = f
    /\ Bootstrapped => claimed # {}

=============================================================================
