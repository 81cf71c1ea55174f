------------------------------ MODULE MCAccess ------------------------------
(* Small instances of ShareLinks and Accounts.  The two share no variable,  *)
(* so either moves while the other stands at its start: the states explored *)
(* are those of one and those of the other, not their pairs.                *)
EXTENDS ShareLinks, Accounts, TLC

Default == {0}
Alike ==
    UNION {Permutations(S) : S \in {Requests, Links, Browsers, Emails}}

AccessInit == Init /\ enabled /\ AccountsInit
AccessNext ==
    \/ Next /\ AccountsInit /\ UNCHANGED accountsVars
    \/ AccountsNext /\ Init /\ UNCHANGED vars
AccessSpec == AccessInit /\ [][AccessNext]_<<vars, accountsVars>>

=============================================================================
