------------------------------ MODULE MCRefine ------------------------------
(* Small instances of Refine: a page that stays, an endpoint that a check  *)
(* finds or not, and a label that can mention it.                          *)
EXTENDS Refine, TLC

CONSTANTS page, endpoint

Site == {page, endpoint}
WithOrWithoutEndpoint == {Site, {page}}
Mentions == {endpoint}
TurnsAlike == Permutations(Turns)

=============================================================================
