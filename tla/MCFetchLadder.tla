--------------------------- MODULE MCFetchLadder ---------------------------
(* Small instances of FetchLadder. *)
EXTENDS FetchLadder, TLC

AnyOrder == Permutations(Urls)

=============================================================================
