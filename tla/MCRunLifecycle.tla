--------------------------- MODULE MCRunLifecycle ---------------------------
(* The instances of RunLifecycle that TLC checks. *)
EXTENDS RunLifecycle, TLC

\* Runs are interchangeable: no action or property compares two of them.
RunSymmetry == Permutations(Runs)
=============================================================================
