----------------------------- MODULE MCTaskPool -----------------------------
(***************************************************************************)
(* Instances of TaskPool for TLC.                                          *)
(***************************************************************************)
EXTENDS TaskPool, TLC

\* Tasks differ in nothing but their place in the backlog, handles in nothing.
MCSymmetry == Permutations(Tasks) \cup Permutations(Handles)

=============================================================================
