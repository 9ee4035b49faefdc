------------------------------ MODULE MCFacade ------------------------------
(***************************************************************************)
(* An instance of Facade for TLC: threads that race in GetInstance, one of *)
(* which calls Init and Start again and again.                             *)
(***************************************************************************)
EXTENDS Facade, TLC

CONSTANTS m, a, b, f

MCThreads == {m, a, b}

\* Ports differ in nothing, nor do the threads other than Main.
Symmetric == {p @@ t : p \in Permutations(Ports), t \in Permutations({a, b})}

=============================================================================
