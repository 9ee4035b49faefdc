------------------------------ MODULE Service -------------------------------
(***************************************************************************)
(* What a process promises to its connections: each is served at most      *)
(* once, no more of them at a time than there are threads, in any order.   *)
(* One may give up before it is served, and then never is.                 *)
(***************************************************************************)
EXTENDS Naturals, FiniteSets

CONSTANTS Tasks, MaxThreads

VARIABLES
    waiting, \* who has come and is not served yet
    serving, \* who is being served
    gone     \* who has been served, or has given up

vars == <<waiting, serving, gone>>

Init == waiting = {} /\ serving = {} /\ gone = {}

Come(t) ==
    /\ t \notin waiting \cup serving \cup gone
    /\ waiting' = waiting \cup {t}
    /\ UNCHANGED <<serving, gone>>

GiveUp(t) ==
    /\ t \in waiting
    /\ waiting' = waiting \ {t} /\ gone' = gone \cup {t}
    /\ UNCHANGED serving

Serve(t) ==
    /\ t \in waiting /\ Cardinality(serving) < MaxThreads
    /\ waiting' = waiting \ {t} /\ serving' = serving \cup {t}
    /\ UNCHANGED gone

Finish(t) ==
    /\ t \in serving
    /\ serving' = serving \ {t} /\ gone' = gone \cup {t}
    /\ UNCHANGED waiting

Next == \E t \in Tasks : Come(t) \/ GiveUp(t) \/ Serve(t) \/ Finish(t)

Spec == Init /\ [][Next]_vars

=============================================================================
