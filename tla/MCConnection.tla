---------------------------- MODULE MCConnection ----------------------------
(***************************************************************************)
(* Instances of Connection for TLC.                                        *)
(***************************************************************************)
EXTENDS Connection

\* An empty message, a short one, one that outgrows a small socket buffer, and
\* one whose string is not UTF-8.
MCSize == [m \in {"empty", "short", "long", "gbk"} |->
             CASE m = "empty" -> 0 [] m = "short" -> 1
               [] m = "long" -> 3 [] m = "gbk" -> 2]
MCMessages == DOMAIN MCSize
MCUtf8 == MCMessages \ {"gbk"}
MCReturns == {1, 2}
MCDocumented == {1, 2, 11}

=============================================================================
