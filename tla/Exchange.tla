------------------------------ MODULE Exchange ------------------------------
(***************************************************************************)
(* What one Bosncc connection promises to the business functions at its    *)
(* two ends: the client sends first, the ends take turns, and a message    *)
(* that is handed over is the last one the other end sent: none is         *)
(* skipped, repeated or altered.  A message that was sent may be lost, but *)
(* then nothing follows it.                                                *)
(***************************************************************************)
EXTENDS Integers

CONSTANTS Messages, EmptyMessage

VARIABLES
    sent, \* sent[e]: how many messages e has sent, and the last of them
    got   \* got[e]: how many messages e was handed, and the last of them

vars == <<sent, got>>

Client == "client"
Server == "server"
Ends == {Client, Server}
Peer(e) == IF e = Client THEN Server ELSE Client

Init ==
    /\ sent = [e \in Ends |-> [n |-> 0, msg |-> EmptyMessage]]
    /\ got = [e \in Ends |-> [n |-> 0, msg |-> EmptyMessage]]

\* It is e's turn: everything it was handed has been answered but the last.
Turn(e) == sent[e].n = IF e = Client THEN got[e].n ELSE got[e].n - 1

Send(e) ==
    /\ Turn(e)
    /\ \E m \in Messages : sent' = [sent EXCEPT ![e] = [n |-> @.n + 1, msg |-> m]]
    /\ UNCHANGED got

Deliver(e) ==
    /\ got[e].n + 1 = sent[Peer(e)].n
    /\ got' = [got EXCEPT ![e] = sent[Peer(e)]]
    /\ UNCHANGED sent

Next == \E e \in Ends : Send(e) \/ Deliver(e)

Spec == Init /\ [][Next]_vars

=============================================================================
