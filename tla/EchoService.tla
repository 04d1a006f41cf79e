----------------------------- MODULE EchoService -----------------------------
(***************************************************************************)
(* What an echo server promises: what comes back to a client is what that  *)
(* client sent, in that order, with nothing left out and nothing twice.    *)
(* How far the answer has got is left open.                                *)
(***************************************************************************)
EXTENDS Naturals, Sequences

CONSTANTS Clients, Pieces

VARIABLES sent, got

Init == sent = [c \in Clients |-> <<>>] /\ got = sent

Send(c) ==
    /\ \E p \in Pieces : sent' = [sent EXCEPT ![c] = Append(@, p)]
    /\ UNCHANGED got

Echo(c) ==
    /\ Len(got[c]) < Len(sent[c])
    /\ got' = [got EXCEPT ![c] = Append(@, sent[c][Len(@) + 1])]
    /\ UNCHANGED sent

Next == \E c \in Clients : Send(c) \/ Echo(c)

Spec == Init /\ [][Next]_<<sent, got>>
=============================================================================
