----------------------------- MODULE Transfers -----------------------------
(* What one direction of the bridge promises to the other side: what was sent
   may arrive, as it was sent, and no more than once. *)
CONSTANT Transfer
VARIABLES sent, received

vars == <<sent, received>>

Init == sent = {} /\ received = {}

Send ==
    /\ sent \subseteq sent' /\ sent' \subseteq Transfer
    /\ UNCHANGED received

Receive(t) ==
    /\ t \in sent \ received
    /\ received' = received \cup {t}
    /\ UNCHANGED sent

Next == Send \/ \E t \in Transfer : Receive(t)

Spec == Init /\ [][Next]_vars
=============================================================================
