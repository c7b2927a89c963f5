------------------------------ MODULE RingCast ------------------------------
(***************************************************************************)
(* What the broadcast inside one ring promises, without saying how: one    *)
(* member of the ring begins the cast, and the payload is handed to the    *)
(* other members one at a time, to each of them at most once.              *)
(***************************************************************************)
EXTENDS Naturals

CONSTANT Members   \* the members of the ring

VARIABLE times     \* how often each member has come by the payload

Init == times = [p \in Members |-> 0]

\* A member begins the cast; it holds the payload already.
Begin(p) ==
    /\ \A q \in Members : times[q] = 0
    /\ times' = [times EXCEPT ![p] = 1]

\* The payload reaches a member for the first, and only, time.
HandOver(p) ==
    /\ \E q \in Members : times[q] # 0
    /\ times[p] = 0
    /\ times' = [times EXCEPT ![p] = 1]

Next == \E p \in Members : Begin(p) \/ HandOver(p)

Spec == Init /\ [][Next]_times

=============================================================================
