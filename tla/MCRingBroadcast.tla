-------------------------- MODULE MCRingBroadcast ---------------------------
(***************************************************************************)
(* RingBroadcast for TLC, with the code's k = 2.                           *)
(***************************************************************************)
EXTENDS RingBroadcast

k == 2   \* the only arity any caller passes to broadcast_within_ring

MCStrides == {k ^ i : i \in 0 .. 4}

=============================================================================
