----------------------------- MODULE FifoChannel ----------------------------
(***************************************************************************)
(* What AsyncUDPServer promises a PeerManager: the datagrams its socket    *)
(* yields are handed over one at a time, in the order they came in, none   *)
(* twice.                                                                  *)
(***************************************************************************)
EXTENDS Naturals, Sequences

CONSTANT Datagrams

VARIABLES
    entered,   \* what came in, in this order
    taken      \* what was handed over

Init == entered = <<>> /\ taken = <<>>

Enter(d) ==
    /\ entered' = Append(entered, d)
    /\ UNCHANGED taken

Take ==
    /\ Len(taken) < Len(entered)
    /\ taken' = Append(taken, entered[Len(taken) + 1])
    /\ UNCHANGED entered

Next == Take \/ \E d \in Datagrams : Enter(d)

Spec == Init /\ [][Next]_<<entered, taken>>

=============================================================================
