----------------------------- MODULE MCEthGossip ----------------------------
(***************************************************************************)
(* EthGossip for TLC: EthPush and EthPull, both in the same overlay.       *)
(***************************************************************************)
EXTENDS EthGossip

Last == {num_nodes_total - 1}

=============================================================================
