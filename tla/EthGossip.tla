----------------------------- MODULE EthGossip ------------------------------
(***************************************************************************)
(* PeerManagerETH with its mode: one class gossips by pushing or by        *)
(* invitation, as set_mode says before it is started; receive, on_receive  *)
(* and broadcast ask for the mode.  All nodes are set to the same.         *)
(***************************************************************************)
EXTENDS EthPush, EthPull

VARIABLE mode   \* PUSH or PULL, at every node

pushState == <<begun, seen, sends, skipped, net, lost, expired>>
pullState == <<data_map, invited, rounds, requests, pull_net, pull_lost>>
gossipVars == <<mode, table, pushState, pullState>>

-----------------------------------------------------------------------------
\* The constructor sets PUSH, start sets the mode once more.
GossipInit == Init /\ PullInit /\ mode \in {"PUSH", "PULL"}

GossipNext ==
    \/ mode = "PUSH" /\ Next /\ UNCHANGED <<mode, pullState>>
    \/ mode = "PULL" /\ PullNext /\ UNCHANGED <<mode, pushState>>

FairGossip ==
    GossipInit /\ [][GossipNext]_gossipVars /\ Fairness /\ PullFairness

=============================================================================
