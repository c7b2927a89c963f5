---------------------------- MODULE MCNodeProcess ---------------------------
(***************************************************************************)
(* NodeProcess for TLC.                                                    *)
(***************************************************************************)
EXTENDS NodeProcess

=============================================================================
