------------------------------- MODULE MCFlows -------------------------------
(***************************************************************************)
(* A small instance of the flows for TLC: its constants are in the cfg.    *)
(***************************************************************************)
EXTENDS Flows
=============================================================================
