---------------------------- MODULE MCIntegration ----------------------------
(***************************************************************************)
(* The integrations with the guest program of MCHypervisorLoop.            *)
(***************************************************************************)
EXTENDS Integration, MCHypervisorLoop
=============================================================================
