--------------------------- MODULE MCAttestation ----------------------------
(***************************************************************************)
(* The instances of MCAgentRun, with the evidence an attestation reads.    *)
(***************************************************************************)
EXTENDS MCAgentRun, Attestation

=============================================================================
