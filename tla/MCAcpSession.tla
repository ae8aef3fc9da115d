---------------------------- MODULE MCAcpSession ----------------------------
(***************************************************************************)
(* AcpSession for TLC; its only constant is the bound on requests.         *)
(***************************************************************************)
EXTENDS AcpSession

=============================================================================
