---------------------------- MODULE MCProcessIO -----------------------------
(***************************************************************************)
(* A small instance of ProcessIO for TLC: one stream with room for two     *)
(* bytes, one with room for none.                                         *)
(***************************************************************************)
EXTENDS ProcessIO

MCLimits == [stdout |-> 2, stderr |-> 0]

=============================================================================
