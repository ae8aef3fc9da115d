--------------------------- MODULE MCGovernedHost ---------------------------
(***************************************************************************)
(* A small instance of GovernedHost for TLC.                               *)
(***************************************************************************)
EXTENDS GovernedHost, TLC

MCSymmetry == Permutations(Arguments)

Claim(status, cleanup, exit, published) ==
  [status |-> status, cleanup |-> cleanup, exit |-> exit, published |-> published]

(* Success, each way of missing it by one field, and no launch.            *)
MCObservations ==
  {Claim("exited", "removed", 0, "yes"), Claim("exited", "unconfirmed", 0, "yes"),
   Claim("exited", "removed", 1, "yes"), Claim("exited", "removed", 0, "failed"),
   Claim("timed_out", "unconfirmed", Null, "yes"), Claim("setup_failed", "not_created", Null, "no")}

=============================================================================
