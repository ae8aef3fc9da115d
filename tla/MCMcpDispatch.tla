--------------------------- MODULE MCMcpDispatch ---------------------------
(***************************************************************************)
(* A small instance of McpDispatch for TLC.                                *)
(***************************************************************************)
EXTENDS McpDispatch

CONSTANTS s0, s1

MCMeters   == {"cost", "calls"}
MCSubjects == {s0, s1}

Effect(id, key, class) ==
  [id |-> id, key |-> key, seq |-> 1, class |-> class, family |-> "external_service",
   subject |-> s0, schema |-> "schema", intact |-> TRUE]

(* The third shares its key with the first; the last is not the one that   *)
(* was prepared.                                                           *)
MCEffects == {Effect("a", "k", "mutation"), Effect("b", "m", "observation"),
              Effect("c", "k", "mutation"),
              [Effect("d", "n", "mutation") EXCEPT !.intact = FALSE]}

=============================================================================
