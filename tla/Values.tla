------------------------------- MODULE Values -------------------------------
(***************************************************************************)
(* The values every contract talks about.  A digest is injective, so the   *)
(* digest of a value is the value itself; Null is an absent value and      *)
(* Malformed a present one of the wrong shape.  A usage is a function from *)
(* the metered resources to amounts (ResourceUsage and EffectUsage have the*)
(* same four fields, of which a model may keep any that include these two).*)
(***************************************************************************)
EXTENDS Naturals

CONSTANTS Null,       \* an absent (JSON null, Option::None) value
          Malformed,  \* a value of the wrong shape
          Meters,     \* cost_micros, elapsed_ms, model_tokens, tool_calls
          MaxSafe     \* MAX_SAFE_INTEGER, 2^53 - 1 in the code

ASSUME SentinelAssumption == Null # Malformed
ASSUME MeterAssumption == {"cost", "calls"} \subseteq Meters
ASSUME MaxSafeAssumption == MaxSafe \in Nat \ {0}

Usage == [Meters -> Nat]
SafeUsage(u) == \A m \in Meters : u[m] <= MaxSafe
ZeroUsage    == [m \in Meters |-> 0]
WithinBudget(usage, budget) == \A m \in Meters : usage[m] <= budget[m]

=============================================================================
