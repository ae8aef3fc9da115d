-------------------------- MODULE SandboxContract ---------------------------
(***************************************************************************)
(* The abstract specification of one sandbox execution: nothing but the    *)
(* steps SandboxPromise allows.  SandboxRun implements it; GovernedHost    *)
(* relies on it.                                                           *)
(***************************************************************************)
EXTENDS SandboxPromise

VARIABLE execution

Init == execution = Unlaunched

Steps == execution' \in SandboxSteps(execution)

Claims ==
  /\ execution.claim = Null /\ MayClaim(execution, execution'.claim)
  /\ execution' = [execution EXCEPT !.claim = execution'.claim]

Next == Steps \/ Claims

Spec == Init /\ [][Next]_execution

=============================================================================
