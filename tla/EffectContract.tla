--------------------------- MODULE EffectContract ---------------------------
(***************************************************************************)
(* The Protected Effect contract (src/contracts/protected_effect): when an *)
(* effect request is well formed, and which result bodies may be sealed.   *)
(*                                                                         *)
(* A digest is injective, so the digest of an effect request is the request*)
(* itself.  `intact' stands for every field check of the request that only *)
(* compares it with its parent run (schema, run id, capability, policies,  *)
(* budget digest, scopes, metadata, approvals).  A result body keeps the   *)
(* fields its validation relates to each other; evidence is the set of     *)
(* evidence types it carries, and `evidenceIntact' says that every         *)
(* reference is a digest with a usable locator and none is repeated.       *)
(***************************************************************************)
EXTENDS Values

Attempted    == {"executed", "failed", "interrupted", "unknown_outcome"}
NotExecuted  == {"awaiting_authority", "denied"}
Statuses     == Attempted \cup NotExecuted

EvidenceTypes ==
  {"exit", "output", "artifact", "mutation", "usage", "executor", "sandbox",
   "failure", "interruption", "subject_observation", "capability_schema",
   "unknown_outcome"}

ExecutionDerived == EvidenceTypes \ {"subject_observation", "capability_schema"}

DriftReasons == {"protected_effect.stale_subject",
                 "protected_effect.capability_schema_drift",
                 "protected_effect.subject_and_capability_schema_drift"}

ValidEffectRequest(e) ==
  /\ e.intact
  /\ e.seq \in 1..MaxSafe

----------------------------------------------------------------------------
(* validate_decision: the decisive decision is bound to this exact request *)
(* and observed subject, and only the permission gate admits an attempt.   *)
ValidDecision(e, b) ==
  /\ b.decision.digest = e
  /\ b.decision.subject = b.pre
  /\ b.decision.effectsIntact
  /\ b.status \in Attempted => b.decision.gate = "permission"

(* validate_operation_specific_result *)
ValidForOperation(e, b) ==
  e.family # "process" => b.exit = Null /\ "exit" \notin b.evidence

(* validate_drift: a stale identity is only ever a denial with its reason. *)
ValidDrift(e, b) ==
  LET subjectDrift == b.pre # e.subject
      schemaDrift  == b.schema # e.schema
      reason == IF subjectDrift /\ schemaDrift
                  THEN "protected_effect.subject_and_capability_schema_drift"
                ELSE IF subjectDrift THEN "protected_effect.stale_subject"
                ELSE "protected_effect.capability_schema_drift"
  IN IF subjectDrift \/ schemaDrift
       THEN /\ b.status = "denied"
            /\ b.reason = reason
            /\ subjectDrift => "subject_observation" \in b.evidence
            /\ schemaDrift => "capability_schema" \in b.evidence
       ELSE b.reason \notin DriftReasons

ExpectedOutcome(status) ==
  CASE status \in Attempted             -> "allow"
    [] status = "awaiting_authority"    -> "ask"
    [] status = "denied"                -> "block"

HasReason(b) == b.reason \notin {Null, "blank"}

(* validate_attempt_common *)
AttemptIdentified(b) ==
  /\ b.executor \notin {Null, Malformed}
  /\ b.sandbox = "requested"
  /\ {"executor", "sandbox", "usage"} \subseteq b.evidence

(* validate_known_post_effect *)
KnownPostEffect(e, b) ==
  /\ b.post # Null
  /\ "subject_observation" \in b.evidence
  /\ e.class = "observation" => b.post = e.subject
  /\ e.class = "mutation" => {"mutation", "artifact"} \subseteq b.evidence
  /\ e.family = "process" =>
       /\ b.status \in {"executed", "failed"} => b.exit # Null
       /\ b.exit # Null => b.exit # Malformed /\ "exit" \in b.evidence

ValidExecuted(e, b) ==
  /\ b.reason = Null
  /\ AttemptIdentified(b)
  /\ KnownPostEffect(e, b)
  /\ b.evidence \cap {"failure", "interruption", "unknown_outcome"} = {}

(* validate_known_attempt, for a failed or an interrupted attempt          *)
ValidKnownAttempt(e, b, required, rejected) ==
  /\ HasReason(b)
  /\ AttemptIdentified(b)
  /\ KnownPostEffect(e, b)
  /\ required \in b.evidence
  /\ b.evidence \cap rejected = {}

ValidUnknown(e, b) ==
  /\ HasReason(b)
  /\ AttemptIdentified(b)
  /\ "unknown_outcome" \in b.evidence
  /\ b.evidence \cap {"failure", "interruption"} = {}
  /\ b.exit = Null
  /\ b.post # Null => KnownPostEffect(e, b)

ValidNonExecution(b) ==
  /\ HasReason(b)
  /\ b.post = Null
  /\ b.exit = Null
  /\ b.usage = ZeroUsage
  /\ b.executor = Null
  /\ b.sandbox = Null
  /\ b.evidence \cap ExecutionDerived = {}

(* validate_status_matrix *)
ValidStatus(e, b) ==
  /\ b.decision.outcome = ExpectedOutcome(b.status)
  /\ CASE b.status = "executed" -> ValidExecuted(e, b)
       [] b.status \in NotExecuted -> ValidNonExecution(b)
       [] b.status = "failed" ->
            ValidKnownAttempt(e, b, "failure", {"interruption", "unknown_outcome"})
       [] b.status = "interrupted" ->
            ValidKnownAttempt(e, b, "interruption", {"failure", "unknown_outcome"})
       [] b.status = "unknown_outcome" -> ValidUnknown(e, b)

(* validate_protected_effect_result_body: what seal accepts.               *)
ValidResult(e, b) ==
  /\ ValidEffectRequest(e)
  /\ b.effect = e
  /\ b.post # Malformed
  /\ ValidDecision(e, b)
  /\ SafeUsage(b.usage)
  /\ b.evidenceIntact
  /\ ValidForOperation(e, b)
  /\ ValidDrift(e, b)
  /\ ValidStatus(e, b)

=============================================================================
