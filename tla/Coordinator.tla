---------------------------- MODULE Coordinator ----------------------------
(***************************************************************************)
(* The six gates of RunCoordinator (src/lib.rs).  A gate is a pure function*)
(* from a normalized input to a decision.  Inputs are records; a digest is *)
(* any value other than Null (absent) and Malformed (present but not a     *)
(* sha256 digest).  A decision keeps its outcome and its code; the list of *)
(* operator hints ("effects") is left out: no gate and no caller reads it. *)
(***************************************************************************)
EXTENDS Values

Outcomes == {"allow", "ask", "block"}

Allow(code) == [outcome |-> "allow", code |-> code]
Ask(code)   == [outcome |-> "ask",   code |-> code]
Block(code) == [outcome |-> "block", code |-> code]

IsDigest(d) == d \notin {Null, Malformed}

HasExactApproval(approval, digest) ==
  /\ approval # Null
  /\ approval.status = "approved"
  /\ approval.subject = digest

----------------------------------------------------------------------------

EvaluatePlan(in) ==
  IF ~IsDigest(in.subject) THEN Block("plan.invalid_input")
  ELSE IF in.approval = Null \/ in.approval.status # "approved"
    THEN Block("plan.approval_required")
  ELSE IF in.approval.subject # in.subject THEN Block("plan.stale_approval")
  ELSE Allow("plan.approved_exact")

(* risky: some tag is in DANGEROUS_RISK_TAGS; wrapped: the wrapper chain is *)
(* not empty.                                                              *)
EvaluatePermission(in) ==
  LET exact == HasExactApproval(in.approval, in.action)
      Exception(code) == IF exact THEN Allow("permission.approved_exception")
                                  ELSE Ask(code)
  IN IF ~IsDigest(in.action) \/ in.policy = Malformed
       THEN Block("permission.invalid_input")
     ELSE IF in.policy = "deny" THEN Block("permission.denied")
     ELSE IF in.risky THEN Exception("permission.dangerous_requires_approval")
     ELSE IF in.wrapped THEN Exception("permission.wrapper_requires_approval")
     ELSE IF in.policy = "ask" THEN Exception("permission.policy_requires_approval")
     ELSE IF in.policy = "allow" THEN Allow("permission.policy_allowed")
     ELSE Ask("permission.unknown_action")

EvaluateToolTrust(in) ==
  IF ~in.named \/ ~IsDigest(in.capability) THEN Block("tool_trust.invalid_input")
  ELSE IF in.approval = Null \/ in.approval.status # "approved"
    THEN Block("tool_trust.approval_required")
  ELSE IF in.approval.subject # in.capability THEN Block("tool_trust.stale_approval")
  ELSE Allow("tool_trust.approved_exact")

(* An actor that is Null stands for a missing or blank identifier.         *)
EvaluateVerification(in) ==
  IF ~IsDigest(in.subject) \/ in.implementer = Null
    THEN Block("verification.invalid_input")
  ELSE IF in.report = Null THEN Block("verification.report_required")
  ELSE IF in.report.verifier = Null THEN Block("verification.invalid_input")
  ELSE IF in.report.verifier = in.implementer
    THEN Block("verification.independence_required")
  ELSE IF in.report.subject # in.subject THEN Block("verification.stale_subject")
  ELSE IF ~in.report.evidenced THEN Block("verification.evidence_required")
  ELSE IF in.report.verdict # "pass" THEN Block("verification.pass_required")
  ELSE Allow("verification.passed")

(* valid_budget succeeds: every number is a JCS-safe integer, the          *)
(* thresholds are ordered and the projection does not leave the safe range.*)
ValidBudget(in) ==
  /\ \A n \in {in.current, in.next, in.warn, in.approve, in.hardStop} : n <= MaxSafe
  /\ in.warn <= in.approve
  /\ in.approve <= in.hardStop
  /\ in.current + in.next <= MaxSafe

EvaluateRuntime(in) ==
  LET projected == in.current + in.next
      overage   == /\ HasExactApproval(in.approval, in.action)
                   /\ in.approval.max # Null
                   /\ in.approval.max <= MaxSafe
                   /\ in.approval.max >= projected
  IN IF ~IsDigest(in.action) \/ in.usageStatus \notin {"known", "missing", "ambiguous"}
       THEN Block("runtime.invalid_input")
     ELSE IF ~ValidBudget(in) THEN Block("runtime.invalid_budget")
     ELSE IF in.usageStatus # "known" THEN Block("runtime.usage_unknown")
     ELSE IF projected >= in.hardStop THEN Block("runtime.hard_stop")
     ELSE IF projected >= in.approve
       THEN IF overage THEN Allow("runtime.overage_approved")
                       ELSE Ask("runtime.approval_required")
     ELSE IF projected >= in.warn THEN Allow("runtime.warning")
     ELSE Allow("runtime.within_budget")

(* results: [plan, permission, toolTrust, runtime] -> outcome or Malformed *)
WorkflowMutation(results) ==
  LET given == {results[g] : g \in {"plan", "permission", "toolTrust", "runtime"}}
  IN IF ~(given \subseteq Outcomes) THEN Block("workflow.invalid_input")
     ELSE IF "block" \in given THEN Block("workflow.mutation_blocked")
     ELSE IF "ask" \in given THEN Ask("workflow.mutation_requires_approval")
     ELSE Allow("workflow.mutation_authorized")

WorkflowCompletion(mutationAuthorized, verification) ==
  IF mutationAuthorized \notin BOOLEAN THEN Block("workflow.invalid_input")
  ELSE IF ~mutationAuthorized THEN Block("workflow.mutation_not_authorized")
  ELSE IF verification \notin Outcomes THEN Block("workflow.invalid_input")
  ELSE IF verification # "allow" THEN Block("workflow.verification_failed")
  ELSE Allow("workflow.completion_authorized")

(* The results of the completion boundary are never an absent value.       *)
ASSUME ResultsAssumption == Null \notin [verification : Outcomes]

EvaluateWorkflow(in) ==
  IF in.results = Null \/ in.boundary \notin {"mutation", "completion"}
    THEN Block("workflow.invalid_input")
  ELSE IF in.boundary = "mutation" THEN WorkflowMutation(in.results)
  ELSE WorkflowCompletion(in.mutationAuthorized, in.results.verification)

=============================================================================
