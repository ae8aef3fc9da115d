--------------------------- MODULE EffectHandling ---------------------------
(***************************************************************************)
(* What AgentRunEngine::handle_protected_effect computes on its way from a *)
(* proposal to a sealed result (src/runtime.rs): the gate inputs it builds *)
(* from the run configuration c, the ledger l and the effect request e, the*)
(* decisions it records, and the result bodies it seals.                   *)
(*                                                                         *)
(* A configuration c joins RuntimeConfig, RuntimeSupport and the accepted  *)
(* AgentRunRequest.  A run grants one capability, and a valid effect       *)
(* request names it.                                                       *)
(***************************************************************************)
EXTENDS Ledger

Capability == "capability"   \* the digest of the granted capability
Configured == "configured"   \* the executor identity of RuntimeConfig

GateOrder == <<"permission", "tool_trust", "runtime", "workflow">>
EffectGates == {"permission", "tool_trust", "runtime", "workflow"}

(* gate_approval_value of the approval found for a digest                  *)
Approval(digest, max) == [status |-> "approved", subject |-> digest, max |-> max]

PermissionInput(c, e) ==
  [action |-> e, policy |-> c.policy, risky |-> c.risky, wrapped |-> c.wrapped,
   approval |-> IF e \in c.approvals THEN Approval(e, Null) ELSE Null]

(* Where schemas are pinned the request must carry one of the pinned ones. *)
ToolTrustInput(c, e) ==
  LET pinned == c.pins = Null \/ (e.schema # Null /\ e.schema \in c.pins)
  IN [named |-> TRUE, capability |-> Capability,
      approval |-> IF c.trusted /\ pinned THEN Approval(Capability, Null) ELSE Null]

(* runtime_approval_for returns the first approval listed for a digest;    *)
(* c.overage keeps those.                                                  *)
RuntimeApproval(c, e) ==
  IF \E a \in c.overage : a.subject = e
    THEN CHOOSE a \in c.overage : a.subject = e
    ELSE Null

RuntimeInput(c, l, e) ==
  [action |-> e, usageStatus |-> "known",
   current |-> l.usage["cost"], next |-> c.estimate["cost"],
   warn |-> c.warn, approve |-> c.approve, hardStop |-> c.hardStop,
   approval |-> RuntimeApproval(c, e)]

WorkflowMutationInput(c, l, e) ==
  [boundary |-> "mutation",
   results |-> [plan       |-> "allow",
                permission |-> EvaluatePermission(PermissionInput(c, e)).outcome,
                toolTrust  |-> EvaluateToolTrust(ToolTrustInput(c, e)).outcome,
                runtime    |-> EvaluateRuntime(RuntimeInput(c, l, e)).outcome]]

WorkflowCompletionInput(l, verification) ==
  [boundary |-> "completion",
   mutationAuthorized |-> ~l.mutationRequired \/ l.mutationAuthorized,
   results |-> [verification |-> verification.outcome]]

GateDecision(c, l, e, gate) ==
  CASE gate = "permission" -> EvaluatePermission(PermissionInput(c, e))
    [] gate = "tool_trust" -> EvaluateToolTrust(ToolTrustInput(c, e))
    [] gate = "runtime"    -> EvaluateRuntime(RuntimeInput(c, l, e))
    [] gate = "workflow"   -> EvaluateWorkflow(WorkflowMutationInput(c, l, e))

----------------------------------------------------------------------------
(* The gate pipeline.  Each gate's decision is recorded before it is acted *)
(* on, under an id that names the event recording it.                      *)

Recorded(c, l, e, gate) ==
  Decide(l, DecisionId(l), gate, e, GateDecision(c, l, e, gate), TRUE)

PermissionLedger(c, l, e) == Recorded(c, l, e, "permission")
ToolTrustLedger(c, l, e)  == Recorded(c, PermissionLedger(c, l, e), e, "tool_trust")
RuntimeLedger(c, l, e)    == Recorded(c, ToolTrustLedger(c, l, e), e, "runtime")
WorkflowLedger(c, l, e)   == Recorded(c, RuntimeLedger(c, l, e), e, "workflow")

LedgerThrough(c, l, e, gate) ==
  CASE gate = "permission" -> PermissionLedger(c, l, e)
    [] gate = "tool_trust" -> ToolTrustLedger(c, l, e)
    [] gate = "runtime"    -> RuntimeLedger(c, l, e)
    [] gate = "workflow"   -> WorkflowLedger(c, l, e)

(* Only a mutation has to pass the workflow gate as well.                  *)
GatesOf(e) == 1..(IF e.class = "mutation" THEN 4 ELSE 3)

GateAllows(c, l, e, i) == GateDecision(c, l, e, GateOrder[i]).outcome = "allow"

StopsAtGate(c, l, e, i) ==
  /\ i \in GatesOf(e)
  /\ \A j \in 1..(i - 1) : GateAllows(c, l, e, j)
  /\ ~GateAllows(c, l, e, i)

GatesPass(c, l, e) == \A i \in GatesOf(e) : GateAllows(c, l, e, i)

GatedLedger(c, l, e) ==
  IF e.class = "mutation" THEN WorkflowLedger(c, l, e) ELSE RuntimeLedger(c, l, e)

----------------------------------------------------------------------------
(* Result bodies.                                                          *)

NonExecutionStatus(decision) ==
  IF decision.outcome = "ask" THEN "awaiting_authority" ELSE "denied"

(* non_execution_result; only a stale subject comes with evidence          *)
NonExecutionBody(l, e, gate, decision, effectsIntact) ==
  [effect |-> e, pre |-> l.current, schema |-> e.schema,
   decision |-> [digest |-> e, subject |-> l.current, gate |-> gate,
                 outcome |-> decision.outcome, effectsIntact |-> effectsIntact],
   status |-> NonExecutionStatus(decision), post |-> Null, exit |-> Null,
   usage |-> ZeroUsage, executor |-> Null, sandbox |-> Null,
   reason |-> decision.code,
   evidence |-> IF decision.code = "protected_effect.stale_subject"
                  THEN {"subject_observation"} ELSE {},
   evidenceIntact |-> TRUE]

(* The part of the body every attempted effect has: the permission gate    *)
(* allowed it, in the subject the ledger still holds.                      *)
AttemptBody(l, e, status, post, exit, usage, executor, sandbox, reason, evidence, intact) ==
  [effect |-> e, pre |-> l.current, schema |-> e.schema,
   decision |-> [digest |-> e, subject |-> l.current, gate |-> "permission",
                 outcome |-> "allow", effectsIntact |-> TRUE],
   status |-> status, post |-> post, exit |-> exit, usage |-> usage,
   executor |-> executor, sandbox |-> sandbox, reason |-> reason,
   evidence |-> evidence, evidenceIntact |-> intact]

(* A port that was invoked counts as one call even if it reports none.     *)
AtLeastOneCall(u) == IF u["calls"] = 0 THEN [u EXCEPT !["calls"] = 1] ELSE u

(* executor_error_result: the port failed after the dispatch.  u is the    *)
(* usage the error reports (Null for none), ev the evidence it carries.    *)
LostBody(l, e, u, ev) ==
  AttemptBody(l, e, "unknown_outcome", Null, Null,
              AtLeastOneCall(IF u = Null THEN ZeroUsage ELSE u),
              Configured, "requested", "executor.failed",
              ev.types \cup {"executor", "sandbox", "usage", "unknown_outcome"},
              ev.intact)

(* An observation of an attempt with the engine's floor on its calls.      *)
Floored(o) ==
  [o EXCEPT !.usage = AtLeastOneCall(@),
            !.evidence = IF o.usage["calls"] = 0 THEN @ \cup {"usage"} ELSE @]

Untrusted(o) == o.sandbox # "requested" \/ o.executor # Configured

(* valid_observed_post_effect_subject *)
UsablePost(e, post) ==
  IF post = Malformed \/ (e.class = "observation" /\ post # e.subject) THEN Null ELSE post

(* untrusted_execution_result: the report of an executor that ran in       *)
(* another sandbox or under another identity is kept, as an unknown        *)
(* outcome.  Invalid references are dropped one by one, so the evidence    *)
(* types an ill-formed list loses are any of them; what is needed is       *)
(* then added back.                                                        *)
UntrustedBody(l, e, o, kept) ==
  LET post == UsablePost(e, o.post)
  IN AttemptBody(l, e, "unknown_outcome", post, Null,
       [m \in Meters |-> IF o.usage[m] > MaxSafe THEN MaxSafe ELSE o.usage[m]],
       IF o.executor \in {Null, Malformed} THEN "unverified" ELSE o.executor,
       "requested", "protected_effect.untrusted",
       (kept \ {"failure", "interruption"})
         \cup {"executor", "sandbox", "usage", "unknown_outcome"}
         \cup (IF post = Null THEN {} ELSE {"subject_observation"})
         \cup (IF post # Null /\ e.class = "mutation" THEN {"mutation", "artifact"} ELSE {}),
       TRUE)

KeptEvidence(o) == IF o.evidenceIntact THEN {o.evidence} ELSE SUBSET o.evidence

(* attempt_result *)
ObservedBody(l, e, o) ==
  AttemptBody(l, e, o.status, o.post, o.exit, o.usage, Configured, o.sandbox,
              o.reason, o.evidence, o.evidenceIntact)

----------------------------------------------------------------------------
(* accept_effect_identity, tool_execution, mutation and record_effect_usage*)
(* for an attempt p with a sealed body b.                                  *)
AttemptLedger(l, p, b) ==
  LET e == p.effect
      executed == ToolExecution(AcceptEffectIdentity(l, e), p.permission, e)
      changed  == IF b.post # Null /\ e.class = "mutation"
                    THEN Mutate(executed, p.workflow, e, b.post) ELSE executed
  IN RecordUsage(changed, b.usage)

(* verification_report_is_receipt_safe *)
ReportIsReceiptSafe(c, rep) ==
  /\ rep.subject # Malformed
  /\ c.implementer # Null
  /\ rep.verifier # Null
  /\ rep.intact
  /\ rep.verdict = "pass" => rep.verifier # c.implementer /\ rep.complete

(* Mutant: a report is checked against the subject it names itself.        *)
ReportedSubjectInput(c, l, rep) ==
  [subject |-> rep.subject, implementer |-> c.implementer, report |-> rep]

VerificationInput(c, l, rep) ==
  [subject |-> l.current, implementer |-> c.implementer, report |-> rep]

=============================================================================
