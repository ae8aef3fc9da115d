------------------------------- MODULE Ledger -------------------------------
(***************************************************************************)
(* The run ledger of the engine (struct Ledger in src/runtime.rs).  The    *)
(* code moves the ledger by value from one engine function to the next, so *)
(* a ledger is a record and each method of impl Ledger an operator that    *)
(* returns the updated record.                                             *)
(*                                                                         *)
(* The event vector is write-only for the engine except for its length     *)
(* (next_sequence) and its latest usage (latest_usage).  It is represented *)
(* by `log', the replay state the receipt contract computes from it: each  *)
(* push applies the match arm validate_receipt_body has for that event.    *)
(* `results' keeps of every sealed effect result its request and status.   *)
(***************************************************************************)
EXTENDS Coordinator, EffectContract, ReceiptContract, Sequences

NewLedger(subject) ==
  [status |-> "accepted", current |-> subject, usage |-> ZeroUsage,
   log |-> InitReplay(subject), results |-> <<>>, seen |-> 0,
   ids |-> {}, digests |-> {}, keys |-> {},
   mutationRequired |-> FALSE, mutationAuthorized |-> FALSE]

(* decision_id embeds the sequence of the event about to be pushed, which  *)
(* is all that tells two ids apart; "decision-completion" is 0.            *)
DecisionId(l) == l.log.seq + 1
CompletionId  == 0

Transition(l, to) ==
  [l EXCEPT !.log = ReplayTransition(@, l.status, to), !.status = to]

(* plan_recorded and approval_recorded, whose content was validated before *)
Note(l) == [l EXCEPT !.log = ReplayNote(@, TRUE)]

(* protected_effect_decision *)
Decide(l, id, gate, digest, decision, effectsIntact) ==
  [l EXCEPT
     !.log = ReplayDecision(@, id, gate, digest, l.current, decision, effectsIntact),
     !.mutationAuthorized = @ \/ /\ gate = "workflow"
                                 /\ decision = Allow("workflow.mutation_authorized")]

(* The capability of a validated effect request is the requested one.      *)
ToolExecution(l, id, e) == [l EXCEPT !.log = ReplayToolExecution(@, id, e, TRUE)]

(* ledger.mutation followed by ledger.current_subject = post_subject       *)
Mutate(l, id, e, after) ==
  [l EXCEPT !.log = ReplayMutation(@, id, e, l.current, after), !.current = after]

Verified(l, implementer, report) ==
  [l EXCEPT !.log = ReplayVerification(@, report.subject, implementer,
                      report.verifier, report.verdict, TRUE, report.complete)]

(* sanitize_cancellation and interruption_evidence make every interruption *)
(* event carry a usable reason and interruption evidence.                  *)
Interrupt(l) == [l EXCEPT !.log = ReplayInterruption(@)]

PushResult(l, e, status) ==
  [l EXCEPT !.results = Append(@, [effect |-> e, status |-> status])]

----------------------------------------------------------------------------
(* Usage accounting.                                                       *)

CappedSum(a, b) == IF a + b > MaxSafe THEN MaxSafe ELSE a + b
CappedUsage(a, b) == [m \in Meters |-> CappedSum(a[m], b[m])]

(* project_resource_usage succeeds *)
Projectable(a, b) == \A m \in Meters : a[m] + b[m] <= MaxSafe

UsageEvent(l) ==
  IF l.log.usage = l.usage THEN l ELSE [l EXCEPT !.log = ReplayUsage(@, l.usage)]

(* Where the projection succeeds the capped sum is the exact sum.          *)
RecordUsage(l, u) == UsageEvent([l EXCEPT !.usage = CappedUsage(@, u)])

(* What record_usage returns; "none" is its None.                          *)
UsageReason(l, u, budget) ==
  IF ~Projectable(l.usage, u) THEN "runtime.usage_overflow"
  ELSE IF ~WithinBudget(CappedUsage(l.usage, u), budget) THEN "runtime.budget_exceeded"
  ELSE "none"

----------------------------------------------------------------------------
(* Effect admission.                                                       *)

(* admission_decision; "none" is its None *)
AdmissionCode(l, e, maxEffects) ==
  IF e.seq # l.seen + 1 THEN "runtime.effect_sequence_invalid"
  ELSE IF l.seen >= maxEffects THEN "runtime.max_effects_exhausted"
  ELSE IF e.id \in l.ids \/ e \in l.digests \/ e.key \in l.keys
    THEN "runtime.duplicate_effect"
  ELSE "none"

(* Mutant: only the range of the projection is checked, not the budget.    *)
BudgetCodeUnlimited(l, budget, estimate) ==
  IF ~Projectable(l.usage, estimate) THEN "runtime.invalid_budget" ELSE "none"

(* budget_admission_decision; cost is left to the runtime gate             *)
BudgetCode(l, budget, estimate) ==
  IF ~Projectable(l.usage, estimate) THEN "runtime.invalid_budget"
  ELSE IF \E m \in Meters \ {"cost"} : l.usage[m] + estimate[m] > budget[m]
    THEN "runtime.budget_exceeded"
  ELSE "none"

(* Mutant: the idempotency key is not remembered.                          *)
AcceptWithoutKey(l, e) ==
  [l EXCEPT !.seen = @ + 1,
            !.ids = @ \cup {e.id},
            !.digests = @ \cup {e},
            !.mutationRequired = @ \/ e.class = "mutation"]

AcceptEffectIdentity(l, e) ==
  [l EXCEPT !.seen = @ + 1,
            !.ids = @ \cup {e.id},
            !.digests = @ \cup {e},
            !.keys = @ \cup {e.key},
            !.mutationRequired = @ \/ e.class = "mutation"]

=============================================================================
