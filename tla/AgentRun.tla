------------------------------ MODULE AgentRun ------------------------------
(***************************************************************************)
(* AgentRunEngine::run (src/runtime.rs): one bounded agent run, from the   *)
(* request to the terminal receipt, with the three ports it calls (agent,  *)
(* executor, verifier) and the cancellation that another thread may signal *)
(* at any moment.                                                          *)
(*                                                                         *)
(* The engine is one thread.  It is cut into actions at its port calls: an *)
(* action starts with the answer of a port and ends where the engine calls *)
(* the next one, so everything the code does in between happens in one     *)
(* step.  What a port may answer is a constant set; each way the engine can*)
(* go on from there is an action.                                          *)
(***************************************************************************)
EXTENDS EffectHandling, FiniteSets

CONSTANTS Configs,       \* the run configurations considered
          Effects,       \* the effect requests the agent may propose
          PortUsages,    \* the usage one answer of a port may report
          Observations,  \* what the executor may report of an execution
          LostEvidence,  \* what an executor error may carry: [types, intact]
          Reports,       \* the verification reports
          Subjects,      \* the subject identities
          Cells,         \* the cancellation cells behind agent and executor
          AtomicCells,   \* those on which claim_completion is one atomic step
          CellOf         \* the cell of each port; an adapter may share one

Ports == {"agent", "executor"}

ASSUME ConfigAssumption ==
  \A c \in Configs :
    /\ c.subject \in Subjects
    /\ c.budget \in Usage /\ c.estimate \in Usage
    /\ {c.maxEffects, c.warn, c.approve, c.hardStop} \subseteq Nat
    /\ c.planApproved \in BOOLEAN /\ c.trusted \in BOOLEAN
    /\ c.risky \in BOOLEAN /\ c.wrapped \in BOOLEAN
ASSUME UsageAssumption ==
  /\ PortUsages \subseteq Usage
  /\ Null \notin PortUsages
ASSUME EffectAssumption ==
  \A e \in Effects : /\ e.seq \in Nat
                     /\ e.class \in {"observation", "mutation"}
ASSUME ObservationAssumption ==
  Observations \subseteq
    [status : Statuses, post : Subjects \cup {Null, Malformed},
     exit : {Null, Malformed, "code"}, usage : Usage,
     executor : {Null, Malformed, Configured, "other"},
     sandbox : {"requested", "other"}, reason : {Null, "blank", "text"},
     evidence : SUBSET EvidenceTypes, evidenceIntact : BOOLEAN]
ASSUME CellAssumption ==
  /\ AtomicCells \subseteq Cells
  /\ CellOf \in [Ports -> Cells]
ASSUME SubjectAssumption == Subjects \cap {Null, Malformed} = {}

VARIABLES pc,        \* the port call the engine waits in, or its next internal step
          config,    \* the configuration of this run
          ledger,    \* the run ledger
          pending,   \* the dispatched effect and its decision ids
          ending,    \* the terminal status finish() was called with
          cell,      \* the cancellation cells
          result,    \* what run() returns
          invoked,   \* history: the effects handed to the executor
          metered    \* history: all usage the ports reported, capped

engine == <<pc, config, ledger, pending, ending, result, invoked, metered>>
vars   == <<engine, cell>>

MeteredCalls == {"plan", "step", "verify", "check"}
PCs == {"start", "execute", "claim_agent", "claim_executor", "observe_agent",
        "observe_executor", "seal", "close", "closed"} \cup MeteredCalls

Results == {"none", "receipt", "rejected", "result_error", "receipt_error"}

Init ==
  /\ pc = "start"
  /\ config \in Configs
  /\ ledger = NewLedger(config.subject)
  /\ pending = Null
  /\ ending = "none"
  /\ cell = [k \in Cells |-> "active"]
  /\ result = "none"
  /\ invoked = <<>>
  /\ metered = ZeroUsage

----------------------------------------------------------------------------
(* The ways an engine step can end.                                        *)

Continue(l, at) == pc' = at /\ ledger' = l /\ UNCHANGED <<ending, result>>

(* Mutant: finish() looks no cancellation up.                              *)
FinishUnobserved(l, status) ==
  /\ pc' = "seal"
  /\ ledger' = l
  /\ ending' = status
  /\ UNCHANGED result

(* finish(): a cancellation is looked up first, unless the run is already  *)
(* interrupted, has claimed its completion, or waits for authority.        *)
Finish(l, status) ==
  /\ pc' = IF status \in {"interrupted", "completed"} \/ l.status = "awaiting_authority"
             THEN "seal" ELSE "observe_agent"
  /\ ledger' = l
  /\ ending' = status
  /\ UNCHANGED result

(* A `?' returned an error: the ledger is dropped and no receipt is made.  *)
Fail(error) ==
  /\ pc' = "close"
  /\ result' = error
  /\ UNCHANGED <<ledger, ending>>

BlockedFromDecision(l, decision) ==
  Finish(IF decision.outcome = "ask" THEN Transition(l, "awaiting_authority") ELSE l,
         "blocked")

(* Seal the result of an effect that was not executed and stop.            *)
Refuse(l, e, gate, decision, effectsIntact) ==
  LET b == NonExecutionBody(l, e, gate, decision, effectsIntact)
  IN IF ValidResult(e, b)
       THEN BlockedFromDecision(PushResult(l, e, b.status), decision)
       ELSE Fail("result_error")

(* decline_protected_effect *)
Decline(l, e, gate, decision, effectsIntact) ==
  Refuse(Decide(l, DecisionId(l), gate, e, decision, effectsIntact),
         e, gate, decision, effectsIntact)

(* Mutant: the usage of a failed call is not recorded.                     *)
UsageOfErrorLost(l, u) == l

(* The usage an error carries is recorded, the verdict on it ignored.      *)
Observed(l, u) == IF u = Null THEN l ELSE RecordUsage(l, u)

Metered(u) == metered' = IF u = Null THEN metered ELSE CappedUsage(metered, u)

Untouched == UNCHANGED <<config, pending, cell, invoked>>

----------------------------------------------------------------------------
(* run_inner up to its first port call.                                    *)

ValidConfig(c) ==
  /\ c.implementer # Null
  /\ c.executorValid
  /\ c.maxEffects \in 1..MaxSafe
  /\ {c.warn, c.approve, c.hardStop} \subseteq 0..MaxSafe
  /\ c.warn <= c.approve
  /\ c.approve <= c.hardStop
  /\ c.hardStop <= c.budget["cost"]

ValidSupport(c) ==
  /\ c.supportIntact
  /\ Null \notin c.verifiers
  /\ SafeUsage(c.estimate)

ValidRequest(c) == c.requestIntact /\ SafeUsage(c.budget)

Acceptable(c) == ValidConfig(c) /\ ValidSupport(c) /\ ValidRequest(c)

RejectRun ==
  /\ pc = "start" /\ ~Acceptable(config)
  /\ Fail("rejected")
  /\ Untouched /\ UNCHANGED metered

AcceptRun ==
  /\ pc = "start" /\ Acceptable(config)
  /\ Continue(Transition(ledger, "planning"), "plan")
  /\ Untouched /\ UNCHANGED metered

----------------------------------------------------------------------------
(* Calls whose answer is metered: an error, or more than the budget holds. *)

PortFails(at) ==
  /\ pc = at
  /\ \E u \in PortUsages \cup {Null} :
       Finish(Observed(ledger, u), "failed") /\ Metered(u)
  /\ Untouched

PortOverspends(at) ==
  /\ pc = at
  /\ \E u \in PortUsages :
       /\ UsageReason(ledger, u, config.budget) # "none"
       /\ Finish(RecordUsage(ledger, u), "blocked")
       /\ Metered(u)
  /\ Untouched

(* The call at `at' succeeds at an affordable usage.                       *)
PortReturns(at, u) ==
  /\ pc = at
  /\ UsageReason(ledger, u, config.budget) = "none"
  /\ Metered(u)

PlanFails      == PortFails("plan")
PlanOverspends == PortOverspends("plan")

PlanBadDigest ==
  \E u \in PortUsages :
    LET l == RecordUsage(ledger, u)
    IN PortReturns("plan", u) /\ Finish(l, "failed") /\ Untouched

PlanDecision == EvaluatePlan([subject |-> ledger.current,
  approval |-> IF config.planApproved THEN Approval(ledger.current, Null) ELSE Null])

(* plan_recorded, then approval_recorded if the request has an approval    *)
PlanLedger(l) == IF config.planApproved THEN Note(Note(l)) ELSE Note(l)

PlanUnapproved ==
  \E u \in PortUsages :
    LET l == RecordUsage(ledger, u)
    IN /\ PortReturns("plan", u)
       /\ PlanDecision.outcome # "allow"
       /\ BlockedFromDecision(PlanLedger(l), PlanDecision)
       /\ Untouched

PlanApproved ==
  \E u \in PortUsages :
    LET l == RecordUsage(ledger, u)
    IN /\ PortReturns("plan", u)
       /\ PlanDecision.outcome = "allow"
       /\ Continue(Transition(PlanLedger(l), "executing"), "step")
       /\ Untouched

----------------------------------------------------------------------------
(* The answers of next_effect.                                             *)

StepFails      == PortFails("step")
StepOverspends == PortOverspends("step")

AgentCancels ==
  \E u \in PortUsages :
    LET l == RecordUsage(ledger, u)
    IN PortReturns("step", u) /\ Finish(Interrupt(l), "interrupted") /\ Untouched

AgentFinishes ==
  \E u \in PortUsages :
    LET l == RecordUsage(ledger, u)
    IN /\ PortReturns("step", u)
       /\ Continue(Transition(l, "verifying"), "verify")
       /\ Untouched

(* Mutant: an effect that was prepared for an older subject is admitted.   *)
StaleAdmitted(l, e) == TRUE

(* handle_protected_effect up to the executor call.  The checks come in    *)
(* this order; the first that objects ends the run.                        *)
Current(l, e)    == e.subject = l.current
Admissible(l, e) == AdmissionCode(l, e, config.maxEffects) = "none"
Affordable(l)    == BudgetCode(l, config.budget, config.estimate) = "none"

ProposeInvalid(e, u, l) ==
  /\ PortReturns("step", u)
  /\ ~ValidEffectRequest(e)
  /\ Finish(l, "failed")
  /\ Untouched

ProposeStale(e, u, l) ==
  /\ PortReturns("step", u)
  /\ ValidEffectRequest(e) /\ ~Current(l, e)
  /\ Decline(l, e, "permission", Block("protected_effect.stale_subject"), TRUE)
  /\ Untouched

ProposeInadmissible(e, u, l) ==
  /\ PortReturns("step", u)
  /\ ValidEffectRequest(e) /\ Current(l, e) /\ ~Admissible(l, e)
  /\ Decline(l, e, "runtime", Block(AdmissionCode(l, e, config.maxEffects)), TRUE)
  /\ Untouched

ProposeUnaffordable(e, u, l) ==
  /\ PortReturns("step", u)
  /\ ValidEffectRequest(e) /\ Current(l, e) /\ Admissible(l, e) /\ ~Affordable(l)
  /\ Decline(l, e, "runtime",
             Block(BudgetCode(l, config.budget, config.estimate)), TRUE)
  /\ Untouched

Admitted(e, u, l) ==
  /\ PortReturns("step", u)
  /\ ValidEffectRequest(e) /\ Current(l, e) /\ Admissible(l, e) /\ Affordable(l)

GateStops(e, u, l) ==
  /\ Admitted(e, u, l)
  /\ \E i \in 1..4 :
       /\ StopsAtGate(config, l, e, i)
       /\ Refuse(LedgerThrough(config, l, e, GateOrder[i]), e, GateOrder[i],
                 GateDecision(config, l, e, GateOrder[i]), TRUE)
  /\ Untouched

(* Every gate allows: the executor is called.                              *)
Dispatch(e, u, l) ==
  /\ Admitted(e, u, l)
  /\ GatesPass(config, l, e)
  /\ Continue(GatedLedger(config, l, e), "execute")
  /\ pending' = [effect     |-> e,
                 permission |-> DecisionId(l),
                 workflow   |-> DecisionId(RuntimeLedger(config, l, e))]
  /\ invoked' = Append(invoked, e)
  /\ UNCHANGED <<config, cell>>

Propose ==
  \E e \in Effects, u \in PortUsages :
    LET l == RecordUsage(ledger, u)
    IN \/ ProposeInvalid(e, u, l)
       \/ ProposeStale(e, u, l)
       \/ ProposeInadmissible(e, u, l)
       \/ ProposeUnaffordable(e, u, l)
       \/ GateStops(e, u, l)
       \/ Dispatch(e, u, l)

----------------------------------------------------------------------------
(* The answers of execute.                                                 *)

(* The error says that nothing was dispatched; its message becomes an      *)
(* effect of the decision, which the contract wants not to be blank.       *)
ExecuteNotDispatched ==
  /\ pc = "execute"
  /\ \E u \in PortUsages \cup {Null}, blank \in BOOLEAN :
       /\ Decline(Observed(ledger, u), pending.effect, "permission",
                  Block("executor.not_dispatched"), ~blank)
       /\ Metered(u)
  /\ Untouched

(* Mutant: the loop goes on after an effect whose outcome is unknown.      *)
LostIgnored ==
  /\ pc = "execute"
  /\ \E u \in PortUsages \cup {Null}, ev \in LostEvidence :
       LET b == LostBody(ledger, pending.effect, u, ev)
           l == ToolExecution(ledger, pending.permission, pending.effect)
       IN /\ ValidResult(pending.effect, b)
          /\ Continue(PushResult(RecordUsage(l, b.usage), pending.effect, b.status), "step")
          /\ Metered(u)
  /\ Untouched

(* Any other error: the effect may or may not have happened.  The identity *)
(* of the effect is not added to the ledger: the run ends here.            *)
ExecuteLost ==
  /\ pc = "execute"
  /\ \E u \in PortUsages \cup {Null}, ev \in LostEvidence :
       LET b == LostBody(ledger, pending.effect, u, ev)
           l == ToolExecution(ledger, pending.permission, pending.effect)
       IN /\ ValidResult(pending.effect, b)
          /\ Finish(PushResult(RecordUsage(l, b.usage), pending.effect, b.status),
                    IF UsageReason(l, b.usage, config.budget) # "none"
                      THEN "blocked" ELSE "failed")
          /\ Metered(u)
  /\ Untouched

(* executor_non_execution_decision *)
ExecutorDecision(o) ==
  IF o.status = "awaiting_authority" THEN Ask("executor.awaiting_authority")
                                     ELSE Block("executor.denied")

ExecuteDeclines ==
  /\ pc = "execute"
  /\ \E o \in Observations :
       /\ o.status \in NotExecuted
       /\ Decline(RecordUsage(ledger, o.usage), pending.effect, "permission",
                  ExecutorDecision(o), TRUE)
       /\ Metered(o.usage)
  /\ Untouched

ExecuteUntrusted ==
  /\ pc = "execute"
  /\ \E o \in Observations : \E kept \in KeptEvidence(Floored(o)) :
       LET b == UntrustedBody(ledger, pending.effect, Floored(o), kept)
       IN /\ o.status \in Attempted /\ Untrusted(o)
          /\ ValidResult(pending.effect, b)
          /\ Finish(PushResult(AttemptLedger(ledger, pending, b), pending.effect, b.status),
                    "failed")
          /\ Metered(o.usage)
  /\ Untouched

(* A trusted report.  An executed effect within budget lets the loop go on;*)
(* every other status ends the run, and so does an exceeded budget.        *)
ExecuteReturns ==
  /\ pc = "execute"
  /\ \E o \in Observations :
       LET e == pending.effect
           b == ObservedBody(ledger, e, Floored(o))
           l == AttemptLedger(ledger, pending, b)
           overspent == UsageReason(ledger, b.usage, config.budget) # "none"
       IN /\ o.status \in Attempted /\ ~Untrusted(o)
          /\ ValidResult(e, b)
          /\ CASE b.status = "executed" /\ ~overspent ->
                    Continue(PushResult(l, e, b.status), "step")
               [] b.status = "executed" /\ overspent ->
                    Finish(PushResult(l, e, b.status), "blocked")
               [] b.status = "interrupted" ->
                    Finish(PushResult(Interrupt(l), e, b.status), "interrupted")
               [] b.status \in {"failed", "unknown_outcome"} ->
                    Finish(PushResult(l, e, b.status), "failed")
          /\ Metered(o.usage)
  /\ Untouched

(* The result of an attempt violates the result contract: run() returns the*)
(* seal's error after the executor has run.                                *)
ExecuteUnsealable ==
  /\ pc = "execute"
  /\ \/ \E u \in PortUsages \cup {Null}, ev \in LostEvidence :
          /\ ~ValidResult(pending.effect, LostBody(ledger, pending.effect, u, ev))
          /\ Metered(u)
     \/ \E o \in Observations :
          /\ o.status \in Attempted
          /\ IF Untrusted(o)
               THEN \E kept \in KeptEvidence(Floored(o)) :
                      ~ValidResult(pending.effect,
                         UntrustedBody(ledger, pending.effect, Floored(o), kept))
               ELSE ~ValidResult(pending.effect,
                       ObservedBody(ledger, pending.effect, Floored(o)))
          /\ Metered(o.usage)
  /\ Fail("result_error")
  /\ Untouched

----------------------------------------------------------------------------
(* verify_and_finish.                                                      *)

VerifyFails      == PortFails("verify")
VerifyOverspends == PortOverspends("verify")

VerificationDecision(l, rep) == EvaluateVerification(VerificationInput(config, l, rep))
VerificationLedger(l, rep) ==
  IF ReportIsReceiptSafe(config, rep) THEN Verified(l, config.implementer, rep) ELSE l

(* The verifier is not trusted, or its passing report could not be put in  *)
(* a receipt: the report is not recorded.                                  *)
ReportDiscarded(rep, u, l) ==
  /\ PortReturns("verify", u)
  /\ \/ rep.verifier \notin config.verifiers
     \/ /\ VerificationDecision(l, rep).outcome = "allow"
        /\ ~ReportIsReceiptSafe(config, rep)
  /\ Finish(l, "blocked")
  /\ Untouched

ReportRejected(rep, u, l) ==
  /\ PortReturns("verify", u)
  /\ rep.verifier \in config.verifiers
  /\ VerificationDecision(l, rep).outcome # "allow"
  /\ Finish(VerificationLedger(l, rep), "blocked")
  /\ Untouched

ReportAccepted(rep, u, l) ==
  /\ PortReturns("verify", u)
  /\ rep.verifier \in config.verifiers
  /\ VerificationDecision(l, rep).outcome = "allow"
  /\ ReportIsReceiptSafe(config, rep)
  /\ Continue(VerificationLedger(l, rep), "check")
  /\ Untouched

VerifyReturns ==
  \E rep \in Reports, u \in PortUsages :
    LET l == RecordUsage(ledger, u)
    IN \/ ReportDiscarded(rep, u, l)
       \/ ReportRejected(rep, u, l)
       \/ ReportAccepted(rep, u, l)

CheckFails      == PortFails("check")
CheckOverspends == PortOverspends("check")

CompletionDecision(l) ==
  EvaluateWorkflow(WorkflowCompletionInput(l, Allow("verification.passed")))

(* The completion decision is evaluated here, and recorded under a digest  *)
(* that is the subject's.                                                  *)
CompletionLedger(l) ==
  Decide(l, CompletionId, "workflow", l.current, CompletionDecision(l), TRUE)

CheckReturns ==
  \E u \in PortUsages :
    LET l == RecordUsage(ledger, u)
    IN /\ PortReturns("check", u)
       /\ IF CompletionDecision(l).outcome = "allow"
            THEN Continue(l, "claim_agent")
            ELSE Finish(CompletionLedger(l), "blocked")
       /\ Untouched

(* claim_completion, first of the agent, then of the executor.             *)
ClaimAt == [agent |-> "claim_agent", executor |-> "claim_executor"]

(* Mutant: a failed claim is tried again.                                  *)
ClaimRetried(p) ==
  /\ pc = ClaimAt[p]
  /\ \E u \in PortUsages \cup {Null} :
       Continue(Observed(ledger, u), "claim_agent") /\ Metered(u)
  /\ Untouched

ClaimFails(p) ==
  /\ pc = ClaimAt[p]
  /\ \E u \in PortUsages \cup {Null} :
       Finish(Observed(ledger, u), "failed") /\ Metered(u)
  /\ Untouched

ClaimRefused(p) ==
  /\ pc = ClaimAt[p]
  /\ cell[CellOf[p]] = "cancelled"
  /\ Finish(Interrupt(ledger), "interrupted")
  /\ Untouched /\ UNCHANGED metered

(* Mutant: the cancellation is read, but completion is not claimed.        *)
CheckedNotClaimed(p) ==
  /\ pc = ClaimAt[p]
  /\ cell[CellOf[p]] # "cancelled"
  /\ IF p = "agent" THEN Continue(ledger, "claim_executor")
                    ELSE Finish(CompletionLedger(ledger), "completed")
  /\ Untouched /\ UNCHANGED metered

ClaimGranted(p) ==
  /\ pc = ClaimAt[p]
  /\ cell[CellOf[p]] # "cancelled"
  /\ cell' = IF CellOf[p] \in AtomicCells
               THEN [cell EXCEPT ![CellOf[p]] = "claimed"] ELSE cell
  /\ IF p = "agent" THEN Continue(ledger, "claim_executor")
                    ELSE Finish(CompletionLedger(ledger), "completed")
  /\ UNCHANGED <<config, pending, invoked, metered>>

----------------------------------------------------------------------------
(* The rest of finish(), and run().                                        *)

ObserveAt == [agent |-> "observe_agent", executor |-> "observe_executor"]

ObserveCancelled(p) ==
  /\ pc = ObserveAt[p]
  /\ cell[CellOf[p]] = "cancelled"
  /\ Finish(Interrupt(ledger), "interrupted")
  /\ Untouched /\ UNCHANGED metered

ObserveNothing(p) ==
  /\ pc = ObserveAt[p]
  /\ cell[CellOf[p]] # "cancelled"
  /\ Continue(ledger, IF p = "agent" THEN "observe_executor" ELSE "seal")
  /\ Untouched /\ UNCHANGED metered

(* Mutant: the final usage event is left out.                              *)
SealedWithoutUsage(l, status) == Transition(l, status)

SealedLedger(l, status) == Transition(UsageEvent(l), status)

Seal ==
  /\ pc = "seal"
  /\ LET l == SealedLedger(ledger, ending)
     IN /\ ledger' = l
        /\ result' = IF ReceiptValid(l.log, ending, l.current, l.usage, config.budget)
                       THEN "receipt" ELSE "receipt_error"
  /\ pc' = "close"
  /\ UNCHANGED <<ending, metered>> /\ Untouched

Close ==
  /\ pc = "close"
  /\ Continue(ledger, "closed")
  /\ Untouched /\ UNCHANGED metered

(* The host cancels, from another thread.  Once completion is claimed on an*)
(* atomic cell the attempt is refused.                                     *)
Cancel(k) ==
  /\ cell[k] = "active"
  /\ pc # "closed"
  /\ cell' = [cell EXCEPT ![k] = "cancelled"]
  /\ UNCHANGED engine

Terminated == pc = "closed" /\ UNCHANGED vars

EngineStep ==
  \/ RejectRun \/ AcceptRun
  \/ PlanFails \/ PlanOverspends \/ PlanBadDigest \/ PlanUnapproved \/ PlanApproved
  \/ StepFails \/ StepOverspends \/ AgentCancels \/ AgentFinishes \/ Propose
  \/ ExecuteNotDispatched \/ ExecuteLost \/ ExecuteDeclines \/ ExecuteUntrusted
  \/ ExecuteReturns \/ ExecuteUnsealable
  \/ VerifyFails \/ VerifyOverspends \/ VerifyReturns
  \/ CheckFails \/ CheckOverspends \/ CheckReturns
  \/ \E p \in Ports : ClaimFails(p) \/ ClaimRefused(p) \/ ClaimGranted(p)
  \/ \E p \in Ports : ObserveCancelled(p) \/ ObserveNothing(p)
  \/ Seal \/ Close

Next == EngineStep \/ (\E k \in Cells : Cancel(k)) \/ Terminated

Spec == Init /\ [][Next]_vars

(* Every port call returns (the adapters bound each call by a deadline) and*)
(* the engine's thread keeps running.  Nothing obliges anyone to cancel.   *)
FairSpec == Spec /\ WF_vars(EngineStep)

----------------------------------------------------------------------------
(* Properties.                                                             *)

DecisionRecord ==
  [id : Nat, seq : Nat, gate : EffectGates, digest : Effects \cup Subjects,
   subject : Subjects, outcome : Outcomes]

VerificationRecord == [seq : Nat, subject : Subjects]

(* An absent record is none of the records.                                *)
ASSUME AbsenceAssumption ==
  /\ Null \notin DecisionRecord \cup VerificationRecord
  /\ Null \notin Usage

LogRecord ==
  [ok : BOOLEAN, seq : Nat, status : RunStatuses, current : Subjects,
   lastMutation : Nat, verified : VerificationRecord \cup {Null},
   usage : Usage \cup {Null}, completion : DecisionRecord \cup {Null},
   decisions : SUBSET DecisionRecord, interrupted : BOOLEAN,
   last : RunStatuses \cup {Null}]

LedgerRecord ==
  [status : RunStatuses, current : Subjects, usage : [Meters -> 0..MaxSafe],
   log : LogRecord, results : Seq([effect : Effects, status : Statuses]),
   seen : Nat, ids : SUBSET {e.id : e \in Effects}, digests : SUBSET Effects,
   keys : SUBSET {e.key : e \in Effects},
   mutationRequired : BOOLEAN, mutationAuthorized : BOOLEAN]

(* The type of every variable of the engine: struct Ledger, the locals of  *)
(* run_inner, and the cells.  The usage never leaves the safe range.       *)
TypeOK ==
  /\ pc \in PCs
  /\ config \in Configs
  /\ ledger \in LedgerRecord
  /\ pc = "execute" =>
       pending \in [effect : Effects, permission : Nat, workflow : Nat]
  /\ ending \in Terminal \cup {"none"}
  /\ cell \in [Cells -> {"active", "cancelled", "claimed"}]
  /\ result \in Results
  /\ invoked \in Seq(Effects)
  /\ metered \in [Meters -> 0..MaxSafe]

Running == {"step", "execute", "verify", "check", "claim_agent", "claim_executor"}

(* The engine never assembles an event ledger that its own receipt contract*)
(* rejects: RuntimeError::Receipt is unreachable, on every path to finish. *)
ReceiptAlwaysSeals == result # "receipt_error"

(* No effect id, idempotency key or request is handed to the executor      *)
(* twice, also when the first attempt failed or its answer was lost.       *)
NoRepeatedDispatch ==
  \A i, j \in DOMAIN invoked :
    i # j => invoked[i].id # invoked[j].id /\ invoked[i].key # invoked[j].key

(* The executor is called only if the effect's estimate fits what is left  *)
(* of the request's budget on every meter: cost is left to the runtime gate*)
(* and its hard stop, the others to the budget admission.                  *)
DispatchFitsBudget ==
  pc = "execute" =>
    \A m \in Meters : ledger.usage[m] + config.estimate[m] <= config.budget[m]

(* At most max_effects effects are ever handed to the executor.            *)
DispatchBounded == Len(invoked) <= config.maxEffects

(* While the executor runs an effect, the ledger holds an allow of every   *)
(* gate that effect needs, for this request and for the current subject.   *)
DispatchAuthorized ==
  pc = "execute" =>
    /\ pending.effect.subject = ledger.current
    /\ Authorized(ledger.log, pending.permission, pending.effect, "permission")
    /\ pending.effect.class = "mutation" =>
         Authorized(ledger.log, pending.workflow, pending.effect, "workflow")

(* A mutation in the ledger had its workflow authorization, so the         *)
(* completion gate is never asked about an unauthorized one.               *)
MutationAlwaysAuthorized == ledger.mutationRequired => ledger.mutationAuthorized

AttemptCount(l) == Cardinality({i \in DOMAIN l.results : l.results[i].status \in Attempted})

(* The ledger charges what was reported, and an attempt as a call at least.*)
UsageCovers(l, reported) ==
  /\ \A m \in Meters \ {"calls"} : l.usage[m] = reported[m]
  /\ l.usage["calls"] >= reported["calls"]
  /\ l.usage["calls"] >= IF AttemptCount(l) > MaxSafe THEN MaxSafe ELSE AttemptCount(l)

(* A receipt accounts for every usage any port reported, on success and    *)
(* error paths alike, exactly, except that an attempt counts as at least   *)
(* one call.                                                               *)
UsageAccounted == result = "receipt" => UsageCovers(ledger, metered)

(* The documentation of the engine: a run that has invoked its executor    *)
(* seals exactly one Terminal Run Receipt, and records each attempted      *)
(* protected effect as a sealed result.                                    *)
EveryDispatchRecorded ==
  pc = "closed" /\ invoked # <<>> => result = "receipt"

(* A completed receipt and an accepted cancellation exclude each other, if *)
(* the port's claim_completion is atomic.                                  *)
CompletionExcludesCancellation ==
  result = "receipt" /\ ledger.status = "completed" =>
    \A p \in Ports : CellOf[p] \in AtomicCells => cell[CellOf[p]] = "claimed"

AwaitedAuthority ==
  /\ ledger.results # <<>>
  /\ ledger.results[Len(ledger.results)].status = "awaiting_authority"

(* A cancellation accepted while the engine still works on the run decides *)
(* its end: the receipt says interrupted.  The exceptions are the ones the *)
(* code makes: a run that stops for authority, an error, and a rejected    *)
(* configuration.                                                          *)
CancellationHonoured ==
  \A p \in Ports :
    (/\ cell[CellOf[p]] = "cancelled"
     /\ pc \in {"start", "execute", "claim_agent", "observe_agent"} \cup MeteredCalls)
    ~> (\/ result = "receipt" /\ ledger.status = "interrupted"
        \/ result = "receipt" /\ ending = "blocked" /\ AwaitedAuthority
        \/ result \in {"rejected", "result_error"})

(* The safety half, without fairness and for more of the run: as long as   *)
(* the engine has yet to look at the cell of a port, a cancellation in it  *)
(* admits no other receipt.                                                *)
LookedUpLater(p) ==
  /\ cell[CellOf[p]] = "cancelled"
  /\ \/ pc \in {"start", "execute", "claim_agent", "observe_agent"} \cup MeteredCalls
     \/ p = "executor" /\ pc \in {"claim_executor", "observe_executor"}

CancelAhead == \E p \in Ports : LookedUpLater(p)

EndsForIt == ending = "interrupted" \/ (ending = "blocked" /\ AwaitedAuthority)

CancellationDecides ==
  [](CancelAhead => [](result = "receipt" => ledger.status = ending /\ EndsForIt))

(* The current subject is the last one that was verified.                  *)
Checked(l) ==
  /\ l.log.verified # Null
  /\ l.log.verified.subject = l.current
  /\ l.log.verified.seq > l.log.lastMutation

(* What the caller of run() gets.                                          *)
Verdict == CASE result = "none"    -> "open"
             [] result = "receipt" -> ledger.status
             [] OTHER              -> "error"

(* The engine implements the promise of an agent run: GovernedRun with the *)
(* executor calls, the sealed results, the verification in the event ledger*)
(* and the receipt of this module.                                         *)
Promise == INSTANCE GovernedRun WITH
  dispatched <- invoked,
  recorded   <- ledger.results,
  checked    <- Checked(ledger),
  verdict    <- Verdict

KeepsPromise == Promise!Spec

(* Every run ends: the effect bound cuts off an agent that never finishes. *)
Termination == <>(pc = "closed")

=============================================================================
