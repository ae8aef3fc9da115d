-------------------------- MODULE AgentRunInvariant --------------------------
(***************************************************************************)
(* The inductive invariant behind the safety properties of AgentRun.  TLC  *)
(* checks it on the small instance, AgentRunProofs proves it.              *)
(***************************************************************************)
EXTENDS AgentRun

(* What every method of the ledger preserves: the events so far replay     *)
(* without an error to the ledger's own status, subject and usage, and     *)
(* every decision id names the event that recorded it.                     *)
Sound(l) ==
  /\ l \in LedgerRecord
  /\ l.log.ok
  /\ l.log.status = l.status
  /\ l.status \notin Terminal
  /\ l.log.current = l.current
  /\ l.log.usage # Null => UsageIsMonotonic(l.log.usage, l.usage)
  /\ l.log.lastMutation <= l.log.seq
  /\ l.log.completion = Null
  /\ \A d \in l.log.decisions : d.id = d.seq /\ d.seq \in 1..l.log.seq

(* A passing verification of the current subject is the last word on it.   *)
FreshVerification(l) ==
  /\ l.log.verified # Null
  /\ l.log.verified.subject = l.current
  /\ l.log.verified.seq > l.log.lastMutation
  /\ l.log.verified.seq <= l.log.seq

(* The ledger after its completion decision has been recorded.             *)
Complete(l) ==
  /\ l \in LedgerRecord
  /\ l.log.ok
  /\ l.log.status = "verifying" /\ l.status = "verifying"
  /\ l.log.current = l.current
  /\ l.log.usage # Null => UsageIsMonotonic(l.log.usage, l.usage)
  /\ FreshVerification(l)
  /\ l.log.completion # Null
  /\ l.log.completion.seq > l.log.verified.seq
  /\ l.log.completion.subject = l.current
  /\ l.log.completion.digest = l.current
  /\ l.log.completion.outcome = "allow"
  /\ l.log.completion.gate = "workflow"

LedgerSound ==
  /\ pc \notin {"seal", "close", "closed"} => Sound(ledger)
  /\ pc = "seal" =>
       /\ ending = "completed" => Complete(ledger) /\ WithinBudget(ledger.usage, config.budget)
       /\ ending # "completed" => Sound(ledger)
       /\ ending = "interrupted" => ledger.log.interrupted
       /\ ending # "none"
  /\ pc \in {"observe_agent", "observe_executor"} => ending \in {"blocked", "failed"}

StatusAtCall ==
  /\ pc = "start" => ledger.status = "accepted" /\ invoked = <<>> /\ ledger.seen = 0
  /\ pc = "plan" => ledger.status = "planning" /\ invoked = <<>> /\ ledger.seen = 0
  /\ pc \in {"step", "execute"} => ledger.status = "executing"
  /\ pc \in {"verify", "check", "claim_agent", "claim_executor"} => ledger.status = "verifying"

ConfigAccepted == pc # "start" /\ result # "rejected" => Acceptable(config)

ErrorsAreFinal == pc \notin {"close", "closed"} => result = "none"

BudgetHeld == pc \in Running => WithinBudget(ledger.usage, config.budget)

VerifiedBeforeClaim ==
  pc \in {"check", "claim_agent", "claim_executor"} => FreshVerification(ledger)

(* While the run goes on, the ledger knows the identity of every effect    *)
(* dispatched, except that of the one in the executor.                     *)
IdentitiesKept ==
  pc \in Running =>
    /\ Len(invoked) = ledger.seen + (IF pc = "execute" THEN 1 ELSE 0)
    /\ \A i \in 1..ledger.seen :
         invoked[i].id \in ledger.ids /\ invoked[i].key \in ledger.keys
    /\ pc = "execute" => /\ ledger.seen < config.maxEffects
                         /\ invoked[Len(invoked)] = pending.effect

PendingAuthorized ==
  pc = "execute" /\ pending.effect.class = "mutation" => ledger.mutationAuthorized

CellsClaimed ==
  /\ pc = "claim_executor" /\ CellOf["agent"] \in AtomicCells =>
       cell[CellOf["agent"]] = "claimed"
  /\ ending = "completed" =>
       \A p \in Ports : CellOf[p] \in AtomicCells => cell[CellOf[p]] = "claimed"
  /\ result = "receipt" => ledger.status = ending

(* All of it together is inductive: the parts lean on each other across the*)
(* port calls of AgentRunEngine.                                           *)
EngineInvariant ==
  /\ TypeOK
  /\ LedgerSound
  /\ StatusAtCall
  /\ ConfigAccepted
  /\ ErrorsAreFinal
  /\ BudgetHeld
  /\ VerifiedBeforeClaim
  /\ IdentitiesKept
  /\ PendingAuthorized
  /\ CellsClaimed
  /\ ReceiptAlwaysSeals
  /\ NoRepeatedDispatch
  /\ DispatchBounded
  /\ DispatchFitsBudget
  /\ DispatchAuthorized
  /\ MutationAlwaysAuthorized

AllExecuted(l) == \A i \in DOMAIN l.results : l.results[i].status = "executed"

(* While the run goes on every dispatched effect has its result, but for   *)
(* the one in the executor, and all of them were executed; on the way to a *)
(* receipt every dispatched effect still has its result.                   *)
ResultsMatch ==
  /\ pc \in {"start", "plan"} => invoked = <<>> /\ ledger.results = <<>>
  /\ pc \in {"step", "verify", "check", "claim_agent", "claim_executor"} =>
       Len(invoked) = Len(ledger.results) /\ AllExecuted(ledger)
  /\ pc = "execute" =>
       Len(invoked) = Len(ledger.results) + 1 /\ AllExecuted(ledger)
  /\ pc \in {"observe_agent", "observe_executor", "seal"} =>
       Len(invoked) <= Len(ledger.results)
  /\ pc = "seal" /\ ending = "completed" =>
       Len(invoked) = Len(ledger.results) /\ AllExecuted(ledger)

(* Until the verifier answers there is no verification on record.          *)
UnverifiedYet ==
  pc \in {"start", "plan", "step", "execute", "verify"} => ledger.log.verified = Null

UsageKept == result \in {"none", "receipt"} => UsageCovers(ledger, metered)

(* What the outcome of a run rests on.                                     *)
OutcomeInvariant == ResultsMatch /\ UnverifiedYet /\ UsageKept

(* The inductive invariant of the engine.                                  *)
RunInvariant == EngineInvariant /\ OutcomeInvariant

=============================================================================
