-------------------------- MODULE ReceiptContract --------------------------
(***************************************************************************)
(* The Terminal Run Receipt contract (src/contracts/validation.rs).        *)
(* validate_receipt_body replays the event ledger: it folds the events into*)
(* a replay state, one match arm per kind of event, and then judges the    *)
(* final state against the declared terminal status, subject and usage.    *)
(*                                                                         *)
(* A replay state r has the local variables of that loop.  `ok' is FALSE   *)
(* once an arm has returned an error.  `seq' counts the events replayed, so*)
(* the event being replayed has sequence r.seq + 1 (numbering is contiguous*)
(* by construction of the ledger).  `decisions' is the map from decision   *)
(* ids to records, as a set of records that carry their id.  `last' is the *)
(* target of the last event if that event was a transition, else Null.     *)
(***************************************************************************)
EXTENDS Values

Terminal == {"completed", "blocked", "failed", "interrupted"}
RunStatuses == {"accepted", "planning", "awaiting_authority", "executing",
                "verifying"} \cup Terminal

ValidTransition(from, to) ==
  /\ from \notin Terminal
  /\ from # to
  /\ \/ to \in {"blocked", "failed", "interrupted"}
     \/ <<from, to>> \in
          {<<"accepted", "planning">>,
           <<"planning", "awaiting_authority">>, <<"planning", "executing">>,
           <<"awaiting_authority", "planning">>, <<"awaiting_authority", "executing">>,
           <<"executing", "awaiting_authority">>, <<"executing", "verifying">>,
           <<"verifying", "executing">>, <<"verifying", "completed">>}

UsageIsMonotonic(previous, current) == \A m \in Meters : current[m] >= previous[m]

InitReplay(subject) ==
  [ok |-> TRUE, seq |-> 0, status |-> "accepted", current |-> subject,
   lastMutation |-> 0, verified |-> Null, usage |-> Null, completion |-> Null,
   decisions |-> {}, interrupted |-> FALSE, last |-> Null]

----------------------------------------------------------------------------
(* The match arms.                                                         *)

ReplayTransition(r, from, to) ==
  [r EXCEPT !.ok = @ /\ from = r.status /\ ValidTransition(from, to),
            !.seq = @ + 1, !.status = to, !.last = to]

(* PlanRecorded and ApprovalRecorded: `intact' is their field validation.  *)
ReplayNote(r, intact) ==
  [r EXCEPT !.ok = @ /\ intact, !.seq = @ + 1, !.last = Null]

ReplayDecision(r, id, gate, digest, subject, decision, effectsIntact) ==
  LET record == [id |-> id, seq |-> r.seq + 1, gate |-> gate, digest |-> digest,
                 subject |-> subject, outcome |-> decision.outcome]
      completes == /\ gate = "workflow"
                   /\ decision.outcome = "allow"
                   /\ decision.code = "workflow.completion_authorized"
  IN [r EXCEPT !.ok = /\ @
                      /\ subject = r.current
                      /\ effectsIntact
                      /\ \A d \in r.decisions : d.id # id,
               !.seq = @ + 1,
               !.decisions = @ \cup {record},
               !.completion = IF completes THEN record ELSE @,
               !.last = Null]

(* validate_authorization *)
Authorized(r, id, digest, gate) ==
  \E d \in r.decisions :
    /\ d.id = id
    /\ d.seq < r.seq + 1
    /\ d.digest = digest
    /\ d.subject = r.current
    /\ d.gate = gate
    /\ d.outcome = "allow"

ReplayToolExecution(r, id, digest, capabilityMatches) ==
  [r EXCEPT !.ok = @ /\ Authorized(r, id, digest, "permission") /\ capabilityMatches,
            !.seq = @ + 1, !.last = Null]

ReplayMutation(r, id, digest, before, after) ==
  [r EXCEPT !.ok = /\ @
                   /\ Authorized(r, id, digest, "workflow")
                   /\ before = r.current,
            !.seq = @ + 1,
            !.current = after,
            !.lastMutation = r.seq + 1,
            !.last = Null]

(* `intact': non-blank actors, valid evidence; `complete': every required  *)
(* evidence type is present.                                               *)
ReplayVerification(r, subject, implementer, verifier, verdict, intact, complete) ==
  [r EXCEPT !.ok = /\ @
                   /\ intact
                   /\ verdict = "pass" => implementer # verifier /\ complete,
            !.seq = @ + 1,
            !.verified = IF verdict = "pass" /\ subject = r.current
                           THEN [seq |-> r.seq + 1, subject |-> subject] ELSE @,
            !.last = Null]

ReplayUsage(r, usage) ==
  [r EXCEPT !.ok = /\ @
                   /\ SafeUsage(usage)
                   /\ r.usage # Null => UsageIsMonotonic(r.usage, usage),
            !.seq = @ + 1, !.usage = usage, !.last = Null]

ReplayInterruption(r) ==
  [r EXCEPT !.seq = @ + 1, !.interrupted = TRUE, !.last = Null]

----------------------------------------------------------------------------
(* validate_completed_receipt; the completion record has the completion    *)
(* code, or it would not have been kept as one.                            *)
CompletedReceiptValid(r, budget) ==
  /\ WithinBudget(r.usage, budget)
  /\ r.verified # Null
  /\ r.verified.seq > r.lastMutation
  /\ r.verified.subject = r.current
  /\ r.completion # Null
  /\ r.completion.seq > r.verified.seq
  /\ r.completion.subject = r.current
  /\ r.completion.digest = r.current
  /\ r.completion.outcome = "allow"
  /\ r.completion.gate = "workflow"

(* The checks after the loop, for a body declaring terminal, subject, usage*)
ReceiptValid(r, terminal, subject, usage, budget) ==
  /\ r.ok
  /\ r.seq > 0
  /\ terminal \in Terminal
  /\ SafeUsage(usage)
  /\ r.status = terminal
  /\ r.last = terminal
  /\ r.current = subject
  /\ r.usage = usage
  /\ terminal = "interrupted" => r.interrupted
  /\ IF terminal = "completed" THEN CompletedReceiptValid(r, budget)
                               ELSE r.completion = Null

=============================================================================
