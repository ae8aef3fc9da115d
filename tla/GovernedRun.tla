---------------------------- MODULE GovernedRun -----------------------------
(***************************************************************************)
(* What an agent run promises, without gates, budgets and ports: effects   *)
(* are handed to the executor one at a time and never twice, each leaves   *)
(* one result, in order; after a result other than executed nothing more is*)
(* handed out; a run completes only if every effect was executed and the   *)
(* resulting subject has been verified.  AgentRun implements it.           *)
(***************************************************************************)
EXTENDS Naturals, Sequences

CONSTANTS Effects,  \* the effect requests
          Statuses  \* the statuses of an effect result

VARIABLES dispatched, \* the effects handed to the executor
          recorded,   \* the results, as [effect, status]
          checked,    \* the subject of the recorded results is verified
          verdict     \* "open", a terminal status, or "error": no receipt

runVars == <<dispatched, recorded, checked, verdict>>

Init == dispatched = <<>> /\ recorded = <<>> /\ checked = FALSE /\ verdict = "open"

Idle == Len(dispatched) = Len(recorded)

AllExecuted == \A i \in DOMAIN recorded : recorded[i].status = "executed"

Fresh(e) == \A i \in DOMAIN dispatched : dispatched[i].id # e.id /\ dispatched[i].key # e.key

Dispatch ==
  /\ verdict = "open" /\ Idle /\ AllExecuted /\ ~checked
  /\ \E e \in Effects : Fresh(e) /\ dispatched' = Append(dispatched, e)
  /\ UNCHANGED <<recorded, checked, verdict>>

Record ==
  /\ verdict = "open" /\ Len(dispatched) = Len(recorded) + 1
  /\ \E s \in Statuses :
       recorded' = Append(recorded, [effect |-> dispatched[Len(dispatched)], status |-> s])
  /\ UNCHANGED <<dispatched, checked, verdict>>

(* An effect the gates stop: a result without a dispatch.                  *)
Refuse ==
  /\ verdict = "open" /\ Idle /\ AllExecuted /\ ~checked
  /\ \E e \in Effects, s \in {"denied", "awaiting_authority"} :
       recorded' = Append(recorded, [effect |-> e, status |-> s])
  /\ UNCHANGED <<dispatched, checked, verdict>>

Check ==
  /\ verdict = "open" /\ Idle /\ AllExecuted /\ checked' = TRUE
  /\ UNCHANGED <<dispatched, recorded, verdict>>

Complete ==
  /\ verdict = "open" /\ Idle /\ AllExecuted /\ checked
  /\ verdict' = "completed" /\ UNCHANGED <<dispatched, recorded, checked>>

(* Stopped with a receipt that accounts for every dispatch, or with an     *)
(* error and none.                                                         *)
Stop ==
  /\ verdict = "open"
  /\ \/ verdict' \in {"blocked", "failed", "interrupted"} /\ Len(dispatched) <= Len(recorded)
     \/ verdict' = "error"
  /\ UNCHANGED <<dispatched, recorded, checked>>

Next == Dispatch \/ Record \/ Refuse \/ Check \/ Complete \/ Stop

Spec == Init /\ [][Next]_runVars

=============================================================================
