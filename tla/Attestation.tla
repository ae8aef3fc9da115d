---------------------------- MODULE Attestation -----------------------------
(***************************************************************************)
(* The consumer of a finished run (adapters/attestation/src/statement.rs): *)
(* validate reads the receipt's events together with the ordered effect    *)
(* requests and results, and accepts or refuses to sign and to verify them.*)
(* It is the third reading of one ledger, after the engine that writes it  *)
(* and the contract that replays it, in code of its own.                   *)
(*                                                                         *)
(* It needs what AgentRun's replay state forgets: which results carry which*)
(* usage and subject, and the tool execution and mutation events one by    *)
(* one.  `evidence' keeps them along the run; it changes nothing in it.    *)
(* The sealed receipt and results were validated when they were sealed;    *)
(* content bytes, signatures and the profile's versions are left out.      *)
(***************************************************************************)
EXTENDS AgentRunInvariant

(* The digest of a request is no subject's.                                *)
ASSUME DigestAssumption == Effects \cap Subjects = {}

VARIABLE evidence

attestedVars == <<vars, evidence>>

AttestedInit ==
  Init /\ evidence = [effects |-> <<>>, executions |-> {}, mutations |-> {}]

----------------------------------------------------------------------------
(* The record the bundle has of the result a step has pushed.              *)

Pushed == ledger'.results[Len(ledger'.results)]

Mutated == ledger'.log.lastMutation # ledger.log.lastMutation

AttemptBodies ==
  {LostBody(ledger, pending.effect, u, ev) : u \in PortUsages \cup {Null}, ev \in LostEvidence}
  \cup {ObservedBody(ledger, pending.effect, Floored(o)) : o \in {p \in Observations : ~Untrusted(p)}}
  \cup UNION {{UntrustedBody(ledger, pending.effect, Floored(o), kept) :
                 kept \in KeptEvidence(Floored(o))} : o \in {p \in Observations : Untrusted(p)}}

(* The bodies this step may have sealed.                                   *)
SealedBodies ==
  {b \in AttemptBodies :
     /\ b.status = Pushed.status
     /\ ValidResult(Pushed.effect, b)
     /\ ledger'.usage = CappedUsage(ledger.usage, b.usage)
     /\ Mutated <=> b.post # Null /\ Pushed.effect.class = "mutation"
     /\ Mutated => ledger'.current = b.post}

(* The decision of a declined effect is the one recorded last.             *)
LastDecision == CHOOSE d \in ledger'.log.decisions : \A c \in ledger'.log.decisions : c.seq <= d.seq

EffectRecords ==
  IF Pushed.status \in NotExecuted
    THEN {[request |-> Pushed.effect, status |-> Pushed.status, post |-> Null,
           usage |-> ZeroUsage, decision |-> LastDecision.id]}
    ELSE {[request |-> Pushed.effect, status |-> Pushed.status, post |-> b.post,
           usage |-> b.usage, decision |-> pending.permission] : b \in SealedBodies}

(* The events of an attempt: a tool execution, the first event the step    *)
(* pushes, and the mutation.                                               *)
Executions(r) ==
  IF ledger'.log.decisions # ledger.log.decisions THEN {}
  ELSE {[seq |-> ledger.log.seq + 1, digest |-> r.request, decision |-> pending.permission]}

Mutations(r) ==
  IF Mutated THEN {[digest |-> r.request, before |-> ledger.current, after |-> ledger'.current]}
             ELSE {}

Retain(r) ==
  evidence' = [effects    |-> Append(evidence.effects, r),
               executions |-> evidence.executions \cup Executions(r),
               mutations  |-> evidence.mutations \cup Mutations(r)]

AttestedNext ==
  /\ Next
  /\ IF ledger'.results = ledger.results THEN UNCHANGED evidence
                                         ELSE \E r \in EffectRecords : Retain(r)

AttestedSpec == AttestedInit /\ [][AttestedNext]_attestedVars

----------------------------------------------------------------------------
(* validate_effects: what it reads of the decisions ds of the receipt, and *)
(* of the evidence v.                                                      *)

(* Mutant: the decision about the completion counts as one about an effect.*)
AnyDecision(d) == FALSE

(* The decision about the completion is bound to the subject itself; the   *)
(* three codes the code lists are all that the completion boundary gives.  *)
OwnDecision(d) == d.gate = "workflow" /\ d.digest = d.subject

(* The first decision about each effect; their order is that of the effects*)
Firsts(ds) ==
  {d \in ds : /\ ~OwnDecision(d)
              /\ \A c \in ds : c.digest = d.digest => d.seq <= c.seq}

Place(ds, d) == Cardinality({c \in Firsts(ds) : c.seq <= d.seq})

ExecutionsOf(v, e) == {x \in v.executions : x.digest = e}
MutationsOf(v, e)  == {m \in v.mutations : m.digest = e}

(* current_subject after each effect                                       *)
SubjectsAlong(subject, v) ==
  LET after[i \in 0..Len(v.effects)] ==
        IF i = 0 THEN subject
        ELSE LET own == MutationsOf(v, v.effects[i].request)
             IN IF own = {} THEN after[i - 1] ELSE (CHOOSE m \in own : TRUE).after
  IN after

(* sums after each effect, which the code keeps in 64 bits                 *)
UsageAlong(v) ==
  LET sums[i \in 0..Len(v.effects)] ==
        IF i = 0 THEN ZeroUsage
        ELSE [m \in Meters |-> sums[i - 1][m] + v.effects[i].usage[m]]
  IN sums

One(condition) == IF condition THEN 1 ELSE 0

(* validate_admission; a workflow decision that allows an effect is one    *)
(* that authorizes the mutation, whose code the code compares as well.     *)
AdmittedBefore(ds, e, seq) ==
  LET about == {d \in ds : d.digest = e}
  IN /\ \A d \in about : d.subject = e.subject /\ d.outcome = "allow"
     /\ \A gate \in EffectGates \ (IF e.class = "mutation" THEN {} ELSE {"workflow"}) :
          \E d \in about : d.gate = gate /\ d.seq < seq

(* The body of the loop over the effects, but for the terminal status.     *)
EffectMatches(subject, ds, v, i) ==
  LET r == v.effects[i]
      e == r.request
      current   == SubjectsAlong(subject, v)[i - 1]
      attempted == r.status \in Attempted
  IN /\ \E d \in Firsts(ds) : Place(ds, d) = i /\ d.digest = e
     /\ \A j \in 1..(i - 1) : v.effects[j].request.id # e.id
     /\ e.seq = i
     /\ e.subject = current
     /\ \E d \in ds : d.id = r.decision /\ d.digest = e
     /\ attempted => r.usage["calls"] > 0
     /\ Cardinality(ExecutionsOf(v, e)) = One(attempted)
     /\ \A x \in ExecutionsOf(v, e) : /\ AdmittedBefore(ds, e, x.seq)
                                      /\ x.decision = r.decision
     /\ Cardinality(MutationsOf(v, e)) =
          One(attempted /\ e.class = "mutation" /\ r.post # Null)
     /\ \A m \in MutationsOf(v, e) : m.before = current /\ m.after = r.post

----------------------------------------------------------------------------
(* validate, of the receipt of this run and its evidence, after the receipt*)
(* contract.                                                               *)

Decisions == ledger.log.decisions
Count     == Len(evidence.effects)
Request(i) == evidence.effects[i].request
Matches(i) == EffectMatches(config.subject, Decisions, evidence, i)
SubjectAfter(i) == SubjectsAlong(config.subject, evidence)[i]
EffectUsage(meter) == UsageAlong(evidence)[Count][meter]

Attestable ==
  /\ ledger.log.interrupted => ledger.status = "interrupted"
  /\ Cardinality(Firsts(Decisions)) = Count
  /\ \A i \in 1..Count :
       /\ Matches(i)
       /\ ledger.status = "completed" => evidence.effects[i].status = "executed"
  /\ SubjectAfter(Count) = ledger.current
  /\ \A m \in Meters : EffectUsage(m) <= ledger.usage[m]

----------------------------------------------------------------------------
(* The run was blocked by a proposal out of turn: its sequence, id or      *)
(* subject is not the expected one.                                        *)
OutOfTurn ==
  /\ Count > 0
  /\ evidence.effects[Count].status = "denied"
  /\ \/ Request(Count).seq # Count
     \/ \E j \in 1..(Count - 1) : Request(j).id = Request(Count).id
     \/ Request(Count).subject # ledger.current

(* The effects alone have used more than a receipt can say.                *)
Saturated == \E m \in Meters : EffectUsage(m) > MaxSafe

(* What the engine seals the attestation accepts, on every path and for    *)
(* every terminal status, with two exceptions: a run blocked by a proposal *)
(* out of turn, whose declined effect breaks the order validate_effects    *)
(* insists on, and a run whose usage was capped at the safe integers.      *)
ReceiptAttestable ==
  result = "receipt" => (Attestable <=> ~OutOfTurn /\ ~Saturated)

----------------------------------------------------------------------------
(* The inductive invariant behind it.                                      *)

EvidenceRecord ==
  [effects    : Seq([request : Effects, status : Statuses,
                     post : Subjects \cup {Null}, usage : Usage,
                     decision : Nat]),
   executions : SUBSET [seq : Nat, digest : Effects, decision : Nat],
   mutations  : SUBSET [digest : Effects, before : Subjects, after : Subjects]]

(* The evidence has the requests and results of the ledger, in their order.*)
EvidenceTyped ==
  /\ evidence \in EvidenceRecord
  /\ IsFiniteSet(evidence.mutations)
  /\ Count = Len(ledger.results)
  /\ \A i \in 1..Count : /\ Request(i) = ledger.results[i].effect
                          /\ evidence.effects[i].status = ledger.results[i].status

Requests == {Request(i) : i \in 1..Count}
Open == {"start", "plan"} \cup Running

(* While the run goes on, every decision, execution and mutation is about  *)
(* an effect in the evidence or, if a decision, the one in the executor.   *)
NothingElse ==
  pc \in Open =>
    /\ \A d \in Decisions :
         /\ d.digest \in Requests \/ (pc = "execute" /\ d.digest = pending.effect)
         /\ ~OwnDecision(d)
    /\ \A x \in evidence.executions \cup evidence.mutations : x.digest \in Requests
    /\ \A i \in 1..Count : Request(i).id \in ledger.ids

(* The effects are in their turn, with `waiting' more decided on.          *)
InTurn(waiting) ==
  /\ IsFiniteSet(Firsts(Decisions))
  /\ Cardinality(Firsts(Decisions)) = Count + waiting
  /\ \A i \in 1..Count : Matches(i)
  /\ SubjectAfter(Count) = ledger.current
  /\ \A m \in Meters : EffectUsage(m) <= ledger.usage[m] \/ ledger.usage[m] = MaxSafe

(* They are as long as the run goes on, and the effect in the executor has *)
(* the next turn.  Only a proposal that ended the run may be out of turn.  *)
TurnsKept ==
  /\ pc \in Open => InTurn(One(pc = "execute"))
  /\ pc \in {"observe_agent", "observe_executor", "seal"} \/ result = "receipt" =>
       InTurn(0) \/ OutOfTurn

PendingInTurn ==
  pc = "execute" =>
    LET e == pending.effect
    IN /\ \E d \in Firsts(Decisions) : Place(Decisions, d) = Count + 1 /\ d.digest = e
       /\ e.seq = Count + 1
       /\ \A i \in 1..Count : Request(i).id # e.id
       /\ AdmittedBefore(Decisions, e, ledger.log.seq + 1)

(* An interruption in the ledger is the end of the run, and only a run with*)
(* nothing but executed effects completes.                                 *)
EndsAsLogged ==
  /\ ledger.log.interrupted =>
       pc \in {"seal", "close", "closed"} /\ ending = "interrupted"
  /\ result = "receipt" /\ ledger.status = "completed" => AllExecuted(ledger)

AttestationInvariant ==
  EvidenceTyped /\ NothingElse /\ TurnsKept /\ PendingInTurn /\ EndsAsLogged

=============================================================================
