--------------------------- MODULE AgentRunProofs ---------------------------
(***************************************************************************)
(* The safety of the run engine for every value of the constants: the      *)
(* inductive invariant of AgentRunInvariant, and the properties that follow*)
(* from it.  The first part is about the ledger: what each of its methods  *)
(* keeps and changes.                                                      *)
(***************************************************************************)
EXTENDS AgentRunInvariant, TLAPS

(* The parts of a ledger that are about effects: only an attempt changes   *)
(* them.                                                                   *)
SameEffects(k, l) ==
  /\ k.seen = l.seen
  /\ k.ids = l.ids
  /\ k.digests = l.digests
  /\ k.keys = l.keys
  /\ k.mutationRequired = l.mutationRequired

(* The log grew by one event that is neither a decision, a mutation nor a  *)
(* verification, or it did not grow.                                       *)
SameLog(k, l) ==
  /\ k.decisions = l.decisions
  /\ k.current = l.current
  /\ k.seq \in {l.seq, l.seq + 1}
  /\ k.lastMutation = l.lastMutation
  /\ k.verified = l.verified

LEMMA NextSeq == ASSUME NEW r \in LogRecord PROVE r.seq \in Nat /\ r.seq + 1 \in Nat
  BY DEF LogRecord

LEMMA SoundLog == ASSUME NEW l, Sound(l) PROVE l \in LedgerRecord /\ l.log \in LogRecord
  BY DEF Sound, LedgerRecord

----------------------------------------------------------------------------
(* ledger.transition(to): a legal transition keeps the ledger sound.       *)
LEMMA TransitionLog ==
  ASSUME NEW r \in LogRecord, r.ok, NEW to \in RunStatuses, ValidTransition(r.status, to)
  PROVE  LET k == ReplayTransition(r, r.status, to) IN
         /\ k \in LogRecord /\ k.ok /\ k.status = to /\ k.last = to
         /\ SameLog(k, r) /\ k.seq = r.seq + 1
         /\ k.usage = r.usage /\ k.completion = r.completion
         /\ k.interrupted = r.interrupted
  BY NextSeq DEF ReplayTransition, LogRecord, SameLog

LEMMA TransitionFields ==
  ASSUME NEW l \in LedgerRecord, NEW to \in RunStatuses,
         ReplayTransition(l.log, l.status, to) \in LogRecord
  PROVE  LET k == Transition(l, to) IN
         /\ k \in LedgerRecord /\ k.status = to /\ SameEffects(k, l)
         /\ k.log = ReplayTransition(l.log, l.status, to)
         /\ k.current = l.current /\ k.usage = l.usage /\ k.results = l.results
         /\ k.mutationAuthorized = l.mutationAuthorized
  BY DEF Transition, LedgerRecord, SameEffects

LEMMA TransitionSound ==
  ASSUME NEW l, Sound(l), NEW to \in RunStatuses \ Terminal, ValidTransition(l.status, to)
  PROVE  LET k == Transition(l, to) IN
         /\ Sound(k) /\ k.status = to /\ SameEffects(k, l)
         /\ k.current = l.current /\ k.usage = l.usage /\ k.results = l.results
         /\ k.mutationAuthorized = l.mutationAuthorized
         /\ SameLog(k.log, l.log)
  <1> DEFINE r == ReplayTransition(l.log, l.status, to)
  <1>1. l \in LedgerRecord /\ l.log \in LogRecord /\ l.log.status = l.status /\ l.log.ok
    BY DEF Sound, LedgerRecord
  <1>2. /\ r \in LogRecord /\ r.ok /\ r.status = to /\ SameLog(r, l.log)
        /\ r.seq = l.log.seq + 1
        /\ r.usage = l.log.usage /\ r.completion = l.log.completion
    BY <1>1, TransitionLog
  <1>3. QED BY <1>1, <1>2, TransitionFields, NextSeq DEF Sound, SameLog, LogRecord

----------------------------------------------------------------------------
(* ledger.plan_recorded and ledger.approval_recorded                       *)
LEMMA NoteSound ==
  ASSUME NEW l, Sound(l)
  PROVE  LET k == Note(l) IN
         /\ Sound(k) /\ k.status = l.status /\ SameEffects(k, l)
         /\ k.current = l.current /\ k.usage = l.usage /\ k.results = l.results
         /\ k.mutationAuthorized = l.mutationAuthorized
         /\ SameLog(k.log, l.log)
  <1> DEFINE r == ReplayNote(l.log, TRUE)
  <1>1. l \in LedgerRecord /\ l.log \in LogRecord /\ l.log.ok
    BY DEF Sound, LedgerRecord
  <1>2. /\ r \in LogRecord /\ r.ok /\ r.status = l.log.status /\ SameLog(r, l.log)
        /\ r.seq = l.log.seq + 1
        /\ r.usage = l.log.usage /\ r.completion = l.log.completion
    BY <1>1, NextSeq DEF ReplayNote, LogRecord, SameLog
  <1> HIDE DEF r
  <1>3. LET k == Note(l) IN
        /\ k \in LedgerRecord /\ k.status = l.status /\ k.log = r /\ SameEffects(k, l)
        /\ k.current = l.current /\ k.usage = l.usage /\ k.results = l.results
        /\ k.mutationAuthorized = l.mutationAuthorized
    BY <1>1, <1>2 DEF Note, LedgerRecord, SameEffects, r
  <1>4. QED BY <1>1, <1>2, <1>3, NextSeq DEF Sound, SameLog, LogRecord

(* ledger.interruption and ledger.interruption_from_effect                 *)
LEMMA InterruptSound ==
  ASSUME NEW l, Sound(l)
  PROVE  LET k == Interrupt(l) IN
         /\ Sound(k) /\ k.status = l.status /\ SameEffects(k, l)
         /\ k.current = l.current /\ k.usage = l.usage /\ k.results = l.results
         /\ k.mutationAuthorized = l.mutationAuthorized
         /\ k.log.interrupted
  <1> DEFINE r == ReplayInterruption(l.log)
  <1>1. l \in LedgerRecord /\ l.log \in LogRecord /\ l.log.ok
    BY DEF Sound, LedgerRecord
  <1>2. /\ r \in LogRecord /\ r.ok /\ r.status = l.log.status /\ SameLog(r, l.log)
        /\ r.seq = l.log.seq + 1
        /\ r.usage = l.log.usage /\ r.completion = l.log.completion /\ r.interrupted
    BY <1>1, NextSeq DEF ReplayInterruption, LogRecord, SameLog
  <1> HIDE DEF r
  <1>3. LET k == Interrupt(l) IN
        /\ k \in LedgerRecord /\ k.status = l.status /\ k.log = r /\ SameEffects(k, l)
        /\ k.current = l.current /\ k.usage = l.usage /\ k.results = l.results
        /\ k.mutationAuthorized = l.mutationAuthorized
    BY <1>1, <1>2 DEF Interrupt, LedgerRecord, SameEffects, r
  <1>4. QED BY <1>1, <1>2, <1>3, NextSeq DEF Sound, SameLog, LogRecord

(* ledger.effect_results.push                                              *)
LEMMA PushResultSound ==
  ASSUME NEW l, Sound(l), NEW e \in Effects, NEW status \in Statuses
  PROVE  LET k == PushResult(l, e, status) IN
         /\ Sound(k) /\ k.status = l.status /\ SameEffects(k, l) /\ k.log = l.log
         /\ k.current = l.current /\ k.usage = l.usage
         /\ k.mutationAuthorized = l.mutationAuthorized
  <1>1. l \in LedgerRecord BY DEF Sound
  <1>2. Append(l.results, [effect |-> e, status |-> status])
          \in Seq([effect : Effects, status : Statuses])
    BY <1>1 DEF LedgerRecord
  <1>3. QED BY <1>1, <1>2 DEF PushResult, Sound, LedgerRecord, SameEffects

----------------------------------------------------------------------------
(* A decision that does not authorize completion.                          *)
Ordinary(gate, decision) ==
  ~(/\ gate = "workflow"
    /\ decision.outcome = "allow"
    /\ decision.code = "workflow.completion_authorized")

(* The decision event a ledger is about to push.                           *)
NextDecision(l, gate, digest, decision) ==
  [id |-> DecisionId(l), seq |-> l.log.seq + 1, gate |-> gate, digest |-> digest,
   subject |-> l.current, outcome |-> decision.outcome]

(* ledger.protected_effect_decision under a fresh id                       *)
LEMMA DecideSound ==
  ASSUME NEW l, Sound(l), NEW gate \in EffectGates, NEW e \in Effects,
         NEW decision, decision.outcome \in Outcomes, Ordinary(gate, decision)
  PROVE  LET k == Decide(l, DecisionId(l), gate, e, decision, TRUE) IN
         /\ Sound(k) /\ k.status = l.status /\ SameEffects(k, l)
         /\ k.current = l.current /\ k.usage = l.usage /\ k.results = l.results
         /\ l.mutationAuthorized => k.mutationAuthorized
         /\ gate = "workflow" /\ decision = Allow("workflow.mutation_authorized")
              => k.mutationAuthorized
         /\ k.log.decisions = l.log.decisions \cup {NextDecision(l, gate, e, decision)}
         /\ k.log.seq = l.log.seq + 1
  <1> DEFINE d == NextDecision(l, gate, e, decision)
             r == ReplayDecision(l.log, DecisionId(l), gate, e, l.current, decision, TRUE)
             a == l.mutationAuthorized \/ /\ gate = "workflow"
                                          /\ decision = Allow("workflow.mutation_authorized")
  <1>1. l \in LedgerRecord /\ l.log \in LogRecord /\ l.log.ok /\ l.log.current = l.current
    BY DEF Sound, LedgerRecord
  <1>2. l.log.seq \in Nat /\ l.log.seq + 1 \in Nat /\ l.current \in Subjects
    BY <1>1, NextSeq DEF LedgerRecord
  <1>3. d \in DecisionRecord
    BY <1>2 DEF NextDecision, DecisionId, DecisionRecord
  <1>4. \A x \in l.log.decisions : x.id # DecisionId(l)
    BY <1>2 DEF Sound, DecisionId
  <1>5. d = [id |-> DecisionId(l), seq |-> l.log.seq + 1, gate |-> gate, digest |-> e,
             subject |-> l.current, outcome |-> decision.outcome]
    BY DEF NextDecision
  <1>6. d.id = d.seq /\ d.seq = l.log.seq + 1
    BY <1>5 DEF DecisionId
  <1>7. r = [l.log EXCEPT !.ok = /\ @
                                /\ l.current = l.log.current
                                /\ TRUE
                                /\ \A x \in l.log.decisions : x.id # DecisionId(l),
                          !.seq = @ + 1,
                          !.decisions = @ \cup {d},
                          !.completion = @,
                          !.last = Null]
    BY <1>5, Zenon DEF ReplayDecision, Ordinary
  <1>7a. (/\ l.log.ok
          /\ l.current = l.log.current
          /\ TRUE
          /\ \A x \in l.log.decisions : x.id # DecisionId(l)) = TRUE
    BY <1>1, <1>4
  <1>7b. r = [l.log EXCEPT !.ok = TRUE, !.seq = @ + 1, !.decisions = @ \cup {d},
                           !.completion = @, !.last = Null]
    BY <1>7, <1>7a, Zenon
  <1>7c. l.log.decisions \cup {d} \in SUBSET DecisionRecord
    BY <1>1, <1>3 DEF LogRecord
  <1> HIDE DEF d
  <1> DEFINE ds == l.log.decisions \cup {d}
             n  == l.log.seq + 1
  <1>7d. r = [l.log EXCEPT !.ok = TRUE, !.seq = n, !.decisions = ds,
                           !.completion = @, !.last = Null]
    BY <1>7b
  <1> HIDE DEF r, n, ds
  <1>8. /\ r \in LogRecord /\ r.ok /\ r.status = l.log.status
        /\ r.seq = n /\ r.current = l.log.current
        /\ r.usage = l.log.usage /\ r.completion = l.log.completion
        /\ r.lastMutation = l.log.lastMutation
        /\ r.decisions = ds
    <2>1. n \in Nat /\ ds \in SUBSET DecisionRecord BY <1>2, <1>7c DEF n, ds
    <2>2. QED BY <1>1, <1>7d, <2>1 DEF LogRecord
  <1> USE DEF n, ds
  <1>9. a \in BOOLEAN OBVIOUS
  <1>10. LET k == Decide(l, DecisionId(l), gate, e, decision, TRUE)
         IN k = [l EXCEPT !.log = r, !.mutationAuthorized = a]
    BY DEF Decide, r
  <1> HIDE DEF a
  <1>11. LET k == Decide(l, DecisionId(l), gate, e, decision, TRUE) IN
         /\ k \in LedgerRecord /\ k.status = l.status /\ k.log = r /\ SameEffects(k, l)
         /\ k.current = l.current /\ k.usage = l.usage /\ k.results = l.results
         /\ k.mutationAuthorized = a
    BY <1>1, <1>8, <1>9, <1>10 DEF LedgerRecord, SameEffects
  <1>12. \A x \in r.decisions : x.id = x.seq /\ x.seq \in 1..r.seq
    <2> TAKE x \in r.decisions
    <2>1. CASE x = d BY <2>1, <1>6, <1>8, <1>2
    <2>2. CASE x \in l.log.decisions BY <2>2, <1>8, <1>2 DEF Sound
    <2>3. QED BY <2>1, <2>2, <1>8
  <1>12a. r.lastMutation <= r.seq
    BY <1>1, <1>2, <1>8 DEF Sound, LogRecord
  <1>13. Sound(Decide(l, DecisionId(l), gate, e, decision, TRUE))
    BY <1>1, <1>8, <1>11, <1>12, <1>12a DEF Sound
  <1>14. QED BY <1>8, <1>11, <1>13 DEF a, d

(* ledger.tool_execution for a permission the ledger holds                 *)
LEMMA ToolExecutionSound ==
  ASSUME NEW l, Sound(l), NEW id, NEW e, Authorized(l.log, id, e, "permission")
  PROVE  LET k == ToolExecution(l, id, e) IN
         /\ Sound(k) /\ k.status = l.status /\ SameEffects(k, l)
         /\ k.current = l.current /\ k.usage = l.usage /\ k.results = l.results
         /\ k.mutationAuthorized = l.mutationAuthorized
         /\ k.log.decisions = l.log.decisions /\ k.log.seq = l.log.seq + 1
         /\ k.log.current = l.log.current
  <1> DEFINE r == ReplayToolExecution(l.log, id, e, TRUE)
  <1>1. l \in LedgerRecord /\ l.log \in LogRecord /\ l.log.ok
    BY DEF Sound, LedgerRecord
  <1>2. /\ r \in LogRecord /\ r.ok /\ r.status = l.log.status /\ SameLog(r, l.log)
        /\ r.seq = l.log.seq + 1
        /\ r.usage = l.log.usage /\ r.completion = l.log.completion
    BY <1>1, NextSeq DEF ReplayToolExecution, LogRecord, SameLog
  <1> HIDE DEF r
  <1>3. LET k == ToolExecution(l, id, e) IN
        /\ k \in LedgerRecord /\ k.status = l.status /\ k.log = r /\ SameEffects(k, l)
        /\ k.current = l.current /\ k.usage = l.usage /\ k.results = l.results
        /\ k.mutationAuthorized = l.mutationAuthorized
    BY <1>1, <1>2 DEF ToolExecution, LedgerRecord, SameEffects, r
  <1>4. QED BY <1>1, <1>2, <1>3, NextSeq DEF Sound, SameLog, LogRecord

(* ledger.mutation and the assignment of the new subject                   *)
LEMMA MutateSound ==
  ASSUME NEW l, Sound(l), NEW id, NEW e, Authorized(l.log, id, e, "workflow"),
         NEW after \in Subjects
  PROVE  LET k == Mutate(l, id, e, after) IN
         /\ Sound(k) /\ k.status = l.status /\ SameEffects(k, l)
         /\ k.current = after /\ k.usage = l.usage /\ k.results = l.results
         /\ k.mutationAuthorized = l.mutationAuthorized
  <1> DEFINE r == ReplayMutation(l.log, id, e, l.current, after)
  <1>1. l \in LedgerRecord /\ l.log \in LogRecord /\ l.log.ok /\ l.log.current = l.current
    BY DEF Sound, LedgerRecord
  <1>2. /\ r \in LogRecord /\ r.ok /\ r.status = l.log.status
        /\ r.seq = l.log.seq + 1 /\ r.lastMutation = l.log.seq + 1
        /\ r.current = after /\ r.decisions = l.log.decisions
        /\ r.usage = l.log.usage /\ r.completion = l.log.completion
    BY <1>1, NextSeq DEF ReplayMutation, LogRecord
  <1> HIDE DEF r
  <1>3. LET k == Mutate(l, id, e, after) IN
        /\ k \in LedgerRecord /\ k.status = l.status /\ k.log = r /\ SameEffects(k, l)
        /\ k.current = after /\ k.usage = l.usage /\ k.results = l.results
        /\ k.mutationAuthorized = l.mutationAuthorized
    BY <1>1, <1>2 DEF Mutate, LedgerRecord, SameEffects, r
  <1>4. QED BY <1>1, <1>2, <1>3, NextSeq DEF Sound, LogRecord

----------------------------------------------------------------------------
(* Sums are capped at the safe integer limit and never shrink.             *)
LEMMA CappedUsageSafe ==
  ASSUME NEW a \in [Meters -> 0..MaxSafe], NEW u \in Usage
  PROVE  /\ CappedUsage(a, u) \in [Meters -> 0..MaxSafe]
         /\ \A m \in Meters : a[m] <= CappedUsage(a, u)[m]
  BY MaxSafeAssumption DEF CappedUsage, CappedSum, Usage

LEMMA SafeIsUsage ==
  ASSUME NEW a \in [Meters -> 0..MaxSafe]
  PROVE  a \in Usage /\ SafeUsage(a)
  BY MaxSafeAssumption DEF Usage, SafeUsage

(* ledger.usage_event                                                      *)
LEMMA UsageEventFields ==
  ASSUME NEW l \in LedgerRecord, l.log.ok,
         l.log.usage # Null => UsageIsMonotonic(l.log.usage, l.usage)
  PROVE  LET k == UsageEvent(l) IN
         /\ k \in LedgerRecord /\ k.status = l.status /\ SameEffects(k, l)
         /\ k.current = l.current /\ k.usage = l.usage /\ k.results = l.results
         /\ k.mutationAuthorized = l.mutationAuthorized
         /\ SameLog(k.log, l.log) /\ k.log.ok /\ k.log.usage = l.usage
         /\ k.log.status = l.log.status /\ k.log.completion = l.log.completion
         /\ k.log.interrupted = l.log.interrupted
  <1>1. CASE l.log.usage = l.usage
    BY <1>1 DEF UsageEvent, SameEffects, SameLog
  <1>2. CASE l.log.usage # l.usage
    <2> DEFINE r == ReplayUsage(l.log, l.usage)
    <2>1. l.log \in LogRecord /\ l.usage \in [Meters -> 0..MaxSafe]
      BY DEF LedgerRecord
    <2>2. l.usage \in Usage /\ SafeUsage(l.usage)
      BY <2>1, SafeIsUsage
    <2>3. /\ r \in LogRecord /\ r.ok /\ r.usage = l.usage /\ SameLog(r, l.log)
          /\ r.status = l.log.status /\ r.completion = l.log.completion
          /\ r.interrupted = l.log.interrupted
      BY <2>1, <2>2, NextSeq DEF ReplayUsage, LogRecord, SameLog
    <2>4. UsageEvent(l) = [l EXCEPT !.log = r]
      BY <1>2 DEF UsageEvent
    <2> HIDE DEF r
    <2>5. QED BY <2>3, <2>4 DEF LedgerRecord, SameEffects
  <1>3. QED BY <1>1, <1>2

(* ledger.record_usage and ledger.record_effect_usage                      *)
LEMMA RecordUsageSound ==
  ASSUME NEW l, Sound(l), NEW u \in Usage
  PROVE  LET k == RecordUsage(l, u) IN
         /\ Sound(k) /\ k.status = l.status /\ SameEffects(k, l)
         /\ k.current = l.current /\ k.results = l.results
         /\ k.usage = CappedUsage(l.usage, u)
         /\ k.mutationAuthorized = l.mutationAuthorized
         /\ SameLog(k.log, l.log)
  <1> DEFINE v == CappedUsage(l.usage, u)
             h == [l EXCEPT !.usage = v]
  <1>1. l \in LedgerRecord /\ l.usage \in [Meters -> 0..MaxSafe] /\ l.log \in LogRecord
    BY DEF Sound, LedgerRecord
  <1>2. v \in [Meters -> 0..MaxSafe] /\ \A m \in Meters : l.usage[m] <= v[m]
    BY <1>1, CappedUsageSafe
  <1>3. RecordUsage(l, u) = UsageEvent(h)
    BY DEF RecordUsage
  <1> HIDE DEF v
  <1>4. /\ h \in LedgerRecord /\ h.status = l.status /\ SameEffects(h, l)
        /\ h.current = l.current /\ h.usage = v /\ h.results = l.results
        /\ h.mutationAuthorized = l.mutationAuthorized /\ h.log = l.log
    BY <1>1, <1>2 DEF LedgerRecord, SameEffects
  <1>5. l.log.usage # Null => UsageIsMonotonic(l.log.usage, v)
    <2>1. SUFFICES ASSUME l.log.usage # Null, NEW m \in Meters
                   PROVE  v[m] >= l.log.usage[m]
      BY DEF UsageIsMonotonic
    <2>2. l.log.usage \in Usage
      BY <1>1, <2>1 DEF LogRecord
    <2>3. l.usage[m] >= l.log.usage[m]
      BY <2>1 DEF Sound, UsageIsMonotonic
    <2>4. /\ l.usage[m] \in Nat /\ v[m] \in Nat /\ l.log.usage[m] \in Nat
          /\ l.usage[m] <= v[m]
      BY <1>1, <1>2, <2>2, MaxSafeAssumption DEF Usage
    <2>5. QED BY <2>3, <2>4
  <1> HIDE DEF h
  <1>6. LET k == UsageEvent(h) IN
        /\ k \in LedgerRecord /\ k.status = h.status /\ SameEffects(k, h)
        /\ k.current = h.current /\ k.usage = v /\ k.results = h.results
        /\ k.mutationAuthorized = h.mutationAuthorized
        /\ SameLog(k.log, h.log) /\ k.log.ok /\ k.log.usage = v
        /\ k.log.status = h.log.status /\ k.log.completion = h.log.completion
    BY <1>4, <1>5, UsageEventFields DEF Sound
  <1>7. UsageIsMonotonic(v, v)
    BY <1>2, MaxSafeAssumption DEF UsageIsMonotonic
  <1>8. LET k == RecordUsage(l, u) IN
        /\ k \in LedgerRecord /\ k.status = l.status /\ SameEffects(k, l)
        /\ k.current = l.current /\ k.usage = v /\ k.results = l.results
        /\ k.mutationAuthorized = l.mutationAuthorized
        /\ SameLog(k.log, l.log) /\ k.log.ok /\ k.log.usage = v
        /\ k.log.status = l.log.status /\ k.log.completion = l.log.completion
    BY <1>3, <1>4, <1>6 DEF SameEffects
  <1>9. Sound(RecordUsage(l, u))
    BY <1>1, <1>7, <1>8, NextSeq DEF Sound, SameLog, LogRecord
  <1>10. QED BY <1>8, <1>9 DEF v

(* ledger.accept_effect_identity                                           *)
LEMMA AcceptSound ==
  ASSUME NEW l, Sound(l), NEW e \in Effects
  PROVE  LET k == AcceptEffectIdentity(l, e) IN
         /\ Sound(k) /\ k.status = l.status /\ k.log = l.log
         /\ k.current = l.current /\ k.usage = l.usage /\ k.results = l.results
         /\ k.mutationAuthorized = l.mutationAuthorized
         /\ k.seen = l.seen + 1
         /\ k.ids = l.ids \cup {e.id} /\ k.keys = l.keys \cup {e.key}
         /\ k.mutationRequired = (l.mutationRequired \/ e.class = "mutation")
  <1> DEFINE n == l.seen + 1
             i == l.ids \cup {e.id}
             d == l.digests \cup {e}
             y == l.keys \cup {e.key}
             q == l.mutationRequired \/ e.class = "mutation"
  <1>1. l \in LedgerRecord BY DEF Sound
  <1>2. /\ n \in Nat /\ i \in SUBSET {x.id : x \in Effects} /\ d \in SUBSET Effects
        /\ y \in SUBSET {x.key : x \in Effects} /\ q \in BOOLEAN
    BY <1>1 DEF LedgerRecord
  <1>3. AcceptEffectIdentity(l, e) =
          [l EXCEPT !.seen = n, !.ids = i, !.digests = d, !.keys = y, !.mutationRequired = q]
    BY DEF AcceptEffectIdentity
  <1> HIDE DEF n, i, d, y, q
  <1>4. LET k == AcceptEffectIdentity(l, e) IN
        /\ k \in LedgerRecord /\ k.status = l.status /\ k.log = l.log
        /\ k.current = l.current /\ k.usage = l.usage /\ k.results = l.results
        /\ k.mutationAuthorized = l.mutationAuthorized
        /\ k.seen = n /\ k.ids = i /\ k.keys = y /\ k.mutationRequired = q
    BY <1>1, <1>2, <1>3 DEF LedgerRecord
  <1>5. Sound(AcceptEffectIdentity(l, e))
    BY <1>4 DEF Sound
  <1>6. QED BY <1>4, <1>5 DEF n, i, y, q

----------------------------------------------------------------------------
(* The gates.                                                              *)

(* Every gate returns a decision, and none but the completion boundary     *)
(* returns the completion code.                                            *)
LEMMA GateDecisionType ==
  ASSUME NEW c, NEW l, NEW e, NEW gate \in EffectGates
  PROVE  /\ GateDecision(c, l, e, gate).outcome \in Outcomes
         /\ Ordinary(gate, GateDecision(c, l, e, gate))
  <1>1. EvaluatePermission(PermissionInput(c, e)).outcome \in Outcomes
    BY DEF EvaluatePermission, Allow, Ask, Block, Outcomes
  <1>2. EvaluateToolTrust(ToolTrustInput(c, e)).outcome \in Outcomes
    BY DEF EvaluateToolTrust, Allow, Ask, Block, Outcomes
  <1>3. EvaluateRuntime(RuntimeInput(c, l, e)).outcome \in Outcomes
    BY DEF EvaluateRuntime, Allow, Ask, Block, Outcomes
  <1>4. \A results : /\ WorkflowMutation(results).outcome \in Outcomes
                     /\ WorkflowMutation(results).code # "workflow.completion_authorized"
    BY DEF WorkflowMutation, Allow, Ask, Block, Outcomes
  <1>5. LET w == EvaluateWorkflow(WorkflowMutationInput(c, l, e))
        IN w.outcome \in Outcomes /\ w.code # "workflow.completion_authorized"
    BY <1>4 DEF EvaluateWorkflow, WorkflowMutationInput, Block, Outcomes
  <1>6. QED BY <1>1, <1>2, <1>3, <1>5 DEF GateDecision, EffectGates, Ordinary

(* A gate's decision depends on the ledger through its usage only.         *)
LEMMA GateDecisionFrame ==
  ASSUME NEW c, NEW k, NEW l, NEW e, NEW gate \in EffectGates, k.usage = l.usage
  PROVE  GateDecision(c, k, e, gate) = GateDecision(c, l, e, gate)
  BY Zenon DEF GateDecision, RuntimeInput, WorkflowMutationInput

(* The workflow gate authorizes a mutation with one code only.             *)
LEMMA WorkflowAllows ==
  ASSUME NEW c, NEW l, NEW e, GateDecision(c, l, e, "workflow").outcome = "allow"
  PROVE  GateDecision(c, l, e, "workflow") = Allow("workflow.mutation_authorized")
  <1>1. \A results : WorkflowMutation(results).outcome = "allow" =>
          WorkflowMutation(results) = Allow("workflow.mutation_authorized")
    BY DEF WorkflowMutation, Allow, Ask, Block
  <1>2. QED BY <1>1 DEF GateDecision, EvaluateWorkflow, WorkflowMutationInput, Block

(* The runtime gate allows only what stays below the hard stop.            *)
LEMMA RuntimeAllows ==
  ASSUME NEW c, NEW l, NEW e,
         l.usage["cost"] \in Nat, c.estimate["cost"] \in Nat, c.hardStop \in Nat,
         GateDecision(c, l, e, "runtime").outcome = "allow"
  PROVE  l.usage["cost"] + c.estimate["cost"] < c.hardStop
  <1>1. GateDecision(c, l, e, "runtime") = EvaluateRuntime(RuntimeInput(c, l, e))
    BY DEF GateDecision
  <1>2. ~(RuntimeInput(c, l, e).current + RuntimeInput(c, l, e).next
            >= RuntimeInput(c, l, e).hardStop)
    BY <1>1 DEF EvaluateRuntime, Allow, Ask, Block
  <1>3. QED BY <1>2 DEF RuntimeInput

(* Recording a gate's decision.                                            *)
LEMMA RecordedSound ==
  ASSUME NEW c, NEW l, Sound(l), NEW e \in Effects, NEW gate \in EffectGates
  PROVE  LET k == Recorded(c, l, e, gate) IN
         /\ Sound(k) /\ k.status = l.status /\ SameEffects(k, l)
         /\ k.current = l.current /\ k.usage = l.usage /\ k.results = l.results
         /\ l.mutationAuthorized => k.mutationAuthorized
         /\ gate = "workflow" /\ GateDecision(c, l, e, gate).outcome = "allow"
              => k.mutationAuthorized
         /\ k.log.decisions = l.log.decisions
              \cup {NextDecision(l, gate, e, GateDecision(c, l, e, gate))}
         /\ k.log.seq = l.log.seq + 1
  <1>2. /\ GateDecision(c, l, e, gate).outcome \in Outcomes
        /\ Ordinary(gate, GateDecision(c, l, e, gate))
    BY GateDecisionType
  <1>3. gate = "workflow" /\ GateDecision(c, l, e, gate).outcome = "allow"
          => GateDecision(c, l, e, gate) = Allow("workflow.mutation_authorized")
    BY WorkflowAllows
  <1> DEFINE g == GateDecision(c, l, e, gate)
  <1> HIDE DEF g
  <1>4. LET k == Decide(l, DecisionId(l), gate, e, g, TRUE) IN
        /\ Sound(k) /\ k.status = l.status /\ SameEffects(k, l)
        /\ k.current = l.current /\ k.usage = l.usage /\ k.results = l.results
        /\ l.mutationAuthorized => k.mutationAuthorized
        /\ gate = "workflow" /\ g = Allow("workflow.mutation_authorized")
             => k.mutationAuthorized
        /\ k.log.decisions = l.log.decisions \cup {NextDecision(l, gate, e, g)}
        /\ k.log.seq = l.log.seq + 1
    BY <1>2, DecideSound DEF g
  <1>5. QED BY <1>3, <1>4 DEF Recorded, g

(* What recording a decision leaves as it was.                             *)
Follows(k, l) ==
  /\ Sound(k) /\ k.status = l.status /\ SameEffects(k, l)
  /\ k.current = l.current /\ k.usage = l.usage /\ k.results = l.results
  /\ l.mutationAuthorized => k.mutationAuthorized
  /\ l.log.decisions \subseteq k.log.decisions
  /\ k.log.seq = l.log.seq + 1

LEMMA DecideFollows ==
  ASSUME NEW l, Sound(l), NEW gate \in EffectGates, NEW e \in Effects,
         NEW decision, decision.outcome \in Outcomes, Ordinary(gate, decision)
  PROVE  Follows(Decide(l, DecisionId(l), gate, e, decision, TRUE), l)
  <1> DEFINE k == Decide(l, DecisionId(l), gate, e, decision, TRUE)
  <1>1. /\ Sound(k) /\ k.status = l.status /\ SameEffects(k, l)
        /\ k.current = l.current /\ k.usage = l.usage /\ k.results = l.results
        /\ l.mutationAuthorized => k.mutationAuthorized
        /\ gate = "workflow" /\ decision = Allow("workflow.mutation_authorized")
             => k.mutationAuthorized
        /\ k.log.decisions = l.log.decisions \cup {NextDecision(l, gate, e, decision)}
        /\ k.log.seq = l.log.seq + 1
    BY DecideSound
  <1> HIDE DEF k
  <1>2. QED BY <1>1 DEF Follows, k

LEMMA RecordedFollows ==
  ASSUME NEW c, NEW l, Sound(l), NEW e \in Effects, NEW gate \in EffectGates
  PROVE  Follows(Recorded(c, l, e, gate), l)
  BY RecordedSound DEF Follows

LEMMA RecordedAllows ==
  ASSUME NEW c, NEW l, Sound(l), NEW e \in Effects, NEW gate \in EffectGates
  PROVE  LET k == Recorded(c, l, e, gate) IN
         /\ gate = "workflow" /\ GateDecision(c, l, e, gate).outcome = "allow"
              => k.mutationAuthorized
         /\ NextDecision(l, gate, e, GateDecision(c, l, e, gate)) \in k.log.decisions
  BY RecordedSound

(* An allow in the log authorizes what it was given for.                   *)
LEMMA AllowAuthorizes ==
  ASSUME NEW r, NEW d \in r.decisions, d.seq < r.seq + 1, d.subject = r.current,
         d.outcome = "allow"
  PROVE  Authorized(r, d.id, d.digest, d.gate)
  BY DEF Authorized

(* The ledger with which the executor is called.                           *)
LEMMA GatedSound ==
  ASSUME NEW c, NEW l, Sound(l), NEW e \in Effects, GatesPass(c, l, e),
         e.class \in {"observation", "mutation"}
  PROVE  LET k == GatedLedger(c, l, e) IN
         /\ Sound(k) /\ k.status = l.status /\ SameEffects(k, l)
         /\ k.current = l.current /\ k.usage = l.usage /\ k.results = l.results
         /\ l.mutationAuthorized => k.mutationAuthorized
         /\ e.class = "mutation" => k.mutationAuthorized
         /\ Authorized(k.log, DecisionId(l), e, "permission")
         /\ e.class = "mutation" =>
              Authorized(k.log, DecisionId(RuntimeLedger(c, l, e)), e, "workflow")
         /\ DecisionId(l) \in Nat /\ DecisionId(RuntimeLedger(c, l, e)) \in Nat
         /\ GateDecision(c, l, e, "runtime").outcome = "allow"
  <1> DEFINE p == PermissionLedger(c, l, e)
             t == Recorded(c, p, e, "tool_trust")
             r == Recorded(c, t, e, "runtime")
             w == Recorded(c, r, e, "workflow")
  <1>0. r = RuntimeLedger(c, l, e) /\ w = WorkflowLedger(c, l, e)
    BY DEF ToolTrustLedger, RuntimeLedger, WorkflowLedger
  <1>1. {"permission", "tool_trust", "runtime", "workflow"} \subseteq EffectGates
    BY DEF EffectGates
  <1>2. Follows(p, l)
    BY <1>1, RecordedFollows DEF PermissionLedger
  <1>2a. NextDecision(l, "permission", e, GateDecision(c, l, e, "permission"))
           \in p.log.decisions
    BY <1>1, RecordedAllows DEF PermissionLedger
  <1> HIDE DEF p
  <1>s. \A k, h : Follows(k, h) => Sound(k)
    BY DEF Follows
  <1>3. Follows(t, p)
    BY <1>1, <1>2, <1>s, RecordedFollows
  <1> HIDE DEF t
  <1>4. Follows(r, t)
    BY <1>1, <1>3, <1>s, RecordedFollows
  <1> HIDE DEF r
  <1>5. Follows(w, r)
    BY <1>1, <1>4, <1>s, RecordedFollows
  <1>5a. /\ GateDecision(c, r, e, "workflow").outcome = "allow" => w.mutationAuthorized
         /\ NextDecision(r, "workflow", e, GateDecision(c, r, e, "workflow"))
              \in w.log.decisions
    BY <1>1, <1>4, <1>s, RecordedAllows
  <1> HIDE DEF w
  <1>6. /\ GateDecision(c, l, e, "permission").outcome = "allow"
        /\ GateDecision(c, l, e, "runtime").outcome = "allow"
        /\ e.class = "mutation" => GateDecision(c, l, e, "workflow").outcome = "allow"
    <2>1. GatesOf(e) = IF e.class = "mutation" THEN 1..4 ELSE 1..3
      BY DEF GatesOf
    <2>2. /\ 1 \in GatesOf(e) /\ 3 \in GatesOf(e)
          /\ e.class = "mutation" => 4 \in GatesOf(e)
      BY <2>1
    <2>3. GateOrder[1] = "permission" /\ GateOrder[3] = "runtime" /\ GateOrder[4] = "workflow"
      BY DEF GateOrder
    <2>4. QED BY <2>2, <2>3 DEF GatesPass, GateAllows
  <1>7. e.class = "mutation" => GateDecision(c, r, e, "workflow").outcome = "allow"
    BY <1>1, <1>2, <1>3, <1>4, <1>6, GateDecisionFrame DEF Follows
  <1>8. /\ l.log.seq \in Nat /\ p.log.seq \in Nat /\ t.log.seq \in Nat
        /\ r.log.seq \in Nat /\ w.log.seq \in Nat
        /\ l.log.current = l.current /\ r.log.current = r.current
        /\ w.log.current = w.current
    BY <1>2, <1>3, <1>4, <1>5, SoundLog, NextSeq DEF Sound, Follows
  <1>9. /\ DecisionId(l) = l.log.seq + 1 /\ DecisionId(r) = r.log.seq + 1
        /\ DecisionId(l) \in Nat /\ DecisionId(r) \in Nat
    BY <1>8 DEF DecisionId
  <1> DEFINE d == NextDecision(l, "permission", e, GateDecision(c, l, e, "permission"))
             f == NextDecision(r, "workflow", e, GateDecision(c, r, e, "workflow"))
  <1>10. /\ d.id = DecisionId(l) /\ d.seq = l.log.seq + 1 /\ d.gate = "permission"
         /\ d.digest = e /\ d.subject = l.current /\ d.outcome = "allow"
    BY <1>6 DEF NextDecision
  <1>11. e.class = "mutation" =>
         /\ f.id = DecisionId(r) /\ f.seq = r.log.seq + 1 /\ f.gate = "workflow"
         /\ f.digest = e /\ f.subject = r.current /\ f.outcome = "allow"
    BY <1>7 DEF NextDecision
  <1>12. d \in r.log.decisions /\ d \in w.log.decisions
    BY <1>2a, <1>3, <1>4, <1>5 DEF Follows
  <1>13. f \in w.log.decisions
    BY <1>5a
  <1> HIDE DEF d, f
  <1>14. /\ Authorized(r.log, DecisionId(l), e, "permission")
         /\ Authorized(w.log, DecisionId(l), e, "permission")
         /\ e.class = "mutation" => Authorized(w.log, DecisionId(r), e, "workflow")
    <2>1. l.log.seq + 1 < r.log.seq + 1 /\ l.log.seq + 1 < w.log.seq + 1
          /\ r.log.seq + 1 < w.log.seq + 1
      BY <1>2, <1>3, <1>4, <1>5, <1>8 DEF Follows
    <2>2. r.current = l.current /\ w.current = l.current
      BY <1>2, <1>3, <1>4, <1>5 DEF Follows
    <2>3. QED BY <1>8, <1>10, <1>11, <1>12, <1>13, <2>1, <2>2, AllowAuthorizes
  <1>15. CASE e.class = "mutation"
    <2>1. GatedLedger(c, l, e) = w BY <1>0, <1>15 DEF GatedLedger
    <2>2. QED BY <2>1, <1>2, <1>3, <1>4, <1>5, <1>5a, <1>6, <1>7, <1>9, <1>14, <1>0 DEF SameEffects, Follows
  <1>16. CASE e.class # "mutation"
    <2>1. GatedLedger(c, l, e) = r BY <1>0, <1>16 DEF GatedLedger
    <2>2. QED BY <2>1, <1>16, <1>2, <1>3, <1>4, <1>6, <1>9, <1>14, <1>0 DEF SameEffects, Follows
  <1>17. QED BY <1>15, <1>16

(* The ledger at the gate that stops an effect.                            *)
LEMMA StoppedSound ==
  ASSUME NEW c, NEW l, Sound(l), NEW e \in Effects, NEW gate \in EffectGates
  PROVE  LET k == LedgerThrough(c, l, e, gate) IN
         /\ Sound(k) /\ k.status = l.status /\ SameEffects(k, l)
         /\ k.current = l.current /\ k.results = l.results
         /\ l.mutationAuthorized => k.mutationAuthorized
  <1> DEFINE OK(k) ==
         /\ Sound(k) /\ k.status = l.status /\ SameEffects(k, l)
         /\ k.current = l.current /\ k.results = l.results
         /\ l.mutationAuthorized => k.mutationAuthorized
  <1>1. ASSUME NEW k, OK(k), NEW g \in EffectGates PROVE OK(Recorded(c, k, e, g))
    <2> DEFINE h == Recorded(c, k, e, g)
    <2>0. Sound(k) BY <1>1
    <2>1. Follows(h, k)
      BY <2>0, RecordedFollows
    <2> HIDE DEF h
    <2>2. QED BY <1>1, <2>1 DEF SameEffects, Follows, h
  <1>2. OK(l) BY DEF SameEffects
  <1> HIDE DEF OK
  <1>3. {"permission", "tool_trust", "runtime", "workflow"} = EffectGates
    BY DEF EffectGates
  <1>4. OK(PermissionLedger(c, l, e)) BY <1>1, <1>2, <1>3 DEF PermissionLedger
  <1>5. OK(ToolTrustLedger(c, l, e)) BY <1>1, <1>3, <1>4 DEF ToolTrustLedger
  <1>6. OK(RuntimeLedger(c, l, e)) BY <1>1, <1>3, <1>5 DEF RuntimeLedger
  <1>7. OK(WorkflowLedger(c, l, e)) BY <1>1, <1>3, <1>6 DEF WorkflowLedger
  <1>8. OK(LedgerThrough(c, l, e, gate))
    BY <1>3, <1>4, <1>5, <1>6, <1>7 DEF LedgerThrough
  <1>9. QED BY <1>8 DEF OK

----------------------------------------------------------------------------
(* A ledger finish() can end a run with.                                   *)
Endable(l) == Sound(l) /\ (l.mutationRequired => l.mutationAuthorized)

LEMMA EndableFrame ==
  ASSUME NEW l, NEW k, Endable(l), Sound(k), SameEffects(k, l),
         k.mutationAuthorized = l.mutationAuthorized
  PROVE  Endable(k)
  BY Zenon DEF Endable, SameEffects

LEMMA EndableSound == ASSUME NEW l, Endable(l) PROVE Sound(l)
  BY DEF Endable

LEMMA EndableUsage ==
  ASSUME NEW l, Endable(l), NEW u \in Usage
  PROVE  Endable(RecordUsage(l, u)) /\ RecordUsage(l, u).status = l.status
  <1>1. Sound(l) BY EndableSound
  <1> DEFINE k == RecordUsage(l, u)
  <1>2. /\ Sound(k) /\ SameEffects(k, l) /\ k.mutationAuthorized = l.mutationAuthorized
        /\ k.status = l.status
    BY <1>1, RecordUsageSound
  <1> HIDE DEF k
  <1>3. QED BY <1>2, EndableFrame DEF k

LEMMA EndableObserved ==
  ASSUME NEW l, Endable(l), NEW u \in PortUsages \cup {Null}
  PROVE  Endable(Observed(l, u)) /\ Observed(l, u).status = l.status
  <1>1. CASE u = Null BY <1>1 DEF Observed
  <1>2. CASE u # Null
    <2>1. u \in Usage BY <1>2, UsageAssumption
    <2>2. Observed(l, u) = RecordUsage(l, u) BY <1>2 DEF Observed
    <2>3. QED BY <2>1, <2>2, EndableUsage
  <1>3. QED BY <1>1, <1>2

LEMMA EndableInterrupt ==
  ASSUME NEW l, Endable(l)
  PROVE  Endable(Interrupt(l)) /\ Interrupt(l).log.interrupted
  <1>1. Sound(l) BY EndableSound
  <1> DEFINE k == Interrupt(l)
  <1>2. /\ Sound(k) /\ SameEffects(k, l) /\ k.mutationAuthorized = l.mutationAuthorized
        /\ k.log.interrupted
    BY <1>1, InterruptSound
  <1> HIDE DEF k
  <1>3. QED BY <1>2, EndableFrame DEF k

LEMMA EndableNote ==
  ASSUME NEW l, Endable(l)
  PROVE  Endable(Note(l)) /\ Note(l).status = l.status /\ Note(l).usage = l.usage
  <1>1. Sound(l) BY EndableSound
  <1> DEFINE k == Note(l)
  <1>2. /\ Sound(k) /\ SameEffects(k, l) /\ k.mutationAuthorized = l.mutationAuthorized
        /\ k.status = l.status /\ k.usage = l.usage
    BY <1>1, NoteSound
  <1> HIDE DEF k
  <1>3. QED BY <1>2, EndableFrame DEF k

LEMMA EndableResult ==
  ASSUME NEW l, Endable(l), NEW e \in Effects, NEW status \in Statuses
  PROVE  LET k == PushResult(l, e, status) IN
         /\ Endable(k) /\ k.status = l.status /\ SameEffects(k, l) /\ k.usage = l.usage
         /\ k.log.interrupted = l.log.interrupted
  <1>1. Sound(l) BY EndableSound
  <1> DEFINE k == PushResult(l, e, status)
  <1>2. /\ Sound(k) /\ SameEffects(k, l) /\ k.mutationAuthorized = l.mutationAuthorized
        /\ k.status = l.status /\ k.log = l.log /\ k.usage = l.usage
    BY <1>1, PushResultSound
  <1> HIDE DEF k
  <1>3. QED BY <1>2, EndableFrame DEF k

LEMMA EndableTransition ==
  ASSUME NEW l, Endable(l), NEW to \in RunStatuses \ Terminal, ValidTransition(l.status, to)
  PROVE  LET k == Transition(l, to) IN
         /\ Endable(k) /\ k.status = to /\ SameEffects(k, l) /\ k.usage = l.usage
  <1>1. Sound(l) BY EndableSound
  <1> DEFINE k == Transition(l, to)
  <1>2. /\ Sound(k) /\ SameEffects(k, l) /\ k.mutationAuthorized = l.mutationAuthorized
        /\ k.status = to /\ k.usage = l.usage
    BY <1>1, TransitionSound
  <1> HIDE DEF k
  <1>3. QED BY <1>2, EndableFrame DEF k

(* A decision recorded outside of the gate pipeline.                       *)
LEMMA EndableDecide ==
  ASSUME NEW l, Endable(l), NEW gate \in EffectGates, NEW e \in Effects,
         NEW decision, decision.outcome \in Outcomes, Ordinary(gate, decision)
  PROVE  LET k == Decide(l, DecisionId(l), gate, e, decision, TRUE) IN
         Endable(k) /\ k.status = l.status
  <1>1. Sound(l) BY EndableSound
  <1> DEFINE k == Decide(l, DecisionId(l), gate, e, decision, TRUE)
  <1>2. Follows(k, l) BY <1>1, DecideFollows
  <1> HIDE DEF k
  <1>4. Endable(k) BY <1>2, Zenon DEF Endable, SameEffects, Follows
  <1>5. QED BY <1>2, <1>4 DEF k, Follows

----------------------------------------------------------------------------
(* The ways an engine step can end.                                        *)

(* The engine's ledger can end the run wherever a port call returns.       *)
LEMMA EndableLedger ==
  ASSUME EngineInvariant, pc \notin {"seal", "close", "closed"}
  PROVE  Endable(ledger)
  BY DEF EngineInvariant, LedgerSound, MutationAlwaysAuthorized, Endable

(* finish() called while the engine works on a run.                        *)
LEMMA FinishPreserves ==
  ASSUME EngineInvariant, pc \notin {"start", "seal", "close", "closed"},
         NEW l, Endable(l), NEW s \in {"blocked", "failed", "interrupted"},
         s = "interrupted" => l.log.interrupted,
         Finish(l, s), UNCHANGED <<config, cell, invoked>>,
         metered' \in [Meters -> 0..MaxSafe]
  PROVE  EngineInvariant'
  <1>1. /\ pc' \in {"seal", "observe_agent"} /\ ledger' = l /\ ending' = s
        /\ result' = result /\ config' = config /\ cell' = cell /\ invoked' = invoked
        /\ pc' = "observe_agent" => s \in {"blocked", "failed"}
    BY DEF Finish
  <1>2. Sound(l) BY EndableSound
  <1>3. result = "none" BY DEF EngineInvariant, ErrorsAreFinal
  <1>4. TypeOK'
    BY <1>1, <1>2 DEF EngineInvariant, TypeOK, Sound, PCs, Terminal
  <1>5. LedgerSound'
    BY <1>1, <1>2 DEF LedgerSound, Sound, UsageIsMonotonic
  <1>6. /\ StatusAtCall' /\ BudgetHeld' /\ VerifiedBeforeClaim' /\ IdentitiesKept'
        /\ PendingAuthorized' /\ DispatchFitsBudget' /\ DispatchAuthorized'
    BY <1>1 DEF StatusAtCall, BudgetHeld, VerifiedBeforeClaim, IdentitiesKept,
         PendingAuthorized, DispatchFitsBudget, DispatchAuthorized, Running
  <1>7. ConfigAccepted'
    BY <1>1, <1>3 DEF EngineInvariant, ConfigAccepted, Acceptable, ValidConfig,
         ValidSupport, ValidRequest
  <1>8. /\ ErrorsAreFinal' /\ CellsClaimed' /\ ReceiptAlwaysSeals'
    BY <1>1, <1>3 DEF ErrorsAreFinal, CellsClaimed, ReceiptAlwaysSeals
  <1>9. NoRepeatedDispatch' /\ DispatchBounded'
    BY <1>1 DEF EngineInvariant, NoRepeatedDispatch, DispatchBounded
  <1>10. MutationAlwaysAuthorized'
    BY <1>1, Zenon DEF MutationAlwaysAuthorized, Endable
  <1>11. QED
    BY <1>4, <1>5, <1>6, <1>7, <1>8, <1>9, <1>10 DEF EngineInvariant

(* A `?' that leaves run_inner with an error.                              *)
LEMMA FailPreserves ==
  ASSUME EngineInvariant, pc \notin {"seal", "close", "closed"},
         NEW error \in {"rejected", "result_error"},
         pc = "start" => error = "rejected",
         Fail(error), UNCHANGED <<config, cell, invoked>>,
         metered' \in [Meters -> 0..MaxSafe]
  PROVE  EngineInvariant'
  <1>1. /\ pc' = "close" /\ ledger' = ledger /\ ending' = ending
        /\ result' = error /\ config' = config /\ cell' = cell /\ invoked' = invoked
    BY DEF Fail
  <1>4. TypeOK'
    BY <1>1 DEF EngineInvariant, TypeOK, PCs, Results
  <1>5. LedgerSound'
    BY <1>1 DEF LedgerSound
  <1>6. /\ StatusAtCall' /\ BudgetHeld' /\ VerifiedBeforeClaim' /\ IdentitiesKept'
        /\ PendingAuthorized' /\ DispatchFitsBudget' /\ DispatchAuthorized'
    BY <1>1 DEF StatusAtCall, BudgetHeld, VerifiedBeforeClaim, IdentitiesKept,
         PendingAuthorized, DispatchFitsBudget, DispatchAuthorized, Running
  <1>7. ConfigAccepted'
    <2>1. result = "none" BY DEF EngineInvariant, ErrorsAreFinal
    <2>2. QED
      BY <1>1, <2>1 DEF EngineInvariant, ConfigAccepted, Acceptable, ValidConfig,
         ValidSupport, ValidRequest
  <1>8. /\ ErrorsAreFinal' /\ CellsClaimed' /\ ReceiptAlwaysSeals'
    BY <1>1 DEF EngineInvariant, ErrorsAreFinal, CellsClaimed, ReceiptAlwaysSeals
  <1>9. NoRepeatedDispatch' /\ DispatchBounded'
    BY <1>1 DEF EngineInvariant, NoRepeatedDispatch, DispatchBounded
  <1>10. MutationAlwaysAuthorized'
    BY <1>1, Zenon DEF EngineInvariant, MutationAlwaysAuthorized
  <1>11. QED
    BY <1>4, <1>5, <1>6, <1>7, <1>8, <1>9, <1>10 DEF EngineInvariant

LEMMA MeteredType ==
  ASSUME EngineInvariant, NEW u \in Usage \cup {Null}, Metered(u)
  PROVE  metered' \in [Meters -> 0..MaxSafe]
  <1>1. metered \in [Meters -> 0..MaxSafe] BY DEF EngineInvariant, TypeOK
  <1>2. CASE u = Null BY <1>1, <1>2 DEF Metered
  <1>3. CASE u # Null BY <1>1, <1>3, CappedUsageSafe DEF Metered
  <1>4. QED BY <1>2, <1>3

LEMMA BlockedPreserves ==
  ASSUME EngineInvariant, pc \notin {"start", "seal", "close", "closed"},
         NEW l, Endable(l), l.status \in {"planning", "executing"}, NEW decision,
         BlockedFromDecision(l, decision), UNCHANGED <<config, cell, invoked>>,
         metered' \in [Meters -> 0..MaxSafe]
  PROVE  EngineInvariant'
  <1> DEFINE k == IF decision.outcome = "ask" THEN Transition(l, "awaiting_authority") ELSE l
  <1>1. Endable(k)
    <2>1. /\ "awaiting_authority" \in RunStatuses \ Terminal
          /\ ValidTransition(l.status, "awaiting_authority")
      BY DEF RunStatuses, Terminal, ValidTransition
    <2>2. Endable(Transition(l, "awaiting_authority")) BY <2>1, EndableTransition
    <2>3. QED BY <2>2
  <1>2. Finish(k, "blocked") BY DEF BlockedFromDecision
  <1> HIDE DEF k
  <1>3. QED BY <1>1, <1>2, FinishPreserves

LEMMA RefusePreserves ==
  ASSUME EngineInvariant, pc \in {"step", "execute"},
         NEW l, NEW e \in Effects, NEW gate, NEW decision, NEW intact,
         intact => Endable(l) /\ l.status = "executing",
         Refuse(l, e, gate, decision, intact),
         UNCHANGED <<config, cell, invoked>>, metered' \in [Meters -> 0..MaxSafe]
  PROVE  EngineInvariant'
  <1> DEFINE b == NonExecutionBody(l, e, gate, decision, intact)
             k == PushResult(l, e, b.status)
  <1>1. CASE ~ValidResult(e, b)
    <2>1. Fail("result_error") BY <1>1 DEF Refuse
    <2>2. QED BY <2>1, FailPreserves
  <1>2. CASE ValidResult(e, b)
    <2>1. b.decision.effectsIntact BY <1>2 DEF ValidResult, ValidDecision
    <2>2. intact BY <2>1 DEF NonExecutionBody
    <2>3. b.status \in Statuses
      BY DEF NonExecutionBody, NonExecutionStatus, Statuses, NotExecuted
    <2>4. BlockedFromDecision(k, decision) BY <1>2 DEF Refuse
    <2>5. Endable(k) /\ k.status = "executing"
      BY <2>2, <2>3, EndableResult
    <2> HIDE DEF k
    <2>6. QED BY <2>4, <2>5, BlockedPreserves
  <1>3. QED BY <1>1, <1>2

LEMMA DeclinePreserves ==
  ASSUME EngineInvariant, pc \in {"step", "execute"},
         NEW l, Endable(l), l.status = "executing", NEW e \in Effects,
         NEW gate \in EffectGates, NEW decision, decision.outcome \in Outcomes,
         Ordinary(gate, decision), NEW intact \in BOOLEAN,
         Decline(l, e, gate, decision, intact),
         UNCHANGED <<config, cell, invoked>>, metered' \in [Meters -> 0..MaxSafe]
  PROVE  EngineInvariant'
  <1> DEFINE k == Decide(l, DecisionId(l), gate, e, decision, intact)
  <1>1. intact => Endable(k) /\ k.status = "executing"
    <2>1. SUFFICES ASSUME intact = TRUE PROVE Endable(k) /\ k.status = "executing"
      OBVIOUS
    <2>2. QED BY <2>1, EndableDecide
  <1>2. Refuse(k, e, gate, decision, intact) BY DEF Decline
  <1> HIDE DEF k
  <1>3. QED BY <1>1, <1>2, RefusePreserves

----------------------------------------------------------------------------
(* The actions that end a run, by port call.                               *)

LEMMA PortFailsPreserves ==
  ASSUME EngineInvariant, NEW at \in MeteredCalls, PortFails(at)
  PROVE  EngineInvariant'
  <1>1. pc \in MeteredCalls /\ pc \notin {"start", "seal", "close", "closed"}
    BY DEF PortFails, MeteredCalls
  <1>2. Endable(ledger) BY <1>1, EndableLedger
  <1>3. PICK u \in PortUsages \cup {Null} :
          Finish(Observed(ledger, u), "failed") /\ Metered(u)
    BY DEF PortFails
  <1>4. Endable(Observed(ledger, u)) BY <1>2, EndableObserved
  <1>5. metered' \in [Meters -> 0..MaxSafe]
    BY <1>3, UsageAssumption, MeteredType
  <1>6. UNCHANGED <<config, cell, invoked>> BY DEF PortFails, Untouched
  <1>7. QED BY <1>1, <1>3, <1>4, <1>5, <1>6, FinishPreserves

LEMMA PortOverspendsPreserves ==
  ASSUME EngineInvariant, NEW at \in MeteredCalls, PortOverspends(at)
  PROVE  EngineInvariant'
  <1>1. pc \in MeteredCalls /\ pc \notin {"start", "seal", "close", "closed"}
    BY DEF PortOverspends, MeteredCalls
  <1>2. Endable(ledger) BY <1>1, EndableLedger
  <1>3. PICK u \in PortUsages :
          Finish(RecordUsage(ledger, u), "blocked") /\ Metered(u)
    BY DEF PortOverspends
  <1>4. u \in Usage BY UsageAssumption
  <1>5. Endable(RecordUsage(ledger, u)) BY <1>2, <1>4, EndableUsage
  <1>6. metered' \in [Meters -> 0..MaxSafe]
    BY <1>3, <1>4, MeteredType
  <1>7. UNCHANGED <<config, cell, invoked>> BY DEF PortOverspends, Untouched
  <1>8. QED BY <1>1, <1>3, <1>5, <1>6, <1>7, FinishPreserves

----------------------------------------------------------------------------
(* The answers the engine goes on from.                                    *)

(* The ledger once an affordable answer of a port is accounted for.        *)
LEMMA ReturnedLedger ==
  ASSUME EngineInvariant, NEW at \in MeteredCalls, NEW u \in PortUsages, PortReturns(at, u)
  PROVE  LET l == RecordUsage(ledger, u) IN
         /\ pc = at /\ pc \notin {"start", "seal", "close", "closed"}
         /\ metered' \in [Meters -> 0..MaxSafe]
         /\ Sound(l) /\ Endable(l) /\ l.status = ledger.status /\ SameEffects(l, ledger)
         /\ l.current = ledger.current /\ l.results = ledger.results
         /\ SameLog(l.log, ledger.log)
         /\ WithinBudget(l.usage, config.budget)
  <1> DEFINE l == RecordUsage(ledger, u)
  <1>1. pc = at /\ pc \notin {"start", "seal", "close", "closed"}
    BY DEF PortReturns, MeteredCalls
  <1>2. u \in Usage BY UsageAssumption
  <1>3. metered' \in [Meters -> 0..MaxSafe]
    BY <1>2, MeteredType DEF PortReturns
  <1>4. Endable(ledger) BY <1>1, EndableLedger
  <1>5. Sound(ledger) BY <1>4, EndableSound
  <1>6. Endable(l) BY <1>2, <1>4, EndableUsage
  <1>7. /\ Sound(l) /\ l.status = ledger.status /\ SameEffects(l, ledger)
        /\ l.current = ledger.current /\ l.results = ledger.results
        /\ l.usage = CappedUsage(ledger.usage, u)
        /\ SameLog(l.log, ledger.log)
    BY <1>2, <1>5, RecordUsageSound
  <1>8. WithinBudget(CappedUsage(ledger.usage, u), config.budget)
    BY DEF PortReturns, UsageReason
  <1> HIDE DEF l
  <1>9. QED BY <1>1, <1>3, <1>6, <1>7, <1>8 DEF l

(* A step that goes on to another port call with the same effects.         *)
LEMMA ContinuePreserves ==
  ASSUME EngineInvariant, pc \notin {"start", "seal", "close", "closed"},
         NEW l, Endable(l), NEW at \in Running \ {"execute"}, Continue(l, at),
         UNCHANGED <<config, invoked>>, metered' \in [Meters -> 0..MaxSafe],
         cell' \in [Cells -> {"active", "cancelled", "claimed"}],
         \A k \in Cells : cell[k] = "claimed" => cell'[k] = "claimed",
         WithinBudget(l.usage, config.budget),
         at = "step" => l.status = "executing",
         at # "step" => l.status = "verifying",
         at \in {"check", "claim_agent", "claim_executor"} => FreshVerification(l),
         at = "claim_executor" /\ CellOf["agent"] \in AtomicCells =>
           cell'[CellOf["agent"]] = "claimed",
         Len(invoked) = l.seen,
         \A i \in 1..l.seen : invoked[i].id \in l.ids /\ invoked[i].key \in l.keys
  PROVE  EngineInvariant'
  <1>1. /\ pc' = at /\ ledger' = l /\ ending' = ending
        /\ result' = result /\ config' = config /\ invoked' = invoked
        /\ pc' \in {"step", "verify", "check", "claim_agent", "claim_executor"}
    BY DEF Continue, Running
  <1>2. Sound(l) BY EndableSound
  <1>3. result = "none" BY DEF EngineInvariant, ErrorsAreFinal
  <1>4. TypeOK'
    BY <1>1, <1>2 DEF EngineInvariant, TypeOK, Sound, PCs, MeteredCalls
  <1>5. LedgerSound'
    BY <1>1, <1>2 DEF LedgerSound, Sound, UsageIsMonotonic
  <1>6. StatusAtCall' /\ BudgetHeld'
    BY <1>1 DEF StatusAtCall, BudgetHeld, Running, WithinBudget
  <1>7. VerifiedBeforeClaim'
    BY <1>1 DEF VerifiedBeforeClaim, FreshVerification
  <1>8. IdentitiesKept'
    <2>1. l.seen \in Nat BY <1>2 DEF Sound, LedgerRecord
    <2>2. QED BY <1>1, <2>1 DEF IdentitiesKept
  <1>9. PendingAuthorized' /\ DispatchFitsBudget' /\ DispatchAuthorized'
    BY <1>1 DEF PendingAuthorized, DispatchFitsBudget, DispatchAuthorized
  <1>10. ConfigAccepted'
    BY <1>1, <1>3 DEF EngineInvariant, ConfigAccepted, Acceptable, ValidConfig,
         ValidSupport, ValidRequest
  <1>11. ErrorsAreFinal' /\ ReceiptAlwaysSeals'
    BY <1>1, <1>3 DEF ErrorsAreFinal, ReceiptAlwaysSeals
  <1>12. CellsClaimed'
    <2>1. \A p \in Ports : CellOf[p] \in Cells BY CellAssumption
    <2>2. QED BY <1>1, <1>3, <2>1 DEF EngineInvariant, CellsClaimed
  <1>13. NoRepeatedDispatch' /\ DispatchBounded'
    BY <1>1 DEF EngineInvariant, NoRepeatedDispatch, DispatchBounded
  <1>14. MutationAlwaysAuthorized'
    BY <1>1, Zenon DEF MutationAlwaysAuthorized, Endable
  <1>15. QED
    BY <1>4, <1>5, <1>6, <1>7, <1>8, <1>9, <1>10, <1>11, <1>12, <1>13, <1>14
      DEF EngineInvariant

(* The identities of the effects dispatched before this port call.         *)
LEMMA KnownIdentities ==
  ASSUME EngineInvariant, pc \in {"plan"} \cup (Running \ {"execute"}),
         NEW l, SameEffects(l, ledger)
  PROVE  /\ Len(invoked) = l.seen
         /\ \A i \in 1..l.seen : invoked[i].id \in l.ids /\ invoked[i].key \in l.keys
  <1>1. CASE pc = "plan"
    <2>1. invoked = <<>> /\ l.seen = 0
      BY <1>1 DEF EngineInvariant, StatusAtCall, SameEffects
    <2>2. QED BY <2>1
  <1>2. CASE pc \in Running \ {"execute"}
    <2>1. ledger.seen \in Nat BY DEF EngineInvariant, TypeOK, LedgerRecord
    <2>2. QED BY <1>2, <2>1 DEF EngineInvariant, IdentitiesKept, SameEffects
  <1>3. QED BY <1>1, <1>2

----------------------------------------------------------------------------
(* validate, plan and the answers of next_effect other than an effect.     *)

LEMMA AcceptRunPreserves == ASSUME EngineInvariant, AcceptRun PROVE EngineInvariant'
  <1> DEFINE k == Transition(ledger, "planning")
  <1>1. /\ pc = "start" /\ Acceptable(config) /\ pc' = "plan" /\ ledger' = k
        /\ UNCHANGED <<config, pending, cell, invoked, metered, ending, result>>
    BY DEF AcceptRun, Continue, Untouched
  <1>2. Endable(ledger) BY <1>1, EndableLedger
  <1>3. ledger.status = "accepted" /\ invoked = <<>> /\ ledger.seen = 0 /\ result = "none"
    BY <1>1 DEF EngineInvariant, StatusAtCall, ErrorsAreFinal
  <1>4. /\ "planning" \in RunStatuses \ Terminal
        /\ ValidTransition(ledger.status, "planning")
    BY <1>3 DEF RunStatuses, Terminal, ValidTransition
  <1>5. Endable(k) /\ k.status = "planning" /\ SameEffects(k, ledger)
    BY <1>2, <1>4, EndableTransition
  <1> HIDE DEF k
  <1>6. Sound(k) BY <1>5, EndableSound
  <1>7. TypeOK'
    BY <1>1, <1>6 DEF EngineInvariant, TypeOK, Sound, PCs, MeteredCalls
  <1>8. LedgerSound'
    BY <1>1, <1>6 DEF LedgerSound, Sound, UsageIsMonotonic
  <1>9. StatusAtCall' BY <1>1, <1>3, <1>5 DEF StatusAtCall, SameEffects
  <1>10. /\ BudgetHeld' /\ VerifiedBeforeClaim' /\ IdentitiesKept'
         /\ PendingAuthorized' /\ DispatchFitsBudget' /\ DispatchAuthorized'
    BY <1>1 DEF BudgetHeld, VerifiedBeforeClaim, IdentitiesKept,
         PendingAuthorized, DispatchFitsBudget, DispatchAuthorized, Running
  <1>11. ConfigAccepted'
    BY <1>1 DEF ConfigAccepted, Acceptable, ValidConfig, ValidSupport, ValidRequest
  <1>12. ErrorsAreFinal' /\ CellsClaimed' /\ ReceiptAlwaysSeals'
    BY <1>1, <1>3 DEF EngineInvariant, ErrorsAreFinal, CellsClaimed, ReceiptAlwaysSeals
  <1>13. NoRepeatedDispatch' /\ DispatchBounded'
    BY <1>1 DEF EngineInvariant, NoRepeatedDispatch, DispatchBounded
  <1>14. MutationAlwaysAuthorized'
    BY <1>1, <1>5, Zenon DEF MutationAlwaysAuthorized, Endable
  <1>15. QED
    BY <1>7, <1>8, <1>9, <1>10, <1>11, <1>12, <1>13, <1>14 DEF EngineInvariant

LEMMA RejectRunPreserves == ASSUME EngineInvariant, RejectRun PROVE EngineInvariant'
  <1>1. /\ pc = "start" /\ Fail("rejected") /\ UNCHANGED <<config, cell, invoked>>
        /\ metered' = metered
    BY DEF RejectRun, Untouched
  <1>2. metered' \in [Meters -> 0..MaxSafe] BY <1>1 DEF EngineInvariant, TypeOK
  <1>3. QED BY <1>1, <1>2, FailPreserves

LEMMA PlanBadDigestPreserves == ASSUME EngineInvariant, PlanBadDigest PROVE EngineInvariant'
  <1>1. PICK u \in PortUsages : /\ PortReturns("plan", u) /\ Untouched
                                /\ Finish(RecordUsage(ledger, u), "failed")
    BY DEF PlanBadDigest
  <1>2. "plan" \in MeteredCalls BY DEF MeteredCalls
  <1>3. /\ Endable(RecordUsage(ledger, u)) /\ metered' \in [Meters -> 0..MaxSafe]
        /\ pc \notin {"start", "seal", "close", "closed"}
    BY <1>1, <1>2, ReturnedLedger
  <1>4. UNCHANGED <<config, cell, invoked>> BY <1>1 DEF Untouched
  <1>5. QED BY <1>1, <1>3, <1>4, FinishPreserves

LEMMA PlanLedgerEndable ==
  ASSUME NEW l, Endable(l)
  PROVE  LET k == PlanLedger(l) IN
         Endable(k) /\ k.status = l.status /\ k.usage = l.usage /\ SameEffects(k, l)
  <1>1. \A k, h : Endable(k) /\ h = Note(k) =>
          Endable(h) /\ h.status = k.status /\ h.usage = k.usage /\ SameEffects(h, k)
    BY EndableNote, EndableSound, NoteSound
  <1> DEFINE a == Note(l)
             b == Note(a)
  <1>2. Endable(a) /\ a.status = l.status /\ a.usage = l.usage /\ SameEffects(a, l)
    BY <1>1
  <1> HIDE DEF a
  <1>3. Endable(b) /\ b.status = a.status /\ b.usage = a.usage /\ SameEffects(b, a)
    BY <1>1, <1>2
  <1> HIDE DEF b
  <1>4. PlanLedger(l) \in {a, b} BY DEF PlanLedger, a, b
  <1>5. QED BY <1>2, <1>3, <1>4 DEF SameEffects

LEMMA PlanUnapprovedPreserves ==
  ASSUME EngineInvariant, PlanUnapproved PROVE EngineInvariant'
  <1>1. PICK u \in PortUsages :
          /\ PortReturns("plan", u) /\ Untouched
          /\ BlockedFromDecision(PlanLedger(RecordUsage(ledger, u)), PlanDecision)
    BY DEF PlanUnapproved
  <1> DEFINE l == RecordUsage(ledger, u)
             k == PlanLedger(l)
  <1>2. "plan" \in MeteredCalls BY DEF MeteredCalls
  <1>3. /\ Endable(l) /\ l.status = ledger.status /\ metered' \in [Meters -> 0..MaxSafe]
        /\ pc = "plan" /\ pc \notin {"start", "seal", "close", "closed"}
    BY <1>1, <1>2, ReturnedLedger
  <1>4. ledger.status = "planning" BY <1>3 DEF EngineInvariant, StatusAtCall
  <1>5. BlockedFromDecision(k, PlanDecision) BY <1>1
  <1> HIDE DEF l
  <1>6. Endable(k) /\ k.status = "planning" BY <1>3, <1>4, PlanLedgerEndable
  <1>7. UNCHANGED <<config, cell, invoked>> BY <1>1 DEF Untouched
  <1> HIDE DEF k
  <1>8. QED BY <1>3, <1>5, <1>6, <1>7, BlockedPreserves

LEMMA PlanApprovedPreserves ==
  ASSUME EngineInvariant, PlanApproved PROVE EngineInvariant'
  <1>1. PICK u \in PortUsages :
          /\ PortReturns("plan", u) /\ Untouched
          /\ Continue(Transition(PlanLedger(RecordUsage(ledger, u)), "executing"), "step")
    BY DEF PlanApproved
  <1> DEFINE l == RecordUsage(ledger, u)
             k == PlanLedger(l)
             h == Transition(k, "executing")
  <1>2. "plan" \in MeteredCalls BY DEF MeteredCalls
  <1>3. /\ Endable(l) /\ l.status = ledger.status /\ metered' \in [Meters -> 0..MaxSafe]
        /\ pc = "plan" /\ SameEffects(l, ledger) /\ WithinBudget(l.usage, config.budget)
    BY <1>1, <1>2, ReturnedLedger
  <1>4. ledger.status = "planning" BY <1>3 DEF EngineInvariant, StatusAtCall
  <1>5. Continue(h, "step") BY <1>1
  <1> HIDE DEF l
  <1>6. Endable(k) /\ k.status = "planning" /\ k.usage = l.usage /\ SameEffects(k, l)
    BY <1>3, <1>4, PlanLedgerEndable
  <1> HIDE DEF k
  <1>7. "executing" \in RunStatuses \ Terminal /\ ValidTransition(k.status, "executing")
    BY <1>6 DEF RunStatuses, Terminal, ValidTransition
  <1>8. Endable(h) /\ h.status = "executing" /\ h.usage = k.usage /\ SameEffects(h, k)
    BY <1>6, <1>7, EndableTransition
  <1> HIDE DEF h
  <1>9. SameEffects(h, ledger) BY <1>3, <1>6, <1>8 DEF SameEffects
  <1>10. /\ Len(invoked) = h.seen
         /\ \A i \in 1..h.seen : invoked[i].id \in h.ids /\ invoked[i].key \in h.keys
    BY <1>3, <1>9, KnownIdentities
  <1>11. WithinBudget(h.usage, config.budget) BY <1>3, <1>6, <1>8
  <1>12. /\ UNCHANGED <<config, invoked>>
         /\ cell' \in [Cells -> {"active", "cancelled", "claimed"}]
         /\ \A c \in Cells : cell[c] = "claimed" => cell'[c] = "claimed"
    BY <1>1 DEF Untouched, EngineInvariant, TypeOK
  <1>13. "step" \in Running \ {"execute"} BY DEF Running
  <1>14. pc \notin {"start", "seal", "close", "closed"} BY <1>3
  <1>15. QED
    BY <1>3, <1>5, <1>8, <1>10, <1>11, <1>12, <1>13, <1>14, ContinuePreserves

LEMMA AgentCancelsPreserves ==
  ASSUME EngineInvariant, AgentCancels PROVE EngineInvariant'
  <1>1. PICK u \in PortUsages :
          /\ PortReturns("step", u) /\ Untouched
          /\ Finish(Interrupt(RecordUsage(ledger, u)), "interrupted")
    BY DEF AgentCancels
  <1> DEFINE l == RecordUsage(ledger, u)
             k == Interrupt(l)
  <1>2. "step" \in MeteredCalls BY DEF MeteredCalls
  <1>3. /\ Endable(l) /\ metered' \in [Meters -> 0..MaxSafe]
        /\ pc \notin {"start", "seal", "close", "closed"}
    BY <1>1, <1>2, ReturnedLedger
  <1>4. Finish(k, "interrupted") BY <1>1
  <1> HIDE DEF l
  <1>5. Endable(k) /\ k.log.interrupted BY <1>3, EndableInterrupt
  <1>6. UNCHANGED <<config, cell, invoked>> BY <1>1 DEF Untouched
  <1> HIDE DEF k
  <1>7. QED BY <1>3, <1>4, <1>5, <1>6, FinishPreserves

LEMMA AgentFinishesPreserves ==
  ASSUME EngineInvariant, AgentFinishes PROVE EngineInvariant'
  <1>1. PICK u \in PortUsages :
          /\ PortReturns("step", u) /\ Untouched
          /\ Continue(Transition(RecordUsage(ledger, u), "verifying"), "verify")
    BY DEF AgentFinishes
  <1> DEFINE l == RecordUsage(ledger, u)
             h == Transition(l, "verifying")
  <1>2. "step" \in MeteredCalls BY DEF MeteredCalls
  <1>3. /\ Endable(l) /\ l.status = ledger.status /\ metered' \in [Meters -> 0..MaxSafe]
        /\ pc = "step" /\ SameEffects(l, ledger) /\ WithinBudget(l.usage, config.budget)
    BY <1>1, <1>2, ReturnedLedger
  <1>4. ledger.status = "executing" BY <1>3 DEF EngineInvariant, StatusAtCall
  <1>5. Continue(h, "verify") BY <1>1
  <1> HIDE DEF l
  <1>6. "verifying" \in RunStatuses \ Terminal /\ ValidTransition(l.status, "verifying")
    BY <1>3, <1>4 DEF RunStatuses, Terminal, ValidTransition
  <1>7. Endable(h) /\ h.status = "verifying" /\ h.usage = l.usage /\ SameEffects(h, l)
    BY <1>3, <1>6, EndableTransition
  <1> HIDE DEF h
  <1>8. SameEffects(h, ledger) BY <1>3, <1>7 DEF SameEffects
  <1>9. "verify" \in Running \ {"execute"} /\ pc \in Running \ {"execute"}
    BY <1>3 DEF Running
  <1>10. /\ Len(invoked) = h.seen
         /\ \A i \in 1..h.seen : invoked[i].id \in h.ids /\ invoked[i].key \in h.keys
    BY <1>8, <1>9, KnownIdentities
  <1>11. WithinBudget(h.usage, config.budget) BY <1>3, <1>7
  <1>12. /\ UNCHANGED <<config, invoked>>
         /\ cell' \in [Cells -> {"active", "cancelled", "claimed"}]
         /\ \A c \in Cells : cell[c] = "claimed" => cell'[c] = "claimed"
    BY <1>1 DEF Untouched, EngineInvariant, TypeOK
  <1>13. pc \notin {"start", "seal", "close", "closed"} BY <1>3
  <1>14. QED
    BY <1>3, <1>5, <1>7, <1>9, <1>10, <1>11, <1>12, <1>13, ContinuePreserves

----------------------------------------------------------------------------
(* Proposals.                                                              *)

(* The ledger a proposal is judged with.                                   *)
LEMMA ProposalLedger ==
  ASSUME EngineInvariant, NEW u \in PortUsages, PortReturns("step", u)
  PROVE  LET l == RecordUsage(ledger, u) IN
         /\ pc = "step" /\ metered' \in [Meters -> 0..MaxSafe]
         /\ Sound(l) /\ Endable(l) /\ l.status = "executing" /\ SameEffects(l, ledger)
         /\ l.results = ledger.results /\ WithinBudget(l.usage, config.budget)
  <1> DEFINE l == RecordUsage(ledger, u)
  <1>1. "step" \in MeteredCalls BY DEF MeteredCalls
  <1>2. /\ pc = "step" /\ metered' \in [Meters -> 0..MaxSafe]
        /\ Sound(l) /\ Endable(l) /\ l.status = ledger.status /\ SameEffects(l, ledger)
        /\ l.results = ledger.results /\ WithinBudget(l.usage, config.budget)
    BY <1>1, ReturnedLedger
  <1>3. ledger.status = "executing" BY <1>2 DEF EngineInvariant, StatusAtCall
  <1> HIDE DEF l
  <1>4. QED BY <1>2, <1>3 DEF l

LEMMA BlockDecision ==
  ASSUME NEW code, NEW gate
  PROVE  Block(code).outcome \in Outcomes /\ Ordinary(gate, Block(code))
  BY DEF Block, Outcomes, Ordinary

(* Every proposal that is turned down before the gates.                    *)
LEMMA ProposalDeclined ==
  ASSUME EngineInvariant, NEW e \in Effects, NEW u \in PortUsages,
         \/ ProposeInvalid(e, u, RecordUsage(ledger, u))
         \/ ProposeStale(e, u, RecordUsage(ledger, u))
         \/ ProposeInadmissible(e, u, RecordUsage(ledger, u))
         \/ ProposeUnaffordable(e, u, RecordUsage(ledger, u))
  PROVE  EngineInvariant'
  <1> DEFINE l == RecordUsage(ledger, u)
  <1>1. PortReturns("step", u) /\ UNCHANGED <<config, cell, invoked>>
    BY DEF ProposeInvalid, ProposeStale, ProposeInadmissible, ProposeUnaffordable, Untouched
  <1>2. /\ pc = "step" /\ metered' \in [Meters -> 0..MaxSafe]
        /\ Endable(l) /\ l.status = "executing"
    BY <1>1, ProposalLedger
  <1>3. \/ Finish(l, "failed")
        \/ \E gate \in EffectGates : \E code : Decline(l, e, gate, Block(code), TRUE)
    BY DEF ProposeInvalid, ProposeStale, ProposeInadmissible, ProposeUnaffordable, EffectGates
  <1> HIDE DEF l
  <1>4. CASE Finish(l, "failed") BY <1>1, <1>2, <1>4, FinishPreserves
  <1>5. ASSUME NEW gate \in EffectGates, NEW code, Decline(l, e, gate, Block(code), TRUE)
        PROVE  EngineInvariant'
    <2> DEFINE d == Block(code)
    <2>1. d.outcome \in Outcomes /\ Ordinary(gate, d) BY BlockDecision
    <2>2. Decline(l, e, gate, d, TRUE) BY <1>5
    <2> HIDE DEF d
    <2>3. QED BY <1>1, <1>2, <2>1, <2>2, DeclinePreserves
  <1>6. QED BY <1>3, <1>4, <1>5

LEMMA GateStopsPreserves ==
  ASSUME EngineInvariant, NEW e \in Effects, NEW u \in PortUsages,
         GateStops(e, u, RecordUsage(ledger, u))
  PROVE  EngineInvariant'
  <1> DEFINE l == RecordUsage(ledger, u)
  <1>1. PortReturns("step", u) /\ UNCHANGED <<config, cell, invoked>>
    BY DEF GateStops, Admitted, Untouched
  <1>2. /\ pc = "step" /\ metered' \in [Meters -> 0..MaxSafe]
        /\ Sound(l) /\ Endable(l) /\ l.status = "executing"
    BY <1>1, ProposalLedger
  <1>3. PICK i \in 1..4 :
          Refuse(LedgerThrough(config, l, e, GateOrder[i]), e, GateOrder[i],
                 GateDecision(config, l, e, GateOrder[i]), TRUE)
    BY DEF GateStops
  <1> DEFINE g == GateOrder[i]
             k == LedgerThrough(config, l, e, g)
             d == GateDecision(config, l, e, g)
  <1>4. g \in EffectGates BY DEF GateOrder, EffectGates
  <1>5. Refuse(k, e, g, d, TRUE) BY <1>3
  <1> HIDE DEF l, g
  <1>6. /\ Sound(k) /\ k.status = l.status /\ SameEffects(k, l)
        /\ k.current = l.current /\ k.results = l.results
        /\ l.mutationAuthorized => k.mutationAuthorized
    BY <1>2, <1>4, StoppedSound
  <1> HIDE DEF k, d
  <1>7. Endable(k) BY <1>2, <1>6, Zenon DEF Endable, SameEffects
  <1>8. QED BY <1>1, <1>2, <1>5, <1>6, <1>7, RefusePreserves

(* What the checks before the gates establish.                             *)
LEMMA AdmittedFacts ==
  ASSUME NEW e, NEW u, NEW l, Admitted(e, u, l), l.seen \in Nat, config.maxEffects \in Nat
  PROVE  /\ PortReturns("step", u) /\ e.subject = l.current
         /\ l.seen < config.maxEffects /\ e.id \notin l.ids /\ e.key \notin l.keys
         /\ \A m \in Meters \ {"cost"} :
              ~(l.usage[m] + config.estimate[m] > config.budget[m])
  <1>1. PortReturns("step", u) /\ Current(l, e) /\ Admissible(l, e) /\ Affordable(l)
    BY DEF Admitted
  <1>2. e.subject = l.current BY <1>1 DEF Current
  <1>3. l.seen < config.maxEffects /\ e.id \notin l.ids /\ e.key \notin l.keys
    BY <1>1 DEF Admissible, AdmissionCode
  <1>4. \A m \in Meters \ {"cost"} :
              ~(l.usage[m] + config.estimate[m] > config.budget[m])
    BY <1>1 DEF Affordable, BudgetCode
  <1>5. QED BY <1>1, <1>2, <1>3, <1>4

LEMMA DispatchPreserves ==
  ASSUME EngineInvariant, NEW e \in Effects, NEW u \in PortUsages,
         Dispatch(e, u, RecordUsage(ledger, u))
  PROVE  EngineInvariant'
  <1> DEFINE l == RecordUsage(ledger, u)
             k == GatedLedger(config, l, e)
             a == DecisionId(l)
             w == DecisionId(RuntimeLedger(config, l, e))
  <1>1. /\ Admitted(e, u, l) /\ GatesPass(config, l, e) /\ pc' = "execute" /\ ledger' = k
        /\ pending' = [effect |-> e, permission |-> a, workflow |-> w]
        /\ invoked' = Append(invoked, e)
        /\ UNCHANGED <<ending, result, config, cell>>
    BY DEF Dispatch, Continue
  <1>2. PortReturns("step", u) BY <1>1 DEF Admitted
  <1>3. /\ pc = "step" /\ metered' \in [Meters -> 0..MaxSafe]
        /\ Sound(l) /\ Endable(l) /\ l.status = "executing" /\ SameEffects(l, ledger)
        /\ WithinBudget(l.usage, config.budget)
    BY <1>2, ProposalLedger
  <1> HIDE DEF l
  <1>4. /\ config \in Configs /\ invoked \in Seq(Effects)
        /\ cell \in [Cells -> {"active", "cancelled", "claimed"}]
        /\ ending \in Terminal \cup {"none"}
    BY DEF EngineInvariant, TypeOK
  <1>5. /\ config.maxEffects \in Nat /\ config.hardStop \in Nat
        /\ config.budget \in Usage /\ config.estimate \in Usage
        /\ e.class \in {"observation", "mutation"}
    BY <1>4, ConfigAssumption, EffectAssumption
  <1>6. result = "none" /\ Acceptable(config)
    BY <1>3 DEF EngineInvariant, ErrorsAreFinal, ConfigAccepted
  <1>7. l \in LedgerRecord BY <1>3 DEF Sound
  <1>8. l.seen \in Nat /\ l.usage \in [Meters -> 0..MaxSafe] BY <1>7 DEF LedgerRecord
  <1>9. /\ e.subject = l.current
        /\ l.seen < config.maxEffects /\ e.id \notin l.ids /\ e.key \notin l.keys
        /\ \A m \in Meters \ {"cost"} :
              ~(l.usage[m] + config.estimate[m] > config.budget[m])
    BY <1>1, <1>5, <1>8, AdmittedFacts
  <1>10. /\ Sound(k) /\ k.status = l.status /\ SameEffects(k, l)
         /\ k.current = l.current /\ k.usage = l.usage /\ k.results = l.results
         /\ l.mutationAuthorized => k.mutationAuthorized
         /\ e.class = "mutation" => k.mutationAuthorized
         /\ Authorized(k.log, a, e, "permission")
         /\ e.class = "mutation" => Authorized(k.log, w, e, "workflow")
         /\ a \in Nat /\ w \in Nat
         /\ GateDecision(config, l, e, "runtime").outcome = "allow"
    BY <1>1, <1>3, <1>5, GatedSound
  <1> HIDE DEF k, a, w
  <1>11. k \in LedgerRecord BY <1>10 DEF Sound
  <1>12. /\ pending' \in [effect : Effects, permission : Nat, workflow : Nat]
         /\ pending'.effect = e /\ pending'.permission = a /\ pending'.workflow = w
    BY <1>1, <1>10
  <1>13. /\ invoked' \in Seq(Effects) /\ Len(invoked') = Len(invoked) + 1
         /\ invoked'[Len(invoked) + 1] = e
         /\ \A i \in 1..Len(invoked) : invoked'[i] = invoked[i]
    BY <1>1, <1>4
  <1>14. /\ Len(invoked) = l.seen
         /\ \A i \in 1..l.seen : invoked[i].id \in l.ids /\ invoked[i].key \in l.keys
    <2>1. pc \in Running \ {"execute"} BY <1>3 DEF Running
    <2>2. QED BY <1>3, <2>1, KnownIdentities
  <1>15. TypeOK'
    BY <1>1, <1>3, <1>4, <1>6, <1>11, <1>12, <1>13 DEF TypeOK, PCs, Results
  <1>16. LedgerSound'
    BY <1>1, <1>10 DEF LedgerSound, Sound, UsageIsMonotonic
  <1>17. StatusAtCall' BY <1>1, <1>3, <1>10 DEF StatusAtCall
  <1>18. ConfigAccepted'
    BY <1>1, <1>6 DEF ConfigAccepted, Acceptable, ValidConfig, ValidSupport, ValidRequest
  <1>19. BudgetHeld' BY <1>1, <1>3, <1>10 DEF BudgetHeld, WithinBudget
  <1>20. IdentitiesKept'
    <2>1. k.seen = l.seen /\ k.ids = l.ids /\ k.keys = l.keys BY <1>10 DEF SameEffects
    <2>2. \A i \in 1..k.seen : invoked'[i].id \in k.ids /\ invoked'[i].key \in k.keys
      BY <1>13, <1>14, <2>1
    <2>3. QED BY <1>1, <1>9, <1>12, <1>13, <1>14, <2>1, <2>2 DEF IdentitiesKept
  <1>21. DispatchFitsBudget'
    <2>1. SUFFICES ASSUME NEW m \in Meters
                   PROVE  k.usage[m] + config.estimate[m] <= config.budget[m]
      BY <1>1 DEF DispatchFitsBudget
    <2>2. l.usage[m] \in Nat /\ config.estimate[m] \in Nat /\ config.budget[m] \in Nat
      BY <1>5, <1>8 DEF Usage
    <2>3. CASE m # "cost" BY <1>9, <1>10, <2>2, <2>3
    <2>4. CASE m = "cost"
      <3>1. config.hardStop <= config.budget["cost"]
        BY <1>6 DEF Acceptable, ValidConfig
      <3>2. l.usage["cost"] + config.estimate["cost"] < config.hardStop
        BY <1>5, <1>10, <2>2, <2>4, RuntimeAllows
      <3>3. QED BY <1>5, <1>10, <2>2, <2>4, <3>1, <3>2
    <2>5. QED BY <2>3, <2>4
  <1>22. DispatchAuthorized'
    BY <1>1, <1>9, <1>10, <1>12 DEF DispatchAuthorized, Authorized
  <1>23. PendingAuthorized' BY <1>1, <1>10, <1>12 DEF PendingAuthorized
  <1>24. NoRepeatedDispatch'
    <2>1. \A i, j \in 1..Len(invoked) :
            i # j => invoked[i].id # invoked[j].id /\ invoked[i].key # invoked[j].key
      BY <1>4 DEF EngineInvariant, NoRepeatedDispatch
    <2>2. \A i \in 1..Len(invoked) : invoked[i].id # e.id /\ invoked[i].key # e.key
      BY <1>9, <1>14
    <2>3. DOMAIN invoked' = 1..(Len(invoked) + 1) BY <1>13
    <2>4. QED BY <1>13, <1>14, <1>8, <2>1, <2>2, <2>3 DEF NoRepeatedDispatch
  <1>25. DispatchBounded'
    BY <1>1, <1>5, <1>8, <1>9, <1>13, <1>14 DEF DispatchBounded
  <1>26. ErrorsAreFinal' /\ ReceiptAlwaysSeals' /\ VerifiedBeforeClaim' /\ CellsClaimed'
    BY <1>1, <1>6 DEF EngineInvariant, ErrorsAreFinal, ReceiptAlwaysSeals,
         VerifiedBeforeClaim, CellsClaimed
  <1>27. MutationAlwaysAuthorized'
    BY <1>1, <1>3, <1>10, Zenon DEF MutationAlwaysAuthorized, Endable, SameEffects
  <1>28. QED
    BY <1>15, <1>16, <1>17, <1>18, <1>19, <1>20, <1>21, <1>22, <1>23, <1>24, <1>25,
       <1>26, <1>27 DEF EngineInvariant

LEMMA ProposePreserves == ASSUME EngineInvariant, Propose PROVE EngineInvariant'
  BY ProposalDeclined, GateStopsPreserves, DispatchPreserves DEF Propose

----------------------------------------------------------------------------
(* The answers of execute.                                                 *)

(* What holds while the executor works on an effect.                       *)
LEMMA PendingFacts ==
  ASSUME EngineInvariant, pc = "execute"
  PROVE  /\ Sound(ledger) /\ Endable(ledger) /\ ledger.status = "executing"
         /\ pending.effect \in Effects
         /\ pending.effect.class \in {"observation", "mutation"}
         /\ Authorized(ledger.log, pending.permission, pending.effect, "permission")
         /\ pending.effect.class = "mutation" =>
              Authorized(ledger.log, pending.workflow, pending.effect, "workflow")
         /\ pending.effect.class = "mutation" => ledger.mutationAuthorized
  <1>1. Endable(ledger) BY EndableLedger
  <1>2. Sound(ledger) BY <1>1, EndableSound
  <1>3. ledger.status = "executing" BY DEF EngineInvariant, StatusAtCall
  <1>4. pending.effect \in Effects BY DEF EngineInvariant, TypeOK
  <1>5. pending.effect.class \in {"observation", "mutation"} BY <1>4, EffectAssumption
  <1>6. /\ Authorized(ledger.log, pending.permission, pending.effect, "permission")
        /\ pending.effect.class = "mutation" =>
             Authorized(ledger.log, pending.workflow, pending.effect, "workflow")
    BY DEF EngineInvariant, DispatchAuthorized
  <1>7. pending.effect.class = "mutation" => ledger.mutationAuthorized
    BY DEF EngineInvariant, PendingAuthorized
  <1>8. QED BY <1>1, <1>2, <1>3, <1>4, <1>5, <1>6, <1>7

LEMMA AtLeastOneCallUsage == ASSUME NEW u \in Usage PROVE AtLeastOneCall(u) \in Usage
  BY MeterAssumption DEF AtLeastOneCall, Usage

(* An authorization outlives an event that keeps decisions and subject.    *)
LEMMA AuthorizedLater ==
  ASSUME NEW r, NEW q, q.decisions = r.decisions, q.current = r.current,
         q.seq = r.seq + 1, r.seq \in Nat, \A d \in r.decisions : d.seq \in Nat,
         NEW id, NEW digest, NEW gate, Authorized(r, id, digest, gate)
  PROVE  Authorized(q, id, digest, gate)
  BY DEF Authorized

(* The ledger of an attempt that was reported: its identity, its execution *)
(* and its change of the subject recorded, its usage added.                *)
LEMMA AttemptSound ==
  ASSUME EngineInvariant, pc = "execute", NEW b,
         b.post \in Subjects \cup {Null}, b.usage \in Usage
  PROVE  LET k == AttemptLedger(ledger, pending, b) IN
         /\ Endable(k) /\ k.status = "executing" /\ k.seen = ledger.seen + 1
         /\ k.ids = ledger.ids \cup {pending.effect.id}
         /\ k.keys = ledger.keys \cup {pending.effect.key}
         /\ k.usage = CappedUsage(ledger.usage, b.usage)
  <1> DEFINE e == pending.effect
             a == AcceptEffectIdentity(ledger, e)
             t == ToolExecution(a, pending.permission, e)
             m == Mutate(t, pending.workflow, e, b.post)
             c == IF b.post # Null /\ e.class = "mutation" THEN m ELSE t
             k == RecordUsage(c, b.usage)
  <1>0. AttemptLedger(ledger, pending, b) = k BY DEF AttemptLedger
  <1>1. /\ Sound(ledger) /\ Endable(ledger) /\ ledger.status = "executing"
        /\ e \in Effects /\ e.class \in {"observation", "mutation"}
        /\ Authorized(ledger.log, pending.permission, e, "permission")
        /\ e.class = "mutation" => Authorized(ledger.log, pending.workflow, e, "workflow")
        /\ e.class = "mutation" => ledger.mutationAuthorized
    BY PendingFacts
  <1> HIDE DEF e
  <1>2. /\ Sound(a) /\ a.status = ledger.status /\ a.log = ledger.log
        /\ a.usage = ledger.usage
        /\ a.mutationAuthorized = ledger.mutationAuthorized
        /\ a.seen = ledger.seen + 1
        /\ a.ids = ledger.ids \cup {e.id} /\ a.keys = ledger.keys \cup {e.key}
        /\ a.mutationRequired = (ledger.mutationRequired \/ e.class = "mutation")
    BY <1>1, AcceptSound
  <1> HIDE DEF a
  <1>3. Endable(a) BY <1>1, <1>2, Zenon DEF Endable
  <1>4. /\ Sound(t) /\ t.status = a.status /\ SameEffects(t, a) /\ t.usage = a.usage
        /\ t.mutationAuthorized = a.mutationAuthorized
        /\ t.log.decisions = a.log.decisions /\ t.log.seq = a.log.seq + 1
        /\ t.log.current = a.log.current
    BY <1>1, <1>2, ToolExecutionSound
  <1> HIDE DEF t
  <1>5. Endable(t) BY <1>3, <1>4, EndableFrame
  <1>6. e.class = "mutation" => Authorized(t.log, pending.workflow, e, "workflow")
    <2>1. a.log.seq \in Nat /\ \A d \in a.log.decisions : d.seq \in Nat
      BY <1>2, SoundLog DEF LogRecord, DecisionRecord
    <2>2. e.class = "mutation" => Authorized(a.log, pending.workflow, e, "workflow")
      BY <1>1, <1>2
    <2>3. QED BY <1>4, <2>1, <2>2, AuthorizedLater
  <1>7. Endable(c) /\ c.status = t.status /\ SameEffects(c, t) /\ c.usage = t.usage
    <2>1. CASE b.post # Null /\ e.class = "mutation"
      <3>1. b.post \in Subjects BY <2>1
      <3>2. /\ Sound(m) /\ m.status = t.status /\ SameEffects(m, t) /\ m.usage = t.usage
            /\ m.mutationAuthorized = t.mutationAuthorized
        BY <1>4, <1>6, <2>1, <3>1, MutateSound
      <3>3. c = m BY <2>1
      <3> HIDE DEF m, c
      <3>4. Endable(m) BY <1>5, <3>2, EndableFrame
      <3>5. QED BY <3>2, <3>3, <3>4
    <2>2. CASE ~(b.post # Null /\ e.class = "mutation")
      <3>1. c = t BY <2>2
      <3> HIDE DEF c
      <3>2. QED BY <1>5, <3>1 DEF SameEffects
    <2>3. QED BY <2>1, <2>2
  <1> HIDE DEF c
  <1>8. Sound(c) BY <1>7, EndableSound
  <1>9. /\ k.status = c.status /\ SameEffects(k, c)
        /\ k.usage = CappedUsage(c.usage, b.usage)
    BY <1>8, RecordUsageSound
  <1>10. Endable(k) BY <1>7, EndableUsage
  <1> HIDE DEF k
  <1>11. QED
    BY <1>0, <1>1, <1>2, <1>4, <1>7, <1>9, <1>10 DEF SameEffects, e

LEMMA FlooredFields ==
  ASSUME NEW o \in Observations
  PROVE  LET f == Floored(o) IN
         /\ f.status = o.status /\ f.status \in Statuses
         /\ f.post = o.post /\ f.post \in Subjects \cup {Null, Malformed}
         /\ f.usage \in Usage
  <1> DEFINE u == AtLeastOneCall(o.usage)
             v == IF o.usage["calls"] = 0 THEN o.evidence \cup {"usage"} ELSE o.evidence
  <1>1. o.usage \in Usage BY ObservationAssumption
  <1>2. u \in Usage BY <1>1, AtLeastOneCallUsage
  <1>3. Floored(o) = [o EXCEPT !.usage = u, !.evidence = v]
    BY Zenon DEF Floored
  <1> HIDE DEF u, v
  <1>4. QED BY <1>2, <1>3, ObservationAssumption

LEMMA ObservedBodyFields ==
  ASSUME NEW l, NEW e, NEW o \in Observations, ValidResult(e, ObservedBody(l, e, Floored(o)))
  PROVE  LET b == ObservedBody(l, e, Floored(o)) IN
         /\ b.status = o.status /\ b.status \in Statuses
         /\ b.post \in Subjects \cup {Null} /\ b.usage \in Usage
  <1> DEFINE f == Floored(o)
             b == ObservedBody(l, e, f)
  <1>1. /\ f.status = o.status /\ f.status \in Statuses
        /\ f.post \in Subjects \cup {Null, Malformed} /\ f.usage \in Usage
    BY FlooredFields
  <1> HIDE DEF f
  <1>2. b.status = f.status /\ b.post = f.post /\ b.usage = f.usage
    BY DEF ObservedBody, AttemptBody
  <1>3. b.post # Malformed BY DEF ValidResult, f
  <1> HIDE DEF b
  <1>4. QED BY <1>1, <1>2, <1>3 DEF b, f

LEMMA UntrustedBodyFields ==
  ASSUME NEW l, NEW e, NEW o \in Observations, NEW kept
  PROVE  LET b == UntrustedBody(l, e, Floored(o), kept) IN
         /\ b.status \in Statuses
         /\ b.post \in Subjects \cup {Null} /\ b.usage \in Usage
  <1> DEFINE f == Floored(o)
             b == UntrustedBody(l, e, f, kept)
             v == [m \in Meters |-> IF f.usage[m] > MaxSafe THEN MaxSafe ELSE f.usage[m]]
  <1>1. f.post \in Subjects \cup {Null, Malformed} /\ f.usage \in Usage
    BY FlooredFields
  <1> HIDE DEF f
  <1>2. /\ b.status = "unknown_outcome" /\ b.post = UsablePost(e, f.post)
        /\ b.usage = v
    BY DEF UntrustedBody, AttemptBody
  <1>3. v \in Usage BY <1>1, MaxSafeAssumption DEF Usage
  <1>4. UsablePost(e, f.post) \in Subjects \cup {Null} BY <1>1 DEF UsablePost
  <1> HIDE DEF b, v
  <1>5. QED BY <1>2, <1>3, <1>4 DEF Statuses, Attempted, b, f

LEMMA ExecuteNotDispatchedPreserves ==
  ASSUME EngineInvariant, ExecuteNotDispatched PROVE EngineInvariant'
  <1>1. pc = "execute" /\ UNCHANGED <<config, cell, invoked>>
    BY DEF ExecuteNotDispatched, Untouched
  <1>2. PICK u \in PortUsages \cup {Null}, blank \in BOOLEAN :
          /\ Decline(Observed(ledger, u), pending.effect, "permission",
                     Block("executor.not_dispatched"), ~blank)
          /\ Metered(u)
    BY DEF ExecuteNotDispatched
  <1> DEFINE l == Observed(ledger, u)
             d == Block("executor.not_dispatched")
             i == ~blank
  <1>3. Endable(ledger) /\ ledger.status = "executing" /\ pending.effect \in Effects
    BY <1>1, PendingFacts
  <1>4. Endable(l) /\ l.status = "executing" BY <1>3, EndableObserved
  <1>5. metered' \in [Meters -> 0..MaxSafe]
    BY <1>2, UsageAssumption, MeteredType
  <1>6. d.outcome \in Outcomes /\ Ordinary("permission", d) BY BlockDecision
  <1>7. Decline(l, pending.effect, "permission", d, i) /\ i \in BOOLEAN BY <1>2
  <1>8. "permission" \in EffectGates BY DEF EffectGates
  <1> HIDE DEF l, d, i
  <1>9. QED BY <1>1, <1>3, <1>4, <1>5, <1>6, <1>7, <1>8, DeclinePreserves

LEMMA ExecuteDeclinesPreserves ==
  ASSUME EngineInvariant, ExecuteDeclines PROVE EngineInvariant'
  <1>1. pc = "execute" /\ UNCHANGED <<config, cell, invoked>>
    BY DEF ExecuteDeclines, Untouched
  <1>2. PICK o \in Observations :
          /\ Decline(RecordUsage(ledger, o.usage), pending.effect, "permission",
                     ExecutorDecision(o), TRUE)
          /\ Metered(o.usage)
    BY DEF ExecuteDeclines
  <1> DEFINE l == RecordUsage(ledger, o.usage)
             d == ExecutorDecision(o)
  <1>3. Endable(ledger) /\ ledger.status = "executing" /\ pending.effect \in Effects
    BY <1>1, PendingFacts
  <1>4. o.usage \in Usage BY ObservationAssumption
  <1>5. Endable(l) /\ l.status = "executing" BY <1>3, <1>4, EndableUsage
  <1>6. metered' \in [Meters -> 0..MaxSafe] BY <1>2, <1>4, MeteredType
  <1>7. d.outcome \in Outcomes /\ Ordinary("permission", d)
    BY DEF ExecutorDecision, Ask, Block, Outcomes, Ordinary
  <1>8. Decline(l, pending.effect, "permission", d, TRUE) BY <1>2
  <1>9. "permission" \in EffectGates BY DEF EffectGates
  <1> HIDE DEF l, d
  <1>10. QED BY <1>1, <1>3, <1>5, <1>6, <1>7, <1>8, <1>9, DeclinePreserves

LEMMA ExecuteLostPreserves ==
  ASSUME EngineInvariant, ExecuteLost PROVE EngineInvariant'
  <1>1. pc = "execute" /\ UNCHANGED <<config, cell, invoked>>
    BY DEF ExecuteLost, Untouched
  <1>2. PICK u \in PortUsages \cup {Null}, ev \in LostEvidence :
          LET b == LostBody(ledger, pending.effect, u, ev)
              l == ToolExecution(ledger, pending.permission, pending.effect)
          IN /\ Finish(PushResult(RecordUsage(l, b.usage), pending.effect, b.status),
                       IF UsageReason(l, b.usage, config.budget) # "none"
                         THEN "blocked" ELSE "failed")
             /\ Metered(u)
    BY DEF ExecuteLost
  <1> DEFINE b == LostBody(ledger, pending.effect, u, ev)
             l == ToolExecution(ledger, pending.permission, pending.effect)
             h == RecordUsage(l, b.usage)
             k == PushResult(h, pending.effect, b.status)
             s == IF UsageReason(l, b.usage, config.budget) # "none"
                    THEN "blocked" ELSE "failed"
  <1>3. /\ Sound(ledger) /\ Endable(ledger) /\ pending.effect \in Effects
        /\ Authorized(ledger.log, pending.permission, pending.effect, "permission")
    BY <1>1, PendingFacts
  <1>4. b.usage \in Usage /\ b.status \in Statuses
    <2>1. ZeroUsage \in Usage BY DEF ZeroUsage, Usage
    <2>2. (IF u = Null THEN ZeroUsage ELSE u) \in Usage BY <2>1, UsageAssumption
    <2>3. AtLeastOneCall(IF u = Null THEN ZeroUsage ELSE u) \in Usage
      BY <2>2, AtLeastOneCallUsage
    <2>4. QED BY <2>3 DEF LostBody, AttemptBody, Statuses, Attempted
  <1>5. Finish(k, s) /\ Metered(u) /\ s \in {"blocked", "failed"} BY <1>2
  <1> HIDE DEF b
  <1>6. /\ Sound(l) /\ SameEffects(l, ledger)
        /\ l.mutationAuthorized = ledger.mutationAuthorized
    BY <1>3, ToolExecutionSound
  <1> HIDE DEF l, s
  <1>7. Endable(l) BY <1>3, <1>6, EndableFrame
  <1>8. Endable(h) BY <1>4, <1>7, EndableUsage
  <1> HIDE DEF h
  <1>9. Endable(k) BY <1>3, <1>4, <1>8, EndableResult
  <1> HIDE DEF k
  <1>10. metered' \in [Meters -> 0..MaxSafe] BY <1>5, UsageAssumption, MeteredType
  <1>11. QED BY <1>1, <1>5, <1>9, <1>10, FinishPreserves

LEMMA ExecuteUntrustedPreserves ==
  ASSUME EngineInvariant, ExecuteUntrusted PROVE EngineInvariant'
  <1>1. pc = "execute" /\ UNCHANGED <<config, cell, invoked>>
    BY DEF ExecuteUntrusted, Untouched
  <1>2. PICK o \in Observations : \E kept \in KeptEvidence(Floored(o)) :
          LET b == UntrustedBody(ledger, pending.effect, Floored(o), kept)
          IN /\ Finish(PushResult(AttemptLedger(ledger, pending, b), pending.effect,
                                  b.status), "failed")
             /\ Metered(o.usage)
    BY DEF ExecuteUntrusted
  <1>3. PICK kept :
          LET b == UntrustedBody(ledger, pending.effect, Floored(o), kept)
          IN /\ Finish(PushResult(AttemptLedger(ledger, pending, b), pending.effect,
                                  b.status), "failed")
             /\ Metered(o.usage)
    BY <1>2
  <1> DEFINE b == UntrustedBody(ledger, pending.effect, Floored(o), kept)
             l == AttemptLedger(ledger, pending, b)
             k == PushResult(l, pending.effect, b.status)
  <1>4. b.status \in Statuses /\ b.post \in Subjects \cup {Null} /\ b.usage \in Usage
    BY UntrustedBodyFields
  <1>5. Finish(k, "failed") /\ Metered(o.usage) BY <1>3
  <1> HIDE DEF b
  <1>6. Endable(l) BY <1>1, <1>4, AttemptSound
  <1> HIDE DEF l
  <1>7. pending.effect \in Effects BY <1>1, PendingFacts
  <1>8. Endable(k) BY <1>4, <1>6, <1>7, EndableResult
  <1> HIDE DEF k
  <1>9. metered' \in [Meters -> 0..MaxSafe]
    <2>1. o.usage \in Usage BY ObservationAssumption
    <2>2. QED BY <1>5, <2>1, MeteredType
  <1>10. QED BY <1>1, <1>5, <1>8, <1>9, FinishPreserves

LEMMA ExecuteUnsealablePreserves ==
  ASSUME EngineInvariant, ExecuteUnsealable PROVE EngineInvariant'
  <1>1. /\ pc = "execute" /\ UNCHANGED <<config, cell, invoked>> /\ Fail("result_error")
        /\ \/ \E u \in PortUsages \cup {Null} : Metered(u)
           \/ \E o \in Observations : Metered(o.usage)
    BY DEF ExecuteUnsealable, Untouched
  <1>2. metered' \in [Meters -> 0..MaxSafe]
    <2>1. \A o \in Observations : o.usage \in Usage BY ObservationAssumption
    <2>2. \E u \in Usage \cup {Null} : Metered(u) BY <1>1, <2>1, UsageAssumption
    <2>3. QED BY <2>2, MeteredType
  <1>3. QED BY <1>1, <1>2, FailPreserves

(* An executed effect within budget: the only way back to the loop.        *)
LEMMA ExecutedContinues ==
  ASSUME EngineInvariant, pc = "execute", UNCHANGED <<config, cell, invoked>>,
         metered' \in [Meters -> 0..MaxSafe],
         NEW b, b.status \in Statuses, b.post \in Subjects \cup {Null}, b.usage \in Usage,
         UsageReason(ledger, b.usage, config.budget) = "none",
         Continue(PushResult(AttemptLedger(ledger, pending, b), pending.effect, b.status),
                  "step")
  PROVE  EngineInvariant'
  <1> DEFINE l == AttemptLedger(ledger, pending, b)
             k == PushResult(l, pending.effect, b.status)
  <1>1. /\ Endable(l) /\ l.status = "executing" /\ l.seen = ledger.seen + 1
        /\ l.ids = ledger.ids \cup {pending.effect.id}
        /\ l.keys = ledger.keys \cup {pending.effect.key}
        /\ l.usage = CappedUsage(ledger.usage, b.usage)
    BY AttemptSound
  <1>2. pending.effect \in Effects BY PendingFacts
  <1>3. Continue(k, "step") OBVIOUS
  <1> HIDE DEF l
  <1>4. Endable(k) /\ k.status = l.status /\ SameEffects(k, l) /\ k.usage = l.usage
    BY <1>1, <1>2, EndableResult
  <1> HIDE DEF k
  <1>5. WithinBudget(k.usage, config.budget)
    BY <1>1, <1>4 DEF UsageReason
  <1>6. ledger.seen \in Nat BY DEF EngineInvariant, TypeOK, LedgerRecord
  <1>7. /\ Len(invoked) = ledger.seen + 1
        /\ \A i \in 1..ledger.seen :
             invoked[i].id \in ledger.ids /\ invoked[i].key \in ledger.keys
        /\ invoked[Len(invoked)] = pending.effect
    BY DEF EngineInvariant, IdentitiesKept, Running
  <1>8. /\ Len(invoked) = k.seen
        /\ \A i \in 1..k.seen : invoked[i].id \in k.ids /\ invoked[i].key \in k.keys
    BY <1>1, <1>4, <1>6, <1>7 DEF SameEffects
  <1>9. /\ UNCHANGED <<config, invoked>>
        /\ cell' \in [Cells -> {"active", "cancelled", "claimed"}]
        /\ \A c \in Cells : cell[c] = "claimed" => cell'[c] = "claimed"
    BY DEF EngineInvariant, TypeOK
  <1>10. "step" \in Running \ {"execute"} BY DEF Running
  <1>11. QED BY <1>1, <1>3, <1>4, <1>5, <1>8, <1>9, <1>10, ContinuePreserves

LEMMA ExecuteReturnsPreserves ==
  ASSUME EngineInvariant, ExecuteReturns PROVE EngineInvariant'
  <1>1. pc = "execute" /\ UNCHANGED <<config, cell, invoked>>
    BY DEF ExecuteReturns, Untouched
  <1>2. PICK o \in Observations :
          LET e == pending.effect
              b == ObservedBody(ledger, e, Floored(o))
              l == AttemptLedger(ledger, pending, b)
              overspent == UsageReason(ledger, b.usage, config.budget) # "none"
          IN /\ o.status \in Attempted
             /\ ValidResult(e, b)
             /\ CASE b.status = "executed" /\ ~overspent ->
                       Continue(PushResult(l, e, b.status), "step")
                  [] b.status = "executed" /\ overspent ->
                       Finish(PushResult(l, e, b.status), "blocked")
                  [] b.status = "interrupted" ->
                       Finish(PushResult(Interrupt(l), e, b.status), "interrupted")
                  [] b.status \in {"failed", "unknown_outcome"} ->
                       Finish(PushResult(l, e, b.status), "failed")
             /\ Metered(o.usage)
    BY DEF ExecuteReturns
  <1> DEFINE e == pending.effect
             b == ObservedBody(ledger, e, Floored(o))
             l == AttemptLedger(ledger, pending, b)
             k == PushResult(l, e, b.status)
             i == Interrupt(l)
             h == PushResult(i, e, b.status)
  <1>3. /\ b.status = o.status /\ b.status \in Statuses
        /\ b.post \in Subjects \cup {Null} /\ b.usage \in Usage
    BY <1>2, ObservedBodyFields
  <1>4. \/ Continue(k, "step") /\ UsageReason(ledger, b.usage, config.budget) = "none"
        \/ Finish(k, "blocked") \/ Finish(k, "failed") \/ Finish(h, "interrupted")
    BY <1>2, <1>3 DEF Attempted
  <1>5. metered' \in [Meters -> 0..MaxSafe]
    <2>1. o.usage \in Usage BY ObservationAssumption
    <2>2. QED BY <1>2, <2>1, MeteredType
  <1> HIDE DEF b
  <1>6. CASE Continue(k, "step") /\ UsageReason(ledger, b.usage, config.budget) = "none"
    BY <1>1, <1>3, <1>5, <1>6, ExecutedContinues
  <1>7. Endable(l) BY <1>1, <1>3, AttemptSound
  <1>8. e \in Effects BY <1>1, PendingFacts
  <1> HIDE DEF l, e
  <1>9. Endable(k) BY <1>3, <1>7, <1>8, EndableResult
  <1>10. Endable(i) /\ i.log.interrupted BY <1>7, EndableInterrupt
  <1> HIDE DEF i
  <1>11. Endable(h) /\ h.log.interrupted = i.log.interrupted
    BY <1>3, <1>8, <1>10, EndableResult
  <1> HIDE DEF k, h
  <1>12. CASE Finish(k, "blocked") BY <1>1, <1>5, <1>9, <1>12, FinishPreserves
  <1>13. CASE Finish(k, "failed") BY <1>1, <1>5, <1>9, <1>13, FinishPreserves
  <1>14. CASE Finish(h, "interrupted")
    BY <1>1, <1>5, <1>10, <1>11, <1>14, FinishPreserves
  <1>15. QED BY <1>4, <1>6, <1>12, <1>13, <1>14

----------------------------------------------------------------------------
(* verify_and_finish.                                                      *)

(* ledger.verification for a report that may be put in a receipt           *)
LEMMA VerifiedSound ==
  ASSUME NEW l, Endable(l), NEW c, NEW rep, ReportIsReceiptSafe(c, rep)
  PROVE  LET k == Verified(l, c.implementer, rep) IN
         /\ Endable(k) /\ k.status = l.status /\ k.usage = l.usage /\ SameEffects(k, l)
         /\ rep.verdict = "pass" /\ rep.subject = l.current => FreshVerification(k)
  <1> DEFINE p == rep.verdict = "pass" /\ rep.subject = l.log.current
             v == IF p THEN [seq |-> l.log.seq + 1, subject |-> rep.subject]
                       ELSE l.log.verified
             n == l.log.seq + 1
             r == [l.log EXCEPT !.ok = TRUE, !.seq = n, !.verified = v, !.last = Null]
             k == Verified(l, c.implementer, rep)
  <1>1. Sound(l) BY EndableSound
  <1>2. l \in LedgerRecord /\ l.log \in LogRecord /\ l.log.ok /\ l.log.current = l.current
    BY <1>1 DEF Sound, LedgerRecord
  <1>3. l.log.seq \in Nat /\ n \in Nat /\ l.current \in Subjects
    BY <1>2, NextSeq DEF LedgerRecord
  <1>4. /\ v \in VerificationRecord \cup {Null}
        /\ p => v \in VerificationRecord
    BY <1>2, <1>3 DEF LogRecord, VerificationRecord
  <1>5. (/\ l.log.ok /\ TRUE
         /\ rep.verdict = "pass" => c.implementer # rep.verifier /\ rep.complete) = TRUE
    BY <1>2 DEF ReportIsReceiptSafe
  <1>6. k = [l EXCEPT !.log = r]
    BY <1>5, Zenon DEF Verified, ReplayVerification
  <1>7. p => v.seq = n /\ v.subject = l.current BY <1>2
  <1> HIDE DEF v, n, p
  <1>8. /\ r \in LogRecord /\ r.ok /\ r.status = l.log.status /\ r.seq = n
        /\ r.current = l.log.current /\ r.decisions = l.log.decisions
        /\ r.lastMutation = l.log.lastMutation /\ r.verified = v
        /\ r.usage = l.log.usage /\ r.completion = l.log.completion
    BY <1>2, <1>3, <1>4 DEF LogRecord
  <1> HIDE DEF r, k
  <1>9. /\ k \in LedgerRecord /\ k.status = l.status /\ k.log = r /\ SameEffects(k, l)
        /\ k.current = l.current /\ k.usage = l.usage /\ k.results = l.results
        /\ k.mutationAuthorized = l.mutationAuthorized
    BY <1>2, <1>6, <1>8 DEF LedgerRecord, SameEffects
  <1>10. l.log.lastMutation \in Nat /\ l.log.lastMutation <= l.log.seq
    BY <1>1, <1>2 DEF Sound, LogRecord
  <1>11. Sound(k)
    <2>1. \A d \in r.decisions : d.id = d.seq /\ d.seq \in 1..r.seq
      BY <1>1, <1>3, <1>8 DEF Sound, n
    <2>2. r.lastMutation <= r.seq BY <1>3, <1>8, <1>10 DEF n
    <2>3. QED BY <1>1, <1>8, <1>9, <2>1, <2>2 DEF Sound
  <1>12. p => FreshVerification(k)
    <2>1. p => v # Null BY <1>4, AbsenceAssumption
    <2>2. QED BY <1>3, <1>7, <1>8, <1>9, <1>10, <2>1 DEF FreshVerification, n
  <1>13. Endable(k) BY <1>9, <1>11, EndableFrame
  <1>14. rep.verdict = "pass" /\ rep.subject = l.current => FreshVerification(k)
    BY <1>2, <1>12 DEF p
  <1>15. QED BY <1>9, <1>13, <1>14 DEF k

(* A report that the verification gate passes is about the current subject.*)
LEMMA PassingReport ==
  ASSUME NEW l, NEW rep, VerificationDecision(l, rep).outcome = "allow"
  PROVE  rep.verdict = "pass" /\ rep.subject = l.current
  BY DEF VerificationDecision, EvaluateVerification, VerificationInput, Allow, Block

LEMMA VerifyReturnsPreserves ==
  ASSUME EngineInvariant, VerifyReturns PROVE EngineInvariant'
  <1>1. PICK rep \in Reports, u \in PortUsages :
          LET l == RecordUsage(ledger, u)
          IN \/ ReportDiscarded(rep, u, l)
             \/ ReportRejected(rep, u, l)
             \/ ReportAccepted(rep, u, l)
    BY DEF VerifyReturns
  <1> DEFINE l == RecordUsage(ledger, u)
             k == VerificationLedger(l, rep)
  <1>2. PortReturns("verify", u) /\ UNCHANGED <<config, cell, invoked>>
    BY <1>1 DEF ReportDiscarded, ReportRejected, ReportAccepted, Untouched
  <1>3. "verify" \in MeteredCalls BY DEF MeteredCalls
  <1>4. /\ Endable(l) /\ l.status = ledger.status /\ metered' \in [Meters -> 0..MaxSafe]
        /\ pc = "verify" /\ SameEffects(l, ledger) /\ WithinBudget(l.usage, config.budget)
    BY <1>2, <1>3, ReturnedLedger
  <1>5. l.status = "verifying" BY <1>4 DEF EngineInvariant, StatusAtCall
  <1>6. \/ Finish(l, "blocked")
        \/ Finish(k, "blocked")
        \/ /\ Continue(k, "check") /\ ReportIsReceiptSafe(config, rep)
           /\ VerificationDecision(l, rep).outcome = "allow"
    BY <1>1 DEF ReportDiscarded, ReportRejected, ReportAccepted
  <1> HIDE DEF l
  <1>7. /\ Endable(k) /\ k.status = l.status /\ k.usage = l.usage /\ SameEffects(k, l)
        /\ ReportIsReceiptSafe(config, rep) /\ rep.verdict = "pass" /\ rep.subject = l.current
             => FreshVerification(k)
    <2>1. CASE ReportIsReceiptSafe(config, rep)
      <3>1. k = Verified(l, config.implementer, rep) BY <2>1 DEF VerificationLedger
      <3> HIDE DEF k
      <3>2. QED BY <1>4, <2>1, <3>1, VerifiedSound
    <2>2. CASE ~ReportIsReceiptSafe(config, rep)
      <3>1. k = l BY <2>2 DEF VerificationLedger
      <3> HIDE DEF k
      <3>2. QED BY <1>4, <2>2, <3>1 DEF SameEffects
    <2>3. QED BY <2>1, <2>2
  <1> HIDE DEF k
  <1>8. CASE Finish(l, "blocked") BY <1>2, <1>4, <1>8, FinishPreserves
  <1>9. CASE Finish(k, "blocked") BY <1>2, <1>4, <1>7, <1>9, FinishPreserves
  <1>10. CASE /\ Continue(k, "check") /\ ReportIsReceiptSafe(config, rep)
              /\ VerificationDecision(l, rep).outcome = "allow"
    <2>1. FreshVerification(k) BY <1>7, <1>10, PassingReport
    <2>2. SameEffects(k, ledger) BY <1>4, <1>7 DEF SameEffects
    <2>3. "check" \in Running \ {"execute"} /\ pc \in Running \ {"execute"}
      BY <1>4 DEF Running
    <2>4. /\ Len(invoked) = k.seen
          /\ \A i \in 1..k.seen : invoked[i].id \in k.ids /\ invoked[i].key \in k.keys
      BY <2>2, <2>3, KnownIdentities
    <2>5. WithinBudget(k.usage, config.budget) BY <1>4, <1>7
    <2>6. /\ UNCHANGED <<config, invoked>>
          /\ cell' \in [Cells -> {"active", "cancelled", "claimed"}]
          /\ \A c \in Cells : cell[c] = "claimed" => cell'[c] = "claimed"
      BY <1>2 DEF EngineInvariant, TypeOK
    <2>7. k.status = "verifying" /\ Endable(k) /\ pc \notin {"start", "seal", "close", "closed"}
      BY <1>4, <1>5, <1>7
    <2>8. QED
      BY <1>4, <1>10, <2>1, <2>3, <2>4, <2>5, <2>6, <2>7, ContinuePreserves
  <1>11. QED BY <1>6, <1>8, <1>9, <1>10

(* The completion gate always allows: it is asked only after a passing     *)
(* verification, and every mutation was authorized.                        *)
LEMMA CompletionAllowed ==
  ASSUME NEW l, Endable(l)
  PROVE  CompletionDecision(l) = Allow("workflow.completion_authorized")
  <1>1. (~l.mutationRequired \/ l.mutationAuthorized) = TRUE
    BY Zenon DEF Endable
  <1>2. WorkflowCompletionInput(l, Allow("verification.passed")) =
          [boundary |-> "completion", mutationAuthorized |-> TRUE,
           results |-> [verification |-> "allow"]]
    BY <1>1 DEF WorkflowCompletionInput, Allow
  <1>3. [verification |-> "allow"] # Null
    <2>1. [verification |-> "allow"] \in [verification : Outcomes] BY DEF Outcomes
    <2>2. QED BY <2>1, ResultsAssumption
  <1> DEFINE i == [boundary |-> "completion", mutationAuthorized |-> TRUE,
                   results |-> [verification |-> "allow"]]
  <1>4. /\ i.boundary = "completion" /\ i.results # Null
        /\ i.mutationAuthorized = TRUE /\ i.results.verification = "allow"
    BY <1>3
  <1> HIDE DEF i
  <1>5. WorkflowCompletion(TRUE, "allow") = Allow("workflow.completion_authorized")
    BY DEF WorkflowCompletion, Outcomes
  <1>6. EvaluateWorkflow(i) = WorkflowCompletion(i.mutationAuthorized, i.results.verification)
    BY <1>4 DEF EvaluateWorkflow
  <1>7. EvaluateWorkflow(i) = Allow("workflow.completion_authorized")
    BY <1>4, <1>5, <1>6, Zenon
  <1>8. CompletionDecision(l) = EvaluateWorkflow(i)
    BY <1>2, Zenon DEF CompletionDecision, i
  <1>9. QED BY <1>7, <1>8

(* The completion decision recorded after a passing verification.          *)
LEMMA CompletionComplete ==
  ASSUME NEW l, Endable(l), FreshVerification(l), l.status = "verifying"
  PROVE  LET k == CompletionLedger(l) IN
         /\ Complete(k) /\ k.usage = l.usage /\ SameEffects(k, l)
         /\ l.mutationAuthorized => k.mutationAuthorized
  <1> DEFINE g == Allow("workflow.completion_authorized")
             d == [id |-> CompletionId, seq |-> l.log.seq + 1, gate |-> "workflow",
                   digest |-> l.current, subject |-> l.current, outcome |-> "allow"]
             ds == l.log.decisions \cup {d}
             n == l.log.seq + 1
             r == [l.log EXCEPT !.ok = TRUE, !.seq = n, !.decisions = ds,
                                !.completion = d, !.last = Null]
             a == l.mutationAuthorized \/ /\ "workflow" = "workflow"
                                          /\ g = Allow("workflow.mutation_authorized")
             k == CompletionLedger(l)
  <1>1. Sound(l) BY EndableSound
  <1>2. /\ l \in LedgerRecord /\ l.log \in LogRecord /\ l.log.ok
        /\ l.log.current = l.current /\ l.log.status = "verifying"
    BY <1>1 DEF Sound, LedgerRecord
  <1>3. l.log.seq \in Nat /\ n \in Nat /\ l.current \in Subjects
    BY <1>2, NextSeq DEF LedgerRecord
  <1>4. d \in DecisionRecord
    BY <1>3 DEF DecisionRecord, CompletionId, EffectGates, Outcomes
  <1>5. \A x \in l.log.decisions : x.id # CompletionId
    BY <1>1, <1>3 DEF Sound, CompletionId
  <1>6. (/\ l.log.ok /\ l.current = l.log.current /\ TRUE
         /\ \A x \in l.log.decisions : x.id # CompletionId) = TRUE
    BY <1>2, <1>5
  <1>7. CompletionDecision(l) = g BY CompletionAllowed
  <1>8. g.outcome = "allow" /\ g.code = "workflow.completion_authorized" BY DEF Allow
  <1>9. ReplayDecision(l.log, CompletionId, "workflow", l.current, l.current, g, TRUE) = r
    BY <1>6, <1>8, Zenon DEF ReplayDecision
  <1>10. k = [l EXCEPT !.log = r, !.mutationAuthorized = a]
    BY <1>7, <1>9, Zenon DEF CompletionLedger, Decide
  <1>11. /\ d.seq = n /\ d.digest = l.current /\ d.subject = l.current
         /\ d.outcome = "allow" /\ d.gate = "workflow" /\ d # Null
    BY <1>4, AbsenceAssumption
  <1>12. ds \in SUBSET DecisionRecord BY <1>2, <1>4 DEF LogRecord
  <1>13. a \in BOOLEAN /\ (l.mutationAuthorized => a) OBVIOUS
  <1> HIDE DEF d, ds, n, a, g
  <1>14. /\ r \in LogRecord /\ r.ok /\ r.status = l.log.status /\ r.seq = n
         /\ r.current = l.log.current /\ r.usage = l.log.usage /\ r.completion = d
         /\ r.lastMutation = l.log.lastMutation /\ r.verified = l.log.verified
    BY <1>2, <1>3, <1>4, <1>12 DEF LogRecord
  <1> HIDE DEF r, k
  <1>15. /\ k \in LedgerRecord /\ k.status = l.status /\ k.log = r /\ SameEffects(k, l)
         /\ k.current = l.current /\ k.usage = l.usage /\ k.mutationAuthorized = a
    BY <1>2, <1>10, <1>13, <1>14 DEF LedgerRecord, SameEffects
  <1>16. /\ l.log.verified # Null /\ l.log.verified.subject = l.current
         /\ l.log.verified.seq > l.log.lastMutation /\ l.log.verified.seq <= l.log.seq
         /\ l.log.verified.seq \in Nat
    BY <1>2 DEF FreshVerification, LogRecord, VerificationRecord
  <1>17. n > l.log.verified.seq /\ l.log.verified.seq <= n
    BY <1>3, <1>16 DEF n
  <1>18. FreshVerification(k) BY <1>14, <1>15, <1>16, <1>17 DEF FreshVerification
  <1>19. r.usage # Null => UsageIsMonotonic(r.usage, l.usage) BY <1>1, <1>14 DEF Sound
  <1>20. Complete(k)
    BY <1>2, <1>11, <1>14, <1>15, <1>16, <1>17, <1>18, <1>19 DEF Complete
  <1>21. l.mutationAuthorized => k.mutationAuthorized BY <1>13, <1>15
  <1>22. QED BY <1>15, <1>20, <1>21 DEF k

LEMMA CheckReturnsPreserves ==
  ASSUME EngineInvariant, CheckReturns PROVE EngineInvariant'
  <1>1. PICK u \in PortUsages :
          LET l == RecordUsage(ledger, u)
          IN /\ PortReturns("check", u) /\ Untouched
             /\ IF CompletionDecision(l).outcome = "allow"
                  THEN Continue(l, "claim_agent")
                  ELSE Finish(CompletionLedger(l), "blocked")
    BY DEF CheckReturns
  <1> DEFINE l == RecordUsage(ledger, u)
  <1>2. "check" \in MeteredCalls BY DEF MeteredCalls
  <1>3. /\ Endable(l) /\ Sound(l) /\ l.status = ledger.status
        /\ metered' \in [Meters -> 0..MaxSafe] /\ pc = "check"
        /\ SameEffects(l, ledger) /\ WithinBudget(l.usage, config.budget)
        /\ l.current = ledger.current /\ SameLog(l.log, ledger.log)
    BY <1>1, <1>2, ReturnedLedger
  <1>4. CompletionDecision(l).outcome = "allow"
    BY <1>3, CompletionAllowed DEF Allow
  <1>5. Continue(l, "claim_agent") BY <1>1, <1>4
  <1> HIDE DEF l
  <1>6. l.status = "verifying" /\ FreshVerification(ledger)
    BY <1>3 DEF EngineInvariant, StatusAtCall, VerifiedBeforeClaim
  <1>7. FreshVerification(l)
    <2>1. ledger.log \in LogRecord BY DEF EngineInvariant, TypeOK, LedgerRecord
    <2>2. ledger.log.seq \in Nat BY <2>1, NextSeq
    <2>3. ledger.log.verified # Null => ledger.log.verified.seq \in Nat
      BY <2>1 DEF LogRecord, VerificationRecord
    <2>4. QED BY <1>3, <1>6, <2>2, <2>3 DEF FreshVerification, SameLog
  <1>8. "claim_agent" \in Running \ {"execute"} /\ pc \in Running \ {"execute"}
    BY <1>3 DEF Running
  <1>9. /\ Len(invoked) = l.seen
        /\ \A i \in 1..l.seen : invoked[i].id \in l.ids /\ invoked[i].key \in l.keys
    BY <1>3, <1>8, KnownIdentities
  <1>10. /\ UNCHANGED <<config, invoked>>
         /\ cell' \in [Cells -> {"active", "cancelled", "claimed"}]
         /\ \A c \in Cells : cell[c] = "claimed" => cell'[c] = "claimed"
    BY <1>1 DEF Untouched, EngineInvariant, TypeOK
  <1>11. pc \notin {"start", "seal", "close", "closed"} BY <1>3
  <1>12. QED BY <1>3, <1>5, <1>6, <1>7, <1>8, <1>9, <1>10, <1>11, ContinuePreserves

LEMMA ClaimFailsPreserves ==
  ASSUME EngineInvariant, NEW p \in Ports, ClaimFails(p) PROVE EngineInvariant'
  <1>1. /\ pc \notin {"start", "seal", "close", "closed"}
        /\ UNCHANGED <<config, cell, invoked>>
    BY DEF ClaimFails, ClaimAt, Ports, Untouched
  <1>2. Endable(ledger) BY <1>1, EndableLedger
  <1>3. PICK u \in PortUsages \cup {Null} :
          Finish(Observed(ledger, u), "failed") /\ Metered(u)
    BY DEF ClaimFails
  <1>4. Endable(Observed(ledger, u)) BY <1>2, EndableObserved
  <1>5. metered' \in [Meters -> 0..MaxSafe] BY <1>3, UsageAssumption, MeteredType
  <1>6. QED BY <1>1, <1>3, <1>4, <1>5, FinishPreserves

LEMMA CancellationPreserves ==
  ASSUME EngineInvariant, NEW p \in Ports, ClaimRefused(p) \/ ObserveCancelled(p)
  PROVE  EngineInvariant'
  <1>1. /\ pc \notin {"start", "seal", "close", "closed"}
        /\ UNCHANGED <<config, cell, invoked>> /\ metered' = metered
        /\ Finish(Interrupt(ledger), "interrupted")
    BY DEF ClaimRefused, ObserveCancelled, ClaimAt, ObserveAt, Ports, Untouched
  <1>2. Endable(ledger) BY <1>1, EndableLedger
  <1> DEFINE k == Interrupt(ledger)
  <1>3. Endable(k) /\ k.log.interrupted BY <1>2, EndableInterrupt
  <1>4. metered' \in [Meters -> 0..MaxSafe] BY <1>1 DEF EngineInvariant, TypeOK
  <1>5. Finish(k, "interrupted") BY <1>1
  <1> HIDE DEF k
  <1>6. QED BY <1>1, <1>3, <1>4, <1>5, FinishPreserves

(* Claiming never gives up a claim, and on an atomic cell it takes it.     *)
LEMMA ClaimedCell ==
  ASSUME EngineInvariant, NEW p \in Ports, ClaimGranted(p)
  PROVE  /\ cell' \in [Cells -> {"active", "cancelled", "claimed"}]
         /\ \A k \in Cells : cell[k] = "claimed" => cell'[k] = "claimed"
         /\ CellOf[p] \in AtomicCells => cell'[CellOf[p]] = "claimed"
  <1>1. cell \in [Cells -> {"active", "cancelled", "claimed"}]
    BY DEF EngineInvariant, TypeOK
  <1>2. CellOf[p] \in Cells BY CellAssumption
  <1>3. cell' = IF CellOf[p] \in AtomicCells
                  THEN [cell EXCEPT ![CellOf[p]] = "claimed"] ELSE cell
    BY DEF ClaimGranted
  <1>4. QED BY <1>1, <1>2, <1>3

LEMMA AgentClaimPreserves ==
  ASSUME EngineInvariant, ClaimGranted("agent") PROVE EngineInvariant'
  <1>1. /\ pc = "claim_agent" /\ Continue(ledger, "claim_executor")
        /\ UNCHANGED <<config, invoked>> /\ metered' = metered
    BY DEF ClaimGranted, ClaimAt
  <1>2. /\ cell' \in [Cells -> {"active", "cancelled", "claimed"}]
        /\ \A k \in Cells : cell[k] = "claimed" => cell'[k] = "claimed"
        /\ CellOf["agent"] \in AtomicCells => cell'[CellOf["agent"]] = "claimed"
    BY ClaimedCell DEF Ports
  <1>3. Endable(ledger) BY <1>1, EndableLedger
  <1>4. "claim_executor" \in Running \ {"execute"} /\ pc \in Running \ {"execute"}
    BY <1>1 DEF Running
  <1>5. /\ Len(invoked) = ledger.seen
        /\ \A i \in 1..ledger.seen : invoked[i].id \in ledger.ids /\ invoked[i].key \in ledger.keys
    BY <1>4, KnownIdentities DEF SameEffects
  <1>6. /\ ledger.status = "verifying" /\ FreshVerification(ledger)
        /\ WithinBudget(ledger.usage, config.budget)
        /\ metered' \in [Meters -> 0..MaxSafe]
    BY <1>1, <1>4 DEF EngineInvariant, StatusAtCall, VerifiedBeforeClaim, BudgetHeld, TypeOK
  <1>7. pc \notin {"start", "seal", "close", "closed"} BY <1>1
  <1>8. QED BY <1>1, <1>2, <1>3, <1>4, <1>5, <1>6, <1>7, ContinuePreserves

LEMMA ExecutorClaimPreserves ==
  ASSUME EngineInvariant, ClaimGranted("executor") PROVE EngineInvariant'
  <1> DEFINE k == CompletionLedger(ledger)
  <1>1. /\ pc = "claim_executor" /\ Finish(k, "completed")
        /\ UNCHANGED <<config, invoked>> /\ metered' = metered
    BY DEF ClaimGranted, ClaimAt
  <1>2. /\ cell' \in [Cells -> {"active", "cancelled", "claimed"}]
        /\ \A c \in Cells : cell[c] = "claimed" => cell'[c] = "claimed"
        /\ CellOf["executor"] \in AtomicCells => cell'[CellOf["executor"]] = "claimed"
    BY ClaimedCell DEF Ports
  <1>3. Endable(ledger) BY <1>1, EndableLedger
  <1>4. /\ ledger.status = "verifying" /\ FreshVerification(ledger)
        /\ WithinBudget(ledger.usage, config.budget)
        /\ metered' \in [Meters -> 0..MaxSafe] /\ result = "none"
    BY <1>1 DEF EngineInvariant, StatusAtCall, VerifiedBeforeClaim, BudgetHeld, TypeOK,
         Running, ErrorsAreFinal
  <1>5. /\ Complete(k) /\ k.usage = ledger.usage /\ SameEffects(k, ledger)
        /\ ledger.mutationAuthorized => k.mutationAuthorized
    BY <1>3, <1>4, CompletionComplete
  <1> HIDE DEF k
  <1>6. /\ pc' = "seal" /\ ledger' = k /\ ending' = "completed" /\ result' = "none"
    BY <1>1, <1>4 DEF Finish
  <1>7. TypeOK'
    BY <1>1, <1>2, <1>4, <1>5, <1>6
      DEF EngineInvariant, TypeOK, Complete, PCs, Terminal, Results
  <1>8. LedgerSound'
    <2>1. WithinBudget(k.usage, config.budget) BY <1>4, <1>5
    <2>2. QED BY <1>1, <1>5, <1>6, <2>1
      DEF LedgerSound, Complete, WithinBudget, FreshVerification, UsageIsMonotonic
  <1>9. /\ StatusAtCall' /\ BudgetHeld' /\ VerifiedBeforeClaim' /\ IdentitiesKept'
        /\ PendingAuthorized' /\ DispatchFitsBudget' /\ DispatchAuthorized'
    BY <1>6 DEF StatusAtCall, BudgetHeld, VerifiedBeforeClaim, IdentitiesKept,
         PendingAuthorized, DispatchFitsBudget, DispatchAuthorized, Running
  <1>10. ConfigAccepted'
    BY <1>1, <1>4 DEF EngineInvariant, ConfigAccepted, Acceptable, ValidConfig,
         ValidSupport, ValidRequest
  <1>11. ErrorsAreFinal' /\ ReceiptAlwaysSeals'
    BY <1>6 DEF ErrorsAreFinal, ReceiptAlwaysSeals
  <1>12. CellsClaimed'
    <2>1. \A p \in Ports : CellOf[p] \in Cells BY CellAssumption
    <2>2. CellOf["agent"] \in AtomicCells => cell[CellOf["agent"]] = "claimed"
      BY <1>1 DEF EngineInvariant, CellsClaimed
    <2>3. QED BY <1>2, <1>6, <2>1, <2>2 DEF CellsClaimed, Ports
  <1>13. NoRepeatedDispatch' /\ DispatchBounded'
    BY <1>1 DEF EngineInvariant, NoRepeatedDispatch, DispatchBounded
  <1>14. MutationAlwaysAuthorized'
    BY <1>3, <1>5, <1>6, Zenon DEF MutationAlwaysAuthorized, Endable, SameEffects
  <1>15. QED
    BY <1>7, <1>8, <1>9, <1>10, <1>11, <1>12, <1>13, <1>14 DEF EngineInvariant

----------------------------------------------------------------------------
(* The rest of finish(), and the environment.                              *)

LEMMA ObserveNothingPreserves ==
  ASSUME EngineInvariant, NEW p \in Ports, ObserveNothing(p) PROVE EngineInvariant'
  <1>1. /\ pc \in {"observe_agent", "observe_executor"}
        /\ pc' \in {"observe_executor", "seal"}
        /\ UNCHANGED <<config, ledger, ending, cell, result, invoked, metered>>
    BY DEF ObserveNothing, ObserveAt, Ports, Continue, Untouched
  <1>2. Sound(ledger) /\ ending \in {"blocked", "failed"} /\ result = "none"
    BY <1>1 DEF EngineInvariant, LedgerSound, ErrorsAreFinal
  <1>3. TypeOK' BY <1>1 DEF EngineInvariant, TypeOK, PCs
  <1>4. LedgerSound' BY <1>1, <1>2 DEF LedgerSound, Sound, UsageIsMonotonic
  <1>5. /\ StatusAtCall' /\ BudgetHeld' /\ VerifiedBeforeClaim' /\ IdentitiesKept'
        /\ PendingAuthorized' /\ DispatchFitsBudget' /\ DispatchAuthorized'
    BY <1>1 DEF StatusAtCall, BudgetHeld, VerifiedBeforeClaim, IdentitiesKept,
         PendingAuthorized, DispatchFitsBudget, DispatchAuthorized, Running
  <1>6. ConfigAccepted'
    BY <1>1, <1>2 DEF EngineInvariant, ConfigAccepted, Acceptable, ValidConfig,
         ValidSupport, ValidRequest
  <1>7. ErrorsAreFinal' /\ ReceiptAlwaysSeals' /\ CellsClaimed'
    BY <1>1, <1>2 DEF ErrorsAreFinal, ReceiptAlwaysSeals, CellsClaimed
  <1>8. NoRepeatedDispatch' /\ DispatchBounded'
    BY <1>1 DEF EngineInvariant, NoRepeatedDispatch, DispatchBounded
  <1>9. MutationAlwaysAuthorized'
    BY <1>1, Zenon DEF EngineInvariant, MutationAlwaysAuthorized
  <1>10. QED
    BY <1>3, <1>4, <1>5, <1>6, <1>7, <1>8, <1>9 DEF EngineInvariant

(* The last two events make the receipt contract accept the ledger.        *)
LEMMA SealedReceipt ==
  ASSUME EngineInvariant, pc = "seal"
  PROVE  LET k == SealedLedger(ledger, ending) IN
         /\ k \in LedgerRecord /\ k.status = ending /\ SameEffects(k, ledger)
         /\ k.mutationAuthorized = ledger.mutationAuthorized
         /\ ReceiptValid(k.log, ending, k.current, k.usage, config.budget)
  <1> DEFINE h == UsageEvent(ledger)
             r == ReplayTransition(h.log, h.status, ending)
             k == Transition(h, ending)
  <1>1. ending \in Terminal
    BY DEF EngineInvariant, TypeOK, LedgerSound
  <1>2. /\ ending = "completed" => Complete(ledger) /\ WithinBudget(ledger.usage, config.budget)
        /\ ending # "completed" => Sound(ledger)
        /\ ending = "interrupted" => ledger.log.interrupted
    BY DEF EngineInvariant, LedgerSound
  <1>3. /\ ledger \in LedgerRecord /\ ledger.log.ok /\ ledger.log.status = ledger.status
        /\ ledger.log.current = ledger.current
        /\ ledger.log.usage # Null => UsageIsMonotonic(ledger.log.usage, ledger.usage)
        /\ ending = "completed" => ledger.status = "verifying"
        /\ ending # "completed" => ledger.status \notin Terminal /\ ledger.log.completion = Null
    BY <1>2 DEF Sound, Complete
  <1>4. /\ h \in LedgerRecord /\ h.status = ledger.status /\ SameEffects(h, ledger)
        /\ h.current = ledger.current /\ h.usage = ledger.usage
        /\ h.mutationAuthorized = ledger.mutationAuthorized
        /\ SameLog(h.log, ledger.log) /\ h.log.ok /\ h.log.usage = ledger.usage
        /\ h.log.status = ledger.log.status /\ h.log.completion = ledger.log.completion
        /\ h.log.interrupted = ledger.log.interrupted
    BY <1>3, UsageEventFields
  <1> HIDE DEF h
  <1>5. ValidTransition(h.log.status, ending)
    BY <1>1, <1>3, <1>4 DEF ValidTransition, Terminal
  <1>6. ending \in RunStatuses /\ h.log \in LogRecord /\ h.log.status = h.status
    BY <1>1, <1>3, <1>4 DEF RunStatuses, LedgerRecord
  <1>7. /\ r \in LogRecord /\ r.ok /\ r.status = ending /\ r.last = ending
        /\ SameLog(r, h.log) /\ r.seq = h.log.seq + 1
        /\ r.usage = h.log.usage /\ r.completion = h.log.completion
        /\ r.interrupted = h.log.interrupted
    BY <1>4, <1>5, <1>6, TransitionLog
  <1>8. /\ k \in LedgerRecord /\ k.status = ending /\ SameEffects(k, h) /\ k.log = r
        /\ k.current = h.current /\ k.usage = h.usage
        /\ k.mutationAuthorized = h.mutationAuthorized
    BY <1>4, <1>6, <1>7, TransitionFields
  <1> HIDE DEF r, k
  <1>9. r.seq > 0 BY <1>6, <1>7, NextSeq
  <1>10. SafeUsage(k.usage)
    <2>1. ledger.usage \in [Meters -> 0..MaxSafe] BY <1>3 DEF LedgerRecord
    <2>2. QED BY <1>4, <1>8, <2>1, SafeIsUsage
  <1>11. r.current = k.current BY <1>3, <1>4, <1>7, <1>8 DEF SameLog
  <1>12. ending = "completed" => CompletedReceiptValid(r, config.budget)
    <2>1. SUFFICES ASSUME ending = "completed" PROVE CompletedReceiptValid(r, config.budget)
      OBVIOUS
    <2>2. /\ r.verified = ledger.log.verified /\ r.completion = ledger.log.completion
          /\ r.lastMutation = ledger.log.lastMutation /\ r.current = ledger.current
          /\ r.usage = ledger.usage
      BY <1>3, <1>4, <1>7 DEF SameLog
    <2>3. Complete(ledger) /\ WithinBudget(ledger.usage, config.budget) BY <1>2, <2>1
    <2>4. QED BY <2>2, <2>3 DEF Complete, FreshVerification, CompletedReceiptValid
  <1>13. ending # "completed" => r.completion = Null BY <1>3, <1>4, <1>7
  <1>14. ending = "interrupted" => r.interrupted BY <1>2, <1>4, <1>7
  <1>15. ReceiptValid(r, ending, k.current, k.usage, config.budget)
    BY <1>1, <1>4, <1>7, <1>8, <1>9, <1>10, <1>11, <1>12, <1>13, <1>14 DEF ReceiptValid
  <1>16. SealedLedger(ledger, ending) = k BY DEF SealedLedger, k, h
  <1>17. QED BY <1>4, <1>8, <1>15, <1>16 DEF SameEffects

LEMMA SealPreserves == ASSUME EngineInvariant, Seal PROVE EngineInvariant'
  <1> DEFINE k == SealedLedger(ledger, ending)
  <1>1. /\ pc = "seal" /\ pc' = "close" /\ ledger' = k
        /\ result' = IF ReceiptValid(k.log, ending, k.current, k.usage, config.budget)
                       THEN "receipt" ELSE "receipt_error"
        /\ UNCHANGED <<config, ending, cell, invoked, metered>>
    BY DEF Seal, Untouched
  <1>2. /\ k \in LedgerRecord /\ k.status = ending /\ SameEffects(k, ledger)
        /\ k.mutationAuthorized = ledger.mutationAuthorized
        /\ ReceiptValid(k.log, ending, k.current, k.usage, config.budget)
    BY <1>1, SealedReceipt
  <1>3. result' = "receipt" BY <1>1, <1>2
  <1> HIDE DEF k
  <1>4. TypeOK' BY <1>1, <1>2, <1>3 DEF EngineInvariant, TypeOK, PCs, Results
  <1>5. /\ LedgerSound' /\ StatusAtCall' /\ BudgetHeld' /\ VerifiedBeforeClaim'
        /\ IdentitiesKept' /\ PendingAuthorized' /\ DispatchFitsBudget'
        /\ DispatchAuthorized' /\ ErrorsAreFinal' /\ ReceiptAlwaysSeals'
    BY <1>1, <1>3 DEF LedgerSound, StatusAtCall, BudgetHeld, VerifiedBeforeClaim,
         IdentitiesKept, PendingAuthorized, DispatchFitsBudget, DispatchAuthorized,
         Running, ErrorsAreFinal, ReceiptAlwaysSeals
  <1>6. ConfigAccepted'
    <2>1. result = "none" BY <1>1 DEF EngineInvariant, ErrorsAreFinal
    <2>2. QED
      BY <1>1, <2>1 DEF EngineInvariant, ConfigAccepted, Acceptable, ValidConfig,
         ValidSupport, ValidRequest
  <1>7. CellsClaimed' BY <1>1, <1>2, <1>3 DEF EngineInvariant, CellsClaimed
  <1>8. NoRepeatedDispatch' /\ DispatchBounded'
    BY <1>1 DEF EngineInvariant, NoRepeatedDispatch, DispatchBounded
  <1>9. MutationAlwaysAuthorized'
    BY <1>1, <1>2, Zenon DEF EngineInvariant, MutationAlwaysAuthorized, SameEffects
  <1>10. QED
    BY <1>4, <1>5, <1>6, <1>7, <1>8, <1>9 DEF EngineInvariant

LEMMA ClosePreserves == ASSUME EngineInvariant, Close PROVE EngineInvariant'
  <1>1. /\ pc = "close" /\ pc' = "closed"
        /\ UNCHANGED <<config, ledger, ending, cell, result, invoked, metered>>
    BY DEF Close, Continue, Untouched
  <1>2. TypeOK' BY <1>1 DEF EngineInvariant, TypeOK, PCs
  <1>3. /\ LedgerSound' /\ StatusAtCall' /\ BudgetHeld' /\ VerifiedBeforeClaim'
        /\ IdentitiesKept' /\ PendingAuthorized' /\ DispatchFitsBudget'
        /\ DispatchAuthorized' /\ ErrorsAreFinal'
    BY <1>1 DEF LedgerSound, StatusAtCall, BudgetHeld, VerifiedBeforeClaim,
         IdentitiesKept, PendingAuthorized, DispatchFitsBudget, DispatchAuthorized,
         Running, ErrorsAreFinal
  <1>4. ConfigAccepted'
    BY <1>1 DEF EngineInvariant, ConfigAccepted, Acceptable, ValidConfig,
         ValidSupport, ValidRequest
  <1>5. ReceiptAlwaysSeals' /\ CellsClaimed' /\ NoRepeatedDispatch' /\ DispatchBounded'
    BY <1>1 DEF EngineInvariant, ReceiptAlwaysSeals, CellsClaimed, NoRepeatedDispatch,
         DispatchBounded
  <1>6. MutationAlwaysAuthorized'
    BY <1>1, Zenon DEF EngineInvariant, MutationAlwaysAuthorized
  <1>7. QED BY <1>2, <1>3, <1>4, <1>5, <1>6 DEF EngineInvariant

LEMMA CancelPreserves ==
  ASSUME EngineInvariant, NEW k \in Cells, Cancel(k) PROVE EngineInvariant'
  <1>1. /\ cell[k] = "active" /\ cell' = [cell EXCEPT ![k] = "cancelled"]
        /\ UNCHANGED <<pc, config, ledger, pending, ending, result, invoked, metered>>
    BY DEF Cancel, engine
  <1>2. cell \in [Cells -> {"active", "cancelled", "claimed"}]
    BY DEF EngineInvariant, TypeOK
  <1>3. /\ cell' \in [Cells -> {"active", "cancelled", "claimed"}]
        /\ \A c \in Cells : cell[c] = "claimed" => cell'[c] = "claimed"
    BY <1>1, <1>2
  <1>4. TypeOK' BY <1>1, <1>3 DEF EngineInvariant, TypeOK
  <1>5. CellsClaimed'
    <2>1. \A p \in Ports : CellOf[p] \in Cells BY CellAssumption
    <2>2. QED BY <1>1, <1>3, <2>1 DEF EngineInvariant, CellsClaimed, Ports
  <1>6. LedgerSound'
    BY <1>1 DEF EngineInvariant, LedgerSound, Sound, Complete, FreshVerification,
         UsageIsMonotonic, WithinBudget
  <1>7. /\ StatusAtCall' /\ BudgetHeld' /\ VerifiedBeforeClaim' /\ IdentitiesKept'
        /\ PendingAuthorized' /\ ErrorsAreFinal'
    BY <1>1 DEF EngineInvariant, StatusAtCall, BudgetHeld, VerifiedBeforeClaim,
         IdentitiesKept, PendingAuthorized, ErrorsAreFinal, WithinBudget, FreshVerification
  <1>8. DispatchFitsBudget' /\ DispatchAuthorized'
    BY <1>1 DEF EngineInvariant, DispatchFitsBudget, DispatchAuthorized, Authorized
  <1>9. ConfigAccepted'
    BY <1>1 DEF EngineInvariant, ConfigAccepted, Acceptable, ValidConfig,
         ValidSupport, ValidRequest
  <1>10. ReceiptAlwaysSeals' /\ NoRepeatedDispatch' /\ DispatchBounded'
    BY <1>1 DEF EngineInvariant, ReceiptAlwaysSeals, NoRepeatedDispatch, DispatchBounded
  <1>11. MutationAlwaysAuthorized'
    BY <1>1, Zenon DEF EngineInvariant, MutationAlwaysAuthorized
  <1>12. QED
    BY <1>4, <1>5, <1>6, <1>7, <1>8, <1>9, <1>10, <1>11 DEF EngineInvariant

----------------------------------------------------------------------------
(* The theorems.                                                           *)

LEMMA NewLedgerSound ==
  ASSUME NEW s \in Subjects
  PROVE  LET l == NewLedger(s) IN
         /\ Sound(l) /\ l.status = "accepted" /\ l.seen = 0
         /\ ~l.mutationRequired
  <1> DEFINE r == InitReplay(s)
             l == NewLedger(s)
  <1>1. /\ r \in LogRecord /\ r.ok /\ r.status = "accepted" /\ r.current = s
        /\ r.usage = Null /\ r.lastMutation = 0 /\ r.seq = 0 /\ r.completion = Null
        /\ r.decisions = {}
    BY DEF InitReplay, LogRecord, RunStatuses
  <1>2. ZeroUsage \in [Meters -> 0..MaxSafe] BY MaxSafeAssumption DEF ZeroUsage
  <1>3. /\ l.log = r /\ l.status = "accepted" /\ l.current = s /\ l.seen = 0
        /\ l.usage = ZeroUsage /\ l.results = <<>> /\ l.ids = {} /\ l.digests = {}
        /\ l.keys = {} /\ l.mutationRequired = FALSE /\ l.mutationAuthorized = FALSE
    BY DEF NewLedger
  <1>4. l \in LedgerRecord
    <2>1. <<>> \in Seq([effect : Effects, status : Statuses]) OBVIOUS
    <2>2. "accepted" \in RunStatuses BY DEF RunStatuses
    <2> DEFINE z == ZeroUsage
               q == <<>>
    <2>3. l = [status |-> "accepted", current |-> s, usage |-> z,
               log |-> r, results |-> q, seen |-> 0,
               ids |-> {}, digests |-> {}, keys |-> {},
               mutationRequired |-> FALSE, mutationAuthorized |-> FALSE]
      BY DEF NewLedger
    <2>4. z \in [Meters -> 0..MaxSafe] /\ q \in Seq([effect : Effects, status : Statuses])
      BY <1>2, <2>1
    <2> HIDE DEF z, q, r, l
    <2>5. QED BY <1>1, <2>2, <2>3, <2>4 DEF LedgerRecord
  <1> HIDE DEF r, l
  <1>5. Sound(l) BY <1>1, <1>3, <1>4 DEF Sound, Terminal
  <1>6. QED BY <1>3, <1>5 DEF l

LEMMA InitInvariant == Init => EngineInvariant
  <1> SUFFICES ASSUME Init PROVE EngineInvariant OBVIOUS
  <1>1. /\ pc = "start" /\ config \in Configs /\ ending = "none" /\ result = "none"
        /\ invoked = <<>> /\ metered = ZeroUsage /\ cell = [k \in Cells |-> "active"]
    BY DEF Init
  <1>2. config.subject \in Subjects BY <1>1, ConfigAssumption
  <1>3. Sound(ledger) /\ ledger.status = "accepted" /\ ledger.seen = 0
        /\ ~ledger.mutationRequired
    BY <1>2, NewLedgerSound DEF Init
  <1>4. TypeOK
    BY <1>1, <1>3, MaxSafeAssumption DEF TypeOK, PCs, Results, ZeroUsage, Sound
  <1>5. LedgerSound /\ StatusAtCall /\ ConfigAccepted /\ ErrorsAreFinal
    BY <1>1, <1>3 DEF LedgerSound, StatusAtCall, ConfigAccepted, ErrorsAreFinal
  <1>6. /\ BudgetHeld /\ VerifiedBeforeClaim /\ IdentitiesKept /\ PendingAuthorized
        /\ DispatchFitsBudget /\ DispatchAuthorized
    BY <1>1 DEF BudgetHeld, VerifiedBeforeClaim, IdentitiesKept, PendingAuthorized,
         DispatchFitsBudget, DispatchAuthorized, Running
  <1>7. CellsClaimed /\ ReceiptAlwaysSeals
    BY <1>1 DEF CellsClaimed, ReceiptAlwaysSeals
  <1>8. NoRepeatedDispatch /\ DispatchBounded
    <2>1. config.maxEffects \in Nat BY <1>1, ConfigAssumption
    <2>2. Len(invoked) = 0 /\ DOMAIN invoked = {} BY <1>1
    <2>3. QED BY <2>1, <2>2 DEF NoRepeatedDispatch, DispatchBounded
  <1>9. MutationAlwaysAuthorized BY <1>3, Zenon DEF MutationAlwaysAuthorized
  <1>10. QED
    BY <1>4, <1>5, <1>6, <1>7, <1>8, <1>9 DEF EngineInvariant

LEMMA StutterPreserves ==
  ASSUME EngineInvariant, UNCHANGED vars PROVE EngineInvariant'
  <1>1. UNCHANGED <<pc, config, ledger, pending, ending, cell, result, invoked, metered>>
    BY DEF vars, engine
  <1>2. TypeOK' BY <1>1 DEF EngineInvariant, TypeOK
  <1>3. LedgerSound'
    BY <1>1 DEF EngineInvariant, LedgerSound, Sound, Complete, FreshVerification,
         UsageIsMonotonic, WithinBudget
  <1>4. /\ StatusAtCall' /\ BudgetHeld' /\ VerifiedBeforeClaim' /\ IdentitiesKept'
        /\ PendingAuthorized' /\ ErrorsAreFinal' /\ CellsClaimed'
    BY <1>1 DEF EngineInvariant, StatusAtCall, BudgetHeld, VerifiedBeforeClaim,
         IdentitiesKept, PendingAuthorized, ErrorsAreFinal, WithinBudget,
         FreshVerification, CellsClaimed
  <1>5. DispatchFitsBudget' /\ DispatchAuthorized'
    BY <1>1 DEF EngineInvariant, DispatchFitsBudget, DispatchAuthorized, Authorized
  <1>6. ConfigAccepted'
    BY <1>1 DEF EngineInvariant, ConfigAccepted, Acceptable, ValidConfig,
         ValidSupport, ValidRequest
  <1>7. ReceiptAlwaysSeals' /\ NoRepeatedDispatch' /\ DispatchBounded'
    BY <1>1 DEF EngineInvariant, ReceiptAlwaysSeals, NoRepeatedDispatch, DispatchBounded
  <1>8. MutationAlwaysAuthorized'
    BY <1>1, Zenon DEF EngineInvariant, MutationAlwaysAuthorized
  <1>9. QED
    BY <1>2, <1>3, <1>4, <1>5, <1>6, <1>7, <1>8 DEF EngineInvariant

LEMMA EngineStepPreserves ==
  ASSUME EngineInvariant, EngineStep PROVE EngineInvariant'
  <1>1. {"plan", "step", "verify", "check"} = MeteredCalls BY DEF MeteredCalls
  <1>2. CASE RejectRun BY <1>2, RejectRunPreserves
  <1>3. CASE AcceptRun BY <1>3, AcceptRunPreserves
  <1>4. CASE PlanFails \/ StepFails \/ VerifyFails \/ CheckFails
    BY <1>1, <1>4, PortFailsPreserves DEF PlanFails, StepFails, VerifyFails, CheckFails
  <1>5. CASE PlanOverspends \/ StepOverspends \/ VerifyOverspends \/ CheckOverspends
    BY <1>1, <1>5, PortOverspendsPreserves
      DEF PlanOverspends, StepOverspends, VerifyOverspends, CheckOverspends
  <1>6. CASE PlanBadDigest BY <1>6, PlanBadDigestPreserves
  <1>7. CASE PlanUnapproved BY <1>7, PlanUnapprovedPreserves
  <1>8. CASE PlanApproved BY <1>8, PlanApprovedPreserves
  <1>9. CASE AgentCancels BY <1>9, AgentCancelsPreserves
  <1>10. CASE AgentFinishes BY <1>10, AgentFinishesPreserves
  <1>11. CASE Propose BY <1>11, ProposePreserves
  <1>12. CASE ExecuteNotDispatched BY <1>12, ExecuteNotDispatchedPreserves
  <1>13. CASE ExecuteLost BY <1>13, ExecuteLostPreserves
  <1>14. CASE ExecuteDeclines BY <1>14, ExecuteDeclinesPreserves
  <1>15. CASE ExecuteUntrusted BY <1>15, ExecuteUntrustedPreserves
  <1>16. CASE ExecuteReturns BY <1>16, ExecuteReturnsPreserves
  <1>17. CASE ExecuteUnsealable BY <1>17, ExecuteUnsealablePreserves
  <1>18. CASE VerifyReturns BY <1>18, VerifyReturnsPreserves
  <1>19. CASE CheckReturns BY <1>19, CheckReturnsPreserves
  <1>20. ASSUME NEW p \in Ports,
                ClaimFails(p) \/ ClaimRefused(p) \/ ClaimGranted(p)
                  \/ ObserveCancelled(p) \/ ObserveNothing(p)
         PROVE  EngineInvariant'
    <2>1. CASE ClaimGranted(p)
      BY <2>1, AgentClaimPreserves, ExecutorClaimPreserves DEF Ports
    <2>2. QED
      BY <1>20, <2>1, ClaimFailsPreserves, CancellationPreserves, ObserveNothingPreserves
  <1>21. CASE Seal BY <1>21, SealPreserves
  <1>22. CASE Close BY <1>22, ClosePreserves
  <1>23. QED
    BY <1>2, <1>3, <1>4, <1>5, <1>6, <1>7, <1>8, <1>9, <1>10, <1>11, <1>12, <1>13,
       <1>14, <1>15, <1>16, <1>17, <1>18, <1>19, <1>20, <1>21, <1>22 DEF EngineStep

LEMMA NextPreserves == EngineInvariant /\ [Next]_vars => EngineInvariant'
  BY EngineStepPreserves, CancelPreserves, StutterPreserves DEF Next, Terminated

(* The inductive invariant of AgentRunEngine::run holds in every reachable *)
(* state, whatever the ports answer and whenever the host cancels.         *)
THEOREM EngineCorrect == Spec => []EngineInvariant
  BY InitInvariant, NextPreserves, PTL DEF Spec

(* The engine's state, its ledger and its usage counters stay well typed:  *)
(* no answer of a port moves the usage out of the JCS-safe range.          *)
THEOREM TypeCorrect == Spec => []TypeOK
  <1>1. EngineInvariant => TypeOK BY DEF EngineInvariant
  <1>2. QED BY <1>1, EngineCorrect, PTL

(* finish() never produces an event ledger that its own receipt contract   *)
(* (validate_receipt_body) rejects.                                        *)
THEOREM ReceiptSeals == Spec => []ReceiptAlwaysSeals
  <1>1. EngineInvariant => ReceiptAlwaysSeals BY DEF EngineInvariant
  <1>2. QED BY <1>1, EngineCorrect, PTL

(* No effect id and no idempotency key reaches the executor twice.         *)
THEOREM AtMostOnce == Spec => []NoRepeatedDispatch
  <1>1. EngineInvariant => NoRepeatedDispatch BY DEF EngineInvariant
  <1>2. QED BY <1>1, EngineCorrect, PTL

(* The number of dispatched effects never exceeds max_effects, and each    *)
(* one's estimate fits the remaining budget on every meter.                *)
THEOREM DispatchLimited == Spec => [](DispatchBounded /\ DispatchFitsBudget)
  <1>1. EngineInvariant => DispatchBounded /\ DispatchFitsBudget BY DEF EngineInvariant
  <1>2. QED BY <1>1, EngineCorrect, PTL

(* The executor only runs effects all of whose gates allowed this very     *)
(* request for the current subject.                                        *)
THEOREM OnlyAuthorizedEffects == Spec => [](DispatchAuthorized /\ MutationAlwaysAuthorized)
  <1>1. EngineInvariant => DispatchAuthorized /\ MutationAlwaysAuthorized
    BY DEF EngineInvariant
  <1>2. QED BY <1>1, EngineCorrect, PTL

(* A completed receipt excludes an accepted cancellation on every port     *)
(* whose claim_completion is atomic.                                       *)
THEOREM CompletionOrCancellation == Spec => []CompletionExcludesCancellation
  <1>1. EngineInvariant => CompletionExcludesCancellation
    BY DEF EngineInvariant, CellsClaimed, CompletionExcludesCancellation
  <1>2. QED BY <1>1, EngineCorrect, PTL

=============================================================================
