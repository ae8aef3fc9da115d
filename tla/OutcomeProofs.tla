---------------------------- MODULE OutcomeProofs ----------------------------
(***************************************************************************)
(* What a run amounts to, for every value of the constants: AgentRunEngine *)
(* implements GovernedRun, a receipt accounts for all reported usage, and  *)
(* an accepted cancellation decides how the run ends.                      *)
(*                                                                         *)
(* All are about what the ledger's methods leave alone, also where an      *)
(* error is about to drop the ledger, so the frame lemmas ask only for the *)
(* fields to exist, not for a sound ledger.                                *)
(***************************************************************************)
EXTENDS AgentRunProofs, FiniteSetTheorems, SequenceTheorems

----------------------------------------------------------------------------
(* The frame of the ledger's methods.                                      *)

Shaped(l) ==
  /\ {"status", "current", "usage", "log", "results", "seen", "ids", "digests",
      "keys", "mutationRequired", "mutationAuthorized"} \subseteq DOMAIN l
  /\ {"ok", "seq", "status", "current", "lastMutation", "verified", "usage",
      "completion", "decisions", "interrupted", "last"} \subseteq DOMAIN l.log

(* l has grown into k without a result, a mutation or a verification.      *)
Frame(k, l) ==
  /\ Shaped(k)
  /\ k.results = l.results
  /\ k.current = l.current
  /\ k.log.verified = l.log.verified
  /\ k.log.lastMutation = l.log.lastMutation

LEMMA FrameTransitive ==
  ASSUME NEW l, NEW k, NEW h, Frame(k, l), Frame(h, k) PROVE Frame(h, l)
  BY DEF Frame

LEMMA FrameReflexive == ASSUME NEW l, Shaped(l) PROVE Frame(l, l)
  BY DEF Frame

LEMMA FrameMeaning ==
  ASSUME NEW l, NEW k, Frame(k, l)
  PROVE  /\ Shaped(k) /\ k.results = l.results
         /\ AllExecuted(k) <=> AllExecuted(l)
         /\ Checked(k) <=> Checked(l)
         /\ AttemptCount(k) = AttemptCount(l)
  <1>1. Shaped(k) /\ k.results = l.results BY DEF Frame
  <1>2. AllExecuted(k) <=> AllExecuted(l) BY <1>1 DEF AllExecuted
  <1>3. Checked(k) <=> Checked(l) BY DEF Frame, Checked
  <1>4. AttemptCount(k) = AttemptCount(l) BY <1>1 DEF AttemptCount
  <1>5. QED BY <1>1, <1>2, <1>3, <1>4

LEMMA RecordShaped == ASSUME NEW l \in LedgerRecord PROVE Shaped(l)
  BY DEF LedgerRecord, LogRecord, Shaped

LEMMA LogFrame ==
  ASSUME NEW l, Shaped(l), NEW r,
         DOMAIN r = DOMAIN l.log, r.verified = l.log.verified,
         r.lastMutation = l.log.lastMutation
  PROVE  LET k == [l EXCEPT !.log = r] IN Frame(k, l) /\ k.usage = l.usage
  BY DEF Frame, Shaped

(* One lemma per method: transition, the notes, a decision, an execution,  *)
(* an interruption.                                                        *)
LEMMA TransitionFrame ==
  ASSUME NEW l, Shaped(l), NEW to
  PROVE  Frame(Transition(l, to), l) /\ Transition(l, to).usage = l.usage
  <1> DEFINE r == ReplayTransition(l.log, l.status, to)
  <1>1. /\ DOMAIN r = DOMAIN l.log /\ r.verified = l.log.verified
        /\ r.lastMutation = l.log.lastMutation
    BY DEF ReplayTransition, Shaped
  <1>2. Transition(l, to) = [l EXCEPT !.log = r, !.status = to] BY DEF Transition
  <1> HIDE DEF r
  <1>3. QED BY <1>1, <1>2 DEF Frame, Shaped

LEMMA NoteFrame ==
  ASSUME NEW l, Shaped(l) PROVE Frame(Note(l), l) /\ Note(l).usage = l.usage
  <1> DEFINE r == ReplayNote(l.log, TRUE)
  <1>1. /\ DOMAIN r = DOMAIN l.log /\ r.verified = l.log.verified
        /\ r.lastMutation = l.log.lastMutation
    BY DEF ReplayNote, Shaped
  <1>2. Note(l) = [l EXCEPT !.log = r] BY DEF Note
  <1> HIDE DEF r
  <1>3. QED BY <1>1, <1>2, LogFrame

LEMMA DecideFrame ==
  ASSUME NEW l, Shaped(l), NEW id, NEW gate, NEW digest, NEW decision, NEW intact
  PROVE  LET k == Decide(l, id, gate, digest, decision, intact)
         IN Frame(k, l) /\ k.usage = l.usage /\ k.status = l.status
  <1> DEFINE r == ReplayDecision(l.log, id, gate, digest, l.current, decision, intact)
             a == l.mutationAuthorized \/ /\ gate = "workflow"
                                          /\ decision = Allow("workflow.mutation_authorized")
  <1>1. /\ DOMAIN r = DOMAIN l.log /\ r.verified = l.log.verified
        /\ r.lastMutation = l.log.lastMutation
    BY DEF ReplayDecision, Shaped
  <1>2. Decide(l, id, gate, digest, decision, intact)
          = [l EXCEPT !.log = r, !.mutationAuthorized = a]
    BY DEF Decide
  <1> HIDE DEF r, a
  <1>3. QED BY <1>1, <1>2 DEF Frame, Shaped

LEMMA ToolExecutionFrame ==
  ASSUME NEW l, Shaped(l), NEW id, NEW e
  PROVE  LET k == ToolExecution(l, id, e) IN Frame(k, l) /\ k.usage = l.usage
  <1> DEFINE r == ReplayToolExecution(l.log, id, e, TRUE)
  <1>1. /\ DOMAIN r = DOMAIN l.log /\ r.verified = l.log.verified
        /\ r.lastMutation = l.log.lastMutation
    BY DEF ReplayToolExecution, Shaped
  <1>2. ToolExecution(l, id, e) = [l EXCEPT !.log = r] BY DEF ToolExecution
  <1> HIDE DEF r
  <1>3. QED BY <1>1, <1>2, LogFrame

LEMMA InterruptFrame ==
  ASSUME NEW l, Shaped(l) PROVE Frame(Interrupt(l), l) /\ Interrupt(l).usage = l.usage
  <1> DEFINE r == ReplayInterruption(l.log)
  <1>1. /\ DOMAIN r = DOMAIN l.log /\ r.verified = l.log.verified
        /\ r.lastMutation = l.log.lastMutation
    BY DEF ReplayInterruption, Shaped
  <1>2. Interrupt(l) = [l EXCEPT !.log = r] BY DEF Interrupt
  <1> HIDE DEF r
  <1>3. QED BY <1>1, <1>2, LogFrame

LEMMA UsageEventFrame ==
  ASSUME NEW l, Shaped(l) PROVE Frame(UsageEvent(l), l) /\ UsageEvent(l).usage = l.usage
  <1> DEFINE r == ReplayUsage(l.log, l.usage)
  <1>1. /\ DOMAIN r = DOMAIN l.log /\ r.verified = l.log.verified
        /\ r.lastMutation = l.log.lastMutation
    BY DEF ReplayUsage, Shaped
  <1>2. UsageEvent(l) = l \/ UsageEvent(l) = [l EXCEPT !.log = r] BY DEF UsageEvent
  <1> HIDE DEF r
  <1>3. CASE UsageEvent(l) = l BY <1>3, FrameReflexive
  <1>4. CASE UsageEvent(l) = [l EXCEPT !.log = r]
    <2>1. LET k == [l EXCEPT !.log = r] IN Frame(k, l) /\ k.usage = l.usage
      BY <1>1, LogFrame
    <2>2. QED BY <1>4, <2>1
  <1>5. QED BY <1>2, <1>3, <1>4

LEMMA RecordUsageFrame ==
  ASSUME NEW l, Shaped(l), NEW u
  PROVE  LET k == RecordUsage(l, u)
         IN Frame(k, l) /\ k.usage = CappedUsage(l.usage, u)
  <1> DEFINE v == CappedUsage(l.usage, u)
             h == [l EXCEPT !.usage = v]
  <1>1. RecordUsage(l, u) = UsageEvent(h) BY DEF RecordUsage
  <1> HIDE DEF v
  <1>2. Frame(h, l) /\ h.usage = v BY DEF Frame, Shaped
  <1> HIDE DEF h
  <1>3. Frame(UsageEvent(h), h) /\ UsageEvent(h).usage = h.usage
    BY <1>2, UsageEventFrame DEF Frame
  <1>4. QED BY <1>1, <1>2, <1>3, FrameTransitive DEF v

(* Observed: the usage of an error, if there is any.                       *)
LEMMA ObservedFrame ==
  ASSUME NEW l, Shaped(l), NEW u PROVE Frame(Observed(l, u), l)
  BY RecordUsageFrame, FrameReflexive DEF Observed

(* An attempt keeps results and verification; a mutation moves the subject.*)
LEMMA AttemptFrame ==
  ASSUME NEW l, Shaped(l), NEW p, NEW b
  PROVE  LET k == AttemptLedger(l, p, b)
         IN /\ Shaped(k) /\ k.results = l.results /\ k.log.verified = l.log.verified
            /\ k.usage = CappedUsage(l.usage, b.usage)
  <1> DEFINE e == p.effect
             a == AcceptEffectIdentity(l, e)
             t == ToolExecution(a, p.permission, e)
             m == Mutate(t, p.workflow, e, b.post)
             c == IF b.post # Null /\ e.class = "mutation" THEN m ELSE t
             r == ReplayMutation(t.log, p.workflow, e, t.current, b.post)
  <1>1. Frame(a, l) /\ a.usage = l.usage
    BY DEF AcceptEffectIdentity, Frame, Shaped
  <1> HIDE DEF a
  <1>2. Frame(t, a) /\ t.usage = a.usage
    BY <1>1, ToolExecutionFrame DEF Frame
  <1> HIDE DEF t
  <1>3. DOMAIN r = DOMAIN t.log /\ r.verified = t.log.verified
    BY <1>2 DEF ReplayMutation, Frame, Shaped
  <1>4. m = [t EXCEPT !.log = r, !.current = b.post] BY DEF Mutate
  <1> HIDE DEF r
  <1>5. /\ Shaped(m) /\ m.results = t.results /\ m.log.verified = t.log.verified
        /\ m.usage = t.usage
    BY <1>2, <1>3, <1>4 DEF Frame, Shaped
  <1> HIDE DEF m
  <1>6. /\ Shaped(c) /\ c.results = t.results /\ c.log.verified = t.log.verified
        /\ c.usage = t.usage
    BY <1>2, <1>5 DEF Frame
  <1>7. AttemptLedger(l, p, b) = RecordUsage(c, b.usage) BY DEF AttemptLedger, c, m, t, a
  <1> HIDE DEF c
  <1>8. Frame(RecordUsage(c, b.usage), c)
        /\ RecordUsage(c, b.usage).usage = CappedUsage(c.usage, b.usage)
    BY <1>6, RecordUsageFrame
  <1>9. QED BY <1>1, <1>2, <1>6, <1>7, <1>8 DEF Frame

(* A report enters the log, and with it the verification.                  *)
LEMMA VerificationFrame ==
  ASSUME NEW l, Shaped(l), NEW rep
  PROVE  LET k == VerificationLedger(l, rep)
         IN Shaped(k) /\ k.results = l.results /\ k.usage = l.usage
  <1> DEFINE r == ReplayVerification(l.log, rep.subject, config.implementer,
                                     rep.verifier, rep.verdict, TRUE, rep.complete)
  <1>1. DOMAIN r = DOMAIN l.log BY DEF ReplayVerification, Shaped
  <1>2. VerificationLedger(l, rep) = l \/ VerificationLedger(l, rep) = [l EXCEPT !.log = r]
    BY DEF VerificationLedger, Verified
  <1> HIDE DEF r
  <1>3. QED BY <1>1, <1>2 DEF Shaped

----------------------------------------------------------------------------
(* Results and attempts.                                                   *)

EffectResults == Seq([effect : Effects, status : Statuses])

LEMMA AttemptCountType ==
  ASSUME NEW l, l.results \in EffectResults PROVE AttemptCount(l) \in Nat
  <1> DEFINE a == {i \in DOMAIN l.results : l.results[i].status \in Attempted}
  <1>1. DOMAIN l.results = 1..Len(l.results) /\ Len(l.results) \in Nat
    BY DEF EffectResults
  <1>2. IsFiniteSet(1..Len(l.results)) BY <1>1, FS_Interval
  <1>3. IsFiniteSet(a) BY <1>1, <1>2, FS_Subset
  <1>4. QED BY <1>3, FS_CardinalityType DEF AttemptCount

(* effect_results.push: an attempt is counted as one.                      *)
LEMMA PushFrame ==
  ASSUME NEW l, Shaped(l), l.results \in EffectResults, NEW e \in Effects, NEW s \in Statuses
  PROVE  LET k == PushResult(l, e, s)
         IN /\ Shaped(k) /\ k.usage = l.usage /\ k.log = l.log /\ k.current = l.current
            /\ k.results = Append(l.results, [effect |-> e, status |-> s])
            /\ AttemptCount(k) = AttemptCount(l) + (IF s \in Attempted THEN 1 ELSE 0)
  <1> DEFINE q == l.results
             x == [effect |-> e, status |-> s]
             t == Append(q, x)
             n == Len(q)
             A(w) == {i \in DOMAIN w : w[i].status \in Attempted}
             k == PushResult(l, e, s)
  <1>1. /\ Shaped(k) /\ k.usage = l.usage /\ k.log = l.log /\ k.current = l.current
        /\ k.results = t
    BY DEF PushResult, Shaped
  <1>2. AttemptCount(k) = Cardinality(A(t)) /\ AttemptCount(l) = Cardinality(A(q))
    BY <1>1 DEF AttemptCount
  <1> HIDE DEF k
  <1>3. q \in EffectResults /\ n \in Nat /\ DOMAIN q = 1..n BY DEF EffectResults
  <1>4. x \in [effect : Effects, status : Statuses] /\ x.status = s OBVIOUS
  <1> HIDE DEF x
  <1>5. /\ DOMAIN t = 1..(n + 1) /\ t[n + 1] = x /\ \A i \in 1..n : t[i] = q[i]
    BY <1>3, <1>4 DEF EffectResults
  <1> HIDE DEF t, q, n
  <1>6. A(t) = IF s \in Attempted THEN A(q) \cup {n + 1} ELSE A(q)
    <2>1. \A i \in 1..(n + 1) : i = n + 1 \/ i \in 1..n BY <1>3
    <2>2. 1..n \subseteq 1..(n + 1) /\ n + 1 \in 1..(n + 1) BY <1>3
    <2>3. QED BY <1>3, <1>4, <1>5, <2>1, <2>2
  <1>7. IsFiniteSet(A(q)) /\ n + 1 \notin A(q)
    <2>1. IsFiniteSet(1..n) BY <1>3, FS_Interval
    <2>2. n + 1 \notin 1..n BY <1>3
    <2>3. A(q) \subseteq 1..n BY <1>3
    <2>4. QED BY <2>1, <2>2, <2>3, FS_Subset
  <1> HIDE DEF A
  <1>8. Cardinality(A(q) \cup {n + 1}) = Cardinality(A(q)) + 1
    BY <1>7, FS_AddElement
  <1>9. Cardinality(A(q)) \in Nat BY <1>7, FS_CardinalityType
  <1>10. AttemptCount(k) = AttemptCount(l) + (IF s \in Attempted THEN 1 ELSE 0)
    BY <1>2, <1>6, <1>8, <1>9
  <1>11. QED BY <1>1, <1>10 DEF k, t, q, x

(* The results after a push, as GovernedRun sees them.                     *)
LEMMA PushedResults ==
  ASSUME NEW q \in EffectResults, NEW e \in Effects, NEW s \in Statuses
  PROVE  LET t == Append(q, [effect |-> e, status |-> s])
         IN /\ Len(t) = Len(q) + 1 /\ Len(q) \in Nat
            /\ (\A i \in DOMAIN q : q[i].status = "executed") /\ s = "executed"
                 => \A i \in DOMAIN t : t[i].status = "executed"
  <1> DEFINE x == [effect |-> e, status |-> s]
             t == Append(q, x)
             n == Len(q)
  <1>1. x \in [effect : Effects, status : Statuses] /\ x.status = s OBVIOUS
  <1> HIDE DEF x
  <1>2. /\ n \in Nat /\ Len(t) = n + 1 /\ DOMAIN q = 1..n /\ DOMAIN t = 1..(n + 1)
        /\ t[n + 1] = x /\ \A i \in 1..n : t[i] = q[i]
    BY <1>1 DEF EffectResults
  <1> HIDE DEF t, n
  <1>3. \A i \in 1..(n + 1) : i = n + 1 \/ i \in 1..n BY <1>2
  <1>4. QED BY <1>1, <1>2, <1>3 DEF t, n, x

----------------------------------------------------------------------------
(* Usage.                                                                  *)

Counters == [Meters -> 0..MaxSafe]

(* What an attempt is charged, v, for a reported u: as much, at least one  *)
(* call, and no more than can be counted.                                  *)
Charges(v, u) ==
  \A m \in Meters : \/ v[m] = u[m] /\ (m = "calls" => u[m] >= 1)
                    \/ m = "calls" /\ u[m] = 0 /\ v[m] = 1
                    \/ v[m] = MaxSafe /\ u[m] >= MaxSafe

LEMMA CappedValue ==
  ASSUME NEW a, NEW u, NEW m \in Meters
  PROVE  CappedUsage(a, u)[m] = IF a[m] + u[m] > MaxSafe THEN MaxSafe ELSE a[m] + u[m]
  BY DEF CappedUsage, CappedSum

LEMMA CappedZero == ASSUME NEW a \in Counters PROVE CappedUsage(a, ZeroUsage) = a
  BY MaxSafeAssumption DEF CappedUsage, CappedSum, ZeroUsage, Counters

LEMMA CoversFrame ==
  ASSUME NEW l, NEW k, NEW a, UsageCovers(l, a), k.usage = l.usage,
         AttemptCount(k) = AttemptCount(l)
  PROVE  UsageCovers(k, a)
  BY DEF UsageCovers

(* Usage that is recorded as it was reported.                              *)
LEMMA CoversReported ==
  ASSUME NEW l, NEW k, NEW a \in Counters, l.usage \in Counters, UsageCovers(l, a),
         NEW u \in Usage, k.usage = CappedUsage(l.usage, u),
         AttemptCount(k) = AttemptCount(l), AttemptCount(l) \in Nat
  PROVE  UsageCovers(k, CappedUsage(a, u))
  <1>1. "calls" \in Meters BY MeterAssumption
  <1>2. \A m \in Meters : a[m] \in Nat /\ l.usage[m] \in Nat /\ u[m] \in Nat
    BY MaxSafeAssumption DEF Counters, Usage
  <1>3. \A m \in Meters \ {"calls"} : k.usage[m] = CappedUsage(a, u)[m]
    BY CappedValue DEF UsageCovers
  <1>4. /\ k.usage["calls"] >= CappedUsage(a, u)["calls"]
        /\ k.usage["calls"] >= l.usage["calls"]
    <2>1. /\ l.usage["calls"] >= a["calls"] /\ l.usage["calls"] <= MaxSafe
      BY <1>1, MaxSafeAssumption DEF UsageCovers, Counters
    <2>2. QED BY <1>1, <1>2, <2>1, CappedValue, MaxSafeAssumption
  <1>5. k.usage["calls"] \in Nat
    BY <1>1, <1>2, CappedValue, MaxSafeAssumption
  <1>6. QED BY <1>1, <1>2, <1>3, <1>4, <1>5, MaxSafeAssumption DEF UsageCovers

(* Usage of an attempt, charged with at least one call.                    *)
LEMMA CoversAttempt ==
  ASSUME NEW l, NEW k, NEW a \in Counters, l.usage \in Counters, UsageCovers(l, a),
         NEW u \in Usage, NEW v \in Usage, Charges(v, u), k.usage = CappedUsage(l.usage, v),
         AttemptCount(k) = AttemptCount(l) + 1, AttemptCount(l) \in Nat
  PROVE  UsageCovers(k, CappedUsage(a, u))
  <1>1. "calls" \in Meters BY MeterAssumption
  <1>2. \A m \in Meters : a[m] \in Nat /\ l.usage[m] \in Nat /\ u[m] \in Nat /\ v[m] \in Nat
    BY MaxSafeAssumption DEF Counters, Usage
  <1>3. ASSUME NEW m \in Meters \ {"calls"} PROVE k.usage[m] = CappedUsage(a, u)[m]
    <2>1. l.usage[m] = a[m] BY DEF UsageCovers
    <2>2. v[m] = u[m] \/ (v[m] = MaxSafe /\ u[m] >= MaxSafe) BY DEF Charges
    <2>3. QED BY <1>2, <2>1, <2>2, CappedValue, MaxSafeAssumption
  <1>4. /\ l.usage["calls"] >= a["calls"] /\ l.usage["calls"] <= MaxSafe
        /\ l.usage["calls"] >=
             IF AttemptCount(l) > MaxSafe THEN MaxSafe ELSE AttemptCount(l)
    BY <1>1, MaxSafeAssumption DEF UsageCovers, Counters
  <1>5. \/ v["calls"] = u["calls"] /\ u["calls"] >= 1
        \/ u["calls"] = 0 /\ v["calls"] = 1
        \/ v["calls"] = MaxSafe /\ u["calls"] >= MaxSafe
    BY <1>1 DEF Charges
  <1>6. /\ k.usage["calls"] = IF l.usage["calls"] + v["calls"] > MaxSafe
                                THEN MaxSafe ELSE l.usage["calls"] + v["calls"]
        /\ CappedUsage(a, u)["calls"] = IF a["calls"] + u["calls"] > MaxSafe
                                          THEN MaxSafe ELSE a["calls"] + u["calls"]
    BY <1>1, CappedValue
  <1> DEFINE lc == l.usage["calls"]
             ac == a["calls"]
             uc == u["calls"]
             vc == v["calls"]
             n == AttemptCount(l)
  <1>7. lc \in Nat /\ ac \in Nat /\ uc \in Nat /\ vc \in Nat /\ n \in Nat /\ MaxSafe \in Nat
        /\ MaxSafe >= 1
    BY <1>1, <1>2, MaxSafeAssumption
  <1> HIDE DEF lc, ac, uc, vc, n
  <1>8. k.usage["calls"] >= CappedUsage(a, u)["calls"]
    BY <1>4, <1>5, <1>6, <1>7 DEF lc, ac, uc, vc, n
  <1>9. k.usage["calls"] >= IF n + 1 > MaxSafe THEN MaxSafe ELSE n + 1
    BY <1>4, <1>5, <1>6, <1>7 DEF lc, ac, uc, vc, n
  <1>10. QED BY <1>3, <1>8, <1>9 DEF UsageCovers, n

(* The floor of one call, and what is recorded of each kind of attempt.    *)
LEMMA FloorCharges ==
  ASSUME NEW u \in Usage
  PROVE  /\ AtLeastOneCall(u) \in Usage
         /\ Charges(AtLeastOneCall(u), u)
  <1>1. AtLeastOneCall(u) \in Usage BY AtLeastOneCallUsage
  <1>2. CASE u["calls"] = 0
    BY <1>2, MeterAssumption DEF AtLeastOneCall, Charges, Usage
  <1>3. CASE u["calls"] # 0
    <2>1. u["calls"] >= 1 BY <1>3, MeterAssumption DEF Usage
    <2>2. QED BY <1>3, <2>1 DEF AtLeastOneCall, Charges, Usage
  <1>4. QED BY <1>1, <1>2, <1>3

LEMMA CeilingCharges ==
  ASSUME NEW u \in Usage, NEW v \in Usage, Charges(v, u)
  PROVE  LET w == [m \in Meters |-> IF v[m] > MaxSafe THEN MaxSafe ELSE v[m]]
         IN w \in Usage /\ Charges(w, u)
  <1> DEFINE w == [m \in Meters |-> IF v[m] > MaxSafe THEN MaxSafe ELSE v[m]]
  <1>1. w \in Usage BY MaxSafeAssumption DEF Usage
  <1>2. ASSUME NEW m \in Meters
        PROVE  \/ w[m] = u[m] /\ (m = "calls" => u[m] >= 1)
               \/ m = "calls" /\ u[m] = 0 /\ w[m] = 1
               \/ w[m] = MaxSafe /\ u[m] >= MaxSafe
    <2>1. u[m] \in Nat /\ v[m] \in Nat /\ MaxSafe \in Nat /\ MaxSafe >= 1
      BY MaxSafeAssumption DEF Usage
    <2>2. w[m] = IF v[m] > MaxSafe THEN MaxSafe ELSE v[m] OBVIOUS
    <2> HIDE DEF w
    <2>3. \/ v[m] = u[m] /\ (m = "calls" => u[m] >= 1)
          \/ m = "calls" /\ u[m] = 0 /\ v[m] = 1
          \/ v[m] = MaxSafe /\ u[m] >= MaxSafe
      BY DEF Charges
    <2>4. QED BY <2>1, <2>2, <2>3
  <1> HIDE DEF w
  <1>3. Charges(w, u) BY <1>2 DEF Charges
  <1>4. QED BY <1>1, <1>3 DEF w

----------------------------------------------------------------------------
(* The ways an engine step can end, seen as steps of GovernedRun.          *)

RunStep == OutcomeInvariant' /\ [Promise!Next]_(Promise!runVars)

LEMMA LedgerShape ==
  ASSUME RunInvariant
  PROVE  /\ Shaped(ledger) /\ ledger.results \in EffectResults
         /\ ledger.usage \in Counters /\ metered \in Counters
         /\ AttemptCount(ledger) \in Nat
         /\ result \in {"none", "receipt"} => UsageCovers(ledger, metered)
         /\ Len(ledger.results) \in Nat /\ Len(invoked) \in Nat
  <1>1. /\ ledger \in LedgerRecord /\ metered \in Counters /\ invoked \in Seq(Effects)
    BY DEF RunInvariant, EngineInvariant, TypeOK, Counters
  <1>2. ledger.results \in EffectResults /\ ledger.usage \in Counters
    BY <1>1 DEF LedgerRecord, EffectResults, Counters
  <1>3. AttemptCount(ledger) \in Nat BY <1>2, AttemptCountType
  <1>4. result \in {"none", "receipt"} => UsageCovers(ledger, metered)
    BY DEF RunInvariant, OutcomeInvariant, UsageKept
  <1>5. Len(ledger.results) \in Nat BY <1>2 DEF EffectResults
  <1>6. QED BY <1>1, <1>2, <1>3, <1>4, <1>5, RecordShaped

LEMMA OpenRun ==
  ASSUME RunInvariant, pc \notin {"close", "closed"}
  PROVE  result = "none" /\ Verdict = "open"
  BY DEF RunInvariant, EngineInvariant, ErrorsAreFinal, Verdict

(* A step that GovernedRun does not see.                                   *)
LEMMA Unseen ==
  ASSUME invoked' = invoked, ledger'.results = ledger.results,
         Checked(ledger') <=> Checked(ledger), Verdict' = Verdict
  PROVE  [Promise!Next]_(Promise!runVars)
  BY DEF Promise!runVars, Checked

LEMMA OpenAfter == ASSUME result' = "none" PROVE Verdict' = "open"
  BY DEF Verdict

(* What is not yet verified.                                               *)
LEMMA Unchecked == ASSUME NEW l, l.log.verified = Null PROVE Checked(l) = FALSE
  BY DEF Checked

(* finish() after which every dispatch has its result.                     *)
LEMMA FinishOutcome ==
  ASSUME NEW l, NEW s \in {"blocked", "failed", "interrupted"}, Finish(l, s),
         UNCHANGED invoked, Len(invoked) <= Len(l.results), UsageCovers(l, metered')
  PROVE  OutcomeInvariant'
  <1>1. /\ pc' \in {"seal", "observe_agent"} /\ ledger' = l /\ ending' = s
        /\ result' = result /\ invoked' = invoked
    BY DEF Finish
  <1>2. ResultsMatch' BY <1>1 DEF ResultsMatch
  <1>3. UnverifiedYet' BY <1>1 DEF UnverifiedYet
  <1>4. UsageKept' BY <1>1 DEF UsageKept, UsageCovers, AttemptCount
  <1>5. QED BY <1>2, <1>3, <1>4 DEF OutcomeInvariant

(* A run that ends where nothing is in the executor.                       *)
LEMMA QuietFinish ==
  ASSUME RunInvariant,
         pc \in {"plan", "step", "verify", "check", "claim_agent", "claim_executor",
                 "observe_agent", "observe_executor"},
         NEW l, Frame(l, ledger), UsageCovers(l, metered'),
         NEW s \in {"blocked", "failed", "interrupted"}, Finish(l, s), UNCHANGED invoked
  PROVE  RunStep
  <1>1. result = "none" /\ Verdict = "open" BY OpenRun
  <1>2. ledger' = l /\ result' = result BY DEF Finish
  <1>3. l.results = ledger.results /\ (Checked(l) <=> Checked(ledger)) BY FrameMeaning
  <1>4. Len(invoked) <= Len(ledger.results)
    <2>1. invoked = <<>> /\ ledger.results = <<>> => Len(invoked) <= Len(ledger.results)
      OBVIOUS
    <2>2. QED BY <2>1, LedgerShape DEF RunInvariant, OutcomeInvariant, ResultsMatch
  <1>5. OutcomeInvariant' BY <1>3, <1>4, FinishOutcome
  <1>6. [Promise!Next]_(Promise!runVars)
    BY <1>1, <1>2, <1>3, Unseen, OpenAfter
  <1>7. QED BY <1>5, <1>6 DEF RunStep

(* A step from one port call to the next.                                  *)
LEMMA QuietContinue ==
  ASSUME RunInvariant, NEW l, Frame(l, ledger), UsageCovers(l, metered'),
         NEW at, Continue(l, at), UNCHANGED invoked,
         <<pc, at>> \in {<<"start", "plan">>, <<"plan", "step">>, <<"step", "verify">>,
                         <<"check", "claim_agent">>, <<"claim_agent", "claim_executor">>,
                         <<"observe_agent", "observe_executor">>,
                         <<"observe_executor", "seal">>}
  PROVE  RunStep
  <1>0. pc \in {"start", "plan", "step", "check", "claim_agent", "observe_agent",
                "observe_executor"}
    OBVIOUS
  <1>1. result = "none" /\ Verdict = "open" BY <1>0, OpenRun
  <1>2. ledger' = l /\ result' = result /\ ending' = ending /\ pc' = at
    BY DEF Continue
  <1>3. /\ l.results = ledger.results /\ (Checked(l) <=> Checked(ledger))
        /\ (AllExecuted(l) <=> AllExecuted(ledger))
        /\ l.log.verified = ledger.log.verified
    BY FrameMeaning DEF Frame
  <1>4. ResultsMatch'
    <2>1. CASE pc = "start"
      BY <2>1, <1>2, <1>3 DEF RunInvariant, OutcomeInvariant, ResultsMatch
    <2>2. CASE pc = "plan"
      <3>1. invoked = <<>> /\ ledger.results = <<>>
        BY <2>2 DEF RunInvariant, OutcomeInvariant, ResultsMatch
      <3>2. Len(invoked) = Len(ledger.results) /\ AllExecuted(ledger)
        BY <3>1 DEF AllExecuted
      <3>3. QED BY <2>2, <3>2, <1>2, <1>3 DEF ResultsMatch, AllExecuted
    <2>3. CASE pc \in {"step", "check", "claim_agent"}
      BY <2>3, <1>2, <1>3 DEF RunInvariant, OutcomeInvariant, ResultsMatch, AllExecuted
    <2>4. CASE pc = "observe_agent"
      BY <2>4, <1>2, <1>3 DEF RunInvariant, OutcomeInvariant, ResultsMatch
    <2>5. CASE pc = "observe_executor"
      <3>1. ending \in {"blocked", "failed"}
        BY <2>5 DEF RunInvariant, EngineInvariant, LedgerSound
      <3>2. QED BY <3>1, <2>5, <1>2, <1>3 DEF RunInvariant, OutcomeInvariant, ResultsMatch
    <2>6. QED BY <1>0, <2>1, <2>2, <2>3, <2>4, <2>5
  <1>5. UnverifiedYet'
    BY <1>2, <1>3 DEF RunInvariant, OutcomeInvariant, UnverifiedYet
  <1>6. UsageKept' BY <1>2 DEF UsageKept, UsageCovers, AttemptCount
  <1>7. [Promise!Next]_(Promise!runVars)
    BY <1>1, <1>2, <1>3, Unseen, OpenAfter
  <1>8. QED BY <1>4, <1>5, <1>6, <1>7 DEF RunStep, OutcomeInvariant

(* A `?' that drops the ledger: an error instead of a receipt.             *)
LEMMA FailStep ==
  ASSUME RunInvariant, pc \notin {"seal", "close", "closed"},
         NEW error \in {"rejected", "result_error"}, Fail(error), UNCHANGED invoked
  PROVE  RunStep
  <1>1. result = "none" /\ Verdict = "open" BY OpenRun
  <1>2. ledger' = ledger /\ result' = error /\ pc' = "close" BY DEF Fail
  <1>3. OutcomeInvariant'
    BY <1>2 DEF OutcomeInvariant, ResultsMatch, UnverifiedYet, UsageKept
  <1>4. Verdict' = "error" BY <1>2 DEF Verdict
  <1>5. Promise!Stop
    BY <1>1, <1>2, <1>4 DEF Promise!Stop, Checked
  <1>6. QED BY <1>3, <1>5 DEF RunStep, Promise!Next

(* An effect the gates stop: its result without a dispatch.                *)
LEMMA RefuseStep ==
  ASSUME RunInvariant, pc = "step", NEW k, NEW e \in Effects, NEW s \in NotExecuted,
         k.results = Append(ledger.results, [effect |-> e, status |-> s]),
         k.log.verified = Null, UsageCovers(k, metered'), UNCHANGED invoked,
         NEW w \in {"blocked", "failed", "interrupted"}, Finish(k, w)
  PROVE  RunStep
  <1>1. result = "none" /\ Verdict = "open" BY OpenRun
  <1>2. ledger' = k /\ result' = result BY DEF Finish
  <1>3. Len(invoked) = Len(ledger.results) /\ AllExecuted(ledger)
    BY DEF RunInvariant, OutcomeInvariant, ResultsMatch
  <1>4. Len(k.results) = Len(ledger.results) + 1 /\ Len(ledger.results) \in Nat
    <2>1. ledger.results \in EffectResults BY LedgerShape
    <2>2. QED BY <2>1, PushedResults DEF Statuses
  <1>5. OutcomeInvariant' BY <1>3, <1>4, FinishOutcome
  <1>6. ledger.log.verified = Null
    BY DEF RunInvariant, OutcomeInvariant, UnverifiedYet
  <1>7. Checked(ledger) = FALSE /\ Checked(ledger') = FALSE BY <1>2, <1>6, Unchecked
  <1>8. Verdict' = "open" BY <1>1, <1>2, OpenAfter
  <1>9. s \in {"denied", "awaiting_authority"} BY DEF NotExecuted
  <1>10. Promise!Refuse
    BY <1>1, <1>2, <1>3, <1>7, <1>8, <1>9
      DEF Promise!Refuse, Promise!Idle, Promise!AllExecuted, AllExecuted
  <1>11. QED BY <1>5, <1>10 DEF RunStep, Promise!Next

(* The answer of the executor is sealed as a result.                       *)
LEMMA RecordStep ==
  ASSUME RunInvariant, pc = "execute", NEW k, NEW s \in Statuses,
         k.results = Append(ledger.results, [effect |-> pending.effect, status |-> s]),
         k.log.verified = Null, UsageCovers(k, metered'), UNCHANGED invoked,
         \/ \E w \in {"blocked", "failed", "interrupted"} : Finish(k, w)
         \/ s = "executed" /\ Continue(k, "step")
  PROVE  RunStep
  <1>1. result = "none" /\ Verdict = "open" BY OpenRun
  <1>2. ledger' = k /\ result' = result BY DEF Finish, Continue
  <1>3. Len(invoked) = Len(ledger.results) + 1 /\ AllExecuted(ledger)
    BY DEF RunInvariant, OutcomeInvariant, ResultsMatch
  <1>4. pending.effect \in Effects /\ invoked[Len(invoked)] = pending.effect
    <2>1. "execute" \in Running BY DEF Running
    <2>2. QED BY <2>1 DEF RunInvariant, EngineInvariant, TypeOK, IdentitiesKept
  <1>5. /\ Len(k.results) = Len(ledger.results) + 1 /\ Len(ledger.results) \in Nat
        /\ s = "executed" => AllExecuted(k)
    <2>1. ledger.results \in EffectResults BY LedgerShape
    <2>2. QED BY <1>3, <1>4, <2>1, PushedResults DEF AllExecuted
  <1>6. OutcomeInvariant'
    <2>1. CASE \E w \in {"blocked", "failed", "interrupted"} : Finish(k, w)
      BY <2>1, <1>3, <1>5, FinishOutcome
    <2>2. CASE s = "executed" /\ Continue(k, "step")
      <3>1. /\ pc' = "step" /\ ledger' = k /\ ending' = ending /\ result' = result
            /\ invoked' = invoked
        BY <2>2 DEF Continue
      <3>2. ResultsMatch' BY <1>3, <1>5, <2>2, <3>1 DEF ResultsMatch, AllExecuted
      <3>3. UnverifiedYet' BY <3>1 DEF UnverifiedYet
      <3>4. UsageKept' BY <3>1 DEF UsageKept, UsageCovers, AttemptCount
      <3>5. QED BY <3>2, <3>3, <3>4 DEF OutcomeInvariant
    <2>3. QED BY <2>1, <2>2
  <1>7. ledger.log.verified = Null
    BY DEF RunInvariant, OutcomeInvariant, UnverifiedYet
  <1>8. Checked(ledger) = FALSE /\ Checked(ledger') = FALSE BY <1>2, <1>7, Unchecked
  <1>9. Verdict' = "open" BY <1>1, <1>2, OpenAfter
  <1>10. Promise!Record
    BY <1>1, <1>2, <1>3, <1>4, <1>8, <1>9 DEF Promise!Record
  <1>11. QED BY <1>6, <1>10 DEF RunStep, Promise!Next

(* The result of an effect that was not executed, whether the gates stopped*)
(* it or the executor declined it, or the error that it cannot be sealed.  *)
LEMMA RefusedStep ==
  ASSUME RunInvariant, pc \in {"step", "execute"}, NEW l, Frame(l, ledger),
         UsageCovers(l, metered'), NEW e \in Effects, pc = "execute" => e = pending.effect,
         NEW gate, NEW decision, NEW intact, Refuse(l, e, gate, decision, intact),
         UNCHANGED invoked
  PROVE  RunStep
  <1> DEFINE b == NonExecutionBody(l, e, gate, decision, intact)
             s == b.status
             k == PushResult(l, e, s)
             h == IF decision.outcome = "ask" THEN Transition(k, "awaiting_authority") ELSE k
  <1>1. CASE ~ValidResult(e, b)
    <2>1. Fail("result_error") BY <1>1 DEF Refuse
    <2>2. QED BY <2>1, FailStep
  <1>2. CASE ValidResult(e, b)
    <2>1. s \in NotExecuted /\ s \in Statuses /\ s \notin Attempted
      BY DEF NonExecutionBody, NonExecutionStatus, NotExecuted, Statuses, Attempted
    <2>2. Finish(h, "blocked") BY <1>2 DEF Refuse, BlockedFromDecision
    <2> HIDE DEF s
    <2>3. /\ Shaped(l) /\ l.results = ledger.results /\ ledger.results \in EffectResults
          /\ l.log.verified = ledger.log.verified
      BY LedgerShape DEF Frame
    <2>4. ledger.log.verified = Null
      BY DEF RunInvariant, OutcomeInvariant, UnverifiedYet
    <2>5. /\ Shaped(k) /\ k.usage = l.usage /\ k.log.verified = Null
          /\ k.results = Append(ledger.results, [effect |-> e, status |-> s])
          /\ AttemptCount(k) = AttemptCount(l)
      <3>1. /\ Shaped(k) /\ k.usage = l.usage /\ k.log = l.log
            /\ k.results = Append(l.results, [effect |-> e, status |-> s])
            /\ AttemptCount(k) = AttemptCount(l) + (IF s \in Attempted THEN 1 ELSE 0)
        BY <2>1, <2>3, PushFrame
      <3>2. AttemptCount(l) \in Nat BY <2>3, AttemptCountType
      <3> HIDE DEF k
      <3>3. QED BY <2>1, <2>3, <2>4, <3>1, <3>2
    <2> HIDE DEF k
    <2>6. Frame(h, k) /\ h.usage = k.usage BY <2>5, TransitionFrame, FrameReflexive
    <2> HIDE DEF h
    <2>7. /\ h.results = Append(ledger.results, [effect |-> e, status |-> s])
          /\ h.log.verified = Null /\ AttemptCount(h) = AttemptCount(l)
          /\ h.usage = l.usage
      BY <2>5, <2>6, FrameMeaning DEF Frame
    <2>8. UsageCovers(h, metered') BY <2>7, CoversFrame
    <2>9. CASE pc = "step" BY <2>1, <2>2, <2>7, <2>8, <2>9, RefuseStep
    <2>10. CASE pc = "execute" BY <2>1, <2>2, <2>7, <2>8, <2>10, RecordStep
    <2>11. QED BY <2>9, <2>10
  <1>3. QED BY <1>1, <1>2

LEMMA DeclinedStep ==
  ASSUME RunInvariant, pc \in {"step", "execute"}, NEW l, Frame(l, ledger),
         UsageCovers(l, metered'), NEW e \in Effects, pc = "execute" => e = pending.effect,
         NEW gate, NEW decision, NEW intact, Decline(l, e, gate, decision, intact),
         UNCHANGED invoked
  PROVE  RunStep
  <1> DEFINE k == Decide(l, DecisionId(l), gate, e, decision, intact)
  <1>1. Frame(k, l) /\ k.usage = l.usage BY DecideFrame DEF Frame
  <1>2. Refuse(k, e, gate, decision, intact) BY DEF Decline
  <1> HIDE DEF k
  <1>3. Frame(k, ledger) BY <1>1, FrameTransitive
  <1>4. AttemptCount(k) = AttemptCount(l) BY <1>1, FrameMeaning
  <1>5. UsageCovers(k, metered') BY <1>1, <1>4, CoversFrame
  <1>6. QED BY <1>2, <1>3, <1>5, RefusedStep

----------------------------------------------------------------------------
(* What a port reported, recorded.                                         *)

LEMMA ReportedAccount ==
  ASSUME RunInvariant, pc \notin {"close", "closed"}, NEW u \in Usage, Metered(u)
  PROVE  LET l == RecordUsage(ledger, u) IN Frame(l, ledger) /\ UsageCovers(l, metered')
  <1> DEFINE l == RecordUsage(ledger, u)
  <1>1. UsageCovers(ledger, metered) BY OpenRun, LedgerShape
  <1>2. Frame(l, ledger) /\ l.usage = CappedUsage(ledger.usage, u)
    BY LedgerShape, RecordUsageFrame
  <1> HIDE DEF l
  <1>3. AttemptCount(l) = AttemptCount(ledger) BY <1>2, FrameMeaning
  <1>4. metered' = CappedUsage(metered, u) BY AbsenceAssumption DEF Metered
  <1>5. UsageCovers(l, metered') BY <1>1, <1>2, <1>3, <1>4, LedgerShape, CoversReported
  <1>6. QED BY <1>2, <1>5 DEF l

LEMMA SilentAccount ==
  ASSUME RunInvariant, pc \notin {"close", "closed"}, UNCHANGED metered
  PROVE  Frame(ledger, ledger) /\ UsageCovers(ledger, metered')
  BY OpenRun, LedgerShape, FrameReflexive

LEMMA ObservedAccount ==
  ASSUME RunInvariant, pc \notin {"close", "closed"}, NEW u \in PortUsages \cup {Null},
         Metered(u)
  PROVE  LET l == Observed(ledger, u) IN Frame(l, ledger) /\ UsageCovers(l, metered')
  <1>1. CASE u = Null
    <2>1. Observed(ledger, u) = ledger /\ UNCHANGED metered BY <1>1 DEF Observed, Metered
    <2>2. QED BY <2>1, SilentAccount
  <1>2. CASE u # Null
    <2>1. u \in Usage /\ Observed(ledger, u) = RecordUsage(ledger, u)
      BY <1>2, UsageAssumption DEF Observed
    <2>2. QED BY <2>1, ReportedAccount
  <1>3. QED BY <1>1, <1>2

----------------------------------------------------------------------------
(* The steps, by port call.                                                *)

LEMMA PortFailsStep ==
  ASSUME RunInvariant, NEW at \in MeteredCalls, PortFails(at) PROVE RunStep
  <1>1. pc \in {"plan", "step", "verify", "check"} /\ UNCHANGED invoked
    BY DEF PortFails, MeteredCalls, Untouched
  <1>2. PICK u \in PortUsages \cup {Null} :
          Finish(Observed(ledger, u), "failed") /\ Metered(u)
    BY DEF PortFails
  <1> DEFINE l == Observed(ledger, u)
  <1>3. Frame(l, ledger) /\ UsageCovers(l, metered') BY <1>1, <1>2, ObservedAccount
  <1>4. Finish(l, "failed") BY <1>2
  <1> HIDE DEF l
  <1>5. QED BY <1>1, <1>3, <1>4, QuietFinish

LEMMA PortOverspendsStep ==
  ASSUME RunInvariant, NEW at \in MeteredCalls, PortOverspends(at) PROVE RunStep
  <1>1. pc \in {"plan", "step", "verify", "check"} /\ UNCHANGED invoked
    BY DEF PortOverspends, MeteredCalls, Untouched
  <1>2. PICK u \in PortUsages : Finish(RecordUsage(ledger, u), "blocked") /\ Metered(u)
    BY DEF PortOverspends
  <1> DEFINE l == RecordUsage(ledger, u)
  <1>3. Frame(l, ledger) /\ UsageCovers(l, metered')
    BY <1>1, <1>2, UsageAssumption, ReportedAccount
  <1>4. Finish(l, "blocked") BY <1>2
  <1> HIDE DEF l
  <1>5. QED BY <1>1, <1>3, <1>4, QuietFinish

LEMMA ReturnsAccount ==
  ASSUME RunInvariant, NEW at \in MeteredCalls, NEW u \in PortUsages, PortReturns(at, u)
  PROVE  /\ pc = at /\ pc \notin {"close", "closed"}
         /\ Frame(RecordUsage(ledger, u), ledger)
         /\ UsageCovers(RecordUsage(ledger, u), metered')
  <1>1. pc = at /\ pc \notin {"close", "closed"} /\ Metered(u)
    BY DEF PortReturns, MeteredCalls
  <1>2. u \in Usage BY UsageAssumption
  <1>3. QED BY <1>1, <1>2, ReportedAccount

LEMMA RejectRunStep == ASSUME RunInvariant, RejectRun PROVE RunStep
  BY FailStep DEF RejectRun, Untouched

LEMMA AcceptRunStep == ASSUME RunInvariant, AcceptRun PROVE RunStep
  <1> DEFINE l == Transition(ledger, "planning")
  <1>1. pc = "start" /\ Continue(l, "plan") /\ UNCHANGED <<invoked, metered>>
    BY DEF AcceptRun, Untouched
  <1>2. UsageCovers(ledger, metered') /\ Shaped(ledger) BY <1>1, SilentAccount, LedgerShape
  <1>3. Frame(l, ledger) /\ l.usage = ledger.usage BY <1>2, TransitionFrame
  <1> HIDE DEF l
  <1>4. AttemptCount(l) = AttemptCount(ledger) BY <1>3, FrameMeaning
  <1>5. UsageCovers(l, metered') BY <1>2, <1>3, <1>4, CoversFrame
  <1>6. QED BY <1>1, <1>3, <1>5, QuietContinue

LEMMA PlanBadDigestStep == ASSUME RunInvariant, PlanBadDigest PROVE RunStep
  <1>1. PICK u \in PortUsages :
          PortReturns("plan", u) /\ Finish(RecordUsage(ledger, u), "failed") /\ Untouched
    BY DEF PlanBadDigest
  <1> DEFINE l == RecordUsage(ledger, u)
  <1>2. pc = "plan" /\ Frame(l, ledger) /\ UsageCovers(l, metered')
    BY <1>1, ReturnsAccount DEF MeteredCalls
  <1>3. Finish(l, "failed") /\ UNCHANGED invoked BY <1>1 DEF Untouched
  <1> HIDE DEF l
  <1>4. QED BY <1>2, <1>3, QuietFinish

(* The ledger with plan and approval noted, and moved on.                  *)
LEMMA PlanFrame ==
  ASSUME NEW l, Frame(l, ledger), UsageCovers(l, metered'), NEW to
  PROVE  /\ Frame(PlanLedger(l), ledger) /\ UsageCovers(PlanLedger(l), metered')
         /\ Frame(Transition(PlanLedger(l), to), ledger)
         /\ UsageCovers(Transition(PlanLedger(l), to), metered')
  <1> DEFINE n == Note(l)
             p == PlanLedger(l)
             t == Transition(p, to)
  <1>1. Frame(n, l) /\ n.usage = l.usage BY NoteFrame DEF Frame
  <1>2. p = Note(n) \/ p = n BY DEF PlanLedger
  <1> HIDE DEF n
  <1>3. Frame(Note(n), n) /\ Note(n).usage = n.usage /\ Frame(n, n)
    BY <1>1, NoteFrame, FrameReflexive DEF Frame
  <1>4. Frame(p, n) /\ p.usage = n.usage BY <1>2, <1>3
  <1> HIDE DEF p
  <1>5. Frame(t, p) /\ t.usage = p.usage BY <1>4, TransitionFrame DEF Frame
  <1> HIDE DEF t
  <1>6. Frame(p, l) /\ Frame(t, l) BY <1>1, <1>4, <1>5, FrameTransitive
  <1>7. AttemptCount(p) = AttemptCount(l) /\ AttemptCount(t) = AttemptCount(l)
    BY <1>6, FrameMeaning
  <1>8. UsageCovers(p, metered') /\ UsageCovers(t, metered')
    BY <1>1, <1>4, <1>5, <1>7, CoversFrame
  <1>9. Frame(p, ledger) /\ Frame(t, ledger) BY <1>6, FrameTransitive
  <1>10. QED BY <1>8, <1>9 DEF p, t

LEMMA PlanUnapprovedStep == ASSUME RunInvariant, PlanUnapproved PROVE RunStep
  <1>1. PICK u \in PortUsages :
          /\ PortReturns("plan", u) /\ Untouched
          /\ BlockedFromDecision(PlanLedger(RecordUsage(ledger, u)), PlanDecision)
    BY DEF PlanUnapproved
  <1> DEFINE l == RecordUsage(ledger, u)
             p == PlanLedger(l)
             t == Transition(p, "awaiting_authority")
  <1>2. pc = "plan" /\ Frame(l, ledger) /\ UsageCovers(l, metered')
    BY <1>1, ReturnsAccount DEF MeteredCalls
  <1>3. (Finish(p, "blocked") \/ Finish(t, "blocked")) /\ UNCHANGED invoked
    BY <1>1 DEF BlockedFromDecision, Untouched
  <1> HIDE DEF l
  <1>4. /\ Frame(p, ledger) /\ UsageCovers(p, metered')
        /\ Frame(t, ledger) /\ UsageCovers(t, metered')
    BY <1>2, PlanFrame
  <1> HIDE DEF p, t
  <1>5. QED BY <1>2, <1>3, <1>4, QuietFinish

LEMMA PlanApprovedStep == ASSUME RunInvariant, PlanApproved PROVE RunStep
  <1>1. PICK u \in PortUsages :
          /\ PortReturns("plan", u) /\ Untouched
          /\ Continue(Transition(PlanLedger(RecordUsage(ledger, u)), "executing"), "step")
    BY DEF PlanApproved
  <1> DEFINE l == RecordUsage(ledger, u)
             t == Transition(PlanLedger(l), "executing")
  <1>2. pc = "plan" /\ Frame(l, ledger) /\ UsageCovers(l, metered')
    BY <1>1, ReturnsAccount DEF MeteredCalls
  <1>3. Continue(t, "step") /\ UNCHANGED invoked BY <1>1 DEF Untouched
  <1> HIDE DEF l
  <1>4. Frame(t, ledger) /\ UsageCovers(t, metered') BY <1>2, PlanFrame
  <1> HIDE DEF t
  <1>5. QED BY <1>2, <1>3, <1>4, QuietContinue

(* A ledger that is only interrupted or moved on.                          *)
LEMMA MovedAccount ==
  ASSUME NEW l, Frame(l, ledger), UsageCovers(l, metered'), NEW k, Frame(k, l),
         k.usage = l.usage
  PROVE  Frame(k, ledger) /\ UsageCovers(k, metered')
  <1>1. AttemptCount(k) = AttemptCount(l) BY FrameMeaning
  <1>2. QED BY <1>1, CoversFrame, FrameTransitive

LEMMA AgentCancelsStep == ASSUME RunInvariant, AgentCancels PROVE RunStep
  <1>1. PICK u \in PortUsages :
          /\ PortReturns("step", u) /\ Untouched
          /\ Finish(Interrupt(RecordUsage(ledger, u)), "interrupted")
    BY DEF AgentCancels
  <1> DEFINE l == RecordUsage(ledger, u)
             k == Interrupt(l)
  <1>2. pc = "step" /\ Frame(l, ledger) /\ UsageCovers(l, metered')
    BY <1>1, ReturnsAccount DEF MeteredCalls
  <1>3. Finish(k, "interrupted") /\ UNCHANGED invoked BY <1>1 DEF Untouched
  <1> HIDE DEF l
  <1>4. Frame(k, l) /\ k.usage = l.usage BY <1>2, InterruptFrame DEF Frame
  <1> HIDE DEF k
  <1>5. Frame(k, ledger) /\ UsageCovers(k, metered') BY <1>2, <1>4, MovedAccount
  <1>6. QED BY <1>2, <1>3, <1>5, QuietFinish

LEMMA AgentFinishesStep == ASSUME RunInvariant, AgentFinishes PROVE RunStep
  <1>1. PICK u \in PortUsages :
          /\ PortReturns("step", u) /\ Untouched
          /\ Continue(Transition(RecordUsage(ledger, u), "verifying"), "verify")
    BY DEF AgentFinishes
  <1> DEFINE l == RecordUsage(ledger, u)
             k == Transition(l, "verifying")
  <1>2. pc = "step" /\ Frame(l, ledger) /\ UsageCovers(l, metered')
    BY <1>1, ReturnsAccount DEF MeteredCalls
  <1>3. Continue(k, "verify") /\ UNCHANGED invoked BY <1>1 DEF Untouched
  <1> HIDE DEF l
  <1>4. Frame(k, l) /\ k.usage = l.usage BY <1>2, TransitionFrame DEF Frame
  <1> HIDE DEF k
  <1>5. Frame(k, ledger) /\ UsageCovers(k, metered') BY <1>2, <1>4, MovedAccount
  <1>6. QED BY <1>2, <1>3, <1>5, QuietContinue

----------------------------------------------------------------------------
(* Proposals.                                                              *)

LEMMA ThroughFrame ==
  ASSUME NEW c, NEW l, Shaped(l), NEW e, NEW gate \in EffectGates
  PROVE  LET k == LedgerThrough(c, l, e, gate) IN Frame(k, l) /\ k.usage = l.usage
  <1> DEFINE OK(k) == Frame(k, l) /\ k.usage = l.usage
  <1>1. ASSUME NEW k, OK(k), NEW g PROVE OK(Recorded(c, k, e, g))
    <2> DEFINE h == Recorded(c, k, e, g)
    <2>1. Shaped(k) BY <1>1 DEF Frame
    <2>2. Frame(h, k) /\ h.usage = k.usage
      <3> DEFINE yes == TRUE
                 x == Decide(k, DecisionId(k), g, e, GateDecision(c, k, e, g), yes)
      <3>1. h = x BY DEF Recorded
      <3> HIDE DEF yes, h
      <3>2. Frame(x, k) /\ x.usage = k.usage BY <2>1, DecideFrame
      <3>3. QED BY <3>1, <3>2
    <2>3. OK(h)
      <3>1. Frame(h, l) BY <1>1, <2>2, FrameTransitive
      <3>2. QED BY <1>1, <2>2, <3>1
    <2>4. QED BY <2>3 DEF h
  <1>2. OK(l) BY FrameReflexive
  <1> HIDE DEF OK
  <1>3. OK(PermissionLedger(c, l, e)) BY <1>1, <1>2 DEF PermissionLedger
  <1>4. OK(ToolTrustLedger(c, l, e)) BY <1>1, <1>3 DEF ToolTrustLedger
  <1>5. OK(RuntimeLedger(c, l, e)) BY <1>1, <1>4 DEF RuntimeLedger
  <1>6. OK(WorkflowLedger(c, l, e)) BY <1>1, <1>5 DEF WorkflowLedger
  <1>7. OK(LedgerThrough(c, l, e, gate))
    BY <1>3, <1>4, <1>5, <1>6 DEF LedgerThrough, EffectGates
  <1>8. QED BY <1>7 DEF OK

LEMMA GateStopsStep ==
  ASSUME RunInvariant, NEW e \in Effects, NEW u \in PortUsages,
         GateStops(e, u, RecordUsage(ledger, u))
  PROVE  RunStep
  <1> DEFINE l == RecordUsage(ledger, u)
  <1>1. PortReturns("step", u) /\ UNCHANGED invoked BY DEF GateStops, Admitted, Untouched
  <1>2. pc = "step" /\ Frame(l, ledger) /\ UsageCovers(l, metered')
    BY <1>1, ReturnsAccount DEF MeteredCalls
  <1>3. PICK i \in 1..4 :
          Refuse(LedgerThrough(config, l, e, GateOrder[i]), e, GateOrder[i],
                 GateDecision(config, l, e, GateOrder[i]), TRUE)
    BY DEF GateStops
  <1> DEFINE g == GateOrder[i]
             k == LedgerThrough(config, l, e, g)
             d == GateDecision(config, l, e, g)
  <1>4. g \in EffectGates BY DEF GateOrder, EffectGates
  <1>5. Refuse(k, e, g, d, TRUE) BY <1>3
  <1> HIDE DEF l, g, d
  <1>6. Frame(k, l) /\ k.usage = l.usage BY <1>2, <1>4, ThroughFrame DEF Frame
  <1> HIDE DEF k
  <1>7. Frame(k, ledger) /\ UsageCovers(k, metered') BY <1>2, <1>6, MovedAccount
  <1>8. QED BY <1>1, <1>2, <1>5, <1>7, RefusedStep

LEMMA DispatchStep ==
  ASSUME RunInvariant, NEW e \in Effects, NEW u \in PortUsages,
         Dispatch(e, u, RecordUsage(ledger, u))
  PROVE  RunStep
  <1> DEFINE l == RecordUsage(ledger, u)
             k == GatedLedger(config, l, e)
  <1>1. /\ PortReturns("step", u) /\ Continue(k, "execute")
        /\ invoked' = Append(invoked, e)
    BY DEF Dispatch, Admitted
  <1>2. pc = "step" /\ Frame(l, ledger) /\ UsageCovers(l, metered')
    BY <1>1, ReturnsAccount DEF MeteredCalls
  <1>3. Frame(k, l) /\ k.usage = l.usage
    <2>1. {"runtime", "workflow"} \subseteq EffectGates BY DEF EffectGates
    <2>2. k \in {LedgerThrough(config, l, e, "runtime"), LedgerThrough(config, l, e, "workflow")}
      BY DEF GatedLedger, LedgerThrough
    <2> HIDE DEF l
    <2>3. QED BY <1>2, <2>1, <2>2, ThroughFrame DEF Frame
  <1> HIDE DEF l, k
  <1>4. Frame(k, ledger) /\ UsageCovers(k, metered') BY <1>2, <1>3, MovedAccount
  <1>5. result = "none" /\ Verdict = "open" BY <1>2, OpenRun
  <1>6. /\ pc' = "execute" /\ ledger' = k /\ ending' = ending /\ result' = result
    BY <1>1 DEF Continue
  <1>7. Len(invoked) = Len(ledger.results) /\ AllExecuted(ledger)
        /\ ledger.log.verified = Null
    BY <1>2 DEF RunInvariant, OutcomeInvariant, ResultsMatch, UnverifiedYet
  <1>8. /\ k.results = ledger.results /\ k.log.verified = Null
    BY <1>4, <1>7 DEF Frame
  <1>9. /\ invoked \in Seq(Effects) /\ Len(invoked) \in Nat
        /\ Len(invoked') = Len(invoked) + 1
        /\ \A i \in 1..Len(invoked) : invoked'[i] = invoked[i]
        /\ invoked'[Len(invoked) + 1] = e
        /\ DOMAIN invoked = 1..Len(invoked) /\ DOMAIN invoked' = 1..(Len(invoked) + 1)
    <2>1. invoked \in Seq(Effects) BY DEF RunInvariant, EngineInvariant, TypeOK
    <2>2. QED BY <1>1, <2>1
  <1>10. OutcomeInvariant'
    <2>1. ResultsMatch' BY <1>6, <1>7, <1>8, <1>9 DEF ResultsMatch, AllExecuted
    <2>2. UnverifiedYet' BY <1>6, <1>8 DEF UnverifiedYet
    <2>3. UsageKept' BY <1>4, <1>6 DEF UsageKept, UsageCovers, AttemptCount
    <2>4. QED BY <2>1, <2>2, <2>3 DEF OutcomeInvariant
  <1>11. Checked(ledger) = FALSE /\ Checked(ledger') = FALSE BY <1>6, <1>7, <1>8, Unchecked
  <1>12. Verdict' = "open" BY <1>5, <1>6, OpenAfter
  <1>13. ASSUME NEW i \in DOMAIN invoked
         PROVE  invoked[i].id # e.id /\ invoked[i].key # e.key
    <2>1. NoRepeatedDispatch'
      <3>1. EngineInvariant' BY DispatchPreserves DEF RunInvariant
      <3>2. QED BY <3>1 DEF EngineInvariant
    <2>2. /\ i \in DOMAIN invoked' /\ Len(invoked) + 1 \in DOMAIN invoked'
          /\ i # Len(invoked) + 1
      BY <1>9
    <2>3. invoked'[i] = invoked[i] /\ invoked'[Len(invoked) + 1] = e BY <1>9
    <2>4. QED BY <2>1, <2>2, <2>3 DEF NoRepeatedDispatch
  <1>14. Promise!Dispatch
    <2>1. Promise!Fresh(e) BY <1>13 DEF Promise!Fresh
    <2>2. Promise!Idle /\ Promise!AllExecuted
      BY <1>7 DEF Promise!Idle, Promise!AllExecuted, AllExecuted
    <2>3. ledger'.results = ledger.results BY <1>6, <1>8
    <2>4. QED BY <1>1, <1>5, <1>11, <1>12, <2>1, <2>2, <2>3 DEF Promise!Dispatch
  <1>15. QED BY <1>10, <1>14 DEF RunStep, Promise!Next

LEMMA ProposeStep == ASSUME RunInvariant, Propose PROVE RunStep
  <1>1. PICK e \in Effects, u \in PortUsages :
          LET l == RecordUsage(ledger, u)
          IN \/ ProposeInvalid(e, u, l)
             \/ ProposeStale(e, u, l)
             \/ ProposeInadmissible(e, u, l)
             \/ ProposeUnaffordable(e, u, l)
             \/ GateStops(e, u, l)
             \/ Dispatch(e, u, l)
    BY DEF Propose
  <1> DEFINE l == RecordUsage(ledger, u)
  <1>2. CASE GateStops(e, u, l) BY <1>2, GateStopsStep
  <1>3. CASE Dispatch(e, u, l) BY <1>3, DispatchStep
  <1>4. CASE ProposeInvalid(e, u, l)
    <2>1. PortReturns("step", u) /\ Finish(l, "failed") /\ UNCHANGED invoked
      BY <1>4 DEF ProposeInvalid, Untouched
    <2>2. pc = "step" /\ Frame(l, ledger) /\ UsageCovers(l, metered')
      BY <2>1, ReturnsAccount DEF MeteredCalls
    <2> HIDE DEF l
    <2>3. QED BY <2>1, <2>2, QuietFinish
  <1>5. CASE ProposeStale(e, u, l) \/ ProposeInadmissible(e, u, l) \/ ProposeUnaffordable(e, u, l)
    <2>1. /\ PortReturns("step", u) /\ UNCHANGED invoked
          /\ \E gate, decision : Decline(l, e, gate, decision, TRUE)
      BY <1>5 DEF ProposeStale, ProposeInadmissible, ProposeUnaffordable, Untouched
    <2>2. pc = "step" /\ Frame(l, ledger) /\ UsageCovers(l, metered')
      BY <2>1, ReturnsAccount DEF MeteredCalls
    <2>3. PICK gate, decision : Decline(l, e, gate, decision, TRUE) BY <2>1
    <2> HIDE DEF l
    <2>4. QED BY <2>1, <2>2, <2>3, DeclinedStep
  <1>6. QED BY <1>1, <1>2, <1>3, <1>4, <1>5

----------------------------------------------------------------------------
(* The answers of execute.                                                 *)

(* The charge of an attempt, on top of what was charged before.            *)
LEMMA AttemptedStep ==
  ASSUME RunInvariant, pc = "execute", NEW h, Shaped(h), h.results = ledger.results,
         h.log.verified = ledger.log.verified, NEW u \in Usage, NEW v \in Usage,
         Charges(v, u), h.usage = CappedUsage(ledger.usage, v),
         metered' = CappedUsage(metered, u), NEW s \in Attempted, NEW k,
         k = PushResult(h, pending.effect, s), UNCHANGED invoked,
         \/ \E w \in {"blocked", "failed", "interrupted"} : Finish(k, w)
         \/ s = "executed" /\ Continue(k, "step")
  PROVE  RunStep
  <1>1. s \in Statuses BY DEF Statuses
  <1>2. pending.effect \in Effects
    BY PendingFacts DEF RunInvariant
  <1>3. ledger.log.verified = Null
    BY DEF RunInvariant, OutcomeInvariant, UnverifiedYet
  <1>4. /\ ledger.results \in EffectResults /\ ledger.usage \in Counters
        /\ metered \in Counters /\ AttemptCount(ledger) \in Nat
        /\ UsageCovers(ledger, metered)
    BY LedgerShape, OpenRun
  <1>5. /\ k.usage = h.usage /\ k.log = h.log
        /\ k.results = Append(h.results, [effect |-> pending.effect, status |-> s])
        /\ AttemptCount(k) = AttemptCount(h) + (IF s \in Attempted THEN 1 ELSE 0)
    BY <1>1, <1>2, <1>4, PushFrame
  <1>6. AttemptCount(h) = AttemptCount(ledger) BY DEF AttemptCount
  <1>7. UsageCovers(k, metered')
    <2>1. AttemptCount(k) = AttemptCount(ledger) + 1 BY <1>5, <1>6
    <2>2. k.usage = CappedUsage(ledger.usage, v) BY <1>5
    <2>3. UsageCovers(k, CappedUsage(metered, u)) BY <1>4, <2>1, <2>2, CoversAttempt
    <2>4. QED BY <2>3
  <1>8. /\ k.log.verified = Null
        /\ k.results = Append(ledger.results, [effect |-> pending.effect, status |-> s])
    BY <1>3, <1>5
  <1>9. QED BY <1>1, <1>7, <1>8, RecordStep

LEMMA ExecuteNotDispatchedStep == ASSUME RunInvariant, ExecuteNotDispatched PROVE RunStep
  <1>1. pc = "execute" /\ UNCHANGED invoked BY DEF ExecuteNotDispatched, Untouched
  <1>2. PICK u \in PortUsages \cup {Null}, blank \in BOOLEAN :
          /\ Decline(Observed(ledger, u), pending.effect, "permission",
                     Block("executor.not_dispatched"), ~blank)
          /\ Metered(u)
    BY DEF ExecuteNotDispatched
  <1> DEFINE l == Observed(ledger, u)
             d == Block("executor.not_dispatched")
             i == ~blank
  <1>3. Frame(l, ledger) /\ UsageCovers(l, metered') BY <1>1, <1>2, ObservedAccount
  <1>4. Decline(l, pending.effect, "permission", d, i) BY <1>2
  <1>5. pending.effect \in Effects BY <1>1, PendingFacts DEF RunInvariant
  <1> HIDE DEF l, d, i
  <1>6. QED BY <1>1, <1>3, <1>4, <1>5, DeclinedStep

LEMMA ExecuteDeclinesStep == ASSUME RunInvariant, ExecuteDeclines PROVE RunStep
  <1>1. pc = "execute" /\ UNCHANGED invoked BY DEF ExecuteDeclines, Untouched
  <1>2. PICK o \in Observations :
          /\ Decline(RecordUsage(ledger, o.usage), pending.effect, "permission",
                     ExecutorDecision(o), TRUE)
          /\ Metered(o.usage)
    BY DEF ExecuteDeclines
  <1> DEFINE l == RecordUsage(ledger, o.usage)
             d == ExecutorDecision(o)
             i == TRUE
  <1>3. o.usage \in Usage BY ObservationAssumption
  <1>4. Frame(l, ledger) /\ UsageCovers(l, metered') BY <1>1, <1>2, <1>3, ReportedAccount
  <1>5. Decline(l, pending.effect, "permission", d, i) BY <1>2
  <1>6. pending.effect \in Effects BY <1>1, PendingFacts DEF RunInvariant
  <1> HIDE DEF l, d, i
  <1>7. QED BY <1>1, <1>4, <1>5, <1>6, DeclinedStep

LEMMA ExecuteLostStep == ASSUME RunInvariant, ExecuteLost PROVE RunStep
  <1>1. pc = "execute" /\ UNCHANGED invoked BY DEF ExecuteLost, Untouched
  <1>2. PICK u \in PortUsages \cup {Null}, ev \in LostEvidence :
          LET b == LostBody(ledger, pending.effect, u, ev)
              l == ToolExecution(ledger, pending.permission, pending.effect)
          IN /\ Finish(PushResult(RecordUsage(l, b.usage), pending.effect, b.status),
                       IF UsageReason(l, b.usage, config.budget) # "none"
                         THEN "blocked" ELSE "failed")
             /\ Metered(u)
    BY DEF ExecuteLost
  <1> DEFINE r == IF u = Null THEN ZeroUsage ELSE u
             v == AtLeastOneCall(r)
             b == LostBody(ledger, pending.effect, u, ev)
             l == ToolExecution(ledger, pending.permission, pending.effect)
             h == RecordUsage(l, v)
             k == PushResult(h, pending.effect, "unknown_outcome")
             s == IF UsageReason(l, v, config.budget) # "none" THEN "blocked" ELSE "failed"
  <1>3. b.usage = v /\ b.status = "unknown_outcome" BY DEF LostBody, AttemptBody
  <1>4. r \in Usage
    <2>1. ZeroUsage \in Usage BY DEF ZeroUsage, Usage
    <2>2. QED BY <2>1, UsageAssumption
  <1>5. metered' = CappedUsage(metered, r)
    <2>1. CASE u = Null
      <3>1. metered' = metered /\ r = ZeroUsage BY <1>2, <2>1 DEF Metered
      <3>2. QED BY <3>1, LedgerShape, CappedZero
    <2>2. CASE u # Null BY <1>2, <2>2 DEF Metered
    <2>3. QED BY <2>1, <2>2
  <1>6. Finish(k, s) /\ s \in {"blocked", "failed", "interrupted"} BY <1>2, <1>3
  <1> HIDE DEF r, b, s
  <1>7. v \in Usage /\ Charges(v, r) BY <1>4, FloorCharges
  <1> HIDE DEF v
  <1>8. Frame(l, ledger) /\ l.usage = ledger.usage BY LedgerShape, ToolExecutionFrame
  <1> HIDE DEF l
  <1>9. Frame(h, l) /\ h.usage = CappedUsage(l.usage, v)
    <2>1. Shaped(l) BY <1>8 DEF Frame
    <2>2. QED BY <2>1, RecordUsageFrame
  <1> HIDE DEF h
  <1>10. /\ Shaped(h) /\ h.results = ledger.results
         /\ h.log.verified = ledger.log.verified /\ h.usage = CappedUsage(ledger.usage, v)
    BY <1>8, <1>9 DEF Frame
  <1>11. k = PushResult(h, pending.effect, "unknown_outcome") OBVIOUS
  <1> HIDE DEF k
  <1>12. "unknown_outcome" \in Attempted BY DEF Attempted
  <1>13. QED BY <1>1, <1>4, <1>5, <1>6, <1>7, <1>10, <1>11, <1>12, AttemptedStep

(* What is charged for a report, sealed as it is or as far as it can be    *)
(* trusted.                                                                *)
LEMMA ReportCharges ==
  ASSUME NEW e, NEW o \in Observations, NEW kept
  PROVE  /\ o.usage \in Usage
         /\ ObservedBody(ledger, e, Floored(o)).usage \in Usage
         /\ Charges(ObservedBody(ledger, e, Floored(o)).usage, o.usage)
         /\ UntrustedBody(ledger, e, Floored(o), kept).usage \in Usage
         /\ Charges(UntrustedBody(ledger, e, Floored(o), kept).usage, o.usage)
  <1> DEFINE v == AtLeastOneCall(o.usage)
             w == [m \in Meters |-> IF v[m] > MaxSafe THEN MaxSafe ELSE v[m]]
  <1>1. o.usage \in Usage BY ObservationAssumption
  <1>2. v \in Usage /\ Charges(v, o.usage) BY <1>1, FloorCharges
  <1>3. w \in Usage /\ Charges(w, o.usage)
    <2> HIDE DEF v
    <2>1. QED BY <1>1, <1>2, CeilingCharges
  <1>4. Floored(o).usage = v
    <2>1. o \in [status : Statuses, post : Subjects \cup {Null, Malformed},
                 exit : {Null, Malformed, "code"}, usage : Usage,
                 executor : {Null, Malformed, Configured, "other"},
                 sandbox : {"requested", "other"}, reason : {Null, "blank", "text"},
                 evidence : SUBSET EvidenceTypes, evidenceIntact : BOOLEAN]
      BY ObservationAssumption
    <2>2. QED BY <2>1 DEF Floored
  <1>5. ObservedBody(ledger, e, Floored(o)).usage = v
    BY <1>4 DEF ObservedBody, AttemptBody
  <1>6. UntrustedBody(ledger, e, Floored(o), kept).usage = w
    BY <1>4 DEF UntrustedBody, AttemptBody
  <1> HIDE DEF v, w
  <1>7. QED BY <1>1, <1>2, <1>3, <1>5, <1>6

LEMMA MeteredReport ==
  ASSUME NEW u \in Usage, Metered(u) PROVE metered' = CappedUsage(metered, u)
  BY AbsenceAssumption DEF Metered

LEMMA ExecuteUntrustedStep == ASSUME RunInvariant, ExecuteUntrusted PROVE RunStep
  <1>1. pc = "execute" /\ UNCHANGED invoked BY DEF ExecuteUntrusted, Untouched
  <1>2. PICK o \in Observations : \E kept \in KeptEvidence(Floored(o)) :
          LET b == UntrustedBody(ledger, pending.effect, Floored(o), kept)
          IN /\ Finish(PushResult(AttemptLedger(ledger, pending, b), pending.effect,
                                  b.status), "failed")
             /\ Metered(o.usage)
    BY DEF ExecuteUntrusted
  <1>3. PICK kept :
          LET b == UntrustedBody(ledger, pending.effect, Floored(o), kept)
          IN /\ Finish(PushResult(AttemptLedger(ledger, pending, b), pending.effect,
                                  b.status), "failed")
             /\ Metered(o.usage)
    BY <1>2
  <1> DEFINE b == UntrustedBody(ledger, pending.effect, Floored(o), kept)
             h == AttemptLedger(ledger, pending, b)
             k == PushResult(h, pending.effect, "unknown_outcome")
  <1>4. o.usage \in Usage /\ b.usage \in Usage /\ Charges(b.usage, o.usage)
    BY ReportCharges
  <1>5. b.status = "unknown_outcome" BY DEF UntrustedBody, AttemptBody
  <1>6. Finish(k, "failed") /\ Metered(o.usage) BY <1>3, <1>5
  <1> HIDE DEF b
  <1>7. /\ Shaped(h) /\ h.results = ledger.results
        /\ h.log.verified = ledger.log.verified
        /\ h.usage = CappedUsage(ledger.usage, b.usage)
    BY LedgerShape, AttemptFrame
  <1>8. k = PushResult(h, pending.effect, "unknown_outcome") OBVIOUS
  <1> HIDE DEF h, k
  <1>9. metered' = CappedUsage(metered, o.usage) BY <1>4, <1>6, MeteredReport
  <1>10. "unknown_outcome" \in Attempted BY DEF Attempted
  <1>11. QED BY <1>1, <1>4, <1>6, <1>7, <1>8, <1>9, <1>10, AttemptedStep

LEMMA ExecuteReturnsStep == ASSUME RunInvariant, ExecuteReturns PROVE RunStep
  <1>1. pc = "execute" /\ UNCHANGED invoked BY DEF ExecuteReturns, Untouched
  <1>2. PICK o \in Observations :
          LET e == pending.effect
              b == ObservedBody(ledger, e, Floored(o))
              l == AttemptLedger(ledger, pending, b)
              overspent == UsageReason(ledger, b.usage, config.budget) # "none"
          IN /\ o.status \in Attempted
             /\ ValidResult(e, b)
             /\ CASE b.status = "executed" /\ ~overspent ->
                       Continue(PushResult(l, e, b.status), "step")
                  [] b.status = "executed" /\ overspent ->
                       Finish(PushResult(l, e, b.status), "blocked")
                  [] b.status = "interrupted" ->
                       Finish(PushResult(Interrupt(l), e, b.status), "interrupted")
                  [] b.status \in {"failed", "unknown_outcome"} ->
                       Finish(PushResult(l, e, b.status), "failed")
             /\ Metered(o.usage)
    BY DEF ExecuteReturns
  <1> DEFINE e == pending.effect
             b == ObservedBody(ledger, e, Floored(o))
             s == b.status
             h == AttemptLedger(ledger, pending, b)
             k == PushResult(h, e, s)
             i == Interrupt(h)
             j == PushResult(i, e, s)
  <1>3. s = o.status /\ s \in Attempted BY <1>2, ObservedBodyFields
  <1>4. \/ Continue(k, "step") /\ s = "executed"
        \/ Finish(k, "blocked") \/ Finish(k, "failed") \/ Finish(j, "interrupted")
    BY <1>2, <1>3 DEF Attempted
  <1>5. o.usage \in Usage /\ b.usage \in Usage /\ Charges(b.usage, o.usage)
    BY ReportCharges
  <1>6. metered' = CappedUsage(metered, o.usage) BY <1>2, <1>5, MeteredReport
  <1> HIDE DEF b, s
  <1>7. /\ Shaped(h) /\ h.results = ledger.results
        /\ h.log.verified = ledger.log.verified
        /\ h.usage = CappedUsage(ledger.usage, b.usage)
    BY LedgerShape, AttemptFrame
  <1> HIDE DEF h
  <1>8. /\ Shaped(i) /\ i.results = ledger.results
        /\ i.log.verified = ledger.log.verified
        /\ i.usage = CappedUsage(ledger.usage, b.usage)
    <2>1. Frame(i, h) /\ i.usage = h.usage BY <1>7, InterruptFrame
    <2>2. QED BY <1>7, <2>1 DEF Frame
  <1> HIDE DEF i
  <1>9. k = PushResult(h, pending.effect, s) /\ j = PushResult(i, pending.effect, s)
    OBVIOUS
  <1> HIDE DEF k, j
  <1>10. CASE Finish(j, "interrupted")
    BY <1>1, <1>3, <1>5, <1>6, <1>8, <1>9, <1>10, AttemptedStep
  <1>11. CASE \/ Continue(k, "step") /\ s = "executed"
              \/ Finish(k, "blocked") \/ Finish(k, "failed")
    BY <1>1, <1>3, <1>5, <1>6, <1>7, <1>9, <1>11, AttemptedStep
  <1>12. QED BY <1>4, <1>10, <1>11

LEMMA ExecuteUnsealableStep == ASSUME RunInvariant, ExecuteUnsealable PROVE RunStep
  BY FailStep DEF ExecuteUnsealable, Untouched

----------------------------------------------------------------------------
(* verify_and_finish.                                                      *)

(* A report on record, passing or not.                                     *)
LEMMA VerifiedStep ==
  ASSUME RunInvariant, pc = "verify", NEW k, k.results = ledger.results,
         UsageCovers(k, metered'), UNCHANGED invoked,
         Finish(k, "blocked") \/ Continue(k, "check")
  PROVE  RunStep
  <1>1. result = "none" /\ Verdict = "open" BY OpenRun
  <1>2. ledger' = k /\ result' = result BY DEF Finish, Continue
  <1>3. Len(invoked) = Len(ledger.results) /\ AllExecuted(ledger)
        /\ ledger.log.verified = Null
    BY DEF RunInvariant, OutcomeInvariant, ResultsMatch, UnverifiedYet
  <1>4. OutcomeInvariant'
    <2>1. CASE Finish(k, "blocked")
      <3>1. Len(invoked) <= Len(k.results) BY <1>3, LedgerShape
      <3>2. QED BY <2>1, <3>1, FinishOutcome
    <2>2. CASE Continue(k, "check")
      <3>1. /\ pc' = "check" /\ ledger' = k /\ result' = result /\ invoked' = invoked
        BY <2>2 DEF Continue
      <3>2. ResultsMatch' BY <1>3, <3>1 DEF ResultsMatch, AllExecuted
      <3>3. UnverifiedYet' BY <3>1 DEF UnverifiedYet
      <3>4. UsageKept' BY <3>1 DEF UsageKept, UsageCovers, AttemptCount
      <3>5. QED BY <3>2, <3>3, <3>4 DEF OutcomeInvariant
    <2>3. QED BY <2>1, <2>2
  <1>5. Verdict' = "open" BY <1>1, <1>2, OpenAfter
  <1>6. Checked(ledger) = FALSE BY <1>3, Unchecked
  <1>7. [Promise!Next]_(Promise!runVars)
    <2>1. CASE Checked(ledger')
      <3>1. Checked(ledger') = TRUE BY <2>1 DEF Checked
      <3>2. Promise!Check
        BY <1>1, <1>2, <1>3, <1>5, <3>1
          DEF Promise!Check, Promise!Idle, Promise!AllExecuted, AllExecuted
      <3>3. QED BY <3>2 DEF Promise!Next
    <2>2. CASE ~Checked(ledger') BY <1>1, <1>2, <1>5, <1>6, <2>2, Unseen
    <2>3. QED BY <2>1, <2>2
  <1>8. QED BY <1>4, <1>7 DEF RunStep

LEMMA VerifyReturnsStep == ASSUME RunInvariant, VerifyReturns PROVE RunStep
  <1>1. PICK rep \in Reports, u \in PortUsages :
          LET l == RecordUsage(ledger, u)
          IN \/ ReportDiscarded(rep, u, l)
             \/ ReportRejected(rep, u, l)
             \/ ReportAccepted(rep, u, l)
    BY DEF VerifyReturns
  <1> DEFINE l == RecordUsage(ledger, u)
             k == VerificationLedger(l, rep)
  <1>2. PortReturns("verify", u) /\ UNCHANGED invoked
    BY <1>1 DEF ReportDiscarded, ReportRejected, ReportAccepted, Untouched
  <1>3. Finish(l, "blocked") \/ Finish(k, "blocked") \/ Continue(k, "check")
    BY <1>1 DEF ReportDiscarded, ReportRejected, ReportAccepted
  <1>4. pc = "verify" /\ Frame(l, ledger) /\ UsageCovers(l, metered')
    BY <1>2, ReturnsAccount DEF MeteredCalls
  <1> HIDE DEF l
  <1>5. CASE Finish(l, "blocked") BY <1>2, <1>4, <1>5, QuietFinish
  <1>6. CASE Finish(k, "blocked") \/ Continue(k, "check")
    <2>1. Shaped(l) BY <1>4 DEF Frame
    <2>2. k.results = l.results /\ k.usage = l.usage BY <2>1, VerificationFrame
    <2> HIDE DEF k
    <2>3. k.results = ledger.results BY <1>4, <2>2 DEF Frame
    <2>4. AttemptCount(k) = AttemptCount(l) BY <2>2 DEF AttemptCount
    <2>5. UsageCovers(k, metered') BY <1>4, <2>2, <2>4, CoversFrame
    <2>6. QED BY <1>2, <1>4, <1>6, <2>3, <2>5, VerifiedStep
  <1>7. QED BY <1>3, <1>5, <1>6

LEMMA CheckReturnsStep == ASSUME RunInvariant, CheckReturns PROVE RunStep
  <1>1. PICK u \in PortUsages :
          LET l == RecordUsage(ledger, u)
          IN /\ PortReturns("check", u) /\ Untouched
             /\ IF CompletionDecision(l).outcome = "allow"
                  THEN Continue(l, "claim_agent")
                  ELSE Finish(CompletionLedger(l), "blocked")
    BY DEF CheckReturns
  <1> DEFINE l == RecordUsage(ledger, u)
  <1>2. pc = "check" /\ Frame(l, ledger) /\ UsageCovers(l, metered')
    BY <1>1, ReturnsAccount DEF MeteredCalls
  <1>3. Endable(l) BY <1>1, ReturnedLedger DEF MeteredCalls, RunInvariant
  <1>4. CompletionDecision(l).outcome = "allow" BY <1>3, CompletionAllowed DEF Allow
  <1>5. Continue(l, "claim_agent") /\ UNCHANGED invoked BY <1>1, <1>4 DEF Untouched
  <1> HIDE DEF l
  <1>6. QED BY <1>2, <1>5, QuietContinue

LEMMA ClaimFailsStep == ASSUME RunInvariant, NEW p \in Ports, ClaimFails(p) PROVE RunStep
  <1>1. pc \in {"claim_agent", "claim_executor"} /\ UNCHANGED invoked
    BY DEF ClaimFails, ClaimAt, Ports, Untouched
  <1>2. PICK u \in PortUsages \cup {Null} :
          Finish(Observed(ledger, u), "failed") /\ Metered(u)
    BY DEF ClaimFails
  <1> DEFINE l == Observed(ledger, u)
  <1>3. Frame(l, ledger) /\ UsageCovers(l, metered') BY <1>1, <1>2, ObservedAccount
  <1>4. Finish(l, "failed") BY <1>2
  <1> HIDE DEF l
  <1>5. QED BY <1>1, <1>3, <1>4, QuietFinish

(* A cancellation is found at a claim or a look-up.                        *)
LEMMA CancellationStep ==
  ASSUME RunInvariant, NEW p \in Ports, ClaimRefused(p) \/ ObserveCancelled(p)
  PROVE  RunStep
  <1> DEFINE k == Interrupt(ledger)
  <1>1. /\ pc \in {"claim_agent", "claim_executor", "observe_agent", "observe_executor"}
        /\ Finish(k, "interrupted") /\ UNCHANGED <<invoked, metered>>
    BY DEF ClaimRefused, ObserveCancelled, ClaimAt, ObserveAt, Ports, Untouched
  <1>2. Frame(ledger, ledger) /\ UsageCovers(ledger, metered') BY <1>1, SilentAccount
  <1>3. Frame(k, ledger) /\ k.usage = ledger.usage BY LedgerShape, InterruptFrame
  <1> HIDE DEF k
  <1>4. UsageCovers(k, metered') BY <1>2, <1>3, MovedAccount
  <1>5. QED BY <1>1, <1>3, <1>4, QuietFinish

(* A claim of the agent is granted, or a look-up finds nothing.            *)
LEMMA PassedStep ==
  ASSUME RunInvariant,
         ClaimGranted("agent") \/ \E p \in Ports : ObserveNothing(p)
  PROVE  RunStep
  <1>1. UNCHANGED <<invoked, metered>> /\ pc \notin {"close", "closed"}
    BY DEF ClaimGranted, ObserveNothing, ClaimAt, ObserveAt, Ports, Untouched
  <1>2. Frame(ledger, ledger) /\ UsageCovers(ledger, metered') BY <1>1, SilentAccount
  <1>3. \/ pc = "claim_agent" /\ Continue(ledger, "claim_executor")
        \/ pc = "observe_agent" /\ Continue(ledger, "observe_executor")
        \/ pc = "observe_executor" /\ Continue(ledger, "seal")
    BY DEF ClaimGranted, ObserveNothing, ClaimAt, ObserveAt, Ports
  <1>4. QED BY <1>1, <1>2, <1>3, QuietContinue

(* The last claim is granted: the run will complete.                       *)
LEMMA ExecutorClaimStep == ASSUME RunInvariant, ClaimGranted("executor") PROVE RunStep
  <1> DEFINE k == CompletionLedger(ledger)
  <1>1. /\ pc = "claim_executor" /\ Finish(k, "completed")
        /\ UNCHANGED <<invoked, metered>>
    BY DEF ClaimGranted, ClaimAt
  <1>2. result = "none" /\ Verdict = "open" BY <1>1, OpenRun
  <1>3. UsageCovers(ledger, metered') BY <1>1, SilentAccount
  <1>4. Frame(k, ledger) /\ k.usage = ledger.usage
    <2> DEFINE yes == TRUE
               h == Decide(ledger, CompletionId, "workflow", ledger.current,
                           CompletionDecision(ledger), yes)
    <2>1. k = h BY DEF CompletionLedger
    <2> HIDE DEF yes, k
    <2>2. Frame(h, ledger) /\ h.usage = ledger.usage BY LedgerShape, DecideFrame
    <2>3. QED BY <2>1, <2>2
  <1>5. pc' = "seal" /\ ledger' = k /\ ending' = "completed" /\ result' = result
    BY <1>1 DEF Finish
  <1> HIDE DEF k
  <1>6. UsageCovers(k, metered') BY <1>3, <1>4, FrameMeaning, CoversFrame
  <1>7. /\ k.results = ledger.results /\ (Checked(k) <=> Checked(ledger))
        /\ (AllExecuted(k) <=> AllExecuted(ledger))
    BY <1>4, FrameMeaning
  <1>8. Len(invoked) = Len(ledger.results) /\ AllExecuted(ledger)
    BY <1>1 DEF RunInvariant, OutcomeInvariant, ResultsMatch
  <1>9. OutcomeInvariant'
    <2>1. ResultsMatch' BY <1>1, <1>5, <1>7, <1>8, LedgerShape DEF ResultsMatch, AllExecuted
    <2>2. UnverifiedYet' BY <1>5 DEF UnverifiedYet
    <2>3. UsageKept' BY <1>5, <1>6 DEF UsageKept, UsageCovers, AttemptCount
    <2>4. QED BY <2>1, <2>2, <2>3 DEF OutcomeInvariant
  <1>10. [Promise!Next]_(Promise!runVars)
    BY <1>1, <1>2, <1>5, <1>7, Unseen, OpenAfter
  <1>11. QED BY <1>9, <1>10 DEF RunStep

----------------------------------------------------------------------------
(* The end.                                                                *)

(* The receipt: what GovernedRun sees is its status.                       *)
LEMMA SealStep == ASSUME RunInvariant, Seal PROVE RunStep
  <1> DEFINE h == UsageEvent(ledger)
             k == SealedLedger(ledger, ending)
  <1>1. /\ pc = "seal" /\ pc' = "close" /\ ledger' = k
        /\ result' = IF ReceiptValid(k.log, ending, k.current, k.usage, config.budget)
                       THEN "receipt" ELSE "receipt_error"
        /\ UNCHANGED <<ending, invoked, metered>>
    BY DEF Seal, Untouched
  <1>2. /\ k.status = ending
        /\ ReceiptValid(k.log, ending, k.current, k.usage, config.budget)
    BY <1>1, SealedReceipt DEF RunInvariant
  <1>3. result' = "receipt" BY <1>1, <1>2
  <1>4. result = "none" /\ Verdict = "open" BY <1>1, OpenRun
  <1>5. Frame(h, ledger) /\ h.usage = ledger.usage BY LedgerShape, UsageEventFrame
  <1>6. Frame(k, ledger) /\ k.usage = ledger.usage
    <2>1. k = Transition(h, ending) BY DEF SealedLedger
    <2> HIDE DEF h, k
    <2>2. Shaped(h) BY <1>5 DEF Frame
    <2>3. Frame(k, h) /\ k.usage = h.usage BY <2>1, <2>2, TransitionFrame
    <2>4. QED BY <1>5, <2>3, FrameTransitive
  <1> HIDE DEF h, k
  <1>7. UsageCovers(k, metered')
    <2>1. UsageCovers(ledger, metered') BY <1>1, SilentAccount
    <2>2. QED BY <1>6, <2>1, FrameMeaning, CoversFrame
  <1>8. OutcomeInvariant'
    <2>1. ResultsMatch' /\ UnverifiedYet' BY <1>1 DEF ResultsMatch, UnverifiedYet
    <2>2. UsageKept' BY <1>1, <1>7 DEF UsageKept, UsageCovers, AttemptCount
    <2>3. QED BY <2>1, <2>2 DEF OutcomeInvariant
  <1>9. Verdict' = ending BY <1>1, <1>2, <1>3 DEF Verdict
  <1>10. /\ ledger'.results = ledger.results /\ (Checked(ledger') <=> Checked(ledger))
    BY <1>1, <1>6, FrameMeaning
  <1>11. Checked(ledger)' = Checked(ledger) BY <1>10 DEF Checked
  <1>12. CASE ending = "completed"
    <2>1. Complete(ledger) BY <1>1, <1>12 DEF RunInvariant, EngineInvariant, LedgerSound
    <2>2. Checked(ledger) BY <2>1 DEF Complete, FreshVerification, Checked
    <2>3. Len(invoked) = Len(ledger.results) /\ AllExecuted(ledger)
      BY <1>1, <1>12 DEF RunInvariant, OutcomeInvariant, ResultsMatch
    <2>4. Promise!Complete
      BY <1>1, <1>4, <1>9, <1>10, <1>11, <1>12, <2>2, <2>3
        DEF Promise!Complete, Promise!Idle, Promise!AllExecuted, AllExecuted
    <2>5. QED BY <1>8, <2>4 DEF RunStep, Promise!Next
  <1>13. CASE ending # "completed"
    <2>1. ending \in {"blocked", "failed", "interrupted"}
      BY <1>1, <1>13 DEF RunInvariant, EngineInvariant, LedgerSound, TypeOK, Terminal
    <2>2. Len(invoked) <= Len(ledger.results)
      BY <1>1 DEF RunInvariant, OutcomeInvariant, ResultsMatch
    <2>3. Promise!Stop
      BY <1>1, <1>4, <1>9, <1>10, <1>11, <2>1, <2>2 DEF Promise!Stop
    <2>4. QED BY <1>8, <2>3 DEF RunStep, Promise!Next
  <1>14. QED BY <1>12, <1>13

(* Nothing GovernedRun sees, and no port call.                             *)
LEMMA AsideStep ==
  ASSUME RunInvariant, UNCHANGED <<ledger, ending, result, invoked, metered>>,
         UNCHANGED pc \/ pc' = "closed"
  PROVE  RunStep
  <1>1. ResultsMatch' BY DEF RunInvariant, OutcomeInvariant, ResultsMatch, AllExecuted
  <1>2. UnverifiedYet' BY DEF RunInvariant, OutcomeInvariant, UnverifiedYet
  <1>3. UsageKept'
    BY DEF RunInvariant, OutcomeInvariant, UsageKept, UsageCovers, AttemptCount
  <1>4. Verdict' = Verdict BY DEF Verdict
  <1>5. [Promise!Next]_(Promise!runVars) BY <1>4, Unseen
  <1>6. QED BY <1>1, <1>2, <1>3, <1>5 DEF RunStep, OutcomeInvariant

LEMMA EngineRunStep == ASSUME RunInvariant, EngineStep PROVE RunStep
  <1>1. {"plan", "step", "verify", "check"} = MeteredCalls BY DEF MeteredCalls
  <1>2. CASE RejectRun BY <1>2, RejectRunStep
  <1>3. CASE AcceptRun BY <1>3, AcceptRunStep
  <1>4. CASE PlanFails \/ StepFails \/ VerifyFails \/ CheckFails
    BY <1>1, <1>4, PortFailsStep DEF PlanFails, StepFails, VerifyFails, CheckFails
  <1>5. CASE PlanOverspends \/ StepOverspends \/ VerifyOverspends \/ CheckOverspends
    BY <1>1, <1>5, PortOverspendsStep
      DEF PlanOverspends, StepOverspends, VerifyOverspends, CheckOverspends
  <1>6. CASE PlanBadDigest BY <1>6, PlanBadDigestStep
  <1>7. CASE PlanUnapproved BY <1>7, PlanUnapprovedStep
  <1>8. CASE PlanApproved BY <1>8, PlanApprovedStep
  <1>9. CASE AgentCancels BY <1>9, AgentCancelsStep
  <1>10. CASE AgentFinishes BY <1>10, AgentFinishesStep
  <1>11. CASE Propose BY <1>11, ProposeStep
  <1>12. CASE ExecuteNotDispatched BY <1>12, ExecuteNotDispatchedStep
  <1>13. CASE ExecuteLost BY <1>13, ExecuteLostStep
  <1>14. CASE ExecuteDeclines BY <1>14, ExecuteDeclinesStep
  <1>15. CASE ExecuteUntrusted BY <1>15, ExecuteUntrustedStep
  <1>16. CASE ExecuteReturns BY <1>16, ExecuteReturnsStep
  <1>17. CASE ExecuteUnsealable BY <1>17, ExecuteUnsealableStep
  <1>18. CASE VerifyReturns BY <1>18, VerifyReturnsStep
  <1>19. CASE CheckReturns BY <1>19, CheckReturnsStep
  <1>20. ASSUME NEW p \in Ports, ClaimFails(p) \/ ClaimRefused(p) \/ ClaimGranted(p)
                                   \/ ObserveCancelled(p) \/ ObserveNothing(p)
         PROVE  RunStep
    <2>1. CASE ClaimGranted(p) BY <2>1, PassedStep, ExecutorClaimStep DEF Ports
    <2>2. CASE ObserveNothing(p) BY <2>2, PassedStep
    <2>3. QED BY <1>20, <2>1, <2>2, ClaimFailsStep, CancellationStep
  <1>21. CASE Seal BY <1>21, SealStep
  <1>22. CASE Close BY <1>22, AsideStep DEF Close, Continue, Untouched
  <1>23. QED
    BY <1>2, <1>3, <1>4, <1>5, <1>6, <1>7, <1>8, <1>9, <1>10, <1>11, <1>12, <1>13,
       <1>14, <1>15, <1>16, <1>17, <1>18, <1>19, <1>20, <1>21, <1>22 DEF EngineStep

LEMMA RunNext == ASSUME RunInvariant, [Next]_vars PROVE RunInvariant' /\ RunStep
  <1>1. RunStep
    <2>1. CASE EngineStep BY <2>1, EngineRunStep
    <2>2. CASE UNCHANGED engine BY <2>2, AsideStep DEF engine
    <2>3. QED BY <2>1, <2>2 DEF Next, Cancel, Terminated, vars
  <1>2. EngineInvariant' BY NextPreserves DEF RunInvariant
  <1>3. QED BY <1>1, <1>2 DEF RunInvariant, RunStep

LEMMA RunInit == ASSUME Init PROVE RunInvariant /\ Promise!Init
  <1>1. /\ ledger = NewLedger(config.subject) /\ pc = "start" /\ result = "none"
        /\ invoked = <<>> /\ metered = ZeroUsage /\ ending = "none"
    BY DEF Init
  <1>2. ledger.results = <<>> /\ ledger.usage = ZeroUsage /\ ledger.log.verified = Null
    BY <1>1 DEF NewLedger, InitReplay
  <1>3. ResultsMatch /\ UnverifiedYet BY <1>1, <1>2 DEF ResultsMatch, UnverifiedYet
  <1>4. UsageKept
    <2>1. {i \in DOMAIN ledger.results : ledger.results[i].status \in Attempted} = {}
      BY <1>2
    <2>2. AttemptCount(ledger) = 0 BY <2>1, FS_EmptySet DEF AttemptCount
    <2>3. QED BY <1>1, <1>2, <2>2, MeterAssumption, MaxSafeAssumption
      DEF UsageKept, UsageCovers, ZeroUsage
  <1>5. EngineInvariant BY InitInvariant
  <1>6. Checked(ledger) = FALSE BY <1>2, Unchecked
  <1>7. Verdict = "open" BY <1>1 DEF Verdict
  <1>8. Promise!Init BY <1>1, <1>2, <1>6, <1>7 DEF Promise!Init
  <1>9. QED BY <1>3, <1>4, <1>5, <1>8 DEF RunInvariant, OutcomeInvariant

----------------------------------------------------------------------------
(* An accepted cancellation.                                               *)

(* l has grown into k without a result or a transition.                    *)
SameStatus(k, l) ==
  /\ {"status", "results"} \subseteq DOMAIN k
  /\ k.status = l.status
  /\ k.results = l.results

Bare(l) == {"status", "results"} \subseteq DOMAIN l

LEMMA KeptTransitive ==
  ASSUME NEW l, NEW k, NEW h, SameStatus(k, l), SameStatus(h, k) PROVE SameStatus(h, l)
  BY DEF SameStatus

LEMMA KeptBare == ASSUME NEW l, NEW k, SameStatus(k, l) PROVE Bare(k)
  BY DEF SameStatus, Bare

LEMMA KeptReflexive == ASSUME NEW l, Bare(l) PROVE SameStatus(l, l)
  BY DEF SameStatus, Bare

LEMMA NoteKept == ASSUME NEW l, Bare(l) PROVE SameStatus(Note(l), l)
  BY DEF Note, SameStatus, Bare

LEMMA InterruptKept == ASSUME NEW l, Bare(l) PROVE SameStatus(Interrupt(l), l)
  BY DEF Interrupt, SameStatus, Bare

LEMMA DecideKept ==
  ASSUME NEW l, Bare(l), NEW id, NEW gate, NEW digest, NEW decision, NEW intact
  PROVE  SameStatus(Decide(l, id, gate, digest, decision, intact), l)
  <1> DEFINE r == ReplayDecision(l.log, id, gate, digest, l.current, decision, intact)
             a == l.mutationAuthorized \/ /\ gate = "workflow"
                                          /\ decision = Allow("workflow.mutation_authorized")
  <1>1. Decide(l, id, gate, digest, decision, intact)
          = [l EXCEPT !.log = r, !.mutationAuthorized = a]
    BY DEF Decide
  <1> HIDE DEF r, a
  <1>2. QED BY <1>1 DEF SameStatus, Bare

LEMMA ToolExecutionKept ==
  ASSUME NEW l, Bare(l), NEW id, NEW e PROVE SameStatus(ToolExecution(l, id, e), l)
  <1> DEFINE r == ReplayToolExecution(l.log, id, e, TRUE)
  <1>1. ToolExecution(l, id, e) = [l EXCEPT !.log = r] BY DEF ToolExecution
  <1> HIDE DEF r
  <1>2. QED BY <1>1 DEF SameStatus, Bare

LEMMA MutateKept ==
  ASSUME NEW l, Bare(l), NEW id, NEW e, NEW after PROVE SameStatus(Mutate(l, id, e, after), l)
  <1> DEFINE r == ReplayMutation(l.log, id, e, l.current, after)
  <1>1. Mutate(l, id, e, after) = [l EXCEPT !.log = r, !.current = after] BY DEF Mutate
  <1> HIDE DEF r
  <1>2. QED BY <1>1 DEF SameStatus, Bare

LEMMA VerificationKept ==
  ASSUME NEW l, Bare(l), NEW rep PROVE SameStatus(VerificationLedger(l, rep), l)
  <1> DEFINE r == ReplayVerification(l.log, rep.subject, config.implementer,
                                     rep.verifier, rep.verdict, TRUE, rep.complete)
  <1>1. VerificationLedger(l, rep) = l \/ VerificationLedger(l, rep) = [l EXCEPT !.log = r]
    BY DEF VerificationLedger, Verified
  <1> HIDE DEF r
  <1>2. QED BY <1>1 DEF SameStatus, Bare

LEMMA UsageEventKept == ASSUME NEW l, Bare(l) PROVE SameStatus(UsageEvent(l), l)
  <1> DEFINE r == ReplayUsage(l.log, l.usage)
  <1>1. UsageEvent(l) = l \/ UsageEvent(l) = [l EXCEPT !.log = r] BY DEF UsageEvent
  <1> HIDE DEF r
  <1>2. QED BY <1>1 DEF SameStatus, Bare

LEMMA RecordUsageKept == ASSUME NEW l, Bare(l), NEW u PROVE SameStatus(RecordUsage(l, u), l)
  <1> DEFINE v == CappedUsage(l.usage, u)
             k == [l EXCEPT !.usage = v]
  <1>1. RecordUsage(l, u) = UsageEvent(k) BY DEF RecordUsage
  <1> HIDE DEF v
  <1>2. SameStatus(k, l) BY DEF SameStatus, Bare
  <1> HIDE DEF k
  <1>3. QED BY <1>1, <1>2, KeptBare, UsageEventKept, KeptTransitive

LEMMA ObservedKept == ASSUME NEW l, Bare(l), NEW u PROVE SameStatus(Observed(l, u), l)
  BY RecordUsageKept, KeptReflexive DEF Observed

LEMMA AcceptKept ==
  ASSUME NEW l, Bare(l), NEW e PROVE SameStatus(AcceptEffectIdentity(l, e), l)
  BY DEF AcceptEffectIdentity, SameStatus, Bare

LEMMA AttemptKept ==
  ASSUME NEW l, Bare(l), NEW p, NEW b PROVE SameStatus(AttemptLedger(l, p, b), l)
  <1> DEFINE e == p.effect
             a == AcceptEffectIdentity(l, e)
             t == ToolExecution(a, p.permission, e)
             m == Mutate(t, p.workflow, e, b.post)
             c == IF b.post # Null /\ e.class = "mutation" THEN m ELSE t
  <1>1. SameStatus(a, l) BY AcceptKept
  <1> HIDE DEF a
  <1>2. SameStatus(t, l) BY <1>1, KeptBare, ToolExecutionKept, KeptTransitive
  <1> HIDE DEF t
  <1>3. SameStatus(m, l) BY <1>2, KeptBare, MutateKept, KeptTransitive
  <1> HIDE DEF m
  <1>4. SameStatus(c, l) BY <1>2, <1>3
  <1>5. AttemptLedger(l, p, b) = RecordUsage(c, b.usage) BY DEF AttemptLedger, c, m, t, a
  <1> HIDE DEF c
  <1>6. QED BY <1>4, <1>5, KeptBare, RecordUsageKept, KeptTransitive

LEMMA ThroughKept ==
  ASSUME NEW c, NEW l, Bare(l), NEW e, NEW gate \in EffectGates
  PROVE  SameStatus(LedgerThrough(c, l, e, gate), l)
  <1>1. ASSUME NEW k, SameStatus(k, l), NEW g PROVE SameStatus(Recorded(c, k, e, g), l)
    <2> DEFINE d == GateDecision(c, k, e, g)
               yes == TRUE
               x == Decide(k, DecisionId(k), g, e, d, yes)
    <2>1. Recorded(c, k, e, g) = x BY DEF Recorded
    <2> HIDE DEF d, yes
    <2>2. SameStatus(x, k) BY <1>1, KeptBare, DecideKept
    <2>3. QED BY <1>1, <2>1, <2>2, KeptTransitive
  <1>2. SameStatus(l, l) BY KeptReflexive
  <1>3. SameStatus(PermissionLedger(c, l, e), l) BY <1>1, <1>2 DEF PermissionLedger
  <1>4. SameStatus(ToolTrustLedger(c, l, e), l) BY <1>1, <1>3 DEF ToolTrustLedger
  <1>5. SameStatus(RuntimeLedger(c, l, e), l) BY <1>1, <1>4 DEF RuntimeLedger
  <1>6. SameStatus(WorkflowLedger(c, l, e), l) BY <1>1, <1>5 DEF WorkflowLedger
  <1>7. QED BY <1>3, <1>4, <1>5, <1>6 DEF LedgerThrough, EffectGates

LEMMA PlanKept == ASSUME NEW l, Bare(l) PROVE SameStatus(PlanLedger(l), l)
  BY NoteKept, KeptBare, KeptTransitive DEF PlanLedger

LEMMA CompletionKept == ASSUME NEW l, Bare(l) PROVE SameStatus(CompletionLedger(l), l)
  <1> DEFINE yes == TRUE
             d == CompletionDecision(l)
  <1>1. CompletionLedger(l) = Decide(l, CompletionId, "workflow", l.current, d, yes)
    BY DEF CompletionLedger
  <1> HIDE DEF yes, d
  <1>2. QED BY <1>1, DecideKept

LEMMA PushKept ==
  ASSUME NEW l, Bare(l), NEW e, NEW s
  PROVE  LET k == PushResult(l, e, s)
         IN /\ Bare(k) /\ k.status = l.status
            /\ k.results = Append(l.results, [effect |-> e, status |-> s])
  BY DEF PushResult, Bare

(* The engine has yet to look the cancellation up, or has ended for it.    *)
Decided ==
  \/ CancelAhead
  \/ pc = "seal" /\ EndsForIt
  \/ /\ pc \in {"close", "closed"}
     /\ result = "receipt" => ledger.status = ending /\ EndsForIt

Early == {"start", "execute", "claim_agent", "observe_agent"} \cup MeteredCalls

(* What a step may come to that leaves the cells alone.                    *)
LEMMA ContinueDecided ==
  ASSUME CancelAhead, UNCHANGED cell, NEW l, NEW at \in Early, Continue(l, at)
  PROVE  Decided'
  BY DEF CancelAhead, LookedUpLater, Continue, Decided, Early, MeteredCalls

LEMMA FailDecided ==
  ASSUME NEW error \in {"rejected", "result_error"}, Fail(error) PROVE Decided'
  BY DEF Fail, Decided

LEMMA FinishDecided ==
  ASSUME CancelAhead, UNCHANGED cell, NEW l, l.status # "awaiting_authority",
         NEW s \in {"blocked", "failed", "interrupted"}, Finish(l, s)
  PROVE  Decided'
  <1>1. CASE s = "interrupted"
    BY <1>1 DEF Finish, Decided, EndsForIt
  <1>2. CASE s # "interrupted"
    <2>1. pc' = "observe_agent" BY <1>2 DEF Finish
    <2>2. CancelAhead' BY <2>1 DEF CancelAhead, LookedUpLater
    <2>3. QED BY <2>2 DEF Decided
  <1>3. QED BY <1>1, <1>2

(* An effect that is refused leaves a result; one the agent lacks the      *)
(* authority for is what the run waits for.                                *)
LEMMA RefuseDecided ==
  ASSUME CancelAhead, UNCHANGED cell, NEW l, Bare(l), l.status # "awaiting_authority",
         l.results \in EffectResults, NEW e \in Effects, NEW gate, NEW decision, NEW intact,
         Refuse(l, e, gate, decision, intact)
  PROVE  Decided'
  <1> DEFINE b == NonExecutionBody(l, e, gate, decision, intact)
             s == b.status
             k == PushResult(l, e, s)
             h == Transition(k, "awaiting_authority")
             r == ReplayTransition(k.log, k.status, "awaiting_authority")
  <1>1. CASE ~ValidResult(e, b) BY <1>1, FailDecided DEF Refuse
  <1>2. CASE ValidResult(e, b) /\ decision.outcome # "ask"
    <2>1. Finish(k, "blocked") BY <1>2 DEF Refuse, BlockedFromDecision
    <2> HIDE DEF s
    <2>2. k.status # "awaiting_authority" BY PushKept
    <2> HIDE DEF k
    <2>3. QED BY <2>1, <2>2, FinishDecided
  <1>3. CASE ValidResult(e, b) /\ decision.outcome = "ask"
    <2>1. Finish(h, "blocked") BY <1>3 DEF Refuse, BlockedFromDecision
    <2>2. s = "awaiting_authority" BY <1>3 DEF NonExecutionBody, NonExecutionStatus
    <2> HIDE DEF s
    <2>3. /\ Bare(k)
          /\ k.results = Append(l.results, [effect |-> e, status |-> "awaiting_authority"])
      BY <2>2, PushKept
    <2> HIDE DEF k
    <2>4. h = [k EXCEPT !.log = r, !.status = "awaiting_authority"] BY DEF Transition
    <2> HIDE DEF r
    <2>5. h.status = "awaiting_authority" /\ h.results = k.results BY <2>3, <2>4 DEF Bare
    <2> HIDE DEF h
    <2>6. pc' = "seal" /\ ending' = "blocked" /\ ledger' = h BY <2>1, <2>5 DEF Finish
    <2>7. AwaitedAuthority'
      <3>1. /\ h.results # <<>>
            /\ h.results[Len(h.results)].status = "awaiting_authority"
        BY <2>3, <2>5 DEF EffectResults, Statuses
      <3>2. QED BY <2>6, <3>1 DEF AwaitedAuthority
    <2>8. QED BY <2>6, <2>7 DEF Decided, EndsForIt
  <1>4. QED BY <1>1, <1>2, <1>3

LEMMA DeclineDecided ==
  ASSUME CancelAhead, UNCHANGED cell, NEW l, Bare(l), l.status # "awaiting_authority",
         l.results \in EffectResults, NEW e \in Effects, NEW gate, NEW decision, NEW intact,
         Decline(l, e, gate, decision, intact)
  PROVE  Decided'
  <1> DEFINE k == Decide(l, DecisionId(l), gate, e, decision, intact)
  <1>1. Refuse(k, e, gate, decision, intact) BY DEF Decline
  <1>2. SameStatus(k, l) BY DecideKept
  <1> HIDE DEF k
  <1>3. Bare(k) /\ k.status # "awaiting_authority" /\ k.results \in EffectResults
    BY <1>2, KeptBare DEF SameStatus
  <1>4. QED BY <1>1, <1>3, RefuseDecided

(* The ledger of a run that waits in a call.                               *)
LEMMA AheadLedger ==
  ASSUME RunInvariant, CancelAhead
  PROVE  /\ Bare(ledger) /\ ledger.results \in EffectResults
         /\ pc \notin {"observe_agent", "observe_executor"} =>
              ledger.status # "awaiting_authority"
         /\ pc \notin {"seal", "close", "closed"}
         /\ cell \in [Cells -> {"active", "cancelled", "claimed"}]
  <1>1. Bare(ledger) /\ ledger.results \in EffectResults
    BY LedgerShape DEF Shaped, Bare
  <1>2. pc \in Early \cup {"claim_executor", "observe_executor"}
    BY DEF CancelAhead, LookedUpLater, Early
  <1>3. pc \notin {"observe_agent", "observe_executor"} =>
          ledger.status # "awaiting_authority"
    BY <1>2 DEF RunInvariant, EngineInvariant, StatusAtCall, Early, MeteredCalls
  <1>4. QED BY <1>1, <1>2, <1>3
    DEF RunInvariant, EngineInvariant, TypeOK, Early, MeteredCalls

(* The calls of the agent and the verifier.                                *)
LEMMA ReturnsDecided ==
  ASSUME RunInvariant, CancelAhead, NEW at \in MeteredCalls, pc = at, NEW u
  PROVE  LET l == RecordUsage(ledger, u)
         IN /\ SameStatus(l, ledger) /\ Bare(l) /\ l.results \in EffectResults
            /\ l.status # "awaiting_authority"
  <1> DEFINE l == RecordUsage(ledger, u)
  <1>1. SameStatus(l, ledger) BY AheadLedger, RecordUsageKept
  <1> HIDE DEF l
  <1>2. Bare(l) /\ l.results \in EffectResults /\ l.status # "awaiting_authority"
    BY <1>1, AheadLedger, KeptBare DEF SameStatus, MeteredCalls
  <1>3. QED BY <1>1, <1>2 DEF l

LEMMA PortFailsDecided ==
  ASSUME RunInvariant, CancelAhead, NEW at \in MeteredCalls, PortFails(at) PROVE Decided'
  <1>1. PICK u \in PortUsages \cup {Null} : Finish(Observed(ledger, u), "failed")
    BY DEF PortFails
  <1>2. pc = at /\ UNCHANGED cell BY DEF PortFails, Untouched
  <1> DEFINE l == Observed(ledger, u)
  <1>3. l.status # "awaiting_authority"
    <2>1. SameStatus(l, ledger) BY AheadLedger, ObservedKept
    <2> HIDE DEF l
    <2>2. QED BY <1>2, <2>1, AheadLedger DEF SameStatus, MeteredCalls
  <1> HIDE DEF l
  <1>4. Finish(l, "failed") BY <1>1 DEF l
  <1>5. QED BY <1>2, <1>3, <1>4, FinishDecided

LEMMA PortOverspendsDecided ==
  ASSUME RunInvariant, CancelAhead, NEW at \in MeteredCalls, PortOverspends(at) PROVE Decided'
  <1>1. PICK u \in PortUsages : Finish(RecordUsage(ledger, u), "blocked")
    BY DEF PortOverspends
  <1>2. pc = at /\ UNCHANGED cell BY DEF PortOverspends, Untouched
  <1> DEFINE l == RecordUsage(ledger, u)
  <1>3. l.status # "awaiting_authority" BY <1>2, ReturnsDecided
  <1> HIDE DEF l
  <1>4. Finish(l, "blocked") BY <1>1 DEF l
  <1>5. QED BY <1>2, <1>3, <1>4, FinishDecided

LEMMA StartDecided ==
  ASSUME RunInvariant, CancelAhead, RejectRun \/ AcceptRun PROVE Decided'
  <1>1. CASE RejectRun BY <1>1, FailDecided DEF RejectRun
  <1>2. CASE AcceptRun
    BY <1>2, ContinueDecided DEF AcceptRun, Untouched, Early, MeteredCalls
  <1>3. QED BY <1>1, <1>2

LEMMA PlanDecided ==
  ASSUME RunInvariant, CancelAhead, PlanBadDigest \/ PlanUnapproved \/ PlanApproved
  PROVE  Decided'
  <1>1. PICK u \in PortUsages :
          LET l == RecordUsage(ledger, u)
          IN /\ pc = "plan" /\ UNCHANGED cell
             /\ \/ Finish(l, "failed")
                \/ /\ PlanDecision.outcome # "allow"
                   /\ BlockedFromDecision(PlanLedger(l), PlanDecision)
                \/ Continue(Transition(PlanLedger(l), "executing"), "step")
    BY DEF PlanBadDigest, PlanUnapproved, PlanApproved, PortReturns, Untouched
  <1> DEFINE l == RecordUsage(ledger, u)
             k == PlanLedger(l)
             h == Transition(k, "executing")
  <1>2. Bare(l) /\ l.status # "awaiting_authority"
    BY <1>1, ReturnsDecided DEF MeteredCalls
  <1>3. CASE Finish(l, "failed")
    <2> HIDE DEF l
    <2>1. QED BY <1>1, <1>2, <1>3, FinishDecided
  <1>4. CASE PlanDecision.outcome # "allow" /\ BlockedFromDecision(k, PlanDecision)
    <2>1. PlanDecision.outcome # "ask"
      BY DEF PlanDecision, EvaluatePlan, Block, Allow
    <2>2. Finish(k, "blocked") BY <1>4, <2>1 DEF BlockedFromDecision
    <2> HIDE DEF l
    <2>3. k.status # "awaiting_authority" BY <1>2, PlanKept DEF SameStatus
    <2> HIDE DEF k
    <2>4. QED BY <1>1, <2>2, <2>3, FinishDecided
  <1>5. CASE Continue(h, "step")
    <2> HIDE DEF h
    <2>1. QED BY <1>1, <1>5, ContinueDecided DEF Early, MeteredCalls
  <1>6. QED BY <1>1, <1>3, <1>4, <1>5

LEMMA AgentDecided ==
  ASSUME RunInvariant, CancelAhead, AgentCancels \/ AgentFinishes PROVE Decided'
  <1>1. PICK u \in PortUsages :
          LET l == RecordUsage(ledger, u)
          IN /\ pc = "step" /\ UNCHANGED cell
             /\ \/ Finish(Interrupt(l), "interrupted")
                \/ Continue(Transition(l, "verifying"), "verify")
    BY DEF AgentCancels, AgentFinishes, PortReturns, Untouched
  <1> DEFINE l == RecordUsage(ledger, u)
             k == Interrupt(l)
             h == Transition(l, "verifying")
  <1>2. CASE Finish(k, "interrupted")
    <2>1. k.status # "awaiting_authority"
      <3>1. Bare(l) /\ l.status # "awaiting_authority"
        BY <1>1, ReturnsDecided DEF MeteredCalls
      <3> HIDE DEF l
      <3>2. QED BY <3>1, InterruptKept DEF SameStatus
    <2> HIDE DEF k
    <2>2. QED BY <1>1, <1>2, <2>1, FinishDecided
  <1>3. CASE Continue(h, "verify")
    <2> HIDE DEF h
    <2>1. QED BY <1>1, <1>3, ContinueDecided DEF Early, MeteredCalls
  <1>4. QED BY <1>1, <1>2, <1>3

(* A proposal is refused or goes to the executor.                          *)
LEMMA ProposeDecided ==
  ASSUME RunInvariant, CancelAhead, Propose PROVE Decided'
  <1>1. PICK e \in Effects, u \in PortUsages :
          LET l == RecordUsage(ledger, u)
          IN \/ ProposeInvalid(e, u, l) \/ ProposeStale(e, u, l)
             \/ ProposeInadmissible(e, u, l) \/ ProposeUnaffordable(e, u, l)
             \/ GateStops(e, u, l) \/ Dispatch(e, u, l)
    BY DEF Propose
  <1> DEFINE l == RecordUsage(ledger, u)
  <1>2. pc = "step" /\ UNCHANGED cell
    BY <1>1 DEF ProposeInvalid, ProposeStale, ProposeInadmissible, ProposeUnaffordable,
                GateStops, Dispatch, Admitted, PortReturns, Untouched
  <1>3. /\ Bare(l) /\ l.status # "awaiting_authority" /\ l.results \in EffectResults
    BY <1>2, ReturnsDecided DEF MeteredCalls
  <1> HIDE DEF l
  <1>4. CASE ProposeInvalid(e, u, l) BY <1>2, <1>3, <1>4, FinishDecided DEF ProposeInvalid
  <1>5. CASE ProposeStale(e, u, l) \/ ProposeInadmissible(e, u, l) \/ ProposeUnaffordable(e, u, l)
    <2>1. PICK gate, decision, intact : Decline(l, e, gate, decision, intact)
      BY <1>5 DEF ProposeStale, ProposeInadmissible, ProposeUnaffordable
    <2>2. QED BY <1>2, <1>3, <2>1, DeclineDecided
  <1>6. CASE GateStops(e, u, l)
    <2>1. PICK i \in 1..4 :
            Refuse(LedgerThrough(config, l, e, GateOrder[i]), e, GateOrder[i],
                   GateDecision(config, l, e, GateOrder[i]), TRUE)
      BY <1>6 DEF GateStops
    <2> DEFINE gate == GateOrder[i]
               d == GateDecision(config, l, e, gate)
               yes == TRUE
               k == LedgerThrough(config, l, e, gate)
    <2>2. Refuse(k, e, gate, d, yes) BY <2>1
    <2>3. gate \in EffectGates BY DEF GateOrder, EffectGates
    <2> HIDE DEF gate, d, yes
    <2>4. SameStatus(k, l) BY <1>3, <2>3, ThroughKept
    <2> HIDE DEF k
    <2>5. Bare(k) /\ k.status # "awaiting_authority" /\ k.results \in EffectResults
      BY <1>3, <2>4, KeptBare DEF SameStatus
    <2>6. QED BY <1>2, <2>2, <2>5, RefuseDecided
  <1>7. CASE Dispatch(e, u, l)
    <2>1. PICK k : Continue(k, "execute") BY <1>7 DEF Dispatch
    <2>2. QED BY <1>2, <2>1, ContinueDecided DEF Early
  <1>8. QED BY <1>1, <1>4, <1>5, <1>6, <1>7 DEF l

(* The answers of the executor.                                            *)
LEMMA DeclinesDecided ==
  ASSUME RunInvariant, CancelAhead, ExecuteNotDispatched \/ ExecuteDeclines
  PROVE  Decided'
  <1>1. pc = "execute" /\ UNCHANGED cell
    BY DEF ExecuteNotDispatched, ExecuteDeclines, Untouched
  <1>2. pending.effect \in Effects
    BY <1>1 DEF RunInvariant, EngineInvariant, TypeOK
  <1>3. \E k, decision, intact :
          SameStatus(k, ledger) /\ Decline(k, pending.effect, "permission", decision, intact)
    <2>1. CASE ExecuteNotDispatched
      <3>1. PICK u \in PortUsages \cup {Null}, blank \in BOOLEAN :
              Decline(Observed(ledger, u), pending.effect, "permission",
                      Block("executor.not_dispatched"), ~blank)
        BY <2>1 DEF ExecuteNotDispatched
      <3>2. SameStatus(Observed(ledger, u), ledger) BY AheadLedger, ObservedKept
      <3>3. QED BY <3>1, <3>2
    <2>2. CASE ExecuteDeclines
      <3>1. PICK o \in Observations :
              Decline(RecordUsage(ledger, o.usage), pending.effect, "permission",
                      ExecutorDecision(o), TRUE)
        BY <2>2 DEF ExecuteDeclines
      <3>2. SameStatus(RecordUsage(ledger, o.usage), ledger) BY AheadLedger, RecordUsageKept
      <3>3. QED BY <3>1, <3>2
    <2>3. QED BY <2>1, <2>2
  <1>4. PICK k, decision, intact :
          SameStatus(k, ledger) /\ Decline(k, pending.effect, "permission", decision, intact)
    BY <1>3
  <1>5. Bare(k) /\ k.status # "awaiting_authority" /\ k.results \in EffectResults
    BY <1>1, <1>4, AheadLedger, KeptBare DEF SameStatus
  <1>6. QED BY <1>1, <1>2, <1>4, <1>5, DeclineDecided

LEMMA AttemptDecided ==
  ASSUME RunInvariant, CancelAhead, pc = "execute", UNCHANGED cell,
         NEW h, SameStatus(h, ledger), NEW s,
         \/ \E w \in {"blocked", "failed", "interrupted"} :
              Finish(PushResult(h, pending.effect, s), w)
         \/ Continue(PushResult(h, pending.effect, s), "step")
  PROVE  Decided'
  <1> DEFINE k == PushResult(h, pending.effect, s)
  <1>1. k.status # "awaiting_authority"
    <2>1. Bare(h) /\ h.status # "awaiting_authority" BY AheadLedger, KeptBare DEF SameStatus
    <2>2. QED BY <2>1, PushKept
  <1>2. \/ \E w \in {"blocked", "failed", "interrupted"} : Finish(k, w)
        \/ Continue(k, "step")
    OBVIOUS
  <1> HIDE DEF k
  <1>3. QED BY <1>1, <1>2, FinishDecided, ContinueDecided DEF Early, MeteredCalls

LEMMA LostDecided ==
  ASSUME RunInvariant, CancelAhead, ExecuteLost PROVE Decided'
  <1>1. PICK u \in PortUsages \cup {Null}, ev \in LostEvidence :
          LET b == LostBody(ledger, pending.effect, u, ev)
              l == ToolExecution(ledger, pending.permission, pending.effect)
          IN Finish(PushResult(RecordUsage(l, b.usage), pending.effect, b.status),
                    IF UsageReason(l, b.usage, config.budget) # "none"
                      THEN "blocked" ELSE "failed")
    BY DEF ExecuteLost
  <1>2. pc = "execute" /\ UNCHANGED cell BY DEF ExecuteLost, Untouched
  <1> DEFINE b == LostBody(ledger, pending.effect, u, ev)
             l == ToolExecution(ledger, pending.permission, pending.effect)
             h == RecordUsage(l, b.usage)
             s == b.status
             over == UsageReason(l, b.usage, config.budget) # "none"
  <1>3. Finish(PushResult(h, pending.effect, s), IF over THEN "blocked" ELSE "failed")
    BY <1>1
  <1> HIDE DEF b, over
  <1>4. SameStatus(h, ledger)
    <2>1. SameStatus(l, ledger) BY AheadLedger, ToolExecutionKept
    <2> HIDE DEF l
    <2>2. QED BY <2>1, KeptBare, RecordUsageKept, KeptTransitive
  <1> HIDE DEF h, s
  <1>5. \E w \in {"blocked", "failed", "interrupted"} :
          Finish(PushResult(h, pending.effect, s), w)
    BY <1>3
  <1>6. QED BY <1>2, <1>4, <1>5, AttemptDecided

LEMMA UntrustedDecided ==
  ASSUME RunInvariant, CancelAhead, ExecuteUntrusted PROVE Decided'
  <1>1. PICK o \in Observations : \E kept \in KeptEvidence(Floored(o)) :
          LET b == UntrustedBody(ledger, pending.effect, Floored(o), kept)
          IN Finish(PushResult(AttemptLedger(ledger, pending, b), pending.effect, b.status),
                    "failed")
    BY DEF ExecuteUntrusted
  <1>2. PICK kept \in KeptEvidence(Floored(o)) :
          LET b == UntrustedBody(ledger, pending.effect, Floored(o), kept)
          IN Finish(PushResult(AttemptLedger(ledger, pending, b), pending.effect, b.status),
                    "failed")
    BY <1>1
  <1>3. pc = "execute" /\ UNCHANGED cell BY DEF ExecuteUntrusted, Untouched
  <1> DEFINE b == UntrustedBody(ledger, pending.effect, Floored(o), kept)
             h == AttemptLedger(ledger, pending, b)
             s == b.status
  <1>4. Finish(PushResult(h, pending.effect, s), "failed") BY <1>2
  <1> HIDE DEF b
  <1>5. SameStatus(h, ledger) BY AheadLedger, AttemptKept
  <1> HIDE DEF h, s
  <1>6. QED BY <1>3, <1>4, <1>5, AttemptDecided

LEMMA ReturnDecided ==
  ASSUME RunInvariant, CancelAhead, ExecuteReturns PROVE Decided'
  <1>1. PICK o \in Observations :
          LET e == pending.effect
              b == ObservedBody(ledger, e, Floored(o))
              l == AttemptLedger(ledger, pending, b)
              overspent == UsageReason(ledger, b.usage, config.budget) # "none"
          IN /\ o.status \in Attempted /\ ValidResult(e, b)
             /\ CASE b.status = "executed" /\ ~overspent ->
                       Continue(PushResult(l, e, b.status), "step")
                  [] b.status = "executed" /\ overspent ->
                       Finish(PushResult(l, e, b.status), "blocked")
                  [] b.status = "interrupted" ->
                       Finish(PushResult(Interrupt(l), e, b.status), "interrupted")
                  [] b.status \in {"failed", "unknown_outcome"} ->
                       Finish(PushResult(l, e, b.status), "failed")
    BY DEF ExecuteReturns
  <1>2. pc = "execute" /\ UNCHANGED cell BY DEF ExecuteReturns, Untouched
  <1> DEFINE e == pending.effect
             b == ObservedBody(ledger, e, Floored(o))
             l == AttemptLedger(ledger, pending, b)
             i == Interrupt(l)
             s == b.status
             overspent == UsageReason(ledger, b.usage, config.budget) # "none"
  <1>3. s = o.status /\ s \in Attempted BY <1>1, ObservedBodyFields
  <1>4. \/ Continue(PushResult(l, e, s), "step")
        \/ \E w \in {"blocked", "failed", "interrupted"} :
             Finish(PushResult(l, e, s), w) \/ Finish(PushResult(i, e, s), w)
    BY <1>1, <1>3 DEF Attempted
  <1> HIDE DEF b
  <1>5. SameStatus(l, ledger) BY AheadLedger, AttemptKept
  <1> HIDE DEF l
  <1>6. SameStatus(i, ledger) BY <1>5, KeptBare, InterruptKept, KeptTransitive
  <1> HIDE DEF i, s
  <1>7. QED BY <1>2, <1>4, <1>5, <1>6, AttemptDecided DEF e

(* The verifier's report, the completion and the look-ups.                 *)
LEMMA VerifyDecided ==
  ASSUME RunInvariant, CancelAhead, VerifyReturns PROVE Decided'
  <1>1. PICK rep \in Reports, u \in PortUsages :
          LET l == RecordUsage(ledger, u)
          IN /\ pc = "verify" /\ UNCHANGED cell
             /\ \/ Finish(l, "blocked")
                \/ Finish(VerificationLedger(l, rep), "blocked")
                \/ Continue(VerificationLedger(l, rep), "check")
    BY DEF VerifyReturns, ReportDiscarded, ReportRejected, ReportAccepted, PortReturns,
           Untouched
  <1> DEFINE l == RecordUsage(ledger, u)
             k == VerificationLedger(l, rep)
  <1>2. Bare(l) /\ l.status # "awaiting_authority"
    BY <1>1, ReturnsDecided DEF MeteredCalls
  <1>3. Finish(l, "blocked") \/ Finish(k, "blocked") \/ Continue(k, "check") BY <1>1
  <1> HIDE DEF l
  <1>4. k.status # "awaiting_authority" BY <1>2, VerificationKept DEF SameStatus
  <1> HIDE DEF k
  <1>5. QED
    BY <1>1, <1>2, <1>3, <1>4, FinishDecided, ContinueDecided DEF Early, MeteredCalls

LEMMA CheckDecided ==
  ASSUME RunInvariant, CancelAhead, CheckReturns PROVE Decided'
  <1>1. PICK u \in PortUsages :
          LET l == RecordUsage(ledger, u)
          IN /\ pc = "check" /\ UNCHANGED cell
             /\ Continue(l, "claim_agent") \/ Finish(CompletionLedger(l), "blocked")
    BY DEF CheckReturns, PortReturns, Untouched
  <1> DEFINE l == RecordUsage(ledger, u)
             k == CompletionLedger(l)
  <1>2. Bare(l) /\ l.status # "awaiting_authority"
    BY <1>1, ReturnsDecided DEF MeteredCalls
  <1>3. Continue(l, "claim_agent") \/ Finish(k, "blocked") BY <1>1
  <1> HIDE DEF l
  <1>4. k.status # "awaiting_authority" BY <1>2, CompletionKept DEF SameStatus
  <1> HIDE DEF k
  <1>5. QED BY <1>1, <1>3, <1>4, FinishDecided, ContinueDecided DEF Early

(* A claim that fails or is refused ends the run; one that is granted was  *)
(* not the cancelled port's.                                               *)
LEMMA ClaimDecided ==
  ASSUME RunInvariant, CancelAhead, NEW p \in Ports,
         ClaimFails(p) \/ ClaimRefused(p) \/ ClaimGranted(p)
  PROVE  Decided'
  <1>1. pc \in {"claim_agent", "claim_executor"}
    BY DEF ClaimFails, ClaimRefused, ClaimGranted, ClaimAt, Ports
  <1>2. CASE ClaimFails(p)
    <2>1. PICK u \in PortUsages \cup {Null} : Finish(Observed(ledger, u), "failed")
      BY <1>2 DEF ClaimFails
    <2> DEFINE l == Observed(ledger, u)
    <2>2. SameStatus(l, ledger) BY AheadLedger, ObservedKept
    <2>3. Finish(l, "failed") BY <2>1
    <2> HIDE DEF l
    <2>4. l.status # "awaiting_authority" BY <1>1, <2>2, AheadLedger DEF SameStatus
    <2>5. UNCHANGED cell BY <1>2 DEF ClaimFails, Untouched
    <2>6. QED BY <2>3, <2>4, <2>5, FinishDecided
  <1>3. CASE ClaimRefused(p)
    <2>1. PICK l : Finish(l, "interrupted") BY <1>3 DEF ClaimRefused
    <2>2. QED BY <2>1 DEF Finish, Decided, EndsForIt
  <1>4. CASE ClaimGranted(p)
    <2>1. PICK q \in Ports : LookedUpLater(q) BY DEF CancelAhead
    <2>2. cell[CellOf[q]] = "cancelled" /\ cell[CellOf[p]] # "cancelled"
      BY <1>4, <2>1 DEF ClaimGranted, LookedUpLater
    <2>3. p = "agent" /\ q = "executor" /\ pc' = "claim_executor"
      BY <1>1, <1>4, <2>1, <2>2
        DEF LookedUpLater, ClaimGranted, ClaimAt, Continue, Ports, MeteredCalls
    <2>4. cell'[CellOf[q]] = "cancelled"
      <3>1. CellOf[q] \in Cells BY CellAssumption
      <3>2. CellOf[q] # CellOf[p] BY <2>2
      <3>3. QED BY <1>4, <2>2, <3>1, <3>2, AheadLedger DEF ClaimGranted
    <2>5. LookedUpLater(q)' BY <2>3, <2>4 DEF LookedUpLater
    <2>6. QED BY <2>5 DEF CancelAhead, Decided
  <1>5. QED BY <1>2, <1>3, <1>4

LEMMA ObserveDecided ==
  ASSUME RunInvariant, CancelAhead, NEW p \in Ports,
         ObserveCancelled(p) \/ ObserveNothing(p)
  PROVE  Decided'
  <1>1. CASE ObserveCancelled(p)
    <2>1. PICK l : Finish(l, "interrupted") BY <1>1 DEF ObserveCancelled
    <2>2. QED BY <2>1 DEF Finish, Decided, EndsForIt
  <1>2. CASE ObserveNothing(p)
    <2>1. PICK q \in Ports : LookedUpLater(q) BY DEF CancelAhead
    <2>2. cell[CellOf[q]] = "cancelled" /\ cell[CellOf[p]] # "cancelled" /\ UNCHANGED cell
      BY <1>2, <2>1 DEF ObserveNothing, LookedUpLater, Untouched
    <2>3. p = "agent" /\ q = "executor" /\ pc' = "observe_executor"
      BY <1>2, <2>1, <2>2
        DEF LookedUpLater, ObserveNothing, ObserveAt, Continue, Ports, MeteredCalls
    <2>4. LookedUpLater(q)' BY <2>2, <2>3 DEF LookedUpLater
    <2>5. QED BY <2>4 DEF CancelAhead, Decided
  <1>3. QED BY <1>1, <1>2

(* The seal and the close keep what has been decided.                      *)
LEMMA SealDecided ==
  ASSUME RunInvariant, Decided, ~CancelAhead, Seal PROVE Decided'
  <1> DEFINE h == UsageEvent(ledger)
             r == ReplayTransition(h.log, h.status, ending)
             k == SealedLedger(ledger, ending)
  <1>1. pc = "seal" /\ EndsForIt BY DEF Seal, Decided
  <1>2. Bare(ledger) BY LedgerShape DEF Shaped, Bare
  <1>3. SameStatus(h, ledger) BY <1>2, UsageEventKept
  <1>4. k = [h EXCEPT !.log = r, !.status = ending] BY DEF SealedLedger, Transition
  <1>5. pc' = "close" /\ ledger' = k /\ ending' = ending BY DEF Seal
  <1> HIDE DEF h, r, k
  <1>6. k.status = ending /\ k.results = ledger.results BY <1>3, <1>4 DEF SameStatus
  <1>7. EndsForIt' BY <1>1, <1>5, <1>6 DEF EndsForIt, AwaitedAuthority
  <1>8. QED BY <1>5, <1>6, <1>7 DEF Decided

LEMMA CloseDecided == ASSUME Decided, pc = "close", Close PROVE Decided'
  <1>1. pc' = "closed" /\ ledger' = ledger /\ UNCHANGED <<ending, result>>
    BY DEF Close, Continue
  <1>2. result = "receipt" => ledger.status = ending /\ EndsForIt
    BY DEF Decided, CancelAhead, LookedUpLater, MeteredCalls
  <1>3. QED BY <1>1, <1>2 DEF Decided, EndsForIt, AwaitedAuthority

LEMMA EngineDecided ==
  ASSUME RunInvariant, CancelAhead, EngineStep PROVE Decided'
  <1>1. {"plan", "step", "verify", "check"} = MeteredCalls BY DEF MeteredCalls
  <1>2. pc \notin {"seal", "close", "closed"} BY AheadLedger
  <1>3. CASE RejectRun \/ AcceptRun BY <1>3, StartDecided
  <1>4. CASE PlanFails \/ StepFails \/ VerifyFails \/ CheckFails
    BY <1>1, <1>4, PortFailsDecided DEF PlanFails, StepFails, VerifyFails, CheckFails
  <1>5. CASE PlanOverspends \/ StepOverspends \/ VerifyOverspends \/ CheckOverspends
    BY <1>1, <1>5, PortOverspendsDecided
      DEF PlanOverspends, StepOverspends, VerifyOverspends, CheckOverspends
  <1>6. CASE PlanBadDigest \/ PlanUnapproved \/ PlanApproved BY <1>6, PlanDecided
  <1>7. CASE AgentCancels \/ AgentFinishes BY <1>7, AgentDecided
  <1>8. CASE Propose BY <1>8, ProposeDecided
  <1>9. CASE ExecuteNotDispatched \/ ExecuteDeclines BY <1>9, DeclinesDecided
  <1>10. CASE ExecuteLost BY <1>10, LostDecided
  <1>11. CASE ExecuteUntrusted BY <1>11, UntrustedDecided
  <1>12. CASE ExecuteReturns BY <1>12, ReturnDecided
  <1>13. CASE ExecuteUnsealable BY <1>13, FailDecided DEF ExecuteUnsealable
  <1>14. CASE VerifyReturns BY <1>14, VerifyDecided
  <1>15. CASE CheckReturns BY <1>15, CheckDecided
  <1>16. ASSUME NEW p \in Ports, ClaimFails(p) \/ ClaimRefused(p) \/ ClaimGranted(p)
                                   \/ ObserveCancelled(p) \/ ObserveNothing(p)
         PROVE  Decided'
    BY <1>16, ClaimDecided, ObserveDecided
  <1>17. CASE Seal \/ Close BY <1>2, <1>17 DEF Seal, Close
  <1>18. QED
    BY <1>3, <1>4, <1>5, <1>6, <1>7, <1>8, <1>9, <1>10, <1>11, <1>12, <1>13, <1>14,
       <1>15, <1>16, <1>17 DEF EngineStep

(* A second cancellation leaves the first where it is.                     *)
LEMMA CancelDecided ==
  ASSUME RunInvariant, Decided, NEW c \in Cells, Cancel(c) PROVE Decided'
  <1>1. CASE CancelAhead
    <2>1. PICK q \in Ports : LookedUpLater(q) BY <1>1 DEF CancelAhead
    <2>2. cell'[CellOf[q]] = "cancelled"
      <3>1. CellOf[q] \in Cells BY CellAssumption
      <3>2. QED BY <1>1, <2>1, <3>1, AheadLedger DEF LookedUpLater, Cancel
    <2>3. LookedUpLater(q)' BY <2>1, <2>2 DEF LookedUpLater, Cancel, engine
    <2>4. QED BY <2>3 DEF Decided, CancelAhead
  <1>2. CASE ~CancelAhead
    BY <1>2 DEF Decided, EndsForIt, AwaitedAuthority, Cancel, engine
  <1>3. QED BY <1>1, <1>2

(* The engine calls no port once it has come to the seal.                  *)
LEMMA LateSteps ==
  ASSUME EngineStep, pc \in {"seal", "close", "closed"} PROVE Seal \/ Close
  <1>1. ~(RejectRun \/ AcceptRun) BY DEF RejectRun, AcceptRun
  <1>2. ASSUME NEW at \in MeteredCalls PROVE ~PortFails(at) /\ ~PortOverspends(at)
    BY DEF PortFails, PortOverspends, MeteredCalls
  <1>3. ASSUME NEW at \in MeteredCalls, NEW u PROVE ~PortReturns(at, u)
    BY DEF PortReturns, MeteredCalls
  <1>4. {"plan", "step", "verify", "check"} = MeteredCalls BY DEF MeteredCalls
  <1>5. ~(PlanFails \/ StepFails \/ VerifyFails \/ CheckFails)
    BY <1>2, <1>4 DEF PlanFails, StepFails, VerifyFails, CheckFails
  <1>6. ~(PlanOverspends \/ StepOverspends \/ VerifyOverspends \/ CheckOverspends)
    BY <1>2, <1>4 DEF PlanOverspends, StepOverspends, VerifyOverspends, CheckOverspends
  <1>7. ~(PlanBadDigest \/ PlanUnapproved \/ PlanApproved)
    BY <1>3, <1>4 DEF PlanBadDigest, PlanUnapproved, PlanApproved
  <1>8. ~(AgentCancels \/ AgentFinishes) BY <1>3, <1>4 DEF AgentCancels, AgentFinishes
  <1>9. ~Propose
    BY <1>3, <1>4
      DEF Propose, ProposeInvalid, ProposeStale, ProposeInadmissible,
          ProposeUnaffordable, GateStops, Dispatch, Admitted
  <1>10. ~(ExecuteNotDispatched \/ ExecuteLost \/ ExecuteDeclines \/ ExecuteUntrusted)
    BY DEF ExecuteNotDispatched, ExecuteLost, ExecuteDeclines, ExecuteUntrusted
  <1>11. ~(ExecuteReturns \/ ExecuteUnsealable) BY DEF ExecuteReturns, ExecuteUnsealable
  <1>12. ~VerifyReturns
    BY <1>3, <1>4 DEF VerifyReturns, ReportDiscarded, ReportRejected, ReportAccepted
  <1>13. ~CheckReturns BY <1>3, <1>4 DEF CheckReturns
  <1>14. ASSUME NEW p \in Ports
         PROVE  ~(ClaimFails(p) \/ ClaimRefused(p) \/ ClaimGranted(p)
                    \/ ObserveCancelled(p) \/ ObserveNothing(p))
    BY DEF ClaimFails, ClaimRefused, ClaimGranted, ClaimAt, ObserveCancelled,
           ObserveNothing, ObserveAt, Ports
  <1>15. QED
    BY <1>1, <1>5, <1>6, <1>7, <1>8, <1>9, <1>10, <1>11, <1>12, <1>13, <1>14
      DEF EngineStep

LEMMA NextDecided == ASSUME RunInvariant, Decided, [Next]_vars PROVE Decided'
  <1>1. CASE EngineStep
    <2>1. CASE CancelAhead BY <1>1, <2>1, EngineDecided
    <2>2. CASE ~CancelAhead
      <3>1. pc \in {"seal", "close", "closed"} BY <2>2 DEF Decided
      <3>2. Seal \/ Close BY <1>1, <3>1, LateSteps
      <3>3. Close => pc = "close" BY DEF Close
      <3>4. QED BY <2>2, <3>2, <3>3, SealDecided, CloseDecided
    <2>3. QED BY <2>1, <2>2
  <1>2. CASE \E c \in Cells : Cancel(c) BY <1>2, CancelDecided
  <1>3. CASE UNCHANGED vars
    <2>1. Decided' = Decided
      BY <1>3 DEF vars, engine, Decided, CancelAhead, LookedUpLater, EndsForIt,
                  AwaitedAuthority
    <2>2. QED BY <2>1
  <1>4. QED BY <1>1, <1>2, <1>3 DEF Next, Terminated

(* A run that is over has returned something (run): the sealed receipt or  *)
(* an error.                                                               *)
Returned == pc \in {"close", "closed"} => result # "none"

LEMMA FinishReturns == ASSUME NEW l, NEW s, Finish(l, s) PROVE Returned'
  BY DEF Finish, Returned

LEMMA ContinueReturns ==
  ASSUME NEW l, NEW at, at \notin {"close", "closed"}, Continue(l, at) PROVE Returned'
  BY DEF Continue, Returned

LEMMA FailReturns ==
  ASSUME NEW error \in {"rejected", "result_error"}, Fail(error) PROVE Returned'
  BY DEF Fail, Returned

LEMMA RefuseReturns ==
  ASSUME NEW l, NEW e, NEW gate, NEW decision, NEW intact,
         Refuse(l, e, gate, decision, intact) \/ Decline(l, e, gate, decision, intact)
  PROVE  Returned'
  <1>1. ASSUME NEW k, Refuse(k, e, gate, decision, intact) PROVE Returned'
    <2>1. (\E h, s : Finish(h, s)) \/ Fail("result_error")
      BY <1>1 DEF Refuse, BlockedFromDecision
    <2>2. QED BY <2>1, FinishReturns, FailReturns
  <1>2. QED BY <1>1 DEF Decline

LEMMA EngineReturns ==
  ASSUME EngineStep, pc \notin {"seal", "close", "closed"} PROVE Returned'
  <1> DEFINE Ends == \E l, s : Finish(l, s)
             Goes == \E l, at : at \notin {"close", "closed"} /\ Continue(l, at)
             Fails == Fail("rejected") \/ Fail("result_error")
             Stops == \E l, e, gate, decision, intact :
                        Refuse(l, e, gate, decision, intact)
                          \/ Decline(l, e, gate, decision, intact)
             Any == Ends \/ Goes \/ Fails \/ Stops
  <1>1. Any => Returned' BY FinishReturns, ContinueReturns, FailReturns, RefuseReturns
  <1>2. CASE RejectRun \/ AcceptRun
    <2>1. Fails \/ Goes BY <1>2 DEF RejectRun, AcceptRun
    <2>2. QED BY <1>1, <2>1
  <1>3. ASSUME NEW at, PortFails(at) \/ PortOverspends(at) PROVE Returned'
    <2>1. Ends BY <1>3 DEF PortFails, PortOverspends
    <2>2. QED BY <1>1, <2>1
  <1>4. CASE PlanBadDigest \/ PlanUnapproved \/ PlanApproved
    <2>1. Ends \/ Goes
      BY <1>4 DEF PlanBadDigest, PlanUnapproved, PlanApproved, BlockedFromDecision
    <2>2. QED BY <1>1, <2>1
  <1>5. CASE AgentCancels \/ AgentFinishes
    <2>1. Ends \/ Goes BY <1>5 DEF AgentCancels, AgentFinishes
    <2>2. QED BY <1>1, <2>1
  <1>6. CASE Propose
    <2>1. Ends \/ Goes \/ Stops
      BY <1>6 DEF Propose, ProposeInvalid, ProposeStale, ProposeInadmissible,
                  ProposeUnaffordable, GateStops, Dispatch
    <2>2. QED BY <1>1, <2>1
  <1>7. CASE ExecuteNotDispatched \/ ExecuteDeclines
    <2>1. Stops BY <1>7 DEF ExecuteNotDispatched, ExecuteDeclines
    <2>2. QED BY <1>1, <2>1
  <1>8. CASE ExecuteLost \/ ExecuteUntrusted \/ ExecuteUnsealable
    <2>1. Ends \/ Fails BY <1>8 DEF ExecuteLost, ExecuteUntrusted, ExecuteUnsealable
    <2>2. QED BY <1>1, <2>1
  <1>9. CASE ExecuteReturns
    <2>1. Ends \/ Goes
      <3>1. PICK o \in Observations :
              LET e == pending.effect
                  b == ObservedBody(ledger, e, Floored(o))
                  l == AttemptLedger(ledger, pending, b)
                  overspent == UsageReason(ledger, b.usage, config.budget) # "none"
              IN /\ o.status \in Attempted /\ ValidResult(e, b)
                 /\ CASE b.status = "executed" /\ ~overspent ->
                           Continue(PushResult(l, e, b.status), "step")
                      [] b.status = "executed" /\ overspent ->
                           Finish(PushResult(l, e, b.status), "blocked")
                      [] b.status = "interrupted" ->
                           Finish(PushResult(Interrupt(l), e, b.status), "interrupted")
                      [] b.status \in {"failed", "unknown_outcome"} ->
                           Finish(PushResult(l, e, b.status), "failed")
        BY <1>9 DEF ExecuteReturns
      <3> DEFINE s == ObservedBody(ledger, pending.effect, Floored(o)).status
      <3>2. s = o.status /\ s \in Attempted BY <3>1, ObservedBodyFields
      <3>3. QED BY <3>1, <3>2 DEF Attempted
    <2>2. QED BY <1>1, <2>1
  <1>10. CASE VerifyReturns
    <2>1. Ends \/ Goes
      BY <1>10 DEF VerifyReturns, ReportDiscarded, ReportRejected, ReportAccepted
    <2>2. QED BY <1>1, <2>1
  <1>11. CASE CheckReturns
    <2>1. Ends \/ Goes BY <1>11 DEF CheckReturns
    <2>2. QED BY <1>1, <2>1
  <1>12. ASSUME NEW p \in Ports, ClaimFails(p) \/ ClaimRefused(p) \/ ClaimGranted(p)
                                   \/ ObserveCancelled(p) \/ ObserveNothing(p)
         PROVE  Returned'
    <2>1. Ends \/ Goes
      BY <1>12
        DEF ClaimFails, ClaimRefused, ClaimGranted, ObserveCancelled, ObserveNothing
    <2>2. QED BY <1>1, <2>1
  <1>13. ~Seal /\ ~Close BY DEF Seal, Close
  <1> HIDE DEF Any
  <1>14. QED
    BY <1>2, <1>3, <1>4, <1>5, <1>6, <1>7, <1>8, <1>9, <1>10, <1>11, <1>12, <1>13
      DEF EngineStep, PlanFails, StepFails, VerifyFails, CheckFails, PlanOverspends,
          StepOverspends, VerifyOverspends, CheckOverspends

LEMMA ReturnedNext == ASSUME Returned, [Next]_vars PROVE Returned'
  <1>1. CASE EngineStep
    <2>1. CASE pc \in {"seal", "close", "closed"}
      <3>1. Seal \/ Close BY <1>1, <2>1, LateSteps
      <3>2. QED BY <2>1, <3>1 DEF Seal, Close, Continue, Returned
    <2>2. CASE pc \notin {"seal", "close", "closed"} BY <1>1, <2>2, EngineReturns
    <2>3. QED BY <2>1, <2>2
  <1>2. CASE UNCHANGED engine BY <1>2 DEF engine, Returned
  <1>3. QED BY <1>1, <1>2 DEF Next, Cancel, Terminated, vars

----------------------------------------------------------------------------
(* The theorems.                                                           *)

(* The inductive invariant of the engine, with what its outcome rests on:  *)
(* every dispatched effect has its sealed result, all but the last executed*)
(* (handle_protected_effect), and the usage recorded covers the reported.  *)
THEOREM RunCorrect == Spec => []RunInvariant
  <1>1. Init => RunInvariant BY RunInit
  <1>2. RunInvariant /\ [Next]_vars => RunInvariant' BY RunNext
  <1>3. QED BY <1>1, <1>2, PTL DEF Spec

(* A receipt accounts for every usage a port reported, with an answer      *)
(* (record_usage, record_effect_usage) or with an error (observed_usage).  *)
THEOREM UsageCorrect == Spec => []UsageAccounted
  <1>1. RunInvariant => UsageAccounted
    BY DEF RunInvariant, OutcomeInvariant, UsageKept, UsageAccounted
  <1>2. QED BY <1>1, RunCorrect, PTL

(* AgentRunEngine::run implements GovernedRun: effects go to the executor  *)
(* one at a time and never twice, each leaves its result, and the run only *)
(* completes with all of them executed and the last subject verified.      *)
THEOREM PromiseKept == Spec => KeepsPromise
  <1>1. Init => Promise!Init BY RunInit
  <1>2. RunInvariant /\ [Next]_vars => [Promise!Next]_(Promise!runVars)
    BY RunNext DEF RunStep
  <1>3. QED BY <1>1, <1>2, RunCorrect, PTL DEF Spec, KeepsPromise, Promise!Spec

(* finish() looks every cancellation up that it has not yet passed: one    *)
(* accepted before then leaves an interrupted receipt, or that of a run    *)
(* which stops for authority, whatever the ports answer in between.        *)
THEOREM CancellationDecided == Spec => CancellationDecides
  <1>1. CancelAhead => Decided BY DEF Decided
  <1>2. RunInvariant /\ Decided /\ [Next]_vars => Decided' BY NextDecided
  <1>3. RunInvariant /\ Decided => (result = "receipt" => ledger.status = ending /\ EndsForIt)
    BY OpenRun DEF Decided, CancelAhead, LookedUpLater, MeteredCalls
  <1>4. QED BY <1>1, <1>2, <1>3, RunCorrect, PTL DEF Spec, CancellationDecides

(* A run that ends honours every cancellation accepted in time: all that   *)
(* CancellationHonoured asks beyond the safety half is Termination.        *)
THEOREM CancellationEffective == Spec /\ Termination => CancellationHonoured
  <1> DEFINE Open(p) == /\ cell[CellOf[p]] = "cancelled"
                        /\ pc \in {"start", "execute", "claim_agent", "observe_agent"}
                                    \cup MeteredCalls
             Ended == \/ result = "receipt" /\ ledger.status = "interrupted"
                      \/ result = "receipt" /\ ending = "blocked" /\ AwaitedAuthority
                      \/ result \in {"rejected", "result_error"}
             Safe == result = "receipt" => ledger.status = ending /\ EndsForIt
  <1>1. Init => Returned BY DEF Init, Returned
  <1>2. Returned /\ [Next]_vars => Returned' BY ReturnedNext
  <1>3. pc = "closed" /\ [Next]_vars => (pc = "closed")'
    <2>1. SUFFICES ASSUME pc = "closed", [Next]_vars PROVE pc' = "closed" OBVIOUS
    <2>2. ~EngineStep
      <3>1. EngineStep => Seal \/ Close BY <2>1, LateSteps
      <3>2. QED BY <2>1, <3>1 DEF Seal, Close
    <2>3. QED BY <2>1, <2>2 DEF Next, Cancel, Terminated, vars, engine
  <1>4. RunInvariant /\ Returned /\ Safe /\ pc = "closed" => Ended
    BY DEF RunInvariant, EngineInvariant, TypeOK, Results, ReceiptAlwaysSeals, Returned,
           EndsForIt
  <1>5. Spec => [](CancelAhead => []Safe)
    BY CancellationDecided DEF CancellationDecides
  <1>6. ASSUME NEW p \in Ports PROVE Spec /\ Termination => (Open(p) ~> Ended)
    <2>1. Open(p) => CancelAhead /\ pc # "closed"
      BY DEF CancelAhead, LookedUpLater, MeteredCalls
    <2> HIDE DEF Open, Ended, Safe
    <2>2. QED
      BY <1>1, <1>2, <1>3, <1>4, <1>5, <2>1, RunCorrect, PTL DEF Spec, Termination
  <1>7. QED BY <1>6 DEF CancellationHonoured

=============================================================================
