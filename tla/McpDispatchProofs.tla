-------------------------- MODULE McpDispatchProofs --------------------------
(***************************************************************************)
(* The safety of the MCP adapter as an executor, for any effects, subjects *)
(* and number of attempts, and any interleaving of host, worker, writer,   *)
(* observer, server, clock and canceller.                                  *)
(***************************************************************************)
EXTENDS McpDispatch, SequenceTheorems, TLAPS

(* The invariant in three groups: who does what, what goes over the wire,  *)
(* and what is reported.                                                   *)
ThreadsSafe == HostHoldsEffect /\ OneCommand /\ ProbeOwned /\ ProbesSerial

WireSafe == FramesSettled /\ WritingKnown /\ DisturbanceKnown /\ NoFirstByteAfterDrift

ReportsSafe ==
  /\ UnknownIsLast /\ UnknownEndsSession
  /\ NotDispatchedNeverWritten /\ WrittenAtMostOnce
  /\ ExecutedUndisturbed /\ ObservationsSeal

LEMMA Groups == SessionInvariant <=> TypeOK /\ ThreadsSafe /\ WireSafe /\ ReportsSafe
  BY DEF SessionInvariant, ThreadsSafe, WireSafe, ReportsSafe

LEMMA GroupsNext == SessionInvariant' <=> TypeOK' /\ ThreadsSafe' /\ WireSafe' /\ ReportsSafe'
  BY DEF SessionInvariant, ThreadsSafe, WireSafe, ReportsSafe

Wires == [failure : BOOLEAN, generation : 0..MaxGeneration,
          callGeneration : (0..MaxGeneration) \cup {Null}, callStarted : BOOLEAN]

(* An attempt is one more than the reports there are.                      *)
LEMMA AttemptFacts ==
  ASSUME TypeOK
  PROVE  /\ Len(reports) \in Nat /\ Attempt \in Nat /\ Attempt > Len(reports)
         /\ DOMAIN reports = 1..Len(reports)
         /\ Len(reports) < MaxAttempts => Attempt \in Attempts
  BY BoundAssumption DEF TypeOK, Attempt, Attempts

(* Fails changes nothing but the failure.                                  *)
LEMMA FailsFacts ==
  ASSUME TypeOK, Fails
  PROVE  /\ wire' \in Wires /\ wire'.failure = TRUE
         /\ wire'.generation = wire.generation /\ wire'.callGeneration = wire.callGeneration
         /\ wire'.callStarted = wire.callStarted
  BY DEF TypeOK, Wires, Fails

(* As long as nothing is reported and nothing is written, what is said of  *)
(* the reports stays true, unless a session that has ended goes on.        *)
LEMMA ReportsKept ==
  ASSUME SessionInvariant, UNCHANGED <<reports, wrote, disturbed>>,
         effect' = effect \/ host = "idle", cancelled => cancelled',
         host' \in Executing => host \in Executing \/ ~cancelled
  PROVE  ReportsSafe'
  <1> USE DEF SessionInvariant
  <1>1. UNCHANGED <<reports, wrote, disturbed>> OBVIOUS
  <1>2. UnknownIsLast'
    BY <1>1 DEF UnknownIsLast, StatusOf
  <1>3. UnknownEndsSession'
    BY <1>1 DEF UnknownEndsSession, StatusOf
  <1>4. NotDispatchedNeverWritten' /\ ExecutedUndisturbed' /\ ObservationsSeal'
    BY <1>1 DEF NotDispatchedNeverWritten, ExecutedUndisturbed, ObservationsSeal, StatusOf
  <1>5. WrittenAtMostOnce'
    <2>1. CASE effect' = effect BY <1>1, <2>1 DEF WrittenAtMostOnce, EffectOf
    <2>2. CASE host = "idle"
      <3>1. \A n \in wrote : n <= Len(reports)
        BY <2>2 DEF WritingKnown, OneCommand, Working, Invoking, Armed, Reconciling
      <3>2. QED BY <1>1, <3>1 DEF WrittenAtMostOnce, EffectOf
    <2>3. QED BY <2>1, <2>2
  <1>6. QED BY <1>2, <1>3, <1>4, <1>5 DEF ReportsSafe

----------------------------------------------------------------------------
(* The worker.                                                             *)

(* The worker goes on with its call and touches nothing.                   *)
LEMMA MovePreserves ==
  ASSUME SessionInvariant, UNCHANGED <<hostVars, history, response, expired>>, Quiet,
         <<worker, worker'>> \in {<<"start", "read">>, <<"list", "gates">>, <<"gates", "observe">>,
                                  <<"checks", "arm">>, <<"calling", "fail">>}
  PROVE  SessionInvariant'
  <1> USE DEF SessionInvariant
  <1>1. /\ UNCHANGED <<host, effect, verdict, recorded, attempted, reports, queue, answer, discovered,
                       frame, response, wire, cancelled, expired, observer, alive, wrote, early, disturbed>>
        /\ \/ worker = "start" /\ worker' = "read"
           \/ worker = "list" /\ worker' = "gates"
           \/ worker = "gates" /\ worker' = "observe"
           \/ worker = "checks" /\ worker' = "arm"
           \/ worker = "calling" /\ worker' = "fail"
    BY DEF Quiet, hostVars, history
  <1>2. TypeOK' BY <1>1 DEF TypeOK, Invoking
  <1>3. ThreadsSafe'
    BY <1>1 DEF ThreadsSafe, HostHoldsEffect, OneCommand, ProbeOwned, ProbesSerial, Working, Invoking
  <1>4. WireSafe'
    BY <1>1 DEF WireSafe, FramesSettled, WritingKnown, DisturbanceKnown, NoFirstByteAfterDrift,
                FoundExecuted, Attempt, Armed, Invoking
  <1>5. ReportsSafe' BY <1>1, ReportsKept
  <1>6. QED BY <1>2, <1>3, <1>4, <1>5, GroupsNext

(* The worker answers the host.                                            *)
LEMMA ReplyPreserves ==
  ASSUME SessionInvariant, NEW status, NEW dispatched \in BOOLEAN, worker \in Working,
         Reply(status, dispatched), UNCHANGED <<queue, frame, discovered>>,
         wire' \in Wires, wire.failure => wire'.failure, wire'.generation = wire.generation,
         wire'.callGeneration = wire.callGeneration,
         alive' \in BOOLEAN, cancelled' \in BOOLEAN, cancelled => cancelled',
         dispatched => status \in {"executed", "failed", "unknown_outcome"},
         ~dispatched => status \in NotExecuted \cup {"observer_failed"} /\ Attempt \notin wrote,
         status = "executed" => Attempt \in wrote \ disturbed,
         wire'.failure \/ frame[Attempt] \notin {"queued", "ready", "part"},
         observer' = "idle" \/ (observer' = "late" /\ cancelled' /\ status = "observer_failed")
  PROVE  SessionInvariant'
  <1> USE DEF SessionInvariant
  <1>1. /\ UNCHANGED <<host, effect, verdict, recorded, attempted, reports, queue, discovered,
                       frame, response, expired, wrote, early, disturbed>>
        /\ worker' = "top" /\ answer' = [status |-> status, dispatched |-> dispatched]
    BY DEF Reply, WorkerGoes, hostVars, history
  <1>2. /\ answer'.status = status /\ answer'.dispatched = dispatched
        /\ answer' \in Replies /\ answer' # Null
    BY <1>1, AbsenceAssumption DEF Replies, Statuses, Attempted
  <1>3. host = "await" /\ queue = "none" /\ answer = Null BY DEF OneCommand
  <1>4. TypeOK' BY <1>1, <1>2 DEF TypeOK, Wires
  <1>5. ThreadsSafe'
    BY <1>1, <1>2, <1>3
    DEF ThreadsSafe, HostHoldsEffect, OneCommand, ProbeOwned, ProbesSerial, Working, Invoking,
        Executing
  <1>6. WireSafe'
    <2>1. FramesSettled' BY <1>1, <1>2, <1>3 DEF FramesSettled, Attempt
    <2>2. WritingKnown' BY <1>1, <1>2, <1>3 DEF WritingKnown, Attempt, Reconciling
    <2>3. DisturbanceKnown'
      BY <1>1, <1>2, <1>3 DEF DisturbanceKnown, FoundExecuted, Attempt, Reconciling, Invoking
    <2>4. QED BY <1>1, <2>1, <2>2, <2>3 DEF WireSafe, NoFirstByteAfterDrift
  <1>7. ReportsSafe' BY <1>1, ReportsKept
  <1>8. QED BY <1>4, <1>5, <1>6, <1>7, GroupsNext

(* What holds while the worker is in a call.                               *)
LEMMA InCall ==
  ASSUME SessionInvariant, worker \in Working
  PROVE  /\ host = "await" /\ queue = "none" /\ answer = Null
         /\ Attempt \in Attempts
         /\ worker # "observe_wait" => observer = "idle"
         /\ worker \notin Armed => Attempt \notin wrote
         /\ worker \notin {"calling", "fail"} =>
              wire.failure \/ frame[Attempt] \notin {"queued", "ready", "part"}
         /\ wire \in Wires /\ cancelled \in BOOLEAN /\ alive \in BOOLEAN
  <1> USE DEF SessionInvariant
  <1>1. host = "await" /\ queue = "none" /\ answer = Null BY DEF OneCommand
  <1>2. Attempt \in Attempts /\ Attempt > Len(reports)
    BY <1>1, AttemptFacts DEF HostHoldsEffect, Executing
  <1>3. worker # "observe_wait" => observer = "idle" BY <1>1 DEF ProbeOwned, Executing
  <1>4. worker \notin Armed => Attempt \notin wrote
    <2>1. Len(reports) \in Nat /\ Attempt \in Nat BY AttemptFacts
    <2>2. QED BY <1>1, <1>2, <2>1 DEF WritingKnown, Reconciling
  <1>5. worker \notin {"calling", "fail"} =>
          wire.failure \/ frame[Attempt] \notin {"queued", "ready", "part"}
    BY <1>2 DEF FramesSettled
  <1>6. wire \in Wires /\ cancelled \in BOOLEAN /\ alive \in BOOLEAN BY DEF TypeOK, Wires
  <1>7. QED BY <1>1, <1>2, <1>3, <1>4, <1>5, <1>6

(* A reply that nothing was dispatched, before the call is armed.          *)
LEMMA RefusalPreserves ==
  ASSUME SessionInvariant, NEW status \in NotExecuted,
         worker \in Working \ (Armed \cup {"observe_wait"}),
         Reply(status, FALSE), ButReply
  PROVE  SessionInvariant'
  <1>1. UNCHANGED <<queue, frame, discovered, wire, alive, cancelled, observer>> BY DEF ButReply
  <1>2. /\ wire \in Wires /\ cancelled \in BOOLEAN /\ alive \in BOOLEAN
        /\ Attempt \notin wrote /\ observer = "idle"
        /\ wire.failure \/ frame[Attempt] \notin {"queued", "ready", "part"}
    BY InCall DEF Armed
  <1>3. status # "executed" BY DEF NotExecuted
  <1> DEFINE no == FALSE
  <1>4. no \in BOOLEAN /\ ~no /\ Reply(status, no) OBVIOUS
  <1> HIDE DEF no
  <1>5. QED BY <1>1, <1>2, <1>3, <1>4, ReplyPreserves

LEMMA InvokeStartsPreserves == ASSUME SessionInvariant, InvokeStarts PROVE SessionInvariant'
  <1>1. CASE expired \/ wire.failure \/ cancelled
    BY <1>1, RefusalPreserves DEF InvokeStarts, Working, Armed, NotExecuted
  <1>2. CASE ~(expired \/ wire.failure \/ cancelled)
    BY <1>2, MovePreserves DEF InvokeStarts, WorkerGoes
  <1>3. QED BY <1>1, <1>2

LEMMA WorkerChecksPreserves == ASSUME SessionInvariant, WorkerChecks PROVE SessionInvariant'
  <1>1. CASE expired \/ wire.failure \/ cancelled
    BY <1>1, RefusalPreserves DEF WorkerChecks, Working, Invoking, Armed, NotExecuted
  <1>2. CASE ~(expired \/ wire.failure \/ cancelled)
    BY <1>2, MovePreserves DEF WorkerChecks, WorkerGoes
  <1>3. QED BY <1>1, <1>2

LEMMA RefusesPreserves ==
  ASSUME SessionInvariant, DiscoverFails \/ GatesRefuse PROVE SessionInvariant'
  <1>1. CASE DiscoverFails
    BY <1>1, RefusalPreserves DEF DiscoverFails, Working, Invoking, Armed, NotExecuted
  <1>2. CASE GatesRefuse
    BY <1>2, RefusalPreserves DEF GatesRefuse, Working, Invoking, Armed
  <1>3. QED BY <1>1, <1>2

LEMMA MovesPreserve ==
  ASSUME SessionInvariant,
         DiscoverEnds \/ GatesAllow \/ CallCancelled \/ CallTimesOut \/ CallErrs \/ CallDisturbed
  PROVE  SessionInvariant'
  <1>1. UNCHANGED <<hostVars, history, response, expired>> /\ Quiet
    BY DEF DiscoverEnds, GatesAllow, CallCancelled, CallTimesOut, CallErrs, CallDisturbed, WorkerGoes
  <1>2. \/ worker = "list" /\ worker' = "gates"
        \/ worker = "gates" /\ worker' = "observe"
        \/ worker = "calling" /\ worker' = "fail"
    BY DEF DiscoverEnds, GatesAllow, CallCancelled, CallTimesOut, CallErrs, CallDisturbed, WorkerGoes
  <1>3. QED BY <1>1, <1>2, MovePreserves

LEMMA WorkerProbeFailsPreserves == ASSUME SessionInvariant, WorkerProbeFails PROVE SessionInvariant'
  <1>1. /\ UNCHANGED <<queue, frame, wire, alive, discovered>>
        /\ cancelled' = TRUE /\ Reply("observer_failed", FALSE)
        /\ worker \in {"observe", "observe_wait"}
    BY DEF WorkerProbeFails, ProbeFails
  <1>2. /\ wire \in Wires /\ alive \in BOOLEAN /\ Attempt \notin wrote
        /\ wire.failure \/ frame[Attempt] \notin {"queued", "ready", "part"}
        /\ worker \in Working
    BY <1>1, InCall DEF Armed, Working, Invoking
  <1>3. observer' = "idle" \/ observer' = "late"
    <2>1. CASE worker = "observe"
      BY <2>1, InCall DEF WorkerProbeFails, ProbeFails, Quarantined, Working, Invoking
    <2>2. CASE worker = "observe_wait"
      BY <2>2 DEF SessionInvariant, ProbeOwned, WorkerProbeFails, ProbeFails, Quarantined
    <2>3. QED BY <1>1, <2>1, <2>2
  <1> DEFINE no == FALSE  code == "observer_failed"
  <1>4. no \in BOOLEAN /\ ~no /\ Reply(code, no) BY <1>1
  <1>5. code \in NotExecuted \cup {"observer_failed"} /\ code # "executed" /\ code = "observer_failed"
    OBVIOUS
  <1> HIDE DEF no, code
  <1>6. QED BY <1>1, <1>2, <1>3, <1>4, <1>5, ReplyPreserves

LEMMA WorkerObservesPreserves == ASSUME SessionInvariant, WorkerObserves PROVE SessionInvariant'
  <1> USE DEF SessionInvariant
  <1>1. /\ UNCHANGED <<queue, frame, wire, cancelled, alive, discovered>>
        /\ worker = "observe_wait" /\ observer' = "idle" /\ worker \in Working
    BY DEF WorkerObserves, ProbeAnswers, Working, Invoking
  <1>2. CASE Reply("denied", FALSE)
    <2>1. /\ wire \in Wires /\ alive \in BOOLEAN /\ cancelled \in BOOLEAN /\ Attempt \notin wrote
          /\ wire.failure \/ frame[Attempt] \notin {"queued", "ready", "part"}
      BY <1>1, InCall DEF Armed
    <2> DEFINE no == FALSE  code == "denied"
    <2>2. no \in BOOLEAN /\ ~no /\ Reply(code, no) BY <1>2
    <2>3. code \in NotExecuted \cup {"observer_failed"} /\ code # "executed" BY DEF NotExecuted
    <2> HIDE DEF no, code
    <2>4. QED BY <1>1, <2>1, <2>2, <2>3, ReplyPreserves
  <1>3. CASE WorkerGoes("checks") /\ UNCHANGED answer
    <2>1. /\ UNCHANGED <<host, effect, verdict, recorded, attempted, reports, queue, answer, discovered,
                         frame, response, wire, cancelled, expired, alive, wrote, early, disturbed>>
          /\ worker' = "checks"
      BY <1>1, <1>3 DEF WorkerGoes, hostVars, history
    <2>2. host = "await" BY <1>1, InCall
    <2>3. TypeOK' BY <1>1, <2>1 DEF TypeOK, Invoking
    <2>4. ThreadsSafe'
      BY <1>1, <2>1, <2>2
      DEF ThreadsSafe, HostHoldsEffect, OneCommand, ProbeOwned, ProbesSerial, Working, Invoking
    <2>5. WireSafe'
      BY <1>1, <2>1 DEF WireSafe, FramesSettled, WritingKnown, DisturbanceKnown, NoFirstByteAfterDrift,
                        FoundExecuted, Attempt, Armed, Invoking
    <2>6. ReportsSafe' BY <2>1, ReportsKept
    <2>7. QED BY <2>3, <2>4, <2>5, <2>6, GroupsNext
  <1>4. QED BY <1>2, <1>3 DEF WorkerObserves

LEMMA WorkerProbesPreserves == ASSUME SessionInvariant, WorkerProbes PROVE SessionInvariant'
  <1> USE DEF SessionInvariant
  <1>1. /\ UNCHANGED <<host, effect, verdict, recorded, attempted, reports, queue, answer, discovered,
                       frame, response, wire, cancelled, expired, alive, wrote, early, disturbed>>
        /\ worker = "observe" /\ worker' = "observe_wait" /\ worker \in Working
    BY DEF WorkerProbes, WorkerGoes, hostVars, history, Working, Invoking
  <1>2. host = "await" /\ observer = "idle" BY <1>1, InCall
  <1>3. observer' = "busy" BY <1>2 DEF WorkerProbes, Probe
  <1>4. TypeOK' BY <1>1, <1>3 DEF TypeOK, Invoking
  <1>5. ThreadsSafe'
    BY <1>1, <1>2, <1>3
    DEF ThreadsSafe, HostHoldsEffect, OneCommand, ProbeOwned, ProbesSerial, Working, Invoking
  <1>6. WireSafe'
    BY <1>1 DEF WireSafe, FramesSettled, WritingKnown, DisturbanceKnown, NoFirstByteAfterDrift,
                FoundExecuted, Attempt, Armed, Invoking
  <1>7. ReportsSafe' BY <1>1, ReportsKept
  <1>8. QED BY <1>4, <1>5, <1>6, <1>7, GroupsNext

LEMMA DiscoverReadsPreserves == ASSUME SessionInvariant, DiscoverReads PROVE SessionInvariant'
  <1> USE DEF SessionInvariant
  <1>1. /\ UNCHANGED <<host, effect, verdict, recorded, attempted, reports, queue, answer, observer,
                       frame, response, wire, cancelled, expired, alive, wrote, early, disturbed>>
        /\ worker = "read" /\ worker' = "list" /\ worker \in Working
        /\ discovered' = wire.generation
    BY DEF DiscoverReads, WorkerGoes, hostVars, history, Working, Invoking
  <1>2. host = "await" /\ answer = Null /\ Attempt \in Attempts BY <1>1, InCall
  <1>3. Attempt \notin disturbed
    BY <1>1, <1>2, AttemptFacts DEF DisturbanceKnown, Reconciling, Invoking
  <1>4. TypeOK' BY <1>1 DEF TypeOK, Invoking
  <1>5. ThreadsSafe'
    BY <1>1 DEF ThreadsSafe, HostHoldsEffect, OneCommand, ProbeOwned, ProbesSerial, Working, Invoking
  <1>6. WireSafe'
    <2>1. wire.generation <= wire.generation BY BoundAssumption DEF TypeOK
    <2>2. DisturbanceKnown'
      BY <1>1, <1>2, <1>3, <2>1 DEF DisturbanceKnown, FoundExecuted, Attempt, Invoking
    <2>3. QED BY <1>1, <2>2 DEF WireSafe, FramesSettled, WritingKnown, NoFirstByteAfterDrift,
                                Attempt, Armed
  <1>7. ReportsSafe' BY <1>1, ReportsKept
  <1>8. QED BY <1>4, <1>5, <1>6, <1>7, GroupsNext

LEMMA WorkerArmsPreserves == ASSUME SessionInvariant, WorkerArms PROVE SessionInvariant'
  <1> USE DEF SessionInvariant
  <1>1. /\ UNCHANGED <<host, effect, verdict, recorded, attempted, reports, queue, answer, discovered,
                       cancelled, expired, observer, alive, wrote, early, disturbed>>
        /\ worker = "arm" /\ worker' = "calling" /\ worker \in Working /\ response' = "none"
        /\ frame' = [frame EXCEPT ![Attempt] = "queued"]
    BY DEF WorkerArms, hostVars, history, Working, Invoking
  <1>2. /\ wire' \in Wires /\ wire'.failure = wire.failure /\ wire'.generation = wire.generation
        /\ wire'.callGeneration = discovered /\ wire'.callStarted = FALSE
    BY DEF WorkerArms, TypeOK, Wires
  <1>3. /\ host = "await" /\ answer = Null /\ Attempt \in Attempts /\ Attempt \notin wrote
    BY <1>1, InCall DEF Armed
  <1>4. /\ frame'[Attempt] = "queued"
        /\ \A n \in Attempts : n # Attempt => frame'[n] = frame[n]
        /\ frame' \in [Attempts -> {"none", "queued", "ready", "part", "sent", "refused"}]
    BY <1>1, <1>3 DEF TypeOK
  <1>5. TypeOK' BY <1>1, <1>2, <1>4 DEF TypeOK, Invoking, Wires
  <1>6. ThreadsSafe'
    BY <1>1, <1>3
    DEF ThreadsSafe, HostHoldsEffect, OneCommand, ProbeOwned, ProbesSerial, Working, Invoking
  <1>7. WireSafe'
    <2>1. Attempt' = Attempt BY <1>1 DEF Attempt
    <2>2. FramesSettled' BY <1>1, <1>2, <1>3, <1>4, <2>1 DEF FramesSettled
    <2>3. WritingKnown' BY <1>1, <1>3, <2>1 DEF WritingKnown, Armed
    <2>4. DisturbanceKnown' BY <1>1, <1>2, <1>3, <2>1 DEF DisturbanceKnown, FoundExecuted, Invoking
    <2>5. QED BY <1>1, <2>2, <2>3, <2>4 DEF WireSafe, NoFirstByteAfterDrift
  <1>8. ReportsSafe' BY <1>1, ReportsKept
  <1>9. QED BY <1>5, <1>6, <1>7, <1>8, GroupsNext

(* A response has been read of a frame that is sent.                       *)
LEMMA CallReturnsPreserves == ASSUME SessionInvariant, CallReturns PROVE SessionInvariant'
  <1>1. /\ UNCHANGED <<queue, frame, cancelled, observer, alive, discovered>>
        /\ worker = "calling" /\ worker \in Working /\ response # "none"
        /\ ~wire.failure /\ wire.generation = discovered
    BY DEF CallReturns, Undisturbed, Working, Invoking
  <1>2. /\ Attempt \in Attempts /\ observer = "idle" /\ wire \in Wires
        /\ alive \in BOOLEAN /\ cancelled \in BOOLEAN
    BY <1>1, InCall
  <1>3. frame[Attempt] = "sent" /\ Attempt \in wrote
    BY <1>1, <1>2 DEF SessionInvariant, FramesSettled
  <1>4. Attempt \notin disturbed
    <2>1. wire.generation \in 0..MaxGeneration BY <1>2 DEF Wires
    <2>2. QED BY <1>1, <2>1, BoundAssumption DEF SessionInvariant, DisturbanceKnown, Invoking
  <1>5. /\ wire' \in Wires /\ (wire.failure => wire'.failure)
        /\ wire'.generation = wire.generation /\ wire'.callGeneration = wire.callGeneration
    BY <1>1, <1>2, FailsFacts DEF CallReturns, SessionInvariant
  <1>6. PICK status \in {"executed", "failed", "unknown_outcome"} : Reply(status, TRUE)
    BY DEF CallReturns
  <1> DEFINE yes == TRUE
  <1>7. yes \in BOOLEAN /\ yes /\ Reply(status, yes) BY <1>6
  <1> HIDE DEF yes
  <1>8. /\ yes => status \in {"executed", "failed", "unknown_outcome"}
        /\ ~yes => status \in NotExecuted \cup {"observer_failed"} /\ Attempt \notin wrote
        /\ status = "executed" => Attempt \in wrote \ disturbed
        /\ wire'.failure \/ frame[Attempt] \notin {"queued", "ready", "part"}
        /\ alive' \in BOOLEAN /\ cancelled' \in BOOLEAN /\ (cancelled => cancelled')
        /\ observer' = "idle"
    BY <1>1, <1>2, <1>3, <1>4, <1>6, <1>7
  <1>9. QED BY <1>1, <1>5, <1>7, <1>8, ReplyPreserves

LEMMA WorkerTellsPreserves == ASSUME SessionInvariant, WorkerTells PROVE SessionInvariant'
  <1>1. /\ UNCHANGED <<queue, frame, wire, cancelled, observer, alive, discovered>>
        /\ worker = "tell" /\ worker \in Working
    BY DEF WorkerTells, ButReply, Working
  <1>2. /\ Attempt \in Attempts /\ observer = "idle" /\ wire \in Wires
        /\ wire.failure \/ frame[Attempt] \notin {"queued", "ready", "part"}
        /\ alive \in BOOLEAN /\ cancelled \in BOOLEAN /\ host = "await" /\ answer = Null
    BY <1>1, InCall
  <1>3. CASE wire.callStarted
    <2> DEFINE yes == TRUE  code == "unknown_outcome"
    <2>1. yes \in BOOLEAN /\ yes /\ Reply(code, yes) BY <1>3 DEF WorkerTells
    <2>2. code \in {"executed", "failed", "unknown_outcome"} /\ code # "executed" OBVIOUS
    <2> HIDE DEF yes, code
    <2>3. QED BY <1>1, <1>2, <2>1, <2>2, ReplyPreserves
  <1>4. CASE ~wire.callStarted
    <2> DEFINE no == FALSE  code == "denied"
    <2>1. no \in BOOLEAN /\ ~no /\ Reply(code, no) BY <1>4 DEF WorkerTells
    <2>2. code \in NotExecuted \cup {"observer_failed"} /\ code # "executed" BY DEF NotExecuted
    <2>3. Attempt \notin wrote
      BY <1>2, <1>4, AttemptFacts DEF SessionInvariant, WritingKnown, Reconciling
    <2> HIDE DEF no, code
    <2>4. QED BY <1>1, <1>2, <2>1, <2>2, <2>3, ReplyPreserves
  <1>5. QED BY <1>3, <1>4

LEMMA WorkerFailsPreserves == ASSUME SessionInvariant, WorkerFails PROVE SessionInvariant'
  <1> USE DEF SessionInvariant
  <1>1. /\ UNCHANGED <<host, effect, verdict, recorded, attempted, reports, queue, answer, discovered,
                       frame, response, cancelled, expired, observer, alive, wrote, early, disturbed>>
        /\ worker = "fail" /\ worker' = "kill" /\ Fails
    BY DEF WorkerFails, WorkerGoes, hostVars, history
  <1>2. /\ wire' \in Wires /\ wire'.failure = TRUE
        /\ wire'.generation = wire.generation /\ wire'.callStarted = wire.callStarted
    BY <1>1, FailsFacts
  <1>3. TypeOK' BY <1>1, <1>2 DEF TypeOK, Wires
  <1>4. ThreadsSafe'
    BY <1>1 DEF ThreadsSafe, HostHoldsEffect, OneCommand, ProbeOwned, ProbesSerial, Working, Invoking
  <1>5. WireSafe'
    BY <1>1, <1>2 DEF WireSafe, FramesSettled, WritingKnown, DisturbanceKnown, NoFirstByteAfterDrift,
                      FoundExecuted, Attempt, Armed, Invoking
  <1>6. ReportsSafe' BY <1>1, ReportsKept
  <1>7. QED BY <1>3, <1>4, <1>5, <1>6, GroupsNext

LEMMA WorkerKillsPreserves == ASSUME SessionInvariant, WorkerKills PROVE SessionInvariant'
  <1> USE DEF SessionInvariant
  <1>1. /\ UNCHANGED <<host, effect, verdict, recorded, attempted, reports, queue, answer, discovered,
                       frame, response, wire, cancelled, expired, observer, wrote, early, disturbed>>
        /\ worker = "kill" /\ worker' = "tell" /\ alive' = FALSE
    BY DEF WorkerKills, WorkerGoes, hostVars, history
  <1>2. TypeOK'
    <2>1. alive' \in BOOLEAN BY <1>1
    <2>2. QED BY <1>1, <2>1 DEF TypeOK
  <1>3. ThreadsSafe'
    BY <1>1 DEF ThreadsSafe, HostHoldsEffect, OneCommand, ProbeOwned, ProbesSerial, Working, Invoking
  <1>4. WireSafe'
    BY <1>1 DEF WireSafe, FramesSettled, WritingKnown, DisturbanceKnown, NoFirstByteAfterDrift,
                FoundExecuted, Attempt, Armed, Invoking
  <1>5. ReportsSafe' BY <1>1, ReportsKept
  <1>6. QED BY <1>2, <1>3, <1>4, <1>5, GroupsNext

(* The worker between its calls: it looks for a command, takes one or ends.*)
LEMMA WorkerTurnsPreserve ==
  ASSUME SessionInvariant, WorkerLoops \/ WorkerReceives \/ WorkerCloses
  PROVE  SessionInvariant'
  <1> USE DEF SessionInvariant
  <1>1. /\ UNCHANGED <<host, effect, verdict, recorded, attempted, reports, answer, discovered,
                       frame, response, wire, expired, observer, wrote, early, disturbed>>
        /\ \/ /\ worker = "top" /\ worker' \in {"receive", "close"}
              /\ UNCHANGED <<queue, cancelled, alive>>
           \/ /\ worker = "receive" /\ queue' = "none" /\ UNCHANGED <<cancelled, alive>>
              /\ \/ worker' \in {"top", "close"} /\ queue # "invoke"
                 \/ worker' = "start" /\ queue = "invoke"
           \/ /\ worker = "close" /\ worker' = "exited" /\ queue' = "none"
              /\ cancelled' = TRUE /\ alive' = FALSE
    <2>1. CASE WorkerLoops BY <2>1 DEF WorkerLoops, WorkerGoes, Quiet, hostVars, history
    <2>2. CASE WorkerReceives
      BY <2>2 DEF WorkerReceives, WorkerGoes, hostVars, history, TypeOK
    <2>3. CASE WorkerCloses BY <2>3 DEF WorkerCloses, WorkerGoes, hostVars, history
    <2>4. QED BY <2>1, <2>2, <2>3
  <1>2. TypeOK'
    <2>1. alive' \in BOOLEAN /\ cancelled' \in BOOLEAN BY <1>1 DEF TypeOK
    <2>2. QED BY <1>1, <2>1 DEF TypeOK
  <1>3. ThreadsSafe'
    BY <1>1 DEF ThreadsSafe, HostHoldsEffect, OneCommand, ProbeOwned, ProbesSerial, Working, Invoking
  <1>4. WireSafe'
    BY <1>1 DEF WireSafe, FramesSettled, WritingKnown, DisturbanceKnown, NoFirstByteAfterDrift,
                FoundExecuted, OneCommand, Attempt, Armed, Invoking
  <1>5. cancelled => cancelled' BY <1>1 DEF TypeOK
  <1>6. ReportsSafe' BY <1>1, <1>5, ReportsKept
  <1>7. QED BY <1>2, <1>3, <1>4, <1>6, GroupsNext

LEMMA WorkerPreserves == ASSUME SessionInvariant, WorkerStep PROVE SessionInvariant'
  BY InvokeStartsPreserves, WorkerChecksPreserves, RefusesPreserves, MovesPreserve,
     WorkerProbeFailsPreserves, WorkerObservesPreserves, WorkerProbesPreserves,
     DiscoverReadsPreserves, WorkerArmsPreserves, CallReturnsPreserves, WorkerTellsPreserves,
     WorkerFailsPreserves, WorkerKillsPreserves, WorkerTurnsPreserve DEF WorkerStep

----------------------------------------------------------------------------
(* The writer.                                                             *)

(* A frame gets ready or is refused; the session may fail with it.         *)
LEMMA FramePreserves ==
  ASSUME SessionInvariant, NEW n \in Attempts, NEW to \in {"ready", "refused"},
         frame[n] \in {"queued", "ready", "part"}, to = "ready" => frame[n] = "queued",
         frame' = [frame EXCEPT ![n] = to], TransportOnly, UNCHANGED history,
         Fails \/ UNCHANGED wire
  PROVE  SessionInvariant'
  <1> USE DEF SessionInvariant
  <1>1. UNCHANGED <<host, effect, verdict, recorded, attempted, reports, queue, answer, discovered, worker,
                    response, cancelled, expired, observer, alive, wrote, early, disturbed>>
    BY DEF TransportOnly, hostVars, workerVars, history
  <1>2. /\ wire' \in Wires /\ (wire.failure => wire'.failure)
        /\ wire'.generation = wire.generation /\ wire'.callGeneration = wire.callGeneration
        /\ wire'.callStarted = wire.callStarted
    BY FailsFacts DEF TypeOK, Wires
  <1>3. /\ frame'[n] = to /\ \A k \in Attempts : k # n => frame'[k] = frame[k]
        /\ frame' \in [Attempts -> {"none", "queued", "ready", "part", "sent", "refused"}]
    BY DEF TypeOK
  <1>4. TypeOK' BY <1>1, <1>2, <1>3 DEF TypeOK, Wires
  <1>5. ThreadsSafe'
    BY <1>1 DEF ThreadsSafe, HostHoldsEffect, OneCommand, ProbeOwned, ProbesSerial
  <1>6. WireSafe'
    <2>1. Attempt' = Attempt BY <1>1 DEF Attempt
    <2>2. worker = "calling" => Attempt \in Attempts BY InCall DEF Working, Invoking
    <2>3. FramesSettled' BY <1>1, <1>2, <1>3, <2>1, <2>2 DEF FramesSettled
    <2>4. WritingKnown' BY <1>1, <1>2, <2>1 DEF WritingKnown
    <2>5. DisturbanceKnown' BY <1>1, <1>2, <2>1 DEF DisturbanceKnown, FoundExecuted
    <2>6. QED BY <1>1, <2>3, <2>4, <2>5 DEF WireSafe, NoFirstByteAfterDrift
  <1>7. ReportsSafe' BY <1>1, ReportsKept
  <1>8. QED BY <1>4, <1>5, <1>6, <1>7, GroupsNext

(* A byte goes out only of the call under way, bound to the current tools, *)
(* whose effect has not been attempted before.                             *)
LEMMA FrameWritesPreserves ==
  ASSUME SessionInvariant, NEW n \in Attempts, FrameWrites(n) PROVE SessionInvariant'
  <1> USE DEF SessionInvariant
  <1>1. /\ UNCHANGED <<host, effect, verdict, recorded, attempted, reports, queue, answer, discovered, worker,
                       response, cancelled, expired, observer, alive, early, disturbed>>
        /\ frame[n] \in {"ready", "part"} /\ wire.failure = FALSE /\ wrote' = wrote \cup {n}
        /\ wire.callGeneration = wire.generation
    BY DEF FrameWrites, TransportOnly, hostVars, workerVars, Writable, Drifted, TypeOK
  <1>2. n = Attempt /\ worker \in {"calling", "fail"} BY <1>1 DEF FramesSettled
  <1>3. /\ host = "await" /\ answer = Null /\ Attempt \in Attempts
        /\ {effect.id, effect.key} \cap attempted = {}
    BY <1>2, InCall DEF Working, Invoking, HostHoldsEffect, Executing, Reconciling
  <1>4. Attempt \notin disturbed
    <2>1. wire.generation \in Nat BY BoundAssumption DEF TypeOK
    <2>2. QED BY <1>1, <1>2, <2>1 DEF DisturbanceKnown, Invoking
  <1>5. PICK to \in {"part", "sent"} :
          /\ frame' = [frame EXCEPT ![n] = to]
          /\ wire' = [wire EXCEPT !.callStarted = @ \/ Started(to)]
    BY DEF FrameWrites
  <1>6. /\ wire' \in Wires /\ wire'.failure = wire.failure /\ wire'.callStarted = TRUE
        /\ wire'.generation = wire.generation /\ wire'.callGeneration = wire.callGeneration
    BY <1>5 DEF TypeOK, Wires, Started
  <1>7. /\ frame'[n] = to /\ \A k \in Attempts : k # n => frame'[k] = frame[k]
        /\ frame' \in [Attempts -> {"none", "queued", "ready", "part", "sent", "refused"}]
    BY <1>5 DEF TypeOK
  <1>8. TypeOK' BY <1>1, <1>6, <1>7 DEF TypeOK, Wires
  <1>9. ThreadsSafe'
    BY <1>1 DEF ThreadsSafe, HostHoldsEffect, OneCommand, ProbeOwned, ProbesSerial
  <1>10. Attempt' = Attempt /\ Attempt > Len(reports) /\ Attempt \in Nat /\ Len(reports) \in Nat
    BY <1>1, AttemptFacts DEF Attempt
  <1>11. WireSafe'
    <2>1. FramesSettled' BY <1>1, <1>2, <1>3, <1>6, <1>7, <1>10 DEF FramesSettled
    <2>2. WritingKnown' BY <1>1, <1>2, <1>3, <1>6, <1>10 DEF WritingKnown, Armed
    <2>3. DisturbanceKnown' BY <1>1, <1>3, <1>6, <1>10 DEF DisturbanceKnown, FoundExecuted, Reconciling
    <2>4. NoFirstByteAfterDrift' BY <1>1, <1>2, <1>4 DEF NoFirstByteAfterDrift, DisturbanceKnown
    <2>5. QED BY <2>1, <2>2, <2>3, <2>4 DEF WireSafe
  <1>12. ReportsSafe'
    <2>1. \A k \in DOMAIN reports : k # n BY <1>2, <1>10, AttemptFacts
    <2>2. UnknownIsLast' BY <1>1 DEF UnknownIsLast, StatusOf
    <2>3. UnknownEndsSession'
      BY <1>1, <1>3 DEF UnknownEndsSession, UnknownIsLast, StatusOf, Executing
    <2>4. NotDispatchedNeverWritten' /\ ExecutedUndisturbed' /\ ObservationsSeal'
      BY <1>1, <2>1 DEF NotDispatchedNeverWritten, ExecutedUndisturbed, ObservationsSeal, StatusOf
    <2>5. WrittenAtMostOnce'
      <3>1. UNCHANGED <<reports, effect>> BY <1>1
      <3>2. EffectOf(n) = effect BY <1>2, <1>10 DEF EffectOf
      <3>3. \A k \in wrote : k # n =>
              {EffectOf(k).id, EffectOf(k).key} \subseteq attempted
        BY <1>2, <1>10 DEF WritingKnown, EffectOf
      <3>4. \A k \in wrote : k # n =>
              {EffectOf(k).id, EffectOf(k).key} \cap {EffectOf(n).id, EffectOf(n).key} = {}
        BY <1>3, <3>2, <3>3
      <3>5. \A k : EffectOf(k)' = EffectOf(k) BY <3>1 DEF EffectOf
      <3>6. QED BY <1>1, <3>4, <3>5 DEF WrittenAtMostOnce
    <2>6. QED BY <2>2, <2>3, <2>4, <2>5 DEF ReportsSafe
  <1>13. QED BY <1>8, <1>9, <1>11, <1>12, GroupsNext

LEMMA TransportPreserves == ASSUME SessionInvariant, TransportStep PROVE SessionInvariant'
  <1>1. PICK n \in Attempts :
          FrameAdmitted(n) \/ FrameRefused(n) \/ FrameWrites(n) \/ FrameFails(n) \/ FrameCancelled(n)
    BY DEF TransportStep
  <1>2. CASE FrameAdmitted(n) BY <1>2, FramePreserves DEF FrameAdmitted
  <1>3. CASE FrameRefused(n) BY <1>3, FramePreserves DEF FrameRefused
  <1>4. CASE FrameWrites(n) BY <1>4, FrameWritesPreserves
  <1>5. CASE FrameFails(n) BY <1>5, FramePreserves DEF FrameFails
  <1>6. CASE FrameCancelled(n) BY <1>6, FramePreserves DEF FrameCancelled
  <1>7. QED BY <1>1, <1>2, <1>3, <1>4, <1>5, <1>6

----------------------------------------------------------------------------
(* The server, the clock, the canceller and the observer.                  *)

LEMMA ListChangedPreserves == ASSUME SessionInvariant, ListChanged PROVE SessionInvariant'
  <1> USE DEF SessionInvariant
  <1>1. /\ UNCHANGED <<host, effect, verdict, recorded, attempted, reports, queue, answer, discovered, worker,
                       frame, response, cancelled, expired, observer, alive, wrote>>
        /\ disturbed' = IF worker \in Invoking THEN disturbed \cup {Attempt} ELSE disturbed
        /\ early' = IF worker \in Invoking /\ Attempt \notin wrote
                      THEN early \cup {Attempt} ELSE early
    BY DEF ListChanged, Outside, hostVars, workerVars
  <1>2. /\ wire' \in Wires /\ (wire.failure => wire'.failure)
        /\ wire'.callGeneration = wire.callGeneration /\ wire'.callStarted = wire.callStarted
        /\ \/ wire'.failure /\ wire'.generation = wire.generation
           \/ wire'.generation = wire.generation + 1
    <2>1. CASE wire.generation = MaxGeneration
      BY <2>1 DEF ListChanged, NextGeneration, TypeOK, Wires
    <2>2. CASE wire.generation # MaxGeneration
      <3>1. wire.generation + 1 \in 0..MaxGeneration BY <2>2, BoundAssumption DEF TypeOK
      <3>2. wire' = [wire EXCEPT !.generation = wire.generation + 1]
        BY <2>2 DEF ListChanged, NextGeneration
      <3>3. QED BY <3>1, <3>2 DEF TypeOK, Wires
    <2>3. QED BY <2>1, <2>2
  <1>3. /\ wire.generation \in Nat /\ discovered \in Nat /\ wire'.generation \in Nat
        /\ wire'.generation >= wire.generation
    BY <1>2, BoundAssumption DEF TypeOK
  <1>4. worker \in Invoking => Attempt \in Attempts /\ answer = Null /\ host = "await"
    BY InCall DEF Working
  <1>5. TypeOK' BY <1>1, <1>2, <1>4 DEF TypeOK, Wires
  <1>6. ThreadsSafe'
    BY <1>1 DEF ThreadsSafe, HostHoldsEffect, OneCommand, ProbeOwned, ProbesSerial
  <1>7. WireSafe'
    <2>1. Attempt' = Attempt BY <1>1 DEF Attempt
    <2>2. FramesSettled' BY <1>1, <1>2, <2>1 DEF FramesSettled
    <2>3. WritingKnown' BY <1>1, <1>2, <2>1 DEF WritingKnown
    <2>4. early' \subseteq disturbed' BY <1>1 DEF DisturbanceKnown
    <2>5. \A n \in disturbed' : n <= Len(reports) \/
            /\ n = Attempt
            /\ worker \in Invoking \cup {"fail", "kill", "tell"} \/ answer # Null \/ host \in Reconciling
      BY <1>1 DEF DisturbanceKnown
    <2>6. discovered <= wire'.generation
      BY <1>3 DEF DisturbanceKnown
    <2>7. worker \in Invoking \cup {"fail"} /\ Attempt \in disturbed' =>
            wire'.failure \/ discovered < wire'.generation
      BY <1>1, <1>2, <1>3 DEF DisturbanceKnown
    <2>8. FoundExecuted => Attempt \in wrote \ disturbed'
      BY <1>1, <1>4 DEF DisturbanceKnown, FoundExecuted, Reconciling
    <2>9. DisturbanceKnown'
      BY <1>1, <1>2, <2>1, <2>4, <2>5, <2>6, <2>7, <2>8 DEF DisturbanceKnown, FoundExecuted
    <2>10. NoFirstByteAfterDrift' BY <1>1 DEF NoFirstByteAfterDrift
    <2>11. QED BY <2>2, <2>3, <2>9, <2>10 DEF WireSafe
  <1>8. ReportsSafe'
    <2>1. UNCHANGED <<reports, effect, wrote, host, cancelled>> BY <1>1
    <2>2. UnknownIsLast' BY <2>1 DEF UnknownIsLast, StatusOf
    <2>3. UnknownEndsSession' BY <2>1 DEF UnknownEndsSession, StatusOf
    <2>4. NotDispatchedNeverWritten' /\ ObservationsSeal' /\ WrittenAtMostOnce'
      BY <2>1 DEF NotDispatchedNeverWritten, ObservationsSeal, StatusOf, WrittenAtMostOnce, EffectOf
    <2>5. ExecutedUndisturbed'
      BY <1>1, <2>1, AttemptFacts DEF ExecutedUndisturbed, StatusOf
    <2>6. QED BY <2>2, <2>3, <2>4, <2>5 DEF ReportsSafe
  <1>9. QED BY <1>5, <1>6, <1>7, <1>8, GroupsNext

(* The session fails, is cancelled or expires.                             *)
LEMMA EndsPreserve ==
  ASSUME SessionInvariant, ServerBreaks \/ Cancel \/ Expire PROVE SessionInvariant'
  <1> USE DEF SessionInvariant
  <1>1. /\ UNCHANGED <<host, effect, verdict, recorded, attempted, reports, queue, answer, discovered, worker,
                       frame, response, observer, alive, wrote, early, disturbed>>
        /\ cancelled' \in {cancelled, TRUE} /\ expired' \in BOOLEAN
    BY DEF ServerBreaks, Cancel, Expire, Outside, hostVars, workerVars, TypeOK
  <1>2. Fails \/ UNCHANGED wire BY DEF ServerBreaks, Cancel, Expire
  <1>3. /\ wire' \in Wires /\ (wire.failure => wire'.failure)
        /\ wire'.generation = wire.generation /\ wire'.callGeneration = wire.callGeneration
        /\ wire'.callStarted = wire.callStarted
    BY <1>2, FailsFacts DEF TypeOK, Wires
  <1>4. cancelled' \in BOOLEAN /\ (cancelled => cancelled')
    <2>1. CASE cancelled' = cancelled BY <2>1 DEF TypeOK
    <2>2. CASE cancelled' = TRUE BY <2>2
    <2>3. QED BY <1>1, <2>1, <2>2
  <1>5. TypeOK' BY <1>1, <1>3, <1>4 DEF TypeOK, Wires
  <1>6. ThreadsSafe'
    BY <1>1, <1>4 DEF ThreadsSafe, HostHoldsEffect, OneCommand, ProbeOwned, ProbesSerial
  <1>7. WireSafe'
    BY <1>1, <1>3 DEF WireSafe, FramesSettled, WritingKnown, DisturbanceKnown, NoFirstByteAfterDrift,
                      FoundExecuted, Attempt
  <1>8. ReportsSafe' BY <1>1, <1>4, ReportsKept
  <1>9. QED BY <1>5, <1>6, <1>7, <1>8, GroupsNext

LEMMA ServerRespondsPreserves == ASSUME SessionInvariant, ServerResponds PROVE SessionInvariant'
  <1> USE DEF SessionInvariant
  <1>1. /\ UNCHANGED <<host, effect, verdict, recorded, attempted, reports, queue, answer, discovered, worker,
                       frame, wire, cancelled, expired, observer, alive, wrote, early, disturbed>>
        /\ frame[Attempt] = "sent" /\ response' \in {"result", "tool_error", "bad_output", "rpc_error"}
    BY DEF ServerResponds, Outside, hostVars, workerVars
  <1>2. TypeOK' BY <1>1 DEF TypeOK
  <1>3. ThreadsSafe'
    BY <1>1 DEF ThreadsSafe, HostHoldsEffect, OneCommand, ProbeOwned, ProbesSerial
  <1>4. WireSafe'
    BY <1>1 DEF WireSafe, FramesSettled, WritingKnown, DisturbanceKnown, NoFirstByteAfterDrift,
                FoundExecuted, Attempt
  <1>5. ReportsSafe' BY <1>1, ReportsKept
  <1>6. QED BY <1>2, <1>3, <1>4, <1>5, GroupsNext

LEMMA ObserverReturnsPreserves == ASSUME SessionInvariant, ObserverReturns PROVE SessionInvariant'
  <1> USE DEF SessionInvariant
  <1>1. /\ UNCHANGED <<host, effect, verdict, recorded, attempted, reports, queue, answer, discovered, worker,
                       frame, response, wire, cancelled, expired, alive, wrote, early, disturbed>>
        /\ \/ observer = "busy" /\ observer' = "done"
           \/ observer = "late" /\ observer' = "idle"
    BY DEF ObserverReturns, hostVars, workerVars, history, ProbesSerial
  <1>2. TypeOK' BY <1>1 DEF TypeOK
  <1>3. ThreadsSafe'
    BY <1>1 DEF ThreadsSafe, HostHoldsEffect, OneCommand, ProbeOwned, ProbesSerial
  <1>4. WireSafe'
    BY <1>1 DEF WireSafe, FramesSettled, WritingKnown, DisturbanceKnown, NoFirstByteAfterDrift,
                FoundExecuted, Attempt
  <1>5. ReportsSafe' BY <1>1, ReportsKept
  <1>6. QED BY <1>2, <1>3, <1>4, <1>5, GroupsNext

LEMMA StutterPreserves == ASSUME SessionInvariant, UNCHANGED vars PROVE SessionInvariant'
  <1> USE DEF SessionInvariant
  <1>1. UNCHANGED <<host, effect, verdict, recorded, attempted, reports, queue, answer, discovered, worker,
                    frame, response, wire, cancelled, expired, observer, alive, wrote, early, disturbed>>
    BY DEF vars, hostVars, workerVars, history
  <1>2. TypeOK' BY <1>1 DEF TypeOK
  <1>3. ThreadsSafe'
    BY <1>1 DEF ThreadsSafe, HostHoldsEffect, OneCommand, ProbeOwned, ProbesSerial
  <1>4. WireSafe'
    BY <1>1 DEF WireSafe, FramesSettled, WritingKnown, DisturbanceKnown, NoFirstByteAfterDrift,
                FoundExecuted, Attempt
  <1>5. ReportsSafe' BY <1>1, ReportsKept
  <1>6. QED BY <1>2, <1>3, <1>4, <1>5, GroupsNext

----------------------------------------------------------------------------
(* What the engine will accept.                                            *)

Sealable(e, o) ==
  o.status \in Attempted => ValidResult(e, ObservedBody([current |-> e.subject], e, Floored(o)))

LEMMA NamesApart ==
  /\ Null # "text" /\ Null # Configured /\ Malformed # Configured /\ Null # Malformed
  /\ Null \notin DriftReasons /\ "text" \notin DriftReasons \cup {"blank"}
  /\ Null \notin Subjects /\ Malformed \notin Subjects /\ "oversize" \notin Subjects
  BY AbsenceAssumption, SentinelAssumption, McpSubjectAssumption DEF DriftReasons

(* An observation reports one call, which is affordable and not floored.   *)
LEMMA ObservedUsage ==
  ASSUME NEW e, NEW status, NEW seen
  PROVE  LET o == Observed(e, status, seen)
         IN /\ o.usage \in Usage /\ SafeUsage(o.usage)
            /\ o.usage["calls"] = 1 /\ AtLeastOneCall(o.usage) = o.usage
  <1> DEFINE u == [m \in Meters |-> IF m = "calls" THEN 1 ELSE 0]
  <1>1. "calls" \in Meters /\ MaxSafe \in Nat /\ 1 <= MaxSafe
    BY MeterAssumption, MaxSafeAssumption
  <1>2. u \in Usage BY DEF Usage
  <1>3. SafeUsage(u) BY <1>1 DEF SafeUsage
  <1>4. u["calls"] = 1 BY <1>1
  <1>5. AtLeastOneCall(u) = u BY <1>4 DEF AtLeastOneCall
  <1>6. Observed(e, status, seen).usage = u BY DEF Observed
  <1> HIDE DEF u
  <1>7. QED BY <1>2, <1>3, <1>4, <1>5, <1>6

(* The evidence of an observation, type by type.                           *)
LEMMA ObservedEvidence ==
  ASSUME NEW e, NEW status \in Attempted, NEW seen
  PROVE  LET ev == Observed(e, status, seen).evidence
         IN /\ {"executor", "sandbox", "usage"} \subseteq ev /\ "exit" \notin ev
            /\ "failure" \in ev <=> status = "failed"
            /\ "interruption" \in ev <=> status = "interrupted"
            /\ "unknown_outcome" \in ev <=> status = "unknown_outcome"
            /\ seen # Null => "subject_observation" \in ev
            /\ seen # Null /\ e.class = "mutation" => {"mutation", "artifact"} \subseteq ev
            /\ ev \subseteq EvidenceTypes
  BY DEF Observed, Attempted, EvidenceTypes

LEMMA ObservedSeals ==
  ASSUME NEW e \in Effects, e.intact, NEW status \in Attempted, NEW seen \in Subjects \cup {Null},
         status # "unknown_outcome" =>
           seen # Null /\ (e.class = "observation" => seen = e.subject)
  PROVE  Observed(e, status, seen) \in Observations /\ Sealable(e, Observed(e, status, seen))
  <1> DEFINE o == Observed(e, status, seen)
             b == ObservedBody([current |-> e.subject], e, Floored(o))
  <1>1. /\ o.usage \in Usage /\ SafeUsage(o.usage) /\ o.usage["calls"] # 0
        /\ AtLeastOneCall(o.usage) = o.usage
    BY ObservedUsage
  <1>2. /\ o.status = status /\ o.exit = Null /\ o.executor = Configured /\ o.sandbox = "requested"
        /\ o.reason = IF status = "executed" THEN Null ELSE "text"
        /\ o.evidenceIntact = TRUE
        /\ o.post = IF e.class = "mutation" \/ seen = e.subject THEN seen ELSE Null
    BY DEF Observed
  <1>3. /\ e.seq \in 1..MaxSafe /\ e.family = "external_service" /\ e.subject \in Subjects
        /\ e.class \in {"observation", "mutation"}
    BY PreparedAssumption
  <1>4. o \in Observations
    <2>1. o = [status |-> o.status, post |-> o.post, exit |-> o.exit, usage |-> o.usage,
               executor |-> o.executor, sandbox |-> o.sandbox, reason |-> o.reason,
               evidence |-> o.evidence, evidenceIntact |-> o.evidenceIntact]
      BY DEF Observed
    <2>2. o.evidence \in SUBSET EvidenceTypes BY ObservedEvidence
    <2>3. o.status \in Statuses BY <1>2 DEF Statuses
    <2>4. o.post \in Subjects \cup {Null} /\ o.exit \in {Null} /\ o.executor \in {Configured, Null}
          /\ o.sandbox \in {"requested", Null} /\ o.reason \in {"text", Null}
          /\ o.evidenceIntact \in {TRUE}
      BY <1>2
    <2> HIDE DEF o
    <2>5. QED BY <1>1, <2>1, <2>2, <2>3, <2>4 DEF Observations
  <1>5. Floored(o).usage = o.usage /\ Floored(o).evidence = o.evidence
        /\ Floored(o).status = o.status /\ Floored(o).post = o.post /\ Floored(o).exit = o.exit
        /\ Floored(o).sandbox = o.sandbox /\ Floored(o).reason = o.reason
        /\ Floored(o).evidenceIntact = o.evidenceIntact
    <2> HIDE DEF o
    <2>1. QED BY <1>1, <1>4 DEF Floored, Observations
  <1>6. /\ b.effect = e /\ b.pre = e.subject /\ b.schema = e.schema
        /\ b.decision = [digest |-> e, subject |-> e.subject, gate |-> "permission",
                         outcome |-> "allow", effectsIntact |-> TRUE]
        /\ b.status = status /\ b.post = o.post /\ b.exit = Null /\ b.usage = o.usage
        /\ b.executor = Configured /\ b.sandbox = "requested" /\ b.reason = o.reason
        /\ b.evidence = o.evidence /\ b.evidenceIntact = TRUE
    <2> HIDE DEF o
    <2>1. QED BY <1>2, <1>5 DEF ObservedBody, AttemptBody
  <1>7. LET ev == o.evidence
        IN /\ {"executor", "sandbox", "usage"} \subseteq ev /\ "exit" \notin ev
           /\ "failure" \in ev <=> status = "failed"
           /\ "interruption" \in ev <=> status = "interrupted"
           /\ "unknown_outcome" \in ev <=> status = "unknown_outcome"
           /\ seen # Null => "subject_observation" \in ev
           /\ seen # Null /\ e.class = "mutation" => {"mutation", "artifact"} \subseteq ev
    BY ObservedEvidence
  <1> HIDE DEF o, b
  <1>8. ValidEffectRequest(e) BY <1>3 DEF ValidEffectRequest
  <1>9. ValidDecision(e, b) BY <1>6 DEF ValidDecision
  <1>10. ValidForOperation(e, b) BY <1>3, <1>6, <1>7 DEF ValidForOperation
  <1>11. ValidDrift(e, b) BY <1>2, <1>6, NamesApart DEF ValidDrift
  <1>12. AttemptIdentified(b) BY <1>6, <1>7, NamesApart DEF AttemptIdentified
  <1>13. b.post # Null => KnownPostEffect(e, b)
    BY <1>2, <1>3, <1>6, <1>7 DEF KnownPostEffect
  <1>14. status # "unknown_outcome" => b.post # Null
    BY <1>2, <1>3, <1>6
  <1>15. status # "executed" => HasReason(b) BY <1>2, <1>6, NamesApart DEF HasReason
  <1>16. ValidStatus(e, b)
    <2>1. b.decision.outcome = ExpectedOutcome(b.status) BY <1>6 DEF ExpectedOutcome, Attempted
    <2>2. CASE status = "executed"
      <3>1. ValidExecuted(e, b) BY <1>2, <1>6, <1>7, <1>12, <1>13, <1>14, <2>2 DEF ValidExecuted
      <3>2. QED BY <1>6, <2>1, <2>2, <3>1 DEF ValidStatus, NotExecuted
    <2>3. CASE status = "failed"
      <3>1. ValidKnownAttempt(e, b, "failure", {"interruption", "unknown_outcome"})
        BY <1>6, <1>7, <1>12, <1>13, <1>14, <1>15, <2>3 DEF ValidKnownAttempt
      <3>2. QED BY <1>6, <2>1, <2>3, <3>1 DEF ValidStatus, NotExecuted
    <2>4. CASE status = "interrupted"
      <3>1. ValidKnownAttempt(e, b, "interruption", {"failure", "unknown_outcome"})
        BY <1>6, <1>7, <1>12, <1>13, <1>14, <1>15, <2>4 DEF ValidKnownAttempt
      <3>2. QED BY <1>6, <2>1, <2>4, <3>1 DEF ValidStatus, NotExecuted
    <2>5. CASE status = "unknown_outcome"
      <3>1. ValidUnknown(e, b) BY <1>6, <1>7, <1>12, <1>13, <1>15, <2>5 DEF ValidUnknown
      <3>2. QED BY <1>6, <2>1, <2>5, <3>1 DEF ValidStatus, NotExecuted
    <2>6. QED BY <2>2, <2>3, <2>4, <2>5 DEF Attempted
  <1>17. b.post # Malformed BY <1>2, <1>6, NamesApart
  <1>18. ValidResult(e, b)
    BY <1>1, <1>6, <1>8, <1>9, <1>10, <1>11, <1>16, <1>17 DEF ValidResult
  <1>19. QED BY <1>4, <1>18 DEF Sealable, b, o

(* A refusal before the dispatch is an observation nothing has to seal.    *)
LEMMA RefusedSeals ==
  ASSUME NEW e, NEW status \in NotExecuted, NEW ev \in SUBSET {"capability_schema"}
  PROVE  /\ Refused(status, ev) \in Observations /\ Sealable(e, Refused(status, ev))
         /\ Refused(status, ev).status = status
  <1>1. ZeroUsage \in Usage BY DEF ZeroUsage, Usage
  <1>2. status \in Statuses /\ status \notin Attempted
    BY DEF Statuses, NotExecuted, Attempted
  <1>3. ev \in SUBSET EvidenceTypes BY DEF EvidenceTypes
  <1>4. QED BY <1>1, <1>2, <1>3 DEF Refused, Observations, Sealable

LEMMA ErrorSeals ==
  ASSUME NEW e, NEW status \in {"error", "not_dispatched"}
  PROVE  [status |-> status] \in Errors /\ Sealable(e, [status |-> status])
  BY DEF Errors, Sealable, Attempted

----------------------------------------------------------------------------
(* The host.                                                               *)

Reported == [effect : Effects, observation : Observations \cup Errors]

(* The host returns to its caller.                                         *)
LEMMA ReturnPreserves ==
  ASSUME SessionInvariant, NEW e \in Effects, NEW o \in Observations \cup Errors, Return(e, o),
         host \in Executing \cup {"idle"}, host \in Executing => e = effect,
         Len(reports) < MaxAttempts, HostOnly, UNCHANGED <<attempted, queue>>,
         answer' = Null, worker \notin Working, queue # "invoke",
         cancelled' \in BOOLEAN, cancelled => cancelled',
         o.status = "unknown_outcome" => cancelled',
         observer' = "idle" \/ (observer' = "late" /\ cancelled'),
         o.status \in NotExecuted \cup {"not_dispatched"} => Attempt \notin wrote,
         o.status = "executed" => Attempt \in wrote \ disturbed,
         Attempt \in wrote => {e.id, e.key} \subseteq attempted,
         Sealable(e, o)
  PROVE  SessionInvariant'
  <1> USE DEF SessionInvariant
  <1>1. /\ UNCHANGED <<attempted, queue, worker, discovered, frame, response, wire, expired, alive,
                       wrote, early, disturbed>>
        /\ host' = "idle" /\ effect' = Null /\ verdict' = "none" /\ recorded' = "none"
    BY DEF HostOnly, workerVars, history, Return
  <1> DEFINE r == [effect |-> e, observation |-> o]
  <1>2. r \in Reported /\ r.effect = e /\ r.observation = o BY DEF Reported
  <1>3. reports \in Seq(Reported) /\ reports' = Append(reports, r) BY DEF TypeOK, Reported, Return
  <1> HIDE DEF r
  <1>4. /\ reports' \in Seq(Reported) /\ Len(reports') = Len(reports) + 1
        /\ \A n \in 1..Len(reports) : reports'[n] = reports[n]
        /\ reports'[Len(reports) + 1] = r
    BY <1>2, <1>3
  <1>5. /\ Len(reports) \in Nat /\ Attempt = Len(reports) + 1 /\ Attempt \in Nat
        /\ Attempt' = Len(reports) + 2 /\ Attempt' > Len(reports') /\ Len(reports') = Attempt
        /\ DOMAIN reports = 1..Len(reports) /\ DOMAIN reports' = 1..Attempt
    BY <1>3, <1>4 DEF Attempt
  <1>6. reports'[Attempt].effect = e /\ reports'[Attempt].observation = o
    BY <1>2, <1>4, <1>5
  <1>7. \A n \in DOMAIN reports :
          /\ n \in DOMAIN reports' /\ n # Attempt /\ reports'[n] = reports[n]
          /\ StatusOf(n)' = StatusOf(n)
    BY <1>4, <1>5 DEF StatusOf
  <1>8. \A n \in DOMAIN reports' : n \in DOMAIN reports \/ n = Attempt BY <1>5
  <1>9. \A n \in wrote \cup disturbed : n \in Nat /\ n > 0
    BY DEF TypeOK, Attempts, DisturbanceKnown
  <1>10. TypeOK'
    <2>1. Len(reports') <= MaxAttempts BY <1>5, BoundAssumption
    <2>2. QED BY <1>1, <1>4, <2>1 DEF TypeOK, Reported
  <1>11. ThreadsSafe'
    BY <1>1
    DEF ThreadsSafe, HostHoldsEffect, OneCommand, ProbeOwned, ProbesSerial, Executing, Reconciling,
        Working, Invoking
  <1>12. WireSafe'
    <2>1. FramesSettled' BY <1>1, <1>5 DEF FramesSettled, Working, Invoking
    <2>2. WritingKnown'
      <3>1. \A n \in wrote : n \in DOMAIN reports \/ n = Attempt
        BY <1>5, <1>9 DEF WritingKnown
      <3>2. \A n \in wrote : n \in DOMAIN reports =>
              {reports[n].effect.id, reports[n].effect.key} \subseteq attempted
        BY <1>5 DEF WritingKnown
      <3>3. \A n \in wrote : n <= Len(reports') /\
              {reports'[n].effect.id, reports'[n].effect.key} \subseteq attempted
        BY <1>4, <1>5, <1>6, <3>1, <3>2
      <3>4. QED BY <1>1, <3>3 DEF WritingKnown
    <2>3. DisturbanceKnown'
      <3>1. \A n \in disturbed : n <= Len(reports') BY <1>5, <1>9 DEF DisturbanceKnown
      <3>2. worker \notin Invoking \cup {"fail"} BY DEF Working
      <3>3. QED BY <1>1, <3>1, <3>2 DEF DisturbanceKnown, FoundExecuted, Reconciling, Invoking
    <2>4. QED BY <1>1, <2>1, <2>2, <2>3 DEF WireSafe, NoFirstByteAfterDrift
  <1>13. UnknownIsLast'
    <2>1. (\E n \in DOMAIN reports : StatusOf(n) = "unknown_outcome") => cancelled'
      BY DEF UnknownIsLast
    <2>2. QED BY <1>1, <1>6, <1>7, <1>8, <2>1 DEF UnknownIsLast, StatusOf, Executing
  <1>14. UnknownEndsSession'
    <2>1. SUFFICES ASSUME NEW m \in DOMAIN reports', NEW n \in wrote, StatusOf(m)' = "unknown_outcome"
                   PROVE  n <= m
      BY <1>1 DEF UnknownEndsSession
    <2>2. n <= Attempt BY <1>5, <1>9 DEF WritingKnown
    <2>3. CASE m = Attempt BY <2>2, <2>3
    <2>4. CASE m \in DOMAIN reports BY <1>7, <2>1, <2>4 DEF UnknownEndsSession
    <2>5. QED BY <1>8, <2>3, <2>4
  <1>15. NotDispatchedNeverWritten' /\ ExecutedUndisturbed'
    <2>1. NotDispatchedNeverWritten'
      BY <1>1, <1>6, <1>7, <1>8 DEF NotDispatchedNeverWritten, StatusOf
    <2>2. ExecutedUndisturbed' BY <1>1, <1>6, <1>7, <1>8 DEF ExecutedUndisturbed, StatusOf
    <2>3. QED BY <2>1, <2>2
  <1>16. ObservationsSeal'
    <2>1. SUFFICES ASSUME NEW n \in DOMAIN reports'
                   PROVE  Sealable(reports'[n].effect, reports'[n].observation)
      BY DEF ObservationsSeal, Sealable, StatusOf
    <2>2. CASE n = Attempt BY <1>6, <2>2
    <2>3. CASE n \in DOMAIN reports
      <3>1. Sealable(reports[n].effect, reports[n].observation)
        BY <2>3 DEF ObservationsSeal, Sealable, StatusOf
      <3>2. QED BY <1>4, <1>5, <2>3, <3>1
    <2>4. QED BY <1>8, <2>2, <2>3
  <1>17. WrittenAtMostOnce'
    <2>1. \A n \in wrote : EffectOf(n)' = EffectOf(n)
      <3>1. SUFFICES ASSUME NEW n \in wrote PROVE EffectOf(n)' = EffectOf(n) OBVIOUS
      <3>2. CASE n \in DOMAIN reports BY <1>4, <1>5, <3>2 DEF EffectOf
      <3>3. CASE n = Attempt /\ host \in Executing BY <1>5, <1>6, <3>3 DEF EffectOf
      <3>4. CASE n = Attempt /\ host = "idle"
        BY <1>5, <3>4 DEF WritingKnown, OneCommand, Reconciling, Armed, Working, Invoking
      <3>5. QED BY <1>5, <1>9, <3>2, <3>3, <3>4 DEF WritingKnown
    <2>2. QED BY <1>1, <2>1 DEF WrittenAtMostOnce
  <1>18. ReportsSafe' BY <1>13, <1>14, <1>15, <1>16, <1>17 DEF ReportsSafe
  <1>19. QED BY <1>10, <1>11, <1>12, <1>18, GroupsNext

(* The host goes on before it sends or after it has received, and leaves   *)
(* the reports, the reply and the wire alone.                              *)
LEMMA HostWireSafe ==
  ASSUME SessionInvariant, HostOnly, UNCHANGED <<reports, answer, attempted>>,
         host \notin Reconciling \/ (host' \in Reconciling /\ verdict' = verdict),
         host' \in Reconciling => host \in Reconciling
  PROVE  WireSafe'
  <1>1. UNCHANGED <<worker, discovered, frame, response, wire, wrote, early, disturbed, reports,
                    answer, attempted>>
    BY DEF HostOnly, workerVars, history
  <1>2. QED
    BY <1>1 DEF SessionInvariant, WireSafe, FramesSettled, WritingKnown, DisturbanceKnown,
                NoFirstByteAfterDrift, FoundExecuted, Attempt

LEMMA ExecuteStartsPreserves == ASSUME SessionInvariant, ExecuteStarts PROVE SessionInvariant'
  <1> USE DEF SessionInvariant
  <1>1. PICK e \in Effects : Admissible(e) /\ ~cancelled /\ effect' = e BY DEF ExecuteStarts
  <1>2. /\ UNCHANGED <<verdict, recorded, attempted, reports, queue, answer, cancelled, observer,
                       worker, discovered, frame, response, wire, expired, alive, wrote, early, disturbed>>
        /\ host = "idle" /\ host' = "preflight" /\ HostOnly /\ ~cancelled
    BY <1>1 DEF ExecuteStarts, HostOnly, workerVars, history, Admissible
  <1>3. Len(reports) < MaxAttempts BY <1>1, BoundAssumption, AttemptFacts DEF Admissible, Attempt
  <1>4. recorded = "none"
    BY <1>2 DEF HostHoldsEffect
  <1>5. TypeOK' BY <1>1, <1>2 DEF TypeOK
  <1>6. ThreadsSafe'
    BY <1>1, <1>2, <1>3, <1>4
    DEF ThreadsSafe, HostHoldsEffect, OneCommand, ProbeOwned, ProbesSerial, Executing, Reconciling,
        Admissible, Working, Invoking
  <1>7. WireSafe' BY <1>2, HostWireSafe DEF Reconciling
  <1>8. ReportsSafe' BY <1>2, ReportsKept
  <1>9. QED BY <1>5, <1>6, <1>7, <1>8, GroupsNext

(* The two probes of the host.                                             *)
LEMMA HostProbesPreserve ==
  ASSUME SessionInvariant, PreflightProbes \/ ReconcileProbes PROVE SessionInvariant'
  <1> USE DEF SessionInvariant
  <1>1. /\ UNCHANGED <<effect, verdict, recorded, attempted, reports, queue, answer, cancelled,
                       worker, discovered, frame, response, wire, expired, alive, wrote, early, disturbed>>
        /\ HostOnly /\ Probe
        /\ \/ host = "preflight" /\ host' = "preflight_wait"
           \/ host = "reconcile" /\ host' = "reconcile_wait"
    BY DEF PreflightProbes, ReconcileProbes, HostOnly, workerVars, history
  <1>2. observer = "idle"
    BY <1>1 DEF ProbeOwned, OneCommand, Executing, Working, Invoking
  <1>3. observer' = "busy" BY <1>1, <1>2 DEF Probe
  <1>4. TypeOK' BY <1>1, <1>3 DEF TypeOK
  <1>5. ThreadsSafe'
    BY <1>1, <1>3
    DEF ThreadsSafe, HostHoldsEffect, OneCommand, ProbeOwned, ProbesSerial, Executing, Reconciling,
        Working, Invoking
  <1>6. WireSafe' BY <1>1, HostWireSafe DEF Reconciling
  <1>7. ReportsSafe' BY <1>1, ReportsKept DEF Executing
  <1>8. QED BY <1>4, <1>5, <1>6, <1>7, GroupsNext

LEMMA PreflightPassesPreserves == ASSUME SessionInvariant, PreflightPasses PROVE SessionInvariant'
  <1> USE DEF SessionInvariant
  <1>1. /\ UNCHANGED <<effect, verdict, attempted, reports, queue, answer, cancelled,
                       worker, discovered, frame, response, wire, expired, alive, wrote, early, disturbed>>
        /\ HostOnly /\ host = "preflight_wait" /\ host' = "send" /\ recorded' = "intent"
        /\ observer' = "idle"
    BY DEF PreflightPasses, ProbeAnswers, HostOnly, workerVars, history
  <1>2. TypeOK' BY <1>1 DEF TypeOK
  <1>3. ThreadsSafe'
    BY <1>1
    DEF ThreadsSafe, HostHoldsEffect, OneCommand, ProbeOwned, ProbesSerial, Executing, Reconciling,
        Working, Invoking
  <1>4. WireSafe' BY <1>1, HostWireSafe DEF Reconciling
  <1>5. ReportsSafe' BY <1>1, ReportsKept DEF Executing
  <1>6. QED BY <1>2, <1>3, <1>4, <1>5, GroupsNext

LEMMA HostSendsPreserves == ASSUME SessionInvariant, HostSends PROVE SessionInvariant'
  <1> USE DEF SessionInvariant
  <1>1. /\ UNCHANGED <<effect, verdict, attempted, reports, answer, cancelled, observer,
                       worker, discovered, frame, response, wire, expired, alive, wrote, early, disturbed>>
        /\ HostOnly /\ host = "send" /\ host' = "await" /\ recorded' = "dispatched"
        /\ queue' = "invoke" /\ worker # "exited"
    BY DEF HostSends, HostOnly, workerVars, history
  <1>2. TypeOK' BY <1>1 DEF TypeOK
  <1>3. ThreadsSafe'
    BY <1>1
    DEF ThreadsSafe, HostHoldsEffect, OneCommand, ProbeOwned, ProbesSerial, Executing, Reconciling,
        Working, Invoking
  <1>4. WireSafe' BY <1>1, HostWireSafe DEF Reconciling
  <1>5. ReportsSafe' BY <1>1, ReportsKept DEF Executing
  <1>6. QED BY <1>2, <1>3, <1>4, <1>5, GroupsNext

(* The end of the session: the host drops the adapter and joins the worker.*)
LEMMA HostEndsPreserve ==
  ASSUME SessionInvariant, HostDrops \/ HostJoins PROVE SessionInvariant'
  <1> USE DEF SessionInvariant
  <1>1. /\ UNCHANGED <<effect, verdict, recorded, attempted, reports, answer, observer,
                       worker, discovered, frame, response, wire, expired, alive, wrote, early, disturbed>>
        /\ HostOnly
        /\ \/ /\ host = "idle" /\ host' = "joining" /\ cancelled' = TRUE
              /\ queue' = IF worker = "exited" THEN queue ELSE "stop"
           \/ /\ host = "joining" /\ host' = "gone" /\ worker = "exited"
              /\ UNCHANGED <<cancelled, queue>>
    BY DEF HostDrops, HostJoins, HostOnly, workerVars, history
  <1>2. cancelled' \in BOOLEAN /\ (cancelled => cancelled')
    <2>1. CASE cancelled' = TRUE BY <2>1
    <2>2. CASE cancelled' = cancelled BY <2>2 DEF TypeOK
    <2>3. QED BY <1>1, <2>1, <2>2
  <1>3. TypeOK' BY <1>1, <1>2 DEF TypeOK
  <1>4. ThreadsSafe'
    BY <1>1, <1>2
    DEF ThreadsSafe, HostHoldsEffect, OneCommand, ProbeOwned, ProbesSerial, Executing, Reconciling,
        Working, Invoking
  <1>5. WireSafe' BY <1>1, HostWireSafe DEF Reconciling
  <1>6. ReportsSafe' BY <1>1, <1>2, ReportsKept DEF Executing
  <1>7. QED BY <1>3, <1>4, <1>5, <1>6, GroupsNext

(* From here on the effect counts as attempted.                            *)
LEMMA ReceivesOutcomePreserves == ASSUME SessionInvariant, ReceivesOutcome PROVE SessionInvariant'
  <1> USE DEF SessionInvariant
  <1>1. /\ UNCHANGED <<effect, recorded, reports, queue, cancelled, observer,
                       worker, discovered, frame, response, wire, expired, alive, wrote, early, disturbed>>
        /\ host = "await" /\ host' = "reconcile" /\ answer' = Null
        /\ attempted' = attempted \cup {effect.id, effect.key}
        /\ \/ answer # Null /\ answer.dispatched /\ verdict' = answer.status
           \/ answer = Null /\ worker = "exited" /\ verdict' = "unknown_outcome"
    BY DEF ReceivesOutcome, Remembers, HostOnly, workerVars, history
  <1>2. /\ verdict' \in {"executed", "failed", "unknown_outcome"}
        /\ queue = "none" /\ worker \notin Working
    BY <1>1 DEF OneCommand, Working, Invoking
  <1>3. TypeOK' BY <1>1, <1>2 DEF TypeOK, Attempted
  <1>4. observer = "idle"
    <2>1. worker # "observe_wait" BY <1>2 DEF Working, Invoking
    <2>2. answer # Null => answer.status # "observer_failed" BY <1>1, <1>2
    <2>3. QED BY <1>1, <2>1, <2>2 DEF ProbeOwned, Executing
  <1>5. ThreadsSafe'
    BY <1>1, <1>2, <1>4
    DEF ThreadsSafe, HostHoldsEffect, OneCommand, ProbeOwned, ProbesSerial, Executing, Reconciling,
        Working, Invoking
  <1>6. WireSafe'
    <2>1. Attempt' = Attempt BY <1>1 DEF Attempt
    <2>2. FramesSettled' BY <1>1, <2>1 DEF FramesSettled
    <2>3. WritingKnown' BY <1>1, <2>1 DEF WritingKnown, Reconciling
    <2>4. verdict' = "executed" => Attempt \in wrote \ disturbed
      BY <1>1 DEF DisturbanceKnown, FoundExecuted
    <2>5. DisturbanceKnown'
      BY <1>1, <2>1, <2>4 DEF DisturbanceKnown, FoundExecuted, Reconciling
    <2>6. QED BY <1>1, <2>2, <2>3, <2>5 DEF WireSafe, NoFirstByteAfterDrift
  <1>7. ReportsSafe' BY <1>1, ReportsKept DEF Executing
  <1>8. QED BY <1>3, <1>5, <1>6, <1>7, GroupsNext

----------------------------------------------------------------------------
(* The host's returns.                                                     *)

(* While no call is under way nothing has been written of the next attempt.*)
LEMMA NotCalling ==
  ASSUME SessionInvariant, host \in {"idle", "preflight", "preflight_wait", "send"}
  PROVE  /\ Attempt \notin wrote /\ answer = Null /\ worker \notin Working /\ queue # "invoke"
         /\ cancelled \in BOOLEAN
         /\ observer # "idle" => host = "preflight_wait" \/ (observer = "late" /\ cancelled)
  <1> USE DEF SessionInvariant
  <1>1. answer = Null /\ worker \notin Working /\ queue # "invoke" BY DEF OneCommand
  <1>2. Attempt \notin wrote
    BY <1>1, AttemptFacts DEF WritingKnown, Reconciling, Armed, Working, Invoking
  <1>3. observer # "idle" => host = "preflight_wait" \/ (observer = "late" /\ cancelled)
    BY <1>1 DEF ProbeOwned, Working, Invoking
  <1>4. QED BY <1>1, <1>2, <1>3 DEF TypeOK

(* A return before anything was sent.                                      *)
LEMMA EarlyReturn ==
  ASSUME SessionInvariant, NEW e \in Effects, NEW o \in Observations \cup Errors, Return(e, o),
         host \in {"idle", "preflight", "preflight_wait", "send"}, host # "idle" => e = effect,
         Len(reports) < MaxAttempts, HostOnly, UNCHANGED <<attempted, queue, answer>>,
         cancelled' \in BOOLEAN, cancelled => cancelled',
         o.status \in NotExecuted \cup {"not_dispatched"}, Sealable(e, o),
         observer' = "idle" \/ (observer' = "late" /\ cancelled')
  PROVE  SessionInvariant'
  <1>1. /\ Attempt \notin wrote /\ answer' = Null /\ worker \notin Working /\ queue # "invoke"
    BY NotCalling
  <1>2. o.status # "unknown_outcome" /\ o.status # "executed" BY DEF NotExecuted
  <1>3. host \in Executing \cup {"idle"} /\ (host \in Executing => e = effect) BY DEF Executing
  <1>4. QED BY <1>1, <1>2, <1>3, ReturnPreserves

LEMMA ErrorBefore ==
  ASSUME NEW e, NEW mark \in {"none", "intent"}, ReturnError(e, mark)
  PROVE  /\ Return(e, [status |-> "not_dispatched"])
         /\ [status |-> "not_dispatched"] \in Observations \cup Errors
         /\ Sealable(e, [status |-> "not_dispatched"])
         /\ [status |-> "not_dispatched"].status \in NotExecuted \cup {"not_dispatched"}
  BY ErrorSeals DEF ReturnError

LEMMA ExecuteAnswersPreserve ==
  ASSUME SessionInvariant, ExecuteRejects \/ ExecuteDenies PROVE SessionInvariant'
  <1>1. /\ host = "idle" /\ HostOnly /\ UNCHANGED <<attempted, queue, answer, cancelled, observer>>
        /\ Attempt <= MaxAttempts
    BY DEF ExecuteRejects, ExecuteDenies, Admissible
  <1>2. Len(reports) < MaxAttempts
    BY <1>1, BoundAssumption, AttemptFacts DEF SessionInvariant, Attempt
  <1>3. /\ cancelled' \in BOOLEAN /\ (cancelled => cancelled')
        /\ observer' = "idle" \/ (observer' = "late" /\ cancelled')
    BY <1>1, NotCalling
  <1>4. PICK e \in Effects :
          ReturnError(e, "none") \/ Return(e, Refused("denied", {}))
    BY DEF ExecuteRejects, ExecuteDenies
  <1>5. CASE ReturnError(e, "none")
    <2> DEFINE o == [status |-> "not_dispatched"]
    <2>1. /\ Return(e, o) /\ o \in Observations \cup Errors /\ Sealable(e, o)
          /\ o.status \in NotExecuted \cup {"not_dispatched"}
      BY <1>5, ErrorBefore
    <2> HIDE DEF o
    <2>2. QED BY <1>1, <1>2, <1>3, <2>1, EarlyReturn
  <1>6. CASE Return(e, Refused("denied", {}))
    <2> DEFINE o == Refused("denied", {})
    <2>1. /\ Return(e, o) /\ o \in Observations \cup Errors /\ Sealable(e, o)
          /\ o.status \in NotExecuted \cup {"not_dispatched"}
      BY <1>6, RefusedSeals DEF NotExecuted
    <2> HIDE DEF o
    <2>2. QED BY <1>1, <1>2, <1>3, <2>1, EarlyReturn
  <1>7. QED BY <1>4, <1>5, <1>6

LEMMA PreflightEndsPreserve ==
  ASSUME SessionInvariant, PreflightFails \/ PreflightRefuses \/ SendFails PROVE SessionInvariant'
  <1>1. /\ host \in {"preflight", "preflight_wait", "send"} /\ HostOnly
        /\ UNCHANGED <<attempted, queue, answer>> /\ ReturnError(effect, recorded)
    BY DEF PreflightFails, PreflightRefuses, SendFails
  <1>2. /\ effect \in Effects /\ Len(reports) < MaxAttempts /\ recorded \in {"none", "intent"}
    BY <1>1 DEF SessionInvariant, HostHoldsEffect, Executing
  <1>3. /\ cancelled' \in BOOLEAN /\ (cancelled => cancelled')
        /\ observer' = "idle" \/ (observer' = "late" /\ cancelled')
    <2>1. CASE PreflightFails
      <3>1. cancelled' = TRUE /\ observer' = Quarantined BY <2>1 DEF PreflightFails, ProbeFails
      <3>2. observer \in {"idle", "busy", "done", "late"}
        BY DEF SessionInvariant, TypeOK, ProbesSerial
      <3>3. observer' \in {"idle", "late"} BY <3>1, <3>2 DEF Quarantined
      <3>4. QED BY <3>1, <3>3
    <2>2. CASE PreflightRefuses
      BY <1>1, <2>2, NotCalling DEF PreflightRefuses, ProbeAnswers
    <2>3. CASE SendFails BY <1>1, <2>3, NotCalling DEF SendFails
    <2>4. QED BY <2>1, <2>2, <2>3
  <1> DEFINE o == [status |-> "not_dispatched"]
  <1>4. /\ Return(effect, o) /\ o \in Observations \cup Errors /\ Sealable(effect, o)
        /\ o.status \in NotExecuted \cup {"not_dispatched"}
    BY <1>1, <1>2, ErrorBefore
  <1> HIDE DEF o
  <1>5. QED BY <1>1, <1>2, <1>3, <1>4, EarlyReturn

(* The worker's reply says that nothing was dispatched.                    *)
LEMMA ReceivesRefusalPreserves ==
  ASSUME SessionInvariant, ReceivesProbeFailure \/ ReceivesRefusal PROVE SessionInvariant'
  <1> USE DEF SessionInvariant
  <1>1. /\ host = "await" /\ answer # Null /\ answer' = Null /\ HostOnly
        /\ UNCHANGED <<attempted, queue, observer>>
        /\ cancelled' = TRUE \/ cancelled' = cancelled
    BY DEF ReceivesProbeFailure, ReceivesRefusal
  <1>2. /\ answer \in Replies /\ ~answer.dispatched
        /\ answer.status \in NotExecuted \cup {"observer_failed"}
        /\ queue # "invoke" /\ worker \notin Working
    <2>1. answer \in Replies BY <1>1 DEF TypeOK
    <2>2. queue # "invoke" /\ worker \notin Working BY <1>1 DEF OneCommand
    <2>3. CASE ReceivesProbeFailure
      <3>1. answer.status = "observer_failed" BY <2>3 DEF ReceivesProbeFailure
      <3>2. QED BY <1>1, <2>1, <2>2, <3>1 DEF OneCommand, Replies
    <2>4. CASE ReceivesRefusal
      BY <1>1, <2>1, <2>2, <2>4 DEF ReceivesRefusal, OneCommand, Replies
    <2>5. QED BY <2>3, <2>4
  <1>3. effect \in Effects /\ Len(reports) < MaxAttempts BY <1>1 DEF HostHoldsEffect, Executing
  <1>4. Attempt \notin wrote
    BY <1>1, <1>2, AttemptFacts DEF WritingKnown, Reconciling, Armed, Working, Invoking
  <1>5. observer = "idle" \/ (observer = "late" /\ cancelled)
    BY <1>1, <1>2 DEF ProbeOwned, Executing, Working, Invoking
  <1>6. cancelled' \in BOOLEAN /\ (cancelled => cancelled')
    <2>1. CASE cancelled' = TRUE BY <2>1
    <2>2. CASE cancelled' = cancelled BY <2>2 DEF TypeOK
    <2>3. QED BY <1>1, <2>1, <2>2
  <1>7. PICK o \in Observations \cup Errors :
          /\ Return(effect, o) /\ Sealable(effect, o)
          /\ o.status \in NotExecuted \cup {"not_dispatched"}
    <2>1. CASE ReceivesProbeFailure
      <3> DEFINE mark == "intent"
      <3>1. mark \in {"none", "intent"} /\ ReturnError(effect, mark)
        BY <2>1 DEF ReceivesProbeFailure
      <3> HIDE DEF mark
      <3>2. QED BY <3>1, ErrorBefore
    <2>2. CASE ReceivesRefusal
      <3>1. answer.status \in NotExecuted /\ Return(effect, Refused(answer.status, {"capability_schema"}))
        BY <1>2, <2>2 DEF ReceivesRefusal
      <3>2. QED BY <3>1, RefusedSeals
    <2>3. QED BY <2>1, <2>2
  <1>8. o.status # "unknown_outcome" /\ o.status # "executed" BY <1>7 DEF NotExecuted
  <1>9. host \in Executing \cup {"idle"} BY <1>1 DEF Executing
  <1>10. QED BY <1>1, <1>2, <1>3, <1>4, <1>5, <1>6, <1>7, <1>8, <1>9, ReturnPreserves

(* The outcome, as far as independent observation confirms it.             *)
LEMMA ReconciledPreserves ==
  ASSUME SessionInvariant, host = "reconcile_wait", HostOnly, UNCHANGED <<attempted, queue, answer>>,
         NEW status \in Attempted, NEW seen \in Subjects \cup {Null},
         status # "unknown_outcome" => seen # Null /\ (effect.class = "observation" => seen = effect.subject),
         status = "executed" => verdict = "executed",
         Return(effect, Observed(effect, status, seen)),
         cancelled' \in BOOLEAN, cancelled => cancelled', status = "unknown_outcome" => cancelled',
         observer' = "idle" \/ (observer' = "late" /\ cancelled')
  PROVE  SessionInvariant'
  <1> USE DEF SessionInvariant
  <1>1. /\ effect \in Effects /\ effect.intact /\ Len(reports) < MaxAttempts
        /\ {effect.id, effect.key} \subseteq attempted
    BY DEF HostHoldsEffect, Executing, Reconciling
  <1>2. answer' = Null /\ worker \notin Working /\ queue # "invoke" BY DEF OneCommand
  <1>3. status = "executed" => Attempt \in wrote \ disturbed
    BY DEF DisturbanceKnown, FoundExecuted, Reconciling
  <1> DEFINE o == Observed(effect, status, seen)
  <1>4. o \in Observations /\ Sealable(effect, o) BY <1>1, ObservedSeals
  <1>5. o.status = status /\ Return(effect, o) BY DEF Observed
  <1> HIDE DEF o
  <1>6. o.status \notin NotExecuted \cup {"not_dispatched"} BY <1>5 DEF Attempted, NotExecuted
  <1>7. host \in Executing \cup {"idle"} BY DEF Executing
  <1>8. QED BY <1>1, <1>2, <1>3, <1>4, <1>5, <1>6, <1>7, ReturnPreserves

LEMMA ReconcileAnswersPreserves == ASSUME SessionInvariant, ReconcileAnswers PROVE SessionInvariant'
  <1>1. PICK confirmed \in BOOLEAN, measured \in BOOLEAN, subject \in Subjects \cup {"oversize"} :
          Concludes(Confirmed(effect, confirmed, subject, measured),
                    IF subject = "oversize" THEN Null ELSE subject)
    BY DEF ReconcileAnswers
  <1> DEFINE status == Confirmed(effect, confirmed, subject, measured)
             seen   == IF subject = "oversize" THEN Null ELSE subject
             final  == IF status # "executed" \/ ~cancelled THEN status
                       ELSE IF wire.failure THEN "unknown_outcome" ELSE "interrupted"
  <1>2. /\ host = "reconcile_wait" /\ HostOnly /\ UNCHANGED <<attempted, queue, answer>>
        /\ observer' = "idle"
    BY DEF ReconcileAnswers, ProbeAnswers
  <1>3. Return(effect, Observed(effect, final, seen)) /\ Ends(final)
    BY <1>1 DEF Concludes
  <1>4. verdict \in {"executed", "failed", "unknown_outcome"}
    BY <1>2 DEF SessionInvariant, HostHoldsEffect, Reconciling
  <1>5. seen \in Subjects \cup {Null} OBVIOUS
  <1>6. /\ status \in {verdict, "unknown_outcome"}
        /\ status # "unknown_outcome" =>
             seen # Null /\ (effect.class = "observation" => seen = effect.subject)
    BY NamesApart DEF Confirmed
  <1>7. /\ final \in Attempted
        /\ final # "unknown_outcome" => status # "unknown_outcome"
        /\ final = "executed" => verdict = "executed"
    BY <1>4, <1>6 DEF Attempted
  <1> HIDE DEF status, seen, final
  <1>8. /\ cancelled' \in BOOLEAN /\ (cancelled => cancelled')
        /\ final = "unknown_outcome" => cancelled'
    BY <1>3 DEF Ends, SessionInvariant, TypeOK
  <1>9. QED BY <1>2, <1>3, <1>5, <1>6, <1>7, <1>8, ReconciledPreserves

LEMMA ReconcileFailsPreserves == ASSUME SessionInvariant, ReconcileFails PROVE SessionInvariant'
  <1>1. /\ host = "reconcile_wait" /\ HostOnly /\ UNCHANGED <<attempted, queue, answer>>
        /\ cancelled' = TRUE /\ observer' = Quarantined
        /\ Return(effect, Observed(effect, "unknown_outcome", Null))
    BY DEF ReconcileFails, ProbeFails
  <1>2. observer \in {"busy", "done"} BY <1>1 DEF SessionInvariant, ProbeOwned
  <1>3. observer' \in {"idle", "late"} BY <1>1, <1>2 DEF Quarantined
  <1> DEFINE status == "unknown_outcome"
  <1>4. /\ status \in Attempted /\ status = "unknown_outcome" /\ status # "executed"
        /\ Return(effect, Observed(effect, status, Null))
    BY <1>1 DEF Attempted
  <1> HIDE DEF status
  <1>5. QED BY <1>1, <1>3, <1>4, ReconciledPreserves

LEMMA HostPreserves == ASSUME SessionInvariant, HostStep \/ Calls PROVE SessionInvariant'
  BY ExecuteStartsPreserves, HostProbesPreserve, PreflightPassesPreserves, HostSendsPreserves,
     HostEndsPreserve, ReceivesOutcomePreserves, ExecuteAnswersPreserve, PreflightEndsPreserve,
     ReceivesRefusalPreserves, ReconcileAnswersPreserves, ReconcileFailsPreserves
  DEF HostStep, Calls

----------------------------------------------------------------------------
(* The theorems.                                                           *)

LEMMA SessionInit == ASSUME Init PROVE SessionInvariant
  <1> USE DEF Init
  <1>1. reports = <<>> /\ Len(reports) = 0 /\ DOMAIN reports = {} OBVIOUS
  <1>2. TypeOK
    <2>1. reports \in Seq(Reported) BY <1>1
    <2>2. wire \in Wires BY BoundAssumption DEF Wires
    <2>3. Len(reports) <= MaxAttempts /\ discovered \in 0..MaxGeneration
      BY <1>1, BoundAssumption
    <2>4. frame \in [Attempts -> {"none", "queued", "ready", "part", "sent", "refused"}] OBVIOUS
    <2>5. wrote \cup early \cup disturbed \subseteq Attempts OBVIOUS
    <2>6. cancelled \in BOOLEAN /\ expired \in BOOLEAN /\ alive \in BOOLEAN OBVIOUS
    <2> HIDE DEF Init
    <2>7. QED BY <2>1, <2>2, <2>3, <2>4, <2>5, <2>6 DEF Init, TypeOK, Reported, Wires
  <1>3. ThreadsSafe
    BY DEF ThreadsSafe, HostHoldsEffect, OneCommand, ProbeOwned, ProbesSerial, Executing, Reconciling,
           Working, Invoking
  <1>4. WireSafe
    BY DEF WireSafe, FramesSettled, WritingKnown, DisturbanceKnown, NoFirstByteAfterDrift,
           FoundExecuted, Reconciling, Invoking
  <1>5. ReportsSafe
    BY <1>1 DEF ReportsSafe, UnknownIsLast, UnknownEndsSession, NotDispatchedNeverWritten,
                WrittenAtMostOnce, ExecutedUndisturbed, ObservationsSeal
  <1>6. QED BY <1>2, <1>3, <1>4, <1>5, Groups

LEMMA SessionNext == ASSUME SessionInvariant, [Next]_vars PROVE SessionInvariant'
  <1>1. CASE Next
    BY <1>1, HostPreserves, WorkerPreserves, TransportPreserves, ListChangedPreserves, EndsPreserve,
       ServerRespondsPreserves, ObserverReturnsPreserves, StutterPreserves
    DEF Next, Environment, Gone
  <1>2. CASE UNCHANGED vars BY <1>2, StutterPreserves
  <1>3. QED BY <1>1, <1>2

(* What the host, the worker, the writer and the observer know of each     *)
(* other holds in every reachable state of the adapter.                    *)
THEOREM SessionCorrect == Spec => []SessionInvariant
  <1>1. Init => SessionInvariant BY SessionInit
  <1>2. SessionInvariant /\ [Next]_vars => SessionInvariant' BY SessionNext
  <1>3. QED BY <1>1, <1>2, PTL DEF Spec

(* A call that execute reports as refused or not dispatched has sent no    *)
(* byte to the server.                                                     *)
THEOREM RefusalCorrect == Spec => []NotDispatchedNeverWritten
  <1>1. SessionInvariant => NotDispatchedNeverWritten BY DEF SessionInvariant
  <1>2. QED BY <1>1, SessionCorrect, PTL

(* No effect id and no idempotency key is written twice, however the first *)
(* attempt ended.                                                          *)
THEOREM WrittenOnce == Spec => []WrittenAtMostOnce
  <1>1. SessionInvariant => WrittenAtMostOnce BY DEF SessionInvariant
  <1>2. QED BY <1>1, SessionCorrect, PTL

(* No call sends its first byte after its tools have changed.              *)
THEOREM DriftCorrect == Spec => []NoFirstByteAfterDrift
  <1>1. SessionInvariant => NoFirstByteAfterDrift BY DEF SessionInvariant
  <1>2. QED BY <1>1, SessionCorrect, PTL

(* A call reported as executed was written, and its tools did not change   *)
(* from its discovery to its response.                                     *)
THEOREM ExecutedCorrect == Spec => []ExecutedUndisturbed
  <1>1. SessionInvariant => ExecutedUndisturbed BY DEF SessionInvariant
  <1>2. QED BY <1>1, SessionCorrect, PTL

(* Whatever the adapter reports of an attempt passes the engine's result   *)
(* contract.                                                               *)
THEOREM SealCorrect == Spec => []ObservationsSeal
  <1>1. SessionInvariant => ObservationsSeal BY DEF SessionInvariant
  <1>2. QED BY <1>1, SessionCorrect, PTL

=============================================================================
