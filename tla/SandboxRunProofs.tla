-------------------------- MODULE SandboxRunProofs --------------------------
(***************************************************************************)
(* The safety of one sandbox execution, for any requests, endings and      *)
(* configurations, and that LocalOciAdapter::execute keeps SandboxContract.*)
(***************************************************************************)
EXTENDS SandboxRun, SequenceTheorems, TLAPS

(* The invariant in two halves: what is said of the container and its      *)
(* records, and what is said of the observation.                           *)
ContainerSafe ==
  /\ ContainerHasIntent /\ SurvivorIsReported /\ OnlyConformingRuns
  /\ NothingAsked /\ CleanupOwed /\ BoxLife /\ Validated

ObservationSafe ==
  CancellationReported /\ StatusSeen /\ DriftsOnce /\ EvidenceHeld /\ StopRemembered

Stages == Early \cup Launching \cup Cleaning \cup Closing \cup {"killed"}
Disks  == SUBSET {"intent", "container", "runtime", "observation"}

(* Steps that touch nothing the parts of the invariant read.               *)
Unread ==
  /\ UNCHANGED <<pc, request, gvisor, obs, result, expected, stopped, box, launched, disk, exe, runsc>>
  /\ requests' \subseteq requests

LEMMA UnreadPreserves ==
  ASSUME ExecutionInvariant, Unread, TypeOK' PROVE ExecutionInvariant'
  <1> USE DEF ExecutionInvariant, Unread
  <1>1. ContainerSafe'
    BY DEF ContainerSafe, ContainerHasIntent, SurvivorIsReported, OnlyConformingRuns,
           NothingAsked, CleanupOwed, BoxLife, Validated
  <1>2. ObservationSafe'
    BY DEF ObservationSafe, CancellationReported, StatusSeen, DriftsOnce, EvidenceHeld,
           StopRemembered, OutOfMemory
  <1>3. QED BY <1>1, <1>2 DEF ContainerSafe, ObservationSafe

----------------------------------------------------------------------------
(* Ends of the launched part.                                              *)

(* The run closure ends with an error or with "ok" and with a status: what *)
(* each of its ends has to show.                                           *)
LEMMA EndsWithPreserves ==
  ASSUME ExecutionInvariant, NEW f \in Failures \cup {"ok"}, NEW st \in Statuses,
         pc \in Launching, EndsWith(f, st), UNCHANGED daemonVars,
         disk' \in Disks, disk \subseteq disk', stopped' \in BOOLEAN,
         st = "setup_failed" => "start" \notin requests /\ launched = Null,
         st = "exited" => obs.status = "exited" /\ (f = "ok" => pc = "rehash" /\ exe = expected),
         stopped' /\ ~gvisor => f = "cancelled" \/ (f = "ok" /\ st = "cancelled")
  PROVE  ExecutionInvariant'
  <1> USE DEF ExecutionInvariant
  <1>1. /\ pc' = "probe" /\ result' = f /\ grace' = "open"
        /\ UNCHANGED <<request, gvisor, expected, box, requests, launched, exe, runsc, answer,
                       cancelled, expired, flooded>>
    BY DEF EndsWith, Ends, Go, inputVars, hostVars, daemonVars
  <1>2. /\ obs' \in Observed'
        /\ obs'.status = st /\ obs'.cleanup = obs.cleanup /\ obs'.exit = obs.exit
        /\ obs'.artifacts = obs.artifacts /\ obs'.named = obs.named /\ obs'.why = obs.why
    BY <1>1 DEF EndsWith, TypeOK, Observed
  <1>3. TypeOK'
    <2>1. pc' \in Stages BY <1>1 DEF Stages, Cleaning
    <2>2. QED BY <1>1, <1>2, <2>1 DEF TypeOK, Stages, Disks
  <1>4. ContainerSafe'
    BY <1>1, <1>2, <1>3 DEF ContainerSafe, ContainerHasIntent, SurvivorIsReported, OnlyConformingRuns,
           NothingAsked, CleanupOwed, BoxLife, Validated, Early, Launching, Cleaning, Closing
  <1>5. ObservationSafe'
    <2>1. exe \in {"original", "changed"} BY DEF TypeOK
    <2>2. QED
    BY <1>1, <1>2, <1>3, <2>1 DEF ObservationSafe, CancellationReported, StatusSeen, DriftsOnce, EvidenceHeld,
           StopRemembered, OutOfMemory, Early, Launching, Cleaning, Closing, BoxLife
  <1>6. QED BY <1>3, <1>4, <1>5 DEF ContainerSafe, ObservationSafe

(* The status an exit is given says what the daemon's record says.         *)
LEMMA ObservedStatusSays ==
  /\ ObservedStatus \in {"exited", "resource_limit", "runtime_crash"}
  /\ ObservedStatus = "exited" => ~box.error /\ ~OutOfMemory
  BY DEF ObservedStatus, Classified

(* The error of execute never turns a status into a better one.            *)
LEMMA FinalStatusSays ==
  ASSUME TypeOK
  PROVE  /\ FinalStatus \in Statuses
         /\ FinalStatus = "exited" => result = "ok" /\ obs.status = "exited"
         /\ FinalStatus = "setup_failed" => obs.status = "setup_failed"
         /\ result = "cancelled" \/ (result = "ok" /\ obs.status = "cancelled") =>
              FinalStatus = "cancelled"
  <1>1. obs.status \in Statuses /\ result \in Failures \cup {"ok"} BY DEF TypeOK, Observed
  <1>2. QED BY <1>1 DEF FinalStatus, Statuses, Failures

(* A container that is still there when the call ends has a cleanup that   *)
(* was tried and gave a reason.                                            *)
LEMMA HeldIsUnconfirmed ==
  ASSUME ExecutionInvariant, pc \in Closing, box.state \in Owned \/ (box.state = "absent" /\ "create" \in requests)
  PROVE  obs.cleanup = "unconfirmed" /\ obs.why # Null
  <1>1. obs.cleanup \in Cleanups BY DEF ExecutionInvariant, TypeOK, Observed
  <1>2. obs.cleanup # "not_created" BY DEF ExecutionInvariant, NothingAsked, NoBox, Foreign, Owned
  <1>3. obs.cleanup # "removed" BY DEF ExecutionInvariant, BoxLife, Owned
  <1>4. QED BY <1>1, <1>2, <1>3 DEF ExecutionInvariant, CleanupOwed, Cleanups

----------------------------------------------------------------------------
(* Before the launch.                                                      *)

LEMMA BeginCancelledPreserves ==
  ASSUME ExecutionInvariant, BeginCancelled PROVE ExecutionInvariant'
  <1> USE DEF ExecutionInvariant
  <1>1. /\ pc' = "classify"
        /\ pc = "begin"
        /\ obs' = [obs EXCEPT !.status = "cancelled"]
        /\ UNCHANGED <<request, gvisor, result, answer, requests, box, disk,
                         cancelled, expired, flooded, grace, exe, expected,
                         runsc, stopped, launched>>
    BY DEF BeginCancelled, Go, Passive, Quiet, inputVars, clockVars, hostVars,
           daemonVars
  <1>2. /\ obs' \in Observed'
        /\ obs'.status = "cancelled"
        /\ obs'.cleanup = obs.cleanup /\ obs'.exit = obs.exit /\ obs'.artifacts = obs.artifacts
        /\ obs'.named = obs.named /\ obs'.published = obs.published /\ obs'.why = obs.why
    BY <1>1 DEF TypeOK, Observed, Statuses
  <1>3. TypeOK'
    <2>1. pc' \in Stages BY <1>1 DEF TypeOK, Stages, Early, Launching, Cleaning, Closing
    <2>9. QED BY <1>1, <1>2, <2>1 DEF TypeOK, Stages
  <1>4. ContainerSafe'
    BY <1>1, <1>2, <1>3 DEF ContainerSafe, ContainerHasIntent, SurvivorIsReported, OnlyConformingRuns,
           NothingAsked, CleanupOwed, BoxLife, Validated, Early, Launching, Cleaning, Closing
  <1>5. ObservationSafe'
    BY <1>1, <1>2, <1>3 DEF ObservationSafe, CancellationReported, StatusSeen, DriftsOnce, EvidenceHeld,
           StopRemembered, OutOfMemory, Early, Launching, Cleaning, Closing
  <1>6. QED BY <1>3, <1>4, <1>5 DEF ContainerSafe, ObservationSafe

LEMMA BeginPreserves ==
  ASSUME ExecutionInvariant, Begin PROVE ExecutionInvariant'
  <1> USE DEF ExecutionInvariant
  <1>1. /\ pc = "begin" /\ pc' = "preflight"
        /\ UNCHANGED <<request, gvisor, obs, result, answer, requests, box,
                         disk, cancelled, expired, flooded, grace, exe,
                         expected, runsc, stopped, launched>>
    BY DEF Begin, Go, Passive, Quiet, inputVars, clockVars, hostVars, daemonVars
  <1>2. obs' \in Observed' BY <1>1 DEF TypeOK, Observed
  <1>3. TypeOK'
    <2>1. pc' \in Stages BY <1>1 DEF TypeOK, Stages, Early, Launching, Cleaning, Closing
    <2>9. QED BY <1>1, <1>2, <2>1 DEF TypeOK, Stages
  <1>4. ContainerSafe'
    BY <1>1, <1>2, <1>3 DEF ContainerSafe, ContainerHasIntent, SurvivorIsReported, OnlyConformingRuns,
           NothingAsked, CleanupOwed, BoxLife, Validated, Early, Launching, Cleaning, Closing
  <1>5. ObservationSafe'
    BY <1>1, <1>2, <1>3 DEF ObservationSafe, CancellationReported, StatusSeen, DriftsOnce, EvidenceHeld,
           StopRemembered, OutOfMemory, Early, Launching, Cleaning, Closing
  <1>6. QED BY <1>3, <1>4, <1>5 DEF ContainerSafe, ObservationSafe

LEMMA PreflightPreserves ==
  ASSUME ExecutionInvariant, Preflight PROVE ExecutionInvariant'
  <1> USE DEF ExecutionInvariant
  <1>1. /\ pc = "preflight" /\ pc' = "intent" /\ expected' = exe
        /\ Admitted(request, gvisor)
        /\ obs' = [obs EXCEPT !.named = TRUE]
        /\ UNCHANGED <<request, gvisor, result, answer, requests, box, disk,
                         cancelled, expired, flooded, grace, exe, runsc,
                         stopped, launched>>
    BY DEF Preflight, Go, Passive, Quiet, inputVars, clockVars, hostVars,
           daemonVars, WithinBudget
  <1>2. /\ obs' \in Observed'
        /\ obs'.named = TRUE
        /\ obs'.status = obs.status /\ obs'.cleanup = obs.cleanup /\ obs'.exit = obs.exit
        /\ obs'.artifacts = obs.artifacts /\ obs'.published = obs.published /\ obs'.why = obs.why
    BY <1>1 DEF TypeOK, Observed
  <1>3. TypeOK'
    <2>1. pc' \in Stages BY <1>1 DEF TypeOK, Stages, Early, Launching, Cleaning, Closing
    <2>9. QED BY <1>1, <1>2, <2>1 DEF TypeOK, Stages
  <1>4. ContainerSafe'
    BY <1>1, <1>2, <1>3 DEF ContainerSafe, ContainerHasIntent, SurvivorIsReported, OnlyConformingRuns,
           NothingAsked, CleanupOwed, BoxLife, Validated, Early, Launching, Cleaning, Closing
  <1>5. ObservationSafe'
    BY <1>1, <1>2, <1>3 DEF ObservationSafe, CancellationReported, StatusSeen, DriftsOnce, EvidenceHeld,
           StopRemembered, OutOfMemory, Early, Launching, Cleaning, Closing
  <1>6. QED BY <1>3, <1>4, <1>5 DEF ContainerSafe, ObservationSafe

LEMMA WriteIntentPreserves ==
  ASSUME ExecutionInvariant, WriteIntent PROVE ExecutionInvariant'
  <1> USE DEF ExecutionInvariant
  <1>1. /\ pc = "intent" /\ pc' = "create" /\ expected' \in {expected, exe}
        /\ disk' = disk \cup {"intent"}
        /\ obs' = [obs EXCEPT !.cleanup = "unconfirmed"]
        /\ UNCHANGED <<request, gvisor, result, answer, requests, box,
                         cancelled, expired, flooded, grace, exe, runsc,
                         stopped, launched>>
    BY DEF WriteIntent, Go, Passive, Quiet, inputVars, clockVars, hostVars,
           daemonVars
  <1>2. /\ obs' \in Observed'
        /\ obs'.cleanup = "unconfirmed"
        /\ obs'.status = obs.status /\ obs'.exit = obs.exit /\ obs'.artifacts = obs.artifacts
        /\ obs'.named = obs.named /\ obs'.published = obs.published /\ obs'.why = obs.why
    BY <1>1 DEF TypeOK, Observed, Cleanups
  <1>3. TypeOK'
    <2>1. pc' \in Stages BY <1>1 DEF TypeOK, Stages, Early, Launching, Cleaning, Closing
    <2>9. QED BY <1>1, <1>2, <2>1 DEF TypeOK, Stages
  <1>4. ContainerSafe'
    BY <1>1, <1>2, <1>3 DEF ContainerSafe, ContainerHasIntent, SurvivorIsReported, OnlyConformingRuns,
           NothingAsked, CleanupOwed, BoxLife, Validated, Early, Launching, Cleaning, Closing
  <1>5. ObservationSafe'
    BY <1>1, <1>2, <1>3 DEF ObservationSafe, CancellationReported, StatusSeen, DriftsOnce, EvidenceHeld,
           StopRemembered, OutOfMemory, Early, Launching, Cleaning, Closing
  <1>6. QED BY <1>3, <1>4, <1>5 DEF ContainerSafe, ObservationSafe

(* An error before anything is owned ends execute with the record as it is.*)
LEMMA EarlyEndPreserves ==
  ASSUME ExecutionInvariant, NEW f \in Failures, pc \in Early, FailsEarly(f), UNCHANGED obs,
         stopped' \in BOOLEAN, stopped' /\ ~gvisor => f = "cancelled"  PROVE ExecutionInvariant'
  <1> USE DEF ExecutionInvariant
  <1>1. /\ pc' = "classify" /\ result' = f
        /\ UNCHANGED <<request, gvisor, obs, answer, requests, box, disk,
                         cancelled, expired, flooded, grace, exe, expected,
                         runsc, launched>>
    BY DEF FailsEarly, FailsEarly, Go, Passive, Quiet, inputVars, clockVars,
           hostVars, daemonVars
  <1>2. obs' \in Observed' BY <1>1 DEF TypeOK, Observed
  <1>3. TypeOK'
    <2>1. pc' \in Stages BY <1>1 DEF TypeOK, Stages, Early, Launching, Cleaning, Closing
    <2>9. QED BY <1>1, <1>2, <2>1 DEF TypeOK, Stages
  <1>4. ContainerSafe'
    BY <1>1, <1>2, <1>3 DEF ContainerSafe, ContainerHasIntent, SurvivorIsReported, OnlyConformingRuns,
           NothingAsked, CleanupOwed, BoxLife, Validated, Early, Launching, Cleaning, Closing
  <1>5. ObservationSafe'
    BY <1>1, <1>2, <1>3 DEF ObservationSafe, CancellationReported, StatusSeen, DriftsOnce, EvidenceHeld,
           StopRemembered, OutOfMemory, Early, Launching, Cleaning, Closing
  <1>6. QED BY <1>3, <1>4, <1>5 DEF ContainerSafe, ObservationSafe

LEMMA EarlyFailures ==
  ASSUME ExecutionInvariant, PreflightRefuses \/ PreflightStops \/ VersionStops \/ IntentFails
  PROVE  ExecutionInvariant'
  <1>0. \/ /\ ~stopped /\ stopped \in BOOLEAN
           /\ ControlStops \subseteq {"cancelled", "timeout"}
        \/ pc \notin Early
    BY DEF ExecutionInvariant, TypeOK, StopRemembered, ControlStops
  <1>1. CASE PreflightRefuses
    BY <1>0, <1>1, EarlyEndPreserves DEF PreflightRefuses, Failures, Early
  <1>2. CASE PreflightStops
    BY <1>0, <1>2, EarlyEndPreserves DEF PreflightStops, Failures, Early
  <1>3. CASE VersionStops
    BY <1>0, <1>3, EarlyEndPreserves DEF VersionStops, Failures, Early
  <1>4. CASE IntentFails
    <2>1. (IF WithinBudget THEN "plain" ELSE CheckBudget) \in Failures
      BY DEF WithinBudget, CheckBudget, Failures
    <2>2. QED BY <1>0, <1>4, <2>1, EarlyEndPreserves DEF IntentFails, Early
  <1>5. QED BY <1>1, <1>2, <1>3, <1>4

----------------------------------------------------------------------------
(* The launched part.                                                      *)

LEMMA CreatePreserves ==
  ASSUME ExecutionInvariant, Create PROVE ExecutionInvariant'
  <1> USE DEF ExecutionInvariant
  <1>1. /\ pc = "create" /\ pc' = "creating"
        /\ requests' = requests \cup {"create"} /\ answer' = Null /\ flooded' = FALSE
        /\ UNCHANGED <<request, gvisor, obs, result, box, disk, cancelled,
                         expired, grace, exe, expected, runsc, stopped, launched>>
    BY DEF Create, Go, Passive, Quiet, inputVars, clockVars, hostVars,
           daemonVars, Spawns
  <1>2. obs' \in Observed' BY <1>1 DEF TypeOK, Observed
  <1>3. TypeOK'
    <2>1. pc' \in Stages BY <1>1 DEF TypeOK, Stages, Early, Launching, Cleaning, Closing
    <2>9. QED BY <1>1, <1>2, <2>1 DEF TypeOK, Stages
  <1>4. ContainerSafe'
    BY <1>1, <1>2, <1>3 DEF ContainerSafe, ContainerHasIntent, SurvivorIsReported, OnlyConformingRuns,
           NothingAsked, CleanupOwed, BoxLife, Validated, Early, Launching, Cleaning, Closing
  <1>5. ObservationSafe'
    BY <1>1, <1>2, <1>3 DEF ObservationSafe, CancellationReported, StatusSeen, DriftsOnce, EvidenceHeld,
           StopRemembered, OutOfMemory, Early, Launching, Cleaning, Closing
  <1>6. QED BY <1>3, <1>4, <1>5 DEF ContainerSafe, ObservationSafe

LEMMA CreateReturnsPreserves ==
  ASSUME ExecutionInvariant, CreateReturns PROVE ExecutionInvariant'
  <1> USE DEF ExecutionInvariant
  <1>1. /\ pc = "creating" /\ pc' = "inspect"
        /\ UNCHANGED <<request, gvisor, obs, result, answer, requests, box,
                         disk, cancelled, expired, flooded, grace, exe,
                         expected, runsc, stopped, launched>>
    BY DEF CreateReturns, Go, Passive, Quiet, inputVars, clockVars, hostVars,
           daemonVars
  <1>2. obs' \in Observed' BY <1>1 DEF TypeOK, Observed
  <1>3. TypeOK'
    <2>1. pc' \in Stages BY <1>1 DEF TypeOK, Stages, Early, Launching, Cleaning, Closing
    <2>9. QED BY <1>1, <1>2, <2>1 DEF TypeOK, Stages
  <1>4. ContainerSafe'
    BY <1>1, <1>2, <1>3 DEF ContainerSafe, ContainerHasIntent, SurvivorIsReported, OnlyConformingRuns,
           NothingAsked, CleanupOwed, BoxLife, Validated, Early, Launching, Cleaning, Closing
  <1>5. ObservationSafe'
    BY <1>1, <1>2, <1>3 DEF ObservationSafe, CancellationReported, StatusSeen, DriftsOnce, EvidenceHeld,
           StopRemembered, OutOfMemory, Early, Launching, Cleaning, Closing
  <1>6. QED BY <1>3, <1>4, <1>5 DEF ContainerSafe, ObservationSafe

LEMMA InspectPreserves ==
  ASSUME ExecutionInvariant, Inspect PROVE ExecutionInvariant'
  <1> USE DEF ExecutionInvariant
  <1>1. /\ pc = "inspect" /\ pc' = "verify" /\ box.conforms
        /\ disk' = IF gvisor THEN disk \cup {"container"} ELSE disk
        /\ UNCHANGED <<request, gvisor, obs, result, answer, requests, box,
                         cancelled, expired, flooded, grace, exe, expected,
                         runsc, stopped, launched>>
    BY DEF Inspect, Go, Passive, Quiet, inputVars, clockVars, hostVars,
           daemonVars, ValidContainer
  <1>2. obs' \in Observed' BY <1>1 DEF TypeOK, Observed
  <1>3. TypeOK'
    <2>1. pc' \in Stages BY <1>1 DEF TypeOK, Stages, Early, Launching, Cleaning, Closing
    <2>9. QED BY <1>1, <1>2, <2>1 DEF TypeOK, Stages
  <1>4. ContainerSafe'
    BY <1>1, <1>2, <1>3 DEF ContainerSafe, ContainerHasIntent, SurvivorIsReported, OnlyConformingRuns,
           NothingAsked, CleanupOwed, BoxLife, Validated, Early, Launching, Cleaning, Closing
  <1>5. ObservationSafe'
    BY <1>1, <1>2, <1>3 DEF ObservationSafe, CancellationReported, StatusSeen, DriftsOnce, EvidenceHeld,
           StopRemembered, OutOfMemory, Early, Launching, Cleaning, Closing
  <1>6. QED BY <1>3, <1>4, <1>5 DEF ContainerSafe, ObservationSafe

LEMMA VerifyPreserves ==
  ASSUME ExecutionInvariant, Verify PROVE ExecutionInvariant'
  <1> USE DEF ExecutionInvariant
  <1>1. /\ pc = "verify" /\ pc' = "start"
        /\ UNCHANGED <<request, gvisor, obs, result, answer, requests, box,
                         disk, cancelled, expired, flooded, grace, exe,
                         expected, runsc, stopped, launched>>
    BY DEF Verify, Go, Passive, Quiet, inputVars, clockVars, hostVars,
           daemonVars
  <1>2. obs' \in Observed' BY <1>1 DEF TypeOK, Observed
  <1>3. TypeOK'
    <2>1. pc' \in Stages BY <1>1 DEF TypeOK, Stages, Early, Launching, Cleaning, Closing
    <2>9. QED BY <1>1, <1>2, <2>1 DEF TypeOK, Stages
  <1>4. ContainerSafe'
    BY <1>1, <1>2, <1>3 DEF ContainerSafe, ContainerHasIntent, SurvivorIsReported, OnlyConformingRuns,
           NothingAsked, CleanupOwed, BoxLife, Validated, Early, Launching, Cleaning, Closing
  <1>5. ObservationSafe'
    BY <1>1, <1>2, <1>3 DEF ObservationSafe, CancellationReported, StatusSeen, DriftsOnce, EvidenceHeld,
           StopRemembered, OutOfMemory, Early, Launching, Cleaning, Closing
  <1>6. QED BY <1>3, <1>4, <1>5 DEF ContainerSafe, ObservationSafe

LEMMA StartPreserves ==
  ASSUME ExecutionInvariant, Start PROVE ExecutionInvariant'
  <1> USE DEF ExecutionInvariant
  <1>1. /\ pc = "start" /\ pc' = "starting"
        /\ requests' = requests \cup {"start"} /\ answer' = Null /\ flooded' = FALSE
        /\ obs' = [obs EXCEPT !.status = "unknown_outcome"]
        /\ UNCHANGED <<request, gvisor, result, box, disk, cancelled,
                         expired, grace, exe, expected, runsc, stopped, launched>>
    BY DEF Start, Go, Passive, Quiet, inputVars, clockVars, hostVars,
           daemonVars, Spawns
  <1>2. /\ obs' \in Observed'
        /\ obs'.status = "unknown_outcome"
        /\ obs'.cleanup = obs.cleanup /\ obs'.exit = obs.exit /\ obs'.artifacts = obs.artifacts
        /\ obs'.named = obs.named /\ obs'.published = obs.published /\ obs'.why = obs.why
    BY <1>1 DEF TypeOK, Observed, Statuses
  <1>3. TypeOK'
    <2>1. pc' \in Stages BY <1>1 DEF TypeOK, Stages, Early, Launching, Cleaning, Closing
    <2>9. QED BY <1>1, <1>2, <2>1 DEF TypeOK, Stages
  <1>4. ContainerSafe'
    BY <1>1, <1>2, <1>3 DEF ContainerSafe, ContainerHasIntent, SurvivorIsReported, OnlyConformingRuns,
           NothingAsked, CleanupOwed, BoxLife, Validated, Early, Launching, Cleaning, Closing
  <1>5. ObservationSafe'
    BY <1>1, <1>2, <1>3 DEF ObservationSafe, CancellationReported, StatusSeen, DriftsOnce, EvidenceHeld,
           StopRemembered, OutOfMemory, Early, Launching, Cleaning, Closing
  <1>6. QED BY <1>3, <1>4, <1>5 DEF ContainerSafe, ObservationSafe

LEMMA StartReturnsPreserves ==
  ASSUME ExecutionInvariant, StartReturns PROVE ExecutionInvariant'
  <1> USE DEF ExecutionInvariant
  <1>1. /\ pc = "starting" /\ pc' = "outcome"
        /\ UNCHANGED <<request, gvisor, obs, result, answer, requests, box,
                         disk, cancelled, expired, flooded, grace, exe,
                         expected, runsc, stopped, launched>>
    BY DEF StartReturns, Go, Passive, Quiet, inputVars, clockVars, hostVars,
           daemonVars
  <1>2. obs' \in Observed' BY <1>1 DEF TypeOK, Observed
  <1>3. TypeOK'
    <2>1. pc' \in Stages BY <1>1 DEF TypeOK, Stages, Early, Launching, Cleaning, Closing
    <2>9. QED BY <1>1, <1>2, <2>1 DEF TypeOK, Stages
  <1>4. ContainerSafe'
    BY <1>1, <1>2, <1>3 DEF ContainerSafe, ContainerHasIntent, SurvivorIsReported, OnlyConformingRuns,
           NothingAsked, CleanupOwed, BoxLife, Validated, Early, Launching, Cleaning, Closing
  <1>5. ObservationSafe'
    BY <1>1, <1>2, <1>3 DEF ObservationSafe, CancellationReported, StatusSeen, DriftsOnce, EvidenceHeld,
           StopRemembered, OutOfMemory, Early, Launching, Cleaning, Closing
  <1>6. QED BY <1>3, <1>4, <1>5 DEF ContainerSafe, ObservationSafe

LEMMA OutcomePreserves ==
  ASSUME ExecutionInvariant, Outcome PROVE ExecutionInvariant'
  <1> USE DEF ExecutionInvariant
  <1>1. /\ pc = "outcome" /\ pc' = "collect" /\ box.state = "exited" /\ box.conforms
        /\ obs' = [obs EXCEPT !.status = ObservedStatus, !.exit = box.exit]
        /\ UNCHANGED <<request, gvisor, result, answer, requests, box, disk,
                         cancelled, expired, flooded, grace, exe, expected,
                         runsc, stopped, launched>>
    BY DEF Outcome, Go, Passive, Quiet, inputVars, clockVars, hostVars,
           daemonVars, ValidContainer
  <1>2. /\ obs' \in Observed'
        /\ obs'.status = ObservedStatus
        /\ obs'.exit = box.exit
        /\ obs'.cleanup = obs.cleanup /\ obs'.artifacts = obs.artifacts /\ obs'.named = obs.named
        /\ obs'.published = obs.published /\ obs'.why = obs.why
    BY <1>1, ObservedStatusSays DEF TypeOK, Observed, Statuses, Boxes
  <1>3. TypeOK'
    <2>1. pc' \in Stages BY <1>1 DEF TypeOK, Stages, Early, Launching, Cleaning, Closing
    <2>9. QED BY <1>1, <1>2, <2>1 DEF TypeOK, Stages
  <1>4. ContainerSafe'
    BY <1>1, <1>2, <1>3 DEF ContainerSafe, ContainerHasIntent, SurvivorIsReported, OnlyConformingRuns,
           NothingAsked, CleanupOwed, BoxLife, Validated, Early, Launching, Cleaning, Closing
  <1>5. ObservationSafe'
    BY <1>1, <1>2, <1>3, ObservedStatusSays DEF ObservationSafe, CancellationReported, StatusSeen, DriftsOnce, EvidenceHeld,
           StopRemembered, OutOfMemory, Early, Launching, Cleaning, Closing, BoxLife
  <1>6. QED BY <1>3, <1>4, <1>5 DEF ContainerSafe, ObservationSafe

LEMMA CollectPreserves ==
  ASSUME ExecutionInvariant, Collect PROVE ExecutionInvariant'
  <1> USE DEF ExecutionInvariant
  <1>1. /\ pc = "collect" /\ pc' = "rehash"
        /\ obs' = [obs EXCEPT !.artifacts = request.outputs]
        /\ UNCHANGED <<request, gvisor, result, answer, requests, box, disk,
                         cancelled, expired, flooded, grace, exe, expected,
                         runsc, stopped, launched>>
    BY DEF Collect, Go, Passive, Quiet, inputVars, clockVars, hostVars,
           daemonVars
  <1>2. /\ obs' \in Observed'
        /\ obs'.artifacts = request.outputs
        /\ obs'.status = obs.status /\ obs'.cleanup = obs.cleanup /\ obs'.exit = obs.exit
        /\ obs'.named = obs.named /\ obs'.published = obs.published /\ obs'.why = obs.why
    BY <1>1 DEF TypeOK, Observed
  <1>3. TypeOK'
    <2>1. pc' \in Stages BY <1>1 DEF TypeOK, Stages, Early, Launching, Cleaning, Closing
    <2>9. QED BY <1>1, <1>2, <2>1 DEF TypeOK, Stages
  <1>4. ContainerSafe'
    BY <1>1, <1>2, <1>3 DEF ContainerSafe, ContainerHasIntent, SurvivorIsReported, OnlyConformingRuns,
           NothingAsked, CleanupOwed, BoxLife, Validated, Early, Launching, Cleaning, Closing
  <1>5. ObservationSafe'
    BY <1>1, <1>2, <1>3 DEF ObservationSafe, CancellationReported, StatusSeen, DriftsOnce, EvidenceHeld,
           StopRemembered, OutOfMemory, Early, Launching, Cleaning, Closing
  <1>6. QED BY <1>3, <1>4, <1>5 DEF ContainerSafe, ObservationSafe

LEMMA OutcomeFailsPreserves ==
  ASSUME ExecutionInvariant, OutcomeFails PROVE ExecutionInvariant'
  <1> USE DEF ExecutionInvariant
  <1>0. PICK f \in Failures, x \in {obs.exit} \cup (IF box.exit = 137 THEN {137} ELSE {}) :
          Ends(f) /\ obs' = [obs EXCEPT !.exit = x] /\ stopped' = (f = "cancelled")
    BY DEF OutcomeFails
  <1>x. x \in Codes \cup {Null} /\ (x = obs.exit \/ x = box.exit)
    BY <1>0 DEF TypeOK, Observed, Codes
  <1>1. /\ pc = "outcome" /\ pc' = "probe" /\ grace' = "open"
        /\ result' = f /\ obs' = [obs EXCEPT !.exit = x] /\ stopped' = (f = "cancelled")
        /\ UNCHANGED <<request, gvisor, answer, requests, box, disk,
                         cancelled, expired, flooded, exe, expected, runsc,
                         launched>>
    BY <1>0 DEF OutcomeFails, Ends, Go, Passive, Quiet, inputVars, clockVars,
           hostVars, daemonVars
  <1>2. /\ obs' \in Observed'
        /\ obs'.exit = x
        /\ obs'.status = obs.status /\ obs'.cleanup = obs.cleanup /\ obs'.artifacts = obs.artifacts
        /\ obs'.named = obs.named /\ obs'.published = obs.published /\ obs'.why = obs.why
    BY <1>1, <1>x DEF TypeOK, Observed, Boxes
  <1>3. TypeOK'
    <2>1. pc' \in Stages BY <1>1 DEF TypeOK, Stages, Early, Launching, Cleaning, Closing
    <2>9. QED BY <1>1, <1>2, <1>0, <1>x, <2>1 DEF TypeOK, Stages
  <1>4. ContainerSafe'
    BY <1>1, <1>2, <1>0, <1>x, <1>3 DEF ContainerSafe, ContainerHasIntent, SurvivorIsReported, OnlyConformingRuns,
           NothingAsked, CleanupOwed, BoxLife, Validated, Early, Launching, Cleaning, Closing
  <1>5. ObservationSafe'
    BY <1>1, <1>2, <1>0, <1>x, <1>3 DEF ObservationSafe, CancellationReported, StatusSeen, DriftsOnce, EvidenceHeld,
           StopRemembered, OutOfMemory, Early, Launching, Cleaning, Closing
  <1>6. QED BY <1>3, <1>4, <1>5 DEF ContainerSafe, ObservationSafe

----------------------------------------------------------------------------
(* Probe, cleanup and publication.                                         *)

LEMMA SkipProbePreserves ==
  ASSUME ExecutionInvariant, SkipProbe PROVE ExecutionInvariant'
  <1> USE DEF ExecutionInvariant
  <1>1. /\ pc = "probe" /\ pc' = "cleanup" /\ ~gvisor
        /\ grace' = "open"
        /\ UNCHANGED <<request, gvisor, obs, result, answer, requests, box,
                         disk, cancelled, expired, flooded, exe, expected,
                         runsc, stopped, launched>>
    BY DEF SkipProbe, Reopens, Go, Passive, Quiet, inputVars, clockVars,
           hostVars, daemonVars
  <1>2. obs' \in Observed' BY <1>1 DEF TypeOK, Observed
  <1>3. TypeOK'
    <2>1. pc' \in Stages BY <1>1 DEF TypeOK, Stages, Early, Launching, Cleaning, Closing
    <2>9. QED BY <1>1, <1>2, <2>1 DEF TypeOK, Stages
  <1>4. ContainerSafe'
    BY <1>1, <1>2, <1>3 DEF ContainerSafe, ContainerHasIntent, SurvivorIsReported, OnlyConformingRuns,
           NothingAsked, CleanupOwed, BoxLife, Validated, Early, Launching, Cleaning, Closing
  <1>5. ObservationSafe'
    BY <1>1, <1>2, <1>3 DEF ObservationSafe, CancellationReported, StatusSeen, DriftsOnce, EvidenceHeld,
           StopRemembered, OutOfMemory, Early, Launching, Cleaning, Closing
  <1>6. QED BY <1>3, <1>4, <1>5 DEF ContainerSafe, ObservationSafe

LEMMA CleanupInspectsPreserves ==
  ASSUME ExecutionInvariant, CleanupInspects PROVE ExecutionInvariant'
  <1> USE DEF ExecutionInvariant
  <1>1. /\ pc = "cleanup" /\ pc' = "remove" /\ box.state \in Owned
        /\ UNCHANGED <<request, gvisor, obs, result, answer, requests, box,
                         disk, cancelled, expired, flooded, grace, exe,
                         expected, runsc, stopped, launched>>
    BY DEF CleanupInspects, CleanupOnly, OwnerMatches, Go, Passive, Quiet,
           inputVars, clockVars, hostVars, daemonVars
  <1>2. obs' \in Observed' BY <1>1 DEF TypeOK, Observed
  <1>3. TypeOK'
    <2>1. pc' \in Stages BY <1>1 DEF TypeOK, Stages, Early, Launching, Cleaning, Closing
    <2>9. QED BY <1>1, <1>2, <2>1 DEF TypeOK, Stages
  <1>4. ContainerSafe'
    BY <1>1, <1>2, <1>3 DEF ContainerSafe, ContainerHasIntent, SurvivorIsReported, OnlyConformingRuns,
           NothingAsked, CleanupOwed, BoxLife, Validated, Early, Launching, Cleaning, Closing
  <1>5. ObservationSafe'
    BY <1>1, <1>2, <1>3 DEF ObservationSafe, CancellationReported, StatusSeen, DriftsOnce, EvidenceHeld,
           StopRemembered, OutOfMemory, Early, Launching, Cleaning, Closing
  <1>6. QED BY <1>3, <1>4, <1>5 DEF ContainerSafe, ObservationSafe

LEMMA CleanupRemovesPreserves ==
  ASSUME ExecutionInvariant, CleanupRemoves PROVE ExecutionInvariant'
  <1> USE DEF ExecutionInvariant
  <1>1. /\ pc = "remove" /\ pc' = "removing"
        /\ requests' = requests \cup {"rm"} /\ answer' = Null /\ flooded' = FALSE
        /\ UNCHANGED <<request, gvisor, obs, result, box, disk, cancelled,
                         expired, grace, exe, expected, runsc, stopped, launched>>
    BY DEF CleanupRemoves, Go, Passive, Quiet, inputVars, clockVars, hostVars,
           daemonVars
  <1>2. obs' \in Observed' BY <1>1 DEF TypeOK, Observed
  <1>3. TypeOK'
    <2>1. pc' \in Stages BY <1>1 DEF TypeOK, Stages, Early, Launching, Cleaning, Closing
    <2>9. QED BY <1>1, <1>2, <2>1 DEF TypeOK, Stages
  <1>4. ContainerSafe'
    BY <1>1, <1>2, <1>3 DEF ContainerSafe, ContainerHasIntent, SurvivorIsReported, OnlyConformingRuns,
           NothingAsked, CleanupOwed, BoxLife, Validated, Early, Launching, Cleaning, Closing
  <1>5. ObservationSafe'
    BY <1>1, <1>2, <1>3 DEF ObservationSafe, CancellationReported, StatusSeen, DriftsOnce, EvidenceHeld,
           StopRemembered, OutOfMemory, Early, Launching, Cleaning, Closing
  <1>6. QED BY <1>3, <1>4, <1>5 DEF ContainerSafe, ObservationSafe

LEMMA CleanupRemovedPreserves ==
  ASSUME ExecutionInvariant, CleanupRemoved PROVE ExecutionInvariant'
  <1> USE DEF ExecutionInvariant
  <1>1. /\ pc = "removing" /\ pc' = "confirm"
        /\ UNCHANGED <<request, gvisor, obs, result, answer, requests, box,
                         disk, cancelled, expired, flooded, grace, exe,
                         expected, runsc, stopped, launched>>
    BY DEF CleanupRemoved, CleanupOnly, Go, Passive, Quiet, inputVars,
           clockVars, hostVars, daemonVars
  <1>2. obs' \in Observed' BY <1>1 DEF TypeOK, Observed
  <1>3. TypeOK'
    <2>1. pc' \in Stages BY <1>1 DEF TypeOK, Stages, Early, Launching, Cleaning, Closing
    <2>9. QED BY <1>1, <1>2, <2>1 DEF TypeOK, Stages
  <1>4. ContainerSafe'
    BY <1>1, <1>2, <1>3 DEF ContainerSafe, ContainerHasIntent, SurvivorIsReported, OnlyConformingRuns,
           NothingAsked, CleanupOwed, BoxLife, Validated, Early, Launching, Cleaning, Closing
  <1>5. ObservationSafe'
    BY <1>1, <1>2, <1>3 DEF ObservationSafe, CancellationReported, StatusSeen, DriftsOnce, EvidenceHeld,
           StopRemembered, OutOfMemory, Early, Launching, Cleaning, Closing
  <1>6. QED BY <1>3, <1>4, <1>5 DEF ContainerSafe, ObservationSafe

LEMMA ClassifyPreserves ==
  ASSUME ExecutionInvariant, Classify PROVE ExecutionInvariant'
  <1> USE DEF ExecutionInvariant
  <1>1. /\ pc = "classify" /\ pc' \in {"publish", "returned"}
        /\ obs' = [obs EXCEPT !.status = FinalStatus]
        /\ UNCHANGED <<request, gvisor, result, answer, requests, box, disk,
                         cancelled, expired, flooded, grace, exe, expected,
                         runsc, stopped, launched>>
    BY DEF Classify, Go, Passive, Quiet, inputVars, clockVars, hostVars,
           daemonVars
  <1>2. /\ obs' \in Observed'
        /\ obs'.status = FinalStatus
        /\ obs'.cleanup = obs.cleanup /\ obs'.exit = obs.exit /\ obs'.artifacts = obs.artifacts
        /\ obs'.named = obs.named /\ obs'.published = obs.published /\ obs'.why = obs.why
    BY <1>1, FinalStatusSays DEF TypeOK, Observed
  <1>3. TypeOK'
    <2>1. pc' \in Stages BY <1>1 DEF TypeOK, Stages, Early, Launching, Cleaning, Closing
    <2>9. QED BY <1>1, <1>2, <2>1 DEF TypeOK, Stages
  <1>4. ContainerSafe'
    BY <1>1, <1>2, <1>3, FinalStatusSays, HeldIsUnconfirmed DEF ContainerSafe, ContainerHasIntent, SurvivorIsReported, OnlyConformingRuns,
           NothingAsked, CleanupOwed, BoxLife, Validated, Early, Launching, Cleaning, Closing
  <1>5. ObservationSafe'
    BY <1>1, <1>2, <1>3, FinalStatusSays DEF ObservationSafe, CancellationReported, StatusSeen, DriftsOnce, EvidenceHeld,
           StopRemembered, OutOfMemory, Early, Launching, Cleaning, Closing
  <1>6. QED BY <1>3, <1>4, <1>5 DEF ContainerSafe, ObservationSafe

LEMMA HardKillPreserves ==
  ASSUME ExecutionInvariant, HardKill PROVE ExecutionInvariant'
  <1> USE DEF ExecutionInvariant
  <1>1. /\ pc' = "killed" /\ pc \notin {"returned", "killed"}
        /\ obs' = Blank /\ result' = "ok" /\ expected' = Null /\ stopped' = FALSE
        /\ answer' = Null /\ flooded' = FALSE
        /\ UNCHANGED <<request, gvisor, requests, box, disk, cancelled,
                         expired, grace, exe, runsc, launched>>
    BY DEF HardKill, Over, Go, Passive, Quiet, inputVars, clockVars, hostVars,
           daemonVars
  <1>2. obs' \in Observed' BY <1>1 DEF TypeOK, Observed, Blank, Statuses, Cleanups
  <1>3. TypeOK'
    <2>1. pc' \in Stages BY <1>1 DEF TypeOK, Stages, Early, Launching, Cleaning, Closing
    <2>9. QED BY <1>1, <1>2, <2>1 DEF TypeOK, Stages
  <1>4. ContainerSafe'
    BY <1>1, <1>2, <1>3 DEF ContainerSafe, ContainerHasIntent, SurvivorIsReported, OnlyConformingRuns,
           NothingAsked, CleanupOwed, BoxLife, Validated, Early, Launching, Cleaning, Closing, Blank
  <1>5. ObservationSafe'
    BY <1>1, <1>2, <1>3, AbsenceAssumption DEF ObservationSafe, CancellationReported, StatusSeen, DriftsOnce, EvidenceHeld,
           StopRemembered, OutOfMemory, Early, Launching, Cleaning, Closing, Blank
  <1>6. QED BY <1>3, <1>4, <1>5 DEF ContainerSafe, ObservationSafe

(* Whatever stops a call that is waited for.                               *)
LEMMA StopsAreFailures ==
  /\ ControlStops \subseteq {"cancelled", "timeout"}
  /\ StopStatuses \subseteq {"output_overflow", "cancelled", "timed_out"}
  BY DEF ControlStops, StopStatuses

(* What the launched part knows of itself.                                 *)
LEMMA LaunchingFacts ==
  ASSUME ExecutionInvariant, pc \in Launching
  PROVE  /\ ~stopped /\ stopped \in BOOLEAN /\ disk \in Disks /\ obs.status \in Statuses
         /\ obs.status = "setup_failed" => "start" \notin requests /\ launched = Null
         /\ pc \in {"create", "creating", "inspect", "verify", "start"} =>
              obs.status = "setup_failed"
  BY DEF ExecutionInvariant, TypeOK, Observed, StopRemembered, StatusSeen, Launching, Disks

LEMMA NotSpawnedPreserves ==
  ASSUME ExecutionInvariant, NEW st \in {"setup_failed", "unknown_outcome"},
         pc \in {"create", "start"}, NotSpawned(st)
  PROVE  ExecutionInvariant'
  <1>1. pc \in Launching BY DEF Launching
  <1>2. PICK f \in ControlStops \cup {"plain"} : EndsWith(f, st) BY DEF NotSpawned
  <1>3. f \in Failures \cup {"ok"} BY <1>2, StopsAreFailures DEF Failures
  <1>4. UNCHANGED daemonVars /\ stopped' = stopped /\ disk' = disk BY DEF NotSpawned
  <1>5. st \in Statuses BY DEF Statuses
  <1>6. QED BY <1>1, <1>2, <1>3, <1>4, <1>5, LaunchingFacts, EndsWithPreserves

LEMMA StoppedPreserves ==
  ASSUME ExecutionInvariant, NEW s \in StopStatuses, pc \in {"creating", "starting"},
         EndsWith("ok", s), stopped' = (s = "cancelled"), UNCHANGED <<daemonVars, disk>>
  PROVE  ExecutionInvariant'
  <1>1. pc \in Launching BY DEF Launching
  <1>2. s \in Statuses /\ s \notin {"setup_failed", "exited"} BY StopsAreFailures DEF Statuses
  <1>3. UNCHANGED daemonVars /\ disk' = disk OBVIOUS
  <1>4. QED BY <1>1, <1>2, <1>3, LaunchingFacts, EndsWithPreserves

(* An end with an error that keeps the status.                             *)
LEMMA KeepingPreserves ==
  ASSUME ExecutionInvariant, pc \in Launching, NEW f \in Failures, EndsWith(f, obs.status),
         UNCHANGED daemonVars, disk' \in Disks, disk \subseteq disk',
         stopped' \in BOOLEAN, stopped' /\ ~gvisor => f = "cancelled"
  PROVE  ExecutionInvariant'
  <1>1. f # "ok" BY DEF Failures
  <1>2. QED BY <1>1, LaunchingFacts, EndsWithPreserves

LEMMA CreateEnds ==
  ASSUME ExecutionInvariant, CreateNotSpawned \/ CreateStopped \/ CreateFails
  PROVE  ExecutionInvariant'
  <1>0. pc \in Launching BY DEF CreateNotSpawned, CreateStopped, CreateFails, Launching
  <1>1. CASE CreateNotSpawned
    BY <1>0, <1>1, LaunchingFacts, NotSpawnedPreserves DEF CreateNotSpawned
  <1>2. CASE CreateStopped
    BY <1>2, StoppedPreserves DEF CreateStopped
  <1>3. CASE CreateFails
    <2>1. /\ EndsWith("ok", obs.status) /\ UNCHANGED daemonVars /\ stopped' = stopped /\ disk' = disk
          /\ obs.status = "setup_failed"
      BY <1>0, <1>3, LaunchingFacts DEF CreateFails
    <2>2. QED BY <1>0, <2>1, LaunchingFacts, EndsWithPreserves
  <1>4. QED BY <1>1, <1>2, <1>3

LEMMA StartEnds ==
  ASSUME ExecutionInvariant, StartNotSpawned \/ StartStopped PROVE ExecutionInvariant'
  <1>1. CASE StartNotSpawned
    BY <1>1, NotSpawnedPreserves DEF StartNotSpawned
  <1>2. CASE StartStopped
    BY <1>2, StoppedPreserves DEF StartStopped
  <1>3. QED BY <1>1, <1>2

LEMMA InspectEnds ==
  ASSUME ExecutionInvariant, InspectFails PROVE ExecutionInvariant'
  <1>1. pc \in Launching BY DEF InspectFails, Launching
  <1>2. PICK f \in ControlStops \cup {"plain"} :
          EndsWith(f, obs.status) /\ stopped' = (f = "cancelled")
    BY DEF InspectFails
  <1>3. f \in Failures BY <1>2, StopsAreFailures DEF Failures
  <1>4. UNCHANGED daemonVars /\ disk' \in Disks /\ disk \subseteq disk'
    BY <1>1, LaunchingFacts DEF InspectFails, Disks
  <1>5. QED BY <1>1, <1>2, <1>3, <1>4, KeepingPreserves

LEMMA VerifyEnds ==
  ASSUME ExecutionInvariant, VerifyFails \/ VerifyCancelled PROVE ExecutionInvariant'
  <1>0. /\ pc \in Launching /\ UNCHANGED daemonVars /\ disk' = disk
        /\ disk' \in Disks /\ disk \subseteq disk'
    <2>1. pc \in Launching /\ UNCHANGED daemonVars /\ disk' = disk
      BY DEF VerifyFails, VerifyCancelled, Launching
    <2>2. QED BY <2>1, LaunchingFacts
  <1>1. CASE VerifyFails
    <2>1. PICK f \in Failures : EndsWith(f, obs.status) /\ stopped' \in BOOLEAN
      <3>1. CASE EndsWith("plain", obs.status) /\ UNCHANGED stopped
        BY <1>0, <3>1, LaunchingFacts DEF Failures
      <3>2. CASE \E s \in ControlStops, f \in Failures :
                   f \in {s, "plain"} /\ EndsWith(f, obs.status) /\ stopped' = (s = "cancelled")
        BY <3>2
      <3>3. QED BY <1>1, <3>1, <3>2 DEF VerifyFails
    <2>2. gvisor BY <1>1 DEF VerifyFails
    <2>3. QED BY <1>0, <2>1, <2>2, KeepingPreserves
  <1>2. CASE VerifyCancelled
    <2>1. EndsWith("ok", "cancelled") /\ stopped' = stopped BY <1>2 DEF VerifyCancelled
    <2>2. "cancelled" \in Statuses BY DEF Statuses
    <2>3. QED BY <1>0, <2>1, <2>2, LaunchingFacts, EndsWithPreserves
  <1>3. QED BY <1>1, <1>2

LEMMA EvidenceEnds ==
  ASSUME ExecutionInvariant, Rehash \/ RehashFails \/ EvidenceFails PROVE ExecutionInvariant'
  <1>0. /\ pc \in Launching /\ UNCHANGED daemonVars /\ disk' = disk /\ stopped' = stopped
        /\ disk' \in Disks /\ disk \subseteq disk'
    <2>1. pc \in Launching /\ UNCHANGED daemonVars /\ disk' = disk /\ stopped' = stopped
      BY DEF Rehash, RehashFails, EvidenceFails, Launching
    <2>2. QED BY <2>1, LaunchingFacts
  <1>1. CASE Rehash
    <2>1. EndsWith("ok", obs.status) /\ pc = "rehash" /\ exe = expected
      BY <1>1 DEF Rehash, ExecutableChanged
    <2>2. QED BY <1>0, <2>1, LaunchingFacts, EndsWithPreserves
  <1>2. CASE RehashFails
    <2>1. EndsWith("plain", "unknown_outcome") BY <1>2 DEF RehashFails
    <2>2. "unknown_outcome" \in Statuses /\ "plain" \in Failures BY DEF Statuses, Failures
    <2>3. QED BY <1>0, <2>1, <2>2, LaunchingFacts, EndsWithPreserves
  <1>3. CASE EvidenceFails
    <2>1. (IF WithinBudget THEN "plain" ELSE CheckBudget) \in Failures
      BY DEF WithinBudget, CheckBudget, Failures
    <2>2. QED BY <1>0, <1>3, <2>1, LaunchingFacts, KeepingPreserves DEF EvidenceFails
  <1>4. QED BY <1>1, <1>2, <1>3

(* A cleanup that does not end in a removal gives a reason.                *)
LEMMA CleanupFailedPreserves ==
  ASSUME ExecutionInvariant, NEW r \in Reasons, pc \in Cleaning \ {"probe"},
         CleanupOnly, CleanupFailed(r)  PROVE ExecutionInvariant'
  <1> USE DEF ExecutionInvariant
  <1>1. /\ pc' = "classify"
        /\ obs' = [obs EXCEPT !.why = r]
        /\ UNCHANGED <<request, gvisor, result, answer, requests, box, disk,
                         cancelled, expired, flooded, grace, exe, expected,
                         runsc, stopped, launched>>
    BY DEF CleanupFailed, CleanupEnds, CleanupOnly, Go, Passive, Quiet,
           inputVars, clockVars, hostVars, daemonVars
  <1>2. /\ obs' \in Observed'
        /\ obs'.why = r
        /\ obs'.status = obs.status /\ obs'.cleanup = obs.cleanup /\ obs'.exit = obs.exit
        /\ obs'.artifacts = obs.artifacts /\ obs'.named = obs.named /\ obs'.published = obs.published
    BY <1>1 DEF TypeOK, Observed
  <1>3. TypeOK'
    <2>1. pc' \in Stages BY <1>1 DEF TypeOK, Stages, Early, Launching, Cleaning, Closing
    <2>9. QED BY <1>1, <1>2, <2>1 DEF TypeOK, Stages
  <1>4. ContainerSafe'
    BY <1>1, <1>2, <1>3, AbsenceAssumption DEF ContainerSafe, ContainerHasIntent, SurvivorIsReported, OnlyConformingRuns,
           NothingAsked, CleanupOwed, BoxLife, Validated, Early, Launching, Cleaning, Closing, Reasons
  <1>5. ObservationSafe'
    BY <1>1, <1>2, <1>3 DEF ObservationSafe, CancellationReported, StatusSeen, DriftsOnce, EvidenceHeld,
           StopRemembered, OutOfMemory, Early, Launching, Cleaning, Closing
  <1>6. QED BY <1>3, <1>4, <1>5 DEF ContainerSafe, ObservationSafe

(* A removal that has been confirmed.                                      *)
LEMMA CleanupSucceedsPreserves ==
  ASSUME ExecutionInvariant, pc = "confirm", Confirmed, CleanupOnly,
         CleanupEnds([obs EXCEPT !.cleanup = "removed"]) PROVE ExecutionInvariant'
  <1> USE DEF ExecutionInvariant
  <1>1. /\ pc' = "classify" /\ box.state = "removed"
        /\ obs' = [obs EXCEPT !.cleanup = "removed"]
        /\ UNCHANGED <<request, gvisor, result, answer, requests, box, disk,
                         cancelled, expired, flooded, grace, exe, expected,
                         runsc, stopped, launched>>
    BY DEF Confirmed, BoxLife, Owned, CleanupEnds, CleanupOnly, Go, Passive,
           Quiet, inputVars, clockVars, hostVars, daemonVars
  <1>2. /\ obs' \in Observed'
        /\ obs'.cleanup = "removed"
        /\ obs'.status = obs.status /\ obs'.exit = obs.exit /\ obs'.artifacts = obs.artifacts
        /\ obs'.named = obs.named /\ obs'.published = obs.published /\ obs'.why = obs.why
    BY <1>1 DEF TypeOK, Observed, Cleanups
  <1>3. TypeOK'
    <2>1. pc' \in Stages BY <1>1 DEF TypeOK, Stages, Early, Launching, Cleaning, Closing
    <2>9. QED BY <1>1, <1>2, <2>1 DEF TypeOK, Stages
  <1>4. ContainerSafe'
    BY <1>1, <1>2, <1>3 DEF ContainerSafe, ContainerHasIntent, SurvivorIsReported, OnlyConformingRuns,
           NothingAsked, CleanupOwed, BoxLife, Validated, Early, Launching, Cleaning, Closing
  <1>5. ObservationSafe'
    BY <1>1, <1>2, <1>3 DEF ObservationSafe, CancellationReported, StatusSeen, DriftsOnce, EvidenceHeld,
           StopRemembered, OutOfMemory, Early, Launching, Cleaning, Closing
  <1>6. QED BY <1>3, <1>4, <1>5 DEF ContainerSafe, ObservationSafe

LEMMA CleanupFails ==
  ASSUME ExecutionInvariant, CleanupRefuses \/ CleanupStops \/ CleanupConfirms
  PROVE  ExecutionInvariant'
  <1>0. pc \in Cleaning \ {"probe"} /\ CleanupOnly
    BY DEF CleanupRefuses, CleanupStops, CleanupConfirms, Cleaning
  <1>1. CASE \E r \in Reasons : CleanupFailed(r)
    BY <1>0, <1>1, CleanupFailedPreserves
  <1>2. CASE CleanupRefuses
    <2>1. \E r \in Reasons : CleanupFailed(r) BY <1>2 DEF CleanupRefuses, Reasons
    <2>2. QED BY <1>1, <2>1
  <1>3. CASE CleanupStops
    <2>1. \E r \in Reasons : CleanupFailed(r) BY <1>3 DEF CleanupStops, Reasons
    <2>2. QED BY <1>1, <2>1
  <1>4. CASE CleanupConfirms /\ ~Confirmed
    <2>1. \E r \in Reasons : CleanupFailed(r) BY <1>4 DEF CleanupConfirms, Reasons
    <2>2. QED BY <1>1, <2>1
  <1>5. CASE CleanupConfirms /\ Confirmed
    BY <1>0, <1>5, CleanupSucceedsPreserves DEF CleanupConfirms
  <1>6. QED BY <1>2, <1>3, <1>4, <1>5

LEMMA ProbePreserves ==
  ASSUME ExecutionInvariant, Probe PROVE ExecutionInvariant'
  <1> USE DEF ExecutionInvariant
  <1> DEFINE Doubted(s, k) == (s # "adopted" \/ ~k) /\ obs.status = "exited" /\ obs.exit = 0
  <1>0. PICK seen \in {"adopted", "error"}, kept \in BOOLEAN :
          /\ seen = "adopted" => runsc = "adopted"
          /\ disk' = IF kept THEN disk \cup {"runtime"} ELSE disk
          /\ obs' = IF Doubted(seen, kept) THEN [obs EXCEPT !.status = "unknown_outcome"] ELSE obs
    BY DEF Probe
  <1>x. disk' \in Disks BY <1>0 DEF TypeOK, Disks
  <1>1. /\ pc = "probe" /\ pc' = "cleanup" /\ gvisor
        /\ grace' = "open" /\ disk' = IF kept THEN disk \cup {"runtime"} ELSE disk
        /\ UNCHANGED <<request, gvisor, result, answer, requests, box,
                         cancelled, expired, flooded, exe, expected, runsc,
                         stopped, launched>>
    BY <1>0 DEF Probe, Reopens, Go, Passive, Quiet, inputVars, clockVars, hostVars,
           daemonVars
  <1>2. /\ obs' \in Observed'
        /\ obs'.status = IF Doubted(seen, kept) THEN "unknown_outcome" ELSE obs.status
        /\ obs'.cleanup = obs.cleanup /\ obs'.exit = obs.exit /\ obs'.artifacts = obs.artifacts
        /\ obs'.named = obs.named /\ obs'.published = obs.published /\ obs'.why = obs.why
    <2>1. CASE Doubted(seen, kept)
      BY <1>0, <1>1, <2>1 DEF TypeOK, Observed, Statuses
    <2>2. CASE ~Doubted(seen, kept)
      BY <1>0, <1>1, <2>2 DEF TypeOK, Observed
    <2>3. QED BY <2>1, <2>2
  <1>y. /\ obs'.status = "exited" /\ obs.exit = 0 =>
             obs.status = "exited" /\ seen = "adopted" /\ "runtime" \in disk'
        /\ obs'.status = "exited" => obs.status = "exited"
    BY <1>0, <1>1, <1>2 DEF Doubted
  <1>3. TypeOK'
    <2>1. pc' \in Stages BY <1>1 DEF TypeOK, Stages, Early, Launching, Cleaning, Closing
    <2>9. QED BY <1>1, <1>2, <1>0, <1>x, <2>1 DEF TypeOK, Stages, Disks
  <1>4. ContainerSafe'
    BY <1>1, <1>2, <1>0, <1>x, <1>3 DEF ContainerSafe, ContainerHasIntent, SurvivorIsReported, OnlyConformingRuns,
           NothingAsked, CleanupOwed, BoxLife, Validated, Early, Launching, Cleaning, Closing, Doubted
  <1>5. ObservationSafe'
    <2>1. EvidenceHeld'
      BY <1>1, <1>2, <1>0, <1>x, <1>3, <1>y DEF EvidenceHeld, StatusSeen, DriftsOnce, BoxLife,
          Early, Launching, Cleaning, Closing
    <2>2. CancellationReported' /\ StatusSeen' /\ DriftsOnce' /\ StopRemembered'
      BY <1>1, <1>2, <1>0, <1>x, <1>3, <1>y DEF ObservationSafe, CancellationReported, StatusSeen, DriftsOnce, EvidenceHeld,
           StopRemembered, OutOfMemory, Early, Launching, Cleaning, Closing, BoxLife
    <2>3. QED BY <2>1, <2>2 DEF ObservationSafe
  <1>6. QED BY <1>3, <1>4, <1>5 DEF ContainerSafe, ObservationSafe

LEMMA PublishPreserves ==
  ASSUME ExecutionInvariant, Publish PROVE ExecutionInvariant'
  <1> USE DEF ExecutionInvariant
  <1>1. /\ pc = "publish" /\ pc' = "returned"
        /\ disk' \in {disk, disk \cup {"observation"}}
        /\ obs' = [obs EXCEPT !.published = "yes"] \/ obs' = [obs EXCEPT !.published = "failed"]
        /\ UNCHANGED <<request, gvisor, result, answer, requests, box,
                         cancelled, expired, flooded, grace, exe, expected,
                         runsc, stopped, launched>>
    BY DEF Publish, Go, Passive, Quiet, inputVars, clockVars, hostVars,
           daemonVars
  <1>2. /\ obs' \in Observed'
        /\ obs'.published = obs'.published
        /\ obs'.status = obs.status /\ obs'.cleanup = obs.cleanup /\ obs'.exit = obs.exit
        /\ obs'.artifacts = obs.artifacts /\ obs'.named = obs.named /\ obs'.why = obs.why
    BY <1>1 DEF TypeOK, Observed
  <1>3. TypeOK'
    <2>1. pc' \in Stages BY <1>1 DEF TypeOK, Stages, Early, Launching, Cleaning, Closing
    <2>9. QED BY <1>1, <1>2, <2>1 DEF TypeOK, Stages
  <1>4. ContainerSafe'
    BY <1>1, <1>2, <1>3, HeldIsUnconfirmed DEF ContainerSafe, ContainerHasIntent, SurvivorIsReported, OnlyConformingRuns,
           NothingAsked, CleanupOwed, BoxLife, Validated, Early, Launching, Cleaning, Closing
  <1>5. ObservationSafe'
    BY <1>1, <1>2, <1>3 DEF ObservationSafe, CancellationReported, StatusSeen, DriftsOnce, EvidenceHeld,
           StopRemembered, OutOfMemory, Early, Launching, Cleaning, Closing
  <1>6. QED BY <1>3, <1>4, <1>5 DEF ContainerSafe, ObservationSafe

----------------------------------------------------------------------------
(* The daemon, the workload and the surroundings.                          *)

LEMMA DaemonCreatesPreserves ==
  ASSUME ExecutionInvariant, DaemonCreates PROVE ExecutionInvariant'
  <1> USE DEF ExecutionInvariant
  <1>0. PICK conforms \in BOOLEAN : box' = [NoBox EXCEPT !.state = "created", !.conforms = conforms]
    BY DEF DaemonCreates
  <1>x. answer' \in Codes \cup {Null} BY DEF DaemonCreates, Reports, TypeOK, Codes
  <1>1. /\ requests' = requests \ {"create"} /\ "create" \in requests /\ box.state = "absent"
        /\ box' = [NoBox EXCEPT !.state = "created", !.conforms = conforms]
        /\ UNCHANGED <<pc, request, gvisor, obs, result, disk, cancelled,
                         expired, flooded, grace, exe, expected, runsc,
                         stopped, launched>>
    BY <1>0 DEF DaemonCreates, Serve, DaemonOnly, adapterVars, inputVars, clockVars,
           hostVars
  <1>2. obs' \in Observed' BY <1>1 DEF TypeOK, Observed
  <1>b. box' \in Boxes /\ box'.state = "created" /\ box'.conforms = conforms
        /\ box'.exit = Null /\ box'.oom = "no" /\ box'.error = FALSE
    BY <1>1, <1>2, <1>0, <1>x DEF TypeOK, Boxes, NoBox
  <1>3. TypeOK'
    <2>1. pc' \in Stages BY <1>1 DEF TypeOK, Stages, Early, Launching, Cleaning, Closing
    <2>9. QED BY <1>1, <1>2, <1>0, <1>x, <1>b, <2>1 DEF TypeOK, Stages
  <1>4. ContainerSafe'
    BY <1>1, <1>2, <1>0, <1>x, <1>b, <1>3, HeldIsUnconfirmed DEF ContainerSafe, ContainerHasIntent, SurvivorIsReported, OnlyConformingRuns,
           NothingAsked, CleanupOwed, BoxLife, Validated, Early, Launching, Cleaning, Closing, Owned
  <1>5. ObservationSafe'
    BY <1>1, <1>2, <1>0, <1>x, <1>b, <1>3 DEF ObservationSafe, CancellationReported, StatusSeen, DriftsOnce, EvidenceHeld,
           StopRemembered, OutOfMemory, Early, Launching, Cleaning, Closing, BoxLife
  <1>6. QED BY <1>3, <1>4, <1>5 DEF ContainerSafe, ObservationSafe

LEMMA DaemonStartsPreserves ==
  ASSUME ExecutionInvariant, DaemonStarts PROVE ExecutionInvariant'
  <1> USE DEF ExecutionInvariant
  <1>1. /\ requests' = requests \ {"start"} /\ "start" \in requests /\ box.state = "created"
        /\ box' = [box EXCEPT !.state = "running"]
        /\ launched' = [exe |-> exe, runsc |-> runsc]
        /\ UNCHANGED <<pc, request, gvisor, obs, result, answer, disk,
                         cancelled, expired, flooded, grace, exe, expected,
                         runsc, stopped>>
    BY DEF DaemonStarts, Serve, DaemonOnly, adapterVars, inputVars, clockVars,
           hostVars
  <1>2. obs' \in Observed' BY <1>1 DEF TypeOK, Observed
  <1>b. box' \in Boxes /\ box'.state = "running" /\ box'.conforms = box.conforms
        /\ box'.exit = box.exit /\ box'.oom = box.oom /\ box'.error = box.error
    BY <1>1, <1>2 DEF TypeOK, Boxes
  <1>s. /\ launched' \in [exe : {"original", "changed"}, runsc : {"adopted", "drifted"}]
        /\ launched' # Null /\ launched'.exe = exe /\ launched'.runsc = runsc
    <2>1. exe \in {"original", "changed"} /\ runsc \in {"adopted", "drifted"} BY DEF TypeOK
    <2>2. launched' \in [exe : {"original", "changed"}, runsc : {"adopted", "drifted"}] BY <1>1, <2>1
    <2>3. launched' # Null BY <2>2, AbsenceAssumption
    <2>4. QED BY <1>1, <2>2, <2>3
  <1>3. TypeOK'
    <2>1. pc' \in Stages BY <1>1 DEF TypeOK, Stages, Early, Launching, Cleaning, Closing
    <2>9. QED BY <1>1, <1>2, <1>b, <1>s, <2>1 DEF TypeOK, Stages
  <1>4. ContainerSafe'
    BY <1>1, <1>2, <1>b, <1>s, <1>3 DEF ContainerSafe, ContainerHasIntent, SurvivorIsReported, OnlyConformingRuns,
           NothingAsked, CleanupOwed, BoxLife, Validated, Early, Launching, Cleaning, Closing, Owned
  <1>5. ObservationSafe'
    BY <1>1, <1>2, <1>b, <1>s, <1>3 DEF ObservationSafe, CancellationReported, StatusSeen, DriftsOnce, EvidenceHeld,
           StopRemembered, OutOfMemory, Early, Launching, Cleaning, Closing, BoxLife
  <1>6. QED BY <1>3, <1>4, <1>5 DEF ContainerSafe, ObservationSafe

LEMMA DaemonRemovesPreserves ==
  ASSUME ExecutionInvariant, DaemonRemoves PROVE ExecutionInvariant'
  <1> USE DEF ExecutionInvariant
  <1>0. box.state \in Owned \cup {"removed"} BY DEF DaemonRemoves, Serve, BoxLife
  <1>x. answer' \in Codes \cup {Null} BY DEF DaemonRemoves, Reports, TypeOK, Codes
  <1>1. /\ requests' = requests \ {"rm"} /\ "rm" \in requests
        /\ box' = [box EXCEPT !.state = "removed"]
        /\ UNCHANGED <<pc, request, gvisor, obs, result, disk, cancelled,
                         expired, flooded, grace, exe, expected, runsc,
                         stopped, launched>>
    BY <1>0 DEF DaemonRemoves, Serve, DaemonOnly, adapterVars, inputVars, clockVars,
           hostVars
  <1>2. obs' \in Observed' BY <1>1 DEF TypeOK, Observed
  <1>b. box' \in Boxes /\ box'.state = "removed" /\ box'.conforms = box.conforms
        /\ box'.exit = box.exit /\ box'.oom = box.oom /\ box'.error = box.error
    BY <1>1, <1>2, <1>0, <1>x DEF TypeOK, Boxes
  <1>3. TypeOK'
    <2>1. pc' \in Stages BY <1>1 DEF TypeOK, Stages, Early, Launching, Cleaning, Closing
    <2>9. QED BY <1>1, <1>2, <1>0, <1>x, <1>b, <2>1 DEF TypeOK, Stages
  <1>4. ContainerSafe'
    BY <1>1, <1>2, <1>0, <1>x, <1>b, <1>3 DEF ContainerSafe, ContainerHasIntent, SurvivorIsReported, OnlyConformingRuns,
           NothingAsked, CleanupOwed, BoxLife, Validated, Early, Launching, Cleaning, Closing, Owned
  <1>5. ObservationSafe'
    BY <1>1, <1>2, <1>0, <1>x, <1>b, <1>3 DEF ObservationSafe, CancellationReported, StatusSeen, DriftsOnce, EvidenceHeld,
           StopRemembered, OutOfMemory, Early, Launching, Cleaning, Closing, Owned, BoxLife
  <1>6. QED BY <1>3, <1>4, <1>5 DEF ContainerSafe, ObservationSafe

LEMMA WorkloadExitsPreserves ==
  ASSUME ExecutionInvariant, WorkloadExits PROVE ExecutionInvariant'
  <1> USE DEF ExecutionInvariant
  <1>0. PICK e \in Endings :
          box' = [box EXCEPT !.state = "exited", !.exit = e.exit, !.oom = e.oom, !.error = e.error]
    BY DEF WorkloadExits
  <1>x. e.exit \in Codes /\ e.exit # Null /\ e.oom \in {"no", "marked", "late"} /\ e.error \in BOOLEAN
    BY EndingAssumption, AbsenceAssumption DEF Codes
  <1>1. /\ box.state = "running"
        /\ box' = [box EXCEPT !.state = "exited", !.exit = e.exit, !.oom = e.oom, !.error = e.error]
        /\ UNCHANGED <<pc, request, gvisor, obs, result, answer, requests,
                         disk, cancelled, expired, flooded, grace, exe,
                         expected, runsc, stopped, launched>>
    BY <1>0 DEF WorkloadExits, DaemonOnly, adapterVars, inputVars, clockVars,
           hostVars
  <1>2. obs' \in Observed' BY <1>1 DEF TypeOK, Observed
  <1>b. box' \in Boxes /\ box'.state = "exited" /\ box'.conforms = box.conforms
        /\ box'.exit = e.exit /\ box'.oom = e.oom /\ box'.error = e.error
    BY <1>1, <1>2, <1>0, <1>x DEF TypeOK, Boxes
  <1>3. TypeOK'
    <2>1. pc' \in Stages BY <1>1 DEF TypeOK, Stages, Early, Launching, Cleaning, Closing
    <2>9. QED BY <1>1, <1>2, <1>0, <1>x, <1>b, <2>1 DEF TypeOK, Stages
  <1>4. ContainerSafe'
    BY <1>1, <1>2, <1>0, <1>x, <1>b, <1>3 DEF ContainerSafe, ContainerHasIntent, SurvivorIsReported, OnlyConformingRuns,
           NothingAsked, CleanupOwed, BoxLife, Validated, Early, Launching, Cleaning, Closing, Owned
  <1>5. ObservationSafe'
    BY <1>1, <1>2, <1>0, <1>x, <1>b, <1>3 DEF ObservationSafe, CancellationReported, StatusSeen, DriftsOnce, EvidenceHeld,
           StopRemembered, OutOfMemory, Early, Launching, Cleaning, Closing, BoxLife
  <1>6. QED BY <1>3, <1>4, <1>5 DEF ContainerSafe, ObservationSafe

(* Answers, clocks and the cancellation are read by no part of the         *)
(* invariant.                                                              *)
LEMMA AnswersPreserve ==
  ASSUME ExecutionInvariant, DaemonRefuses \/ ClientReturns \/ AttachReturns \/ Floods
  PROVE  ExecutionInvariant'
  <1> USE DEF ExecutionInvariant
  <1>1. /\ UNCHANGED <<pc, request, gvisor, obs, result, expected, stopped, box, launched, disk,
                       exe, runsc, cancelled, expired, grace>>
        /\ requests' \subseteq requests
    BY DEF DaemonRefuses, ClientReturns, AttachReturns, Floods, Serve, DaemonOnly, adapterVars,
           inputVars, clockVars, hostVars
  <1>2. answer' \in Codes \cup {Null} /\ flooded' \in BOOLEAN
    <2>1. CASE DaemonRefuses
      <3>1. PICK call \in requests : Reports(call, {1}) /\ flooded' = flooded
        BY <2>1 DEF DaemonRefuses
      <3>2. QED BY <3>1 DEF Reports, TypeOK, Codes
    <2>2. CASE ClientReturns BY <2>2 DEF ClientReturns, TypeOK, Codes
    <2>3. CASE AttachReturns BY <2>3 DEF AttachReturns, TypeOK, Boxes
    <2>4. CASE Floods
      <3>1. answer' = answer /\ flooded' = TRUE BY <2>4 DEF Floods
      <3>2. QED BY <3>1 DEF TypeOK
    <2>5. QED BY <2>1, <2>2, <2>3, <2>4
  <1>3. obs' \in Observed' BY <1>1 DEF TypeOK, Observed
  <1>4. TypeOK' BY <1>1, <1>2, <1>3 DEF TypeOK
  <1>5. QED BY <1>1, <1>4, UnreadPreserves DEF Unread

LEMMA ClocksPreserve ==
  ASSUME ExecutionInvariant, Cancel \/ Expire \/ GraceEnds PROVE ExecutionInvariant'
  <1> USE DEF ExecutionInvariant
  <1>1. /\ UNCHANGED <<pc, request, gvisor, obs, result, expected, stopped, box, launched, disk,
                       exe, runsc, requests, answer, flooded>>
        /\ cancelled' \in BOOLEAN /\ expired' \in BOOLEAN /\ grace' \in {"closed", "open", "over"}
    BY DEF Cancel, Expire, GraceEnds, Around, adapterVars, inputVars, daemonVars, hostVars, TypeOK
  <1>2. obs' \in Observed' BY <1>1 DEF TypeOK, Observed
  <1>3. TypeOK' BY <1>1, <1>2 DEF TypeOK
  <1>4. QED BY <1>1, <1>3, UnreadPreserves DEF Unread

LEMMA HostChangesPreserves ==
  ASSUME ExecutionInvariant, HostChanges PROVE ExecutionInvariant'
  <1> USE DEF ExecutionInvariant
  <1>1. /\ \/ exe = "original" /\ exe' = "changed" /\ runsc' = runsc
           \/ runsc = "adopted" /\ runsc' = "drifted" /\ exe' = exe
        /\ UNCHANGED <<pc, request, gvisor, obs, result, answer, requests,
                         box, disk, cancelled, expired, flooded, grace,
                         expected, stopped, launched>>
    BY DEF HostChanges, Around, adapterVars, inputVars, daemonVars, clockVars
  <1>2. obs' \in Observed' BY <1>1 DEF TypeOK, Observed
  <1>3. TypeOK'
    <2>1. pc' \in Stages BY <1>1 DEF TypeOK, Stages, Early, Launching, Cleaning, Closing
    <2>9. QED BY <1>1, <1>2, <2>1 DEF TypeOK, Stages
  <1>4. ContainerSafe'
    BY <1>1, <1>2, <1>3 DEF ContainerSafe, ContainerHasIntent, SurvivorIsReported, OnlyConformingRuns,
           NothingAsked, CleanupOwed, BoxLife, Validated, Early, Launching, Cleaning, Closing
  <1>5. ObservationSafe'
    BY <1>1, <1>2, <1>3 DEF ObservationSafe, CancellationReported, StatusSeen, DriftsOnce, EvidenceHeld,
           StopRemembered, OutOfMemory, Early, Launching, Cleaning, Closing
  <1>6. QED BY <1>3, <1>4, <1>5 DEF ContainerSafe, ObservationSafe

----------------------------------------------------------------------------
(* The invariant holds.                                                    *)

LEMMA InitExecution == Init => ExecutionInvariant
  <1> SUFFICES ASSUME Init PROVE ExecutionInvariant OBVIOUS
  <1> USE DEF Init
  <1>1. /\ obs.status = "setup_failed" /\ obs.cleanup = "not_created" /\ obs.exit = Null
        /\ obs.artifacts = {} /\ obs.named = FALSE /\ obs.published = "no" /\ obs.why = Null
    BY DEF Blank
  <1>2. obs \in Observed BY DEF Blank, Observed, Statuses, Cleanups
  <1>3. box \in Boxes /\ ~box.conforms /\ box.exit = Null /\ box.state \in {"absent", "foreign"}
    <2>1. CASE box = NoBox BY <2>1 DEF NoBox, Boxes
    <2>2. CASE box = Foreign BY <2>2 DEF NoBox, Foreign, Boxes
    <2>3. QED BY <2>1, <2>2
  <1>4. TypeOK BY <1>2, <1>3 DEF TypeOK, Early
  <1>5. ContainerSafe
    BY <1>1, <1>3 DEF ContainerSafe, ContainerHasIntent, SurvivorIsReported, OnlyConformingRuns,
           NothingAsked, CleanupOwed, BoxLife, Validated, Early, Launching, Cleaning, Closing, Owned
  <1>6. ObservationSafe
    BY <1>1, <1>3, AbsenceAssumption DEF ObservationSafe, CancellationReported, StatusSeen, DriftsOnce,
           EvidenceHeld, StopRemembered, Early, Launching, Cleaning, Closing
  <1>7. QED BY <1>4, <1>5, <1>6 DEF ExecutionInvariant, ContainerSafe, ObservationSafe

LEMMA AdapterPreserves ==
  ASSUME ExecutionInvariant, Adapter PROVE ExecutionInvariant'
  BY BeginCancelledPreserves, BeginPreserves, PreflightPreserves,
     WriteIntentPreserves, CreatePreserves, CreateReturnsPreserves,
     InspectPreserves, VerifyPreserves, StartPreserves, StartReturnsPreserves,
     OutcomePreserves, OutcomeFailsPreserves, CollectPreserves,
     SkipProbePreserves, CleanupInspectsPreserves, CleanupRemovesPreserves,
     CleanupRemovedPreserves, ClassifyPreserves, ProbePreserves,
     PublishPreserves, EarlyFailures, CreateEnds, StartEnds, InspectEnds,
     VerifyEnds, EvidenceEnds, CleanupFails
     DEF Adapter

LEMMA StepExecution == ExecutionInvariant /\ [Next]_vars => ExecutionInvariant'
  <1> SUFFICES ASSUME ExecutionInvariant, [Next]_vars PROVE ExecutionInvariant' OBVIOUS
  <1>1. CASE Adapter BY <1>1, AdapterPreserves
  <1>2. CASE Daemon
    BY <1>2, DaemonCreatesPreserves, DaemonStartsPreserves, DaemonRemovesPreserves,
       WorkloadExitsPreserves, AnswersPreserve DEF Daemon
  <1>3. CASE HardKill BY <1>3, HardKillPreserves
  <1>4. CASE Cancel \/ Expire \/ GraceEnds BY <1>4, ClocksPreserve
  <1>5. CASE HostChanges BY <1>5, HostChangesPreserves
  <1>6. CASE UNCHANGED vars
    <2>1. UNCHANGED <<pc, request, gvisor, obs, result, expected, stopped, box, launched, disk, exe,
                      runsc, requests, answer, flooded, cancelled, expired, grace>>
      BY <1>6 DEF vars, adapterVars, inputVars, daemonVars, clockVars, hostVars
    <2>2. obs' \in Observed' BY <2>1 DEF ExecutionInvariant, TypeOK, Observed
    <2>3. TypeOK' BY <2>1, <2>2 DEF ExecutionInvariant, TypeOK
    <2>4. QED BY <2>1, <2>3, UnreadPreserves DEF Unread
  <1>7. QED BY <1>1, <1>2, <1>3, <1>4, <1>5, <1>6 DEF Next

(* ExecutionInvariant holds in every reachable state: what exists, runs or *)
(* was stopped is on record or reported, whatever daemon, clock and host   *)
(* do.                                                                     *)
THEOREM ExecutionCorrect == Spec => []ExecutionInvariant
  <1>1. QED BY InitExecution, StepExecution, PTL DEF Spec

(* SuccessIsReal: a success a host may act on is the exit of the validated *)
(* workload, under the recorded CLI and the adopted runsc, with its outputs*)
(* and records.                                                            *)
LEMMA SuccessFollows == ExecutionInvariant => SuccessIsReal
  <1> SUFFICES ASSUME ExecutionInvariant, pc = "returned", obs.status = "exited", obs.exit = 0,
                      obs.cleanup = "removed"
               PROVE  /\ box.state = "removed" /\ box.exit = 0 /\ box.conforms
                      /\ ~box.error /\ ~OutOfMemory
                      /\ launched.exe = expected
                      /\ gvisor => launched.runsc = "adopted"
                      /\ obs.artifacts = request.outputs
                      /\ {"intent"} \cup (IF gvisor THEN {"container", "runtime"} ELSE {}) \subseteq disk
    BY DEF SuccessIsReal
  <1> USE DEF ExecutionInvariant
  <1>1. box.state = "removed" BY DEF BoxLife
  <1>2. box.exit = 0 /\ ~box.error /\ ~OutOfMemory BY AbsenceAssumption DEF StatusSeen
  <1>3. box.conforms /\ (gvisor => "container" \in disk) BY DEF Validated
  <1>4. result = "ok" BY DEF EvidenceHeld
  <1>5. obs.artifacts = request.outputs /\ launched.exe = expected
    BY <1>4 DEF EvidenceHeld, Closing
  <1>6. gvisor => launched.runsc = "adopted" /\ "runtime" \in disk
    BY DEF EvidenceHeld, Closing
  <1>7. "intent" \in disk BY DEF CleanupOwed
  <1>8. QED BY <1>1, <1>2, <1>3, <1>5, <1>6, <1>7

(* In every reachable state (SuccessIsReal).                               *)
THEOREM SuccessCorrect == Spec => []SuccessIsReal
  <1>1. QED BY ExecutionCorrect, SuccessFollows, PTL

----------------------------------------------------------------------------
(* Paths: what validate accepts leaves one mount over every output.        *)

LEMMA UnderPointwise ==
  ASSUME NEW p \in Seq(Names), NEW b \in Seq(Names)
  PROVE  Under(p, b) <=> Len(b) <= Len(p) /\ \A i \in 1..Len(b) : p[i] = b[i]
  <1>1. Len(b) \in Nat /\ Len(p) \in Nat OBVIOUS
  <1>2. CASE Len(b) <= Len(p)
    <2>1. \A i \in 1..Len(b) : p[i] \in Names BY <1>1, <1>2
    <2>2. SubSeq(p, 1, Len(b)) \in Seq(Names) /\ Len(SubSeq(p, 1, Len(b))) = Len(b)
          /\ \A i \in 1..Len(b) : SubSeq(p, 1, Len(b))[i] = p[i]
      BY <1>1, <1>2, <2>1
    <2>3. (\A i \in 1..Len(b) : p[i] = b[i]) => SubSeq(p, 1, Len(b)) = b
      BY <2>2, SeqEqual
    <2>4. QED BY <1>2, <2>2, <2>3 DEF Under
  <1>3. CASE ~(Len(b) <= Len(p)) BY <1>3 DEF Under
  <1>4. QED BY <1>2, <1>3

(* Two directories over the same path lie in one another.                  *)
LEMMA UnderComparable ==
  ASSUME NEW p \in Seq(Names), NEW a \in Seq(Names), NEW b \in Seq(Names), Under(p, a), Under(p, b)
  PROVE  Under(a, b) \/ Under(b, a)
  <1>1. Len(a) \in Nat /\ Len(b) \in Nat OBVIOUS
  <1>2. /\ \A i \in 1..Len(a) : p[i] = a[i]
        /\ \A i \in 1..Len(b) : p[i] = b[i]
    BY UnderPointwise
  <1>3. CASE Len(a) <= Len(b)
    <2>1. \A i \in 1..Len(a) : b[i] = a[i] BY <1>1, <1>2, <1>3
    <2>2. QED BY <1>3, <2>1, UnderPointwise
  <1>4. CASE Len(b) <= Len(a)
    <2>1. \A i \in 1..Len(b) : a[i] = b[i] BY <1>1, <1>2, <1>4
    <2>2. QED BY <1>4, <2>1, UnderPointwise
  <1>5. QED BY <1>1, <1>3, <1>4

(* A path below a directory that is apart from another one is not in it.   *)
LEMMA BelowStaysOutside ==
  ASSUME NEW d \in Seq(Names), NEW src \in Seq(Names), NEW rest \in Seq(Names),
         ~Under(src, d), ~Under(d, src)
  PROVE  ~Under(src \o rest, d)
  <1> SUFFICES ASSUME Under(src \o rest, d) PROVE FALSE OBVIOUS
  <1>1. Len(d) \in Nat /\ Len(src) \in Nat /\ Len(rest) \in Nat OBVIOUS
  <1>2. /\ src \o rest \in Seq(Names) /\ Len(src \o rest) = Len(src) + Len(rest)
        /\ \A i \in 1..Len(src) : (src \o rest)[i] = src[i]
    BY <1>1, ConcatProperties
  <1>3. \A i \in 1..Len(d) : (src \o rest)[i] = d[i] BY <1>2, UnderPointwise
  <1>4. CASE Len(d) <= Len(src)
    <2>1. \A i \in 1..Len(d) : src[i] = d[i] BY <1>1, <1>2, <1>3, <1>4
    <2>2. QED BY <1>4, <2>1, UnderPointwise
  <1>5. CASE Len(src) <= Len(d)
    <2>1. \A i \in 1..Len(src) : d[i] = src[i] BY <1>1, <1>2, <1>3, <1>5
    <2>2. QED BY <1>5, <2>1, UnderPointwise
  <1>6. QED BY <1>1, <1>4, <1>5

(* What is read for an output of an admitted request is what the workload  *)
(* saw there, and never a record of the adapter.                           *)
LEMMA OutputIsSeen ==
  ASSUME NEW r \in SandboxRequests, Valid(r), StateOutside(r), NEW out \in r.outputs
  PROVE  /\ SeenAt(r, out) = {HostPath(r, out)}
         /\ ~Under(HostPath(r, out), StateDirectory)
  <1>0. r.mounts \in Seq(Mount) /\ out \in Seq(Names) BY DEF SandboxRequests
  <1>1. PICK n \in DOMAIN r.mounts : r.mounts[n].writable /\ Under(out, r.mounts[n].destination)
    BY DEF Valid, WritableMounts
  <1> DEFINE m == r.mounts[n]
             path == m.source \o SubSeq(out, Len(m.destination) + 1, Len(out))
  <1>2. DOMAIN r.mounts = 1..Len(r.mounts) /\ Len(r.mounts) \in Nat BY <1>0
  <1>3. \A k \in DOMAIN r.mounts : r.mounts[k] \in Mount BY <1>0, <1>2
  <1>4. \A k \in DOMAIN r.mounts :
          r.mounts[k].source \in Seq(Names) /\ r.mounts[k].destination \in Seq(Names)
    BY <1>3 DEF Mount
  <1>5. \A k \in DOMAIN r.mounts : Under(out, r.mounts[k].destination) => k = n
    <2> SUFFICES ASSUME NEW k \in DOMAIN r.mounts, Under(out, r.mounts[k].destination), k # n
                 PROVE  FALSE
      OBVIOUS
    <2>1. \/ Under(r.mounts[k].destination, r.mounts[n].destination)
          \/ Under(r.mounts[n].destination, r.mounts[k].destination)
      BY <1>0, <1>1, <1>4, UnderComparable
    <2>2. Disjoint(r) BY DEF Valid
    <2>3. CASE k < n
      <3>1. k \in 1..(n - 1) BY <1>2, <2>3
      <3>2. QED BY <2>1, <2>2, <3>1 DEF Disjoint
    <2>4. CASE n < k
      <3>1. n \in 1..(k - 1) BY <1>2, <2>4
      <3>2. QED BY <2>1, <2>2, <3>1 DEF Disjoint
    <2>5. QED BY <1>2, <2>3, <2>4
  <1>6. WritableMounts(r, out) = {n} BY <1>1, <1>5 DEF WritableMounts
  <1>7. HostPath(r, out) = path
    <2>1. (CHOOSE k \in WritableMounts(r, out) : \A j \in WritableMounts(r, out) : k <= j) = n
      BY <1>2, <1>6
    <2>2. QED BY <2>1 DEF HostPath
  <1>8. SeenAt(r, out) = {path}
    <2> DEFINE over == {o \in Mounts(r) : Under(out, o.destination)}
               deepest == {o \in over : \A o2 \in over : Len(o2.destination) <= Len(o.destination)}
    <2>1. over = {m} BY <1>1, <1>5 DEF Mounts
    <2>2. Len(m.destination) \in Nat BY <1>4
    <2>3. deepest = {m} BY <2>1, <2>2
    <2>4. SeenAt(r, out) = {o.source \o SubSeq(out, Len(o.destination) + 1, Len(out)) : o \in deepest}
      BY DEF SeenAt
    <2> HIDE DEF deepest
    <2>5. QED BY <2>3, <2>4
  <1>9. ~Under(path, StateDirectory)
    <2>1. ~Under(StateDirectory, m.source) /\ ~Under(m.source, StateDirectory)
      BY DEF StateOutside, Mounts
    <2>2. SubSeq(out, Len(m.destination) + 1, Len(out)) \in Seq(Names)
      <3>1. Len(m.destination) \in Nat /\ Len(out) \in Nat BY <1>0, <1>4
      <3>2. \A i \in (Len(m.destination) + 1)..Len(out) : out[i] \in Names BY <1>0, <3>1
      <3>3. Len(m.destination) + 1 \in Int /\ Len(out) \in Int BY <3>1
      <3>4. QED BY <3>2, <3>3, SubSeqProperties
    <2>3. m.source \in Seq(Names) BY <1>4
    <2>4. QED BY <2>1, <2>2, <2>3, PathAssumption, BelowStaysOutside
  <1>10. QED BY <1>7, <1>8, <1>9

LEMMA CollectionFollows == ExecutionInvariant => CollectsWhatWasWritten
  <1> SUFFICES ASSUME ExecutionInvariant, NEW out \in obs.artifacts
               PROVE  /\ SeenAt(request, out) = {HostPath(request, out)}
                      /\ ~Under(HostPath(request, out), StateDirectory)
    BY DEF CollectsWhatWasWritten
  <1> USE DEF ExecutionInvariant
  <1>1. request \in SandboxRequests /\ obs.artifacts \subseteq request.outputs
    BY RequestAssumption DEF TypeOK, Observed
  <1>2. Admitted(request, gvisor) BY DEF EvidenceHeld
  <1>3. Valid(request) /\ StateOutside(request) BY <1>2 DEF Admitted
  <1>4. QED BY <1>1, <1>3, OutputIsSeen

(* In every reachable state (CollectsWhatWasWritten), whatever the mounts. *)
THEOREM CollectionCorrect == Spec => []CollectsWhatWasWritten
  <1>1. QED BY ExecutionCorrect, CollectionFollows, PTL

----------------------------------------------------------------------------
(* The adapter keeps SandboxContract.                                      *)

LEMMA Seen ==
  /\ BoxSeen = IF box.state \in Owned THEN "held" ELSE IF box.state = "removed" THEN "gone" ELSE "none"
  /\ RanSeen = IF launched = Null THEN "no" ELSE IF box.exit # Null THEN "done"
               ELSE IF box.state = "removed" THEN "killed" ELSE "running"
  BY DEF BoxSeen, RanSeen, Owned

LEMMA SeenNext ==
  /\ BoxSeen' = IF box'.state \in Owned THEN "held" ELSE IF box'.state = "removed" THEN "gone" ELSE "none"
  /\ RanSeen' = IF launched' = Null THEN "no" ELSE IF box'.exit # Null THEN "done"
                ELSE IF box'.state = "removed" THEN "killed" ELSE "running"
  BY DEF BoxSeen, RanSeen, Owned

(* The adapter itself neither makes nor removes a container and takes no   *)
(* record back; it returns by publishing, or at once if it named nothing.  *)
LEMMA AdapterFrame ==
  ASSUME Adapter
  PROVE  /\ box' = box /\ launched' = launched /\ pc \notin Over
         /\ "intent" \in disk => "intent" \in disk'
         /\ pc' = "returned" => ("intent" \in disk' <=> "intent" \in disk)
  <1> USE DEF Go, Passive, Quiet, daemonVars, Over
  <1>1. CASE BeginCancelled \/ Begin \/ Preflight \/ PreflightRefuses \/ PreflightStops
             \/ VersionStops \/ WriteIntent \/ IntentFails
    BY <1>1 DEF BeginCancelled, Begin, Preflight, PreflightRefuses, PreflightStops,
                VersionStops, WriteIntent, IntentFails, FailsEarly
  <1>2. CASE Create \/ CreateNotSpawned \/ CreateStopped \/ CreateReturns \/ CreateFails
    BY <1>2 DEF Create, CreateNotSpawned, CreateStopped, CreateReturns, CreateFails, Spawns,
                NotSpawned, EndsWith, Ends
  <1>3. CASE Inspect \/ InspectFails \/ Verify \/ VerifyFails \/ VerifyCancelled
    BY <1>3 DEF Inspect, InspectFails, Verify, VerifyFails, VerifyCancelled, EndsWith, Ends
  <1>4. CASE Start \/ StartNotSpawned \/ StartStopped \/ StartReturns
    BY <1>4 DEF Start, StartNotSpawned, StartStopped, StartReturns, Spawns, NotSpawned,
                EndsWith, Ends
  <1>5. CASE Outcome \/ OutcomeFails \/ Collect \/ Rehash \/ RehashFails \/ EvidenceFails
    BY <1>5 DEF Outcome, OutcomeFails, Collect, Rehash, RehashFails, EvidenceFails, EndsWith, Ends
  <1>6. CASE SkipProbe \/ Probe
    BY <1>6 DEF SkipProbe, Probe, Reopens
  <1>7. CASE CleanupInspects \/ CleanupRefuses \/ CleanupRemoves \/ CleanupRemoved
             \/ CleanupStops \/ CleanupConfirms
    BY <1>7 DEF CleanupInspects, CleanupRefuses, CleanupRemoves, CleanupRemoved, CleanupStops,
                CleanupConfirms, CleanupOnly
  <1>8. CASE Classify \/ Publish BY <1>8 DEF Classify, Publish
  <1>9. QED BY <1>1, <1>2, <1>3, <1>4, <1>5, <1>6, <1>7, <1>8 DEF Adapter

(* What is returned is true.                                               *)
LEMMA ClaimIsTrue ==
  ASSUME ExecutionInvariant', pc' = "returned", NEW x,
         x.box = BoxSeen', x.ran = RanSeen', x.exit = box'.exit
  PROVE  /\ Contract!Truthful(x, ClaimMade')
         /\ ClaimMade' \in Contract!SandboxObservation
  <1> DEFINE o == [status |-> obs'.status, cleanup |-> obs'.cleanup, exit |-> obs'.exit,
                   published |-> obs'.published]
  <1>0. ClaimMade' = o BY DEF ClaimMade
  <1>1. obs'.cleanup = "not_created" => x.box = "none" /\ x.ran = "no"
    BY SeenNext DEF ExecutionInvariant, NothingAsked, Closing, NoBox, Foreign, Owned
  <1>2. obs'.cleanup = "removed" => x.box = "gone"
    BY SeenNext DEF ExecutionInvariant, BoxLife, Owned
  <1>3. x.box = "held" => obs'.cleanup = "unconfirmed"
    BY SeenNext DEF ExecutionInvariant, SurvivorIsReported
  <1>4. obs'.status = "setup_failed" => x.ran = "no"
    BY SeenNext DEF ExecutionInvariant, StatusSeen
  <1>5. obs'.status = "exited" => x.ran = "done" /\ obs'.exit = x.exit
    BY SeenNext DEF ExecutionInvariant, StatusSeen, BoxLife
  <1>6. obs'.exit # Null => obs'.exit = x.exit BY DEF ExecutionInvariant, StatusSeen
  <1>7. o \in Contract!SandboxObservation
    <2>1. /\ obs'.status \in Statuses /\ obs'.cleanup \in Cleanups /\ obs'.exit \in Codes \cup {Null}
          /\ obs'.published \in {"no", "yes", "failed"}
      BY DEF ExecutionInvariant, TypeOK, Observed
    <2>2. QED
      BY <2>1 DEF Contract!SandboxObservation, Contract!SandboxStatus, Contract!SandboxCleanup,
                  Contract!ExitCodes, Statuses, Cleanups, Codes
  <1>8. Contract!Truthful(x, o)
    BY <1>1, <1>2, <1>3, <1>4, <1>5, <1>6 DEF Contract!Truthful
  <1>9. QED BY <1>0, <1>7, <1>8

LEMMA AdapterKeeps ==
  ASSUME ExecutionInvariant, ExecutionInvariant', Adapter
  PROVE  Contract!Next \/ Execution' = Execution
  <1>1. /\ box' = box /\ launched' = launched /\ pc # "returned"
        /\ "intent" \in disk => "intent" \in disk'
        /\ pc' = "returned" => ("intent" \in disk' <=> "intent" \in disk)
    BY AdapterFrame DEF Over
  <1>2. BoxSeen' = BoxSeen /\ RanSeen' = RanSeen /\ ClaimMade = Null
    BY <1>1 DEF BoxSeen, RanSeen, ClaimMade
  <1>3. CASE pc' = "returned"
    <2>1. Execution.claim = Null /\ Execution'.claim = ClaimMade'
      BY <1>2 DEF Execution
    <2>2. Execution' = [Execution EXCEPT !.claim = ClaimMade']
      BY <1>1, <1>2, <1>3 DEF Execution
    <2>3. /\ Execution'.box = BoxSeen' /\ Execution'.ran = RanSeen' /\ Execution'.exit = box'.exit
          /\ Execution.box = BoxSeen' /\ Execution.ran = RanSeen' /\ Execution.exit = box'.exit
      BY <1>1, <1>2 DEF Execution
    <2>4. \A x : x.box = BoxSeen' /\ x.ran = RanSeen' /\ x.exit = box'.exit =>
                   /\ Contract!Truthful(x, ClaimMade')
                   /\ ClaimMade' \in Contract!SandboxObservation
      BY <1>3, ClaimIsTrue
    <2>5. Contract!MayClaim(Execution, Execution'.claim)
      BY <2>1, <2>3, <2>4 DEF Contract!MayClaim
    <2>6. QED BY <2>1, <2>2, <2>5 DEF Contract!Next, Contract!Claims
  <1>4. CASE pc' # "returned" /\ ("intent" \in disk' <=> "intent" \in disk)
    BY <1>1, <1>2, <1>4 DEF Execution, ClaimMade
  <1>5. CASE pc' # "returned" /\ "intent" \in disk' /\ "intent" \notin disk
    <2>0. ("intent" \in disk') = TRUE BY <1>5
    <2>a. ClaimMade' = Null BY <1>5 DEF ClaimMade
    <2> DEFINE kept(i) == [intent |-> i, box |-> BoxSeen, ran |-> RanSeen, exit |-> box.exit,
                           claim |-> Null]
               noted == "intent" \in disk
    <2>b. Execution = kept(noted) /\ Execution' = kept(TRUE)
      BY <1>1, <1>2, <2>0, <2>a DEF Execution
    <2>1. Execution' = [Execution EXCEPT !.intent = TRUE]
      <3> DEFINE yes == TRUE
      <3> HIDE DEF noted, yes
      <3>1. [kept(noted) EXCEPT !.intent = yes] = kept(yes) OBVIOUS
      <3>2. QED BY <2>b, <3>1, Zenon DEF yes
    <2>2. ~Execution.intent /\ Execution.claim = Null BY <1>2, <1>5 DEF Execution
    <2>3. Execution' \in Contract!Intends(Execution) BY <2>1, <2>2 DEF Contract!Intends
    <2>4. QED BY <2>3 DEF Contract!Next, Contract!Steps, Contract!SandboxSteps
  <1>6. QED BY <1>1, <1>3, <1>4, <1>5

LEMMA DaemonKeeps ==
  ASSUME ExecutionInvariant, ExecutionInvariant', Daemon
  PROVE  Contract!Next \/ Execution' = Execution
  <1>0. UNCHANGED <<pc, obs, disk>>
    BY DEF Daemon, DaemonCreates, DaemonStarts, DaemonRemoves, DaemonRefuses, ClientReturns,
           WorkloadExits, AttachReturns, Floods, Serve, DaemonOnly, adapterVars
  <1>1. ClaimMade' = ClaimMade BY <1>0 DEF ClaimMade
  <1>2. /\ pc = "returned" => ClaimMade = [status |-> obs.status, cleanup |-> obs.cleanup,
                                           exit |-> obs.exit, published |-> obs.published]
        /\ pc # "returned" => ClaimMade = Null
    BY DEF ClaimMade
  <1>3. /\ Execution.box = BoxSeen /\ Execution.ran = RanSeen /\ Execution.exit = box.exit
        /\ Execution.claim = ClaimMade /\ Execution.intent = ("intent" \in disk)
    BY DEF Execution
  <1> DEFINE logged == "intent" \in disk
  <1> DEFINE Moves == Contract!SandboxSteps(Execution)
  <1>4. SUFFICES Execution' \in Moves \/ Execution' = Execution
    BY DEF Contract!Next, Contract!Steps
  <1>5. CASE DaemonCreates
    <2>1. PICK c \in BOOLEAN : box' = [NoBox EXCEPT !.state = "created", !.conforms = c]
      BY <1>5 DEF DaemonCreates
    <2>2. /\ launched' = launched /\ box.state = "absent" /\ "create" \in requests
          /\ box'.state = "created" /\ box'.exit = Null
      BY <1>5, <2>1 DEF DaemonCreates, Serve, NoBox
    <2>3. launched = Null /\ box.exit = Null /\ ("intent" \in disk) = TRUE
      BY <2>2 DEF ExecutionInvariant, BoxLife, ContainerHasIntent
    <2>4. BoxSeen = "none" /\ BoxSeen' = "held" /\ RanSeen = "no" /\ RanSeen' = "no"
      BY <2>2, <2>3, Seen, SeenNext DEF Owned
    <2>5. pc = "returned" => obs.cleanup = "unconfirmed"
      BY <2>2, HeldIsUnconfirmed DEF Closing
    <2>6. Contract!MayLaunch(Execution)
      <3>1. Execution.intent BY <1>3, <2>3
      <3>2. Execution.claim # Null => Execution.claim.cleanup = "unconfirmed"
        BY <1>2, <1>3, <2>5
      <3>3. QED BY <3>1, <3>2 DEF Contract!MayLaunch
    <2>7. Execution' = [Execution EXCEPT !.box = "held"]
      BY <1>0, <1>1, <2>2, <2>3, <2>4 DEF Execution
    <2>8. Execution' \in Contract!Launches(Execution)
      BY <1>3, <2>4, <2>6, <2>7 DEF Contract!Launches
    <2>9. QED BY <2>8 DEF Contract!SandboxSteps
  <1>6. CASE DaemonStarts
    <2>1. /\ "start" \in requests /\ box.state = "created" /\ box'.state = "running"
          /\ box'.exit = box.exit /\ launched = Null /\ box.exit = Null
      BY <1>6 DEF DaemonStarts, Serve, ExecutionInvariant, BoxLife, TypeOK, Boxes
    <2>2. launched' # Null BY <2>1 DEF ExecutionInvariant, BoxLife
    <2>3. BoxSeen = "held" /\ BoxSeen' = "held" /\ RanSeen = "no" /\ RanSeen' = "running"
      BY <2>1, <2>2, Seen, SeenNext DEF Owned
    <2>4. pc = "returned" => obs.cleanup = "unconfirmed" /\ obs.status # "setup_failed"
      BY <2>1, HeldIsUnconfirmed DEF Closing, ExecutionInvariant, StatusSeen, Owned
    <2>5. Contract!MayRun(Execution) BY <1>2, <1>3, <2>4 DEF Contract!MayRun
    <2>6. Execution' = [Execution EXCEPT !.ran = "running"]
      BY <1>0, <1>1, <2>1, <2>3 DEF Execution
    <2>7. Execution' \in Contract!Runs(Execution)
      BY <1>3, <2>3, <2>5, <2>6 DEF Contract!Runs
    <2>8. QED BY <2>7 DEF Contract!SandboxSteps
  <1>7. CASE WorkloadExits
    <2>1. PICK e \in Endings :
            box' = [box EXCEPT !.state = "exited", !.exit = e.exit, !.oom = e.oom, !.error = e.error]
      BY <1>7 DEF WorkloadExits
    <2>2. e.exit \in Contract!ExitCodes /\ e.exit # Null
      BY EndingAssumption, AbsenceAssumption DEF Contract!ExitCodes, Codes
    <2>3. /\ launched' = launched /\ box.state = "running" /\ box'.state = "exited"
          /\ box'.exit = e.exit /\ launched # Null /\ box.exit = Null
      BY <1>7, <2>1 DEF WorkloadExits, ExecutionInvariant, BoxLife, TypeOK, Boxes
    <2>4. BoxSeen = "held" /\ BoxSeen' = "held" /\ RanSeen = "running" /\ RanSeen' = "done"
      BY <2>2, <2>3, Seen, SeenNext DEF Owned
    <2>5. Execution' = [Execution EXCEPT !.ran = "done", !.exit = e.exit]
      <3>1. /\ Execution = [intent |-> logged, box |-> "held", ran |-> "running", exit |-> Null,
                              claim |-> ClaimMade]
            /\ Execution' = [intent |-> logged, box |-> "held", ran |-> "done", exit |-> e.exit,
                               claim |-> ClaimMade]
        BY <1>0, <1>1, <2>3, <2>4 DEF Execution
      <3> HIDE DEF logged
      <3>2. [Execution EXCEPT !.ran = "done"] =
              [intent |-> logged, box |-> "held", ran |-> "done", exit |-> Null, claim |-> ClaimMade]
        BY <3>1
      <3>3. [[intent |-> logged, box |-> "held", ran |-> "done", exit |-> Null, claim |-> ClaimMade]
              EXCEPT !.exit = e.exit] =
              [intent |-> logged, box |-> "held", ran |-> "done", exit |-> e.exit, claim |-> ClaimMade]
        OBVIOUS
      <3>4. QED BY <3>1, <3>2, <3>3, Zenon
    <2>6. Execution' \in Contract!Exits(Execution)
      BY <1>3, <2>2, <2>4, <2>5 DEF Contract!Exits
    <2>7. QED BY <2>6 DEF Contract!SandboxSteps
  <1>8. CASE DaemonRemoves
    <2>1. /\ "rm" \in requests /\ box' = [box EXCEPT !.state = "removed"] /\ launched' = launched
          /\ box.state \in Owned \cup {"removed"} /\ box.state \in Owned \cup {"foreign"}
      BY <1>8 DEF DaemonRemoves, Serve, ExecutionInvariant, BoxLife
    <2>2. /\ box.state \in Owned /\ box'.state = "removed" /\ box'.exit = box.exit
          /\ launched # Null /\ box.exit = Null => box.state = "running"
      BY <2>1 DEF Owned, ExecutionInvariant, BoxLife, TypeOK, Boxes
    <2>3. BoxSeen = "held" /\ BoxSeen' = "gone"
      BY <2>2, Seen, SeenNext DEF Owned
    <2>4. RanSeen' = IF RanSeen = "running" THEN "killed" ELSE RanSeen
      BY <2>1, <2>2, Seen, SeenNext DEF Owned
    <2>5. Execution' = [Execution EXCEPT !.box = "gone",
                                         !.ran = IF @ = "running" THEN "killed" ELSE @]
      <3> DEFINE ran == IF RanSeen = "running" THEN "killed" ELSE RanSeen
      <3>1. /\ Execution = [intent |-> logged, box |-> "held", ran |-> RanSeen, exit |-> box.exit,
                              claim |-> ClaimMade]
            /\ Execution' = [intent |-> logged, box |-> "gone", ran |-> ran, exit |-> box.exit,
                               claim |-> ClaimMade]
        BY <1>0, <1>1, <2>2, <2>3, <2>4 DEF Execution
      <3> HIDE DEF logged, ran
      <3>2. [Execution EXCEPT !.box = "gone"] =
              [intent |-> logged, box |-> "gone", ran |-> RanSeen, exit |-> box.exit,
               claim |-> ClaimMade]
        BY <3>1
      <3>3. [Execution EXCEPT !.box = "gone"].ran = RanSeen BY <3>2
      <3>4. [[intent |-> logged, box |-> "gone", ran |-> RanSeen, exit |-> box.exit,
              claim |-> ClaimMade] EXCEPT !.ran = ran] =
              [intent |-> logged, box |-> "gone", ran |-> ran, exit |-> box.exit,
               claim |-> ClaimMade]
        OBVIOUS
      <3>5. QED BY <3>1, <3>2, <3>3, <3>4, Zenon DEF ran
    <2>6. Execution' \in Contract!Removes(Execution)
      BY <1>3, <2>3, <2>5 DEF Contract!Removes
    <2>7. QED BY <2>6 DEF Contract!SandboxSteps
  <1>9. CASE DaemonRefuses \/ ClientReturns \/ AttachReturns \/ Floods
    <2>1. box' = box /\ launched' = launched
      BY <1>9 DEF DaemonRefuses, ClientReturns, AttachReturns, Floods
    <2>2. QED BY <1>0, <1>1, <2>1 DEF Execution, BoxSeen, RanSeen
  <1>10. QED BY <1>5, <1>6, <1>7, <1>8, <1>9 DEF Daemon

LEMMA StepKeeps ==
  ASSUME ExecutionInvariant, ExecutionInvariant', [Next]_vars
  PROVE  Contract!Next \/ Execution' = Execution
  <1>1. CASE Adapter BY <1>1, AdapterKeeps
  <1>2. CASE Daemon BY <1>2, DaemonKeeps
  <1>3. CASE HardKill \/ Cancel \/ Expire \/ GraceEnds \/ HostChanges \/ UNCHANGED vars
    <2>1. UNCHANGED <<box, launched, disk>>
      BY <1>3 DEF HardKill, Cancel, Expire, GraceEnds, HostChanges, Around, vars, daemonVars
    <2>2. ClaimMade' = ClaimMade
      <3>1. CASE HardKill BY <3>1 DEF HardKill, Go, Over, ClaimMade
      <3>2. CASE ~HardKill
        <4>1. UNCHANGED <<pc, obs>>
          BY <1>3, <3>2 DEF Cancel, Expire, GraceEnds, HostChanges, Around, vars, adapterVars
        <4>2. QED BY <4>1 DEF ClaimMade
      <3>3. QED BY <3>1, <3>2
    <2>3. QED BY <2>1, <2>2 DEF Execution, BoxSeen, RanSeen
  <1>4. QED BY <1>1, <1>2, <1>3 DEF Next

(* LocalOciAdapter::execute keeps SandboxContract: every execution a host  *)
(* can see is one the contract allows (KeepsContract).                     *)
THEOREM ContractKept == Spec => KeepsContract
  <1>1. Init => Contract!Init
    <2> SUFFICES ASSUME Init PROVE Contract!Init OBVIOUS
    <2>1. /\ launched = Null /\ pc # "returned" /\ box.exit = Null /\ box.state \in {"absent", "foreign"}
          /\ ("intent" \in disk) = FALSE
      BY DEF Init, NoBox, Foreign
    <2>2. BoxSeen = "none" /\ RanSeen = "no" /\ ClaimMade = Null
      BY <2>1, Seen DEF Owned, ClaimMade
    <2>3. QED BY <2>1, <2>2 DEF Contract!Init, Contract!Unlaunched, Execution
  <1>2. ExecutionInvariant /\ ExecutionInvariant' /\ [Next]_vars => [Contract!Next]_Execution
    BY StepKeeps
  <1>3. QED BY <1>1, <1>2, ExecutionCorrect, PTL DEF Spec, KeepsContract, Contract!Spec

=============================================================================
