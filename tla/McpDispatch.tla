---------------------------- MODULE McpDispatch ----------------------------
(***************************************************************************)
(* The MCP client adapter (adapters/mcp/src) as an executor port: how one  *)
(* effect after the other goes from McpExecutor::execute on the host's     *)
(* thread, through the worker thread that owns the session, to the task    *)
(* that writes the tools/call frame, and how its outcome is established.   *)
(* Around them run the observer's thread, the server with its              *)
(* notifications and failures, the clock, and the holder of a CancelHandle.*)
(*                                                                         *)
(* A step reads several flags at once only where they never reset          *)
(* (failure, cancelled, expired): a thread that finds all of them down, one*)
(* after the other, would have found all of them down at the first read.   *)
(* Ping requests, and the refresh and preparation of tools, which happen   *)
(* between the calls, are left out.                                        *)
(***************************************************************************)
EXTENDS EffectHandling, FiniteSets

CONSTANTS Effects,       \* the prepared effects the engine may hand over
          Subjects,      \* the subject identities
          MaxGeneration, \* the end of the notification counter (u64)
          MaxAttempts    \* bound: calls of execute

ASSUME BoundAssumption == MaxGeneration \in Nat /\ MaxAttempts \in Nat
ASSUME McpSubjectAssumption == Subjects \cap {Null, Malformed, "oversize"} = {}

(* What prepare_effect builds, and validate_protected_effect_request lets  *)
(* pass.                                                                   *)
ASSUME PreparedAssumption ==
  \A e \in Effects : e.intact => /\ e.seq \in 1..MaxSafe
                                /\ e.family = "external_service"
                                /\ e.class \in {"observation", "mutation"}
                                /\ e.subject \in Subjects

VARIABLES host,      \* where execute_effect stands
          effect,    \* the effect it executes
          verdict,   \* what the worker found out about it
          recorded,  \* its call record: none, the intent or the dispatch
          attempted, \* the effect ids and keys that may not be replayed
          reports,   \* what execute has returned so far
          queue,     \* the command in the worker's channel
          answer,    \* the reply in the host's channel
          worker,    \* where the worker stands
          discovered,\* the generation of its last discovery
          frame,     \* the call frame of each attempt
          response,  \* the server's response to the current call
          wire,      \* the WireState shared under its mutex
          cancelled, \* the session's cancellation token
          expired,   \* the run deadline has passed
          observer,  \* the observer's thread
          alive,     \* the server process runs
          wrote,     \* history: attempts of which a byte was written
          early,     \* history: attempts disturbed before their first byte
          disturbed  \* history: attempts during which the tools changed

hostVars   == <<host, effect, verdict, recorded, attempted, reports>>
workerVars == <<worker, discovered>>
history    == <<wrote, early, disturbed>>
vars == <<hostVars, workerVars, history, queue, answer, frame, response, wire,
          cancelled, expired, observer, alive>>

Attempts == 1..MaxAttempts
Attempt  == Len(reports) + 1

Init ==
  /\ host = "idle" /\ effect = Null /\ verdict = "none" /\ recorded = "none"
  /\ attempted = {} /\ reports = <<>> /\ queue = "none" /\ answer = Null
  /\ worker = "top" /\ discovered = 0
  /\ frame = [n \in Attempts |-> "none"] /\ response = "none"
  /\ wire = [failure |-> FALSE, generation |-> 0, callGeneration |-> Null,
             callStarted |-> FALSE]
  /\ cancelled = FALSE /\ expired = FALSE /\ observer = "idle" /\ alive = TRUE
  /\ wrote = {} /\ early = {} /\ disturbed = {}

Fails   == wire' = [wire EXCEPT !.failure = TRUE]
Drifted == wire.callGeneration # wire.generation

----------------------------------------------------------------------------
(* The observer port: one probe at a time, whose caller may stop waiting.  *)

Probe == observer' = IF observer = "idle" THEN "busy" ELSE "overlap"

(* The callback of a caller that stopped waiting answers to nobody.        *)
Quarantined == CASE observer = "busy" -> "late" [] observer = "done" -> "idle"
                 [] OTHER -> observer

(* A probe that fails, times out or is cancelled ends the session.         *)
ProbeFails == observer' = Quarantined /\ cancelled' = TRUE

ProbeAnswers == observer = "done" /\ observer' = "idle"

ObserverReturns ==
  /\ observer \in {"busy", "late", "overlap"}
  /\ observer' = CASE observer = "busy" -> "done" [] observer = "late" -> "idle"
                   [] observer = "overlap" -> "busy"
  /\ UNCHANGED <<hostVars, workerVars, history, queue, answer, frame, response, wire,
                 cancelled, expired, alive>>

----------------------------------------------------------------------------
(* The host: McpExecutor::execute.                                         *)

(* An observation of the server's work.  EffectUsage counts one call, if   *)
(* the call was dispatched; output evidence is left out, as no contract    *)
(* looks at it.                                                            *)
Observed(e, status, seen) ==
  LET post == IF e.class = "mutation" \/ seen = e.subject THEN seen ELSE Null
  IN [status |-> status, post |-> post, exit |-> Null,
      usage |-> [m \in Meters |-> IF m = "calls" THEN 1 ELSE 0],
      executor |-> Configured, sandbox |-> "requested",
      reason |-> IF status = "executed" THEN Null ELSE "text",
      evidence |-> {"capability_schema", "executor", "sandbox", "usage"}
        \cup (IF seen = Null THEN {} ELSE {"subject_observation"})
        \cup (IF seen # Null /\ e.class = "mutation" THEN {"mutation", "artifact"} ELSE {})
        \cup (CASE status = "unknown_outcome" -> {"unknown_outcome"}
                [] status = "failed" -> {"failure"}
                [] status = "interrupted" -> {"interruption"}
                [] OTHER -> {}),
      evidenceIntact |-> TRUE]

Refused(status, evidence) ==
  [status |-> status, post |-> Null, exit |-> Null, usage |-> ZeroUsage,
   executor |-> Null, sandbox |-> Null, reason |-> "text", evidence |-> evidence,
   evidenceIntact |-> TRUE]

Return(e, o) ==
  /\ reports' = Append(reports, [effect |-> e, observation |-> o])
  /\ host' = "idle" /\ effect' = Null /\ verdict' = "none" /\ recorded' = "none"

(* The error mapping of execute: without a new record marked dispatched the*)
(* error says that nothing was dispatched.                                 *)
ReturnError(e, mark) ==
  Return(e, [status |-> IF mark = "dispatched" THEN "error" ELSE "not_dispatched"])

HostOnly == UNCHANGED <<workerVars, history, frame, response, wire, expired, alive>>

(* The request is not the prepared one, or it was attempted before.        *)
ExecuteRejects ==
  /\ host = "idle" /\ Attempt <= MaxAttempts
  /\ \E e \in Effects :
       /\ ~e.intact \/ {e.id, e.key} \cap attempted # {}
       /\ ReturnError(e, "none")
  /\ HostOnly /\ UNCHANGED <<attempted, queue, answer, cancelled, observer>>

Admissible(e) ==
  /\ host = "idle" /\ Attempt <= MaxAttempts
  /\ e.intact /\ {e.id, e.key} \cap attempted = {}

ExecuteDenies ==
  /\ \E e \in Effects :
       /\ Admissible(e)
       /\ wire.failure \/ cancelled \/ expired
       /\ Return(e, Refused("denied", {}))
  /\ HostOnly /\ UNCHANGED <<attempted, queue, answer, cancelled, observer>>

ExecuteStarts ==
  /\ \E e \in Effects :
       /\ Admissible(e)
       /\ ~wire.failure /\ ~cancelled /\ ~expired
       /\ effect' = e
  /\ host' = "preflight"
  /\ HostOnly
  /\ UNCHANGED <<verdict, recorded, attempted, reports, queue, answer, cancelled, observer>>

PreflightProbes ==
  /\ host = "preflight" /\ ~cancelled /\ ~expired
  /\ Probe
  /\ host' = "preflight_wait"
  /\ HostOnly
  /\ UNCHANGED <<effect, verdict, recorded, attempted, reports, queue, answer, cancelled>>

PreflightFails ==
  /\ \/ host = "preflight" /\ (cancelled \/ expired)
     \/ host = "preflight_wait"
  /\ ProbeFails
  /\ ReturnError(effect, recorded)
  /\ HostOnly /\ UNCHANGED <<attempted, queue, answer>>

(* The subject is stale, the usage invalid or no evidence can be retained. *)
PreflightRefuses ==
  /\ host = "preflight_wait" /\ ~cancelled
  /\ ProbeAnswers
  /\ ReturnError(effect, recorded)
  /\ HostOnly /\ UNCHANGED <<attempted, queue, answer, cancelled>>

(* The call record is pushed before the command is sent.                   *)
PreflightPasses ==
  /\ host = "preflight_wait" /\ ~cancelled
  /\ ProbeAnswers
  /\ host' = "send" /\ recorded' = "intent"
  /\ HostOnly
  /\ UNCHANGED <<effect, verdict, attempted, reports, queue, answer, cancelled>>

SendFails ==
  /\ host = "send" /\ worker = "exited"
  /\ ReturnError(effect, recorded)
  /\ HostOnly /\ UNCHANGED <<attempted, queue, answer, cancelled, observer>>

HostSends ==
  /\ host = "send" /\ worker # "exited"
  /\ queue' = "invoke"
  /\ recorded' = "dispatched"
  /\ host' = "await"
  /\ HostOnly
  /\ UNCHANGED <<effect, verdict, attempted, reports, answer, cancelled, observer>>

(* The worker's own probe failed, so that nothing was dispatched.          *)
ReceivesProbeFailure ==
  /\ host = "await" /\ answer # Null /\ answer.status = "observer_failed"
  /\ answer' = Null
  /\ cancelled' = TRUE
  /\ ReturnError(effect, "intent")
  /\ HostOnly /\ UNCHANGED <<attempted, queue, observer>>

ReceivesRefusal ==
  /\ host = "await" /\ answer # Null /\ answer.status # "observer_failed"
  /\ ~answer.dispatched
  /\ answer' = Null
  /\ Return(effect, Refused(answer.status, {"capability_schema"}))
  /\ HostOnly /\ UNCHANGED <<attempted, queue, cancelled, observer>>

(* Mutant: only an executed call is remembered as attempted.               *)
RemembersExecuted(status) ==
  IF status = "executed" THEN attempted \cup {effect.id, effect.key} ELSE attempted

Remembers(status) == attempted \cup {effect.id, effect.key}

(* The call was dispatched, or the worker is gone and nobody can tell.     *)
ReceivesOutcome ==
  /\ host = "await"
  /\ \/ answer # Null /\ answer.dispatched /\ verdict' = answer.status
     \/ answer = Null /\ worker = "exited" /\ verdict' = "unknown_outcome"
  /\ answer' = Null
  /\ attempted' = Remembers(verdict')
  /\ host' = "reconcile"
  /\ HostOnly
  /\ UNCHANGED <<effect, recorded, reports, queue, cancelled, observer>>

ReconcileProbes ==
  /\ host = "reconcile"
  /\ Probe
  /\ host' = "reconcile_wait"
  /\ HostOnly
  /\ UNCHANGED <<effect, verdict, recorded, attempted, reports, queue, answer, cancelled>>

(* Mutant: a subject that an observation has changed is reported as is.    *)
ConfirmedAnyway(e, confirmed, subject, measured) ==
  IF confirmed /\ measured /\ subject # "oversize" THEN verdict ELSE "unknown_outcome"

(* What independent observation leaves of the worker's verdict.            *)
Confirmed(e, confirmed, subject, measured) ==
  IF /\ confirmed /\ measured /\ subject # "oversize"
     /\ e.class = "observation" => subject = e.subject
    THEN verdict ELSE "unknown_outcome"

(* Mutant: an unknown outcome leaves the session open.                     *)
EndsNothing(final) == UNCHANGED cancelled

Ends(final) == cancelled' = (cancelled \/ final = "unknown_outcome")

(* A cancelled call is not reported as executed; an unknown outcome ends   *)
(* the session.                                                            *)
Concludes(status, seen) ==
  LET final == IF status # "executed" \/ ~cancelled THEN status
               ELSE IF wire.failure THEN "unknown_outcome" ELSE "interrupted"
  IN Return(effect, Observed(effect, final, seen)) /\ Ends(final)

ReconcileAnswers ==
  /\ host = "reconcile_wait"
  /\ ProbeAnswers
  /\ \E confirmed, measured \in BOOLEAN, subject \in Subjects \cup {"oversize"} :
       Concludes(Confirmed(effect, confirmed, subject, measured),
                 IF subject = "oversize" THEN Null ELSE subject)
  /\ HostOnly /\ UNCHANGED <<attempted, queue, answer>>

ReconcileFails ==
  /\ host = "reconcile_wait"
  /\ ProbeFails
  /\ Return(effect, Observed(effect, "unknown_outcome", Null))
  /\ HostOnly /\ UNCHANGED <<attempted, queue, answer>>

(* Drop of McpExecutor: cancel, send Stop, join the worker.                *)
HostDrops ==
  /\ host = "idle"
  /\ cancelled' = TRUE
  /\ queue' = IF worker = "exited" THEN queue ELSE "stop"
  /\ host' = "joining"
  /\ HostOnly
  /\ UNCHANGED <<effect, verdict, recorded, attempted, reports, answer, observer>>

HostJoins ==
  /\ host = "joining" /\ worker = "exited"
  /\ host' = "gone"
  /\ HostOnly
  /\ UNCHANGED <<effect, verdict, recorded, attempted, reports, queue, answer, cancelled, observer>>

HostStep ==
  \/ PreflightProbes \/ PreflightFails \/ PreflightRefuses \/ PreflightPasses
  \/ SendFails \/ HostSends
  \/ ReceivesProbeFailure \/ ReceivesRefusal \/ ReceivesOutcome
  \/ ReconcileProbes \/ ReconcileAnswers \/ ReconcileFails \/ HostJoins

Calls == ExecuteRejects \/ ExecuteDenies \/ ExecuteStarts \/ HostDrops

----------------------------------------------------------------------------
(* The worker: worker::run and Session::invoke.                            *)

Invoking == {"list", "gates", "observe", "observe_wait", "checks", "arm", "calling"}

WorkerGoes(at) ==
  /\ worker' = at
  /\ UNCHANGED <<hostVars, history, response, expired>>

Reply(status, dispatched) ==
  /\ answer' = [status |-> status, dispatched |-> dispatched]
  /\ WorkerGoes("top")

Quiet == UNCHANGED <<queue, answer, frame, wire, cancelled, observer, alive, discovered>>
ButReply == UNCHANGED <<queue, frame, wire, cancelled, observer, alive, discovered>>

WorkerLoops ==
  /\ worker = "top"
  /\ WorkerGoes(IF wire.failure \/ cancelled THEN "close" ELSE "receive")
  /\ Quiet

WorkerReceives ==
  /\ worker = "receive"
  /\ WorkerGoes(CASE queue = "none" -> "top" [] queue = "stop" -> "close"
                  [] queue = "invoke" -> "start")
  /\ queue' = "none"
  /\ UNCHANGED <<answer, frame, wire, cancelled, observer, alive, discovered>>

(* The deadline of the run, and the first checks of discover.              *)
InvokeStarts ==
  /\ worker = "start"
  /\ IF expired \/ wire.failure \/ cancelled
       THEN Reply("denied", FALSE) /\ ButReply
       ELSE WorkerGoes("read") /\ Quiet

DiscoverReads ==
  /\ worker = "read"
  /\ discovered' = wire.generation
  /\ WorkerGoes("list")
  /\ UNCHANGED <<queue, answer, frame, wire, cancelled, observer, alive>>

(* A page fails, is late or cancelled, or the inventory has changed.       *)
DiscoverFails ==
  /\ worker = "list"
  /\ Reply("denied", FALSE) /\ ButReply

DiscoverEnds ==
  /\ worker = "list"
  /\ ~wire.failure /\ wire.generation = discovered
  /\ WorkerGoes("gates") /\ Quiet

(* Tool trust and permission are evaluated again for the tool discovered.  *)
GatesRefuse ==
  /\ worker = "gates"
  /\ \E status \in NotExecuted : Reply(status, FALSE)
  /\ ButReply

GatesAllow ==
  /\ worker = "gates"
  /\ WorkerGoes("observe") /\ Quiet

WorkerProbes ==
  /\ worker = "observe" /\ ~cancelled /\ ~expired
  /\ Probe
  /\ WorkerGoes("observe_wait")
  /\ UNCHANGED <<queue, answer, frame, wire, cancelled, alive, discovered>>

WorkerProbeFails ==
  /\ \/ worker = "observe" /\ (cancelled \/ expired)
     \/ worker = "observe_wait"
  /\ ProbeFails
  /\ Reply("observer_failed", FALSE)
  /\ UNCHANGED <<queue, frame, wire, alive, discovered>>

(* The probe answers: the subject may be stale or the usage invalid.       *)
WorkerObserves ==
  /\ worker = "observe_wait" /\ ~cancelled
  /\ ProbeAnswers
  /\ \/ Reply("denied", FALSE)
     \/ WorkerGoes("checks") /\ UNCHANGED answer
  /\ UNCHANGED <<queue, frame, wire, cancelled, alive, discovered>>

WorkerChecks ==
  /\ worker = "checks"
  /\ IF expired \/ wire.failure \/ cancelled
       THEN Reply("denied", FALSE) /\ ButReply
       ELSE WorkerGoes("arm") /\ Quiet

(* The call is bound to its discovery and handed to the SDK.               *)
WorkerArms ==
  /\ worker = "arm"
  /\ wire' = [wire EXCEPT !.callGeneration = discovered, !.callStarted = FALSE]
  /\ frame' = [frame EXCEPT ![Attempt] = "queued"]
  /\ response' = "none"
  /\ worker' = "calling"
  /\ UNCHANGED <<hostVars, history, expired, queue, answer, cancelled, observer, alive, discovered>>

CallCancelled ==
  /\ worker = "calling" /\ cancelled
  /\ WorkerGoes("fail") /\ Quiet

(* Mutant: a call is awaited without a time limit.                         *)
CallWaits == FALSE

CallTimesOut ==
  /\ worker = "calling"
  /\ WorkerGoes("fail") /\ Quiet

(* The frame was refused, the session broke down, or an error came back.   *)
CallErrs ==
  /\ worker = "calling"
  /\ frame[Attempt] = "refused" \/ wire.failure \/ response = "rpc_error"
  /\ WorkerGoes("fail") /\ Quiet

CallDisturbed ==
  /\ worker = "calling" /\ response \in {"result", "tool_error", "bad_output"}
  /\ wire.failure \/ wire.generation # discovered
  /\ WorkerGoes("fail") /\ Quiet

(* Mutant: the tools may have changed while the call ran.                  *)
UndisturbedUnchecked == ~wire.failure

(* The session is healthy and the tools are the ones discovered.           *)
Undisturbed == ~wire.failure /\ wire.generation = discovered

CallReturns ==
  /\ worker = "calling" /\ Undisturbed
  /\ \/ response = "result" /\ Reply("executed", TRUE) /\ UNCHANGED wire
     \/ response = "tool_error" /\ Reply("failed", TRUE) /\ UNCHANGED wire
     \/ response = "bad_output" /\ Reply("unknown_outcome", TRUE) /\ Fails
  /\ UNCHANGED <<queue, frame, cancelled, observer, alive, discovered>>

WorkerFails ==
  /\ worker = "fail"
  /\ Fails
  /\ WorkerGoes("kill")
  /\ UNCHANGED <<queue, answer, frame, cancelled, observer, alive, discovered>>

WorkerKills ==
  /\ worker = "kill"
  /\ alive' = FALSE
  /\ WorkerGoes("tell")
  /\ UNCHANGED <<queue, answer, frame, wire, cancelled, observer, discovered>>

(* Only now, with the wire closed, is it settled whether a byte went out.  *)
WorkerTells ==
  /\ worker = "tell"
  /\ IF wire.callStarted THEN Reply("unknown_outcome", TRUE) ELSE Reply("denied", FALSE)
  /\ ButReply

(* Session::close; the channel is dropped with the commands still in it.   *)
WorkerCloses ==
  /\ worker = "close"
  /\ cancelled' = TRUE /\ alive' = FALSE /\ queue' = "none"
  /\ WorkerGoes("exited")
  /\ UNCHANGED <<answer, frame, wire, observer, discovered>>

WorkerStep ==
  \/ WorkerLoops \/ WorkerReceives \/ InvokeStarts
  \/ DiscoverReads \/ DiscoverFails \/ DiscoverEnds
  \/ GatesRefuse \/ GatesAllow \/ WorkerProbes \/ WorkerProbeFails \/ WorkerObserves
  \/ WorkerChecks \/ WorkerArms
  \/ CallCancelled \/ CallTimesOut \/ CallErrs \/ CallDisturbed \/ CallReturns
  \/ WorkerFails \/ WorkerKills \/ WorkerTells \/ WorkerCloses

----------------------------------------------------------------------------
(* The transport: StdioTransport::send of a tools/call, in an SDK task.    *)

TransportOnly == UNCHANGED <<hostVars, workerVars, queue, answer, response, cancelled,
                             expired, observer, alive>>

(* The frame waits for the writer, its tools unchanged.                    *)
FrameAdmitted(n) ==
  /\ frame[n] = "queued" /\ ~wire.failure /\ ~Drifted /\ ~cancelled
  /\ frame' = [frame EXCEPT ![n] = "ready"]
  /\ TransportOnly /\ UNCHANGED <<wire, history>>

(* The session has failed or is cancelled, the tools have changed, or too  *)
(* many requests are pending; a frame beyond the limit fails the session   *)
(* as well.                                                                *)
FrameRefused(n) ==
  /\ frame[n] = "queued"
  /\ frame' = [frame EXCEPT ![n] = "refused"]
  /\ Fails \/ UNCHANGED wire
  /\ TransportOnly /\ UNCHANGED history

(* Mutant: the call counts as started once its whole frame is written.     *)
StartedWhenWhole(to) == to = "sent"

(* Mutant: the generation is not checked again under the lock.             *)
WritableWhenHealthy == alive /\ ~wire.failure

Started(to)  == TRUE
Writable     == alive /\ ~wire.failure /\ ~Drifted

(* One write poll, with the state locked: some bytes, or the rest.         *)
FrameWrites(n) ==
  /\ frame[n] \in {"ready", "part"} /\ Writable
  /\ \E to \in {"part", "sent"} :
       /\ frame' = [frame EXCEPT ![n] = to]
       /\ wire' = [wire EXCEPT !.callStarted = @ \/ Started(to)]
  /\ wrote' = wrote \cup {n}
  /\ TransportOnly /\ UNCHANGED <<early, disturbed>>

(* A failure, a drift or a write error ends the frame and the session.     *)
FrameFails(n) ==
  /\ frame[n] \in {"ready", "part"}
  /\ frame' = [frame EXCEPT ![n] = "refused"]
  /\ Fails
  /\ TransportOnly /\ UNCHANGED history

FrameCancelled(n) ==
  /\ frame[n] \in {"ready", "part"} /\ cancelled
  /\ frame' = [frame EXCEPT ![n] = "refused"]
  /\ TransportOnly /\ UNCHANGED <<wire, history>>

TransportStep ==
  \E n \in Attempts : \/ FrameAdmitted(n) \/ FrameRefused(n) \/ FrameWrites(n)
                      \/ FrameFails(n) \/ FrameCancelled(n)

----------------------------------------------------------------------------
(* The server, the clock and the holder of the handle.                     *)

Outside == UNCHANGED <<hostVars, workerVars, queue, answer, frame, observer, alive, wrote>>

(* checked_add: a counter at its end fails the session.                    *)
NextGeneration ==
  IF wire.generation = MaxGeneration THEN [wire EXCEPT !.failure = TRUE]
  ELSE [wire EXCEPT !.generation = @ + 1]

(* notifications/tools/list_changed is received.                           *)
ListChanged ==
  /\ alive
  /\ wire' = NextGeneration
  /\ disturbed' = IF worker \in Invoking THEN disturbed \cup {Attempt} ELSE disturbed
  /\ early' = IF worker \in Invoking /\ Attempt \notin wrote
                THEN early \cup {Attempt} ELSE early
  /\ Outside /\ UNCHANGED <<response, cancelled, expired>>

(* The server answers a request it has read.                               *)
ServerResponds ==
  /\ alive /\ worker = "calling" /\ frame[Attempt] = "sent" /\ response = "none"
  /\ ~wire.failure
  /\ response' \in {"result", "tool_error", "bad_output", "rpc_error"}
  /\ Outside /\ UNCHANGED <<wire, cancelled, expired, early, disturbed>>

(* A malformed message, an exit, a read error or too much on stderr, which *)
(* also cancels.                                                           *)
ServerBreaks ==
  /\ ~wire.failure
  /\ Fails
  /\ cancelled' \in {cancelled, TRUE}
  /\ Outside /\ UNCHANGED <<response, expired, early, disturbed>>

Cancel ==
  /\ ~cancelled /\ cancelled' = TRUE
  /\ Outside /\ UNCHANGED <<response, wire, expired, early, disturbed>>

Expire ==
  /\ ~expired /\ expired' = TRUE
  /\ Outside /\ UNCHANGED <<response, wire, cancelled, early, disturbed>>

Environment ==
  ListChanged \/ ServerResponds \/ ServerBreaks \/ Cancel \/ Expire \/ ObserverReturns

Gone == host = "gone" /\ UNCHANGED vars

Next == HostStep \/ Calls \/ WorkerStep \/ TransportStep \/ Environment \/ Gone

Spec == Init /\ [][Next]_vars

(* The two threads run, and their timers fire.  Nothing is assumed of the  *)
(* server, the observer, the SDK's task or the caller.                     *)
FairSpec == Spec /\ WF_vars(HostStep) /\ WF_vars(WorkerStep)

----------------------------------------------------------------------------
(* Properties.                                                             *)

(* What the worker replies; the host's port maps observer_failed to an     *)
(* error.                                                                  *)
Replies == [status : Statuses \cup {"observer_failed"}, dispatched : BOOLEAN]

(* Null and Malformed are no value of any other kind.                      *)
ASSUME AbsenceAssumption ==
  /\ Null \notin Replies
  /\ {Null, Malformed} \cap ({"text", "blank", Configured} \cup DriftReasons) = {}

(* What execute returns: an ExecutorObservation or an error.               *)
Observations ==
  [status : Statuses, post : Subjects \cup {Null}, exit : {Null}, usage : Usage,
   executor : {Configured, Null}, sandbox : {"requested", Null}, reason : {"text", Null},
   evidence : SUBSET EvidenceTypes, evidenceIntact : {TRUE}]

Errors == [status : {"error", "not_dispatched"}]

(* The type of the host's, the worker's and the shared state: the counter  *)
(* of notifications stays in its range.                                    *)
TypeOK ==
  /\ host \in {"idle", "preflight", "preflight_wait", "send", "await", "reconcile",
               "reconcile_wait", "joining", "gone"}
  /\ effect \in Effects \cup {Null}
  /\ verdict \in Attempted \cup {"none"}
  /\ recorded \in {"none", "intent", "dispatched"}
  /\ reports \in Seq([effect : Effects, observation : Observations \cup Errors])
  /\ Len(reports) <= MaxAttempts
  /\ queue \in {"none", "invoke", "stop"}
  /\ answer \in Replies \cup {Null}
  /\ worker \in {"top", "receive", "start", "read", "fail", "kill", "tell", "close",
                 "exited"} \cup Invoking
  /\ discovered \in 0..MaxGeneration
  /\ frame \in [Attempts -> {"none", "queued", "ready", "part", "sent", "refused"}]
  /\ response \in {"none", "result", "tool_error", "bad_output", "rpc_error"}
  /\ wire \in [failure : BOOLEAN, generation : 0..MaxGeneration,
               callGeneration : (0..MaxGeneration) \cup {Null}, callStarted : BOOLEAN]
  /\ cancelled \in BOOLEAN /\ expired \in BOOLEAN /\ alive \in BOOLEAN
  /\ observer \in {"idle", "busy", "done", "late", "overlap"}
  /\ wrote \cup early \cup disturbed \subseteq Attempts

EffectOf(n) == IF n <= Len(reports) THEN reports[n].effect ELSE effect

StatusOf(n) == reports[n].observation.status

(* What execute reports as not executed never reached the server, not even *)
(* in part, and never will: the engine may treat it as a refusal.          *)
NotDispatchedNeverWritten ==
  \A n \in DOMAIN reports :
    StatusOf(n) \in NotExecuted \cup {"not_dispatched"} => n \notin wrote

(* No effect id and no idempotency key goes out on the wire twice, in      *)
(* whatever way the first attempt ended.                                   *)
WrittenAtMostOnce ==
  \A m, n \in wrote :
    m # n => {EffectOf(m).id, EffectOf(m).key} \cap {EffectOf(n).id, EffectOf(n).key} = {}

(* Once a change of the tools has been received, no call that was bound to *)
(* the tools before it sends its first byte.                               *)
NoFirstByteAfterDrift == wrote \cap early = {}

(* A call reported as executed ran, from its discovery to its response,    *)
(* while the tools did not change.                                         *)
ExecutedUndisturbed ==
  \A n \in DOMAIN reports : StatusOf(n) = "executed" => n \in wrote \ disturbed

(* An unknown outcome is the end of the session: nothing is sent after it. *)
UnknownEndsSession ==
  \A m \in DOMAIN reports : \A n \in wrote :
    StatusOf(m) = "unknown_outcome" => n <= m

(* A probe never starts while an abandoned one may still run, so a late    *)
(* answer can't be taken for a fresh one.                                  *)
ProbesSerial == observer # "overlap"

(* Every attempt the adapter reports can be sealed by the engine, which    *)
(* dispatched it in its own subject: the adapter never makes run() end     *)
(* without a receipt.                                                      *)
ObservationsSeal ==
  \A n \in DOMAIN reports : StatusOf(n) \in Attempted =>
    LET e == reports[n].effect
    IN ValidResult(e, ObservedBody([current |-> e.subject], e, Floored(reports[n].observation)))

(* The states of the two threads between which the rest is shared.         *)
Executing   == {"preflight", "preflight_wait", "send", "await", "reconcile", "reconcile_wait"}
Reconciling == {"reconcile", "reconcile_wait"}
Working     == Invoking \cup {"start", "read", "fail", "kill", "tell"}
Armed       == {"calling", "fail", "kill", "tell"}

(* The effect the host executes is one that was prepared; until its outcome*)
(* is received it has not been attempted, from then on it has.             *)
HostHoldsEffect ==
  /\ host \in Executing =>
       Len(reports) < MaxAttempts /\ effect \in Effects /\ effect.intact
  /\ host \in {"idle", "preflight", "preflight_wait"} => recorded = "none"
  /\ host = "send" => recorded = "intent"
  /\ host \in Executing \ Reconciling => {effect.id, effect.key} \cap attempted = {}
  /\ host \in Reconciling => {effect.id, effect.key} \subseteq attempted
                            /\ verdict \in {"executed", "failed", "unknown_outcome"}

(* Command and reply alternate: at most one of them is under way, and only *)
(* while the host waits.                                                   *)
OneCommand ==
  /\ worker \in Working \/ queue = "invoke" => host = "await" /\ answer = Null
  /\ worker \in Working => queue = "none"
  /\ queue = "stop" => host = "joining"
  /\ worker = "exited" => queue = "none"
  /\ answer # Null =>
       /\ host = "await" /\ queue = "none"
       /\ answer.status \in IF answer.dispatched THEN {"executed", "failed", "unknown_outcome"}
                            ELSE NotExecuted \cup {"observer_failed"}

(* A frame that may still be written belongs to the call the worker awaits.*)
FramesSettled ==
  /\ \A n \in Attempts : frame[n] \in {"queued", "ready", "part"} =>
       wire.failure \/ (n = Attempt /\ worker \in {"calling", "fail"})
  /\ \A n \in Attempts : frame[n] \in {"part", "sent"} => n \in wrote
  /\ worker = "calling" /\ response # "none" => frame[Attempt] = "sent"
  /\ worker \in {"kill", "tell"} => wire.failure

(* The attempt under way has been written only if somebody knows: the wire,*)
(* the reply or the host.  What was written before can't be attempted again*)
WritingKnown ==
  \A n \in wrote :
    \/ n <= Len(reports) /\ {reports[n].effect.id, reports[n].effect.key} \subseteq attempted
    \/ /\ n = Attempt
       /\ \/ worker \in Armed /\ wire.callStarted
          \/ answer # Null /\ answer.dispatched
          \/ host \in Reconciling

FoundExecuted ==
  \/ answer # Null /\ answer.status = "executed"
  \/ host \in Reconciling /\ verdict = "executed"

(* A disturbed call is one whose tools are older than the last change, or  *)
(* whose session has failed; what was found executed is neither.           *)
DisturbanceKnown ==
  /\ early \subseteq disturbed
  /\ \A n \in disturbed : n <= Len(reports) \/
       /\ n = Attempt
       /\ worker \in Invoking \cup {"fail", "kill", "tell"} \/ answer # Null \/ host \in Reconciling
  /\ discovered <= wire.generation
  /\ worker \in Invoking \cup {"fail"} /\ Attempt \in disturbed =>
       wire.failure \/ discovered < wire.generation
  /\ worker \in {"calling", "fail"} => wire.callGeneration = discovered
  /\ FoundExecuted => Attempt \in wrote \ disturbed

(* Nothing is under way after an unknown outcome.                          *)
UnknownIsLast ==
  (\E n \in DOMAIN reports : StatusOf(n) = "unknown_outcome")
    => cancelled /\ host \notin Executing

(* The observer works for the thread that waits for it, or for nobody in a *)
(* session that has ended.                                                 *)
ProbeOwned ==
  IF host \in {"preflight_wait", "reconcile_wait"} \/ worker = "observe_wait"
    THEN observer \in {"busy", "done"}
    ELSE \/ observer = "idle"
         \/ /\ observer = "late" /\ cancelled
            /\ host \in Executing => answer # Null /\ answer.status = "observer_failed"

(* The inductive invariant of the session: its types, what host, worker,   *)
(* writer and observer know of each other, that neither an unknown outcome *)
(* nor an abandoned probe is followed by further work, and what is reported*)
(* of what was written.                                                    *)
SessionInvariant ==
  /\ TypeOK
  /\ HostHoldsEffect
  /\ OneCommand
  /\ FramesSettled
  /\ WritingKnown
  /\ DisturbanceKnown
  /\ UnknownIsLast
  /\ ProbeOwned
  /\ NotDispatchedNeverWritten
  /\ WrittenAtMostOnce
  /\ NoFirstByteAfterDrift
  /\ ExecutedUndisturbed
  /\ ObservationsSeal
  /\ UnknownEndsSession
  /\ ProbesSerial

(* Every call of execute returns, whatever the server and the observer do, *)
(* also if the worker exits with the command in its queue.                 *)
Answered == host \notin {"idle", "gone"} ~> host \in {"idle", "gone"}

=============================================================================
