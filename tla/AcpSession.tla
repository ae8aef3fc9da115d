----------------------------- MODULE AcpSession -----------------------------
(***************************************************************************)
(* The ACP client adapter (adapters/acp/src) as agent and executor port of *)
(* one run: the engine's thread inside plan, next_effect, execute and      *)
(* close; the session worker with its wire guard; the host's thread behind *)
(* HostPort; and around them the agent process, the clock and the holder of*)
(* a CancelHandle.                                                         *)
(*                                                                         *)
(* Between its calls the engine does what AgentRun says: it stops after an *)
(* error and after an effect that was not executed, and closes.  A step    *)
(* reads several flags at once only where they never reset.  The delegated *)
(* filesystem profile is modelled; the Goose inventory is left out.        *)
(***************************************************************************)
EXTENDS Naturals, Sequences, FiniteSets

CONSTANT MaxRequests  \* bound: file requests of the agent

ASSUME RequestBound == MaxRequests \in Nat

VARIABLES call,      \* where the engine's thread stands
          step,      \* what the call in progress is about to return
          phase,     \* AdapterPhase
          start,     \* the oneshot that releases the prompt
          effects,   \* the effects prepared so far
          effect,    \* the request the last effect stands for
          pending,   \* Shared.pending, 0 without
          reports,   \* what execute has returned for each request
          events,    \* the channel from the session to the adapter
          op,        \* the operation of each request
          reply,     \* the oneshot behind each request
          session,   \* where the session worker stands
          announced, \* Ready has been sent
          wire,      \* ProtocolState
          failure,   \* failure_code is set
          port,      \* the channel, busy, quarantined; the deadline has passed
          host,      \* where the host's thread stands
          result,    \* what its callback returned
          answer,    \* its reply, in the channel of the engine's thread
          claims,    \* dispatch_claims
          outcome,   \* SessionOutcome
          canceller, \* where CancelHandle::cancel stands
          token,     \* the cancellation token
          expired    \* the run deadline has passed

engineVars  == <<call, step, phase, start, effects, effect, pending, reports>>
sessionVars == <<session, announced, wire>>
hostVars    == <<host, result, claims>>
cancelVars  == <<outcome, canceller, token>>
vars == <<engineVars, sessionVars, hostVars, cancelVars, events, op, reply, failure,
          port, answer, expired>>

Requests == 1..MaxRequests

Init ==
  /\ call = "start" /\ step = "none" /\ phase = "New" /\ start = "held"
  /\ effects = 0 /\ effect = 0 /\ pending = 0
  /\ reports = [n \in Requests |-> "none"] /\ events = <<>>
  /\ op = [n \in Requests |-> "none"] /\ reply = [n \in Requests |-> "none"]
  /\ session = "off" /\ announced = FALSE
  /\ wire = [phase |-> "New", outgoing |-> "none", incoming |-> {}, tool |-> "none",
             open |-> TRUE]
  /\ failure = FALSE
  /\ port = [queue |-> "none", busy |-> FALSE, quarantined |-> FALSE, due |-> FALSE]
  /\ host = "idle" /\ result = "none" /\ answer = "none" /\ claims = {}
  /\ outcome = "Active" /\ canceller = "idle" /\ token = FALSE /\ expired = FALSE

----------------------------------------------------------------------------
(* HostPort, seen from the engine's thread.                                *)

(* begin: for a reconciling call the token and the run deadline only       *)
(* shorten the wait.                                                       *)
BeginRefuses(reconcile) ==
  \/ port.quarantined
  \/ ~reconcile /\ token
  \/ expired /\ ~(reconcile /\ token)
  \/ port.busy

Begin(command) ==
  port' = [port EXCEPT !.queue = command, !.busy = TRUE, !.due = FALSE]

----------------------------------------------------------------------------
(* The agent port: plan and next_effect.                                   *)

EngineOnly == UNCHANGED <<sessionVars, hostVars, outcome, canceller, op, expired>>

(* The call returns an error, or the engine ends the run.                  *)
Ends == call' = "over" /\ step' = "none"

(* prepare returns an error: the request's reply channel is dropped.       *)
Drops(n) == reply' = [reply EXCEPT ![n] = "err"]

Plan ==
  /\ call = "start"
  /\ phase' = "Starting"
  /\ \/ Ends /\ UNCHANGED session
     \/ call' = "plan_event" /\ session' = "run" /\ UNCHANGED step
  /\ UNCHANGED <<start, effects, effect, pending, reports, announced, wire, hostVars,
                 cancelVars, events, op, reply, failure, port, answer, expired>>

(* next_effect releases the prompt unless the session is cancelled.        *)
NextEffect ==
  /\ call = "ready"
  /\ IF ~token /\ start = "held" THEN start' = "sent" /\ phase' = "Active"
     ELSE UNCHANGED <<start, phase>>
  /\ call' = "event" /\ step' = "none"
  /\ EngineOnly
  /\ UNCHANGED <<effects, effect, pending, reports, token, events, reply, failure, port, answer>>

(* event(): a cancelled token ends a plan with an error and next_effect    *)
(* with AgentStep::Cancel.  An event received meanwhile is lost, and with  *)
(* it the reply channel of a request.                                      *)
EventCancelled ==
  /\ call \in {"plan_event", "event"} /\ token
  /\ \/ UNCHANGED <<events, reply>>
     \/ /\ events # <<>> /\ events' = Tail(events)
        /\ IF Head(events).kind = "effect" THEN Drops(Head(events).request)
           ELSE UNCHANGED reply
  /\ IF call = "event" THEN call' = "meter" /\ step' = "cancel" /\ phase' = "Closed"
     ELSE Ends /\ UNCHANGED phase
  /\ EngineOnly
  /\ UNCHANGED <<start, effects, effect, pending, reports, token, failure, port, answer>>

EventTimesOut ==
  /\ call \in {"plan_event", "event"}
  /\ token' = TRUE
  /\ Ends
  /\ EngineOnly
  /\ UNCHANGED <<phase, start, effects, effect, pending, reports, events, reply, failure, port, answer>>

(* The session ends with an event, finished or fault, so the channel is    *)
(* never found closed.                                                     *)
Receives(kind) ==
  /\ events # <<>> /\ Head(events).kind = kind /\ ~token
  /\ events' = Tail(events)

PlanReady ==
  /\ call = "plan_event" /\ Receives("ready")
  /\ call' = "meter" /\ step' = "plan"
  /\ EngineOnly
  /\ UNCHANGED <<phase, start, effects, effect, pending, reports, token, reply, failure, port, answer>>

(* prepare: one effect at a time, in a path of the workspace.              *)
EffectPrepared ==
  /\ call = "event" /\ Receives("effect")
  /\ ~failure /\ pending = 0
  /\ effect' = Head(events).request /\ pending' = effect' /\ effects' = effects + 1
  /\ call' = "meter" /\ step' = "effect"
  /\ EngineOnly /\ UNCHANGED <<phase, start, reports, token, reply, failure, port, answer>>

(* A fault is on record, another effect is pending or the path is refused. *)
EffectRefused ==
  /\ call = "event" /\ Receives("effect")
  /\ Drops(Head(events).request)
  /\ Ends
  /\ EngineOnly
  /\ UNCHANGED <<phase, start, effects, effect, pending, reports, token, failure, port, answer>>

AgentFinished ==
  /\ call = "event" /\ Receives("finished")
  /\ phase' = IF failure THEN phase ELSE "Closed"
  /\ IF ~failure /\ Head(events).turnEnded /\ effects > 0
       THEN call' = "meter" /\ step' = "finish" ELSE Ends
  /\ EngineOnly
  /\ UNCHANGED <<start, effects, effect, pending, reports, token, reply, failure, port, answer>>

(* A fault, or an event that is out of order.                              *)
EventFault ==
  /\ \/ call \in {"plan_event", "event"} /\ Receives("fault")
     \/ call = "event" /\ Receives("ready")
  /\ Ends
  /\ phase' = IF call = "event" /\ Head(events).kind = "fault" /\ ~failure
                THEN "Closed" ELSE phase
  /\ EngineOnly
  /\ UNCHANGED <<start, effects, effect, pending, reports, token, reply, failure, port, answer>>

(* meter: the host's usage goes with every answer.                         *)
MeterFails ==
  /\ call = "meter" /\ BeginRefuses(TRUE)
  /\ Ends
  /\ EngineOnly
  /\ UNCHANGED <<phase, start, effects, effect, pending, reports, token, events, reply, failure, port, answer>>

MeterBegins ==
  /\ call = "meter" /\ ~BeginRefuses(TRUE)
  /\ Begin("usage")
  /\ call' = "usage"
  /\ EngineOnly
  /\ UNCHANGED <<step, phase, start, effects, effect, pending, reports, token, events, reply, failure, answer>>

MeterReturns ==
  /\ call = "usage" /\ answer # "none"
  /\ answer' = "none"
  /\ IF answer = "ok"
       THEN /\ call' = IF step = "plan" THEN "ready" ELSE "decide"
            /\ phase' = IF step = "plan" THEN "Ready" ELSE phase
            /\ UNCHANGED step
       ELSE Ends /\ UNCHANGED phase
  /\ EngineOnly
  /\ UNCHANGED <<start, effects, effect, pending, reports, token, events, reply, failure, port>>

----------------------------------------------------------------------------
(* The executor port, and what the engine does with a step.                *)

(* The run ends here: a gate refuses, the step is a cancellation, or the   *)
(* verification fails.                                                     *)
EngineStops ==
  /\ call \in {"ready", "decide"}
  /\ Ends
  /\ EngineOnly
  /\ UNCHANGED <<phase, start, effects, effect, pending, reports, token, events, reply, failure, port, answer>>

Reports(status) ==
  /\ reports' = [reports EXCEPT ![effect] = status]
  /\ call' = IF status = "executed" THEN "ready" ELSE "over"
  /\ step' = "none"

(* No authority, a cancelled or failed session, or a host that can't begin.*)
ExecuteRefuses ==
  /\ call = "decide" /\ step = "effect"
  /\ pending' = 0
  /\ Drops(effect)
  /\ Reports("denied")
  /\ EngineOnly
  /\ UNCHANGED <<phase, start, effects, effect, token, events, failure, port, answer>>

ExecuteBegins ==
  /\ call = "decide" /\ step = "effect" /\ pending = effect
  /\ ~token /\ ~failure /\ ~BeginRefuses(FALSE)
  /\ pending' = 0
  /\ Begin("execute")
  /\ call' = "host"
  /\ EngineOnly
  /\ UNCHANGED <<step, phase, start, effects, effect, reports, token, events, reply, failure, answer>>

ExecuteDeclined ==
  /\ call = "host" /\ answer = "declined"
  /\ answer' = "none"
  /\ Drops(effect)
  /\ Reports("denied")
  /\ EngineOnly
  /\ UNCHANGED <<phase, start, effects, effect, pending, token, events, failure, port>>

(* The callback failed: the outcome is unknown.                            *)
ExecuteErrs ==
  /\ call = "host" /\ answer = "error"
  /\ answer' = "none"
  /\ Drops(effect)
  /\ Reports("unknown")
  /\ EngineOnly
  /\ UNCHANGED <<phase, start, effects, effect, pending, token, events, failure, port>>

(* Mutant: an effect the host reports as failed is confirmed to the agent. *)
ConfirmsAttempt(status, text) == TRUE

(* The agent's request succeeds only with an executed effect, and a read   *)
(* only with its text.                                                     *)
Confirms(status, text) == status = "executed" /\ (op[effect] = "read" => text)

(* A read that changed the subject becomes an unknown outcome; a read      *)
(* without its text fails the session.  Whatever else the host may report  *)
(* of an effect it has begun counts as failed here.                        *)
ExecuteReturns ==
  /\ call = "host" /\ answer = "observed"
  /\ answer' = "none"
  /\ \E reported \in {"executed", "failed", "unknown"}, changed, text \in BOOLEAN :
       LET misread == op[effect] = "read" /\ changed
           status  == IF misread THEN "unknown" ELSE reported
           mute    == op[effect] = "read" /\ status = "executed" /\ ~text
       IN /\ Reports(status)
          /\ failure' = (failure \/ misread \/ mute)
          /\ reply' = [reply EXCEPT ![effect] = IF Confirms(status, text) THEN "ok" ELSE "err"]
  /\ EngineOnly
  /\ UNCHANGED <<phase, start, effects, effect, pending, token, events, port>>

(* Mutant: the engine waits for the callback without a limit.              *)
HostAwaited == FALSE

(* recv_timeout ends at the deadline, or when the host's thread has died;  *)
(* only then is the port quarantined.                                      *)
HostGivenUp ==
  /\ call \in {"usage", "host"} /\ answer = "none" /\ (port.due \/ host = "dead")
  /\ call' = IF call = "usage" THEN "quit_usage" ELSE "quit_host"
  /\ EngineOnly
  /\ UNCHANGED <<step, phase, start, effects, effect, pending, reports, token, events, reply,
                 failure, port, answer>>

Quarantines ==
  /\ call \in {"quit_usage", "quit_host"}
  /\ port' = [port EXCEPT !.quarantined = TRUE]
  /\ token' = TRUE
  /\ IF call = "quit_host" THEN Reports("unknown") /\ Drops(effect)
     ELSE Ends /\ UNCHANGED <<reports, reply>>
  /\ EngineOnly
  /\ UNCHANGED <<phase, start, effects, effect, pending, events, failure, answer>>

(* claim_completion, by the agent port and by the executor port.           *)
Claims ==
  /\ \/ call = "decide" /\ step = "finish" /\ call' = "claim"
     \/ call = "claim" /\ call' = "over"
  /\ outcome' = IF outcome = "Active" THEN "CompletionClaimed" ELSE outcome
  /\ UNCHANGED <<step, phase, start, effects, effect, pending, reports, sessionVars, hostVars,
                 canceller, token, events, op, reply, failure, port, answer, expired>>

(* close: the session is cancelled, the pending request dropped.           *)
CloseStarts ==
  /\ call = "over"
  /\ call' = IF session = "off" THEN "closed" ELSE "closing"
  /\ phase' = "Closed" /\ start' = IF start = "held" THEN "dropped" ELSE start
  /\ token' = TRUE
  /\ pending' = 0
  /\ IF pending = 0 THEN UNCHANGED reply ELSE Drops(pending)
  /\ EngineOnly
  /\ UNCHANGED <<step, effects, effect, reports, events, failure, port, answer>>

(* The worker has stopped, or the second granted to it is over.            *)
CloseEnds ==
  /\ call = "closing"
  /\ call' = "closed"
  /\ \/ session \in {"faulting", "gone"} /\ UNCHANGED failure
     \/ failure' = TRUE
  /\ EngineOnly
  /\ UNCHANGED <<step, phase, start, effects, effect, pending, reports, token, events, reply, port, answer>>

Engine ==
  \/ Plan \/ NextEffect \/ EventCancelled \/ EventTimesOut
  \/ PlanReady \/ EffectPrepared \/ EffectRefused \/ AgentFinished \/ EventFault
  \/ MeterFails \/ MeterBegins \/ MeterReturns \/ EngineStops
  \/ ExecuteRefuses \/ ExecuteBegins \/ ExecuteDeclined \/ ExecuteErrs \/ ExecuteReturns
  \/ HostGivenUp \/ Quarantines \/ Claims \/ CloseStarts \/ CloseEnds

----------------------------------------------------------------------------
(* The host's thread.                                                      *)

HostOnly == UNCHANGED <<engineVars, sessionVars, cancelVars, events, op, reply, failure, expired>>

(* Mutant: a command is claimed although its deadline has passed.          *)
ClaimableLate == ~failure /\ ~token /\ ~port.quarantined

(* The claim, under the lock that records faults.                          *)
Claimable == ~failure /\ ~token /\ ~port.due /\ ~port.quarantined

HostTakesExecute ==
  /\ host = "idle" /\ port.queue = "execute"
  /\ port' = [port EXCEPT !.queue = "none"]
  /\ IF Claimable THEN claims' = claims \cup {effect} /\ host' = "execute" /\ UNCHANGED result
     ELSE host' = "free" /\ result' = "declined" /\ UNCHANGED claims
  /\ HostOnly /\ UNCHANGED answer

HostTakesUsage ==
  /\ host = "idle" /\ port.queue = "usage"
  /\ port' = [port EXCEPT !.queue = "none"]
  /\ IF port.due \/ port.quarantined THEN host' = "free" /\ result' = "error"
     ELSE host' = "usage" /\ UNCHANGED result
  /\ HostOnly /\ UNCHANGED <<claims, answer>>

CallbackReturns ==
  /\ host \in {"execute", "usage"}
  /\ result' \in {"error", IF host = "usage" THEN "ok" ELSE "observed"}
  /\ host' = "free"
  /\ HostOnly /\ UNCHANGED <<port, claims, answer>>

(* A panic ends the host's thread: the port stays busy.                    *)
CallbackPanics ==
  /\ host \in {"execute", "usage"}
  /\ host' = "dead"
  /\ HostOnly /\ UNCHANGED <<port, result, claims, answer>>

(* A reply nobody waits for is lost with its channel.                      *)
Delivered == IF call \in {"usage", "host"} THEN result ELSE answer

(* Mutant: the reply is sent before the port is free.                      *)
HostRepliesEarly ==
  /\ host = "free"
  /\ answer' = Delivered
  /\ host' = "reply"
  /\ HostOnly /\ UNCHANGED <<port, result, claims>>

HostFrees ==
  /\ host = "free"
  /\ port' = [port EXCEPT !.busy = FALSE]
  /\ host' = "reply"
  /\ HostOnly /\ UNCHANGED <<result, claims, answer>>

HostReplies ==
  /\ host = "reply"
  /\ answer' = Delivered
  /\ host' = "idle" /\ result' = "none"
  /\ HostOnly /\ UNCHANGED <<port, claims>>

HostThread == HostTakesExecute \/ HostTakesUsage \/ HostFrees \/ HostReplies

----------------------------------------------------------------------------
(* The session worker and the wire guard.                                  *)

SessionOnly == UNCHANGED <<engineVars, hostVars, cancelVars, op, port, answer, expired>>

Put(event) == events' = Append(events, event)

Event(kind) == [kind |-> kind, request |-> 0, turnEnded |-> FALSE]

Running == session = "run" /\ wire.open

(* The requests of the client, each in its phase.                          *)
SessionSends ==
  /\ session = "run" /\ wire.outgoing = "none"
  /\ \/ wire.phase = "New" /\ wire' = [wire EXCEPT !.outgoing = "initialize"]
     \/ wire.phase = "Initialized" /\ wire' = [wire EXCEPT !.outgoing = "session/new"]
     \/ /\ wire.phase = "Ready" /\ announced /\ start = "sent"
        /\ wire' = [wire EXCEPT !.outgoing = "session/prompt", !.phase = "Prompt"]
  /\ SessionOnly /\ UNCHANGED <<session, announced, events, reply, failure>>

SessionAnnounces ==
  /\ session = "run" /\ wire.phase = "Ready" /\ ~announced
  /\ announced' = TRUE
  /\ Put(Event("ready"))
  /\ SessionOnly /\ UNCHANGED <<session, wire, reply, failure>>

(* The answer to a file request goes out through the guard.                *)
SessionAnswers ==
  /\ session = "run"
  /\ \E n \in wire.incoming :
       /\ reply[n] \in {"ok", "err"}
       /\ wire' = [wire EXCEPT !.incoming = @ \ {n}]
  /\ SessionOnly /\ UNCHANGED <<session, announced, events, reply, failure>>

SessionFinishes ==
  /\ session = "run" /\ wire.phase = "Terminal"
  /\ session' = "finished"
  /\ \E ended \in BOOLEAN : Put([Event("finished") EXCEPT !.turnEnded = ended])
  /\ SessionOnly /\ UNCHANGED <<announced, wire, reply, failure>>

(* Cancellation, the timeout, too much on stderr, a broken stream; or the  *)
(* agent is not the one configured, which is recorded first.               *)
SessionFails ==
  /\ session = "run"
  /\ session' = "failed"
  /\ failure' \in {failure, failure \/ wire.phase = "Initialized"}
  /\ SessionOnly /\ UNCHANGED <<announced, wire, events, reply>>

(* The child is killed and `stopped' sent; a failure is told only then.    *)
SessionStops ==
  /\ session \in {"finished", "failed"}
  /\ session' = IF session = "finished" THEN "gone" ELSE "faulting"
  /\ SessionOnly /\ UNCHANGED <<announced, wire, events, reply, failure>>

SessionFaults ==
  /\ session = "faulting"
  /\ session' = "gone"
  /\ failure' = TRUE
  /\ Put(Event("fault"))
  /\ SessionOnly /\ UNCHANGED <<announced, wire, reply>>

Session ==
  \/ SessionSends \/ SessionAnnounces \/ SessionAnswers \/ SessionFinishes
  \/ SessionFails \/ SessionStops \/ SessionFaults

----------------------------------------------------------------------------
(* The agent process: what it sends passes the guard or ends the stream.   *)

Rejects == wire' = [wire EXCEPT !.open = FALSE] /\ failure' = TRUE

(* Mutant: the turn may end with requests or tools still open.             *)
TurnMayEndEarly == TRUE

TurnMayEnd == wire.incoming = {} /\ wire.tool # "open"

AgentResponds ==
  /\ Running /\ wire.outgoing # "none"
  /\ IF wire.outgoing = "session/prompt" /\ ~TurnMayEnd
       THEN Rejects
       ELSE /\ wire' = [wire EXCEPT !.outgoing = "none", !.phase =
                          CASE wire.outgoing = "initialize" -> "Initialized"
                            [] wire.outgoing = "session/new" -> "Ready"
                            [] OTHER -> "Terminal"]
            /\ UNCHANGED failure
  /\ SessionOnly /\ UNCHANGED <<session, announced, events, reply>>

Admits == wire.phase = "Prompt" /\ wire.incoming = {}

Asked == {n \in Requests : reply[n] # "none"}

AgentAsks ==
  /\ Running /\ Asked # Requests
  /\ LET n == Cardinality(Asked) + 1
     IN IF Admits
          THEN /\ wire' = [wire EXCEPT !.incoming = @ \cup {n}]
               /\ op' \in {[op EXCEPT ![n] = o] : o \in {"read", "write"}}
               /\ reply' = [reply EXCEPT ![n] = "open"]
               /\ Put([Event("effect") EXCEPT !.request = n])
               /\ UNCHANGED failure
          ELSE Rejects /\ UNCHANGED <<op, reply, events>>
  /\ UNCHANGED <<engineVars, hostVars, cancelVars, session, announced, port, answer, expired>>

(* A permission request is refused, recorded and told to the adapter; in a *)
(* session that has failed another one changes nothing.                    *)
AgentAsksPermission ==
  /\ Running /\ Admits /\ ~failure
  /\ failure' = TRUE
  /\ Put(Event("fault"))
  /\ SessionOnly /\ UNCHANGED <<sessionVars, reply>>

AgentUpdatesTool ==
  /\ Running /\ wire.phase = "Prompt"
  /\ \/ wire.tool = "none" /\ wire' = [wire EXCEPT !.tool = "open"]
     \/ wire.tool = "open" /\ wire' = [wire EXCEPT !.tool = "done"]
  /\ SessionOnly /\ UNCHANGED <<session, announced, events, reply, failure>>

(* A malformed, unexpected or oversized message, an error, or the end.     *)
AgentBreaks ==
  /\ Running
  /\ Rejects
  /\ SessionOnly /\ UNCHANGED <<session, announced, events, reply>>

Agent == AgentResponds \/ AgentAsks \/ AgentAsksPermission \/ AgentUpdatesTool \/ AgentBreaks

----------------------------------------------------------------------------
(* The clock and the holder of the handle.                                 *)

Outside == UNCHANGED <<engineVars, sessionVars, hostVars, events, op, reply, failure, answer>>

Due ==
  /\ ~port.due /\ port.busy
  /\ port' = [port EXCEPT !.due = TRUE]
  /\ Outside /\ UNCHANGED <<cancelVars, expired>>

Expire ==
  /\ ~expired /\ expired' = TRUE
  /\ Outside /\ UNCHANGED <<cancelVars, port>>

(* Mutant: the token is cancelled before the outcome is decided.           *)
CancelTokenFirst ==
  /\ canceller = "idle"
  /\ canceller' = "won" /\ token' = TRUE
  /\ Outside /\ UNCHANGED <<outcome, port, expired>>

CancelWins ==
  /\ canceller = "idle" /\ outcome = "Active"
  /\ outcome' = "Cancelled" /\ canceller' = "won"
  /\ Outside /\ UNCHANGED <<token, port, expired>>

CancelToken ==
  /\ canceller = "won"
  /\ canceller' = "done" /\ token' = TRUE
  /\ Outside /\ UNCHANGED <<outcome, port, expired>>

Environment == Agent \/ CallbackReturns \/ CallbackPanics \/ Expire \/ CancelWins \/ CancelToken

Closed == call = "closed" /\ UNCHANGED vars

Next == Engine \/ HostThread \/ Session \/ Due \/ Environment \/ Closed

Spec == Init /\ [][Next]_vars

(* The threads of the adapter run and their timers fire.  Nothing is       *)
(* assumed of the agent, the host's callback or the canceller.             *)
FairSpec ==
  Spec /\ WF_vars(Engine) /\ WF_vars(HostThread) /\ WF_vars(Session) /\ WF_vars(Due)

----------------------------------------------------------------------------
(* Properties.                                                             *)

Calls == {"start", "plan_event", "ready", "event", "meter", "usage", "quit_usage", "decide",
          "host", "quit_host", "claim", "over", "closing", "closed"}

Events ==
  [kind : {"ready", "effect", "finished", "fault"}, request : 0..MaxRequests, turnEnded : BOOLEAN]

(* The type of the state.                                                  *)
TypeOK ==
  /\ call \in Calls
  /\ step \in {"none", "plan", "effect", "finish", "cancel"}
  /\ phase \in {"New", "Starting", "Ready", "Active", "Closed"}
  /\ start \in {"held", "sent", "dropped"}
  /\ effects \in 0..MaxRequests /\ effect \in 0..MaxRequests /\ pending \in {0, effect}
  /\ reports \in [Requests -> {"none", "executed", "failed", "unknown", "denied"}]
  /\ events \in Seq(Events)
  /\ op \in [Requests -> {"none", "read", "write"}]
  /\ reply \in [Requests -> {"none", "open", "ok", "err"}]
  /\ session \in {"off", "run", "finished", "failed", "faulting", "gone"}
  /\ announced \in BOOLEAN /\ failure \in BOOLEAN /\ token \in BOOLEAN /\ expired \in BOOLEAN
  /\ wire \in [phase : {"New", "Initialized", "Ready", "Prompt", "Terminal"},
               outgoing : {"none", "initialize", "session/new", "session/prompt"},
               incoming : SUBSET Requests, tool : {"none", "open", "done"}, open : BOOLEAN]
  /\ port \in [queue : {"none", "execute", "usage"}, busy : BOOLEAN, quarantined : BOOLEAN,
               due : BOOLEAN]
  /\ host \in {"idle", "execute", "usage", "free", "reply", "dead"}
  /\ result \in {"none", "declined", "observed", "ok", "error"}
  /\ answer \in {"none", "declined", "observed", "ok", "error"}
  /\ claims \subseteq Requests
  /\ outcome \in {"Active", "CompletionClaimed", "Cancelled"}
  /\ canceller \in {"idle", "won", "done"}

(* What execute reports as denied the host has not begun and will not      *)
(* begin, whatever happens to a command left in the channel.               *)
DeniedNeverClaimed == \A n \in claims : reports[n] # "denied"

(* The host begins an effect only while the engine waits for that effect:  *)
(* not after the wait was given up, nor during a later call.               *)
ClaimsAttended == [][claims' # claims => call = "host"]_vars

(* A host call of the engine never meets a busy port, short of the         *)
(* quarantine: acp.host_busy is no way for a healthy run to end.           *)
PortFreeForCaller ==
  call \in {"meter", "decide"} /\ ~port.quarantined => ~port.busy

(* No request is handed to the adapter while another one is pending:       *)
(* acp.concurrent_effect can't happen behind the guard.                    *)
OneRequestAtATime ==
  /\ Cardinality({n \in Requests : reply[n] = "open"}) <= 1
  /\ call = "event" /\ events # <<>> /\ Head(events).kind = "effect" => pending = 0

(* The agent is told that its request succeeded only if the host claimed   *)
(* the effect and the engine was told that it was executed.                *)
ToldOnlyExecuted ==
  \A n \in Requests : reply[n] = "ok" => n \in claims /\ reports[n] = "executed"

(* When the agent's turn is over, no request and no tool of it is open, and*)
(* every effect the host began was executed.                               *)
FinishHasNoOpenWork ==
  step = "finish" =>
    /\ wire.incoming = {} /\ wire.tool # "open" /\ pending = 0
    /\ \A n \in claims : reports[n] = "executed"

(* next_effect tells of a cancellation only if the host's handle cancelled,*)
(* though timeouts and the quarantine cancel the same token.               *)
CancelStepExplicit == step = "cancel" => outcome = "Cancelled"

(* The calls during which the host may be at work, and the ends of a run.  *)
Engaged == {"usage", "host", "quit_usage", "quit_host"}
Ended   == {"over", "closing", "closed"}

Last == Cardinality(Asked)

(* The agent's requests are numbered as they come; only the last one may   *)
(* still be unanswered.                                                    *)
AskedInOrder ==
  /\ \E k \in 0..MaxRequests : Asked = 1..k
  /\ effects <= Last
  /\ wire.incoming \subseteq {Last}
  /\ \A n \in Requests : reply[n] = "open" => n \in wire.incoming
  /\ \A n \in Requests : reply[n] = "none" => n \notin claims /\ n # effect /\ reports[n] = "none"

(* A request in the channel is new to the engine and the only one there; a *)
(* session that reports its end has closed the turn.                       *)
EventsFresh ==
  \A i \in DOMAIN events :
    /\ events[i].kind = "effect" =>
         LET n == events[i].request
         IN /\ n \in Requests /\ n # effect /\ effects < Last
            /\ reply[n] = "open" /\ reports[n] = "none" /\ n \notin claims
            /\ \A j \in DOMAIN events : events[j].kind = "effect" => j = i
    /\ events[i].kind = "finished" => wire.phase = "Terminal"

(* The engine has at most one effect in its hands, and goes on only after  *)
(* what the host claimed was executed.                                     *)
EffectUnderWay ==
  /\ step = "effect" =>
       /\ effect \in Requests /\ reports[effect] = "none"
       /\ call \in Engaged \cup {"meter", "decide"}
       /\ call \notin {"host", "quit_host"} => effect \notin claims
  /\ pending # 0 => pending = effect /\ (step = "effect" \/ (call = "over" /\ step = "none"))
  /\ call \in {"host", "quit_host"} => step = "effect" /\ pending = 0
  /\ \A n \in claims :
       \/ reports[n] = "executed" \/ call \in Ended
       \/ n = effect /\ call \in {"host", "quit_host"}

(* A command, the host's work on it and its answer follow each other while *)
(* the engine waits; what outlives the wait finds a quarantined port.      *)
HostServes ==
  /\ port.queue # "none" => host = "idle" /\ port.busy
  /\ host \in {"execute", "usage", "free", "dead"} => port.busy
  /\ host = "reply" => ~port.busy
  /\ host \in {"idle", "execute", "usage"} => result = "none"
  /\ call \notin Engaged /\ ~port.quarantined =>
       port.queue = "none" /\ host = "idle" /\ answer = "none" /\ ~port.busy
  /\ port.quarantined => call \in Ended
  /\ call \in {"quit_usage", "quit_host"} => port.due \/ host = "dead"
  /\ port.queue = "execute" => call \in {"host", "quit_host"} \/ port.quarantined
  /\ answer # "none" => host = "idle" /\ port.queue = "none" /\ ~port.busy

(* What the host says of the effect it was given.                          *)
HostTellsOfEffect ==
  call = "host" =>
    /\ port.queue = "execute" => effect \notin claims
    /\ host = "execute" => effect \in claims
    /\ port.queue # "usage" /\ host # "usage"
    /\ \A told \in {answer, result} :
         /\ told = "observed" => effect \in claims
         /\ told = "declined" => effect \notin claims

(* The turn of the agent ends with nothing open, and the adapter finishes  *)
(* after it; the wire knows what it waits for.                             *)
WireOrdered ==
  /\ wire.outgoing = "initialize" => wire.phase = "New"
  /\ wire.outgoing = "session/new" => wire.phase = "Initialized"
  /\ wire.outgoing = "session/prompt" => wire.phase = "Prompt"
  /\ wire.phase = "Terminal" => wire.incoming = {} /\ wire.tool # "open"
  /\ step = "finish" => wire.phase = "Terminal"

(* While the run goes on, only the canceller can have cancelled its token. *)
CancelKnown ==
  /\ canceller # "idle" => outcome = "Cancelled"
  /\ token /\ call \notin Ended => outcome = "Cancelled"

(* The inductive invariant of a session: its types, and what its three     *)
(* threads hold and report of the one request that may be open.            *)
SessionInvariant ==
  /\ TypeOK
  /\ AskedInOrder
  /\ EventsFresh
  /\ EffectUnderWay
  /\ HostServes
  /\ HostTellsOfEffect
  /\ WireOrdered
  /\ CancelKnown
  /\ DeniedNeverClaimed
  /\ PortFreeForCaller
  /\ OneRequestAtATime
  /\ ToldOnlyExecuted
  /\ FinishHasNoOpenWork
  /\ CancelStepExplicit

(* Every run of the session ends and is closed, and then the session worker*)
(* ends too, whatever the agent and the host's callback do.                *)
Terminates == <>(call = "closed" /\ session \in {"off", "gone"})

=============================================================================
