---------------------------- MODULE GovernedHost ----------------------------
(***************************************************************************)
(* The governed Goose reference with its sandbox profile                   *)
(* (examples/governed-goose): one host process that owns the conversation  *)
(* with the agent, admits its proposals one at a time, carries each out    *)
(* through an MCP server process and a sandbox execution, verifies the     *)
(* subject and completes the run.                                          *)
(*                                                                         *)
(* The host may crash at any step and be started again on the same state   *)
(* directory; its server and its sandbox executions live on by themselves. *)
(* The engine's gates and the MCP session are models of their own          *)
(* (AgentRun, McpDispatch): here they are the choices they leave open.     *)
(* A sandbox execution is anything SandboxPromise allows, which SandboxRun *)
(* shows of the adapter.  One host at a time uses a state directory.       *)
(***************************************************************************)
EXTENDS SandboxPromise, Sequences, FiniteSets

CONSTANTS Required,     \* the effects of a complete conversation
          Arguments,    \* what a proposal may ask for
          MaxRuns,      \* bound: host processes on one state directory
          Observations, \* the observations an execution may claim
          Stray         \* a change of the subject from outside

HostRuns == 1..MaxRuns
(* The digest of an effect request covers the run's request, the sequence  *)
(* number and the arguments; here it is these three.                       *)
Keys == [ident : HostRuns, seq : 1..Required + 1, arg : Arguments]

ASSUME RequiredAssumption == Required \in Nat \ {0}
ASSUME BoundAssumption == MaxRuns \in Nat \ {0}
ASSUME ObservationAssumption == Observations \subseteq SandboxObservation
ASSUME AbsenceAssumption ==
  /\ Null \notin Keys /\ Null \notin {"refused", "executed", "unknown"}
  /\ Null \notin SandboxObservation /\ Null \notin ExitCodes

VARIABLES pc,           \* where the host stands
          run,          \* how many host processes there have been
          ident,        \* the identity of the run's request
          effects,      \* AgentPort.effects
          pending,      \* the admitted proposal that still waits for its reply
          calling,      \* the effect the executor works on
          verdict,      \* what is left of its outcome
          results,      \* the effect results of this run
          final,        \* how the run ended
          phase,        \* of the conversation
          fault,        \* a protocol fault was recorded
          cancelled,    \* the conversation was cancelled
          claims,       \* dispatch claims
          configs, context, transports, observations, \* the state directory
          server,       \* the effect server of each run
          exec,         \* the sandbox executions
          subject,      \* the effects written into the subject, and strays
          current,      \* the subject the engine has recorded
          previous,     \* the subject at the observer's last probe
          before,       \* the subject at the start of the verification
          replies,      \* history: every reply, as [run, key, text]
          started       \* history: every sandbox start, as [run, key]

talkVars   == <<phase, fault, cancelled, claims>>
engineVars == <<effects, pending, calling, verdict, results, final>>
stateVars  == <<configs, context, transports, observations>>
worldVars  == <<server, exec, subject, started>>
seenVars   == <<current, previous, before>>
runVars    == <<run, ident>>
vars == <<pc, talkVars, engineVars, stateVars, worldVars, seenVars, runVars, replies>>

Ended == {"closed", "crashed", "refused"}


NoServer == [at |-> "absent", key |-> Null, ok |-> FALSE]

Init ==
  /\ pc = "boot" /\ run = 1 /\ ident = 1
  /\ effects = 0 /\ pending = Null /\ calling = Null /\ verdict = Null
  /\ results = <<>> /\ final = "none"
  /\ phase = "ready" /\ fault = FALSE /\ cancelled = FALSE
  /\ claims = {}
  /\ configs = {} /\ context = Null /\ transports = {} /\ observations = {}
  /\ server = [r \in HostRuns |-> NoServer] /\ exec = [k \in {} |-> Unlaunched]
  /\ subject = {} /\ started = <<>>
  /\ current = {} /\ previous = {} /\ before = {} /\ replies = {}

Go(next) == pc' = next

----------------------------------------------------------------------------
(* Start: adoption, discovery, freshness, socket, session.                 *)

(* Mutant: retained invocations of an earlier run are no obstacle.         *)
AlwaysFresh == TRUE

(* ensure_fresh_run                                                        *)
FreshRun == context = Null

Boot ==
  /\ pc = "boot" /\ FreshRun /\ Go("plan")
  /\ server' = [server EXCEPT ![run] = [at |-> "idle", key |-> Null, ok |-> FALSE]]
  /\ current' = subject /\ previous' = subject
  /\ UNCHANGED <<talkVars, engineVars, stateVars, exec, subject, started, before, runVars, replies>>

BootRefuses ==
  /\ pc = "boot" /\ ~FreshRun /\ Go("refused")
  /\ UNCHANGED <<talkVars, engineVars, stateVars, worldVars, seenVars, runVars, replies>>

(* The plan is ready and admitted, or the run ends here.                   *)
Plan ==
  /\ pc = "plan"
  /\ \/ ~fault /\ Go("next") /\ phase' = "active"
     \/ Go("finish") /\ UNCHANGED phase
  /\ UNCHANGED <<fault, cancelled, claims, engineVars, stateVars, worldVars,
                 seenVars, runVars, replies>>

----------------------------------------------------------------------------
(* next_effect: poll the conversation, accept a connection, or time out.   *)
(* The agent may propose, end its turn or do neither at any time.          *)

StopsRun ==
  /\ Go("finish")
  /\ UNCHANGED <<engineVars, stateVars, worldVars, seenVars, runVars, replies>>

(* The run deadline, a fault, a stop that is no end_turn, a connection     *)
(* without a proper proposal.                                              *)
NextFails ==
  /\ pc = "next" /\ StopsRun /\ UNCHANGED talkVars

TurnIncomplete ==
  /\ pc = "next" /\ ~fault /\ effects # Required /\ phase' = "closed" /\ StopsRun
  /\ UNCHANGED <<fault, cancelled, claims>>

TurnFinished ==
  /\ pc = "next" /\ ~fault /\ effects = Required /\ phase' = "closed"
  /\ Go("verify")
  /\ UNCHANGED <<fault, cancelled, claims, engineVars, stateVars, worldVars,
                 seenVars, runVars, replies>>

(* A proposal becomes an effect request; in the case cancel_before_dispatch*)
(* the host cancels the conversation here.                                 *)
Accept ==
  /\ pc = "next" /\ ~fault
  /\ \E arg \in Arguments : pending' = [ident |-> ident, seq |-> effects + 1, arg |-> arg]
  /\ cancelled' \in {cancelled, TRUE}
  /\ effects' = effects + 1 /\ Go("gate")
  /\ UNCHANGED <<phase, fault, claims, calling, verdict, results, final, stateVars,
                 worldVars, seenVars, runVars, replies>>

(* The engine's gates (AgentRun): no more than Required effects, nothing   *)
(* after a cancellation it has seen, policy and budget.                    *)
GateStops ==
  /\ pc = "gate" /\ StopsRun /\ UNCHANGED talkVars

GateAdmits ==
  /\ pc = "gate" /\ effects <= Required /\ Go("execute")
  /\ UNCHANGED <<talkVars, engineVars, stateVars, worldVars, seenVars, runVars, replies>>

----------------------------------------------------------------------------
(* Executor::execute.                                                      *)

(* claim_dispatch, under the lock that faults are recorded under.          *)
MayClaimDispatch == ~fault /\ phase = "active" /\ ~cancelled

(* Mutant: the proposal is taken before it is claimed.                     *)
TakenFirst ==
  /\ pc = "execute" /\ pending' = Null /\ calling' = pending
  /\ IF MayClaimDispatch THEN claims' = claims \cup {pending} /\ Go("prepare")
                         ELSE UNCHANGED claims /\ Go("finish")
  /\ UNCHANGED <<phase, fault, cancelled, effects, verdict, results, final,
                 stateVars, worldVars, seenVars, runVars, replies>>

(* A claim that is refused leaves the proposal pending.                    *)
ClaimDispatch ==
  /\ pc = "execute"
  /\ IF MayClaimDispatch THEN claims' = claims \cup {pending} /\ Go("prepare")
                         ELSE UNCHANGED claims /\ Go("finish")
  /\ UNCHANGED <<phase, fault, cancelled, engineVars, stateVars, worldVars,
                 seenVars, runVars, replies>>

(* SandboxHost::prepare: the host record of this effect must be new.  Then *)
(* the context is renamed over the last one: what the server will run.     *)
PrepareConfig ==
  /\ pc = "prepare"
  /\ IF pending \in configs THEN Go("finish") /\ UNCHANGED configs
                            ELSE Go("stage") /\ configs' = configs \cup {pending}
  /\ UNCHANGED <<talkVars, engineVars, context, transports, observations, worldVars,
                 seenVars, runVars, replies>>

(* Mutant: a context that exists is not replaced.                          *)
KeepContext ==
  /\ pc = "stage" /\ Go("call") /\ context' = IF context = Null THEN pending ELSE context
  /\ calling' = pending /\ pending' = Null
  /\ UNCHANGED <<talkVars, effects, verdict, results, final, configs, transports, observations,
                 worldVars, seenVars, runVars, replies>>

PrepareContext ==
  /\ pc = "stage" /\ Go("call") /\ context' = pending
  /\ calling' = pending /\ pending' = Null
  /\ UNCHANGED <<talkVars, effects, verdict, results, final, configs, transports, observations,
                 worldVars, seenVars, runVars, replies>>

(* An operation the profile has no file for, or a record that cannot be    *)
(* written: nothing is dispatched.  The rename may have happened.          *)
PrepareFails ==
  /\ pc \in {"prepare", "stage"} /\ Go("finish")
  /\ context' \in {context} \cup (IF pc = "stage" THEN {pending} ELSE {})
  /\ UNCHANGED <<talkVars, engineVars, configs, transports, observations, worldVars,
                 seenVars, runVars, replies>>

(* McpExecutor::execute refuses before it writes a byte.                   *)
CallRefused ==
  /\ pc = "call" /\ verdict' = "refused" /\ Go("answer")
  /\ UNCHANGED <<talkVars, effects, pending, calling, results, final, stateVars, worldVars,
                 seenVars, runVars, replies>>

(* The subject is still the recorded one, the call is written.             *)
Call ==
  /\ pc = "call" /\ subject = current /\ server[run].at = "idle" /\ Go("called")
  /\ previous' = subject
  /\ server' = [server EXCEPT ![run] = [at |-> "called", key |-> calling, ok |-> FALSE]]
  /\ UNCHANGED <<talkVars, engineVars, stateVars, exec, subject, started, current, before,
                 runVars, replies>>

(* The server has answered: executed if it said so and the subject moved.  *)
CallReturns ==
  /\ pc = "called" /\ server[run].at = "answered" /\ Go("transport")
  /\ server' = [server EXCEPT ![run].at = "idle"]
  /\ verdict' = IF server[run].ok /\ subject # previous THEN "executed" ELSE "unknown"
  /\ previous' = subject
  /\ UNCHANGED <<talkVars, effects, pending, calling, results, final, stateVars, exec, subject,
                 started, current, before, runVars, replies>>

(* Mutant: only the end of the server ends the wait for it.                *)
CallWaits ==
  /\ pc = "called" /\ server[run].at = "dead" /\ verdict' = "unknown" /\ Go("transport")
  /\ UNCHANGED <<talkVars, effects, pending, calling, results, final, stateVars, worldVars,
                 seenVars, runVars, replies>>

(* The MCP deadline, a fault of the MCP session or an observer that fails: *)
(* the server may still be at work.                                        *)
CallLost ==
  /\ pc = "called" /\ verdict' = "unknown" /\ Go("transport")
  /\ UNCHANGED <<talkVars, effects, pending, calling, results, final, stateVars, worldVars,
                 seenVars, runVars, replies>>

(* sandbox_execution_evidence: the transport record and the observation    *)
(* must be there, bind this request and report success.                    *)
ReadTransport ==
  /\ pc = "transport" /\ Go("observe")
  /\ verdict' \in {"unknown"} \cup (IF calling \in transports THEN {verdict} ELSE {})
  /\ UNCHANGED <<talkVars, effects, pending, calling, results, final, stateVars, worldVars,
                 seenVars, runVars, replies>>

(* Mutant: an execution whose container may survive counts as a success.   *)
SurvivorAccepted(o) == o.status = "exited" /\ o.exit = 0

(* sandbox::succeeded, of the host and of the server alike.                *)
Succeeded(o) ==
  o.status = "exited" /\ o.exit = 0 /\ o.cleanup = "removed" /\ o.published = "yes"

(* A runtime identity that differs or a runtime record that is missing     *)
(* leaves the outcome unknown as well.                                     *)
Observe ==
  /\ pc = "observe" /\ Go("answer")
  /\ verdict' \in {"unknown"} \cup
       (IF calling \in observations /\ Succeeded(exec[calling].claim) THEN {verdict} ELSE {})
  /\ UNCHANGED <<talkVars, effects, pending, calling, results, final, stateVars, worldVars,
                 seenVars, runVars, replies>>

ReplyTo(key, text) == replies' = replies \cup {[run |-> run, key |-> key, text |-> text]}

(* Mutant: the conversation goes on after an effect nobody can vouch for.  *)
AnswerAndGoOn ==
  /\ pc = "answer" /\ Go("next")
  /\ ReplyTo(calling, IF verdict = "executed" THEN "executed" ELSE "unconfirmed")
  /\ results' = Append(results, [key |-> calling, status |-> verdict])
  /\ current' = previous
  /\ calling' = Null /\ verdict' = Null
  /\ UNCHANGED <<talkVars, effects, pending, final, stateVars, worldVars, previous, before,
                 runVars>>

(* The reply to the proposal; the engine goes on after an executed effect  *)
(* only, with the subject it was told.                                     *)
Answer ==
  /\ pc = "answer" /\ Go(IF verdict = "executed" THEN "next" ELSE "finish")
  /\ ReplyTo(calling, IF verdict = "executed" THEN "executed" ELSE "unconfirmed")
  /\ results' = Append(results, [key |-> calling, status |-> verdict])
  /\ current' = IF verdict = "executed" THEN previous ELSE current
  /\ calling' = Null /\ verdict' = Null
  /\ UNCHANGED <<talkVars, effects, pending, final, stateVars, worldVars, previous, before,
                 runVars>>

----------------------------------------------------------------------------
(* Verification and completion.                                            *)

VerifyBegins ==
  /\ pc = "verify" /\ before' = subject /\ Go("verifying")
  /\ UNCHANGED <<talkVars, engineVars, stateVars, worldVars, current, previous, runVars, replies>>

(* Mutant: the subject is not compared with the one the engine recorded.   *)
SubjectFresh == before = subject

(* One snapshot before the sandboxed check, one after it, the engine's.    *)
SubjectSettled == before = subject /\ before = current

VerifyPasses ==
  /\ pc = "verifying" /\ SubjectSettled /\ Go("claim")
  /\ UNCHANGED <<talkVars, engineVars, stateVars, worldVars, seenVars, runVars, replies>>

VerifyFails ==
  /\ pc = "verifying" /\ StopsRun /\ UNCHANGED talkVars

(* claim_completion, after the engine's last gates.                        *)
Completes ==
  /\ pc = "claim" /\ ~fault /\ ~cancelled /\ phase = "closed" /\ claims # {}
  /\ final' = "completed" /\ Go("finish")
  /\ UNCHANGED <<talkVars, effects, pending, calling, verdict, results, stateVars, worldVars,
                 seenVars, runVars, replies>>

ClaimFails ==
  /\ pc = "claim" /\ StopsRun /\ UNCHANGED talkVars

(* The receipt is sealed and the agent port closed: a proposal that is     *)
(* still pending is told that it was not dispatched.                       *)
Close ==
  /\ pc = "finish" /\ Go("closed") /\ phase' = "closed" /\ cancelled' = TRUE /\ pending' = Null
  /\ IF pending # Null THEN ReplyTo(pending, "not_dispatched") ELSE UNCHANGED replies
  /\ final' = IF final = "none" THEN "stopped" ELSE final
  /\ UNCHANGED <<fault, claims, effects, calling, verdict, results, stateVars,
                 worldVars, seenVars, runVars>>

Host ==
  \/ Boot \/ BootRefuses \/ Plan \/ NextFails \/ TurnIncomplete \/ TurnFinished \/ Accept
  \/ GateStops \/ GateAdmits \/ ClaimDispatch \/ PrepareConfig \/ PrepareContext \/ PrepareFails
  \/ CallRefused \/ Call \/ CallReturns \/ CallLost \/ ReadTransport \/ Observe \/ Answer
  \/ VerifyBegins \/ VerifyPasses \/ VerifyFails \/ Completes \/ ClaimFails \/ Close

----------------------------------------------------------------------------
(* The effect server: sandbox_operation (server.py).                       *)

ServerOnly == UNCHANGED <<pc, talkVars, engineVars, seenVars, runVars, replies, subject>>

Becomes(r, at, ok) ==
  server' = [server EXCEPT ![r] = [at |-> at, key |-> server[r].key, ok |-> ok]]

(* The server runs what the context says, if it is for these arguments.    *)
ServerReads(r) ==
  /\ server[r].at = "called" /\ context # Null
  /\ IF context.arg = server[r].key.arg
       THEN /\ server' = [server EXCEPT ![r] = [at |-> "running", key |-> context, ok |-> FALSE]]
            /\ exec' = [k \in DOMAIN exec \cup {context} |->
                          IF k \in DOMAIN exec THEN exec[k] ELSE Unlaunched]
            /\ started' = Append(started, [run |-> r, key |-> context])
       ELSE /\ server' = [server EXCEPT ![r].at = "answered"] /\ UNCHANGED <<exec, started>>
  /\ ServerOnly /\ UNCHANGED stateVars

(* capture_sandbox: the adapter printed its observation, or it was stopped *)
(* or failed.                                                              *)
ServerCaptures(r) ==
  /\ server[r].at = "running"
  /\ \E ok \in BOOLEAN :
       /\ ok => exec[server[r].key].claim # Null
       /\ Becomes(r, "captured", ok)
  /\ ServerOnly /\ UNCHANGED <<stateVars, exec, started>>

(* retain_private of the transport record, never over an existing one.     *)
ServerRetains(r) ==
  /\ server[r].at = "captured"
  /\ LET kept == server[r].ok /\ server[r].key \notin transports
     IN Becomes(r, IF kept THEN "kept" ELSE "answered", kept)
  /\ transports' = transports \cup {server[r].key}
  /\ ServerOnly /\ UNCHANGED <<configs, context, observations, exec, started>>

ServerAnswers(r) ==
  /\ server[r].at = "kept"
  /\ observations' = observations \cup {server[r].key}
  /\ Becomes(r, "answered", Succeeded(exec[server[r].key].claim))
  /\ ServerOnly /\ UNCHANGED <<configs, context, transports, exec, started>>

(* The server may die at any point, and does when its host is done with it;*)
(* its adapter process is in a session of its own and goes on.             *)
ServerDies(r) ==
  /\ server[r].at \notin {"absent", "dead"}
  /\ server' = [server EXCEPT ![r].at = "dead"]
  /\ ServerOnly /\ UNCHANGED <<stateVars, exec, started>>

(* The adapter, the daemon and the workload: what SandboxPromise allows.   *)
(* A workload that exits with 0 has written its file.                      *)
SandboxMoves(k) ==
  /\ \E x \in SandboxSteps(exec[k]) :
       /\ x.exit = 0 => k \in subject
       /\ exec' = [exec EXCEPT ![k] = x]
  /\ ServerOnly /\ UNCHANGED <<server, started, stateVars>>

AdapterClaims(k) ==
  /\ exec[k].claim = Null
  /\ \E o \in Observations :
       MayClaim(exec[k], o) /\ exec' = [exec EXCEPT ![k].claim = o]
  /\ ServerOnly /\ UNCHANGED <<server, started, stateVars>>

WorkloadWrites(k) ==
  /\ exec[k].ran = "running" /\ exec[k].box = "held" /\ k \notin subject
  /\ subject' = subject \cup {k}
  /\ UNCHANGED <<pc, talkVars, engineVars, stateVars, server, exec, started, seenVars, runVars, replies>>

Sandbox ==
  \/ \E r \in HostRuns : \/ ServerReads(r) \/ ServerCaptures(r) \/ ServerRetains(r)
                     \/ ServerAnswers(r) \/ ServerDies(r)
  \/ \E k \in DOMAIN exec : SandboxMoves(k) \/ AdapterClaims(k) \/ WorkloadWrites(k)

----------------------------------------------------------------------------
(* The agent, its proposal server and the operator.                        *)

PeerOnly == UNCHANGED <<pc, phase, cancelled, claims, engineVars, stateVars, server, exec, started,
                        seenVars, runVars, replies>>

Fault ==
  /\ pc \notin Ended /\ pc # "boot" /\ ~fault /\ fault' = TRUE
  /\ PeerOnly /\ UNCHANGED subject

(* Somebody changes the subject outside every admitted effect.             *)
StrayWrite ==
  /\ Stray \notin subject /\ subject' = subject \cup {Stray}
  /\ PeerOnly /\ UNCHANGED fault

(* The memory of a host process.                                           *)
Forgets ==
  /\ effects' = 0 /\ pending' = Null /\ calling' = Null /\ verdict' = Null
  /\ results' = <<>> /\ final' = "none"
  /\ phase' = "ready" /\ fault' = FALSE /\ cancelled' = FALSE /\ claims' = {}
  /\ current' = {} /\ previous' = {} /\ before' = {}

(* SIGKILL of the host: only the state directory, the servers and the      *)
(* sandbox executions are left.                                            *)
Crash ==
  /\ pc \notin Ended /\ Go("crashed") /\ Forgets
  /\ UNCHANGED <<stateVars, worldVars, runVars, replies>>

(* A new host process on the same state directory, for the same request or *)
(* for another one.                                                        *)
Restart ==
  /\ pc \in Ended /\ run < MaxRuns /\ run' = run + 1 /\ ident' \in {ident, run + 1} /\ Go("boot")
  /\ Forgets /\ UNCHANGED <<stateVars, worldVars, replies>>

Next == Host \/ Sandbox \/ Fault \/ StrayWrite \/ Crash \/ Restart

Spec == Init /\ [][Next]_vars

(* The host's thread goes on: every wait of it has a deadline.             *)
FairSpec == Spec /\ WF_vars(Host)

----------------------------------------------------------------------------
(* Properties.                                                             *)

Results == [key : Keys, status : {"refused", "executed", "unknown"}]
Replies == [run : HostRuns, key : Keys, text : {"executed", "unconfirmed", "not_dispatched"}]
Servers == [at : {"absent", "idle", "called", "running", "captured", "kept", "answered", "dead"},
            key : Keys \cup {Null}, ok : BOOLEAN]

TypeOK ==
  /\ run \in HostRuns /\ ident \in HostRuns /\ effects \in 0..Required + 1
  /\ pending \in Keys \cup {Null} /\ calling \in Keys \cup {Null} /\ context \in Keys \cup {Null}
  /\ verdict \in {Null, "refused", "executed", "unknown"}
  /\ final \in {"none", "completed", "stopped"}
  /\ phase \in {"ready", "active", "closed"} /\ fault \in BOOLEAN /\ cancelled \in BOOLEAN
  /\ claims \subseteq Keys /\ configs \subseteq Keys
  /\ transports \subseteq Keys /\ observations \subseteq Keys
  /\ server \in [HostRuns -> Servers]
  /\ DOMAIN exec \subseteq Keys /\ exec \in [DOMAIN exec -> Executions]
  /\ subject \subseteq Keys \cup {Stray} /\ current \subseteq Keys \cup {Stray}
  /\ previous \subseteq Keys \cup {Stray} /\ before \subseteq Keys \cup {Stray}
  /\ results \in Seq(Results) /\ replies \subseteq Replies
  /\ started \in Seq([run : HostRuns, key : Keys])

(* Nothing an execution may still do can change the subject.               *)
Settled(k) == exec[k].box # "held" /\ ~(exec[k].box = "none" /\ MayLaunch(exec[k]))

(* An effect is reported executed only after its own sandbox execution ran *)
(* to exit 0, wrote the subject, was removed and can do nothing more,      *)
(* whatever the server, the MCP answer and the retained records say.       *)
ExecutedIsReal ==
  \A i \in DOMAIN results : results[i].status = "executed" =>
    LET k == results[i].key
    IN k \in DOMAIN exec /\ exec[k].ran = "done" /\ exec[k].exit = 0 /\ Settled(k) /\ k \in subject

(* From the verifier's first snapshot on, no sandbox execution can write   *)
(* the subject any more: what is verified is what is completed.            *)
NoWriterAfterVerify ==
  pc \in {"verifying", "claim"} \/ final = "completed" => \A k \in DOMAIN exec : Settled(k)

(* A completed run has exactly its executed effects in the subject, and a  *)
(* change from outside only if it came after the verification.             *)
CompletedIsExact ==
  final = "completed" =>
    /\ Len(results) = Required
    /\ \A i \in DOMAIN results : results[i].status = "executed"
    /\ before = current /\ subject \ {Stray} = current \ {Stray}
    /\ {results[i].key : i \in DOMAIN results} \subseteq current

(* Every admitted proposal is answered once: never twice, and not zero     *)
(* times by a host that closed (README: pending proposals stay owned until *)
(* dispatch admission succeeds).                                           *)
AnsweredOnce ==
  /\ \A a, b \in replies : a.run = b.run /\ a.key = b.key => a = b
  /\ pc = "closed" => Cardinality({a \in replies : a.run = run}) = effects

(* A proposal that was told not_dispatched never ran, and never will.      *)
RefusalIsTrue ==
  \A a \in replies : a.text = "not_dispatched" => [run |-> a.run, key |-> a.key] \notin
    {started[i] : i \in DOMAIN started}

(* The sandbox only runs what its own host is waiting for or has waited    *)
(* for: each start is of the claimed effect of that call, and no effect is *)
(* started twice, crashes and restarts included.                           *)
StartsOnce ==
  /\ \A i, j \in DOMAIN started : started[i].key = started[j].key => i = j
  /\ pc = "called" /\ server[run].at = "running" => server[run].key = calling

(* All the executions of a state directory belong to one host process: no  *)
(* host works next to what a crashed one has left running.                 *)
OneRunPerState ==
  /\ \A i, j \in DOMAIN started : started[i].run = started[j].run
  /\ pc \notin Ended \cup {"boot"} => \A i \in DOMAIN started : started[i].run = run

----------------------------------------------------------------------------
(* What holds these properties together, one part for each thing that is   *)
(* remembered in two places.                                               *)

Alive   == pc \notin {"boot", "crashed", "refused"}
Waiting == {"gate", "execute", "prepare", "stage"}
Working == {"call", "called", "transport", "observe", "answer"}
Checking == {"verify", "verifying", "claim"}
StartedKeys == {started[i].key : i \in DOMAIN started}
ResultKeys  == {results[i].key : i \in DOMAIN results}
Serving(r)  == server[r].at \in {"called", "running", "captured", "kept", "answered"}
Vouched(k)  == k \in DOMAIN exec /\ exec[k].claim # Null /\ Succeeded(exec[k].claim)

(* A proposal is pending, or being worked on, or answered: the count of    *)
(* effects and their sequence numbers are those of the results.            *)
EffectsCounted ==
  /\ pc \in Waiting => pending # Null
  /\ pending # Null => pc \in Waiting \cup {"finish"} /\ pending.seq = effects
  /\ pc \in Working <=> calling # Null
  /\ calling # Null => calling.seq = effects
  /\ pc \in {"transport", "observe", "answer"} <=> verdict # Null
  /\ pc # "closed" => effects = Len(results) + (IF pending # Null \/ calling # Null THEN 1 ELSE 0)
  /\ pc \notin {"gate", "finish", "closed"} => effects <= Required
  /\ \A i \in DOMAIN results : results[i].key.seq = i

(* The run is at its effects while all of them were executed, and at its   *)
(* end when there are as many as it needs.                                 *)
RunProgress ==
  /\ pc \in {"next"} \cup Waiting \cup Working \cup Checking \/ final = "completed" =>
       \A i \in DOMAIN results : results[i].status = "executed"
  /\ pc \in Checking \/ final = "completed" => Len(results) = Required /\ pending = Null
  /\ final # "none" => pc \in {"finish", "closed"}
  /\ pc \in {"boot", "plan", "crashed", "refused"} => results = <<>> /\ pending = Null

(* At most one server has work, it is the living host's, and the context   *)
(* it will read is the effect it was called with, which never started and  *)
(* was never refused.                                                      *)
OneServerWorks ==
  /\ \A r, s \in HostRuns : Serving(r) /\ Serving(s) => r = s
  /\ \A r \in HostRuns : Serving(r) => context # Null /\ (Alive => r = run)
  /\ \A r \in HostRuns : server[r].at = "called" =>
       /\ server[r].key = context /\ ~server[r].ok /\ context \notin StartedKeys
       /\ \A i \in DOMAIN started : started[i].run = r
       /\ \A a \in replies : a.run = r /\ a.key = context => a.text # "not_dispatched"
       /\ Alive => context \in ResultKeys \cup {calling}

(* The host's server is idle, or gone, except while a call is out or was   *)
(* given up.                                                               *)
CallMatches ==
  /\ (pc \in {"plan", "next", "call"} \cup Waiting \cup Checking \/ pending # Null
        \/ final = "completed" \/ verdict = "executed") => server[run].at \in {"idle", "dead"}
  /\ pc = "called" => server[run].key = calling /\ server[run].at \notin {"absent", "idle"}
  /\ pc = "call" => calling = context /\ context \notin StartedKeys

(* What a server says of an execution is what the adapter said of it.      *)
ServerHonest ==
  \A r \in HostRuns :
    /\ server[r].at \in {"running", "captured", "kept"} => server[r].key \in DOMAIN exec
    /\ server[r].at = "kept" => server[r].ok
    /\ server[r].at \in {"captured", "kept"} /\ server[r].ok => exec[server[r].key].claim # Null
    /\ server[r].at = "answered" /\ server[r].ok => Vouched(server[r].key)

(* Executions are the started effects, which this run has answered or is   *)
(* working on; a directory that has some also has a context.               *)
StartsKnown ==
  /\ DOMAIN exec = StartedKeys
  /\ started # <<>> => context # Null
  /\ \A i, j \in DOMAIN started : started[i].key = started[j].key => i = j
  /\ Alive => StartedKeys \subseteq ResultKeys \cup {calling}
  /\ Alive => \A i \in DOMAIN started : started[i].run = run

(* A claim stays true of its execution, and exit code 0 means it wrote.    *)
ClaimsHold ==
  \A k \in DOMAIN exec : Kept(exec[k]) /\ (exec[k].exit = 0 => k \in subject)

(* An executed effect is vouched for, in the verdict and in the results.   *)
VerdictsHold ==
  /\ verdict = "executed" => Vouched(calling) /\ calling \in previous
  /\ \A i \in DOMAIN results : results[i].status = "executed" =>
       Vouched(results[i].key) /\ results[i].key \in current

(* The recorded subject is behind the probed one, that one is behind the   *)
(* real one; after the verification nothing but a stray change separates   *)
(* them.                                                                   *)
SubjectTracked ==
  /\ current \subseteq previous /\ previous \subseteq subject
  /\ pc = "claim" \/ final = "completed" =>
       before = current /\ subject \ {Stray} = current \ {Stray}

(* The replies of a run are one for each sequence number so far.           *)
Answered == IF pc = "closed" THEN effects ELSE Len(results)
RepliesCounted ==
  /\ \A a \in replies : a.run <= run /\ (pc = "boot" => a.run < run)
  /\ \A a, b \in replies : a.run = b.run /\ a.key.seq = b.key.seq => a = b
  /\ Alive => \A a \in replies : a.run = run => a.key.seq <= Answered
  /\ Alive => \A n \in 1..Answered : \E a \in replies : a.run = run /\ a.key.seq = n

(* The state of a host and its directory: its types, and what it may say   *)
(* and do next to what an earlier host or call has left.                   *)
HostInvariant ==
  /\ TypeOK /\ RefusalIsTrue /\ OneRunPerState
  /\ EffectsCounted /\ RunProgress /\ OneServerWorks /\ CallMatches /\ ServerHonest
  /\ StartsKnown /\ ClaimsHold /\ VerdictsHold /\ SubjectTracked /\ RepliesCounted

(* Every host process ends, whatever agent, server and daemon do.          *)
Closes == <>[](pc \in Ended)

=============================================================================
