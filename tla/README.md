# A TLA+ model of the GAAP agent run engine, its adapters and its reference host

GAAP governs an agent run: an agent proposes *protected effects*, a runtime
decides about each of them through integrity gates, an executor carries out what
is allowed, a verifier checks the outcome, and the run ends in exactly one sealed
*Terminal Run Receipt*.  This directory models that program, model-checks it with
TLC and proves its most important safety properties with TLAPS.

## 1. Inventory of the system

| Part (source) | State it keeps | Operations | What makes it correct |
|---|---|---|---|
| Run coordinator (`src/src/lib.rs`) | none | six pure gates: plan, permission, tool trust, verification, runtime, workflow | fail closed: `allow` only for an exact, well-formed input |
| Agent run engine (`src/src/runtime.rs`) | the `Ledger`: status, current subject, usage, event vector, effect results, seen identities, mutation flags | `run`, `run_inner`, `handle_protected_effect`, `verify_and_finish`, `finish` | only authorized effects, at most once each, within budget; every path seals a valid receipt; cancellation and completion exclude each other |
| Protected effect contract (`src/src/contracts/protected_effect/`) | none | validate a request, validate and seal a result | a result can claim no more than its evidence and decision support |
| Terminal receipt contract (`src/src/contracts/validation.rs`) | the local variables of the replay loop | replay the event ledger, judge its end | `completed` only with a fresh independent verification, a completion decision and kept budgets |
| Canonical JSON and schemas (`canonical.rs`, `schema.rs`) | none | encode, digest | a digest identifies its content |
| MCP client adapter (`src/adapters/mcp/src/`) | host-thread evidence; `WireState` under a mutex; worker and observer threads; cancellation token | connect, prepare, execute one tool call, observe, close | an effect reported as not dispatched never reached the server; no call after capability drift |
| ACP client adapter (`src/adapters/acp/src/`) | one session: phase, single pending effect, shared atomic outcome; host port; wire guard | plan, next effect, execute, claim completion, cancel, close | one claim per effect, quarantine of a late host, cancel or complete but not both |
| Sandbox adapter (`src/adapters/sandbox/src/lib.rs`) | one container at a daemon, records in a private state directory, the observation under construction | preflight, intent, create, inspect, start, collect, probe, clean up, publish | the observation says what happened and what can still happen: a container is removed or reported, a success is real |
| Its CLI processes (`process_executable`, `bounded_read`) | a child, two reader threads, the flags `overflow` and `stop` | poll, read, stop, join | output without a stop reason is complete; a stop ends the process group; the call returns |
| Reference host (`src/examples/governed-goose/`) | the conversation, one pending proposal, the retained records of a state directory; an effect server and sandbox executions next to it | boot, accept, claim, prepare, call, observe, answer, verify, complete, close | executed means executed, each proposal answered once, nothing runs twice, also across a crash and a restart |
| Attestation (`src/adapters/attestation/src/`) | none | sign and verify a run bundle | it accepts exactly the runs whose ledger, effects and content agree |
| CLI and conformance seam (`main.rs`, `runtime_subject.rs`) | none | one JSON case in, one result out | pure I/O |

**How they interact.**  The engine is one thread.  It calls three ports
synchronously: the agent (`create_plan`, `next_effect`, `claim_completion`,
`cancellation`, `close`), the executor (`execute`, `claim_completion`,
`cancellation`) and the verifier (`verify`, `completion_check`).  The adapters
implement the ports with threads, channels and atomics of their own.  A host
thread may cancel at any time through an adapter's handle.  Every value crossing a
boundary is bound by digest.  The reference host puts the pieces together: its
executor calls an effect server over MCP, the server starts the sandbox adapter as a
process of its own, the adapter drives a container daemon through CLI processes.
Each of these may outlive the one that started it.  After a run, the attestation
reads receipt, requests and results again.

**What is hard.**  A cancellation racing completion; an executor whose answer is
lost after it acted; effects prepared for a subject that has changed since; usage
that arrives inside errors; counters at the end of the JSON-safe integers; an event
ledger written by one piece of code and judged by another; several early returns,
some of which drop the ledger; a daemon that carries out a request after its client
was killed; a crash between a durable record and what it announces; a timeout of a
call whose server goes on working.  `PROJECT.json` lists the hazards by line.

## 2. Modules

```
Values                      null, malformed, usage vectors
  Coordinator               the six gates                          (lib.rs)
  EffectContract            requests and results                   (protected_effect/)
  ReceiptContract           the replay of the event ledger         (contracts/validation.rs)
    Ledger                  struct Ledger and its methods          (runtime.rs)
      EffectHandling        gate inputs, gate pipeline, result bodies
        AgentRun            the engine as a state machine, with its properties
          AgentRunInvariant the inductive invariants
            MCAgentRun      instances for TLC
            AgentRunProofs -> OutcomeProofs                         (TLAPS)
          Attestation       validate, over every run of the engine (adapters/attestation/src/)
            MCAttestation   the instances of MCAgentRun with it
            AttestationProofs (extends OutcomeProofs)               (TLAPS)
        McpDispatch         the MCP adapter as an executor         (adapters/mcp/src/)
          MCMcpDispatch     an instance for TLC
          McpDispatchProofs                                         (TLAPS)
AcpSession                  the ACP adapter as agent and executor  (adapters/acp/src/)
  MCAcpSession              an instance for TLC
  AcpSessionProofs                                                  (TLAPS)
SandboxRequest              what a request declares, what is refused
  SandboxRun                execute against daemon, clock and crash (adapters/sandbox/src/)
    MCSandboxRun            an instance for TLC
    SandboxRunProofs                                                (TLAPS)
ProcessIO                   process_executable and bounded_read
  MCProcessIO               an instance for TLC
  ProcessIOProofs                                                   (TLAPS)
SandboxPromise              the steps a caller may expect of an execution
  GovernedHost              host, effect server, executions        (examples/governed-goose/)
    MCGovernedHost          an instance for TLC
    GovernedHostProofs                                              (TLAPS)

abstract specifications     implemented by
  GovernedRun               AgentRun       (KeepsPromise)
  SandboxContract           SandboxRun     (KeepsContract)
```

**AgentRun** composes all of them.  Its actions are cut at the port calls: a step
starts with a port's answer and runs to the next call, so everything the code does
in between (recording usage, recording decisions, sealing a result, transitions)
is one step, in the code's order.  `pc` is the call the engine waits in.  Other
threads act only on `cell`, the cancellation state behind a port, which is why
the two claims and the two cancellation look-ups of `finish` are separate steps.

| Code | Model |
|---|---|
| `run_inner`: validation, plan call | `RejectRun`, `AcceptRun`, `PlanFails`, `PlanOverspends`, `PlanBadDigest`, `PlanUnapproved`, `PlanApproved` |
| `next_effect` answers | `StepFails`, `StepOverspends`, `AgentCancels`, `AgentFinishes`, `Propose` |
| `handle_protected_effect` before the executor | the disjuncts of `Propose`: `ProposeInvalid`, `ProposeStale`, `ProposeInadmissible`, `ProposeUnaffordable`, `GateStops`, `Dispatch` |
| `handle_protected_effect` after the executor | `ExecuteNotDispatched`, `ExecuteLost`, `ExecuteDeclines`, `ExecuteUntrusted`, `ExecuteReturns`, `ExecuteUnsealable` |
| `verify_and_finish` | `Verify*`, `Check*`, `Claim*` |
| `finish`, `run` | `Finish` (the decision to look up cancellations), `Observe*`, `Seal`, `Close` |
| `CancelHandle::cancel` | `Cancel` |

**McpDispatch** is the other side of the executor port: `execute_effect` on the host's
thread, `worker::run` and `Session::invoke` on the worker's, `StdioTransport::send`
in a task of the SDK, the observer's thread, and around them the server, the clock
and the holder of a `CancelHandle`.

| Code | Model |
|---|---|
| `execute`, up to the command | `ExecuteRejects`, `ExecuteDenies`, `ExecuteStarts`, `Preflight*`, `SendFails`, `HostSends` |
| `execute`, from the reply on | `Receives*`, `Reconcile*` (`Confirmed`, `Concludes`, `Ends`); `Return` and `ReturnError` build the answer |
| `Drop` | `HostDrops`, `HostJoins` |
| `worker::run` | `WorkerLoops`, `WorkerReceives`, `WorkerCloses` |
| `Session::discover`, `Session::invoke` | `InvokeStarts`, `Discover*`, `Gates*`, `WorkerProbe*`, `WorkerObserves`, `WorkerChecks`, `WorkerArms`, `Call*`, `WorkerFails`, `WorkerKills`, `WorkerTells` |
| `StdioTransport::send` of a `tools/call` | `FrameAdmitted`, `FrameRefused`, `FrameWrites` (one write poll under the lock), `FrameFails`, `FrameCancelled` |
| `ObserverPort` | `Probe`, `ProbeAnswers`, `ProbeFails`, `ObserverReturns` |
| notifications, responses, failures | `ListChanged`, `ServerResponds`, `ServerBreaks` |

A step reads several flags at once only where the flags never go down again: a thread
that finds each of them down, one after the other, would have found all of them down
at its first read.  Where a read must be late to be right (`call_started` after the
kill, the generation under the lock) it is a step of its own.  What a gate, a probe,
a page of tools or a size limit may answer is a nondeterministic choice; usage counts
the call, and the measured cost is left at zero.  The server is assumed to
answer only a request it has read to its end.

**AcpSession** is the other side of two ports at once: the engine's thread inside the
calls of `AcpAdapter` and `AcpExecutor`, the host's thread behind `HostPort`, the
session worker with its wire guard, and around them the agent process, the clock and
the holder of a `CancelHandle`.  `call` is where the engine's thread stands; the
engine itself is reduced to the order of its calls, which `AgentRun` justifies: it
stops after an error and after an effect that was not executed, and always closes.

| Code | Model |
|---|---|
| `plan`, `next_effect`, `event`, `prepare` | `Plan`, `NextEffect`, `Event*`, `PlanReady`, `EffectPrepared`, `EffectRefused`, `AgentFinished` |
| `meter`, `HostPort::usage` | `Meter*` |
| `AcpExecutor::execute`, `HostPort::execute` | `Execute*` (`Confirms` is the agent's answer), `HostGivenUp`, `Quarantines` |
| `claim_completion`, `close`, `CancelHandle::cancel` | `Claims`; `CloseStarts`, `CloseEnds`; `CancelWins`, `CancelToken` |
| the thread of `HostPort::new` | `HostTakes*`, `HostFrees`, `HostReplies`; its callback is `CallbackReturns`, `CallbackPanics` |
| `worker::start`, `worker::run` | `Session*` |
| `validate_message`, `update` | `Admits`, `TurnMayEnd`, `Rejects` in the agent's actions `Agent*` |

All that the guard refuses (a malformed frame, a limit, an unknown method, an answer
to nothing, the end of the stream) has one effect, `AgentBreaks`.  The agent's tool
calls are reduced to one, which is open or not.  The checks of `execute` that depend
on policy and path are nondeterministic choices.

**SandboxRun** is `LocalOciAdapter::execute` for one request.  `obs` and `result` are
its local variables, `disk` the records it has synced, `box` the container under the
execution's name, `requests` what the daemon was asked and has not done yet.

| Code | Model |
|---|---|
| `execute`, `preflight`, `verify_gvisor`, the intent | `Begin*`, `Preflight*`, `VersionStops`, `WriteIntent`, `IntentFails` |
| create, inspect, verify again, start | `Create*`, `Inspect*`, `Verify*`, `Start*` (`StopStatuses` is what a stopped CLI means) |
| outcome, artifacts, the executable's hash | `Outcome*` (`Classified`, `ObservedStatus`), `Collect`, `Rehash*`, `EvidenceFails` |
| the identity probe and the clean-up | `Probe`, `SkipProbe`, `Cleanup*` |
| classification and publication | `Classify` (`FinalStatus`), `Publish` |
| daemon, workload, clock, operator (external) | `Daemon*`, `ClientReturns`, `WorkloadExits`, `AttachReturns`, `Floods`; `Expire`, `GraceEnds`, `Cancel`, `HardKill`, `HostChanges` |

A change (create, start, rm) is asked of the daemon in one step and done in another, or
never; killing the CLI takes nothing back.  **SandboxRequest** holds the checks of
mounts and outputs and the mapping of an output to a host path.

**ProcessIO** is what happens inside one such CLI call: `PollChild`, `CheckFinished`,
`CheckBudget`, `SetStop`, `Join` are the loop of `process_executable`, `ReadChunk`,
`ReadsEnd`, `GivesUp`, `ReadFails` the two readers; the child, a descendant inside or
outside its process group, the clock and the operator are its environment.  `SandboxRun`
uses a CLI call as one that returns, is stopped with a reason or fails.

**GovernedHost** composes the host of the sandbox profile with its effect server
(`server.py`) and its sandbox executions.  Two things are taken from other models: the
engine and the MCP session are the choices they leave open (a gate may stop, a call
may be refused, answered or lost), and an execution may make any step of
`SandboxPromise`, which is what `SandboxRun` is checked to do.

| Code | Model |
|---|---|
| start, `ensure_fresh_run` | `Boot`, `BootRefuses`, `Plan` |
| `next_effect`, the gates | `NextFails`, `Turn*`, `Accept`, `Gate*` |
| `Executor::execute`, `claim_dispatch`, `SandboxHost::prepare` | `ClaimDispatch`, `PrepareConfig`, `PrepareContext`, `PrepareFails`, `Call*` |
| `sandbox_execution_evidence`, the reply | `ReadTransport`, `Observe` (`Succeeded`), `Answer` |
| `verify`, `claim_completion`, `close` | `Verify*`, `Completes`, `ClaimFails`, `Close` |
| `sandbox_operation`, `capture_sandbox`, `retain_private` | `Server*` |
| faults, strays, SIGKILL, a new host | `Fault`, `StrayWrite`, `Crash`, `Restart` |

The host before the rename of the context and the one after it are different states, so
a crash can fall between the two.  One host at a time uses a state directory.

**Attestation** adds to `AgentRun` a variable `evidence` with what the bundle retains and
the replay state forgets (usage and subject of each result, tool executions and
mutations one by one), and evaluates `validate` on every receipt of every run.  It
changes no step of the engine, and `EvidenceFollows` proves that it stops none either.
`SubjectsAlong` and `UsageAlong` are the two accumulators of the loop over the effects
(`current_subject` and `sums`), as recursive functions on the positions of the loop.

| Code | Model |
|---|---|
| `validate`: status, interruption, completion | `Attestable` |
| `validate_effects`: `seen` and `order` | `OwnDecision`, `Firsts`, `Place` |
| `validate_effects`: the loop over the effects | `EffectMatches`, `SubjectsAlong`, `UsageAlong` |
| `validate_admission` | `AdmittedBefore` |

**Abstract specifications.**  `GovernedRun` is a run without gates, budgets and ports:
effects go out one at a time and never twice, each leaves one result in order, nothing
follows a result other than executed, completion needs all of them executed and a
verified subject.  `SandboxContract` is one execution without an adapter: the daemon
may do anything until an observation is claimed, the claim has to be true, and after it
only what the claim has left open may happen.

**The ledger as a replay state.**  The engine never reads its event vector back,
except for its length and its latest usage.  The model therefore keeps, instead of
the vector, the state that `validate_receipt_body` computes from it: each push
applies that contract's match arm.  Sealing then evaluates the checks after the
loop.  That makes "the engine never builds a receipt its contract refuses" a
property of reachable states.

**Abstractions.**  A digest is its content.  A subject (locator and digest) is one
value: the engine compares whole subjects and the contract their digests, and a
locator never changes without its digest in a run.  Field checks that only look at
one field's shape are Booleans of the value (`intact`, `complete`,
`evidenceIntact`), which the environment sets either way.  The hints of a decision,
reasons' wording and evidence locators are left out; reasons that a contract
compares are kept.  A run grants one capability.  Usage keeps two meters in the
instances, `cost` (left to the runtime gate) and `calls` (left to budget admission,
and floored at one per attempt); the modules take any set of meters.  A policy of
`Null` is an action the policy does not mention.

## 3. Runs

| Run | States | Shows |
|---|---|---|
| `engine` | 102 k | all safety properties over eleven configurations (approvals, dangerous and wrapped actions, denied policy, pinned schemas, overage approvals, unapproved plan, three invalid ones), six effects, fourteen executor reports, twelve verification reports; separate cells, one with and one without an atomic claim; the refinement of `GovernedRun`; the attestation of every receipt and its inductive invariant |
| `session` | 44 k | agent and executor share one atomic cell, as in the ACP adapter; what a cancellation decides, and that every run ends |
| `mcp` | 1.1 M | two calls of `execute` on one session, out of four effects (a mutation, an observation, a second effect under the first one's idempotency key, one that was not prepared), with everything around them free to act at any moment; every call, and the drop of the executor, returns |
| `acp` | 1.1 M | one session with two file requests of an arbitrary agent, host callbacks that answer, fail, hang or panic, and timeouts, faults and cancellation at any moment; every session is closed and its worker ends |
| `sandbox` | 3.3 M | one execution of ten requests (four usual or overlapping ones, six refused each for its own reason) under both profiles, seven endings of a workload, a daemon that acts late, wrongly or never; the refinement of `SandboxContract` |
| `sandbox_live` | 1.4 M | `execute` returns although the daemon may never answer |
| `process` | 142 k | one CLI call with two output streams; what it returns, and that it returns |
| `host` | 2.1 M | two host processes on one state directory, two effects each, crash at any step, servers and executions that live on |
| `host_live` | 397 k | every host process ends |
| `recorded`, `sandbox_cancel`, `process_pipes` | | sentences of the documentation that the code does not keep; violated, see section 6 |

**Bounds.**  `MaxSafe = 6` puts the end of the safe integers within reach: one
answer (`cost 6`) overflows it and one report (`cost 7`) is itself out of range.
Two effects per run (`maxEffects`) are the fewest for which one can depend on the
other: a mutation and then an effect against the old or the new subject, the same
idempotency key under a new id, a third effect beyond the limit.  Two subjects are
enough, as the engine only compares for equality and a mutation may restore the old
one.  The thresholds 2, 3, 5 under a budget of 5 make every branch of the runtime
gate reachable.  In `mcp`, two attempts are the fewest for which one can be a replay of
the other, follow an unknown outcome or meet an abandoned probe; a frame is written
in one or more polls; `MaxGeneration = 2` lets the tools change
before and during a call and the counter reach its end.  In `acp`, `MaxRequests = 2` is
the fewest for which a request can meet an open one or follow an effect that was
executed; in the code `max_effects` and `max_messages` bound them.  In `sandbox` an execution is
bounded by itself; the seven endings cover every branch of the classification, the
requests every check of mounts and outputs.  In `process` one stream has room for two
bytes and one for none, and a pipe holds two: a chunk can end before, at and beyond
the limit.  In `host`, `Required = 2` is the fewest for which an effect can meet the
context, the records and the writes of an earlier one, `MaxRuns = 2` for which a host
can meet what a crashed one has left, two symmetric arguments for which the context can
be for another proposal; `host_live` has one effect and one argument.  All state
spaces are finite without a state constraint.

**Fairness.**  `FairSpec` assumes weak fairness of the engine's steps as a whole:
its thread runs and every port call returns.  The adapters justify the latter by a
deadline on each call.  Nothing is assumed of the cancelling thread.  In `McpDispatch`
the host's and the worker's thread are each weakly fair, which includes their timers
(`tokio::time::timeout`, `recv_timeout`); the server, the observer's callback and the
task that writes the frame may stop for ever.  In `AcpSession` the engine's thread, the
host's thread, the session worker and the timer of a host call (`Due`) are weakly
fair; the agent, the host's callback and the canceller may stop for ever.  In
`SandboxRun` the adapter's thread and the clock are fair, the daemon and the workload
are not; in `ProcessIO` the loop, the two readers and the clock, not the process; in
`GovernedHost` the host's thread only, each of whose waits has a deadline.

**Properties of the engine.**  `ReceiptAlwaysSeals`: `RuntimeError::Receipt` is
unreachable.  `NoRepeatedDispatch`: an id or idempotency key reaches the executor at
most once.  `DispatchAuthorized`: what runs has the decisions it needs, about the current
subject.  `DispatchFitsBudget`: no meter is left unchecked.  `UsageAccounted`: the
receipt tells of every spending.  `KeepsPromise`: the run implements `GovernedRun`, so
nothing follows a failed or unknown outcome and a receipt covers every dispatch.
`CompletionExcludesCancellation`, `CancellationDecides`, `Termination`: the races with
the cancelling thread.  `CancellationDecides` is the safety half of
`CancellationHonoured`: while the engine has yet to look at a port's cell, a
cancellation in it admits no receipt but an interrupted one, or that of a run which
stops for authority.  `RunInvariant` is the inductive invariant of section 4; the type
invariant `TypeOK` is one of its parts.

`ReceiptAttestable` is an equivalence: the attestation accepts what the engine has
sealed, for every terminal status, except in two cases it names.  A run blocked by a
proposal out of turn (a wrong sequence number, a used id, a stale subject) has a
declined effect that `validate_effects` refuses for its order, and a run whose effects
have used more than the safe integers has a receipt that says less than their sum.
Both are runs that did not complete; no document promises that they can be attested.
`AttestationInvariant` is its inductive invariant.

**Of the MCP adapter.**  `NotDispatchedNeverWritten`, that a call reported as refused
has not sent a byte and never will; `NoFirstByteAfterDrift` and `ExecutedUndisturbed`,
that neither the start nor the success of a call survives a change of the tools;
`WrittenAtMostOnce`, that nothing is sent twice; `ObservationsSeal`, that whatever the
adapter reports of an attempt passes the result contract, so that the first case of
section 6 never starts here; `SessionInvariant`, the inductive invariant, with the end of
a session at an unknown outcome (`UnknownEndsSession`) and the rule that no probe starts
while an abandoned one may still run (`ProbesSerial`); `Answered`, that `execute` returns.

**Of the ACP adapter.**  `ClaimsAttended`, that a command left behind by a timeout is
never begun in secret; `ToldOnlyExecuted` and `FinishHasNoOpenWork`, that agent, host and
engine agree on what has been done; `CancelStepExplicit`, that a run is reported as
cancelled only if somebody cancelled it, though the same token serves timeouts;
`SessionInvariant`, the inductive invariant, with `DeniedNeverClaimed` and the two facts
that keep `acp.host_busy` and `acp.concurrent_effect` from ending a healthy run
(`PortFreeForCaller`, `OneRequestAtATime`); `Terminates`.

**Of the sandbox adapter.**  `SuccessIsReal`, that an observation of success means that
the workload of the validated container ended by itself with exit 0, under the recorded
CLI and the adopted runtime, with its outputs read and its records durable;
`CollectsWhatWasWritten`, that the host file collected for an output is the one the
workload wrote at that path, whatever is mounted over it; `KeepsContract`, that nothing
the observation denies has happened or happens later; `ExecutionInvariant`, the
inductive invariant, with `ContainerHasIntent` (no container without a durable record of
it), `SurvivorIsReported`, `OnlyConformingRuns` and `CancellationReported`; `Returns`.
`UnstoppedIsComplete`, `CallInvariant` and `ReturnsUnlessFlooded` are those of one CLI
call: complete output or a reason, nothing of the process group left, and a return
unless somebody outside the group writes for ever.

**Of the reference host.**  `ExecutedIsReal`, that an effect is reported executed only if
its own execution ran, wrote, was removed and can do nothing more; `NoWriterAfterVerify`
and `CompletedIsExact`, that what was verified is what is completed; `AnsweredOnce` and
`StartsOnce`, across faults, crashes and restarts; `HostInvariant`, the inductive
invariant, with `RefusalIsTrue` and `OneRunPerState`; `Closes`.

## 4. Proofs

Every safety property the runs check is a theorem for all values of the constants
that satisfy the named assumptions, and so are both refinements, one action property and
the safety half of one liveness property.  Each component has one inductive invariant,
which TLC checks on the run of that component; the other theorems of the component
follow from it.

| Module | Proves |
|---|---|
| `AgentRunProofs` | each method of the ledger, and the gate pipeline, preserves a sound ledger, and after the gates the decisions an effect needs are on record; `EngineInvariant`, and `TypeCorrect`, `ReceiptSeals`, `AtMostOnce`, `DispatchLimited`, `OnlyAuthorizedEffects`, `CompletionOrCancellation` |
| `OutcomeProofs` | `RunInvariant`, `UsageAccounted`, that `AgentRun` implements `GovernedRun`, `CancellationDecides`, and that `CancellationHonoured` needs nothing more than `Termination` |
| `AttestationProofs` | `AttestationInvariant`, `ReceiptAttestable`, and that keeping the evidence stops no step |
| `McpDispatchProofs` | `SessionInvariant` and the five properties of a call of the MCP adapter |
| `AcpSessionProofs` | `SessionInvariant`, `ToldOnlyExecuted`, `FinishHasNoOpenWork`, `CancelStepExplicit`, and the action property `ClaimsAttended` |
| `ProcessIOProofs` | `CallInvariant`, `UnstoppedIsComplete` |
| `SandboxRunProofs` | `ExecutionInvariant`, `SuccessIsReal`, `CollectsWhatWasWritten`, and that `SandboxRun` implements `SandboxContract` |
| `GovernedHostProofs` | `HostInvariant`, `ExecutedIsReal`, `NoWriterAfterVerify`, `CompletedIsExact`, `StartsOnce`, `AnsweredOnce` |

*The engine.*  That a receipt seals is decided at the last step by events of all the
earlier ones, so `EngineInvariant` says at each port call what the ledger already
guarantees: it is `Sound` (it replays without error to the ledger's own status,
subject and usage, usage is monotonic, and a decision's id is its event's number,
hence fresh), a verification is fresh from the check on (`FreshVerification`), and a
completion decision exists only once completion has been claimed (`Complete`).
`StatusAtCall` and `BudgetHeld` tie the ledger to the call the engine waits in,
`IdentitiesKept` the ledger's identity sets to the history of dispatches, and
`CellsClaimed` the claims to the cells.  The proof has one lemma per ledger method and
one per action, combined in `NextPreserves`.

*Its outcome.*  The refinement needs to know which results exist at which call
(`ResultsMatch`: one for each dispatch and all of them executed while the run goes on)
and that no verification is left over from before (`UnverifiedYet`); `UsageKept` says
that the ledger covers what the ports reported, also where usage is capped.  Together
with `EngineInvariant` they are `RunInvariant`.  Both refinement and accounting are about
what a method of the ledger leaves alone, also on the paths that drop the ledger, so
`OutcomeProofs` first proves the frame of each method (`Frame`) without asking that the
ledger be sound.  Each action is then a step of `GovernedRun` or a stutter.

*Cancellation.*  `Decided` says that the engine has yet to look an accepted cancellation
up (`CancelAhead`), or has ended the run for it.  It is no invariant, but no step leaves
it: every port call that ends the run goes through `finish`, which looks both cells up
unless the run is interrupted, completed or waiting for authority; a claim that is
granted was not that of a cancelled cell; and a run that waits for authority has just
pushed the result that says so.  With `Returned` (a run that is over has returned
something), `CancellationEffective` reduces `CancellationHonoured` to `Termination`.

*The attestation.*  `ReceiptAttestable` is about three readings of one ledger at the end
of a run, so `AttestationInvariant` says how far they agree at each call.
`EvidenceTyped` keeps requests and results those of the ledger, in order.
`NothingElse` leaves no decision, execution or mutation without its effect, which makes
the next effect the first about its digest.  `TurnsKept` has every effect in its turn,
matched by its events, and the accumulators at the ledger's subject and within its usage;
it may fail only after the proposal that ended the run, and only by `OutOfTurn`.
`PendingInTurn` says the same of the effect in the executor, with the decisions it needs
recorded before the event its execution will push.  `EndsAsLogged` ties an interruption
in the ledger to an interrupted run, and completion to executed effects.  A usage sum may
exceed the ledger's only where the ledger is at `MaxSafe`.  The proof treats the evidence
once for each way it can change (left alone, a declined effect, an attempt) and shows
that a longer evidence leaves the earlier matches as they are; what the accumulators hold
at a position follows from well-founded induction on the positions.

*The MCP adapter.*  The host may read an answer long after the worker has gone on, and a
frame may be half written when its call is over.  The invariant therefore says who holds
the one command (`HostHoldsEffect`, `OneCommand`, `ProbeOwned`), that a frame
which may still be written belongs to the call the worker awaits unless the wire has
failed (`FramesSettled`), who knows that the attempt under way has been written
(`WritingKnown`), what a change of the tools has disturbed (`DisturbanceKnown`), and that
nothing is under way after an unknown outcome (`UnknownIsLast`).

*The ACP adapter.*  At most one request of the agent is open, and engine, channel, host
and wire each know a part of it: `AskedInOrder` and `EventsFresh` for the channel,
`EffectUnderWay` for the engine, `HostServes` and `HostTellsOfEffect` for the host's
thread, `WireOrdered` and `CancelKnown` for the guard and the token.  `HostServes` is why
a late host is harmless: what outlives the engine's wait finds a quarantined port.  The
proof groups the actions by what they may touch (a call that ends the run, a report, a
step of the host, of the session) and treats the rest of each group once.

*One CLI call.*  `DropsAreNoted` (a reader that drops bytes has set the overflow
flag), `DoneIsDry` (a reader ends only at the end of the stream or at a stop) and
`ChildWatched`, `LoopEnds` for the polling loop.

*A sandbox execution.*  The invariant has two halves: the container and its records
(`NothingAsked`, `CleanupOwed`, `BoxLife`, `Validated`) and the observation under
construction (`StatusSeen`, `DriftsOnce`, `EvidenceHeld`, `StopRemembered`).  For
`CollectsWhatWasWritten` the lemmas are about paths: of two directories above one path
one lies in the other, so mounts that do not overlap leave one mount over every output.  For the refinement, each action is shown to be a step of
`SandboxContract` on `BoxSeen` and `RanSeen` or a stutter.

*The reference host.*  The invariant ties the host's position in the conversation to the
records of the state directory, the server's to the execution it drives, and every past
execution to what it may still do (`ClaimsHold`); it holds across `Crash` and `Restart`
because what a host relies on after a restart is on disk before it acts.

*Assumptions.*  Types of the constants (`ConfigAssumption`, `EffectAssumption`,
`ObservationAssumption`, `UsageAssumption`, `RequestAssumption`, `ProfileAssumption`,
`EndingAssumption`, `PathAssumption`, `LimitAssumption`, `PipeAssumption`,
`RequiredAssumption`, the bounds), that an absent value is none of the present ones
(the `AbsenceAssumption` of each module, `SubjectAssumption`, `McpSubjectAssumption`,
`ResultsAssumption`), that the digest of a request is no subject's (`DigestAssumption`,
SHA-256 of different documents), that each port has a cell (`CellAssumption`), and that an effect the
MCP adapter has prepared passes the checks `prepare` made (`PreparedAssumption`).  No
assumption restricts what a port, a server, an agent, a daemon or a workload may do
beyond its type.  TLC evaluates all of them on the instances.

*Only model-checked.*  The liveness properties (`Termination`, `Answered`, `Terminates`,
`Returns`, `ReturnsUnlessFlooded`, `Closes`): liveness under fairness is outside the
prover's reach.  No safety property is left to TLC alone.

## 5. Plan

1. (done) The contracts, the ledger, the engine; its invariant and proofs.
2. (done) `McpDispatch`: one call after the other across host thread, worker and
   transport.  To add: refreshing tools and pings between and during calls.
3. (done) `AcpSession`: the session phases, the single pending effect, the host port's
   claim and quarantine, the wire guard.
4. (done) `GovernedRun`, refined by `AgentRun`.
5. (done) `SandboxRun`, `ProcessIO`, and `SandboxContract` refined by `SandboxRun`.
6. (done) `GovernedHost`: host, server and executions with crash and restart.
7. (done) `Attestation`: the third reading of the ledger.
8. (done) Proofs of the safety of every component, of both refinements, of the
   attestation and of what an accepted cancellation decides.

## 6. Findings

`recorded`: when the executor's report violates the result contract, the `?` on
sealing the result (`src/src/runtime.rs:796`, `872`, `912`) returns an error from
`run()` after the effect was dispatched, and the ledger is dropped.  `CONTEXT.md:23`
and `docs/adr/0005-bounded-agent-run-engine.md:13-16` promise exactly one receipt
per run and a sealed result for each attempted effect.

`sandbox_cancel`: under gVisor, a cancellation that stops the `runsc --version` process
becomes the plain error `sandbox.runsc_version` (`src/adapters/sandbox/src/lib.rs:686`)
and is reported as `setup_failed`.  `adapters/sandbox/README.md:188-189` says that
cancellation keeps its status.

`process_pipes`: a reader looks at `stop` only when a read would block
(`src/adapters/sandbox/src/lib.rs:257`), and the caller joins the readers.  A descendant
outside the process group that keeps writing holds the call past its deadline;
`adapters/sandbox/README.md:72-73` says that inherited output pipes obey deadlines.  A
silent descendant does not hold it: that is `ReturnsUnlessFlooded`.

## 7. Not modelled

The byte-level canonical encoding and the JSON schemas (pure functions, used only
through the injectivity of digests); the CLI and the conformance seam (one JSON case
in, one result out); the generators of the repository's example documents (one
sequential pass over files) and the smaller examples.  Of the attestation: retained
content and snapshots, the envelope and its signatures, which are checks of bytes.  Of
the MCP adapter: start-up, binding, preparing and refreshing tools, pings, and the
retention limits, which may only refuse a call before its dispatch.  Of the ACP
adapter: the Goose profile's inventory, launch validation, and the evidence kept of a
session (trace, checkpoints, digests), which no decision of the adapter reads back.  Of
the sandbox adapter: the shape checks of a request (digests, names, numeric limits),
which are one Boolean, and the reading of its standard input.  Of the reference host:
the profile without a sandbox, the archive of evidence, the oracle of the verifier and
the report it writes.
