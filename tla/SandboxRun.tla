----------------------------- MODULE SandboxRun -----------------------------
(***************************************************************************)
(* LocalOciAdapter::execute (adapters/sandbox/src/lib.rs): one request     *)
(* carried out in one container, from preflight to the published           *)
(* observation, against a container daemon the adapter can only reach      *)
(* through CLI processes.                                                  *)
(*                                                                         *)
(* The daemon acts on create, start and rm at a time of its own: killing   *)
(* the CLI process takes nothing back, and an answer may be wrong, late or *)
(* lost.  A call that only reads is one step, since what the adapter reads *)
(* (an owner label, a configuration, an exit) does not change again.  The  *)
(* CLI executable and the runsc adoption may change under the adapter, but *)
(* do not change back: the adapter compares them at a few moments only.    *)
(***************************************************************************)
EXTENDS SandboxRequest, FiniteSets

CONSTANTS Null,     \* an absent value
          Requests, \* the requests a caller may send
          Profiles, \* the configurations of the adapter: gvisor or not
          Endings   \* the ways a workload may end: [exit, oom, error]

ASSUME RequestAssumption == Requests \subseteq SandboxRequests
ASSUME ProfileAssumption == Profiles \subseteq BOOLEAN
ASSUME EndingAssumption ==
  Endings \subseteq [exit : {0, 1, 137, 153}, oom : {"no", "marked", "late"}, error : BOOLEAN]

Codes    == {0, 1, 137, 153}
Statuses == {"setup_failed", "exited", "cancelled", "timed_out", "output_overflow",
             "resource_limit", "runtime_crash", "unknown_outcome"}
Cleanups == {"not_created", "removed", "unconfirmed"}
Failures == {"plain", "cancelled", "timeout"}

(* An absent value is none of the values it is compared with.              *)
ASSUME AbsenceAssumption ==
  /\ Null \notin Codes
  /\ Null \notin {"original", "changed", "timeout", "no answer", "absent", "not owned",
                  "failed", "remaining"}
  /\ Null \notin [exe : {"original", "changed"}, runsc : {"adopted", "drifted"}]
  /\ Null \notin [status : Statuses, cleanup : Cleanups, exit : Codes \cup {Null},
                  published : {"no", "yes", "failed"}]

VARIABLES pc,        \* where execute stands
          request,   \* its argument
          gvisor,    \* config.gvisor.is_some()
          obs,       \* the observation under construction
          result,    \* the Err of the launched part, or "ok"
          answer,    \* the exit code of the waiting CLI process
          requests,  \* the changes the daemon has still to make
          box,       \* the container under the execution's name
          disk,      \* the records written and synced
          cancelled, \* the cancellation flag
          expired,   \* the execution deadline has passed
          flooded,   \* the waiting CLI has passed an output limit
          grace,     \* the current cleanup-sized deadline
          exe,       \* the bytes of the CLI executable
          expected,  \* the bytes its hash is compared with
          runsc,     \* the runsc installation: as adopted, or drifted
          stopped,   \* history: the cancellation has stopped a CLI process
          launched   \* history: the CLI and runsc the workload started under

adapterVars == <<pc, obs, result, expected, stopped>>
inputVars   == <<request, gvisor>>
daemonVars  == <<answer, requests, box, launched, flooded>>
clockVars   == <<cancelled, expired, grace>>
hostVars    == <<exe, runsc>>
vars == <<adapterVars, inputVars, daemonVars, clockVars, hostVars, disk>>

NoBox   == [state |-> "absent", conforms |-> FALSE, exit |-> Null, oom |-> "no", error |-> FALSE]
Foreign == [NoBox EXCEPT !.state = "foreign"]
Owned   == {"created", "running", "exited"}

Blank == [status |-> "setup_failed", cleanup |-> "not_created", exit |-> Null,
          artifacts |-> {}, named |-> FALSE, published |-> "no", why |-> Null]
Over  == {"returned", "killed"}

Init ==
  /\ pc = "begin" /\ request \in Requests /\ gvisor \in Profiles
  /\ obs = Blank
  /\ result = "ok" /\ answer = Null /\ requests = {} /\ box \in {NoBox, Foreign}
  /\ disk = {} /\ cancelled = FALSE /\ expired = FALSE /\ grace = "closed"
  /\ exe = "original" /\ expected = Null /\ runsc = "adopted"
  /\ stopped = FALSE /\ launched = Null /\ flooded = FALSE

Go(next) == pc' = next
Quiet    == UNCHANGED <<inputVars, clockVars, hostVars>>
Passive  == Quiet /\ UNCHANGED daemonVars

----------------------------------------------------------------------------
(* Budgets.                                                                *)

(* check_budget: cancellation is looked at before the deadline.            *)
CheckBudget == IF cancelled THEN "cancelled" ELSE IF expired THEN "timeout" ELSE "ok"

(* A control call may be stopped by either while it runs; one that the     *)
(* cancellation stopped is remembered.                                     *)
ControlStops == (IF cancelled THEN {"cancelled"} ELSE {}) \cup (IF expired THEN {"timeout"} ELSE {})

WithinBudget == CheckBudget = "ok"

----------------------------------------------------------------------------
(* Before anything is owned.  The first error ends execute: status         *)
(* setup_failed stands unless the error is a cancellation or a timeout.    *)

FailsEarly(failure) ==
  /\ result' = failure /\ Go("classify") /\ Passive /\ UNCHANGED <<expected, disk>>

BeginCancelled ==
  /\ pc = "begin" /\ cancelled
  /\ obs' = [obs EXCEPT !.status = "cancelled"] /\ Go("classify")
  /\ Passive /\ UNCHANGED <<result, expected, stopped, disk>>

Begin ==
  /\ pc = "begin" /\ ~cancelled /\ Go("preflight")
  /\ Passive /\ UNCHANGED <<obs, result, expected, stopped, disk>>

(* verify_gvisor passes only an installation that is as adopted.           *)
RuntimeAdopted == gvisor => runsc = "adopted"

(* The name and the nonce are chosen right after preflight.                *)
Preflight ==
  /\ pc = "preflight" /\ WithinBudget
  /\ Admitted(request, gvisor) /\ RuntimeAdopted
  /\ expected' = exe /\ obs' = [obs EXCEPT !.named = TRUE] /\ Go("intent")
  /\ Passive /\ UNCHANGED <<result, stopped, disk>>

(* A host, engine or image that is not the adopted one, or the system's    *)
(* random source failing.                                                  *)
PreflightRefuses ==
  /\ pc = "preflight" /\ FailsEarly("plain") /\ UNCHANGED <<obs, stopped>>

PreflightStops ==
  /\ pc = "preflight"
  /\ \E s \in ControlStops : FailsEarly(s) /\ stopped' = (s = "cancelled")
  /\ UNCHANGED obs

(* The runsc --version process of verify_gvisor: whatever stops it, the    *)
(* error says that the version differs.                                    *)
VersionStops ==
  /\ pc = "preflight" /\ gvisor
  /\ \E s \in ControlStops : FailsEarly("plain") /\ stopped' = (s = "cancelled")
  /\ UNCHANGED obs

(* The intent holds the hash of the CLI; under gVisor the comparison at    *)
(* the end uses this second hash.                                          *)
WriteIntent ==
  /\ pc = "intent" /\ WithinBudget
  /\ expected' = IF gvisor THEN exe ELSE expected
  /\ disk' = disk \cup {"intent"}
  /\ obs' = [obs EXCEPT !.cleanup = "unconfirmed"] /\ Go("create")
  /\ Passive /\ UNCHANGED <<result, stopped>>

IntentFails ==
  /\ pc = "intent" /\ FailsEarly(IF WithinBudget THEN "plain" ELSE CheckBudget)
  /\ UNCHANGED <<obs, stopped>>

----------------------------------------------------------------------------
(* The launched part: whatever ends it, the cleanup follows.               *)

(* Mutant: a cancelled execution returns at once.                          *)
CancelSkipsCleanup(failure) ==
  result' = failure /\ Go(IF cancelled THEN "classify" ELSE "probe") /\ grace' = "open"

(* The run closure returns; the post-execution deadline starts.            *)
Ends(failure) ==
  result' = failure /\ Go("probe") /\ grace' = "open"

EndsWith(failure, status) ==
  /\ Ends(failure) /\ obs' = [obs EXCEPT !.status = status]
  /\ UNCHANGED <<inputVars, cancelled, expired, hostVars, expected>>

(* process: a deadline or a cancellation found before dispatch, or a CLI   *)
(* that cannot be spawned, sends nothing.                                  *)
NotSpawned(status) ==
  /\ \E f \in ControlStops \cup {"plain"} : EndsWith(f, status)
  /\ UNCHANGED <<daemonVars, stopped, disk>>

Spawns(request_, waiting) ==
  /\ WithinBudget
  /\ requests' = requests \cup {request_} /\ answer' = Null /\ flooded' = FALSE /\ Go(waiting)
  /\ Quiet /\ UNCHANGED <<result, expected, stopped, box, launched, disk>>

(* Mutant: the wait for the CLI has no deadline of its own.                *)
NoDeadline ==
  (IF flooded THEN {"output_overflow"} ELSE {}) \cup (IF cancelled THEN {"cancelled"} ELSE {})

(* The process loop stops the CLI on a cancellation, an overflow or the    *)
(* deadline, whether or not its answer is already there.                   *)
StopStatuses ==
  (IF flooded THEN {"output_overflow"} ELSE {}) \cup (IF cancelled THEN {"cancelled"} ELSE {})
  \cup (IF expired THEN {"timed_out"} ELSE {})

Create ==
  /\ pc = "create" /\ Spawns("create", "creating") /\ UNCHANGED obs

CreateNotSpawned == pc = "create" /\ NotSpawned(obs.status)

CreateStopped ==
  /\ pc = "creating"
  /\ \E s \in StopStatuses : EndsWith("ok", s) /\ stopped' = (s = "cancelled")
  /\ UNCHANGED <<daemonVars, disk>>

CreateReturns ==
  /\ pc = "creating" /\ ~flooded /\ answer = 0 /\ Go("inspect")
  /\ Passive /\ UNCHANGED <<obs, result, expected, stopped, disk>>

CreateFails ==
  /\ pc = "creating" /\ ~flooded /\ answer = 1 /\ EndsWith("ok", obs.status)
  /\ UNCHANGED <<daemonVars, stopped, disk>>

(* validate_container: the owner label and the whole adopted profile.      *)
ValidContainer == box.state \in Owned /\ box.conforms

(* The created container is read back, retained under gVisor, validated,   *)
(* and one more cancellation check passed.                                 *)
Inspect ==
  /\ pc = "inspect" /\ WithinBudget /\ ValidContainer
  /\ disk' = IF gvisor THEN disk \cup {"container"} ELSE disk
  /\ Go("verify")
  /\ Passive /\ UNCHANGED <<obs, result, expected, stopped>>

(* A daemon that does not answer, a record that cannot be written, a       *)
(* container that differs.                                                 *)
InspectFails ==
  /\ pc = "inspect"
  /\ \E f \in ControlStops \cup {"plain"} :
       EndsWith(f, obs.status) /\ stopped' = (f = "cancelled")
  /\ disk' \in {disk} \cup (IF gvisor THEN {disk \cup {"container"}} ELSE {})
  /\ UNCHANGED daemonVars

Verify ==
  /\ pc = "verify" /\ ~cancelled /\ Go("start")
  /\ gvisor => WithinBudget /\ runsc = "adopted"
  /\ Passive /\ UNCHANGED <<obs, result, expected, stopped, disk>>

VerifyFails ==
  /\ pc = "verify" /\ gvisor
  /\ \/ runsc # "adopted" /\ EndsWith("plain", obs.status) /\ UNCHANGED stopped
     \/ \E s \in ControlStops, f \in Failures :
          f \in {s, "plain"} /\ EndsWith(f, obs.status) /\ stopped' = (s = "cancelled")
  /\ UNCHANGED <<daemonVars, disk>>

(* The explicit check before the start: cancelled is an outcome, no error. *)
VerifyCancelled ==
  /\ pc = "verify" /\ cancelled /\ EndsWith("ok", "cancelled")
  /\ UNCHANGED <<daemonVars, stopped, disk>>

(* From here on the outcome is unknown until it is observed.               *)
Start ==
  /\ pc = "start" /\ Spawns("start", "starting")
  /\ obs' = [obs EXCEPT !.status = "unknown_outcome"]

StartNotSpawned == pc = "start" /\ NotSpawned("unknown_outcome")

StartStopped ==
  /\ pc = "starting"
  /\ \E s \in StopStatuses : EndsWith("ok", s) /\ stopped' = (s = "cancelled")
  /\ UNCHANGED <<daemonVars, disk>>

StartReturns ==
  /\ pc = "starting" /\ ~flooded /\ answer # Null /\ Go("outcome")
  /\ Passive /\ UNCHANGED <<obs, result, expected, stopped, disk>>

----------------------------------------------------------------------------
(* What the terminal state of the container says.                          *)

(* An OOM kill is established by the marker, or for exit 137 by an event   *)
(* or by a marker that arrives later.                                      *)
OutOfMemory == box.oom = "marked" \/ (box.oom = "late" /\ box.exit = 137)

Classified ==
  CASE OutOfMemory    -> "resource_limit"
    [] ~OutOfMemory /\ box.exit = 153 -> "resource_limit"
    [] ~OutOfMemory /\ box.exit # 153 /\ box.error -> "runtime_crash"
    [] OTHER          -> "exited"

(* The attached CLI must have reported the workload's own exit.            *)
ObservedStatus == IF answer = box.exit THEN Classified ELSE "runtime_crash"

Outcome ==
  /\ pc = "outcome" /\ WithinBudget /\ ValidContainer /\ box.state = "exited"
  /\ obs' = [obs EXCEPT !.status = ObservedStatus, !.exit = box.exit] /\ Go("collect")
  /\ Passive /\ UNCHANGED <<result, expected, stopped, disk>>

(* No answer, a different container or one that still runs; for exit 137   *)
(* the exit is already noted when the search for OOM evidence fails, and   *)
(* its own 250 ms may be over before it starts.                            *)
OutcomeFails ==
  /\ pc = "outcome"
  /\ \E f \in Failures, x \in {obs.exit} \cup (IF box.exit = 137 THEN {137} ELSE {}) :
       /\ f \in ControlStops \cup {"plain"} \/ (f = "timeout" /\ x = 137)
       /\ Ends(f) /\ obs' = [obs EXCEPT !.exit = x]
       /\ stopped' = (f = "cancelled")
  /\ UNCHANGED <<inputVars, cancelled, expired, hostVars, expected, daemonVars, disk>>

Collect ==
  /\ pc = "collect" /\ WithinBudget
  /\ obs' = [obs EXCEPT !.artifacts = request.outputs] /\ Go("rehash")
  /\ Passive /\ UNCHANGED <<result, expected, stopped, disk>>

(* Mutant: a changed executable is not noticed.                            *)
NeverChanged == FALSE

ExecutableChanged == exe # expected

(* The CLI executable is hashed again and the budget checked a last time.  *)
(* A cancellation that comes later no longer matters.                      *)
Rehash ==
  /\ pc = "rehash" /\ WithinBudget /\ ~ExecutableChanged /\ EndsWith("ok", obs.status)
  /\ UNCHANGED <<daemonVars, stopped, disk>>

RehashFails ==
  /\ pc = "rehash" /\ ExecutableChanged /\ WithinBudget /\ EndsWith("plain", "unknown_outcome")
  /\ UNCHANGED <<daemonVars, stopped, disk>>

(* bounded_io: a reader that fails, or whose result no longer counts.      *)
EvidenceFails ==
  /\ pc \in {"collect", "rehash"}
  /\ EndsWith(IF WithinBudget THEN "plain" ELSE CheckBudget, obs.status)
  /\ UNCHANGED <<daemonVars, stopped, disk>>

----------------------------------------------------------------------------
(* After the run closure, cancelled or not.                                *)

Reopens(next) == Go(next) /\ grace' = "open" /\ UNCHANGED <<cancelled, expired>>

SkipProbe ==
  /\ pc = "probe" /\ ~gvisor /\ Reopens("cleanup")
  /\ UNCHANGED <<obs, result, expected, stopped, inputVars, daemonVars, hostVars, disk>>

(* verify_gvisor once more and the runtime record: any error turns a       *)
(* success into an unknown outcome.                                        *)
Probe ==
  /\ pc = "probe" /\ gvisor
  /\ \E seen \in {"adopted", "error"}, kept \in BOOLEAN :
       /\ seen = "adopted" => runsc = "adopted" /\ grace = "open"
       /\ disk' = IF kept THEN disk \cup {"runtime"} ELSE disk
       /\ obs' = IF (seen # "adopted" \/ ~kept) /\ obs.status = "exited" /\ obs.exit = 0
                 THEN [obs EXCEPT !.status = "unknown_outcome"] ELSE obs
  /\ Reopens("cleanup")
  /\ UNCHANGED <<result, expected, stopped, inputVars, daemonVars, hostVars>>

CleanupEnds(o) == obs' = o /\ Go("classify")

(* cleanup: look whose container it is, remove it by force, look again.    *)
(* Every control call obeys the cleanup deadline and nothing else.         *)
CleanupFailed(reason) == CleanupEnds([obs EXCEPT !.why = reason])

CleanupOnly == Passive /\ UNCHANGED <<result, expected, stopped, disk>>

OwnerMatches == box.state \in Owned

CleanupInspects ==
  /\ pc = "cleanup" /\ grace = "open" /\ OwnerMatches /\ Go("remove")
  /\ CleanupOnly /\ UNCHANGED obs

(* Mutant: a container that is not there (yet) counts as removed.          *)
AbsentIsRemoved ==
  /\ pc = "cleanup" /\ CleanupOnly
  /\ \/ grace = "over" /\ CleanupFailed("timeout")
     \/ box.state \in {"absent", "removed"} /\ CleanupEnds([obs EXCEPT !.cleanup = "removed"])
     \/ box.state = "foreign" /\ CleanupFailed("not owned")

CleanupRefuses ==
  /\ pc = "cleanup" /\ CleanupOnly
  /\ \/ grace = "over" /\ CleanupFailed("timeout")
     \/ CleanupFailed("no answer")
     \/ box.state \in {"absent", "removed"} /\ CleanupFailed("absent")
     \/ box.state = "foreign" /\ CleanupFailed("not owned")

CleanupRemoves ==
  /\ pc = "remove" /\ grace = "open"
  /\ requests' = requests \cup {"rm"} /\ answer' = Null /\ flooded' = FALSE
  /\ Go("removing")
  /\ Quiet /\ UNCHANGED <<obs, result, expected, stopped, box, launched, disk>>

CleanupRemoved ==
  /\ pc = "removing" /\ ~flooded /\ answer = 0 /\ Go("confirm") /\ CleanupOnly /\ UNCHANGED obs

CleanupStops ==
  /\ pc \in {"remove", "removing", "confirm"} /\ CleanupOnly
  /\ \/ grace = "over" /\ CleanupFailed("timeout")
     \/ pc = "removing" /\ (answer = 1 \/ flooded) /\ CleanupFailed("failed")
     \/ pc \in {"remove", "confirm"} /\ CleanupFailed("no answer")

Confirmed == box.state \notin Owned \cup {"foreign"}

CleanupConfirms ==
  /\ pc = "confirm" /\ grace = "open" /\ CleanupOnly
  /\ IF Confirmed THEN CleanupEnds([obs EXCEPT !.cleanup = "removed"])
                  ELSE CleanupFailed("remaining")

(* The error of execute decides the status last.                           *)
FinalStatus ==
  CASE result = "cancelled" -> "cancelled"
    [] result = "timeout" -> "timed_out"
    [] result = "plain" /\ obs.status = "exited" -> "unknown_outcome"
    [] OTHER -> obs.status

Classify ==
  /\ pc = "classify" /\ obs' = [obs EXCEPT !.status = FinalStatus]
  /\ Go(IF obs.named THEN "publish" ELSE "returned")
  /\ Passive /\ UNCHANGED <<result, expected, stopped, disk>>

Publish ==
  /\ pc = "publish" /\ Go("returned")
  /\ \/ obs' = [obs EXCEPT !.published = "yes"] /\ disk' = disk \cup {"observation"}
     \/ obs' = [obs EXCEPT !.published = "failed"] /\ disk' = disk
  /\ Passive /\ UNCHANGED <<result, expected, stopped>>

(* SIGKILL of the adapter: what it knew is lost, nothing more is done.     *)
HardKill ==
  /\ pc \notin Over /\ Go("killed")
  /\ obs' = Blank /\ result' = "ok" /\ expected' = Null /\ stopped' = FALSE
  /\ answer' = Null /\ flooded' = FALSE
  /\ Quiet /\ UNCHANGED <<requests, box, launched, disk>>

Adapter ==
  \/ BeginCancelled \/ Begin \/ Preflight \/ PreflightRefuses \/ PreflightStops
  \/ VersionStops \/ WriteIntent \/ IntentFails \/ Create \/ CreateNotSpawned
  \/ CreateStopped \/ CreateReturns \/ CreateFails \/ Inspect \/ InspectFails
  \/ Verify \/ VerifyFails \/ VerifyCancelled \/ Start \/ StartNotSpawned
  \/ StartStopped \/ StartReturns \/ Outcome \/ OutcomeFails \/ Collect \/ Rehash
  \/ RehashFails \/ EvidenceFails \/ SkipProbe \/ Probe \/ CleanupInspects
  \/ CleanupRefuses \/ CleanupRemoves \/ CleanupRemoved \/ CleanupStops
  \/ CleanupConfirms \/ Classify \/ Publish

----------------------------------------------------------------------------
(* The daemon and the workload (external).                                 *)

Waiting(call) ==
  pc = (CASE call = "create" -> "creating" [] call = "start" -> "starting"
          [] call = "rm" -> "removing")

DaemonOnly == UNCHANGED <<adapterVars, inputVars, clockVars, hostVars, disk>>

(* The CLI of a call, if it still waits, reports something.                *)
Reports(call, reports) ==
  IF Waiting(call) /\ answer = Null THEN answer' \in reports ELSE UNCHANGED answer

Serve(call) == call \in requests /\ requests' = requests \ {call} /\ DaemonOnly

DaemonCreates ==
  /\ Serve("create") /\ box.state = "absent"
  /\ \E conforms \in BOOLEAN : box' = [NoBox EXCEPT !.state = "created", !.conforms = conforms]
  /\ Reports("create", {0, 1}) /\ UNCHANGED <<launched, flooded>>

DaemonStarts ==
  /\ Serve("start") /\ box.state = "created"
  /\ box' = [box EXCEPT !.state = "running"]
  /\ launched' = [exe |-> exe, runsc |-> runsc]
  /\ UNCHANGED <<answer, flooded>>

(* rm --force kills a workload that still runs.                            *)
DaemonRemoves ==
  /\ Serve("rm") /\ box.state \in Owned \cup {"foreign"}
  /\ box' = [box EXCEPT !.state = "removed"]
  /\ Reports("rm", {0, 1}) /\ UNCHANGED <<launched, flooded>>

(* A change that is refused or whose request never arrived.                *)
DaemonRefuses ==
  /\ \E call \in requests :
       Serve(call) /\ Reports(call, {1})
  /\ UNCHANGED <<box, launched, flooded>>

(* The CLI gives up by itself, or says more than the daemon has done: a    *)
(* removal may be answered while it is still in progress.                  *)
ClientReturns ==
  /\ answer = Null
  /\ \/ pc = "creating" /\ answer' = 1
     \/ pc = "starting" /\ answer' = 1
     \/ pc = "removing" /\ answer' \in {0, 1}
  /\ DaemonOnly /\ UNCHANGED <<requests, box, launched, flooded>>

WorkloadExits ==
  /\ box.state = "running"
  /\ \E e \in Endings :
       box' = [box EXCEPT !.state = "exited", !.exit = e.exit, !.oom = e.oom, !.error = e.error]
  /\ DaemonOnly /\ UNCHANGED <<answer, requests, launched, flooded>>

AttachReturns ==
  /\ pc = "starting" /\ answer = Null /\ box.state = "exited" /\ answer' = box.exit
  /\ DaemonOnly /\ UNCHANGED <<requests, box, launched, flooded>>

(* More output than the call retains.                                      *)
Floods ==
  /\ pc \in {"creating", "starting", "removing"} /\ ~flooded /\ flooded' = TRUE
  /\ DaemonOnly /\ UNCHANGED <<answer, requests, box, launched>>

Daemon == DaemonCreates \/ DaemonStarts \/ DaemonRemoves \/ DaemonRefuses
          \/ ClientReturns \/ WorkloadExits \/ AttachReturns \/ Floods

----------------------------------------------------------------------------
(* The caller, the clock and the host.                                     *)

Around == pc \notin Over /\ UNCHANGED <<adapterVars, inputVars, daemonVars, disk>>

Cancel == ~cancelled /\ cancelled' = TRUE /\ Around /\ UNCHANGED <<expired, grace, hostVars>>

Expire == ~expired /\ expired' = TRUE /\ Around /\ UNCHANGED <<cancelled, grace, hostVars>>

GraceEnds ==
  /\ grace = "open" /\ grace' = "over" /\ Around /\ UNCHANGED <<cancelled, expired, hostVars>>

HostChanges ==
  /\ \/ exe = "original" /\ exe' = "changed" /\ UNCHANGED runsc
     \/ gvisor /\ runsc = "adopted" /\ runsc' = "drifted" /\ UNCHANGED exe
  /\ Around /\ UNCHANGED clockVars

Next == Adapter \/ Daemon \/ HardKill \/ Cancel \/ Expire \/ GraceEnds \/ HostChanges

Spec == Init /\ [][Next]_vars

(* The adapter's thread makes the steps that wait for nobody else; a call  *)
(* that waits for the daemon, the disk or the host is only sure to end once*)
(* its deadline has passed.                                                *)
WaitsForDeadline == {"preflight", "intent", "creating", "inspect", "verify", "starting",
                     "outcome", "collect", "rehash"}
WaitsForGrace    == {"probe", "cleanup", "removing", "confirm"}

Prompt ==
  /\ pc \in WaitsForDeadline => ~WithinBudget
  /\ pc \in WaitsForGrace => grace = "over"
  /\ Adapter

FairSpec == Spec /\ WF_vars(Prompt) /\ WF_vars(Expire) /\ WF_vars(GraceEnds)

----------------------------------------------------------------------------
(* Properties.                                                             *)

(* The stages of execute.                                                  *)
Early     == {"begin", "preflight", "intent"}
Launching == {"create", "creating", "inspect", "verify", "start", "starting", "outcome",
              "collect", "rehash"}
Cleaning  == {"probe", "cleanup", "remove", "removing", "confirm"}
Closing   == {"classify", "publish", "returned"}

Boxes == [state : {"absent", "foreign", "created", "running", "exited", "removed"},
          conforms : BOOLEAN, exit : Codes \cup {Null}, oom : {"no", "marked", "late"},
          error : BOOLEAN]

Reasons == {"timeout", "no answer", "absent", "not owned", "failed", "remaining"}

Observed ==
  [status : Statuses, cleanup : Cleanups, exit : Codes \cup {Null}, artifacts : SUBSET request.outputs,
   named : BOOLEAN, published : {"no", "yes", "failed"}, why : Reasons \cup {Null}]

TypeOK ==
  /\ pc \in Early \cup Launching \cup Cleaning \cup Closing \cup {"killed"}
  /\ request \in Requests /\ gvisor \in Profiles /\ obs \in Observed
  /\ result \in Failures \cup {"ok"} /\ answer \in Codes \cup {Null}
  /\ requests \subseteq {"create", "start", "rm"} /\ box \in Boxes
  /\ disk \subseteq {"intent", "container", "runtime", "observation"}
  /\ cancelled \in BOOLEAN /\ expired \in BOOLEAN /\ flooded \in BOOLEAN
  /\ grace \in {"closed", "open", "over"}
  /\ exe \in {"original", "changed"} /\ expected \in {Null, "original", "changed"}
  /\ runsc \in {"adopted", "drifted"} /\ stopped \in BOOLEAN
  /\ launched \in [exe : {"original", "changed"}, runsc : {"adopted", "drifted"}] \cup {Null}

(* Whenever a container of this execution exists, or the daemon may still  *)
(* create one, the intent that names it is durable: a hard kill at any     *)
(* point leaves a record to find it by (write_record before create).       *)
ContainerHasIntent ==
  box.state \in Owned \/ "create" \in requests => "intent" \in disk

(* A container that outlives the call is reported: cleanup "unconfirmed"   *)
(* with a reason, whatever ended the execution (cancellation included).    *)
SurvivorIsReported ==
  pc = "returned" /\ box.state \in Owned =>
    obs.cleanup = "unconfirmed" /\ obs.why # Null

(* A success a host may act on (exited, exit 0, removed): the workload of  *)
(* the validated container ran to its own end with that exit and without a *)
(* runtime error or an OOM kill, under the CLI that was recorded before    *)
(* the launch and, with gVisor, the adopted runsc; its outputs were read   *)
(* and the records of the launch are durable.                              *)
SuccessIsReal ==
  (pc = "returned" /\ obs.status = "exited" /\ obs.exit = 0 /\ obs.cleanup = "removed") =>
    /\ box.state = "removed" /\ box.exit = 0 /\ box.conforms
    /\ ~box.error /\ ~OutOfMemory
    /\ launched.exe = expected
    /\ gvisor => launched.runsc = "adopted"
    /\ obs.artifacts = request.outputs
    /\ {"intent"} \cup (IF gvisor THEN {"container", "runtime"} ELSE {}) \subseteq disk

(* No container that differs from the adopted profile ever runs.           *)
OnlyConformingRuns == launched # Null => box.conforms

(* The file collected for an output is the one the workload saw at that    *)
(* path, and never one of the adapter's own records.                       *)
CollectsWhatWasWritten ==
  \A out \in obs.artifacts :
    /\ SeenAt(request, out) = {HostPath(request, out)}
    /\ ~Under(HostPath(request, out), StateDirectory)

(* A CLI process stopped by the cancellation makes the status cancelled    *)
(* (outside the gVisor probes).                                            *)
CancellationReported ==
  pc = "returned" /\ ~gvisor /\ stopped => obs.status = "cancelled"

(* What the properties above rest on, one part per piece of state.         *)

(* Until the intent is durable the daemon has been asked for nothing; what *)
(* was prepared is then on record as unconfirmed until the cleanup ends.   *)
NothingAsked ==
  pc \in Early \cup {"create"} \/ (pc \in Closing /\ obs.cleanup = "not_created") =>
    requests = {} /\ box \in {NoBox, Foreign} /\ launched = Null

CleanupOwed ==
  /\ pc \in Early => obs.cleanup = "not_created"
  /\ pc \in Launching \cup Cleaning => obs.cleanup = "unconfirmed"
  /\ pc \in Closing /\ obs.cleanup = "unconfirmed" => obs.why # Null
  /\ obs.cleanup # "not_created" => "intent" \in disk

(* The life of the container: an exit is noted once, a removal is final,   *)
(* and only an owned container is ever removed.                            *)
BoxLife ==
  /\ box.state \in {"absent", "foreign"} => ~box.conforms
  /\ box.state \in {"absent", "foreign", "created"} => launched = Null
  /\ box.state \in {"running", "exited"} => launched # Null
  /\ box.state \in {"absent", "foreign", "created", "running"} => box.exit = Null
  /\ box.state = "exited" => box.exit # Null
  /\ box.exit # Null => launched # Null
  /\ "rm" \in requests \/ pc \in {"remove", "removing", "confirm"} =>
       box.state \in Owned \cup {"removed"}
  /\ obs.cleanup = "removed" => box.state = "removed"

(* A start is only asked for once the created container has been validated *)
(* and its record kept.                                                    *)
Validated ==
  /\ "start" \in requests => box.conforms
  /\ pc \in {"verify", "start", "starting", "outcome", "collect", "rehash"} \/ obs.status = "exited" =>
       box.conforms /\ (gvisor => "container" \in disk)

(* What the observation says next to what has happened: as long as it says *)
(* that nothing was started nothing can be, and an exit is the workload's. *)
StatusSeen ==
  /\ pc \in Early \cup {"create", "creating", "inspect", "verify", "start"} =>
       obs.status = "setup_failed"
  /\ pc \in {"starting", "outcome"} => obs.status = "unknown_outcome"
  /\ pc # "killed" /\ obs.status = "setup_failed" => "start" \notin requests /\ launched = Null
  /\ obs.exit # Null => obs.exit = box.exit
  /\ obs.status = "exited" => obs.exit # Null /\ ~box.error /\ ~OutOfMemory

(* The host drifts one way: what is as recorded now was so at the launch.  *)
DriftsOnce ==
  /\ expected = "changed" => exe = "changed"
  /\ launched # Null /\ exe = "original" => launched.exe = "original"
  /\ launched # Null /\ expected = "changed" => launched.exe = "changed"
  /\ launched # Null /\ runsc = "adopted" => launched.runsc = "adopted"

(* An exit that still stands has its evidence.                             *)
EvidenceHeld ==
  /\ pc \in Launching \cup {"intent"} => obs.named
  /\ obs.artifacts # {} => obs.named
  /\ obs.named => Admitted(request, gvisor)
  /\ pc = "rehash" => obs.artifacts = request.outputs
  /\ pc \in Cleaning \cup Closing /\ obs.status = "exited" /\ result = "ok" =>
       obs.artifacts = request.outputs /\ launched.exe = expected
  /\ pc \in {"publish", "returned"} /\ obs.status = "exited" => result = "ok"
  /\ pc \in (Cleaning \ {"probe"}) \cup Closing /\ gvisor /\ obs.status = "exited" /\ obs.exit = 0 =>
       "runtime" \in disk /\ launched.runsc = "adopted"

(* A cancellation that stopped a process is on its way to the status.      *)
StopRemembered ==
  /\ pc \in Early \cup Launching => ~stopped
  /\ stopped /\ ~gvisor => result = "cancelled" \/ (result = "ok" /\ obs.status = "cancelled")
  /\ stopped /\ ~gvisor /\ pc \in {"publish", "returned"} => obs.status = "cancelled"

(* The state of an execution: its types, that what exists, runs or was     *)
(* stopped is on record or reported, and the parts that keep it so.        *)
ExecutionInvariant ==
  TypeOK /\ ContainerHasIntent /\ SurvivorIsReported /\ OnlyConformingRuns
         /\ CancellationReported
         /\ NothingAsked /\ CleanupOwed /\ BoxLife /\ Validated /\ StatusSeen
         /\ DriftsOnce /\ EvidenceHeld /\ StopRemembered

(* README.md, gVisor profile: "Cancellation, timeout, setup failure, crash *)
(* and unknown outcomes keep their existing statuses."                     *)
CancellationKeepsStatus ==
  pc = "returned" /\ stopped => obs.status = "cancelled"

(* The execution a caller sees: the container, the workload, the returned  *)
(* observation.                                                            *)
BoxSeen ==
  CASE box.state \in Owned    -> "held"
    [] box.state = "removed" -> "gone"
    [] OTHER                 -> "none"

RanSeen ==
  CASE launched = Null                                                  -> "no"
    [] launched # Null /\ box.exit # Null                               -> "done"
    [] launched # Null /\ box.exit = Null /\ box.state = "removed"      -> "killed"
    [] OTHER                                                            -> "running"

ClaimMade ==
  IF pc # "returned" THEN Null
  ELSE [status |-> obs.status, cleanup |-> obs.cleanup, exit |-> obs.exit,
        published |-> obs.published]

Execution ==
  [intent |-> "intent" \in disk, box |-> BoxSeen, ran |-> RanSeen, exit |-> box.exit,
   claim |-> ClaimMade]

(* The adapter keeps the contract its callers rely on.                     *)
Contract == INSTANCE SandboxContract WITH execution <- Execution

KeepsContract == Contract!Spec

(* execute returns although the daemon may never answer anything: every    *)
(* wait ends with one of its three deadlines.                              *)
Returns == <>(pc \in Over)

=============================================================================
