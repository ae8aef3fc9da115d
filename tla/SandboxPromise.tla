--------------------------- MODULE SandboxPromise ---------------------------
(***************************************************************************)
(* What a caller of the sandbox adapter may rely on, as the steps one      *)
(* execution can make.  An execution x is a record:                        *)
(*   intent  the launch intent is durable                                  *)
(*   box     "none", "held" or "gone": the owned container                 *)
(*   ran     "no", "running", "done" or "killed": the workload             *)
(*   exit    its exit code                                                 *)
(*   claim   the observation execute returned, Null before: the fields of  *)
(*           SandboxObservation that say what happened                     *)
(* A crash of the adapter is an execution that never claims anything.      *)
(***************************************************************************)
EXTENDS Naturals

CONSTANT Null

ExitCodes     == {0, 1, 137, 153}
SandboxStatus == {"setup_failed", "exited", "cancelled", "timed_out", "output_overflow",
                  "resource_limit", "runtime_crash", "unknown_outcome"}
SandboxCleanup == {"not_created", "removed", "unconfirmed"}

SandboxObservation ==
  [status : SandboxStatus, cleanup : SandboxCleanup, exit : ExitCodes \cup {Null},
   published : {"no", "yes", "failed"}]

Executions ==
  [intent : BOOLEAN, box : {"none", "held", "gone"}, ran : {"no", "running", "done", "killed"},
   exit : ExitCodes \cup {Null}, claim : SandboxObservation \cup {Null}]

Unlaunched == [intent |-> FALSE, box |-> "none", ran |-> "no", exit |-> Null, claim |-> Null]

(* An observation that matches what has happened and, with the conditions  *)
(* on launch and run below, what can still happen.                         *)
Truthful(x, o) ==
  /\ o.cleanup = "not_created" => x.box = "none"
  /\ o.cleanup = "removed" => x.box = "gone"
  /\ x.box = "held" => o.cleanup = "unconfirmed"
  /\ o.status = "setup_failed" => x.ran = "no"
  /\ o.status = "exited" => x.ran = "done" /\ o.exit = x.exit
  /\ o.exit # Null => o.exit = x.exit

(* Nothing starts once it has been denied.                                 *)
MayLaunch(x) == x.intent /\ (x.claim # Null => x.claim.cleanup = "unconfirmed")
MayRun(x)    == x.claim # Null => x.claim.cleanup = "unconfirmed" /\ x.claim.status # "setup_failed"

Intends(x)  == IF x.intent \/ x.claim # Null THEN {} ELSE {[x EXCEPT !.intent = TRUE]}
Launches(x) == IF x.box = "none" /\ MayLaunch(x) THEN {[x EXCEPT !.box = "held"]} ELSE {}
Runs(x)     == IF x.box = "held" /\ x.ran = "no" /\ MayRun(x) THEN {[x EXCEPT !.ran = "running"]} ELSE {}
Exits(x)    == IF x.box = "held" /\ x.ran = "running"
                 THEN {[x EXCEPT !.ran = "done", !.exit = c] : c \in ExitCodes} ELSE {}
Removes(x)  == IF x.box = "held"
                 THEN {[x EXCEPT !.box = "gone", !.ran = IF @ = "running" THEN "killed" ELSE @]}
                 ELSE {}

(* What the daemon and the workload may do at any time, and what the       *)
(* adapter may return.                                                     *)
SandboxSteps(x) == Intends(x) \cup Launches(x) \cup Runs(x) \cup Exits(x) \cup Removes(x)
MayClaim(x, o)  == x.claim = Null /\ o \in SandboxObservation /\ Truthful(x, o)

(* What a claim goes on saying of its execution, whatever happens to it.   *)
Kept(x) ==
  x.claim # Null =>
    /\ x.claim.cleanup = "removed" => x.box = "gone"
    /\ x.claim.status = "exited" => x.ran = "done" /\ x.exit = x.claim.exit

=============================================================================
