----------------------------- MODULE MCAgentRun -----------------------------
(***************************************************************************)
(* Small instances of AgentRun for TLC.                                    *)
(***************************************************************************)
EXTENDS AgentRunInvariant

CONSTANTS s0, s1   \* two subjects: before and after the mutation

MCMeters   == {"cost", "calls"}
MCMaxSafe  == 6
MCSubjects == {s0, s1}

Spend(cost, calls) == [m \in Meters |-> IF m = "cost" THEN cost ELSE calls]

MCPortUsages == {Spend(0, 0), Spend(1, 0), Spend(6, 0)}

Effect(id, key, seq, class, family, subject) ==
  [id |-> id, key |-> key, seq |-> seq, class |-> class, family |-> family,
   subject |-> subject, schema |-> Null, intact |-> TRUE]

Build     == Effect("a", "k", 1, "mutation", "process", s0)
Look      == Effect("b", "m", 1, "observation", "file", s0)
LookAgain == Effect("c", "n", 2, "observation", "file", s0)
Review    == [Effect("d", "o", 2, "observation", "file", s1) EXCEPT !.schema = "schema"]
Rebuild   == Effect("e", "k", 2, "mutation", "process", s1)
Broken    == [Look EXCEPT !.intact = FALSE]

MCEffects == {Build, Look, LookAgain, Review, Rebuild, Broken}

Base ==
  [subject |-> s0, implementer |-> "worker", executorValid |-> TRUE,
   maxEffects |-> 2, warn |-> 2, approve |-> 3, hardStop |-> 5,
   budget |-> Spend(5, 3), estimate |-> Spend(1, 1),
   policy |-> "allow", risky |-> FALSE, wrapped |-> FALSE,
   approvals |-> {}, overage |-> {}, trusted |-> TRUE, pins |-> Null,
   verifiers |-> {"reviewer", "worker"}, planApproved |-> TRUE,
   supportIntact |-> TRUE, requestIntact |-> TRUE]

MCConfigs ==
  {Base,
   [Base EXCEPT !.maxEffects = 1, !.approve = 2, !.overage = {Approval(Build, 4), Approval(Look, 3)}],
   [Base EXCEPT !.policy = "ask", !.approvals = {Build, Look, LookAgain}],
   [Base EXCEPT !.wrapped = TRUE, !.approvals = {Build}],
   [Base EXCEPT !.policy = "deny"],
   [Base EXCEPT !.pins = {"schema"}],
   [Base EXCEPT !.budget = Spend(5, 1), !.policy = Null, !.risky = TRUE,
                !.approvals = {Build, Look, LookAgain}],
   [Base EXCEPT !.planApproved = FALSE],
   [Base EXCEPT !.hardStop = 6],
   [Base EXCEPT !.estimate = Spend(7, 1)],
   [Base EXCEPT !.budget = Spend(7, 3)]}

Report(verifier, subject, verdict) ==
  [verifier |-> verifier, subject |-> subject, verdict |-> verdict,
   evidenced |-> TRUE, intact |-> TRUE, complete |-> TRUE]

MCReports ==
  {Report(v, s, verdict) : v \in {"reviewer", "worker"}, s \in Subjects,
                           verdict \in {"pass", "fail"}}
  \cup {[Report("reviewer", s0, "pass") EXCEPT !.complete = FALSE],
        [Report("reviewer", s0, "pass") EXCEPT !.intact = FALSE],
        Report("stranger", s0, "pass"),
        Report("reviewer", Malformed, "pass")}

MCLostEvidence == {[types |-> {}, intact |-> TRUE],
                   [types |-> {"failure"}, intact |-> TRUE]}

Observation(status, post, exit, usage, reason, evidence) ==
  [status |-> status, post |-> post, exit |-> exit, usage |-> usage,
   executor |-> Configured, sandbox |-> "requested", reason |-> reason,
   evidence |-> {"executor", "sandbox", "usage"} \cup evidence, evidenceIntact |-> TRUE]

Known == {"subject_observation", "mutation", "artifact", "exit"}

Built  == Observation("executed", s1, "code", Spend(1, 1), Null, Known)
Looked == Observation("executed", s0, Null, Spend(1, 0), Null, {"subject_observation"})

MCObservations ==
  {Built, Looked,
   [Looked EXCEPT !.post = s1],
   [Looked EXCEPT !.usage = Spend(0, 2)],
   [Built EXCEPT !.usage = Spend(6, 1)],
   [Built EXCEPT !.usage = Spend(7, 1)],
   [Built EXCEPT !.post = s0, !.status = "failed", !.reason = "text",
                 !.evidence = @ \cup {"failure"}],
   [Built EXCEPT !.status = "interrupted", !.reason = "text", !.exit = Null,
                 !.evidence = @ \cup {"interruption"}],
   Observation("unknown_outcome", Null, Null, Spend(0, 0), "text", {"unknown_outcome"}),
   [Built EXCEPT !.sandbox = "other", !.usage = Spend(1, 0)],
   [Looked EXCEPT !.executor = Null, !.post = Malformed, !.usage = Spend(7, 0)],
   [Looked EXCEPT !.executor = "other", !.evidenceIntact = FALSE],
   Observation("awaiting_authority", Null, Null, Spend(0, 0), "text", {}),
   Observation("denied", Null, Null, Spend(1, 0), "blank", {})}

Separate == [agent |-> "agent_cell", executor |-> "executor_cell"]
Shared   == [agent |-> "session", executor |-> "session"]

=============================================================================
