------------------------- MODULE GovernedHostProofs -------------------------
(***************************************************************************)
(* The safety of the reference host with its sandbox profile, for any      *)
(* number of required effects, any arguments and any number of restarts.   *)
(***************************************************************************)
EXTENDS GovernedHost, SequenceTheorems, FiniteSetTheorems, FunctionTheorems, TLAPS

----------------------------------------------------------------------------
(* What an execution promises.                                             *)

(* The steps of an execution leave its claim alone and keep it true.       *)
LEMMA StepsKeepClaim ==
  ASSUME NEW x \in Executions, Kept(x), NEW y \in SandboxSteps(x)
  PROVE  y \in Executions /\ Kept(y) /\ y.claim = x.claim
  <1>1. CASE y \in Intends(x)
    BY <1>1 DEF Intends, Executions, Kept
  <1>2. CASE y \in Launches(x)
    <2>1. y = [x EXCEPT !.box = "held"] /\ x.box = "none" BY <1>2 DEF Launches
    <2>2. QED BY <2>1 DEF Executions, Kept
  <1>3. CASE y \in Runs(x)
    <2>1. y = [x EXCEPT !.ran = "running"] /\ x.ran = "no" BY <1>3 DEF Runs
    <2>2. QED BY <2>1 DEF Executions, Kept
  <1>4. CASE y \in Exits(x)
    <2>1. PICK c \in ExitCodes : y = [x EXCEPT !.ran = "done", !.exit = c] BY <1>4 DEF Exits
    <2>2. x.box = "held" /\ x.ran = "running" BY <1>4 DEF Exits
    <2>3. y = [intent |-> x.intent, box |-> x.box, ran |-> "done", exit |-> c, claim |-> x.claim]
      BY <2>1 DEF Executions
    <2>4. y \in Executions BY <2>3 DEF Executions
    <2>5. QED BY <2>2, <2>3, <2>4 DEF Kept
  <1>5. CASE y \in Removes(x)
    <2>1. PICK d \in {"no", "running", "done", "killed"} :
            /\ y = [intent |-> x.intent, box |-> "gone", ran |-> d, exit |-> x.exit,
                    claim |-> x.claim]
            /\ x.ran = "done" => d = "done"
      BY <1>5 DEF Removes, Executions
    <2>2. y \in Executions BY <2>1 DEF Executions
    <2>3. QED BY <2>1, <2>2 DEF Kept
  <1>6. QED BY <1>1, <1>2, <1>3, <1>4, <1>5 DEF SandboxSteps

(* A claim that may be made is true when it is made.                       *)
LEMMA ClaimKept ==
  ASSUME NEW x \in Executions, NEW o, MayClaim(x, o)
  PROVE  /\ [x EXCEPT !.claim = o] \in Executions /\ Kept([x EXCEPT !.claim = o])
         /\ [x EXCEPT !.claim = o].exit = x.exit
         /\ o # Null
  <1> DEFINE y == [x EXCEPT !.claim = o]
  <1>1. o \in SandboxObservation /\ Truthful(x, o) BY DEF MayClaim
  <1>2. y = [intent |-> x.intent, box |-> x.box, ran |-> x.ran, exit |-> x.exit, claim |-> o]
    BY DEF Executions
  <1>3. y \in Executions BY <1>1, <1>2 DEF Executions
  <1>4. Kept(y) BY <1>1, <1>2 DEF Kept, Truthful
  <1>5. QED BY <1>1, <1>2, <1>3, <1>4, AbsenceAssumption

LEMMA UnlaunchedKept == Unlaunched \in Executions /\ Kept(Unlaunched) /\ Unlaunched.exit # 0
  BY AbsenceAssumption DEF Unlaunched, Executions, Kept, ExitCodes

(* An execution that is vouched for has written and is over.               *)
LEMMA VouchedIsOver ==
  ASSUME ClaimsHold, NEW k, Vouched(k)
  PROVE  /\ k \in DOMAIN exec /\ exec[k].ran = "done" /\ exec[k].exit = 0
         /\ exec[k].box = "gone" /\ k \in subject
  BY DEF ClaimsHold, Vouched, Kept, Succeeded

----------------------------------------------------------------------------
(* The host: what its steps do to the invariant.                           *)

(* A proposal that waits for its reply was never started: its number is    *)
(* above those of the results.                                             *)
LEMMA PendingNeverStarted ==
  ASSUME HostInvariant, pending # Null
  PROVE  /\ pending \in Keys /\ pending \notin StartedKeys
         /\ calling = Null /\ pending.seq = Len(results) + 1
         /\ pc # "closed" /\ Alive
  <1> USE DEF HostInvariant
  <1>1. pc \in Waiting \cup {"finish"} BY DEF EffectsCounted
  <1>2. calling = Null BY <1>1 DEF EffectsCounted, Working, Waiting
  <1>3. Alive /\ pc # "closed" BY <1>1 DEF Alive, Waiting
  <1>4. pending \in Keys /\ pending.seq = Len(results) + 1
    BY <1>1, <1>3 DEF EffectsCounted, TypeOK
  <1>5. pending \notin ResultKeys
    <2> SUFFICES ASSUME NEW i \in DOMAIN results, results[i].key = pending PROVE FALSE
      BY DEF ResultKeys
    <2>1. i \in 1..Len(results) BY DEF TypeOK
    <2>2. pending.seq = i BY DEF EffectsCounted
    <2>3. QED BY <1>4, <2>1, <2>2 DEF TypeOK
  <1>6. pending \notin StartedKeys
    BY <1>2, <1>3, <1>5 DEF StartsKnown, Alive
  <1>7. QED BY <1>2, <1>3, <1>4, <1>6

(* A reply with the next number keeps the replies counted.                 *)
LEMMA ReplyIsNext ==
  ASSUME TypeOK, RepliesCounted, Alive, Alive', pc # "boot", pc' # "boot", Answered \in Nat,
         NEW told, told.run = run, told.key.seq = Answered + 1,
         replies' = replies \cup {told}, run' = run, Answered' = Answered + 1
  PROVE  RepliesCounted'
  <1>1. \A a \in replies : a.run = run => a.key.seq <= Answered
    BY DEF RepliesCounted
  <1>2. \A a \in replies : a.key.seq \in Nat /\ a.run \in Nat
    BY DEF TypeOK, Replies, Keys, HostRuns
  <1> HIDE DEF Answered
  <1>3. \A n \in 1..Answered' : \E a \in replies' : a.run = run /\ a.key.seq = n
    BY DEF RepliesCounted
  <1>4. \A a, b \in replies' : a.run = b.run /\ a.key.seq = b.key.seq => a = b
    BY <1>1, <1>2 DEF RepliesCounted
  <1>5. \A a \in replies' : a.run <= run /\ (a.run = run => a.key.seq <= Answered')
    BY <1>1, <1>2 DEF RepliesCounted, TypeOK, HostRuns
  <1>6. QED BY <1>3, <1>4, <1>5 DEF RepliesCounted

(* While a proposal is pending, and before a call is made, no server has   *)
(* work.                                                                   *)
LEMMA NobodyServes ==
  ASSUME HostInvariant, server[run].at \in {"idle", "dead"}, Alive
  PROVE  \A r \in HostRuns : ~Serving(r)
  BY DEF HostInvariant, OneServerWorks, Serving

LEMMA StartedTyped ==
  ASSUME TypeOK PROVE \A i \in DOMAIN started : started[i].key \in Keys /\ started[i].run \in HostRuns
  <1> DEFINE Start == [run : HostRuns, key : Keys]
  <1>1. started \in Seq(Start) BY DEF TypeOK
  <1>2. \A x \in Start : x.key \in Keys /\ x.run \in HostRuns OBVIOUS
  <1> HIDE DEF Start
  <1>3. \A i \in DOMAIN started : started[i] \in Start BY <1>1
  <1>4. QED BY <1>2, <1>3

(* The run stops: a pending proposal stays pending.                        *)
LEMMA StopPreserves ==
  ASSUME HostInvariant, NextFails \/ TurnIncomplete \/ GateStops \/ VerifyFails \/ ClaimFails \/
    (pc' = "finish" /\ (Plan \/ ClaimDispatch \/ PrepareConfig))
  PROVE  HostInvariant'
  <1> USE DEF HostInvariant
  <1>1. /\ pc \in {"plan", "next", "gate", "execute", "prepare", "verifying", "claim"}
        /\ pc' = "finish" /\ phase' \in {phase, "closed"}
        /\ final = "none"
        /\ UNCHANGED <<fault, cancelled, claims, effects, pending, calling, verdict, results,
          final, configs, context, transports, observations, server, exec, subject, started,
          current, previous, before, run, ident, replies>>
    BY DEF NextFails, TurnIncomplete, GateStops, VerifyFails, ClaimFails, Plan, ClaimDispatch,
      PrepareConfig, StopsRun, Go, talkVars, engineVars, stateVars, worldVars, seenVars, runVars,
      RunProgress, TypeOK
  <1>2. TypeOK' BY <1>1 DEF TypeOK
  <1>3. RefusalIsTrue' BY <1>1 DEF RefusalIsTrue
  <1>4. OneRunPerState' BY <1>1 DEF OneRunPerState, Ended
  <1>5. EffectsCounted' BY <1>1 DEF EffectsCounted, Waiting, Working
  <1>6. RunProgress' BY <1>1 DEF RunProgress, Waiting, Working, Checking
  <1>7. OneServerWorks' BY <1>1 DEF OneServerWorks, Alive, Serving, StartedKeys, ResultKeys
  <1>8. CallMatches' BY <1>1 DEF CallMatches, Waiting, Checking, StartedKeys
  <1>9. ServerHonest' BY <1>1 DEF ServerHonest, Vouched
  <1>10. StartsKnown' BY <1>1 DEF StartsKnown, Alive, StartedKeys, ResultKeys
  <1>11. ClaimsHold' BY <1>1 DEF ClaimsHold
  <1>12. VerdictsHold' BY <1>1 DEF VerdictsHold, Vouched
  <1>13. SubjectTracked' BY <1>1 DEF SubjectTracked
  <1>14. RepliesCounted' BY <1>1 DEF RepliesCounted, Alive, Answered
  <1>15. QED BY <1>2, <1>3, <1>4, <1>5, <1>6, <1>7, <1>8, <1>9, <1>10, <1>11, <1>12, <1>13, <1>14

(* The plan is admitted, or an admitted proposal is on its way.            *)
LEMMA AdvancePreserves ==
  ASSUME HostInvariant, pc' # "finish", Plan \/ GateAdmits \/ ClaimDispatch \/ PrepareConfig
  PROVE  HostInvariant'
  <1> USE DEF HostInvariant
  <1>1. /\ <<pc, pc'>> \in {<<"plan", "next">>, <<"gate", "execute">>, <<"execute", "prepare">>,
          <<"prepare", "stage">>}
        /\ phase' \in {phase, "active"}
        /\ claims' \subseteq Keys /\ configs' \subseteq Keys
        /\ pc = "gate" => effects <= Required
        /\ UNCHANGED <<fault, cancelled, effects, pending, calling, verdict, results, final,
          context, transports, observations, server, exec, subject, started, current, previous,
          before, run, ident, replies>>
    BY DEF Plan, GateAdmits, ClaimDispatch, PrepareConfig, Go, talkVars, engineVars, stateVars,
      worldVars, seenVars, runVars, TypeOK, EffectsCounted, Waiting
  <1>2. TypeOK' BY <1>1 DEF TypeOK
  <1>3. RefusalIsTrue' BY <1>1 DEF RefusalIsTrue
  <1>4. OneRunPerState' BY <1>1 DEF OneRunPerState, Ended
  <1>5. EffectsCounted' BY <1>1 DEF EffectsCounted, Waiting, Working
  <1>6. RunProgress' BY <1>1 DEF RunProgress, Waiting, Working, Checking
  <1>7. OneServerWorks' BY <1>1 DEF OneServerWorks, Alive, Serving, StartedKeys, ResultKeys
  <1>8. CallMatches' BY <1>1 DEF CallMatches, Waiting, Checking, StartedKeys
  <1>9. ServerHonest' BY <1>1 DEF ServerHonest, Vouched
  <1>10. StartsKnown' BY <1>1 DEF StartsKnown, Alive, StartedKeys, ResultKeys
  <1>11. ClaimsHold' BY <1>1 DEF ClaimsHold
  <1>12. VerdictsHold' BY <1>1 DEF VerdictsHold, Vouched
  <1>13. SubjectTracked' BY <1>1 DEF SubjectTracked
  <1>14. RepliesCounted' BY <1>1 DEF RepliesCounted, Alive, Answered
  <1>15. QED BY <1>2, <1>3, <1>4, <1>5, <1>6, <1>7, <1>8, <1>9, <1>10, <1>11, <1>12, <1>13, <1>14

(* A proposal becomes the pending effect, the next in the sequence.        *)
LEMMA AcceptPreserves ==
  ASSUME HostInvariant, Accept
  PROVE  HostInvariant'
  <1> USE DEF HostInvariant
  <1>1. /\ pc = "next" /\ pc' = "gate" /\ effects' = effects + 1
        /\ cancelled' \in {cancelled, TRUE}
        /\ UNCHANGED <<phase, fault, claims, calling, verdict, results, final, configs, context,
          transports, observations, server, exec, subject, started, current, previous, before,
          run, ident, replies>>
    BY DEF Accept, Go, stateVars, worldVars, seenVars, runVars, TypeOK
  <1>2. pending = Null /\ calling = Null /\ verdict = Null /\ effects = Len(results) /\ effects <= Required
    BY <1>1 DEF EffectsCounted, Waiting, Working
  <1>3. effects \in Nat /\ effects + 1 \in 1..Required + 1 /\ effects + 1 \in 0..Required + 1
    BY <1>2, RequiredAssumption DEF TypeOK
  <1>4. PICK arg \in Arguments : pending' = [ident |-> ident, seq |-> effects + 1, arg |-> arg]
    BY DEF Accept
  <1>5. pending' \in Keys /\ pending'.seq = effects + 1
    BY <1>3, <1>4 DEF TypeOK, Keys
  <1>6. effects' \in 0..Required + 1 /\ pending' # Null BY <1>1, <1>3, <1>5, AbsenceAssumption
  <1>7. TypeOK' BY <1>1, <1>2, <1>3, <1>4, <1>5, <1>6 DEF TypeOK
  <1>8. RefusalIsTrue' BY <1>1, <1>2, <1>3, <1>4, <1>5, <1>6 DEF RefusalIsTrue
  <1>9. OneRunPerState' BY <1>1, <1>2, <1>3, <1>4, <1>5, <1>6 DEF OneRunPerState, Ended
  <1>10. EffectsCounted'
    BY <1>1, <1>2, <1>3, <1>4, <1>5, <1>6 DEF EffectsCounted, Waiting, Working
  <1>11. RunProgress'
    BY <1>1, <1>2, <1>3, <1>4, <1>5, <1>6 DEF RunProgress, Waiting, Working, Checking
  <1>12. OneServerWorks'
    BY <1>1, <1>2, <1>3, <1>4, <1>5, <1>6 DEF OneServerWorks, Alive, Serving, StartedKeys,
      ResultKeys
  <1>13. CallMatches'
    BY <1>1, <1>2, <1>3, <1>4, <1>5, <1>6 DEF CallMatches, Waiting, Checking, StartedKeys
  <1>14. ServerHonest' BY <1>1, <1>2, <1>3, <1>4, <1>5, <1>6 DEF ServerHonest, Vouched
  <1>15. StartsKnown'
    BY <1>1, <1>2, <1>3, <1>4, <1>5, <1>6 DEF StartsKnown, Alive, StartedKeys, ResultKeys
  <1>16. ClaimsHold' BY <1>1, <1>2, <1>3, <1>4, <1>5, <1>6 DEF ClaimsHold
  <1>17. VerdictsHold' BY <1>1, <1>2, <1>3, <1>4, <1>5, <1>6 DEF VerdictsHold, Vouched
  <1>18. SubjectTracked' BY <1>1, <1>2, <1>3, <1>4, <1>5, <1>6 DEF SubjectTracked
  <1>19. RepliesCounted' BY <1>1, <1>2, <1>3, <1>4, <1>5, <1>6 DEF RepliesCounted, Alive, Answered
  <1>20. QED BY <1>7, <1>8, <1>9, <1>10, <1>11, <1>12, <1>13, <1>14, <1>15, <1>16, <1>17, <1>18,
    <1>19

LEMMA FaultPreserves ==
  ASSUME HostInvariant, Fault
  PROVE  HostInvariant'
  <1> USE DEF HostInvariant
  <1>1. /\ fault' = TRUE
        /\ UNCHANGED <<pc, phase, cancelled, claims, effects, pending, calling, verdict, results,
          final, configs, context, transports, observations, server, exec, subject, started,
          current, previous, before, run, ident, replies>>
    BY DEF Fault, PeerOnly, engineVars, stateVars, seenVars, runVars
  <1>2. TypeOK' BY <1>1 DEF TypeOK
  <1>3. RefusalIsTrue' BY <1>1 DEF RefusalIsTrue
  <1>4. OneRunPerState' BY <1>1 DEF OneRunPerState, Ended
  <1>5. EffectsCounted' BY <1>1 DEF EffectsCounted, Waiting, Working
  <1>6. RunProgress' BY <1>1 DEF RunProgress, Waiting, Working, Checking
  <1>7. OneServerWorks' BY <1>1 DEF OneServerWorks, Alive, Serving, StartedKeys, ResultKeys
  <1>8. CallMatches' BY <1>1 DEF CallMatches, Waiting, Checking, StartedKeys
  <1>9. ServerHonest' BY <1>1 DEF ServerHonest, Vouched
  <1>10. StartsKnown' BY <1>1 DEF StartsKnown, Alive, StartedKeys, ResultKeys
  <1>11. ClaimsHold' BY <1>1 DEF ClaimsHold
  <1>12. VerdictsHold' BY <1>1 DEF VerdictsHold, Vouched
  <1>13. SubjectTracked' BY <1>1 DEF SubjectTracked
  <1>14. RepliesCounted' BY <1>1 DEF RepliesCounted, Alive, Answered
  <1>15. QED BY <1>2, <1>3, <1>4, <1>5, <1>6, <1>7, <1>8, <1>9, <1>10, <1>11, <1>12, <1>13, <1>14

(* A change from outside is the one difference the invariant allows.       *)
LEMMA StrayWritePreserves ==
  ASSUME HostInvariant, StrayWrite
  PROVE  HostInvariant'
  <1> USE DEF HostInvariant
  <1>1. /\ subject' = subject \cup {Stray}
        /\ UNCHANGED <<pc, phase, fault, cancelled, claims, effects, pending, calling, verdict,
          results, final, configs, context, transports, observations, server, exec, started,
          current, previous, before, run, ident, replies>>
    BY DEF StrayWrite, PeerOnly, engineVars, stateVars, seenVars, runVars
  <1>2. TypeOK' BY <1>1 DEF TypeOK
  <1>3. RefusalIsTrue' BY <1>1 DEF RefusalIsTrue
  <1>4. OneRunPerState' BY <1>1 DEF OneRunPerState, Ended
  <1>5. EffectsCounted' BY <1>1 DEF EffectsCounted, Waiting, Working
  <1>6. RunProgress' BY <1>1 DEF RunProgress, Waiting, Working, Checking
  <1>7. OneServerWorks' BY <1>1 DEF OneServerWorks, Alive, Serving, StartedKeys, ResultKeys
  <1>8. CallMatches' BY <1>1 DEF CallMatches, Waiting, Checking, StartedKeys
  <1>9. ServerHonest' BY <1>1 DEF ServerHonest, Vouched
  <1>10. StartsKnown' BY <1>1 DEF StartsKnown, Alive, StartedKeys, ResultKeys
  <1>11. ClaimsHold' BY <1>1 DEF ClaimsHold
  <1>12. VerdictsHold' BY <1>1 DEF VerdictsHold, Vouched
  <1>13. SubjectTracked' BY <1>1 DEF SubjectTracked
  <1>14. RepliesCounted' BY <1>1 DEF RepliesCounted, Alive, Answered
  <1>15. QED BY <1>2, <1>3, <1>4, <1>5, <1>6, <1>7, <1>8, <1>9, <1>10, <1>11, <1>12, <1>13, <1>14

(* The turn ended with every effect executed, and the run is verified.     *)
LEMMA CheckPreserves ==
  ASSUME HostInvariant, TurnFinished \/ VerifyBegins \/ VerifyPasses \/ Completes
  PROVE  HostInvariant'
  <1> USE DEF HostInvariant
  <1>1. /\ <<pc, pc'>> \in {<<"next", "verify">>, <<"verify", "verifying">>, <<"verifying",
          "claim">>, <<"claim", "finish">>}
        /\ phase' \in {phase, "closed"} /\ before' \in {before, subject}
        /\ final = "none" /\ final' = (IF pc = "claim" THEN "completed" ELSE "none")
        /\ pc = "next" => effects = Required
        /\ effects = Len(results)
        /\ pc = "verifying" => before = subject /\ before = current /\ before' = before
        /\ pc = "claim" => before' = before
        /\ pending = Null /\ calling = Null /\ verdict = Null
        /\ UNCHANGED <<fault, cancelled, claims, effects, pending, calling, verdict, results,
          configs, context, transports, observations, server, exec, subject, started, current,
          previous, run, ident, replies>>
    BY DEF TurnFinished, VerifyBegins, VerifyPasses, Completes, SubjectSettled, Go, talkVars,
      engineVars, stateVars, worldVars, seenVars, runVars, RunProgress, TypeOK, EffectsCounted,
      Checking, Working, Waiting
  <1>2. TypeOK' BY <1>1 DEF TypeOK
  <1>3. RefusalIsTrue' BY <1>1 DEF RefusalIsTrue
  <1>4. OneRunPerState' BY <1>1 DEF OneRunPerState, Ended
  <1>5. EffectsCounted' BY <1>1 DEF EffectsCounted, Waiting, Working
  <1>6. RunProgress' BY <1>1 DEF RunProgress, Waiting, Working, Checking
  <1>7. OneServerWorks' BY <1>1 DEF OneServerWorks, Alive, Serving, StartedKeys, ResultKeys
  <1>8. CallMatches' BY <1>1 DEF CallMatches, Waiting, Checking, StartedKeys
  <1>9. ServerHonest' BY <1>1 DEF ServerHonest, Vouched
  <1>10. StartsKnown' BY <1>1 DEF StartsKnown, Alive, StartedKeys, ResultKeys
  <1>11. ClaimsHold' BY <1>1 DEF ClaimsHold
  <1>12. VerdictsHold' BY <1>1 DEF VerdictsHold, Vouched
  <1>13. SubjectTracked' BY <1>1 DEF SubjectTracked
  <1>14. RepliesCounted' BY <1>1 DEF RepliesCounted, Alive, Answered
  <1>15. QED BY <1>2, <1>3, <1>4, <1>5, <1>6, <1>7, <1>8, <1>9, <1>10, <1>11, <1>12, <1>13, <1>14

(* A pending proposal is told that it was not dispatched.                  *)
LEMMA ClosePreserves ==
  ASSUME HostInvariant, Close
  PROVE  HostInvariant'
  <1> USE DEF HostInvariant
  <1>1. /\ pc = "finish" /\ pc' = "closed" /\ phase' = "closed" /\ cancelled' = TRUE /\ pending'
          = Null
        /\ final' = IF final = "none" THEN "stopped" ELSE final
        /\ UNCHANGED <<fault, claims, effects, calling, verdict, results, configs, context,
          transports, observations, server, exec, subject, started, current, previous, before,
          run, ident>>
    BY DEF Close, Go, stateVars, worldVars, seenVars, runVars
  <1>2. calling = Null /\ verdict = Null BY <1>1 DEF EffectsCounted, Working
  <1>3. replies' = IF pending = Null THEN replies
                ELSE replies \cup {[run |-> run, key |-> pending, text |-> "not_dispatched"]}
    BY DEF Close, ReplyTo
  <1>4. \A a \in replies' : a \in replies \/ a = [run |-> run, key |-> pending, text |-> "not_dispatched"]
    BY <1>3
  <1>5. TypeOK'
    BY <1>1, <1>2, <1>3, <1>4, PendingNeverStarted DEF TypeOK, Replies
  <1>6. RefusalIsTrue'
    BY <1>1, <1>2, <1>3, <1>4, PendingNeverStarted DEF RefusalIsTrue, StartedKeys
  <1>7. OneRunPerState' BY <1>1, <1>2, <1>3, <1>4 DEF OneRunPerState, Ended
  <1>8. EffectsCounted' BY <1>1, <1>2, <1>3, <1>4 DEF EffectsCounted, Waiting, Working
  <1>9. RunProgress' BY <1>1, <1>2, <1>3, <1>4 DEF RunProgress, Waiting, Working, Checking
  <1>10. OneServerWorks'
    BY <1>1, <1>2, <1>3, <1>4, PendingNeverStarted DEF OneServerWorks, Alive, Serving,
      StartedKeys, ResultKeys, CallMatches
  <1>11. CallMatches' BY <1>1, <1>2, <1>3, <1>4 DEF CallMatches, Waiting, Checking, StartedKeys
  <1>12. ServerHonest' BY <1>1, <1>2, <1>3, <1>4 DEF ServerHonest, Vouched
  <1>13. StartsKnown' BY <1>1, <1>2, <1>3, <1>4 DEF StartsKnown, Alive, StartedKeys, ResultKeys
  <1>14. ClaimsHold' BY <1>1, <1>2, <1>3, <1>4 DEF ClaimsHold
  <1>15. VerdictsHold' BY <1>1, <1>2, <1>3, <1>4 DEF VerdictsHold, Vouched
  <1>16. SubjectTracked' BY <1>1, <1>2, <1>3, <1>4 DEF SubjectTracked
  <1>17. RepliesCounted'
    <2>1. CASE pending = Null
      <3>1. replies' = replies /\ run' = run /\ Alive /\ Alive' /\ Answered' = effects
        BY <1>1, <1>3, <2>1 DEF Alive, Answered
      <3>2. Answered = effects BY <1>1, <1>2, <2>1 DEF EffectsCounted, Answered, TypeOK
      <3>3. QED BY <1>1, <3>1, <3>2 DEF RepliesCounted
    <2>2. CASE pending # Null
      <3> DEFINE told == [run |-> run, key |-> pending, text |-> "not_dispatched"]
      <3>1. /\ replies' = replies \cup {told} /\ told.run = run /\ told.key.seq = Len(results) + 1
            /\ run' = run /\ Alive /\ Answered = Len(results) /\ Answered' = effects
            /\ Len(results) \in Nat /\ pc # "boot" /\ pc' # "boot" /\ Alive'
        BY <1>1, <1>3, <2>2, PendingNeverStarted DEF Answered, Alive, TypeOK
      <3>2. effects = Len(results) + 1
        BY <1>1, <2>2, <3>1 DEF EffectsCounted
      <3>3. QED BY <3>1, <3>2, ReplyIsNext
    <2>3. QED BY <2>1, <2>2
  <1>18. QED BY <1>5, <1>6, <1>7, <1>8, <1>9, <1>10, <1>11, <1>12, <1>13, <1>14, <1>15, <1>16,
    <1>17

(* The context becomes the pending effect, which the call is made for.     *)
LEMMA PrepareContextPreserves ==
  ASSUME HostInvariant, PrepareContext
  PROVE  HostInvariant'
  <1> USE DEF HostInvariant
  <1>1. /\ pc = "stage" /\ pc' = "call" /\ context' = pending /\ calling' = pending /\ pending' =
          Null
        /\ pending # Null /\ verdict = Null
        /\ UNCHANGED <<phase, fault, cancelled, claims, effects, verdict, results, final,
          configs, transports, observations, server, exec, subject, started, current, previous,
          before, run, ident, replies>>
    BY DEF PrepareContext, Go, talkVars, worldVars, seenVars, runVars, EffectsCounted, Waiting
  <1>2. \A r \in HostRuns : ~Serving(r)
    BY <1>1, PendingNeverStarted, NobodyServes DEF CallMatches, Waiting
  <1>3. pending \in Keys /\ pending \notin StartedKeys /\ calling = Null
    BY <1>1, PendingNeverStarted
  <1>4. Null \notin StartedKeys
    BY StartedTyped, AbsenceAssumption DEF StartedKeys
  <1>5. verdict # "executed" BY <1>1, AbsenceAssumption
  <1>6. TypeOK' BY <1>1, <1>2, <1>3, <1>4, <1>5 DEF TypeOK
  <1>7. RefusalIsTrue' BY <1>1, <1>2, <1>3, <1>4, <1>5 DEF RefusalIsTrue
  <1>8. OneRunPerState' BY <1>1, <1>2, <1>3, <1>4, <1>5 DEF OneRunPerState, Ended
  <1>9. EffectsCounted' BY <1>1, <1>2, <1>3, <1>4, <1>5 DEF EffectsCounted, Waiting, Working
  <1>10. RunProgress' BY <1>1, <1>2, <1>3, <1>4, <1>5 DEF RunProgress, Waiting, Working, Checking
  <1>11. OneServerWorks'
    BY <1>1, <1>2, <1>3, <1>4, <1>5 DEF OneServerWorks, Alive, Serving, StartedKeys, ResultKeys
  <1>12. CallMatches'
    BY <1>1, <1>2, <1>3, <1>4, <1>5 DEF CallMatches, Waiting, Checking, StartedKeys
  <1>13. ServerHonest' BY <1>1, <1>2, <1>3, <1>4, <1>5 DEF ServerHonest, Vouched
  <1>14. StartsKnown'
    BY <1>1, <1>2, <1>3, <1>4, <1>5 DEF StartsKnown, Alive, StartedKeys, ResultKeys
  <1>15. ClaimsHold' BY <1>1, <1>2, <1>3, <1>4, <1>5 DEF ClaimsHold
  <1>16. VerdictsHold' BY <1>1, <1>2, <1>3, <1>4, <1>5 DEF VerdictsHold, Vouched
  <1>17. SubjectTracked' BY <1>1, <1>2, <1>3, <1>4, <1>5 DEF SubjectTracked
  <1>18. RepliesCounted' BY <1>1, <1>2, <1>3, <1>4, <1>5 DEF RepliesCounted, Alive, Answered
  <1>19. QED BY <1>6, <1>7, <1>8, <1>9, <1>10, <1>11, <1>12, <1>13, <1>14, <1>15, <1>16, <1>17,
    <1>18

(* The context may have been renamed: no server is left to read it.        *)
LEMMA PrepareFailsPreserves ==
  ASSUME HostInvariant, PrepareFails
  PROVE  HostInvariant'
  <1> USE DEF HostInvariant
  <1>1. /\ pc \in {"prepare", "stage"} /\ pc' = "finish" /\ context' \in {context, pending}
        /\ pending # Null
        /\ UNCHANGED <<phase, fault, cancelled, claims, effects, pending, calling, verdict,
          results, final, configs, transports, observations, server, exec, subject, started,
          current, previous, before, run, ident, replies>>
    BY DEF PrepareFails, Go, talkVars, engineVars, worldVars, seenVars, runVars, EffectsCounted,
      Waiting
  <1>2. \A r \in HostRuns : ~Serving(r)
    BY <1>1, PendingNeverStarted, NobodyServes DEF CallMatches, Waiting
  <1>3. pending \in Keys /\ final = "none" BY <1>1, PendingNeverStarted DEF RunProgress, TypeOK
  <1>4. TypeOK' BY <1>1, <1>2, <1>3 DEF TypeOK
  <1>5. RefusalIsTrue' BY <1>1, <1>2, <1>3 DEF RefusalIsTrue
  <1>6. OneRunPerState' BY <1>1, <1>2, <1>3 DEF OneRunPerState, Ended
  <1>7. EffectsCounted' BY <1>1, <1>2, <1>3 DEF EffectsCounted, Waiting, Working
  <1>8. RunProgress' BY <1>1, <1>2, <1>3 DEF RunProgress, Waiting, Working, Checking
  <1>9. OneServerWorks'
    BY <1>1, <1>2, <1>3 DEF OneServerWorks, Alive, Serving, StartedKeys, ResultKeys
  <1>10. CallMatches' BY <1>1, <1>2, <1>3 DEF CallMatches, Waiting, Checking, StartedKeys
  <1>11. ServerHonest' BY <1>1, <1>2, <1>3 DEF ServerHonest, Vouched
  <1>12. StartsKnown' BY <1>1, <1>2, <1>3 DEF StartsKnown, Alive, StartedKeys, ResultKeys
  <1>13. ClaimsHold' BY <1>1, <1>2, <1>3 DEF ClaimsHold
  <1>14. VerdictsHold' BY <1>1, <1>2, <1>3 DEF VerdictsHold, Vouched
  <1>15. SubjectTracked' BY <1>1, <1>2, <1>3 DEF SubjectTracked
  <1>16. RepliesCounted' BY <1>1, <1>2, <1>3 DEF RepliesCounted, Alive, Answered
  <1>17. QED BY <1>4, <1>5, <1>6, <1>7, <1>8, <1>9, <1>10, <1>11, <1>12, <1>13, <1>14, <1>15,
    <1>16

(* The outcome of a call, which only gets less certain after it.           *)
LEMMA VerdictPreserves ==
  ASSUME HostInvariant, CallRefused \/ CallLost \/ ReadTransport \/ Observe
  PROVE  HostInvariant'
  <1> USE DEF HostInvariant
  <1>1. /\ <<pc, pc'>> \in {<<"call", "answer">>, <<"called", "transport">>, <<"transport",
          "observe">>, <<"observe", "answer">>}
        /\ verdict' \in {"refused", "unknown"} \/ (verdict' = verdict /\ pc \in {"transport",
          "observe"})
        /\ UNCHANGED <<phase, fault, cancelled, claims, effects, pending, calling, results,
          final, configs, context, transports, observations, server, exec, subject, started,
          current, previous, before, run, ident, replies>>
    BY DEF CallRefused, CallLost, ReadTransport, Observe, Go, talkVars, stateVars, worldVars,
      seenVars, runVars
  <1>2. verdict' # Null /\ verdict' \in {"refused", "executed", "unknown"} /\ final = "none"
    BY <1>1, AbsenceAssumption DEF EffectsCounted, RunProgress, TypeOK
  <1>3. TypeOK' BY <1>1, <1>2 DEF TypeOK
  <1>4. RefusalIsTrue' BY <1>1, <1>2 DEF RefusalIsTrue
  <1>5. OneRunPerState' BY <1>1, <1>2 DEF OneRunPerState, Ended
  <1>6. EffectsCounted' BY <1>1, <1>2 DEF EffectsCounted, Waiting, Working
  <1>7. RunProgress' BY <1>1, <1>2 DEF RunProgress, Waiting, Working, Checking
  <1>8. OneServerWorks' BY <1>1, <1>2 DEF OneServerWorks, Alive, Serving, StartedKeys, ResultKeys
  <1>9. CallMatches' BY <1>1, <1>2 DEF CallMatches, Waiting, Checking, StartedKeys
  <1>10. ServerHonest' BY <1>1, <1>2 DEF ServerHonest, Vouched
  <1>11. StartsKnown' BY <1>1, <1>2 DEF StartsKnown, Alive, StartedKeys, ResultKeys
  <1>12. ClaimsHold' BY <1>1, <1>2 DEF ClaimsHold
  <1>13. VerdictsHold' BY <1>1, <1>2 DEF VerdictsHold, Vouched
  <1>14. SubjectTracked' BY <1>1, <1>2 DEF SubjectTracked
  <1>15. RepliesCounted' BY <1>1, <1>2 DEF RepliesCounted, Alive, Answered
  <1>16. QED BY <1>3, <1>4, <1>5, <1>6, <1>7, <1>8, <1>9, <1>10, <1>11, <1>12, <1>13, <1>14,
    <1>15

(* The call goes out to a server without work.                             *)
LEMMA CallPreserves ==
  ASSUME HostInvariant, Call
  PROVE  HostInvariant'
  <1> USE DEF HostInvariant
  <1>1. /\ pc = "call" /\ pc' = "called" /\ subject = current /\ previous' = subject
        /\ server' = [server EXCEPT ![run] = [at |-> "called", key |-> calling, ok |-> FALSE]]
        /\ UNCHANGED <<phase, fault, cancelled, claims, effects, pending, calling, verdict,
          results, final, configs, context, transports, observations, exec, subject, started,
          current, before, run, ident, replies>>
    BY DEF Call, Go, talkVars, engineVars, stateVars, runVars
  <1>2. \A r \in HostRuns : ~Serving(r)
    BY <1>1, NobodyServes DEF CallMatches, Alive
  <1>3. /\ calling \in Keys /\ calling = context /\ context # Null /\ calling.seq = Len(results) + 1
        /\ run \in HostRuns /\ Len(results) \in Nat /\ verdict = Null /\ pending = Null /\ final = "none"
    BY <1>1 DEF CallMatches, EffectsCounted, Waiting, Working, RunProgress, TypeOK
  <1>4. \A a \in replies : a.run = run => a.key # context
    BY <1>1, <1>3 DEF RepliesCounted, Alive, Answered
  <1>5. \A r \in HostRuns :
          server'[r] = IF r = run THEN [at |-> "called", key |-> calling, ok |-> FALSE] ELSE server[r]
    BY <1>1 DEF TypeOK
  <1>6. [at |-> "called", key |-> calling, ok |-> FALSE] \in Servers /\ verdict # "executed"
    BY <1>3, AbsenceAssumption DEF Servers
  <1>7. TypeOK' BY <1>1, <1>2, <1>3, <1>4, <1>5, <1>6 DEF TypeOK
  <1>8. RefusalIsTrue' BY <1>1, <1>2, <1>3, <1>4, <1>5, <1>6 DEF RefusalIsTrue
  <1>9. OneRunPerState' BY <1>1, <1>2, <1>3, <1>4, <1>5, <1>6 DEF OneRunPerState, Ended
  <1>10. EffectsCounted'
    BY <1>1, <1>2, <1>3, <1>4, <1>5, <1>6 DEF EffectsCounted, Waiting, Working
  <1>11. RunProgress'
    BY <1>1, <1>2, <1>3, <1>4, <1>5, <1>6 DEF RunProgress, Waiting, Working, Checking
  <1>12. OneServerWorks'
    <2>1. Serving(run)' /\ \A r \in HostRuns : Serving(r)' => r = run
      <3>1. run' = run /\ server'[run].at = "called" BY <1>1, <1>3, <1>5
      <3>2. \A r \in HostRuns : r # run => server'[r].at = server[r].at BY <1>5
      <3>3. QED BY <1>2, <3>1, <3>2 DEF Serving
    <2>2. context \notin StartedKeys /\ \A i \in DOMAIN started : started[i].run = run
      BY <1>1 DEF CallMatches, StartsKnown, Alive
    <2>3. \A r \in HostRuns : server'[r].at = "called" => r = run BY <2>1 DEF Serving
    <2>4. UNCHANGED <<StartedKeys, started, ResultKeys>> BY <1>1 DEF StartedKeys, ResultKeys
    <2>5. server'[run].key = context /\ ~server'[run].ok BY <1>3, <1>5
    <2>6. QED BY <1>1, <1>3, <1>4, <2>1, <2>2, <2>3, <2>4, <2>5 DEF OneServerWorks
  <1>13. CallMatches'
    BY <1>1, <1>2, <1>3, <1>4, <1>5, <1>6 DEF CallMatches, Waiting, Checking, StartedKeys
  <1>14. ServerHonest' BY <1>1, <1>2, <1>3, <1>4, <1>5, <1>6 DEF ServerHonest, Vouched
  <1>15. StartsKnown'
    BY <1>1 DEF StartsKnown, Alive, StartedKeys, ResultKeys
  <1>16. ClaimsHold' BY <1>1, <1>2, <1>3, <1>4, <1>5, <1>6 DEF ClaimsHold
  <1>17. VerdictsHold' BY <1>1, <1>2, <1>3, <1>4, <1>5, <1>6 DEF VerdictsHold, Vouched
  <1>18. SubjectTracked' BY <1>1, <1>2, <1>3, <1>4, <1>5, <1>6 DEF SubjectTracked
  <1>19. RepliesCounted' BY <1>1, <1>2, <1>3, <1>4, <1>5, <1>6 DEF RepliesCounted, Alive, Answered
  <1>20. QED BY <1>7, <1>8, <1>9, <1>10, <1>11, <1>12, <1>13, <1>14, <1>15, <1>16, <1>17, <1>18,
    <1>19

(* The server has answered.                                                *)
LEMMA CallReturnsPreserves ==
  ASSUME HostInvariant, CallReturns
  PROVE  HostInvariant'
  <1> USE DEF HostInvariant
  <1>1. /\ pc = "called" /\ pc' = "transport" /\ server[run].at = "answered" /\ previous' =
          subject
        /\ server' = [server EXCEPT ![run].at = "idle"]
        /\ verdict' \in {"executed", "unknown"} /\ (verdict' = "executed" => server[run].ok)
        /\ UNCHANGED <<phase, fault, cancelled, claims, effects, pending, calling, results,
          final, configs, context, transports, observations, exec, subject, started, current,
          before, run, ident, replies>>
    BY DEF CallReturns, Go, talkVars, stateVars, runVars
  <1>2. /\ run \in HostRuns /\ server[run].key = calling /\ verdict' # Null /\ final = "none"
        /\ calling \in Keys /\ pending = Null
    BY <1>1, AbsenceAssumption DEF CallMatches, EffectsCounted, Waiting, Working, RunProgress, TypeOK
  <1>3. verdict' = "executed" => Vouched(calling) /\ calling \in subject
    BY <1>1, <1>2, VouchedIsOver DEF ServerHonest
  <1>4. server[run] \in Servers /\ [server[run] EXCEPT !.at = "idle"] \in Servers
    BY <1>2 DEF TypeOK, Servers
  <1>5. \A r \in HostRuns :
          server'[r] = IF r = run THEN [server[run] EXCEPT !.at = "idle"] ELSE server[r]
    BY <1>1 DEF TypeOK
  <1>6. server'[run].at = "idle" BY <1>2, <1>4, <1>5 DEF Servers
  <1>7. TypeOK' BY <1>1, <1>2, <1>3, <1>4, <1>5, <1>6 DEF TypeOK
  <1>8. RefusalIsTrue' BY <1>1, <1>2, <1>3, <1>4, <1>5, <1>6 DEF RefusalIsTrue
  <1>9. OneRunPerState' BY <1>1, <1>2, <1>3, <1>4, <1>5, <1>6 DEF OneRunPerState, Ended
  <1>10. EffectsCounted'
    BY <1>1, <1>2, <1>3, <1>4, <1>5, <1>6 DEF EffectsCounted, Waiting, Working
  <1>11. RunProgress'
    BY <1>1, <1>2, <1>3, <1>4, <1>5, <1>6 DEF RunProgress, Waiting, Working, Checking
  <1>12. OneServerWorks'
    BY <1>1, <1>2, <1>3, <1>4, <1>5, <1>6 DEF OneServerWorks, Alive, Serving, StartedKeys,
      ResultKeys
  <1>13. CallMatches'
    BY <1>1, <1>2, <1>3, <1>4, <1>5, <1>6 DEF CallMatches, Waiting, Checking, StartedKeys
  <1>14. ServerHonest' BY <1>1, <1>2, <1>3, <1>4, <1>5, <1>6 DEF ServerHonest, Vouched
  <1>15. StartsKnown'
    BY <1>1, <1>2, <1>3, <1>4, <1>5, <1>6 DEF StartsKnown, Alive, StartedKeys, ResultKeys
  <1>16. ClaimsHold' BY <1>1, <1>2, <1>3, <1>4, <1>5, <1>6 DEF ClaimsHold
  <1>17. VerdictsHold' BY <1>1, <1>2, <1>3, <1>4, <1>5, <1>6 DEF VerdictsHold, Vouched
  <1>18. SubjectTracked' BY <1>1, <1>2, <1>3, <1>4, <1>5, <1>6 DEF SubjectTracked
  <1>19. RepliesCounted' BY <1>1, <1>2, <1>3, <1>4, <1>5, <1>6 DEF RepliesCounted, Alive, Answered
  <1>20. QED BY <1>7, <1>8, <1>9, <1>10, <1>11, <1>12, <1>13, <1>14, <1>15, <1>16, <1>17, <1>18,
    <1>19

(* The effect is answered, and the run goes on after an executed one.      *)
LEMMA AnswerPreserves ==
  ASSUME HostInvariant, Answer
  PROVE  HostInvariant'
  <1> USE DEF HostInvariant
  <1>1. /\ pc = "answer" /\ pc' = (IF verdict = "executed" THEN "next" ELSE "finish")
        /\ results' = Append(results, [key |-> calling, status |-> verdict])
        /\ current' = (IF verdict = "executed" THEN previous ELSE current)
        /\ calling' = Null /\ verdict' = Null
        /\ UNCHANGED <<phase, fault, cancelled, claims, effects, pending, final, configs,
          context, transports, observations, server, exec, subject, started, previous, before,
          run, ident>>
    BY DEF Answer, Go, talkVars, stateVars, worldVars, runVars
  <1>2. PICK text \in {"executed", "unconfirmed"} :
          replies' = replies \cup {[run |-> run, key |-> calling, text |-> text]}
    BY DEF Answer, ReplyTo
  <1>3. /\ calling \in Keys /\ calling.seq = Len(results) + 1 /\ Len(results) \in Nat /\ calling # Null
        /\ effects = Len(results) + 1 /\ effects <= Required /\ pending = Null /\ final = "none"
        /\ run \in HostRuns /\ verdict \in {"refused", "executed", "unknown"}
    BY <1>1 DEF EffectsCounted, Waiting, Working, RunProgress, TypeOK
  <1>4. verdict' # "executed" BY <1>1, AbsenceAssumption
  <1>5. [key |-> calling, status |-> verdict] \in Results /\ results \in Seq(Results)
    BY <1>3 DEF Results, TypeOK
  <1>6. /\ results' \in Seq(Results) /\ Len(results') = Len(results) + 1
        /\ \A i \in 1..Len(results) : results'[i] = results[i]
        /\ results'[Len(results) + 1] = [key |-> calling, status |-> verdict]
    BY <1>1, <1>5
  <1>7. DOMAIN results = 1..Len(results) /\ DOMAIN results' = 1..Len(results) + 1
    BY <1>5, <1>6
  <1>8. ResultKeys' = ResultKeys \cup {calling}
    <2>1. \A i \in DOMAIN results' : results'[i].key = IF i \in DOMAIN results THEN results[i].key ELSE calling
      BY <1>3, <1>6, <1>7
    <2>2. QED BY <1>3, <1>6, <1>7, <2>1 DEF ResultKeys
  <1>9. [run |-> run, key |-> calling, text |-> text] \in Replies
    BY <1>2, <1>3 DEF Replies
  <1>10. TypeOK' BY <1>1, <1>2, <1>3, <1>4, <1>5, <1>6, <1>7, <1>8, <1>9 DEF TypeOK
  <1>11. RefusalIsTrue' BY <1>1, <1>2, <1>3, <1>4, <1>5, <1>6, <1>7, <1>8, <1>9 DEF RefusalIsTrue
  <1>12. OneRunPerState'
    BY <1>1, <1>2, <1>3, <1>4, <1>5, <1>6, <1>7, <1>8, <1>9 DEF OneRunPerState, Ended
  <1>13. EffectsCounted'
    BY <1>1, <1>2, <1>3, <1>4, <1>5, <1>6, <1>7, <1>8, <1>9 DEF EffectsCounted, Waiting, Working
  <1>14. RunProgress'
    BY <1>1, <1>2, <1>3, <1>4, <1>5, <1>6, <1>7, <1>8, <1>9 DEF RunProgress, Waiting, Working,
      Checking
  <1>15. OneServerWorks'
    BY <1>1, <1>2, <1>3, <1>4, <1>5, <1>6, <1>7, <1>8, <1>9 DEF OneServerWorks, Alive, Serving,
      StartedKeys, ResultKeys
  <1>16. CallMatches'
    BY <1>1, <1>2, <1>3, <1>4, <1>5, <1>6, <1>7, <1>8, <1>9 DEF CallMatches, Waiting, Checking,
      StartedKeys
  <1>17. ServerHonest'
    BY <1>1, <1>2, <1>3, <1>4, <1>5, <1>6, <1>7, <1>8, <1>9 DEF ServerHonest, Vouched
  <1>18. StartsKnown'
    <2>1. Alive /\ StartedKeys' = StartedKeys BY <1>1 DEF Alive, StartedKeys
    <2>2. StartedKeys' \subseteq ResultKeys' \cup {calling'} BY <1>8, <2>1 DEF StartsKnown
    <2>3. \A i \in DOMAIN started : started[i].run = run BY <2>1 DEF StartsKnown
    <2>4. QED BY <1>1, <2>1, <2>2, <2>3 DEF StartsKnown
  <1>19. ClaimsHold' BY <1>1, <1>2, <1>3, <1>4, <1>5, <1>6, <1>7, <1>8, <1>9 DEF ClaimsHold
  <1>20. VerdictsHold'
    BY <1>1, <1>2, <1>3, <1>4, <1>5, <1>6, <1>7, <1>8, <1>9 DEF VerdictsHold, Vouched,
      SubjectTracked
  <1>21. SubjectTracked'
    BY <1>1, <1>2, <1>3, <1>4, <1>5, <1>6, <1>7, <1>8, <1>9 DEF SubjectTracked
  <1>22. RepliesCounted'
    <2>1. Alive /\ Alive' /\ Answered = Len(results) /\ Answered' = Len(results) + 1
      BY <1>1, <1>6 DEF Alive, Answered
    <2>2. QED BY <1>1, <1>2, <1>3, <2>1, ReplyIsNext
  <1>23. QED BY <1>10, <1>11, <1>12, <1>13, <1>14, <1>15, <1>16, <1>17, <1>18, <1>19, <1>20,
    <1>21, <1>22

----------------------------------------------------------------------------
(* Hosts come and go.                                                      *)

(* A fresh directory has no context, so nothing was started from it.       *)
LEMMA BootPreserves ==
  ASSUME HostInvariant, Boot
  PROVE  HostInvariant'
  <1> USE DEF HostInvariant
  <1>1. /\ pc = "boot" /\ pc' = "plan" /\ context = Null /\ current' = subject /\ previous' =
          subject
        /\ server' = [server EXCEPT ![run] = [at |-> "idle", key |-> Null, ok |-> FALSE]]
        /\ UNCHANGED <<phase, fault, cancelled, claims, effects, pending, calling, verdict,
          results, final, configs, context, transports, observations, exec, subject, started,
          before, run, ident, replies>>
    BY DEF Boot, FreshRun, Go, talkVars, engineVars, stateVars, runVars
  <1>2. /\ results = <<>> /\ pending = Null /\ calling = Null /\ final = "none" /\ run \in HostRuns
        /\ verdict = Null /\ verdict # "executed"
    BY <1>1, AbsenceAssumption DEF RunProgress, EffectsCounted, Working, TypeOK
  <1>3. /\ [at |-> "idle", key |-> Null, ok |-> FALSE] \in Servers
        /\ \A r \in HostRuns : server'[r] =
             IF r = run THEN [at |-> "idle", key |-> Null, ok |-> FALSE] ELSE server[r]
    BY <1>1, <1>2 DEF Servers, TypeOK
  <1>4. \A r \in HostRuns : ~Serving(r) /\ ~Serving(r)'
    BY <1>1, <1>3 DEF OneServerWorks, Serving
  <1>5. started = <<>> /\ StartedKeys = {} BY <1>1 DEF StartsKnown, StartedKeys
  <1>6. Len(results) = 0 /\ DOMAIN results = {} BY <1>2
  <1>7. TypeOK' BY <1>1, <1>2, <1>3, <1>4, <1>5, <1>6 DEF TypeOK
  <1>8. RefusalIsTrue' BY <1>1, <1>2, <1>3, <1>4, <1>5, <1>6 DEF RefusalIsTrue
  <1>9. OneRunPerState' BY <1>1, <1>2, <1>3, <1>4, <1>5, <1>6 DEF OneRunPerState, Ended
  <1>10. EffectsCounted'
    BY <1>1, <1>2, <1>3, <1>4, <1>5, <1>6 DEF EffectsCounted, Waiting, Working
  <1>11. RunProgress'
    BY <1>1, <1>2, <1>3, <1>4, <1>5, <1>6 DEF RunProgress, Waiting, Working, Checking
  <1>12. OneServerWorks'
    BY <1>1, <1>2, <1>3, <1>4, <1>5, <1>6 DEF OneServerWorks, Alive, Serving, StartedKeys,
      ResultKeys
  <1>13. CallMatches'
    BY <1>1, <1>2, <1>3, <1>4, <1>5, <1>6 DEF CallMatches, Waiting, Checking, StartedKeys
  <1>14. ServerHonest' BY <1>1, <1>2, <1>3, <1>4, <1>5, <1>6 DEF ServerHonest, Vouched
  <1>15. StartsKnown'
    BY <1>1, <1>2, <1>3, <1>4, <1>5, <1>6 DEF StartsKnown, Alive, StartedKeys, ResultKeys
  <1>16. ClaimsHold' BY <1>1, <1>2, <1>3, <1>4, <1>5, <1>6 DEF ClaimsHold
  <1>17. VerdictsHold' BY <1>1, <1>2, <1>3, <1>4, <1>5, <1>6 DEF VerdictsHold, Vouched
  <1>18. SubjectTracked' BY <1>1, <1>2, <1>3, <1>4, <1>5, <1>6 DEF SubjectTracked
  <1>19. RepliesCounted'
    <2>1. \A a \in replies : a.run < run /\ a.run \in Nat /\ run \in Nat
      BY <1>1 DEF RepliesCounted, TypeOK, Replies, HostRuns
    <2>2. \A a \in replies : a.run # run /\ a.run <= run BY <2>1
    <2>3. Answered' = 0 BY <1>1, <1>6 DEF Answered
    <2>4. QED BY <1>1, <2>2, <2>3 DEF RepliesCounted
  <1>20. QED BY <1>7, <1>8, <1>9, <1>10, <1>11, <1>12, <1>13, <1>14, <1>15, <1>16, <1>17, <1>18,
    <1>19

LEMMA BootRefusesPreserves ==
  ASSUME HostInvariant, BootRefuses
  PROVE  HostInvariant'
  <1> USE DEF HostInvariant
  <1>1. /\ pc = "boot" /\ pc' = "refused"
        /\ UNCHANGED <<phase, fault, cancelled, claims, effects, pending, calling, verdict,
          results, final, configs, context, transports, observations, server, exec, subject,
          started, current, previous, before, run, ident, replies>>
    BY DEF BootRefuses, Go, talkVars, engineVars, stateVars, worldVars, seenVars, runVars
  <1>2. TypeOK' BY <1>1 DEF TypeOK
  <1>3. RefusalIsTrue' BY <1>1 DEF RefusalIsTrue
  <1>4. OneRunPerState' BY <1>1 DEF OneRunPerState, Ended
  <1>5. EffectsCounted' BY <1>1 DEF EffectsCounted, Waiting, Working
  <1>6. RunProgress' BY <1>1 DEF RunProgress, Waiting, Working, Checking
  <1>7. OneServerWorks' BY <1>1 DEF OneServerWorks, Alive, Serving, StartedKeys, ResultKeys
  <1>8. CallMatches' BY <1>1 DEF CallMatches, Waiting, Checking, StartedKeys
  <1>9. ServerHonest' BY <1>1 DEF ServerHonest, Vouched
  <1>10. StartsKnown' BY <1>1 DEF StartsKnown, Alive, StartedKeys, ResultKeys
  <1>11. ClaimsHold' BY <1>1 DEF ClaimsHold
  <1>12. VerdictsHold' BY <1>1 DEF VerdictsHold, Vouched
  <1>13. SubjectTracked' BY <1>1 DEF SubjectTracked
  <1>14. RepliesCounted' BY <1>1 DEF RepliesCounted, Alive, Answered
  <1>15. QED BY <1>2, <1>3, <1>4, <1>5, <1>6, <1>7, <1>8, <1>9, <1>10, <1>11, <1>12, <1>13, <1>14

(* A crash leaves the directory, the servers and the executions.           *)
LEMMA CrashPreserves ==
  ASSUME HostInvariant, Crash
  PROVE  HostInvariant'
  <1> USE DEF HostInvariant
  <1>1. /\ pc' = "crashed"
        /\ effects' = 0 /\ pending' = Null /\ calling' = Null /\ verdict' = Null
        /\ results' = <<>> /\ final' = "none" /\ phase' = "ready" /\ fault' = FALSE /\ cancelled'
          = FALSE
        /\ claims' = {} /\ current' = {} /\ previous' = {} /\ before' = {}
        /\ UNCHANGED <<configs, context, transports, observations, server, exec, subject,
          started, run, ident, replies>>
    BY DEF Crash, Forgets, Go, stateVars, worldVars, runVars
  <1>2. /\ Len(results') = 0 /\ DOMAIN results' = {} /\ results' \in Seq(Results)
        /\ verdict' # "executed" /\ 0 \in 0..Required + 1 /\ 0 <= Required
    BY <1>1, AbsenceAssumption, RequiredAssumption
  <1>3. TypeOK' BY <1>1, <1>2 DEF TypeOK
  <1>4. RefusalIsTrue' BY <1>1, <1>2 DEF RefusalIsTrue
  <1>5. OneRunPerState' BY <1>1, <1>2 DEF OneRunPerState, Ended
  <1>6. EffectsCounted' BY <1>1, <1>2 DEF EffectsCounted, Waiting, Working
  <1>7. RunProgress' BY <1>1, <1>2 DEF RunProgress, Waiting, Working, Checking
  <1>8. OneServerWorks' BY <1>1, <1>2 DEF OneServerWorks, Alive, Serving, StartedKeys, ResultKeys
  <1>9. CallMatches' BY <1>1, <1>2 DEF CallMatches, Waiting, Checking, StartedKeys
  <1>10. ServerHonest' BY <1>1, <1>2 DEF ServerHonest, Vouched
  <1>11. StartsKnown' BY <1>1, <1>2 DEF StartsKnown, Alive, StartedKeys, ResultKeys
  <1>12. ClaimsHold' BY <1>1, <1>2 DEF ClaimsHold
  <1>13. VerdictsHold' BY <1>1, <1>2 DEF VerdictsHold, Vouched
  <1>14. SubjectTracked' BY <1>1, <1>2 DEF SubjectTracked
  <1>15. RepliesCounted' BY <1>1, <1>2 DEF RepliesCounted, Alive, Answered
  <1>16. QED BY <1>3, <1>4, <1>5, <1>6, <1>7, <1>8, <1>9, <1>10, <1>11, <1>12, <1>13, <1>14,
    <1>15

(* A new host process has nothing but the directory.                       *)
LEMMA RestartPreserves ==
  ASSUME HostInvariant, Restart
  PROVE  HostInvariant'
  <1> USE DEF HostInvariant
  <1>1. /\ pc' = "boot" /\ run' = run + 1 /\ run < MaxRuns /\ ident' \in {ident, run + 1}
        /\ effects' = 0 /\ pending' = Null /\ calling' = Null /\ verdict' = Null
        /\ results' = <<>> /\ final' = "none" /\ phase' = "ready" /\ fault' = FALSE /\ cancelled'
          = FALSE
        /\ claims' = {} /\ current' = {} /\ previous' = {} /\ before' = {}
        /\ UNCHANGED <<configs, context, transports, observations, server, exec, subject,
          started, replies>>
    BY DEF Restart, Forgets, Go, stateVars, worldVars
  <1>2. /\ Len(results') = 0 /\ DOMAIN results' = {} /\ results' \in Seq(Results)
        /\ verdict' # "executed" /\ 0 \in 0..Required + 1 /\ 0 <= Required
    BY <1>1, AbsenceAssumption, RequiredAssumption
  <1>3. run' \in HostRuns /\ ident' \in HostRuns /\ \A n \in HostRuns : n <= run => n < run'
    BY <1>1, BoundAssumption DEF TypeOK, HostRuns
  <1>4. \A a \in replies : a.run \in HostRuns BY DEF TypeOK, Replies
  <1>5. TypeOK' BY <1>1, <1>2, <1>3, <1>4 DEF TypeOK
  <1>6. RefusalIsTrue' BY <1>1, <1>2, <1>3, <1>4 DEF RefusalIsTrue
  <1>7. OneRunPerState' BY <1>1, <1>2, <1>3, <1>4 DEF OneRunPerState, Ended
  <1>8. EffectsCounted' BY <1>1, <1>2, <1>3, <1>4 DEF EffectsCounted, Waiting, Working
  <1>9. RunProgress' BY <1>1, <1>2, <1>3, <1>4 DEF RunProgress, Waiting, Working, Checking
  <1>10. OneServerWorks'
    BY <1>1, <1>2, <1>3, <1>4 DEF OneServerWorks, Alive, Serving, StartedKeys, ResultKeys
  <1>11. CallMatches' BY <1>1, <1>2, <1>3, <1>4 DEF CallMatches, Waiting, Checking, StartedKeys
  <1>12. ServerHonest' BY <1>1, <1>2, <1>3, <1>4 DEF ServerHonest, Vouched
  <1>13. StartsKnown' BY <1>1, <1>2, <1>3, <1>4 DEF StartsKnown, Alive, StartedKeys, ResultKeys
  <1>14. ClaimsHold' BY <1>1, <1>2, <1>3, <1>4 DEF ClaimsHold
  <1>15. VerdictsHold' BY <1>1, <1>2, <1>3, <1>4 DEF VerdictsHold, Vouched
  <1>16. SubjectTracked' BY <1>1, <1>2, <1>3, <1>4 DEF SubjectTracked
  <1>17. RepliesCounted'
    <2>1. \A a \in replies : a.run < run'
      BY <1>3, <1>4 DEF RepliesCounted
    <2>2. \A a \in replies : a.run <= run' BY <1>3, <1>4, <2>1 DEF HostRuns
    <2>3. ~Alive' BY <1>1 DEF Alive
    <2>4. QED BY <1>1, <2>1, <2>2, <2>3 DEF RepliesCounted
  <1>18. QED BY <1>5, <1>6, <1>7, <1>8, <1>9, <1>10, <1>11, <1>12, <1>13, <1>14, <1>15, <1>16,
    <1>17

----------------------------------------------------------------------------
(* The effect servers.                                                     *)

(* The server starts the effect of its context, which never ran before.    *)
LEMMA ServerReadsPreserves ==
  ASSUME HostInvariant, NEW r \in HostRuns, ServerReads(r), context.arg = server[r].key.arg
  PROVE  HostInvariant'
  <1> USE DEF HostInvariant
  <1>1. /\ server[r].at = "called" /\ context # Null
        /\ server' = [server EXCEPT ![r] = [at |-> "running", key |-> context, ok |-> FALSE]]
        /\ exec' = [k \in DOMAIN exec \cup {context} |-> IF k \in DOMAIN exec THEN exec[k] ELSE
          Unlaunched]
        /\ started' = Append(started, [run |-> r, key |-> context])
        /\ UNCHANGED <<pc, phase, fault, cancelled, claims, effects, pending, calling, verdict,
          results, final, configs, context, transports, observations, subject, current, previous,
          before, run, ident, replies>>
    BY DEF ServerReads, Becomes, ServerOnly, talkVars, engineVars, seenVars, runVars, stateVars
  <1>2. /\ context \in Keys /\ context \notin StartedKeys /\ Serving(r) /\ (Alive => r = run)
        /\ \A i \in DOMAIN started : started[i].run = r
        /\ Alive => context \in ResultKeys \cup {calling}
        /\ server[r].key = context
        /\ \A a \in replies : a.run = r /\ a.key = context => a.text # "not_dispatched"
    BY <1>1 DEF OneServerWorks, Serving, TypeOK
  <1>3. /\ [at |-> "running", key |-> context, ok |-> FALSE] \in Servers
        /\ \A s \in HostRuns : server'[s] =
             IF s = r THEN [at |-> "running", key |-> context, ok |-> FALSE] ELSE server[s]
    BY <1>1, <1>2 DEF Servers, TypeOK
  <1>4. /\ DOMAIN exec' = DOMAIN exec \cup {context} /\ context \notin DOMAIN exec
        /\ exec'[context] = Unlaunched /\ \A k \in DOMAIN exec : exec'[k] = exec[k]
    BY <1>1, <1>2 DEF StartsKnown
  <1>5. exec' \in [DOMAIN exec' -> Executions]
    BY <1>1, <1>4, UnlaunchedKept DEF TypeOK
  <1>6. [run |-> r, key |-> context] \in [run : HostRuns, key : Keys]
        /\ started \in Seq([run : HostRuns, key : Keys])
    BY <1>2 DEF TypeOK
  <1>7. /\ started' \in Seq([run : HostRuns, key : Keys]) /\ Len(started') = Len(started) + 1
        /\ \A i \in 1..Len(started) : started'[i] = started[i]
        /\ started'[Len(started) + 1] = [run |-> r, key |-> context]
        /\ DOMAIN started = 1..Len(started) /\ DOMAIN started' = 1..Len(started) + 1
        /\ Len(started) \in Nat
    BY <1>1, <1>6
  <1>8. /\ \A i \in DOMAIN started' : started'[i] =
             IF i \in DOMAIN started THEN started[i] ELSE [run |-> r, key |-> context]
        /\ DOMAIN started \subseteq DOMAIN started' /\ started' # <<>>
    BY <1>7
  <1>9. StartedKeys' = StartedKeys \cup {context}
    <2>1. \A i \in DOMAIN started' :
            started'[i].key = IF i \in DOMAIN started THEN started[i].key ELSE context
      BY <1>8
    <2>2. Len(started) + 1 \in DOMAIN started' /\ Len(started) + 1 \notin DOMAIN started BY <1>7
    <2>3. QED BY <1>8, <2>1, <2>2 DEF StartedKeys
  <1>10. TypeOK' BY <1>1, <1>2, <1>3, <1>4, <1>5, <1>6, <1>7, <1>8, <1>9 DEF TypeOK
  <1>11. RefusalIsTrue'
    <2> SUFFICES ASSUME NEW a \in replies, a.text = "not_dispatched", NEW i \in DOMAIN started',
                        started'[i] = [run |-> a.run, key |-> a.key]
                 PROVE  FALSE
      BY <1>1 DEF RefusalIsTrue
    <2>1. CASE i \in DOMAIN started BY <1>8, <2>1 DEF RefusalIsTrue
    <2>2. CASE i \notin DOMAIN started BY <1>2, <1>8, <2>2
    <2>3. QED BY <2>1, <2>2
  <1>12. OneRunPerState'
    <2>1. \A i \in DOMAIN started' : started'[i].run = r BY <1>2, <1>8
    <2>2. QED BY <1>1, <1>2, <2>1 DEF OneRunPerState, Ended, Alive
  <1>13. EffectsCounted'
    BY <1>1, <1>2, <1>3, <1>4, <1>5, <1>6, <1>7, <1>8, <1>9 DEF EffectsCounted, Waiting, Working
  <1>14. RunProgress'
    BY <1>1, <1>2, <1>3, <1>4, <1>5, <1>6, <1>7, <1>8, <1>9 DEF RunProgress, Waiting, Working,
      Checking
  <1>15. OneServerWorks'
    BY <1>1, <1>2, <1>3, <1>4, <1>5, <1>6, <1>7, <1>8, <1>9 DEF OneServerWorks, Alive, Serving,
      StartedKeys, ResultKeys
  <1>16. CallMatches'
    <2>1. server[r].at = "called" BY <1>1
    <2>2. pc # "call" BY <1>2, <2>1 DEF CallMatches, Alive
    <2>3. server[run].at \in {"idle", "dead"} => server'[run] = server[run]
      BY <1>3, <2>1 DEF TypeOK
    <2>4. pc = "called" => r = run BY <1>2 DEF Alive
    <2>5. pc = "called" => server'[run].key = calling /\ server'[run].at = "running"
      BY <1>2, <1>3, <2>4 DEF CallMatches
    <2>6. QED BY <1>1, <2>2, <2>3, <2>5 DEF CallMatches, Waiting, Checking
  <1>17. ServerHonest'
    BY <1>1, <1>2, <1>3, <1>4, <1>5, <1>6, <1>7, <1>8, <1>9 DEF ServerHonest, Vouched
  <1>18. StartsKnown'
    <2>1. \A i \in DOMAIN started : started[i].key \in StartedKeys BY DEF StartedKeys
    <2>2. \A i, j \in DOMAIN started' : started'[i].key = started'[j].key => i = j
      <3>1. \A i \in DOMAIN started' :
              started'[i].key = IF i \in DOMAIN started THEN started[i].key ELSE context
        BY <1>8
      <3>2. \A i \in DOMAIN started' : i \notin DOMAIN started => i = Len(started) + 1
        BY <1>7
      <3>3. QED BY <1>2, <2>1, <3>1, <3>2 DEF StartsKnown
    <2>3. \A i \in DOMAIN started' : started'[i].run = r BY <1>2, <1>8
    <2>4. Alive' = Alive /\ ResultKeys' = ResultKeys BY <1>1 DEF Alive, ResultKeys
    <2>5. QED BY <1>1, <1>2, <1>4, <1>8, <1>9, <2>2, <2>3, <2>4 DEF StartsKnown
  <1>19. ClaimsHold'
    BY <1>1, <1>4, UnlaunchedKept DEF ClaimsHold
  <1>20. VerdictsHold'
    BY <1>1, <1>2, <1>3, <1>4, <1>5, <1>6, <1>7, <1>8, <1>9 DEF VerdictsHold, Vouched
  <1>21. SubjectTracked'
    BY <1>1, <1>2, <1>3, <1>4, <1>5, <1>6, <1>7, <1>8, <1>9 DEF SubjectTracked
  <1>22. RepliesCounted'
    BY <1>1, <1>2, <1>3, <1>4, <1>5, <1>6, <1>7, <1>8, <1>9 DEF RepliesCounted, Alive, Answered
  <1>23. QED BY <1>10, <1>11, <1>12, <1>13, <1>14, <1>15, <1>16, <1>17, <1>18, <1>19, <1>20,
    <1>21, <1>22

LEMMA ServerRefusesPreserves ==
  ASSUME HostInvariant, NEW r \in HostRuns, ServerReads(r), context.arg # server[r].key.arg
  PROVE  HostInvariant'
  <1> USE DEF HostInvariant
  <1>1. /\ server[r].at = "called" /\ server' = [server EXCEPT ![r].at = "answered"]
        /\ UNCHANGED <<pc, phase, fault, cancelled, claims, effects, pending, calling, verdict,
          results, final, configs, context, transports, observations, exec, subject, started,
          current, previous, before, run, ident, replies>>
    BY DEF ServerReads, Becomes, ServerOnly, talkVars, engineVars, seenVars, runVars, stateVars
  <1>2. /\ [server[r] EXCEPT !.at = "answered"] \in Servers
        /\ \A s \in HostRuns : server'[s] = IF s = r THEN [server[r] EXCEPT !.at = "answered"] ELSE server[s]
    BY <1>1 DEF Servers, TypeOK
  <1>3. server'[r].at = "answered" /\ server'[r].key = server[r].key /\ ~server'[r].ok
    BY <1>1, <1>2 DEF OneServerWorks, Servers, TypeOK
  <1>4. TypeOK' BY <1>1, <1>2, <1>3 DEF TypeOK
  <1>5. RefusalIsTrue' BY <1>1, <1>2, <1>3 DEF RefusalIsTrue
  <1>6. OneRunPerState' BY <1>1, <1>2, <1>3 DEF OneRunPerState, Ended
  <1>7. EffectsCounted' BY <1>1, <1>2, <1>3 DEF EffectsCounted, Waiting, Working
  <1>8. RunProgress' BY <1>1, <1>2, <1>3 DEF RunProgress, Waiting, Working, Checking
  <1>9. OneServerWorks'
    BY <1>1, <1>2, <1>3 DEF OneServerWorks, Alive, Serving, StartedKeys, ResultKeys
  <1>10. CallMatches' BY <1>1, <1>2, <1>3 DEF CallMatches, Waiting, Checking, StartedKeys
  <1>11. ServerHonest' BY <1>1, <1>2, <1>3 DEF ServerHonest, Vouched
  <1>12. StartsKnown'
    BY <1>1 DEF StartsKnown, Alive, StartedKeys, ResultKeys
  <1>13. ClaimsHold' BY <1>1, <1>2, <1>3 DEF ClaimsHold
  <1>14. VerdictsHold' BY <1>1, <1>2, <1>3 DEF VerdictsHold, Vouched
  <1>15. SubjectTracked' BY <1>1, <1>2, <1>3 DEF SubjectTracked
  <1>16. RepliesCounted' BY <1>1, <1>2, <1>3 DEF RepliesCounted, Alive, Answered
  <1>17. QED BY <1>4, <1>5, <1>6, <1>7, <1>8, <1>9, <1>10, <1>11, <1>12, <1>13, <1>14, <1>15,
    <1>16

LEMMA ServerDiesPreserves ==
  ASSUME HostInvariant, NEW r \in HostRuns, ServerDies(r)
  PROVE  HostInvariant'
  <1> USE DEF HostInvariant
  <1>1. /\ server' = [server EXCEPT ![r].at = "dead"]
        /\ server[r].at \notin {"absent", "dead"}
        /\ UNCHANGED <<pc, phase, fault, cancelled, claims, effects, pending, calling, verdict,
          results, final, configs, context, transports, observations, exec, subject, started,
          current, previous, before, run, ident, replies>>
    BY DEF ServerDies, Becomes, ServerOnly, talkVars, engineVars, seenVars, runVars, stateVars
  <1>2. /\ [server[r] EXCEPT !.at = "dead"] \in Servers
        /\ \A s \in HostRuns : server'[s] = IF s = r THEN [server[r] EXCEPT !.at = "dead"] ELSE server[s]
    BY <1>1 DEF Servers, TypeOK
  <1>3. server'[r].at = "dead" /\ server'[r].key = server[r].key
    BY <1>1, <1>2 DEF Servers, TypeOK
  <1>4. TypeOK' BY <1>1, <1>2, <1>3 DEF TypeOK
  <1>5. RefusalIsTrue' BY <1>1, <1>2, <1>3 DEF RefusalIsTrue
  <1>6. OneRunPerState' BY <1>1, <1>2, <1>3 DEF OneRunPerState, Ended
  <1>7. EffectsCounted' BY <1>1, <1>2, <1>3 DEF EffectsCounted, Waiting, Working
  <1>8. RunProgress' BY <1>1, <1>2, <1>3 DEF RunProgress, Waiting, Working, Checking
  <1>9. OneServerWorks'
    BY <1>1, <1>2, <1>3 DEF OneServerWorks, Alive, Serving, StartedKeys, ResultKeys
  <1>10. CallMatches' BY <1>1, <1>2, <1>3 DEF CallMatches, Waiting, Checking, StartedKeys
  <1>11. ServerHonest' BY <1>1, <1>2, <1>3 DEF ServerHonest, Vouched
  <1>12. StartsKnown'
    BY <1>1 DEF StartsKnown, Alive, StartedKeys, ResultKeys
  <1>13. ClaimsHold' BY <1>1, <1>2, <1>3 DEF ClaimsHold
  <1>14. VerdictsHold' BY <1>1, <1>2, <1>3 DEF VerdictsHold, Vouched
  <1>15. SubjectTracked' BY <1>1, <1>2, <1>3 DEF SubjectTracked
  <1>16. RepliesCounted' BY <1>1, <1>2, <1>3 DEF RepliesCounted, Alive, Answered
  <1>17. QED BY <1>4, <1>5, <1>6, <1>7, <1>8, <1>9, <1>10, <1>11, <1>12, <1>13, <1>14, <1>15,
    <1>16

LEMMA ServerCapturesPreserves ==
  ASSUME HostInvariant, NEW r \in HostRuns, ServerCaptures(r)
  PROVE  HostInvariant'
  <1> USE DEF HostInvariant
  <1>1. /\ server[r].at = "running"
        /\ UNCHANGED <<pc, phase, fault, cancelled, claims, effects, pending, calling, verdict,
          results, final, configs, context, transports, observations, exec, subject, started,
          current, previous, before, run, ident, replies>>
    BY DEF ServerCaptures, Becomes, ServerOnly, talkVars, engineVars, seenVars, runVars,
      stateVars
  <1>2. PICK ok \in BOOLEAN :
          /\ ok => exec[server[r].key].claim # Null
          /\ server' = [server EXCEPT ![r] = [at |-> "captured", key |-> server[r].key, ok |-> ok]]
    BY DEF ServerCaptures, Becomes
  <1>3. server[r] \in Servers BY DEF TypeOK
  <1>4. /\ [at |-> "captured", key |-> server[r].key, ok |-> ok] \in Servers
        /\ \A s \in HostRuns : server'[s] =
             IF s = r THEN [at |-> "captured", key |-> server[r].key, ok |-> ok] ELSE server[s]
    BY <1>2, <1>3 DEF Servers, TypeOK
  <1>5. TypeOK' BY <1>1, <1>2, <1>3, <1>4 DEF TypeOK
  <1>6. RefusalIsTrue' BY <1>1, <1>2, <1>3, <1>4 DEF RefusalIsTrue
  <1>7. OneRunPerState' BY <1>1, <1>2, <1>3, <1>4 DEF OneRunPerState, Ended
  <1>8. EffectsCounted' BY <1>1, <1>2, <1>3, <1>4 DEF EffectsCounted, Waiting, Working
  <1>9. RunProgress' BY <1>1, <1>2, <1>3, <1>4 DEF RunProgress, Waiting, Working, Checking
  <1>10. OneServerWorks'
    BY <1>1, <1>2, <1>3, <1>4 DEF OneServerWorks, Alive, Serving, StartedKeys, ResultKeys
  <1>11. CallMatches' BY <1>1, <1>2, <1>3, <1>4 DEF CallMatches, Waiting, Checking, StartedKeys
  <1>12. ServerHonest' BY <1>1, <1>2, <1>3, <1>4 DEF ServerHonest, Vouched
  <1>13. StartsKnown'
    BY <1>1 DEF StartsKnown, Alive, StartedKeys, ResultKeys
  <1>14. ClaimsHold' BY <1>1, <1>2, <1>3, <1>4 DEF ClaimsHold
  <1>15. VerdictsHold' BY <1>1, <1>2, <1>3, <1>4 DEF VerdictsHold, Vouched
  <1>16. SubjectTracked' BY <1>1, <1>2, <1>3, <1>4 DEF SubjectTracked
  <1>17. RepliesCounted' BY <1>1, <1>2, <1>3, <1>4 DEF RepliesCounted, Alive, Answered
  <1>18. QED BY <1>5, <1>6, <1>7, <1>8, <1>9, <1>10, <1>11, <1>12, <1>13, <1>14, <1>15, <1>16,
    <1>17

LEMMA ServerRetainsPreserves ==
  ASSUME HostInvariant, NEW r \in HostRuns, ServerRetains(r)
  PROVE  HostInvariant'
  <1> USE DEF HostInvariant
  <1>1. /\ server[r].at = "captured"
        /\ transports' = transports \cup {server[r].key}
        /\ UNCHANGED <<pc, phase, fault, cancelled, claims, effects, pending, calling, verdict,
          results, final, configs, context, observations, exec, subject, started, current,
          previous, before, run, ident, replies>>
    BY DEF ServerRetains, Becomes, ServerOnly, talkVars, engineVars, seenVars, runVars, stateVars
  <1>2. server[r].key \in Keys BY <1>1 DEF ServerHonest, TypeOK
  <1>3. PICK kept \in BOOLEAN :
          /\ kept => server[r].ok
          /\ server' = [server EXCEPT ![r] = [at |-> IF kept THEN "kept" ELSE "answered", key |-> server[r].key, ok |-> kept]]
    BY DEF ServerRetains, Becomes, Servers, TypeOK
  <1>4. server[r] \in Servers BY DEF TypeOK
  <1>5. PICK at \in {"kept", "answered"} :
          /\ [at |-> at, key |-> server[r].key, ok |-> kept] \in Servers
          /\ \A s \in HostRuns : server'[s] =
               IF s = r THEN [at |-> at, key |-> server[r].key, ok |-> kept] ELSE server[s]
          /\ at = "kept" <=> kept
    BY <1>3, <1>4 DEF Servers, TypeOK
  <1>6. TypeOK' BY <1>1, <1>2, <1>3, <1>4, <1>5 DEF TypeOK
  <1>7. RefusalIsTrue' BY <1>1, <1>2, <1>3, <1>4, <1>5 DEF RefusalIsTrue
  <1>8. OneRunPerState' BY <1>1, <1>2, <1>3, <1>4, <1>5 DEF OneRunPerState, Ended
  <1>9. EffectsCounted' BY <1>1, <1>2, <1>3, <1>4, <1>5 DEF EffectsCounted, Waiting, Working
  <1>10. RunProgress' BY <1>1, <1>2, <1>3, <1>4, <1>5 DEF RunProgress, Waiting, Working, Checking
  <1>11. OneServerWorks'
    BY <1>1, <1>2, <1>3, <1>4, <1>5 DEF OneServerWorks, Alive, Serving, StartedKeys, ResultKeys
  <1>12. CallMatches'
    BY <1>1, <1>2, <1>3, <1>4, <1>5 DEF CallMatches, Waiting, Checking, StartedKeys
  <1>13. ServerHonest' BY <1>1, <1>2, <1>3, <1>4, <1>5 DEF ServerHonest, Vouched
  <1>14. StartsKnown'
    BY <1>1 DEF StartsKnown, Alive, StartedKeys, ResultKeys
  <1>15. ClaimsHold' BY <1>1, <1>2, <1>3, <1>4, <1>5 DEF ClaimsHold
  <1>16. VerdictsHold' BY <1>1, <1>2, <1>3, <1>4, <1>5 DEF VerdictsHold, Vouched
  <1>17. SubjectTracked' BY <1>1, <1>2, <1>3, <1>4, <1>5 DEF SubjectTracked
  <1>18. RepliesCounted' BY <1>1, <1>2, <1>3, <1>4, <1>5 DEF RepliesCounted, Alive, Answered
  <1>19. QED BY <1>6, <1>7, <1>8, <1>9, <1>10, <1>11, <1>12, <1>13, <1>14, <1>15, <1>16, <1>17,
    <1>18

LEMMA ServerAnswersPreserves ==
  ASSUME HostInvariant, NEW r \in HostRuns, ServerAnswers(r)
  PROVE  HostInvariant'
  <1> USE DEF HostInvariant
  <1>1. /\ server[r].at = "kept"
        /\ observations' = observations \cup {server[r].key}
        /\ server' = [server EXCEPT ![r] = [at |-> "answered", key |-> server[r].key, ok |->
          Succeeded(exec[server[r].key].claim)]]
        /\ UNCHANGED <<pc, phase, fault, cancelled, claims, effects, pending, calling, verdict,
          results, final, configs, context, transports, exec, subject, started, current,
          previous, before, run, ident, replies>>
    BY DEF ServerAnswers, Becomes, ServerOnly, talkVars, engineVars, seenVars, runVars, stateVars
  <1>2. server[r].key \in Keys BY <1>1 DEF ServerHonest, TypeOK
  <1>3. PICK ok \in BOOLEAN : ok = Succeeded(exec[server[r].key].claim)
    BY DEF Succeeded
  <1>4. server[r] \in Servers BY DEF TypeOK
  <1>5. /\ [at |-> "answered", key |-> server[r].key, ok |-> ok] \in Servers
        /\ \A s \in HostRuns : server'[s] =
             IF s = r THEN [at |-> "answered", key |-> server[r].key, ok |-> ok] ELSE server[s]
    BY <1>1, <1>3, <1>4 DEF Servers, TypeOK
  <1>6. ok => Vouched(server[r].key) BY <1>1, <1>3 DEF ServerHonest, Vouched
  <1>7. TypeOK' BY <1>1, <1>2, <1>3, <1>4, <1>5, <1>6 DEF TypeOK
  <1>8. RefusalIsTrue' BY <1>1, <1>2, <1>3, <1>4, <1>5, <1>6 DEF RefusalIsTrue
  <1>9. OneRunPerState' BY <1>1, <1>2, <1>3, <1>4, <1>5, <1>6 DEF OneRunPerState, Ended
  <1>10. EffectsCounted'
    BY <1>1, <1>2, <1>3, <1>4, <1>5, <1>6 DEF EffectsCounted, Waiting, Working
  <1>11. RunProgress'
    BY <1>1, <1>2, <1>3, <1>4, <1>5, <1>6 DEF RunProgress, Waiting, Working, Checking
  <1>12. OneServerWorks'
    BY <1>1, <1>2, <1>3, <1>4, <1>5, <1>6 DEF OneServerWorks, Alive, Serving, StartedKeys,
      ResultKeys
  <1>13. CallMatches'
    BY <1>1, <1>2, <1>3, <1>4, <1>5, <1>6 DEF CallMatches, Waiting, Checking, StartedKeys
  <1>14. ServerHonest' BY <1>1, <1>2, <1>3, <1>4, <1>5, <1>6 DEF ServerHonest, Vouched
  <1>15. StartsKnown'
    BY <1>1 DEF StartsKnown, Alive, StartedKeys, ResultKeys
  <1>16. ClaimsHold' BY <1>1, <1>2, <1>3, <1>4, <1>5, <1>6 DEF ClaimsHold
  <1>17. VerdictsHold' BY <1>1, <1>2, <1>3, <1>4, <1>5, <1>6 DEF VerdictsHold, Vouched
  <1>18. SubjectTracked' BY <1>1, <1>2, <1>3, <1>4, <1>5, <1>6 DEF SubjectTracked
  <1>19. RepliesCounted' BY <1>1, <1>2, <1>3, <1>4, <1>5, <1>6 DEF RepliesCounted, Alive, Answered
  <1>20. QED BY <1>7, <1>8, <1>9, <1>10, <1>11, <1>12, <1>13, <1>14, <1>15, <1>16, <1>17, <1>18,
    <1>19

----------------------------------------------------------------------------
(* The sandbox executions.                                                 *)

(* The daemon, the workload and the adapter make the steps of the promise. *)
LEMMA SandboxMovesPreserves ==
  ASSUME HostInvariant, NEW k \in DOMAIN exec, SandboxMoves(k) \/ AdapterClaims(k)
  PROVE  HostInvariant'
  <1> USE DEF HostInvariant
  <1>1. /\ DOMAIN exec' = DOMAIN exec
        /\ \A j \in DOMAIN exec : j # k => exec'[j] = exec[j]
        /\ UNCHANGED <<pc, phase, fault, cancelled, claims, effects, pending, calling, verdict,
          results, final, configs, context, transports, observations, server, subject, started,
          current, previous, before, run, ident, replies>>
    BY DEF SandboxMoves, AdapterClaims, ServerOnly, talkVars, engineVars, seenVars, runVars,
      stateVars
  <1>2. /\ exec' \in [DOMAIN exec' -> Executions]
        /\ Kept(exec'[k]) /\ (exec'[k].exit = 0 => k \in subject)
        /\ exec[k].claim # Null => exec'[k].claim = exec[k].claim
    <2>1. exec \in [DOMAIN exec -> Executions] /\ exec[k] \in Executions /\ Kept(exec[k])
      BY DEF TypeOK, ClaimsHold
    <2>2. CASE SandboxMoves(k)
      <3>1. PICK x \in SandboxSteps(exec[k]) :
              (x.exit = 0 => k \in subject) /\ exec' = [exec EXCEPT ![k] = x]
        BY <2>2 DEF SandboxMoves
      <3>2. x \in Executions /\ Kept(x) /\ x.claim = exec[k].claim BY <2>1, StepsKeepClaim
      <3>3. QED BY <2>1, <3>1, <3>2
    <2>3. CASE AdapterClaims(k)
      <3>1. exec[k].claim = Null BY <2>3 DEF AdapterClaims
      <3>2. PICK o \in Observations : MayClaim(exec[k], o) /\ exec' = [exec EXCEPT ![k].claim = o]
        BY <2>3 DEF AdapterClaims
      <3> DEFINE x == [exec[k] EXCEPT !.claim = o]
      <3>3. x \in Executions /\ Kept(x) /\ x.exit = exec[k].exit BY <2>1, <3>2, ClaimKept
      <3>4. exec' = [exec EXCEPT ![k] = x] BY <3>2
      <3> HIDE DEF x
      <3>5. QED BY <2>1, <3>1, <3>3, <3>4 DEF ClaimsHold
    <2>4. QED BY <2>2, <2>3
  <1>3. \A j : Vouched(j) => Vouched(j)' BY <1>1, <1>2 DEF Vouched
  <1>4. TypeOK' BY <1>1, <1>2, <1>3 DEF TypeOK
  <1>5. RefusalIsTrue' BY <1>1, <1>2, <1>3 DEF RefusalIsTrue
  <1>6. OneRunPerState' BY <1>1, <1>2, <1>3 DEF OneRunPerState, Ended
  <1>7. EffectsCounted' BY <1>1, <1>2, <1>3 DEF EffectsCounted, Waiting, Working
  <1>8. RunProgress' BY <1>1, <1>2, <1>3 DEF RunProgress, Waiting, Working, Checking
  <1>9. OneServerWorks'
    BY <1>1, <1>2, <1>3 DEF OneServerWorks, Alive, Serving, StartedKeys, ResultKeys
  <1>10. CallMatches' BY <1>1, <1>2, <1>3 DEF CallMatches, Waiting, Checking, StartedKeys
  <1>11. ServerHonest'
    BY <1>1, <1>2, <1>3 DEF ServerHonest
  <1>12. StartsKnown'
    BY <1>1 DEF StartsKnown, Alive, StartedKeys, ResultKeys
  <1>13. ClaimsHold'
    BY <1>1, <1>2 DEF ClaimsHold
  <1>14. VerdictsHold'
    BY <1>1, <1>3 DEF VerdictsHold
  <1>15. SubjectTracked' BY <1>1, <1>2, <1>3 DEF SubjectTracked
  <1>16. RepliesCounted' BY <1>1, <1>2, <1>3 DEF RepliesCounted, Alive, Answered
  <1>17. QED BY <1>4, <1>5, <1>6, <1>7, <1>8, <1>9, <1>10, <1>11, <1>12, <1>13, <1>14, <1>15,
    <1>16

(* A workload that writes is one that nobody vouched for yet.              *)
LEMMA WorkloadWritesPreserves ==
  ASSUME HostInvariant, NEW k \in DOMAIN exec, WorkloadWrites(k)
  PROVE  HostInvariant'
  <1> USE DEF HostInvariant
  <1>1. /\ subject' = subject \cup {k} /\ exec[k].box = "held" /\ k \in Keys
        /\ UNCHANGED <<pc, phase, fault, cancelled, claims, effects, pending, calling, verdict,
          results, final, configs, context, transports, observations, server, exec, started,
          current, previous, before, run, ident, replies>>
    BY DEF WorkloadWrites, talkVars, engineVars, seenVars, runVars, stateVars, TypeOK
  <1>2. ~Vouched(k) BY <1>1, VouchedIsOver
  <1>3. ~(pc = "claim" \/ final = "completed")
    <2>1. SUFFICES ASSUME pc = "claim" \/ final = "completed" PROVE FALSE OBVIOUS
    <2>2. calling = Null /\ Alive BY <2>1 DEF EffectsCounted, Working, RunProgress, Alive
    <2>3. k \in ResultKeys \cup {Null} BY <2>2 DEF StartsKnown
    <2>4. k # Null BY <1>1, AbsenceAssumption
    <2>5. PICK i \in DOMAIN results : results[i].key = k BY <2>3, <2>4 DEF ResultKeys
    <2>6. results[i].status = "executed" BY <2>1 DEF RunProgress, Checking
    <2>7. QED BY <1>2, <2>5, <2>6 DEF VerdictsHold
  <1>4. TypeOK' BY <1>1, <1>2, <1>3 DEF TypeOK
  <1>5. RefusalIsTrue' BY <1>1, <1>2, <1>3 DEF RefusalIsTrue
  <1>6. OneRunPerState' BY <1>1, <1>2, <1>3 DEF OneRunPerState, Ended
  <1>7. EffectsCounted' BY <1>1, <1>2, <1>3 DEF EffectsCounted, Waiting, Working
  <1>8. RunProgress' BY <1>1, <1>2, <1>3 DEF RunProgress, Waiting, Working, Checking
  <1>9. OneServerWorks'
    BY <1>1, <1>2, <1>3 DEF OneServerWorks, Alive, Serving, StartedKeys, ResultKeys
  <1>10. CallMatches' BY <1>1, <1>2, <1>3 DEF CallMatches, Waiting, Checking, StartedKeys
  <1>11. ServerHonest' BY <1>1, <1>2, <1>3 DEF ServerHonest, Vouched
  <1>12. StartsKnown' BY <1>1, <1>2, <1>3 DEF StartsKnown, Alive, StartedKeys, ResultKeys
  <1>13. ClaimsHold' BY <1>1, <1>2, <1>3 DEF ClaimsHold
  <1>14. VerdictsHold' BY <1>1, <1>2, <1>3 DEF VerdictsHold, Vouched
  <1>15. SubjectTracked' BY <1>1, <1>2, <1>3 DEF SubjectTracked
  <1>16. RepliesCounted' BY <1>1, <1>2, <1>3 DEF RepliesCounted, Alive, Answered
  <1>17. QED BY <1>4, <1>5, <1>6, <1>7, <1>8, <1>9, <1>10, <1>11, <1>12, <1>13, <1>14, <1>15,
    <1>16

----------------------------------------------------------------------------
(* Every behaviour.                                                        *)

LEMMA InitHost == Init => HostInvariant
  <1> SUFFICES ASSUME Init PROVE HostInvariant OBVIOUS
  <1> USE DEF Init
  <1>1. /\ DOMAIN results = {} /\ Len(results) = 0 /\ results \in Seq(Results)
        /\ DOMAIN started = {} /\ started \in Seq([run : HostRuns, key : Keys]) /\ started = <<>>
        /\ DOMAIN exec = {} /\ exec \in [DOMAIN exec -> Executions]
        /\ StartedKeys = {} /\ verdict # "executed"
    BY AbsenceAssumption DEF StartedKeys
  <1>2. /\ NoServer = [at |-> "absent", key |-> Null, ok |-> FALSE] /\ NoServer \in Servers
        /\ \A r \in HostRuns : server[r].at = "absent"
    BY DEF NoServer, Servers
  <1>3. server \in [HostRuns -> Servers] BY <1>2
  <1>4. 1 \in HostRuns /\ 0 \in 0..Required + 1 /\ 0 <= Required
    BY BoundAssumption, RequiredAssumption DEF HostRuns
  <1>5. TypeOK BY <1>1, <1>3, <1>4 DEF TypeOK
  <1>6. RefusalIsTrue /\ OneRunPerState BY <1>1 DEF RefusalIsTrue, OneRunPerState
  <1>7. EffectsCounted /\ RunProgress
    BY <1>1, <1>4 DEF EffectsCounted, RunProgress, Waiting, Working, Checking
  <1>8. OneServerWorks /\ ServerHonest
    BY <1>2 DEF OneServerWorks, ServerHonest, Serving
  <1>9. CallMatches BY <1>1 DEF CallMatches, Waiting, Checking
  <1>10. StartsKnown BY <1>1 DEF StartsKnown, Alive
  <1>11. ClaimsHold /\ VerdictsHold BY <1>1 DEF ClaimsHold, VerdictsHold
  <1>12. SubjectTracked /\ RepliesCounted BY <1>1 DEF SubjectTracked, RepliesCounted, Alive
  <1>13. QED BY <1>5, <1>6, <1>7, <1>8, <1>9, <1>10, <1>11, <1>12 DEF HostInvariant

LEMMA HostPreserves == ASSUME HostInvariant, Host PROVE HostInvariant'
  <1>1. CASE Boot \/ BootRefuses BY <1>1, BootPreserves, BootRefusesPreserves
  <1>2. CASE Plan \/ ClaimDispatch \/ PrepareConfig BY <1>2, StopPreserves, AdvancePreserves
  <1>3. CASE NextFails \/ TurnIncomplete \/ GateStops \/ VerifyFails \/ ClaimFails
    BY <1>3, StopPreserves
  <1>4. CASE GateAdmits
    <2>1. pc' # "finish" BY <1>4 DEF GateAdmits, Go
    <2>2. QED BY <1>4, <2>1, AdvancePreserves
  <1>5. CASE TurnFinished \/ VerifyBegins \/ VerifyPasses \/ Completes BY <1>5, CheckPreserves
  <1>6. CASE Accept BY <1>6, AcceptPreserves
  <1>7. CASE PrepareContext \/ PrepareFails
    BY <1>7, PrepareContextPreserves, PrepareFailsPreserves
  <1>8. CASE CallRefused \/ CallLost \/ ReadTransport \/ Observe BY <1>8, VerdictPreserves
  <1>9. CASE Call \/ CallReturns BY <1>9, CallPreserves, CallReturnsPreserves
  <1>10. CASE Answer \/ Close BY <1>10, AnswerPreserves, ClosePreserves
  <1>11. QED
    BY <1>1, <1>2, <1>3, <1>4, <1>5, <1>6, <1>7, <1>8, <1>9, <1>10 DEF Host

LEMMA SandboxPreserves == ASSUME HostInvariant, Sandbox PROVE HostInvariant'
  <1>1. CASE \E r \in HostRuns : ServerReads(r)
    BY <1>1, ServerReadsPreserves, ServerRefusesPreserves
  <1>2. CASE \E r \in HostRuns : ServerCaptures(r) \/ ServerRetains(r)
    BY <1>2, ServerCapturesPreserves, ServerRetainsPreserves
  <1>3. CASE \E r \in HostRuns : ServerAnswers(r) \/ ServerDies(r)
    BY <1>3, ServerAnswersPreserves, ServerDiesPreserves
  <1>4. CASE \E k \in DOMAIN exec : SandboxMoves(k) \/ AdapterClaims(k) \/ WorkloadWrites(k)
    BY <1>4, SandboxMovesPreserves, WorkloadWritesPreserves
  <1>5. QED BY <1>1, <1>2, <1>3, <1>4 DEF Sandbox

LEMMA NextHost == HostInvariant /\ [Next]_vars => HostInvariant'
  <1> SUFFICES ASSUME HostInvariant, [Next]_vars PROVE HostInvariant' OBVIOUS
  <1>1. CASE Next
    BY <1>1, HostPreserves, SandboxPreserves, FaultPreserves, StrayWritePreserves, CrashPreserves,
       RestartPreserves DEF Next
  <1>2. CASE UNCHANGED vars
    <2>1. UNCHANGED <<pc, phase, fault, cancelled, claims, effects, pending, calling, verdict,
                      results, final, configs, context, transports, observations, server, exec,
                      subject, started, current, previous, before, run, ident, replies>>
      BY <1>2 DEF vars, talkVars, engineVars, stateVars, worldVars, seenVars, runVars
    <2>2. TypeOK' BY <2>1 DEF HostInvariant, TypeOK
    <2>3. RefusalIsTrue' /\ OneRunPerState' /\ EffectsCounted' /\ RunProgress'
      BY <2>1 DEF HostInvariant, RefusalIsTrue, OneRunPerState, EffectsCounted, RunProgress, Ended,
                  Waiting, Working, Checking
    <2>4. OneServerWorks' /\ CallMatches' /\ ServerHonest' /\ StartsKnown'
      BY <2>1 DEF HostInvariant, OneServerWorks, CallMatches, ServerHonest, StartsKnown, Alive,
                  Serving, StartedKeys, ResultKeys, Vouched, Waiting, Checking
    <2>5. ClaimsHold' /\ VerdictsHold' /\ SubjectTracked' /\ RepliesCounted'
      BY <2>1 DEF HostInvariant, ClaimsHold, VerdictsHold, SubjectTracked, RepliesCounted, Vouched,
                  Alive, Answered
    <2>6. QED BY <2>2, <2>3, <2>4, <2>5 DEF HostInvariant
  <1>3. QED BY <1>1, <1>2

(* Whatever crashes, outlives its host or is answered late: the state of a *)
(* host and of its directory is sound, a refused proposal never ran, and   *)
(* the executions of a directory are those of one host process.            *)
THEOREM HostCorrect == Spec => []HostInvariant
  <1>1. QED BY InitHost, NextHost, PTL DEF Spec

(* An executed result is an execution that ran to exit 0, wrote the        *)
(* subject, was removed and can do nothing more.                           *)
THEOREM ExecutedCorrect == Spec => []ExecutedIsReal
  <1>1. HostInvariant => ExecutedIsReal
    <2> SUFFICES ASSUME HostInvariant, NEW i \in DOMAIN results, results[i].status = "executed"
                 PROVE  LET k == results[i].key
                        IN k \in DOMAIN exec /\ exec[k].ran = "done" /\ exec[k].exit = 0
                           /\ Settled(k) /\ k \in subject
      BY DEF ExecutedIsReal
    <2>1. Vouched(results[i].key) BY DEF HostInvariant, VerdictsHold
    <2>2. QED BY <2>1, VouchedIsOver DEF HostInvariant, Settled
  <1>2. QED BY <1>1, HostCorrect, PTL

(* From the first snapshot of the verifier on, every execution is settled: *)
(* each is one of the executed results.                                    *)
THEOREM NoWriterCorrect == Spec => []NoWriterAfterVerify
  <1>1. HostInvariant => NoWriterAfterVerify
    <2> SUFFICES ASSUME HostInvariant, pc \in {"verifying", "claim"} \/ final = "completed",
                        NEW k \in DOMAIN exec
                 PROVE  Settled(k)
      BY DEF NoWriterAfterVerify
    <2>1. calling = Null /\ Alive
      BY DEF HostInvariant, EffectsCounted, Working, RunProgress, Alive
    <2>2. k \in Keys BY DEF HostInvariant, TypeOK
    <2>3. k \in ResultKeys BY <2>1, <2>2, AbsenceAssumption DEF HostInvariant, StartsKnown
    <2>4. PICK i \in DOMAIN results : results[i].key = k BY <2>3 DEF ResultKeys
    <2>5. results[i].status = "executed" BY DEF HostInvariant, RunProgress, Checking
    <2>6. Vouched(k) BY <2>4, <2>5 DEF HostInvariant, VerdictsHold
    <2>7. QED BY <2>6, VouchedIsOver DEF HostInvariant, Settled
  <1>2. QED BY <1>1, HostCorrect, PTL

(* What a completed run leaves in the subject is what its executed effects *)
(* wrote, and nothing else but a stray change after the verification.      *)
THEOREM CompletedCorrect == Spec => []CompletedIsExact
  <1>1. HostInvariant => CompletedIsExact
    <2> SUFFICES ASSUME HostInvariant, final = "completed" PROVE CompletedIsExact
      BY DEF CompletedIsExact
    <2>1. Len(results) = Required /\ \A i \in DOMAIN results : results[i].status = "executed"
      BY DEF HostInvariant, RunProgress
    <2>2. before = current /\ subject \ {Stray} = current \ {Stray}
      BY DEF HostInvariant, SubjectTracked
    <2>3. \A i \in DOMAIN results : results[i].key \in current
      BY <2>1 DEF HostInvariant, VerdictsHold
    <2>4. QED BY <2>1, <2>2, <2>3 DEF CompletedIsExact
  <1>2. QED BY <1>1, HostCorrect, PTL

(* No effect is started twice, and the sandbox runs what its host waits    *)
(* for.                                                                    *)
THEOREM StartsCorrect == Spec => []StartsOnce
  <1>1. HostInvariant => StartsOnce
    BY DEF HostInvariant, StartsOnce, StartsKnown, CallMatches
  <1>2. QED BY <1>1, HostCorrect, PTL

(* The replies of a run are in bijection with the numbers of its effects.  *)
THEOREM AnswersCorrect == Spec => []AnsweredOnce
  <1>1. HostInvariant => AnsweredOnce
    <2> SUFFICES ASSUME HostInvariant PROVE AnsweredOnce OBVIOUS
    <2>1. \A a, b \in replies : a.run = b.run /\ a.key = b.key => a = b
      BY DEF HostInvariant, RepliesCounted
    <2>2. ASSUME pc = "closed" PROVE Cardinality({a \in replies : a.run = run}) = effects
      <3> DEFINE Mine == {a \in replies : a.run = run}
                 number == [a \in Mine |-> a.key.seq]
      <3>1. Alive /\ Answered = effects BY <2>2 DEF Alive, Answered
      <3>2. effects \in Nat BY DEF HostInvariant, TypeOK
      <3>3. \A a \in Mine : a.key.seq \in 1..effects
        BY <3>1, <3>2 DEF HostInvariant, RepliesCounted, TypeOK, Replies, Keys
      <3>4. number \in Bijection(Mine, 1..effects)
        <4>1. number \in [Mine -> 1..effects] BY <3>3
        <4>2. \A a, b \in Mine : number[a] = number[b] => a = b
          BY DEF HostInvariant, RepliesCounted
        <4>3. \A n \in 1..effects : \E a \in Mine : number[a] = n
          BY <3>1 DEF HostInvariant, RepliesCounted
        <4> HIDE DEF Mine, number
        <4>4. number \in Injection(Mine, 1..effects)
          BY <4>1, <4>2 DEF Injection, IsInjective
        <4>5. number \in Surjection(Mine, 1..effects) BY <4>1, <4>3 DEF Surjection
        <4>6. QED BY <4>4, <4>5 DEF Bijection
      <3>5. IsFiniteSet(1..effects) /\ Cardinality(1..effects) = effects
        BY <3>2, FS_Interval
      <3> HIDE DEF Mine, number
      <3>6. Bijection(1..effects, Mine) # {} BY <3>4, Fun_ExistsBijSymmetric DEF ExistsBijection
      <3>7. Cardinality(Mine) = effects BY <3>5, <3>6, FS_Bijection DEF ExistsBijection
      <3>8. QED BY <3>7 DEF Mine
    <2>3. QED BY <2>1, <2>2 DEF AnsweredOnce
  <1>2. QED BY <1>1, HostCorrect, PTL

=============================================================================
