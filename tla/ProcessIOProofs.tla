-------------------------- MODULE ProcessIOProofs ---------------------------
(***************************************************************************)
(* The safety of one CLI call (process_executable and bounded_read), for   *)
(* any output limits, any number of streams and any size of a pipe.        *)
(***************************************************************************)
EXTENDS ProcessIO, TLAPS

(* What is left to say about one reader's chunk: nothing is kept beyond    *)
(* the limit, and the overflow is noted with the bytes it drops.           *)
LEMMA LeastBound ==
  ASSUME NEW a \in Nat, NEW b \in Nat
  PROVE  Least(a, b) \in Nat /\ Least(a, b) <= a /\ Least(a, b) <= b
  BY DEF Least

LEMMA StopReasonType == StopReason \in {Null, "cancelled", "output_overflow", "timed_out"}
  BY DEF StopReason

LEMMA InitCall == Init => CallInvariant
  <1> SUFFICES ASSUME Init PROVE CallInvariant OBVIOUS
  <1> USE DEF Init
  <1>1. TypeOK
    <2>1. retained = [s \in Streams |-> 0] OBVIOUS
    <2>2. retained \in [Streams -> Nat] /\ \A s \in Streams : retained[s] <= Limits[s]
      BY <2>1, LimitAssumption
    <2>3. pipe \in [Streams -> 0..PipeSize] BY PipeAssumption
    <2>4. dropped \in [Streams -> BOOLEAN] /\ reader \in [Streams -> {"reading", "done", "failed"}]
      OBVIOUS
    <2>5. QED BY <2>2, <2>3, <2>4 DEF TypeOK
  <1>2. DropsAreNoted /\ ChildWatched /\ LoopEnds /\ DoneIsDry
    BY DEF DropsAreNoted, ChildWatched, LoopEnds, DoneIsDry
  <1>3. KilledIsReported /\ StopEndsGroup /\ UnstoppedIsComplete
    BY DEF KilledIsReported, StopEndsGroup, UnstoppedIsComplete, Returned
  <1>4. QED BY <1>1, <1>2, <1>3 DEF CallInvariant

----------------------------------------------------------------------------
(* The readers.                                                            *)

LEMMA ReadChunkPreserves ==
  ASSUME CallInvariant, NEW s \in Streams, ReadChunk(s) PROVE CallInvariant'
  <1> USE DEF CallInvariant, TypeOK
  <1>1. PICK n \in 1..pipe[s] :
          /\ pipe' = [pipe EXCEPT ![s] = @ - n]
          /\ retained' = [retained EXCEPT ![s] = @ + Least(n, Limits[s] - retained[s])]
          /\ dropped' = [dropped EXCEPT ![s] = @ \/ n > Limits[s] - retained[s]]
          /\ overflow' = (overflow \/ n > Limits[s] - retained[s])
    BY DEF ReadChunk
  <1>2. /\ reader[s] = "reading"
        /\ UNCHANGED <<reader, pc, exited, stopped, failed, child, heir, stop, cancelled, expired>>
    BY DEF ReadChunk, loopVars, childVars, clockVars
  <1>3. /\ pipe[s] \in 0..PipeSize /\ retained[s] \in Nat /\ Limits[s] \in Nat
        /\ retained[s] <= Limits[s] /\ n \in Nat
    BY LimitAssumption, PipeAssumption
  <1>4. TypeOK'
    <2> DEFINE kept == Least(n, Limits[s] - retained[s])
    <2>1. kept \in Nat /\ kept <= Limits[s] - retained[s]
      <3>1. Limits[s] - retained[s] \in Nat BY <1>3
      <3>2. QED BY <1>3, <3>1, LeastBound
    <2> HIDE DEF kept
    <2>2. retained' = [retained EXCEPT ![s] = @ + kept] BY <1>1 DEF kept
    <2>3. retained' \in [Streams -> Nat] /\ \A r \in Streams : retained'[r] <= Limits[r]
      BY <1>3, <2>1, <2>2, LimitAssumption
    <2>4. pipe' \in [Streams -> 0..PipeSize]
      BY <1>1, <1>3, PipeAssumption
    <2>5. dropped' \in [Streams -> BOOLEAN] /\ overflow' \in BOOLEAN
      BY <1>1
    <2>6. QED BY <1>2, <2>3, <2>4, <2>5
  <1>5. DropsAreNoted' BY <1>1 DEF DropsAreNoted
  <1>6. ChildWatched' /\ LoopEnds'
    BY <1>2 DEF ChildWatched, LoopEnds, Finished
  <1>7. DoneIsDry' BY <1>1, <1>2 DEF DoneIsDry, Held
  <1>8. pc # "returned" BY <1>2 DEF LoopEnds, Finished
  <1>9. KilledIsReported' /\ StopEndsGroup' /\ UnstoppedIsComplete'
    BY <1>2, <1>8 DEF KilledIsReported, StopEndsGroup, UnstoppedIsComplete, Returned
  <1>10. QED BY <1>4, <1>5, <1>6, <1>7, <1>9

LEMMA ReaderEndsPreserves ==
  ASSUME CallInvariant, NEW s \in Streams, ReadsEnd(s) \/ GivesUp(s) \/ ReadFails(s)
  PROVE  CallInvariant'
  <1> USE DEF CallInvariant, TypeOK
  <1>1. PICK how \in {"done", "failed"} :
          /\ reader[s] = "reading" /\ reader' = [reader EXCEPT ![s] = how]
          /\ how = "done" => pipe[s] = 0 /\ (~Held \/ stop)
    BY DEF ReadsEnd, GivesUp, ReadFails, ReaderEnds
  <1>2. UNCHANGED <<pipe, retained, dropped, overflow, pc, exited, stopped, failed, child, heir,
                    stop, cancelled, expired>>
    BY DEF ReadsEnd, GivesUp, ReadFails, ReaderEnds, loopVars, childVars, clockVars
  <1>3. TypeOK' BY <1>1, <1>2
  <1>4. DropsAreNoted' /\ ChildWatched' BY <1>2 DEF DropsAreNoted, ChildWatched
  <1>5. pc # "returned" /\ (stop => stopped # Null \/ failed)
    BY <1>1 DEF LoopEnds, Finished
  <1>6. LoopEnds' BY <1>1, <1>2, <1>5 DEF LoopEnds, Finished
  <1>7. DoneIsDry' BY <1>1, <1>2, <1>5 DEF DoneIsDry, Held
  <1>8. KilledIsReported' /\ StopEndsGroup' /\ UnstoppedIsComplete'
    BY <1>2, <1>5 DEF KilledIsReported, StopEndsGroup, UnstoppedIsComplete, Returned
  <1>9. QED BY <1>3, <1>4, <1>6, <1>7, <1>8

----------------------------------------------------------------------------
(* The caller's loop.                                                      *)

LEMMA LoopStepPreserves ==
  ASSUME CallInvariant, PollChild \/ CheckFinished \/ SetStop PROVE CallInvariant'
  <1> USE DEF CallInvariant
  <1>1. UNCHANGED <<stopped, failed, child, heir, pipe, retained, dropped, reader, overflow,
                    cancelled, expired>>
    BY DEF PollChild, CheckFinished, SetStop, LoopOnly, childVars, readVars, clockVars
  <1>2. /\ pc' \in {"finished", "stop", "budget", "join"} /\ pc # "returned"
        /\ exited' \in BOOLEAN /\ stop' \in BOOLEAN
    BY DEF PollChild, CheckFinished, SetStop, TypeOK
  <1>3. TypeOK' BY <1>1, <1>2 DEF TypeOK
  <1>4. DropsAreNoted' /\ DoneIsDry' BY <1>1 DEF DropsAreNoted, DoneIsDry, Held
  <1>5. ChildWatched' /\ LoopEnds'
    BY <1>1 DEF ChildWatched, LoopEnds, PollChild, CheckFinished, SetStop, AllFinished, Finished,
                TypeOK
  <1>6. KilledIsReported' /\ StopEndsGroup' /\ UnstoppedIsComplete'
    BY <1>2 DEF KilledIsReported, StopEndsGroup, UnstoppedIsComplete, Returned
  <1>7. QED BY <1>3, <1>4, <1>5, <1>6

LEMMA KillsPreserves ==
  ASSUME CallInvariant, CheckBudget \/ PollFails PROVE CallInvariant'
  <1> USE DEF CallInvariant
  <1>1. /\ pc \in {"poll", "budget"} /\ pc' \in {"poll", "stop"}
        /\ UNCHANGED <<pipe, retained, dropped, reader, overflow, cancelled, expired, exited, stop>>
    BY DEF CheckBudget, PollFails, LoopOnly, readVars, clockVars, TypeOK
  <1>2. CASE pc' = "poll"
    <2>1. UNCHANGED <<child, heir, failed>> /\ stopped' = Null
      BY <1>2 DEF CheckBudget, PollFails, childVars
    <2>2. QED
      BY <1>1, <1>2, <2>1 DEF TypeOK, DropsAreNoted, ChildWatched, LoopEnds, DoneIsDry, Held,
         Finished, KilledIsReported, StopEndsGroup, UnstoppedIsComplete, Returned
  <1>3. CASE pc' = "stop"
    <2>1. /\ child' = (IF child = "running" THEN "killed" ELSE child)
          /\ heir' = (IF heir = "grouped" THEN "gone" ELSE heir)
          /\ stopped' \in {Null, "cancelled", "output_overflow", "timed_out"}
          /\ failed' \in BOOLEAN /\ (stopped' # Null \/ failed')
      BY <1>3, StopReasonType DEF CheckBudget, PollFails, Kills, TypeOK
    <2>2. TypeOK' BY <1>1, <1>3, <2>1 DEF TypeOK
    <2>3. DropsAreNoted' /\ ChildWatched'
      BY <1>1, <1>3, <2>1 DEF DropsAreNoted, ChildWatched, TypeOK
    <2>4. LoopEnds' /\ DoneIsDry'
      BY <1>1, <1>3, <2>1 DEF LoopEnds, DoneIsDry
    <2>5. KilledIsReported' /\ StopEndsGroup' /\ UnstoppedIsComplete'
      BY <1>3 DEF KilledIsReported, StopEndsGroup, UnstoppedIsComplete, Returned
    <2>6. QED BY <2>2, <2>3, <2>4, <2>5
  <1>4. QED BY <1>1, <1>2, <1>3

LEMMA JoinPreserves ==
  ASSUME CallInvariant, Join PROVE CallInvariant'
  <1> USE DEF CallInvariant
  <1>1. /\ pc = "join" /\ pc' = "returned" /\ \A s \in Streams : reader[s] \in {"done", "failed"}
        /\ failed' = (failed \/ \E s \in Streams : reader[s] = "failed")
        /\ stopped' = FinalStop
        /\ UNCHANGED <<pipe, retained, dropped, reader, overflow, cancelled, expired, exited, stop,
                       child, heir>>
    BY DEF Join, LoopOnly, readVars, clockVars, childVars, TypeOK, Finished
  <1>2. /\ stopped' \in {Null, "cancelled", "output_overflow", "timed_out"}
        /\ stopped # Null => stopped' # Null
        /\ stopped' = Null => ~overflow
    BY <1>1, AbsenceAssumption DEF FinalStop, TypeOK
  <1>3. TypeOK' BY <1>1, <1>2 DEF TypeOK
  <1>4. DropsAreNoted' /\ ChildWatched'
    BY <1>1, <1>2 DEF DropsAreNoted, ChildWatched
  <1>5. LoopEnds' BY <1>1 DEF LoopEnds, Finished
  <1>6. DoneIsDry' BY <1>1, <1>2 DEF DoneIsDry, Held
  <1>7. KilledIsReported' BY <1>1, <1>2 DEF KilledIsReported, ChildWatched, Returned
  <1>8. StopEndsGroup'
    <2>1. CASE stopped # Null BY <1>1, <2>1 DEF StopEndsGroup, ChildWatched
    <2>2. CASE stopped = Null
      <3>1. PICK s \in Streams : TRUE BY LimitAssumption
      <3>2. ~failed' => ~Held BY <1>1, <2>2, <3>1 DEF DoneIsDry
      <3>3. QED BY <1>1, <3>2 DEF StopEndsGroup, Returned, Held
    <2>3. QED BY <2>1, <2>2
  <1>9. UnstoppedIsComplete'
    <2>1. PICK s \in Streams : TRUE BY LimitAssumption
    <2>2. QED
      BY <1>1, <1>2, <2>1 DEF UnstoppedIsComplete, Returned, DropsAreNoted, DoneIsDry, Held, TypeOK
  <1>10. QED BY <1>3, <1>4, <1>5, <1>6, <1>7, <1>8, <1>9

----------------------------------------------------------------------------
(* The process, the caller and the clock.                                  *)

LEMMA ProcessPreserves ==
  ASSUME CallInvariant, Forks \/ Exits \/ \E s \in Streams : Write(s) PROVE CallInvariant'
  <1> USE DEF CallInvariant
  <1>1. UNCHANGED <<pc, exited, stopped, failed, retained, dropped, reader, overflow, stop,
                    cancelled, expired>>
    BY DEF Forks, Exits, Write, ProcessOnly, loopVars, clockVars
  <1>2. /\ child' \in {"running", "exited", "killed"} /\ heir' \in {"none", "grouped", "escaped", "gone"}
        /\ pipe' \in [Streams -> 0..PipeSize]
        /\ child' = "running" => child = "running"
        /\ child' = "killed" => child = "killed"
        /\ heir' = "grouped" => heir = "grouped" \/ child = "running"
        /\ ~Held => ~Held' /\ pipe' = pipe
    BY PipeAssumption DEF Forks, Exits, Write, TypeOK, Held, childVars
  <1>3. TypeOK' BY <1>1, <1>2 DEF TypeOK
  <1>4. stopped # Null => child # "running"
    BY DEF LoopEnds, ChildWatched, TypeOK
  <1>5. DropsAreNoted' /\ ChildWatched' /\ LoopEnds'
    BY <1>1, <1>2, <1>4 DEF DropsAreNoted, ChildWatched, LoopEnds, Finished
  <1>6. DoneIsDry' BY <1>1, <1>2 DEF DoneIsDry
  <1>7. KilledIsReported' BY <1>1, <1>2 DEF KilledIsReported, Returned
  <1>8. StopEndsGroup' BY <1>1, <1>2, <1>4 DEF StopEndsGroup, Returned
  <1>9. UnstoppedIsComplete' BY <1>1, <1>2 DEF UnstoppedIsComplete, Returned
  <1>10. QED BY <1>3, <1>5, <1>6, <1>7, <1>8, <1>9

LEMMA ClockPreserves ==
  ASSUME CallInvariant, Cancel \/ Expire \/ UNCHANGED vars PROVE CallInvariant'
  <1>1. /\ UNCHANGED <<pc, exited, stopped, failed, child, heir, pipe, retained, dropped, reader,
                       overflow, stop>>
        /\ cancelled' \in BOOLEAN /\ expired' \in BOOLEAN
    BY DEF CallInvariant, TypeOK, Cancel, Expire, vars, loopVars, childVars, readVars, clockVars
  <1>2. QED
    BY <1>1 DEF CallInvariant, TypeOK, DropsAreNoted, ChildWatched, LoopEnds, DoneIsDry, Held,
       Finished, KilledIsReported, StopEndsGroup, UnstoppedIsComplete, Returned

(* The inductive invariant of a CLI call holds in every reachable state,   *)
(* in every interleaving of the loop, the readers, the process and the     *)
(* clock.                                                                  *)
THEOREM CallCorrect == Spec => []CallInvariant
  <1>1. ASSUME CallInvariant, [Next]_vars PROVE CallInvariant'
    BY <1>1, ReadChunkPreserves, ReaderEndsPreserves, LoopStepPreserves, KillsPreserves,
       JoinPreserves, ProcessPreserves, ClockPreserves
    DEF Next, Loop, Reader
  <1>2. QED BY <1>1, InitCall, PTL DEF Spec

(* process_executable returns output without a stop reason only if it is   *)
(* all the output there was and will be.                                   *)
THEOREM OutputComplete == Spec => []UnstoppedIsComplete
  <1>1. CallInvariant => UnstoppedIsComplete BY DEF CallInvariant
  <1>2. QED BY <1>1, CallCorrect, PTL

=============================================================================
