----------------------------- MODULE ProcessIO ------------------------------
(***************************************************************************)
(* process_executable and bounded_read (adapters/sandbox/src/lib.rs): how  *)
(* one CLI process is run under a deadline, a cancellation and two output  *)
(* limits.  Three threads of the adapter take part: the caller's loop and  *)
(* one reader for each output pipe; they share the flags overflow and stop.*)
(*                                                                         *)
(* The process may leave a descendant that holds the pipes: in its process *)
(* group, which the loop kills, or escaped from it.  Bytes are counted, not*)
(* told apart: a pipe delivers them in order.                              *)
(***************************************************************************)
EXTENDS Naturals

CONSTANTS Null,
          Limits,    \* the output limit of each stream
          PipeSize   \* bound: unread bytes of a pipe

Streams == DOMAIN Limits

ASSUME LimitAssumption == Streams # {} /\ \A s \in Streams : Limits[s] \in Nat
ASSUME PipeAssumption  == PipeSize \in Nat \ {0}
ASSUME AbsenceAssumption == Null \notin {"cancelled", "output_overflow", "timed_out"}

VARIABLES pc,        \* the caller's loop
          exited,    \* it has seen the child exit
          stopped,   \* why it stopped the child
          failed,    \* try_wait or a reader returned an error
          child,     \* "running", "exited" by itself, or "killed"
          heir,      \* a descendant: "none", "grouped", "escaped", "gone"
          pipe,      \* unread bytes
          retained,  \* bytes a reader has kept
          dropped,   \* history: a reader has thrown bytes away
          reader,    \* "reading", "done" or "failed"
          overflow, stop,     \* the shared flags
          cancelled, expired  \* the caller's flag and clock

loopVars  == <<pc, exited, stopped, failed>>
childVars == <<child, heir>>
readVars  == <<pipe, retained, dropped, reader, overflow>>
clockVars == <<cancelled, expired>>
vars == <<loopVars, childVars, readVars, stop, clockVars>>

Init ==
  /\ pc = "poll" /\ exited = FALSE /\ stopped = Null /\ failed = FALSE
  /\ child = "running" /\ heir = "none"
  /\ pipe = [s \in Streams |-> 0] /\ retained = pipe
  /\ dropped = [s \in Streams |-> FALSE] /\ reader = [s \in Streams |-> "reading"]
  /\ overflow = FALSE /\ stop = FALSE /\ cancelled = FALSE /\ expired = FALSE

(* A pipe ends when nobody holds its other side.                           *)
Held == child = "running" \/ heir \in {"grouped", "escaped"}

Finished(s) == reader[s] # "reading"

----------------------------------------------------------------------------
(* bounded_read.                                                           *)

Least(a, b) == IF a < b THEN a ELSE b

(* A chunk is kept as far as the limit allows; the rest is dropped and     *)
(* noted.                                                                  *)
ReadChunk(s) ==
  /\ reader[s] = "reading"
  /\ \E n \in 1..pipe[s] :
       LET room == Limits[s] - retained[s]
       IN /\ pipe' = [pipe EXCEPT ![s] = @ - n]
          /\ retained' = [retained EXCEPT ![s] = @ + Least(n, room)]
          /\ dropped' = [dropped EXCEPT ![s] = @ \/ n > room]
          /\ overflow' = (overflow \/ n > room)
  /\ UNCHANGED <<reader, loopVars, childVars, stop, clockVars>>

ReaderEnds(s, how) ==
  /\ reader[s] = "reading" /\ reader' = [reader EXCEPT ![s] = how]
  /\ UNCHANGED <<pipe, retained, dropped, overflow, loopVars, childVars, stop, clockVars>>

ReadsEnd(s) == pipe[s] = 0 /\ ~Held /\ ReaderEnds(s, "done")

(* Mutant: a pipe that is open and empty is read on.                       *)
NeverGivesUp(s) == FALSE

(* WouldBlock: the only place where stop is looked at.                     *)
GivesUp(s) == pipe[s] = 0 /\ Held /\ stop /\ ReaderEnds(s, "done")

ReadFails(s) == ReaderEnds(s, "failed")

Reader(s) == ReadChunk(s) \/ ReadsEnd(s) \/ GivesUp(s)

----------------------------------------------------------------------------
(* The loop of process_executable.                                         *)

LoopOnly == UNCHANGED <<readVars, clockVars>>

(* try_wait                                                                *)
PollChild ==
  /\ pc = "poll" /\ pc' = "finished" /\ exited' = (child # "running")
  /\ LoopOnly /\ UNCHANGED <<stopped, failed, childVars, stop>>

Kills ==
  /\ child' = IF child = "running" THEN "killed" ELSE child
  /\ heir' = IF heir = "grouped" THEN "gone" ELSE heir

PollFails ==
  /\ pc = "poll" /\ ~exited /\ Kills /\ failed' = TRUE /\ pc' = "stop"
  /\ LoopOnly /\ UNCHANGED <<exited, stopped, stop>>

AllFinished == exited /\ \A s \in Streams : Finished(s)

CheckFinished ==
  /\ pc = "finished" /\ pc' = IF AllFinished THEN "stop" ELSE "budget"
  /\ LoopOnly /\ UNCHANGED <<exited, stopped, failed, childVars, stop>>

StopReason ==
  CASE cancelled -> "cancelled"
    [] ~cancelled /\ overflow -> "output_overflow"
    [] ~cancelled /\ ~overflow /\ expired -> "timed_out"
    [] OTHER -> Null

(* Mutant: the reason is noted for a child that had already exited only.   *)
StopUnnoted ==
  /\ pc = "budget" /\ stopped' = IF exited THEN StopReason ELSE Null
  /\ IF StopReason = Null THEN pc' = "poll" /\ UNCHANGED childVars ELSE pc' = "stop" /\ Kills
  /\ LoopOnly /\ UNCHANGED <<exited, failed, stop>>

(* The process group is killed and the child reaped.                       *)
CheckBudget ==
  /\ pc = "budget" /\ stopped' = StopReason
  /\ IF StopReason = Null THEN pc' = "poll" /\ UNCHANGED childVars ELSE pc' = "stop" /\ Kills
  /\ LoopOnly /\ UNCHANGED <<exited, failed, stop>>

SetStop ==
  /\ pc = "stop" /\ pc' = "join" /\ stop' = TRUE
  /\ LoopOnly /\ UNCHANGED <<exited, stopped, failed, childVars>>

(* Mutant: an overflow the loop has not seen is not looked for.            *)
LastLook == stopped

(* An overflow may have come after the loop looked last.                   *)
FinalStop == IF stopped = Null /\ overflow THEN "output_overflow" ELSE stopped

Join ==
  /\ pc = "join" /\ \A s \in Streams : Finished(s)
  /\ failed' = (failed \/ \E s \in Streams : reader[s] = "failed")
  /\ stopped' = FinalStop /\ pc' = "returned"
  /\ LoopOnly /\ UNCHANGED <<exited, childVars, stop>>

Loop == PollChild \/ CheckFinished \/ CheckBudget \/ SetStop \/ Join

----------------------------------------------------------------------------
(* The process (external), the caller and the clock.                       *)

ProcessOnly == UNCHANGED <<loopVars, retained, dropped, reader, overflow, stop, clockVars>>

Write(s) ==
  /\ Held
  /\ pipe[s] < PipeSize /\ pipe' = [pipe EXCEPT ![s] = @ + 1]
  /\ ProcessOnly /\ UNCHANGED childVars

Forks ==
  /\ child = "running" /\ heir = "none" /\ heir' \in {"grouped", "escaped"}
  /\ ProcessOnly /\ UNCHANGED <<child, pipe>>

Exits ==
  /\ \/ child = "running" /\ child' = "exited" /\ UNCHANGED heir
     \/ heir \in {"grouped", "escaped"} /\ heir' = "gone" /\ UNCHANGED child
  /\ ProcessOnly /\ UNCHANGED pipe

Cancel == ~cancelled /\ cancelled' = TRUE /\ UNCHANGED <<loopVars, childVars, readVars, stop, expired>>

Expire == ~expired /\ expired' = TRUE /\ UNCHANGED <<loopVars, childVars, readVars, stop, cancelled>>

Next ==
  \/ Loop \/ PollFails
  \/ \E s \in Streams : Reader(s) \/ ReadFails(s) \/ Write(s)
  \/ Forks \/ Exits \/ Cancel \/ Expire

Spec == Init /\ [][Next]_vars

(* The threads run and the clock goes on; the process need not do anything.*)
FairSpec ==
  /\ Spec /\ WF_vars(Loop) /\ WF_vars(Expire)
  /\ \A s \in Streams : WF_vars(Reader(s))

----------------------------------------------------------------------------
(* Properties.                                                             *)

TypeOK ==
  /\ pc \in {"poll", "finished", "budget", "stop", "join", "returned"}
  /\ stopped \in {Null, "cancelled", "output_overflow", "timed_out"}
  /\ exited \in BOOLEAN /\ failed \in BOOLEAN
  /\ overflow \in BOOLEAN /\ stop \in BOOLEAN
  /\ cancelled \in BOOLEAN /\ expired \in BOOLEAN
  /\ child \in {"running", "exited", "killed"}
  /\ heir \in {"none", "grouped", "escaped", "gone"}
  /\ pipe \in [Streams -> 0..PipeSize]
  /\ retained \in [Streams -> Nat] /\ \A s \in Streams : retained[s] <= Limits[s]
  /\ dropped \in [Streams -> BOOLEAN]
  /\ reader \in [Streams -> {"reading", "done", "failed"}]

Returned == pc = "returned" /\ ~failed

(* Output that is returned without a stop reason is all the output there   *)
(* was: nothing was dropped, nothing is left in a pipe, and nobody can     *)
(* write any more, whichever of the reader, the loop and the process was   *)
(* first (exit, overflow and the last chunk race with each other).         *)
UnstoppedIsComplete ==
  Returned /\ stopped = Null => ~Held /\ \A s \in Streams : ~dropped[s] /\ pipe[s] = 0

(* A child the loop killed is never reported as one that ended by itself,  *)
(* and none is left running.                                               *)
KilledIsReported ==
  Returned => child # "running" /\ (child = "killed" => stopped # Null)

(* No member of the process group outlives a call that was stopped.        *)
StopEndsGroup == Returned /\ stopped # Null => heir # "grouped"

(* What the three threads keep between them, before the call returns.      *)

(* A reader that drops bytes says so.                                      *)
DropsAreNoted == \A s \in Streams : dropped[s] => overflow

(* The child outlives the loop in no case; killed, it has a reason.        *)
ChildWatched ==
  /\ exited \/ pc \in {"stop", "join", "returned"} => child # "running"
  /\ child = "killed" => stopped # Null \/ failed
  /\ stopped # Null /\ pc # "returned" => heir # "grouped"

(* The loop ends for a reason or because everything else has; the flag stop*)
(* is never up before that.                                                *)
LoopEnds ==
  /\ stop <=> pc \in {"join", "returned"}
  /\ pc \in {"poll", "finished", "budget"} => stopped = Null /\ ~failed
  /\ pc \in {"stop", "join", "returned"} =>
       stopped # Null \/ failed \/ \A s \in Streams : Finished(s)
  /\ pc = "returned" => /\ \A s \in Streams : Finished(s)
                        /\ failed \/ \A s \in Streams : reader[s] = "done"

(* A reader that was not told to give up has read its pipe to the end.     *)
DoneIsDry ==
  \A s \in Streams :
    reader[s] = "done" /\ stopped = Null /\ ~failed => pipe[s] = 0 /\ ~Held

(* The state of one call, an inductive invariant: its types, what the      *)
(* threads keep between them, and that the call leaves nothing of what it  *)
(* stopped behind or unreported.                                           *)
CallInvariant ==
  /\ TypeOK /\ DropsAreNoted /\ ChildWatched /\ LoopEnds /\ DoneIsDry
  /\ KilledIsReported /\ StopEndsGroup /\ UnstoppedIsComplete

(* README.md: "inherited output pipes obey deadlines".  The call returns   *)
(* although a descendant keeps the pipes.                                  *)
PipesObeyDeadlines == <>(pc = "returned")

(* The call returns, whoever holds the pipes, unless somebody outside the  *)
(* process group goes on writing to them for ever.                         *)
ReturnsUnlessFlooded ==
  \/ <>(pc = "returned")
  \/ []<><<heir = "escaped" /\ \E s \in Streams : Write(s)>>_vars

=============================================================================
