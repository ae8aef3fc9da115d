-------------------------- MODULE AcpSessionProofs --------------------------
(***************************************************************************)
(* The safety of the ACP adapter, for any number of file requests and any  *)
(* interleaving of engine, session, host, agent, clock and canceller.      *)
(***************************************************************************)
EXTENDS AcpSession, FiniteSetTheorems, SequenceTheorems, TLAPS

(* The invariant in groups: the requests of the agent, the engine's view of*)
(* its effect, the host's work on it, and what is reported.  The rest of   *)
(* SessionInvariant follows from these.                                    *)
RequestsSafe == AskedInOrder /\ EventsFresh

FinishExecuted == step = "finish" => \A n \in claims : reports[n] = "executed"

EngineSafe == EffectUnderWay /\ FinishExecuted /\ CancelStepExplicit /\ CancelKnown

HostSafe == HostServes /\ HostTellsOfEffect

ReportsSafe == DeniedNeverClaimed /\ ToldOnlyExecuted

Core == TypeOK /\ RequestsSafe /\ EngineSafe /\ HostSafe /\ WireOrdered /\ ReportsSafe

Replies == {"none", "open", "ok", "err"}

Statuses == {"executed", "failed", "unknown", "denied"}

Wires == [phase : {"New", "Initialized", "Ready", "Prompt", "Terminal"},
          outgoing : {"none", "initialize", "session/new", "session/prompt"},
          incoming : SUBSET Requests, tool : {"none", "open", "done"}, open : BOOLEAN]

Ports == [queue : {"none", "execute", "usage"}, busy : BOOLEAN, quarantined : BOOLEAN, due : BOOLEAN]

----------------------------------------------------------------------------
(* The requests of the agent and the channel of events.                    *)

(* The requests asked so far are the first Last ones.                      *)
LEMMA AskedFacts ==
  ASSUME AskedInOrder
  PROVE  /\ Last \in 0..MaxRequests /\ Last \in Nat /\ Asked = 1..Last
         /\ Asked # Requests => Last + 1 \in Requests
  <1>1. PICK k \in 0..MaxRequests : Asked = 1..k BY DEF AskedInOrder
  <1>2. k \in Nat BY <1>1, RequestBound
  <1>3. Cardinality(1..k) = k BY <1>2, FS_Interval
  <1>4. Last = k BY <1>1, <1>3 DEF Last
  <1>5. QED BY <1>1, <1>2, <1>4, RequestBound DEF Requests

(* A reply to a request that has been asked changes neither.               *)
LEMMA AskedKept ==
  ASSUME \A m \in Requests : reply'[m] = "none" <=> reply[m] = "none"
  PROVE  Asked' = Asked /\ Last' = Last
  <1>1. Asked' = Asked BY DEF Asked
  <1>2. QED BY <1>1 DEF Last

LEMMA ReplyFacts ==
  ASSUME TypeOK, NEW n \in Requests, reply[n] # "none", NEW r \in {"ok", "err"},
         reply' = [reply EXCEPT ![n] = r]
  PROVE  /\ reply' \in [Requests -> Replies] /\ reply'[n] = r
         /\ \A m \in Requests : m # n => reply'[m] = reply[m]
         /\ \A m \in Requests : reply'[m] = "none" <=> reply[m] = "none"
         /\ Asked' = Asked /\ Last' = Last
  <1>1. /\ reply' \in [Requests -> Replies] /\ reply'[n] = r
        /\ \A m \in Requests : m # n => reply'[m] = reply[m]
    BY DEF TypeOK, Replies
  <1>2. \A m \in Requests : reply'[m] = "none" <=> reply[m] = "none" BY <1>1
  <1>3. QED BY <1>1, <1>2, AskedKept

(* What taking an event does to the channel.                               *)
LEMMA TailFacts ==
  ASSUME TypeOK, events # <<>>, events' = Tail(events)
  PROVE  /\ events' \in Seq(Events) /\ Head(events) \in Events
         /\ 1 \in DOMAIN events /\ Head(events) = events[1]
         /\ \A i \in DOMAIN events' :
              i \in Nat /\ i + 1 \in DOMAIN events /\ i + 1 # 1 /\ events'[i] = events[i + 1]
  <1>1. events \in Seq(Events) BY DEF TypeOK
  <1>2. /\ Head(events) \in Events /\ Tail(events) \in Seq(Events)
        /\ Len(Tail(events)) = Len(events) - 1
        /\ \A i \in 1..Len(Tail(events)) : Tail(events)[i] = events[i + 1]
    BY <1>1, HeadTailProperties
  <1>3. Len(events) \in Nat /\ Len(events) # 0 BY <1>1
  <1>4. DOMAIN events = 1..Len(events) /\ DOMAIN Tail(events) = 1..Len(Tail(events)) BY <1>1, <1>2
  <1>5. Head(events) = events[1] BY <1>1
  <1>6. QED BY <1>2, <1>3, <1>4, <1>5

(* What sending an event does to the channel.                              *)
LEMMA PutFacts ==
  ASSUME TypeOK, NEW e \in Events, Put(e)
  PROVE  /\ events' \in Seq(Events)
         /\ \A i \in DOMAIN events' :
              \/ i \in DOMAIN events /\ events'[i] = events[i]
              \/ i = Len(events) + 1 /\ events'[i] = e
  <1>1. events \in Seq(Events) BY DEF TypeOK
  <1>2. /\ Append(events, e) \in Seq(Events) /\ Len(Append(events, e)) = Len(events) + 1
        /\ \A i \in 1..Len(events) : Append(events, e)[i] = events[i]
        /\ Append(events, e)[Len(events) + 1] = e
    BY <1>1, AppendProperties
  <1>3. Len(events) \in Nat BY <1>1
  <1>4. /\ DOMAIN events = 1..Len(events)
        /\ DOMAIN Append(events, e) = 1..Len(Append(events, e))
    BY <1>1, <1>2
  <1>5. \A i \in 1..(Len(events) + 1) : i \in 1..Len(events) \/ i = Len(events) + 1 BY <1>3
  <1>6. QED BY <1>2, <1>3, <1>4, <1>5 DEF Put

(* An event is taken; if it asks for an effect, its request may be dropped.*)
LEMMA ReceivePreserves ==
  ASSUME TypeOK, RequestsSafe, events # <<>>, events' = Tail(events),
         UNCHANGED <<effects, effect, reports, claims, wire>>,
         \/ UNCHANGED reply
         \/ Head(events).kind = "effect" /\ Drops(Head(events).request)
  PROVE  /\ RequestsSafe' /\ events' \in Seq(Events) /\ reply' \in [Requests -> Replies]
         /\ \A n \in Requests : reply'[n] = "ok" => reply[n] = "ok"
  <1> DEFINE n == Head(events).request
  <1>1. AskedInOrder /\ EventsFresh BY DEF RequestsSafe
  <1>2. /\ Head(events) = events[1] /\ 1 \in DOMAIN events /\ events' \in Seq(Events)
        /\ \A i \in DOMAIN events' :
             i \in Nat /\ i + 1 \in DOMAIN events /\ i + 1 # 1 /\ events'[i] = events[i + 1]
    BY TailFacts
  <1>3. CASE UNCHANGED reply
    <2>1. Asked' = Asked /\ Last' = Last BY <1>3, AskedKept
    <2>2. AskedInOrder' BY <1>1, <1>3, <2>1 DEF AskedInOrder
    <2>3. EventsFresh' BY <1>1, <1>2, <1>3, <2>1 DEF EventsFresh
    <2>4. reply' \in [Requests -> Replies] BY <1>3 DEF TypeOK, Replies
    <2>5. QED BY <1>2, <1>3, <2>2, <2>3, <2>4 DEF RequestsSafe
  <1>4. CASE Head(events).kind = "effect" /\ Drops(n)
    <2>1. n \in Requests /\ reply[n] = "open" BY <1>1, <1>2, <1>4 DEF EventsFresh
    <2>2. \A i \in DOMAIN events' : events'[i].kind # "effect"
      BY <1>1, <1>2, <1>4 DEF EventsFresh
    <2>3. reply' = [reply EXCEPT ![n] = "err"] BY <1>4 DEF Drops
    <2> HIDE DEF n
    <2>4. /\ reply' \in [Requests -> Replies] /\ reply'[n] = "err"
          /\ \A m \in Requests : m # n => reply'[m] = reply[m]
          /\ \A m \in Requests : reply'[m] = "none" <=> reply[m] = "none"
          /\ Asked' = Asked /\ Last' = Last
      BY <2>1, <2>3, ReplyFacts
    <2>5. AskedInOrder'
      <3>1. \A m \in Requests : reply'[m] = "open" => reply[m] = "open" BY <2>4
      <3>2. QED BY <1>1, <2>4, <3>1 DEF AskedInOrder
    <2>6. EventsFresh' BY <1>1, <1>2, <2>2 DEF EventsFresh
    <2>7. \A m \in Requests : reply'[m] = "ok" => reply[m] = "ok" BY <2>4
    <2>8. QED BY <1>2, <2>4, <2>5, <2>6, <2>7 DEF RequestsSafe
  <1>5. QED BY <1>3, <1>4

(* An event that asks for nothing is sent.                                 *)
LEMMA TellPreserves ==
  ASSUME TypeOK, RequestsSafe, NEW e \in Events, e.kind # "effect",
         e.kind = "finished" => wire.phase = "Terminal", Put(e),
         UNCHANGED <<reply, effects, effect, reports, claims, wire>>
  PROVE  RequestsSafe' /\ events' \in Seq(Events)
  <1>1. AskedInOrder /\ EventsFresh BY DEF RequestsSafe
  <1>2. /\ events' \in Seq(Events)
        /\ \A i \in DOMAIN events' :
             \/ i \in DOMAIN events /\ events'[i] = events[i]
             \/ i = Len(events) + 1 /\ events'[i] = e
    BY PutFacts
  <1>3. Asked' = Asked /\ Last' = Last BY AskedKept
  <1>4. AskedInOrder' BY <1>1, <1>3 DEF AskedInOrder
  <1>5. EventsFresh' BY <1>1, <1>2, <1>3 DEF EventsFresh
  <1>6. QED BY <1>2, <1>4, <1>5 DEF RequestsSafe

(* Nothing happens to the requests.                                        *)
LEMMA RequestsKept ==
  ASSUME RequestsSafe, UNCHANGED <<reply, effects, effect, reports, claims, wire, events>>
  PROVE  RequestsSafe'
  <1>1. AskedInOrder /\ EventsFresh BY DEF RequestsSafe
  <1>2. Asked' = Asked /\ Last' = Last BY AskedKept
  <1>3. AskedInOrder' /\ EventsFresh' BY <1>1, <1>2 DEF AskedInOrder, EventsFresh
  <1>4. QED BY <1>3 DEF RequestsSafe

----------------------------------------------------------------------------
(* The engine.                                                             *)

(* While the engine waits for an event it has no request in its hands.     *)
LEMMA NothingPending ==
  ASSUME EffectUnderWay, call \in {"start", "plan_event", "ready", "event"}
  PROVE  pending = 0 /\ step # "effect" /\ \A n \in claims : reports[n] = "executed"
  BY DEF EffectUnderWay, Engaged, Ended

(* The engine goes on, or ends the run, without a step towards an effect.  *)
LEMMA GoesPreserves ==
  ASSUME Core, call # "host", call # "quit_host", call' \in Calls \ Engaged,
         call \in Ended => call' \in Ended,
         UNCHANGED <<effects, effect, reports, op, wire, announced, host, result, claims, canceller,
                     expired, port>>,
         RequestsSafe', events' \in Seq(Events), reply' \in [Requests -> Replies],
         \A n \in Requests : reply'[n] = "ok" => reply[n] = "ok",
         call \notin Engaged \/ answer # "none", answer' = "none" \/ (answer' = answer /\ call \notin Engaged),
         pending' \in {0, pending},
         step' = "effect" => step = "effect" /\ call' = "decide",
         pending' # 0 => step' = "effect" \/ (call' = "over" /\ step' = "none"),
         step' = "finish" => wire.phase = "Terminal" /\ FinishExecuted',
         step' = "cancel" => outcome' = "Cancelled",
         outcome = "Cancelled" => outcome' = "Cancelled",
         token' => token \/ call' \in Ended,
         step' \in {"none", "plan", "effect", "finish", "cancel"},
         phase' \in {"New", "Starting", "Ready", "Active", "Closed"},
         start' \in {"held", "sent", "dropped"},
         session' \in {"off", "run", "finished", "failed", "faulting", "gone"},
         failure' \in BOOLEAN, token' \in BOOLEAN,
         outcome' \in {"Active", "CompletionClaimed", "Cancelled"}
  PROVE  Core'
  <1> USE DEF Core
  <1>1. UNCHANGED <<effects, effect, reports, op, wire, announced, host, result, claims, canceller,
                    expired, port>>
    OBVIOUS
  <1>2. TypeOK'
    <2>1. answer' \in {"none", "declined", "observed", "ok", "error"} BY DEF TypeOK
    <2>2. pending' \in {0, effect'} BY <1>1 DEF TypeOK
    <2>3. QED BY <1>1, <2>1, <2>2 DEF TypeOK, Replies
  <1>3. EffectUnderWay'
    <2>1. EffectUnderWay BY DEF EngineSafe
    <2>2. (step' = "effect") =>
            /\ effect' \in Requests /\ reports'[effect'] = "none"
            /\ call' \in Engaged \cup {"meter", "decide"}
            /\ call' \notin {"host", "quit_host"} => effect' \notin claims'
      BY <1>1, <2>1 DEF EffectUnderWay
    <2>3. pending' # 0 =>
            pending' = effect' /\ (step' = "effect" \/ (call' = "over" /\ step' = "none"))
      BY <1>1, <2>1 DEF EffectUnderWay
    <2>4. \A n \in claims' : reports'[n] = "executed" \/ call' \in Ended
      BY <1>1, <2>1 DEF EffectUnderWay
    <2>5. call' \notin {"host", "quit_host"} BY DEF Engaged
    <2>6. QED BY <2>2, <2>3, <2>4, <2>5 DEF EffectUnderWay
  <1>4. EngineSafe'
    <2>1. FinishExecuted'
      <3>1. CASE step' = "finish" BY <3>1
      <3>2. CASE step' # "finish" BY <3>2 DEF FinishExecuted
      <3>3. QED BY <3>1, <3>2
    <2>2. CancelStepExplicit' BY DEF CancelStepExplicit
    <2>3. CancelKnown' BY <1>1 DEF EngineSafe, CancelKnown
    <2>4. QED BY <1>3, <2>1, <2>2, <2>3 DEF EngineSafe
  <1>5. HostSafe'
    <2>1. HostServes BY DEF HostSafe
    <2>2. HostServes'
      <3>1. ~port.quarantined => port.queue = "none" /\ host = "idle" /\ ~port.busy
        BY <2>1 DEF HostServes
      <3>2. answer' = "none" \/ ~port.quarantined => answer' = "none"
        BY <2>1 DEF HostServes
      <3>3. QED BY <1>1, <2>1, <3>1, <3>2 DEF HostServes, Engaged
    <2>3. HostTellsOfEffect' BY DEF HostTellsOfEffect, Engaged
    <2>4. QED BY <2>2, <2>3 DEF HostSafe
  <1>6. WireOrdered' BY <1>1 DEF WireOrdered
  <1>7. ReportsSafe' BY <1>1 DEF ReportsSafe, DeniedNeverClaimed, ToldOnlyExecuted
  <1>8. QED BY <1>2, <1>4, <1>5, <1>6, <1>7

(* What the type invariant says of what the engine does not change.        *)
LEMMA Typed ==
  ASSUME TypeOK
  PROVE  /\ call \in Calls /\ step \in {"none", "plan", "effect", "finish", "cancel"}
         /\ phase \in {"New", "Starting", "Ready", "Active", "Closed"}
         /\ start \in {"held", "sent", "dropped"}
         /\ events \in Seq(Events) /\ reply \in [Requests -> Replies]
         /\ session \in {"off", "run", "finished", "failed", "faulting", "gone"}
         /\ failure \in BOOLEAN /\ token \in BOOLEAN
         /\ outcome \in {"Active", "CompletionClaimed", "Cancelled"}
         /\ wire \in Wires /\ port \in Ports
  BY DEF TypeOK, Replies, Wires, Ports

(* The channel as the engine may find it after a step of its own.          *)
Taken ==
  /\ events # <<>> /\ events' = Tail(events)
  /\ UNCHANGED reply \/ (Head(events).kind = "effect" /\ Drops(Head(events).request))

LEMMA ChannelKept ==
  ASSUME Core, UNCHANGED <<events, reply>> \/ Taken,
         UNCHANGED <<effects, effect, reports, claims, wire>>
  PROVE  /\ RequestsSafe' /\ events' \in Seq(Events) /\ reply' \in [Requests -> Replies]
         /\ \A n \in Requests : reply'[n] = "ok" => reply[n] = "ok"
  <1> USE DEF Core
  <1>1. CASE UNCHANGED <<events, reply>> BY <1>1, RequestsKept, Typed
  <1>2. CASE Taken BY <1>2, ReceivePreserves DEF Taken
  <1>3. QED BY <1>1, <1>2

(* The call returns an error and the engine ends the run.                  *)
LEMMA EndsPreserves ==
  ASSUME Core, Ends, EngineOnly,
         call \in {"start", "plan_event", "ready", "event", "meter", "usage", "decide"},
         UNCHANGED <<start, effects, effect, pending, reports, failure, port>>,
         UNCHANGED <<events, reply>> \/ Taken,
         phase' \in {"New", "Starting", "Ready", "Active", "Closed"}, token' \in BOOLEAN,
         \/ UNCHANGED answer /\ call # "usage"
         \/ answer # "none" /\ answer' = "none"
  PROVE  Core'
  <1>1. /\ UNCHANGED <<start, effects, effect, pending, reports, failure, port, session, announced,
                       wire, host, result, claims, outcome, canceller, op, expired>>
        /\ call' = "over" /\ step' = "none"
    BY DEF Ends, EngineOnly, sessionVars, hostVars
  <1>2. /\ RequestsSafe' /\ events' \in Seq(Events) /\ reply' \in [Requests -> Replies]
        /\ \A n \in Requests : reply'[n] = "ok" => reply[n] = "ok"
    BY <1>1, ChannelKept
  <1>3. TypeOK BY DEF Core
  <1>4. /\ start' \in {"held", "sent", "dropped"} /\ failure' \in BOOLEAN
        /\ session' \in {"off", "run", "finished", "failed", "faulting", "gone"}
        /\ outcome' \in {"Active", "CompletionClaimed", "Cancelled"}
    BY <1>1, <1>3, Typed
  <1>5. call' \in Calls \ Engaged /\ call' \in Ended BY <1>1 DEF Calls, Engaged, Ended
  <1>6. call \in Engaged => call = "usage" BY DEF Engaged
  <1>7. QED BY <1>1, <1>2, <1>4, <1>5, <1>6, GoesPreserves

LEMMA PlanPreserves == ASSUME Core, Plan PROVE Core'
  <1>1. /\ UNCHANGED <<start, effects, effect, pending, reports, announced, wire, host, result, claims,
                       outcome, canceller, token, events, op, reply, failure, port, answer, expired>>
        /\ call = "start" /\ phase' = "Starting"
    BY DEF Plan, hostVars, cancelVars
  <1>2. TypeOK BY DEF Core
  <1>3. CASE Ends /\ UNCHANGED session
    BY <1>1, <1>2, <1>3, EndsPreserves, Typed DEF EngineOnly, sessionVars, hostVars
  <1>4. CASE call' = "plan_event" /\ session' = "run" /\ UNCHANGED step
    <2>1. /\ RequestsSafe' /\ events' \in Seq(Events) /\ reply' \in [Requests -> Replies]
          /\ \A n \in Requests : reply'[n] = "ok" => reply[n] = "ok"
      BY <1>1, ChannelKept
    <2>2. EffectUnderWay /\ FinishExecuted BY DEF Core, EngineSafe
    <2>3. pending = 0 /\ step # "effect" BY <1>1, <2>2, NothingPending
    <2>4. call \notin Engaged /\ call \notin Ended /\ call' \in Calls \ Engaged
      BY <1>1, <1>4 DEF Calls, Engaged, Ended
    <2>5. /\ start' \in {"held", "sent", "dropped"} /\ failure' \in BOOLEAN /\ token' \in BOOLEAN
          /\ outcome' \in {"Active", "CompletionClaimed", "Cancelled"}
          /\ step' \in {"none", "plan", "effect", "finish", "cancel"}
      BY <1>1, <1>2, <1>4, Typed
    <2>6. /\ step' = "finish" => wire.phase = "Terminal" /\ FinishExecuted'
          /\ step' = "cancel" => outcome' = "Cancelled"
      BY <1>1, <1>4, <2>2
      DEF Core, WireOrdered, FinishExecuted, EngineSafe, CancelStepExplicit
    <2>7. QED BY <1>1, <1>4, <2>1, <2>3, <2>4, <2>5, <2>6, GoesPreserves
  <1>5. QED BY <1>3, <1>4 DEF Plan

(* The engine goes on from a call during which nothing is pending and sets *)
(* a step that is not an effect, or keeps none.                            *)
LEMMA StepsPreserve ==
  ASSUME Core, EngineOnly, call \in {"plan_event", "ready", "event"},
         call' \in {"event", "meter"}, step' \in {"none", "plan", "finish", "cancel"},
         UNCHANGED <<effects, effect, pending, reports, failure, port, token, answer>>,
         UNCHANGED <<events, reply>> \/ Taken,
         phase' \in {"New", "Starting", "Ready", "Active", "Closed"},
         start' \in {"held", "sent", "dropped"},
         step' = "finish" => wire.phase = "Terminal",
         step' = "cancel" => token
  PROVE  Core'
  <1>1. UNCHANGED <<effects, effect, pending, reports, failure, port, session, announced, token, answer,
                    wire, host, result, claims, outcome, canceller, op, expired>>
    BY DEF EngineOnly, sessionVars, hostVars
  <1>2. /\ RequestsSafe' /\ events' \in Seq(Events) /\ reply' \in [Requests -> Replies]
        /\ \A n \in Requests : reply'[n] = "ok" => reply[n] = "ok"
    BY <1>1, ChannelKept
  <1>3. TypeOK /\ EffectUnderWay /\ CancelKnown BY DEF Core, EngineSafe
  <1>4. pending = 0 /\ \A n \in claims : reports[n] = "executed" BY <1>3, NothingPending
  <1>5. FinishExecuted' BY <1>1, <1>4 DEF FinishExecuted
  <1>6. step' = "cancel" => outcome' = "Cancelled" BY <1>1, <1>3 DEF CancelKnown, Ended
  <1>7. call \notin Engaged /\ call \notin Ended /\ call' \in Calls \ Engaged
    BY DEF Calls, Engaged, Ended
  <1>8. /\ failure' \in BOOLEAN /\ token' \in BOOLEAN
        /\ session' \in {"off", "run", "finished", "failed", "faulting", "gone"}
        /\ outcome' \in {"Active", "CompletionClaimed", "Cancelled"}
    BY <1>1, <1>3, Typed
  <1>9. QED BY <1>1, <1>2, <1>4, <1>5, <1>6, <1>7, <1>8, GoesPreserves

LEMMA NextEffectPreserves == ASSUME Core, NextEffect PROVE Core'
  <1>1. TypeOK BY DEF Core
  <1>2. /\ call = "ready" /\ call' = "event" /\ step' = "none" /\ EngineOnly
        /\ UNCHANGED <<effects, effect, pending, reports, failure, port, token, answer, events, reply>>
    BY DEF NextEffect
  <1>3. /\ phase' \in {"New", "Starting", "Ready", "Active", "Closed"}
        /\ start' \in {"held", "sent", "dropped"}
    BY <1>1, Typed DEF NextEffect
  <1>4. QED BY <1>2, <1>3, StepsPreserve

LEMMA EventCancelledPreserves == ASSUME Core, EventCancelled PROVE Core'
  <1>1. TypeOK BY DEF Core
  <1>2. /\ call \in {"plan_event", "event"} /\ token /\ EngineOnly
        /\ UNCHANGED <<start, effects, effect, pending, reports, token, failure, port, answer>>
        /\ UNCHANGED <<events, reply>> \/ Taken
    BY DEF EventCancelled, Taken
  <1>3. start' \in {"held", "sent", "dropped"} /\ token' \in BOOLEAN BY <1>1, <1>2, Typed
  <1>4. CASE call = "event"
    BY <1>2, <1>3, <1>4, StepsPreserve DEF EventCancelled
  <1>5. CASE call = "plan_event"
    <2>1. Ends /\ UNCHANGED phase BY <1>5 DEF EventCancelled
    <2>2. QED BY <1>1, <1>2, <1>3, <1>5, <2>1, EndsPreserves, Typed
  <1>6. QED BY <1>2, <1>4, <1>5

LEMMA EventTimesOutPreserves == ASSUME Core, EventTimesOut PROVE Core'
  <1>1. TypeOK BY DEF Core
  <1>2. /\ call \in {"plan_event", "event"} /\ token' \in BOOLEAN /\ Ends /\ EngineOnly
        /\ UNCHANGED <<phase, start, effects, effect, pending, reports, events, reply, failure, port, answer>>
    BY DEF EventTimesOut
  <1>3. QED BY <1>1, <1>2, EndsPreserves, Typed

LEMMA PlanReadyPreserves == ASSUME Core, PlanReady PROVE Core'
  <1>1. TypeOK BY DEF Core
  <1>2. /\ call = "plan_event" /\ call' = "meter" /\ step' = "plan" /\ EngineOnly /\ Taken
        /\ UNCHANGED <<phase, start, effects, effect, pending, reports, failure, port, token, answer>>
    BY DEF PlanReady, Receives, Taken
  <1>3. QED BY <1>1, <1>2, StepsPreserve, Typed

LEMMA EffectRefusedPreserves == ASSUME Core, EffectRefused PROVE Core'
  <1>1. TypeOK BY DEF Core
  <1>2. /\ call = "event" /\ Ends /\ EngineOnly /\ Taken
        /\ UNCHANGED <<phase, start, effects, effect, pending, reports, token, failure, port, answer>>
    BY DEF EffectRefused, Receives, Taken
  <1>3. QED BY <1>1, <1>2, EndsPreserves, Typed

LEMMA AgentFinishedPreserves == ASSUME Core, AgentFinished PROVE Core'
  <1>1. TypeOK /\ RequestsSafe BY DEF Core
  <1>2. /\ call = "event" /\ EngineOnly /\ Taken /\ Head(events).kind = "finished"
        /\ UNCHANGED <<start, effects, effect, pending, reports, token, failure, port, answer>>
    BY DEF AgentFinished, Receives, Taken
  <1>3. /\ phase' \in {"New", "Starting", "Ready", "Active", "Closed"} /\ token' \in BOOLEAN
        /\ start' \in {"held", "sent", "dropped"}
    BY <1>1, <1>2, Typed DEF AgentFinished
  <1>4. wire.phase = "Terminal"
    <2>1. 1 \in DOMAIN events /\ Head(events) = events[1] BY <1>1, <1>2, TailFacts DEF Taken
    <2>2. QED BY <1>1, <1>2, <2>1 DEF RequestsSafe, EventsFresh
  <1>5. CASE Ends BY <1>2, <1>3, <1>5, EndsPreserves
  <1>6. CASE call' = "meter" /\ step' = "finish" BY <1>2, <1>3, <1>4, <1>6, StepsPreserve
  <1>7. QED BY <1>5, <1>6 DEF AgentFinished

LEMMA EventFaultPreserves == ASSUME Core, EventFault PROVE Core'
  <1>1. TypeOK BY DEF Core
  <1>2. /\ call \in {"plan_event", "event"} /\ Ends /\ EngineOnly /\ Taken
        /\ UNCHANGED <<start, effects, effect, pending, reports, token, failure, port, answer>>
    BY DEF EventFault, Receives, Taken
  <1>3. phase' \in {"New", "Starting", "Ready", "Active", "Closed"} /\ token' \in BOOLEAN
    BY <1>1, <1>2, Typed DEF EventFault
  <1>4. QED BY <1>2, <1>3, EndsPreserves

LEMMA MeterFailsPreserves == ASSUME Core, MeterFails PROVE Core'
  <1>1. TypeOK BY DEF Core
  <1>2. /\ call = "meter" /\ Ends /\ EngineOnly
        /\ UNCHANGED <<phase, start, effects, effect, pending, reports, token, events, reply, failure, port, answer>>
    BY DEF MeterFails
  <1>3. QED BY <1>1, <1>2, EndsPreserves, Typed

LEMMA EngineStopsPreserves == ASSUME Core, EngineStops PROVE Core'
  <1>1. TypeOK BY DEF Core
  <1>2. /\ call \in {"ready", "decide"} /\ Ends /\ EngineOnly
        /\ UNCHANGED <<phase, start, effects, effect, pending, reports, token, events, reply, failure, port, answer>>
    BY DEF EngineStops
  <1>3. QED BY <1>1, <1>2, EndsPreserves, Typed

LEMMA MeterReturnsPreserves == ASSUME Core, MeterReturns PROVE Core'
  <1>1. TypeOK /\ EffectUnderWay /\ FinishExecuted /\ CancelStepExplicit /\ WireOrdered
    BY DEF Core, EngineSafe
  <1>2. /\ call = "usage" /\ answer # "none" /\ answer' = "none" /\ EngineOnly
        /\ UNCHANGED <<start, effects, effect, pending, reports, token, events, reply, failure, port>>
    BY DEF MeterReturns
  <1>3. CASE answer # "ok"
    <2>1. Ends /\ UNCHANGED phase BY <1>3 DEF MeterReturns
    <2>2. QED BY <1>1, <1>2, <2>1, EndsPreserves, Typed
  <1>4. CASE answer = "ok"
    <2>1. /\ UNCHANGED <<start, effects, effect, pending, reports, failure, port, session, announced,
                         token, wire, host, result, claims, outcome, canceller, op, expired, step>>
          /\ call' = (IF step = "plan" THEN "ready" ELSE "decide")
          /\ phase' \in {"New", "Starting", "Ready", "Active", "Closed"}
      BY <1>1, <1>2, <1>4, Typed DEF MeterReturns, EngineOnly, sessionVars, hostVars
    <2>2. /\ RequestsSafe' /\ events' \in Seq(Events) /\ reply' \in [Requests -> Replies]
          /\ \A n \in Requests : reply'[n] = "ok" => reply[n] = "ok"
      BY <1>2, <2>1, ChannelKept
    <2>3. /\ step' = "effect" => step = "effect" /\ call' = "decide"
          /\ pending' # 0 => step' = "effect"
      BY <1>1, <1>2, <2>1 DEF EffectUnderWay
    <2>4. /\ step' = "finish" => wire.phase = "Terminal" /\ FinishExecuted'
          /\ step' = "cancel" => outcome' = "Cancelled"
      BY <1>1, <2>1 DEF WireOrdered, FinishExecuted, CancelStepExplicit
    <2>5. call \notin Ended /\ call' \in Calls \ Engaged
      BY <1>2, <2>1 DEF Calls, Engaged, Ended
    <2>6. /\ start' \in {"held", "sent", "dropped"} /\ failure' \in BOOLEAN /\ token' \in BOOLEAN
          /\ session' \in {"off", "run", "finished", "failed", "faulting", "gone"}
          /\ outcome' \in {"Active", "CompletionClaimed", "Cancelled"}
          /\ step' \in {"none", "plan", "effect", "finish", "cancel"}
      BY <1>1, <1>2, <2>1, Typed
    <2>7. QED BY <1>2, <2>1, <2>2, <2>3, <2>4, <2>5, <2>6, GoesPreserves
  <1>5. QED BY <1>3, <1>4

LEMMA ClaimsPreserves == ASSUME Core, Claims PROVE Core'
  <1>1. TypeOK /\ EffectUnderWay /\ FinishExecuted /\ CancelStepExplicit /\ WireOrdered
    BY DEF Core, EngineSafe
  <1>2. /\ UNCHANGED <<step, phase, start, effects, effect, pending, reports, session, announced, wire,
                       host, result, claims, canceller, token, events, op, reply, failure, port,
                       answer, expired>>
        /\ \/ call = "decide" /\ step = "finish" /\ call' = "claim"
           \/ call = "claim" /\ call' = "over"
        /\ outcome' = IF outcome = "Active" THEN "CompletionClaimed" ELSE outcome
    BY DEF Claims, sessionVars, hostVars
  <1>3. /\ RequestsSafe' /\ events' \in Seq(Events) /\ reply' \in [Requests -> Replies]
        /\ \A n \in Requests : reply'[n] = "ok" => reply[n] = "ok"
    BY <1>2, ChannelKept
  <1>4. step # "effect" /\ pending = 0 BY <1>1, <1>2 DEF EffectUnderWay, Engaged
  <1>5. /\ step' = "finish" => wire.phase = "Terminal" /\ FinishExecuted'
        /\ step' = "cancel" => outcome' = "Cancelled"
    BY <1>1, <1>2 DEF WireOrdered, FinishExecuted, CancelStepExplicit
  <1>6. call \notin Ended /\ call \notin Engaged /\ call' \in Calls \ Engaged
    BY <1>2 DEF Calls, Engaged, Ended
  <1>7. /\ start' \in {"held", "sent", "dropped"} /\ failure' \in BOOLEAN /\ token' \in BOOLEAN
        /\ session' \in {"off", "run", "finished", "failed", "faulting", "gone"}
        /\ phase' \in {"New", "Starting", "Ready", "Active", "Closed"}
        /\ outcome' \in {"Active", "CompletionClaimed", "Cancelled"}
        /\ step' \in {"none", "plan", "effect", "finish", "cancel"}
    BY <1>1, <1>2, Typed
  <1>8. QED BY <1>2, <1>3, <1>4, <1>5, <1>6, <1>7, GoesPreserves

(* Closing drops the request that is pending.                              *)
LEMMA CloseStartsPreserves == ASSUME Core, CloseStarts PROVE Core'
  <1>1. /\ TypeOK /\ EffectUnderWay /\ FinishExecuted /\ CancelStepExplicit /\ WireOrdered
        /\ AskedInOrder /\ EventsFresh
    BY DEF Core, EngineSafe, RequestsSafe
  <1>2. /\ UNCHANGED <<step, effects, effect, reports, session, announced, wire, host, result, claims,
                       outcome, canceller, events, op, failure, port, answer, expired>>
        /\ call = "over" /\ call' \in {"closed", "closing"} /\ phase' = "Closed"
        /\ start' \in {start, "dropped"} /\ token' = TRUE /\ pending' = 0
        /\ IF pending = 0 THEN UNCHANGED reply ELSE Drops(pending)
    BY DEF CloseStarts, EngineOnly, sessionVars, hostVars
  <1>3. step # "effect" BY <1>1, <1>2 DEF EffectUnderWay, Engaged
  <1>4. /\ RequestsSafe' /\ events' \in Seq(Events) /\ reply' \in [Requests -> Replies]
        /\ \A n \in Requests : reply'[n] = "ok" => reply[n] = "ok"
    <2>1. CASE pending = 0 BY <1>2, <2>1, ChannelKept
    <2>2. CASE pending # 0
      <3>1. pending = effect /\ effect \in Requests
        BY <1>1, <2>2, RequestBound DEF EffectUnderWay, TypeOK, Requests
      <3>2. reply[effect] # "none" BY <1>1, <3>1 DEF AskedInOrder
      <3>3. reply' = [reply EXCEPT ![effect] = "err"] BY <1>2, <2>2, <3>1 DEF Drops
      <3>4. /\ reply' \in [Requests -> Replies] /\ reply'[effect] = "err"
            /\ \A m \in Requests : m # effect => reply'[m] = reply[m]
            /\ \A m \in Requests : reply'[m] = "none" <=> reply[m] = "none"
            /\ Asked' = Asked /\ Last' = Last
        BY <1>1, <3>1, <3>2, <3>3, ReplyFacts
      <3>5. AskedInOrder'
        <4>1. \A m \in Requests : reply'[m] = "open" => reply[m] = "open" BY <3>4
        <4>2. QED BY <1>1, <1>2, <3>4, <4>1 DEF AskedInOrder
      <3>6. EventsFresh' BY <1>1, <1>2, <3>4 DEF EventsFresh
      <3>7. \A m \in Requests : reply'[m] = "ok" => reply[m] = "ok" BY <3>4
      <3>8. events' \in Seq(Events) BY <1>1, <1>2, Typed
      <3>9. QED BY <3>4, <3>5, <3>6, <3>7, <3>8 DEF RequestsSafe
    <2>3. QED BY <2>1, <2>2
  <1>5. /\ step' = "finish" => wire.phase = "Terminal" /\ FinishExecuted'
        /\ step' = "cancel" => outcome' = "Cancelled"
    BY <1>1, <1>2 DEF WireOrdered, FinishExecuted, CancelStepExplicit
  <1>6. call' \in Ended /\ call \notin Engaged /\ call' \in Calls \ Engaged
    BY <1>2 DEF Calls, Engaged, Ended
  <1>7. /\ start' \in {"held", "sent", "dropped"} /\ failure' \in BOOLEAN /\ token' \in BOOLEAN
        /\ session' \in {"off", "run", "finished", "failed", "faulting", "gone"}
        /\ outcome' \in {"Active", "CompletionClaimed", "Cancelled"}
        /\ step' \in {"none", "plan", "effect", "finish", "cancel"}
    BY <1>1, <1>2, Typed
  <1>8. QED BY <1>2, <1>3, <1>4, <1>5, <1>6, <1>7, GoesPreserves

LEMMA CloseEndsPreserves == ASSUME Core, CloseEnds PROVE Core'
  <1>1. TypeOK /\ EffectUnderWay /\ FinishExecuted /\ CancelStepExplicit /\ WireOrdered
    BY DEF Core, EngineSafe
  <1>2. /\ UNCHANGED <<step, phase, start, effects, effect, pending, reports, session, announced, wire,
                       host, result, claims, outcome, canceller, token, events, op, reply, port,
                       answer, expired>>
        /\ call = "closing" /\ call' = "closed" /\ failure' \in {failure, TRUE}
    BY DEF CloseEnds, EngineOnly, sessionVars, hostVars
  <1>3. /\ RequestsSafe' /\ events' \in Seq(Events) /\ reply' \in [Requests -> Replies]
        /\ \A n \in Requests : reply'[n] = "ok" => reply[n] = "ok"
    BY <1>2, ChannelKept
  <1>4. step # "effect" /\ pending = 0 BY <1>1, <1>2 DEF EffectUnderWay, Engaged
  <1>5. /\ step' = "finish" => wire.phase = "Terminal" /\ FinishExecuted'
        /\ step' = "cancel" => outcome' = "Cancelled"
    BY <1>1, <1>2 DEF WireOrdered, FinishExecuted, CancelStepExplicit
  <1>6. call' \in Ended /\ call \notin Engaged /\ call' \in Calls \ Engaged
    BY <1>2 DEF Calls, Engaged, Ended
  <1>7. /\ start' \in {"held", "sent", "dropped"} /\ failure' \in BOOLEAN /\ token' \in BOOLEAN
        /\ session' \in {"off", "run", "finished", "failed", "faulting", "gone"}
        /\ phase' \in {"New", "Starting", "Ready", "Active", "Closed"}
        /\ outcome' \in {"Active", "CompletionClaimed", "Cancelled"}
        /\ step' \in {"none", "plan", "effect", "finish", "cancel"}
    BY <1>1, <1>2, Typed
  <1>8. QED BY <1>2, <1>3, <1>4, <1>5, <1>6, <1>7, GoesPreserves

(* A request becomes the effect of the engine.                             *)
LEMMA EffectPreparedPreserves == ASSUME Core, EffectPrepared PROVE Core'
  <1> DEFINE n == Head(events).request
  <1>1. /\ TypeOK /\ EffectUnderWay /\ CancelKnown /\ AskedInOrder /\ EventsFresh
        /\ HostServes /\ HostTellsOfEffect /\ WireOrdered /\ ReportsSafe
    BY DEF Core, EngineSafe, RequestsSafe, HostSafe
  <1>2. /\ UNCHANGED <<phase, start, reports, session, announced, wire, host, result, claims, outcome,
                       canceller, token, op, reply, failure, port, answer, expired>>
        /\ call = "event" /\ call' = "meter" /\ step' = "effect"
        /\ events # <<>> /\ events' = Tail(events) /\ Head(events).kind = "effect"
        /\ effect' = n /\ pending' = n /\ effects' = effects + 1
    BY DEF EffectPrepared, Receives, EngineOnly, sessionVars, hostVars
  <1>3. /\ Head(events) = events[1] /\ 1 \in DOMAIN events /\ events' \in Seq(Events)
        /\ \A i \in DOMAIN events' :
             i \in Nat /\ i + 1 \in DOMAIN events /\ i + 1 # 1 /\ events'[i] = events[i + 1]
    BY <1>1, <1>2, TailFacts
  <1>4. n \in Requests /\ effects < Last /\ reply[n] = "open" /\ reports[n] = "none" /\ n \notin claims
    BY <1>1, <1>2, <1>3 DEF EventsFresh
  <1>5. \A i \in DOMAIN events' : events'[i].kind # "effect" BY <1>1, <1>2, <1>3 DEF EventsFresh
  <1>6. \A m \in claims : reports[m] = "executed" BY <1>1, <1>2, NothingPending
  <1> HIDE DEF n
  <1>7. Last \in 0..MaxRequests /\ effects \in 0..MaxRequests /\ Asked' = Asked /\ Last' = Last
    BY <1>1, <1>2, AskedFacts, AskedKept DEF TypeOK
  <1>8. effects' \in 0..MaxRequests /\ effects' <= Last' BY <1>2, <1>4, <1>7, RequestBound
  <1>9. TypeOK'
    <2>1. effect' \in 0..MaxRequests /\ pending' \in {0, effect'} BY <1>2, <1>4, RequestBound DEF Requests
    <2>2. QED BY <1>1, <1>2, <1>3, <1>8, <2>1 DEF TypeOK, Calls
  <1>10. RequestsSafe'
    <2>1. AskedInOrder' BY <1>1, <1>2, <1>4, <1>7, <1>8 DEF AskedInOrder
    <2>2. EventsFresh' BY <1>1, <1>2, <1>3, <1>5 DEF EventsFresh
    <2>3. QED BY <2>1, <2>2 DEF RequestsSafe
  <1>11. EngineSafe'
    <2>1. EffectUnderWay' BY <1>2, <1>4, <1>6 DEF EffectUnderWay
    <2>2. QED BY <1>1, <1>2, <2>1
          DEF EngineSafe, FinishExecuted, CancelStepExplicit, CancelKnown, Ended
  <1>12. HostSafe' BY <1>1, <1>2 DEF HostSafe, HostServes, HostTellsOfEffect, Engaged, Ended
  <1>13. WireOrdered' BY <1>1, <1>2 DEF WireOrdered
  <1>14. ReportsSafe' BY <1>1, <1>2 DEF ReportsSafe, DeniedNeverClaimed, ToldOnlyExecuted
  <1>15. QED BY <1>9, <1>10, <1>11, <1>12, <1>13, <1>14 DEF Core

LEMMA BeginFacts ==
  ASSUME port \in Ports, NEW command \in {"execute", "usage"}, Begin(command)
  PROVE  /\ port' \in Ports /\ port'.queue = command /\ port'.busy = TRUE
         /\ port'.due = FALSE /\ port'.quarantined = port.quarantined
  BY DEF Begin, Ports

LEMMA MeterBeginsPreserves == ASSUME Core, MeterBegins PROVE Core'
  <1>1. /\ TypeOK /\ RequestsSafe /\ EngineSafe /\ EffectUnderWay /\ CancelKnown
        /\ HostServes /\ HostTellsOfEffect /\ WireOrdered /\ ReportsSafe
    BY DEF Core, EngineSafe, HostSafe
  <1>2. /\ UNCHANGED <<step, phase, start, effects, effect, pending, reports, session, announced, wire,
                       host, result, claims, outcome, canceller, token, events, op, reply, failure,
                       answer, expired>>
        /\ call = "meter" /\ call' = "usage" /\ ~port.quarantined /\ Begin("usage")
    BY DEF MeterBegins, BeginRefuses, EngineOnly, sessionVars, hostVars
  <1>3. /\ port' \in Ports /\ port'.queue = "usage" /\ port'.busy = TRUE
        /\ port'.due = FALSE /\ port'.quarantined = port.quarantined
    BY <1>1, <1>2, BeginFacts, Typed
  <1>4. TypeOK' BY <1>1, <1>2, <1>3 DEF TypeOK, Calls, Ports
  <1>5. RequestsSafe' BY <1>1, <1>2, RequestsKept
  <1>6. EngineSafe'
    BY <1>1, <1>2
    DEF EngineSafe, EffectUnderWay, FinishExecuted, CancelStepExplicit, CancelKnown, Engaged, Ended
  <1>7. HostSafe'
    <2>1. host = "idle" /\ answer = "none" BY <1>1, <1>2 DEF HostServes, Engaged
    <2>2. HostServes' BY <1>1, <1>2, <1>3, <2>1 DEF HostServes, Engaged, Ended
    <2>3. HostTellsOfEffect' BY <1>2 DEF HostTellsOfEffect
    <2>4. QED BY <2>2, <2>3 DEF HostSafe
  <1>8. WireOrdered' BY <1>1, <1>2 DEF WireOrdered
  <1>9. ReportsSafe' BY <1>1, <1>2 DEF ReportsSafe, DeniedNeverClaimed, ToldOnlyExecuted
  <1>10. QED BY <1>4, <1>5, <1>6, <1>7, <1>8, <1>9 DEF Core

LEMMA ExecuteBeginsPreserves == ASSUME Core, ExecuteBegins PROVE Core'
  <1>1. /\ TypeOK /\ RequestsSafe /\ EngineSafe /\ EffectUnderWay /\ CancelKnown
        /\ HostServes /\ HostTellsOfEffect /\ WireOrdered /\ ReportsSafe
    BY DEF Core, EngineSafe, HostSafe
  <1>2. /\ UNCHANGED <<step, phase, start, effects, effect, reports, session, announced, wire,
                       host, result, claims, outcome, canceller, token, events, op, reply, failure,
                       answer, expired>>
        /\ call = "decide" /\ step = "effect" /\ call' = "host" /\ pending' = 0
        /\ ~port.quarantined /\ Begin("execute")
    BY DEF ExecuteBegins, BeginRefuses, EngineOnly, sessionVars, hostVars
  <1>3. /\ port' \in Ports /\ port'.queue = "execute" /\ port'.busy = TRUE
        /\ port'.due = FALSE /\ port'.quarantined = port.quarantined
    BY <1>1, <1>2, BeginFacts, Typed
  <1>4. TypeOK' BY <1>1, <1>2, <1>3 DEF TypeOK, Calls, Ports
  <1>5. RequestsSafe' BY <1>1, <1>2, RequestsKept
  <1>6. effect \notin claims /\ host = "idle" /\ answer = "none" /\ result = "none"
    BY <1>1, <1>2 DEF EffectUnderWay, HostServes, Engaged
  <1>7. EngineSafe'
    BY <1>1, <1>2
    DEF EngineSafe, EffectUnderWay, FinishExecuted, CancelStepExplicit, CancelKnown, Engaged, Ended
  <1>8. HostSafe'
    <2>1. HostServes' BY <1>1, <1>2, <1>3, <1>6 DEF HostServes, Engaged, Ended
    <2>2. HostTellsOfEffect' BY <1>2, <1>3, <1>6 DEF HostTellsOfEffect
    <2>3. QED BY <2>1, <2>2 DEF HostSafe
  <1>9. WireOrdered' BY <1>1, <1>2 DEF WireOrdered
  <1>10. ReportsSafe' BY <1>1, <1>2 DEF ReportsSafe, DeniedNeverClaimed, ToldOnlyExecuted
  <1>11. QED BY <1>4, <1>5, <1>7, <1>8, <1>9, <1>10 DEF Core

LEMMA HostGivenUpPreserves == ASSUME Core, HostGivenUp PROVE Core'
  <1>1. /\ TypeOK /\ RequestsSafe /\ EngineSafe /\ EffectUnderWay /\ CancelKnown
        /\ HostServes /\ HostTellsOfEffect /\ WireOrdered /\ ReportsSafe
    BY DEF Core, EngineSafe, HostSafe
  <1>2. /\ UNCHANGED <<step, phase, start, effects, effect, pending, reports, session, announced, wire,
                       host, result, claims, outcome, canceller, token, events, op, reply, failure,
                       answer, expired, port>>
        /\ \/ call = "usage" /\ call' = "quit_usage"
           \/ call = "host" /\ call' = "quit_host"
        /\ answer = "none" /\ (port.due \/ host = "dead")
    BY DEF HostGivenUp, EngineOnly, sessionVars, hostVars
  <1>3. TypeOK' BY <1>1, <1>2 DEF TypeOK, Calls
  <1>4. RequestsSafe' BY <1>1, <1>2, RequestsKept
  <1>5. EngineSafe'
    BY <1>1, <1>2
    DEF EngineSafe, EffectUnderWay, FinishExecuted, CancelStepExplicit, CancelKnown, Engaged, Ended
  <1>6. HostSafe'
    BY <1>1, <1>2 DEF HostSafe, HostServes, HostTellsOfEffect, Engaged, Ended
  <1>7. WireOrdered' BY <1>1, <1>2 DEF WireOrdered
  <1>8. ReportsSafe' BY <1>1, <1>2 DEF ReportsSafe, DeniedNeverClaimed, ToldOnlyExecuted
  <1>9. QED BY <1>3, <1>4, <1>5, <1>6, <1>7, <1>8 DEF Core

(* What the engine knows of the effect in its hands.                       *)
LEMMA EffectFacts ==
  ASSUME Core, step = "effect"
  PROVE  /\ effect \in Requests /\ reports[effect] = "none" /\ reply[effect] # "none"
         /\ reply[effect] # "ok"
         /\ call \in {"host", "quit_host"} => pending = 0
         /\ call = "decide" => effect \notin claims
  <1>1. /\ EffectUnderWay /\ AskedInOrder /\ ToldOnlyExecuted
    BY DEF Core, EngineSafe, RequestsSafe, ReportsSafe
  <1>2. effect \in Requests /\ reports[effect] = "none" BY <1>1 DEF EffectUnderWay
  <1>3. QED BY <1>1, <1>2 DEF EffectUnderWay, AskedInOrder, ToldOnlyExecuted

(* execute returns, and the agent's request is answered.                   *)
LEMMA ReportPreserves ==
  ASSUME Core, step = "effect", call \in {"decide", "host", "quit_host"}, EngineOnly,
         NEW status \in Statuses, Reports(status),
         NEW r \in {"ok", "err"}, reply' = [reply EXCEPT ![effect] = r],
         r = "ok" => status = "executed" /\ effect \in claims,
         status = "denied" => effect \notin claims,
         UNCHANGED <<phase, start, effects, effect, events>>,
         pending' = 0, failure' \in BOOLEAN, token' \in BOOLEAN,
         token' => token \/ call' = "over", answer' \in {"none", answer}, HostServes',
         port' \in Ports
  PROVE  Core'
  <1>1. /\ TypeOK /\ EffectUnderWay /\ CancelKnown /\ FinishExecuted /\ AskedInOrder /\ EventsFresh
        /\ WireOrdered /\ DeniedNeverClaimed /\ ToldOnlyExecuted
    BY DEF Core, EngineSafe, RequestsSafe, ReportsSafe
  <1>2. /\ UNCHANGED <<phase, start, effects, effect, events, session, announced, wire, host, result,
                       claims, outcome, canceller, op, expired>>
        /\ call' = (IF status = "executed" THEN "ready" ELSE "over") /\ step' = "none"
    BY DEF EngineOnly, sessionVars, hostVars, Reports
  <1>3. effect \in Requests /\ reports[effect] = "none" /\ reply[effect] # "none" BY EffectFacts
  <1>4. /\ reply' \in [Requests -> Replies] /\ reply'[effect] = r
        /\ \A m \in Requests : m # effect => reply'[m] = reply[m]
        /\ \A m \in Requests : reply'[m] = "none" <=> reply[m] = "none"
        /\ Asked' = Asked /\ Last' = Last
    BY <1>1, <1>3, ReplyFacts
  <1>5. /\ reports'[effect] = status
        /\ \A m \in Requests : m # effect => reports'[m] = reports[m]
        /\ reports' \in [Requests -> {"none", "executed", "failed", "unknown", "denied"}]
    BY <1>1, <1>3 DEF Reports, TypeOK, Statuses
  <1>6. claims \subseteq Requests BY <1>1 DEF TypeOK
  <1>7. TypeOK'
    <2>1. answer' \in {"none", "declined", "observed", "ok", "error"} BY <1>1 DEF TypeOK
    <2>2. pending' \in {0, effect'} OBVIOUS
    <2>3. QED BY <1>1, <1>2, <1>4, <1>5, <2>1, <2>2 DEF TypeOK, Replies, Ports, Calls
  <1>8. RequestsSafe'
    <2>1. AskedInOrder'
      <3>1. \A m \in Requests : reply'[m] = "open" => reply[m] = "open" BY <1>4
      <3>2. \A m \in Requests : reply[m] = "none" => reports'[m] = "none" BY <1>1, <1>3, <1>5 DEF AskedInOrder
      <3>3. QED BY <1>1, <1>2, <1>4, <3>1, <3>2 DEF AskedInOrder
    <2>2. EventsFresh' BY <1>1, <1>2, <1>4, <1>5 DEF EventsFresh
    <2>3. QED BY <2>1, <2>2 DEF RequestsSafe
  <1>9. \A m \in claims : m # effect => reports'[m] = "executed"
    BY <1>1, <1>5, <1>6 DEF EffectUnderWay, Ended
  <1>10. EngineSafe'
    <2>1. EffectUnderWay' BY <1>2, <1>5, <1>9 DEF EffectUnderWay, Ended, Engaged
    <2>2. FinishExecuted' /\ CancelStepExplicit' BY <1>2 DEF FinishExecuted, CancelStepExplicit
    <2>3. CancelKnown' BY <1>1, <1>2 DEF CancelKnown, Ended
    <2>4. QED BY <2>1, <2>2, <2>3 DEF EngineSafe
  <1>11. HostSafe' BY <1>2 DEF HostSafe, HostTellsOfEffect
  <1>12. WireOrdered' BY <1>1, <1>2 DEF WireOrdered
  <1>13. ReportsSafe'
    <2>1. DeniedNeverClaimed' BY <1>2, <1>5, <1>9 DEF DeniedNeverClaimed
    <2>2. ToldOnlyExecuted' BY <1>1, <1>2, <1>4, <1>5 DEF ToldOnlyExecuted
    <2>3. QED BY <2>1, <2>2 DEF ReportsSafe
  <1>14. QED BY <1>7, <1>8, <1>10, <1>11, <1>12, <1>13 DEF Core

LEMMA ExecuteRefusesPreserves == ASSUME Core, ExecuteRefuses PROVE Core'
  <1>1. TypeOK /\ HostServes BY DEF Core, HostSafe
  <1>2. /\ call = "decide" /\ step = "effect" /\ pending' = 0 /\ Reports("denied") /\ EngineOnly
        /\ reply' = [reply EXCEPT ![effect] = "err"]
        /\ UNCHANGED <<phase, start, effects, effect, token, events, failure, port, answer>>
    BY DEF ExecuteRefuses, Drops
  <1>3. UNCHANGED host /\ call' = "over" BY <1>2 DEF EngineOnly, hostVars, Reports
  <1>4. HostServes' BY <1>1, <1>2, <1>3, Typed DEF HostServes, Engaged, Ended, EngineOnly, hostVars
  <1>5. failure' \in BOOLEAN /\ token' \in BOOLEAN /\ port' \in Ports BY <1>1, <1>2, Typed
  <1>6. effect \notin claims BY <1>2, EffectFacts
  <1> DEFINE code == "denied"  r == "err"
  <1>7. /\ code \in Statuses /\ Reports(code) /\ code = "denied" /\ r \in {"ok", "err"} /\ r # "ok"
        /\ reply' = [reply EXCEPT ![effect] = r]
    BY <1>2 DEF Statuses
  <1> HIDE DEF code, r
  <1>8. QED BY <1>2, <1>3, <1>4, <1>5, <1>6, <1>7, ReportPreserves

(* The host's answer has been received: it has nothing more to do.         *)
LEMMA AnswerServes ==
  ASSUME Core, call = "host", answer # "none", answer' = "none", EngineOnly,
         call' \in {"ready", "over"}, UNCHANGED port
  PROVE  HostServes' /\ step = "effect" /\ pending = 0
  <1>1. HostServes /\ EffectUnderWay BY DEF Core, HostSafe, EngineSafe
  <1>2. UNCHANGED <<host, result>> BY DEF EngineOnly, hostVars
  <1>3. HostServes' BY <1>1, <1>2 DEF HostServes, Engaged, Ended
  <1>4. QED BY <1>1, <1>3 DEF EffectUnderWay

LEMMA ExecuteDeclinedPreserves == ASSUME Core, ExecuteDeclined PROVE Core'
  <1>1. TypeOK /\ HostTellsOfEffect BY DEF Core, HostSafe
  <1>2. /\ call = "host" /\ answer = "declined" /\ answer' = "none" /\ Reports("denied") /\ EngineOnly
        /\ reply' = [reply EXCEPT ![effect] = "err"]
        /\ UNCHANGED <<phase, start, effects, effect, pending, token, events, failure, port>>
    BY DEF ExecuteDeclined, Drops
  <1>3. call' = "over" BY <1>2 DEF Reports
  <1>4. HostServes' /\ step = "effect" /\ pending' = 0 BY <1>2, <1>3, AnswerServes
  <1>5. failure' \in BOOLEAN /\ token' \in BOOLEAN /\ port' \in Ports BY <1>1, <1>2, Typed
  <1>6. effect \notin claims BY <1>1, <1>2 DEF HostTellsOfEffect
  <1> DEFINE code == "denied"  r == "err"
  <1>7. /\ code \in Statuses /\ Reports(code) /\ code = "denied" /\ r \in {"ok", "err"} /\ r # "ok"
        /\ reply' = [reply EXCEPT ![effect] = r]
    BY <1>2 DEF Statuses
  <1> HIDE DEF code, r
  <1>8. QED BY <1>2, <1>3, <1>4, <1>5, <1>6, <1>7, ReportPreserves

LEMMA ExecuteErrsPreserves == ASSUME Core, ExecuteErrs PROVE Core'
  <1>1. TypeOK BY DEF Core
  <1>2. /\ call = "host" /\ answer = "error" /\ answer' = "none" /\ Reports("unknown") /\ EngineOnly
        /\ reply' = [reply EXCEPT ![effect] = "err"]
        /\ UNCHANGED <<phase, start, effects, effect, pending, token, events, failure, port>>
    BY DEF ExecuteErrs, Drops
  <1>3. call' = "over" BY <1>2 DEF Reports
  <1>4. HostServes' /\ step = "effect" /\ pending' = 0 BY <1>2, <1>3, AnswerServes
  <1>5. failure' \in BOOLEAN /\ token' \in BOOLEAN /\ port' \in Ports BY <1>1, <1>2, Typed
  <1> DEFINE code == "unknown"  r == "err"
  <1>6. /\ code \in Statuses /\ Reports(code) /\ code # "denied" /\ r \in {"ok", "err"} /\ r # "ok"
        /\ reply' = [reply EXCEPT ![effect] = r]
    BY <1>2 DEF Statuses
  <1> HIDE DEF code, r
  <1>7. QED BY <1>2, <1>3, <1>4, <1>5, <1>6, ReportPreserves

(* The host has claimed what it observes, so the agent may be told.        *)
LEMMA ExecuteReturnsPreserves == ASSUME Core, ExecuteReturns PROVE Core'
  <1>1. TypeOK /\ HostTellsOfEffect BY DEF Core, HostSafe
  <1>2. /\ call = "host" /\ answer = "observed" /\ answer' = "none" /\ EngineOnly
        /\ UNCHANGED <<phase, start, effects, effect, pending, token, events, port>>
    BY DEF ExecuteReturns
  <1>3. PICK reported \in {"executed", "failed", "unknown"}, changed \in BOOLEAN, text \in BOOLEAN :
          LET misread == op[effect] = "read" /\ changed
              status  == IF misread THEN "unknown" ELSE reported
              mute    == op[effect] = "read" /\ status = "executed" /\ ~text
          IN /\ Reports(status)
             /\ failure' = (failure \/ misread \/ mute)
             /\ reply' = [reply EXCEPT ![effect] = IF Confirms(status, text) THEN "ok" ELSE "err"]
    BY DEF ExecuteReturns
  <1> DEFINE status == IF op[effect] = "read" /\ changed THEN "unknown" ELSE reported
             r == IF Confirms(status, text) THEN "ok" ELSE "err"
  <1>4. /\ Reports(status) /\ failure' \in BOOLEAN
        /\ reply' = [reply EXCEPT ![effect] = r]
    BY <1>1, <1>3, Typed
  <1>5. /\ status \in Statuses /\ status # "denied" /\ r \in {"ok", "err"}
        /\ r = "ok" => status = "executed"
    BY DEF Statuses, Confirms
  <1> HIDE DEF status, r
  <1>6. call' \in {"ready", "over"} BY <1>4 DEF Reports
  <1>7. HostServes' /\ step = "effect" /\ pending' = 0 BY <1>2, <1>6, AnswerServes
  <1>8. token' \in BOOLEAN /\ port' \in Ports BY <1>1, <1>2, Typed
  <1>9. effect \in claims BY <1>1, <1>2 DEF HostTellsOfEffect
  <1>10. QED BY <1>2, <1>4, <1>5, <1>7, <1>8, <1>9, ReportPreserves

(* The wait is given up: the port is quarantined and the run ends.         *)
LEMMA QuarantinesPreserves == ASSUME Core, Quarantines PROVE Core'
  <1>1. /\ TypeOK /\ RequestsSafe /\ EngineSafe /\ EffectUnderWay /\ CancelKnown
        /\ HostServes /\ HostTellsOfEffect /\ WireOrdered /\ ReportsSafe
    BY DEF Core, EngineSafe, HostSafe
  <1>2. /\ UNCHANGED <<phase, start, effects, effect, pending, session, announced, wire, host, result,
                       claims, outcome, canceller, events, op, failure, answer, expired>>
        /\ call \in {"quit_usage", "quit_host"} /\ token' = TRUE /\ EngineOnly
        /\ port' = [port EXCEPT !.quarantined = TRUE]
    BY DEF Quarantines, EngineOnly, sessionVars, hostVars
  <1>3. /\ port' \in Ports /\ port'.queue = port.queue /\ port'.busy = port.busy
        /\ port'.due = port.due /\ port'.quarantined = TRUE
    BY <1>1, <1>2, Typed DEF Ports
  <1>4. failure' \in BOOLEAN /\ token' \in BOOLEAN BY <1>1, <1>2, Typed
  <1>5. call' = "over" BY DEF Quarantines, Ends, Reports
  <1>6. HostServes' BY <1>1, <1>2, <1>3, <1>5 DEF HostServes, Engaged, Ended
  <1>7. CASE call = "quit_host"
    <2>1. Reports("unknown") /\ reply' = [reply EXCEPT ![effect] = "err"]
      BY <1>7 DEF Quarantines, Drops
    <2>2. step = "effect" /\ pending' = 0 BY <1>1, <1>2, <1>7 DEF EffectUnderWay
    <2> DEFINE code == "unknown"  r == "err"
    <2>3. /\ code \in Statuses /\ Reports(code) /\ code # "denied" /\ r \in {"ok", "err"} /\ r # "ok"
          /\ reply' = [reply EXCEPT ![effect] = r]
      BY <2>1 DEF Statuses
    <2> HIDE DEF code, r
    <2>4. QED BY <1>2, <1>3, <1>4, <1>5, <1>6, <1>7, <2>2, <2>3, ReportPreserves
  <1>8. CASE call = "quit_usage"
    <2>1. step' = "none" /\ UNCHANGED <<reports, reply>> BY <1>8 DEF Quarantines, Ends
    <2>2. TypeOK' BY <1>1, <1>2, <1>3, <1>5, <2>1 DEF TypeOK, Calls, Ports
    <2>3. RequestsSafe' BY <1>1, <1>2, <2>1, RequestsKept
    <2>4. EngineSafe'
      BY <1>1, <1>2, <1>5, <2>1
      DEF EngineSafe, EffectUnderWay, FinishExecuted, CancelStepExplicit, CancelKnown, Engaged, Ended
    <2>5. HostSafe' BY <1>5, <1>6 DEF HostSafe, HostTellsOfEffect
    <2>6. WireOrdered' BY <1>1, <1>2, <2>1 DEF WireOrdered
    <2>7. ReportsSafe' BY <1>1, <1>2, <2>1 DEF ReportsSafe, DeniedNeverClaimed, ToldOnlyExecuted
    <2>8. QED BY <2>2, <2>3, <2>4, <2>5, <2>6, <2>7 DEF Core
  <1>9. QED BY <1>2, <1>7, <1>8

LEMMA EnginePreserves == ASSUME Core, Engine PROVE Core'
  BY PlanPreserves, NextEffectPreserves, EventCancelledPreserves, EventTimesOutPreserves,
     PlanReadyPreserves, EffectPreparedPreserves, EffectRefusedPreserves, AgentFinishedPreserves,
     EventFaultPreserves, MeterFailsPreserves, MeterBeginsPreserves, MeterReturnsPreserves,
     EngineStopsPreserves, ExecuteRefusesPreserves, ExecuteBeginsPreserves, ExecuteDeclinedPreserves,
     ExecuteErrsPreserves, ExecuteReturnsPreserves, HostGivenUpPreserves, QuarantinesPreserves,
     ClaimsPreserves, CloseStartsPreserves, CloseEndsPreserves
  DEF Engine

----------------------------------------------------------------------------
(* The host's thread and the clock.                                        *)

Answers == {"none", "declined", "observed", "ok", "error"}

(* The host may claim the effect the engine waits for, and nothing else.   *)
LEMMA HostPreservesRest ==
  ASSUME Core, HostOnly, HostServes', HostTellsOfEffect',
         port' \in Ports, result' \in Answers, answer' \in Answers,
         host' \in {"idle", "execute", "usage", "free", "reply", "dead"},
         \/ UNCHANGED claims
         \/ claims' = claims \cup {effect} /\ call = "host"
  PROVE  Core'
  <1>1. /\ TypeOK /\ EffectUnderWay /\ CancelKnown /\ FinishExecuted /\ CancelStepExplicit
        /\ AskedInOrder /\ EventsFresh /\ WireOrdered /\ DeniedNeverClaimed /\ ToldOnlyExecuted
    BY DEF Core, EngineSafe, RequestsSafe, ReportsSafe
  <1>2. UNCHANGED <<call, step, phase, start, effects, effect, pending, reports, session, announced,
                    wire, outcome, canceller, token, events, op, reply, failure, expired>>
    BY DEF HostOnly, engineVars, sessionVars, cancelVars
  <1>3. Asked' = Asked /\ Last' = Last BY <1>2, AskedKept
  <1>4. CASE UNCHANGED claims
    <2>1. TypeOK' BY <1>1, <1>2, <1>4 DEF TypeOK, Ports, Answers
    <2>2. RequestsSafe' BY <1>1, <1>2, <1>3, <1>4 DEF RequestsSafe, AskedInOrder, EventsFresh
    <2>3. EngineSafe' BY <1>1, <1>2, <1>4
          DEF EngineSafe, EffectUnderWay, FinishExecuted, CancelStepExplicit, CancelKnown
    <2>4. WireOrdered' BY <1>1, <1>2 DEF WireOrdered
    <2>5. ReportsSafe' BY <1>1, <1>2, <1>4 DEF ReportsSafe, DeniedNeverClaimed, ToldOnlyExecuted
    <2>6. QED BY <2>1, <2>2, <2>3, <2>4, <2>5 DEF Core, HostSafe
  <1>5. CASE claims' = claims \cup {effect} /\ call = "host"
    <2>1. step = "effect" /\ pending = 0 BY <1>1, <1>5 DEF EffectUnderWay
    <2>2. effect \in Requests /\ reports[effect] = "none" /\ reply[effect] # "none"
      BY <2>1, EffectFacts
    <2>3. TypeOK'
      <3>1. claims' \subseteq Requests BY <1>1, <1>5, <2>2 DEF TypeOK
      <3>2. QED BY <1>1, <1>2, <3>1 DEF TypeOK, Ports, Answers
    <2>4. AskedInOrder' BY <1>1, <1>2, <1>3, <1>5, <2>2 DEF AskedInOrder
    <2>5. EventsFresh' BY <1>1, <1>2, <1>3, <1>5 DEF EventsFresh
    <2>6. EffectUnderWay' BY <1>1, <1>2, <1>5, <2>1 DEF EffectUnderWay, Engaged
    <2>7. EngineSafe'
      BY <1>1, <1>2, <2>1, <2>6 DEF EngineSafe, FinishExecuted, CancelStepExplicit, CancelKnown
    <2>8. WireOrdered' BY <1>1, <1>2 DEF WireOrdered
    <2>9. ReportsSafe'
      BY <1>1, <1>2, <1>5, <2>2 DEF ReportsSafe, DeniedNeverClaimed, ToldOnlyExecuted
    <2>10. QED BY <2>3, <2>4, <2>5, <2>7, <2>8, <2>9 DEF Core, HostSafe, RequestsSafe
  <1>6. QED BY <1>4, <1>5

LEMMA HostTyped ==
  ASSUME TypeOK
  PROVE  /\ port \in Ports /\ result \in Answers /\ answer \in Answers
         /\ host \in {"idle", "execute", "usage", "free", "reply", "dead"}
  BY DEF TypeOK, Ports, Answers

(* The host claims an effect only while the engine waits for it.           *)
LEMMA ClaimAttended ==
  ASSUME Core, port.queue = "execute", ~port.due, ~port.quarantined
  PROVE  call = "host" /\ effect \notin claims /\ step = "effect"
  <1>1. HostServes /\ HostTellsOfEffect /\ EffectUnderWay BY DEF Core, HostSafe, EngineSafe
  <1>2. host = "idle" BY <1>1 DEF HostServes
  <1>3. call = "host" BY <1>1, <1>2 DEF HostServes
  <1>4. QED BY <1>1, <1>3 DEF HostTellsOfEffect, EffectUnderWay

LEMMA HostTakesExecutePreserves == ASSUME Core, HostTakesExecute PROVE Core'
  <1>1. TypeOK /\ HostServes /\ HostTellsOfEffect BY DEF Core, HostSafe
  <1>2. /\ UNCHANGED <<call, effect, answer>> /\ HostOnly
        /\ host = "idle" /\ port.queue = "execute" /\ port' = [port EXCEPT !.queue = "none"]
    BY DEF HostTakesExecute, HostOnly, engineVars
  <1>3. /\ port' \in Ports /\ port'.queue = "none" /\ port'.busy = port.busy
        /\ port'.due = port.due /\ port'.quarantined = port.quarantined
    BY <1>1, <1>2, HostTyped DEF Ports
  <1>4. port.busy /\ answer = "none" /\ result = "none" BY <1>1, <1>2 DEF HostServes
  <1>5. CASE Claimable
    <2>1. claims' = claims \cup {effect} /\ host' = "execute" /\ UNCHANGED result
      BY <1>5 DEF HostTakesExecute
    <2>2. call = "host" BY <1>2, <1>5, ClaimAttended DEF Claimable
    <2>3. HostServes' BY <1>1, <1>2, <1>3, <1>4, <2>1, <2>2 DEF HostServes, Engaged
    <2>4. HostTellsOfEffect' BY <1>1, <1>2, <1>3, <1>4, <2>1, <2>2 DEF HostTellsOfEffect
    <2>5. QED BY <1>1, <1>2, <1>3, <2>1, <2>2, <2>3, <2>4, HostPreservesRest, HostTyped
  <1>6. CASE ~Claimable
    <2>1. host' = "free" /\ result' = "declined" /\ UNCHANGED claims
      BY <1>6 DEF HostTakesExecute
    <2>2. HostServes' BY <1>1, <1>2, <1>3, <1>4, <2>1 DEF HostServes, Engaged
    <2>3. HostTellsOfEffect' BY <1>1, <1>2, <1>3, <1>4, <2>1 DEF HostTellsOfEffect
    <2>4. result' \in Answers BY <2>1 DEF Answers
    <2>5. QED BY <1>1, <1>2, <1>3, <2>1, <2>2, <2>3, <2>4, HostPreservesRest, HostTyped
  <1>7. QED BY <1>5, <1>6

LEMMA HostTakesUsagePreserves == ASSUME Core, HostTakesUsage PROVE Core'
  <1>1. TypeOK /\ HostServes /\ HostTellsOfEffect BY DEF Core, HostSafe
  <1>2. /\ UNCHANGED <<call, effect, answer, claims>> /\ HostOnly
        /\ host = "idle" /\ port.queue = "usage" /\ port' = [port EXCEPT !.queue = "none"]
        /\ \/ host' = "free" /\ result' = "error"
           \/ host' = "usage" /\ result' = result /\ ~port.quarantined
    BY DEF HostTakesUsage, HostOnly, engineVars
  <1>3. /\ port' \in Ports /\ port'.queue = "none" /\ port'.busy = port.busy
        /\ port'.due = port.due /\ port'.quarantined = port.quarantined
    BY <1>1, <1>2, HostTyped DEF Ports
  <1>4. port.busy /\ answer = "none" /\ result = "none" BY <1>1, <1>2 DEF HostServes
  <1>5. result' \in Answers BY <1>2, <1>4 DEF Answers
  <1>6. HostServes' BY <1>1, <1>2, <1>3, <1>4 DEF HostServes, Engaged
  <1>7. HostTellsOfEffect' BY <1>1, <1>2, <1>3, <1>4 DEF HostTellsOfEffect
  <1>8. QED BY <1>1, <1>2, <1>3, <1>5, <1>6, <1>7, HostPreservesRest, HostTyped

LEMMA CallbackPreserves == ASSUME Core, CallbackReturns \/ CallbackPanics PROVE Core'
  <1>1. TypeOK /\ HostServes /\ HostTellsOfEffect BY DEF Core, HostSafe
  <1>2. /\ UNCHANGED <<call, effect, answer, claims, port>> /\ HostOnly
        /\ host \in {"execute", "usage"}
        /\ \/ host' = "free" /\ result' \in {"error", IF host = "usage" THEN "ok" ELSE "observed"}
           \/ host' = "dead" /\ result' = result
    BY DEF CallbackReturns, CallbackPanics, HostOnly, engineVars
  <1>3. result = "none" BY <1>1, <1>2 DEF HostServes
  <1>4. result' \in Answers BY <1>2, <1>3 DEF Answers
  <1>5. HostServes' BY <1>1, <1>2 DEF HostServes, Engaged
  <1>6. HostTellsOfEffect' BY <1>1, <1>2, <1>3 DEF HostTellsOfEffect
  <1>7. QED BY <1>1, <1>2, <1>4, <1>5, <1>6, HostPreservesRest, HostTyped

LEMMA HostFreesPreserves == ASSUME Core, HostFrees PROVE Core'
  <1>1. TypeOK /\ HostServes /\ HostTellsOfEffect BY DEF Core, HostSafe
  <1>2. /\ UNCHANGED <<call, effect, answer, claims, result>> /\ HostOnly
        /\ host = "free" /\ host' = "reply" /\ port' = [port EXCEPT !.busy = FALSE]
    BY DEF HostFrees, HostOnly, engineVars
  <1>3. /\ port' \in Ports /\ port'.queue = port.queue /\ port'.busy = FALSE
        /\ port'.due = port.due /\ port'.quarantined = port.quarantined
    BY <1>1, <1>2, HostTyped DEF Ports
  <1>4. port.queue = "none" /\ answer = "none" BY <1>1, <1>2, HostTyped DEF HostServes, Ports
  <1>5. HostServes' BY <1>1, <1>2, <1>3, <1>4 DEF HostServes, Engaged
  <1>6. HostTellsOfEffect' BY <1>1, <1>2, <1>3 DEF HostTellsOfEffect
  <1>7. QED BY <1>1, <1>2, <1>3, <1>5, <1>6, HostPreservesRest, HostTyped

(* The reply reaches the engine only while it waits.                       *)
LEMMA HostRepliesPreserves == ASSUME Core, HostReplies PROVE Core'
  <1>1. TypeOK /\ HostServes /\ HostTellsOfEffect BY DEF Core, HostSafe
  <1>2. /\ UNCHANGED <<call, effect, claims, port>> /\ HostOnly
        /\ host = "reply" /\ host' = "idle" /\ result' = "none" /\ answer' = Delivered
    BY DEF HostReplies, HostOnly, engineVars
  <1>3. port.queue = "none" /\ answer = "none" /\ ~port.busy
    BY <1>1, <1>2, HostTyped DEF HostServes, Ports
  <1>4. answer' \in Answers /\ (answer' # "none" => call \in {"usage", "host"} /\ answer' = result)
    BY <1>1, <1>2, <1>3, HostTyped DEF Delivered, Answers
  <1>5. result' \in Answers BY <1>2 DEF Answers
  <1>6. HostServes' BY <1>1, <1>2, <1>3, <1>4 DEF HostServes, Engaged
  <1>7. HostTellsOfEffect' BY <1>1, <1>2, <1>3, <1>4 DEF HostTellsOfEffect
  <1>8. QED BY <1>1, <1>2, <1>4, <1>5, <1>6, <1>7, HostPreservesRest, HostTyped

LEMMA HostThreadPreserves == ASSUME Core, HostThread PROVE Core'
  BY HostTakesExecutePreserves, HostTakesUsagePreserves, HostFreesPreserves, HostRepliesPreserves
  DEF HostThread

LEMMA DuePreserves == ASSUME Core, Due PROVE Core'
  <1>1. TypeOK /\ HostServes /\ HostTellsOfEffect BY DEF Core, HostSafe
  <1>2. /\ UNCHANGED <<call, effect, claims, answer, host, result>> /\ HostOnly
        /\ port' = [port EXCEPT !.due = TRUE]
    BY DEF Due, Outside, HostOnly, engineVars, hostVars
  <1>3. /\ port' \in Ports /\ port'.queue = port.queue /\ port'.busy = port.busy
        /\ port'.due = TRUE /\ port'.quarantined = port.quarantined
    BY <1>1, <1>2, HostTyped DEF Ports
  <1>4. HostServes' BY <1>1, <1>2, <1>3 DEF HostServes, Engaged
  <1>5. HostTellsOfEffect' BY <1>1, <1>2, <1>3 DEF HostTellsOfEffect
  <1>6. QED BY <1>1, <1>2, <1>3, <1>4, <1>5, HostPreservesRest, HostTyped

----------------------------------------------------------------------------
(* The session worker and the agent.                                       *)

Sessions == {"off", "run", "finished", "failed", "faulting", "gone"}

(* What the session does reaches the engine only through the channel.      *)
LEMMA SessionPreservesRest ==
  ASSUME Core, SessionOnly, RequestsSafe', WireOrdered', UNCHANGED reply,
         events' \in Seq(Events), wire' \in Wires, session' \in Sessions,
         announced' \in BOOLEAN, failure' \in BOOLEAN
  PROVE  Core'
  <1>1. /\ TypeOK /\ EngineSafe /\ HostServes /\ HostTellsOfEffect /\ ReportsSafe
    BY DEF Core, HostSafe
  <1>2. UNCHANGED <<call, step, phase, start, effects, effect, pending, reports, host, result, claims,
                    outcome, canceller, token, op, port, answer, expired, reply>>
    BY DEF SessionOnly, engineVars, hostVars, cancelVars
  <1>3. TypeOK' BY <1>1, <1>2 DEF TypeOK, Wires, Sessions
  <1>4. EngineSafe'
    BY <1>1, <1>2 DEF EngineSafe, EffectUnderWay, FinishExecuted, CancelStepExplicit, CancelKnown
  <1>5. HostSafe' BY <1>1, <1>2 DEF HostSafe, HostServes, HostTellsOfEffect
  <1>6. ReportsSafe' BY <1>1, <1>2 DEF ReportsSafe, DeniedNeverClaimed, ToldOnlyExecuted
  <1>7. QED BY <1>3, <1>4, <1>5, <1>6 DEF Core

(* The wire changes, the requests that are open at most fewer.             *)
LEMMA WirePreserves ==
  ASSUME Core, SessionOnly, UNCHANGED <<session, announced, events, reply>>, failure' \in BOOLEAN,
         wire' \in Wires, WireOrdered', wire'.incoming \subseteq wire.incoming,
         \A n \in wire.incoming \ wire'.incoming : reply[n] # "open",
         wire.phase = "Terminal" => wire'.phase = "Terminal"
  PROVE  Core'
  <1>1. TypeOK /\ AskedInOrder /\ EventsFresh BY DEF Core, RequestsSafe
  <1>2. UNCHANGED <<effects, effect, reports, claims>> BY DEF SessionOnly, engineVars, hostVars
  <1>3. Asked' = Asked /\ Last' = Last BY AskedKept
  <1>4. AskedInOrder' BY <1>1, <1>2, <1>3 DEF AskedInOrder
  <1>5. EventsFresh' BY <1>1, <1>2, <1>3 DEF EventsFresh
  <1>6. session' \in Sessions /\ announced' \in BOOLEAN /\ events' \in Seq(Events)
    BY <1>1 DEF TypeOK, Sessions
  <1>7. QED BY <1>4, <1>5, <1>6, SessionPreservesRest DEF RequestsSafe

(* An event that asks for nothing is told, and the session may go on.      *)
LEMMA TellsPreserves ==
  ASSUME Core, SessionOnly, NEW e \in Events, e.kind # "effect",
         e.kind = "finished" => wire.phase = "Terminal", Put(e), UNCHANGED <<reply, wire>>,
         session' \in Sessions, announced' \in BOOLEAN, failure' \in BOOLEAN
  PROVE  Core'
  <1>1. TypeOK /\ RequestsSafe /\ WireOrdered BY DEF Core
  <1>2. UNCHANGED <<effects, effect, reports, claims, step>> BY DEF SessionOnly, engineVars, hostVars
  <1>3. RequestsSafe' /\ events' \in Seq(Events) BY <1>1, <1>2, TellPreserves
  <1>4. wire' \in Wires BY <1>1, Typed
  <1>5. WireOrdered' BY <1>1, <1>2 DEF WireOrdered
  <1>6. QED BY <1>3, <1>4, <1>5, SessionPreservesRest

LEMMA EventFacts ==
  /\ \A kind \in {"ready", "fault"} : Event(kind) \in Events /\ Event(kind).kind = kind
  /\ \A ended \in BOOLEAN :
       /\ [Event("finished") EXCEPT !.turnEnded = ended] \in Events
       /\ [Event("finished") EXCEPT !.turnEnded = ended].kind = "finished"
  /\ \A n \in Requests :
       /\ [Event("effect") EXCEPT !.request = n] \in Events
       /\ [Event("effect") EXCEPT !.request = n].kind = "effect"
       /\ [Event("effect") EXCEPT !.request = n].request = n
  <1>1. 0 \in 0..MaxRequests /\ Requests \subseteq 0..MaxRequests BY RequestBound DEF Requests
  <1>2. \A kind \in {"ready", "fault"} : Event(kind) \in Events /\ Event(kind).kind = kind
    BY <1>1 DEF Event, Events
  <1>3. \A ended \in BOOLEAN :
          /\ [Event("finished") EXCEPT !.turnEnded = ended] \in Events
          /\ [Event("finished") EXCEPT !.turnEnded = ended].kind = "finished"
    BY <1>1 DEF Event, Events
  <1>4. \A n \in Requests :
          /\ [Event("effect") EXCEPT !.request = n] \in Events
          /\ [Event("effect") EXCEPT !.request = n].kind = "effect"
          /\ [Event("effect") EXCEPT !.request = n].request = n
    BY <1>1 DEF Event, Events
  <1>5. QED BY <1>2, <1>3, <1>4

LEMMA SessionTyped ==
  ASSUME TypeOK
  PROVE  session \in Sessions /\ announced \in BOOLEAN /\ failure \in BOOLEAN /\ wire \in Wires
  BY DEF TypeOK, Sessions, Wires

LEMMA SessionSendsPreserves == ASSUME Core, SessionSends PROVE Core'
  <1>1. TypeOK /\ WireOrdered BY DEF Core
  <1>2. wire \in Wires /\ failure \in BOOLEAN BY <1>1, SessionTyped
  <1>3. SessionOnly /\ UNCHANGED <<session, announced, events, reply, failure, step>>
    BY DEF SessionSends, SessionOnly, engineVars
  <1>4. /\ wire' \in Wires /\ wire'.incoming = wire.incoming /\ wire'.tool = wire.tool
        /\ wire.phase # "Terminal"
        /\ \/ wire'.phase = "New" /\ wire'.outgoing = "initialize"
           \/ wire'.phase = "Initialized" /\ wire'.outgoing = "session/new"
           \/ wire'.phase = "Prompt" /\ wire'.outgoing = "session/prompt"
    <2>1. CASE wire.phase = "New" /\ wire' = [wire EXCEPT !.outgoing = "initialize"]
      BY <1>2, <2>1 DEF Wires
    <2>2. CASE wire.phase = "Initialized" /\ wire' = [wire EXCEPT !.outgoing = "session/new"]
      BY <1>2, <2>2 DEF Wires
    <2>3. CASE /\ wire.phase = "Ready"
               /\ wire' = [wire EXCEPT !.outgoing = "session/prompt", !.phase = "Prompt"]
      BY <1>2, <2>3 DEF Wires
    <2>4. QED BY <2>1, <2>2, <2>3 DEF SessionSends
  <1>5. WireOrdered' BY <1>1, <1>3, <1>4 DEF WireOrdered
  <1>6. QED BY <1>2, <1>3, <1>4, <1>5, WirePreserves

LEMMA SessionAnnouncesPreserves == ASSUME Core, SessionAnnounces PROVE Core'
  <1>1. TypeOK BY DEF Core
  <1>2. /\ SessionOnly /\ UNCHANGED <<session, wire, reply, failure>> /\ announced' = TRUE
        /\ Put(Event("ready"))
    BY DEF SessionAnnounces
  <1>3. Event("ready") \in Events /\ Event("ready").kind = "ready" BY EventFacts
  <1>4. announced' \in BOOLEAN BY <1>2
  <1> DEFINE e == Event("ready")
  <1>5. e \in Events /\ e.kind # "effect" /\ e.kind # "finished" /\ Put(e) BY <1>2, <1>3
  <1> HIDE DEF e
  <1>6. QED BY <1>1, <1>2, <1>4, <1>5, TellsPreserves, SessionTyped

LEMMA SessionAnswersPreserves == ASSUME Core, SessionAnswers PROVE Core'
  <1>1. TypeOK /\ WireOrdered BY DEF Core
  <1>2. wire \in Wires /\ failure \in BOOLEAN BY <1>1, SessionTyped
  <1>3. SessionOnly /\ UNCHANGED <<session, announced, events, reply, failure, step>>
    BY DEF SessionAnswers, SessionOnly, engineVars
  <1>4. PICK n \in wire.incoming :
          reply[n] \in {"ok", "err"} /\ wire' = [wire EXCEPT !.incoming = @ \ {n}]
    BY DEF SessionAnswers
  <1>5. /\ wire' \in Wires /\ wire'.incoming = wire.incoming \ {n} /\ wire'.tool = wire.tool
        /\ wire'.phase = wire.phase /\ wire'.outgoing = wire.outgoing
    BY <1>2, <1>4 DEF Wires
  <1>6. WireOrdered' BY <1>1, <1>3, <1>5 DEF WireOrdered
  <1>7. QED BY <1>2, <1>3, <1>4, <1>5, <1>6, WirePreserves

LEMMA SessionFinishesPreserves == ASSUME Core, SessionFinishes PROVE Core'
  <1>1. TypeOK BY DEF Core
  <1>2. /\ SessionOnly /\ UNCHANGED <<announced, wire, reply, failure>> /\ session' = "finished"
        /\ wire.phase = "Terminal"
    BY DEF SessionFinishes
  <1>3. PICK ended \in BOOLEAN : Put([Event("finished") EXCEPT !.turnEnded = ended])
    BY DEF SessionFinishes
  <1> DEFINE e == [Event("finished") EXCEPT !.turnEnded = ended]
  <1>4. e \in Events /\ e.kind = "finished" /\ Put(e) BY <1>3, EventFacts
  <1> HIDE DEF e
  <1>5. session' \in Sessions BY <1>2 DEF Sessions
  <1>6. QED BY <1>1, <1>2, <1>4, <1>5, TellsPreserves, SessionTyped

(* The session stops without a word.                                       *)
LEMMA SessionMovesPreserves == ASSUME Core, SessionFails \/ SessionStops PROVE Core'
  <1>1. TypeOK /\ RequestsSafe /\ WireOrdered BY DEF Core
  <1>2. SessionOnly /\ UNCHANGED <<announced, wire, events, reply>>
    BY DEF SessionFails, SessionStops
  <1>3. UNCHANGED <<effects, effect, reports, claims, step>>
    BY <1>2 DEF SessionOnly, engineVars, hostVars
  <1>4. session' \in Sessions BY DEF SessionFails, SessionStops, Sessions
  <1>5. failure' \in BOOLEAN BY <1>1, SessionTyped DEF SessionFails, SessionStops
  <1>6. RequestsSafe' BY <1>1, <1>2, <1>3, RequestsKept
  <1>7. WireOrdered' BY <1>1, <1>2, <1>3 DEF WireOrdered
  <1>8. announced' \in BOOLEAN /\ wire' \in Wires BY <1>1, <1>2, SessionTyped
  <1>9. events' \in Seq(Events) BY <1>1, <1>2, Typed
  <1>10. QED BY <1>2, <1>4, <1>5, <1>6, <1>7, <1>8, <1>9, SessionPreservesRest

LEMMA SessionFaultsPreserves == ASSUME Core, SessionFaults PROVE Core'
  <1>1. TypeOK BY DEF Core
  <1>2. /\ SessionOnly /\ UNCHANGED <<announced, wire, reply>> /\ session' = "gone" /\ failure' = TRUE
        /\ Put(Event("fault"))
    BY DEF SessionFaults
  <1>3. Event("fault") \in Events /\ Event("fault").kind = "fault" BY EventFacts
  <1>4. session' \in Sessions /\ failure' \in BOOLEAN BY <1>2 DEF Sessions
  <1> DEFINE e == Event("fault")
  <1>5. e \in Events /\ e.kind # "effect" /\ e.kind # "finished" /\ Put(e) BY <1>2, <1>3
  <1> HIDE DEF e
  <1>6. QED BY <1>1, <1>2, <1>4, <1>5, TellsPreserves, SessionTyped

LEMMA SessionPreserves == ASSUME Core, Session PROVE Core'
  BY SessionSendsPreserves, SessionAnnouncesPreserves, SessionAnswersPreserves,
     SessionFinishesPreserves, SessionMovesPreserves, SessionFaultsPreserves
  DEF Session

(* The guard ends the stream.                                              *)
LEMMA RejectsPreserves ==
  ASSUME Core, SessionOnly, Rejects, UNCHANGED <<session, announced, events, reply>> PROVE Core'
  <1>1. TypeOK /\ WireOrdered BY DEF Core
  <1>2. wire \in Wires BY <1>1, SessionTyped
  <1>3. UNCHANGED step /\ failure' \in BOOLEAN BY DEF Rejects, SessionOnly, engineVars
  <1>4. /\ wire' \in Wires /\ wire'.incoming = wire.incoming /\ wire'.tool = wire.tool
        /\ wire'.phase = wire.phase /\ wire'.outgoing = wire.outgoing
    BY <1>2 DEF Rejects, Wires
  <1>5. WireOrdered' BY <1>1, <1>3, <1>4 DEF WireOrdered
  <1>6. QED BY <1>3, <1>4, <1>5, WirePreserves

(* A response moves the session on; the turn ends with nothing open.       *)
LEMMA AgentRespondsPreserves == ASSUME Core, AgentResponds PROVE Core'
  <1>1. TypeOK /\ WireOrdered BY DEF Core
  <1>2. wire \in Wires /\ failure \in BOOLEAN BY <1>1, SessionTyped
  <1>3. /\ SessionOnly /\ UNCHANGED <<session, announced, events, reply, step>>
        /\ wire.outgoing # "none"
    BY DEF AgentResponds, SessionOnly, engineVars
  <1>4. CASE wire.outgoing = "session/prompt" /\ ~TurnMayEnd
    BY <1>3, <1>4, RejectsPreserves DEF AgentResponds
  <1>5. CASE ~(wire.outgoing = "session/prompt" /\ ~TurnMayEnd)
    <2>1. /\ UNCHANGED failure
          /\ wire' = [wire EXCEPT !.outgoing = "none", !.phase =
                        CASE wire.outgoing = "initialize" -> "Initialized"
                          [] wire.outgoing = "session/new" -> "Ready"
                          [] OTHER -> "Terminal"]
      BY <1>5 DEF AgentResponds
    <2>2. wire.outgoing \in {"initialize", "session/new", "session/prompt"} BY <1>2, <1>3 DEF Wires
    <2>3. /\ wire' \in Wires /\ wire'.incoming = wire.incoming /\ wire'.tool = wire.tool
          /\ wire'.outgoing = "none"
          /\ wire'.phase = "Terminal" => TurnMayEnd
      <3>1. CASE wire.outgoing = "initialize" BY <1>2, <2>1, <3>1 DEF Wires
      <3>2. CASE wire.outgoing = "session/new" BY <1>2, <2>1, <3>2 DEF Wires
      <3>3. CASE wire.outgoing = "session/prompt" BY <1>2, <1>5, <2>1, <3>3 DEF Wires
      <3>4. QED BY <2>2, <3>1, <3>2, <3>3
    <2>4. wire.phase # "Terminal" BY <1>1, <2>2 DEF WireOrdered
    <2>5. WireOrdered' BY <1>1, <1>3, <2>3, <2>4 DEF WireOrdered, TurnMayEnd
    <2>6. QED BY <1>2, <1>3, <2>1, <2>3, <2>4, <2>5, WirePreserves
  <1>6. QED BY <1>4, <1>5

LEMMA AgentAsksPermissionPreserves == ASSUME Core, AgentAsksPermission PROVE Core'
  <1>1. TypeOK BY DEF Core
  <1>2. /\ SessionOnly /\ UNCHANGED <<session, announced, wire, reply>> /\ failure' = TRUE
        /\ Put(Event("fault"))
    BY DEF AgentAsksPermission, sessionVars
  <1>3. Event("fault") \in Events /\ Event("fault").kind = "fault" BY EventFacts
  <1>4. failure' \in BOOLEAN BY <1>2
  <1> DEFINE e == Event("fault")
  <1>5. e \in Events /\ e.kind # "effect" /\ e.kind # "finished" /\ Put(e) BY <1>2, <1>3
  <1> HIDE DEF e
  <1>6. QED BY <1>1, <1>2, <1>4, <1>5, TellsPreserves, SessionTyped

LEMMA AgentUpdatesToolPreserves == ASSUME Core, AgentUpdatesTool PROVE Core'
  <1>1. TypeOK /\ WireOrdered BY DEF Core
  <1>2. wire \in Wires /\ failure \in BOOLEAN BY <1>1, SessionTyped
  <1>3. /\ SessionOnly /\ UNCHANGED <<session, announced, events, reply, failure, step>>
        /\ wire.phase = "Prompt"
    BY DEF AgentUpdatesTool, SessionOnly, engineVars
  <1>4. /\ wire' \in Wires /\ wire'.incoming = wire.incoming
        /\ wire'.phase = wire.phase /\ wire'.outgoing = wire.outgoing
    BY <1>2 DEF AgentUpdatesTool, Wires
  <1>5. WireOrdered' BY <1>1, <1>3, <1>4 DEF WireOrdered
  <1>6. QED BY <1>2, <1>3, <1>4, <1>5, WirePreserves

LEMMA AgentBreaksPreserves == ASSUME Core, AgentBreaks PROVE Core'
  BY RejectsPreserves DEF AgentBreaks

(* The agent asks for an effect: with nothing open, the next request.      *)
LEMMA AgentAsksPreserves == ASSUME Core, AgentAsks PROVE Core'
  <1> DEFINE n == Cardinality(Asked) + 1
  <1>1. /\ TypeOK /\ AskedInOrder /\ EventsFresh /\ EngineSafe /\ HostServes /\ HostTellsOfEffect
        /\ WireOrdered /\ ReportsSafe
    BY DEF Core, HostSafe, RequestsSafe
  <1>2. /\ UNCHANGED <<call, step, phase, start, effects, effect, pending, reports, host, result, claims,
                       outcome, canceller, token, session, announced, port, answer, expired>>
        /\ Asked # Requests
    BY DEF AgentAsks, engineVars, hostVars, cancelVars
  <1>3. CASE ~Admits
    <2>1. Rejects /\ UNCHANGED <<op, reply, events>> BY <1>3 DEF AgentAsks
    <2>2. SessionOnly BY <1>2, <2>1 DEF SessionOnly, engineVars, hostVars, cancelVars
    <2>3. QED BY <1>2, <2>1, <2>2, RejectsPreserves
  <1>4. CASE Admits
    <2>1. /\ wire' = [wire EXCEPT !.incoming = @ \cup {n}]
          /\ op' \in {[op EXCEPT ![n] = o] : o \in {"read", "write"}}
          /\ reply' = [reply EXCEPT ![n] = "open"]
          /\ Put([Event("effect") EXCEPT !.request = n])
          /\ UNCHANGED failure
      BY <1>4 DEF AgentAsks
    <2>2. n = Last + 1 /\ n \in Requests /\ Last \in Nat /\ Asked = 1..Last
      BY <1>1, <1>2, AskedFacts DEF Last
    <2> HIDE DEF n
    <2>3. wire.phase = "Prompt" /\ wire.incoming = {} BY <1>4 DEF Admits
    <2>4. wire \in Wires BY <1>1, SessionTyped
    <2>5. /\ wire' \in Wires /\ wire'.incoming = {n} /\ wire'.tool = wire.tool
          /\ wire'.phase = wire.phase /\ wire'.outgoing = wire.outgoing
      BY <2>1, <2>2, <2>3, <2>4 DEF Wires
    <2>6. /\ reply' \in [Requests -> Replies] /\ reply'[n] = "open"
          /\ \A m \in Requests : m # n => reply'[m] = reply[m]
      BY <1>1, <2>1, <2>2 DEF TypeOK, Replies
    <2>7. reply[n] = "none"
      <3>1. n \notin Asked BY <2>2
      <3>2. QED BY <2>2, <3>1 DEF Asked
    <2>8. n \notin claims /\ n # effect /\ reports[n] = "none"
      BY <1>1, <2>2, <2>7 DEF AskedInOrder
    <2>9. Asked' = 1..n /\ Last' = n /\ n \in Nat
      <3>1. Asked' = Asked \cup {n} BY <2>2, <2>6 DEF Asked
      <3>2. Asked' = 1..n BY <2>2, <3>1
      <3>3. n \in Nat BY <2>2
      <3>4. Cardinality(1..n) = n BY <2>2, <3>3, FS_Interval
      <3>5. QED BY <3>2, <3>3, <3>4 DEF Last
    <2> DEFINE e == [Event("effect") EXCEPT !.request = n]
    <2>10. e \in Events /\ e.kind = "effect" /\ e.request = n /\ Put(e) BY <2>1, <2>2, EventFacts
    <2> HIDE DEF e
    <2>11. /\ events' \in Seq(Events)
           /\ \A i \in DOMAIN events' :
                \/ i \in DOMAIN events /\ events'[i] = events[i]
                \/ i = Len(events) + 1 /\ events'[i] = e
      BY <1>1, <2>10, PutFacts
    <2>12. \A m \in Requests : reply[m] # "open" BY <1>1, <2>3 DEF AskedInOrder
    <2>13. \A i \in DOMAIN events : events[i].kind # "effect" BY <1>1, <2>12 DEF EventsFresh
    <2>14. effects < n BY <1>1, <2>2 DEF AskedInOrder, TypeOK
    <2>15. TypeOK'
      <3>1. op' \in [Requests -> {"none", "read", "write"}] BY <1>1, <2>1, <2>2 DEF TypeOK
      <3>2. QED BY <1>1, <1>2, <2>1, <2>5, <2>6, <2>11, <3>1 DEF TypeOK, Wires, Replies
    <2>16. RequestsSafe'
      <3>1. AskedInOrder'
        <4>1. n \in 0..MaxRequests BY <2>2, RequestBound DEF Requests
        <4>2. \E k \in 0..MaxRequests : Asked' = 1..k BY <2>9, <4>1
        <4>3. effects' <= Last' BY <1>1, <1>2, <2>9, <2>14, RequestBound DEF TypeOK
        <4>4. \A m \in Requests : reply'[m] = "open" => m \in wire'.incoming
          BY <2>5, <2>6, <2>12
        <4>5. \A m \in Requests : reply'[m] = "none" =>
                m \notin claims' /\ m # effect' /\ reports'[m] = "none"
          BY <1>1, <1>2, <2>6 DEF AskedInOrder
        <4>6. wire'.incoming \subseteq {Last'} BY <2>5, <2>9
        <4>7. QED BY <4>2, <4>3, <4>4, <4>5, <4>6 DEF AskedInOrder
      <3>2. EventsFresh'
        <4>1. \A i \in DOMAIN events' : events'[i].kind = "effect" =>
                i = Len(events) + 1 /\ events'[i].request = n
          BY <2>10, <2>11, <2>13
        <4>2. \A i \in DOMAIN events' : events'[i].kind = "finished" => wire'.phase = "Terminal"
          BY <1>1, <2>5, <2>10, <2>11 DEF EventsFresh
        <4>3. QED BY <1>2, <2>2, <2>6, <2>8, <2>9, <2>14, <4>1, <4>2 DEF EventsFresh
      <3>3. QED BY <3>1, <3>2 DEF RequestsSafe
    <2>17. EngineSafe'
      BY <1>1, <1>2 DEF EngineSafe, EffectUnderWay, FinishExecuted, CancelStepExplicit, CancelKnown
    <2>18. HostSafe' BY <1>1, <1>2 DEF HostSafe, HostServes, HostTellsOfEffect
    <2>19. WireOrdered' BY <1>1, <1>2, <2>3, <2>5 DEF WireOrdered
    <2>20. ReportsSafe'
      <3>1. DeniedNeverClaimed' BY <1>1, <1>2 DEF ReportsSafe, DeniedNeverClaimed
      <3>2. ToldOnlyExecuted' BY <1>1, <1>2, <2>6 DEF ReportsSafe, ToldOnlyExecuted
      <3>3. QED BY <3>1, <3>2 DEF ReportsSafe
    <2>21. QED BY <2>15, <2>16, <2>17, <2>18, <2>19, <2>20 DEF Core
  <1>5. QED BY <1>3, <1>4

LEMMA AgentPreserves == ASSUME Core, Agent PROVE Core'
  BY AgentRespondsPreserves, AgentAsksPreserves, AgentAsksPermissionPreserves,
     AgentUpdatesToolPreserves, AgentBreaksPreserves
  DEF Agent

----------------------------------------------------------------------------
(* The canceller and the clock, the initial state, and the theorems.       *)

(* The handle's cancellation is decided before its token is.               *)
LEMMA CancellerPreserves == ASSUME Core, CancelWins \/ CancelToken \/ Expire PROVE Core'
  <1>1. /\ TypeOK /\ RequestsSafe /\ EffectUnderWay /\ FinishExecuted /\ CancelStepExplicit
        /\ CancelKnown /\ HostServes /\ HostTellsOfEffect /\ WireOrdered /\ ReportsSafe
    BY DEF Core, EngineSafe, HostSafe
  <1>2. /\ UNCHANGED <<call, step, phase, start, effects, effect, pending, reports, session, announced,
                       wire, host, result, claims, events, op, reply, failure, answer, port>>
        /\ \/ /\ outcome' = "Cancelled" /\ canceller' = "won" /\ UNCHANGED <<token, expired>>
           \/ /\ canceller = "won" /\ canceller' = "done" /\ token' = TRUE
              /\ UNCHANGED <<outcome, expired>>
           \/ UNCHANGED <<outcome, canceller, token>> /\ expired' = TRUE
    BY DEF CancelWins, CancelToken, Expire, Outside, engineVars, sessionVars, hostVars, cancelVars
  <1>3. TypeOK'
    <2>1. token' \in BOOLEAN /\ expired' \in BOOLEAN BY <1>1, <1>2 DEF TypeOK
    <2>2. QED BY <1>1, <1>2, <2>1 DEF TypeOK
  <1>4. RequestsSafe' BY <1>1, <1>2, RequestsKept
  <1>5. EngineSafe'
    <2>1. EffectUnderWay' /\ FinishExecuted' BY <1>1, <1>2 DEF EffectUnderWay, FinishExecuted
    <2>2. CancelStepExplicit' BY <1>1, <1>2 DEF CancelStepExplicit
    <2>3. CancelKnown' BY <1>1, <1>2 DEF CancelKnown
    <2>4. QED BY <2>1, <2>2, <2>3 DEF EngineSafe
  <1>6. HostSafe' BY <1>1, <1>2 DEF HostSafe, HostServes, HostTellsOfEffect
  <1>7. WireOrdered' BY <1>1, <1>2 DEF WireOrdered
  <1>8. ReportsSafe' BY <1>1, <1>2 DEF ReportsSafe, DeniedNeverClaimed, ToldOnlyExecuted
  <1>9. QED BY <1>3, <1>4, <1>5, <1>6, <1>7, <1>8 DEF Core

LEMMA StutterPreserves == ASSUME Core, UNCHANGED vars PROVE Core'
  <1>1. /\ TypeOK /\ RequestsSafe /\ EngineSafe /\ HostSafe /\ WireOrdered /\ ReportsSafe
    BY DEF Core
  <1>2. UNCHANGED <<call, step, phase, start, effects, effect, pending, reports, session, announced,
                    wire, host, result, claims, events, op, reply, failure, answer, port, outcome,
                    canceller, token, expired>>
    BY DEF vars, engineVars, sessionVars, hostVars, cancelVars
  <1>3. TypeOK' BY <1>1, <1>2 DEF TypeOK
  <1>4. RequestsSafe' BY <1>1, <1>2, RequestsKept
  <1>5. EngineSafe'
    BY <1>1, <1>2 DEF EngineSafe, EffectUnderWay, FinishExecuted, CancelStepExplicit, CancelKnown
  <1>6. HostSafe' BY <1>1, <1>2 DEF HostSafe, HostServes, HostTellsOfEffect
  <1>7. WireOrdered' BY <1>1, <1>2 DEF WireOrdered
  <1>8. ReportsSafe' BY <1>1, <1>2 DEF ReportsSafe, DeniedNeverClaimed, ToldOnlyExecuted
  <1>9. QED BY <1>3, <1>4, <1>5, <1>6, <1>7, <1>8 DEF Core

LEMMA CoreInit == ASSUME Init PROVE Core
  <1>1. Asked = 1..0 /\ Last = 0
    <2>1. Asked = 1..0 BY DEF Init, Asked
    <2>2. Cardinality(1..0) = 0 BY FS_Interval
    <2>3. QED BY <2>1, <2>2 DEF Last
  <1>2. events \in Seq(Events) /\ DOMAIN events = {} BY DEF Init
  <1>3. wire \in Wires /\ port \in Ports BY DEF Init, Wires, Ports
  <1>4. 0 \in 0..MaxRequests BY RequestBound
  <1>5. TypeOK
    <2>1. announced \in BOOLEAN /\ failure \in BOOLEAN /\ token \in BOOLEAN /\ expired \in BOOLEAN
      BY DEF Init
    <2>2. QED BY <1>2, <1>3, <1>4, <2>1 DEF Init, TypeOK, Wires, Ports, Calls
  <1>6. RequestsSafe
    <2>1. AskedInOrder BY <1>1, <1>4 DEF Init, AskedInOrder, Requests
    <2>2. EventsFresh BY <1>2 DEF EventsFresh
    <2>3. QED BY <2>1, <2>2 DEF RequestsSafe
  <1>7. EngineSafe
    BY DEF Init, EngineSafe, EffectUnderWay, FinishExecuted, CancelStepExplicit, CancelKnown
  <1>8. HostSafe BY DEF Init, HostSafe, HostServes, HostTellsOfEffect
  <1>9. WireOrdered BY DEF Init, WireOrdered
  <1>10. ReportsSafe BY DEF Init, ReportsSafe, DeniedNeverClaimed, ToldOnlyExecuted
  <1>11. QED BY <1>5, <1>6, <1>7, <1>8, <1>9, <1>10 DEF Core

LEMMA CoreNext == ASSUME Core, [Next]_vars PROVE Core'
  <1>1. CASE Next
    BY <1>1, EnginePreserves, HostThreadPreserves, SessionPreserves, DuePreserves, AgentPreserves,
       CallbackPreserves, CancellerPreserves, StutterPreserves
    DEF Next, Environment, Closed
  <1>2. CASE UNCHANGED vars BY <1>2, StutterPreserves
  <1>3. QED BY <1>1, <1>2

(* What the groups leave out follows from them: at most one request is     *)
(* open, none is handed over while one is pending, the port is free for the*)
(* next call, and an agent that has finished leaves nothing open.          *)
LEMMA CoreSuffices == ASSUME Core PROVE SessionInvariant
  <1>1. /\ TypeOK /\ AskedInOrder /\ EventsFresh /\ EffectUnderWay /\ FinishExecuted
        /\ CancelStepExplicit /\ CancelKnown /\ HostServes /\ HostTellsOfEffect /\ WireOrdered
        /\ DeniedNeverClaimed /\ ToldOnlyExecuted
    BY DEF Core, RequestsSafe, EngineSafe, HostSafe, ReportsSafe
  <1>2. PortFreeForCaller BY <1>1 DEF PortFreeForCaller, HostServes, Engaged
  <1>3. OneRequestAtATime
    <2> DEFINE open == {n \in Requests : reply[n] = "open"}
    <2>1. open \in SUBSET {Last} BY <1>1 DEF AskedInOrder
    <2>2. IsFiniteSet({Last}) /\ Cardinality({Last}) = 1 BY FS_Singleton
    <2> HIDE DEF open
    <2>3. Cardinality(open) <= 1 BY <2>1, <2>2, FS_Subset
    <2>4. call = "event" => pending = 0 BY <1>1, NothingPending
    <2>5. QED BY <2>3, <2>4 DEF OneRequestAtATime, open
  <1>4. FinishHasNoOpenWork
    BY <1>1 DEF FinishHasNoOpenWork, FinishExecuted, WireOrdered, EffectUnderWay
  <1>5. QED BY <1>1, <1>2, <1>3, <1>4 DEF SessionInvariant

LEMMA CoreCorrect == Spec => []Core
  <1>1. Init => Core BY CoreInit
  <1>2. Core /\ [Next]_vars => Core' BY CoreNext
  <1>3. QED BY <1>1, <1>2, PTL DEF Spec

(* What engine, session and host hold of the one request that may be open  *)
(* agrees in every reachable state of the adapter.                         *)
THEOREM SessionCorrect == Spec => []SessionInvariant
  <1>1. Core => SessionInvariant BY CoreSuffices
  <1>2. QED BY <1>1, CoreCorrect, PTL

(* The agent is told of success only for an effect that the host began and *)
(* that the engine was told was executed.                                  *)
THEOREM ToldCorrect == Spec => []ToldOnlyExecuted
  <1>1. SessionInvariant => ToldOnlyExecuted BY DEF SessionInvariant
  <1>2. QED BY <1>1, SessionCorrect, PTL

(* A run finishes only when no request and no tool of the agent is open and*)
(* every effect the host began was executed.                               *)
THEOREM FinishCorrect == Spec => []FinishHasNoOpenWork
  <1>1. SessionInvariant => FinishHasNoOpenWork BY DEF SessionInvariant
  <1>2. QED BY <1>1, SessionCorrect, PTL

(* The engine is told of a cancellation only when the host's handle won.   *)
THEOREM CancelCorrect == Spec => []CancelStepExplicit
  <1>1. SessionInvariant => CancelStepExplicit BY DEF SessionInvariant
  <1>2. QED BY <1>1, SessionCorrect, PTL

(* No step lets the host begin an effect that the engine no longer waits   *)
(* for: a command whose wait was given up is never carried out.            *)
THEOREM ClaimsCorrect == Spec => ClaimsAttended
  <1>1. Core /\ [Next]_vars => [claims' # claims => call = "host"]_vars
    <2> SUFFICES ASSUME Core, Next, claims' # claims PROVE call = "host"
      OBVIOUS
    <2>1. HostTakesExecute
      BY DEF Next, Environment, Closed, Engine, HostThread, Session, Agent, vars, hostVars, Due,
             EngineOnly, SessionOnly, Outside, HostTakesUsage, HostFrees, HostReplies,
             CallbackReturns, CallbackPanics, Expire, CancelWins, CancelToken,
             Plan, NextEffect, EventCancelled, EventTimesOut, PlanReady, EffectPrepared,
             EffectRefused, AgentFinished, EventFault, MeterFails, MeterBegins, MeterReturns,
             EngineStops, ExecuteRefuses, ExecuteBegins, ExecuteDeclined, ExecuteErrs,
             ExecuteReturns, HostGivenUp, Quarantines, Claims, CloseStarts, CloseEnds,
             SessionSends, SessionAnnounces, SessionAnswers, SessionFinishes, SessionFails,
             SessionStops, SessionFaults, AgentResponds, AgentAsks, AgentAsksPermission,
             AgentUpdatesTool, AgentBreaks
    <2>2. port.queue = "execute" /\ ~port.due /\ ~port.quarantined
      BY <2>1 DEF HostTakesExecute, Claimable
    <2>3. QED BY <2>2, ClaimAttended
  <1>2. QED BY <1>1, CoreCorrect, PTL DEF Spec, ClaimsAttended

=============================================================================
