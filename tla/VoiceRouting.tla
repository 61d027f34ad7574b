---------------------------- MODULE VoiceRouting -----------------------------
(***************************************************************************)
(* Voice turns and the way of their questions.  Every device, the Hub and  *)
(* its satellites, has a pipeline (assistant/turn_taking.py) that runs a   *)
(* turn per wake word: capture, transcribe, ask, speak.  A satellite asks  *)
(* the Hub, the Hub asks the relay for itself and for its satellites       *)
(* (main.py).  The handler of an answer is found by message type alone:    *)
(* there is one slot for answers from the relay in the Hub, and one for    *)
(* answers from the Hub in each satellite, which every question takes over.*)
(*                                                                         *)
(* A turn is named once and for all; its question, and the answer to that  *)
(* question, have its name.  The relay is external.                        *)
(***************************************************************************)
EXTENDS FiniteSets, Naturals

CONSTANTS
  Turns, Satellites, Hub,
  Nothing,       \* no turn; an empty slot; an answer that has not come
  Unreachable,   \* the Hub's answer when it has no relay
  MaxFaults      \* bound: lost connections, and pipelines that were stopped

ASSUME VoiceAssumption ==
  /\ Hub \notin Satellites
  /\ Nothing \notin Turns /\ Unreachable \notin Turns

VARIABLES
  pc,          \* where the task of each turn is
  device,      \* the device it runs on
  state,       \* PipelineState of each device
  running,     \* devices whose pipeline has not been stopped
  future,      \* the answer a turn was given
  slot,        \* the turn whose handler takes answers, per device
  relayUp,     \* RelayClient.connected in the Hub
  faults,
  toHub,       \* questions on the way from satellites
  asked,       \* questions the relay has
  answers,     \* answers on the way to the Hub
  toSatellite, \* answers on the way to each satellite
  crossed      \* questions since which another question took over a slot

turnVars  == <<pc, device, state, running>>
slotVars  == <<future, slot, crossed>>
relayVars == <<relayUp, faults>>
wayVars   == <<toHub, asked, answers, toSatellite>>
vars == <<turnVars, slotVars, relayVars, wayVars>>

Devices == Satellites \cup {Hub}
Live == {"spawned", "capturing", "waiting", "speaking"}
(* LISTENING, CAPTURING and TRANSCRIBING are one here: the user speaks, the  *)
(* engine writes it down, and nobody else is let in.                         *)
PipelineState == {"idle", "listening", "waiting", "speaking"}

\* The type invariant.  A slot never leads to a turn of another device, and
\* one of a turn that waits itself is cleared when that turn goes on.
TypeOK ==
  /\ pc \in [Turns -> Live \cup {"free", "done"}]
  /\ device \in [Turns -> Devices \cup {Nothing}]
  /\ state \in [Devices -> PipelineState]
  /\ running \subseteq Devices
  /\ future \in [Turns -> Turns \cup {Nothing, Unreachable}]
  /\ slot \in [Devices -> Turns \cup {Nothing}]
  /\ relayUp \in BOOLEAN
  /\ faults \in 0 .. MaxFaults
  /\ toHub \cup asked \cup answers \cup crossed \subseteq Turns
  /\ \A s \in Satellites : toSatellite[s] \subseteq Turns \cup {Unreachable}
  /\ \A d \in Devices, t \in Turns :
       slot[d] = t /\ (d \in Satellites \/ device[t] = d) => pc[t] = "waiting" /\ device[t] = d

Init ==
  /\ pc = [t \in Turns |-> "free"]
  /\ device = [t \in Turns |-> Nothing]
  /\ state = [d \in Devices |-> "idle"]
  /\ running = Devices
  /\ future = [t \in Turns |-> Nothing]
  /\ slot = [d \in Devices |-> Nothing]
  /\ relayUp = TRUE /\ faults = 0
  /\ toHub = {} /\ asked = {} /\ answers = {}
  /\ toSatellite = [s \in Satellites |-> {}]
  /\ crossed = {}

-----------------------------------------------------------------------------
(* TurnTakingManager                                                       *)

\* The task goes on, and the pipeline's state with it.
Phase(t, p, st) ==
  /\ pc' = [pc EXCEPT ![t] = p]
  /\ state' = [state EXCEPT ![device[t]] = st]

\* A wake word while the pipeline is idle or speaking starts a turn: it changes
\* the state only when its task first runs, so a second one may slip in.  A
\* barge-in does not stop the turn that speaks: no playback task is ever kept.
WakeWord(t, d) ==
  /\ pc[t] = "free"
  /\ d \in running
  /\ state[d] \in {"idle", "speaking"}
  /\ pc' = [pc EXCEPT ![t] = "spawned"]
  /\ device' = [device EXCEPT ![t] = d]
  /\ UNCHANGED <<state, running, slotVars, relayVars, wayVars>>

StartCapture(t) ==
  /\ pc[t] = "spawned"
  /\ Phase(t, "capturing", "listening")
  /\ UNCHANGED <<device, running, slotVars, relayVars, wayVars>>

\* Fault: an early return leaves the state as it is.
TurnEndsBusy(t) ==
  /\ pc[t] \in {"capturing", "speaking"}
  /\ pc' = [pc EXCEPT ![t] = "done"]
  /\ UNCHANGED <<device, state, running, slotVars, relayVars, wayVars>>

\* No speech, no text, an error of STT or TTS, or the answer was played: the
\* `finally` of _run_turn makes the pipeline idle, whoever else uses it.
TurnEnds(t) ==
  /\ pc[t] \in {"capturing", "speaking"}
  /\ Phase(t, "done", "idle")
  /\ UNCHANGED <<device, running, slotVars, relayVars, wayVars>>

\* stop(): the turns that run go on.
StopPipeline(d) ==
  /\ d \in running
  /\ faults < MaxFaults
  /\ faults' = faults + 1
  /\ running' = running \ {d}
  /\ state' = [state EXCEPT ![d] = "idle"]
  /\ UNCHANGED <<pc, device, slotVars, relayUp, wayVars>>

-----------------------------------------------------------------------------
(* Asking                                                                  *)

\* Questions that are under way, or whose answer is.
Outstanding ==
  toHub \cup asked \cup answers \cup UNION {toSatellite[s] \ {Unreachable} : s \in Satellites}

\* on(): the handler of question t takes over the slot of device d.
TakeSlot(d, t) ==
  /\ slot' = [slot EXCEPT ![d] = t]
  /\ crossed' = crossed \cup (Outstanding \ {t})

\* _invoke_assistant_via_relay
AskRelay(t) ==
  /\ pc[t] = "capturing"
  /\ device[t] = Hub
  /\ relayUp
  /\ Phase(t, "waiting", "waiting")
  /\ TakeSlot(Hub, t)
  /\ asked' = asked \cup {t}
  /\ UNCHANGED <<device, running, future, relayVars, toHub, answers, toSatellite>>

\* _invoke_assistant_via_hub
AskHub(t) ==
  /\ pc[t] = "capturing"
  /\ device[t] \in Satellites
  /\ Phase(t, "waiting", "waiting")
  /\ TakeSlot(device[t], t)
  /\ toHub' = toHub \cup {t}
  /\ UNCHANGED <<device, running, future, relayVars, asked, answers, toSatellite>>

\* Fault: the slot is given back to the question that had it before.
RestoreSlot(d) ==
  \E t \in {u \in Turns : pc[u] = "done" /\ d = Hub /\ device[u] \in Satellites} \cup {Nothing} :
    slot' = [slot EXCEPT ![d] = t]

\* `finally`: the slot gets a handler that does nothing, whoever has it.
ClearSlot(d) == slot' = [slot EXCEPT ![d] = Nothing]

\* The answer is spoken, whichever question it belongs to.
Answered(t) ==
  /\ pc[t] = "waiting"
  /\ future[t] # Nothing
  /\ Phase(t, "speaking", "speaking")
  /\ ClearSlot(device[t])
  /\ UNCHANGED <<device, running, future, crossed, relayVars, wayVars>>

\* No answer in fifteen seconds, an empty one, or an error.
GivesUp(t) ==
  /\ pc[t] = "waiting"
  /\ Phase(t, "done", "idle")
  /\ ClearSlot(device[t])
  /\ UNCHANGED <<device, running, future, crossed, relayVars, wayVars>>

-----------------------------------------------------------------------------
(* The Hub routes questions and answers of satellites.                     *)

\* _handle_satellite_voice_query: the slot is taken over for good.  A failed
\* send is logged; the satellite hears nothing.
RouteQuery(t) ==
  /\ t \in toHub
  /\ toHub' = toHub \ {t}
  /\ relayUp
  /\ TakeSlot(Hub, t)
  /\ asked' \in {asked, asked \cup {t}}
  /\ UNCHANGED <<turnVars, future, relayVars, answers, toSatellite>>

\* Without a relay the satellite is told so.
RefuseQuery(t) ==
  /\ t \in toHub
  /\ toHub' = toHub \ {t}
  /\ ~relayUp
  /\ toSatellite' = [toSatellite EXCEPT ![device[t]] = @ \cup {Unreachable}]
  /\ UNCHANGED <<turnVars, slotVars, relayVars, asked, answers>>

Resolve(t, x) ==
  future' = IF future[t] = Nothing THEN [future EXCEPT ![t] = x] ELSE future

\* An answer from the relay goes to the handler in the slot: it resolves the
\* future of a turn of the Hub, or is sent to the satellite that asked last.
DispatchAnswer(x) ==
  LET t == slot[Hub] IN
  /\ x \in answers
  /\ answers' = answers \ {x}
  /\ \/ t = Nothing /\ UNCHANGED <<future, toSatellite>>
     \/ t # Nothing /\ device[t] = Hub /\ Resolve(t, x) /\ UNCHANGED toSatellite
     \/ /\ t # Nothing /\ device[t] # Hub
        /\ toSatellite' = [toSatellite EXCEPT ![device[t]] = @ \cup {x}]
        /\ UNCHANGED future
  /\ UNCHANGED <<turnVars, slot, crossed, relayVars, toHub, asked>>

\* VoiceResponseToAssistant: the handler in the satellite's slot, if any.
SatelliteHears(s, x) ==
  /\ x \in toSatellite[s]
  /\ toSatellite' = [toSatellite EXCEPT ![s] = @ \ {x}]
  /\ IF slot[s] = Nothing THEN UNCHANGED future ELSE Resolve(slot[s], x)
  /\ UNCHANGED <<turnVars, slot, crossed, relayVars, toHub, asked, answers>>

-----------------------------------------------------------------------------
(* The relay and the network.                                              *)

RelayAnswers(t) ==
  /\ t \in asked
  /\ asked' = asked \ {t}
  /\ answers' = answers \cup {t}
  /\ UNCHANGED <<turnVars, slotVars, relayVars, toHub, toSatellite>>

\* The connection is lost with what was under way, or comes back.
RelayChanges ==
  /\ relayUp' = ~relayUp
  /\ IF relayUp
     THEN faults < MaxFaults /\ faults' = faults + 1 /\ asked' = {} /\ answers' = {}
     ELSE UNCHANGED <<faults, asked, answers>>
  /\ UNCHANGED <<turnVars, slotVars, toHub, toSatellite>>

\* A satellite's connection is lost with what was under way on it.
SatelliteLost(s) ==
  /\ faults < MaxFaults
  /\ faults' = faults + 1
  /\ toHub' = {t \in toHub : device[t] # s}
  /\ toSatellite' = [toSatellite EXCEPT ![s] = {}]
  /\ UNCHANGED <<turnVars, slotVars, relayUp, asked, answers>>

-----------------------------------------------------------------------------
RunTurn(t) ==
  \/ StartCapture(t) \/ TurnEnds(t)
  \/ AskRelay(t) \/ AskHub(t) \/ Answered(t) \/ GivesUp(t)

Route(t) == RouteQuery(t) \/ RefuseQuery(t) \/ DispatchAnswer(t)

Next ==
  \/ \E t \in Turns :
       RunTurn(t) \/ Route(t) \/ RelayAnswers(t) \/ \E d \in Devices : WakeWord(t, d)
  \/ \E s \in Satellites, x \in Turns \cup {Unreachable} : SatelliteHears(s, x)
  \/ \E d \in Devices : StopPipeline(d)
  \/ RelayChanges
  \/ \E s \in Satellites : SatelliteLost(s)

Spec == Init /\ [][Next]_vars

-----------------------------------------------------------------------------
(* What the routing keeps.                                                 *)

\* A turn is given the answer to another question, or a satellite that did not
\* ask is sent it, only if a question took over a slot while that one was under
\* way: late answers of questions that timed out, and the handlers satellites
\* leave behind, cannot mislead a lone turn.
AstrayOnlyWhenCrossed ==
  /\ \A t \in Turns : future[t] \in Turns /\ future[t] # t => future[t] \in crossed
  /\ \A s \in Satellites :
       \A x \in toSatellite[s] \ {Unreachable} : device[x] # s => x \in crossed

\* When no turn runs on a device its pipeline is idle and listens for the wake
\* word, however turns overlapped or failed and whether it was stopped.
IdleWhenQuiet ==
  \A d \in Devices :
    state[d] # "idle" => \E t \in Turns : device[t] = d /\ pc[t] \in Live
=============================================================================
