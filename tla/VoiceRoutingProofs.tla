------------------------- MODULE VoiceRoutingProofs --------------------------
(***************************************************************************)
(* Proofs about VoiceRouting, for every set of turns and satellites.       *)
(***************************************************************************)
EXTENDS VoiceRouting, TLAPS

USE VoiceAssumption DEF VoiceAssumption

\* What of the types the arguments below need.
Shapes ==
  /\ pc \in [Turns -> Live \cup {"free", "done"}]
  /\ device \in [Turns -> Devices \cup {Nothing}]
  /\ state \in [Devices -> PipelineState]
  /\ future \in [Turns -> Turns \cup {Nothing, Unreachable}]
  /\ slot \in [Devices -> Turns \cup {Nothing}]
  /\ toSatellite \in [Satellites -> SUBSET (Turns \cup {Unreachable})]
  /\ toHub \subseteq Turns /\ asked \subseteq Turns /\ answers \subseteq Turns
  /\ \A t \in Turns : pc[t] \in Live => device[t] \in Devices

\* The ways of a question, up to its answer.
OnTheWay(t) ==
  t \in toHub \/ t \in asked \/ t \in answers \/ \E s \in Satellites : t \in toSatellite[s]

\* A question that no other has crossed finds its own handler in every slot it
\* has still to pass, or none; and the answer goes where the question came from.
WayInv ==
  /\ \A t \in Turns : pc[t] \in {"free", "spawned", "capturing"} => ~OnTheWay(t)
  /\ \A t \in Turns : OnTheWay(t) => device[t] \in Devices
  /\ \A t \in toHub : device[t] \in Satellites
  /\ \A t \in Turns \ crossed :
       /\ OnTheWay(t) => slot[device[t]] \in {t, Nothing}
       /\ t \in asked \cup answers => slot[Hub] \in {t, Nothing}
       /\ \A s \in Satellites : t \in toSatellite[s] => device[t] = s

LEMMA OutstandingWays ==
  ASSUME Shapes, NEW t \in Turns
  PROVE  t \in Outstanding <=> OnTheWay(t)
BY DEF Outstanding, OnTheWay, Shapes

LEMMA HubIsDevice == Hub \in Devices /\ Satellites \subseteq Devices
BY DEF Devices

LEMMA ShapeStep ==
  ASSUME Shapes, WayInv, [Next]_vars
  PROVE  Shapes'
<1> USE HubIsDevice DEF Shapes, Live, PipelineState
<1>1. ASSUME NEW t \in Turns, RunTurn(t) PROVE Shapes'
  BY <1>1 DEF RunTurn, StartCapture, TurnEnds, AskRelay, AskHub, Answered, GivesUp, Phase,
     TakeSlot, ClearSlot, turnVars, slotVars, relayVars, wayVars
<1>2. ASSUME NEW t \in Turns, NEW d \in Devices, WakeWord(t, d) PROVE Shapes'
  BY <1>2 DEF WakeWord, slotVars, relayVars, wayVars
<1>3. ASSUME NEW t \in Turns, RouteQuery(t) PROVE Shapes'
  BY <1>3 DEF RouteQuery, TakeSlot, turnVars, relayVars
<1>4. ASSUME NEW t \in Turns, RefuseQuery(t) PROVE Shapes'
  BY <1>4 DEF RefuseQuery, turnVars, slotVars, relayVars
<1>5. ASSUME NEW t \in Turns, DispatchAnswer(t) PROVE Shapes'
  BY <1>5 DEF DispatchAnswer, Resolve, turnVars, relayVars
<1>6. ASSUME NEW t \in Turns, RelayAnswers(t) PROVE Shapes'
  BY <1>6 DEF RelayAnswers, turnVars, slotVars, relayVars
<1>7. ASSUME NEW s \in Satellites, NEW x \in Turns \cup {Unreachable}, SatelliteHears(s, x)
      PROVE  Shapes'
  BY <1>7 DEF SatelliteHears, Resolve, turnVars, relayVars
<1>8. ASSUME NEW d \in Devices, StopPipeline(d) PROVE Shapes'
  BY <1>8 DEF StopPipeline, slotVars, wayVars
<1>9. CASE RelayChanges \/ (\E s \in Satellites : SatelliteLost(s)) \/ UNCHANGED vars
  BY <1>9 DEF RelayChanges, SatelliteLost, turnVars, slotVars, relayVars, wayVars, vars
<1>10. QED
  BY <1>1, <1>2, <1>3, <1>4, <1>5, <1>6, <1>7, <1>8, <1>9 DEF Next, Route

\* A step changes the state of a pipeline together with the turn it belongs to.
LEMMA IdleStep ==
  ASSUME Shapes, IdleWhenQuiet, [Next]_vars
  PROVE  IdleWhenQuiet'
<1> USE HubIsDevice DEF Shapes, Live, IdleWhenQuiet
<1>1. ASSUME NEW t \in Turns, RunTurn(t) PROVE IdleWhenQuiet'
  BY <1>1 DEF RunTurn, StartCapture, TurnEnds, AskRelay, AskHub, Answered, GivesUp, Phase
<1>2. ASSUME NEW t \in Turns, NEW d \in Devices, WakeWord(t, d) PROVE IdleWhenQuiet'
  BY <1>2 DEF WakeWord
<1>3. ASSUME NEW d \in Devices, StopPipeline(d) PROVE IdleWhenQuiet'
  BY <1>3 DEF StopPipeline
<1>4. CASE UNCHANGED turnVars
  BY <1>4 DEF turnVars
<1>5. QED
  BY <1>1, <1>2, <1>3, <1>4
  DEF Next, Route, RouteQuery, RefuseQuery, DispatchAnswer, RelayAnswers, SatelliteHears,
      RelayChanges, SatelliteLost, vars

\* Whoever takes over a slot crosses all that are on their way.
LEMMA TakeCrosses ==
  ASSUME Shapes, NEW d \in Devices, NEW t \in Turns, TakeSlot(d, t)
  PROVE  /\ slot' = [slot EXCEPT ![d] = t]
         /\ crossed \subseteq crossed'
         /\ \A u \in Turns : OnTheWay(u) /\ u # t => u \in crossed'
BY OutstandingWays DEF TakeSlot

LEMMA WayStep ==
  ASSUME Shapes, WayInv, [Next]_vars
  PROVE  WayInv'
<1> USE HubIsDevice DEF Shapes, WayInv, Live, OnTheWay
<1>1. ASSUME NEW t \in Turns, StartCapture(t) \/ TurnEnds(t) PROVE WayInv'
  BY <1>1 DEF StartCapture, TurnEnds, Phase, slotVars, relayVars, wayVars
<1>2. ASSUME NEW t \in Turns, AskRelay(t) PROVE WayInv'
  BY <1>2, TakeCrosses DEF AskRelay, Phase, relayVars
<1>3. ASSUME NEW t \in Turns, AskHub(t) PROVE WayInv'
  BY <1>3, TakeCrosses DEF AskHub, Phase, relayVars
<1>4. ASSUME NEW t \in Turns, Answered(t) \/ GivesUp(t) PROVE WayInv'
  BY <1>4 DEF Answered, GivesUp, Phase, ClearSlot, relayVars, wayVars
<1>5. ASSUME NEW t \in Turns, NEW d \in Devices, WakeWord(t, d) PROVE WayInv'
  BY <1>5 DEF WakeWord, slotVars, relayVars, wayVars
<1>6. ASSUME NEW t \in Turns, RouteQuery(t) PROVE WayInv'
  BY <1>6, TakeCrosses DEF RouteQuery, turnVars, relayVars
<1>7. ASSUME NEW t \in Turns, RefuseQuery(t) PROVE WayInv'
  BY <1>7 DEF RefuseQuery, turnVars, slotVars, relayVars
<1>8. ASSUME NEW t \in Turns, DispatchAnswer(t) PROVE WayInv'
  BY <1>8 DEF DispatchAnswer, Resolve, turnVars, relayVars
<1>9. ASSUME NEW t \in Turns, RelayAnswers(t) PROVE WayInv'
  BY <1>9 DEF RelayAnswers, turnVars, slotVars, relayVars
<1>10. ASSUME NEW s \in Satellites, NEW x \in Turns \cup {Unreachable}, SatelliteHears(s, x)
       PROVE  WayInv'
  BY <1>10 DEF SatelliteHears, Resolve, turnVars, relayVars
<1>11. ASSUME NEW d \in Devices, StopPipeline(d) PROVE WayInv'
  BY <1>11 DEF StopPipeline, slotVars, wayVars
<1>12. CASE RelayChanges \/ (\E s \in Satellites : SatelliteLost(s)) \/ UNCHANGED vars
  BY <1>12 DEF RelayChanges, SatelliteLost, turnVars, slotVars, relayVars, wayVars, vars
<1>13. QED
  BY <1>1, <1>2, <1>3, <1>4, <1>5, <1>6, <1>7, <1>8, <1>9, <1>10, <1>11, <1>12
  DEF Next, Route, RunTurn

LEMMA AstrayStep ==
  ASSUME Shapes, WayInv, AstrayOnlyWhenCrossed, [Next]_vars
  PROVE  AstrayOnlyWhenCrossed'
<1> USE HubIsDevice DEF Shapes, WayInv, Live, OnTheWay, AstrayOnlyWhenCrossed
<1>1. ASSUME NEW t \in Turns, RunTurn(t) PROVE AstrayOnlyWhenCrossed'
  BY <1>1 DEF RunTurn, StartCapture, TurnEnds, AskRelay, AskHub, Answered, GivesUp, Phase,
     TakeSlot, slotVars, relayVars, wayVars
<1>2. ASSUME NEW t \in Turns, NEW d \in Devices, WakeWord(t, d) PROVE AstrayOnlyWhenCrossed'
  BY <1>2 DEF WakeWord, slotVars, relayVars, wayVars
<1>3. ASSUME NEW t \in Turns, RouteQuery(t) PROVE AstrayOnlyWhenCrossed'
  BY <1>3 DEF RouteQuery, TakeSlot, turnVars, relayVars
<1>4. ASSUME NEW t \in Turns, RefuseQuery(t) PROVE AstrayOnlyWhenCrossed'
  BY <1>4 DEF RefuseQuery, turnVars, slotVars, relayVars
<1>5. ASSUME NEW t \in Turns, DispatchAnswer(t) PROVE AstrayOnlyWhenCrossed'
  BY <1>5 DEF DispatchAnswer, Resolve, turnVars, relayVars
<1>6. ASSUME NEW t \in Turns, RelayAnswers(t) PROVE AstrayOnlyWhenCrossed'
  BY <1>6 DEF RelayAnswers, turnVars, slotVars, relayVars
<1>7. ASSUME NEW s \in Satellites, NEW x \in Turns \cup {Unreachable}, SatelliteHears(s, x)
      PROVE  AstrayOnlyWhenCrossed'
  BY <1>7 DEF SatelliteHears, Resolve, turnVars, relayVars
<1>8. CASE \/ RelayChanges \/ (\E s \in Satellites : SatelliteLost(s))
           \/ (\E d \in Devices : StopPipeline(d)) \/ UNCHANGED vars
  BY <1>8 DEF RelayChanges, SatelliteLost, StopPipeline, turnVars, slotVars, relayVars, wayVars,
     vars
<1>9. QED
  BY <1>1, <1>2, <1>3, <1>4, <1>5, <1>6, <1>7, <1>8 DEF Next, Route

LEMMA VoiceInvariant ==
  Spec => [](Shapes /\ WayInv /\ IdleWhenQuiet /\ AstrayOnlyWhenCrossed)
<1>1. Init => Shapes /\ WayInv /\ IdleWhenQuiet /\ AstrayOnlyWhenCrossed
  <2> SUFFICES ASSUME Init PROVE Shapes /\ WayInv /\ IdleWhenQuiet /\ AstrayOnlyWhenCrossed
    OBVIOUS
  <2>1. Shapes
    BY DEF Init, Shapes, Live, PipelineState
  <2>2. WayInv
    BY DEF Init, WayInv, OnTheWay
  <2>3. IdleWhenQuiet /\ AstrayOnlyWhenCrossed
    BY DEF Init, IdleWhenQuiet, AstrayOnlyWhenCrossed
  <2>4. QED
    BY <2>1, <2>2, <2>3
<1>2. QED
  BY <1>1, ShapeStep, WayStep, IdleStep, AstrayStep, PTL DEF Spec

\* Whatever turns overlap, fail or are stopped, a pipeline without a turn is idle.
THEOREM IdleCorrect == Spec => []IdleWhenQuiet
  BY VoiceInvariant, PTL

\* An answer reaches a turn or a satellite that did not ask for it only after
\* another question took over a slot while that one was under way.
THEOREM AstrayCorrect == Spec => []AstrayOnlyWhenCrossed
  BY VoiceInvariant, PTL
=============================================================================
