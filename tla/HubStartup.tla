----------------------------- MODULE HubStartup -----------------------------
(***************************************************************************)
(* The life of the Hub's process: SynorkHomeAddon in main.py with its      *)
(* start-up phases and its stop(), the pairing requests of the setup       *)
(* wizard (wizard/server.py) that run next to them, and the file both read *)
(* and write (wizard/persistence.py).                                      *)
(*                                                                         *)
(* The main task and the pairing requests are the actors.  Both may come   *)
(* to _setup_relay, so a relay client and a relay task are named after the *)
(* actor that made them.  Pairings are numbered as the relay's backend     *)
(* issues them; 0 is none.  Phases without a part in this are one step.    *)
(***************************************************************************)
EXTENDS Naturals, FiniteSets

CONSTANTS
  Requests,    \* pairing requests of the wizard
  Main, None,
  MaxStarts    \* bound: starts of the process

ASSUME StartupAssumption ==
  /\ MaxStarts \in Nat
  /\ Main \notin Requests /\ None \notin Requests \cup {Main}

Actors == Requests \cup {Main}
Pairings == 0 .. Cardinality(Requests)

VARIABLES
  disk,        \* hub_config.json: the pairing in it
  upstream,    \* the pairing the backend knows of the device, the last it issued
  mem,         \* config.hub_config, config.device_secret
  step,        \* where each actor is
  grant,       \* the pairing in the reply to a request
  answered,    \* requests that were answered ok
  signedIn,    \* _bearer_token is not None
  wizardUp,    \* the wizard is bound
  bridge,      \* the bridge to Home Assistant is connected
  client,      \* relay clients: "none", "made", "welcomed", "stopped"
  secret,      \* the pairing a client was made with
  current,     \* _relay_client
  task,        \* relay tasks: the client whose connect() it runs
  relayTask,   \* _relay_task
  brokerUp,    \* _hub_pairing is not None
  household,   \* its household: the pairing it is from, 0 is the empty one
  signalled,   \* _shutdown_event
  starts,
  overlapped   \* two pairing requests were under way together

diskVars == <<disk, upstream>>
wizardVars == <<grant, answered, signedIn, wizardUp, overlapped>>
relayVars == <<client, secret, current, task, relayTask>>
brokerVars == <<brokerUp, household>>
vars == <<diskVars, mem, step, wizardVars, bridge, relayVars, brokerVars, signalled, starts>>

InSetup == {"versions", "services", "auth"}
MainSteps == {"off", "early", "assistant", "broker", "serving", "stopping", "closing"} \cup InSetup
RequestSteps == {"idle", "posted", "issued", "dismissing", "done"} \cup InSetup

Running == step[Main] # "off"
UnderWay == {r \in Requests : step[r] \in {"posted", "issued"}}
\* Tasks that go on connecting.
Alive == {a \in Actors : task[a] # None /\ client[task[a]] # "stopped"}

\* The type invariant; tasks run clients that were made.
TypeOK ==
  /\ {disk, upstream, mem, household} \subseteq Pairings
  /\ step[Main] \in MainSteps /\ \A r \in Requests : step[r] \in RequestSteps
  /\ grant \in [Requests -> Pairings] /\ answered \subseteq Requests
  /\ {signedIn, wizardUp, bridge, brokerUp, signalled, overlapped} \subseteq BOOLEAN
  /\ client \in [Actors -> {"none", "made", "welcomed", "stopped"}]
  /\ secret \in [Actors -> Pairings]
  /\ current \in {a \in Actors : client[a] # "none"} \cup {None}
  /\ relayTask # None => task[relayTask] # None
  /\ \A a \in Actors : task[a] # None => client[task[a]] # "none"

\* A Hub that was never started: no file, no memory.
Init ==
  /\ disk = 0 /\ upstream = 0 /\ mem = 0
  /\ step = [a \in Actors |-> IF a = Main THEN "off" ELSE "idle"]
  /\ grant = [r \in Requests |-> 0] /\ answered = {}
  /\ signedIn = FALSE /\ wizardUp = FALSE /\ bridge = FALSE
  /\ client = [a \in Actors |-> "none"] /\ secret = [a \in Actors |-> 0]
  /\ task = [a \in Actors |-> None] /\ current = None /\ relayTask = None
  /\ brokerUp = FALSE /\ household = 0
  /\ signalled = FALSE /\ starts = 0 /\ overlapped = FALSE

At(a, s) == step' = [step EXCEPT ![a] = s]

-----------------------------------------------------------------------------
(* _setup_relay, by the main task in phase 4 or after a pairing.           *)

\* Where an actor goes on after it: the next phase, or the refresh of the
\* broker's household and the answer to the user.
Leave(a) ==
  IF a = Main
  THEN At(a, "assistant") /\ UNCHANGED <<household, answered, signedIn>>
  ELSE /\ At(a, "done")
       /\ household' = IF brokerUp THEN grant[a] ELSE household
       /\ answered' = answered \cup {a}
       /\ signedIn' = FALSE

Make(a) ==
  /\ client' = [client EXCEPT ![a] = "made"]
  /\ secret' = [secret EXCEPT ![a] = mem]
  /\ current' = a

\* The task connects the client that _relay_client holds by then.
Launch(a, c) == task' = [task EXCEPT ![a] = c] /\ relayTask' = a

\* The calls to Home Assistant are awaited only when the bridge is connected.
MakeAndGoOn(a) ==
  /\ Make(a)
  /\ IF bridge THEN At(a, "services") /\ UNCHANGED <<task, relayTask>>
     ELSE At(a, "auth") /\ Launch(a, current')
  /\ UNCHANGED <<household, answered, signedIn>>

\* Fault: a client is made without credentials.
SetupRelayUnpaired(a) ==
  IF bridge THEN At(a, "versions") /\ UNCHANGED <<relayVars, household, answered, signedIn>>
  ELSE MakeAndGoOn(a)

SetupRelay(a) ==
  IF mem = 0 THEN Leave(a) /\ UNCHANGED relayVars
  ELSE IF bridge
       THEN At(a, "versions") /\ UNCHANGED <<relayVars, household, answered, signedIn>>
       ELSE MakeAndGoOn(a)

VersionKnown(a) ==
  /\ step[a] = "versions"
  /\ MakeAndGoOn(a)
  /\ UNCHANGED <<diskVars, mem, grant, wizardUp, overlapped, bridge, brokerUp, signalled, starts>>

ServicesKnown(a) ==
  /\ step[a] = "services"
  /\ Launch(a, current)
  /\ At(a, "auth")
  /\ UNCHANGED <<diskVars, mem, wizardVars, bridge, client, secret, current, brokerVars,
                 signalled, starts>>

\* Fault: the wait for the authentication has no time-out.
AuthWaitOverWelcomed(a) == client[current] = "welcomed"

\* wait_for_auth returns when the relay has answered, or after ten seconds.
AuthWaitOver(a) == TRUE

Authenticated(a) ==
  /\ step[a] = "auth"
  /\ AuthWaitOver(a)
  /\ Leave(a)
  /\ UNCHANGED <<diskVars, mem, grant, wizardUp, overlapped, bridge, relayVars, brokerUp,
                 signalled, starts>>

\* The relay welcomes a client that has the secret it issued last.
RelayWelcomes(a) ==
  /\ a \in Alive
  /\ client[task[a]] = "made"
  /\ secret[task[a]] = upstream
  /\ client' = [client EXCEPT ![task[a]] = "welcomed"]
  /\ UNCHANGED <<diskVars, mem, step, wizardVars, bridge, secret, current, task, relayTask,
                 brokerVars, signalled, starts>>

-----------------------------------------------------------------------------
(* Start and stop.                                                         *)

MainUnchanged == UNCHANGED <<diskVars, grant, answered, overlapped>>

\* The file is read, phase 0 binds the wizard.
Start ==
  /\ ~Running
  /\ starts < MaxStarts
  /\ starts' = starts + 1
  /\ mem' = disk
  /\ At(Main, "early")
  /\ wizardUp' \in BOOLEAN
  /\ UNCHANGED <<signedIn, bridge, relayVars, brokerVars, signalled>>
  /\ MainUnchanged

\* Phase 3; when this does not happen connect() has failed.
BridgeUp ==
  /\ step[Main] = "early" /\ ~bridge
  /\ bridge' = TRUE
  /\ UNCHANGED <<mem, step, signedIn, wizardUp, relayVars, brokerVars, signalled, starts>>
  /\ MainUnchanged

\* Phases 1 to 3 are over, phase 4 begins.  Phase 1 may wait in the captive
\* portal for ever: no time-out ends that, and no signal.
EarlyEnds ==
  /\ step[Main] = "early"
  /\ SetupRelay(Main)
  /\ UNCHANGED <<diskVars, mem, grant, wizardUp, overlapped, bridge, brokerUp, signalled, starts>>

\* Phase 7: the household is that of the relay client, if it knows it by now.
BrokerStarts ==
  /\ step[Main] = "assistant"
  /\ At(Main, "broker")
  /\ brokerUp' = TRUE
  /\ household' = IF current # None /\ client[current] = "welcomed" THEN secret[current] ELSE 0
  /\ UNCHANGED <<mem, signedIn, wizardUp, bridge, relayVars, signalled, starts>>
  /\ MainUnchanged

\* The other phases end, or one raises and start() goes on to stop().
PhasesEnd ==
  /\ step[Main] = "broker"
  /\ \E s \in {"serving", "stopping"} : At(Main, s)
  /\ UNCHANGED <<mem, signedIn, wizardUp, bridge, relayVars, brokerVars, signalled, starts>>
  /\ MainUnchanged

Signal ==
  /\ Running /\ ~signalled
  /\ signalled' = TRUE
  /\ UNCHANGED <<mem, step, signedIn, wizardUp, bridge, relayVars, brokerVars, starts>>
  /\ MainUnchanged

Stop ==
  /\ step[Main] = "serving" /\ signalled
  /\ At(Main, "stopping")
  /\ UNCHANGED <<mem, signedIn, wizardUp, bridge, relayVars, brokerVars, signalled, starts>>
  /\ MainUnchanged

\* The relay client is disconnected, and the relay task cancelled.
StopRelay ==
  /\ step[Main] = "stopping"
  /\ At(Main, "closing")
  /\ client' = IF current = None THEN client ELSE [client EXCEPT ![current] = "stopped"]
  /\ task' = IF relayTask = None THEN task ELSE [task EXCEPT ![relayTask] = None]
  /\ relayTask' = None
  /\ bridge' = FALSE
  /\ UNCHANGED <<mem, signedIn, wizardUp, secret, current, brokerVars, signalled, starts>>
  /\ MainUnchanged

\* The process is gone, with all that was in memory.
ProcessEnds ==
  /\ step' = [a \in Actors |->
       IF a = Main THEN "off" ELSE IF step[a] = "idle" THEN "idle" ELSE "done"]
  /\ mem' = 0 /\ signedIn' = FALSE /\ wizardUp' = FALSE /\ bridge' = FALSE
  /\ client' = [a \in Actors |-> "none"] /\ secret' = [a \in Actors |-> 0]
  /\ task' = [a \in Actors |-> None] /\ current' = None /\ relayTask' = None
  /\ brokerUp' = FALSE /\ household' = 0 /\ signalled' = FALSE
  /\ UNCHANGED <<upstream, grant, answered, overlapped, starts>>

\* The wizard is stopped last: its requests end or are cancelled.
WizardStops == step[Main] = "closing" /\ ProcessEnds /\ UNCHANGED disk

\* Fault: the file is written in place; what is torn reads as unpaired.
InterruptedSaveInPlace == 0

\* What the file holds when the process is killed while it saves: the new
\* configuration is in a temporary file, which nobody reads.
InterruptedSave == disk

Crash ==
  /\ Running
  /\ ProcessEnds
  /\ disk' \in {disk} \cup (IF \E r \in Requests : step[r] = "issued"
                             THEN {InterruptedSave} ELSE {})

-----------------------------------------------------------------------------
(* The wizard.                                                             *)

WizardUnchanged ==
  UNCHANGED <<wizardUp, bridge, brokerUp, signalled, starts>>

SignIn ==
  /\ wizardUp /\ ~signedIn
  /\ signedIn' = TRUE
  /\ UNCHANGED <<diskVars, mem, step, grant, answered, overlapped, relayVars, household>>
  /\ WizardUnchanged

\* The user signs out, or the backend says that the session has expired.
SignOut ==
  /\ wizardUp /\ signedIn
  /\ signedIn' = FALSE
  /\ UNCHANGED <<diskVars, mem, step, grant, answered, overlapped, relayVars, household>>
  /\ WizardUnchanged

\* Fault: a request is posted also for a Hub that is paired.
MayPairAgain == TRUE

MayPair == mem = 0

\* _handle_pair: signed in, not paired; the backend is asked.
Pair(r) ==
  /\ wizardUp /\ signedIn
  /\ step[r] = "idle"
  /\ MayPair
  /\ At(r, "posted")
  /\ overlapped' = (overlapped \/ UnderWay # {})
  /\ UNCHANGED <<diskVars, mem, grant, answered, signedIn, relayVars, household>>
  /\ WizardUnchanged

\* The backend issues a pairing.
Issue(r) ==
  /\ step[r] = "posted"
  /\ At(r, "issued")
  /\ upstream' = upstream + 1
  /\ grant' = [grant EXCEPT ![r] = upstream + 1]
  /\ UNCHANGED <<disk, mem, answered, signedIn, overlapped, relayVars, household>>
  /\ WizardUnchanged

\* It refuses, or its reply is lost; a session that has expired is dropped.
PairFails(r) ==
  /\ r \in UnderWay
  /\ At(r, "done")
  /\ signedIn' \in {signedIn, FALSE}
  /\ UNCHANGED <<diskVars, mem, grant, answered, overlapped, relayVars, household>>
  /\ WizardUnchanged

\* The reply: saved first, then on_paired takes it over, up to its await.
Paired(r) ==
  /\ step[r] = "issued"
  /\ disk' = grant[r]
  /\ mem' = grant[r]
  /\ At(r, "dismissing")
  /\ UNCHANGED <<upstream, grant, answered, signedIn, overlapped, relayVars, household>>
  /\ WizardUnchanged

\* The notification is gone; a relay client is made if there is none.
Dismissed(r) ==
  /\ step[r] = "dismissing"
  /\ IF current = None THEN SetupRelay(r) ELSE Leave(r) /\ UNCHANGED relayVars
  /\ UNCHANGED <<diskVars, mem, grant, overlapped>>
  /\ WizardUnchanged

-----------------------------------------------------------------------------
MainStep == Start \/ BridgeUp \/ EarlyEnds \/ BrokerStarts \/ PhasesEnd \/ Stop \/ StopRelay \/ WizardStops
Setup(a) == VersionKnown(a) \/ ServicesKnown(a) \/ Authenticated(a)

Next ==
  \/ MainStep \/ Signal \/ Crash \/ SignIn \/ SignOut
  \/ \E a \in Actors : Setup(a) \/ RelayWelcomes(a)
  \/ \E r \in Requests : Pair(r) \/ Issue(r) \/ PairFails(r) \/ Paired(r) \/ Dismissed(r)

Spec == Init /\ [][Next]_vars

\* Tasks that can run do; the relay is reachable.  Users and signals are free,
\* and so is the end of phase 1, which may need a user at the portal.
FairSpec ==
  /\ Spec
  /\ WF_vars(BrokerStarts) /\ WF_vars(PhasesEnd)
  /\ WF_vars(Stop) /\ WF_vars(StopRelay) /\ WF_vars(WizardStops)
  /\ \A a \in Actors : WF_vars(Setup(a)) /\ WF_vars(RelayWelcomes(a))
  /\ \A r \in Requests : WF_vars(Dismissed(r))

-----------------------------------------------------------------------------
(* What the process promises.                                              *)

\* What memory, a relay client or an answered user relies on is in the file, so
\* that the next start finds the Hub paired, whenever the process is killed.
PairedIsSaved ==
  mem # 0 \/ answered # {} \/ (\E a \in Actors : client[a] # "none") => disk # 0

\* The pairing in the file is the one the backend knows, unless two requests
\* were under way together, whose replies may come in the other order.
SavedIsCurrent == disk # 0 /\ UnderWay = {} /\ ~overlapped => disk = upstream

\* Some actor is past what keeps it from _setup_relay: the main task is in phase
\* 4 or later, or a pairing of the wizard has taken over, phase 1 or not.
RelayReached ==
  \/ step[Main] # "early"
  \/ current # None
  \/ \E r \in Requests : step[r] \in {"dismissing", "versions"}

\* A Hub that is paired and keeps running connects to the relay in the end, be
\* the pairing from the file or from the wizard, in whatever phase that came;
\* not one that waits in phase 1 with the pairing of its file.
PairedComesUp ==
  <>[](/\ Running /\ ~signalled /\ step[Main] # "closing" /\ RelayReached
       /\ mem # 0 /\ mem = upstream /\ ~overlapped)
    => <>[](\E a \in Alive : client[task[a]] = "welcomed")

\* A signal ends the process, also when it comes in the middle of the start-up,
\* as soon as that is past phases 1 to 3, which do not heed it.
ShutdownEnds == signalled /\ step[Main] # "early" ~> ~Running
=============================================================================
