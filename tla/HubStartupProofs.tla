-------------------------- MODULE HubStartupProofs ---------------------------
(***************************************************************************)
(* Proofs about HubStartup, for every number of pairing requests and of    *)
(* starts of the process, and about Onboarding, the phase of main.py that  *)
(* comes first.                                                            *)
(***************************************************************************)
EXTENDS HubStartup, Onboarding, TLAPS

USE StartupAssumption DEF StartupAssumption

\* What of the types the arguments below need.
Shapes ==
  /\ disk \in Nat /\ upstream \in Nat /\ mem \in Nat
  /\ step \in [Actors -> MainSteps \cup RequestSteps]
  /\ step[Main] \in MainSteps
  /\ grant \in [Requests -> Nat]
  /\ client \in [Actors -> {"none", "made", "welcomed", "stopped"}]
  /\ current # None => current \in Actors /\ client[current] # "none"

\* While the process runs, memory and file hold the same pairing.
MemoryInv ==
  /\ Running => mem = disk
  /\ ~Running => mem = 0 /\ ~wizardUp /\ UnderWay = {}
  /\ ~Running => \A a \in Actors : client[a] = "none" /\ step[a] \notin InSetup
  /\ \A r \in Requests : step[r] = "issued" => grant[r] # 0

\* A pairing is in the file before anything is made of it.
SavedInv ==
  /\ answered # {} => disk # 0
  /\ \A a \in Actors : client[a] # "none" \/ step[a] \in InSetup => disk # 0
  /\ \A r \in Requests : step[r] = "dismissing" => disk # 0

\* Without an overlap, one request is under way, for a Hub that has no pairing.
CurrentInv ==
  ~overlapped =>
    /\ \A q, r \in UnderWay : q = r
    /\ UnderWay # {} => disk = 0
    /\ \A r \in Requests : step[r] = "issued" => grant[r] = upstream
    /\ UnderWay = {} /\ disk # 0 => disk = upstream

StartupInv == Shapes /\ MemoryInv /\ SavedInv /\ CurrentInv

LEMMA Kinds ==
  /\ Main \in Actors /\ Requests \subseteq Actors
  /\ \A r \in Requests : r # Main
BY DEF Actors

\* The steps of _setup_relay that keep the file: the main task's and a request's.
LEMMA SetupStep ==
  ASSUME StartupInv, NEW a \in Actors,
         VersionKnown(a) \/ ServicesKnown(a) \/ Authenticated(a)
  PROVE  StartupInv'
<1> USE Kinds DEF StartupInv, Shapes, MainSteps, RequestSteps, InSetup, Running, UnderWay
<1>1. Shapes'
  BY DEF VersionKnown, ServicesKnown, Authenticated, MakeAndGoOn, Make, Launch, Leave, At,
     diskVars, wizardVars, relayVars, brokerVars
<1>2. MemoryInv'
  BY DEF MemoryInv, VersionKnown, ServicesKnown, Authenticated, MakeAndGoOn, Make, Launch, Leave,
     At, diskVars, wizardVars, brokerVars
<1>3. SavedInv'
  BY DEF SavedInv, VersionKnown, ServicesKnown, Authenticated, MakeAndGoOn, Make, Launch, Leave,
     At, diskVars, wizardVars, brokerVars, relayVars
<1>4. CurrentInv'
  BY DEF CurrentInv, VersionKnown, ServicesKnown, Authenticated, MakeAndGoOn, Make, Launch, Leave,
     At, diskVars, wizardVars, brokerVars
<1>5. QED
  BY <1>1, <1>2, <1>3, <1>4

\* Where an actor comes to _setup_relay.
LEMMA EnterStep ==
  ASSUME StartupInv, EarlyEnds \/ \E r \in Requests : Dismissed(r)
  PROVE  StartupInv'
<1> USE Kinds DEF StartupInv, Shapes, MainSteps, RequestSteps, InSetup, Running, UnderWay
<1>1. PICK a \in Actors :
        /\ SetupRelay(a) \/ (Leave(a) /\ UNCHANGED relayVars)
        /\ a = Main \/ step[a] = "dismissing"
        /\ a = Main => step[a] = "early"
        /\ UNCHANGED <<diskVars, mem, grant, overlapped, wizardUp, bridge, brokerUp, signalled>>
  BY DEF EarlyEnds, Dismissed, WizardUnchanged
<1>2. mem = disk \/ a # Main
  BY <1>1 DEF MemoryInv
<1>3. Shapes'
  BY <1>1 DEF SetupRelay, MakeAndGoOn, Make, Launch, Leave, At, diskVars, relayVars
<1>4. MemoryInv'
  BY <1>1 DEF MemoryInv, SetupRelay, MakeAndGoOn, Make, Launch, Leave, At, diskVars, relayVars
<1>5. SavedInv'
  <2>1. CASE disk # 0
    BY <1>1, <2>1 DEF SavedInv, diskVars
  <2>2. CASE disk = 0
    <3>1. a = Main /\ mem = 0
      BY <1>1, <1>2, <2>2 DEF SavedInv, Actors
    <3>2. Leave(Main) /\ UNCHANGED <<relayVars, diskVars>>
      BY <1>1, <3>1 DEF SetupRelay
    <3>3. QED
      BY <1>1, <2>2, <3>2 DEF SavedInv, Leave, At, diskVars, relayVars
  <2>3. QED
    BY <2>1, <2>2
<1>6. CurrentInv'
  BY <1>1 DEF CurrentInv, SetupRelay, MakeAndGoOn, Make, Launch, Leave, At, diskVars, relayVars
<1>7. QED
  BY <1>3, <1>4, <1>5, <1>6

LEMMA MainTaskStep ==
  ASSUME StartupInv,
         BridgeUp \/ BrokerStarts \/ PhasesEnd \/ Signal \/ Stop \/ StopRelay
  PROVE  StartupInv'
<1> USE Kinds DEF StartupInv, Shapes, MainSteps, RequestSteps, InSetup, Running, UnderWay,
        MainUnchanged
<1>1. Shapes'
  BY DEF BridgeUp, BrokerStarts, PhasesEnd, Signal, Stop, StopRelay, At, diskVars, relayVars
<1>2. MemoryInv'
  BY DEF MemoryInv, BridgeUp, BrokerStarts, PhasesEnd, Signal, Stop, StopRelay, At, diskVars,
     relayVars
<1>3. SavedInv'
  BY DEF SavedInv, BridgeUp, BrokerStarts, PhasesEnd, Signal, Stop, StopRelay, At, diskVars,
     relayVars
<1>4. CurrentInv'
  BY DEF CurrentInv, BridgeUp, BrokerStarts, PhasesEnd, Signal, Stop, StopRelay, At, diskVars
<1>5. QED
  BY <1>1, <1>2, <1>3, <1>4

\* The process begins with what is in the file, and ends with nothing in memory;
\* a kill during a save leaves the file as it was.
LEMMA ProcessStep ==
  ASSUME StartupInv, Start \/ WizardStops \/ Crash
  PROVE  StartupInv'
<1> USE Kinds DEF StartupInv, Shapes, MainSteps, RequestSteps, InSetup, Running, UnderWay
<1>1. CASE Start
  <2> USE <1>1 DEF Start, MainUnchanged, At, diskVars, relayVars
  <2>1. Shapes'
    OBVIOUS
  <2>2. MemoryInv'
    BY DEF MemoryInv
  <2>3. SavedInv'
    BY DEF SavedInv
  <2>4. CurrentInv'
    BY DEF CurrentInv
  <2>5. QED
    BY <2>1, <2>2, <2>3, <2>4
<1>2. CASE WizardStops \/ Crash
  <2>1. disk' = disk /\ ProcessEnds
    BY <1>2 DEF WizardStops, Crash, InterruptedSave
  <2> USE <2>1 DEF ProcessEnds
  <2>2. Shapes'
    OBVIOUS
  <2>3. MemoryInv'
    BY DEF MemoryInv
  <2>4. SavedInv'
    BY DEF SavedInv
  <2>5. CurrentInv'
    BY DEF CurrentInv
  <2>6. QED
    BY <2>2, <2>3, <2>4, <2>5
<1>3. QED
  BY <1>1, <1>2

\* The requests of the wizard, and the relay's welcome.
LEMMA WizardStep ==
  ASSUME StartupInv,
         \/ SignIn \/ SignOut \/ \E a \in Actors : RelayWelcomes(a)
         \/ \E r \in Requests : Pair(r) \/ Issue(r) \/ PairFails(r) \/ Paired(r)
  PROVE  StartupInv'
<1> USE Kinds DEF StartupInv, Shapes, MainSteps, RequestSteps, InSetup, Running, UnderWay,
        WizardUnchanged, MayPair
<1>1. CASE SignIn \/ SignOut \/ \E a \in Actors : RelayWelcomes(a)
  <2> USE <1>1 DEF SignIn, SignOut, RelayWelcomes, Alive, diskVars, wizardVars, relayVars
  <2>1. Shapes'
    OBVIOUS
  <2>2. MemoryInv'
    BY DEF MemoryInv
  <2>3. SavedInv'
    BY DEF SavedInv
  <2>4. CurrentInv'
    BY DEF CurrentInv
  <2>5. QED
    BY <2>1, <2>2, <2>3, <2>4
<1>2. ASSUME NEW r \in Requests, Pair(r) PROVE StartupInv'
  <2> USE <1>2 DEF Pair, At, diskVars, relayVars
  <2>1. Shapes'
    OBVIOUS
  <2>2. MemoryInv'
    BY DEF MemoryInv
  <2>3. SavedInv'
    BY DEF SavedInv
  <2>4. CurrentInv'
    BY DEF CurrentInv, MemoryInv
  <2>5. QED
    BY <2>1, <2>2, <2>3, <2>4
<1>3. ASSUME NEW r \in Requests, Issue(r) PROVE StartupInv'
  <2> USE <1>3 DEF Issue, At, diskVars, relayVars
  <2>1. Shapes'
    OBVIOUS
  <2>2. MemoryInv'
    BY DEF MemoryInv
  <2>3. SavedInv'
    BY DEF SavedInv
  <2>4. CurrentInv'
    BY DEF CurrentInv
  <2>5. QED
    BY <2>1, <2>2, <2>3, <2>4
<1>4. ASSUME NEW r \in Requests, PairFails(r) PROVE StartupInv'
  <2> USE <1>4 DEF PairFails, At, diskVars, relayVars
  <2>1. Shapes'
    OBVIOUS
  <2>2. MemoryInv'
    BY DEF MemoryInv
  <2>3. SavedInv'
    BY DEF SavedInv
  <2>4. CurrentInv'
    BY DEF CurrentInv
  <2>5. QED
    BY <2>1, <2>2, <2>3, <2>4
<1>5. ASSUME NEW r \in Requests, Paired(r) PROVE StartupInv'
  <2> USE <1>5 DEF Paired, At, diskVars, relayVars
  <2>1. Shapes'
    OBVIOUS
  <2>2. MemoryInv'
    BY DEF MemoryInv
  <2>3. SavedInv'
    BY DEF SavedInv, MemoryInv
  <2>4. CurrentInv'
    BY DEF CurrentInv
  <2>5. QED
    BY <2>1, <2>2, <2>3, <2>4
<1>6. QED
  BY <1>1, <1>2, <1>3, <1>4, <1>5

LEMMA StartupInvariant == Spec => []StartupInv
<1>1. Init => StartupInv
  <2> SUFFICES ASSUME Init PROVE StartupInv
    OBVIOUS
  <2> USE Kinds DEF Init, Running, UnderWay, InSetup
  <2>1. Shapes
    BY DEF Shapes, MainSteps, RequestSteps
  <2>2. MemoryInv
    BY DEF MemoryInv
  <2>3. SavedInv
    BY DEF SavedInv
  <2>4. CurrentInv
    BY DEF CurrentInv
  <2>5. QED
    BY <2>1, <2>2, <2>3, <2>4 DEF StartupInv
<1>2. StartupInv /\ [Next]_vars => StartupInv'
  <2> SUFFICES ASSUME StartupInv, [Next]_vars PROVE StartupInv'
    OBVIOUS
  <2>1. CASE UNCHANGED vars
    BY <2>1 DEF StartupInv, Shapes, MemoryInv, SavedInv, CurrentInv, Running, UnderWay,
       vars, diskVars, wizardVars, relayVars, brokerVars
  <2>2. CASE Next
    BY <2>2, SetupStep, EnterStep, MainTaskStep, ProcessStep, WizardStep
    DEF Next, MainStep, Setup
  <2>3. QED
    BY <2>1, <2>2
<1>3. QED
  BY <1>1, <1>2, PTL DEF Spec

\* Nothing relies on a pairing that is not in the file, whenever the process is
\* killed and however requests and phases interleave.
THEOREM SavedCorrect == Spec => []PairedIsSaved
<1>1. StartupInv => PairedIsSaved
  BY DEF StartupInv, MemoryInv, SavedInv, PairedIsSaved
<1>2. QED
  BY <1>1, StartupInvariant, PTL

\* Unless two requests overlap, the file holds the pairing the backend knows.
THEOREM CurrentCorrect == Spec => []SavedIsCurrent
<1>1. StartupInv => SavedIsCurrent
  BY DEF StartupInv, CurrentInv, SavedIsCurrent
<1>2. QED
  BY <1>1, StartupInvariant, PTL

-----------------------------------------------------------------------------
(* Phase 1 of main.py, which comes before these phases: the module         *)
(* Onboarding.                                                             *)

\* Before start_ap and after stop_ap nothing of the access point runs.
PortalInv ==
  \A d \in Devices :
    pc[d] \in {"off", "detect", "ap", "redetect"} => ap[d] = {}

\* Who was asked to apply a form has one.
FormInv == \A d \in Devices : d \in asked => form[d] # "none"

NetInv == OnboardingTypeOK /\ PortalInv /\ FormInv /\ NoStrayAccessPoint

LEMMA TwoDevices == Devices = {Hub, Satellite} /\ Hub # Satellite /\ Retries \in Nat
BY OnboardingAssumption DEF OnboardingAssumption, Devices

LEMMA PhaseOneStep ==
  ASSUME NetInv, NEW d \in Devices, SetupNetwork(d)
  PROVE  NetInv'
<1> USE TwoDevices DEF NetInv, OnboardingTypeOK, PortalInv, FormInv, NoStrayAccessPoint,
      Goto, deviceVars, apVars, scanVars, Forms, PhaseOne, OOBE, AtRest,
      AccessPoint
<1>1. CASE Detect(d)
  BY <1>1 DEF Detect, Past, Advertise
<1>2. CASE StartAP(d)
  <2>1. ap[d] = {} /\ pc[d] = "ap"
    BY <1>2 DEF StartAP
  <2>2. CASE d \in radio /\ ap' = [ap EXCEPT ![d] = {"hostapd", "dnsmasq"}] /\ pc'[d] = "portal"
    <3>1. ap'[d] = {"hostapd", "dnsmasq"} /\ \A e \in Devices \ {d} : ap'[e] = ap[e]
      BY <2>2
    <3>2. ap' \in [Devices -> SUBSET AccessPoint]
      BY <2>2
    <3>3. pc' = [pc EXCEPT ![d] = "portal"]
      BY <1>2, <2>2 DEF StartAP
    <3>4. QED
      BY <1>2, <2>1, <2>2, <3>1, <3>2, <3>3 DEF StartAP
  <2>3. CASE ap' \in {ap, [ap EXCEPT ![d] = {"hostapd"}]} /\ pc'[d] = "stopping"
    <3>1. CASE ap' = ap
      BY <1>2, <2>1, <2>3, <3>1 DEF StartAP
    <3>2. CASE ap' = [ap EXCEPT ![d] = {"hostapd"}]
      <4>1. ap'[d] = {"hostapd"} /\ \A e \in Devices \ {d} : ap'[e] = ap[e]
        BY <3>2
      <4>2. ap' \in [Devices -> SUBSET AccessPoint]
        BY <3>2
      <4>3. pc' = [pc EXCEPT ![d] = "stopping"]
        BY <1>2, <2>3 DEF StartAP
      <4>4. QED
        BY <1>2, <2>1, <4>1, <4>2, <4>3 DEF StartAP
    <3>3. QED
      BY <2>3, <3>1, <3>2
  <2>4. CASE d \notin radio /\ ap' = ap /\ pc'[d] = "portal"
    BY <1>2, <2>1, <2>4 DEF StartAP
  <2>5. QED
    BY <1>2, <2>2, <2>3, <2>4 DEF StartAP
<1>3. CASE ServePortal(d)
  <2>1. pc[d] = "portal"
    BY <1>3 DEF ServePortal
  <2>2. CASE ap' = [ap EXCEPT ![d] = @ \cup {"portal"}] /\ pc'[d] = "wait"
    <3>1. "portal" \in ap'[d] /\ \A e \in Devices \ {d} : ap'[e] = ap[e]
      BY <2>2
    <3>2. ap' \in [Devices -> SUBSET AccessPoint]
      BY <2>2
    <3>3. pc' = [pc EXCEPT ![d] = "wait"]
      BY <1>3, <2>2 DEF ServePortal
    <3>4. QED
      BY <1>3, <2>1, <3>1, <3>2, <3>3 DEF ServePortal
  <2>3. CASE ap' = ap /\ pc'[d] = "stopping"
    BY <1>3, <2>1, <2>3 DEF ServePortal
  <2>4. QED
    BY <1>3, <2>2, <2>3 DEF ServePortal
<1>4. CASE Asked(d)
  BY <1>4 DEF Asked
<1>5. CASE Applied(d)
  BY <1>5 DEF Applied, Past
<1>6. CASE StopAP(d)
  BY <1>6 DEF StopAP, TearDown
<1>7. CASE Redetect(d)
  BY <1>7 DEF Redetect, Past, Advertise
<1>8. QED
  BY <1>1, <1>2, <1>3, <1>4, <1>5, <1>6, <1>7 DEF SetupNetwork

LEMMA SearchStep ==
  ASSUME NetInv, RunOOBE
  PROVE  NetInv'
<1> USE TwoDevices DEF NetInv, OnboardingTypeOK, PortalInv, FormInv, NoStrayAccessPoint,
      Goto, SatelliteUnchanged, deviceVars, apVars, scanVars, Forms, PhaseOne, OOBE, AtRest,
      AccessPoint, InReach
<1>1. CASE ValidateAudio
  BY <1>1 DEF ValidateAudio
<1>2. CASE Scan
  <2>1. attempts' \in 0 .. Retries + 1
    BY <1>2 DEF Scan
  <2>3. /\ UNCHANGED <<link, radio, tools, paired, saved, ap, form, asked, applying, advert>>
        /\ pc' = [pc EXCEPT ![Satellite] = "scanning"] /\ pc[Satellite] = "scan"
        /\ heard' = FALSE
    BY <1>2 DEF Scan
  <2>4. OnboardingTypeOK'
    BY <2>1, <2>3
  <2>5. (PortalInv /\ FormInv /\ NoStrayAccessPoint)'
    BY <2>3
  <2>6. QED
    BY <2>4, <2>5
<1>3. CASE AddService
  BY <1>3 DEF AddService
<1>4. CASE ScanEnds
  BY <1>4 DEF ScanEnds, Outcome
<1>5. CASE SleepOver
  BY <1>5 DEF SleepOver
<1>6. QED
  BY <1>1, <1>2, <1>3, <1>4, <1>5 DEF RunOOBE

LEMMA WorldStep ==
  ASSUME NetInv, NEW d \in Devices,
         StartProcess(d) \/ Submit(d) \/ StopSignal(d) \/ Stopped(d) \/ Kill(d)
           \/ LinkChanges(d) \/ ProgramExits(d) \/ PairHub
  PROVE  NetInv'
<1> USE TwoDevices DEF NetInv, OnboardingTypeOK, PortalInv, FormInv, NoStrayAccessPoint,
      Goto, deviceVars, apVars, scanVars, Forms, PhaseOne, OOBE, AtRest,
      AccessPoint
<1>1. CASE StartProcess(d)
  BY <1>1 DEF StartProcess
<1>2. CASE Submit(d)
  BY <1>2 DEF Submit
<1>3. CASE StopSignal(d)
  BY <1>3 DEF StopSignal
<1>4. CASE Stopped(d)
  BY <1>4 DEF Stopped, TearDown, Forget
<1>5. CASE Kill(d)
  BY <1>5 DEF Kill, Fault, Forget
<1>6. CASE LinkChanges(d)
  BY <1>6 DEF LinkChanges, Fault
<1>7. CASE PairHub
  BY <1>7 DEF PairHub
<1>8. CASE ProgramExits(d)
  <2>1. PICK p \in ap[d] \ {"portal"} : ap' = [ap EXCEPT ![d] = @ \ {p}]
    BY <1>8 DEF ProgramExits
  <2>2. ap'[d] = ap[d] \ {p} /\ \A e \in Devices \ {d} : ap'[e] = ap[e]
    BY <2>1
  <2>3. ap' \in [Devices -> SUBSET AccessPoint]
    BY <2>1
  <2>4. QED
    BY <1>8, <2>1, <2>2, <2>3 DEF ProgramExits
<1>9. QED
  BY <1>1, <1>2, <1>3, <1>4, <1>5, <1>6, <1>7, <1>8

LEMMA NetInvariant == OnboardingSpec => []NetInv
<1>1. OnboardingInit => NetInv
  <2> SUFFICES ASSUME OnboardingInit PROVE NetInv
    OBVIOUS
  <2> USE TwoDevices DEF OnboardingInit
  <2>1. OnboardingTypeOK
    <3>1. attempts \in 0 .. Retries + 1
      OBVIOUS
    <3>2. link \in [Devices -> {"none", "noip", "up"}]
      OBVIOUS
    <3>3. QED
      BY <3>1, <3>2 DEF OnboardingTypeOK, Forms, PhaseOne, OOBE, AtRest, AccessPoint
  <2>2. PortalInv /\ FormInv /\ NoStrayAccessPoint
    BY DEF PortalInv, FormInv, NoStrayAccessPoint
  <2>3. QED
    BY <2>1, <2>2 DEF NetInv
<1>2. NetInv /\ [OnboardingNext]_onboardingVars => NetInv'
  <2> SUFFICES ASSUME NetInv, [OnboardingNext]_onboardingVars PROVE NetInv'
    OBVIOUS
  <2>1. CASE UNCHANGED onboardingVars
    BY <2>1 DEF NetInv, OnboardingTypeOK, PortalInv, FormInv, NoStrayAccessPoint,
      onboardingVars, deviceVars, apVars, scanVars
  <2>2. CASE OnboardingNext
    <3>1. Hub \in Devices
      BY TwoDevices
    <3>2. QED
      BY <2>2, <3>1, PhaseOneStep, SearchStep, WorldStep DEF OnboardingNext
  <2>3. QED
    BY <2>1, <2>2
<1>3. QED
  BY <1>1, <1>2, PTL DEF OnboardingSpec

\* Every state of the two devices and of their setup has its type; the main task
\* waits only for a portal that is up, and applies only what was sent.
THEOREM OnboardingTypeCorrect == OnboardingSpec => []OnboardingTypeOK
<1>1. NetInv => OnboardingTypeOK
  BY DEF NetInv
<1>2. QED
  BY <1>1, NetInvariant, PTL

\* Nothing of the access point outlives phase 1 but on a device without nmcli,
\* whatever programs are missing or exit, links change and processes are killed.
THEOREM AccessPointCorrect == OnboardingSpec => []NoStrayAccessPoint
<1>1. NetInv => NoStrayAccessPoint
  BY DEF NetInv
<1>2. QED
  BY <1>1, NetInvariant, PTL
=============================================================================
