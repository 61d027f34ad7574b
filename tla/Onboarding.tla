----------------------------- MODULE Onboarding -----------------------------
(***************************************************************************)
(* How a device finds its network and a satellite its Hub: phase 1 of      *)
(* main.py in both editions, with the network detector, the fallback Wi-Fi *)
(* access point and its captive portal, the mDNS advertisement of the Hub, *)
(* and phase 4 of the Assistant edition with the scan for Hubs.            *)
(*                                                                         *)
(* One Hub and one satellite, a user at each captive portal, cables and    *)
(* routers that come and go.  Several Hubs on one network, where the       *)
(* satellite takes the first it found, are not distinguished.              *)
(***************************************************************************)
EXTENDS Naturals, FiniteSets

CONSTANTS
  Hub, Satellite,
  Retries,      \* scans after the first (10 in the code)
  MaxProcesses, \* bound: starts of the processes
  MaxFaults     \* bound: changes of the network, kills

ASSUME OnboardingAssumption == {Retries, MaxProcesses, MaxFaults} \subseteq Nat /\ Hub # Satellite

Devices == {Hub, Satellite}

VARIABLES
  link,       \* the interface of a device: "none", "noip", "up"
  radio,      \* devices with a wireless interface
  tools,      \* devices with nmcli
  paired,     \* the Hub has a device secret
  saved,      \* the satellite has a saved pairing
  pc,         \* where the main task of a device is
  ap,         \* what runs of the access point
  form,       \* _wifi_ssid, _wifi_passphrase as the user sent them
  asked,      \* _wifi_configured_event
  applying,   \* the credentials nmcli was given
  advert,     \* what a device advertises: "none", "unpaired", "paired"
  heard,      \* a Hub was discovered in this scan
  attempts,   \* scans that were started
  processes, faults

deviceVars == <<link, radio, tools, paired, saved>>
apVars == <<ap, form, asked, applying>>
scanVars == <<heard, attempts>>
onboardingVars == <<deviceVars, pc, apVars, advert, scanVars, processes, faults>>

AccessPoint == {"hostapd", "dnsmasq", "portal"}
PhaseOne == {"detect", "ap", "portal", "wait", "apply", "stopap", "redetect"}
OOBE == {"audio", "scan", "scanning", "sleep"}
AtRest == {"off", "ready", "connecting", "alone"}
Forms == {"none", "right", "wrong"}

\* The type invariant; the main task waits only for a portal that is up.
OnboardingTypeOK ==
  /\ link \in [Devices -> {"none", "noip", "up"}]
  /\ radio \subseteq Devices /\ tools \subseteq Devices
  /\ {paired, saved, heard} \subseteq BOOLEAN
  /\ pc \in [Devices -> PhaseOne \cup OOBE \cup AtRest \cup {"stopping"}]
  /\ ap \in [Devices -> SUBSET AccessPoint]
  /\ form \in [Devices -> Forms] /\ applying \in [Devices -> Forms]
  /\ asked \subseteq Devices
  /\ advert \in [Devices -> {"none", "unpaired", "paired"}] /\ advert[Satellite] = "none"
  /\ attempts \in 0 .. Retries + 1
  /\ \A d \in Devices : pc[d] = "wait" => "portal" \in ap[d]
  /\ \A d \in Devices : pc[d] = "apply" => applying[d] # "none"

OnboardingInit ==
  /\ link \in [Devices -> {"none", "up"}]
  /\ radio \in SUBSET Devices
  /\ tools \in {{}, Devices}
  /\ paired \in BOOLEAN /\ saved \in BOOLEAN
  /\ pc = [d \in Devices |-> "off"]
  /\ ap = [d \in Devices |-> {}]
  /\ form = [d \in Devices |-> "none"] /\ applying = [d \in Devices |-> "none"]
  /\ asked = {}
  /\ advert = [d \in Devices |-> "none"]
  /\ heard = FALSE /\ attempts = 0
  /\ processes = 0 /\ faults = 0

Goto(d, s) == pc' = [pc EXCEPT ![d] = s]

\* Whether the satellite could hear the Hub's advertisement.
InReach == advert[Hub] # "none" /\ link[Hub] = "up" /\ link[Satellite] = "up"

-----------------------------------------------------------------------------
(* Phase 1: _setup_network                                                 *)

StartProcess(d) ==
  /\ pc[d] = "off"
  /\ processes < MaxProcesses
  /\ processes' = processes + 1
  /\ Goto(d, "detect")
  /\ UNCHANGED <<deviceVars, apVars, advert, scanVars, faults>>

\* Where a device goes on after phase 1: the satellite looks for its Hub.
Past(d) == IF d = Hub THEN "ready" ELSE IF saved THEN "connecting" ELSE "audio"

\* MDNSAdvertiser.start, with the pairing as it is now.
Advertise == advert' = [advert EXCEPT ![Hub] = IF paired THEN "paired" ELSE "unpaired"]

\* An interface without a carrier counts as none; only a Hub with an address
\* advertises.
Detect(d) ==
  /\ pc[d] = "detect"
  /\ Goto(d, IF link[d] = "none" THEN "ap" ELSE Past(d))
  /\ IF d = Hub /\ link[d] = "up" THEN Advertise ELSE UNCHANGED advert
  /\ UNCHANGED <<deviceVars, apVars, scanVars, processes, faults>>

\* start_ap: hostapd, then dnsmasq; a program that is missing raises.  Without
\* a wireless interface nothing is started, and nothing raised.
StartAP(d) ==
  /\ pc[d] = "ap"
  /\ \/ d \in radio /\ ap' = [ap EXCEPT ![d] = {"hostapd", "dnsmasq"}] /\ Goto(d, "portal")
     \/ d \in radio /\ ap' \in {ap, [ap EXCEPT ![d] = {"hostapd"}]} /\ Goto(d, "stopping")
     \/ d \notin radio /\ UNCHANGED ap /\ Goto(d, "portal")
  /\ UNCHANGED <<deviceVars, form, asked, applying, advert, scanVars, processes, faults>>

\* hostapd or dnsmasq exits, at once or later; nobody looks at that, and the
\* portal is served, or goes on to be, all the same.
ProgramExits(d) ==
  /\ \E p \in ap[d] \ {"portal"} : ap' = [ap EXCEPT ![d] = @ \ {p}]
  /\ UNCHANGED <<deviceVars, pc, form, asked, applying, advert, scanVars, processes, faults>>

\* The portal is bound to the address of the access point.
CanBind(d) == d \in radio

ServePortal(d) ==
  /\ pc[d] = "portal"
  /\ \/ CanBind(d) /\ ap' = [ap EXCEPT ![d] = @ \cup {"portal"}] /\ Goto(d, "wait")
     \/ UNCHANGED ap /\ Goto(d, "stopping")
  /\ UNCHANGED <<deviceVars, form, asked, applying, advert, scanVars, processes, faults>>

\* The user sends the form; it is answered with success as long as it is up.
Submit(d) ==
  /\ "portal" \in ap[d]
  /\ \E f \in Forms \ {"none"} : form' = [form EXCEPT ![d] = f]
  /\ asked' = asked \cup {d}
  /\ UNCHANGED <<deviceVars, pc, ap, applying, advert, scanVars, processes, faults>>

Asked(d) ==
  /\ pc[d] = "wait" /\ d \in asked
  /\ applying' = [applying EXCEPT ![d] = form[d]]
  /\ Goto(d, "apply")
  /\ UNCHANGED <<deviceVars, ap, form, asked, advert, scanVars, processes, faults>>

\* apply_wifi_config: the exit status of nmcli is not looked at.  Without nmcli
\* it returns False, and the access point is left as it is.
Applied(d) ==
  /\ pc[d] = "apply"
  /\ applying' = [applying EXCEPT ![d] = "none"]
  /\ IF d \in tools
     THEN /\ link' \in {[link EXCEPT ![d] = l] :
                          l \in IF applying[d] = "right" THEN {"none", "noip", "up"} ELSE {"none"}}
          /\ Goto(d, "stopap")
     ELSE Goto(d, Past(d)) /\ UNCHANGED link
  /\ UNCHANGED <<radio, tools, paired, saved, ap, form, asked, advert, scanVars, processes, faults>>

\* Fault: the DHCP server is forgotten.
TearDownKeepsDHCP(d) == ap' = [ap EXCEPT ![d] = @ \ {"portal", "hostapd"}]

\* stop_ap
TearDown(d) == ap' = [ap EXCEPT ![d] = {}]

StopAP(d) ==
  /\ pc[d] = "stopap"
  /\ TearDown(d)
  /\ Goto(d, "redetect")
  /\ UNCHANGED <<deviceVars, form, asked, applying, advert, scanVars, processes, faults>>

\* The advertiser was made only if there was an address to begin with.
Redetect(d) ==
  /\ pc[d] = "redetect"
  /\ IF link[d] = "up" /\ advert[d] # "none" THEN Advertise ELSE UNCHANGED advert
  /\ Goto(d, Past(d))
  /\ UNCHANGED <<deviceVars, apVars, scanVars, processes, faults>>

-----------------------------------------------------------------------------
(* Phase 4 of the Assistant edition: run_oobe                              *)

SatelliteUnchanged == UNCHANGED <<deviceVars, apVars, advert, processes, faults>>

\* Without a microphone and a speaker there is no satellite.
ValidateAudio ==
  /\ pc[Satellite] = "audio"
  /\ \E s \in {"scan", "alone"} : Goto(Satellite, s)
  /\ attempts' = 0
  /\ UNCHANGED heard /\ SatelliteUnchanged

Scan ==
  /\ pc[Satellite] = "scan"
  /\ Goto(Satellite, "scanning")
  /\ heard' = FALSE
  /\ attempts' = IF attempts > Retries THEN attempts ELSE attempts + 1
  /\ SatelliteUnchanged

\* HubListener.add_service of a Hub whose record is resolved; without a record or
\* an address in it, it returns, and nothing calls it again in this scan.
AddService ==
  /\ pc[Satellite] = "scanning"
  /\ InReach /\ ~heard
  /\ heard' = TRUE
  /\ UNCHANGED <<pc, attempts>> /\ SatelliteUnchanged

\* Fault: a scan that found nothing is always repeated.
OutcomeForever == IF heard THEN "connecting" ELSE "sleep"

Outcome == IF heard THEN "connecting" ELSE IF attempts > Retries THEN "alone" ELSE "sleep"

\* The scan is over, whether a Hub in reach was heard by then or not.
ScanEnds ==
  /\ pc[Satellite] = "scanning"
  /\ Goto(Satellite, Outcome)
  /\ UNCHANGED <<heard, attempts>> /\ SatelliteUnchanged

SleepOver ==
  /\ pc[Satellite] = "sleep"
  /\ Goto(Satellite, "scan")
  /\ UNCHANGED <<heard, attempts>> /\ SatelliteUnchanged

-----------------------------------------------------------------------------
(* The end of a process, and the rest of the world.                        *)

\* A signal is looked at only when the start-up is over.
StopSignal(d) ==
  /\ pc[d] \in AtRest \ {"off"}
  /\ Goto(d, "stopping")
  /\ UNCHANGED <<deviceVars, apVars, advert, scanVars, processes, faults>>

Forget(d) ==
  /\ form' = [form EXCEPT ![d] = "none"] /\ applying' = [applying EXCEPT ![d] = "none"]
  /\ asked' = asked \ {d}
  /\ advert' = [advert EXCEPT ![d] = "none"]
  /\ Goto(d, "off")

\* stop(): the advertisement is withdrawn, the access point stopped.
Stopped(d) ==
  /\ pc[d] = "stopping"
  /\ TearDown(d)
  /\ Forget(d)
  /\ UNCHANGED <<deviceVars, scanVars, processes, faults>>

Fault == faults < MaxFaults /\ faults' = faults + 1

\* The container is killed, with the programs that run in it.
Kill(d) ==
  /\ pc[d] # "off"
  /\ Fault
  /\ ap' = [ap EXCEPT ![d] = {}]
  /\ Forget(d)
  /\ UNCHANGED <<deviceVars, scanVars, processes>>

\* A cable, a router, an answer from its DHCP server.
LinkChanges(d) ==
  /\ Fault
  /\ \E l \in {"none", "noip", "up"} \ {link[d]} : link' = [link EXCEPT ![d] = l]
  /\ UNCHANGED <<radio, tools, paired, saved, pc, apVars, advert, scanVars, processes>>

\* The wizard pairs the Hub; what it advertises stays as it was.
PairHub ==
  /\ pc[Hub] # "off" /\ ~paired
  /\ paired' = TRUE
  /\ UNCHANGED <<link, radio, tools, saved, pc, apVars, advert, scanVars, processes, faults>>

-----------------------------------------------------------------------------
SetupNetwork(d) ==
  Detect(d) \/ StartAP(d) \/ ServePortal(d) \/ Asked(d) \/ Applied(d) \/ StopAP(d) \/ Redetect(d)
RunOOBE == ValidateAudio \/ Scan \/ AddService \/ ScanEnds \/ SleepOver

OnboardingNext ==
  \/ \E d \in Devices :
       \/ StartProcess(d) \/ SetupNetwork(d) \/ Submit(d)
       \/ ProgramExits(d) \/ StopSignal(d) \/ Stopped(d) \/ Kill(d) \/ LinkChanges(d)
  \/ RunOOBE \/ PairHub

OnboardingSpec == OnboardingInit /\ [][OnboardingNext]_onboardingVars

\* The main tasks go on; users and operators do what they like.
FairOnboarding ==
  /\ OnboardingSpec
  /\ \A d \in Devices : WF_onboardingVars(SetupNetwork(d)) /\ WF_onboardingVars(Stopped(d))
  /\ WF_onboardingVars(RunOOBE)

-----------------------------------------------------------------------------
(* What onboarding promises.                                               *)

\* Nothing of the access point runs when the process is off, or past phase 1,
\* however that ended; only a device without nmcli leaves it up.
NoStrayAccessPoint ==
  \A d \in Devices :
    ap[d] # {} => pc[d] \in PhaseOne \cup {"stopping"} \/ (d \notin tools /\ pc[d] # "off")

\* Every start-up comes to rest, except where it waits for the user's form.
ComesToRest ==
  \A d \in Devices : []<>(pc[d] \in AtRest \/ (pc[d] = "wait" /\ d \notin asked))
=============================================================================
