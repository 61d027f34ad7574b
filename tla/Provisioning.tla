---------------------------- MODULE Provisioning ----------------------------
(***************************************************************************)
(* What one start of the container brings about on the appliance: the      *)
(* wake-word model of first_boot.py in /data and /share, the personas of   *)
(* the hardware found, the Supervisor add-ons and the config flows of      *)
(* Home Assistant their auto_provision_ha walks, and the choice of main.py *)
(* between the local voice pipeline and the one of these add-ons.          *)
(*                                                                         *)
(* The Supervisor and Home Assistant are external.  A request to them is   *)
(* answered, is lost after it had its effect (a time-out), fails before,   *)
(* or is answered by what is not JSON, which only some callers survive.    *)
(*                                                                         *)
(* Model files are numbered by release; 0 is none, Partial a part of one.  *)
(***************************************************************************)
EXTENDS Integers, Sequences

CONSTANTS
  Kits,          \* sets of capabilities hardware may have
  MaxSteps,      \* auto_complete_config_flow's max_steps
  MaxRelease,    \* bound: releases of the wake-word model
  MaxFaults      \* bound: requests gone wrong, kills, changes by others

ASSUME ProvisioningAssumption ==
  /\ Kits \subseteq SUBSET {"zigbee", "zwave", "thread", "microphone", "output"}
  /\ {MaxSteps, MaxRelease, MaxFaults} \subseteq Nat

Partial == -1
Files == Partial .. MaxRelease

\* Releases 2 and 3 happen to have the same size, and so on.
Size(f) == IF f > 0 THEN f \div 2 ELSE f

\* addon_slugs.py: the services that an add-on stands behind, ZHA has none.
Managed == {"zwave_js", "otbr", "wake_word", "stt", "tts"}
Integrations == {"zha", "zwave_js"}

\* PersonaResolver.resolve, in the order main.py provisions the personas.
Resolve(caps) ==
  LET hub       == caps \cap {"zigbee", "zwave", "thread"} # {}
      satellite == "microphone" \in caps
      speaker   == "output" \in caps
  IN IF ~hub /\ ~satellite /\ ~speaker THEN <<"hub">>
     ELSE (IF hub THEN <<"hub">> ELSE <<>>)
          \o (IF satellite THEN <<"satellite">> ELSE <<>>)
          \o (IF speaker THEN <<"speaker">> ELSE <<>>)

\* The services of a persona that provisioning has something to do for.
Services(caps, p) ==
  CASE p = "hub" ->
         (IF "zigbee" \in caps THEN <<"zha">> ELSE <<>>)
         \o (IF "zwave" \in caps THEN <<"zwave_js">> ELSE <<>>)
         \o (IF "thread" \in caps THEN <<"otbr">> ELSE <<>>)
    [] p = "satellite" -> <<"wake_word", "stt">>
    [] p = "speaker" -> <<"tts">>

Elements(s) == {s[i] : i \in DOMAIN s}

VARIABLES
  caps, edition, force,  \* hardware, mode, force_local_pipeline
  released,   \* the latest release of the model
  model,      \* /data/synork/models/hey_arlo.onnx
  shared,     \* /share/openwakeword/hey_arlo.onnx
  preload,    \* core_openwakeword is told to preload it
  addon,      \* Managed -> "absent", "stopped", "started"
  entries,    \* the integrations with a config entry
  flows,      \* the handlers of open config flows
  pc,
  placed,     \* wyoming_installed
  queue,      \* personas still to be provisioned
  todo,       \* services of the present one, the head is under way
  seen,       \* loaded_services, as read when its provisioning began
  ready,      \* its results that are true
  wyoming,    \* _wyoming_voice_provisioned
  answer,     \* the step of the config flow
  steps,      \* steps submitted
  pipeline,   \* "none", "local", "skipped"
  stranded,   \* ghost: flows whose end was lost
  meddled,    \* ghost: add-ons that others changed in this start
  troubled,   \* ghost: something went wrong in this start
  faults

hwVars == <<caps, edition, force>>
fileVars == <<released, model, shared, preload>>
haVars == <<addon, entries, flows>>
runVars == <<placed, queue, todo, seen, ready, wyoming, answer, steps, pipeline>>
ghostVars == <<stranded, meddled, troubled, faults>>
vars == <<hwVars, fileVars, haVars, pc, runVars, ghostVars>>

Answers == {"form", "create_entry", "abort", "progress"}

Steps == {"off", "model", "fetch", "share", "copy", "configure", "options", "restart",
          "probe", "connect", "persona", "service", "state", "install", "set", "check",
          "start", "verify", "entry", "flow", "walk", "abort", "voice", "up"}

\* The type invariant; a whole model only, and what is under way has a head.
TypeOK ==
  /\ caps \in Kits /\ edition \in {"hub", "assistant"}
  /\ {force, preload, placed, troubled} \subseteq BOOLEAN
  /\ released \in 1 .. MaxRelease /\ model \in 0 .. released /\ shared \in Files
  /\ addon \in [Managed -> {"absent", "stopped", "started"}]
  /\ {entries, flows, stranded, seen} \subseteq SUBSET (Integrations \cup {"otbr"})
  /\ pc \in Steps
  /\ Elements(queue) \subseteq {"hub", "satellite", "speaker"}
  /\ Elements(todo) \subseteq Managed \cup Integrations
  /\ {ready, wyoming} \subseteq SUBSET {"wake_word", "stt", "tts"} /\ meddled \subseteq Managed
  /\ answer \in Answers /\ steps \in 0 .. MaxSteps
  /\ pipeline \in {"none", "local", "skipped"}
  /\ pc \in {"state", "install", "set", "check", "start", "verify", "entry", "flow", "walk", "abort"}
     => todo # <<>>

Init ==
  /\ caps \in Kits /\ edition \in {"hub", "assistant"} /\ force \in BOOLEAN
  /\ released = 1 /\ model = 0 /\ shared = 0 /\ preload = FALSE
  /\ addon = [s \in Managed |-> "absent"] /\ entries = {} /\ flows = {}
  /\ pc = "off" /\ placed = FALSE /\ queue = <<>> /\ todo = <<>> /\ seen = {}
  /\ ready = {} /\ wyoming = {} /\ answer = "form" /\ steps = 0 /\ pipeline = "none"
  /\ stranded = {} /\ meddled = {} /\ troubled = FALSE /\ faults = 0

Fault == faults < MaxFaults /\ faults' = faults + 1 /\ troubled' = TRUE

\* What may become of a request.
Outcomes == {"answered", "lost", "failed", "garbled"}
Request(o) == IF o = "answered" THEN UNCHANGED <<faults, troubled>> ELSE Fault
Effective(o) == o # "failed"

Goto(s) == pc' = s

-----------------------------------------------------------------------------
(* first_boot.py.                                                          *)

Boot ==
  /\ pc = "off"
  /\ pc' \in {"model", "probe"}     \* arlo_enabled
  /\ meddled' = {} /\ troubled' = FALSE
  /\ UNCHANGED <<hwVars, fileVars, haVars, runVars, stranded, faults>>

\* The download is received in a file of its own.
Receive == UNCHANGED model

\* _setup_wake_word: a cached model of a fair size is not downloaded again.
FetchBegins ==
  /\ pc = "model"
  /\ IF model # 0 THEN Goto("share") /\ UNCHANGED model ELSE Goto("fetch") /\ Receive
  /\ UNCHANGED <<hwVars, released, shared, preload, haVars, runVars, ghostVars>>

FetchEnds ==
  /\ pc = "fetch"
  /\ model' = released
  /\ Goto("share")
  /\ UNCHANGED <<hwVars, released, shared, preload, haVars, runVars, ghostVars>>

\* Neither of the two sources gave it: the community model, or none.
FetchFails ==
  /\ pc = "fetch"
  /\ Fault
  /\ Goto("probe")
  /\ UNCHANGED <<hwVars, fileVars, haVars, runVars, stranded, meddled>>

\* Fault: a file that is there is taken for the model.
InPlaceExists == shared # 0

InPlace == shared # 0 /\ Size(shared) = Size(model)

\* _install_to_wyoming_openwakeword, with a copy that takes a while.
CopyBegins ==
  /\ pc = "share"
  /\ IF InPlace
     THEN placed' = TRUE /\ Goto("configure") /\ UNCHANGED shared
     ELSE shared' = Partial /\ Goto("copy") /\ UNCHANGED placed
  /\ UNCHANGED <<hwVars, released, model, preload, haVars, ghostVars,
                 queue, todo, seen, ready, wyoming, answer, steps, pipeline>>

CopyEnds ==
  /\ pc = "copy"
  /\ shared' = model /\ placed' = TRUE
  /\ Goto("configure")
  /\ UNCHANGED <<hwVars, released, model, preload, haVars, ghostVars,
                 queue, todo, seen, ready, wyoming, answer, steps, pipeline>>

CopyFails ==
  /\ pc = "copy"
  /\ Fault
  /\ Goto("probe")
  /\ UNCHANGED <<hwVars, fileVars, haVars, runVars, stranded, meddled>>

\* _configure_wyoming_openwakeword: an add-on that is not there is left alone.
ConfigureAsks ==
  /\ pc = "configure"
  /\ \E o \in Outcomes :
       /\ Request(o)
       /\ Goto(IF o = "answered" /\ addon["wake_word"] # "absent" THEN "options" ELSE "probe")
  /\ UNCHANGED <<hwVars, fileVars, haVars, runVars, stranded, meddled>>

ConfigureSets ==
  /\ pc = "options"
  /\ \E o \in Outcomes :
       /\ Request(o)
       /\ preload' = (preload \/ Effective(o))
       /\ Goto(IF o = "answered" THEN "restart" ELSE "probe")
  /\ UNCHANGED <<hwVars, released, model, shared, haVars, runVars, stranded, meddled>>

\* restart_addon; a failure is only logged.
ConfigureRestarts ==
  /\ pc = "restart"
  /\ \E o \in Outcomes :
       /\ Request(o)
       /\ addon' = IF Effective(o) THEN [addon EXCEPT !["wake_word"] = "started"] ELSE addon
  /\ Goto("probe")
  /\ UNCHANGED <<hwVars, fileVars, entries, flows, runVars, stranded, meddled>>

-----------------------------------------------------------------------------
(* The personas, and the bridge they are provisioned over.                 *)

\* _setup_personas; a satellite edition does not connect to Home Assistant.
SetupPersonas ==
  /\ pc = "probe"
  /\ queue' = Resolve(caps)
  /\ Goto(IF edition = "hub" THEN "connect" ELSE "voice")
  /\ UNCHANGED <<hwVars, fileVars, haVars, ghostVars,
                 placed, todo, seen, ready, wyoming, answer, steps, pipeline>>

\* Without a bridge nothing is provisioned.
SetupBridge ==
  /\ pc = "connect"
  /\ \/ Goto("persona") /\ UNCHANGED <<faults, troubled>>
     \/ Fault /\ Goto("voice")
  /\ UNCHANGED <<hwVars, fileVars, haVars, runVars, stranded, meddled>>

\* Fault: the results of a persona replace those of the ones before.
CommitReplaces == wyoming' = ready

\* The results of the voice services are kept when its provisioner returns.
Commit == wyoming' = wyoming \cup ready

\* The next persona; that of the Hub asks for the loaded services first, and
\* takes no answer for none.
NextPersona ==
  /\ pc = "persona"
  /\ Commit /\ ready' = {}
  /\ IF queue = <<>>
     THEN Goto("voice") /\ UNCHANGED <<queue, todo, seen, faults, troubled>>
     ELSE /\ queue' = Tail(queue)
          /\ todo' = Services(caps, Head(queue))
          /\ \/ seen' \in SUBSET (entries \cap Integrations) /\ UNCHANGED <<faults, troubled>>
             \/ Head(queue) = "hub" /\ Fault /\ seen' = {}
          /\ Goto("service")
  /\ UNCHANGED <<hwVars, fileVars, haVars, placed, answer, steps, pipeline, stranded, meddled>>

NextService ==
  /\ pc = "service"
  /\ Goto(IF todo = <<>> THEN "persona" ELSE IF Head(todo) \in Managed THEN "state" ELSE "entry")
  /\ UNCHANGED <<hwVars, fileVars, haVars, runVars, ghostVars>>

\* The service under way is done.
Done == todo' = Tail(todo) /\ Goto("service")

\* An exception that auto_provision_ha lets through: what is left of the
\* persona is skipped, and what it had brought up is forgotten.
Raise == todo' = <<>> /\ ready' = {} /\ Goto("persona")

-----------------------------------------------------------------------------
(* SupervisorClient.ensure_addon_running, for the service under way.       *)

\* True or False, for the integration to be looked at or the next service.
Ensured(ok) ==
  IF Head(todo) \in Integrations
  THEN Goto("entry") /\ UNCHANGED <<todo, ready>>
  ELSE /\ Done
       /\ ready' = IF ok /\ Head(todo) # "otbr" THEN ready \cup {Head(todo)} ELSE ready

GoesOn(s) == Goto(s) /\ UNCHANGED <<todo, ready>>

AfterInstall == IF Head(todo) = "zwave_js" THEN "set" ELSE "check"

\* addon_state takes an error for an add-on that is not installed.
EnsureAsks ==
  /\ pc = "state"
  /\ \E o \in Outcomes :
       /\ Request(o)
       /\ IF o = "garbled" THEN Raise
          ELSE GoesOn(IF o = "answered" /\ addon[Head(todo)] # "absent"
                      THEN AfterInstall ELSE "install")
  /\ UNCHANGED <<hwVars, fileVars, haVars, placed, queue, seen, wyoming, answer, steps,
                 pipeline, stranded, meddled>>

\* The Supervisor refuses to install what is installed.
EnsureInstalls ==
  /\ pc = "install"
  /\ \E o \in Outcomes :
       /\ Request(o)
       /\ addon' = IF Effective(o) /\ addon[Head(todo)] = "absent"
                   THEN [addon EXCEPT ![Head(todo)] = "stopped"] ELSE addon
       /\ IF o = "garbled" THEN Raise
          ELSE IF o = "answered" /\ addon[Head(todo)] = "absent" THEN GoesOn(AfterInstall)
          ELSE Ensured(FALSE)
  /\ UNCHANGED <<hwVars, fileVars, entries, flows, placed, queue, seen, wyoming, answer, steps,
                 pipeline, stranded, meddled>>

\* The options; an error is logged.
EnsureSets ==
  /\ pc = "set"
  /\ \E o \in Outcomes :
       Request(o) /\ IF o = "garbled" THEN Raise ELSE GoesOn("check")
  /\ UNCHANGED <<hwVars, fileVars, haVars, placed, queue, seen, wyoming, answer, steps,
                 pipeline, stranded, meddled>>

NeedsStart(o) == o # "answered" \/ addon[Head(todo)] # "started"

EnsureChecks ==
  /\ pc = "check"
  /\ \E o \in Outcomes :
       /\ Request(o)
       /\ IF o = "garbled" THEN Raise
          ELSE IF NeedsStart(o) THEN GoesOn("start")
          ELSE Ensured(TRUE)
  /\ UNCHANGED <<hwVars, fileVars, haVars, placed, queue, seen, wyoming, answer, steps,
                 pipeline, stranded, meddled>>

EnsureStarts ==
  /\ pc = "start"
  /\ \E o \in Outcomes :
       /\ Request(o)
       /\ addon' = IF Effective(o) /\ addon[Head(todo)] # "absent"
                   THEN [addon EXCEPT ![Head(todo)] = "started"] ELSE addon
       /\ IF o = "garbled" THEN Raise
          ELSE IF o = "answered" /\ addon[Head(todo)] # "absent" THEN GoesOn("verify")
          ELSE Ensured(FALSE)
  /\ UNCHANGED <<hwVars, fileVars, entries, flows, placed, queue, seen, wyoming, answer, steps,
                 pipeline, stranded, meddled>>

EnsureVerifies ==
  /\ pc = "verify"
  /\ \E o \in Outcomes :
       /\ Request(o)
       /\ IF o = "garbled" THEN Raise
          ELSE Ensured(o = "answered" /\ addon[Head(todo)] = "started")
  /\ UNCHANGED <<hwVars, fileVars, haVars, placed, queue, seen, wyoming, answer, steps,
                 pipeline, stranded, meddled>>

-----------------------------------------------------------------------------
(* The config flow of the integration under way.                           *)

\* has_config_entry takes an error for no.
EntryAsks ==
  /\ pc = "entry"
  /\ \/ /\ Head(todo) \in seen
        /\ Done /\ UNCHANGED <<faults, troubled>>
     \/ /\ Head(todo) \notin seen
        /\ \E o \in {"answered", "failed"} :
             /\ Request(o)
             /\ IF o = "answered" /\ Head(todo) \in entries
                THEN Done ELSE Goto("flow") /\ UNCHANGED todo
  /\ UNCHANGED <<hwVars, fileVars, haVars, placed, queue, seen, ready, wyoming, answer, steps,
                 pipeline, stranded, meddled>>

\* What Home Assistant does at a step of a flow: it makes one entry only, and
\* a flow is over with it or with its abortion.
FlowAnswers(a) ==
  /\ a = "create_entry" => Head(todo) \notin entries
  /\ answer' = a
  /\ entries' = IF a = "create_entry" THEN entries \cup {Head(todo)} ELSE entries
  /\ flows' = IF a \in {"form", "progress"} THEN flows \cup {Head(todo)} ELSE flows \ {Head(todo)}

\* start_config_flow; without an answer the flow's id is not known, and what
\* is not JSON is not understood by the caller.
FlowStarts ==
  /\ pc = "flow"
  /\ steps' = 0
  /\ \E o \in Outcomes :
       /\ Request(o)
       /\ \/ Effective(o) /\ \E a \in Answers : FlowAnswers(a)
          \/ ~Effective(o) /\ UNCHANGED <<answer, entries, flows>>
       /\ stranded' = IF o \in {"lost", "garbled"} THEN stranded \cup {Head(todo)} ELSE stranded
       /\ CASE o = "answered" -> GoesOn("walk")
            [] o = "garbled" -> Raise
            [] OTHER -> Done /\ UNCHANGED ready
  /\ UNCHANGED <<hwVars, fileVars, addon, placed, queue, seen, wyoming, pipeline, meddled>>

\* The bound on the steps of a walk.
MoreSteps == steps < MaxSteps

\* The locals of the walk are gone.
Forgotten == answer' = "form" /\ steps' = 0

\* Fault: an answer that is no form ends the walk at once.
LeavesWalkSilently ==
  IF MoreSteps /\ answer # "form" THEN Done ELSE Goto("abort") /\ UNCHANGED todo

\* Fault: a flow that did not come to its end is begun again.
LeavesWalkRetries ==
  IF MoreSteps /\ answer \in {"create_entry", "abort"} THEN Done
  ELSE Goto("flow") /\ UNCHANGED todo

\* create_entry and abort end it; the last step's answer is not looked at.
LeavesWalk ==
  IF MoreSteps /\ answer \in {"create_entry", "abort"} THEN Done
  ELSE Goto("abort") /\ UNCHANGED todo

WalkEnds ==
  /\ pc = "walk"
  /\ ~(MoreSteps /\ answer = "form")
  /\ LeavesWalk /\ Forgotten
  /\ UNCHANGED <<hwVars, fileVars, haVars, placed, queue, seen, ready, wyoming, pipeline, ghostVars>>

\* submit_config_flow_step; what is not JSON is found out at the next turn of
\* the loop, outside the try, or not at all after the last step.
WalkSubmits ==
  /\ pc = "walk" /\ MoreSteps /\ answer = "form"
  /\ steps' = steps + 1
  /\ \E o \in Outcomes :
       /\ Request(o)
       /\ \/ Effective(o) /\ \E a \in Answers : FlowAnswers(a)
          \/ ~Effective(o) /\ UNCHANGED <<answer, entries, flows>>
       /\ LET raises == o = "garbled" /\ steps' < MaxSteps
          IN /\ stranded' = IF raises THEN stranded \cup {Head(todo)} ELSE stranded
             /\ CASE o = "answered" -> GoesOn("walk")
                  [] raises -> Raise
                  [] OTHER -> GoesOn("abort")
  /\ UNCHANGED <<hwVars, fileVars, addon, placed, queue, seen, wyoming, pipeline, meddled>>

\* abort_config_flow, of which the caller learns nothing.
FlowAborted ==
  /\ pc = "abort"
  /\ \/ flows' = flows \ {Head(todo)} /\ UNCHANGED <<stranded, faults, troubled>>
     \/ Fault /\ stranded' = stranded \cup {Head(todo)} /\ UNCHANGED flows
  /\ Done
  /\ UNCHANGED <<hwVars, fileVars, addon, entries, placed, queue, seen, ready, wyoming, answer,
                 steps, pipeline, meddled>>

-----------------------------------------------------------------------------
(* _setup_assistant_pipeline.                                              *)

VoiceIsReady == {"wake_word", "stt"} \subseteq wyoming

\* No pipeline without a microphone, none beside the add-ons unless forced;
\* one that does not start is dropped.
SetupPipeline ==
  /\ pc = "voice"
  /\ IF "microphone" \notin caps THEN pipeline' = "none" /\ UNCHANGED <<faults, troubled>>
     ELSE IF VoiceIsReady /\ ~force THEN pipeline' = "skipped" /\ UNCHANGED <<faults, troubled>>
     ELSE \/ pipeline' = "local" /\ UNCHANGED <<faults, troubled>>
          \/ Fault /\ pipeline' = "none"
  /\ Goto("up")
  /\ UNCHANGED <<hwVars, fileVars, haVars, placed, queue, todo, seen, ready, wyoming, answer,
                 steps, stranded, meddled>>

-----------------------------------------------------------------------------
(* The rest of the world.                                                  *)

Release ==
  /\ released < MaxRelease
  /\ released' = released + 1
  /\ UNCHANGED <<hwVars, model, shared, preload, haVars, pc, runVars, ghostVars>>

\* Somebody installs, starts, stops or removes an add-on.
Meddle ==
  /\ Fault
  /\ \E s \in Managed, a \in {"absent", "stopped", "started"} :
       addon[s] # a /\ addon' = [addon EXCEPT ![s] = a] /\ meddled' = meddled \cup {s}
  /\ UNCHANGED <<hwVars, fileVars, entries, flows, pc, runVars, stranded>>

\* The container is stopped, at any point; /data may be lost when the add-on
\* is installed anew.
Restart ==
  /\ pc # "off"
  /\ Fault
  /\ pc' = "off"
  /\ model' \in {model, 0}
  /\ placed' = FALSE /\ queue' = <<>> /\ todo' = <<>> /\ seen' = {} /\ ready' = {}
  /\ wyoming' = {} /\ answer' = "form" /\ steps' = 0 /\ pipeline' = "none"
  /\ stranded' = IF pc \in {"walk", "abort"} THEN stranded \cup {Head(todo)} ELSE stranded
  /\ UNCHANGED <<hwVars, released, shared, preload, haVars, meddled>>

-----------------------------------------------------------------------------
FirstBoot ==
  \/ Boot \/ FetchBegins \/ FetchEnds \/ FetchFails \/ CopyBegins \/ CopyEnds \/ CopyFails
  \/ ConfigureAsks \/ ConfigureSets \/ ConfigureRestarts

Provision ==
  \/ SetupPersonas \/ SetupBridge \/ NextPersona \/ NextService
  \/ EnsureAsks \/ EnsureInstalls \/ EnsureSets \/ EnsureChecks \/ EnsureStarts \/ EnsureVerifies
  \/ EntryAsks \/ FlowStarts \/ WalkEnds \/ WalkSubmits \/ FlowAborted
  \/ SetupPipeline

Next == FirstBoot \/ Provision \/ Release \/ Meddle \/ Restart

Spec == Init /\ [][Next]_vars

\* Every request has a time-out; the Supervisor restarts the container.
FairSpec == Spec /\ WF_vars(FirstBoot) /\ WF_vars(Provision)

-----------------------------------------------------------------------------
(* What a start of the container promises.                                 *)

\* The wake-word add-on is told of a model that is whole, whatever the starts
\* before were interrupted at.
PlacedIsWhole == placed => shared > 0

\* Home Assistant is not left with a half-configured entry: a flow that is
\* open is the one walked, or one whose end was lost.
NoFlowLeft ==
  flows \subseteq stranded \cup (IF pc \in {"walk", "abort"} THEN {Head(todo)} ELSE {})

\* The microphone has one listener, whatever fails: the local pipeline gives
\* way only to add-ons that run, or that others stopped, and a start without
\* trouble has every add-on running and no local pipeline beside them unless
\* that is forced.
OneListener ==
  /\ pipeline = "skipped" => \A s \in {"wake_word", "stt"} : addon[s] = "started" \/ s \in meddled
  /\ pc = "up" /\ edition = "hub" /\ ~troubled =>
       /\ \A i \in DOMAIN Resolve(caps) :
            \A s \in Elements(Services(caps, Resolve(caps)[i])) \cap Managed : addon[s] = "started"
       /\ pipeline = "local" => force

\* Failures are never fatal: the Hub comes up.
ComesUp == <>[](pc = "up")
=============================================================================
