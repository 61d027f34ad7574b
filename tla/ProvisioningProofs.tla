------------------------- MODULE ProvisioningProofs --------------------------
(***************************************************************************)
(* Proofs about Provisioning, for every kit of hardware, number of steps   *)
(* of a flow, release and failure.                                         *)
(***************************************************************************)
EXTENDS Provisioning, TLAPS

USE ProvisioningAssumption DEF ProvisioningAssumption
USE DEF hwVars, haVars, ghostVars, Fault, Request, Effective, Goto, GoesOn, Done, Raise

\* There is a model when it is copied, nothing was placed before in this start,
\* and what is in /share is nothing, a part, or a release.
FileInv ==
  /\ released \in Nat \ {0} /\ model \in Nat /\ shared \in Nat \cup {Partial}
  /\ pc \in {"share", "copy"} => model > 0
  /\ pc \in {"off", "model", "fetch", "share", "copy"} => ~placed

\* A flow whose last answer ended it is not open any more.
FlowInv == pc = "walk" /\ answer \in {"create_entry", "abort"} => Head(todo) \notin flows

\* What remains of a copy has not the size of a model: what has is whole.
LEMMA SameSizeIsWhole ==
  ASSUME FileInv, model > 0, InPlace
  PROVE  shared > 0
<1>1. Size(model) \in Nat
  BY DEF Size, FileInv
<1>2. Size(Partial) = -1
  BY DEF Size, Partial
<1>3. QED
  BY <1>1, <1>2 DEF InPlace, FileInv, Partial

LEMMA FirstBootStep ==
  ASSUME FileInv, PlacedIsWhole, FirstBoot
  PROVE  FileInv' /\ PlacedIsWhole'
<1> USE DEF FileInv, PlacedIsWhole
<1>1. CASE Boot
  BY <1>1 DEF Boot, fileVars, runVars
<1>2. CASE FetchBegins
  BY <1>2 DEF FetchBegins, Receive, runVars
<1>3. CASE FetchEnds
  BY <1>3 DEF FetchEnds, runVars
<1>4. CASE FetchFails \/ CopyFails
  BY <1>4 DEF FetchFails, CopyFails, fileVars, runVars
<1>5. CASE CopyBegins
  <2>1. CASE InPlace
    BY <1>5, <2>1, SameSizeIsWhole DEF CopyBegins
  <2>2. CASE ~InPlace
    BY <1>5, <2>2 DEF CopyBegins, Partial
  <2>3. QED
    BY <2>1, <2>2
<1>6. CASE CopyEnds
  BY <1>6 DEF CopyEnds
<1>7. CASE ConfigureAsks
  BY <1>7 DEF ConfigureAsks, fileVars, runVars
<1>8. CASE ConfigureSets
  BY <1>8 DEF ConfigureSets, runVars
<1>9. CASE ConfigureRestarts
  BY <1>9 DEF ConfigureRestarts, fileVars, runVars
<1>10. QED
  BY <1>1, <1>2, <1>3, <1>4, <1>5, <1>6, <1>7, <1>8, <1>9 DEF FirstBoot

\* The rest of a start reads the files no more.
LEMMA ProvisionKeepsFiles ==
  ASSUME Provision
  PROVE  /\ UNCHANGED <<fileVars, placed>>
         /\ pc' \notin {"off", "model", "fetch", "share", "copy"}
<1> USE DEF fileVars, runVars
<1>1. CASE SetupPersonas \/ SetupBridge \/ NextPersona \/ NextService \/ SetupPipeline
  BY <1>1 DEF SetupPersonas, SetupBridge, NextPersona, NextService, SetupPipeline
<1>2. CASE EnsureAsks \/ EnsureInstalls \/ EnsureSets
  BY <1>2 DEF EnsureAsks, EnsureInstalls, EnsureSets, AfterInstall, Ensured
<1>3. CASE EnsureChecks \/ EnsureStarts \/ EnsureVerifies
  BY <1>3 DEF EnsureChecks, EnsureStarts, EnsureVerifies, Ensured
<1>4. CASE EntryAsks \/ FlowStarts
  BY <1>4 DEF EntryAsks, FlowStarts
<1>5. CASE WalkEnds \/ WalkSubmits \/ FlowAborted
  BY <1>5 DEF WalkEnds, WalkSubmits, FlowAborted, LeavesWalk
<1>6. QED
  BY <1>1, <1>2, <1>3, <1>4, <1>5 DEF Provision

LEMMA FileStep ==
  ASSUME FileInv, PlacedIsWhole, [Next]_vars
  PROVE  FileInv' /\ PlacedIsWhole'
<1>1. CASE Provision
  BY <1>1, ProvisionKeepsFiles DEF FileInv, PlacedIsWhole, fileVars
<1>2. CASE Release \/ Meddle \/ Restart \/ UNCHANGED vars
  BY <1>2 DEF Release, Meddle, Restart, FileInv, PlacedIsWhole, vars, fileVars, runVars
<1>3. QED
  BY <1>1, <1>2, FirstBootStep DEF Next

\* A walk leaves its flow ended, aborted, or lost.
LEMMA FlowStep ==
  ASSUME FlowInv, NoFlowLeft, [Next]_vars
  PROVE  FlowInv' /\ NoFlowLeft'
<1> USE DEF FlowInv, NoFlowLeft
<1>1. CASE FirstBoot
  <2>1. UNCHANGED <<flows, stranded>> /\ pc \notin {"walk", "abort"} /\ pc' \notin {"walk", "abort"}
    BY <1>1 DEF FirstBoot, Boot, FetchBegins, FetchEnds, FetchFails, CopyBegins, CopyEnds,
       CopyFails, ConfigureAsks, ConfigureSets, ConfigureRestarts
  <2>2. QED
    BY <2>1
<1>2. CASE \/ SetupPersonas \/ SetupBridge \/ NextPersona \/ NextService \/ SetupPipeline
           \/ EntryAsks
  <2>1. UNCHANGED <<flows, stranded>> /\ pc \notin {"walk", "abort"} /\ pc' \notin {"walk", "abort"}
    BY <1>2 DEF SetupPersonas, SetupBridge, NextPersona, NextService, SetupPipeline, EntryAsks
  <2>2. QED
    BY <2>1
<1>3. CASE EnsureAsks \/ EnsureInstalls \/ EnsureSets
  <2>1. UNCHANGED <<flows, stranded>> /\ pc \notin {"walk", "abort"} /\ pc' \notin {"walk", "abort"}
    BY <1>3 DEF EnsureAsks, EnsureInstalls, EnsureSets, AfterInstall, Ensured
  <2>2. QED
    BY <2>1
<1>4. CASE EnsureChecks \/ EnsureStarts \/ EnsureVerifies
  <2>1. UNCHANGED <<flows, stranded>> /\ pc \notin {"walk", "abort"} /\ pc' \notin {"walk", "abort"}
    BY <1>4 DEF EnsureChecks, EnsureStarts, EnsureVerifies, Ensured
  <2>2. QED
    BY <2>1
<1>5. CASE FlowStarts
  BY <1>5 DEF FlowStarts, FlowAnswers, Answers, Outcomes
<1>6. CASE WalkSubmits
  BY <1>6 DEF WalkSubmits, FlowAnswers, Answers, Outcomes
<1>7. CASE WalkEnds
  BY <1>7 DEF WalkEnds, LeavesWalk, Forgotten
<1>8. CASE FlowAborted
  BY <1>8 DEF FlowAborted
<1>9. CASE Release \/ Meddle \/ Restart \/ UNCHANGED vars
  BY <1>9 DEF Release, Meddle, Restart, vars, runVars
<1>10. QED
  BY <1>1, <1>2, <1>3, <1>4, <1>5, <1>6, <1>7, <1>8, <1>9 DEF Next, Provision

LEMMA ProvisioningInvariant == Spec => [](FileInv /\ PlacedIsWhole /\ FlowInv /\ NoFlowLeft)
<1>1. Init => FileInv /\ PlacedIsWhole /\ FlowInv /\ NoFlowLeft
  BY DEF Init, FileInv, PlacedIsWhole, FlowInv, NoFlowLeft
<1>2. QED
  BY <1>1, FileStep, FlowStep, PTL DEF Spec

\* The add-on is never told of part of a model, or of none.
THEOREM PlacedCorrect == Spec => []PlacedIsWhole
  BY ProvisioningInvariant, PTL

\* No config flow is left open but the one walked and those whose end was lost.
THEOREM FlowsCorrect == Spec => []NoFlowLeft
  BY ProvisioningInvariant, PTL

-----------------------------------------------------------------------------
(* The microphone.                                                         *)

Personas == {"hub", "satellite", "speaker"}
Voices == {"wake_word", "stt", "tts"}
Ensuring == {"state", "install", "set", "check", "start", "verify"}
Entering == {"entry", "flow", "walk", "abort"}
Booting == {"off", "model", "fetch", "share", "copy", "configure", "options", "restart", "probe"}

StartTypes ==
  /\ addon \in [Managed -> {"absent", "stopped", "started"}]
  /\ queue \in Seq(Personas) /\ todo \in Seq(Managed \cup Integrations)
  /\ ready \subseteq Voices /\ wyoming \subseteq Voices
  /\ pc \in Ensuring => todo # <<>> /\ Head(todo) \in Managed
  /\ pc \in Entering => todo # <<>> /\ Head(todo) \in Integrations
  /\ pc \in Booting \cup {"connect", "persona"} => todo = <<>>

\* What has been brought up runs, unless others stopped it.
Running(s) == addon[s] = "started" \/ s \in meddled
VoiceInv ==
  /\ \A s \in ready \cup wyoming : Running(s)
  /\ pipeline = "skipped" => \A s \in {"wake_word", "stt"} : Running(s)
  /\ pc = "off" => pipeline = "none" /\ ready = {} /\ wyoming = {}

\* Without trouble an add-on goes from absent to started.
EnsureInv ==
  ~troubled =>
    /\ pc = "install" => addon[Head(todo)] = "absent"
    /\ pc \in {"set", "check", "start"} => addon[Head(todo)] # "absent"
    /\ pc = "verify" => addon[Head(todo)] = "started"
    /\ pc \in Entering /\ Head(todo) \in Managed => addon[Head(todo)] = "started"

\* Without trouble every add-on of the hardware found is up, or its turn comes.
Wanted(q) == {s \in Managed : \E i \in DOMAIN q : s \in Elements(Services(caps, q[i]))}
Up(s) == addon[s] = "started" /\ (s \in Voices => s \in ready \cup wyoming)
ProgressInv ==
  ~troubled /\ edition = "hub" /\ pc \notin Booting =>
    /\ \A s \in Wanted(Resolve(caps)) : Up(s) \/ s \in Elements(todo) \/ s \in Wanted(queue)
    /\ pc \in {"voice", "up"} => queue = <<>> /\ todo = <<>> /\ ready = {}
    /\ pc = "up" /\ pipeline = "local" => force

StartInv == StartTypes /\ VoiceInv /\ EnsureInv /\ ProgressInv

LEMMA Concatenated ==
  ASSUME NEW S, NEW s \in Seq(S), NEW t \in Seq(S)
  PROVE  /\ s \o t \in Seq(S)
         /\ Elements(s) \subseteq Elements(s \o t) /\ Elements(t) \subseteq Elements(s \o t)
<1>1. /\ s \o t \in Seq(S) /\ DOMAIN s = 1 .. Len(s)
      /\ DOMAIN t = 1 .. Len(t) /\ DOMAIN (s \o t) = 1 .. Len(s \o t)
  OBVIOUS
<1>2. \A i \in 1 .. Len(t) : (s \o t)[Len(s) + i] = t[i] /\ Len(s) + i \in 1 .. Len(s \o t)
  OBVIOUS
<1>3. \A i \in 1 .. Len(s) : (s \o t)[i] = s[i] /\ i \in 1 .. Len(s \o t)
  OBVIOUS
<1>4. QED
  BY <1>1, <1>2, <1>3 DEF Elements

\* The personas and their services have their types; a microphone is listened
\* to by two add-ons.
LEMMA ServicesTypes ==
  ASSUME NEW p \in Personas
  PROVE  Services(caps, p) \in Seq(Managed \cup Integrations)
<1> DEFINE S == Managed \cup Integrations
           a == IF "zigbee" \in caps THEN <<"zha">> ELSE <<>>
           b == IF "zwave" \in caps THEN <<"zwave_js">> ELSE <<>>
           c == IF "thread" \in caps THEN <<"otbr">> ELSE <<>>
<1>1. {"zha", "zwave_js", "otbr", "wake_word", "stt", "tts"} \subseteq S
  BY DEF Managed, Integrations
<1> HIDE DEF S
<1>2. a \in Seq(S) /\ b \in Seq(S) /\ c \in Seq(S)
  BY <1>1
<1>3. Services(caps, "hub") = a \o b \o c
  BY DEF Services
<1> HIDE DEF a, b, c
<1>4. a \o b \o c \in Seq(S)
  BY <1>2
<1>5. Services(caps, "satellite") = <<"wake_word", "stt">> /\ Services(caps, "speaker") = <<"tts">>
  BY DEF Services
<1>6. Services(caps, p) \in Seq(S)
  <2>1. <<"wake_word", "stt">> \in Seq(S) /\ <<"tts">> \in Seq(S)
    BY <1>1
  <2>2. p = "hub" \/ p = "satellite" \/ p = "speaker"
    BY DEF Personas
  <2>3. QED
    BY <1>3, <1>4, <1>5, <2>1, <2>2
<1>7. QED
  BY <1>6 DEF S

LEMMA ResolveTypes ==
  /\ Resolve(caps) \in Seq(Personas)
  /\ "microphone" \in caps => {"wake_word", "stt"} \subseteq Wanted(Resolve(caps))
<1> DEFINE hub == caps \cap {"zigbee", "zwave", "thread"} # {}
           satellite == "microphone" \in caps
           speaker == "output" \in caps
           a == IF hub THEN <<"hub">> ELSE <<>>
           b == IF satellite THEN <<"satellite">> ELSE <<>>
           c == IF speaker THEN <<"speaker">> ELSE <<>>
<1>1. Resolve(caps) = IF ~hub /\ ~satellite /\ ~speaker THEN <<"hub">> ELSE a \o b \o c
  BY DEF Resolve
<1> HIDE DEF hub, satellite, speaker
<1>2. a \in Seq(Personas) /\ b \in Seq(Personas) /\ c \in Seq(Personas) /\ <<"hub">> \in Seq(Personas)
  <2>1. "hub" \in Personas /\ "satellite" \in Personas /\ "speaker" \in Personas
    BY DEF Personas
  <2>2. /\ <<"hub">> \in Seq(Personas) /\ <<"satellite">> \in Seq(Personas)
        /\ <<"speaker">> \in Seq(Personas)
    BY <2>1
  <2>3. <<>> \in Seq(Personas)
    OBVIOUS
  <2> HIDE DEF Personas
  <2>4. QED
    BY <2>2, <2>3
<1>3. satellite => "satellite" \in Elements(b)
  BY DEF Elements
<1> HIDE DEF a, b, c
<1>4. a \o b \o c \in Seq(Personas) /\ (satellite => "satellite" \in Elements(a \o b \o c))
  <2>1. a \o b \in Seq(Personas) /\ Elements(b) \subseteq Elements(a \o b)
    BY <1>2, Concatenated
  <2>2. (a \o b) \o c \in Seq(Personas) /\ Elements(a \o b) \subseteq Elements((a \o b) \o c)
    BY <1>2, <2>1, Concatenated
  <2>3. QED
    BY <1>3, <2>1, <2>2
<1>5. Resolve(caps) \in Seq(Personas) /\ (satellite => "satellite" \in Elements(Resolve(caps)))
  BY <1>1, <1>2, <1>4
<1>6. {"wake_word", "stt"} \subseteq Elements(Services(caps, "satellite"))
  <2>1. Services(caps, "satellite") = <<"wake_word", "stt">>
    BY DEF Services
  <2>2. QED
    BY <2>1 DEF Elements
<1>7. satellite => {"wake_word", "stt"} \subseteq Wanted(Resolve(caps))
  BY <1>5, <1>6 DEF Wanted, Elements, Managed
<1>8. QED
  BY <1>5, <1>7 DEF satellite

\* What a sequence holds is its head and what its tail holds.
LEMMA HeadOrTail ==
  ASSUME NEW S, NEW s \in Seq(S), s # <<>>
  PROVE  /\ Tail(s) \in Seq(S) /\ Head(s) \in S /\ Head(s) \in Elements(s)
         /\ \A i \in DOMAIN s : s[i] = Head(s) \/ \E j \in DOMAIN Tail(s) : Tail(s)[j] = s[i]
         /\ Elements(s) \subseteq {Head(s)} \cup Elements(Tail(s))
<1>1. Tail(s) \in Seq(S) /\ Head(s) = s[1] /\ s[1] \in S /\ 1 \in DOMAIN s
  OBVIOUS
<1>2. \A i \in DOMAIN s : i = 1 \/ (i - 1 \in DOMAIN Tail(s) /\ Tail(s)[i - 1] = s[i])
  OBVIOUS
<1>3. QED
  BY <1>1, <1>2 DEF Elements

LEMMA WantedSame ==
  ASSUME UNCHANGED caps
  PROVE  /\ Wanted(Resolve(caps))' = Wanted(Resolve(caps))
         /\ UNCHANGED queue => Wanted(queue)' = Wanted(queue)
BY DEF Wanted, Resolve, Services

\* The service under way is done: it is no add-on, or it is up.
LEMMA DoneStart ==
  ASSUME StartInv, pc \in Ensuring \cup Entering, pc' = "service", todo' = Tail(todo),
         UNCHANGED <<caps, edition, force, queue, wyoming, pipeline, meddled>>,
         troubled => troubled',
         addon' \in [Managed -> {"absent", "stopped", "started"}],
         \A s \in Managed : addon[s] = "started" => addon'[s] = "started",
         ready \subseteq ready', ready' \subseteq ready \cup ({Head(todo)} \cap Voices),
         \A s \in ready' \ ready : addon'[s] = "started",
         ~troubled' /\ Head(todo) \in Managed =>
           /\ addon'[Head(todo)] = "started"
           /\ Head(todo) \in Voices => Head(todo) \in ready'
  PROVE  StartInv'
<1> USE DEF StartInv
<1>1. /\ todo # <<>> /\ todo \in Seq(Managed \cup Integrations)
      /\ todo' \in Seq(Managed \cup Integrations)
      /\ Elements(todo) \subseteq {Head(todo)} \cup Elements(todo')
  <2>1. todo # <<>> /\ todo \in Seq(Managed \cup Integrations)
    BY DEF StartTypes
  <2>2. QED
    BY <2>1, HeadOrTail
<1>2. StartTypes'
  BY <1>1 DEF StartTypes, Ensuring, Entering, Booting
<1>3. VoiceInv' /\ EnsureInv'
  BY DEF StartTypes, VoiceInv, EnsureInv, Running, Ensuring, Entering, Voices, Managed
<1>4. ProgressInv'
  <2>1. SUFFICES ASSUME ~troubled', edition = "hub", NEW s \in Wanted(Resolve(caps))
                 PROVE  Up(s)' \/ s \in Elements(todo') \/ s \in Wanted(queue)
    BY WantedSame DEF ProgressInv
  <2>2. Up(s) \/ s \in Elements(todo) \/ s \in Wanted(queue)
    BY <2>1 DEF ProgressInv, Booting, Ensuring, Entering
  <2>3. CASE Up(s)
    BY <2>3 DEF Up, Wanted
  <2>4. CASE s = Head(todo)
    BY <2>1, <2>4 DEF Up, Wanted
  <2>5. QED
    BY <1>1, <2>2, <2>3, <2>4
<1>5. QED
  BY <1>2, <1>3, <1>4

\* The service under way goes on.
LEMMA GoesOnStart ==
  ASSUME StartInv, pc \in Ensuring \cup Entering, pc' \in Ensuring \cup Entering,
         UNCHANGED <<caps, edition, force, queue, todo, ready, wyoming, pipeline, meddled>>,
         troubled => troubled',
         pc' \in Ensuring => Head(todo) \in Managed, pc' \in Entering => Head(todo) \in Integrations,
         addon' \in [Managed -> {"absent", "stopped", "started"}],
         \A s \in Managed : addon[s] = "started" => addon'[s] = "started",
         EnsureInv'
  PROVE  StartInv'
<1> USE DEF StartInv
<1>1. StartTypes' /\ VoiceInv'
  BY DEF StartTypes, VoiceInv, Running, Booting, Ensuring, Entering, Voices, Managed
<1>2. ProgressInv'
  <2>1. \A s \in Wanted(Resolve(caps)) : Up(s) => Up(s)'
    BY DEF Up, Wanted
  <2>2. pc \notin Booting /\ pc' \notin {"voice", "up"}
    BY DEF Booting, Ensuring, Entering
  <2>3. QED
    BY <2>1, <2>2, WantedSame DEF ProgressInv, Up
<1>3. QED
  BY <1>1, <1>2

\* What is left of the persona is skipped: there was trouble.
LEMMA RaiseStart ==
  ASSUME StartInv, troubled', todo' = <<>>, ready' = {}, pc' = "persona",
         UNCHANGED <<queue, wyoming, pipeline, meddled>>,
         addon' \in [Managed -> {"absent", "stopped", "started"}],
         \A s \in Managed : addon[s] = "started" => addon'[s] = "started"
  PROVE  StartInv'
<1> USE DEF StartInv, Ensuring, Entering
<1>1. StartTypes'
  BY DEF StartTypes
<1>2. VoiceInv'
  BY DEF StartTypes, VoiceInv, Running, Voices, Managed
<1>3. EnsureInv' /\ ProgressInv'
  BY DEF EnsureInv, ProgressInv
<1>4. QED
  BY <1>1, <1>2, <1>3

LEMMA EnsuredStart ==
  ASSUME StartInv, pc \in Ensuring, NEW ok \in BOOLEAN, Ensured(ok),
         UNCHANGED <<caps, edition, force, queue, wyoming, pipeline, meddled>>,
         troubled => troubled',
         addon' \in [Managed -> {"absent", "stopped", "started"}],
         \A s \in Managed : addon[s] = "started" => addon'[s] = "started",
         ok => addon'[Head(todo)] = "started",
         ~troubled' => ok
  PROVE  StartInv'
<1>1. Head(todo) \in Managed
  BY DEF StartInv, StartTypes
<1>2. CASE Head(todo) \in Integrations
  <2>1. pc' = "entry" /\ UNCHANGED <<todo, ready>>
    BY <1>2 DEF Ensured
  <2>2. EnsureInv'
    BY <1>1, <2>1 DEF EnsureInv
  <2>3. QED
    BY <1>2, <2>1, <2>2, GoesOnStart DEF Ensuring, Entering
<1>3. CASE Head(todo) \notin Integrations
  <2>1. /\ pc' = "service" /\ todo' = Tail(todo)
        /\ ready' = IF ok /\ Head(todo) # "otbr" THEN ready \cup {Head(todo)} ELSE ready
    BY <1>3 DEF Ensured
  <2>2. Head(todo) # "otbr" => Head(todo) \in Voices
    BY <1>1, <1>3 DEF Managed, Integrations, Voices
  <2>3. Head(todo) \in Voices => Head(todo) # "otbr"
    BY DEF Voices
  <2>4. QED
    BY <1>1, <2>1, <2>2, <2>3, DoneStart
<1>4. QED
  BY <1>2, <1>3

LEMMA EnsureStart ==
  ASSUME StartInv,
         EnsureAsks \/ EnsureInstalls \/ EnsureSets \/ EnsureChecks \/ EnsureStarts \/ EnsureVerifies
  PROVE  StartInv'
<1>1. /\ UNCHANGED <<caps, edition, force, queue, wyoming, pipeline, meddled>>
      /\ pc \in Ensuring
  BY DEF EnsureAsks, EnsureInstalls, EnsureSets, EnsureChecks, EnsureStarts, EnsureVerifies, Ensuring
<1>2. /\ Head(todo) \in Managed /\ addon \in [Managed -> {"absent", "stopped", "started"}]
      /\ addon[Head(todo)] \in {"absent", "stopped", "started"}
  BY <1>1 DEF StartInv, StartTypes
<1>3. troubled => troubled'
  BY DEF EnsureAsks, EnsureInstalls, EnsureSets, EnsureChecks, EnsureStarts, EnsureVerifies
<1>4. /\ addon' \in [Managed -> {"absent", "stopped", "started"}]
      /\ \A s \in Managed : addon[s] = "started" => addon'[s] = "started"
  BY <1>2 DEF EnsureAsks, EnsureInstalls, EnsureSets, EnsureChecks, EnsureStarts, EnsureVerifies
<1>5. ASSUME Raise, troubled' PROVE StartInv'
  BY <1>1, <1>4, <1>5, RaiseStart
<1>6. ASSUME Ensured(FALSE), troubled' PROVE StartInv'
  BY <1>1, <1>3, <1>4, <1>6, EnsuredStart
<1>7. ASSUME Ensured(TRUE), addon'[Head(todo)] = "started" PROVE StartInv'
  BY <1>1, <1>3, <1>4, <1>7, EnsuredStart
<1>8. ASSUME NEW s \in {"install", "set", "check", "start", "verify"}, GoesOn(s),
             ~troubled' => /\ s = "install" => addon'[Head(todo)] = "absent"
                           /\ s \in {"set", "check", "start"} => addon'[Head(todo)] # "absent"
                           /\ s = "verify" => addon'[Head(todo)] = "started"
      PROVE  StartInv'
  <2>1. pc' = s /\ UNCHANGED <<todo, ready>>
    BY <1>8
  <2>2. pc' \in Ensuring /\ pc' \notin Entering
    BY <2>1 DEF Ensuring, Entering
  <2>3. EnsureInv'
    BY <1>8, <2>1, <2>2 DEF EnsureInv
  <2>4. QED
    BY <1>1, <1>2, <1>3, <1>4, <2>1, <2>2, <2>3, GoesOnStart
<1>9. CASE EnsureAsks
  <2>1. PICK o \in Outcomes :
          /\ Request(o)
          /\ IF o = "garbled" THEN Raise
             ELSE GoesOn(IF o = "answered" /\ addon[Head(todo)] # "absent"
                         THEN AfterInstall ELSE "install")
    BY <1>9 DEF EnsureAsks
  <2>2. UNCHANGED addon /\ AfterInstall \in {"set", "check"}
    BY <1>9 DEF EnsureAsks, AfterInstall
  <2>3. CASE o = "garbled"
    BY <1>5, <2>1, <2>3
  <2>4. CASE o = "answered" /\ addon[Head(todo)] # "absent"
    BY <1>8, <2>1, <2>2, <2>4
  <2>5. CASE o # "garbled" /\ ~(o = "answered" /\ addon[Head(todo)] # "absent")
    <3>1. GoesOn("install") /\ (troubled' \/ addon'[Head(todo)] = "absent")
      BY <2>1, <2>2, <2>5
    <3>2. QED
      BY <1>8, <3>1
  <2>6. QED
    BY <2>3, <2>4, <2>5
<1>10. CASE EnsureInstalls
  <2>1. PICK o \in Outcomes :
          /\ Request(o)
          /\ addon' = IF Effective(o) /\ addon[Head(todo)] = "absent"
                      THEN [addon EXCEPT ![Head(todo)] = "stopped"] ELSE addon
          /\ IF o = "garbled" THEN Raise
             ELSE IF o = "answered" /\ addon[Head(todo)] = "absent" THEN GoesOn(AfterInstall)
             ELSE Ensured(FALSE)
    BY <1>10 DEF EnsureInstalls
  <2>2. AfterInstall \in {"set", "check"} /\ (~troubled => addon[Head(todo)] = "absent")
    BY <1>10 DEF EnsureInstalls, AfterInstall, StartInv, EnsureInv
  <2>3. CASE o = "garbled"
    BY <1>5, <2>1, <2>3
  <2>4. CASE o = "answered" /\ addon[Head(todo)] = "absent"
    <3>1. GoesOn(AfterInstall) /\ addon'[Head(todo)] = "stopped"
      BY <1>2, <2>1, <2>4
    <3>2. QED
      BY <1>8, <2>2, <3>1
  <2>5. CASE o # "garbled" /\ ~(o = "answered" /\ addon[Head(todo)] = "absent")
    <3>1. Ensured(FALSE) /\ troubled'
      BY <1>3, <2>1, <2>2, <2>5
    <3>2. QED
      BY <1>6, <3>1
  <2>6. QED
    BY <2>3, <2>4, <2>5
<1>11. CASE EnsureSets
  <2>1. PICK o \in Outcomes : Request(o) /\ IF o = "garbled" THEN Raise ELSE GoesOn("check")
    BY <1>11 DEF EnsureSets
  <2>2. UNCHANGED addon /\ (~troubled => addon[Head(todo)] # "absent")
    BY <1>11 DEF EnsureSets, StartInv, EnsureInv
  <2>3. CASE o = "garbled"
    BY <1>5, <2>1, <2>3
  <2>4. CASE o # "garbled"
    BY <1>3, <1>8, <2>1, <2>2, <2>4
  <2>5. QED
    BY <2>3, <2>4
<1>12. CASE EnsureChecks
  <2>1. PICK o \in Outcomes :
          /\ Request(o)
          /\ IF o = "garbled" THEN Raise
             ELSE IF NeedsStart(o) THEN GoesOn("start") ELSE Ensured(TRUE)
    BY <1>12 DEF EnsureChecks
  <2>2. UNCHANGED addon /\ (~troubled => addon[Head(todo)] # "absent")
    BY <1>12 DEF EnsureChecks, StartInv, EnsureInv
  <2>3. CASE o = "garbled"
    BY <1>5, <2>1, <2>3
  <2>4. CASE o # "garbled" /\ NeedsStart(o)
    BY <1>3, <1>8, <2>1, <2>2, <2>4
  <2>5. CASE o # "garbled" /\ ~NeedsStart(o)
    BY <1>7, <2>1, <2>2, <2>5 DEF NeedsStart
  <2>6. QED
    BY <2>3, <2>4, <2>5
<1>13. CASE EnsureStarts
  <2>1. PICK o \in Outcomes :
          /\ Request(o)
          /\ addon' = IF Effective(o) /\ addon[Head(todo)] # "absent"
                      THEN [addon EXCEPT ![Head(todo)] = "started"] ELSE addon
          /\ IF o = "garbled" THEN Raise
             ELSE IF o = "answered" /\ addon[Head(todo)] # "absent" THEN GoesOn("verify")
             ELSE Ensured(FALSE)
    BY <1>13 DEF EnsureStarts
  <2>2. ~troubled => addon[Head(todo)] # "absent"
    BY <1>13 DEF EnsureStarts, StartInv, EnsureInv
  <2>3. CASE o = "garbled"
    BY <1>5, <2>1, <2>3
  <2>4. CASE o = "answered" /\ addon[Head(todo)] # "absent"
    <3>1. GoesOn("verify") /\ addon'[Head(todo)] = "started"
      BY <1>2, <2>1, <2>4
    <3>2. QED
      BY <1>8, <3>1
  <2>5. CASE o # "garbled" /\ ~(o = "answered" /\ addon[Head(todo)] # "absent")
    <3>1. Ensured(FALSE) /\ troubled'
      BY <1>3, <2>1, <2>2, <2>5
    <3>2. QED
      BY <1>6, <3>1
  <2>6. QED
    BY <2>3, <2>4, <2>5
<1>14. CASE EnsureVerifies
  <2>1. PICK o \in Outcomes :
          /\ Request(o)
          /\ IF o = "garbled" THEN Raise
             ELSE Ensured(o = "answered" /\ addon[Head(todo)] = "started")
    BY <1>14 DEF EnsureVerifies
  <2>2. UNCHANGED addon /\ (~troubled => addon[Head(todo)] = "started")
    BY <1>14 DEF EnsureVerifies, StartInv, EnsureInv
  <2>3. CASE o = "garbled"
    BY <1>5, <2>1, <2>3
  <2>4. CASE o # "garbled" /\ o = "answered" /\ addon[Head(todo)] = "started"
    BY <1>7, <2>1, <2>2, <2>4 DEF Ensured
  <2>5. CASE o # "garbled" /\ ~(o = "answered" /\ addon[Head(todo)] = "started")
    <3>1. Ensured(FALSE)
      BY <2>1, <2>5 DEF Ensured
    <3>2. troubled'
      BY <1>3, <2>1, <2>2, <2>5
    <3>3. QED
      BY <1>6, <3>1, <3>2
  <2>6. QED
    BY <2>3, <2>4, <2>5
<1>15. QED
  BY <1>9, <1>10, <1>11, <1>12, <1>13, <1>14

\* A config flow goes on, or is done with.
LEMMA EnterStart ==
  ASSUME StartInv, EntryAsks \/ FlowStarts \/ WalkEnds \/ WalkSubmits \/ FlowAborted
  PROVE  StartInv'
<1>1. /\ UNCHANGED <<caps, edition, force, addon, queue, wyoming, pipeline, meddled>>
      /\ pc \in Entering /\ (troubled => troubled')
  BY DEF EntryAsks, FlowStarts, WalkEnds, WalkSubmits, FlowAborted, Entering
<1>2. /\ Head(todo) \in Integrations /\ Head(todo) \notin Voices
      /\ addon \in [Managed -> {"absent", "stopped", "started"}]
      /\ ~troubled' /\ Head(todo) \in Managed => addon[Head(todo)] = "started"
  BY <1>1 DEF StartInv, StartTypes, EnsureInv, Integrations, Voices
<1>3. ASSUME Done, UNCHANGED ready PROVE StartInv'
  BY <1>1, <1>2, <1>3, DoneStart
<1>4. ASSUME pc' \in Entering, UNCHANGED <<todo, ready>> PROVE StartInv'
  <2>1. EnsureInv'
    BY <1>1, <1>2, <1>4 DEF EnsureInv, Entering
  <2>2. pc' \notin Ensuring
    BY <1>4 DEF Ensuring, Entering
  <2>3. QED
    BY <1>1, <1>2, <1>4, <2>1, <2>2, GoesOnStart
<1>5. ASSUME Raise, troubled' PROVE StartInv'
  BY <1>1, <1>2, <1>5, RaiseStart
<1>6. \/ Done /\ UNCHANGED ready
      \/ pc' \in Entering /\ UNCHANGED <<todo, ready>>
      \/ Raise /\ troubled'
  <2>1. CASE EntryAsks
    BY <2>1 DEF EntryAsks, Entering
  <2>2. CASE FlowStarts
    BY <2>2 DEF FlowStarts, Entering
  <2>3. CASE WalkEnds
    BY <2>3 DEF WalkEnds, LeavesWalk, Entering
  <2>4. CASE WalkSubmits
    BY <2>4 DEF WalkSubmits, Entering
  <2>5. CASE FlowAborted
    BY <2>5 DEF FlowAborted, Entering
  <2>6. QED
    BY <2>1, <2>2, <2>3, <2>4, <2>5
<1>7. QED
  BY <1>3, <1>4, <1>5, <1>6

LEMMA BootStart ==
  ASSUME StartInv, FirstBoot
  PROVE  StartInv'
<1> USE DEF StartInv
<1>1. /\ pc \in Booting /\ pc' \in Booting
      /\ UNCHANGED <<queue, todo, ready, wyoming, pipeline>>
      /\ UNCHANGED meddled \/ pc = "off"
      /\ pc' # "off"
  BY DEF FirstBoot, Boot, FetchBegins, FetchEnds, FetchFails, CopyBegins, CopyEnds, CopyFails,
     ConfigureAsks, ConfigureSets, ConfigureRestarts, runVars, Booting
<1>2. UNCHANGED addon \/ addon' = [addon EXCEPT !["wake_word"] = "started"]
  BY DEF FirstBoot, Boot, FetchBegins, FetchEnds, FetchFails, CopyBegins, CopyEnds, CopyFails,
     ConfigureAsks, ConfigureSets, ConfigureRestarts
<1>3. pc' \notin Ensuring \cup Entering
  BY <1>1 DEF Booting, Ensuring, Entering
<1>4. StartTypes'
  BY <1>1, <1>2, <1>3 DEF StartTypes, Booting
<1>5. VoiceInv'
  <2>1. CASE pc = "off"
    BY <1>1, <2>1 DEF VoiceInv
  <2>2. CASE UNCHANGED <<addon, meddled>>
    BY <1>1, <2>2 DEF VoiceInv, Running
  <2>3. CASE UNCHANGED meddled /\ addon' = [addon EXCEPT !["wake_word"] = "started"]
    <3>1. \A s \in Managed : addon[s] = "started" => addon'[s] = "started"
      BY <2>3 DEF StartTypes
    <3>2. ready \cup wyoming \subseteq Managed /\ {"wake_word", "stt"} \subseteq Managed
      BY DEF StartTypes, Voices, Managed
    <3>3. QED
      BY <1>1, <2>3, <3>1, <3>2 DEF VoiceInv, Running
  <2>4. QED
    BY <1>1, <1>2, <2>1, <2>2, <2>3
<1>6. EnsureInv' /\ ProgressInv'
  BY <1>1, <1>3 DEF EnsureInv, ProgressInv, Booting
<1>7. QED
  BY <1>4, <1>5, <1>6

LEMMA PersonaStart ==
  ASSUME StartInv, SetupPersonas \/ SetupBridge \/ NextPersona \/ NextService
  PROVE  StartInv'
<1> USE DEF StartInv
<1>1. CASE SetupPersonas
  <2>1. /\ queue' = Resolve(caps) /\ pc = "probe" /\ pc' = IF edition = "hub" THEN "connect" ELSE "voice"
        /\ UNCHANGED <<caps, edition, force, addon, todo, ready, wyoming, pipeline, meddled, troubled>>
    BY <1>1 DEF SetupPersonas
  <2>2. StartTypes'
    BY <2>1, ResolveTypes DEF StartTypes, Booting, Ensuring, Entering
  <2>3. VoiceInv' /\ EnsureInv'
    BY <2>1 DEF VoiceInv, EnsureInv, Running, Entering
  <2>4. ProgressInv'
    <3>1. Wanted(queue)' = Wanted(Resolve(caps))'
      BY <2>1 DEF Wanted, Resolve
    <3>2. QED
      BY <2>1, <3>1 DEF ProgressInv
  <2>5. QED
    BY <2>2, <2>3, <2>4
<1>2. CASE SetupBridge
  <2>1. /\ pc = "connect" /\ (pc' = "persona" \/ (pc' = "voice" /\ troubled')) /\ (troubled => troubled')
        /\ UNCHANGED <<caps, edition, force, addon, queue, todo, ready, wyoming, pipeline, meddled>>
    BY <1>2 DEF SetupBridge, runVars
  <2>2. StartTypes' /\ VoiceInv' /\ EnsureInv'
    BY <2>1 DEF StartTypes, VoiceInv, EnsureInv, Running, Booting, Ensuring, Entering
  <2>3. ProgressInv'
    BY <2>1, WantedSame DEF ProgressInv, Up, Booting
  <2>4. QED
    BY <2>2, <2>3
<1>3. CASE NextPersona
  <2>1. /\ pc = "persona" /\ wyoming' = wyoming \cup ready /\ ready' = {}
        /\ UNCHANGED <<caps, edition, force, addon, pipeline, meddled>> /\ (troubled => troubled')
        /\ todo = <<>> /\ queue \in Seq(Personas)
    BY <1>3 DEF NextPersona, Commit, StartTypes, Booting
  <2>2. VoiceInv'
    BY <1>3, <2>1 DEF NextPersona, VoiceInv, Running
  <2>3. CASE queue = <<>>
    <3>1. pc' = "voice" /\ UNCHANGED <<queue, todo>>
      BY <1>3, <2>3 DEF NextPersona
    <3>2. StartTypes' /\ EnsureInv'
      BY <2>1, <3>1 DEF StartTypes, EnsureInv, Booting, Ensuring, Entering
    <3>3. ProgressInv'
      BY <2>1, <2>3, <3>1, WantedSame DEF ProgressInv, Up, Booting
    <3>4. QED
      BY <2>2, <3>2, <3>3
  <2>4. CASE queue # <<>>
    <3>1. pc' = "service" /\ queue' = Tail(queue) /\ todo' = Services(caps, Head(queue))
      BY <1>3, <2>4 DEF NextPersona
    <3>2. /\ Tail(queue) \in Seq(Personas) /\ Head(queue) \in Personas
          /\ \A i \in DOMAIN queue :
               queue[i] = Head(queue) \/ \E j \in DOMAIN Tail(queue) : Tail(queue)[j] = queue[i]
      BY <2>1, <2>4, HeadOrTail
    <3>3. StartTypes' /\ EnsureInv'
      BY <2>1, <3>1, <3>2, ServicesTypes DEF StartTypes, EnsureInv, Booting, Ensuring, Entering
    <3>4. ProgressInv'
      <4>1. \A s \in Wanted(queue) : s \in Elements(todo') \/ s \in Wanted(queue)'
        <5>1. TAKE s \in Wanted(queue)
        <5>2. PICK i \in DOMAIN queue : s \in Elements(Services(caps, queue[i]))
          BY DEF Wanted
        <5>3. CASE queue[i] = Head(queue)
          BY <3>1, <5>2, <5>3
        <5>4. CASE \E j \in DOMAIN Tail(queue) : Tail(queue)[j] = queue[i]
          BY <2>1, <3>1, <5>2, <5>4 DEF Wanted, Services
        <5>5. QED
          BY <3>2, <5>3, <5>4
      <4>2. \A s : s \notin Elements(todo)
        BY <2>1 DEF Elements
      <4>3. QED
        BY <2>1, <3>1, <4>1, <4>2, WantedSame DEF ProgressInv, Up, Booting
    <3>5. QED
      BY <2>2, <3>3, <3>4
  <2>5. QED
    BY <2>3, <2>4
<1>4. CASE NextService
  <2>1. /\ pc = "service"
        /\ pc' = IF todo = <<>> THEN "persona" ELSE IF Head(todo) \in Managed THEN "state" ELSE "entry"
        /\ UNCHANGED <<caps, edition, force, addon, queue, todo, ready, wyoming, pipeline,
                       meddled, troubled>>
    BY <1>4 DEF NextService, runVars
  <2>2. todo # <<>> => Head(todo) \in Managed \cup Integrations
    BY HeadOrTail DEF StartTypes
  <2>3. StartTypes' /\ VoiceInv' /\ EnsureInv'
    BY <2>1, <2>2 DEF StartTypes, VoiceInv, EnsureInv, Running, Booting, Ensuring, Entering
  <2>4. ProgressInv'
    BY <2>1, WantedSame DEF ProgressInv, Up, Booting
  <2>5. QED
    BY <2>3, <2>4
<1>5. QED
  BY <1>1, <1>2, <1>3, <1>4

LEMMA PipelineStart ==
  ASSUME StartInv, SetupPipeline
  PROVE  StartInv'
<1> USE DEF StartInv
<1>1. /\ pc = "voice" /\ pc' = "up" /\ (troubled => troubled')
      /\ UNCHANGED <<caps, edition, force, addon, queue, todo, ready, wyoming, meddled>>
  BY DEF SetupPipeline
<1>2. StartTypes' /\ EnsureInv'
  BY <1>1 DEF StartTypes, EnsureInv, Booting, Ensuring, Entering
<1>3. VoiceInv'
  BY <1>1 DEF SetupPipeline, VoiceIsReady, VoiceInv, Running
<1>4. ProgressInv'
  <2>1. SUFFICES ASSUME ~troubled', edition = "hub" PROVE ProgressInv'
    BY <1>1 DEF ProgressInv
  <2>2. /\ \A s \in Wanted(Resolve(caps)) : Up(s) \/ s \in Elements(todo) \/ s \in Wanted(queue)
        /\ queue = <<>> /\ todo = <<>> /\ ready = {}
    BY <1>1, <2>1 DEF ProgressInv, Booting
  <2>3. \A s \in Wanted(Resolve(caps)) : Up(s)
    BY <2>2 DEF Elements, Wanted
  <2>4. pipeline' = "local" => force
    <3>1. "microphone" \in caps => VoiceIsReady
      BY <2>2, <2>3, ResolveTypes DEF Up, VoiceIsReady, Voices
    <3>2. QED
      BY <3>1 DEF SetupPipeline
  <2>5. QED
    BY <1>1, <2>2, <2>3, <2>4, WantedSame DEF ProgressInv, Up
<1>5. QED
  BY <1>2, <1>3, <1>4

LEMMA WorldStart ==
  ASSUME StartInv, Release \/ Meddle \/ Restart \/ UNCHANGED vars
  PROVE  StartInv'
<1> USE DEF StartInv
<1>1. CASE Release \/ UNCHANGED vars
  <2>1. UNCHANGED <<caps, edition, force, addon, queue, todo, ready, wyoming, pipeline,
                    meddled, troubled, pc>>
    BY <1>1 DEF Release, vars, runVars
  <2>2. StartTypes' /\ VoiceInv' /\ EnsureInv'
    BY <2>1 DEF StartTypes, VoiceInv, EnsureInv, Running
  <2>3. ProgressInv'
    BY <2>1, WantedSame DEF ProgressInv, Up
  <2>4. QED
    BY <2>2, <2>3
<1>2. CASE Meddle
  <2>1. PICK s \in Managed, a \in {"absent", "stopped", "started"} :
          addon' = [addon EXCEPT ![s] = a] /\ meddled' = meddled \cup {s}
    BY <1>2 DEF Meddle
  <2>2. troubled' /\ UNCHANGED <<queue, todo, ready, wyoming, pipeline, pc>>
    BY <1>2 DEF Meddle, runVars
  <2>3. StartTypes'
    BY <2>1, <2>2 DEF StartTypes
  <2>4. \A u \in Managed :
          addon[u] = "started" \/ u \in meddled => addon'[u] = "started" \/ u \in meddled'
    BY <2>1 DEF StartTypes
  <2>5. ready \cup wyoming \subseteq Managed /\ {"wake_word", "stt"} \subseteq Managed
    BY DEF StartTypes, Voices, Managed
  <2>6. VoiceInv'
    BY <2>2, <2>4, <2>5 DEF VoiceInv, Running
  <2>7. QED
    BY <2>2, <2>3, <2>6 DEF EnsureInv, ProgressInv
<1>3. CASE Restart
  BY <1>3 DEF Restart, StartTypes, VoiceInv, EnsureInv, ProgressInv, Ensuring, Entering, Booting
<1>4. QED
  BY <1>1, <1>2, <1>3

LEMMA StartInvariant == Spec => []StartInv
<1>1. Init => StartInv
  BY DEF Init, StartInv, StartTypes, VoiceInv, EnsureInv, ProgressInv, Ensuring, Entering, Booting
<1>2. StartInv /\ [Next]_vars => StartInv'
  BY BootStart, PersonaStart, EnsureStart, EnterStart, PipelineStart, WorldStart DEF Next, Provision
<1>3. QED
  BY <1>1, <1>2, PTL DEF Spec

\* The microphone has one listener: the local pipeline gives way only to add-ons
\* that run or that others stopped, and a start without trouble has every
\* add-on of its hardware running and no local pipeline beside them.
THEOREM ListenerCorrect == Spec => []OneListener
<1>1. StartInv => OneListener
  <2> SUFFICES ASSUME StartInv PROVE OneListener
    OBVIOUS
  <2>1. pipeline = "skipped" => \A s \in {"wake_word", "stt"} : addon[s] = "started" \/ s \in meddled
    BY DEF StartInv, VoiceInv, Running
  <2>2. ASSUME pc = "up", edition = "hub", ~troubled
        PROVE  /\ \A s \in Wanted(Resolve(caps)) : addon[s] = "started"
               /\ pipeline = "local" => force
    <3>1. /\ \A s \in Wanted(Resolve(caps)) : Up(s) \/ s \in Elements(<<>>) \/ s \in Wanted(<<>>)
          /\ pipeline = "local" => force
      BY <2>2 DEF StartInv, ProgressInv, Booting
    <3>2. QED
      BY <3>1 DEF Up, Elements, Wanted
  <2>3. QED
    BY <2>1, <2>2 DEF OneListener, Wanted
<1>2. QED
  BY <1>1, StartInvariant, PTL
=============================================================================
