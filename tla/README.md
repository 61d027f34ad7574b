# Synork Home add-on: specifications and proofs

This directory holds TLA+ specifications of the Synork Home add-on, the TLC
configurations that check them on small instances, and proofs checked by TLAPS.
Paths below are relative to `src/synork_home/` unless they start with `src/`
inside a table of PROJECT.json.

## 1. Inventory

The add-on is one Python process on an asyncio loop. The same image runs as a
**Hub** (inside Home Assistant) or as an **Assistant** (a satellite device with a
microphone). Everything that interleaves does so at `await`; code between two
awaits is atomic. The SQLite calls are synchronous.

| Component | Code | State it keeps | Operations | Interacts with | What is hard | What makes it correct |
|---|---|---|---|---|---|---|
| Hub pairing service | `src/hub_pairing.py` | SQLite tables `satellites`, `pending_satellite_pairings`; memory `_sessions`, `_pending`, `_approved_secrets` | authenticate, create and await a pairing request, approve, reject, resume a session, online/offline, unpair | called by broker handlers and by REST endpoints that do not exist yet | awaits between check and use, time-out against approval, memory lost while the database stays | only approved requests enrol, only their own satellite, once; a secret is never replaced; only the newest token resumes |
| Satellite broker | `src/satellite_broker.py` | `_connections`, one coroutine per WebSocket, heartbeat monitor | accept, admit, dispatch, clean up, monitor, stop | pairing service, Thread coordinator, orchestrator | several connections of one satellite, half-open connections, stop with handlers in any state | the registry leads to live connections of the right satellite; handshakes end; dead peers are dropped; stop ends |
| Assistant client | `src/assistant_client.py` | connection flags, session token, secret, two files | connect loop, authenticate, resume, heartbeat, disconnect | broker of the Hub | resume refused, secret lost, non-atomic files | a paired satellite connects again after any restart |
| Relay client | `src/relay_client.py` | connection flags, session token, pending service calls, handler slots, prefs file | connect loop, authenticate, resume, heartbeat, correlated calls, disconnect | cloud relay, orchestrator | cleanup against disconnect, cancelled waits, silent peers | a waiter gets its own answer or none; silent connections are closed; retries back off |
| Voice query routing | `src/main.py` 614-666, 1297-1363 | the one handler slot per message type | forward a query, route the answer | broker, relay client, voice pipeline | concurrent queries share the slot, late answers | an answer reaches the satellite that asked |
| Home Assistant bridge | `src/ha_bridge.py` | WebSocket, `_pending` calls, entity states | connect, subscribe, event loop, registry snapshot, config flows | Home Assistant Core, relay client | calls made from the loop that reads the answers | a call ends; no event is lost between listing and subscribing |
| Thread coordinator, assistant TBR | `src/thread_coordinator.py`, `src/assistant_thread_tbr.py` | dataset, `_tbrs`, `_pending_acks`, credential file | offer, acknowledge, status, recommission | broker, OTBR | uncorrelated acknowledgements, iteration across awaits | every offer ends; no older network replaces a newer one; what is joined is what a restart restores |
| Voice pipeline | `src/assistant/*.py` | `_state`, buffers | wake word, capture, transcribe, ask, speak | relay or Hub | barge-in starts a second turn | one turn at a time; the state names it |
| Orchestrator | `src/main.py` | the subsystems, config | start-up phases, wizard hand-over, stop | all | hand-over during start-up | one relay client; everything is stopped |
| Setup wizard | `src/wizard/` | bearer token, sidecar file | sign in, pair, reset | orchestrator, relay HTTP API | double submission across an await | one pairing |
| Persona resolver, personas | `src/persona/` | none (pure), probe cache; add-ons and config flows at the Supervisor and Home Assistant | probe, resolve, provision | orchestrator, Supervisor, bridge | requests that fail or are lost half-way | add-ons end up running, no config flow is left open, one voice pipeline listens |
| First boot, Wi-Fi, mDNS | `src/assistant/first_boot.py`, `src/provisioner/`, `src/assistant_provisioner.py` | provisioning state | access point, credentials, advertise | OS tools | failures of external commands | ends provisioned or still provisioning |
| Bootloader, updater | `bootloader.py`, `src/updater.py`, `src/supervisor.py` | git checkout, stamp file | fetch, install, restart | git, Supervisor | a crash between checkout and install | dependencies match the code |
| Protocol, schemas | `shared/` | none | declarations | all | none | - |
| Frontend | `src/frontend/`, `src/wizard/static/` | HA config files | install, patch | Home Assistant | repeated patching | patching twice changes nothing more |

The hazards of the code, each at its line, are in PROJECT.json with the properties
that are about them. Where a property does not hold of the code, the hazard says so
and section 6 describes what happens.

## 2. Plan

| # | Module | Composes | State |
|---|---|---|---|
| 1 | `HubPairing`, `SatelliteBroker`, abstract `Household` | the broker extends the pairing service | checked, proved (safety and refinement) |
| 2 | `AssistantClient`, `SatelliteLink` | the client with the broker, over messages under way | checked, safety proved |
| 3 | `RelayClient` | - | checked, safety proved |
| 4 | `VoiceRouting` (with turn taking) | pipelines, Hub and relay | checked, safety proved |
| 5 | `HABridge` | - | checked, safety proved |
| 6 | `ThreadCredentials` | coordinator and satellites, over messages under way | checked, safety proved |
| 7 | `HubStartup` | orchestrator, wizard, file | checked, safety proved |
| 8 | `Onboarding` | network setup of both editions, portal, advertisement, search | checked, safety proved |
| 9 | `SelfUpdate` | bootloader and poll | checked, safety proved |
| 10 | `Provisioning` | first boot, personas, Supervisor, config flows | checked, safety proved |

Every safety property the runs check is proved. Left, in this order: the type invariants
of `VoiceRouting`, `HubStartup` and `Provisioning` as theorems of their own (parts of them
are in the inductive invariants); an abstract specification of the relayed calls;
`disconnect()` of the satellite's client; the pairing branch of the link, once a client
takes it; answers that find their offer in `ThreadCredentials`, once the id is repaired
(section 6).

No module with theorems, nor any module it uses, has a RECURSIVE operator. Constants
carry named assumptions in the module that declares them. Definitions that no action
uses and whose comment calls them a fault are variants with a plausible bug; the
mutants of PROJECT.json put them in the place of the real one.

## 3. The modules

An action is the code from one await to the next, in every module. What the code
sends to somebody who is not modelled (a browser, Home Assistant, the relay, git, pip,
the Supervisor) is answered by what the calls in `src/` distinguish.

### HubPairing, SatelliteBroker, Household

`row`, `online`, `pendingRows` are the database and survive `Crash` and `Down`;
`sessions`, `expired`, `pending`, `signalled`, `secrets` are the service's dictionaries
and events. A request id is the ordinal of the request, the device secret and its hash
are named by the request they were generated for, a token is the ordinal of its issue.
`created`, `claimant` and `issued` number and attribute them; `verdicts` is a history
variable: what the owner was told (`approve_pairing` or `reject_pairing` returned True).

Each handler has `pc`, the await where it is suspended, and the fields of its
`SatelliteConnection`. `wire` is the socket: open, dead (nothing arrives, nobody
knows) or closed. `beat` abstracts `last_heartbeat`: fresh, or older than three
intervals.

| pc | Suspended in | Actions that resume it |
|---|---|---|
| accepted | `ws.recv()` of the first message | `HelloKnown`, `HelloRefused`, `HelloNew`, `HelloNewRefused`, `Resume`, `ResumeRefused`, `HandshakeFails` |
| challenged | `ws.recv()` of the HMAC answer | `AuthAccepted`, `HandshakeFails` |
| welcoming | `ws.send(HubWelcome)` | `Admit`, `SendFails` |
| offering | `ws.send(HubChallenge)` with the request id | `OfferSent`, `SendFails` |
| waiting | `wait_for(approval_event)` | `Enrol`, `EnrolConflict`, `Refuse`, `TimeoutFires` |
| timedOut | the cancelled wait, until it runs again | `Withdraw` |
| refusing | `ws.send` of the rejection | `Withdraw` |
| enrolling | `ws.send(HubWelcome)` with the secret | `AdmitNew` |
| loop | `async for raw_msg in ws` | `Heartbeat`, `LoopEnds` |

An error answer that is sent before the handler returns is folded into the action
that returns: nothing reads the state in between that the send could change. A
closed socket ends the message loop only when the coroutine is resumed, so the
registry can lead to a closed socket for a while, as in the code. `MonitorTick`
computes the list of silent satellites and closes the first; `MonitorClose` looks
the next one up after that close was awaited. `Stop`, `StopClose`, `StopClear`
and `Down` are the awaits of `stop()`. The operations meant for REST endpoints
(`approve_pairing`, `reject_pairing`, `unpair_satellite`) have no caller yet; they are
steps of the owner, possible at any moment of a live process.

`Household` is the abstract promise: satellites ask, the owner answers, an open request
of a satellite admits it once or is closed, members leave. `HouseholdKept` is the
refinement, under a mapping that takes rows to members and the requests of coroutines
in `offering` or `waiting` to open requests. `MCSatelliteBroker` holds the symmetry
and the state constraint of the run.

### AssistantClient, SatelliteLink

`AssistantClient` is the satellite's end, one variable per field: `mode` is where the
connect loop is suspended, `link` its socket, `retried` says whether
`_reconnect_attempt` is above 0 (all the code asks of it besides the delay), `held`
and `known` are token and secret, `stored` the secret in the files. `cut` holds the
satellites whose connection has died without notice. `SatelliteLink` extends
`SatelliteBroker`, instantiates the client, and replaces the broker's "any satellite
may say anything" by the messages clients have sent: `up[h]` and `down[h]` are the
messages under way on the connection of handler `h`.

| Client | Code | Broker |
|---|---|---|
| `Connect` (`Opened`) | `_connect_once` up to the first send | `Accept` |
| `ResumeDenied`, `ResumeTimesOut` | `_try_session_resume` returns False, `_authenticate` begins on the same socket | `Resume`, `ResumeRefused` |
| `Sign`, `Refused`, `AuthTimesOut` | `_authenticate` | `HelloKnown`, `HelloRefused`, `AuthAccepted` |
| `Welcomed`, `Saved` | `HubWelcome` read, `_save_config` with the files truncated in between | `Admit` |
| `Lost`, `ServiceEnds`, `HubSilent` | exceptions, end of the message loop, heartbeat loop | `LoopEnds`, `MonitorTick` |
| `PowerOff`, `PowerOn` | process end, `load_config` and `_setup_hub_connection` | |

The pairing actions of the broker have no part in it: this client never omits
the hash. A satellite that boots without a secret keeps its id (it derives from the
machine id) and greets with the hash of the empty string. Heartbeats are in time as long
as a client serves: the Hub's monitor acts on dead connections only.

### RelayClient

`pc` is where the task of `connect()` is suspended: opening, the three receives of the
handshake, the callbacks of `on_connected`, the message loop, a handler that runs inline,
and the two awaits of the end (the heartbeat task, the closing of the socket). `raised`
says whether `_connect_once` will end with an exception: only then is there a backoff.
`watching` and `silent` are the heartbeat task, which closes a silent connection
(`WatchEnds`) or ends with a failed send. Each correlation id in `Calls` is one
`wait_for_service_response`: `CallSent`, `CallWaits` (the future is registered only when
the wait begins), `CallTimesOut`, `CallReturns`; `pending` are the keys of
`_pending_calls`. `Left` and `Cleaned` are the two parts of the `finally` block. `stop` is
`main.py`'s shutdown: `disconnect()`, whose close is awaited, then the cancellation of
the task, which the await of the cancelled heartbeat task may swallow. The relay is
external: it answers what it reads, forgets sessions, falls silent.

### VoiceRouting

A turn `t` is a wake word on a device with the task it starts; its question and the answer
to that question have its name. `state` is `PipelineState` of each device, `slot` the one
message handler in each device that takes answers: on a satellite the turn that waits for
the Hub, on the Hub the turn (its own or a satellite's) that asked the relay last.
`AskRelay`, `AskHub`, `Answered`, `GivesUp` are `_invoke_assistant_via_*`; `RouteQuery`,
`RefuseQuery`, `DispatchAnswer` are `_handle_satellite_voice_query` and its temporary
handler. `crossed` is a history variable: the questions that were under way, or whose
answers were, when another question took over a slot.

### HABridge

`phase` is how far `connect()` is, `loop` what the event loop does: it reads, awaits a send
to the relay, or awaits a call of its own. `call`, `id`, `kind`, `reply` are the
`_ws_call` of each task, with the message sent before the future is registered
(`SendCall`, `RegisterCall`). `toHA` and `toBridge` are the socket, in order. `version`
numbers the changes of an entity in Home Assistant, `cache` is `_entity_states`, `relayed`
is the last version the relay saw. `Own` are the entities of Synork itself, whose new
states the loop skips. `missed` are the entities whose state the cache cannot show until
they change again: those that changed between `get_states` and `subscribe_events`, since the
code loads first; all of them after a `get_states` that was answered without success, since
`Loaded` then takes nothing and `connect()` goes on; and those of `Own` that changed since.

### ThreadCredentials

An offer is a task of the Hub: `OfferBegins`, with the send of the offer, and `Ends`, where
its future or the time-out decides; the future of the satellite (`pendingAck`) is replaced
by a second offer. An acknowledgement or a status is looked up under the id written in it
(`Entry`). That id is `NoId`, the empty string, because of `main.py:605`, so nothing is ever
found: the branches that decide an offer or set a status are in the model, and no run takes
their effect. `NothingAccepted` says so as a theorem, section 6 what it means. `record` and
`status` are `_tbrs`, named by the offer that created the record, because an older offer may
still write to a record that was replaced. `RekeyBegins`, `RekeyOffers`, `RekeyGoesOn` are
`recommission_network`, which goes through the dictionary across awaits. On the satellite
`Receive`, `Check`, `Store`, `Join`, `Report` are the handler of an offer and its awaits,
`PowerOn`, `Start`, `Restored` the start with the saved credentials. The write in `Store`
may fail, which is only logged; `unsaved` (history) are the satellites whose last one did.
`Crash` is a power cut anywhere. Both directions of the connection are messages under way.

### HubStartup

The actors are the main task and the wizard's pairing requests; `step` is where each is.
Both may come to `_setup_relay` (`VersionKnown`, `ServicesKnown`, `Authenticated`), so relay
clients and relay tasks are named after the actor that made them. `disk` is the pairing in
`hub_config.json`, `mem` the one in `config`, `upstream` the one the backend issued last,
`grant` the one in the reply a request has received. `Signal` sets the shutdown event in any
phase, `Stop`, `StopRelay`, `WizardStops` are `stop()`; `Crash` is a kill. `EarlyEnds` is
the end of phases 1 to 3. It may never come: phase 1 waits in the captive portal for a user,
without a time-out and without a look at the shutdown event. The file is replaced by a
rename, so a kill leaves the old one (`InterruptedSave`).

### Onboarding

For each device: `Detect`, `StartAP`, `ServePortal`, `Submit` (the user), `Asked`,
`Applied`, `StopAP`, `Redetect` are phase 1 with hostapd, dnsmasq and portal as a set;
`TearDown` is what stopping removes. The Hub advertises (`Advertise`); the satellite runs
`ValidateAudio`, `Scan`, `AddService`, `ScanEnds`, `SleepOver` up to `Retries` more
times. `StopSignal`, `Stopped`, `Kill`, `LinkChanges`,
`Forget`, `PairHub` come from outside.
hostapd and dnsmasq may exit at any moment (`ProgramExits`); nobody looks at that, so the
portal may be served where no access point is. A scan may end without having heard a Hub in
reach (`ScanEnds` has no guard on it): `add_service` returns early without a record or an
address.

### SelfUpdate

Commits are numbered, each with requirements of its own. `tree` is `LIVE` (absent, broken,
cloned), `followed` the only branch the single-branch clone has a reference to, `head`,
`stamp`, `installed`, `loaded` the commits of HEAD, of the stamp file, of the container's
packages and of the process. `Clone`, `Fetch`, `Reset`, `Clean`, `Exec` are the bootloader,
`FallBack` its baseline; `Poll` the updater. `Release`, `NetworkChanges`, `TimesOut`,
`Restart` (kill, new image, channel switch) come from outside.

### Provisioning

One start of the container: the wake-word model is fetched to `/data` and copied to
`/share` (`model`, `shared`; `Partial` is part of a file), its add-on is told to preload it;
`Resolve` and `Services` are the persona resolver as operators over the capabilities;
`Ensure*` is `SupervisorClient.ensure_addon_running`; `Entry*`, `Flow*`, `Walk*` the config
flow that `auto_complete_config_flow` walks; `SetupPipeline` the choice between the local
and the Wyoming pipeline. Every request is answered, lost after its effect, fails before
it, or is answered by what is not JSON. `stranded`, `meddled`, `troubled` are history
variables for what was lost, changed by others, or went wrong in this start.

## 4. Runs

Every passing run finishes in two or three minutes at most. A history variable is only ever read
by properties.

| Run | Instance | Question and answer |
|---|---|---|
| pairing | `Pairing.cfg`: 2 satellites, 2 handlers, 2 requests, 2 tokens, 1 stop or crash; symmetry | all safety of the Hub's side, and that the ledger implements `Household` |
| broker_liveness | `BrokerLiveness.cfg`: 1 satellite, 2 handlers, 1 request, 2 tokens, 1 stop | handshakes end, dead registered connections are dropped, `stop()` ends |
| link | `Link.cfg`: 1 satellite, 3 handlers, 1 fault, 1 stop or crash | both ends agree on the session they serve, no open connection is left behind, no handshake hangs, a satellite with its secret and no token gets in |
| relay | `Relay.cfg`: 2 calls, 3 tokens, 2 faults, inbox 1 | "connected" means welcomed, the waiting calls are those with an entry, a shutdown ends, otherwise the client comes back |
| voice | `Voice.cfg`: 3 turns, 2 satellites, 1 fault; symmetry | answers go astray only after questions crossed, a pipeline without a turn is idle |
| home | `Home.cfg`: 2 entities, one of them Synork's own, 1 caller, 3 versions, 3 ids | the cache follows Home Assistant but for `missed`, the relay never sees an older state, the loop goes on |
| thread | `Thread.cfg`: 2 satellites, 4 offers, 2 networks, 1 fault, 1 report; symmetry | the network joined is the one restored, no older network replaces a newer one, recommissioning leaves nobody without an offer, no record says joining without an offer under way |
| startup | `Startup.cfg`: 2 requests, 2 starts | what is relied on is on disk, what is on disk is current, a paired Hub that gets to the relay comes up, a shutdown ends once phases 1 to 3 are over |
| onboarding | `Onboarding.cfg`: 2 retries, 3 starts, 1 fault | no stray access point, setup comes to rest |
| update | `Update.cfg`: 2 branches, 4 commits, 4 faults | live code has its requirements, the newest commit is reached |
| provisioning | `Provisioning.cfg`: 2 kits, 2 steps, 2 releases, 2 faults | models are whole, no flow is left open, one listener, every start comes up |
| find_restored | `FindRestored.cfg`: 1 satellite, 2 handlers, 1 stop | violated: see section 6 |

**Bounds and why they are enough.** Every bound is a guard of the actions its comment
names; none disables anything else.

* *pairing*: every conflict of the pairing service is between two coroutines of one
  satellite or between a coroutine and the owner. Two satellites are needed for the
  registry to mix them up and for the monitor's list to have a second element. The
  constraint `OneTrouble` explores a stop or crash together with one request, and two
  requests without one; the two do not interact, because a crash loses all coroutines.
* *link*: three handlers are a connection, its replacement and one in its handshake;
  `MaxTokens` is above the number of welcomes a fault and a stop can cause.
* *relay*: two calls, because the end of a connection treats all entries at once; three
  tokens are the first session, the forgotten and the next.
* *voice*: three turns on three devices let two questions cross while a third is late.
* *home*: three versions are one loaded, one in between, one on the wire; of the two
  entities the loop skips one. The connector has two message ids, for load and
  subscription; the loop and a caller share the third, since they meet in nothing else.
* *thread*: two satellites, since the dictionary of `recommission_network` has to grow while it
  is gone through; three offers are those of two admissions and one of the new network, and
  one fault is a lost connection or a power cut, also in the middle of a write. A fourth
  offer lets a re-keying go through both. `MCThreadCredentials` holds the symmetry and the
  constraint `OneTrouble`: the fault, the fourth offer and a report are explored one at a
  time. A report is read and dropped, and the re-keying does not look at connections.
* *startup*: two requests are what can overlap; the second start meets what the first left.
* *onboarding*: two retries stand for ten: the last is different, and there is one before.
  Programs that are missing or exit, wrong forms and stops are not counted as faults; two
  faults with one retry passed too.
* *update*: four faults let a time-out, a new image, a channel switch and a kill meet.
* *provisioning*: the kits have every persona between them and the services whose
  provisioning differs; two failures let the repair of one fail.

**Deadlock** is checked in `pairing`, `broker_liveness`, `link` and `find_restored`: a
stopped Hub starts again. The other runs say CHECK_DEADLOCK FALSE, because their
behaviours end: relay client and Hub stop, turns are used up, faults, versions and
starts are bounded, a start that is up has nothing left to do.

**Fairness.** asyncio runs ready callbacks and due timers in order, so weak fairness of
each step of a task is what the loop gives; every wait in question has a time-out. The one
that has none, the captive portal's, is not assumed to end: `EarlyEnds` is not fair, nor is
the user who sends the form.

| Module | Fair | Why |
|---|---|---|
| `SatelliteBroker` | coroutines that can go on, time-outs, monitor, `stop()`, `Boot`, silence of dead sockets | event loop, timers, Supervisor restart, TCP |
| `SatelliteLink` | both event loops, time-outs on dead connections, the above | |
| `RelayClient` | the connect task, reading, the watchdog, disconnect and cancellation, and of the relay: it answers what it reads | without the last nobody could connect |
| `HABridge` | event loop, connect, callers, and Home Assistant reads its requests | |
| `HubStartup` | the phases from 4 on and stop, both halves of `_setup_relay`, the dismissal of the wizard, the relay welcomes | |
| `Onboarding` | the setup of each device, its stop, the satellite's search | |
| `SelfUpdate` | the bootloader and the poll | |
| `Provisioning` | the two halves of the start | every request has a time-out, the Supervisor restarts |

Nothing is assumed of users, owners, satellites that have to speak first, the
network, faults or signals. A time-out of a live connection is a fault and not fair.
`Enrol` is not fair because its bound on tokens could disable it; without it
`TimeoutFires` still ends the wait.

**What the properties say**, beyond their comments: `EnrolmentWasApproved` and
`HouseholdKept` are kept through every race of approval, time-out, duplicates and
crashes; `OnlineIsSaved` and `NeverOlderNetwork` through offers that follow one another, lost
connections and power cuts in the middle of a write, except where the last write of the file
failed (`unsaved`): there the restart restores an older network or none; `RekeyLeavesNobody`
says that each was offered the new network, not that anybody accepted it (nobody does); `CacheFollows`
excepts the three cases of `missed`; `PairedComesUp` and `ShutdownEnds` do not speak of a
start-up that is still in phases 1 to 3, where a Hub may wait for a user for ever;
`LiveHasRequirements` excepts a pip that failed, after
which the bootloader runs the tree all the same; `NoFlowLeft` excepts flows whose end
was lost.

The type invariants (`TypeOK`, `LinkTypeOK`, `OnboardingTypeOK`) and two more small ones
(`WatchHasConnection`, `PendingIsWaiting`) are in the modules, hold in the instances
above and help the proofs, and are not among the runs' properties.

## 5. Proofs

The theorems hold for every value of the constants under the named assumptions of the
modules (bounds are natural numbers, the names for "none" are none of the things).
Each is proved from an inductive invariant: the property alone says nothing of the
step before the one that could break it.

**SatelliteBrokerProofs** (`PairingAssumption`, `BrokerAssumption`).

* `TypeCorrect`: one lemma for the handlers, one for the broker, one for the service.
* `RegistryCorrect`: inductive as it stands, given the types.
* `EnrolmentCorrect`: through `EnrolmentInv`. A pairing coroutine waits for a request its
  own satellite made, a secret exists only for approved requests, rows refer to requests
  already made (a new request changes `claimant` elsewhere).
* `SecretKept`: an action property; only `Enrol` and `UnpairSatellite` write rows.
* `TokensRotate`: through `TokenInv` (no token exceeds the number issued; a coroutine
  has none before it is identified) and `Identified`.
* `PendingStored`, `OnlineCorrect`: with `FirstLife` (a Hub never stopped nor crashed is
  running), which excludes the steps that part memory from the database.

* `BrokerImplementsHousehold`, the refinement. It needs `EnrolmentInv`, `Identified` and
  `DistinctRequests` (no two coroutines have the same request): otherwise `Enrol` would
  leave its request open.

The second half of the module is about the link (with `LinkAssumption`), which starts from
`PairedInit`: each satellite was paired by a request of its own, and the Hub restarted.

* `LinkUsesBroker`: a step of clients, messages and Hub together is a step of the broker, or
  none of its variables changes, so the clients do nothing that the broker's proofs have
  not allowed for.
* `SessionAgreed` and `NoneOrphaned` from `LinkInv`: for the connection a client attends
  (`LinkEnds`), everything under way comes from this client; a handler that runs is past the
  greeting only for this satellite; a welcome under way carries the handler's token and
  stands while the handler is in `welcoming` or `loop`; and a client that serves holds that
  token. Around it, `LinkModes` says which modes have a connection, `OneClient` that no two
  clients attend the same one, `OpenIsAttended` that an open socket has a client at its
  end, `Unidentified` that no handler has a satellite before it is greeted. The agreement
  alone is not inductive: it says nothing of a welcome that is still under way.
  `LinkTypeCorrect` is a part of the same invariant.

**RelayClientProofs** (`RelayAssumption`): `RelayTypeCorrect`, with the flags and the rest
of the state in two lemmas. `ReadyCorrect` and `PendingCorrect` rest on `InboxInv` (a welcome
in the inbox is one the relay gave on this connection) and `FlagInv` (`_authenticated` is up
from the welcome to the end of the connection, and cleared before the task is cancelled).

**VoiceRoutingProofs** (`VoiceAssumption`): `IdleCorrect` is inductive given the types
(`Shapes`). `AstrayCorrect` needs `WayInv`: a question that is not in `crossed` finds its own
handler, or none, in every slot on its way.

**HABridgeProofs** (`BridgeAssumption`): `RelayedCorrect`, an action property, from `BridgeInv`:
the changes of an entity on the socket are in order, none is older than what the relay saw,
none newer than Home Assistant (`OrderInv`), and the loop forwards one at a time
(`OneAtATime`). `CacheCorrect` and `PendingCorrect` from `CacheInv`, on top of it: ids grow and
a request has at most one result under way (`IdInv`); tasks that call have ids of their own,
and an entry exactly while they wait (`TaskInv`); `phase` says what the connector has sent
and received, and that no change is on the socket before `subscribe_events` was read
(`PhaseInv`); while it loads, the answer shows Home Assistant's states but for `missed`, or is
a refusal, and then everything is missed (`LoadInv`); the last change of an entity on the
socket is its present state, unless it is one the loop skips, which is missed (`LastInv`).
Without `LastInv`, the last change to be read could leave an older state in the cache.

**ThreadCredentialsProofs** (`ThreadAssumption`): `JoinedIsRestored`, `RekeyComplete`,
`JoiningCorrect`, `NothingAccepted` and the action property `NetworkMonotone`, from one
invariant, `ThreadInv`. `OrderInv`: offers under way, the one being handled, memory, file
and router hold networks in the order they were sent, so nothing that arrives is older than
what is there, and a router that is online is on the network of the file; the last write is
the exception, where it failed. `NoneAccepted`: no answer decides an offer. It needs no more
than that every message under way carries `NoId`, which is no satellite
(`AnswersFindNothing`); a repair of the id would break this lemma first. `RekeyInv`: the
satellites of the registry that `recommission_network` is done with have been offered the
new network, and one that comes to the registry meanwhile makes it raise or was offered the
new network itself. `StatusInv`: a record says joining while its offer waits, then error or
offline.

**HubStartupProofs** (`StartupAssumption`): `SavedCorrect` and `CurrentCorrect` from
`StartupInv`: what a request or the memory holds was issued (`MemoryInv`), a client was made
with what is in the file (`SavedInv`), and without overlap the one request under way has the
newest grant (`CurrentInv`). The second half (`OnboardingAssumption`) is about `Onboarding`,
the phases before: `AccessPointCorrect` from `NetInv`, which says at each step of phase 1 what
of the access point may run (`PortalInv`: nothing before `start_ap` and after `stop_ap`, the
portal only from `ServePortal` on), that the main task waits for a portal that is up, and that
who asked sent a form (`FormInv`), with the types (`OnboardingTypeCorrect`).
`Onboarding` names its specification `OnboardingSpec` so that one module can extend both.

**SelfUpdateProofs** (`UpdateAssumption`): `UpdateTypeCorrect` and `RequirementsCorrect`; the
invariant (`UpdateInv`) adds that a clone has a reference to reset to, that nothing comes
after the update but with a clone, and that the stamp is gone when `Exec` looks at it: that
is why requirements are never taken for installed in a new image.

**ProvisioningProofs** (`ProvisioningAssumption`): `PlacedCorrect` through `FileInv` (a
cached model is whole, the steps that copy have one, and nothing is placed before they end)
and the lemma that what has the size of a model is whole; `FlowsCorrect` through `FlowInv`
(a flow whose last answer ended it is not open any more). `ListenerCorrect` through
`StartInv`: services recorded as ready have an add-on that runs, or that others changed
(`VoiceInv`); while nothing went wrong, `ensure` finds the state its steps left
(`EnsureInv`), and every add-on of the hardware is up, in `todo`, or of a persona still in
the queue (`ProgressInv`); and lemmas on the sequences of `Resolve` and `Services`.

Only model-checked: all liveness, because fairness and ENABLED are out of the prover's reach
(`HandshakeEnds`, `DeadIsDropped`, `StopCompletes`, `ClientGoesOn`, `FreshGetsIn`, `StopEnds`,
`ComesBack`, `LoopGoesOn`, `PairedComesUp`, `ShutdownEnds`, `ComesToRest`,
`FollowsReleases`, `ComesUp`), and the violated `LinkRestored`. The inductive invariants
were checked with TLC on the bounds of the runs before they were proved.

## 6. What does not hold

One statement of the repository is refuted by a run. `find_restored`: a satellite with an
old token never gets in again after a crash of the Hub. The token is tried first each time,
its refusal closes the connection it would authenticate on. `FreshGetsIn` and `LinkRestored`
differ in `held = 0` only: that is what the finding is about.

Two more are refuted by a theorem, `NothingAccepted`. `main.py:605` gives the runner of the
satellite's border router the attribute `_satellite_id` of `AssistantClient`, guarded by a
`hasattr`; the attribute is `satellite_id` (`assistant_client.py:99`), so the id in every
`ThreadCredentialsAck` and `ThreadStatusUpdate` is the empty string. `thread_coordinator.py:369`
finds no future under it: an offer that the satellite has accepted times out and returns False,
against "Returns True if the Assistant accepted the credentials" (`thread_coordinator.py:308`).
`thread_coordinator.py:385-388` finds no record: each status is dropped as one of an unknown
border router, and the Hub shows a satellite that has joined as in error, against "The Hub
aggregates these for the household's Thread overview" (`shared/protocol.py:939`).

The following is what the code does, seen while modelling it; where a property speaks of
it, the property says what is left.

*Broker and pairing.*
* The end of an old connection removes the registry entry of the one that replaced it
  (`satellite_broker.py:247`): the newer is served, and neither listed nor watched.
* The monitor computes its list once and closes after awaits, so a satellite that has
  reconnected meanwhile is closed; and the clock starts with the hello, so the pairing wait
  counts as silence.
* A half-open connection that was replaced is watched by nobody and never ends.
* A satellite unpaired during the HMAC exchange gets a session (`hub_pairing.py:199`).
* A rejection given after an approval, while the enrolment is carried out, returns True
  and changes nothing.
* After a crash the database says "online" until the satellites come back:
  `OnlineFollowsRegistry` promises the converse only for `stops = 0`.

*Assistant client.*
* The first hello carries the hash of the empty string, so the Hub's pairing branch is
  unreachable for it.
* A power cut during `_save_config` loses the secret: the file is truncated first.

*Voice.* Two questions under way together cross: the handler of an answer is found by
message type (`main.py:659`, "Temporarily register handler for this query"), so the answer
to the first goes to the second, and a late answer to whoever asks next.

*Home Assistant bridge.* The registry snapshot is requested from inside the loop that would
read the answer: it times out after ten seconds each time and is never sent. Changes between
load and subscription are missed until the entity changes again. A `get_states` answered
without success (`ha_bridge.py:244`) leaves the cache empty, and `connect()` goes on as if it had
been loaded. Entities of Synork itself (`sensor.synork_*`, `binary_sensor.synork_*`) are loaded,
but their changes are skipped before the cache is updated (`ha_bridge.py:418-421`): they stay as
they were loaded until they are removed.

*Thread.* Because of the empty id no offer is ever accepted: each ends after thirty seconds,
with its record in error, and a re-keying that has anybody to reach never returns True,
whatever the satellites did. (`recommission_network` has no caller yet.) With the id repaired the
acknowledgements would still carry no offer id: a late one would answer the next offer. An
offer that arrives before the satellite has registered its handler is dropped. Credentials
are acknowledged before they are stored: a power cut in between loses them. A write of the
file that fails is logged and nothing more (`assistant_thread_tbr.py:339-340`): the satellite
joins, and goes back to an older network, or none, at its next start. Going through `_tbrs`
while another satellite is admitted raises.

*Orchestrator and wizard.* A pairing that overlaps the start-up phases can make two relay
clients, of which one is not stopped by `stop()`; a pairing during shutdown makes a client
that is never disconnected, only lost with the process. Two overlapping pairing requests can
save the older pairing: hence `overlapped` in `SavedIsCurrent`. A paired Hub that starts
without a network stays in phase 1, off the relay, until somebody uses its portal
(`wifi_ap_fallback.py:217` waits without a time-out), and heeds no signal there: the handler
only sets an event that is awaited after all phases (`main.py:272`, `main.py:386-389`), so
the process ends by a kill. The broker's household stays empty if the relay takes longer
than ten seconds.

*Onboarding.* `apply_wifi_config` does not look at nmcli's status; `update_paired_status`
is never called, so a Hub paired later advertises "unpaired"; a Hub set up through its access
point never advertises; signals are not heeded while the portal waits; without nmcli
the access point stays. Nobody looks at the exits of hostapd and dnsmasq
(`wifi_ap_fallback.py:175-195`): the portal may be served where no access point is, and phase 1
then waits for a user who cannot reach it. A Hub in reach may go unheard in a scan
(`assistant_provisioner.py:160-168`): `add_service` returns when the record or the address is not
there yet, and `update_service` does nothing; after the last scan the satellite stays alone.

*Updater.* A Hub that fell back to the baseline stays there although the network came back:
the poll compares the heads of tree and remote, not what runs. A switch of channel on a
single-branch clone makes the reset fail. An interrupted clone is taken for a repository for
ever. `git clean -fd` removes the stamp, so requirements are installed again at each start.

*Provisioning.* `addon_state` takes an error for "not installed", so `ensure` fails on an
add-on that runs and the local pipeline runs beside the Wyoming one (`OneListener` excepts
starts in which something went wrong). An answer that is not JSON discards the results of a persona
and leaves a flow open. A fresh installation of the wake-word add-on runs without the
preload option until the next start. A model of the same size in `/share` is not replaced,
a cached one never updated. The comments name a service "matter" that the hub persona never
has.

## 7. Not modelled

* Pairing and broker: room, display name, capabilities and time stamps; the contents of
  messages other than heartbeats in the message loop; errors of SQLite other than the primary key.
  A dead peer makes `ws.close()` wait up to ten seconds; the socket counts as closed
  at once, and what happens during the wait are the steps between `MonitorTick` and
  `MonitorClose`.
* Assistant client: `disconnect()`, and AUTH_EXPIRED in the message loop, which the Hub
  never sends there.
* Relay client: the preferences file, the length of the backoff.
* Bridge: the interactive HomeKit flow, the parameters of service calls.
* Thread: the generation of a dataset, OTBR discovery. The send of an offer is one step with
  its beginning: what the Hub does between the two reads nothing that another task changes
  but the connection, and a send on a dead one is a message that is lost.
* Voice pipeline: wake word, voice activity, transcription, synthesis and audio are device
  and library I/O; the filler phrases.
* Orchestrator and wizard: device preferences, health report, pages and listings.
* Onboarding: several Hubs on one network.
* Provisioning: the hardware probe; voice metadata and the Whisper download of first
  boot, which nothing else waits for and which has no time-out.
* Protocol and schemas are declarations; the frontend patches text files and drives forms,
  and shares no state with the rest.
