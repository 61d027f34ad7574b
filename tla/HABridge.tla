------------------------------ MODULE HABridge -------------------------------
(***************************************************************************)
(* HABridge (synork_home/src/ha_bridge.py): the WebSocket to Home          *)
(* Assistant.  connect() authenticates, starts the event loop task, loads  *)
(* all states and subscribes to changes.  The event loop resolves the      *)
(* calls of other tasks, keeps the cache of entity states and forwards     *)
(* changes to the relay; for a registry event it makes a call of its own.  *)
(*                                                                         *)
(* Home Assistant and the relay are external: HA works off its requests in *)
(* order, and its messages arrive in order.                                *)
(***************************************************************************)
EXTENDS Naturals, Sequences

CONSTANTS
  Entities,
  Own,           \* those of Synork itself: sensor.synork_*, binary_sensor.synork_*
  Callers,       \* tasks that make one call each
  Connector,     \* the task of connect()
  Loop,          \* the task of _event_loop()
  MaxVersion,    \* bound: changes of an entity
  MaxId          \* bound: message ids

ASSUME BridgeAssumption ==
  /\ Own \subseteq Entities
  /\ Connector \notin Callers /\ Loop \notin Callers /\ Connector # Loop
  /\ MaxVersion \in Nat /\ MaxId \in Nat

Tasks == Callers \cup {Connector, Loop}

VARIABLES
  phase,      \* how far connect() is
  loop,       \* what the event loop does
  events,      \* the change the event loop is forwarding
  callbacks,  \* the callbacks of main.py are registered
  cache,      \* _entity_states: the version of each entity, 0 for none
  msgId,      \* _msg_id
  call,       \* the state of each task's _ws_call
  id,         \* its message id
  kind,       \* its request
  pending,    \* the keys of _pending
  reply,      \* the result a task was given
  link,       \* the WebSocket
  toHA, toBridge,
  version, exists,   \* Home Assistant's entities
  subscribed,        \* HA has the subscription to states and to registries
  missed,            \* history: entities the cache cannot show until they change again
  relayed            \* the version of each entity the relay saw last

bridgeVars == <<phase, loop, events, callbacks, cache>>
callVars   == <<msgId, call, id, kind, pending, reply>>
netVars    == <<link, toHA, toBridge>>
haVars     == <<version, exists, subscribed, missed>>
vars == <<bridgeVars, callVars, netVars, haVars, relayed>>

Versions == 0 .. MaxVersion

\* The type invariant; every task has a message id of its own.
TypeOK ==
  /\ phase \in {"opening", "loading", "subscribing", "up", "failed", "closed"}
  /\ loop \in {"off", "reading", "forwarding", "calling", "ended"}
  /\ cache \in [Entities -> Versions]
  /\ relayed \in [Entities -> Versions]
  /\ msgId \in 0 .. MaxId
  /\ call \in [Tasks -> {"idle", "sent", "waiting", "resolved", "done", "failed"}]
  /\ id \in [Tasks -> 0 .. msgId]
  /\ pending \subseteq 1 .. msgId
  /\ link \in {"none", "open", "closed"}
  /\ version \in [Entities -> 1 .. MaxVersion]
  /\ exists \in [Entities -> BOOLEAN]
  /\ missed \subseteq Entities
  /\ {subscribed, callbacks} \subseteq BOOLEAN
  /\ \A t, u \in Tasks : id[t] = id[u] => t = u \/ id[t] = 0

Init ==
  /\ phase = "opening" /\ loop = "off" /\ events = {} /\ callbacks = FALSE
  /\ cache = [e \in Entities |-> 0]
  /\ msgId = 0 /\ pending = {}
  /\ call = [t \in Tasks |-> "idle"]
  /\ id = [t \in Tasks |-> 0]
  /\ kind = [t \in Tasks |-> "none"]
  /\ reply = [t \in Tasks |-> <<>>]
  /\ link = "none" /\ toHA = <<>> /\ toBridge = <<>>
  /\ version = [e \in Entities |-> 1]
  /\ exists \in [Entities -> BOOLEAN]
  /\ subscribed = FALSE /\ missed = {}
  /\ relayed = [e \in Entities |-> 0]

-----------------------------------------------------------------------------
(* _ws_call                                                                *)

\* _ws_send: the request goes out with the next id.
SendCall(t, k) ==
  /\ call[t] # "sent" /\ call[t] # "waiting"
  /\ link = "open"
  /\ msgId < MaxId
  /\ msgId' = msgId + 1
  /\ toHA' = Append(toHA, [id |-> msgId + 1, kind |-> k])
  /\ call' = [call EXCEPT ![t] = "sent"]
  /\ id' = [id EXCEPT ![t] = msgId + 1]
  /\ kind' = [kind EXCEPT ![t] = k]
  /\ reply' = [reply EXCEPT ![t] = <<>>]

\* The send was awaited; only now is the future registered.
RegisterCall(t) ==
  /\ call[t] = "sent"
  /\ call' = [call EXCEPT ![t] = "waiting"]
  /\ pending' = pending \cup {id[t]}
  /\ UNCHANGED <<bridgeVars, msgId, id, kind, reply, netVars, haVars, relayed>>

EndCall(t, outcome) ==
  /\ call' = [call EXCEPT ![t] = outcome]
  /\ pending' = pending \ {id[t]}
  /\ UNCHANGED <<msgId, id, kind, reply>>

Returns(t) == call[t] = "resolved" /\ EndCall(t, "done")
TimesOut(t) == call[t] \in {"waiting", "resolved"} /\ EndCall(t, "failed")

-----------------------------------------------------------------------------
(* connect()                                                               *)

\* Authenticated: the event loop starts, then all states are asked for.
Authenticated ==
  /\ phase = "opening"
  /\ link' = "open"
  /\ loop' = "reading"
  /\ phase' = "loading"
  /\ UNCHANGED <<events, callbacks, cache, callVars, toHA, toBridge, haVars, relayed>>

\* The socket cannot be opened, or HA refuses the token.
ConnectFails ==
  /\ phase = "opening"
  /\ phase' = "failed"
  /\ UNCHANGED <<loop, events, callbacks, cache, callVars, netVars, haVars, relayed>>

\* Fault: the subscription goes out before the states are asked for.
LoadSubscribesFirst ==
  /\ phase = "loading"
  /\ call[Connector] = "idle"
  /\ link = "open" /\ msgId + 1 < MaxId
  /\ msgId' = msgId + 2
  /\ toHA' = toHA \o << [id |-> msgId + 1, kind |-> "subscribe"],
                        [id |-> msgId + 2, kind |-> "states"] >>
  /\ call' = [call EXCEPT ![Connector] = "sent"]
  /\ id' = [id EXCEPT ![Connector] = msgId + 2]
  /\ kind' = [kind EXCEPT ![Connector] = "states"]
  /\ UNCHANGED <<bridgeVars, pending, reply, link, toBridge, haVars, relayed>>

Load ==
  /\ phase = "loading"
  /\ call[Connector] = "idle"
  /\ SendCall(Connector, "states")
  /\ UNCHANGED <<bridgeVars, pending, link, toBridge, haVars, relayed>>

\* A result without success (<<>>) loads nothing; connect() goes on all the same.
Loaded ==
  LET states == reply[Connector] IN
  /\ phase = "loading"
  /\ Returns(Connector)
  /\ cache' = IF states = <<>> THEN cache
              ELSE [e \in Entities |-> IF states[e] # 0 THEN states[e] ELSE cache[e]]
  /\ phase' = "subscribing"
  /\ UNCHANGED <<loop, events, callbacks, netVars, haVars, relayed>>

\* get_states times out: connect() raises, main.py logs it and registers
\* nothing; the socket and the event loop stay.
LoadFails ==
  /\ phase = "loading"
  /\ TimesOut(Connector)
  /\ phase' = "failed"
  /\ UNCHANGED <<loop, events, callbacks, cache, netVars, haVars, relayed>>

\* Subscriptions are sent, no result is awaited.  The first snapshot has no
\* callbacks to go to: they are registered now.
Subscribe ==
  /\ phase = "subscribing"
  /\ msgId < MaxId
  /\ msgId' = msgId + 1
  /\ IF link = "open"
     THEN /\ toHA' = Append(toHA, [id |-> msgId + 1, kind |-> "subscribe"])
          /\ phase' = "up" /\ callbacks' = TRUE
     ELSE phase' = "failed" /\ UNCHANGED <<toHA, callbacks>>
  /\ UNCHANGED <<loop, events, cache, call, id, kind, pending, reply, link, toBridge, haVars, relayed>>

-----------------------------------------------------------------------------
(* _event_loop and _handle_ws_message                                      *)

Arrives(k) ==
  /\ loop = "reading"
  /\ toBridge # <<>>
  /\ Head(toBridge).kind = k
  /\ toBridge' = Tail(toBridge)

\* A result is for the call that has its id, if that is registered.
Result ==
  LET m == Head(toBridge) IN
  /\ Arrives("result")
  /\ pending' = pending \ {m.id}
  /\ call' = [t \in Tasks |-> IF m.id \in pending /\ id[t] = m.id THEN "resolved" ELSE call[t]]
  /\ reply' = [t \in Tasks |-> IF m.id \in pending /\ id[t] = m.id THEN m.states ELSE reply[t]]
  /\ UNCHANGED <<bridgeVars, msgId, id, kind, link, toHA, haVars, relayed>>

\* A new state of an entity of Synork itself is skipped, its removal is not.
Taken(m) == m.v = 0 \/ m.e \notin Own
Forwards(m) == callbacks /\ m.v # 0 /\ m.e \notin Own

\* Fault: a task forwards the change, the loop does not wait for it.
StateChangedSpawns ==
  LET m == Head(toBridge) IN
  /\ Arrives("state")
  /\ cache' = IF Taken(m) THEN [cache EXCEPT ![m.e] = m.v] ELSE cache
  /\ events' = IF Forwards(m) THEN events \cup {m} ELSE events
  /\ UNCHANGED <<phase, loop, callbacks, callVars, link, toHA, haVars, relayed>>

\* state_changed: the cache follows, and the callbacks are awaited.
StateChanged ==
  LET m == Head(toBridge) IN
  /\ Arrives("state")
  /\ cache' = IF Taken(m) THEN [cache EXCEPT ![m.e] = m.v] ELSE cache
  /\ IF Forwards(m)
     THEN events' = {m} /\ loop' = "forwarding"
     ELSE UNCHANGED <<events, loop>>
  /\ UNCHANGED <<phase, callbacks, callVars, link, toHA, haVars, relayed>>

\* The change is sent to the relay, or there is none.
Forwarded ==
  \E m \in events :
    /\ events' = events \ {m}
    /\ loop' = IF loop = "forwarding" THEN "reading" ELSE loop
    /\ relayed' \in {relayed, [relayed EXCEPT ![m.e] = m.v]}
    /\ UNCHANGED <<phase, callbacks, cache, callVars, netVars, haVars>>

\* A registry event: the loop itself calls HA for the registries.  (The three
\* calls of build_registry_snapshot are one here: the first decides.)
RegistryUpdated ==
  /\ Arrives("registry")
  /\ IF callbacks /\ link = "open"
     THEN SendCall(Loop, "registry") /\ loop' = "calling"
     ELSE UNCHANGED <<loop, msgId, call, id, kind, reply, toHA>>
  /\ UNCHANGED <<phase, events, callbacks, cache, pending, link, haVars, relayed>>

\* Fault: the loop waits for the answer without a time-out.
LoopReturnsAnswered ==
  /\ loop = "calling"
  /\ Returns(Loop)
  /\ loop' = "reading"
  /\ UNCHANGED <<phase, events, callbacks, cache, netVars, haVars, relayed>>

\* The call of the loop ends, and the loop goes on: with the snapshot that the
\* callbacks send, or without.
LoopReturns ==
  /\ loop = "calling"
  /\ Returns(Loop) \/ TimesOut(Loop)
  /\ loop' = "reading"
  /\ UNCHANGED <<phase, events, callbacks, cache, netVars, haVars, relayed>>

\* The socket is closed and drained: the loop ends, and nobody starts it again.
LoopEnds ==
  /\ loop = "reading"
  /\ link = "closed" /\ toBridge = <<>>
  /\ loop' = "ended"
  /\ UNCHANGED <<phase, events, callbacks, cache, callVars, netVars, haVars, relayed>>

-----------------------------------------------------------------------------
(* Other tasks, disconnect(), Home Assistant                               *)

\* A service call, a registry mutation, or any other request.
CallerAsks(t) ==
  /\ call[t] = "idle"
  /\ \E k \in {"service", "mutate"} : SendCall(t, k)
  /\ UNCHANGED <<bridgeVars, pending, link, toBridge, haVars, relayed>>

CallerGoesOn(t) ==
  /\ Returns(t) \/ TimesOut(t)
  /\ UNCHANGED <<bridgeVars, netVars, haVars, relayed>>

\* disconnect(): the loop is cancelled, the socket closed, what waits cancelled.
Disconnect ==
  /\ phase \in {"up", "failed"}
  /\ phase' = "closed"
  /\ loop' = (IF loop = "off" THEN "off" ELSE "ended") /\ events' = {}
  /\ link' = IF link = "none" THEN "none" ELSE "closed"
  /\ toBridge' = <<>>
  /\ pending' = {}
  /\ call' = [t \in Tasks |-> IF id[t] \in pending \/ (t = Loop /\ loop = "calling")
                              THEN "failed" ELSE call[t]]
  /\ UNCHANGED <<callbacks, cache, msgId, id, kind, reply, toHA, haVars, relayed>>

\* HA restarts or the connection breaks; what HA has sent may still arrive.
ConnectionLost ==
  /\ link = "open"
  /\ link' = "closed"
  /\ toHA' = <<>>
  /\ UNCHANGED <<bridgeVars, callVars, toBridge, haVars, relayed>>

Shown(e) == IF exists[e] THEN version[e] ELSE 0

\* What HA answers to a request: the states, or a result without success.
Answers(k) == {<<>>} \cup (IF k = "states" THEN {[e \in Entities |-> Shown(e)]} ELSE {})

\* HA works off a request.
HAReads ==
  LET m == Head(toHA)
      changes == IF m.kind = "mutate" /\ subscribed THEN << [kind |-> "registry"] >> ELSE <<>>
  IN
  /\ link = "open"
  /\ toHA # <<>>
  /\ toHA' = Tail(toHA)
  /\ \E s \in Answers(m.kind) :
       /\ toBridge' = toBridge \o << [kind |-> "result", id |-> m.id, states |-> s] >> \o changes
       /\ missed' = IF m.kind = "states" /\ s = <<>> THEN Entities ELSE missed
  /\ subscribed' = (subscribed \/ m.kind = "subscribe")
  /\ UNCHANGED <<bridgeVars, callVars, link, version, exists, relayed>>

\* HA has answered get_states on this connection.
Snapshot ==
  kind[Connector] = "states" /\ id[Connector] \notin {toHA[i].id : i \in DOMAIN toHA}

\* An entity changes, is removed, or comes back.
HAChanges(e) ==
  /\ link = "open"
  /\ version[e] < MaxVersion
  /\ version' = [version EXCEPT ![e] = @ + 1]
  /\ \E b \in BOOLEAN : exists' = [exists EXCEPT ![e] = b]
  /\ IF subscribed
     THEN /\ toBridge' = Append(toBridge, [kind |-> "state", e |-> e,
                                           v |-> IF exists'[e] THEN version[e] + 1 ELSE 0])
          /\ missed' = IF exists'[e] /\ e \in Own THEN missed \cup {e} ELSE missed \ {e}
     ELSE /\ missed' = IF Snapshot THEN missed \cup {e} ELSE missed
          /\ UNCHANGED toBridge
  /\ UNCHANGED <<bridgeVars, callVars, link, toHA, subscribed, relayed>>

\* Somebody else changes a registry.  (One such event at a time.)
HARegistryChanges ==
  /\ link = "open"
  /\ subscribed
  /\ msgId < MaxId
  /\ \A i \in DOMAIN toBridge : toBridge[i].kind # "registry"
  /\ toBridge' = Append(toBridge, [kind |-> "registry"])
  /\ UNCHANGED <<bridgeVars, callVars, link, toHA, haVars, relayed>>

-----------------------------------------------------------------------------
Connect == Authenticated \/ ConnectFails \/ Load \/ Loaded \/ LoadFails \/ Subscribe
EventLoop ==
  Result \/ StateChanged \/ Forwarded \/ RegistryUpdated \/ LoopReturns \/ LoopEnds
Others ==
  \/ \E t \in Tasks : RegisterCall(t)
  \/ \E t \in Callers : CallerAsks(t) \/ CallerGoesOn(t)
HomeAssistant ==
  HAReads \/ HARegistryChanges \/ ConnectionLost \/ \E e \in Entities : HAChanges(e)

Next == Connect \/ EventLoop \/ Others \/ Disconnect \/ HomeAssistant

Spec == Init /\ [][Next]_vars

\* Sends end, time-outs fire, the loop goes on, and HA answers.
FairSpec ==
  /\ Spec
  /\ WF_vars(EventLoop)
  /\ WF_vars(HAReads)
  /\ WF_vars(Connect)
  /\ \A t \in Tasks : WF_vars(RegisterCall(t))
  /\ \A t \in Callers : WF_vars(CallerGoesOn(t))

-----------------------------------------------------------------------------
(* What the bridge promises.                                               *)

\* Changes of e that are on their way to the cache.
UnderWay(e) == {i \in DOMAIN toBridge : toBridge[i].kind = "state" /\ toBridge[i].e = e}

\* While the bridge is connected, its cache shows each entity as HA does, or
\* the change is under way: no order of results and events lets an old state
\* replace a newer one.  What the code does miss is in `missed`: a change
\* between the load of the states and the subscription, and every state when HA
\* refuses the load, both until the entity changes again; a change of an entity
\* of Synork itself, until that is removed.
CacheFollows ==
  phase = "up" /\ link = "open" /\ loop # "ended" =>
    \A e \in Entities :
      \/ cache[e] = Shown(e)
      \/ UnderWay(e) # {}
      \/ e \in missed

\* Exactly the calls that wait have an entry: a time-out, a lost connection or
\* a disconnect leaves no entry behind and no call without one.
PendingIsWaiting == pending = {id[t] : t \in {u \in Tasks : call[u] = "waiting"}}

\* The relay never sees an entity go back to an older state.
RelayedInOrder == [][\A e \in Entities : relayed'[e] >= relayed[e]]_vars

\* The event loop never stays in its own call, whose answer only it could
\* dispatch: state changes are forwarded again, other calls answered again.
LoopGoesOn == loop = "calling" ~> loop # "calling"
=============================================================================
