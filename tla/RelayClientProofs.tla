------------------------- MODULE RelayClientProofs --------------------------
(***************************************************************************)
(* Proofs about RelayClient, for every set of calls and every bound.       *)
(***************************************************************************)
EXTENDS RelayClient, TLAPS

USE RelayAssumption DEF RelayAssumption
USE DEF taskVars, flagVars, tokenVars, watchVars, callVars, relayVars, netVars,
        Fault, TimesOut, Up, Msg, Handshake, PCs, CallStates, ClearFlags, CancelCalls

Message ==
  [kind : {"hello", "reconnect", "signature", "call", "welcome", "error", "challenge",
           "answer", "beat", "request"},
   n : (0 .. MaxTokens) \cup Calls]

\* Messages have their type, none is left of a socket that is gone, and a welcome
\* that was not yet read is of this socket and carries a token of the relay.
InboxInv ==
  /\ inbox \in Seq(Message) /\ outbox \in Seq(Message)
  /\ wire = "none" => inbox = <<>>
  /\ \A i \in 1 .. Len(inbox) :
       inbox[i].kind = "welcome" => welcomed /\ inbox[i].n \in 1 .. MaxTokens

\* _authenticated is up from the welcome to the end of the connection, and
\* disconnect() has cleared the flags before stop() cancels the task.
FlagInv ==
  /\ authenticated => pc \in {"calling", "serving", "handling", "cleaning"}
  /\ authenticated => welcomed /\ wire # "none"
  /\ stop = "cancelling" => ~connected /\ ~authenticated

\* Reading a message leaves the others as they are.
LEMMA ArrivesKeeps ==
  ASSUME InboxInv, NEW kinds, Arrives(kinds)
  PROVE  /\ Head(inbox) \in Message /\ wire # "none"
         /\ Head(inbox).kind \in kinds
         /\ Head(inbox).kind = "welcome" => welcomed /\ Head(inbox).n \in 1 .. MaxTokens
         /\ inbox' \in Seq(Message)
         /\ \A i \in 1 .. Len(inbox') :
              inbox'[i].kind = "welcome" => welcomed /\ inbox'[i].n \in 1 .. MaxTokens
<1> USE DEF InboxInv, Arrives
<1>1. Head(inbox) = inbox[1] /\ 1 \in 1 .. Len(inbox)
  OBVIOUS
<1>2. inbox' = Tail(inbox) /\ inbox' \in Seq(Message) /\ Len(inbox') = Len(inbox) - 1
  OBVIOUS
<1>3. \A i \in 1 .. Len(inbox') : inbox'[i] = inbox[i + 1] /\ i + 1 \in 1 .. Len(inbox)
  BY <1>2
<1>4. QED
  BY <1>1, <1>2, <1>3

\* An answer of the relay goes behind the others.
LEMMA ReplyKeeps ==
  ASSUME InboxInv, NEW m \in Message, Reply(m)
  PROVE  /\ inbox' \in Seq(Message)
         /\ \A i \in 1 .. Len(inbox') : inbox'[i] = m \/ (i \in 1 .. Len(inbox) /\ inbox'[i] = inbox[i])
BY DEF InboxInv, Reply

LEMMA WriteKeeps ==
  ASSUME InboxInv, NEW m \in Message, Write(m)
  PROVE  outbox' \in Seq(Message)
BY DEF InboxInv, Write

\* The step of the socket's messages.
LEMMA InboxStep ==
  ASSUME TypeOK, InboxInv, [Next]_vars
  PROVE  InboxInv'
<1>1. CASE UNCHANGED <<netVars, welcomed>>
  BY <1>1 DEF InboxInv
<1>2. CASE Opened
  BY <1>2 DEF Opened, InboxInv, Message, TypeOK, StateTypeOK
<1>3. CASE Left \/ Cancelled
  <2>1. CASE UNCHANGED <<netVars, welcomed>>
    BY <2>1 DEF InboxInv
  <2>2. CASE inbox' = <<>> /\ outbox' = <<>>
    BY <2>2 DEF InboxInv
  <2>3. QED
    BY <1>3, <2>1, <2>2 DEF Left, Cancelled
<1>4. CASE Resumed \/ Welcomed
  BY <1>4, ArrivesKeeps DEF Resumed, Welcomed, Admitted, InboxInv
<1>5. CASE ResumeFails \/ Challenged
  <2>1. Msg("hello", 0) \in Message /\ Msg("signature", 0) \in Message
    BY DEF Message
  <2>2. outbox' \in Seq(Message)
    BY <1>5, <2>1, WriteKeeps DEF ResumeFails, Challenged
  <2>3. wire' = wire /\ wire # "none" /\ welcomed' = welcomed
    BY <1>5 DEF ResumeFails, Challenged, Write
  <2>4. CASE UNCHANGED inbox
    BY <2>2, <2>3, <2>4 DEF InboxInv
  <2>5. CASE inbox' # inbox
    <3>1. PICK kinds : Arrives(kinds)
      BY <1>5, <2>5 DEF ResumeFails, Challenged
    <3>2. QED
      BY <2>2, <2>3, <3>1, ArrivesKeeps DEF InboxInv
  <2>6. QED
    BY <2>4, <2>5
<1>6. CASE AuthFails \/ Beat \/ Expired \/ Answered \/ Handle
  <2>1. wire' = wire /\ outbox' = outbox /\ welcomed' = welcomed
    BY <1>6 DEF AuthFails, Beat, Expired, Answered, Handle
  <2>2. CASE UNCHANGED inbox
    BY <2>1, <2>2 DEF InboxInv
  <2>3. CASE inbox' # inbox
    <3>1. PICK kinds : Arrives(kinds)
      BY <1>6, <2>3 DEF AuthFails, Beat, Expired, Answered, Handle
    <3>2. QED
      BY <2>1, <3>1, ArrivesKeeps DEF InboxInv
  <2>4. QED
    BY <2>2, <2>3
<1>7. ASSUME NEW c \in Calls, CallSent(c) PROVE InboxInv'
  BY <1>7, WriteKeeps DEF CallSent, InboxInv, Message
<1>8. CASE WatchEnds \/ DisconnectBegins \/ ConnectionLost
  BY <1>8 DEF WatchEnds, DisconnectBegins, ConnectionLost, Disconnected, InboxInv
<1>9. CASE RelayReads
  <2> DEFINE m == Head(outbox)
  <2>1. m \in Message /\ outbox' \in Seq(Message) /\ wire' = wire /\ wire # "none"
    BY <1>9 DEF RelayReads, InboxInv
  <2>2. PICK a \in Message :
          /\ Reply(a)
          /\ a.kind = "welcome" => welcomed' /\ a.n \in 1 .. MaxTokens
          /\ welcomed => welcomed'
    <3>1. CASE Welcome
      <4>1. Reply(Msg("welcome", issued + 1)) /\ welcomed' = TRUE
        BY <3>1 DEF Welcome
      <4>2. issued + 1 \in 1 .. MaxTokens
        BY <3>1 DEF Welcome, TypeOK, StateTypeOK
      <4>3. Msg("welcome", issued + 1) \in Message
        BY <4>2 DEF Message
      <4>4. QED
        BY <4>1, <4>2, <4>3
    <3>2. CASE UNCHANGED relayVars
      <4>1. \/ Reply(Msg("error", 0)) \/ Reply(Msg("challenge", 0))
            \/ m.kind = "call" /\ Reply(Msg("answer", m.n))
        BY <1>9, <3>2 DEF RelayReads, Welcome, TypeOK, StateTypeOK
      <4>2. /\ Msg("error", 0) \in Message /\ Msg("challenge", 0) \in Message
            /\ Msg("answer", m.n) \in Message
        BY <2>1 DEF Message
      <4>3. QED
        BY <3>2, <4>1, <4>2
    <3>3. QED
      BY <1>9, <3>1, <3>2 DEF RelayReads
  <2>3. QED
    BY <2>1, <2>2, ReplyKeeps DEF InboxInv
<1>10. CASE RelaySays
  <2>1. PICK a \in Message : Reply(a) /\ a.kind # "welcome"
    BY <1>10 DEF RelaySays, Message
  <2>2. QED
    BY <1>10, <2>1, ReplyKeeps DEF RelaySays, InboxInv
<1>11. QED
  BY <1>1, <1>2, <1>3, <1>4, <1>5, <1>6, <1>7, <1>8, <1>9, <1>10
  DEF Next, Connect, Call, Disconnect, Environment, OpenFails, Retry, SleepOver, HandshakeBreaks,
      Serve, ServeEnds, Cleaned, CallWaits, CallTimesOut, CallReturns, DisconnectEnds,
      Disconnected, RelayForgets, Silence, vars

LEMMA StateTypeStep ==
  ASSUME TypeOK, InboxInv, [Next]_vars
  PROVE  StateTypeOK'
<1> USE DEF TypeOK, StateTypeOK
<1>1. CASE Opened \/ OpenFails \/ SleepOver
  BY <1>1 DEF Opened, OpenFails, SleepOver, Retry
<1>2. CASE Resumed \/ Welcomed
  <2>1. Head(inbox).n \in 0 .. MaxTokens
    BY <1>2, ArrivesKeeps DEF Resumed, Welcomed, Admitted
  <2>2. QED
    BY <1>2, <2>1 DEF Resumed, Welcomed, Admitted
<1>3. CASE ResumeFails \/ Challenged \/ AuthFails \/ HandshakeBreaks
  BY <1>3 DEF ResumeFails, Challenged, AuthFails, HandshakeBreaks
<1>4. CASE Serve \/ Beat \/ Expired \/ Handle \/ ServeEnds \/ Cleaned \/ Left
  BY <1>4 DEF Serve, Beat, Expired, Handle, ServeEnds, Cleaned, Left, Retry
<1>5. CASE Answered
  BY <1>5 DEF Answered
<1>6. CASE WatchEnds
  BY <1>6 DEF WatchEnds
<1>7. ASSUME NEW c \in Calls, Call(c) PROVE StateTypeOK'
  BY <1>7 DEF Call, CallSent, CallWaits, CallTimesOut, CallReturns
<1>8. CASE Disconnect
  BY <1>8 DEF Disconnect, DisconnectBegins, DisconnectEnds, Disconnected, Cancelled
<1>9. CASE RelayReads
  BY <1>9 DEF RelayReads, Welcome
<1>10. CASE RelaySays \/ RelayForgets \/ ConnectionLost \/ Silence
  BY <1>10 DEF RelaySays, RelayForgets, ConnectionLost, Silence
<1>11. CASE UNCHANGED vars
  BY <1>11 DEF vars
<1>12. QED
  BY <1>1, <1>2, <1>3, <1>4, <1>5, <1>6, <1>7, <1>8, <1>9, <1>10, <1>11
  DEF Next, Connect, Environment

LEMMA FlagTypeStep ==
  ASSUME TypeOK, InboxInv, [Next]_vars
  PROVE  FlagTypeOK'
<1> USE DEF TypeOK, FlagTypeOK
<1>1. CASE Opened \/ OpenFails \/ SleepOver
  <2>1. CASE Opened
    BY <2>1 DEF Opened
  <2>2. CASE OpenFails
    BY <2>2 DEF OpenFails, Retry
  <2>3. CASE SleepOver
    BY <2>3 DEF SleepOver
  <2>4. QED
    BY <1>1, <2>1, <2>2, <2>3
<1>2. CASE Resumed \/ Welcomed \/ ResumeFails \/ Challenged \/ AuthFails \/ HandshakeBreaks
  <2>1. CASE Resumed \/ Welcomed
    <3>1. authenticated' = TRUE /\ retried' = FALSE
      BY <2>1 DEF Resumed, Welcomed, Admitted
    <3>2. UNCHANGED <<raised, running, connected, ws, watchVars, welcomed>>
      BY <2>1 DEF Resumed, Welcomed, Admitted
    <3>3. QED
      BY <3>1, <3>2
  <2>2. CASE ResumeFails \/ Challenged
    BY <2>2 DEF ResumeFails, Challenged
  <2>3. CASE AuthFails
    <3>1. connected' = FALSE /\ raised' = FALSE
      BY <2>3 DEF AuthFails
    <3>2. UNCHANGED <<running, authenticated, ws, retried, watchVars, welcomed>>
      BY <2>3 DEF AuthFails
    <3>3. QED
      BY <3>1, <3>2
  <2>4. CASE HandshakeBreaks
    BY <2>4 DEF HandshakeBreaks
  <2>5. QED
    BY <1>2, <2>1, <2>2, <2>3, <2>4
<1>3. CASE Serve \/ Beat \/ Expired \/ Answered \/ Handle \/ ServeEnds
  <2>1. CASE Serve
    BY <2>1 DEF Serve
  <2>2. CASE Beat \/ Expired \/ Answered \/ Handle
    <3>1. silent' \in BOOLEAN
      BY <2>2 DEF Beat, Expired, Answered, Handle
    <3>2. UNCHANGED <<raised, flagVars, retried, watching, welcomed>>
      BY <2>2 DEF Beat, Expired, Answered, Handle
    <3>3. QED
      BY <3>1, <3>2
  <2>3. CASE ServeEnds
    <3>1. raised' \in BOOLEAN
      BY <2>3 DEF ServeEnds
    <3>2. watching' = FALSE /\ UNCHANGED <<flagVars, retried, silent, welcomed>>
      BY <2>3 DEF ServeEnds
    <3>3. QED
      BY <3>1, <3>2
  <2>4. QED
    BY <1>3, <2>1, <2>2, <2>3
<1>4. CASE Cleaned \/ Left
  <2>1. CASE Cleaned
    BY <2>1 DEF Cleaned
  <2>2. CASE Left
    BY <2>2 DEF Left, Retry
  <2>3. QED
    BY <1>4, <2>1, <2>2
<1>5. CASE WatchEnds
  BY <1>5 DEF WatchEnds
<1>6. ASSUME NEW c \in Calls, Call(c) PROVE FlagTypeOK'
  BY <1>6 DEF Call, CallSent, CallWaits, CallTimesOut, CallReturns
<1>7. CASE Disconnect
  <2>1. CASE DisconnectBegins
    BY <2>1 DEF DisconnectBegins, Disconnected
  <2>2. CASE DisconnectEnds
    BY <2>2 DEF DisconnectEnds, Disconnected
  <2>3. CASE Cancelled
    BY <2>3 DEF Cancelled
  <2>4. QED
    BY <1>7, <2>1, <2>2, <2>3 DEF Disconnect
<1>8. CASE RelayReads \/ RelaySays \/ RelayForgets \/ ConnectionLost \/ Silence
  <2>1. UNCHANGED <<taskVars, flagVars, tokenVars, watching>>
    BY <1>8 DEF RelayReads, RelaySays, RelayForgets, ConnectionLost, Silence
  <2>2. welcomed' \in BOOLEAN
    BY <1>8 DEF RelayReads, Welcome, RelaySays, RelayForgets, ConnectionLost, Silence
  <2>3. silent' \in BOOLEAN
    BY <1>8 DEF RelayReads, RelaySays, RelayForgets, ConnectionLost, Silence
  <2>4. QED
    BY <2>1, <2>2, <2>3
<1>9. CASE UNCHANGED vars
  BY <1>9 DEF vars
<1>10. QED
  BY <1>1, <1>2, <1>3, <1>4, <1>5, <1>6, <1>7, <1>8, <1>9
  DEF Next, Connect, Environment

LEMMA FlagStep ==
  ASSUME TypeOK, InboxInv, FlagInv, [Next]_vars
  PROVE  FlagInv'
<1> USE DEF FlagInv
<1>1. CASE Connect
  <2>1. CASE Opened \/ OpenFails \/ SleepOver
    BY <1>1, <2>1 DEF Connect, Opened, OpenFails, SleepOver, Retry
  <2>2. CASE Resumed \/ Welcomed
    BY <1>1, <2>2, ArrivesKeeps DEF Connect, Resumed, Welcomed, Admitted
  <2>3. CASE ResumeFails \/ Challenged \/ AuthFails \/ HandshakeBreaks
    BY <1>1, <2>3 DEF Connect, ResumeFails, Challenged, AuthFails, HandshakeBreaks
  <2>4. CASE Serve \/ Beat \/ Expired \/ Answered \/ Handle \/ ServeEnds
    BY <1>1, <2>4 DEF Connect, Serve, Beat, Expired, Answered, Handle, ServeEnds
  <2>5. CASE Cleaned \/ Left
    BY <1>1, <2>5 DEF Connect, Cleaned, Left, Retry
  <2>6. QED
    BY <1>1, <2>1, <2>2, <2>3, <2>4, <2>5 DEF Connect
<1>2. CASE WatchEnds
  BY <1>2 DEF WatchEnds
<1>3. ASSUME NEW c \in Calls, Call(c) PROVE FlagInv'
  BY <1>3 DEF Call, CallSent, CallWaits, CallTimesOut, CallReturns
<1>4. CASE Disconnect
  BY <1>4 DEF Disconnect, DisconnectBegins, DisconnectEnds, Disconnected, Cancelled
<1>5. CASE RelayReads
  BY <1>5 DEF RelayReads, Welcome
<1>6. CASE RelaySays \/ RelayForgets \/ ConnectionLost \/ Silence
  BY <1>6 DEF RelaySays, RelayForgets, ConnectionLost, Silence
<1>7. CASE UNCHANGED vars
  BY <1>7 DEF vars
<1>8. QED
  BY <1>1, <1>2, <1>3, <1>4, <1>5, <1>6, <1>7 DEF Next, Environment

\* One step is enough: an entry is made with its wait, and taken away with it by
\* the answer, the time-out, the end of the connection and disconnect().
LEMMA PendingStep ==
  ASSUME TypeOK, WaitingIsPending, [Next]_vars
  PROVE  WaitingIsPending'
<1> USE DEF TypeOK, StateTypeOK, WaitingIsPending
<1>1. CASE UNCHANGED callVars
  BY <1>1
<1>2. CASE CancelCalls
  BY <1>2
<1>3. CASE Answered
  BY <1>3 DEF Answered
<1>4. ASSUME NEW c \in Calls, Call(c) PROVE WaitingIsPending'
  BY <1>4 DEF Call, CallSent, CallWaits, CallTimesOut, CallReturns
<1>5. QED
  BY <1>1, <1>2, <1>3, <1>4
  DEF Next, Connect, Environment, Opened, OpenFails, SleepOver, Resumed, Welcomed, Admitted,
      ResumeFails, Challenged, AuthFails, HandshakeBreaks, Serve, Beat, Expired, Handle,
      ServeEnds, Cleaned, Left, WatchEnds, Disconnect, DisconnectBegins, DisconnectEnds,
      Disconnected, Cancelled, RelayReads, RelaySays, RelayForgets, ConnectionLost, Silence, vars

LEMMA RelayInvariant == Spec => [](TypeOK /\ InboxInv /\ FlagInv /\ WaitingIsPending)
<1>1. Init => TypeOK /\ InboxInv /\ FlagInv /\ WaitingIsPending
  <2> SUFFICES ASSUME Init PROVE TypeOK /\ InboxInv /\ FlagInv /\ WaitingIsPending
    OBVIOUS
  <2>1. TypeOK
    <3>1. FlagTypeOK
      BY DEF Init, FlagTypeOK
    <3>2. StateTypeOK
      BY DEF Init, StateTypeOK
    <3>3. QED
      BY <3>1, <3>2 DEF TypeOK
  <2>2. InboxInv
    BY DEF Init, InboxInv
  <2>3. FlagInv
    BY DEF Init, FlagInv
  <2>4. WaitingIsPending
    BY DEF Init, WaitingIsPending
  <2>5. QED
    BY <2>1, <2>2, <2>3, <2>4
<1>2. QED
  BY <1>1, InboxStep, StateTypeStep, FlagTypeStep, FlagStep, PendingStep, PTL DEF Spec, TypeOK

\* Every reachable state of the client, its calls and its connection has its type.
THEOREM RelayTypeCorrect == Spec => []TypeOK
  BY RelayInvariant, PTL

\* Nobody who asks `connected` sends on a connection that the relay has not
\* welcomed or that is gone.
THEOREM ReadyCorrect == Spec => []ReadyIsWelcomed
<1>1. TypeOK /\ FlagInv => ReadyIsWelcomed
  BY DEF FlagInv, ReadyIsWelcomed, Ready
<1>2. QED
  BY <1>1, RelayInvariant, PTL

\* Exactly the calls that wait have an entry in _pending_calls.
THEOREM PendingCorrect == Spec => []WaitingIsPending
  BY RelayInvariant, PTL
=============================================================================
