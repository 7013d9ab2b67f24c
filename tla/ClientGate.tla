----------------------------- MODULE ClientGate -----------------------------
(***************************************************************************)
(* How a message gets from Meta to the bot.  Two connections of the Go      *)
(* bridge (MQTT, and whatsmeow for E2EE) put events into one bounded        *)
(* channel; the event loop of client.ts takes them out one by one, and      *)
(* holds messages back until both connections have reported themselves.     *)
(***************************************************************************)
EXTENDS Integers, Sequences

CONSTANTS E2EE,         \* options.enableE2EE
          ChanCap,      \* capacity of eventChan
          EarlySuccess, \* may whatsmeow's success beat AddEventHandler: {FALSE} or BOOLEAN
          MaxMsgs,      \* bound: messages that arrive
          MaxDrops      \* bound: connections lost

ASSUME GateAssumption == /\ E2EE \in BOOLEAN /\ EarlySuccess \subseteq BOOLEAN
                         /\ ChanCap \in Nat /\ MaxMsgs \in Nat /\ MaxDrops \in Nat

VARIABLES mqtt,          \* the LightSpeed socket: "dialing", "up", "dead" (gave up)
          everUp,        \* previouslyConnected
          wa,            \* whatsmeow: "off", "connecting", "up", "down", "failed"
          arrived,       \* messages Meta has sent so far; they are numbered
          drops,         \* connections lost so far
          chan,          \* eventChan
          looping,       \* eventLoopRunning
          socketReady,   \* _socketReady
          e2eeConnected, \* _e2eeConnected
          open,          \* _fullyReadyEmitted
          pending,       \* pendingEvents, as message numbers
          delivered      \* messages emitted to the adapter (history)

goVars   == <<mqtt, everUp, wa, arrived, drops>>
jsVars   == <<looping, socketReady, e2eeConnected, open, pending, delivered>>
gateVars == <<mqtt, everUp, wa, arrived, drops, chan,
              looping, socketReady, e2eeConnected, open, pending, delivered>>

Signals == {"raw", "ready", "reconnected", "error", "fatal", "e2eeConnected", "disconnected"}

Signal(t)  == [type |-> t, n |-> 0]
Message(k) == [type |-> "message", n |-> k]
IsMessage(ev) == ev.type = "message"
Event == {Signal(t) : t \in Signals} \cup {Message(k) : k \in 1 .. MaxMsgs}

GateInit == /\ mqtt = "dialing" /\ everUp = FALSE /\ wa = "off"
            /\ arrived = 0 /\ drops = 0 /\ chan = << >>
            /\ looping = TRUE
            /\ socketReady = FALSE /\ e2eeConnected = FALSE /\ open = FALSE
            /\ pending = << >> /\ delivered = << >>
-----------------------------------------------------------------------------
(* The bridge.  Every event is announced by a raw one; what does not fit into *)
(* the channel is dropped.  The two connections emit from goroutines of their *)
(* own; a raw event changes nothing downstream, so a pair is put in one step. *)

\* Mutant: a full channel makes room by dropping what it holds.
PushOver(q, ev) == IF Len(q) < ChanCap THEN Append(q, ev) ELSE <<ev>>

Push(q, ev) == IF Len(q) < ChanCap THEN Append(q, ev) ELSE q

Emit(ev) == chan' = Push(Push(chan, Signal("raw")), ev)

MqttReady == /\ mqtt = "dialing" /\ mqtt' = "up" /\ everUp' = TRUE
             /\ Emit(Signal(IF everUp THEN "reconnected" ELSE "ready"))
             /\ UNCHANGED <<wa, arrived, drops>>

\* The connection loop dials again, with a backoff.
MqttFails == /\ mqtt \in {"dialing", "up"} /\ drops < MaxDrops
             /\ mqtt' = "dialing" /\ drops' = drops + 1
             /\ Emit(Signal("error"))
             /\ UNCHANGED <<everUp, wa, arrived>>

MqttRefused == /\ mqtt = "dialing" /\ mqtt' = "dead"
               /\ Emit(Signal("fatal"))
               /\ UNCHANGED <<everUp, wa, arrived, drops>>

\* Called once.  The event handler is added after Connect() returned, so the
\* first success may find nobody listening.
ConnectE2EE == /\ E2EE /\ wa = "off"
               /\ \/ wa' = "failed"
                  \/ \E early \in EarlySuccess : wa' = IF early THEN "up" ELSE "connecting"
               /\ UNCHANGED <<mqtt, everUp, arrived, drops, chan>>

WaUp == /\ wa \in {"connecting", "down"} /\ wa' = "up"
        /\ Emit(Signal("e2eeConnected"))
        /\ UNCHANGED <<mqtt, everUp, arrived, drops>>

WaDown == /\ wa = "up" /\ drops < MaxDrops
          /\ wa' = "down" /\ drops' = drops + 1
          /\ Emit(Signal("disconnected"))
          /\ UNCHANGED <<mqtt, everUp, arrived>>

Arrive == /\ mqtt = "up" \/ wa = "up"
          /\ arrived < MaxMsgs /\ arrived' = arrived + 1
          /\ Emit(Message(arrived'))
          /\ UNCHANGED <<mqtt, everUp, wa, drops>>

Bridge == /\ MqttReady \/ MqttFails \/ MqttRefused \/ ConnectE2EE \/ WaUp \/ WaDown \/ Arrive
          /\ UNCHANGED jsVars
-----------------------------------------------------------------------------
(* The event loop of client.ts. *)

\* isFullyReady()
FullyReady(s, e) == s /\ (E2EE => e)

\* Mutant: the queue is flushed but not emptied.
CheckKeepingPending(s, e) ==
    IF FullyReady(s, e) /\ ~ open
    THEN open' = TRUE /\ delivered' = delivered \o pending /\ UNCHANGED pending
    ELSE UNCHANGED <<open, pending, delivered>>

\* checkFullyReady(): the gate opens once, and what was queued goes out first.
CheckFullyReady(s, e) ==
    IF FullyReady(s, e) /\ ~ open
    THEN open' = TRUE /\ delivered' = delivered \o pending /\ pending' = << >>
    ELSE UNCHANGED <<open, pending, delivered>>

Reset == /\ socketReady' = FALSE /\ e2eeConnected' = FALSE /\ open' = FALSE
         /\ pending' = << >>

\* Mutant: the socket alone lets messages through.
HandleMessageOnSocket(k) ==
    /\ IF socketReady THEN delivered' = Append(delivered, k) /\ UNCHANGED pending
                      ELSE pending' = Append(pending, k) /\ UNCHANGED delivered
    /\ UNCHANGED <<looping, socketReady, e2eeConnected, open>>

HandleMessage(k) ==
    /\ IF open THEN delivered' = Append(delivered, k) /\ UNCHANGED pending
               ELSE pending' = Append(pending, k) /\ UNCHANGED delivered
    /\ UNCHANGED <<looping, socketReady, e2eeConnected, open>>

\* Mutant: a reconnected socket starts a new session and empties the queue.
HandleSignalEager(t) ==
    \/ /\ t = "ready" /\ socketReady' = TRUE
       /\ CheckFullyReady(TRUE, e2eeConnected)
       /\ UNCHANGED <<looping, e2eeConnected>>
    \/ /\ t = "e2eeConnected" /\ e2eeConnected' = TRUE
       /\ CheckFullyReady(socketReady, TRUE)
       /\ UNCHANGED <<looping, socketReady>>
    \/ /\ t \in {"disconnected", "reconnected"}
       /\ Reset
       /\ UNCHANGED <<looping, delivered>>
    \/ /\ t = "fatal"
       /\ Reset /\ looping' = FALSE
       /\ UNCHANGED delivered
    \/ /\ t \in {"raw", "error"}
       /\ UNCHANGED jsVars

\* Mutant: the gate is checked before the new connection is noted.
HandleSignalCheckFirst(t) ==
    \/ /\ t = "ready" /\ socketReady' = TRUE
       /\ CheckFullyReady(socketReady, e2eeConnected)
       /\ UNCHANGED <<looping, e2eeConnected>>
    \/ /\ t = "e2eeConnected" /\ e2eeConnected' = TRUE
       /\ CheckFullyReady(socketReady, e2eeConnected)
       /\ UNCHANGED <<looping, socketReady>>
    \/ /\ t = "disconnected"
       /\ Reset
       /\ UNCHANGED <<looping, delivered>>
    \/ /\ t = "fatal"
       /\ Reset /\ looping' = FALSE
       /\ UNCHANGED delivered
    \/ /\ t \in {"raw", "reconnected", "error"}
       /\ UNCHANGED jsVars

\* "reconnected" changes nothing here: only "ready" sets socketReady, and the
\* bridge sends that once in its life.
HandleSignal(t) ==
    \/ /\ t = "ready" /\ socketReady' = TRUE
       /\ CheckFullyReady(TRUE, e2eeConnected)
       /\ UNCHANGED <<looping, e2eeConnected>>
    \/ /\ t = "e2eeConnected" /\ e2eeConnected' = TRUE
       /\ CheckFullyReady(socketReady, TRUE)
       /\ UNCHANGED <<looping, socketReady>>
    \/ /\ t = "disconnected"
       /\ Reset
       /\ UNCHANGED <<looping, delivered>>
    \/ /\ t = "fatal"
       /\ Reset /\ looping' = FALSE
       /\ UNCHANGED delivered
    \/ /\ t \in {"raw", "reconnected", "error"}
       /\ UNCHANGED jsVars

HandleEvent == /\ looping /\ chan # << >>
               /\ chan' = Tail(chan)
               /\ IF IsMessage(Head(chan)) THEN HandleMessage(Head(chan).n)
                                           ELSE HandleSignal(Head(chan).type)
               /\ UNCHANGED goVars

\* disconnect(): the loop stops, and what it has not handled stays where it is.
Disconnect == /\ looping /\ looping' = FALSE
              /\ UNCHANGED <<mqtt, everUp, wa, arrived, drops, chan,
                             socketReady, e2eeConnected, open, pending, delivered>>

GateNext == Bridge \/ HandleEvent \/ Disconnect

GateSpec == GateInit /\ [][GateNext]_gateVars

\* The loop polls for ever; connections that are down are dialled again.
GateFairSpec == GateSpec /\ WF_gateVars(HandleEvent)
                /\ WF_gateVars(MqttReady /\ UNCHANGED jsVars)
                /\ WF_gateVars(ConnectE2EE /\ UNCHANGED jsVars)
                /\ WF_gateVars(WaUp /\ UNCHANGED jsVars)
-----------------------------------------------------------------------------
GateTypeOK == /\ mqtt \in {"dialing", "up", "dead"} /\ everUp \in BOOLEAN
              /\ wa \in {"off", "connecting", "up", "down", "failed"}
              /\ arrived \in 0 .. MaxMsgs /\ drops \in 0 .. MaxDrops
              /\ chan \in Seq(Event)
              /\ looping \in BOOLEAN /\ socketReady \in BOOLEAN
              /\ e2eeConnected \in BOOLEAN /\ open \in BOOLEAN
              /\ pending \in Seq(1 .. MaxMsgs) /\ delivered \in Seq(1 .. MaxMsgs)

\* The gate: it is open only while both connections are known to be ready, and
\* nothing waits behind an open gate.
GateConsistent == open => FullyReady(socketReady, e2eeConnected) /\ pending = << >>

\* From the channel through the queue to the bot no message is doubled or passes
\* another, whatever connects and disconnects in between.
Ascending(q) == \A i, j \in DOMAIN q : i < j => q[i] < q[j]

ChanAscending ==
    \A i, j \in DOMAIN chan : (i < j /\ IsMessage(chan[i]) /\ IsMessage(chan[j]))
                                  => chan[i].n < chan[j].n

InOrder ==
    /\ Ascending(delivered) /\ Ascending(pending) /\ ChanAscending
    /\ \A i \in DOMAIN delivered, j \in DOMAIN pending : delivered[i] < pending[j]
    /\ \A j \in DOMAIN chan : IsMessage(chan[j]) =>
          /\ chan[j].n <= arrived
          /\ \A i \in DOMAIN delivered : delivered[i] < chan[j].n
          /\ \A i \in DOMAIN pending : pending[i] < chan[j].n
    /\ \A i \in DOMAIN delivered : delivered[i] <= arrived
    /\ \A i \in DOMAIN pending : pending[i] <= arrived

GateInv == GateTypeOK /\ GateConsistent /\ InOrder

\* A message that made it into the channel is lost in one place only: the queue
\* that a disconnect or a permanent error throws away.
OnTheWay == {k \in 1 .. MaxMsgs : \/ Message(k) \in {chan[i] : i \in DOMAIN chan}
                                  \/ k \in {pending[i] : i \in DOMAIN pending}
                                  \/ k \in {delivered[i] : i \in DOMAIN delivered}}

LostOnlyOnDisconnect ==
    [][~ (OnTheWay \subseteq OnTheWay') => Head(chan).type \in {"disconnected", "fatal"}]_gateVars

\* An event that comes now does not fit into the channel, with its raw event.
AtBrim == Len(chan) + 2 > ChanCap

\* whatsmeow reported its success before the bridge listened.
SuccessMissed == /\ TRUE \in EarlySuccess /\ wa = "up" /\ ~ e2eeConnected
                 /\ \A i \in DOMAIN chan : chan[i] # Signal("e2eeConnected")

\* The bot gets its messages in the end: the gate opens, unless a connection gives up,
\* E2EE is lost or missed before that, or the channel has no room.
ComesReady == <>(\/ open \/ ~ looping \/ mqtt = "dead" \/ wa \in {"down", "failed"}
                 \/ AtBrim \/ SuccessMissed)
-----------------------------------------------------------------------------
(* What the package's documentation says, and the code does not do. *)

\* DOCS.md, event fullyReady: emitted when the client is fully ready (socket and
\* E2EE if enabled), so that it does not stay away while both are up.
ReadyWhenBothUp ==
    (<>[](mqtt = "up" /\ (E2EE => wa = "up") /\ looping)) => <>[]open
=============================================================================
