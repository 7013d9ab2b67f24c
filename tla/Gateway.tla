------------------------------- MODULE Gateway -------------------------------
(***************************************************************************)
(* The socket from which Instagram's typing notices come (pkg/messagix/dgw,  *)
(* and connectDGW of client.go).  Five goroutines work around readLoop: one  *)
(* reads, one writes, one handles what was read, one pings, and one watches  *)
(* for the pongs.  Two channels without room connect them, and whoever sends *)
(* on one waits until it is taken.  The first fatal error closes `done` and  *)
(* the connection, and readLoop returns when all five have ended.            *)
(***************************************************************************)
EXTENDS Naturals, Sequences, SequencesExt

CONSTANTS
    MaxDials,       \* bound: connections that come about
    MaxUnasked      \* bound: messages the server sends without being asked

GatewayAssumption == MaxDials \in Nat /\ MaxUnasked \in Nat
ASSUME GatewayAssumption

VARIABLES
    dgw,        \* connectDGW: "off", "dial", "reading", "backoff", "over"
    dials,      \* connections so far
    stopping,   \* the context of the connections is cancelled
    link,       \* the websocket: "open", "broken" from afar, "closed" from here
    dumb,       \* the server says nothing any more, and the link stays open
    wire,       \* messages on their way here, of frames
    unasked,    \* of them, those the server was not asked for
    main,       \* readLoop itself
    copier,     \* the reader: [pc, rest], with what it has not handed on yet
    sender,     \* the writer: "wait", "gone", or the frame it is about to write
    handler,    \* the goroutine that handles frames: "wait", "ack", "gone"
    pinger,     \* "wait", "ping", "late", "gone"
    watch,      \* who waits for pongTimeoutTimer: "on", "gone"
    silence,    \* intervals of PingInterval since the last pong
    opened,     \* ackSubscription
    acked,      \* ackParameters
    done,       \* the channel `done` is closed
    cause,      \* the error that is stored
    swallowed   \* a pong went with a frame nobody knows (history)

roundVars   == <<main, copier, sender, handler, pinger, watch, silence, opened, acked, done, cause, swallowed>>
gatewayVars == <<dgw, dials, stopping, link, dumb, wire, unasked, roundVars>>

-----------------------------------------------------------------------------
(* fatalError: the first one counts.                                         *)
Fatal(e) == /\ done' = TRUE
            /\ cause' = IF done THEN cause ELSE e
            /\ link' = IF done THEN link ELSE "closed"

NoFatal == UNCHANGED <<done, cause, link>>

Around == UNCHANGED <<dgw, dials, stopping, dumb, unasked>>

(* Reading.  A frame that is too short takes the rest of its message with    *)
(* it, and so does one of a kind nobody knows.  A text message, and a frame  *)
(* whose JSON cannot be read, are tried again for ever.                      *)
Copying(rest) == [pc |-> IF rest = << >> THEN "read" ELSE "hand", rest |-> rest]

ReadMessage ==
    /\ copier.pc = "read" /\ link = "open" /\ wire # << >>
    /\ copier' = Copying(Head(wire)) /\ wire' = Tail(wire)
    /\ UNCHANGED <<main, sender, handler, pinger, watch, silence, opened, acked, swallowed>>
    /\ NoFatal /\ Around

ReadFails ==
    /\ copier.pc = "read" /\ link # "open"
    /\ copier' = [copier EXCEPT !.pc = "gone"] /\ Fatal("error")
    /\ UNCHANGED <<wire, main, sender, handler, pinger, watch, silence, opened, acked, swallowed>> /\ Around

Unmarshal ==
    /\ copier.pc = "hand"
    /\ \/ Head(copier.rest) = "short" /\ copier' = Copying(<< >>)
       \/ Head(copier.rest) \in {"text", "garbled"} /\ copier' = [copier EXCEPT !.pc = "spin"]
    /\ UNCHANGED <<wire, main, sender, handler, pinger, watch, silence, opened, acked, swallowed>>
    /\ NoFatal /\ Around

(* incoming <- frame, when the handler is ready for it.                      *)
Known == {"pong", "opened", "refused", "odd", "acked", "notice", "news", "strange"}
HandleFrame ==
    /\ copier.pc = "hand" /\ Head(copier.rest) \in Known /\ handler = "wait"
    /\ LET frame == Head(copier.rest)
       IN  /\ copier' = Copying(IF frame = "strange" THEN << >> ELSE Tail(copier.rest))
           /\ swallowed' = (swallowed \/ (frame = "strange" /\ "pong" \in ToSet(copier.rest)))
           /\ silence' = IF frame = "pong" THEN 0 ELSE silence
           /\ opened' = (opened \/ frame = "opened")
           /\ acked' = (acked \/ frame = "acked")
           /\ handler' = IF frame = "notice" THEN "ack" ELSE handler
           /\ IF frame = "refused" THEN Fatal("error") ELSE NoFatal
    /\ UNCHANGED <<wire, main, sender, pinger, watch>> /\ Around

HandlerEnds ==
    /\ handler = "wait" /\ copier.pc = "gone"
    /\ handler' = "gone"
    /\ UNCHANGED <<wire, main, copier, sender, pinger, watch, silence, opened, acked, swallowed>>
    /\ NoFatal /\ Around

-----------------------------------------------------------------------------
(* Writing.  outgoing <- frame: the subscription, its parameters, a ping, or *)
(* the ack of a notice.                                                      *)
Offered == (IF main \in {"open", "parameters"} THEN {main} ELSE {})
           \cup (IF handler = "ack" THEN {"ack"} ELSE {}) \cup (IF pinger \in {"ping", "late"} THEN {"ping"} ELSE {})

TakeFrame ==
    /\ sender = "wait"
    /\ \E frame \in Offered :
         /\ sender' = frame
         /\ main' = CASE frame = "open" -> "awaitOpened" [] frame = "parameters" -> "awaitAcked" [] OTHER -> main
         /\ handler' = IF frame = "ack" THEN "wait" ELSE handler
         /\ pinger' = IF frame # "ping" THEN pinger ELSE IF pinger = "late" THEN "gone" ELSE "wait"
    /\ UNCHANGED <<wire, copier, watch, silence, opened, acked, swallowed>> /\ NoFatal /\ Around

(* What the server answers, if it does.                                      *)
Answers(frame) == CASE frame = "open" -> {<<"opened">>, <<"refused">>, <<"odd">>, <<"garbled">>}
                    [] frame = "parameters" -> {<<"acked">>, <<"odd">>, <<"news", "acked">>}
                    [] frame = "ping" -> {<<"pong">>, <<"strange", "pong">>}
                    [] OTHER -> {}

(* Nobody may notice that the connection is broken when something is written.*)
WriteFrame ==
    /\ sender \notin {"wait", "gone"}
    /\ sender' = "wait"
    /\ \/ /\ link = "open" /\ ~ dumb /\ Answers(sender) # {}
          /\ \E answer \in Answers(sender) : wire' = Append(wire, answer)
          /\ NoFatal
       \/ link = "open" /\ (dumb \/ Answers(sender) = {}) /\ UNCHANGED wire /\ NoFatal
       \/ link = "broken" /\ UNCHANGED wire /\ NoFatal
       \/ link # "open" /\ UNCHANGED wire /\ Fatal("error")
    /\ UNCHANGED <<main, copier, handler, pinger, watch, silence, opened, acked, swallowed>> /\ Around

SenderLeaves ==
    /\ sender = "wait" /\ done
    /\ sender' = "gone"
    /\ UNCHANGED <<wire, main, copier, handler, pinger, watch, silence, opened, acked, swallowed>>
    /\ NoFatal /\ Around

-----------------------------------------------------------------------------
(* Time.  Frames are quick: an interval of 15 s passes when nothing is under *)
(* way.  At its end comes a ping, and with the second in a row without a     *)
(* pong, the timeout.                                                        *)
UnderWay == \/ copier.pc = "read" /\ (wire # << >> \/ link # "open")
            \/ copier.pc = "hand" /\ handler = "wait"
            \/ sender \notin {"wait", "gone"}
            \/ sender = "wait" /\ Offered # {}

Interval ==
    /\ main = "serving" /\ ~ done /\ ~ UnderWay /\ silence < 2
    /\ pinger' = "ping" /\ silence' = silence + 1
    /\ UNCHANGED <<wire, main, copier, sender, handler, watch, opened, acked, swallowed>> /\ NoFatal /\ Around

(* An interval may end just when all is over: the select of the pinger takes *)
(* either.                                                                   *)
PingerLeaves ==
    /\ pinger = "wait" /\ done
    /\ pinger' \in {"gone", "late"}
    /\ UNCHANGED <<wire, main, copier, sender, handler, watch, silence, opened, acked, swallowed>>
    /\ NoFatal /\ Around

(* A plausible slip: the silence is noticed, and no more than that.          *)
WatchOnlyWarns ==
    /\ watch = "on" /\ watch' = "gone" /\ (silence = 2 \/ done)
    /\ UNCHANGED <<wire, main, copier, sender, handler, pinger, silence, opened, acked, swallowed>>
    /\ NoFatal /\ Around

Watch ==
    /\ watch = "on" /\ watch' = "gone"
    /\ \/ silence = 2 /\ Fatal("pong timeout")
       \/ done /\ NoFatal
    /\ UNCHANGED <<wire, main, copier, sender, handler, pinger, silence, opened, acked, swallowed>> /\ Around

-----------------------------------------------------------------------------
(* readLoop: the handshake, and then the wait for an error or for the end.   *)
(* While an ack is awaited, for 5 seconds at most, `done` is not looked at.  *)
MainGoes(to) == /\ main' = to
                /\ UNCHANGED <<wire, copier, sender, handler, pinger, watch, silence, opened, acked, swallowed>>
                /\ Around

Await == \/ main = "awaitOpened" /\ opened /\ MainGoes("parameters") /\ NoFatal
         \/ main = "awaitAcked" /\ acked /\ MainGoes("serving") /\ NoFatal

AwaitEnds == /\ \/ main = "awaitOpened" /\ (~ opened \/ stopping)
                \/ main = "awaitAcked" /\ (~ acked \/ stopping)
             /\ stopping \/ ~ UnderWay
             /\ MainGoes("joining") /\ Fatal("error")

Serve == /\ main = "serving"
         /\ \/ done /\ NoFatal
            \/ stopping /\ Fatal("error")
         /\ MainGoes("joining")

AllGone == copier.pc = "gone" /\ sender = "gone" /\ handler = "gone" /\ pinger = "gone" /\ watch = "gone"

Join == main = "joining" /\ AllGone /\ MainGoes("back") /\ NoFatal

-----------------------------------------------------------------------------
(* connectDGW, with a socket of its own for every round.                     *)
Round(pc) == /\ main' = pc /\ copier' = [pc |-> "read", rest |-> << >>]
             /\ sender' = "wait" /\ handler' = "wait" /\ pinger' = "wait" /\ watch' = "on"
             /\ silence' = 0 /\ opened' = FALSE /\ acked' = FALSE
             /\ done' = FALSE /\ cause' = "none" /\ swallowed' = FALSE
             /\ wire' = << >> /\ dumb' = FALSE

DgwGoes(to) == dgw' = to /\ UNCHANGED <<stopping, unasked>>

Enter == /\ dgw = "off" /\ DgwGoes("dial")
         /\ UNCHANGED <<dials, link, dumb, wire, roundVars>>

DialDgw == /\ dgw = "dial"
           /\ \/ /\ ~ stopping /\ dials < MaxDials /\ dials' = dials + 1
                 /\ DgwGoes("reading") /\ link' = "open" /\ Round("open")
              \/ /\ DgwGoes(IF stopping THEN "over" ELSE "backoff")
                 /\ UNCHANGED <<dials, link, dumb, wire, roundVars>>

Return == /\ dgw = "reading" /\ main = "back"
          /\ DgwGoes(IF stopping THEN "over" ELSE "backoff")
          /\ link' = "closed" /\ Round("off") /\ UNCHANGED dials

RestDgw == /\ dgw = "backoff"
           /\ DgwGoes(IF stopping THEN "over" ELSE "dial")
           /\ UNCHANGED <<dials, link, dumb, wire, roundVars>>

-----------------------------------------------------------------------------
(* The world: what comes unasked, a server that falls silent, connections    *)
(* that break, ForceReconnect, which closes the connection under readLoop,   *)
(* and Disconnect, which cancels the context as well.                        *)
Unasked == {<<"notice">>, <<"news", "notice">>, <<"short", "news">>, <<"strange", "news">>, <<"text">>}

Speak == /\ dgw = "reading" /\ link = "open" /\ ~ dumb /\ unasked < MaxUnasked
         /\ unasked' = unasked + 1 /\ \E message \in Unasked : wire' = Append(wire, message)
         /\ UNCHANGED <<dgw, dials, stopping, link, dumb, roundVars>>

FallSilent == /\ dgw = "reading" /\ link = "open" /\ ~ dumb /\ dumb' = TRUE
              /\ UNCHANGED <<dgw, dials, stopping, link, wire, unasked, roundVars>>

Cut == /\ dgw = "reading" /\ link = "open" /\ link' \in {"broken", "closed"} /\ wire' = << >>
       /\ UNCHANGED <<dgw, dials, stopping, dumb, unasked, roundVars>>

Leave == /\ dgw # "off" /\ ~ stopping /\ stopping' = TRUE
         /\ link' = (IF dgw = "reading" THEN "closed" ELSE link) /\ wire' = << >>
         /\ UNCHANGED <<dgw, dials, dumb, unasked, roundVars>>

GatewayInit ==
    /\ dgw = "off" /\ dials = 0 /\ stopping = FALSE /\ link = "closed" /\ dumb = FALSE
    /\ wire = << >> /\ unasked = 0
    /\ main = "off" /\ copier = [pc |-> "read", rest |-> << >>]
    /\ sender = "wait" /\ handler = "wait" /\ pinger = "wait" /\ watch = "on"
    /\ silence = 0 /\ opened = FALSE /\ acked = FALSE
    /\ done = FALSE /\ cause = "none" /\ swallowed = FALSE

Goroutines == /\ dgw = "reading"
              /\ \/ ReadMessage \/ ReadFails \/ Unmarshal \/ HandleFrame \/ HandlerEnds
                 \/ TakeFrame \/ WriteFrame \/ SenderLeaves \/ Interval \/ PingerLeaves \/ Watch
                 \/ Await \/ AwaitEnds \/ Serve \/ Join
Loop == DialDgw \/ Return \/ RestDgw

GatewayNext == Goroutines \/ Loop \/ Enter \/ Speak \/ FallSilent \/ Cut \/ Leave

(* Goroutines go on when they can, and time passes.  What they do in one     *)
(* interval comes to an end, so that none of them is kept waiting by others. *)
GatewayFairness == WF_gatewayVars(Goroutines \/ Loop)

GatewaySpec == GatewayInit /\ [][GatewayNext]_gatewayVars /\ GatewayFairness

-----------------------------------------------------------------------------
(* Whoever offers a frame when the writer has left waits for ever (outgoing  *)
(* has no room, and the offers look at nothing else).                        *)
Forsaken == dgw = "reading" /\ sender = "gone" /\ Offered # {}
Spinning == copier.pc = "spin"

(* readLoop returns with an error, over a connection that is closed, and     *)
(* leaves nobody behind; it serves only when both frames of the handshake    *)
(* were acknowledged; and the watch ends no connection whose server answers  *)
(* every ping, unless a pong was lost behind an unknown frame.               *)
RoundSound ==
    /\ main = "back" => AllGone /\ done /\ link = "closed"
    /\ done => cause # "none"
    /\ main = "serving" => opened /\ acked
    /\ cause = "pong timeout" => dumb \/ Spinning \/ swallowed

(* A connection that is lost, by whatever end, is dialled again, and a       *)
(* client that disconnects comes to rest; unless a goroutine offers a frame  *)
(* that nobody will take, or the reader turns in circles (connectDGW,        *)
(* readLoop).                                                                *)
Lost == dgw = "reading" /\ (done \/ dumb \/ link # "open")
GatewayEnds ==
    /\ []RoundSound
    /\ (Lost \/ stopping) ~> (Forsaken \/ Spinning \/ dgw = "over" \/ (dgw # "reading" /\ ~ stopping))
=============================================================================
