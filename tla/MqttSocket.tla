----------------------------- MODULE MqttSocket -----------------------------
(***************************************************************************)
(* The MQTT connection to Meta: the connection loop of messagix, which dials *)
(* again for ever; per connection a read loop, a bounded queue and a worker  *)
(* that handles the queue; and the callers' requests, matched to their       *)
(* acknowledgements and responses by packet id through two maps of channels. *)
(* The worker is a caller too: it makes the requests of the handshake, whose *)
(* answers the read loop has to deliver.                                     *)
(***************************************************************************)
EXTENDS Integers, Sequences, FiniteSets

CONSTANTS App,          \* goroutines of the bridge that make requests
          Worker,       \* the goroutine that handles the queue
          IdMod,        \* packet ids are below it (65536 in the code)
          QueueCap,     \* capacity of wsQueue (32 in the code)
          MaxBadLogins  \* refusals for a bad user name that are put up with (5 in the code)

ASSUME SocketAssumption == /\ Worker \notin App
                           /\ IdMod \in Nat /\ IdMod > 1
                           /\ QueueCap \in Nat \ {0}
                           /\ MaxBadLogins \in Nat

VARIABLES loop,       \* the goroutine of Client.Connect, by where it stands
          conn,       \* s.conn: "nil", "open", or "dead": it gives no frame any more
          err,        \* closeErr, or why the connection did not come up
          attempts,   \* connectionAttempts
          stop,       \* the context is cancelled
          canSend,    \* canSendMessages
          everUp,     \* previouslyConnected
          greeted,    \* the server has answered the connect packet
          packetsSent,
          req,        \* per caller: its request and the two channels of it
          reader,     \* what the read loop holds
          queue,      \* wsQueue
          worker,     \* "idle", "ready", "busy" (waits for its request), "gone"
          step,       \* the step of the handshake the worker is at
          answered,   \* the worker's last request did not fail
          mistaken,   \* an event was taken for a response (history)
          lapsed,     \* the answer in the hands of the read loop is for a request given up
          crashed     \* a send on a closed channel: the process is gone

loopVars   == <<loop, attempts, stop>>
connVars   == <<conn, err, greeted>>
reqVars    == <<packetsSent, req, lapsed, answered, mistaken>>
workVars   == <<canSend, everUp, queue, worker, step>>
socketVars == <<loop, attempts, stop, conn, err, greeted, packetsSent, req, lapsed,
                answered, mistaken, canSend, everUp, queue, worker, step, reader, crashed>>

Callers == App \cup {Worker}

\* A request as its caller knows it.  A channel is "none" when it is in no map,
\* "closed" when CancelAllRequests closed it, and else holds what was put in.
NoRequest == [pc |-> "idle", kind |-> "none", id |-> 0, ack |-> "none", resp |-> "none"]
Kinds == {"subscribe", "publish", "call"}
Reading == [k |-> "read", id |-> 0, val |-> "none"]

\* The steps of the handshake: the app settings are published, two topics
\* subscribed to, and threads, app state and sync requested.  0: none to do.
Settings == 1
Responses == 3
Sync == 6
KindOf(i) == CASE i = Settings -> "publish"
               [] i \in {2, Responses} -> "subscribe"
               [] OTHER -> "call"

Init == /\ loop = "idle" /\ attempts = 1 /\ stop = FALSE
        /\ conn = "nil" /\ err = "none" /\ greeted = FALSE
        /\ packetsSent = 0 /\ req = [r \in Callers |-> NoRequest]
        /\ lapsed = FALSE /\ answered = FALSE /\ mistaken = FALSE
        /\ canSend = FALSE /\ everUp = FALSE
        /\ queue = << >> /\ worker = "gone" /\ step = 0
        /\ reader = Reading /\ crashed = FALSE
-----------------------------------------------------------------------------
(* Requests. *)

InUse == {req[r].id : r \in Callers} \cup {reader.id}

\* The first of the ids after packetsSent that may be handed out.
FirstAfter(excluded) ==
    LET Nth(k) == (packetsSent + k) % IdMod
        free   == {k \in 1 .. IdMod : Nth(k) \notin excluded}
    IN {Nth(k) : k \in {j \in free : \A i \in free : j <= i}}

\* Mutant: the counter wraps to 0.
WrappingPacketID == FirstAfter(InUse \ {0})

\* A counter of 16 bits that leaves 0 out, and nothing else.  That it also passes
\* over the ids of requests under way is an assumption on the load: in the thirty
\* seconds a request lives, 65535 others are not made.
SafePacketID == FirstAfter(InUse \cup {0})

\* newPublishRequest, newSubscribeRequest: the channels are there before the
\* packet is sent.
Make(r, kind) ==
    \E id \in SafePacketID :
       /\ packetsSent' = id
       /\ req' = [req EXCEPT ![r] = [pc |-> "made", kind |-> kind, id |-> id, ack |-> "open",
                     resp |-> IF kind = "subscribe" THEN "none" ELSE "open"]]
       /\ UNCHANGED <<lapsed, answered, mistaken>>

\* A request is over.
Over(r, ok) == /\ req' = [req EXCEPT ![r] = NoRequest]
               /\ answered' = IF r = Worker THEN ok ELSE answered

\* WaitUntilCanSendMessages, which a text message goes through and nothing else.
StartWaiting(r) == /\ req[r].pc = "idle"
                   /\ req' = [req EXCEPT ![r].pc = "waiting"]
                   /\ UNCHANGED <<packetsSent, lapsed, answered, mistaken>>

StopWaiting(r) == /\ req[r].pc = "waiting"
                  /\ \/ canSend /\ Make(r, "call")
                     \/ Over(r, FALSE) /\ UNCHANGED <<packetsSent, lapsed, mistaken>>

\* Everything else asks at once; a stateless task waits for no response.
AskAtOnce(r) == req[r].pc = "idle" /\ \E kind \in {"publish", "call"} : Make(r, kind)

\* sendData.  A broken connection may be noticed here, or not yet.
Send(r) ==
    /\ req[r].pc = "made"
    /\ \/ conn # "nil" /\ req' = [req EXCEPT ![r].pc = "ack"] /\ UNCHANGED answered
       \/ conn # "open" /\ Over(r, FALSE)
    /\ UNCHANGED <<packetsSent, lapsed, mistaken>>

\* waitForDetails: the acknowledgement, and for a call then the response.  The
\* request channel of a publish stays in the map; nothing is ever put into it.
TakeAck(r) ==
    /\ req[r].pc = "ack" /\ req[r].ack = "own"
    /\ IF req[r].kind = "call"
       THEN req' = [req EXCEPT ![r].pc = "resp", ![r].ack = "none"] /\ UNCHANGED answered
       ELSE Over(r, TRUE)
    /\ UNCHANGED <<packetsSent, lapsed, mistaken>>

TakeResponse(r) ==
    /\ req[r].pc = "resp" /\ req[r].resp \in {"own", "event"}
    /\ Over(r, TRUE)
    /\ mistaken' = (mistaken \/ req[r].resp = "event")
    /\ UNCHANGED <<packetsSent, lapsed>>

\* ErrConnectionClosed, ErrChannelNotFound.
FindClosed(r) ==
    /\ \/ req[r].pc = "ack" /\ req[r].ack = "closed"
       \/ req[r].pc = "resp" /\ req[r].resp = "closed"
    /\ Over(r, FALSE)
    /\ UNCHANGED <<packetsSent, lapsed, mistaken>>

\* Mutant: the wait has no end of its own.
NeverGivesUp(r) == FALSE /\ UNCHANGED reqVars

\* Thirty seconds are over, or the context is cancelled: the channels are closed
\* and deleted.  An answer that is read later finds no channel and is dropped.
GiveUp(r) ==
    /\ req[r].pc \in {"ack", "resp"}
    /\ Over(r, FALSE)
    /\ lapsed' = (lapsed \/ (reader.k \in {"ack", "resp"} /\ reader.id = req[r].id))
    /\ UNCHANGED <<packetsSent, mistaken>>

Settle(r) == TakeAck(r) \/ TakeResponse(r) \/ FindClosed(r) \/ GiveUp(r)

othersVars == <<loopVars, connVars, workVars, reader, crashed>>

Ask(r)     == (StartWaiting(r) \/ AskAtOnce(r)) /\ UNCHANGED othersVars
Proceed(r) == /\ Send(r) \/ Settle(r) \/ (r \in App /\ StopWaiting(r))
              /\ UNCHANGED othersVars
-----------------------------------------------------------------------------
(* The read loop.  A frame is looked up in the maps under their lock, and put *)
(* into the channel it names after the lock is given back.                    *)

Holders(what, id) == {r \in Callers : req[r].id = id /\ req[r][what] = "open"}
Registered(what, id) == \E r \in Callers : req[r].id = id /\ req[r][what] \notin {"none", "closed"}

CanRead == loop = "reading" /\ reader.k = "read" /\ conn = "open"

ReadGreeting == /\ CanRead /\ ~ greeted /\ greeted' = TRUE
                /\ \/ /\ reader' = [k |-> "queue", id |-> 0, val |-> "ready"]
                      /\ UNCHANGED <<conn, err>>
                   \/ /\ err' \in {"loop", "unauthorized", "badlogin"}
                      /\ conn' = "dead" /\ UNCHANGED reader

\* Every request is acknowledged once, and a call answered once, or never.
ReadAnswer == /\ CanRead /\ greeted
              /\ \E r \in Callers : \E what \in {"ack", "resp"} :
                    /\ req[r].pc \in {"ack", "resp"} /\ req[r][what] = "open"
                    /\ what = "resp" => req[r].kind = "call"
                    /\ reader' = [k |-> what, id |-> req[r].id, val |-> "own"]
              /\ UNCHANGED <<conn, err, greeted>>

\* An event has the request id 0.
ReadEvent == /\ CanRead /\ greeted
             /\ reader' = IF Registered("resp", 0) THEN [k |-> "resp", id |-> 0, val |-> "event"]
                          ELSE [k |-> "queue", id |-> 0, val |-> "event"]
             /\ UNCHANGED <<conn, err, greeted>>

\* The channel may be closed by now, and then the send panics.
Put == /\ reader.k \in {"ack", "resp"}
       /\ IF Registered(reader.k, reader.id)
          THEN /\ req' = [r \in Callers |->
                            IF r \in Holders(reader.k, reader.id)
                            THEN [req[r] EXCEPT ![reader.k] = reader.val] ELSE req[r]]
               /\ reader' = Reading /\ UNCHANGED crashed
          ELSE crashed' = TRUE /\ UNCHANGED <<req, reader>>

Enqueue == /\ reader.k = "queue" /\ Len(queue) < QueueCap
           /\ queue' = Append(queue, reader.val) /\ reader' = Reading

Reader == \/ /\ ReadGreeting \/ ReadAnswer \/ ReadEvent
             /\ UNCHANGED <<loopVars, reqVars, workVars, crashed>>
          \/ /\ Put
             /\ UNCHANGED <<loopVars, connVars, packetsSent, lapsed, answered, mistaken, workVars>>
          \/ /\ Enqueue
             /\ UNCHANGED <<loopVars, connVars, reqVars, canSend, everUp, worker, step, crashed>>
-----------------------------------------------------------------------------
(* The worker. *)

\* Mutant: the queue is not closed.
WorkerStays == /\ worker = "idle" /\ queue # << >> /\ stop
               /\ worker' = "gone"
               /\ UNCHANGED <<canSend, everUp, queue, step, connVars, reqVars>>

\* After a cancel it leaves, whatever the queue holds.
WorkerLeaves == /\ worker = "idle"
                /\ \/ queue = << >> /\ loop = "ending"
                   \/ queue # << >> /\ stop
                /\ worker' = "gone"
                /\ UNCHANGED <<canSend, everUp, queue, step, connVars, reqVars>>

\* An event goes to the bridge; the answer to the connect packet starts the
\* handshake, or a mere resynchronisation when an earlier one was completed.
WorkerTakes ==
    /\ worker = "idle" /\ queue # << >> /\ ~ stop
    /\ queue' = Tail(queue)
    /\ IF Head(queue) = "event" THEN UNCHANGED <<canSend, worker, step>>
       ELSE /\ worker' = "ready"
            /\ canSend' = (canSend \/ everUp)
            /\ step' = IF everUp THEN Sync ELSE Settings
    /\ UNCHANGED <<everUp, connVars, reqVars>>

WorkerAsks == /\ worker = "ready" /\ Make(Worker, KindOf(step))
              /\ worker' = "busy"
              /\ UNCHANGED <<canSend, everUp, queue, step, connVars>>

\* A failure of the synchronisation is only logged; of anything else, it ends
\* the connection.  The last step is followed by "ready" or "reconnected".
WorkerGoesOn ==
    /\ worker = "busy" /\ req[Worker].pc = "idle"
    /\ IF answered \/ step = Sync
       THEN /\ step' = IF step = Sync THEN 0 ELSE step + 1
            /\ worker' = IF step = Sync THEN "idle" ELSE "ready"
            /\ canSend' = (canSend \/ step = Responses)
            /\ everUp' = (everUp \/ step = Sync)
            /\ UNCHANGED <<conn, err>>
       ELSE /\ step' = 0 /\ worker' = "idle"
            /\ conn' = IF conn = "nil" THEN conn ELSE "dead"
            /\ err' = IF err = "none" THEN "loop" ELSE err
            /\ UNCHANGED <<canSend, everUp>>
    /\ answered' = FALSE
    /\ UNCHANGED <<queue, greeted, packetsSent, req, lapsed, mistaken>>

WorkerStep == /\ WorkerLeaves \/ WorkerTakes \/ WorkerAsks \/ WorkerGoesOn
              /\ UNCHANGED <<loopVars, reader, crashed>>
-----------------------------------------------------------------------------
(* The connection loop. *)

Start == /\ loop \in {"idle", "stopped"} /\ conn = "nil" /\ ~ stop
         /\ loop' = "top" /\ attempts' = 1 /\ canSend' = FALSE
         /\ UNCHANGED <<stop, connVars, reqVars, everUp, queue, worker, step, reader>>

\* CanConnect and the dialling.
Dial == /\ loop = "top"
        /\ \/ conn # "nil" /\ loop' = "after" /\ err' = "open"
           \/ conn = "nil" /\ loop' = "after" /\ err' = "dial"
           \/ conn = "nil" /\ loop' = "dialed" /\ err' = "none"
        /\ UNCHANGED <<attempts, stop, conn, greeted, reqVars, workVars, reader>>

\* s.conn is set and the connect packet sent; when that fails, s.conn stays.
Open == /\ loop = "dialed"
        /\ \/ /\ conn' = "open" /\ loop' = "reading" /\ worker' = "idle" /\ UNCHANGED err
           \/ /\ conn' = "dead" /\ loop' = "after" /\ err' = "send" /\ UNCHANGED worker
        /\ UNCHANGED <<attempts, stop, greeted, reqVars, canSend, everUp, queue, step, reader>>

\* ReadMessage fails.
ReadEnds == /\ loop = "reading" /\ reader.k = "read" /\ conn = "dead"
            /\ loop' = "ending" /\ err' = IF err = "none" THEN "loop" ELSE err
            /\ UNCHANGED <<attempts, stop, conn, greeted, reqVars, workVars, reader>>

\* Mutant: s.conn is left as it is.
LoopEndsKeepingConn == /\ loop = "ending" /\ worker = "gone"
                       /\ loop' = "ended" /\ greeted' = FALSE /\ queue' = << >>
                       /\ UNCHANGED <<attempts, stop, conn, err, reqVars, canSend, everUp,
                                      worker, step, reader>>

\* The deferred calls of readLoop: the queue is closed, the worker waited for.
LoopEnds == /\ loop = "ending" /\ worker = "gone"
            /\ loop' = "ended" /\ conn' = "nil" /\ greeted' = FALSE /\ queue' = << >>
            /\ UNCHANGED <<attempts, stop, err, reqVars, canSend, everUp, worker, step, reader>>

Cancelled(missed) ==
    [r \in Callers |->
       LET Shut(c) == IF c = "open" \/ (c = "own" /\ r \in missed) THEN "closed" ELSE c
       IN [req[r] EXCEPT !.ack = Shut(@), !.resp = Shut(@)]]

\* Mutant: only the acknowledgements are cancelled.
CancelAcks == /\ loop = "ended" /\ loop' = "after"
              /\ req' = [r \in Callers |-> [req[r] EXCEPT
                                              !.ack = IF @ = "open" THEN "closed" ELSE @]]
              /\ UNCHANGED <<attempts, stop, connVars, packetsSent, lapsed,
                             answered, mistaken, workVars, reader>>

\* What was put into a channel before it is closed is found there, by a caller
\* that has the channel already.
CancelAllRequests ==
    /\ loop = "ended" /\ loop' = "after"
    /\ \E missed \in SUBSET Callers : req' = Cancelled(missed)
    /\ UNCHANGED <<attempts, stop, connVars, packetsSent, lapsed, answered, mistaken, workVars,
                   reader>>

Permanent == err = "unauthorized" \/ (err = "badlogin" /\ attempts > MaxBadLogins)

\* Back in Client.Connect: give up, or wait and try again.
Judge == /\ loop = "after" /\ canSend' = FALSE /\ err' = "none"
         /\ IF stop \/ Permanent THEN loop' = "stopped" /\ UNCHANGED attempts
            ELSE /\ loop' = "backoff"
                 /\ \/ attempts' = IF attempts > MaxBadLogins THEN attempts ELSE attempts + 1
                    \/ err \in {"loop", "badlogin"} /\ attempts' = 0
         /\ UNCHANGED <<stop, conn, greeted, reqVars, everUp, queue, worker, step, reader>>

Backoff == /\ loop = "backoff"
           /\ \/ loop' = "top"
              \/ stop /\ loop' = "stopped"
           /\ canSend' = FALSE
           /\ UNCHANGED <<attempts, stop, connVars, reqVars, everUp, queue, worker, step, reader>>

\* Client.Disconnect: it closes the connection it finds.
Disconnect == /\ ~ stop /\ loop # "idle" /\ stop' = TRUE
              /\ conn' = IF conn = "open" THEN "dead" ELSE conn
              /\ UNCHANGED <<loop, attempts, err, greeted, reqVars, workVars, reader>>

LoopStep == /\ \/ Start \/ Dial \/ Open \/ ReadEnds \/ LoopEnds
               \/ CancelAllRequests \/ Judge \/ Backoff
            /\ UNCHANGED crashed

\* The server closes, or the network fails, or a pong is missing.
Drop == /\ conn = "open" /\ loop = "reading" /\ conn' = "dead"
        /\ UNCHANGED <<loopVars, err, greeted, reqVars, workVars, reader, crashed>>

\* The pings end with the context: a connection that survived it is dropped.
DropSilent == stop /\ Drop
-----------------------------------------------------------------------------
Next == /\ ~ crashed
        /\ \/ \E r \in App : Ask(r)
           \/ \E r \in Callers : Proceed(r)
           \/ Reader \/ WorkerStep \/ LoopStep \/ Drop
           \/ Disconnect /\ UNCHANGED crashed

Spec == Init /\ [][Next]_socketVars

\* Every goroutine goes on when it can, and every timer fires.  The server owes
\* nothing, and no caller has to ask.
SocketFairness ==
    /\ WF_socketVars(~ crashed /\ reader.k # "read" /\ Reader)
    /\ WF_socketVars(~ crashed /\ WorkerStep)
    /\ WF_socketVars(~ crashed /\ loop \notin {"idle", "stopped"} /\ LoopStep)
    /\ WF_socketVars(~ crashed /\ DropSilent)
    /\ \A r \in Callers : WF_socketVars(~ crashed /\ Proceed(r))

FairSpec == Spec /\ SocketFairness
-----------------------------------------------------------------------------
SocketTypeOK ==
    /\ loop \in {"idle", "top", "dialed", "reading", "ending", "ended", "after", "backoff",
                 "stopped"}
    /\ conn \in {"nil", "open", "dead"}
    /\ err \in {"none", "loop", "dial", "send", "open", "unauthorized", "badlogin"}
    /\ attempts \in 0 .. (MaxBadLogins + 1)
    /\ stop \in BOOLEAN /\ canSend \in BOOLEAN /\ everUp \in BOOLEAN /\ greeted \in BOOLEAN
    /\ lapsed \in BOOLEAN /\ answered \in BOOLEAN /\ mistaken \in BOOLEAN /\ crashed \in BOOLEAN
    /\ packetsSent \in 0 .. (IdMod - 1)
    /\ req \in [Callers -> [pc : {"idle", "waiting", "made", "ack", "resp"},
                            kind : Kinds \cup {"none"}, id : 0 .. (IdMod - 1),
                            ack : {"none", "open", "own", "closed"},
                            resp : {"none", "open", "own", "event", "closed"}]]
    /\ reader \in [k : {"read", "queue", "ack", "resp"}, id : 0 .. (IdMod - 1),
                   val : {"none", "own", "event", "ready"}]
    /\ queue \in Seq({"ready", "event"}) /\ Len(queue) <= QueueCap
    /\ worker \in {"idle", "ready", "busy", "gone"}
    /\ step \in 0 .. Sync

\* Nobody waits on a connection that is gone: once the read loop is over and the
\* requests are cancelled, every channel a caller waits on is closed or holds its
\* answer, the worker's included, and no request that was under way then is left.
NobodyLeftWaiting ==
    (conn = "nil" /\ loop # "ended") =>
       \A r \in Callers : /\ req[r].pc = "ack" => req[r].ack # "open"
                          /\ req[r].pc = "resp" => req[r].resp # "open"

\* What a request holds: nothing before it is made, an id of its own afterwards,
\* and two channels that are closed together.
RequestsSound ==
    /\ worker # "busy" => req[Worker].pc = "idle"
    /\ \A r \in Callers :
       /\ req[r].pc \in {"idle", "waiting"} =>
             req[r].id = 0 /\ req[r].ack = "none" /\ req[r].resp = "none"
       /\ req[r].pc \notin {"idle", "waiting"} => req[r].id # 0
       /\ req[r].resp # "event"
       /\ req[r].ack = "closed" => req[r].resp # "open"
       /\ req[r].pc = "resp" => req[r].ack # "open"
       /\ conn = "nil" /\ loop # "ended" /\ req[r].pc \in {"ack", "resp"} =>
             req[r].ack # "open" /\ req[r].resp # "open"

\* The answer the read loop holds has an open channel to go to.
Awaited(r) == /\ req[r].id = reader.id /\ req[r].pc \in {"ack", "resp"}
              /\ req[r][reader.k] = "open"
              /\ reader.k = "ack" => req[r].pc = "ack"
              /\ reader.k = "resp" => req[r].kind = "call"

ReaderSound ==
    /\ reader.k = "read" => reader.val = "none"
    /\ reader.k # "read" => loop = "reading"
    /\ reader.k = "queue" => reader.val \in {"ready", "event"}
    /\ reader.k \in {"ack", "resp"} =>
          /\ reader.val = "own" /\ reader.id # 0
          /\ lapsed \/ \E r \in Callers : Awaited(r)

\* The answer to the connect packet is in one place at a time, and a connection
\* starts with its gate shut.
GreetingAhead == reader.val = "ready" \/ \E i \in 1 .. Len(queue) : queue[i] = "ready"

GreetingSound ==
    /\ GreetingAhead => greeted /\ (everUp \/ (~ canSend /\ step = 0))
    /\ \A i, j \in 1 .. Len(queue) : queue[i] = "ready" /\ queue[j] = "ready" => i = j
    /\ reader.val = "ready" => \A i \in 1 .. Len(queue) : queue[i] # "ready"
    /\ loop = "reading" /\ ~ greeted => everUp \/ (~ canSend /\ step = 0)
    /\ loop \notin {"reading", "ending"} => ~ greeted /\ queue = << >> /\ worker = "gone"
    /\ worker \in {"idle", "gone"} <=> step = 0

\* An event, which carries the request id 0, is never taken for the response to a request.
EventsAreNoAnswers == ~ mistaken

\* The one way a frame meets a closed channel is that its request gave up
\* between the look-up and the send: no way of ending a connection does it.
OnlyLatePanics == crashed => lapsed

\* Messages are let through only on a connection whose topics the server has
\* confirmed, now or on an earlier connection of this client.
SendsOnlySubscribed ==
    canSend => /\ loop \in {"reading", "ending", "ended", "after"}
               /\ everUp \/ step \notin Settings .. Responses

\* The inductive invariant behind the four of them.
SocketInv == /\ SocketTypeOK /\ RequestsSound /\ ReaderSound /\ GreetingSound
             /\ NobodyLeftWaiting /\ EventsAreNoAnswers /\ OnlyLatePanics /\ SendsOnlySubscribed

\* The read loop waits for room in a queue that nobody empties any more.
Stuck == reader.k = "queue" /\ worker = "gone"

\* Every request is settled, whatever becomes of its connection.
WaitsEnd == \A r \in App : req[r].pc # "idle" ~> (req[r].pc = "idle" \/ crashed)

\* A disconnected client comes to rest, unless its read loop is stuck.
StopEnds == stop ~> (loop = "stopped" \/ crashed \/ Stuck)

\* Nobody who waits, and nobody who stops, waits for ever.
SettlesAndStops == WaitsEnd /\ StopEnds

\* A connection that broke while it was read is dialled again, or given up: s.conn
\* is free when the loop comes round.
ComesBack ==
    (loop = "reading" /\ conn = "dead")
       ~> ((loop = "top" /\ conn = "nil") \/ loop = "stopped" \/ crashed \/ Stuck)
=============================================================================
