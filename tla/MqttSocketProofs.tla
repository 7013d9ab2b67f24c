-------------------------- MODULE MqttSocketProofs --------------------------
(***************************************************************************)
(* SocketInv is an invariant of the socket for any number of callers, any    *)
(* range of packet ids, any capacity of the queue and any patience with the  *)
(* server; and the four properties that are its parts.  RoundSound is one of *)
(* the socket of Instagram's typing notices: the argument is where the pong  *)
(* of a ping can be, until it is counted or somebody is to blame.            *)
(***************************************************************************)
EXTENDS MqttSocket, Gateway, TLAPS

\* An id that is handed out is in range, not 0, and in nobody's use.
LEMMA FreshId ==
    ASSUME packetsSent \in 0 .. (IdMod - 1), NEW id \in SafePacketID
    PROVE  /\ id \in 0 .. (IdMod - 1) /\ id # 0
           /\ \A r \in Callers : req[r].id # id
<1>1. PICK k \in 1 .. IdMod : id = (packetsSent + k) % IdMod
                              /\ (packetsSent + k) % IdMod \notin InUse \cup {0}
  BY DEF SafePacketID, FirstAfter
<1>2. (packetsSent + k) % IdMod \in 0 .. (IdMod - 1)
  BY SocketAssumption
<1> QED
  BY <1>1, <1>2 DEF InUse

\* The invariant holds at the start.
LEMMA InitInv == Init => SocketInv
<1> SUFFICES ASSUME Init PROVE SocketInv
  OBVIOUS
<1> USE DEF Init
<1>1. \A r \in Callers : req[r] = NoRequest
  OBVIOUS
<1>2. SocketTypeOK
  <2>1. req \in [Callers -> [pc : {"idle", "waiting", "made", "ack", "resp"},
                             kind : Kinds \cup {"none"}, id : 0 .. (IdMod - 1),
                             ack : {"none", "open", "own", "closed"},
                             resp : {"none", "open", "own", "event", "closed"}]]
    BY SocketAssumption DEF NoRequest, Kinds
  <2>2. reader \in [k : {"read", "queue", "ack", "resp"}, id : 0 .. (IdMod - 1),
                    val : {"none", "own", "event", "ready"}]
    BY SocketAssumption DEF Reading
  <2>3. attempts \in 0 .. (MaxBadLogins + 1) /\ packetsSent \in 0 .. (IdMod - 1)
    BY SocketAssumption
  <2>4. queue \in Seq({"ready", "event"}) /\ Len(queue) <= QueueCap
    BY SocketAssumption
  <2>5. /\ stop \in BOOLEAN /\ canSend \in BOOLEAN /\ everUp \in BOOLEAN /\ greeted \in BOOLEAN
        /\ lapsed \in BOOLEAN /\ answered \in BOOLEAN /\ mistaken \in BOOLEAN /\ crashed \in BOOLEAN
    OBVIOUS
  <2>6. step \in 0 .. Sync
    BY DEF Sync
  <2>7. /\ loop = "idle" /\ conn = "nil" /\ err = "none" /\ worker = "gone"
    OBVIOUS
  <2> HIDE DEF Init
  <2> QED
    BY <2>1, <2>2, <2>3, <2>4, <2>5, <2>6, <2>7 DEF SocketTypeOK
<1>3. RequestsSound /\ NobodyLeftWaiting
  BY <1>1 DEF NoRequest, RequestsSound, NobodyLeftWaiting, Callers
<1>4. ReaderSound /\ GreetingSound
  BY DEF Reading, ReaderSound, GreetingSound, GreetingAhead
<1> QED
  BY <1>2, <1>3, <1>4 DEF SocketInv, EventsAreNoAnswers, OnlyLatePanics, SendsOnlySubscribed

\* The part of the type invariant that is about requests.
RequestTypes == /\ packetsSent \in 0 .. (IdMod - 1) /\ lapsed \in BOOLEAN /\ answered \in BOOLEAN
                /\ req \in [Callers -> [pc : {"idle", "waiting", "made", "ack", "resp"},
                                        kind : Kinds \cup {"none"}, id : 0 .. (IdMod - 1),
                                        ack : {"none", "open", "own", "closed"},
                                        resp : {"none", "open", "own", "event", "closed"}]]

\* What a step of a caller has to keep, when it changes nothing but requests.
LEMMA RequestFrame ==
    ASSUME SocketInv, UNCHANGED othersVars,
           RequestTypes',
           RequestsSound', ReaderSound', mistaken' = mistaken, lapsed => lapsed'
    PROVE  SocketInv'
<1> USE DEF SocketInv, othersVars, loopVars, connVars, workVars
<1>1. SocketTypeOK'
  BY DEF SocketTypeOK, RequestTypes
<1>2. GreetingSound'
  BY DEF GreetingSound, GreetingAhead
<1>3. NobodyLeftWaiting'
  BY DEF RequestsSound, NobodyLeftWaiting
<1> QED
  BY <1>1, <1>2, <1>3 DEF EventsAreNoAnswers, OnlyLatePanics, SendsOnlySubscribed

\* A caller that was not in a request makes one: its id is fresh, and no
\* answer can be on its way.
LEMMA MakeInv ==
    ASSUME SocketInv, NEW r \in Callers, NEW kind \in Kinds, Make(r, kind),
           req[r].pc \in {"idle", "waiting"},
           loop' = loop, conn' = conn, reader' = reader,
           worker' = "busy" \/ (worker' = worker /\ r # Worker)
    PROVE  RequestTypes' /\ RequestsSound' /\ ReaderSound' /\ lapsed' = lapsed /\ mistaken' = mistaken
<1> USE DEF SocketInv, SocketTypeOK
<1>1. PICK id \in SafePacketID :
         /\ packetsSent' = id
         /\ req' = [req EXCEPT ![r] = [pc |-> "made", kind |-> kind, id |-> id, ack |-> "open",
                       resp |-> IF kind = "subscribe" THEN "none" ELSE "open"]]
         /\ UNCHANGED <<lapsed, answered, mistaken>>
  BY DEF Make
<1>2. id \in 0 .. (IdMod - 1) /\ id # 0
  BY FreshId
<1>3. RequestTypes'
  BY <1>1, <1>2 DEF RequestTypes, Kinds
<1>4. RequestsSound'
  BY <1>1, <1>2 DEF RequestsSound, Callers
<1>5. ASSUME NEW q \in Callers, Awaited(q) PROVE Awaited(q)'
  BY <1>1, <1>5 DEF Awaited
<1>6. ReaderSound'
  BY <1>1, <1>5 DEF ReaderSound
<1> QED
  BY <1>1, <1>3, <1>4, <1>6

\* A request is over without an answer under way for it, or with it marked.
LEMMA OverInv ==
    ASSUME SocketInv, NEW r \in Callers, NEW ok \in BOOLEAN, Over(r, ok),
           loop' = loop, conn' = conn, reader' = reader, worker' = worker,
           packetsSent' = packetsSent,
           lapsed' \in BOOLEAN, lapsed => lapsed',
           (reader.k \in {"ack", "resp"} /\ Awaited(r)) => lapsed'
    PROVE  RequestTypes' /\ RequestsSound' /\ ReaderSound'
<1> USE DEF SocketInv, SocketTypeOK
<1>1. /\ req' = [req EXCEPT ![r] = NoRequest]
      /\ answered' \in BOOLEAN
  BY DEF Over
<1>2. RequestTypes'
  BY <1>1, SocketAssumption DEF RequestTypes, Kinds, NoRequest
<1>3. RequestsSound'
  BY <1>1 DEF RequestsSound, NoRequest, Callers
<1>4. ASSUME NEW q \in Callers, q # r, Awaited(q) PROVE Awaited(q)'
  BY <1>1, <1>4 DEF Awaited
<1>5. ReaderSound'
  BY <1>4 DEF ReaderSound
<1> QED
  BY <1>2, <1>3, <1>5

\* The steps of a caller that is in a request.
LEMMA ProceedInv ==
    ASSUME SocketInv, NEW r \in Callers, Proceed(r)
    PROVE  SocketInv'
<1>1. /\ loop' = loop /\ conn' = conn /\ reader' = reader /\ worker' = worker
      /\ UNCHANGED othersVars
  BY DEF Proceed, othersVars, loopVars, connVars, workVars
<1>2. SUFFICES /\ RequestTypes' /\ RequestsSound' /\ ReaderSound'
               /\ mistaken' = mistaken /\ (lapsed => lapsed')
  BY <1>1, RequestFrame
<1> USE DEF SocketInv, SocketTypeOK, reqVars
<1>3. CASE Send(r)
  <2>1. CASE conn # "nil" /\ req' = [req EXCEPT ![r].pc = "ack"] /\ UNCHANGED answered
    <3>1. req[r].pc = "made" /\ UNCHANGED <<packetsSent, lapsed, mistaken>>
      BY <1>3 DEF Send
    <3>2. RequestTypes'
      BY <2>1, <3>1 DEF RequestTypes
    <3>3. RequestsSound'
      BY <1>1, <2>1, <3>1 DEF RequestsSound, Callers
    <3>4. ASSUME NEW q \in Callers, Awaited(q) PROVE Awaited(q)'
      BY <1>1, <2>1, <3>1, <3>4 DEF Awaited
    <3> QED
      BY <1>1, <3>1, <3>2, <3>3, <3>4 DEF ReaderSound
  <2>2. CASE conn # "open" /\ Over(r, FALSE)
    BY <1>1, <1>3, <2>2, OverInv DEF Send, Awaited
  <2> QED
    BY <1>3, <2>1, <2>2 DEF Send
<1>4. CASE TakeAck(r)
  <2>1. CASE req[r].kind = "call"
    <3>1. /\ req' = [req EXCEPT ![r].pc = "resp", ![r].ack = "none"]
          /\ UNCHANGED <<packetsSent, lapsed, mistaken, answered>>
          /\ req[r].pc = "ack" /\ req[r].ack = "own"
      BY <1>4, <2>1 DEF TakeAck
    <3>2. RequestTypes'
      <4>1. req' = [req EXCEPT ![r] = [req[r] EXCEPT !.pc = "resp", !.ack = "none"]]
        BY <3>1
      <4>2. [req[r] EXCEPT !.pc = "resp", !.ack = "none"]
               \in [pc : {"idle", "waiting", "made", "ack", "resp"},
                    kind : Kinds \cup {"none"}, id : 0 .. (IdMod - 1),
                    ack : {"none", "open", "own", "closed"},
                    resp : {"none", "open", "own", "event", "closed"}]
        OBVIOUS
      <4> QED
        BY <3>1, <4>1, <4>2 DEF RequestTypes
    <3>3. RequestsSound'
      BY <1>1, <3>1 DEF RequestsSound, Callers
    <3>4. ASSUME NEW q \in Callers, Awaited(q), reader.k \in {"ack", "resp"} PROVE Awaited(q)'
      <4>1. CASE reader.k = "ack"
        BY <1>1, <2>1, <3>1, <3>4, <4>1 DEF Awaited
      <4>2. CASE reader.k = "resp"
        BY <1>1, <2>1, <3>1, <3>4, <4>2 DEF Awaited
      <4> QED
        BY <3>4, <4>1, <4>2
    <3> QED
      BY <1>1, <3>1, <3>2, <3>3, <3>4 DEF ReaderSound
  <2>2. CASE req[r].kind # "call"
    BY <1>1, <1>4, <2>2, OverInv DEF TakeAck, Awaited
  <2> QED
    BY <2>1, <2>2
<1>5. CASE TakeResponse(r)
  BY <1>1, <1>5, OverInv DEF TakeResponse, Awaited, RequestsSound
<1>6. CASE FindClosed(r)
  BY <1>1, <1>6, OverInv DEF FindClosed, Awaited, RequestsSound
<1>7. CASE GiveUp(r)
  BY <1>1, <1>7, OverInv DEF GiveUp, Awaited
<1>8. CASE r \in App /\ StopWaiting(r)
  <2>1. CASE canSend /\ Make(r, "call")
    BY <1>1, <1>8, <2>1, MakeInv, SocketAssumption DEF StopWaiting, Kinds
  <2>2. CASE Over(r, FALSE) /\ UNCHANGED <<packetsSent, lapsed, mistaken>>
    BY <1>1, <1>8, <2>2, OverInv DEF StopWaiting, Awaited
  <2> QED
    BY <1>8, <2>1, <2>2 DEF StopWaiting
<1> QED
  BY <1>3, <1>4, <1>5, <1>6, <1>7, <1>8 DEF Proceed, Settle

\* A request that starts to wait is still a request.
LEMMA WaitingKeepsTypes ==
    ASSUME NEW C, NEW K, NEW N, NEW A, NEW P, NEW r, NEW f,
           f \in [C -> [pc : {"idle", "waiting", "made", "ack", "resp"},
                        kind : K, id : N, ack : A, resp : P]]
    PROVE  [f EXCEPT ![r].pc = "waiting"] \in
              [C -> [pc : {"idle", "waiting", "made", "ack", "resp"},
                     kind : K, id : N, ack : A, resp : P]]
  OBVIOUS

\* A caller starts to wait for the gate, or asks at once.
LEMMA AskInv ==
    ASSUME SocketInv, NEW r \in App, Ask(r)
    PROVE  SocketInv'
<1> USE DEF SocketInv, SocketTypeOK
<1>1. /\ loop' = loop /\ conn' = conn /\ reader' = reader /\ worker' = worker
      /\ UNCHANGED othersVars /\ r \in Callers /\ r # Worker
  BY SocketAssumption DEF Ask, othersVars, loopVars, connVars, workVars, Callers
<1>2. CASE StartWaiting(r)
  <2>1. /\ req' = [req EXCEPT ![r].pc = "waiting"] /\ req[r].pc = "idle"
        /\ UNCHANGED <<packetsSent, lapsed, answered, mistaken>>
    BY <1>2 DEF StartWaiting
  <2>2. RequestTypes'
    <3>1. req' \in [Callers -> [pc : {"idle", "waiting", "made", "ack", "resp"},
                               kind : Kinds \cup {"none"}, id : 0 .. (IdMod - 1),
                               ack : {"none", "open", "own", "closed"},
                               resp : {"none", "open", "own", "event", "closed"}]]
      BY <2>1, WaitingKeepsTypes DEF RequestTypes
    <3> QED
      BY <2>1, <3>1 DEF RequestTypes
  <2>3. RequestsSound'
    BY <1>1, <2>1 DEF RequestsSound, Callers
  <2>4. ASSUME NEW q \in Callers, Awaited(q) PROVE Awaited(q)'
    BY <1>1, <2>1, <2>4 DEF Awaited
  <2>5. ReaderSound'
    BY <1>1, <2>1, <2>4 DEF ReaderSound
  <2> HIDE DEF SocketInv, SocketTypeOK
  <2> QED
    BY <1>1, <2>1, <2>2, <2>3, <2>5, RequestFrame
<1>3. CASE AskAtOnce(r)
  <2>1. RequestTypes' /\ RequestsSound' /\ ReaderSound' /\ lapsed' = lapsed /\ mistaken' = mistaken
    BY <1>1, <1>3, MakeInv DEF AskAtOnce, Kinds
  <2> HIDE DEF SocketInv, SocketTypeOK
  <2> QED
    BY <1>1, <2>1, RequestFrame
<1> QED
  BY <1>2, <1>3 DEF Ask


\* What a step has to keep that leaves every request and the read loop alone.
LEMMA OtherFrame ==
    ASSUME SocketInv, UNCHANGED <<packetsSent, req, lapsed, mistaken, reader, crashed>>,
           loop' = loop \/ reader.k = "read",
           worker' # "busy" => (worker # "busy" \/ req[Worker].pc = "idle"),
           (conn' = "nil" /\ loop' # "ended") => (conn = "nil" /\ loop # "ended")
    PROVE  RequestsSound' /\ ReaderSound' /\ NobodyLeftWaiting' /\ EventsAreNoAnswers' /\ OnlyLatePanics'
<1> USE DEF SocketInv
<1>1. RequestsSound'
  BY DEF RequestsSound
<1>2. ASSUME NEW q \in Callers, Awaited(q) PROVE Awaited(q)'
  BY <1>2 DEF Awaited
<1>3. ReaderSound'
  BY <1>2 DEF ReaderSound
<1>4. NobodyLeftWaiting'
  BY <1>1 DEF RequestsSound, NobodyLeftWaiting
<1> QED
  BY <1>1, <1>3, <1>4 DEF EventsAreNoAnswers, OnlyLatePanics

\* The steps of the worker.
LEMMA WorkerInv == SocketInv /\ WorkerStep => SocketInv'
<1> SUFFICES ASSUME SocketInv, WorkerStep PROVE SocketInv'
  OBVIOUS
<1>1. /\ UNCHANGED <<loop, attempts, stop, reader, crashed>>
  BY DEF WorkerStep, loopVars
<1>2. CASE WorkerLeaves
  <2>1. /\ worker = "idle" /\ worker' = "gone"
        /\ UNCHANGED <<canSend, everUp, queue, step, conn, err, greeted, packetsSent, req,
                       lapsed, answered, mistaken>>
    BY <1>2 DEF WorkerLeaves, connVars, reqVars
  <2>2. /\ RequestsSound' /\ ReaderSound' /\ NobodyLeftWaiting' /\ EventsAreNoAnswers'
        /\ OnlyLatePanics'
    BY <1>1, <2>1, OtherFrame
  <2>3. SocketTypeOK' /\ GreetingSound' /\ SendsOnlySubscribed'
    BY <1>1, <2>1 DEF SocketInv, SocketTypeOK, GreetingSound, GreetingAhead, SendsOnlySubscribed
  <2> QED
    BY <2>2, <2>3 DEF SocketInv
<1>3. CASE WorkerTakes
  <2>1. /\ worker = "idle" /\ queue # << >> /\ queue' = Tail(queue)
        /\ UNCHANGED <<everUp, conn, err, greeted, packetsSent, req, lapsed, answered, mistaken>>
        /\ \/ Head(queue) = "event" /\ UNCHANGED <<canSend, worker, step>>
           \/ /\ Head(queue) # "event" /\ worker' = "ready" /\ canSend' = (canSend \/ everUp)
              /\ step' = IF everUp THEN Sync ELSE Settings
    BY <1>3 DEF WorkerTakes, connVars, reqVars
  <2>2. /\ RequestsSound' /\ ReaderSound' /\ NobodyLeftWaiting' /\ EventsAreNoAnswers'
        /\ OnlyLatePanics'
    BY <1>1, <2>1, OtherFrame
  <2>3. /\ queue \in Seq({"ready", "event"}) /\ queue # << >> /\ Len(queue) \in Nat /\ Len(queue) > 0
    BY <2>1 DEF SocketInv, SocketTypeOK
  <2>4. /\ Len(queue') = Len(queue) - 1 /\ queue' \in Seq({"ready", "event"})
        /\ \A i \in 1 .. Len(queue') : queue'[i] = queue[i + 1] /\ i + 1 \in 1 .. Len(queue)
        /\ Head(queue) = queue[1] /\ 1 \in 1 .. Len(queue) /\ queue[1] \in {"ready", "event"}
    BY <2>1, <2>3
  <2>5. SocketTypeOK'
    BY <1>1, <2>1, <2>4, SocketAssumption DEF SocketInv, SocketTypeOK, Settings, Sync
  <2>6. GreetingSound' /\ SendsOnlySubscribed'
    <3>1. CASE Head(queue) = "event"
      BY <1>1, <2>1, <2>4, <3>1
         DEF SocketInv, GreetingSound, GreetingAhead, SendsOnlySubscribed
    <3>2. CASE Head(queue) # "event"
      <4>1. queue[1] = "ready" /\ GreetingAhead
        BY <2>4, <3>2 DEF GreetingAhead
      <4>2. ~ GreetingAhead'
        BY <1>1, <2>4, <4>1 DEF SocketInv, GreetingSound, GreetingAhead
      <4>3. everUp \/ (~ canSend /\ step = 0)
        BY <4>1 DEF SocketInv, GreetingSound
      <4>4. GreetingSound'
        BY <1>1, <2>1, <2>4, <3>2, <4>1, <4>2, <4>3
           DEF SocketInv, GreetingSound, GreetingAhead, Settings, Sync
      <4>5. SendsOnlySubscribed'
        BY <1>1, <2>1, <3>2, <4>1, <4>3
           DEF SocketInv, GreetingSound, SendsOnlySubscribed, Settings, Responses, Sync
      <4> QED
        BY <4>4, <4>5
    <3> QED
      BY <3>1, <3>2
  <2> QED
    BY <2>2, <2>5, <2>6 DEF SocketInv
<1>4. CASE WorkerAsks
  <2>1. /\ worker = "ready" /\ worker' = "busy" /\ Make(Worker, KindOf(step))
        /\ UNCHANGED <<canSend, everUp, queue, step, conn, err, greeted>>
    BY <1>4 DEF WorkerAsks, connVars
  <2>2. KindOf(step) \in Kinds /\ Worker \in Callers /\ req[Worker].pc = "idle"
    BY <2>1 DEF KindOf, Kinds, Callers, SocketInv, RequestsSound
  <2>3. RequestTypes' /\ RequestsSound' /\ ReaderSound' /\ lapsed' = lapsed /\ mistaken' = mistaken
    BY <1>1, <2>1, <2>2, MakeInv
  <2>4. SocketTypeOK'
    BY <1>1, <2>1, <2>3 DEF SocketInv, SocketTypeOK, RequestTypes
  <2>5. GreetingSound' /\ SendsOnlySubscribed'
    BY <1>1, <2>1 DEF SocketInv, GreetingSound, GreetingAhead, SendsOnlySubscribed
  <2>6. NobodyLeftWaiting'
    BY <2>3 DEF RequestsSound, NobodyLeftWaiting
  <2>7. EventsAreNoAnswers' /\ OnlyLatePanics'
    BY <1>1, <2>3 DEF SocketInv, EventsAreNoAnswers, OnlyLatePanics
  <2> QED
    BY <2>3, <2>4, <2>5, <2>6, <2>7 DEF SocketInv
<1>5. CASE WorkerGoesOn
  <2>1. /\ worker = "busy" /\ req[Worker].pc = "idle"
        /\ UNCHANGED <<queue, greeted, packetsSent, req, lapsed, mistaken>> /\ answered' = FALSE
    BY <1>5 DEF WorkerGoesOn
  <2>2. \/ /\ step' = IF step = Sync THEN 0 ELSE step + 1
           /\ worker' = IF step = Sync THEN "idle" ELSE "ready"
           /\ canSend' = (canSend \/ step = Responses)
           /\ everUp' = (everUp \/ step = Sync)
           /\ UNCHANGED <<conn, err>>
        \/ /\ step' = 0 /\ worker' = "idle"
           /\ conn' = IF conn = "nil" THEN conn ELSE "dead"
           /\ err' = IF err = "none" THEN "loop" ELSE err
           /\ UNCHANGED <<canSend, everUp>>
    BY <1>5 DEF WorkerGoesOn
  <2>3. /\ RequestsSound' /\ ReaderSound' /\ NobodyLeftWaiting' /\ EventsAreNoAnswers'
        /\ OnlyLatePanics'
    BY <1>1, <2>1, <2>2, OtherFrame
  <2>4. SocketTypeOK'
    <3>1. /\ step' \in 0 .. Sync /\ worker' \in {"idle", "ready"}
          /\ conn' \in {"nil", "open", "dead"}
          /\ err' \in {"none", "loop", "dial", "send", "open", "unauthorized", "badlogin"}
      BY <2>2 DEF SocketInv, SocketTypeOK, Sync
    <3>2. canSend' \in BOOLEAN /\ everUp' \in BOOLEAN
      <4>1. canSend \in BOOLEAN /\ everUp \in BOOLEAN
        BY DEF SocketInv, SocketTypeOK
      <4> QED
        BY <2>2, <4>1, Zenon
    <3>3. answered' \in BOOLEAN
      BY <2>1
    <3>4. req' = req /\ packetsSent' = packetsSent /\ lapsed' = lapsed /\ mistaken' = mistaken
          /\ queue' = queue /\ greeted' = greeted
      BY <2>1
    <3> QED
      BY <1>1, <3>1, <3>2, <3>3, <3>4 DEF SocketInv, SocketTypeOK
  <2>5. GreetingSound'
    <3>1. GreetingAhead' => GreetingAhead
      BY <1>1, <2>1 DEF GreetingAhead
    <3>2. loop \in {"reading", "ending"} /\ step # 0 /\ step \in 0 .. Sync
      BY <2>1 DEF SocketInv, SocketTypeOK, GreetingSound
    <3>3. GreetingAhead => everUp
      BY <3>2 DEF SocketInv, GreetingSound
    <3>4. (loop = "reading" /\ ~ greeted) => everUp
      BY <3>2 DEF SocketInv, GreetingSound
    <3>5. everUp => everUp'
      BY <2>2
    <3>6. worker' \in {"idle", "gone"} <=> step' = 0
      BY <2>2, <3>2 DEF Sync
    <3> QED
      BY <1>1, <2>1, <3>1, <3>2, <3>3, <3>4, <3>5, <3>6 DEF SocketInv, GreetingSound
  <2>6. SendsOnlySubscribed'
    <3>1. loop \in {"reading", "ending"}
      BY <2>1 DEF SocketInv, SocketTypeOK, GreetingSound
    <3>2. CASE step' = 0
      BY <1>1, <3>1, <3>2 DEF SendsOnlySubscribed, Settings, Responses
    <3>3. CASE step' # 0
      <4>0. (canSend' <=> (canSend \/ step = Responses)) /\ (everUp => everUp')
        BY <2>2, <3>3, Zenon
      <4>1. step' = step + 1 /\ step \in 1 .. 5
        BY <2>1, <2>2, <3>3 DEF SocketInv, SocketTypeOK, GreetingSound, Sync
      <4>2. CASE canSend
        BY <1>1, <3>1, <4>0, <4>1, <4>2 DEF SocketInv, SendsOnlySubscribed, Settings, Responses
      <4>3. CASE ~ canSend
        BY <1>1, <3>1, <4>0, <4>1, <4>3 DEF SendsOnlySubscribed, Settings, Responses
      <4> QED
        BY <4>2, <4>3
    <3> QED
      BY <3>2, <3>3
  <2> QED
    BY <2>3, <2>4, <2>5, <2>6 DEF SocketInv
<1> QED
  BY <1>2, <1>3, <1>4, <1>5 DEF WorkerStep

\* The steps of the read loop.
LEMMA ReaderInv == SocketInv /\ Reader => SocketInv'
<1> SUFFICES ASSUME SocketInv, Reader PROVE SocketInv'
  OBVIOUS
<1> USE DEF loopVars, reqVars, workVars, connVars
<1>1. CASE ReadGreeting /\ UNCHANGED <<loopVars, reqVars, workVars, crashed>>
  <2>1. /\ loop = "reading" /\ reader.k = "read" /\ conn = "open" /\ ~ greeted /\ greeted' = TRUE
        /\ UNCHANGED <<loop, attempts, stop, packetsSent, req, lapsed, answered, mistaken,
                       canSend, everUp, queue, worker, step, crashed>>
        /\ \/ reader' = [k |-> "queue", id |-> 0, val |-> "ready"] /\ UNCHANGED <<conn, err>>
           \/ /\ err' \in {"loop", "unauthorized", "badlogin"} /\ conn' = "dead"
              /\ UNCHANGED reader
    BY <1>1 DEF ReadGreeting, CanRead
  <2>2. SocketTypeOK'
    <3>1. reader' \in [k : {"read", "queue", "ack", "resp"}, id : 0 .. (IdMod - 1),
                       val : {"none", "own", "event", "ready"}]
      BY <2>1, SocketAssumption DEF SocketInv, SocketTypeOK
    <3>2. greeted' \in BOOLEAN
      BY <2>1
    <3> QED
      BY <2>1, <3>1, <3>2 DEF SocketInv, SocketTypeOK
  <2>3. RequestsSound' /\ NobodyLeftWaiting'
    BY <2>1 DEF SocketInv, RequestsSound, NobodyLeftWaiting
  <2>4. ReaderSound' /\ EventsAreNoAnswers' /\ OnlyLatePanics'
    BY <2>1 DEF SocketInv, ReaderSound, EventsAreNoAnswers, OnlyLatePanics
  <2>5. GreetingSound' /\ SendsOnlySubscribed'
    BY <2>1 DEF SocketInv, GreetingSound, GreetingAhead, ReaderSound, SendsOnlySubscribed
  <2> QED
    BY <2>2, <2>3, <2>4, <2>5 DEF SocketInv
<1>2. CASE ReadAnswer /\ UNCHANGED <<loopVars, reqVars, workVars, crashed>>
  <2>1. /\ loop = "reading" /\ reader.k = "read" /\ greeted
        /\ UNCHANGED <<loop, attempts, stop, conn, err, greeted, packetsSent, req, lapsed, answered,
                       mistaken, canSend, everUp, queue, worker, step, crashed>>
    BY <1>2 DEF ReadAnswer, CanRead
  <2>2. PICK r \in Callers, what \in {"ack", "resp"} :
           /\ req[r].pc \in {"ack", "resp"} /\ req[r][what] = "open"
           /\ what = "resp" => req[r].kind = "call"
           /\ what = "ack" => req[r].pc = "ack"
           /\ reader' = [k |-> what, id |-> req[r].id, val |-> "own"]
    BY <1>2 DEF ReadAnswer, SocketInv, RequestsSound
  <2>3. SocketTypeOK'
    <3>1. reader' \in [k : {"read", "queue", "ack", "resp"}, id : 0 .. (IdMod - 1),
                       val : {"none", "own", "event", "ready"}]
      BY <2>2 DEF SocketInv, SocketTypeOK
    <3> QED
      BY <2>1, <3>1 DEF SocketInv, SocketTypeOK
  <2>4. RequestsSound' /\ NobodyLeftWaiting'
    BY <2>1 DEF SocketInv, RequestsSound, NobodyLeftWaiting
  <2>5. Awaited(r)'
    BY <2>1, <2>2 DEF Awaited
  <2>6. ReaderSound' /\ EventsAreNoAnswers' /\ OnlyLatePanics'
    BY <2>1, <2>2, <2>5
       DEF SocketInv, RequestsSound, ReaderSound, EventsAreNoAnswers, OnlyLatePanics
  <2>7. GreetingSound' /\ SendsOnlySubscribed'
    BY <2>1, <2>2 DEF SocketInv, GreetingSound, GreetingAhead, SendsOnlySubscribed
  <2> QED
    BY <2>3, <2>4, <2>6, <2>7 DEF SocketInv
<1>3. CASE ReadEvent /\ UNCHANGED <<loopVars, reqVars, workVars, crashed>>
  <2>1. /\ loop = "reading" /\ reader.k = "read" /\ greeted
        /\ UNCHANGED <<loop, attempts, stop, conn, err, greeted, packetsSent, req, lapsed, answered,
                       mistaken, canSend, everUp, queue, worker, step, crashed>>
    BY <1>3 DEF ReadEvent, CanRead
  <2>2. ~ Registered("resp", 0)
    BY DEF SocketInv, SocketTypeOK, RequestsSound, Registered
  <2>3. reader' = [k |-> "queue", id |-> 0, val |-> "event"]
    BY <1>3, <2>2 DEF ReadEvent
  <2>4. SocketTypeOK'
    <3>1. reader' \in [k : {"read", "queue", "ack", "resp"}, id : 0 .. (IdMod - 1),
                       val : {"none", "own", "event", "ready"}]
      BY <2>3, SocketAssumption
    <3> QED
      BY <2>1, <3>1 DEF SocketInv, SocketTypeOK
  <2>5. RequestsSound' /\ NobodyLeftWaiting'
    BY <2>1 DEF SocketInv, RequestsSound, NobodyLeftWaiting
  <2>6. ReaderSound' /\ EventsAreNoAnswers' /\ OnlyLatePanics'
    BY <2>1, <2>3 DEF SocketInv, ReaderSound, EventsAreNoAnswers, OnlyLatePanics
  <2>7. GreetingSound' /\ SendsOnlySubscribed'
    BY <2>1, <2>3 DEF SocketInv, GreetingSound, GreetingAhead, SendsOnlySubscribed
  <2> QED
    BY <2>4, <2>5, <2>6, <2>7 DEF SocketInv
<1>4. CASE /\ Put
           /\ UNCHANGED <<loopVars, connVars, packetsSent, lapsed, answered, mistaken, workVars>>
  <2>1. reader.k \in {"ack", "resp"} /\ loop = "reading" /\ reader.val = "own" /\ reader.id # 0
    BY <1>4 DEF Put, SocketInv, ReaderSound
  <2>2. UNCHANGED <<loop, attempts, stop, conn, err, greeted, packetsSent, lapsed, answered,
                    mistaken, canSend, everUp, queue, worker, step>>
    BY <1>4
  <2>3. CASE Registered(reader.k, reader.id)
    <3>1. /\ req' = [r \in Callers |-> IF r \in Holders(reader.k, reader.id)
                                      THEN [req[r] EXCEPT ![reader.k] = reader.val] ELSE req[r]]
          /\ reader' = Reading /\ crashed' = crashed
      BY <1>4, <2>3 DEF Put
    <3>2. \A r \in Callers : \/ req'[r] = req[r]
                             \/ /\ reader.k = "ack" /\ req[r].ack = "open"
                                /\ req'[r] = [req[r] EXCEPT !.ack = "own"]
                             \/ /\ reader.k = "resp" /\ req[r].resp = "open"
                                /\ req'[r] = [req[r] EXCEPT !.resp = "own"]
      BY <2>1, <3>1 DEF Holders
    <3>3. SocketTypeOK'
      <4>1. req' \in [Callers -> [pc : {"idle", "waiting", "made", "ack", "resp"},
                                 kind : Kinds \cup {"none"}, id : 0 .. (IdMod - 1),
                                 ack : {"none", "open", "own", "closed"},
                                 resp : {"none", "open", "own", "event", "closed"}]]
        <5>1. ASSUME NEW r \in Callers
              PROVE  req'[r] \in [pc : {"idle", "waiting", "made", "ack", "resp"},
                                 kind : Kinds \cup {"none"}, id : 0 .. (IdMod - 1),
                                 ack : {"none", "open", "own", "closed"},
                                 resp : {"none", "open", "own", "event", "closed"}]
          <6>1. req[r] \in [pc : {"idle", "waiting", "made", "ack", "resp"},
                            kind : Kinds \cup {"none"}, id : 0 .. (IdMod - 1),
                            ack : {"none", "open", "own", "closed"},
                            resp : {"none", "open", "own", "event", "closed"}]
            BY <5>1 DEF SocketInv, SocketTypeOK
          <6>2. CASE req'[r] = req[r]
            BY <6>1, <6>2, Zenon
          <6>3. CASE req'[r] = [req[r] EXCEPT !.ack = "own"]
            BY <6>1, <6>3
          <6>4. CASE req'[r] = [req[r] EXCEPT !.resp = "own"]
            BY <6>1, <6>4
          <6> QED
            BY <3>2, <5>1, <6>2, <6>3, <6>4, Zenon
        <5> QED
          BY <3>1, <5>1
      <4>2. reader' \in [k : {"read", "queue", "ack", "resp"}, id : 0 .. (IdMod - 1),
                         val : {"none", "own", "event", "ready"}]
        BY <3>1, SocketAssumption DEF Reading
      <4> QED
        BY <2>2, <3>1, <4>1, <4>2 DEF SocketInv, SocketTypeOK
    <3>4. \A r \in Callers : /\ req'[r].pc = req[r].pc /\ req'[r].id = req[r].id
                             /\ req'[r].ack = req[r].ack \/ (req[r].ack = "open" /\ req'[r].ack = "own")
                             /\ req'[r].resp = req[r].resp \/ (req[r].resp = "open" /\ req'[r].resp = "own")
      <4>1. SUFFICES ASSUME NEW r \in Callers
            PROVE  /\ req'[r].pc = req[r].pc /\ req'[r].id = req[r].id
                   /\ req'[r].ack = req[r].ack \/ (req[r].ack = "open" /\ req'[r].ack = "own")
                   /\ req'[r].resp = req[r].resp \/ (req[r].resp = "open" /\ req'[r].resp = "own")
        BY Zenon
      <4>2. req[r] \in [pc : {"idle", "waiting", "made", "ack", "resp"},
                        kind : Kinds \cup {"none"}, id : 0 .. (IdMod - 1),
                        ack : {"none", "open", "own", "closed"},
                        resp : {"none", "open", "own", "event", "closed"}]
        BY DEF SocketInv, SocketTypeOK
      <4>3. CASE req'[r] = req[r]
        BY <4>3
      <4>4. CASE req[r].ack = "open" /\ req'[r] = [req[r] EXCEPT !.ack = "own"]
        BY <4>2, <4>4
      <4>5. CASE req[r].resp = "open" /\ req'[r] = [req[r] EXCEPT !.resp = "own"]
        BY <4>2, <4>5
      <4> QED
        BY <3>2, <4>3, <4>4, <4>5
    <3>5. RequestsSound' /\ NobodyLeftWaiting'
      BY <2>1, <2>2, <3>4 DEF SocketInv, RequestsSound, NobodyLeftWaiting, Callers
    <3>6. ReaderSound' /\ EventsAreNoAnswers' /\ OnlyLatePanics'
      BY <2>2, <3>1 DEF SocketInv, ReaderSound, EventsAreNoAnswers, OnlyLatePanics, Reading
    <3>7. GreetingSound' /\ SendsOnlySubscribed'
      BY <2>1, <2>2, <3>1 DEF SocketInv, GreetingSound, GreetingAhead, SendsOnlySubscribed, Reading
    <3> QED
      BY <3>3, <3>5, <3>6, <3>7 DEF SocketInv
  <2>4. CASE ~ Registered(reader.k, reader.id)
    <3>1. crashed' = TRUE /\ UNCHANGED <<req, reader>>
      BY <1>4, <2>4 DEF Put
    <3>2. lapsed
      BY <2>1, <2>4 DEF SocketInv, ReaderSound, Awaited, Registered
    <3>3. SocketTypeOK'
      <4>1. crashed' \in BOOLEAN
        BY <3>1
      <4> QED
        BY <2>2, <3>1, <4>1 DEF SocketInv, SocketTypeOK
    <3>4. RequestsSound' /\ NobodyLeftWaiting'
      BY <2>2, <3>1 DEF SocketInv, RequestsSound, NobodyLeftWaiting
    <3>5. ReaderSound' /\ EventsAreNoAnswers' /\ OnlyLatePanics'
      BY <2>2, <3>1, <3>2 DEF SocketInv, ReaderSound, EventsAreNoAnswers, OnlyLatePanics
    <3>6. GreetingSound' /\ SendsOnlySubscribed'
      BY <2>2, <3>1 DEF SocketInv, GreetingSound, GreetingAhead, SendsOnlySubscribed
    <3> QED
      BY <3>3, <3>4, <3>5, <3>6 DEF SocketInv
  <2> QED
    BY <2>3, <2>4
<1>5. CASE /\ Enqueue
           /\ UNCHANGED <<loopVars, connVars, reqVars, canSend, everUp, worker, step, crashed>>
  <2>1. /\ reader.k = "queue" /\ Len(queue) < QueueCap
        /\ queue' = Append(queue, reader.val) /\ reader' = Reading
        /\ UNCHANGED <<loop, attempts, stop, conn, err, greeted, packetsSent, req, lapsed, answered,
                       mistaken, canSend, everUp, worker, step, crashed>>
    BY <1>5 DEF Enqueue
  <2>2. loop = "reading" /\ reader.val \in {"ready", "event"}
    BY <2>1 DEF SocketInv, ReaderSound
  <2>3. queue \in Seq({"ready", "event"}) /\ Len(queue) \in Nat
    BY DEF SocketInv, SocketTypeOK
  <2>4. /\ queue' \in Seq({"ready", "event"}) /\ Len(queue') = Len(queue) + 1
        /\ \A i \in 1 .. Len(queue) : queue'[i] = queue[i]
        /\ queue'[Len(queue) + 1] = reader.val
    BY <2>1, <2>2, <2>3
  <2>5. SocketTypeOK'
    <3>1. reader' \in [k : {"read", "queue", "ack", "resp"}, id : 0 .. (IdMod - 1),
                       val : {"none", "own", "event", "ready"}]
      BY <2>1, SocketAssumption DEF Reading
    <3> QED
      BY <2>1, <2>3, <2>4, <3>1, SocketAssumption DEF SocketInv, SocketTypeOK
  <2>6. RequestsSound' /\ NobodyLeftWaiting'
    BY <2>1 DEF SocketInv, RequestsSound, NobodyLeftWaiting
  <2>7. ReaderSound' /\ EventsAreNoAnswers' /\ OnlyLatePanics'
    BY <2>1 DEF SocketInv, ReaderSound, EventsAreNoAnswers, OnlyLatePanics, Reading
  <2>8. GreetingAhead' => GreetingAhead
    BY <2>1, <2>3, <2>4 DEF GreetingAhead, Reading
  <2>9. GreetingSound'
    <3>1. \A i, j \in 1 .. Len(queue') : queue'[i] = "ready" /\ queue'[j] = "ready" => i = j
      BY <2>3, <2>4 DEF SocketInv, GreetingSound
    <3> QED
      BY <2>1, <2>2, <2>8, <3>1 DEF SocketInv, GreetingSound, Reading
  <2>10. SendsOnlySubscribed'
    BY <2>1 DEF SocketInv, SendsOnlySubscribed
  <2> QED
    BY <2>5, <2>6, <2>7, <2>9, <2>10 DEF SocketInv
<1> QED
  BY <1>1, <1>2, <1>3, <1>4, <1>5 DEF Reader

\* The steps of the connection loop, the network's, and Disconnect.  Only
\* CancelAllRequests touches a request.
LEMMA LoopInv ==
    SocketInv /\ (LoopStep \/ Drop \/ (Disconnect /\ UNCHANGED crashed)) => SocketInv'
<1> SUFFICES ASSUME SocketInv, LoopStep \/ Drop \/ (Disconnect /\ UNCHANGED crashed)
             PROVE  SocketInv'
  OBVIOUS
<1> USE DEF loopVars, reqVars, workVars, connVars
<1> DEFINE rest == <<packetsSent, req, lapsed, mistaken, reader, crashed>>
<1>0. /\ loop \notin {"reading", "ending"} => worker = "gone" /\ queue = << >> /\ ~ greeted
      /\ reader.k # "read" => loop = "reading"
      /\ reader.k = "read" => reader.val = "none"
      /\ canSend => loop \in {"reading", "ending", "ended", "after"}
      /\ canSend \in BOOLEAN /\ greeted \in BOOLEAN
  BY DEF SocketInv, SocketTypeOK, GreetingSound, ReaderSound, SendsOnlySubscribed
<1>1. CASE CancelAllRequests /\ UNCHANGED crashed
  <2>1. /\ loop = "ended" /\ loop' = "after"
        /\ UNCHANGED <<attempts, stop, conn, err, greeted, packetsSent, lapsed, answered, mistaken,
                       canSend, everUp, queue, worker, step, reader, crashed>>
    BY <1>1 DEF CancelAllRequests
  <2>2. PICK missed \in SUBSET Callers : req' = Cancelled(missed)
    BY <1>1 DEF CancelAllRequests
  <2>3. ASSUME NEW r \in Callers
        PROVE  /\ req'[r] \in [pc : {"idle", "waiting", "made", "ack", "resp"},
                              kind : Kinds \cup {"none"}, id : 0 .. (IdMod - 1),
                              ack : {"none", "open", "own", "closed"},
                              resp : {"none", "open", "own", "event", "closed"}]
               /\ req'[r].pc = req[r].pc /\ req'[r].id = req[r].id
               /\ req'[r].ack \in {req[r].ack, "closed"} /\ req'[r].ack # "open"
               /\ req'[r].resp \in {req[r].resp, "closed"} /\ req'[r].resp # "open"
               /\ req[r].ack = "none" => req'[r].ack = "none"
               /\ req[r].resp = "none" => req'[r].resp = "none"
    <3>1. req[r] \in [pc : {"idle", "waiting", "made", "ack", "resp"},
                      kind : Kinds \cup {"none"}, id : 0 .. (IdMod - 1),
                      ack : {"none", "open", "own", "closed"},
                      resp : {"none", "open", "own", "event", "closed"}]
      BY DEF SocketInv, SocketTypeOK
    <3>2. PICK a \in {req[r].ack, "closed"}, b \in {req[r].resp, "closed"} :
             /\ req'[r] = [req[r] EXCEPT !.ack = a, !.resp = b]
             /\ a # "open" /\ b # "open"
             /\ req[r].ack = "none" => a = "none"
             /\ req[r].resp = "none" => b = "none"
      BY <2>2 DEF Cancelled
    <3> QED
      BY <3>1, <3>2
  <2>4. SocketTypeOK'
    <3>1. req' = [r \in Callers |-> req'[r]]
      BY <2>2 DEF Cancelled
    <3> QED
      BY <2>1, <2>3, <3>1 DEF SocketInv, SocketTypeOK
  <2>5. RequestsSound' /\ NobodyLeftWaiting'
    BY <2>1, <2>3 DEF SocketInv, RequestsSound, NobodyLeftWaiting, Callers
  <2>6. ReaderSound' /\ EventsAreNoAnswers' /\ OnlyLatePanics'
    BY <1>0, <2>1 DEF SocketInv, ReaderSound, EventsAreNoAnswers, OnlyLatePanics
  <2>7. GreetingSound' /\ SendsOnlySubscribed'
    BY <2>1 DEF SocketInv, GreetingSound, GreetingAhead, SendsOnlySubscribed
  <2> QED
    BY <2>4, <2>5, <2>6, <2>7 DEF SocketInv
<1>2. CASE Start /\ UNCHANGED crashed
  <2>1. /\ loop \in {"idle", "stopped"} /\ conn = "nil" /\ loop' = "top" /\ attempts' = 1
        /\ canSend' = FALSE
        /\ UNCHANGED <<stop, conn, err, greeted, answered, everUp, queue, worker, step>>
        /\ UNCHANGED rest
    BY <1>2 DEF Start
  <2>2. /\ RequestsSound' /\ ReaderSound' /\ NobodyLeftWaiting' /\ EventsAreNoAnswers'
        /\ OnlyLatePanics'
    BY <1>0, <2>1, OtherFrame
  <2>3. SocketTypeOK'
    <3>1. canSend' \in BOOLEAN
      BY <2>1
    <3> QED
      BY <2>1, <3>1, SocketAssumption DEF SocketInv, SocketTypeOK
  <2>4. GreetingSound' /\ SendsOnlySubscribed'
    BY <1>0, <2>1 DEF SocketInv, GreetingSound, GreetingAhead, SendsOnlySubscribed
  <2> QED
    BY <2>2, <2>3, <2>4 DEF SocketInv
<1>3. CASE Dial /\ UNCHANGED crashed
  <2>1. /\ loop = "top" /\ loop' \in {"after", "dialed"} /\ err' \in {"open", "dial", "none"}
        /\ UNCHANGED <<attempts, stop, conn, greeted, answered, canSend, everUp, queue, worker, step>>
        /\ UNCHANGED rest
    BY <1>3 DEF Dial
  <2>2. /\ RequestsSound' /\ ReaderSound' /\ NobodyLeftWaiting' /\ EventsAreNoAnswers'
        /\ OnlyLatePanics'
    BY <1>0, <2>1, OtherFrame
  <2>3. SocketTypeOK' /\ GreetingSound' /\ SendsOnlySubscribed'
    BY <1>0, <2>1
       DEF SocketInv, SocketTypeOK, GreetingSound, GreetingAhead, SendsOnlySubscribed
  <2> QED
    BY <2>2, <2>3 DEF SocketInv
<1>4. CASE Open /\ UNCHANGED crashed
  <2>1. /\ loop = "dialed"
        /\ \/ conn' = "open" /\ loop' = "reading" /\ worker' = "idle" /\ err' = err
           \/ conn' = "dead" /\ loop' = "after" /\ err' = "send" /\ worker' = worker
        /\ UNCHANGED <<attempts, stop, greeted, answered, canSend, everUp, queue, step>>
        /\ UNCHANGED rest
    BY <1>4 DEF Open
  <2>2. /\ RequestsSound' /\ ReaderSound' /\ NobodyLeftWaiting' /\ EventsAreNoAnswers'
        /\ OnlyLatePanics'
    BY <1>0, <2>1, OtherFrame
  <2>3. step = 0 /\ ~ canSend /\ ~ GreetingAhead /\ queue = << >>
    BY <1>0, <2>1 DEF SocketInv, GreetingSound, GreetingAhead
  <2>4. SocketTypeOK' /\ SendsOnlySubscribed'
    BY <2>1, <2>3 DEF SocketInv, SocketTypeOK, SendsOnlySubscribed
  <2>5. GreetingSound'
    BY <1>0, <2>1, <2>3 DEF SocketInv, GreetingSound, GreetingAhead
  <2> QED
    BY <2>2, <2>4, <2>5 DEF SocketInv
<1>5. CASE ReadEnds /\ UNCHANGED crashed
  <2>1. /\ loop = "reading" /\ reader.k = "read" /\ conn = "dead" /\ loop' = "ending"
        /\ err' = IF err = "none" THEN "loop" ELSE err
        /\ UNCHANGED <<attempts, stop, conn, greeted, answered, canSend, everUp, queue, worker, step>>
        /\ UNCHANGED rest
    BY <1>5 DEF ReadEnds
  <2>2. /\ RequestsSound' /\ ReaderSound' /\ NobodyLeftWaiting' /\ EventsAreNoAnswers'
        /\ OnlyLatePanics'
    BY <2>1, OtherFrame
  <2>3. SocketTypeOK' /\ GreetingSound' /\ SendsOnlySubscribed'
    BY <2>1 DEF SocketInv, SocketTypeOK, GreetingSound, GreetingAhead, SendsOnlySubscribed
  <2> QED
    BY <2>2, <2>3 DEF SocketInv
<1>6. CASE LoopEnds /\ UNCHANGED crashed
  <2>1. /\ loop = "ending" /\ worker = "gone" /\ loop' = "ended" /\ conn' = "nil"
        /\ greeted' = FALSE /\ queue' = << >>
        /\ UNCHANGED <<attempts, stop, err, answered, canSend, everUp, worker, step>>
        /\ UNCHANGED rest
    BY <1>6 DEF LoopEnds
  <2>2. /\ RequestsSound' /\ ReaderSound' /\ NobodyLeftWaiting' /\ EventsAreNoAnswers'
        /\ OnlyLatePanics'
    BY <1>0, <2>1, OtherFrame
  <2>3. SocketTypeOK' /\ SendsOnlySubscribed'
    <3>1. queue' \in Seq({"ready", "event"}) /\ Len(queue') <= QueueCap
      BY <2>1, SocketAssumption
    <3>2. greeted' \in BOOLEAN
      BY <2>1
    <3> QED
      BY <2>1, <3>1, <3>2 DEF SocketInv, SocketTypeOK, SendsOnlySubscribed
  <2>4. GreetingSound'
    BY <1>0, <2>1 DEF SocketInv, GreetingSound, GreetingAhead
  <2> QED
    BY <2>2, <2>3, <2>4 DEF SocketInv
<1>7. CASE Judge /\ UNCHANGED crashed
  <2>1. /\ loop = "after" /\ loop' \in {"stopped", "backoff"} /\ canSend' = FALSE /\ err' = "none"
        /\ attempts' \in {attempts, attempts + 1, 0} /\ (attempts > MaxBadLogins => attempts' # attempts + 1)
        /\ UNCHANGED <<stop, conn, greeted, answered, everUp, queue, worker, step>>
        /\ UNCHANGED rest
    BY <1>7 DEF Judge, SocketInv, SocketTypeOK
  <2>2. /\ RequestsSound' /\ ReaderSound' /\ NobodyLeftWaiting' /\ EventsAreNoAnswers'
        /\ OnlyLatePanics'
    BY <1>0, <2>1, OtherFrame
  <2>3. SocketTypeOK' /\ GreetingSound' /\ SendsOnlySubscribed'
    <3>1. attempts' \in 0 .. (MaxBadLogins + 1)
      BY <2>1, SocketAssumption DEF SocketInv, SocketTypeOK
    <3> QED
      BY <1>0, <2>1, <3>1
         DEF SocketInv, SocketTypeOK, GreetingSound, GreetingAhead, SendsOnlySubscribed
  <2> QED
    BY <2>2, <2>3 DEF SocketInv
<1>8. CASE Backoff /\ UNCHANGED crashed
  <2>1. /\ loop = "backoff" /\ loop' \in {"stopped", "top"} /\ canSend' = FALSE
        /\ UNCHANGED <<attempts, stop, conn, err, greeted, answered, everUp, queue, worker, step>>
        /\ UNCHANGED rest
    BY <1>8 DEF Backoff
  <2>2. /\ RequestsSound' /\ ReaderSound' /\ NobodyLeftWaiting' /\ EventsAreNoAnswers'
        /\ OnlyLatePanics'
    BY <1>0, <2>1, OtherFrame
  <2>3. SocketTypeOK'
    <3>1. canSend' \in BOOLEAN
      BY <2>1
    <3> QED
      BY <2>1, <3>1 DEF SocketInv, SocketTypeOK
  <2>4. GreetingSound' /\ SendsOnlySubscribed'
    BY <1>0, <2>1 DEF SocketInv, GreetingSound, GreetingAhead, SendsOnlySubscribed
  <2> QED
    BY <2>2, <2>3, <2>4 DEF SocketInv
<1>9. CASE Drop \/ (Disconnect /\ UNCHANGED crashed)
  <2>1. /\ UNCHANGED <<loop, attempts, err, greeted, answered, canSend, everUp, queue, worker, step>>
        /\ UNCHANGED rest
        /\ conn' \in {conn, "dead"} /\ stop' \in BOOLEAN
    BY <1>9 DEF Drop, Disconnect, SocketInv, SocketTypeOK
  <2>2. /\ RequestsSound' /\ ReaderSound' /\ NobodyLeftWaiting' /\ EventsAreNoAnswers'
        /\ OnlyLatePanics'
    BY <1>0, <2>1, OtherFrame
  <2>3. SocketTypeOK' /\ GreetingSound' /\ SendsOnlySubscribed'
    BY <2>1 DEF SocketInv, SocketTypeOK, GreetingSound, GreetingAhead, SendsOnlySubscribed
  <2> QED
    BY <2>2, <2>3 DEF SocketInv
<1> QED
  BY <1>1, <1>2, <1>3, <1>4, <1>5, <1>6, <1>7, <1>8, <1>9 DEF LoopStep

\* SocketInv is inductive.
LEMMA NextInv == SocketInv /\ [Next]_socketVars => SocketInv'
<1>1. SocketInv /\ UNCHANGED socketVars => SocketInv'
  BY DEF socketVars, SocketInv, SocketTypeOK, RequestsSound, ReaderSound, Awaited, GreetingSound,
         GreetingAhead, NobodyLeftWaiting, EventsAreNoAnswers, OnlyLatePanics, SendsOnlySubscribed
<1> QED
  BY <1>1, AskInv, ProceedInv, ReaderInv, WorkerInv, LoopInv DEF Next

\* The socket keeps its invariant.
THEOREM SocketSafe == Spec => []SocketInv
BY InitInv, NextInv, PTL DEF Spec

\* Nobody waits for an answer of a connection that is gone.
THEOREM NobodyWaitsOnNothing == Spec => []NobodyLeftWaiting
<1>1. SocketInv => NobodyLeftWaiting
  BY DEF SocketInv
<1> QED
  BY <1>1, SocketSafe, PTL

\* No event is taken for a response, whatever ids are handed out.
THEOREM NoEventMistaken == Spec => []EventsAreNoAnswers
<1>1. SocketInv => EventsAreNoAnswers
  BY DEF SocketInv
<1> QED
  BY <1>1, SocketSafe, PTL

\* The process ends on a closed channel only after a request gave up.
THEOREM PanicsOnlyLate == Spec => []OnlyLatePanics
<1>1. SocketInv => OnlyLatePanics
  BY DEF SocketInv
<1> QED
  BY <1>1, SocketSafe, PTL

\* The gate is open only on a connection that was subscribed.
THEOREM GateAfterSubscription == Spec => []SendsOnlySubscribed
<1>1. SocketInv => SendsOnlySubscribed
  BY DEF SocketInv
<1> QED
  BY <1>1, SocketSafe, PTL

-----------------------------------------------------------------------------
(* The socket of Instagram's typing notices.                                 *)

Letters == {<<"opened">>, <<"refused">>, <<"odd">>, <<"garbled">>, <<"acked">>, <<"news", "acked">>,
            <<"pong">>, <<"strange", "pong">>, <<"notice">>, <<"news", "notice">>, <<"short", "news">>,
            <<"strange", "news">>, <<"text">>}
Pongs == {<<"pong">>, <<"strange", "pong">>}
Rests == Letters \cup {<< >>, <<"news">>}
Wires == Seq(Letters)
Copiers == [pc : {"read", "hand", "spin", "gone"}, rest : Rests]

NetTypes == link \in {"open", "broken", "closed"} /\ dumb \in BOOLEAN /\ wire \in Wires
CopierTypes == copier \in Copiers /\ (copier.pc = "hand" => copier.rest # << >>)
SenderTypes == sender \in {"wait", "gone", "open", "parameters", "ping", "ack"}
OtherTypes == /\ handler \in {"wait", "ack", "gone"} /\ pinger \in {"wait", "ping", "late", "gone"}
              /\ watch \in {"on", "gone"} /\ silence \in 0 .. 2
MainTypes ==
  main \in {"off", "open", "awaitOpened", "parameters", "awaitAcked", "serving", "joining", "back"}
FlagTypes == opened \in BOOLEAN /\ acked \in BOOLEAN /\ done \in BOOLEAN /\ swallowed \in BOOLEAN

GatewayTypeOK == NetTypes /\ CopierTypes /\ SenderTypes /\ OtherTypes /\ MainTypes /\ FlagTypes

HasPong(messages) == \E i \in DOMAIN messages : messages[i] \in Pongs

\* A ping, or the pong it was answered with, is under way.
PongComing == \/ pinger = "ping" \/ sender = "ping"
              \/ HasPong(wire)
              \/ copier.pc = "hand" /\ copier.rest \in Pongs

Excused == dumb \/ Spinning \/ swallowed

GatewayInv ==
  /\ GatewayTypeOK
  /\ done => link = "closed" /\ cause # "none"
  /\ sender = "gone" \/ copier.pc = "gone" \/ watch = "gone" => done
  /\ handler = "gone" => copier.pc = "gone"
  /\ pinger = "late" => done
  /\ main \in {"parameters", "awaitAcked", "serving"} => opened
  /\ main = "serving" => acked
  /\ main = "back" => AllGone
  /\ silence = 1 /\ ~ done => Excused \/ PongComing \/ link # "open"
  /\ silence = 2 /\ ~ done => Excused
  /\ cause = "pong timeout" => Excused

LEMMA GatewayStarts == GatewayInit => GatewayInv
<1> SUFFICES ASSUME GatewayInit PROVE GatewayInv
  OBVIOUS
<1>1. << >> \in Rests
  BY DEF Rests
<1>2. copier \in Copiers /\ copier.pc = "read"
  BY <1>1 DEF GatewayInit, Copiers
<1>3. wire \in Wires
  BY DEF GatewayInit, Wires
<1>4. GatewayTypeOK
  <2>1. /\ link = "closed" /\ dumb = FALSE /\ main = "off" /\ sender = "wait" /\ handler = "wait"
        /\ pinger = "wait" /\ watch = "on" /\ silence = 0
        /\ opened = FALSE /\ acked = FALSE /\ done = FALSE /\ swallowed = FALSE
    BY DEF GatewayInit
  <2>2. NetTypes
    BY <1>3, <2>1 DEF NetTypes
  <2>3. CopierTypes
    BY <1>2 DEF CopierTypes
  <2>4. SenderTypes
    BY <2>1 DEF SenderTypes
  <2>5. OtherTypes
    BY <2>1 DEF OtherTypes
  <2>6. MainTypes
    BY <2>1 DEF MainTypes
  <2>7. FlagTypes
    BY <2>1 DEF FlagTypes
  <2> QED
    BY <2>2, <2>3, <2>4, <2>5, <2>6, <2>7 DEF GatewayTypeOK
<1> QED
  BY <1>2, <1>4 DEF GatewayInit, GatewayInv

\* What a frame leaves of its message; where a pong is.
LEMMA Singles ==
  ASSUME NEW a
  PROVE  Head(<<a>>) = a /\ Tail(<<a>>) = << >>
OBVIOUS

LEMMA Doubles ==
  ASSUME NEW a, NEW b
  PROVE  Head(<<a, b>>) = a /\ Tail(<<a, b>>) = <<b>> /\ b \in ToSet(<<a, b>>)
<1>1. Head(<<a, b>>) = a /\ Tail(<<a, b>>) = <<b>> /\ 2 \in DOMAIN <<a, b>> /\ <<a, b>>[2] = b
  OBVIOUS
<1> QED
  BY <1>1 DEF ToSet

LEMMA RestOfLetters ==
  ASSUME NEW rest \in Rests, rest # << >>
  PROVE  /\ Head(rest) \notin {"strange", "short"} => Tail(rest) \in Rests
         /\ rest \in Pongs => \/ Head(rest) = "pong"
                              \/ Head(rest) = "strange" /\ "pong" \in ToSet(rest)
<1>1. \/ \E a \in {"opened", "refused", "odd", "garbled", "acked", "pong", "notice", "text", "news"} :
             rest = <<a>>
      \/ rest = <<"news", "acked">> \/ rest = <<"news", "notice">>
      \/ rest = <<"strange", "pong">> \/ rest = <<"short", "news">> \/ rest = <<"strange", "news">>
  BY DEF Rests, Letters
<1>2. ASSUME NEW a, rest = <<a>>
      PROVE  /\ Tail(rest) \in Rests
             /\ rest \in Pongs => Head(rest) = "pong"
  <2>1. Head(rest) = a /\ Tail(rest) = << >>
    BY <1>2, Singles
  <2>2. rest \in Pongs => a = "pong"
    BY <1>2 DEF Pongs
  <2> QED
    BY <2>1, <2>2 DEF Rests
<1>3. ASSUME NEW a, NEW b, rest = <<a, b>>, rest \in Letters
      PROVE  /\ a \notin {"strange", "short"} => Tail(rest) \in Rests
             /\ Head(rest) = a
             /\ rest \in Pongs => a = "strange" /\ "pong" \in ToSet(rest)
  <2>1. Head(rest) = a /\ Tail(rest) = <<b>> /\ b \in ToSet(rest)
    BY <1>3, Doubles
  <2>2. a \notin {"strange", "short"} => b \in {"acked", "notice"}
    BY <1>3 DEF Letters
  <2>3. rest \in Pongs => a = "strange" /\ b = "pong"
    BY <1>3 DEF Pongs
  <2>4. <<"acked">> \in Rests /\ <<"notice">> \in Rests
    BY DEF Rests, Letters
  <2> QED
    BY <2>1, <2>2, <2>3, <2>4
<1>4. CASE \E a \in {"opened", "refused", "odd", "garbled", "acked", "pong", "notice", "text", "news"} :
             rest = <<a>>
  BY <1>2, <1>4
<1>5. CASE \/ rest = <<"news", "acked">> \/ rest = <<"news", "notice">>
           \/ rest = <<"strange", "pong">> \/ rest = <<"short", "news">> \/ rest = <<"strange", "news">>
  <2>1. rest \in Letters
    BY <1>5 DEF Letters
  <2> QED
    BY <1>3, <1>5, <2>1
<1> QED
  BY <1>1, <1>4, <1>5

\* The reader.
LEMMA CopyingTypes ==
  ASSUME NEW rest \in Rests
  PROVE  /\ Copying(rest) \in Copiers
         /\ Copying(rest).rest = rest
         /\ Copying(rest).pc = IF rest = << >> THEN "read" ELSE "hand"
BY DEF Copying, Copiers

LEMMA Appended ==
  ASSUME NEW w \in Wires, NEW m \in Letters
  PROVE  /\ Append(w, m) \in Wires
         /\ HasPong(w) \/ m \in Pongs => HasPong(Append(w, m))
<1>1. /\ Append(w, m) \in Wires /\ Len(w) + 1 \in DOMAIN Append(w, m)
      /\ Append(w, m)[Len(w) + 1] = m
      /\ \A i \in DOMAIN w : i \in DOMAIN Append(w, m) /\ Append(w, m)[i] = w[i]
  BY DEF Wires
<1> QED
  BY <1>1 DEF HasPong

LEMMA Shortened ==
  ASSUME NEW w \in Wires, w # << >>
  PROVE  /\ Tail(w) \in Wires /\ Head(w) \in Letters
         /\ HasPong(w) => Head(w) \in Pongs \/ HasPong(Tail(w))
<1>1. /\ Tail(w) \in Wires /\ Head(w) \in Letters /\ Head(w) = w[1]
      /\ \A i \in DOMAIN w : i = 1 \/ (i - 1 \in DOMAIN Tail(w) /\ Tail(w)[i - 1] = w[i])
  BY DEF Wires
<1> QED
  BY <1>1 DEF HasPong

LEMMA LettersAreRests == Letters \subseteq Rests /\ << >> \notin Letters /\ << >> \in Rests
<1>1. << >> \notin Letters
  BY DEF Letters
<1> QED
  BY <1>1 DEF Rests

-----------------------------------------------------------------------------
(* Step by step. *)

LEMMA ReadMessageSound == GatewayInv /\ ReadMessage => GatewayInv'
<1> SUFFICES ASSUME GatewayInv, ReadMessage PROVE GatewayInv'
  OBVIOUS
<1>1. /\ copier.pc = "read" /\ link = "open" /\ wire # << >> /\ copier' = Copying(Head(wire))
      /\ wire' = Tail(wire)
      /\ UNCHANGED <<main, sender, handler, pinger, watch, silence, opened, acked, swallowed, done, cause,
                     link, dumb>>
  BY DEF ReadMessage, NoFatal, Around
<1>2. /\ wire' \in Wires /\ Head(wire) \in Letters
      /\ HasPong(wire) => Head(wire) \in Pongs \/ HasPong(wire')
  BY <1>1, Shortened DEF GatewayInv, GatewayTypeOK, NetTypes
<1>3. /\ copier' \in Copiers
      /\ copier'.pc = "hand" /\ copier'.rest = Head(wire) /\ copier'.rest # << >>
  BY <1>1, <1>2, CopyingTypes, LettersAreRests
<1>4. GatewayTypeOK'
  <2>1. NetTypes'
    BY <1>1, <1>2, <1>3 DEF GatewayInv, GatewayTypeOK, NetTypes
  <2>2. CopierTypes'
    BY <1>1, <1>2, <1>3 DEF GatewayInv, GatewayTypeOK, CopierTypes
  <2>3. SenderTypes'
    BY <1>1, <1>2, <1>3 DEF GatewayInv, GatewayTypeOK, SenderTypes
  <2>4. OtherTypes'
    BY <1>1, <1>2, <1>3 DEF GatewayInv, GatewayTypeOK, OtherTypes
  <2>5. MainTypes'
    BY <1>1, <1>2, <1>3 DEF GatewayInv, GatewayTypeOK, MainTypes
  <2>6. FlagTypes'
    BY <1>1, <1>2, <1>3 DEF GatewayInv, GatewayTypeOK, FlagTypes
  <2> QED
    BY <2>1, <2>2, <2>3, <2>4, <2>5, <2>6 DEF GatewayTypeOK
<1>5. PongComing => PongComing'
  BY <1>1, <1>2, <1>3 DEF PongComing
<1>6. Excused => Excused'
  BY <1>1 DEF Excused, Spinning
<1> QED
  BY <1>1, <1>3, <1>4, <1>5, <1>6 DEF GatewayInv, AllGone

LEMMA ReadFailsSound == GatewayInv /\ ReadFails => GatewayInv'
<1> SUFFICES ASSUME GatewayInv, ReadFails PROVE GatewayInv'
  OBVIOUS
<1>1. /\ copier.pc = "read" /\ copier' = [copier EXCEPT !.pc = "gone"] /\ Fatal("error")
      /\ UNCHANGED <<wire, main, sender, handler, pinger, watch, silence, opened, acked, swallowed, dumb>>
  BY DEF ReadFails, Around
<1>2. copier' \in Copiers /\ copier'.pc = "gone"
  BY <1>1 DEF GatewayInv, GatewayTypeOK, CopierTypes, Copiers
<1>3. done' = TRUE /\ link' = "closed" /\ cause' \in {cause, "error"} /\ cause' # "none"
  BY <1>1 DEF Fatal, GatewayInv
<1>4. GatewayTypeOK'
  <2>1. NetTypes'
    BY <1>1, <1>2, <1>3 DEF GatewayInv, GatewayTypeOK, NetTypes
  <2>2. CopierTypes'
    BY <1>1, <1>2, <1>3 DEF GatewayInv, GatewayTypeOK, CopierTypes
  <2>3. SenderTypes'
    BY <1>1, <1>2, <1>3 DEF GatewayInv, GatewayTypeOK, SenderTypes
  <2>4. OtherTypes'
    BY <1>1, <1>2, <1>3 DEF GatewayInv, GatewayTypeOK, OtherTypes
  <2>5. MainTypes'
    BY <1>1, <1>2, <1>3 DEF GatewayInv, GatewayTypeOK, MainTypes
  <2>6. FlagTypes'
    BY <1>1, <1>2, <1>3 DEF GatewayInv, GatewayTypeOK, FlagTypes
  <2> QED
    BY <2>1, <2>2, <2>3, <2>4, <2>5, <2>6 DEF GatewayTypeOK
<1>5. Excused => Excused'
  BY <1>1 DEF Excused, Spinning
<1> QED
  BY <1>1, <1>2, <1>3, <1>4, <1>5 DEF GatewayInv, AllGone

LEMMA UnmarshalSound == GatewayInv /\ Unmarshal => GatewayInv'
<1> SUFFICES ASSUME GatewayInv, Unmarshal PROVE GatewayInv'
  OBVIOUS
<1>1. /\ copier.pc = "hand"
      /\ UNCHANGED <<wire, main, sender, handler, pinger, watch, silence, opened, acked, swallowed, done, cause,
                     link, dumb>>
  BY DEF Unmarshal, NoFatal, Around
<1>2. copier.rest \in Rests /\ copier.rest # << >>
  BY <1>1 DEF GatewayInv, GatewayTypeOK, CopierTypes, Copiers
<1>3. /\ copier' \in Copiers
      /\ copier'.pc = "read" \/ copier'.pc = "spin"
      /\ copier.rest \notin Pongs \/ copier'.pc = "spin"
  <2>1. CASE Head(copier.rest) = "short" /\ copier' = Copying(<< >>)
    BY <1>2, <2>1, RestOfLetters, CopyingTypes, LettersAreRests
  <2>2. CASE copier' = [copier EXCEPT !.pc = "spin"]
    BY <2>2 DEF GatewayInv, GatewayTypeOK, CopierTypes, Copiers
  <2> QED
    BY <2>1, <2>2 DEF Unmarshal
<1>4. GatewayTypeOK'
  <2>1. NetTypes'
    BY <1>1, <1>3 DEF GatewayInv, GatewayTypeOK, NetTypes
  <2>2. CopierTypes'
    BY <1>1, <1>3 DEF GatewayInv, GatewayTypeOK, CopierTypes
  <2>3. SenderTypes'
    BY <1>1, <1>3 DEF GatewayInv, GatewayTypeOK, SenderTypes
  <2>4. OtherTypes'
    BY <1>1, <1>3 DEF GatewayInv, GatewayTypeOK, OtherTypes
  <2>5. MainTypes'
    BY <1>1, <1>3 DEF GatewayInv, GatewayTypeOK, MainTypes
  <2>6. FlagTypes'
    BY <1>1, <1>3 DEF GatewayInv, GatewayTypeOK, FlagTypes
  <2> QED
    BY <2>1, <2>2, <2>3, <2>4, <2>5, <2>6 DEF GatewayTypeOK
<1>5. PongComing => PongComing' \/ Excused'
  BY <1>1, <1>3 DEF PongComing, Excused, Spinning
<1>6. Excused => Excused'
  BY <1>1 DEF Excused, Spinning
<1> QED
  BY <1>1, <1>3, <1>4, <1>5, <1>6 DEF GatewayInv, AllGone

LEMMA HandleFrameSound == GatewayInv /\ HandleFrame => GatewayInv'
<1> SUFFICES ASSUME GatewayInv, HandleFrame PROVE GatewayInv'
  OBVIOUS
<1> DEFINE frame == Head(copier.rest)
<1>1. /\ copier.pc = "hand" /\ frame \in Known /\ handler = "wait"
      /\ copier' = Copying(IF frame = "strange" THEN << >> ELSE Tail(copier.rest))
      /\ swallowed' = (swallowed \/ (frame = "strange" /\ "pong" \in ToSet(copier.rest)))
      /\ silence' = IF frame = "pong" THEN 0 ELSE silence
      /\ opened' = (opened \/ frame = "opened") /\ acked' = (acked \/ frame = "acked")
      /\ handler' \in {"wait", "ack"}
      /\ Fatal("error") \/ NoFatal
      /\ UNCHANGED <<wire, main, sender, pinger, watch, dumb>>
  BY DEF HandleFrame, Around
<1>2. copier.rest \in Rests /\ copier.rest # << >>
  BY <1>1 DEF GatewayInv, GatewayTypeOK, CopierTypes, Copiers
<1>3. /\ copier' \in Copiers
      /\ copier'.pc \in {"read", "hand"} /\ (copier'.pc = "hand" => copier'.rest # << >>)
  <2>1. frame # "strange" => Tail(copier.rest) \in Rests
    BY <1>1, <1>2, RestOfLetters DEF Known
  <2> QED
    BY <1>1, <2>1, CopyingTypes, LettersAreRests
<1>4. copier.rest \in Pongs => silence' = 0 \/ swallowed'
  BY <1>1, <1>2, RestOfLetters
<1> HIDE DEF frame
<1>5. /\ done' \in BOOLEAN /\ link' \in {"open", "broken", "closed"}
      /\ done' => link' = "closed" /\ cause' # "none"
      /\ done => done'
      /\ link # "open" => link' # "open"
      /\ cause' = "pong timeout" => cause = "pong timeout"
  <2>1. CASE Fatal("error")
    BY <2>1 DEF Fatal, GatewayInv, GatewayTypeOK, FlagTypes, NetTypes
  <2>2. CASE NoFatal
    BY <2>2 DEF NoFatal, GatewayInv, GatewayTypeOK, FlagTypes, NetTypes
  <2> QED
    BY <1>1, <2>1, <2>2
<1>6. GatewayTypeOK'
  <2>1. NetTypes'
    BY <1>1, <1>3, <1>5 DEF GatewayInv, GatewayTypeOK, NetTypes
  <2>2. CopierTypes'
    BY <1>1, <1>3, <1>5 DEF GatewayInv, GatewayTypeOK, CopierTypes
  <2>3. SenderTypes'
    BY <1>1, <1>3, <1>5 DEF GatewayInv, GatewayTypeOK, SenderTypes
  <2>4. OtherTypes'
    <3>1. handler' \in {"wait", "ack"} /\ silence' \in {0, silence}
      BY <1>1
    <3>2. pinger' = pinger /\ watch' = watch /\ OtherTypes
      BY <1>1 DEF GatewayInv, GatewayTypeOK
    <3> QED
      BY <3>1, <3>2 DEF OtherTypes
  <2>5. MainTypes'
    BY <1>1, <1>3, <1>5 DEF GatewayInv, GatewayTypeOK, MainTypes
  <2>6. FlagTypes'
    BY <1>1, <1>3, <1>5 DEF GatewayInv, GatewayTypeOK, FlagTypes
  <2> QED
    BY <2>1, <2>2, <2>3, <2>4, <2>5, <2>6 DEF GatewayTypeOK
<1>7. PongComing => PongComing' \/ silence' = 0 \/ Excused'
  BY <1>1, <1>4 DEF PongComing, Excused
<1>8. Excused => Excused'
  BY <1>1 DEF Excused, Spinning
<1>9. main # "back"
  BY <1>1 DEF GatewayInv, AllGone
<1>10. handler' # "gone" /\ copier.pc # "gone" /\ copier'.pc # "gone"
  BY <1>1, <1>3
<1>11. main' = main /\ sender' = sender /\ pinger' = pinger /\ watch' = watch
  BY <1>1
<1>12. (opened => opened') /\ (acked => acked')
  BY <1>1, Zenon
<1>13. silence' = 0 \/ silence' = silence
  BY <1>1
<1>14. silence' = 1 /\ ~ done' => Excused' \/ PongComing' \/ link' # "open"
  <2>1. silence' = 1 => silence' # 0
    OBVIOUS
  <2>2. silence = 1 /\ ~ done => Excused \/ PongComing \/ link # "open"
    BY DEF GatewayInv
  <2> QED
    BY <1>5, <1>7, <1>8, <1>13, <2>1, <2>2, Zenon
<1>15. silence' = 2 /\ ~ done' => Excused'
  <2>1. silence' = 2 => silence' # 0
    OBVIOUS
  <2>2. silence = 2 /\ ~ done => Excused
    BY DEF GatewayInv
  <2> QED
    BY <1>5, <1>8, <1>13, <2>1, <2>2, Zenon
<1> QED
  BY <1>5, <1>6, <1>8, <1>9, <1>10, <1>11, <1>12, <1>14, <1>15, Zenon DEF GatewayInv

LEMMA HandlerEndsSound == GatewayInv /\ HandlerEnds => GatewayInv'
<1> SUFFICES ASSUME GatewayInv, HandlerEnds PROVE GatewayInv'
  OBVIOUS
<1>1. /\ handler = "wait" /\ copier.pc = "gone" /\ handler' = "gone"
      /\ UNCHANGED <<wire, main, copier, sender, pinger, watch, silence, opened, acked, swallowed, done, cause, link, dumb>>
  BY DEF HandlerEnds, NoFatal, Around
<1>20. GatewayTypeOK'
  <2>1. NetTypes'
    BY <1>1 DEF GatewayInv, GatewayTypeOK, NetTypes
  <2>2. CopierTypes'
    BY <1>1 DEF GatewayInv, GatewayTypeOK, CopierTypes
  <2>3. SenderTypes'
    BY <1>1 DEF GatewayInv, GatewayTypeOK, SenderTypes
  <2>4. OtherTypes'
    BY <1>1 DEF GatewayInv, GatewayTypeOK, OtherTypes
  <2>5. MainTypes'
    BY <1>1 DEF GatewayInv, GatewayTypeOK, MainTypes
  <2>6. FlagTypes'
    BY <1>1 DEF GatewayInv, GatewayTypeOK, FlagTypes
  <2> QED
    BY <2>1, <2>2, <2>3, <2>4, <2>5, <2>6 DEF GatewayTypeOK
<1>21. PongComing => PongComing'
  BY <1>1 DEF PongComing
<1>22. Excused => Excused'
  BY <1>1 DEF Excused, Spinning
<1> QED
  BY <1>1, <1>20, <1>21, <1>22 DEF GatewayInv, AllGone

LEMMA TakeFrameSound == GatewayInv /\ TakeFrame => GatewayInv'
<1> SUFFICES ASSUME GatewayInv, TakeFrame PROVE GatewayInv'
  OBVIOUS
<1>1. sender = "wait" /\ UNCHANGED <<wire, copier, watch, silence, opened, acked, swallowed, done, cause, link, dumb>>
  BY DEF TakeFrame, NoFatal, Around
<1>2. PICK frame \in Offered :
         /\ sender' = frame
         /\ main' = CASE frame = "open" -> "awaitOpened" [] frame = "parameters" -> "awaitAcked" [] OTHER -> main
         /\ handler' = IF frame = "ack" THEN "wait" ELSE handler
         /\ pinger' = IF frame # "ping" THEN pinger ELSE IF pinger = "late" THEN "gone" ELSE "wait"
  BY DEF TakeFrame
<1>3. /\ frame \in {"open", "parameters", "ack", "ping"}
      /\ frame \in {"open", "parameters"} => main = frame
      /\ frame = "ping" => pinger \in {"ping", "late"}
  BY DEF Offered
<1>4. sender' \in {"open", "parameters", "ping", "ack"}
  BY <1>2, <1>3
<1>5. main' = main \/ main' = "awaitOpened" \/ (main' = "awaitAcked" /\ main = "parameters")
  BY <1>2, <1>3
<1>6. handler' = handler \/ handler' = "wait"
  BY <1>2
<1>7. \/ pinger' = pinger /\ (pinger # "ping" \/ frame # "ping")
      \/ sender' = "ping" /\ pinger' \in {"gone", "wait"}
  <2>1. CASE frame # "ping"
    BY <1>2, <2>1
  <2>2. CASE frame = "ping" /\ pinger = "late"
    BY <1>2, <2>2
  <2>3. CASE frame = "ping" /\ pinger # "late"
    BY <1>2, <2>3
  <2> QED
    BY <2>1, <2>2, <2>3
<1>20. GatewayTypeOK'
  <2>1. NetTypes'
    BY <1>1, <1>4, <1>5, <1>6, <1>7 DEF GatewayInv, GatewayTypeOK, NetTypes
  <2>2. CopierTypes'
    BY <1>1, <1>4, <1>5, <1>6, <1>7 DEF GatewayInv, GatewayTypeOK, CopierTypes
  <2>3. SenderTypes'
    BY <1>1, <1>4, <1>5, <1>6, <1>7 DEF GatewayInv, GatewayTypeOK, SenderTypes
  <2>4. OtherTypes'
    BY <1>1, <1>4, <1>5, <1>6, <1>7 DEF GatewayInv, GatewayTypeOK, OtherTypes
  <2>5. MainTypes'
    BY <1>1, <1>4, <1>5, <1>6, <1>7 DEF GatewayInv, GatewayTypeOK, MainTypes
  <2>6. FlagTypes'
    BY <1>1, <1>4, <1>5, <1>6, <1>7 DEF GatewayInv, GatewayTypeOK, FlagTypes
  <2> QED
    BY <2>1, <2>2, <2>3, <2>4, <2>5, <2>6 DEF GatewayTypeOK
<1>8. PongComing => PongComing'
  BY <1>1, <1>7 DEF PongComing
<1>9. Excused => Excused'
  BY <1>1 DEF Excused, Spinning
<1>10. AllGone => sender = "gone"
  BY DEF AllGone
<1>11. main' # "back"
  BY <1>1, <1>5, <1>10 DEF GatewayInv
<1> QED
  BY <1>1, <1>4, <1>5, <1>6, <1>7, <1>20, <1>8, <1>9, <1>11 DEF GatewayInv

LEMMA WriteFrameSound == GatewayInv /\ WriteFrame => GatewayInv'
<1> SUFFICES ASSUME GatewayInv, WriteFrame PROVE GatewayInv'
  OBVIOUS
<1>1. /\ sender \notin {"wait", "gone"} /\ sender' = "wait"
      /\ UNCHANGED <<main, copier, handler, pinger, watch, silence, opened, acked, swallowed, dumb>>
  BY DEF WriteFrame, NoFatal, Around, Fatal
<1>2. \/ link = "open" /\ ~ dumb /\ (\E answer \in Answers(sender) : wire' = Append(wire, answer)) /\ NoFatal
      \/ link = "open" /\ (dumb \/ Answers(sender) = {}) /\ wire' = wire /\ NoFatal
      \/ link = "broken" /\ wire' = wire /\ NoFatal
      \/ link # "open" /\ wire' = wire /\ Fatal("error")
  BY DEF WriteFrame
<1>3. Answers(sender) \subseteq Letters /\ (sender = "ping" => Answers(sender) \subseteq Pongs)
                                       /\ (sender = "ping" => Answers(sender) # {})
  <2>1. CASE sender = "open"
    BY <2>1 DEF Answers, Letters
  <2>2. CASE sender = "parameters"
    BY <2>2 DEF Answers, Letters
  <2>3. CASE sender = "ping"
    BY <2>3 DEF Answers, Letters, Pongs
  <2>4. CASE sender \notin {"open", "parameters", "ping"}
    BY <2>4 DEF Answers
  <2> QED
    BY <2>1, <2>2, <2>3, <2>4
<1>4. /\ wire' \in Wires /\ (HasPong(wire) => HasPong(wire'))
      /\ sender = "ping" => HasPong(wire') \/ dumb \/ link # "open"
  <2>1. wire \in Wires
    BY DEF GatewayInv, GatewayTypeOK, NetTypes
  <2>2. CASE wire' = wire
    BY <1>2, <1>3, <2>1, <2>2
  <2>3. ASSUME NEW answer \in Answers(sender), wire' = Append(wire, answer)
        PROVE  /\ wire' \in Wires /\ (HasPong(wire) => HasPong(wire'))
               /\ sender = "ping" => HasPong(wire')
    <3>1. answer \in Letters /\ (sender = "ping" => answer \in Pongs)
      BY <1>3
    <3> QED
      BY <2>1, <2>3, <3>1, Appended
  <2> QED
    BY <1>2, <2>2, <2>3
<1>5. /\ link' \in {link, "closed"} /\ (link # "open" => link' # "open") /\ (done => done')
      /\ (done' => link' = "closed" /\ cause' # "none")
      /\ (cause' = "pong timeout" => cause = "pong timeout") /\ done' \in BOOLEAN
  <2>1. CASE NoFatal
    BY <2>1 DEF NoFatal, GatewayInv, GatewayTypeOK, FlagTypes
  <2>2. CASE Fatal("error")
    BY <2>2 DEF Fatal, GatewayInv, GatewayTypeOK, FlagTypes
  <2> QED
    BY <1>2, <2>1, <2>2
<1>20. GatewayTypeOK'
  <2>1. NetTypes'
    BY <1>1, <1>4, <1>5 DEF GatewayInv, GatewayTypeOK, NetTypes
  <2>2. CopierTypes'
    BY <1>1, <1>4, <1>5 DEF GatewayInv, GatewayTypeOK, CopierTypes
  <2>3. SenderTypes'
    BY <1>1, <1>4, <1>5 DEF GatewayInv, GatewayTypeOK, SenderTypes
  <2>4. OtherTypes'
    BY <1>1, <1>4, <1>5 DEF GatewayInv, GatewayTypeOK, OtherTypes
  <2>5. MainTypes'
    BY <1>1, <1>4, <1>5 DEF GatewayInv, GatewayTypeOK, MainTypes
  <2>6. FlagTypes'
    BY <1>1, <1>4, <1>5 DEF GatewayInv, GatewayTypeOK, FlagTypes
  <2> QED
    BY <2>1, <2>2, <2>3, <2>4, <2>5, <2>6 DEF GatewayTypeOK
<1>6. PongComing => PongComing' \/ dumb \/ link # "open"
  BY <1>1, <1>4 DEF PongComing
<1>7. Excused => Excused'
  BY <1>1 DEF Excused, Spinning
<1>8. dumb => Excused'
  BY <1>1 DEF Excused
<1>9. main # "back"
  BY <1>1 DEF GatewayInv, AllGone
<1> QED
  BY <1>1, <1>20, <1>5, <1>6, <1>7, <1>8, <1>9 DEF GatewayInv

LEMMA SenderLeavesSound == GatewayInv /\ SenderLeaves => GatewayInv'
<1> SUFFICES ASSUME GatewayInv, SenderLeaves PROVE GatewayInv'
  OBVIOUS
<1>1. /\ sender = "wait" /\ done /\ sender' = "gone"
      /\ UNCHANGED <<wire, main, copier, handler, pinger, watch, silence, opened, acked, swallowed, done, cause, link, dumb>>
  BY DEF SenderLeaves, NoFatal, Around
<1>20. GatewayTypeOK'
  <2>1. NetTypes'
    BY <1>1 DEF GatewayInv, GatewayTypeOK, NetTypes
  <2>2. CopierTypes'
    BY <1>1 DEF GatewayInv, GatewayTypeOK, CopierTypes
  <2>3. SenderTypes'
    BY <1>1 DEF GatewayInv, GatewayTypeOK, SenderTypes
  <2>4. OtherTypes'
    BY <1>1 DEF GatewayInv, GatewayTypeOK, OtherTypes
  <2>5. MainTypes'
    BY <1>1 DEF GatewayInv, GatewayTypeOK, MainTypes
  <2>6. FlagTypes'
    BY <1>1 DEF GatewayInv, GatewayTypeOK, FlagTypes
  <2> QED
    BY <2>1, <2>2, <2>3, <2>4, <2>5, <2>6 DEF GatewayTypeOK
<1>21. PongComing => PongComing'
  BY <1>1 DEF PongComing
<1>22. Excused => Excused'
  BY <1>1 DEF Excused, Spinning
<1> QED
  BY <1>1, <1>20, <1>21, <1>22 DEF GatewayInv, AllGone

LEMMA IntervalSound == GatewayInv /\ Interval => GatewayInv'
<1> SUFFICES ASSUME GatewayInv, Interval PROVE GatewayInv'
  OBVIOUS
<1>1. /\ main = "serving" /\ ~ done /\ ~ UnderWay /\ silence < 2
      /\ pinger' = "ping" /\ silence' = silence + 1
      /\ UNCHANGED <<wire, main, copier, sender, handler, watch, opened, acked, swallowed, done, cause, link, dumb>>
  BY DEF Interval, NoFatal, Around
<1>2. silence' \in 1 .. 2 /\ (silence' = 2 => silence = 1)
  <2>1. silence \in 0 .. 2
    BY DEF GatewayInv, GatewayTypeOK, OtherTypes
  <2>2. silence' = silence + 1 /\ silence < 2
    BY <1>1
  <2> QED
    BY <2>1, <2>2
<1>3. PongComing'
  BY <1>1 DEF PongComing
<1>4. silence = 1 => Excused
  <2> SUFFICES ASSUME silence = 1, ~ Excused PROVE FALSE
    OBVIOUS
  <2>1. PongComing \/ link # "open"
    BY <1>1 DEF GatewayInv
  <2>2. copier.pc \in {"read", "hand"}
    BY <1>1 DEF GatewayInv, GatewayTypeOK, CopierTypes, Copiers, Excused, Spinning
  <2>3. sender = "wait" /\ Offered = {}
    BY <1>1 DEF UnderWay, GatewayInv
  <2>4. handler # "ack" /\ pinger # "ping"
    BY <2>3 DEF Offered
  <2>5. handler = "wait"
    BY <1>1, <2>4 DEF GatewayInv, GatewayTypeOK, OtherTypes
  <2>6. copier.pc = "read" /\ wire = << >> /\ link = "open"
    BY <1>1, <2>2, <2>5 DEF UnderWay
  <2>7. ~ HasPong(wire)
    BY <2>6 DEF HasPong
  <2> QED
    BY <2>1, <2>3, <2>4, <2>6, <2>7 DEF PongComing
<1>20. GatewayTypeOK'
  <2>1. NetTypes'
    BY <1>1, <1>2 DEF GatewayInv, GatewayTypeOK, NetTypes
  <2>2. CopierTypes'
    BY <1>1, <1>2 DEF GatewayInv, GatewayTypeOK, CopierTypes
  <2>3. SenderTypes'
    BY <1>1, <1>2 DEF GatewayInv, GatewayTypeOK, SenderTypes
  <2>4. OtherTypes'
    <3>1. silence' \in 0 .. 2
      BY <1>2
    <3>2. handler' = handler /\ watch' = watch /\ pinger' = "ping"
      BY <1>1
    <3> QED
      BY <3>1, <3>2 DEF GatewayInv, GatewayTypeOK, OtherTypes
  <2>5. MainTypes'
    BY <1>1, <1>2 DEF GatewayInv, GatewayTypeOK, MainTypes
  <2>6. FlagTypes'
    BY <1>1, <1>2 DEF GatewayInv, GatewayTypeOK, FlagTypes
  <2> QED
    BY <2>1, <2>2, <2>3, <2>4, <2>5, <2>6 DEF GatewayTypeOK
<1>5. Excused => Excused'
  BY <1>1 DEF Excused, Spinning
<1> QED
  BY <1>1, <1>20, <1>2, <1>3, <1>4, <1>5 DEF GatewayInv

LEMMA PingerLeavesSound == GatewayInv /\ PingerLeaves => GatewayInv'
<1> SUFFICES ASSUME GatewayInv, PingerLeaves PROVE GatewayInv'
  OBVIOUS
<1>1. /\ pinger = "wait" /\ done /\ pinger' \in {"gone", "late"}
      /\ UNCHANGED <<wire, main, copier, sender, handler, watch, silence, opened, acked, swallowed, done, cause, link, dumb>>
  BY DEF PingerLeaves, NoFatal, Around
<1>20. GatewayTypeOK'
  <2>1. NetTypes'
    BY <1>1 DEF GatewayInv, GatewayTypeOK, NetTypes
  <2>2. CopierTypes'
    BY <1>1 DEF GatewayInv, GatewayTypeOK, CopierTypes
  <2>3. SenderTypes'
    BY <1>1 DEF GatewayInv, GatewayTypeOK, SenderTypes
  <2>4. OtherTypes'
    BY <1>1 DEF GatewayInv, GatewayTypeOK, OtherTypes
  <2>5. MainTypes'
    BY <1>1 DEF GatewayInv, GatewayTypeOK, MainTypes
  <2>6. FlagTypes'
    BY <1>1 DEF GatewayInv, GatewayTypeOK, FlagTypes
  <2> QED
    BY <2>1, <2>2, <2>3, <2>4, <2>5, <2>6 DEF GatewayTypeOK
<1>21. PongComing => PongComing'
  BY <1>1 DEF PongComing
<1>22. Excused => Excused'
  BY <1>1 DEF Excused, Spinning
<1> QED
  BY <1>1, <1>20, <1>21, <1>22 DEF GatewayInv, AllGone, PongComing

LEMMA WatchSound == GatewayInv /\ Watch => GatewayInv'
<1> SUFFICES ASSUME GatewayInv, Watch PROVE GatewayInv'
  OBVIOUS
<1>1. /\ watch = "on" /\ watch' = "gone"
      /\ UNCHANGED <<wire, main, copier, sender, handler, pinger, silence, opened, acked, swallowed, dumb>>
      /\ (silence = 2 /\ Fatal("pong timeout")) \/ (done /\ UNCHANGED <<done, cause, link>>)
  BY DEF Watch, Around, NoFatal
<1>2. /\ done' = TRUE /\ link' = "closed" /\ cause' # "none"
      /\ cause' = "pong timeout" => cause = "pong timeout" \/ (silence = 2 /\ ~ done)
  <2>1. CASE silence = 2 /\ Fatal("pong timeout")
    BY <2>1 DEF Fatal, GatewayInv
  <2>2. CASE done /\ UNCHANGED <<done, cause, link>>
    BY <2>2 DEF GatewayInv, GatewayTypeOK, FlagTypes
  <2> QED
    BY <1>1, <2>1, <2>2
<1>20. GatewayTypeOK'
  <2>1. NetTypes'
    BY <1>1, <1>2 DEF GatewayInv, GatewayTypeOK, NetTypes
  <2>2. CopierTypes'
    BY <1>1, <1>2 DEF GatewayInv, GatewayTypeOK, CopierTypes
  <2>3. SenderTypes'
    BY <1>1, <1>2 DEF GatewayInv, GatewayTypeOK, SenderTypes
  <2>4. OtherTypes'
    BY <1>1, <1>2 DEF GatewayInv, GatewayTypeOK, OtherTypes
  <2>5. MainTypes'
    BY <1>1, <1>2 DEF GatewayInv, GatewayTypeOK, MainTypes
  <2>6. FlagTypes'
    BY <1>1, <1>2 DEF GatewayInv, GatewayTypeOK, FlagTypes
  <2> QED
    BY <2>1, <2>2, <2>3, <2>4, <2>5, <2>6 DEF GatewayTypeOK
<1>3. Excused => Excused'
  BY <1>1 DEF Excused, Spinning
<1>4. main # "back"
  BY <1>1 DEF GatewayInv, AllGone
<1> QED
  BY <1>1, <1>20, <1>2, <1>3, <1>4 DEF GatewayInv

LEMMA MainSound == GatewayInv /\ (Await \/ AwaitEnds \/ Serve \/ Join) => GatewayInv'
<1> SUFFICES ASSUME GatewayInv, (Await \/ AwaitEnds \/ Serve \/ Join) PROVE GatewayInv'
  OBVIOUS
<1>1. /\ UNCHANGED <<wire, copier, sender, handler, pinger, watch, silence, opened, acked, swallowed, dumb>>
      /\ \/ main = "awaitOpened" /\ opened /\ main' = "parameters" /\ UNCHANGED <<done, cause, link>>
         \/ main = "awaitAcked" /\ acked /\ main' = "serving" /\ UNCHANGED <<done, cause, link>>
         \/ main' = "joining" /\ Fatal("error")
         \/ main' = "joining" /\ UNCHANGED <<done, cause, link>>
         \/ main' = "back" /\ AllGone /\ UNCHANGED <<done, cause, link>>
  BY DEF Await, AwaitEnds, Serve, Join, MainGoes, Around, NoFatal
<1>2. /\ link' \in {link, "closed"} /\ (link # "open" => link' # "open") /\ (done => done')
      /\ (done' => link' = "closed" /\ cause' # "none")
      /\ (cause' = "pong timeout" => cause = "pong timeout") /\ done' \in BOOLEAN
  <2>1. CASE UNCHANGED <<done, cause, link>>
    BY <2>1 DEF GatewayInv, GatewayTypeOK, FlagTypes
  <2>2. CASE Fatal("error")
    BY <2>2 DEF Fatal, GatewayInv, GatewayTypeOK, FlagTypes
  <2> QED
    BY <1>1, <2>1, <2>2
<1>3. /\ main' \in {"parameters", "serving", "joining", "back"}
      /\ main' \in {"parameters", "awaitAcked", "serving"} => opened
      /\ main' = "serving" => acked
      /\ main' = "back" => AllGone
  BY <1>1 DEF GatewayInv
<1>20. GatewayTypeOK'
  <2>1. NetTypes'
    BY <1>1, <1>2, <1>3 DEF GatewayInv, GatewayTypeOK, NetTypes
  <2>2. CopierTypes'
    BY <1>1, <1>2, <1>3 DEF GatewayInv, GatewayTypeOK, CopierTypes
  <2>3. SenderTypes'
    BY <1>1, <1>2, <1>3 DEF GatewayInv, GatewayTypeOK, SenderTypes
  <2>4. OtherTypes'
    BY <1>1, <1>2, <1>3 DEF GatewayInv, GatewayTypeOK, OtherTypes
  <2>5. MainTypes'
    BY <1>1, <1>2, <1>3 DEF GatewayInv, GatewayTypeOK, MainTypes
  <2>6. FlagTypes'
    BY <1>1, <1>2, <1>3 DEF GatewayInv, GatewayTypeOK, FlagTypes
  <2> QED
    BY <2>1, <2>2, <2>3, <2>4, <2>5, <2>6 DEF GatewayTypeOK
<1>4. (PongComing <=> PongComing') /\ (Excused <=> Excused')
  BY <1>1 DEF PongComing, Excused, Spinning
<1>5. AllGone => AllGone'
  BY <1>1 DEF AllGone
<1> QED
  BY <1>1, <1>20, <1>2, <1>3, <1>4, <1>5 DEF GatewayInv

LEMMA GatewayQuiet ==
  ASSUME GatewayInv, UNCHANGED <<link, dumb, wire, roundVars>>
  PROVE  GatewayInv'
<1> USE DEF roundVars
<1>1. GatewayTypeOK'
  <2>1. NetTypes'
    BY DEF GatewayInv, GatewayTypeOK, NetTypes
  <2>2. CopierTypes'
    BY DEF GatewayInv, GatewayTypeOK, CopierTypes
  <2>3. SenderTypes'
    BY DEF GatewayInv, GatewayTypeOK, SenderTypes
  <2>4. OtherTypes'
    BY DEF GatewayInv, GatewayTypeOK, OtherTypes
  <2>5. MainTypes'
    BY DEF GatewayInv, GatewayTypeOK, MainTypes
  <2>6. FlagTypes'
    BY DEF GatewayInv, GatewayTypeOK, FlagTypes
  <2> QED
    BY <2>1, <2>2, <2>3, <2>4, <2>5, <2>6 DEF GatewayTypeOK
<1>2. (PongComing <=> PongComing') /\ (Excused <=> Excused') /\ (AllGone <=> AllGone')
  BY DEF PongComing, Excused, Spinning, AllGone
<1> QED
  BY <1>1, <1>2 DEF GatewayInv

LEMMA RoundStarts == GatewayInv /\ (\E pc \in {"open", "off"}, l \in {"open", "closed"} : Round(pc) /\ link' = l) => GatewayInv'
<1> SUFFICES ASSUME GatewayInv, (\E pc \in {"open", "off"}, l \in {"open", "closed"} : Round(pc) /\ link' = l) PROVE GatewayInv'
  OBVIOUS
<1>1. /\ main' \in {"open", "off"} /\ copier' = [pc |-> "read", rest |-> << >>]
      /\ sender' = "wait" /\ handler' = "wait" /\ pinger' = "wait" /\ watch' = "on"
      /\ silence' = 0 /\ opened' = FALSE /\ acked' = FALSE
      /\ done' = FALSE /\ cause' = "none" /\ swallowed' = FALSE
      /\ wire' = << >> /\ dumb' = FALSE /\ link' \in {"open", "closed"}
  BY DEF Round
<1>2. copier' \in Copiers /\ copier'.pc = "read" /\ wire' \in Wires
  BY <1>1, LettersAreRests DEF Copiers, Wires
<1>20. GatewayTypeOK'
  <2>1. NetTypes'
    BY <1>1, <1>2 DEF GatewayInv, GatewayTypeOK, NetTypes
  <2>2. CopierTypes'
    BY <1>1, <1>2 DEF GatewayInv, GatewayTypeOK, CopierTypes
  <2>3. SenderTypes'
    BY <1>1, <1>2 DEF GatewayInv, GatewayTypeOK, SenderTypes
  <2>4. OtherTypes'
    BY <1>1 DEF OtherTypes
  <2>5. MainTypes'
    BY <1>1, <1>2 DEF GatewayInv, GatewayTypeOK, MainTypes
  <2>6. FlagTypes'
    BY <1>1, <1>2 DEF GatewayInv, GatewayTypeOK, FlagTypes
  <2> QED
    BY <2>1, <2>2, <2>3, <2>4, <2>5, <2>6 DEF GatewayTypeOK
<1>3. /\ main' \notin {"parameters", "awaitAcked", "serving"} /\ main' # "serving" /\ main' # "back"
      /\ sender' # "gone" /\ copier'.pc # "gone" /\ watch' # "gone" /\ handler' # "gone" /\ pinger' # "late"
      /\ silence' # 1 /\ silence' # 2 /\ cause' # "pong timeout"
  BY <1>1, <1>2
<1>4. ~ done'
  BY <1>1
<1> QED
  BY <1>20, <1>3, <1>4, Zenon DEF GatewayInv

\* Outside of a round there is no connection.
LinkStands == dgw # "reading" => link = "closed"

LEMMA WorldSound == GatewayInv /\ LinkStands /\ (Speak \/ FallSilent \/ Cut \/ Leave) => GatewayInv'
<1> SUFFICES ASSUME GatewayInv, LinkStands, (Speak \/ FallSilent \/ Cut \/ Leave) PROVE GatewayInv'
  OBVIOUS
<1>1. /\ UNCHANGED <<main, copier, sender, handler, pinger, watch, silence, opened, acked, swallowed, done, cause>>
      /\ \/ link = "open" /\ link' = link /\ dumb' = dumb /\ \E message \in Unasked : wire' = Append(wire, message)
         \/ link' = link /\ dumb' = TRUE /\ wire' = wire
         \/ link = "open" /\ link' \in {"broken", "closed"} /\ wire' = << >> /\ dumb' = dumb
         \/ link' = "closed" /\ wire' = << >> /\ dumb' = dumb
  BY DEF LinkStands, Speak, FallSilent, Cut, Leave, roundVars
<1>2. /\ link' \in {"open", "broken", "closed"} /\ (link # "open" => link' # "open")
      /\ (link = "closed" => link' = "closed")
      /\ dumb' \in BOOLEAN /\ (dumb => dumb')
  BY <1>1 DEF GatewayInv, GatewayTypeOK, NetTypes
<1>3. wire' \in Wires /\ (HasPong(wire) => HasPong(wire') \/ link' # "open")
  <2>1. wire \in Wires
    BY DEF GatewayInv, GatewayTypeOK, NetTypes
  <2>2. ASSUME NEW message \in Unasked, wire' = Append(wire, message)
        PROVE  wire' \in Wires /\ (HasPong(wire) => HasPong(wire'))
    <3>1. message \in Letters
      BY DEF Unasked, Letters
    <3> QED
      BY <2>1, <2>2, <3>1, Appended
  <2>3. << >> \in Wires
    BY DEF Wires
  <2> QED
    BY <1>1, <2>1, <2>2, <2>3
<1>20. GatewayTypeOK'
  <2>1. NetTypes'
    BY <1>1, <1>2, <1>3 DEF GatewayInv, GatewayTypeOK, NetTypes
  <2>2. CopierTypes'
    BY <1>1, <1>2, <1>3 DEF GatewayInv, GatewayTypeOK, CopierTypes
  <2>3. SenderTypes'
    BY <1>1, <1>2, <1>3 DEF GatewayInv, GatewayTypeOK, SenderTypes
  <2>4. OtherTypes'
    BY <1>1, <1>2, <1>3 DEF GatewayInv, GatewayTypeOK, OtherTypes
  <2>5. MainTypes'
    BY <1>1, <1>2, <1>3 DEF GatewayInv, GatewayTypeOK, MainTypes
  <2>6. FlagTypes'
    BY <1>1, <1>2, <1>3 DEF GatewayInv, GatewayTypeOK, FlagTypes
  <2> QED
    BY <2>1, <2>2, <2>3, <2>4, <2>5, <2>6 DEF GatewayTypeOK
<1>4. PongComing => PongComing' \/ link' # "open"
  BY <1>1, <1>3 DEF PongComing
<1>5. Excused => Excused'
  BY <1>1, <1>2 DEF Excused, Spinning
<1> QED
  BY <1>1, <1>20, <1>2, <1>4, <1>5 DEF GatewayInv, AllGone

LEMMA LinkStep == LinkStands /\ [GatewayNext]_gatewayVars => LinkStands'
<1> SUFFICES ASSUME LinkStands, [GatewayNext]_gatewayVars PROVE LinkStands'
  OBVIOUS
<1>1. CASE Goroutines
  <2>1. dgw' = "reading"
    BY <1>1 DEF Goroutines, ReadMessage, ReadFails, Unmarshal, HandleFrame, HandlerEnds, TakeFrame, WriteFrame,
                SenderLeaves, Interval, PingerLeaves, Watch, Await, AwaitEnds, Serve, Join, MainGoes, Around
  <2> QED
    BY <2>1 DEF LinkStands
<1>2. CASE Loop \/ Enter \/ Speak \/ FallSilent \/ Cut \/ Leave \/ UNCHANGED gatewayVars
  BY <1>2 DEF LinkStands, Loop, DialDgw, Return, RestDgw, Enter, Speak, FallSilent, Cut, Leave, DgwGoes, gatewayVars
<1> QED
  BY <1>1, <1>2 DEF GatewayNext

LEMMA GatewayStep == GatewayInv /\ LinkStands /\ [GatewayNext]_gatewayVars => GatewayInv'
<1> SUFFICES ASSUME GatewayInv, LinkStands, [GatewayNext]_gatewayVars PROVE GatewayInv'
  OBVIOUS
<1>1. CASE Goroutines
  BY <1>1, ReadMessageSound, ReadFailsSound, UnmarshalSound, HandleFrameSound, HandlerEndsSound, TakeFrameSound,
     WriteFrameSound, SenderLeavesSound, IntervalSound, PingerLeavesSound, WatchSound, MainSound, Zenon
     DEF Goroutines
<1>2. CASE UNCHANGED <<link, dumb, wire, roundVars>>
  BY <1>2, GatewayQuiet
<1>3. CASE \E pc \in {"open", "off"}, l \in {"open", "closed"} : Round(pc) /\ link' = l
  BY <1>3, RoundStarts
<1>4. CASE Loop \/ Enter \/ UNCHANGED gatewayVars
  BY <1>2, <1>3, <1>4 DEF Loop, DialDgw, Return, RestDgw, Enter, gatewayVars
<1>5. CASE Speak \/ FallSilent \/ Cut \/ Leave
  BY <1>5, WorldSound
<1> QED
  BY <1>1, <1>4, <1>5 DEF GatewayNext

\* The socket of the typing notices (readLoop): it returns with an error, over a connection
\* that is closed and with nobody left behind; it serves only after both acknowledgements;
\* and a server that answers every ping is not taken for dead.
THEOREM RoundsAreSound == GatewaySpec => []RoundSound
<1>1. GatewayInv => RoundSound
  BY DEF GatewayInv, RoundSound, Excused, AllGone
<1>2. GatewayInit => LinkStands
  BY DEF GatewayInit, LinkStands
<1> QED
  BY <1>1, <1>2, GatewayStarts, LinkStep, GatewayStep, PTL DEF GatewaySpec
=============================================================================
