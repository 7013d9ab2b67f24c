------------------------------ MODULE Connector -----------------------------
(***************************************************************************)
(* One login of the Matrix connector: how it connects, is told to stop and   *)
(* reconnects from scratch, and what becomes meanwhile of the tables the     *)
(* server sends.  Connect, Disconnect and FullReconnect run on goroutines of *)
(* their own over the fields of MetaClient; tables are parsed on the         *)
(* socket's goroutine, wait in a channel and are handled by a loop, which    *)
(* moves the cursor the next sync starts from.                               *)
(***************************************************************************)
EXTENDS Integers, Sequences, FiniteSets, SequencesExt

CONSTANTS QueueCap,        \* room in parsedTables, 16 in the code
          MaxRetries,      \* MaxConnectRetries
          CacheState,      \* config: keep the state of a connection over a stop
          Budgets          \* what a behaviour is given: whether E2EE is used and whether it
                           \* reconnects periodically; bounds on the tables sent, the
                           \* starts, the periodic reconnects and all that fails

ASSUME ConnectorAssumption ==
    /\ QueueCap \in Nat \ {0} /\ MaxRetries \in Nat /\ CacheState \in BOOLEAN
    /\ Budgets \subseteq [sealing : BOOLEAN, refresh : BOOLEAN,
                         sends : Nat, starts : Nat, fulls : Nat, faults : Nat]

VARIABLES wants, calm,               \* what bridgev2 asked for last; its Disconnect met nobody
          run, lock, attempt,        \* the goroutines; connectLock; whom stopConnectAttempt stops
          refused,                   \* the last call of Connect was refused (history)
          cookies, client, conn, everUp, told, \* LoginMeta, m.Client, its connection, BridgeState
          initial,                   \* initialTable holds a table
          armed,                     \* the goroutines of periodicReconnect
          sealing, device, sealed, seal, waTold,  \* E2EE is used; WADevice; E2EEClient; connectE2EE; waState
          sealedOnce,                \* firstE2EEConnectDone
          sent, pushes, got,         \* the tables of the server, on the socket, with the parser
          queue, loops, current,     \* parsedTables, the table loops, which one can be stopped
          cursor, saved, from,       \* where a sync starts; the saved state; what a page covered
          done, lost,                \* history: tables handled; tables something happened to
          left                       \* how much of each bound is left

ownerVars == <<wants, calm>>
callVars  == <<run, lock, attempt, refused>>
connVars  == <<cookies, client, conn, everUp, told, initial, armed>>
sealVars  == <<sealing, device, sealed, seal, waTold, sealedOnce>>
readVars  == <<sent, pushes, got>>
tableVars == <<queue, loops, current>>
markVars  == <<cursor, saved, from>>
pastVars  == <<done, lost>>
connectorVars == <<ownerVars, callVars, connVars, sealVars, readVars, tableVars, markVars, pastVars, left>>

Goroutines == {"start", "stop", "again"}  \* Connect, Disconnect, FullReconnect
Loops == {1, 2}
None == -1
Page == 0            \* the initial table
NoTable == [t |-> None, fetched |-> FALSE]
Resting == [pc |-> "idle", n |-> 0, cancelled |-> FALSE, held |-> None]

\* A loop that runs handles tables; one that is stopped still finishes an event.
NoLoop == [is |-> "gone", t |-> None]

Use(b) == left[b] > 0 /\ left' = [left EXCEPT ![b] = @ - 1]

Idle(k) == run[k].pc = "idle"
Go(k, pc) == run' = [run EXCEPT ![k].pc = pc]
Tables(s) == {s[i] : i \in DOMAIN s}

Init == /\ wants = "down" /\ calm = TRUE
        /\ run = [k \in Goroutines |-> Resting] /\ lock = "free" /\ attempt = "nobody" /\ refused = FALSE
        /\ cookies = TRUE /\ client = "nil" /\ conn = "off" /\ everUp = FALSE /\ told = "nothing"
        /\ initial = FALSE /\ armed = {}
        /\ device = "none" /\ sealed = "nil" /\ seal = "idle" /\ waTold = "nothing" /\ sealedOnce = FALSE
        /\ sent = 0 /\ pushes = << >> /\ got = NoTable
        /\ queue = << >> /\ loops = [l \in Loops |-> NoLoop] /\ current = None
        /\ cursor = 0 /\ saved = None /\ from = 0
        /\ done = {} /\ lost = {}
        /\ left \in Budgets /\ sealing = left.sealing
-----------------------------------------------------------------------------
(* Connect: connectWithRetry, connectWithTable, connectWithCache. *)

\* The call returns, and others may connect.
Leave(k) == /\ run' = [run EXCEPT ![k] = Resting]
            /\ lock' = "free" /\ attempt' = IF attempt = k THEN "nobody" ELSE attempt

Connect(k) ==
    /\ run[k].pc = "connect"
    /\ IF lock # "free"
       THEN /\ refused' = TRUE /\ run' = [run EXCEPT ![k] = Resting]
            /\ UNCHANGED <<lock, attempt, told>>
       ELSE /\ refused' = FALSE /\ lock' = k /\ attempt' = k /\ Go(k, "make")
            /\ told' = IF told = "nothing" /\ waTold = "nothing" THEN "connecting" ELSE told
    /\ UNCHANGED <<ownerVars, cookies, client, conn, everUp, initial, armed, sealVars, readVars,
                   tableVars, markVars, pastVars, left>>

\* A new client knows of no cursor.
Kept == IF client = "nil" THEN 0 ELSE cursor

\* ensureMessagixClient, and where a fresh attempt goes on: from a saved state,
\* which is used up by looking at it and may be too old, or from the page.
Make(k) ==
    /\ run[k].pc = "make"
    /\ IF client = "nil" /\ ~ cookies
       THEN told' = "bad" /\ Leave(k) /\ UNCHANGED <<client, conn, everUp, cursor, saved, from>>
       ELSE /\ client' = IF client = "nil" THEN "made" ELSE client
            /\ conn' = IF client = "nil" THEN "off" ELSE conn
            /\ UNCHANGED <<told, lock, attempt, from>>
            /\ \/ /\ run[k].n > 0 /\ Go(k, "sleep")
                  /\ everUp' = (everUp /\ client # "nil") /\ cursor' = Kept /\ UNCHANGED saved
               \/ /\ run[k].n = 0 /\ saved # None /\ CacheState
                  /\ cursor' = saved /\ everUp' = TRUE /\ saved' = None /\ Go(k, "cached")
               \/ /\ run[k].n = 0 /\ saved' = None /\ Go(k, "load")
                  /\ everUp' = (everUp /\ client # "nil") /\ cursor' = Kept
    /\ UNCHANGED <<ownerVars, refused, cookies, initial, armed, sealVars, readVars, tableVars, pastVars, left>>

\* 2^n seconds, or until the attempt is stopped.
Sleep(k) ==
    /\ run[k].pc = "sleep"
    /\ \/ Go(k, "load") /\ UNCHANGED <<lock, attempt>>
       \/ run[k].cancelled /\ Leave(k)
    /\ UNCHANGED <<ownerVars, refused, connVars, sealVars, readVars, tableVars, markVars, pastVars, left>>

\* go handleTableLoop
Free == {l \in Loops : loops[l].is = "gone"}
NewLoop == \E l \in Free : /\ \A o \in Free : l <= o
                           /\ loops' = [loops EXCEPT ![l].is = "new"]

\* A page that failed may fail again at no cost.
FailAgain(k) == IF run[k].n = 0 THEN Use("faults") ELSE UNCHANGED left

\* Mutant: the last attempt announces one more that nobody makes.
LoadFailsQuietly(k) ==
    /\ run[k].pc = "load" /\ FailAgain(k) /\ armed' = armed \ {"armed"}
    /\ told' = "transient" /\ UNCHANGED <<client, conn, cookies>>
    /\ IF run[k].n < MaxRetries
       THEN run' = [run EXCEPT ![k].pc = "make", ![k].n = @ + 1] /\ UNCHANGED <<lock, attempt>>
       ELSE Leave(k)
    /\ UNCHANGED <<ownerVars, refused, everUp, initial, sealVars, readVars, tableVars, markVars, pastVars>>

\* The messages page cannot be loaded: the token is invalid, which throws the
\* login away; the account is refused or the answer makes no sense; or it may
\* pass, and the attempt is repeated.
LoadFails(k) ==
    /\ run[k].pc = "load" /\ FailAgain(k) /\ armed' = armed \ {"armed"}
    /\ \/ /\ told' = "bad" /\ client' = "nil" /\ conn' = "off" /\ cookies' = FALSE /\ Leave(k)
       \/ /\ told' \in {"bad", "unknown"} /\ Leave(k) /\ UNCHANGED <<client, conn, cookies>>
       \/ /\ run[k].n < MaxRetries /\ told' = "transient"
          /\ run' = [run EXCEPT ![k].pc = "make", ![k].n = @ + 1]
          /\ UNCHANGED <<client, conn, cookies, lock, attempt>>
    /\ UNCHANGED <<ownerVars, refused, everUp, initial, sealVars, readVars, tableVars, markVars, pastVars>>

\* No proxy can be had; or not the own ghost, with the table loop started already.
Unready(k) ==
    /\ run[k].pc \in {"load", "check"} /\ Use("faults") /\ told' = "unknown" /\ Leave(k)
    /\ IF run[k].pc = "load" THEN UNCHANGED loops ELSE ~ run[k].cancelled /\ NewLoop
    /\ UNCHANGED <<ownerVars, refused, cookies, client, conn, everUp, initial, armed, sealVars, readVars,
                   queue, current, markVars, pastVars>>

\* The page names a cursor per database and shows what lies before it.
Load(k) ==
    /\ run[k].pc = "load" /\ Go(k, "check")
    /\ IF client = "nil" THEN UNCHANGED <<cursor, from>> ELSE cursor' = sent /\ from' = sent
    /\ UNCHANGED <<ownerVars, lock, attempt, refused, connVars, sealVars, readVars, tableVars, saved,
                   pastVars, left>>

\* The table loop starts, and with a page the initial table is put aside.
Spawn(k) ==
    /\ \/ run[k].pc = "cached" /\ UNCHANGED initial
       \/ run[k].pc = "check" /\ ~ run[k].cancelled /\ initial' = TRUE
    /\ NewLoop /\ Go(k, "join")
    /\ UNCHANGED <<ownerVars, lock, attempt, refused, cookies, client, conn, everUp, told, armed,
                   sealVars, readVars, queue, current, markVars, pastVars, left>>

Cancelled(k) ==
    /\ run[k].pc = "check" /\ run[k].cancelled /\ Leave(k)
    /\ UNCHANGED <<ownerVars, refused, connVars, sealVars, readVars, tableVars, markVars, pastVars, left>>

\* m.Client.Connect: an error when a disconnect took the client away, or when a
\* connection is up already.
Join(k) ==
    /\ run[k].pc = "join"
    /\ IF client = "nil" \/ conn \in {"syncing", "up"}
       THEN told' = "unknown" /\ Leave(k) /\ UNCHANGED <<client, conn>>
       ELSE /\ client' = "on" /\ conn' = "dial" /\ Go(k, "raise") /\ UNCHANGED <<told, lock, attempt>>
    /\ UNCHANGED <<ownerVars, refused, cookies, everUp, initial, armed, sealVars, readVars, tableVars,
                   markVars, pastVars, left>>

\* go periodicReconnect
Raise(k) ==
    /\ run[k].pc = "raise" /\ Leave(k)
    /\ armed' = IF left.refresh THEN armed \cup {"new"} ELSE armed
    /\ UNCHANGED <<ownerVars, refused, cookies, client, conn, everUp, told, initial, sealVars, readVars,
                   tableVars, markVars, pastVars, left>>

ConnectStep(k) == \/ Connect(k) \/ Make(k) \/ Sleep(k) \/ LoadFails(k) \/ Unready(k) \/ Load(k)
                  \/ Spawn(k) \/ Cancelled(k) \/ Join(k) \/ Raise(k)
-----------------------------------------------------------------------------
(* disconnect, Disconnect, FullReconnect. *)

\* Where the next sync of this login would start.
Cursors == {saved, run["stop"].held} \cup (IF client = "nil" THEN {} ELSE {cursor})

Pipeline == Tables(queue) \cup {loops[l].t : l \in Loops} \cup {got.t}

\* A table that leaves the pipeline without being handled is missed for good when
\* a cursor has passed it already, or a sync is about to move it there.
Missed(ts, cs) == {t \in ts : from < t /\ t \notin done /\ \E c \in cs : t <= c}
Counted == IF got.fetched THEN {got.t} ELSE {}

\* The running attempt is told to stop; somebody in the way is noticed.
Drop(k) ==
    /\ run[k].pc = "drop"
    /\ run' = [o \in Goroutines |-> IF o = k THEN [run[o] EXCEPT !.pc = "close"]
                                   ELSE IF o = attempt THEN [run[o] EXCEPT !.cancelled = TRUE]
                                   ELSE run[o]]
    /\ attempt' = "nobody"
    /\ UNCHANGED <<ownerVars, lock, refused, connVars, sealVars, readVars, tableVars, markVars, pastVars, left>>

\* The client hears of nothing more and is closed, then its state is taken, then
\* it is forgotten; and so is the E2EE client.  A table that waits for room is
\* dropped, also when it came from a sync that moves the cursor all the same.
Close(k) ==
    /\ run[k].pc = "close"
    /\ \E c \in {cursor} \cup Counted :
         /\ cursor' = c /\ lost' = lost \cup Missed({got.t}, Cursors \cup {c})
         /\ run' = [run EXCEPT ![k].pc = "unloop",
                               ![k].held = IF k = "stop" /\ CacheState /\ client # "nil" /\ everUp
                                           THEN c ELSE None]
    /\ client' = "nil" /\ conn' = "off" /\ everUp' = FALSE
    /\ sealed' = "nil" /\ pushes' = << >> /\ got' = NoTable
    /\ UNCHANGED <<ownerVars, lock, attempt, refused, cookies, told, initial, armed, sealing, device,
                   seal, waTold, sealedOnce, sent, tableVars, saved, from, done, left>>

\* Mutant: disconnect forgets the periodic reconnect.
UnloopOnly(k) ==
    /\ run[k].pc = "unloop"
    /\ loops' = IF current = None THEN loops ELSE [loops EXCEPT ![current].is = "over"]
    /\ current' = None /\ UNCHANGED armed
    /\ IF k = "stop"
       THEN /\ run' = [run EXCEPT ![k] = Resting] /\ told' = "nothing" /\ waTold' = "nothing"
            /\ saved' = IF run[k].held = None THEN saved ELSE run[k].held
       ELSE Go(k, "connect") /\ UNCHANGED <<told, waTold, saved>>
    /\ UNCHANGED <<ownerVars, lock, attempt, refused, cookies, client, conn, everUp, initial, sealing,
                   device, sealed, seal, sealedOnce, readVars, queue, cursor, from, pastVars, left>>

\* The table loop and the periodic reconnect are stopped.  Disconnect then saves
\* the state; FullReconnect, and the goroutine of the periodic one, go on to Connect.
Unloop(k) ==
    /\ run[k].pc = "unloop"
    /\ loops' = IF current = None THEN loops ELSE [loops EXCEPT ![current].is = "over"]
    /\ current' = None /\ armed' = armed \ {"armed"}
    /\ IF k = "stop"
       THEN /\ run' = [run EXCEPT ![k] = Resting] /\ told' = "nothing" /\ waTold' = "nothing"
            /\ saved' = IF run[k].held = None THEN saved ELSE run[k].held
       ELSE Go(k, "connect") /\ UNCHANGED <<told, waTold, saved>>
    /\ UNCHANGED <<ownerVars, lock, attempt, refused, cookies, client, conn, everUp, initial, sealing,
                   device, sealed, seal, sealedOnce, readVars, queue, cursor, from, pastVars, left>>

DropStep(k) == Drop(k) \/ Close(k) \/ Unloop(k)

\* bridgev2 starts the login, and stops it, one after the other.
Start == /\ wants = "down" /\ Idle("start") /\ Idle("stop") /\ Use("starts")
         /\ wants' = "up" /\ Go("start", "connect")
         /\ UNCHANGED <<calm, lock, attempt, refused, connVars, sealVars, readVars, tableVars, markVars, pastVars>>

Stop == /\ wants = "up" /\ Idle("stop")
        /\ wants' = "down" /\ Go("stop", "drop")
        /\ calm' = (Idle("start") /\ Idle("again") /\ "new" \notin armed
                      /\ \A l \in Loops : loops[l].is # "new")
        /\ UNCHANGED <<lock, attempt, refused, connVars, sealVars, readVars, tableVars, markVars, pastVars, left>>

\* FullReconnect, from whichever goroutine: not without cookies.
Again == /\ Idle("again") /\ cookies /\ Go("again", "drop")
         /\ calm' = (calm /\ Idle("stop"))

\* The goroutine of periodicReconnect takes its place, and ends the one before.
Arm == /\ "new" \in armed /\ armed' = {"armed"}
       /\ UNCHANGED <<ownerVars, callVars, cookies, client, conn, everUp, told, initial, sealVars,
                      readVars, tableVars, markVars, pastVars, left>>

\* Its timer fires once.
Fire == /\ "armed" \in armed /\ Use("fulls") /\ armed' = armed \ {"armed"} /\ Again
        /\ UNCHANGED <<wants, lock, attempt, refused, cookies, client, conn, everUp, told, initial, sealVars,
                       readVars, tableVars, markVars, pastVars>>
-----------------------------------------------------------------------------
(* The connection: messagix' loop, and handleMetaEvent. *)

Online == conn \in {"syncing", "up"}

\* The server sends a table, to a connection that is up at once.
Send == /\ Use("sends") /\ sent' = sent + 1
        /\ pushes' = IF Online THEN Append(pushes, sent + 1) ELSE pushes
        /\ UNCHANGED <<ownerVars, callVars, connVars, sealVars, got, tableVars, markVars, pastVars>>

Greet == /\ client = "on" /\ conn = "dial" /\ got = NoTable /\ pushes = << >>
         /\ conn' = "syncing"
         /\ UNCHANGED <<ownerVars, callVars, cookies, client, everUp, told, initial, armed, sealVars,
                        readVars, tableVars, markVars, pastVars, left>>

\* A sync brings the block behind the cursor.
Fetch == /\ conn = "syncing" /\ got = NoTable /\ cursor < sent
         /\ got' = [t |-> cursor + 1, fetched |-> TRUE] /\ lost' = lost \ {cursor + 1}
         /\ UNCHANGED <<ownerVars, callVars, connVars, sealVars, sent, pushes, tableVars, markVars, done, left>>

\* Ready or Reconnected, after everything was fetched or the sync was given up.
\* Ready queues the initial table and connects E2EE; Reconnected connects E2EE
\* only if no connection of this login has done so before.
Ready == /\ conn = "syncing" /\ got = NoTable
         /\ IF cursor >= sent THEN UNCHANGED left ELSE Use("faults")
         /\ conn' = "up" /\ everUp' = TRUE /\ told' = "connected"
         /\ IF ~ everUp /\ initial
            THEN got' = [t |-> Page, fetched |-> FALSE] /\ initial' = FALSE
            ELSE UNCHANGED <<got, initial>>
         /\ IF sealing /\ seal = "idle" /\ (~ everUp \/ ~ sealedOnce)
            THEN seal' = "check" /\ sealedOnce' = TRUE
            ELSE UNCHANGED <<seal, sealedOnce>>
         /\ UNCHANGED <<ownerVars, callVars, cookies, client, armed, sealing, device, sealed, waTold, sent,
                        pushes, tableVars, markVars, pastVars>>

\* SocketError: the loop dials again.
Lose == /\ Online /\ Use("faults") /\ conn' = "dial" /\ told' = "transient"
        /\ UNCHANGED <<ownerVars, callVars, cookies, client, everUp, initial, armed, sealVars, readVars,
                       tableVars, markVars, pastVars>>

\* PermanentError: the loop has ended.  Only an unavailable server is worth a full
\* reconnect, and not too soon after the last.
GiveUp == /\ conn = "dial" /\ Use("faults") /\ conn' = "off" /\ client' = "dead" /\ armed' = armed \ {"armed"}
          /\ told' \in {"bad", "unknown"}
          /\ \/ UNCHANGED <<run, calm>>
             \/ told' = "unknown" /\ Again
          /\ UNCHANGED <<wants, lock, attempt, refused, cookies, everUp, initial, sealVars, readVars, tableVars,
                         markVars, pastVars>>

ConnectionStep == Greet \/ Fetch \/ Ready \/ Lose \/ GiveUp
-----------------------------------------------------------------------------
(* Tables: parseAndQueueTable, handleTableLoop, handleParsedTable. *)

\* What was pushed is parsed in turn, once a sync is over.
TakePush == /\ client = "on" /\ conn # "syncing" /\ got = NoTable /\ pushes # << >>
            /\ got' = [t |-> Head(pushes), fetched |-> FALSE] /\ pushes' = Tail(pushes)
            /\ UNCHANGED <<ownerVars, callVars, connVars, sealVars, sent, tableVars, markVars, pastVars, left>>

\* The parser waits for room.  A sync counts its block as applied from here on.
Enqueue == /\ got # NoTable /\ Len(queue) < QueueCap
           /\ queue' = Append(queue, got.t) /\ got' = NoTable
           /\ cursor' = IF got.fetched THEN got.t ELSE cursor
           /\ UNCHANGED <<ownerVars, callVars, connVars, sealVars, sent, pushes, loops, current, saved, from,
                          pastVars, left>>

\* A loop takes its place, and stops the one before.
Settle(l) == /\ loops[l].is = "new" /\ current' = l
             /\ loops' = [o \in Loops |-> IF o = l THEN [loops[o] EXCEPT !.is = "on"]
                                         ELSE IF o = current THEN [loops[o] EXCEPT !.is = "over"]
                                         ELSE loops[o]]
             /\ UNCHANGED <<ownerVars, callVars, connVars, sealVars, readVars, queue, markVars, pastVars, left>>

\* A stopped loop may still take a table: both cases of its select are ready.
Take(l) == /\ loops[l].is \in {"on", "over"} /\ loops[l].t = None /\ queue # << >>
           /\ loops' = [loops EXCEPT ![l].t = Head(queue)] /\ queue' = Tail(queue)
           /\ UNCHANGED <<ownerVars, callVars, connVars, sealVars, readVars, current, markVars, pastVars, left>>

\* Mutant: a table that was not handled moves the cursor.
HandleAll(l) ==
    /\ loops[l].is \in {"on", "over"} /\ loops[l].t # None
    /\ loops' = [loops EXCEPT ![l].t = None]
    /\ \/ done' = done \cup {loops[l].t} /\ UNCHANGED left
       \/ Use("faults") /\ UNCHANGED done
    /\ cursor' = IF loops[l].is = "on" /\ loops[l].t # Page THEN loops[l].t ELSE cursor
    /\ UNCHANGED <<ownerVars, callVars, connVars, sealVars, readVars, queue, current, saved, from, lost>>

\* Its events are queued one by one, up to one that fails or a stop.  Behind the
\* last the cursor is moved to where the table ends, whatever came of those before.
Handle(l) ==
    LET t == loops[l].t
    IN /\ loops[l].is \in {"on", "over"} /\ t # None
       /\ loops' = [loops EXCEPT ![l].t = None]
       /\ \/ /\ done' = done \cup {t} /\ UNCHANGED left
             /\ IF loops[l].is = "on" /\ t # Page /\ client # "nil"
                THEN /\ cursor' = t
                     /\ lost' = (lost \cup Missed(1 .. (t - 1), {t})) \ (Pipeline \cup {t})
                ELSE UNCHANGED <<cursor, lost>>
          \/ /\ IF loops[l].is = "on" THEN Use("faults") ELSE UNCHANGED left
             /\ lost' = lost \cup Missed({t}, Cursors \cup Counted)
             /\ UNCHANGED <<done, cursor>>
       /\ UNCHANGED <<ownerVars, callVars, connVars, sealVars, readVars, queue, current, saved, from>>

End(l) == /\ loops[l].is = "over" /\ loops[l].t = None /\ loops' = [loops EXCEPT ![l].is = "gone"]
          /\ UNCHANGED <<ownerVars, callVars, connVars, sealVars, readVars, queue, current, markVars, pastVars, left>>

TableStep == TakePush \/ Enqueue \/ \E l \in Loops : Settle(l) \/ Take(l) \/ Handle(l) \/ End(l)
-----------------------------------------------------------------------------
(* E2EE: tryConnectE2EE, connectE2EE, e2eeEventHandler. *)

\* A failure is said, unless a worse one was.
SealFails == /\ seal' = "idle"
             /\ waTold' = IF waTold \in {"bad", "unknown"} THEN waTold ELSE "unknown"

Seal ==
    /\ seal = "check" /\ client # "nil"
    /\ IF sealed # "nil" THEN SealFails /\ UNCHANGED device
       ELSE /\ device' = IF device = "none" THEN "fresh" ELSE device
            /\ seal' = IF device = "none" THEN "register" ELSE "raise"
            /\ UNCHANGED waTold
    /\ UNCHANGED <<ownerVars, callVars, connVars, sealing, sealed, sealedOnce, readVars, tableVars, markVars,
                   pastVars, left>>

Register ==
    /\ seal = "register"
    /\ \/ /\ client # "nil" /\ device' = "kept" /\ seal' = "raise" /\ UNCHANGED <<waTold, left>>
       \/ /\ IF client = "nil" THEN UNCHANGED left ELSE Use("faults")
          /\ SealFails /\ UNCHANGED device
    /\ UNCHANGED <<ownerVars, callVars, connVars, sealing, sealed, sealedOnce, readVars, tableVars, markVars, pastVars>>

\* A client whose Connect fails stays in E2EEClient.
RaiseSealed ==
    /\ seal = "raise" /\ (client # "nil" => device # "fresh")
    /\ \/ client = "nil" /\ SealFails /\ UNCHANGED <<sealed, left>>
       \/ client # "nil" /\ sealed' = "dial" /\ seal' = "idle" /\ UNCHANGED <<waTold, left>>
       \/ client # "nil" /\ sealed' = "ended" /\ Use("faults") /\ SealFails
    /\ UNCHANGED <<ownerVars, callVars, connVars, sealing, device, sealedOnce, readVars, tableVars, markVars, pastVars>>

\* Two ways to take the process down: the client was taken away before the
\* goroutine looked for its device, or the device was left unregistered by an
\* earlier failure and has no id to log in with.
SealPanics == \/ seal = "check" /\ client = "nil" /\ sealed = "nil"
              \/ seal = "raise" /\ client # "nil" /\ device = "fresh"

\* whatsmeow connects and reconnects by itself.
SealedUp == /\ sealed \in {"dial", "lost"} /\ sealed' = "up" /\ waTold' = "connected"
            /\ UNCHANGED <<ownerVars, callVars, connVars, sealing, device, seal, sealedOnce, readVars,
                           tableVars, markVars, pastVars, left>>

SealedLost == /\ sealed = "up" /\ Use("faults") /\ sealed' = "lost" /\ waTold' = "transient"
              /\ UNCHANGED <<ownerVars, callVars, connVars, sealing, device, seal, sealedOnce, readVars,
                             tableVars, markVars, pastVars>>

\* A permanent disconnect: 415 throws the device away and connects anew, 401 and
\* 418 throw it away and reconnect everything, a token that cannot be renewed
\* reconnects everything; and not if that was done too recently.
SealedRefused ==
    /\ sealed \in {"dial", "lost", "up"} /\ seal = "idle" /\ Use("faults")
    /\ waTold' = "unknown"
    /\ \/ /\ sealed' = "nil" /\ device' = "none" /\ seal' = "check" /\ UNCHANGED <<run, calm>>
       \/ /\ sealed' = "ended" /\ device' \in {"none", device} /\ Again /\ UNCHANGED seal
       \/ /\ sealed' = "ended" /\ UNCHANGED <<device, run, calm, seal>>
    /\ UNCHANGED <<wants, lock, attempt, refused, connVars, sealing, sealedOnce, readVars, tableVars,
                   markVars, pastVars>>

SealStep == Seal \/ Register \/ RaiseSealed \/ SealedUp \/ SealedLost \/ SealedRefused
-----------------------------------------------------------------------------
\* The process ends, and all that is left is in the database.
Crash == /\ IF SealPanics THEN UNCHANGED left ELSE Use("faults")
         /\ lost' = lost \cup Missed(1 .. sent, {saved})
         /\ wants' = "down" /\ calm' = TRUE
         /\ run' = [k \in Goroutines |-> Resting] /\ lock' = "free" /\ attempt' = "nobody" /\ refused' = FALSE
         /\ client' = "nil" /\ conn' = "off" /\ everUp' = FALSE /\ told' = "nothing"
         /\ initial' = FALSE /\ armed' = {}
         /\ device' = IF device = "kept" THEN "kept" ELSE "none"
         /\ sealed' = "nil" /\ seal' = "idle" /\ waTold' = "nothing" /\ sealedOnce' = FALSE
         /\ pushes' = << >> /\ got' = NoTable
         /\ queue' = << >> /\ loops' = [l \in Loops |-> NoLoop] /\ current' = None
         /\ UNCHANGED <<cookies, sealing, sent, cursor, saved, from, done>>

ConnectorNext == \/ \E k \in {"start", "again"} : ConnectStep(k)
                 \/ \E k \in {"stop", "again"} : DropStep(k)
                 \/ Start \/ Stop \/ Arm \/ Fire \/ Send
                 \/ ConnectionStep \/ TableStep \/ SealStep \/ Crash

ConnectorSpec == Init /\ [][ConnectorNext]_connectorVars
-----------------------------------------------------------------------------
(* Properties. *)

ConnectorTypeOK ==
    /\ wants \in {"up", "down"} /\ calm \in BOOLEAN /\ refused \in BOOLEAN
    /\ \A k \in Goroutines : run[k].n \in 0 .. MaxRetries
    /\ lock \in {"free", "start", "again"} /\ attempt \in {"nobody", "start", "again"}
    /\ client \in {"nil", "made", "on", "dead"} /\ conn \in {"off", "dial", "syncing", "up"}
    /\ told \in {"nothing", "connecting", "connected", "transient", "bad", "unknown"}
    /\ armed \subseteq {"new", "armed"}
    /\ device \in {"none", "fresh", "kept"} /\ sealed \in {"nil", "dial", "up", "lost", "ended"}
    /\ Len(queue) <= QueueCap /\ cursor \in 0 .. sent /\ done \subseteq 0 .. sent

\* A table the cursor has passed was handled, or is on its way, but for two
\* cases: a later table was handled after this one had failed or been skipped, and
\* a sync had counted it, or a later one, as applied, or was about to, when its
\* handling failed or was stopped (handleParsedTable, SyncSocketData, disconnect).
HandledBeforePassed ==
    \A c \in Cursors : \A n \in 1 .. sent :
        from < n /\ n <= c => n \in done \cup lost \cup Pipeline

\* A login that should be connected and that nobody connects has said so: the
\* exception is a call of Connect that met another one and left it to that
\* (Connect, connectWithRetry, FullReconnect).
Trying == ~ Idle("start") \/ ~ Idle("again")
StandsStillOnlySaid ==
    wants = "up" /\ ~ Trying /\ client # "on" => told \in {"bad", "unknown"} \/ refused

\* A Disconnect that meets no other goroutine on its way leaves nothing behind
\* that works on, and nothing that connects again by itself (disconnect).
StopStays ==
    wants = "down" /\ calm /\ Idle("stop") =>
        client = "nil" /\ armed = {} /\ \A l \in Loops : loops[l].is # "on"

\* Types, and a stop that is one.
ConnectorInv == ConnectorTypeOK /\ StopStays
=============================================================================
