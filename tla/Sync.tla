-------------------------------- MODULE Sync --------------------------------
(***************************************************************************)
(* How messages reach the bot across connections.  While a connection is up  *)
(* the server pushes them; what it could not push is fetched afterwards: per *)
(* database the SyncManager keeps a cursor and asks, block by block, for     *)
(* what lies beyond it.  Pushes do not move the cursor, so every sync brings *)
(* again what was pushed since the last one, and only the bot's idempotency  *)
(* cache keeps that from being handled twice.                                *)
(***************************************************************************)
EXTENDS Integers, Sequences, FiniteSets, SequencesExt

CONSTANTS Dbs,       \* the databases a connection syncs
          Paged,     \* those the messages page brings a cursor for
          Sends,     \* per database, a bound on its messages
          Block,     \* messages a block holds at most
          Cap,       \* config.idempotencyCacheSize
          MaxDrops, MaxFails  \* bounds on lost connections and on failed requests

ASSUME SyncAssumption == /\ Paged \subseteq Dbs
                         /\ Sends \in [Dbs -> Nat] /\ Block \in Nat \ {0} /\ Cap \in Nat \ {0}
                         /\ MaxDrops \in Nat /\ MaxFails \in Nat

VARIABLES sent,     \* per database, how many messages the server has: 1 .. sent[db]
          cursor,   \* LastAppliedCursor: up to which message; None means none
          asked,    \* per database, where its sync stands
          conn, everUp, worker, queue,  \* the connection, previouslyConnected, its worker, its queue
          window, handled,              \* the idempotency cache; how often a message was handled
          from, since, fresh, behind,   \* history: see below
          drops, fails

serverVars == <<sent, drops, fails>>
storeVars  == <<cursor, from, asked>>
connVars   == <<conn, everUp, worker, queue>>
botVars    == <<window, handled, since, fresh>>
syncVars   == <<serverVars, storeVars, connVars, botVars, behind>>

None == -1
Idle == -2    \* no sync of the database goes on
ToAsk == -3   \* its next request is about to be made; otherwise, what it was made with

Messages == UNION {{db} \X (1 .. Sends[db]) : db \in Dbs}

Init == /\ sent = [db \in Dbs |-> 0] /\ drops = 0 /\ fails = 0
        /\ cursor = [db \in Dbs |-> IF db \in Paged THEN 0 ELSE None]
        /\ from = cursor   \* the message from which on nothing may be missed
        /\ asked = [db \in Dbs |-> Idle]
        /\ conn = "down" /\ everUp = FALSE /\ worker = "idle" /\ queue = << >>
        /\ window = << >> /\ handled = [m \in Messages |-> 0]
        /\ since = 0 /\ fresh = 0  \* messages handled since the last sync of all databases
                                   \* that succeeded began, and since the last that began
        /\ behind = {}     \* databases whose last sync failed

-----------------------------------------------------------------------------
(* What is handed to the bridge comes to the bot, which handles what its     *)
(* cache does not hold.                                                      *)

Counted(n) == IF n > Cap THEN n ELSE n + 1

Admit(bot, m) ==
    IF Contains(bot.window, m) THEN bot
    ELSE [window |-> IF Len(bot.window) < Cap THEN Append(bot.window, m)
                     ELSE Append(Tail(bot.window), m),
          since |-> Counted(bot.since), fresh |-> Counted(bot.fresh),
          handled |-> [bot.handled EXCEPT ![m] = IF @ = 2 THEN 2 ELSE @ + 1]]

Bot == [window |-> window, since |-> since, fresh |-> fresh, handled |-> handled]

\* The messages of db after the k-th and up to the n-th, one by one.
Admitted(db, k, n) ==
    LET bot[i \in k .. n] == IF i = k THEN Bot ELSE Admit(bot[i - 1], <<db, i>>)
    IN bot[n]

HandleEvent(db, k, n) ==
    LET bot == Admitted(db, k, n)
    IN /\ window' = bot.window /\ handled' = bot.handled
       /\ since' = bot.since /\ fresh' = bot.fresh
-----------------------------------------------------------------------------
(* The server. *)

\* Subscribed from the greeting on; when reconnecting, by the connect packet.
Subscribed == conn = "up" /\ (everUp \/ worker # "greeting")

Send(db) ==
    /\ sent[db] < Sends[db]
    /\ sent' = [sent EXCEPT ![db] = @ + 1]
    /\ queue' = IF Subscribed THEN Append(queue, <<db, sent[db] + 1>>) ELSE queue
    /\ UNCHANGED <<drops, fails, storeVars, conn, everUp, worker, botVars, behind>>

Drop == /\ conn = "up" /\ drops < MaxDrops
        /\ conn' = "down" /\ drops' = drops + 1
        /\ UNCHANGED <<sent, fails, storeVars, everUp, worker, queue, botVars, behind>>

\* With parameters, a snapshot: nothing in it is new, and it says where it ends.
\* With a cursor, what comes next.  What is new comes after `after`, up to `next`.
Answer(db) ==
    IF asked[db] = None THEN [after |-> sent[db], next |-> sent[db]]
    ELSE [after |-> asked[db],
          next  |-> IF asked[db] + Block < sent[db] THEN asked[db] + Block ELSE sent[db]]
-----------------------------------------------------------------------------
(* The worker of a connection: Connect's read loop, handleReadyEvent.        *)

\* The one before is gone: its queue was closed and handled to the end.
Connect == /\ conn = "down" /\ worker = "idle" /\ queue = << >>
           /\ conn' = "up" /\ worker' = "greeting"
           /\ UNCHANGED <<serverVars, storeVars, everUp, queue, botVars, behind>>

\* The first time there are requests before the sync, and when one fails the
\* connection is given up; later, not.
GreetingFails == /\ worker = "greeting" /\ ~ everUp
                 /\ conn = "down" \/ fails < MaxFails
                 /\ fails' = IF conn = "up" THEN fails + 1 ELSE fails
                 /\ conn' = "down" /\ worker' = "idle"
                 /\ UNCHANGED <<sent, drops, storeVars, everUp, queue, botVars, behind>>

Greeted == /\ worker = "greeting" /\ (conn = "up" \/ everUp)
           /\ worker' = "syncing" /\ asked' = [db \in Dbs |-> ToAsk] /\ fresh' = 0
           /\ UNCHANGED <<serverVars, cursor, from, conn, everUp, queue, window, handled, since, behind>>

\* Mutant: the cursor is kept, SendSyncParams is not: the next request wants a
\* snapshot again.
AskForSnapshots(db) ==
    /\ asked[db] = ToAsk /\ conn = "up"
    /\ asked' = [asked EXCEPT ![db] = IF db \in Paged THEN cursor[db] ELSE None]
    /\ UNCHANGED <<serverVars, cursor, from, connVars, botVars, behind>>

\* SyncSocketData up to the request.
Ask(db) == /\ asked[db] = ToAsk /\ conn = "up"
           /\ asked' = [asked EXCEPT ![db] = cursor[db]]
           /\ UNCHANGED <<serverVars, cursor, from, connVars, botVars, behind>>

\* Mutant: the database is not in shouldRecurseDatabase.
ReceiveOneBlock(db) ==
    /\ asked[db] \notin {Idle, ToAsk} /\ conn = "up"
    /\ HandleEvent(db, Answer(db).after, Answer(db).next)
    /\ asked' = [asked EXCEPT ![db] = Idle] /\ behind' = behind \ {db}
    /\ UNCHANGED <<serverVars, cursor, from, connVars>>

\* SyncSocketData from the answer on: the table goes to the bridge, then the
\* cursor to the end of the block, until a block ends where it began.
Receive(db) ==
    LET answer == Answer(db)
        last == answer.next = asked[db]
    IN /\ asked[db] \notin {Idle, ToAsk} /\ conn = "up"
       /\ HandleEvent(db, answer.after, answer.next)
       /\ asked' = [asked EXCEPT ![db] = IF last THEN Idle ELSE ToAsk]
       /\ cursor' = IF last THEN cursor ELSE [cursor EXCEPT ![db] = answer.next]
       /\ from' = IF from[db] = None THEN [from EXCEPT ![db] = answer.next] ELSE from
       /\ behind' = IF last THEN behind \ {db} ELSE behind
       /\ UNCHANGED <<serverVars, connVars>>

\* The connection is gone, no answer came in time, or one without a transaction:
\* that is logged.
SyncFails(db) == /\ asked[db] # Idle
                 /\ conn = "down" \/ (asked[db] # ToAsk /\ fails < MaxFails)
                 /\ fails' = IF conn = "up" THEN fails + 1 ELSE fails
                 /\ asked' = [asked EXCEPT ![db] = Idle] /\ behind' = behind \cup {db}
                 /\ UNCHANGED <<sent, drops, cursor, from, connVars, botVars>>

\* EnsureSyncedSocket returns, whatever came of it.
Synced == /\ worker = "syncing" /\ \A db \in Dbs : asked[db] = Idle
          /\ worker' = "idle" /\ everUp' = TRUE
          /\ since' = IF behind = {} THEN fresh ELSE since
          /\ UNCHANGED <<serverVars, storeVars, conn, queue, window, handled, fresh, behind>>

HandlePush(m) == HandleEvent(m[1], m[2] - 1, m[2])

\* Mutant: what is pushed during a sync is taken for what the sync brings.
PushDuringSyncIgnored ==
    /\ worker \in {"idle", "syncing"} /\ queue # << >>
    /\ queue' = Tail(queue)
    /\ IF worker = "syncing" THEN UNCHANGED botVars ELSE HandlePush(Head(queue))
    /\ UNCHANGED <<serverVars, storeVars, conn, everUp, worker, behind>>

\* A push moves no cursor: nobody calls PostHandlePublishResponse.
Push == /\ worker = "idle" /\ queue # << >>
        /\ queue' = Tail(queue) /\ HandlePush(Head(queue))
        /\ UNCHANGED <<serverVars, storeVars, conn, everUp, worker, behind>>

\* The worker, and the goroutine of each database it waits for.
WorkerStep == GreetingFails \/ Greeted \/ Synced \/ Push
DbStep(db) == Ask(db) \/ Receive(db) \/ SyncFails(db)

Next == \/ \E db \in Dbs : Send(db) \/ DbStep(db)
        \/ Drop \/ Connect \/ WorkerStep

\* The loop reconnects, the worker and the goroutines go on, and a request is
\* answered or given up.  Nothing makes anybody write or the connection drop.
Fairness == WF_syncVars(Connect) /\ WF_syncVars(WorkerStep) /\ \A db \in Dbs : WF_syncVars(DbStep(db))

Spec == Init /\ [][Next]_syncVars /\ Fairness
-----------------------------------------------------------------------------
(* Properties. *)

Positions(db) == {None} \cup (0 .. Sends[db])

SyncTypeOK ==
    /\ \A f \in {sent, cursor, from, asked} : f \in [Dbs -> Int]
    /\ \A db \in Dbs : /\ sent[db] \in 0 .. Sends[db]
                       /\ cursor[db] \in Positions(db) /\ from[db] \in Positions(db)
                       /\ asked[db] \in Positions(db) \cup {Idle, ToAsk}
    /\ drops \in 0 .. MaxDrops /\ fails \in 0 .. MaxFails
    /\ conn \in {"up", "down"} /\ everUp \in BOOLEAN
    /\ worker \in {"idle", "greeting", "syncing"} /\ queue \in Seq(Messages)
    /\ window \in Seq(Messages) /\ Len(window) =< Cap
    /\ handled \in [Messages -> 0 .. 2] /\ since \in 0 .. Cap + 1 /\ fresh \in 0 .. Cap + 1
    /\ behind \subseteq Dbs

\* The cursor never runs ahead of the bot: every message it has passed, from the
\* one the page or the first snapshot ended with, was handled, whatever dropped,
\* failed or was pushed in between (SyncSocketData).
NothingSkipped ==
    \A db \in Dbs : \A n \in 1 .. Sends[db] :
      from[db] # None /\ from[db] < n /\ n =< cursor[db] => handled[<<db, n>>] > 0

\* The two together, and that a message in the cache was handled.
SyncInv == /\ SyncTypeOK /\ NothingSkipped
           /\ \A i \in DOMAIN window : handled[window[i]] > 0

\* A message is handled a second time only when the bot has handled more
\* messages than its cache holds since the last sync of all databases that
\* succeeded began: nothing older than that is brought again.
OnceBetweenSyncs ==
    [][\A m \in Messages : handled[m] = 1 /\ handled'[m] = 2 => since' > Cap]_syncVars

\* Every message is handled in the end, pushed or fetched, unless the last sync
\* of its database failed: that one is not tried again before the next
\* connection (EnsureSyncedSocket logs it and returns nil).
EveryMessageArrives ==
    \A db \in Dbs : \A n \in 1 .. Sends[db] :
      ([]<>(db \notin behind)) =>
        ((from[db] # None /\ from[db] < n /\ n =< sent[db]) ~> (handled[<<db, n>>] > 0))
=============================================================================
