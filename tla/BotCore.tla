------------------------------ MODULE BotCore ------------------------------
(***************************************************************************)
(* The dispatcher of the bot (core.mjs).  Every delivery of the adapter is  *)
(* an event; the event loop starts deliveries in order, and a dispatch runs *)
(* without interruption up to its one real await, the profile lookup of an  *)
(* unknown sender.  After that it is vetted, deduplicated, counted against  *)
(* the concurrency limit and handed to the handler chain, where handlers    *)
(* race a timer: a handler that loses keeps executing, uncounted.           *)
(*                                                                          *)
(* A redelivery is another event with the same message id.                  *)
(***************************************************************************)
EXTENDS DedupRing, FiniteSets

CONSTANTS Events,         \* deliveries, each dispatched once
          Users,          \* sender ids
          Self,           \* adapter.currentUserId
          IdOf,           \* IdOf[e]: the message id
          SenderOf,       \* SenderOf[e]: the sender
          Matches,        \* Matches[e]: the handlers whose match() accepts e
          MaxConcurrent,  \* config.maxConcurrentHandlers
          DbFaults        \* may a database call throw: {FALSE} or BOOLEAN

\* The order of handlers/index.mjs: the AI chat handler comes last.
Command == 1
Media   == 2
Ping    == 3
Chat    == 4
Handlers == Command .. Chat

ASSUME CoreAssumption == /\ IdOf \in [Events -> Ids]
                         /\ SenderOf \in [Events -> Users \cup {Self}]
                         /\ Matches \in [Events -> SUBSET Handlers]
                         /\ MaxConcurrent \in Nat
                         /\ DbFaults \subseteq BOOLEAN
                         /\ IsFiniteSet(Events)

VARIABLES queue,    \* setImmediate callbacks, oldest first
          phase,    \* phase[e]: how far the dispatch of e got
          at,       \* at[e]: the last handler invoked for e, 0 for none
          zombies,  \* <<e, h>>: h lost its race for e and is still executing
          replied,  \* replied[e]: the handlers that sent something for e
          active,   \* #activeHandlers
          users,    \* users[u]: the row of u in the users table
          blocked,  \* users with is_blocked = 1
          saved,    \* message ids in the messages table
          stop      \* how far the shutdown sequence of main.mjs got

vars == <<set, buf, seenIdx, queue, phase, at, zombies, replied, active,
          users, blocked, saved, stop>>

Verdicts == {"ignored", "blocked", "duplicate", "dropped", "handled", "unhandled"}
Phases   == {"new", "queued", "fetching", "running"} \cup Verdicts

Init == /\ RingInit
        /\ queue = << >>
        /\ phase = [e \in Events |-> "new"]
        /\ at = [e \in Events |-> 0]
        /\ zombies = {}
        /\ replied = [e \in Events |-> {}]
        /\ active = 0
        /\ users = [u \in Users |-> "none"]
        /\ blocked = {}
        /\ saved = {}
        /\ stop = "no"

Running == {e \in Events : phase[e] = "running"}

\* Handler code that is executing: the awaited handlers and the abandoned ones.
Executing == {<<e, at[e]>> : e \in Running} \cup zombies
-----------------------------------------------------------------------------
(* The handler chain: #runHandlers. *)

Later(e, h) == {k \in Matches[e] : k > h}

FirstLater(e, h) == CHOOSE k \in Later(e, h) : \A j \in Later(e, h) : k <= j

\* Mutant: the end of the loop forgets the finally that gives the slot back.
MoveOnNoFinally(e, h) ==
    \/ Later(e, h) # {} /\ at' = [at EXCEPT ![e] = FirstLater(e, h)] /\ UNCHANGED <<phase, active>>
    \/ Later(e, h) = {} /\ phase' = [phase EXCEPT ![e] = "unhandled"] /\ UNCHANGED <<at, active>>

\* The loop moves on from handler h: to the next match, or out of the loop and
\* through finally.
MoveOn(e, h) ==
    \/ /\ Later(e, h) # {}
       /\ at' = [at EXCEPT ![e] = FirstLater(e, h)]
       /\ UNCHANGED <<phase, active>>
    \/ /\ Later(e, h) = {}
       /\ phase' = [phase EXCEPT ![e] = "unhandled"]
       /\ active' = active - 1
       /\ UNCHANGED at

HandlerReturns(e) ==
    /\ phase[e] = "running"
    /\ phase' = [phase EXCEPT ![e] = "handled"]
    /\ active' = active - 1
    /\ UNCHANGED <<set, buf, seenIdx, queue, at, zombies, replied, users, blocked, saved, stop>>

\* A handler rejects.  The media handler swallows its errors and never does.
HandlerFails(e) ==
    /\ phase[e] = "running" /\ at[e] # Media
    /\ MoveOn(e, at[e])
    /\ UNCHANGED <<set, buf, seenIdx, queue, zombies, replied, users, blocked, saved, stop>>

\* Mutant: the timeout promise is never armed.
HandlerNeverTimesOut(e) == FALSE

\* The timer wins the race; nothing cancels the handler.
HandlerTimesOut(e) ==
    /\ phase[e] = "running"
    /\ MoveOn(e, at[e])
    /\ zombies' = zombies \cup {<<e, at[e]>>}
    /\ UNCHANGED <<set, buf, seenIdx, queue, replied, users, blocked, saved, stop>>

ZombieEnds(e, h) ==
    /\ <<e, h>> \in zombies
    /\ zombies' = zombies \ {<<e, h>>}
    /\ UNCHANGED <<set, buf, seenIdx, queue, phase, at, replied, active, users, blocked, saved, stop>>

\* An executing handler sends its answer.  The send may still fail afterwards,
\* when the answer left and its confirmation was lost.
Reply(e, h) ==
    /\ <<e, h>> \in Executing /\ h \notin replied[e]
    /\ replied' = [replied EXCEPT ![e] = @ \cup {h}]
    /\ UNCHANGED <<set, buf, seenIdx, queue, phase, at, zombies, active, users, blocked, saved, stop>>
-----------------------------------------------------------------------------
(* Dispatch, from its last await on: #dispatch after #ensureUser. *)

\* The message is stored unless the database call throws, and the loop of
\* #runHandlers reaches the first matching handler in the same turn.
StartRun(e) ==
    /\ \E fails \in DbFaults : saved' = IF fails THEN saved ELSE saved \cup {IdOf[e]}
    /\ \/ /\ Later(e, 0) # {}
          /\ phase' = [phase EXCEPT ![e] = "running"]
          /\ at' = [at EXCEPT ![e] = FirstLater(e, 0)]
          /\ active' = active + 1
       \/ /\ Later(e, 0) = {}
          /\ phase' = [phase EXCEPT ![e] = "unhandled"]
          /\ UNCHANGED <<at, active>>

\* Mutant: a dropped message is stored all the same.
DropStored(e) == /\ phase' = [phase EXCEPT ![e] = "dropped"]
                 /\ saved' = saved \cup {IdOf[e]}
                 /\ UNCHANGED <<at, active>>

Drop(e) == /\ phase' = [phase EXCEPT ![e] = "dropped"]
           /\ UNCHANGED <<at, active, saved>>

\* Mutant: backpressure first, so that a dropped id stays out of the cache.
AdmitDropFirst(e) ==
    \/ active >= MaxConcurrent /\ Drop(e) /\ UNCHANGED <<set, buf, seenIdx>>
    \/ /\ active < MaxConcurrent /\ Has(IdOf[e])
       /\ phase' = [phase EXCEPT ![e] = "duplicate"]
       /\ UNCHANGED <<set, buf, seenIdx, at, active, saved>>
    \/ active < MaxConcurrent /\ Insert(IdOf[e]) /\ StartRun(e)

\* Deduplication first, backpressure second.
Admit(e) ==
    \/ /\ Has(IdOf[e])
       /\ phase' = [phase EXCEPT ![e] = "duplicate"]
       /\ UNCHANGED <<set, buf, seenIdx, at, active, saved>>
    \/ /\ Insert(IdOf[e])
       /\ IF active >= MaxConcurrent THEN Drop(e) ELSE StartRun(e)

Vet(e) ==
    \/ /\ SenderOf[e] \in blocked
       /\ phase' = [phase EXCEPT ![e] = "blocked"]
       /\ UNCHANGED <<set, buf, seenIdx, at, active, saved>>
    \/ /\ SenderOf[e] \notin blocked
       /\ Admit(e)
-----------------------------------------------------------------------------
(* Dispatch, up to the await. *)

\* adapter.disconnect() removes the listeners once the drain is over.
Deliver(e) ==
    /\ phase[e] = "new" /\ stop \in {"no", "draining"}
    /\ phase' = [phase EXCEPT ![e] = "queued"]
    /\ queue' = Append(queue, e)
    /\ UNCHANGED <<set, buf, seenIdx, at, zombies, replied, active, users, blocked, saved, stop>>

Ignore(e) ==
    /\ stop # "no" \/ SenderOf[e] = Self
    /\ phase' = [phase EXCEPT ![e] = "ignored"]
    /\ UNCHANGED <<set, buf, seenIdx, at, active, saved>>

\* A database error before or at the block check lets the message through.
Examine(e) ==
    /\ stop = "no" /\ SenderOf[e] # Self
    /\ \/ TRUE \in DbFaults /\ Admit(e)
       \/ /\ users[SenderOf[e]] # "none"
          /\ Vet(e)
       \/ /\ users[SenderOf[e]] = "none"
          /\ phase' = [phase EXCEPT ![e] = "fetching"]
          /\ UNCHANGED <<set, buf, seenIdx, at, active, saved>>

Dispatch ==
    /\ queue # << >> /\ stop # "exited"
    /\ queue' = Tail(queue)
    /\ Ignore(Head(queue)) \/ Examine(Head(queue))
    /\ UNCHANGED <<zombies, replied, users, blocked, stop>>

\* The profile lookup answers or fails; either way the row is written, and the
\* dispatch goes on without looking at #shuttingDown again.
Register(e, row) == users' = [users EXCEPT ![SenderOf[e]] = row]

\* Mutant: the block check is made before the lookup and not after it.
FetchDoneUnchecked(e) ==
    /\ phase[e] = "fetching" /\ stop # "exited"
    /\ \E row \in {"named", "placeholder"} : Register(e, row) /\ Admit(e)
    /\ UNCHANGED <<queue, zombies, replied, blocked, stop>>

FetchDone(e) ==
    /\ phase[e] = "fetching" /\ stop # "exited"
    /\ \/ /\ \E row \in {"named", "placeholder"} : Register(e, row)
          /\ Vet(e) \/ (TRUE \in DbFaults /\ Admit(e))
       \/ TRUE \in DbFaults /\ Admit(e) /\ UNCHANGED users
    /\ UNCHANGED <<queue, zombies, replied, blocked, stop>>

\* db.ensureUser(id) without a profile: a row that does not exist is created bare,
\* and the sender's first message will find it and fetch nothing.
EnsureRow(u) == users' = [users EXCEPT ![u] = IF @ = "none" THEN "bare" ELSE @]

\* !block works on any id; !unblock and the dashboard need a row; !admin leaves a
\* row behind.  They run inside handlers or HTTP requests, between other turns.
AdminTouches(u) ==
    /\ stop # "exited"
    /\ \/ EnsureRow(u) /\ blocked' = blocked \cup {u}
       \/ EnsureRow(u) /\ UNCHANGED blocked
       \/ /\ users[u] # "none"
          /\ blocked' \in {blocked \cup {u}, blocked \ {u}}
          /\ UNCHANGED users
    /\ UNCHANGED <<set, buf, seenIdx, queue, phase, at, zombies, replied, active, saved, stop>>
-----------------------------------------------------------------------------
(* Shutdown: BotCore.shutdown, then the rest of main.mjs's sequence. *)

NonStopVars == <<set, buf, seenIdx, queue, phase, at, zombies, replied, active, users, blocked, saved>>

Shutdown == stop = "no" /\ stop' = "draining" /\ UNCHANGED NonStopVars

Drained == stop = "draining" /\ active = 0 /\ stop' = "closing" /\ UNCHANGED NonStopVars

DrainDeadline == stop = "draining" /\ active > 0 /\ stop' = "closing" /\ UNCHANGED NonStopVars

\* Mutant: the process waits for every handler to end before it exits.
ExitWhenQuiet == stop = "closing" /\ Executing = {} /\ stop' = "exited" /\ UNCHANGED NonStopVars

Exit == stop = "closing" /\ stop' = "exited" /\ UNCHANGED NonStopVars

RunStep(e) == \/ HandlerReturns(e) \/ HandlerFails(e) \/ HandlerTimesOut(e)
              \/ \E h \in Handlers : ZombieEnds(e, h) \/ Reply(e, h)

Next == \/ \E e \in Events : Deliver(e) \/ FetchDone(e) \/ (stop # "exited" /\ RunStep(e))
        \/ Dispatch
        \/ \E u \in Users : AdminTouches(u)
        \/ Shutdown \/ Drained \/ DrainDeadline \/ Exit

Spec == Init /\ [][Next]_vars

\* The event loop keeps running callbacks, a profile lookup answers or fails,
\* and timers fire.  Handlers owe nothing: they may hang for ever.
Fairness == /\ WF_vars(Dispatch)
            /\ \A e \in Events : /\ WF_vars(FetchDone(e))
                                 /\ WF_vars(stop # "exited" /\ HandlerTimesOut(e))
            /\ WF_vars(Drained \/ DrainDeadline)
            /\ WF_vars(Exit)

FairSpec == Spec /\ Fairness
-----------------------------------------------------------------------------
TypeOK == /\ RingTypeOK
          /\ queue \in Seq(Events)
          /\ phase \in [Events -> Phases]
          /\ at \in [Events -> {0} \cup Handlers]
          /\ zombies \in SUBSET (Events \X Handlers)
          /\ replied \in [Events -> SUBSET Handlers]
          /\ active \in Nat
          /\ users \in [Users -> {"none", "bare", "named", "placeholder"}]
          /\ blocked \in SUBSET Users
          /\ saved \in SUBSET Ids
          /\ stop \in {"no", "draining", "closing", "exited"}

\* The counter behind backpressure and drain is exactly the number of messages
\* inside the handler chain, whichever way each of them leaves it, and it never
\* passes the limit.
ActiveCountsRuns == active = Cardinality(Running) /\ active <= MaxConcurrent

\* The setImmediate queue holds each scheduled delivery once, and only those.
QueueMatchesPhases ==
    /\ \A i \in 1 .. Len(queue) : phase[queue[i]] = "queued"
    /\ \A i, j \in 1 .. Len(queue) : queue[i] = queue[j] => i = j

\* The chain never skips a match, runs backwards or revives: a message waits for
\* its first handler, only matching handlers up to the current one have answered
\* or are still executing in the background.
ChainOf(e) ==
    /\ phase[e] \in {"new", "queued", "fetching"} => at[e] = 0
    /\ phase[e] = "running" => at[e] # 0
    /\ at[e] # 0 => at[e] \in Matches[e]
    /\ \A h \in Handlers : (h \in replied[e] \/ <<e, h>> \in zombies)
                               => h \in Matches[e] /\ h <= at[e]

ChainInOrder == \A e \in Events : ChainOf(e)

CoreInv == TypeOK /\ RingInv /\ QueueMatchesPhases /\ ActiveCountsRuns /\ ChainInOrder

\* No message of a user who is blocked at that moment enters the handler chain,
\* also when the block lands while the sender's profile is being fetched.  (A
\* database error on the way opens the gate; the catch in #dispatch says so.)
StartsUnblocked(e) == (phase[e] # "running" /\ phase'[e] = "running")
                          => SenderOf[e] \notin blocked

BlockedNeverStarts == [][TRUE \notin DbFaults => \A e \in Events : StartsUnblocked(e)]_vars

\* As long as the cache can hold every id, the deliveries of one id get a single
\* verdict: one of them is handled or dropped, all others are duplicates.  A
\* dropped message is not handled when it is delivered again.
Admitted(e) == phase[e] \in {"running", "handled", "unhandled", "dropped"}

OneVerdictPerId ==
    (IsFiniteSet(Ids) /\ Cardinality(Ids) <= cap) =>
        \A e, f \in Events : (Admitted(e) /\ Admitted(f) /\ IdOf[e] = IdOf[f]) => e = f

\* Without database faults the stored history is exactly the messages that
\* passed backpressure: the AI's context holds nothing the bot refused, and
\* everything it reacted to.
HistoryIsWhatRan ==
    TRUE \notin DbFaults =>
        saved = {IdOf[e] : e \in {x \in Events : phase[x] \in {"running", "handled", "unhandled"}}}

\* Every delivery gets a verdict, unless the process exits first: the timer
\* bounds a hanging handler, and nothing else is awaited for ever.
EveryDeliverySettles ==
    \A e \in Events : (phase[e] = "queued") ~> (phase[e] \in Verdicts \/ stop = "exited")

\* A shutdown gets through the drain whatever the handlers do.
ShutdownEnds == (stop = "draining") ~> (stop = "exited")
=============================================================================
