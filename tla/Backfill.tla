------------------------------ MODULE Backfill ------------------------------
(***************************************************************************)
(* How the Matrix connector collects the history of a chat, and the list of  *)
(* chats.  FetchMessages is called from two goroutines of bridgev2, to close *)
(* the gap behind new messages (forward) and to reach further back           *)
(* (backward).  It puts a collector into a table by chat, asks the server    *)
(* and waits; the answers come as tables of their own, on another goroutine, *)
(* and are joined to whatever collector the chat has then.                   *)
(***************************************************************************)
EXTENDS Integers, FiniteSets, FiniteSetsExt

CONSTANTS History,        \* the chat has the messages 1 .. History, the number being the time
          Batch,          \* messages the server puts into one answer
          Counts,         \* how many messages bridgev2 may ask for
          Knowns,         \* what the portal may hold to begin with
          Repeats,        \* ReRequestBackfillOnTimeout
          Copies,         \* bound: answers to the same question under way at a time
          Chats,          \* the server has the chats 1 .. Chats, the newest has the highest key
          MaxBatches      \* ThreadBackfill.BatchCount

ASSUME BackfillAssumption ==
    /\ {History, Batch, Copies, Chats, MaxBatches} \subseteq Nat \ {0}
    /\ Counts \subseteq Nat \ {0} /\ Knowns \subseteq SUBSET (1 .. History) /\ Repeats \in BOOLEAN

VARIABLES held,      \* the messages the portal holds
          over,       \* bridgev2 asks for no older messages any more
          fetch,      \* the calls of FetchMessages
          collector,  \* backfillCollectors[chat]
          wire,       \* answers of the server that have not arrived
          chats,      \* the thread backfill of a login: its goroutine, the key store
          completed   \* LoginMeta.BackfillCompleted

historyVars == <<held, over, fetch, collector, wire>>
chatVars    == <<chats, completed>>
backfillVars == <<historyVars, chatVars>>

Ways == {"forward", "backward"}
NoMessage == 0
NoFetch == [pc |-> "idle", anchor |-> NoMessage, first |-> 0, lo |-> 0, hi |-> 0, more |-> FALSE, msgs |-> {},
            room |-> 0, done |-> FALSE, strange |-> FALSE, late |-> FALSE]
Newest(S) == IF S = {} THEN NoMessage ELSE Max(S)

BackfillInit ==
    /\ held \in Knowns /\ over = FALSE /\ fetch = [w \in Ways |-> NoFetch] /\ collector = "none"
    /\ wire = {}
    /\ \E size \in {Batch, Chats} : LET end == Max({1, Chats - size + 1})
                                  IN chats = [pc |-> "idle", min |-> end, last |-> 0, batches |-> 0,
                                              more |-> end > 1, got |-> end]
    /\ completed = FALSE
-----------------------------------------------------------------------------
(* requestMoreHistory, and the server (external). *)

\* The server is asked for what lies before a message; it may answer late or not at all.
Asked(ref) == LET free == {c \in 1 .. Copies : [ref |-> ref, copy |-> c] \notin wire}
              IN IF free = {} THEN wire ELSE wire \cup {[ref |-> ref, copy |-> Min(free)]}

Oldest(ref) == Max({1, ref - Batch})
Answer(ref) == Oldest(ref) .. (ref - 1)
-----------------------------------------------------------------------------
(* FetchMessages. *)

\* New messages came with a resync, and reach back to lo: FBChatResync has them and
\* CheckNeedsBackfill finds the newest of them to be news.
Bundled(lo, hi, count) ==
    LET anchor == Newest(held)
        whole  == hi - lo + 1 >= count \/ (anchor # NoMessage /\ lo <= anchor)
    IN /\ fetch["forward"].pc = "idle" /\ hi > anchor /\ (whole \/ collector = "none")
       /\ fetch' = [fetch EXCEPT !["forward"] =
              [NoFetch EXCEPT !.pc = IF whole THEN "wrap" ELSE "ask", !.anchor = anchor, !.first = lo,
                              !.lo = lo, !.hi = hi, !.more = lo > 1, !.msgs = lo .. hi, !.room = count]]
       /\ collector' = IF whole THEN collector ELSE "forward"
       /\ UNCHANGED <<held, over, wire, chatVars>>

\* The oldest message the portal holds is where to go on from.
Older(count) ==
    /\ fetch["backward"].pc = "idle" /\ ~ over /\ held # {} /\ collector = "none"
    /\ fetch' = [fetch EXCEPT !["backward"] =
           [NoFetch EXCEPT !.pc = "ask", !.anchor = Min(held), !.first = Min(held), !.lo = Min(held),
                           !.hi = Min(held), !.more = TRUE, !.room = count]]
    /\ collector' = "backward"
    /\ UNCHANGED <<held, over, wire, chatVars>>

\* The call returns an error, and takes its own collector away if it is still there.
Fails(w) == /\ fetch' = [fetch EXCEPT ![w] = NoFetch]
            /\ collector' = IF collector = w THEN "none" ELSE collector

\* The first request.
Ask(w) ==
    /\ fetch[w].pc = "ask"
    /\ \/ fetch' = [fetch EXCEPT ![w].pc = "wait"] /\ wire' = Asked(fetch[w].first) /\ UNCHANGED collector
       \/ Fails(w) /\ UNCHANGED wire
    /\ UNCHANGED <<held, over, chatVars>>

Collected(w) ==
    /\ fetch[w].pc = "wait" /\ fetch[w].done /\ fetch' = [fetch EXCEPT ![w].pc = "wrap"]
    /\ UNCHANGED <<held, over, collector, wire, chatVars>>

\* Five seconds have passed.  A forward call nothing was joined to ends, and so may
\* any other once it has waited long enough; else the first question is put again.
TickerFires(w) ==
    /\ fetch[w].pc = "wait"
    /\ \/ fetch' = [fetch EXCEPT ![w].pc = "wrap"] /\ UNCHANGED wire
       \/ /\ Repeats /\ ~ (w = "forward" /\ fetch[w].lo >= fetch[w].first)
          /\ wire' = Asked(fetch[w].first) /\ UNCHANGED fetch
    /\ UNCHANGED <<held, over, collector, chatVars>>

\* The question cannot be put again, or the context of the call ends.
GivesUp(w) == fetch[w].pc = "wait" /\ Fails(w) /\ UNCHANGED <<held, over, wire, chatVars>>

\* wrapBackfillEvents sorts, drops duplicates and what the portal has.  Its result
\* is made message by message, and only then says whether there is more.
Wrap(w) ==
    /\ fetch[w].pc = "wrap"
    /\ fetch' = [fetch EXCEPT ![w].pc = "return",
                              ![w].msgs = {m \in @ : \/ fetch[w].anchor = NoMessage
                                                     \/ w = "forward" /\ m > fetch[w].anchor
                                                     \/ w = "backward" /\ m < fetch[w].anchor}]
    /\ UNCHANGED <<held, over, collector, wire, chatVars>>

\* The collector is taken away, if it is still there.
Return(w) ==
    /\ fetch[w].pc = "return"
    /\ held' = held \cup fetch[w].msgs /\ over' = (over \/ (w = "backward" /\ ~ fetch[w].more))
    /\ collector' = IF collector = w THEN "none" ELSE collector
    /\ fetch' = [fetch EXCEPT ![w] = NoFetch]
    /\ UNCHANGED <<wire, chatVars>>
-----------------------------------------------------------------------------
(* handleUpsertMessages, handleUpdateExistingMessageRange, UpsertMessages.Join. *)

\* An answer moves the lower end of the collector and takes up room in it.
Joined(f, ref) ==
    [f EXCEPT !.msgs = @ \cup Answer(ref), !.lo = Oldest(ref), !.more = Oldest(ref) > 1,
              !.room = Max({@ - Cardinality(Answer(ref)), 0}),
              !.strange = @ \/ ref < f.lo, !.late = @ \/ f.pc = "return"]

Full(w, f) == f.room = 0 \/ ~ f.more \/ (w = "forward" /\ f.anchor # NoMessage /\ f.lo <= f.anchor)

\* What begins behind the lower end is ignored; what lies before it is joined, and
\* more is asked for until the collector is full, which is done and goes away.
\* Without a collector the answer is old news, which Bundled takes or drops.
Arrive(a) ==
    /\ a \in wire /\ a.ref > 1
    /\ IF collector = "none" \/ a.ref > fetch[collector].lo
       THEN wire' = wire \ {a} /\ UNCHANGED <<fetch, collector>>
       ELSE LET w == collector
                f == Joined(fetch[w], a.ref)
            IN /\ fetch' = [fetch EXCEPT ![w] = [f EXCEPT !.done = @ \/ Full(w, f)]]
               /\ wire' = (IF Full(w, f) THEN wire ELSE Asked(f.lo)) \ {a}
               /\ collector' = IF Full(w, f) THEN "none" ELSE w
    /\ UNCHANGED <<held, over, chatVars>>

\* There is nothing before the first message, which the server says in its own way.
NothingBefore(a) ==
    /\ a \in wire /\ a.ref = 1 /\ wire' = wire \ {a}
    /\ IF collector = "none" \/ fetch[collector].lo # 1 THEN UNCHANGED <<fetch, collector>>
       ELSE /\ fetch' = [fetch EXCEPT ![collector].more = FALSE, ![collector].done = TRUE,
                                      ![collector].late = @ \/ fetch[collector].pc = "return"]
            /\ collector' = "none"
    /\ UNCHANGED <<held, over, chatVars>>
-----------------------------------------------------------------------------
(* StartThreadBackfill, runThreadBackfill, FetchMoreThreads. *)

\* The page shows the newest chats, and says where they end if there are more.
PageEnd == Max({1, Chats - Batch + 1})

\* Behind a Ready of the connection.
StartChats ==
    /\ chats.pc = "idle" /\ ~ completed
    /\ chats' = [chats EXCEPT !.pc = "fetch", !.last = 0, !.batches = 0]
    /\ UNCHANGED <<completed, historyVars>>

\* The connection ends, and with it the goroutine; a new client starts from a page.
StopChats ==
    /\ chats' = [chats EXCEPT !.pc = "idle", !.min = PageEnd, !.more = PageEnd > 1]
    /\ UNCHANGED <<completed, historyVars>>

\* Mutant: a request that fails is taken for the end of the list.
FetchChatsToError ==
    /\ chats.pc = "fetch" /\ chats' = [chats EXCEPT !.pc = "idle"] /\ completed' = TRUE
    /\ UNCHANGED historyVars

\* The next chats, in a table that is queued like any other.  A range that says it
\* is the last does not touch the key store, so that the list has ended when its
\* lower end stays where it was.
FetchChats ==
    LET low == Max({1, chats.min - Batch})
        min == IF low > 1 THEN low ELSE chats.min
        end == min = chats.last \/ chats.batches + 1 >= MaxBatches
    IN /\ chats.pc = "fetch" /\ chats.more
       /\ \/ /\ chats' = [chats EXCEPT !.pc = IF end THEN "idle" ELSE "fetch", !.min = min, !.last = min,
                                       !.batches = @ + 1, !.got = Min({@, low})]
             /\ completed' = end
          \/ chats' = [chats EXCEPT !.pc = "idle"] /\ UNCHANGED completed
       /\ UNCHANGED historyVars

\* The page had shown all.
NoMoreChats ==
    /\ chats.pc = "fetch" /\ ~ chats.more
    /\ chats' = [chats EXCEPT !.pc = "idle"] /\ completed' = TRUE
    /\ UNCHANGED historyVars

HistoryNext ==
    \/ \E lo, hi \in 1 .. History, n \in Counts : lo <= hi /\ Bundled(lo, hi, n)
    \/ \E n \in Counts : Older(n)
    \/ \E w \in Ways : Ask(w) \/ Collected(w) \/ TickerFires(w) \/ GivesUp(w) \/ Wrap(w) \/ Return(w)
    \/ \E a \in wire : Arrive(a) \/ NothingBefore(a)

ChatsNext == StartChats \/ StopChats \/ FetchChats \/ NoMoreChats

BackfillSpec == BackfillInit /\ [][HistoryNext \/ ChatsNext]_backfillVars
-----------------------------------------------------------------------------
(* Properties. *)

\* What a call of FetchMessages returns is history without a gap, all of it from
\* where it got to right up to what the portal holds (backward) or to the news
\* (forward), and it says that there is more exactly if there is: as long as no
\* answer to an older question, which the check of MaxTimestampMsTemplate lets
\* pass, was joined on the way.  Of an answer that comes while the result is made
\* only the end of it is taken, which can make it say the wrong thing.
FetchedWhole == \A w \in Ways :
    fetch[w].pc = "return" /\ ~ fetch[w].strange =>
        LET given   == fetch[w]
            forward == w = "forward"
            top     == IF forward THEN given.hi ELSE given.anchor - 1
            bottom  == IF forward THEN Max({given.lo, given.anchor + 1}) ELSE given.lo
        IN /\ given.msgs # {} => given.msgs = Min(given.msgs) .. top
           /\ \/ given.late
              \/ /\ given.msgs = bottom .. top /\ (given.lo > 1 => given.more)
                 /\ given.more => given.lo > 1 \/ given.msgs = {}

\* The list of chats is complete when it is said to be, unless it was cut at as
\* many batches as were asked for (runThreadBackfill).
ChatsWhole == completed => chats.got = 1 \/ chats.batches >= MaxBatches

\* Neither the history of a chat nor the list of chats is passed on with something
\* missing in the middle.
HistoryWhole == FetchedWhole /\ ChatsWhole
=============================================================================
