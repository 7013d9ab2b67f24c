---------------------------- MODULE ChatContext ----------------------------
(***************************************************************************)
(* What the AI is shown of a conversation.  The dispatcher stores a message *)
(* and starts the chat handler in one turn of the event loop; the handler   *)
(* (chat.mjs) resolves the thread, takes the conversation from the context  *)
(* cache or from the database (context-loader.mjs), asks Gemini, composes,  *)
(* sends, and then drops the thread's entry from the cache.  Every step     *)
(* after the first is an await, and other handlers use the cache meanwhile. *)
(*                                                                         *)
(* A conversation is a set of messages: their order is that of their        *)
(* timestamps, which is not the order they arrive in.                       *)
(***************************************************************************)
EXTENDS Integers, FiniteSets

CONSTANTS Threads,
          Msgs,        \* messages with text, each arriving once
          Kinds,       \* Kinds[m]: what the handlers may make of m
          Home,        \* Home[m]: the thread m arrives in
          Stamp,       \* Stamp[m]: its timestamp, to the millisecond: no two in a thread share one
          Limit,       \* DEFAULT_MAX_MESSAGES
          TTL,         \* CACHE_TTL_MS, in ticks
          MaxEntries,  \* MAX_CACHE_ENTRIES
          MaxFaults,   \* bound: database calls that throw
          MaxTime      \* bound: ticks

\* Chat; chat that speaks of another thread ("reply there"); or somebody else's to handle.
AllKinds == {"chat", "question", "other"}

ASSUME ContextAssumption ==
    /\ Kinds \in [Msgs -> SUBSET AllKinds]
    /\ Home \in [Msgs -> Threads] /\ Stamp \in [Msgs -> Nat]
    /\ \A m, k \in Msgs : Home[m] = Home[k] /\ Stamp[m] = Stamp[k] => m = k
    /\ Limit \in Nat \ {0} /\ TTL \in Nat \ {0} /\ MaxEntries \in Nat \ {0}
    /\ MaxFaults \in Nat /\ MaxTime \in Nat
    /\ IsFiniteSet(Msgs) /\ IsFiniteSet(Threads)

VARIABLES now,      \* Date.now()
          saved,    \* the messages table
          savedAt,  \* savedAt[m]: when m was stored, MaxTime + 1 if it is not (history)
          cache,    \* cache[t]: the entry of t in #cache
          phase,    \* phase[m]: how far the handling of m got
          base,     \* base[m]: the context m's handler loaded, without its appended m
          faults,   \* database calls that have thrown so far
          settled   \* settled[t]: what was stored when the last reply in t was done (history)

chatVars == <<now, saved, savedAt, cache, phase, base, faults, settled>>

\* failed: what was cached is the empty context of a database error (history).
NoEntry  == [base |-> {}, loadedAt |-> -1, failed |-> FALSE]
Entries  == {NoEntry} \cup [base : SUBSET Msgs, loadedAt : 0 .. MaxTime, failed : BOOLEAN]
Held     == {t \in Threads : cache[t] # NoEntry}

StoredIn(t, S) == {m \in S : Home[m] = t}

\* Pushed out of S by the limit: ORDER BY timestamp DESC LIMIT maxMessages.
PushedOut(m, S) == Cardinality({k \in S : Stamp[k] > Stamp[m]}) >= Limit

Newest(S) == {m \in S : ~ PushedOut(m, S)}

Init == /\ now = 0 /\ saved = {}
        /\ savedAt = [m \in Msgs |-> MaxTime + 1]
        /\ cache = [t \in Threads |-> NoEntry]
        /\ phase = [m \in Msgs |-> "new"]
        /\ base = [m \in Msgs |-> {}]
        /\ faults = 0
        /\ settled = [t \in Threads |-> {}]
-----------------------------------------------------------------------------
(* The cache. *)

\* Mutant: an entry is served for as long as it is there.
HitAtAnyAge(t) == t \in Held

Hit(t) == t \in Held /\ now - cache[t].loadedAt < TTL

Live == {t \in Held : now - cache[t].loadedAt < TTL}

\* Mutant: eviction stops at the limit, and the new entry comes on top.
SurvivorsUpToLimit ==
    {K \in SUBSET Live : Cardinality(K) <= MaxEntries /\ (Cardinality(Live) <= MaxEntries => K = Live)}

\* #evictStale: the expired entries go, then the oldest until there is room for one
\* more.  Among entries of the same age the code takes the first inserted.
Survivors ==
    {K \in SUBSET Live :
        /\ Cardinality(K) < MaxEntries
        /\ Cardinality(Live) < MaxEntries => K = Live
        /\ Cardinality(Live) >= MaxEntries => Cardinality(K) = MaxEntries - 1
        /\ \A t \in K, u \in Live \ K : cache[u].loadedAt <= cache[t].loadedAt}

Kept(K) == [t \in Threads |-> IF t \in K THEN cache[t] ELSE NoEntry]

\* load(): from the cache, or from the database into the cache.  A database error
\* gives an empty context, and that is cached as well.
Load(m, fails) ==
    LET t == Home[m]
    IN  \/ /\ Hit(t) /\ ~ fails
           /\ base' = [base EXCEPT ![m] = cache[t].base]
           /\ UNCHANGED cache
        \/ /\ ~ Hit(t)
           /\ \E K \in Survivors :
                 LET found == IF fails THEN {} ELSE Newest(StoredIn(t, saved'))
                 IN  /\ cache' = [Kept(K) EXCEPT ![t] =
                                     [base |-> found, loadedAt |-> now, failed |-> fails]]
                     /\ base' = [base EXCEPT ![m] = found]

\* The eviction timer.
Sweep == /\ \E K \in Survivors : cache' = Kept(K)
         /\ UNCHANGED <<now, saved, savedAt, phase, base, faults, settled>>

\* Memory pressure: clearCache().
ClearCache == /\ cache' = [t \in Threads |-> NoEntry]
              /\ UNCHANGED <<now, saved, savedAt, phase, base, faults, settled>>
-----------------------------------------------------------------------------
(* The handler. *)

\* The dispatcher stores the message, or fails to.
Store(m, fails) ==
    IF fails THEN UNCHANGED <<saved, savedAt>>
    ELSE /\ saved' = saved \cup {m}
         /\ savedAt' = [savedAt EXCEPT ![m] = now]

\* A turn of the event loop with its storing and its reading of the database.
Fault(storing, reading) ==
    /\ faults' = faults + Cardinality({x \in {<<"store", storing>>, <<"read", reading>>} : x[2]})
    /\ faults' <= MaxFaults

\* Handled by somebody else, or by nobody: the message is in the history all the same.
Overheard(m) ==
    /\ phase[m] = "new" /\ "other" \in Kinds[m]
    /\ \E fails \in BOOLEAN : Store(m, fails) /\ Fault(fails, FALSE)
    /\ phase' = [phase EXCEPT ![m] = "ended"]
    /\ UNCHANGED <<now, cache, base, settled>>

\* A thread has no name the resolver could match, so a message that speaks of
\* another thread is answered with a question.
Ask(m) ==
    /\ phase[m] = "new" /\ "question" \in Kinds[m]
    /\ \E fails \in BOOLEAN : Store(m, fails) /\ Fault(fails, FALSE)
    /\ phase' = [phase EXCEPT ![m] = "asking"]
    /\ UNCHANGED <<now, cache, base, settled>>

Begin(m) ==
    /\ phase[m] = "new" /\ "chat" \in Kinds[m]
    /\ \E storing, reading \in BOOLEAN :
          Store(m, storing) /\ Load(m, reading) /\ Fault(storing, reading)
    /\ phase' = [phase EXCEPT ![m] = "thinking"]
    /\ UNCHANGED <<now, settled>>

Ends(m) == /\ phase' = [phase EXCEPT ![m] = "ended"]
           /\ base' = [base EXCEPT ![m] = {}]

\* Decision (an error is a no), analysis, composition with its fallback, and the
\* safety gate: several awaits, after which there is a reply to send or there is none.
Think(m) ==
    /\ phase[m] = "thinking"
    /\ \/ Ends(m)
       \/ phase' = [phase EXCEPT ![m] = "sending"] /\ UNCHANGED base
    /\ UNCHANGED <<now, saved, savedAt, cache, faults, settled>>

\* Mutant: the cache is not invalidated.
SentKeepingEntry(m) ==
    /\ phase[m] = "sending" /\ Ends(m)
    /\ settled' = [settled EXCEPT ![Home[m]] = StoredIn(Home[m], saved)]
    /\ UNCHANGED <<now, saved, savedAt, cache, faults>>

\* The send is over; only then is the entry dropped, whoever wrote it.
Sent(m) ==
    /\ phase[m] = "sending" /\ Ends(m)
    /\ cache' = [cache EXCEPT ![Home[m]] = NoEntry]
    /\ settled' = [settled EXCEPT ![Home[m]] = StoredIn(Home[m], saved)]
    /\ UNCHANGED <<now, saved, savedAt, faults>>

\* The question is out, or a send threw: the entry stays where it is.
EndsQuietly(m) ==
    /\ phase[m] \in {"sending", "asking"} /\ Ends(m)
    /\ UNCHANGED <<now, saved, savedAt, cache, faults, settled>>

Tick == /\ now < MaxTime /\ now' = now + 1
        /\ UNCHANGED <<saved, savedAt, cache, phase, base, faults, settled>>

Next == \/ \E m \in Msgs : \/ Overheard(m) \/ Ask(m) \/ Begin(m)
                           \/ Think(m) \/ Sent(m) \/ EndsQuietly(m)
        \/ Sweep \/ ClearCache \/ Tick

Spec == Init /\ [][Next]_chatVars
-----------------------------------------------------------------------------
Phases == {"new", "asking", "thinking", "sending", "ended"}

ContextTypeOK == /\ now \in 0 .. MaxTime /\ saved \subseteq Msgs
                 /\ savedAt \in [Msgs -> 0 .. MaxTime + 1]
                 /\ cache \in [Threads -> Entries]
                 /\ phase \in [Msgs -> Phases]
                 /\ base \in [Msgs -> SUBSET Msgs]
                 /\ faults \in 0 .. MaxFaults
                 /\ settled \in [Threads -> SUBSET Msgs]

\* The cache stays within its limit, and holds for a thread nothing but messages of
\* that thread, stored ones, and no more of them than fit a prompt.
CacheSound ==
    /\ Cardinality(Held) <= MaxEntries
    /\ \A t \in Threads : /\ cache[t].base \subseteq StoredIn(t, saved)
                          /\ Cardinality(cache[t].base) <= Limit
                          /\ cache[t].loadedAt <= now

\* What was stored in a thread before its entry was read, or when its last reply went
\* out, is in the entry, but for what the limit has pushed out of the conversation.
EntriesFresh ==
    /\ \A m \in saved : savedAt[m] <= now
    /\ \A t \in Threads :
          /\ settled[t] \subseteq StoredIn(t, saved)
          /\ t \in Held /\ ~ cache[t].failed =>
                \A m \in StoredIn(t, saved) :
                    savedAt[m] < cache[t].loadedAt \/ m \in settled[t] =>
                        m \in cache[t].base \/ PushedOut(m, StoredIn(t, saved))

ContextInv == ContextTypeOK /\ CacheSound /\ EntriesFresh

\* m's handler loads its context in this step.
Loads(m) == phase[m] = "new" /\ phase'[m] = "thinking"

\* S is shown to the handler of m, but for what the limit pushed out since.
Shown(m, S) == \A k \in S : k \in base'[m] \/ PushedOut(k, StoredIn(Home[m], saved'))

\* The context of m is not what a failed read left in the cache.
Read(m) == ~ cache'[Home[m]].failed

\* A context is behind the database by less than the time to live: everything that
\* was stored in the thread before is in it.  A cached error is the exception.
ServesRecent ==
    [][\A m \in Msgs : (Loads(m) /\ Read(m)) =>
            Shown(m, {k \in StoredIn(Home[m], saved) : now - savedAt[k] >= TTL})]_chatVars

\* Once a reply is out, the next handler in the thread sees everything that was
\* stored when it went out, however many handlers had the old context.
ServesSettled ==
    [][\A m \in Msgs : (Loads(m) /\ Read(m)) => Shown(m, settled[Home[m]])]_chatVars
=============================================================================
