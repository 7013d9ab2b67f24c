--------------------------- MODULE DatabaseProofs ---------------------------
(***************************************************************************)
(* For any conversations and limits: the context cache stays within its     *)
(* limit and holds stored messages of its threads, a context is behind the  *)
(* database by less than the time to live, and it holds everything that was *)
(* stored when the last reply went out.  The argument is one invariant on   *)
(* the entries; the contexts that handlers took earlier play no part in it. *)
(***************************************************************************)
EXTENDS ChatContext, Migration, FiniteSetTheorems, TLAPS

LEMMA MsgSets ==
  ASSUME NEW S \in SUBSET Msgs
  PROVE  IsFiniteSet(S) /\ Cardinality(S) \in Nat
BY ContextAssumption, FS_Subset, FS_CardinalityType

Above(m, S) == {k \in S : Stamp[k] > Stamp[m]}

\* A message that the limit pushed out stays out when more messages are stored.
LEMMA StaysPushedOut ==
  ASSUME NEW S \in SUBSET Msgs, NEW T \in SUBSET Msgs, S \subseteq T,
         NEW m, PushedOut(m, S)
  PROVE  PushedOut(m, T)
<1>1. Above(m, T) \in SUBSET Msgs /\ Above(m, S) \in SUBSET Above(m, T)
  BY DEF Above
<1>2. Cardinality(Above(m, S)) <= Cardinality(Above(m, T))
  BY <1>1, MsgSets, FS_Subset
<1>3. Cardinality(Above(m, S)) \in Nat /\ Cardinality(Above(m, T)) \in Nat
  <2>1. Above(m, S) \in SUBSET Msgs
    BY <1>1
  <2>2. QED BY <1>1, <2>1, MsgSets
<1>4. QED BY <1>2, <1>3, ContextAssumption DEF PushedOut, Above

\* The newest messages of a thread fit a prompt: the number of newer messages
\* tells them apart, and is below the limit for each.
LEMMA NewestFits ==
  ASSUME NEW S \in SUBSET Msgs, NEW t \in Threads, \A m \in S : Home[m] = t
  PROVE  Cardinality(Newest(S)) <= Limit
<1> USE ContextAssumption
<1> DEFINE N    == Newest(S)
           rank == [m \in N |-> Cardinality(Above(m, S))]
<1>1. N \in SUBSET Msgs
  BY DEF Newest
<1>2. \A m \in N : Above(m, S) \in SUBSET Msgs
  BY DEF Above
<1>3. \A m \in N : Cardinality(Above(m, S)) \in 0 .. Limit - 1
  <2>1. \A m \in N : Cardinality(Above(m, S)) \in Nat
    BY <1>2, MsgSets
  <2>2. QED BY <2>1 DEF Newest, PushedOut, Above
<1>4. rank \in [N -> 0 .. Limit - 1]
  BY <1>3
<1>5. IsFiniteSet(0 .. Limit - 1) /\ Cardinality(0 .. Limit - 1) = Limit
  BY FS_Interval
<1>6. ASSUME NEW m \in N, NEW k \in N, Stamp[m] < Stamp[k]
      PROVE  rank[m] # rank[k]
  <2>1. Above(k, S) \in SUBSET (Above(m, S) \ {k}) /\ k \in Above(m, S)
    BY <1>6, <1>1 DEF Above, Newest
  <2>2. IsFiniteSet(Above(m, S)) /\ Cardinality(Above(m, S)) \in Nat
    BY <1>2, MsgSets
  <2>3. /\ IsFiniteSet(Above(m, S) \ {k})
        /\ Cardinality(Above(m, S) \ {k}) = Cardinality(Above(m, S)) - 1
    BY <2>1, <2>2, FS_RemoveElement
  <2>4. Cardinality(Above(k, S)) <= Cardinality(Above(m, S) \ {k})
    BY <2>1, <2>3, FS_Subset
  <2>5. Cardinality(Above(k, S)) \in Nat
    BY <1>2, MsgSets
  <2>6. QED BY <2>2, <2>3, <2>4, <2>5
<1>7. \A m, k \in N : rank[m] = rank[k] => m = k
  <2>1. \A m, k \in N : Stamp[m] \in Nat /\ Stamp[k] \in Nat /\ Home[m] = Home[k]
    BY <1>1 DEF Newest
  <2>2. QED BY <1>1, <1>6, <2>1
<1>8. IsFiniteSet(N) /\ Cardinality(N) \in Nat
  BY <1>1, MsgSets
<1> HIDE DEF N, rank
<1>9. ~ (Limit < Cardinality(N))
  <2>1. SUFFICES ASSUME Limit < Cardinality(N) PROVE FALSE
    OBVIOUS
  <2>2. \E m, k \in N : m # k /\ rank[m] = rank[k]
    BY <1>4, <1>5, <1>8, <2>1, FS_PigeonHole
  <2>3. QED BY <1>7, <2>2
<1>10. QED BY <1>8, <1>9 DEF N
-----------------------------------------------------------------------------
(* What every step is, seen from the table and the cache. *)

\* Messages are stored, at the present time.
TableGrows ==
  /\ saved \subseteq saved' /\ saved' \subseteq Msgs
  /\ savedAt' \in [Msgs -> 0 .. MaxTime + 1]
  /\ \A k \in saved' : savedAt'[k] = now \/ (k \in saved /\ savedAt'[k] = savedAt[k])

\* The entry of t stays, goes, or is what the database holds now.
EntryMoves(t) ==
  \/ cache'[t] = cache[t]
  \/ cache'[t] = NoEntry
  \/ \E fails \in BOOLEAN, found \in {{}, Newest(StoredIn(t, saved)')} :
        /\ cache'[t] = [base |-> found, loadedAt |-> now, failed |-> fails]
        /\ ~ fails => found = Newest(StoredIn(t, saved)')

\* A reply in t goes out only together with t's entry.
ReplySettles(t) ==
  \/ settled'[t] = settled[t]
  \/ settled'[t] = StoredIn(t, saved) /\ cache'[t] = NoEntry

Moves ==
  /\ TableGrows
  /\ now' \in 0 .. MaxTime /\ now <= now'
  /\ cache' \in [Threads -> Entries] /\ settled' \in [Threads -> SUBSET Msgs]
  /\ Cardinality(Held') <= MaxEntries
  /\ \A t \in Threads : EntryMoves(t) /\ ReplySettles(t)

\* An entry is as good as before when messages are stored after it was read.
LEMMA MovesKeepEntriesFresh ==
  ASSUME ContextInv, Moves
  PROVE  EntriesFresh'
<1> USE DEF ContextInv, ContextTypeOK, Moves
<1>1. \A t \in Threads : /\ StoredIn(t, saved) \subseteq StoredIn(t, saved)'
                         /\ StoredIn(t, saved) \in SUBSET Msgs
                         /\ StoredIn(t, saved)' \in SUBSET Msgs
  BY DEF StoredIn, TableGrows
<1>2. \A k \in saved' : savedAt'[k] <= now'
  <2>1. \A k \in saved : savedAt[k] <= now /\ savedAt[k] \in Int
    BY DEF EntriesFresh
  <2>2. QED BY <2>1 DEF TableGrows
<1>3. \A t \in Threads : settled'[t] \subseteq StoredIn(t, saved)'
  BY <1>1 DEF ReplySettles, EntriesFresh
<1>4. ASSUME NEW t \in Threads, cache'[t] # NoEntry, ~ cache'[t].failed,
             NEW k \in StoredIn(t, saved)',
             savedAt'[k] < cache'[t].loadedAt \/ k \in settled'[t]
      PROVE  k \in cache'[t].base \/ PushedOut(k, StoredIn(t, saved)')
  <2>1. CASE cache'[t] = cache[t]
    <3>1. cache[t].loadedAt <= now /\ cache[t].loadedAt \in Int
      BY DEF CacheSound, Entries, NoEntry
    <3>2. settled'[t] = settled[t]
      BY <1>4 DEF ReplySettles
    <3>3. k \in saved' /\ Home[k] = t
      BY <1>4 DEF StoredIn
    <3>4. k \in StoredIn(t, saved) /\ (savedAt[k] < cache[t].loadedAt \/ k \in settled[t])
      <4>1. CASE k \in settled[t]
        BY <4>1 DEF EntriesFresh
      <4>2. CASE savedAt'[k] < cache[t].loadedAt
        BY <2>1, <3>1, <3>3, <4>2 DEF TableGrows, StoredIn
      <4>3. QED BY <1>4, <2>1, <3>2, <4>1, <4>2
    <3>5. k \in cache[t].base \/ PushedOut(k, StoredIn(t, saved))
      BY <1>4, <2>1, <3>4 DEF EntriesFresh, Held
    <3>6. QED BY <1>1, <2>1, <3>5, StaysPushedOut
  <2>2. CASE cache'[t].base = Newest(StoredIn(t, saved)')
    BY <1>4, <2>2 DEF Newest
  <2>3. CASE \E fails \in BOOLEAN, found \in {{}, Newest(StoredIn(t, saved)')} :
                /\ cache'[t] = [base |-> found, loadedAt |-> now, failed |-> fails]
                /\ ~ fails => found = Newest(StoredIn(t, saved)')
    BY <1>4, <2>2, <2>3
  <2>4. QED BY <1>4, <2>1, <2>3 DEF EntryMoves
<1>5. QED BY <1>2, <1>3, <1>4 DEF EntriesFresh, Held

LEMMA MovesKeepCacheSound ==
  ASSUME ContextInv, Moves
  PROVE  CacheSound'
<1> USE DEF ContextInv, ContextTypeOK, Moves
<1>1. ASSUME NEW t \in Threads
      PROVE  /\ cache'[t].base \subseteq StoredIn(t, saved)'
             /\ Cardinality(cache'[t].base) <= Limit
             /\ cache'[t].loadedAt <= now'
  <2>1. StoredIn(t, saved) \subseteq StoredIn(t, saved)' /\ StoredIn(t, saved)' \in SUBSET Msgs
    BY DEF StoredIn, TableGrows
  <2>2. cache[t].loadedAt \in Int /\ cache[t].loadedAt <= now
    BY DEF CacheSound, Entries, NoEntry
  <2>3. CASE cache'[t] = cache[t]
    BY <2>1, <2>2, <2>3 DEF CacheSound
  <2>4. CASE cache'[t].base = {} /\ cache'[t].loadedAt \in {-1, now}
    BY <2>4, FS_EmptySet, ContextAssumption
  <2>5. CASE cache'[t].base = Newest(StoredIn(t, saved)') /\ cache'[t].loadedAt = now
    <3>1. \A k \in StoredIn(t, saved)' : Home[k] = t
      BY DEF StoredIn
    <3>2. Cardinality(Newest(StoredIn(t, saved)')) <= Limit
      BY <2>1, <3>1, NewestFits
    <3>3. QED BY <2>5, <3>2 DEF Newest
  <2>6. QED BY <2>3, <2>4, <2>5 DEF EntryMoves, NoEntry
<1>2. QED BY <1>1 DEF CacheSound
-----------------------------------------------------------------------------
(* Every step is such a step. *)

LEMMA StoreGrows ==
  ASSUME ContextInv, NEW m \in Msgs, NEW fails, Store(m, fails)
  PROVE  TableGrows
<1> USE ContextAssumption DEF ContextInv, ContextTypeOK
<1>1. now \in 0 .. MaxTime + 1
  OBVIOUS
<1>2. QED BY <1>1 DEF Store, TableGrows

LEMMA UnstoredGrows ==
  ASSUME ContextInv, UNCHANGED <<saved, savedAt>>
  PROVE  TableGrows
BY DEF ContextInv, ContextTypeOK, TableGrows

LEMMA FewerHeld ==
  ASSUME NEW K \in SUBSET Threads, Cardinality(K) <= MaxEntries, Held' \subseteq K
  PROVE  Cardinality(Held') <= MaxEntries
<1>1. IsFiniteSet(K) /\ Cardinality(K) \in Nat
  BY ContextAssumption, FS_Subset, FS_CardinalityType
<1>2. Cardinality(Held') <= Cardinality(K) /\ IsFiniteSet(Held')
  BY <1>1, FS_Subset
<1>3. Cardinality(Held') \in Nat
  BY <1>2, FS_CardinalityType
<1>4. QED BY <1>1, <1>2, <1>3, ContextAssumption

\* Entries only go.
LEMMA DroppingMoves ==
  ASSUME ContextInv, UNCHANGED now, TableGrows, cache' \in [Threads -> Entries],
         \A t \in Threads : cache'[t] \in {cache[t], NoEntry} /\ ReplySettles(t),
         settled' \in [Threads -> SUBSET Msgs]
  PROVE  Moves
<1>1. Held \in SUBSET Threads /\ Held' \subseteq Held
  BY DEF Held
<1>2. Cardinality(Held') <= MaxEntries
  BY <1>1, FewerHeld DEF ContextInv, CacheSound
<1>3. QED BY <1>2 DEF Moves, EntryMoves, ContextInv, ContextTypeOK

\* A survivor set leaves room for one more entry.
LEMMA SurvivorsLeaveRoom ==
  ASSUME NEW K \in Survivors, NEW t \in Threads
  PROVE  /\ K \in SUBSET Held /\ K \in SUBSET Threads
         /\ Cardinality(K) < MaxEntries
         /\ Cardinality(K \cup {t}) <= MaxEntries
<1>1. K \in SUBSET Held /\ K \in SUBSET Threads /\ Cardinality(K) < MaxEntries
  BY DEF Survivors, Live, Held
<1>2. IsFiniteSet(K) /\ Cardinality(K) \in Nat
  BY <1>1, ContextAssumption, FS_Subset, FS_CardinalityType
<1>3. Cardinality(K \cup {t}) \in {Cardinality(K), Cardinality(K) + 1}
  BY <1>2, FS_AddElement
<1>4. QED BY <1>1, <1>2, <1>3, ContextAssumption

LEMMA LoadMoves ==
  ASSUME ContextInv, NEW m \in Msgs, NEW fails \in BOOLEAN, Load(m, fails), TableGrows,
         UNCHANGED <<now, settled>>
  PROVE  /\ Moves
         /\ base' \in [Msgs -> SUBSET Msgs]
<1> USE ContextAssumption DEF ContextInv, ContextTypeOK
<1> DEFINE t == Home[m]
<1>1. \A u \in Threads : ReplySettles(u)
  BY DEF ReplySettles
<1>2. CASE Hit(t) /\ base' = [base EXCEPT ![m] = cache[t].base] /\ UNCHANGED cache
  <2>1. cache[t].base \in SUBSET Msgs
    BY DEF Entries, NoEntry
  <2>2. Moves
    BY <1>1, <1>2, DroppingMoves
  <2>3. QED BY <1>2, <2>1, <2>2
<1>3. CASE ~ Hit(t) /\ \E K \in Survivors :
                 LET found == IF fails THEN {} ELSE Newest(StoredIn(t, saved'))
                 IN  /\ cache' = [Kept(K) EXCEPT ![t] =
                                     [base |-> found, loadedAt |-> now, failed |-> fails]]
                     /\ base' = [base EXCEPT ![m] = found]
  <2> DEFINE found == IF fails THEN {} ELSE Newest(StoredIn(t, saved)')
  <2>1. StoredIn(t, saved)' = StoredIn(t, saved')
    BY DEF StoredIn
  <2>2. PICK K \in Survivors :
           /\ cache' = [Kept(K) EXCEPT ![t] = [base |-> found, loadedAt |-> now, failed |-> fails]]
           /\ base' = [base EXCEPT ![m] = found]
    BY <1>3, <2>1
  <2>3. found \in SUBSET Msgs /\ found \in {{}, Newest(StoredIn(t, saved)')}
    BY DEF Newest, StoredIn, TableGrows
  <2>4. [base |-> found, loadedAt |-> now, failed |-> fails] \in Entries
    BY <2>3 DEF Entries
  <2>5. Kept(K) \in [Threads -> Entries]
    BY DEF Kept, Entries
  <2>6. \A u \in Threads : EntryMoves(u)
    <3>1. \A u \in Threads \ {t} : cache'[u] \in {cache[u], NoEntry}
      BY <2>2 DEF Kept
    <3>2. EntryMoves(t)
      BY <2>2, <2>3, <2>5 DEF EntryMoves
    <3>3. QED BY <3>1, <3>2 DEF EntryMoves
  <2>7. Cardinality(Held') <= MaxEntries
    <3>1. Held' \subseteq K \cup {t}
      BY <2>2 DEF Held, Kept
    <3>2. K \cup {t} \in SUBSET Threads /\ Cardinality(K \cup {t}) <= MaxEntries
      BY SurvivorsLeaveRoom
    <3>3. QED BY <3>1, <3>2, FewerHeld
  <2>8. Moves
    BY <1>1, <2>2, <2>4, <2>5, <2>6, <2>7 DEF Moves
  <2>9. QED BY <2>2, <2>3, <2>8
<1>4. QED BY <1>2, <1>3 DEF Load

LEMMA FaultIsBounded ==
  ASSUME ContextInv, NEW storing, NEW reading, Fault(storing, reading)
  PROVE  faults' \in 0 .. MaxFaults
<1> DEFINE F == {x \in {<<"store", storing>>, <<"read", reading>>} : x[2]}
<1>1. IsFiniteSet({<<"store", storing>>, <<"read", reading>>})
  <2>1. IsFiniteSet({<<"store", storing>>})
    BY FS_Singleton
  <2>2. IsFiniteSet({<<"store", storing>>} \cup {<<"read", reading>>})
    BY <2>1, FS_AddElement
  <2>3. {<<"store", storing>>, <<"read", reading>>} = {<<"store", storing>>} \cup {<<"read", reading>>}
    OBVIOUS
  <2>4. QED BY <2>2, <2>3
<1>2. Cardinality(F) \in Nat
  BY <1>1, FS_Subset, FS_CardinalityType
<1>3. QED BY <1>2, ContextAssumption DEF Fault, ContextInv, ContextTypeOK
-----------------------------------------------------------------------------
LEMMA StepMoves ==
  ASSUME ContextInv, [Next]_chatVars
  PROVE  Moves /\ ContextTypeOK'
<1> USE DEF ContextInv, ContextTypeOK
<1>1. ASSUME Moves, phase' \in [Msgs -> Phases], base' \in [Msgs -> SUBSET Msgs],
             faults' \in 0 .. MaxFaults
      PROVE  Moves /\ ContextTypeOK'
  BY <1>1 DEF Moves, TableGrows
<1>2. ASSUME NEW m \in Msgs, Overheard(m) \/ Ask(m) PROVE Moves /\ ContextTypeOK'
  <2>1. PICK fails \in BOOLEAN : Store(m, fails) /\ Fault(fails, FALSE)
    BY <1>2 DEF Overheard, Ask
  <2>2. UNCHANGED <<now, cache, base, settled>> /\ phase' \in [Msgs -> Phases]
    BY <1>2 DEF Overheard, Ask, Phases
  <2>3. Moves
    BY <2>1, <2>2, StoreGrows, DroppingMoves DEF ReplySettles
  <2>4. QED BY <1>1, <2>1, <2>2, <2>3, FaultIsBounded
<1>3. ASSUME NEW m \in Msgs, Begin(m) PROVE Moves /\ ContextTypeOK'
  <2>1. PICK storing, reading \in BOOLEAN :
           Store(m, storing) /\ Load(m, reading) /\ Fault(storing, reading)
    BY <1>3 DEF Begin
  <2>2. UNCHANGED <<now, settled>> /\ phase' \in [Msgs -> Phases]
    BY <1>3 DEF Begin, Phases
  <2>3. Moves /\ base' \in [Msgs -> SUBSET Msgs]
    BY <2>1, <2>2, StoreGrows, LoadMoves
  <2>4. QED BY <1>1, <2>1, <2>2, <2>3, FaultIsBounded
<1>4. ASSUME NEW m \in Msgs, Think(m) \/ EndsQuietly(m) PROVE Moves /\ ContextTypeOK'
  <2>1. /\ UNCHANGED <<now, saved, savedAt, cache, faults, settled>>
        /\ phase' \in [Msgs -> Phases] /\ base' \in [Msgs -> SUBSET Msgs]
    BY <1>4 DEF Think, EndsQuietly, Ends, Phases
  <2>2. Moves
    BY <2>1, UnstoredGrows, DroppingMoves DEF ReplySettles
  <2>3. QED BY <1>1, <2>1, <2>2
<1>5. ASSUME NEW m \in Msgs, Sent(m) PROVE Moves /\ ContextTypeOK'
  <2>1. /\ UNCHANGED <<now, saved, savedAt, faults>>
        /\ phase' \in [Msgs -> Phases] /\ base' \in [Msgs -> SUBSET Msgs]
        /\ cache' = [cache EXCEPT ![Home[m]] = NoEntry]
        /\ settled' = [settled EXCEPT ![Home[m]] = StoredIn(Home[m], saved)]
    BY <1>5 DEF Sent, Ends, Phases
  <2>2. cache' \in [Threads -> Entries] /\ settled' \in [Threads -> SUBSET Msgs]
    BY <2>1 DEF Entries, StoredIn
  <2>3. \A t \in Threads : cache'[t] \in {cache[t], NoEntry} /\ ReplySettles(t)
    BY <2>1 DEF ReplySettles
  <2>4. Moves
    BY <2>1, <2>2, <2>3, UnstoredGrows, DroppingMoves
  <2>5. QED BY <1>1, <2>1, <2>4
<1>6. ASSUME Sweep \/ ClearCache PROVE Moves /\ ContextTypeOK'
  <2>1. /\ UNCHANGED <<now, saved, savedAt, phase, base, faults, settled>>
        /\ cache' \in [Threads -> Entries]
        /\ \A t \in Threads : cache'[t] \in {cache[t], NoEntry}
    BY <1>6 DEF Sweep, ClearCache, Kept, Entries
  <2>2. Moves
    BY <2>1, UnstoredGrows, DroppingMoves DEF ReplySettles
  <2>3. QED BY <1>1, <2>1, <2>2
<1>7. ASSUME Tick \/ UNCHANGED chatVars PROVE Moves /\ ContextTypeOK'
  <2>1. /\ UNCHANGED <<saved, savedAt, cache, phase, base, faults, settled>>
        /\ now' \in 0 .. MaxTime /\ now <= now'
    BY <1>7, ContextAssumption DEF Tick, chatVars
  <2>2. Cardinality(Held') <= MaxEntries
    BY <2>1 DEF CacheSound, Held
  <2>3. Moves
    BY <2>1, <2>2, UnstoredGrows DEF Moves, EntryMoves, ReplySettles
  <2>4. QED BY <1>1, <2>1, <2>3
<1>8. QED BY <1>2, <1>3, <1>4, <1>5, <1>6, <1>7 DEF Next

\* The cache stays within its limit, holds stored messages of its threads, no more
\* than fit a prompt, and nothing older than its entry is missing.
THEOREM ContextInvariant == Spec => []ContextInv
<1>1. Init => ContextInv
  <2>1. SUFFICES ASSUME Init PROVE ContextInv
    OBVIOUS
  <2> USE <2>1, ContextAssumption DEF Init
  <2>2. ContextTypeOK
    BY DEF ContextTypeOK, Entries, Phases
  <2>3. Held = {}
    BY DEF Held
  <2>4. CacheSound
    <3>1. Cardinality({}) = 0
      BY FS_EmptySet
    <3>2. Cardinality(Held) <= MaxEntries
      BY <2>3, <3>1
    <3>3. \A t \in Threads : cache[t].base = {} /\ cache[t].loadedAt = -1
      BY DEF NoEntry
    <3>4. ASSUME NEW t \in Threads
          PROVE  /\ cache[t].base \subseteq StoredIn(t, saved)
                 /\ Cardinality(cache[t].base) <= Limit
                 /\ cache[t].loadedAt <= now
      <4>1. Cardinality(cache[t].base) = 0
        BY <3>1, <3>3
      <4>2. cache[t].loadedAt <= now
        BY <3>3
      <4>3. QED BY <3>3, <4>1, <4>2
    <3>5. QED BY <3>2, <3>4 DEF CacheSound
  <2>5. EntriesFresh
    BY <2>3 DEF EntriesFresh
  <2>6. QED BY <2>2, <2>4, <2>5 DEF ContextInv
<1>2. ContextInv /\ [Next]_chatVars => ContextInv'
  BY StepMoves, MovesKeepCacheSound, MovesKeepEntriesFresh DEF ContextInv
<1>3. QED BY <1>1, <1>2, PTL DEF Spec
-----------------------------------------------------------------------------
\* Only the first step of a handler loads, and it shows what the entry holds or
\* what the database holds.
LEMMA LoadShows ==
  ASSUME ContextInv, Next, NEW m \in Msgs, Loads(m), Read(m), NEW k \in StoredIn(Home[m], saved),
         savedAt[k] <= now - TTL \/ k \in settled[Home[m]]
  PROVE  k \in base'[m] \/ PushedOut(k, StoredIn(Home[m], saved'))
<1> USE ContextAssumption DEF ContextInv, ContextTypeOK
<1> DEFINE t == Home[m]
<1>1. Begin(m)
  <2>1. \A n \in Msgs : (n # m /\ (Overheard(n) \/ Ask(n) \/ Begin(n) \/ Think(n) \/ Sent(n) \/ EndsQuietly(n)))
                            => phase'[m] = phase[m]
    BY DEF Overheard, Ask, Begin, Think, Sent, EndsQuietly, Ends
  <2>2. ~ (Overheard(m) \/ Ask(m) \/ Think(m) \/ Sent(m) \/ EndsQuietly(m))
    BY DEF Loads, Overheard, Ask, Think, Sent, EndsQuietly, Ends
  <2>3. QED BY <2>1, <2>2 DEF Next, Loads, Sweep, ClearCache, Tick
<1>2. PICK storing, reading \in BOOLEAN : Store(m, storing) /\ Load(m, reading)
  BY <1>1 DEF Begin
<1>3. /\ StoredIn(t, saved) \in SUBSET Msgs /\ StoredIn(t, saved') \in SUBSET Msgs
      /\ StoredIn(t, saved) \subseteq StoredIn(t, saved')
  BY <1>2, StoreGrows DEF TableGrows, StoredIn
<1>4. CASE Hit(t) /\ base' = [base EXCEPT ![m] = cache[t].base] /\ UNCHANGED cache
  <2>1. cache[t].loadedAt \in Int /\ savedAt[k] \in Int
    BY <1>3 DEF Entries, NoEntry
  <2>2. savedAt[k] < cache[t].loadedAt \/ k \in settled[t]
    BY <1>4, <2>1 DEF Hit
  <2>3. k \in cache[t].base \/ PushedOut(k, StoredIn(t, saved))
    BY <1>4, <2>2 DEF EntriesFresh, Hit, Read
  <2>4. QED BY <1>3, <1>4, <2>3, StaysPushedOut
<1>5. CASE \E K \in Survivors :
                 LET found == IF reading THEN {} ELSE Newest(StoredIn(t, saved'))
                 IN  /\ cache' = [Kept(K) EXCEPT ![t] =
                                     [base |-> found, loadedAt |-> now, failed |-> reading]]
                     /\ base' = [base EXCEPT ![m] = found]
  <2>1. ~ reading
    BY <1>5 DEF Read, Kept
  <2>2. base'[m] = Newest(StoredIn(t, saved'))
    BY <1>5, <2>1
  <2>3. QED BY <1>3, <2>2 DEF Newest
<1>6. QED BY <1>2, <1>4, <1>5 DEF Load

\* A context lags the database by less than the time to live, for every time to
\* live, limit and interleaving of handlers.
THEOREM ContextsAreRecent == Spec => ServesRecent
<1>1. ContextInv /\ [Next]_chatVars =>
        [\A m \in Msgs : (Loads(m) /\ Read(m)) =>
            Shown(m, {k \in StoredIn(Home[m], saved) : now - savedAt[k] >= TTL})]_chatVars
  <2>1. SUFFICES ASSUME ContextInv, Next, NEW m \in Msgs, Loads(m), Read(m),
                        NEW k \in StoredIn(Home[m], saved), now - savedAt[k] >= TTL
                 PROVE  k \in base'[m] \/ PushedOut(k, StoredIn(Home[m], saved'))
    BY DEF Shown
  <2>2. savedAt[k] <= now - TTL
    BY <2>1, ContextAssumption DEF ContextInv, ContextTypeOK, StoredIn
  <2>3. QED BY <2>1, <2>2, LoadShows
<1>2. QED BY <1>1, ContextInvariant, PTL DEF Spec, ServesRecent

\* After a reply, the next context in the thread has all that preceded the reply,
\* although the handlers that took the old context may still be at work.
THEOREM ContextsAreSettled == Spec => ServesSettled
<1>1. ContextInv /\ [Next]_chatVars =>
        [\A m \in Msgs : (Loads(m) /\ Read(m)) => Shown(m, settled[Home[m]])]_chatVars
  <2>1. SUFFICES ASSUME ContextInv, Next, NEW m \in Msgs, Loads(m), Read(m),
                        NEW k \in settled[Home[m]]
                 PROVE  k \in base'[m] \/ PushedOut(k, StoredIn(Home[m], saved'))
    BY DEF Shown
  <2>2. k \in StoredIn(Home[m], saved)
    BY <2>1, ContextAssumption DEF ContextInv, EntriesFresh
  <2>3. QED BY <2>1, <2>2, LoadShows
<1>2. QED BY <1>1, ContextInvariant, PTL DEF Spec, ServesSettled
-----------------------------------------------------------------------------
(* The migrations. *)

\* The shape of the two migrations: the stamp of each comes last.
LEMMA MigrationShape ==
  /\ Len(Migrations) = 2 /\ DOMAIN Migrations = {1, 2}
  /\ DOMAIN Migrations[1] = 1 .. 5 /\ Len(Migrations[1]) = 5
  /\ DOMAIN Migrations[2] = 1 .. 3 /\ Len(Migrations[2]) = 3
BY DEF Migrations, Create, AddCol, Record

LEMMA Statements ==
  /\ Migrations[1][1] = [op |-> "create", what |-> "messages"]
  /\ Migrations[1][2] = [op |-> "create", what |-> "threads"]
  /\ Migrations[1][3] = [op |-> "create", what |-> "users"]
  /\ Migrations[1][4] = [op |-> "create", what |-> "settings"]
  /\ Migrations[1][5] = [op |-> "stamp", what |-> 1]
  /\ Migrations[2][1] = [op |-> "add", what |-> "username"]
  /\ Migrations[2][2] = [op |-> "add", what |-> "profile_pic"]
  /\ Migrations[2][3] = [op |-> "stamp", what |-> 2]
BY DEF Migrations, Create, AddCol, Record

LEMMA WhatIsMade ==
  /\ Made(1) = {"messages", "threads", "users", "settings"}
  /\ Made(2) = {"username", "profile_pic"}
<1>1. Made(1) = {"messages", "threads", "users", "settings"}
  <2>1. {n \in DOMAIN Migrations[1] : Migrations[1][n].op # "stamp"} = {1, 2, 3, 4}
    BY MigrationShape, Statements
  <2>2. QED BY <2>1, Statements DEF Made
<1>2. Made(2) = {"username", "profile_pic"}
  <2>1. {n \in DOMAIN Migrations[2] : Migrations[2][n].op # "stamp"} = {1, 2}
    BY MigrationShape, Statements
  <2>2. QED BY <2>1, Statements DEF Made
<1>3. QED BY <1>1, <1>2

-----------------------------------------------------------------------------
(* The invariant and the loop's step, written out for the eight statements. *)

Tables  == {"messages", "threads", "users", "settings"}
Columns == {"username", "profile_pic"}

PlainTypesOK ==
  /\ schema \subseteq Tables \cup Columns
  /\ version \in 0 .. 2 /\ current \in 0 .. 2 /\ current <= version
  /\ proc \in {"down", "migrating", "ready"}
  /\ mig \in 1 .. 3 /\ stmt \in 1 .. 6
  /\ crashes \in 0 .. MaxCrashes

PlainEarnedOK ==
  /\ version >= 1 => Tables \subseteq schema
  /\ version >= 2 => Columns \subseteq schema

Done1 == /\ stmt > 1 => "messages" \in schema
         /\ stmt > 2 => "threads" \in schema
         /\ stmt > 3 => "users" \in schema
         /\ stmt > 4 => "settings" \in schema
         /\ stmt > 5 => version >= 1

Done2 == /\ stmt > 1 => "username" \in schema
         /\ stmt > 2 => "profile_pic" \in schema
         /\ stmt > 3 => version >= 2

PlainProgress ==
  proc = "migrating" => /\ mig > 1 => version >= 1
                        /\ (mig = 1 /\ current < 1) => Done1
                        /\ (mig = 2 /\ current < 2) => Done2

PlainInv == PlainTypesOK /\ PlainEarnedOK /\ PlainProgress

LEMMA PlainTypes ==
  MigrationTypeOK <=>
    /\ schema \subseteq Tables \cup Columns
    /\ version \in 0 .. 2 /\ current \in 0 .. 2
    /\ proc \in {"down", "migrating", "ready"}
    /\ mig \in 1 .. 3 /\ stmt \in 1 .. 6
    /\ crashes \in 0 .. MaxCrashes
<1>1. Needed = Tables \cup Columns
  BY WhatIsMade DEF Needed, Tables, Columns
<1>2. Len(Migrations) = 2 /\ 1 .. Len(Migrations) + 1 = 1 .. 3
  BY MigrationShape
<1>3. QED BY <1>1, <1>2 DEF MigrationTypeOK

LEMMA PlainEarned == VersionIsEarned <=> PlainEarnedOK
BY MigrationShape, WhatIsMade DEF VersionIsEarned, PlainEarnedOK, Tables, Columns

DoneIn(i) ==
  \A k \in DOMAIN Migrations[i] : k < stmt =>
     IF Migrations[i][k].op = "stamp" THEN version >= Migrations[i][k].what
                                      ELSE Migrations[i][k].what \in schema

LEMMA PlainDone ==
  ASSUME stmt \in 1 .. 6
  PROVE  (DoneIn(1) <=> Done1) /\ (DoneIn(2) <=> Done2)
<1>1. DoneIn(1) <=> \A k \in {1, 2, 3, 4, 5} : k < stmt =>
         IF Migrations[1][k].op = "stamp" THEN version >= Migrations[1][k].what
                                          ELSE Migrations[1][k].what \in schema
  <2>1. DOMAIN Migrations[1] = {1, 2, 3, 4, 5}
    BY MigrationShape
  <2>2. QED BY <2>1 DEF DoneIn
<1>2. DoneIn(2) <=> \A k \in {1, 2, 3} : k < stmt =>
         IF Migrations[2][k].op = "stamp" THEN version >= Migrations[2][k].what
                                          ELSE Migrations[2][k].what \in schema
  <2>1. DOMAIN Migrations[2] = {1, 2, 3}
    BY MigrationShape
  <2>2. QED BY <2>1 DEF DoneIn
<1>3. QED BY <1>1, <1>2, Statements DEF Done1, Done2

LEMMA PlainIsMigrationInv == MigrationInv <=> PlainInv
<1>1. ASSUME MigrationTypeOK
      PROVE  DoneSoFar <=> /\ current <= version
                           /\ proc = "migrating" =>
                                /\ mig > 1 => version >= 1
                                /\ mig = 1 /\ current < 1 => DoneIn(1)
                                /\ mig = 2 /\ current < 2 => DoneIn(2)
  <2>1. mig \in 1 .. 3 /\ current \in 0 .. 2 /\ DOMAIN Migrations = {1, 2}
    BY <1>1, PlainTypes, MigrationShape
  <2>2. CASE mig = 1  BY <2>1, <2>2 DEF DoneSoFar, DoneIn
  <2>3. CASE mig = 2  BY <2>1, <2>3 DEF DoneSoFar, DoneIn
  <2>4. CASE mig = 3  BY <2>1, <2>4 DEF DoneSoFar
  <2>5. QED BY <2>1, <2>2, <2>3, <2>4
<1>2. QED BY <1>1, PlainTypes, PlainEarned, PlainDone
          DEF MigrationInv, PlainInv, PlainTypesOK, PlainProgress

\* The eight steps of Execute.
Executes(m, k, t) == mig = m /\ stmt = k /\ schema' = schema \cup {t} /\ version' = version
Adds(m, k, t) ==
  \/ m = 1 /\ k = 1 /\ t = "messages"
  \/ m = 1 /\ k = 2 /\ t = "threads"
  \/ m = 1 /\ k = 3 /\ t = "users"
  \/ m = 1 /\ k = 4 /\ t = "settings"
  \/ m = 2 /\ k = 1 /\ t = "username"
  \/ m = 2 /\ k = 2 /\ t = "profile_pic"
Stamps(m, k, v)   == mig = m /\ stmt = k /\ schema' = schema /\ version' = v

LEMMA PlainExecute ==
  ASSUME PlainInv, Execute
  PROVE  /\ proc = "migrating" /\ current < mig /\ stmt' = stmt + 1
         /\ UNCHANGED <<proc, current, mig, crashes>>
         /\ \/ Executes(1, 1, "messages") \/ Executes(1, 2, "threads")
            \/ Executes(1, 3, "users") \/ Executes(1, 4, "settings")
            \/ Executes(2, 1, "username") \/ Executes(2, 2, "profile_pic")
            \/ Stamps(1, 5, 1) \/ Stamps(2, 3, 2)
<1>1. /\ proc = "migrating" /\ current < mig /\ stmt' = stmt + 1
      /\ UNCHANGED <<proc, current, mig, crashes>>
      /\ mig \in {1, 2} /\ stmt <= Len(Migrations[mig])
  BY MigrationShape DEF Execute, Applies, Migrating, PlainInv, PlainTypesOK
<1>2. CASE mig = 1
  <2>1. stmt \in {1, 2, 3, 4, 5}
    BY <1>1, <1>2, MigrationShape DEF PlainInv, PlainTypesOK
  <2>2. QED BY <1>1, <1>2, <2>1, Statements DEF Execute, Statement, Executes, Stamps
<1>3. CASE mig = 2
  <2>1. stmt \in {1, 2, 3}
    BY <1>1, <1>3, MigrationShape DEF PlainInv, PlainTypesOK
  <2>2. QED BY <1>1, <1>3, <2>1, Statements DEF Execute, Statement, Executes, Stamps
<1>4. QED BY <1>1, <1>2, <1>3
-----------------------------------------------------------------------------
LEMMA InitEstablishesPlainInv == MigrationInit => PlainInv
<1> SUFFICES ASSUME MigrationInit PROVE PlainInv
  OBVIOUS
<1>1. \/ schema = {} /\ version = 0
      \/ schema = Tables /\ version = 1
  BY WhatIsMade DEF MigrationInit, Tables
<1>2. PlainTypesOK
  <2>2. proc = "down" /\ current = 0 /\ mig = 1 /\ stmt = 1 /\ crashes = 0
    BY DEF MigrationInit
  <2>3. QED BY <1>1, <2>2, MigrationAssumption DEF PlainTypesOK
<1>3. PlainEarnedOK
  BY <1>1 DEF PlainEarnedOK
<1>4. PlainProgress
  BY DEF MigrationInit, PlainProgress
<1>5. QED BY <1>2, <1>3, <1>4 DEF PlainInv

LEMMA ExecuteKeepsPlainInv ==
  ASSUME PlainInv, Execute
  PROVE  PlainInv'
<1>1. /\ proc = "migrating" /\ current < mig /\ stmt' = stmt + 1
      /\ UNCHANGED <<proc, current, mig, crashes>>
  BY PlainExecute
<1> USE <1>1 DEF PlainInv, PlainTypesOK
<1>2. ASSUME NEW t, NEW m, NEW k, Adds(m, k, t), Executes(m, k, t)
      PROVE  PlainInv'
  <2>1. schema' = schema \cup {t} /\ version' = version /\ mig = m /\ stmt = k
    BY <1>2 DEF Executes
  <2>2. t \in Tables \cup Columns /\ k \in 1 .. 4
    BY <1>2 DEF Adds, Tables, Columns
  <2>3. PlainTypesOK'
    BY <2>1, <2>2
  <2>4. PlainEarnedOK'
    BY <2>1 DEF PlainEarnedOK
  <2>5. mig = 1 => Done1'
    BY <1>2, <2>1 DEF Adds, PlainProgress, Done1
  <2>6. mig = 2 => Done2'
    BY <1>2, <2>1 DEF Adds, PlainProgress, Done2
  <2>7. PlainProgress'
    BY <2>1, <2>5, <2>6 DEF PlainProgress
  <2>8. QED BY <2>3, <2>4, <2>7
<1>3. CASE Stamps(1, 5, 1)
  <2>1. schema' = schema /\ version' = 1 /\ mig = 1 /\ stmt = 5
    BY <1>3 DEF Stamps
  <2>2. Done1
    BY <2>1 DEF PlainProgress
  <2>3. Tables \subseteq schema
    BY <2>1, <2>2 DEF Done1, Tables
  <2>4. PlainEarnedOK' /\ Done1'
    BY <2>1, <2>2, <2>3 DEF PlainEarnedOK, Done1
  <2>5. PlainTypesOK'
    BY <2>1
  <2>6. QED BY <2>1, <2>4, <2>5 DEF PlainProgress
<1>4. CASE Stamps(2, 3, 2)
  <2>1. schema' = schema /\ version' = 2 /\ mig = 2 /\ stmt = 3 /\ version >= 1
    BY <1>4 DEF Stamps, PlainProgress
  <2>2. Done2
    BY <2>1 DEF PlainProgress
  <2>3. Tables \subseteq schema /\ Columns \subseteq schema
    BY <2>1, <2>2 DEF Done2, Columns, PlainEarnedOK
  <2>4. PlainEarnedOK' /\ Done2'
    BY <2>1, <2>2, <2>3 DEF PlainEarnedOK, Done2
  <2>5. PlainTypesOK'
    BY <2>1
  <2>6. QED BY <2>1, <2>4, <2>5 DEF PlainProgress
<1> HIDE DEF PlainInv, PlainTypesOK
<1>5. \/ Stamps(1, 5, 1) \/ Stamps(2, 3, 2)
      \/ \E m, k, t : Adds(m, k, t) /\ Executes(m, k, t)
  <2>1. /\ Adds(1, 1, "messages") /\ Adds(1, 2, "threads") /\ Adds(1, 3, "users")
        /\ Adds(1, 4, "settings") /\ Adds(2, 1, "username") /\ Adds(2, 2, "profile_pic")
    BY DEF Adds
  <2>2. QED BY <2>1, PlainExecute
<1>6. QED BY ONLY <1>2, <1>3, <1>4, <1>5

\* The loop gives up a migration: it was applied before, or a column exists.
LEMMA NextMigrationKeepsPlainInv ==
  ASSUME PlainInv, Skip \/ PassOver
  PROVE  PlainInv'
<1> USE DEF PlainInv, PlainTypesOK
<1>1. /\ proc = "migrating" /\ mig \in {1, 2} /\ mig' = mig + 1 /\ stmt' = 1
      /\ UNCHANGED <<schema, version, proc, current, crashes>>
  <2>1. /\ proc = "migrating" /\ mig <= Len(Migrations) /\ mig' = mig + 1 /\ stmt' = 1
        /\ UNCHANGED <<schema, version, proc, current, crashes>>
    BY Zenon DEF Skip, PassOver, DuplicateColumn, Applies, Migrating, NextMigration
  <2>2. QED BY <2>1, MigrationShape
<1>2. mig = 1 => version >= 1
  <2>1. SUFFICES ASSUME mig = 1 PROVE version >= 1
    OBVIOUS
  <2>2. ~ PassOver
    <3>1. SUFFICES ASSUME PassOver PROVE FALSE
      OBVIOUS
    <3>2. stmt \in {1, 2, 3, 4, 5} /\ Statement.op = "add"
      BY <2>1, <3>1, MigrationShape DEF PassOver, DuplicateColumn, Applies
    <3>3. QED BY <2>1, <3>2, Statements DEF Statement
  <2>3. current >= 1 \/ stmt > 5
    BY <2>1, <2>2, MigrationShape DEF Skip
  <2>4. QED BY <1>1, <2>1, <2>3 DEF PlainProgress, Done1
<1>3. PlainTypesOK' /\ PlainEarnedOK'
  BY <1>1 DEF PlainEarnedOK
<1>4. mig' = 2 => Done2'
  BY <1>1 DEF Done2
<1>5. PlainProgress'
  BY <1>1, <1>2, <1>4 DEF PlainProgress
<1>6. QED BY <1>3, <1>5

LEMMA OtherStepsKeepPlainInv ==
  ASSUME PlainInv, Start \/ Prepare \/ Crash \/ UNCHANGED migrationVars
  PROVE  PlainInv'
<1> USE MigrationAssumption
        DEF PlainInv, PlainTypesOK, PlainEarnedOK, PlainProgress, Done1, Done2
<1>1. CASE Start
  <2>2. /\ proc' = "migrating" /\ current' = version /\ mig' = 1 /\ stmt' = 1
        /\ UNCHANGED <<schema, version, crashes>>
    BY <1>1 DEF Start
  <2>3. QED BY <2>2
<1>2. CASE Prepare  BY <1>2 DEF Prepare
<1>3. CASE Crash  BY <1>3 DEF Crash
<1>4. CASE UNCHANGED migrationVars  BY <1>4 DEF migrationVars
<1>5. QED BY <1>1, <1>2, <1>3, <1>4

LEMMA PlainInvariant == MigrationSpec => []PlainInv
<1>1. PlainInv /\ [MigrationNext]_migrationVars => PlainInv'
  BY ExecuteKeepsPlainInv, NextMigrationKeepsPlainInv, OtherStepsKeepPlainInv
  DEF MigrationNext, Steps
<1>2. QED BY InitEstablishesPlainInv, <1>1, PTL DEF MigrationSpec

\* Types, earned versions and the progress of the loop, for any number of crashes
\* in the migration of database.mjs.
THEOREM MigrationInvariant == MigrationSpec => []MigrationInv
BY PlainInvariant, PlainIsMigrationInv, PTL

\* A torn database stays torn: no start of #migrate adds the missing column.
THEOREM TornForGood == MigrationSpec => [][Torn => Torn']_migrationVars
<1>1. PlainInv /\ [MigrationNext]_migrationVars => [Torn => Torn']_migrationVars
  <2>1. SUFFICES ASSUME PlainInv, MigrationNext, Torn PROVE Torn'
    OBVIOUS
  <2>2. CASE Execute
    <3>1. "username" \in schema' /\ "profile_pic" \notin schema'
      BY <2>1, <2>2, PlainExecute DEF Torn, Executes, Stamps
    <3>2. ~ (mig' = 2 /\ stmt' = 2)
      <4>1. SUFFICES ASSUME mig' = 2, stmt' = 2 PROVE FALSE
        OBVIOUS
      <4>2. mig = 2 /\ stmt = 1 /\ Migrating /\ Applies
        BY <2>1, <2>2, <4>1, PlainExecute DEF PlainInv, PlainTypesOK, Execute, Applies
      <4>3. Statement.op = "add" /\ Statement.what = "username"
        BY <4>2, Statements DEF Statement
      <4>4. QED BY <2>1, <2>2, <4>3 DEF Execute, Torn
    <3>3. QED BY <3>1, <3>2 DEF Torn
  <2>3. CASE Start \/ Skip \/ PassOver \/ Prepare \/ Crash
    BY <2>1, <2>3 DEF Start, Skip, PassOver, Prepare, Crash, NextMigration, Torn
  <2>4. QED BY <2>1, <2>2, <2>3 DEF MigrationNext, Steps
<1>2. QED BY PlainInvariant, <1>1, PTL DEF MigrationSpec
=============================================================================
