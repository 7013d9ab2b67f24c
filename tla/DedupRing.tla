----------------------------- MODULE DedupRing -----------------------------
(***************************************************************************)
(* The idempotency cache of BotCore: a fixed ring of cap slots beside a set *)
(* that answers "seen?" in constant time (core.mjs, #seenIds and #seenIdx). *)
(* The two structures are only useful if they always agree, and the pair    *)
(* has to behave as the sliding window DedupWindow describes.               *)
(***************************************************************************)
EXTENDS Naturals, Sequences

CONSTANTS Ids,    \* message ids
          cap,    \* config.idempotencyCacheSize
          Unset   \* an array slot never written (undefined)

ASSUME CapAssumption   == cap \in Nat \ {0}
ASSUME UnsetAssumption == Unset \notin Ids

VARIABLES set,     \* cache.set
          buf,     \* cache.buf
          seenIdx  \* #seenIdx: the slot the next id goes to

ringVars == <<set, buf, seenIdx>>

Slots == 0 .. cap - 1

RingInit == /\ set = {}
        /\ buf = [i \in Slots |-> Unset]
        /\ seenIdx = 0

Has(id) == id \in set

\* Mutant: the evicted id stays in the set.
EvictNothing == set

\* The slot the next id overwrites gives up the id it holds.
Evict == IF buf[seenIdx] = Unset THEN set ELSE set \ {buf[seenIdx]}

NextSlot(i) == (i + 1) % cap

\* The body of the "msgId" branch for an id that is not in the cache.
Insert(id) == /\ ~ Has(id)
              /\ set' = Evict \cup {id}
              /\ buf' = [buf EXCEPT ![seenIdx] = id]
              /\ seenIdx' = NextSlot(seenIdx)

RingNext == \E id \in Ids : Insert(id)

RingSpec == RingInit /\ [][RingNext]_ringVars
-----------------------------------------------------------------------------
RingTypeOK == /\ set \in SUBSET Ids
          /\ buf \in [Slots -> Ids \cup {Unset}]
          /\ seenIdx \in Slots

Stored == {buf[i] : i \in Slots} \ {Unset}

\* The set answers for exactly the ids the ring holds: nothing is forgotten
\* while its slot survives, and no id outlives its slot (a leak would grow the
\* set for ever and refuse messages it should accept).
SetMatchesRing == set = Stored

\* No id sits in two slots, so evicting one slot cannot forget an id that
\* another slot still remembers.
SlotsDistinct == \A i, j \in Slots : (buf[i] = buf[j] /\ buf[i] # Unset) => i = j

\* Unset slots are a suffix starting at seenIdx: slots fill in order, and from
\* the moment the last one is written the ring is full.
FillsInOrder == \A i, j \in Slots : (i < j /\ buf[j] # Unset) => buf[i] # Unset

IdxAtFrontier == \A i \in Slots :
                    (buf[cap - 1] = Unset) => (i < seenIdx <=> buf[i] # Unset)

RingInv == RingTypeOK /\ SetMatchesRing /\ SlotsDistinct /\ FillsInOrder /\ IdxAtFrontier
-----------------------------------------------------------------------------
Full == buf[cap - 1] # Unset

\* The slot of the k-th oldest id once the ring is full.
AgedSlot(k) == IF seenIdx + k - 1 < cap THEN seenIdx + k - 1 ELSE seenIdx + k - 1 - cap

Oldest == IF Full THEN [k \in 1 .. cap |-> buf[AgedSlot(k)]]
                  ELSE [k \in 1 .. seenIdx |-> buf[k - 1]]

\* What a delivery would be refused for.
Refused == {id \in Ids : Has(id)}

Window == INSTANCE DedupWindow WITH window <- Oldest, refused <- Refused

\* The ring with its set is the sliding window of the last cap admitted ids: an id
\* is refused while it is among them and no longer, wherever in the ring it sat and
\* however often the ring has wrapped (core.mjs, the "msgId" branch).
RefinesWindow == Window!Spec
=============================================================================
