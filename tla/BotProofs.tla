----------------------------- MODULE BotProofs -----------------------------
(***************************************************************************)
(* For any deliveries, users and limits: the dispatcher's counter counts the *)
(* messages in the handler chain and stays within the limit, a blocked       *)
(* sender's message never enters the chain, the dispatcher uses its          *)
(* idempotency cache as a sliding window, the history is what ran, and a     *)
(* message is accepted once.                                                 *)
(*                                                                           *)
(* What the messenger adapter stands between: the gate its messages come     *)
(* through, the limiter in front of its sends, and the device the bridge     *)
(* stands for.                                                               *)
(***************************************************************************)
EXTENDS BotCore, ClientGate, RateLimiter, DeviceStore, FiniteSetTheorems, TLAPS

-----------------------------------------------------------------------------
(* The idempotency cache, for every capacity and every set of ids: its set    *)
(* holds exactly the ids of the ring's slots, and set and ring together are a *)
(* sliding window of the last cap admitted ids.                               *)

\* The index arithmetic of the ring: it steps to the next slot, and from the
\* last slot back to slot 0.
LEMMA NextSlotValue ==
  ASSUME NEW i \in Slots
  PROVE  NextSlot(i) = IF i = cap - 1 THEN 0 ELSE i + 1
BY CapAssumption DEF Slots, NextSlot

LEMMA RingInvInit == RingInit => RingInv
BY CapAssumption, UnsetAssumption
   DEF RingInit, RingInv, RingTypeOK, SetMatchesRing, Stored, SlotsDistinct,
       FillsInOrder, IdxAtFrontier, Slots

\* One insertion keeps the ring and its set in step: the id it evicts sat in
\* one slot only, the one that is overwritten.
LEMMA InsertKeepsRingInv ==
  ASSUME RingInv, NEW id \in Ids, Insert(id)
  PROVE  RingInv'
<1> USE DEF RingInv, RingTypeOK, Insert, Has
<1>1. /\ cap \in Nat \ {0}  /\ Unset \notin Ids  /\ id # Unset
  BY CapAssumption, UnsetAssumption
<1>2. buf' = [i \in Slots |-> IF i = seenIdx THEN id ELSE buf[i]]
  OBVIOUS
<1>3. seenIdx' = IF seenIdx = cap - 1 THEN 0 ELSE seenIdx + 1
  BY NextSlotValue
<1>4. \A i \in Slots : buf[i] # id
  BY <1>1 DEF SetMatchesRing, Stored
<1>5. RingTypeOK'
  <2>1. set' \in SUBSET Ids  BY DEF Evict
  <2>2. buf' \in [Slots -> Ids \cup {Unset}]  BY <1>2
  <2>3. seenIdx' \in Slots  BY <1>1, <1>3 DEF Slots
  <2>4. QED BY <2>1, <2>2, <2>3
<1>6. SetMatchesRing'
  <2>1. SUFFICES ASSUME NEW x
                 PROVE  x \in set' <=> (x # Unset /\ \E i \in Slots : buf'[i] = x)
    BY DEF SetMatchesRing, Stored
  <2>2. x \in set <=> (x # Unset /\ \E i \in Slots : buf[i] = x)
    BY DEF SetMatchesRing, Stored
  <2>3. CASE x = id
    BY <1>1, <1>2, <2>3
  <2>4. CASE x # id /\ x = buf[seenIdx]
    BY <1>1, <1>2, <1>4, <2>2, <2>4 DEF Evict, SlotsDistinct
  <2>5. CASE x # id /\ x # buf[seenIdx]
    BY <1>1, <1>2, <1>4, <2>2, <2>5 DEF Evict
  <2>6. QED BY <2>3, <2>4, <2>5
<1>7. SlotsDistinct'
  BY <1>2, <1>4 DEF SlotsDistinct
<1>8. FillsInOrder'
  BY <1>1, <1>2 DEF FillsInOrder, IdxAtFrontier, Slots
<1>9. IdxAtFrontier'
  BY <1>1, <1>2, <1>3 DEF IdxAtFrontier, FillsInOrder, Slots
<1>10. QED BY <1>5, <1>6, <1>7, <1>8, <1>9

\* The set of the idempotency cache and its ring agree in every reachable
\* state, each id in one slot, the slots filled in order.
THEOREM RingInvariant == RingSpec => []RingInv
<1>1. RingInit => RingInv  BY RingInvInit
<1>2. RingInv /\ [RingNext]_ringVars => RingInv'
  <2>1. SUFFICES ASSUME RingInv, [RingNext]_ringVars PROVE RingInv'
    OBVIOUS
  <2>2. CASE RingNext
    BY <2>1, <2>2, InsertKeepsRingInv DEF RingNext
  <2>3. CASE UNCHANGED ringVars
    BY <2>1, <2>3 DEF ringVars, RingInv, RingTypeOK, SetMatchesRing, Stored,
                      SlotsDistinct, FillsInOrder, IdxAtFrontier
  <2>4. QED BY <2>1, <2>2, <2>3
<1>3. QED BY <1>1, <1>2, PTL DEF RingSpec
-----------------------------------------------------------------------------
\* The abstract window is a sequence of ids, cap long once the ring is full.
OldestIsSeq ==
  /\ Oldest \in Seq(Ids)
  /\ Len(Oldest) = IF Full THEN cap ELSE seenIdx
  /\ ~ Full => \A k \in 1 .. seenIdx : Oldest[k] = buf[k - 1]
  /\ Full => \A k \in 1 .. cap : Oldest[k] = buf[AgedSlot(k)]

LEMMA OldestShape == RingInv => OldestIsSeq
<1> SUFFICES ASSUME RingInv PROVE OldestIsSeq
  OBVIOUS
<1> USE CapAssumption DEF RingInv, RingTypeOK, Slots
<1>1. CASE Full
  <2>1. \A k \in 1 .. cap : AgedSlot(k) \in Slots
    BY DEF AgedSlot
  <2>2. \A i \in Slots : buf[i] \in Ids
    BY <1>1 DEF Full, FillsInOrder
  <2>3. Oldest = [k \in 1 .. cap |-> buf[AgedSlot(k)]]
    BY <1>1 DEF Oldest
  <2>4. QED BY <1>1, <2>1, <2>2, <2>3 DEF OldestIsSeq
<1>2. CASE ~ Full
  <2>1. \A i \in Slots : i < seenIdx => buf[i] \in Ids
    BY <1>2 DEF Full, IdxAtFrontier
  <2>2. Oldest = [k \in 1 .. seenIdx |-> buf[k - 1]]
    BY <1>2 DEF Oldest
  <2>3. \A k \in 1 .. seenIdx : buf[k - 1] \in Ids
    BY <2>1
  <2>4. QED BY <1>2, <2>2, <2>3 DEF OldestIsSeq
<1>3. QED BY <1>1, <1>2

\* The set answers "seen?" exactly as a search of the window would.
LEMMA HasIsInWindow ==
  ASSUME RingInv, NEW id \in Ids
  PROVE  Has(id) <=> \E i \in 1 .. Len(Oldest) : Oldest[i] = id
<1> USE CapAssumption DEF RingInv, RingTypeOK, Slots
<1>1. Has(id) <=> \E i \in Slots : buf[i] = id
  BY UnsetAssumption DEF Has, SetMatchesRing, Stored
<1>2. CASE Full
  <2>1. \A k \in 1 .. cap : AgedSlot(k) \in Slots
    BY DEF AgedSlot
  <2>2. ASSUME NEW i \in Slots
        PROVE  \E k \in 1 .. cap : AgedSlot(k) = i
    <3>1. CASE i >= seenIdx
      <4>1. i - seenIdx + 1 \in 1 .. cap /\ AgedSlot(i - seenIdx + 1) = i
        BY <3>1 DEF AgedSlot
      <4>2. QED BY <4>1
    <3>2. CASE i < seenIdx
      <4>1. i - seenIdx + 1 + cap \in 1 .. cap /\ AgedSlot(i - seenIdx + 1 + cap) = i
        BY <3>2 DEF AgedSlot
      <4>2. QED BY <4>1
    <3>3. QED BY <3>1, <3>2
  <2>3. QED BY <1>1, <1>2, <2>1, <2>2, OldestShape DEF OldestIsSeq
<1>3. CASE ~ Full
  <2>1. \A i \in Slots : (i < seenIdx) <=> (buf[i] # Unset)
    BY <1>3 DEF Full, IdxAtFrontier
  <2>2. \A i \in Slots : buf[i] = id => i + 1 \in 1 .. seenIdx
    BY <2>1, UnsetAssumption
  <2>3. \A i \in Slots : buf[i] = id => Oldest[i + 1] = id
    BY <1>3, <2>2, OldestShape DEF OldestIsSeq
  <2>4. \A k \in 1 .. seenIdx : k - 1 \in Slots
    OBVIOUS
  <2>5. Len(Oldest) = seenIdx /\ \A k \in 1 .. seenIdx : Oldest[k] = buf[k - 1]
    BY <1>3, OldestShape DEF OldestIsSeq
  <2>6. QED BY <1>1, <2>2, <2>3, <2>4, <2>5
<1>4. QED BY <1>2, <1>3

LEMMA RefusedIsWindow == RingInv => Refused = Window!Members(Oldest)
<1> SUFFICES ASSUME RingInv PROVE Refused = Window!Members(Oldest)
  OBVIOUS
<1>1. Oldest \in Seq(Ids)
  BY OldestShape DEF OldestIsSeq
<1>2. \A i \in 1 .. Len(Oldest) : Oldest[i] \in Ids
  BY <1>1
<1>3. Window!Members(Oldest) = {Oldest[i] : i \in 1 .. Len(Oldest)}
  BY DEF Window!Members
<1>4. QED BY <1>2, <1>3, HasIsInWindow DEF Refused

\* Writing the slot at seenIdx slides the window by one.
LEMMA InsertSlides ==
  ASSUME RingInv, NEW id \in Ids, Insert(id)
  PROVE  Oldest' = Window!Slide(id)
<1> USE CapAssumption DEF Slots
<1>1. OldestIsSeq
  BY OldestShape
<1>2. OldestIsSeq'
  <2>1. RingInv'  BY InsertKeepsRingInv
  <2>2. RingInv' => OldestIsSeq'  BY OldestShape, PTL
  <2>3. QED BY <2>1, <2>2
<1>3. /\ seenIdx \in Slots
      /\ seenIdx' = IF seenIdx = cap - 1 THEN 0 ELSE seenIdx + 1
      /\ buf' = [i \in Slots |-> IF i = seenIdx THEN id ELSE buf[i]]
      /\ id # Unset
  BY NextSlotValue, UnsetAssumption DEF Insert, RingInv, RingTypeOK
<1>4. CASE Full
  <2>1. Full'
    BY <1>3, <1>4 DEF Full
  <2>2. Oldest \in Seq(Ids) /\ Len(Oldest) = cap
    BY <1>1, <1>4 DEF OldestIsSeq
  <2>3. Oldest' \in Seq(Ids) /\ Len(Oldest') = cap
    BY <1>2, <2>1 DEF OldestIsSeq
  <2>4. \A k \in 1 .. cap : Oldest'[k] = buf'[AgedSlot(k)'] /\ Oldest[k] = buf[AgedSlot(k)]
    BY <1>1, <1>2, <1>4, <2>1 DEF OldestIsSeq
  <2>5. \A k \in 1 .. cap : buf'[AgedSlot(k)'] = IF k = cap THEN id ELSE buf[AgedSlot(k + 1)]
    BY <1>3 DEF AgedSlot
  <2>6. \A k \in 1 .. cap : Oldest'[k] = IF k = cap THEN id ELSE Oldest[k + 1]
    BY <2>4, <2>5
  <2>7. ~ (Len(Oldest) < cap)
    BY <2>2
  <2>8. Window!Slide(id) = Append(Tail(Oldest), id)
    BY <2>7 DEF Window!Slide
  <2>9. Oldest' = Append(Tail(Oldest), id)
    BY <2>2, <2>3, <2>6
  <2>10. QED BY <2>8, <2>9
<1>5. CASE ~ Full
  <2>1. /\ Oldest \in Seq(Ids) /\ Len(Oldest) = seenIdx
        /\ \A k \in 1 .. seenIdx : Oldest[k] = buf[k - 1]
    BY <1>1, <1>5 DEF OldestIsSeq
  <2>2. Window!Slide(id) = Append(Oldest, id)
    BY <1>3, <2>1 DEF Window!Slide
  <2>3. Full' <=> seenIdx = cap - 1
    BY <1>3, <1>5 DEF Full
  <2>4. Oldest' \in Seq(Ids) /\ Len(Oldest') = seenIdx + 1
    BY <1>2, <1>3, <2>3 DEF OldestIsSeq
  <2>5. \A k \in 1 .. seenIdx + 1 : Oldest'[k] = buf'[k - 1]
    <3>1. CASE seenIdx = cap - 1
      <4>1. \A k \in 1 .. cap : Oldest'[k] = buf'[AgedSlot(k)']
        BY <1>2, <2>3, <3>1 DEF OldestIsSeq
      <4>2. seenIdx' = 0
        BY <1>3, <3>1
      <4>3. \A k \in 1 .. cap : buf'[AgedSlot(k)'] = buf'[k - 1]
        BY <4>2 DEF AgedSlot
      <4>4. 1 .. seenIdx + 1 = 1 .. cap
        BY <3>1
      <4>5. QED BY <4>1, <4>3, <4>4
    <3>2. CASE seenIdx # cap - 1
      BY <1>2, <1>3, <2>3, <3>2 DEF OldestIsSeq
    <3>3. QED BY <3>1, <3>2
  <2>6. \A k \in 1 .. seenIdx + 1 : Oldest'[k] = IF k = seenIdx + 1 THEN id ELSE Oldest[k]
    <3>1. \A j \in Slots : buf'[j] = IF j = seenIdx THEN id ELSE buf[j]
      BY <1>3
    <3>2. ASSUME NEW k \in 1 .. seenIdx + 1
          PROVE  Oldest'[k] = IF k = seenIdx + 1 THEN id ELSE Oldest[k]
      <4>1. k - 1 \in Slots /\ (k - 1 = seenIdx <=> k = seenIdx + 1)
        BY <1>3
      <4>2. Oldest'[k] = IF k - 1 = seenIdx THEN id ELSE buf[k - 1]
        BY <2>5, <3>1, <4>1
      <4>3. k # seenIdx + 1 => Oldest[k] = buf[k - 1]
        BY <1>3, <2>1
      <4> QED
        BY <4>1, <4>2, <4>3
    <3> QED
      BY <3>2
  <2>7. Oldest' = Append(Oldest, id)
    BY <1>3, <2>1, <2>4, <2>6
  <2>8. QED BY <2>2, <2>7
<1>6. QED BY <1>4, <1>5

\* The ring buffer and its set implement the sliding window: an id is refused
\* exactly while it is among the last cap admitted ids, for every cap.
THEOREM RingImplementsWindow == RingSpec => RefinesWindow
<1>1. RingInit => Window!Init
  <2>1. SUFFICES ASSUME RingInit PROVE Oldest = << >> /\ Refused = {}
    BY DEF Window!Init
  <2>2. ~ Full /\ seenIdx = 0
    BY <2>1, CapAssumption DEF RingInit, Full, Slots
  <2>3. Oldest \in Seq(Ids) /\ Len(Oldest) = 0
    BY <2>1, <2>2, RingInvInit, OldestShape DEF OldestIsSeq
  <2>4. Refused = {}
    BY <2>1 DEF RingInit, Refused, Has
  <2>5. QED BY <2>3, <2>4
<1>2. RingInv /\ [RingNext]_ringVars => [Window!Next]_<<Oldest, Refused>>
  <2>1. SUFFICES ASSUME RingInv, [RingNext]_ringVars PROVE [Window!Next]_<<Oldest, Refused>>
    OBVIOUS
  <2>2. CASE RingNext
    <3>1. PICK id \in Ids : Insert(id)
      BY <2>2 DEF RingNext
    <3>2. id \notin Refused
      BY <3>1 DEF Insert, Refused
    <3>3. Oldest' = Window!Slide(id)
      BY <2>1, <3>1, InsertSlides
    <3>4. Refused' = Window!Members(Oldest')
      <4>1. RingInv'
        BY <2>1, <3>1, InsertKeepsRingInv
      <4>2. RingInv' => (Refused = Window!Members(Oldest))'
        BY RefusedIsWindow, PTL
      <4>3. (Refused = Window!Members(Oldest))' => Refused' = Window!Members(Oldest')
        BY DEF Window!Members
      <4>4. QED BY <4>1, <4>2, <4>3
    <3>5. QED BY <3>2, <3>3, <3>4 DEF Window!Next, Window!Admit
  <2>3. CASE UNCHANGED ringVars
    BY <2>3 DEF ringVars, Oldest, Full, AgedSlot, Refused, Has
  <2>4. QED BY <2>1, <2>2, <2>3
<1>3. QED BY <1>1, <1>2, RingInvariant, PTL DEF RingSpec, RefinesWindow, Window!Spec
-----------------------------------------------------------------------------
(* The dispatcher. *)

\* The loop's next handler is a later match, and no match lies between.
LEMMA FirstLaterIsLater ==
  ASSUME NEW e \in Events, NEW h \in Nat, Later(e, h) # {}
  PROVE  /\ FirstLater(e, h) \in Handlers
         /\ FirstLater(e, h) \in Matches[e]
         /\ FirstLater(e, h) > h
<1>1. Later(e, h) \subseteq 1 .. 4
  BY CoreAssumption DEF Later, Handlers, Command, Chat
<1>2. \E k \in Later(e, h) : \A j \in Later(e, h) : k <= j
  <2>1. CASE 1 \in Later(e, h)  BY <1>1, <2>1
  <2>2. CASE 1 \notin Later(e, h) /\ 2 \in Later(e, h)  BY <1>1, <2>2
  <2>3. CASE 1 \notin Later(e, h) /\ 2 \notin Later(e, h) /\ 3 \in Later(e, h)
    BY <1>1, <2>3
  <2>4. CASE Later(e, h) = {4}  BY <2>4
  <2>5. QED BY <1>1, <2>1, <2>2, <2>3, <2>4
<1>3. FirstLater(e, h) \in Later(e, h)
  BY <1>2 DEF FirstLater
<1>4. QED BY <1>1, <1>3 DEF Later, Handlers, Command, Chat

-----------------------------------------------------------------------------
(* What one step of a dispatch does to its own event. *)

Settled == {"fetching", "running"} \cup Verdicts

\* The event gets a phase after "queued"; the counter grows exactly when it
\* enters the chain, and then it was below the limit.
Settle(e) ==
  /\ \E v \in Settled :
        /\ phase' = [phase EXCEPT ![e] = v]
        /\ v = "running" => active < MaxConcurrent /\ active' = active + 1
        /\ v # "running" => active' = active /\ at' = at
        /\ v = "running" => /\ Later(e, 0) # {}
                            /\ at' = [at EXCEPT ![e] = FirstLater(e, 0)]
  /\ at' \in [Events -> {0} \cup Handlers]
  /\ saved' \in SUBSET Ids
  /\ RingInv'

LEMMA StartRunSettles ==
  ASSUME CoreInv, NEW e \in Events, StartRun(e), active < MaxConcurrent, RingInv'
  PROVE  Settle(e)
<1> USE CoreAssumption DEF CoreInv, TypeOK
<1>1. saved' \in SUBSET Ids
  BY DEF StartRun
<1>2. CASE Later(e, 0) # {}
  <2>1. FirstLater(e, 0) \in Handlers
    BY <1>2, FirstLaterIsLater
  <2>2. at' \in [Events -> {0} \cup Handlers]
    BY <1>2, <2>1 DEF StartRun
  <2>3. phase' = [phase EXCEPT ![e] = "running"] /\ active' = active + 1
    BY <1>2 DEF StartRun
  <2>4. "running" \in Settled
    BY DEF Settled
  <2>5. at' = [at EXCEPT ![e] = FirstLater(e, 0)]
    BY <1>2 DEF StartRun
  <2>6. \E v \in Settled :
           /\ phase' = [phase EXCEPT ![e] = v]
           /\ v = "running" => active < MaxConcurrent /\ active' = active + 1
           /\ v # "running" => active' = active /\ at' = at
           /\ v = "running" => /\ Later(e, 0) # {}
                               /\ at' = [at EXCEPT ![e] = FirstLater(e, 0)]
    <3>1. WITNESS "running" \in Settled
    <3>2. QED BY <1>2, <2>3, <2>5
  <2>7. QED BY <1>1, <2>2, <2>6 DEF Settle
<1>3. CASE Later(e, 0) = {}
  BY <1>1, <1>3 DEF StartRun, Settle, Settled, Verdicts
<1>4. QED BY <1>2, <1>3

LEMMA AdmitSettles ==
  ASSUME CoreInv, NEW e \in Events, Admit(e)
  PROVE  Settle(e)
<1> USE CoreAssumption DEF CoreInv, TypeOK
<1>1. CASE /\ phase' = [phase EXCEPT ![e] = "duplicate"]
           /\ UNCHANGED <<set, buf, seenIdx, at, active, saved>>
  <2>1. RingInv'
    BY <1>1 DEF RingInv, RingTypeOK, SetMatchesRing, Stored, SlotsDistinct,
                FillsInOrder, IdxAtFrontier
  <2>2. QED BY <1>1, <2>1 DEF Settle, Settled, Verdicts
<1>2. CASE Insert(IdOf[e]) /\ active >= MaxConcurrent /\ Drop(e)
  <2>1. RingInv'
    BY <1>2, InsertKeepsRingInv
  <2>2. QED BY <1>2, <2>1 DEF Drop, Settle, Settled, Verdicts
<1>3. CASE Insert(IdOf[e]) /\ ~ (active >= MaxConcurrent) /\ StartRun(e)
  <2>1. RingInv'
    BY <1>3, InsertKeepsRingInv
  <2>2. QED BY <1>3, <2>1, StartRunSettles
<1>4. QED BY <1>1, <1>2, <1>3 DEF Admit

LEMMA StepAsideSettles ==
  ASSUME CoreInv, NEW e \in Events, NEW v \in Settled \ {"running"},
         phase' = [phase EXCEPT ![e] = v],
         UNCHANGED <<set, buf, seenIdx, at, active, saved>>
  PROVE  Settle(e)
<1>1. RingInv'
  BY DEF CoreInv, RingInv, RingTypeOK, SetMatchesRing, Stored, SlotsDistinct,
         FillsInOrder, IdxAtFrontier
<1>2. QED BY <1>1 DEF CoreInv, TypeOK, Settle

LEMMA VetSettles ==
  ASSUME CoreInv, NEW e \in Events, Vet(e)
  PROVE  Settle(e)
BY AdmitSettles, StepAsideSettles DEF Vet, Settled, Verdicts

LEMMA ExamineSettles ==
  ASSUME CoreInv, NEW e \in Events, Ignore(e) \/ Examine(e)
  PROVE  Settle(e)
BY AdmitSettles, VetSettles, StepAsideSettles DEF Ignore, Examine, Settled, Verdicts
-----------------------------------------------------------------------------
(* The counter and the set of running events move together. *)

LEMMA RunningIsFinite == IsFiniteSet(Running) /\ Cardinality(Running) \in Nat
<1>1. Running \subseteq Events  BY DEF Running
<1>2. QED BY <1>1, CoreAssumption, FS_Subset, FS_CardinalityType

LEMMA SettleKeepsCount ==
  ASSUME CoreInv, NEW e \in Events, Settle(e), phase[e] \in {"queued", "fetching"}
  PROVE  /\ phase' \in [Events -> Phases]
         /\ active' \in Nat
         /\ ActiveCountsRuns'
<1> USE CoreAssumption DEF CoreInv, TypeOK, ActiveCountsRuns
<1>1. PICK v \in Settled : /\ phase' = [phase EXCEPT ![e] = v]
                           /\ v = "running" => active < MaxConcurrent /\ active' = active + 1
                           /\ v # "running" => active' = active
  BY DEF Settle
<1>2. phase' \in [Events -> Phases] /\ active' \in Nat
  BY <1>1 DEF Settled, Phases, Verdicts
<1>3. e \notin Running
  BY DEF Running
<1>4. CASE v = "running"
  <2>1. Running' = Running \cup {e}
    BY <1>1, <1>4 DEF Running
  <2>2. Cardinality(Running') = Cardinality(Running) + 1
    BY <1>3, <2>1, RunningIsFinite, FS_AddElement
  <2>3. QED BY <1>1, <1>2, <1>4, <2>2
<1>5. CASE v # "running"
  <2>1. Running' = Running
    BY <1>1, <1>3, <1>5 DEF Running
  <2>2. QED BY <1>1, <1>2, <1>5, <2>1
<1>6. QED BY <1>2, <1>4, <1>5

\* Entering the chain puts the event at its first match; nothing else moves it.
LEMMA SettleKeepsChain ==
  ASSUME CoreInv, NEW e \in Events, Settle(e), phase[e] \in {"queued", "fetching"},
         UNCHANGED <<replied, zombies>>
  PROVE  ChainInOrder'
<1> USE DEF CoreInv, TypeOK, ChainInOrder
<1>1. PICK v \in Settled : /\ phase' = [phase EXCEPT ![e] = v]
                           /\ v # "running" => at' = at
                           /\ v = "running" => /\ Later(e, 0) # {}
                                               /\ at' = [at EXCEPT ![e] = FirstLater(e, 0)]
  BY DEF Settle
<1>2. ASSUME NEW f \in Events, f # e PROVE ChainOf(f)'
  <2>1. phase'[f] = phase[f] /\ at'[f] = at[f]
    BY <1>1, <1>2
  <2>2. QED BY <2>1 DEF ChainOf
<1>3. ChainOf(e)'
  <2>1. at[e] = 0 /\ \A h \in Handlers : h \notin replied[e] /\ <<e, h>> \notin zombies
    BY DEF ChainOf, Handlers, Command, Chat
  <2>2. CASE v = "running"
    BY <1>1, <2>1, <2>2, FirstLaterIsLater DEF ChainOf, Handlers, Command, Chat
  <2>3. CASE v # "running"
    BY <1>1, <2>1, <2>3 DEF ChainOf, Settled
  <2>4. QED BY <2>2, <2>3
<1>4. QED BY <1>2, <1>3

LEMMA LeavingKeepsCount ==
  ASSUME CoreInv, NEW e \in Events, phase[e] = "running",
         NEW v \in Verdicts, phase' = [phase EXCEPT ![e] = v], active' = active - 1
  PROVE  active' \in Nat /\ ActiveCountsRuns'
<1> USE CoreAssumption DEF CoreInv, TypeOK, ActiveCountsRuns
<1>1. e \in Running
  BY DEF Running
<1>2. Running' = Running \ {e}
  BY DEF Running, Verdicts
<1>3. Cardinality(Running') = Cardinality(Running) - 1
  BY <1>1, <1>2, RunningIsFinite, FS_RemoveElement
<1>4. Cardinality(Running) # 0
  BY <1>1, RunningIsFinite, FS_EmptySet
<1>5. QED BY <1>3, <1>4, RunningIsFinite

\* The chain moving on keeps the event running or lets it leave for good.
LEMMA MoveOnKeepsCount ==
  ASSUME CoreInv, NEW e \in Events, phase[e] = "running", MoveOn(e, at[e])
  PROVE  /\ at' \in [Events -> {0} \cup Handlers]
         /\ active' \in Nat
         /\ \E v \in Verdicts \cup {"running"} : phase' = [phase EXCEPT ![e] = v]
         /\ ActiveCountsRuns'
         /\ at[e] \in Matches[e] \cap Handlers
         /\ at'[e] \in Matches[e] \cap Handlers /\ at[e] <= at'[e]
         /\ \A f \in Events \ {e} : at'[f] = at[f]
<1> USE CoreAssumption DEF CoreInv, TypeOK
<1>0. at[e] \in Matches[e] \cap Handlers
  BY DEF ChainInOrder, ChainOf
<1>1. CASE Later(e, at[e]) # {} /\ at' = [at EXCEPT ![e] = FirstLater(e, at[e])]
                                /\ UNCHANGED <<phase, active>>
  <2>1. at[e] \in Nat
    BY DEF Handlers, Command, Chat
  <2>2. /\ FirstLater(e, at[e]) \in Matches[e] \cap Handlers
        /\ at[e] <= FirstLater(e, at[e])
    BY <1>1, <2>1, FirstLaterIsLater DEF Handlers, Command, Chat
  <2>3. phase' = [phase EXCEPT ![e] = "running"]
    BY <1>1
  <2>4. QED BY <1>0, <1>1, <2>2, <2>3 DEF ActiveCountsRuns, Running
<1>2. CASE phase' = [phase EXCEPT ![e] = "unhandled"] /\ active' = active - 1 /\ UNCHANGED at
  <2>1. "unhandled" \in Verdicts
    BY DEF Verdicts
  <2>2. at[e] <= at[e]
    BY <1>0 DEF Handlers, Command, Chat
  <2>3. QED BY <1>0, <1>2, <2>1, <2>2, LeavingKeepsCount
<1>3. QED BY <1>1, <1>2 DEF MoveOn

\* Events that are not queued may change phase without touching the queue.
LEMMA QueueUntouched ==
  ASSUME CoreInv, NEW e \in Events, phase[e] # "queued", NEW v \in Phases \ {"queued"},
         phase' = [phase EXCEPT ![e] = v], queue' = queue
  PROVE  QueueMatchesPhases'
<1>1. \A i \in 1 .. Len(queue) : queue[i] \in Events /\ queue[i] # e
  BY DEF CoreInv, TypeOK, QueueMatchesPhases
<1>2. QED BY <1>1 DEF CoreInv, TypeOK, QueueMatchesPhases

LEMMA RingUntouched ==
  ASSUME CoreInv, UNCHANGED ringVars
  PROVE  RingInv'
BY DEF CoreInv, ringVars, RingInv, RingTypeOK, SetMatchesRing, Stored, SlotsDistinct,
       FillsInOrder, IdxAtFrontier

LEMMA DispatchKeepsCoreInv ==
  ASSUME CoreInv, Dispatch
  PROVE  CoreInv'
<1> DEFINE e == Head(queue)
<1>1. /\ queue \in Seq(Events) /\ queue # << >> /\ queue' = Tail(queue)
      /\ UNCHANGED <<zombies, replied, users, blocked, stop>>
  BY DEF Dispatch, CoreInv, TypeOK
<1>2. e \in Events /\ e = queue[1]
  BY <1>1
<1>3. phase[e] = "queued" /\ \A i \in 2 .. Len(queue) : queue[i] # e /\ phase[queue[i]] = "queued"
  BY <1>1, <1>2 DEF CoreInv, QueueMatchesPhases
<1>4. Settle(e)
  BY <1>2, ExamineSettles DEF Dispatch
<1>5. phase' \in [Events -> Phases] /\ active' \in Nat /\ ActiveCountsRuns'
  BY <1>2, <1>3, <1>4, SettleKeepsCount
<1>6. RingInv' /\ at' \in [Events -> {0} \cup Handlers] /\ saved' \in SUBSET Ids
  BY <1>4 DEF Settle
<1>7. TypeOK'
  BY <1>1, <1>5, <1>6 DEF CoreInv, TypeOK, RingInv
<1>8. QueueMatchesPhases'
  <2>1. Len(queue') = Len(queue) - 1 /\ \A i \in 1 .. Len(queue') : queue'[i] = queue[i + 1]
    BY <1>1
  <2>2. \A i \in 1 .. Len(queue') : phase'[queue'[i]] = "queued"
    BY <1>1, <1>2, <1>3, <1>4, <2>1 DEF Settle, CoreInv, TypeOK
  <2>3. \A i, j \in 1 .. Len(queue') : queue'[i] = queue'[j] => i = j
    BY <1>1, <2>1 DEF CoreInv, QueueMatchesPhases
  <2>4. QED BY <2>2, <2>3 DEF QueueMatchesPhases
<1>9. ChainInOrder'
  BY <1>1, <1>2, <1>3, <1>4, SettleKeepsChain
<1>10. QED BY <1>5, <1>6, <1>7, <1>8, <1>9 DEF CoreInv

LEMMA FetchDoneKeepsCoreInv ==
  ASSUME CoreInv, NEW e \in Events, FetchDone(e)
  PROVE  CoreInv'
<1>1. phase[e] = "fetching" /\ UNCHANGED <<queue, zombies, replied, blocked, stop>>
  BY DEF FetchDone
<1>2. users' \in [Users -> {"none", "bare", "named", "placeholder"}]
  BY DEF FetchDone, Register, CoreInv, TypeOK
<1>3. Settle(e)
  BY AdmitSettles, VetSettles DEF FetchDone
<1>4. phase' \in [Events -> Phases] /\ active' \in Nat /\ ActiveCountsRuns'
  BY <1>1, <1>3, SettleKeepsCount
<1>5. RingInv' /\ at' \in [Events -> {0} \cup Handlers] /\ saved' \in SUBSET Ids
  BY <1>3 DEF Settle
<1>6. TypeOK'
  BY <1>1, <1>2, <1>4, <1>5 DEF CoreInv, TypeOK, RingInv
<1>7. QueueMatchesPhases'
  <2>1. PICK v \in Settled : phase' = [phase EXCEPT ![e] = v]
    BY <1>3 DEF Settle
  <2>2. v \in Phases \ {"queued"}
    BY <2>1 DEF Settled, Phases, Verdicts
  <2>3. QED BY <1>1, <2>1, <2>2, QueueUntouched
<1>8. ChainInOrder'
  BY <1>1, <1>3, SettleKeepsChain
<1>9. QED BY <1>4, <1>5, <1>6, <1>7, <1>8 DEF CoreInv

LEMMA RunStepKeepsCoreInv ==
  ASSUME CoreInv, NEW e \in Events, RunStep(e)
  PROVE  CoreInv'
<1> USE DEF CoreInv, TypeOK
<1>1. CASE HandlerReturns(e)
  <2>1. "handled" \in Verdicts /\ "handled" \in Phases \ {"queued"}
    BY DEF Verdicts, Phases
  <2>2. active' \in Nat /\ ActiveCountsRuns'
    BY <1>1, <2>1, LeavingKeepsCount DEF HandlerReturns
  <2>3. QueueMatchesPhases'
    BY <1>1, <2>1, QueueUntouched DEF HandlerReturns
  <2>4. RingInv'
    BY <1>1, RingUntouched DEF HandlerReturns, ringVars
  <2>5. ChainInOrder'
    BY <1>1 DEF HandlerReturns, ChainInOrder, ChainOf
  <2>6. QED BY <1>1, <2>1, <2>2, <2>3, <2>4, <2>5 DEF HandlerReturns, RingInv
<1>2. ASSUME phase[e] = "running", MoveOn(e, at[e]),
             zombies' = zombies \/ zombies' = zombies \cup {<<e, at[e]>>},
             UNCHANGED <<set, buf, seenIdx, queue, replied, users, blocked, saved, stop>>
      PROVE  CoreInv'
  <2>1. PICK v \in Verdicts \cup {"running"} : phase' = [phase EXCEPT ![e] = v]
    BY <1>2, MoveOnKeepsCount
  <2>2. v \in Phases \ {"queued"} /\ v \notin {"new", "queued", "fetching"}
    BY <2>1 DEF Verdicts, Phases
  <2>3. /\ at' \in [Events -> {0} \cup Handlers] /\ active' \in Nat /\ ActiveCountsRuns'
        /\ at[e] \in Matches[e] \cap Handlers
        /\ at'[e] \in Matches[e] \cap Handlers /\ at[e] <= at'[e]
        /\ \A f \in Events \ {e} : at'[f] = at[f]
    BY <1>2, MoveOnKeepsCount
  <2>4. QueueMatchesPhases'
    BY <1>2, <2>1, <2>2, QueueUntouched
  <2>5. RingInv'
    BY <1>2, RingUntouched DEF ringVars
  <2>6. phase' \in [Events -> Phases]
    BY <2>1, <2>2
  <2>7. zombies' \in SUBSET (Events \X Handlers)
    BY <1>2, <2>3
  <2>8. ChainInOrder'
    <3>1. ASSUME NEW f \in Events, f # e PROVE ChainOf(f)'
      BY <1>2, <2>1, <2>3, <3>1 DEF ChainInOrder, ChainOf
    <3>2. ChainOf(e)'
      <4>1. \A h \in Handlers : h <= at[e] => h <= at'[e]
        BY <2>3 DEF Handlers, Command, Chat
      <4>2. at[e] # 0 /\ at'[e] # 0 /\ at[e] <= at[e]
        BY <2>3 DEF Handlers, Command, Chat
      <4>3. QED BY <1>2, <2>1, <2>2, <2>3, <4>1, <4>2 DEF ChainInOrder, ChainOf
    <3>3. QED BY <3>1, <3>2 DEF ChainInOrder
  <2>9. QED BY <1>2, <2>3, <2>4, <2>5, <2>6, <2>7, <2>8 DEF RingInv
<1>3. CASE HandlerFails(e)
  BY <1>2, <1>3 DEF HandlerFails
<1>4. CASE HandlerTimesOut(e)
  BY <1>2, <1>4 DEF HandlerTimesOut
<1>5. CASE \E h \in Handlers : ZombieEnds(e, h) \/ Reply(e, h)
  <2>1. PICK h \in Handlers : ZombieEnds(e, h) \/ Reply(e, h)
    BY <1>5
  <2>2. RingInv'
    BY <2>1, RingUntouched DEF ZombieEnds, Reply, ringVars
  <2>3. ChainInOrder'
    <3>1. CASE ZombieEnds(e, h)
      BY <3>1 DEF ZombieEnds, ChainInOrder, ChainOf
    <3>2. CASE Reply(e, h)
      <4>1. h \in Matches[e] /\ h <= at[e]
        <5>1. CASE <<e, h>> \in zombies
          BY <5>1 DEF ChainInOrder, ChainOf
        <5>2. CASE phase[e] = "running" /\ h = at[e]
          <6>1. h # 0 /\ h <= h
            BY DEF Handlers, Command, Chat
          <6>2. QED BY <5>2, <6>1 DEF ChainInOrder, ChainOf
        <5>3. QED BY <3>2, <5>1, <5>2 DEF Reply, Executing, Running
      <4>2. QED BY <3>2, <4>1 DEF Reply, ChainInOrder, ChainOf
    <3>3. QED BY <2>1, <3>1, <3>2
  <2>4. TypeOK'
    <3>1. CASE ZombieEnds(e, h)
      BY <2>2, <3>1 DEF ZombieEnds, RingInv
    <3>2. CASE Reply(e, h)
      <4>1. replied' \in [Events -> SUBSET Handlers]
        BY <3>2 DEF Reply
      <4>2. QED BY <2>2, <3>2, <4>1 DEF Reply, RingInv
    <3>3. QED BY <2>1, <3>1, <3>2
  <2>5. UNCHANGED <<queue, phase, active>>
    BY <2>1 DEF ZombieEnds, Reply
  <2>6. QueueMatchesPhases' /\ ActiveCountsRuns'
    BY <2>5 DEF QueueMatchesPhases, ActiveCountsRuns, Running
  <2>7. QED BY <2>2, <2>3, <2>4, <2>6
<1>6. QED BY <1>1, <1>3, <1>4, <1>5 DEF RunStep
-----------------------------------------------------------------------------
LEMMA InitEstablishesCoreInv == Init => CoreInv
<1> SUFFICES ASSUME Init PROVE CoreInv
  OBVIOUS
<1> USE CoreAssumption DEF Init
<1>1. RingInv
  BY RingInvInit
<1>2. TypeOK
  BY <1>1 DEF TypeOK, RingInv, Phases
<1>3. QueueMatchesPhases
  BY DEF QueueMatchesPhases
<1>4. Running = {}
  BY DEF Running
<1>5. ActiveCountsRuns
  BY <1>4, FS_EmptySet DEF ActiveCountsRuns
<1>6. ChainInOrder
  BY DEF ChainInOrder, ChainOf
<1>7. QED BY <1>1, <1>2, <1>3, <1>5, <1>6 DEF CoreInv

\* Steps of the environment and of the shutdown: a delivery joins the queue, a
\* user is blocked, the stop sequence advances.
LEMMA OtherStepsKeepCoreInv ==
  ASSUME CoreInv,
         \/ \E e \in Events : Deliver(e)
         \/ \E u \in Users : AdminTouches(u)
         \/ Shutdown \/ Drained \/ DrainDeadline \/ Exit
  PROVE  CoreInv'
<1> USE DEF CoreInv, TypeOK
<1>1. CASE \E e \in Events : Deliver(e)
  <2>1. PICK e \in Events : Deliver(e)
    BY <1>1
  <2>2. /\ phase[e] = "new" /\ phase' = [phase EXCEPT ![e] = "queued"]
        /\ queue' = Append(queue, e)
        /\ UNCHANGED <<set, buf, seenIdx, at, zombies, replied, active, users, blocked, saved, stop>>
    BY <2>1 DEF Deliver
  <2>3. RingInv'
    BY <2>2, RingUntouched DEF ringVars
  <2>4. \A i \in 1 .. Len(queue) : queue[i] # e
    BY <2>2 DEF QueueMatchesPhases
  <2>5. QueueMatchesPhases'
    BY <2>2, <2>4 DEF QueueMatchesPhases
  <2>6. Running' = Running
    BY <2>2 DEF Running
  <2>7. ActiveCountsRuns'
    BY <2>2, <2>6 DEF ActiveCountsRuns
  <2>8. ChainInOrder'
    BY <2>2 DEF ChainInOrder, ChainOf
  <2>9. phase' \in [Events -> Phases]
    BY <2>2 DEF Phases
  <2>10. queue' \in Seq(Events)
    BY <2>2
  <2>11. QED BY <2>2, <2>3, <2>5, <2>7, <2>8, <2>9, <2>10 DEF RingInv
<1>2. ASSUME NonStopVars' = NonStopVars \/ \E u \in Users : AdminTouches(u),
             stop' \in {"no", "draining", "closing", "exited"}
      PROVE  CoreInv'
  <2>1. UNCHANGED <<set, buf, seenIdx, queue, phase, at, zombies, replied, active, saved>>
    BY <1>2 DEF NonStopVars, AdminTouches
  <2>2. /\ blocked' \in SUBSET Users
        /\ users' \in [Users -> {"none", "bare", "named", "placeholder"}]
    BY <1>2 DEF NonStopVars, AdminTouches, EnsureRow
  <2>3. RingInv'
    BY <2>1, RingUntouched DEF ringVars
  <2>4. QED BY <1>2, <2>1, <2>2, <2>3
            DEF QueueMatchesPhases, ActiveCountsRuns, Running, ChainInOrder, ChainOf, RingInv
<1>3. CASE \E u \in Users : AdminTouches(u)
  BY <1>2, <1>3 DEF AdminTouches
<1>4. CASE Shutdown \/ Drained \/ DrainDeadline \/ Exit
  BY <1>2, <1>4 DEF Shutdown, Drained, DrainDeadline, Exit
<1>5. QED BY <1>1, <1>3, <1>4

\* Types, the ring's consistency, the queue discipline, the counter and the order
\* of the chain hold in every reachable state of the dispatcher.
THEOREM CoreInvariant == Spec => []CoreInv
<1>1. CoreInv /\ [Next]_vars => CoreInv'
  <2>1. SUFFICES ASSUME CoreInv, [Next]_vars PROVE CoreInv'
    OBVIOUS
  <2>2. CASE Dispatch
    BY <2>1, <2>2, DispatchKeepsCoreInv
  <2>3. CASE \E e \in Events : FetchDone(e)
    BY <2>1, <2>3, FetchDoneKeepsCoreInv
  <2>4. CASE \E e \in Events : RunStep(e)
    BY <2>1, <2>4, RunStepKeepsCoreInv
  <2>5. CASE \/ \E e \in Events : Deliver(e)
             \/ \E u \in Users : AdminTouches(u)
             \/ Shutdown \/ Drained \/ DrainDeadline \/ Exit
    BY <2>1, <2>5, OtherStepsKeepCoreInv
  <2>6. CASE UNCHANGED vars
    <3>1. RingInv'
      BY <2>1, <2>6, RingUntouched DEF vars, ringVars
    <3>2. QED BY <2>1, <2>6, <3>1
              DEF vars, CoreInv, TypeOK, QueueMatchesPhases, ActiveCountsRuns, Running,
                  ChainInOrder, ChainOf, RingInv
  <2>7. QED BY <2>1, <2>2, <2>3, <2>4, <2>5, <2>6 DEF Next
<1>2. QED BY InitEstablishesCoreInv, <1>1, PTL DEF Spec

\* Backpressure is sound: #activeHandlers is the number of messages in the chain,
\* never more than the limit.
THEOREM CounterIsExact == Spec => []ActiveCountsRuns
<1>1. CoreInv => ActiveCountsRuns  BY DEF CoreInv
<1>2. QED BY CoreInvariant, <1>1, PTL

\* Only matching handlers up to the current one ever run or answer.
THEOREM ChainStaysInOrder == Spec => []ChainInOrder
<1>1. CoreInv => ChainInOrder  BY DEF CoreInv
<1>2. QED BY CoreInvariant, <1>1, PTL

\* The block check cannot be raced: it is made in the step that starts the run.
THEOREM BlockedUsersAreNotServed == Spec => BlockedNeverStarts
<1>1. CoreInv /\ [Next]_vars =>
        [TRUE \notin DbFaults => \A e \in Events : StartsUnblocked(e)]_vars
  <2>1. SUFFICES ASSUME CoreInv, Next, TRUE \notin DbFaults, NEW e \in Events,
                        phase[e] # "running", phase'[e] = "running"
                 PROVE  SenderOf[e] \notin blocked
    BY DEF StartsUnblocked
  <2>3. CASE Dispatch
    <3>1. Head(queue) \in Events
      BY <2>1, <2>3 DEF Dispatch, CoreInv, TypeOK
    <3>2. Settle(Head(queue))
      BY <2>1, <2>3, <3>1, ExamineSettles DEF Dispatch
    <3>3. e = Head(queue)
      BY <2>1, <3>1, <3>2 DEF Settle, CoreInv, TypeOK
    <3>4. Vet(e)
      BY <2>1, <2>3, <3>3 DEF Dispatch, Ignore, Examine, CoreInv, TypeOK
    <3>5. QED BY <2>1, <3>4 DEF Vet, CoreInv, TypeOK
  <2>4. CASE \E f \in Events : FetchDone(f)
    <3>1. PICK f \in Events : FetchDone(f)
      BY <2>4
    <3>2. Settle(f)
      BY <2>1, <3>1, AdmitSettles, VetSettles DEF FetchDone
    <3>3. e = f
      BY <2>1, <3>2 DEF Settle, CoreInv, TypeOK
    <3>4. Vet(e)
      BY <2>1, <3>1, <3>3 DEF FetchDone
    <3>5. QED BY <2>1, <3>4 DEF Vet, CoreInv, TypeOK
  <2>5. CASE \E f \in Events : RunStep(f)
    <3>1. PICK f \in Events : RunStep(f)
      BY <2>5
    <3>2. phase[f] = "running" \/ phase' = phase
      BY <3>1 DEF RunStep, HandlerReturns, HandlerFails, HandlerTimesOut, ZombieEnds, Reply
    <3>3. \A g \in Events : g # f => phase'[g] = phase[g]
      BY <2>1, <3>1 DEF RunStep, HandlerReturns, HandlerFails, HandlerTimesOut, ZombieEnds,
                        Reply, MoveOn, CoreInv, TypeOK
    <3>4. QED BY <2>1, <3>2, <3>3
  <2>6. CASE \E f \in Events : Deliver(f)
    BY <2>1, <2>6 DEF Deliver, CoreInv, TypeOK
  <2>7. CASE UNCHANGED phase
    BY <2>1, <2>7
  <2>8. QED
    BY <2>1, <2>3, <2>4, <2>5, <2>6, <2>7
    DEF Next, AdminTouches, Shutdown, Drained, DrainDeadline, Exit, NonStopVars
<1>2. QED BY CoreInvariant, <1>1, PTL DEF Spec, BlockedNeverStarts
-----------------------------------------------------------------------------
\* Every step of the dispatcher is a step of the cache or leaves it alone, so the
\* dispatcher's cache is a sliding window too.
LEMMA AdmitIsRingStep ==
  ASSUME NEW e \in Events, Admit(e)
  PROVE  [RingNext]_ringVars
BY CoreAssumption DEF Admit, RingNext, ringVars

THEOREM CoreUsesWindow == Spec => RefinesWindow
<1>1. Init => RingInit
  BY DEF Init
<1>2. CoreInv /\ [Next]_vars => [RingNext]_ringVars
  <2>1. SUFFICES ASSUME CoreInv, [Next]_vars PROVE [RingNext]_ringVars
    OBVIOUS
  <2>2. CASE Dispatch
    <3>1. Head(queue) \in Events
      BY <2>1, <2>2 DEF Dispatch, CoreInv, TypeOK
    <3>2. QED BY <2>2, <3>1, AdmitIsRingStep DEF Dispatch, Ignore, Examine, Vet, ringVars
  <2>3. CASE \E e \in Events : FetchDone(e)
    BY <2>3, AdmitIsRingStep DEF FetchDone, Vet, ringVars
  <2>4. CASE \E e \in Events : RunStep(e)
    BY <2>4 DEF RunStep, HandlerReturns, HandlerFails, HandlerTimesOut, ZombieEnds, Reply, ringVars
  <2>5. CASE UNCHANGED ringVars
    BY <2>5
  <2>6. QED
    BY <2>1, <2>2, <2>3, <2>4, <2>5
    DEF Next, Deliver, AdminTouches, Shutdown, Drained, DrainDeadline, Exit, NonStopVars,
        vars, ringVars
<1>3. Spec => RingSpec
  BY <1>1, <1>2, CoreInvariant, PTL DEF Spec, RingSpec
<1>4. QED BY <1>3, RingImplementsWindow
-----------------------------------------------------------------------------
(* The cache, the history and the verdicts: what a step does to the three. *)

Ran      == {"running", "handled", "unhandled"}
Accepted == Ran \cup {"dropped"}

\* The dispatch of e comes to an end or to its await: it leaves cache and history
\* alone, or e's id enters the cache, and the history too if e gets into the chain.
Decides(e) ==
  /\ phase[e] \notin Accepted
  /\ \/ /\ \E v \in Phases \ Accepted : phase' = [phase EXCEPT ![e] = v]
        /\ UNCHANGED <<set, saved>>
     \/ /\ phase' = [phase EXCEPT ![e] = "dropped"]
        /\ Insert(IdOf[e])
        /\ UNCHANGED saved
     \/ /\ \E v \in Ran : phase' = [phase EXCEPT ![e] = v]
        /\ Insert(IdOf[e])
        /\ TRUE \notin DbFaults => saved' = saved \cup {IdOf[e]}

\* Nobody's dispatch is decided: a message in the chain stays there or leaves it,
\* one that is not accepted is not.
DecidesNothing ==
  /\ UNCHANGED <<set, saved>>
  /\ \A e \in Events : \/ phase[e] \in Ran /\ phase'[e] \in Ran
                       \/ phase[e] \notin Ran /\ phase'[e] = phase[e]
                       \/ phase[e] \notin Accepted /\ phase'[e] \notin Accepted

LEMMA AdmitDecides ==
  ASSUME NEW e \in Events, phase[e] \notin Accepted, Admit(e)
  PROVE  Decides(e)
<1>1. CASE /\ phase' = [phase EXCEPT ![e] = "duplicate"]
           /\ UNCHANGED <<set, buf, seenIdx, at, active, saved>>
  BY <1>1 DEF Decides, Phases, Verdicts, Accepted, Ran
<1>2. CASE Insert(IdOf[e]) /\ Drop(e)
  BY <1>2 DEF Drop, Decides
<1>3. CASE Insert(IdOf[e]) /\ StartRun(e)
  <2>1. \E v \in Ran : phase' = [phase EXCEPT ![e] = v]
    BY <1>3 DEF StartRun, Ran
  <2>2. TRUE \notin DbFaults => saved' = saved \cup {IdOf[e]}
    BY <1>3, CoreAssumption DEF StartRun
  <2>3. QED BY <1>3, <2>1, <2>2 DEF Decides
<1>4. QED BY <1>1, <1>2, <1>3 DEF Admit

LEMMA VetDecides ==
  ASSUME NEW e \in Events, phase[e] \notin Accepted, Vet(e)
  PROVE  Decides(e)
BY AdmitDecides DEF Vet, Decides, Phases, Verdicts, Accepted, Ran

LEMMA StepDecides ==
  ASSUME CoreInv, [Next]_vars
  PROVE  DecidesNothing \/ \E e \in Events : Decides(e)
<1>1. CASE Dispatch
  <2>1. Head(queue) \in Events /\ phase[Head(queue)] = "queued"
    BY <1>1 DEF Dispatch, CoreInv, TypeOK, QueueMatchesPhases
  <2>2. phase[Head(queue)] \notin Accepted
    BY <2>1 DEF Accepted, Ran
  <2>3. CASE Ignore(Head(queue))
    BY <2>1, <2>2, <2>3 DEF Ignore, Decides, Phases, Verdicts, Accepted, Ran
  <2>4. CASE Examine(Head(queue))
    BY <2>1, <2>2, <2>4, AdmitDecides, VetDecides
       DEF Examine, Decides, Phases, Accepted, Ran
  <2>5. QED BY <1>1, <2>1, <2>3, <2>4 DEF Dispatch
<1>2. CASE \E e \in Events : FetchDone(e)
  <2>1. PICK e \in Events : FetchDone(e)
    BY <1>2
  <2>2. phase[e] \notin Accepted
    BY <2>1 DEF FetchDone, Accepted, Ran
  <2>3. QED BY <2>1, <2>2, AdmitDecides, VetDecides DEF FetchDone
<1>3. CASE \E e \in Events : RunStep(e)
  <2>1. PICK e \in Events : RunStep(e)
    BY <1>3
  <2>2. UNCHANGED <<set, saved>>
    BY <2>1 DEF RunStep, HandlerReturns, HandlerFails, HandlerTimesOut, ZombieEnds, Reply
  <2>3. \/ phase' = phase
        \/ phase[e] = "running" /\ \E v \in Ran : phase' = [phase EXCEPT ![e] = v]
    BY <2>1 DEF RunStep, HandlerReturns, HandlerFails, HandlerTimesOut, ZombieEnds, Reply,
                MoveOn, Ran
  <2>4. QED BY <2>2, <2>3 DEF DecidesNothing, CoreInv, TypeOK, Ran
<1>4. CASE \E e \in Events : Deliver(e)
  BY <1>4 DEF Deliver, DecidesNothing, CoreInv, TypeOK, Accepted, Ran
<1>5. CASE UNCHANGED <<set, saved, phase>>
  BY <1>5 DEF DecidesNothing
<1>6. QED
  BY <1>1, <1>2, <1>3, <1>4, <1>5
  DEF Next, AdminTouches, Shutdown, Drained, DrainDeadline, Exit, NonStopVars, vars

\* Without database faults the stored history is exactly what passed backpressure,
\* whatever is refused, redelivered or abandoned.
THEOREM HistoryHolds == Spec => []HistoryIsWhatRan
<1>1. Init => HistoryIsWhatRan
  BY DEF Init, HistoryIsWhatRan
<1>2. CoreInv /\ HistoryIsWhatRan /\ [Next]_vars => HistoryIsWhatRan'
  <2>1. SUFFICES ASSUME CoreInv, [Next]_vars, TRUE \notin DbFaults,
                        saved = {IdOf[e] : e \in {x \in Events : phase[x] \in Ran}}
                 PROVE  saved' = {IdOf[e] : e \in {x \in Events : phase'[x] \in Ran}}
    BY DEF HistoryIsWhatRan, Ran
  <2>2. CASE DecidesNothing
    <3>1. {x \in Events : phase'[x] \in Ran} = {x \in Events : phase[x] \in Ran}
      BY <2>2 DEF DecidesNothing, Accepted
    <3>2. QED BY <2>1, <2>2, <3>1 DEF DecidesNothing
  <2>3. ASSUME NEW e \in Events, Decides(e)
        PROVE  saved' = {IdOf[x] : x \in {y \in Events : phase'[y] \in Ran}}
    <3>1. CASE \E v \in Phases \ Ran : phase' = [phase EXCEPT ![e] = v] /\ saved' = saved
      <4>1. {x \in Events : phase'[x] \in Ran} = {x \in Events : phase[x] \in Ran}
        BY <2>1, <2>3, <3>1 DEF Decides, Accepted, CoreInv, TypeOK
      <4>2. QED BY <2>1, <3>1, <4>1
    <3>2. CASE /\ \E v \in Ran : phase' = [phase EXCEPT ![e] = v]
               /\ saved' = saved \cup {IdOf[e]}
      <4>1. {x \in Events : phase'[x] \in Ran} = {x \in Events : phase[x] \in Ran} \cup {e}
        BY <2>1, <3>2 DEF CoreInv, TypeOK
      <4>2. QED BY <2>1, <3>2, <4>1
    <3>3. QED BY <2>1, <2>3, <3>1, <3>2 DEF Decides, Accepted, Ran, Phases, Verdicts
  <2>4. QED BY <2>1, <2>2, <2>3, StepDecides
<1>3. QED BY <1>1, <1>2, CoreInvariant, PTL DEF Spec
-----------------------------------------------------------------------------
(* A cache that can hold every id forgets none. *)

\* A slot that holds an id is overwritten only when all slots do; with a new id
\* there would then be more ids than slots.
LEMMA NothingIsForgotten ==
  ASSUME RingInv, IsFiniteSet(Ids), Cardinality(Ids) <= cap, NEW id \in Ids, Insert(id)
  PROVE  set' = set \cup {id}
<1> USE CapAssumption, UnsetAssumption
<1>1. SUFFICES ASSUME buf[seenIdx] # Unset PROVE FALSE
  BY DEF Insert, Evict
<1>2. \A i \in Slots : buf[i] # Unset
  <2>1. cap - 1 \in Slots /\ seenIdx \in Slots
    BY DEF RingInv, RingTypeOK, Slots
  <2>2. buf[cap - 1] # Unset
    BY <1>1, <2>1 DEF RingInv, IdxAtFrontier, Slots
  <2>3. QED BY <2>1, <2>2 DEF RingInv, FillsInOrder, Slots
<1>3. buf \in [Slots -> Ids \ {id}]
  <2>1. \A i \in Slots : buf[i] \in set
    BY <1>2 DEF RingInv, SetMatchesRing, Stored
  <2>2. QED BY <1>2, <2>1 DEF RingInv, RingTypeOK, Insert, Has
<1>4. IsFiniteSet(Ids \ {id}) /\ Cardinality(Ids \ {id}) = Cardinality(Ids) - 1
  BY FS_RemoveElement
<1>5. IsFiniteSet(Slots) /\ Cardinality(Slots) = cap
  BY FS_Interval DEF Slots
<1>6. Cardinality(Ids) \in Nat
  BY FS_CardinalityType
<1>7. Cardinality(Ids \ {id}) < Cardinality(Slots)
  BY <1>4, <1>5, <1>6
<1>8. \E i, j \in Slots : i # j /\ buf[i] = buf[j]
  BY <1>3, <1>4, <1>5, <1>7, FS_PigeonHole
<1>9. QED BY <1>2, <1>8 DEF RingInv, SlotsDistinct

\* Strengthening: the id of every accepted message is still in the cache.
VerdictInv == /\ \A e \in Events : phase[e] \in Accepted => IdOf[e] \in set
              /\ \A e, f \in Events :
                    (phase[e] \in Accepted /\ phase[f] \in Accepted /\ IdOf[e] = IdOf[f]) => e = f

\* Whatever the interleaving of lookups, drops and redeliveries, two deliveries of
\* one id are never both accepted, as long as the cache can hold every id.
THEOREM VerdictsAreUnique == Spec => []OneVerdictPerId
<1> DEFINE Roomy == IsFiniteSet(Ids) /\ Cardinality(Ids) <= cap
           Inv   == Roomy => VerdictInv
<1>1. Init => Inv
  BY DEF Init, VerdictInv, Accepted, Ran
<1>2. CoreInv /\ Inv /\ [Next]_vars => Inv'
  <2>1. SUFFICES ASSUME CoreInv, Roomy, VerdictInv, [Next]_vars PROVE VerdictInv'
    OBVIOUS
  <2>2. CASE DecidesNothing
    <3>1. \A e \in Events : phase'[e] \in Accepted => phase[e] \in Accepted
      BY <2>2 DEF DecidesNothing, Accepted
    <3>2. QED BY <2>1, <2>2, <3>1 DEF DecidesNothing, VerdictInv
  <2>3. ASSUME NEW e \in Events, Decides(e) PROVE VerdictInv'
    <3>1. \A f \in Events : f # e => phase'[f] = phase[f]
      BY <2>1, <2>3 DEF Decides, CoreInv, TypeOK
    <3>2. CASE phase'[e] \notin Accepted /\ set' = set
      BY <2>1, <3>1, <3>2 DEF VerdictInv
    <3>3. CASE Insert(IdOf[e])
      <4>1. IdOf[e] \in Ids /\ IdOf[e] \notin set
        BY <3>3, CoreAssumption DEF Insert, Has
      <4>2. set' = set \cup {IdOf[e]}
        BY <2>1, <3>3, <4>1, NothingIsForgotten DEF CoreInv
      <4>3. QED BY <2>1, <3>1, <4>1, <4>2 DEF VerdictInv
    <3>4. QED BY <2>1, <2>3, <3>2, <3>3 DEF Decides, CoreInv, TypeOK
  <2>4. QED BY <2>1, <2>2, <2>3, StepDecides
<1>3. Inv => OneVerdictPerId
  BY DEF VerdictInv, OneVerdictPerId, Admitted, Accepted, Ran
<1>4. QED BY <1>1, <1>2, <1>3, CoreInvariant, PTL DEF Spec

-----------------------------------------------------------------------------
(* The limiter, for every rate, bucket size, clock and set of senders.        *)
(* Nobody waits for ever in front of the bucket: the wait of every sender is  *)
(* bounded by the time one token takes to come back and by how far the wall   *)
(* clock was set back.  And the limiter keeps the rate it promises: no        *)
(* stretch of time hands out more than a full bucket and what flows in        *)
(* meanwhile, to everybody together until two senders ask at once, and to     *)
(* each sender for ever.                                                      *)
(*                                                                           *)
(* A clock set back makes the bucket negative, so the wait alone is not       *)
(* inductive: DebtIsSkew says how negative it can be.                         *)

\* What the bucket holds now, uncapped, may be negative only by what the clock lost.
Held == tokens + (Wall - lastRefill) * Refill

DebtIsSkew == Held >= (0 - skew) * Refill

WaitInv == LimiterTypeOK /\ DebtIsSkew /\ WaitIsBounded
-----------------------------------------------------------------------------
(* Arithmetic of the rounded-up quotient. *)

LEMMA DivBounds ==
    ASSUME NEW a \in Int, NEW b \in Nat \ {0}
    PROVE  a \div b \in Int /\ b * (a \div b) <= a /\ a < b * (a \div b) + b
OBVIOUS

LEMMA ProductOrder ==
    ASSUME NEW b \in Nat \ {0}, NEW x \in Int, NEW y \in Int, b * x < b * y
    PROVE  x < y
OBVIOUS

\* Rounding up commutes with adding whole multiples, and is monotone.
LEMMA CeilDivShift ==
    ASSUME NEW a \in Int, NEW c \in Int, NEW n \in Int, NEW b \in Nat \ {0}, a <= c + n * b
    PROVE  CeilDiv(a, b) <= CeilDiv(c, b) + n
<1> DEFINE q == (a + b - 1) \div b
           r == (c + b - 1) \div b
<1>1. q \in Int /\ b * q <= a + b - 1
    BY DivBounds
<1>2. r \in Int /\ c + b - 1 < b * r + b
    BY DivBounds
<1> HIDE DEF q, r
<1>3. b * q < b * r + b + n * b
    BY <1>1, <1>2
<1>4. b * r + b + n * b = b * (r + n + 1)
    BY <1>2
<1>5. q < r + n + 1
    BY <1>1, <1>2, <1>3, <1>4, ProductOrder
<1> QED
    BY <1>1, <1>2, <1>5 DEF CeilDiv, q, r

LEMMA CeilDivNat ==
    ASSUME NEW a \in Nat, NEW b \in Nat \ {0}
    PROVE  CeilDiv(a, b) \in Nat
<1> DEFINE q == (a + b - 1) \div b
<1>1. q \in Int /\ a + b - 1 < b * q + b
    BY DivBounds
<1> HIDE DEF q
<1>2. b * (0 - 1) < b * q
    BY <1>1
<1>3. 0 - 1 < q
    BY <1>1, <1>2, ProductOrder
<1> QED
    BY <1>1, <1>3 DEF CeilDiv, q
-----------------------------------------------------------------------------
(* The bucket. *)

LEMMA Parameters == /\ Capacity \in Nat /\ PerToken \in Nat \ {0} /\ PerToken <= Capacity
                    /\ Refill \in Nat \ {0} /\ MaxTime \in Nat /\ MaxSkew \in Nat
<1>1. \A b, p \in Nat \ {0} : b * p \in Nat /\ p <= b * p
    OBVIOUS
<1> QED
    BY <1>1, LimiterAssumption DEF Capacity

LEMMA HeldInt ==
    ASSUME LimiterTypeOK
    PROVE  /\ Held \in Int /\ Wall \in Int /\ skew \in Nat /\ now \in Nat
           /\ Refilled \in Int /\ Refilled <= Capacity /\ Refilled <= Held
           /\ Refilled = Capacity \/ Refilled = Held
BY Parameters DEF LimiterTypeOK, Held, Refilled, Lower, Wall

\* The bound leaves room when time passes or the clock is set back, and when a
\* caller goes to sleep for no more than it.
LEMMA WaitsStayBounded ==
    ASSUME WaitInv, now' \in Nat, skew' \in Nat, now <= now', skew <= skew',
           \A s \in Senders : \/ wakeAt'[s] \in {Awake, wakeAt[s]}
                              \/ wakeAt'[s] <= now' + CeilDiv(PerToken, Refill) + skew'
    PROVE  WaitIsBounded'
<1> DEFINE C == CeilDiv(PerToken, Refill)
<1>1. C \in Nat
    BY Parameters, CeilDivNat
<1>2. now \in Nat /\ skew \in Nat
    BY HeldInt DEF WaitInv
<1> SUFFICES ASSUME NEW s \in Senders, wakeAt'[s] # Awake
             PROVE  wakeAt'[s] <= now' + C + skew'
    BY DEF WaitIsBounded
<1> HIDE DEF C
<1>3. CASE wakeAt'[s] = wakeAt[s]
    <2>1. wakeAt[s] <= now + C + skew /\ wakeAt[s] \in Int
        BY <1>3 DEF WaitInv, WaitIsBounded, LimiterTypeOK, Awake, C
    <2> QED
        BY <1>1, <1>2, <1>3, <2>1
<1> QED
    BY <1>3 DEF C

LEMMA InitWait == LimiterInit => WaitInv
<1> SUFFICES ASSUME LimiterInit PROVE WaitInv
    OBVIOUS
<1>1. LimiterTypeOK
    <2>1. crowded \in BOOLEAN
        BY DEF LimiterInit
    <2>2. sent \in [Counted -> Nat] /\ before \in [Counted -> [0 .. MaxTime -> Nat]]
        BY DEF LimiterInit
    <2> QED
        BY <2>1, <2>2, Parameters DEF LimiterInit, LimiterTypeOK, Awake
<1>2. DebtIsSkew
    BY Parameters DEF LimiterInit, DebtIsSkew, Held, Wall
<1>3. WaitIsBounded
    BY DEF LimiterInit, WaitIsBounded, Awake
<1> QED
    BY <1>1, <1>2, <1>3 DEF WaitInv

LEMMA TickWait == WaitInv /\ Tick => WaitInv'
<1> SUFFICES ASSUME WaitInv, Tick PROVE WaitInv'
    OBVIOUS
<1>1. LimiterTypeOK'
    <2>1. before' \in [Counted -> [0 .. MaxTime -> Nat]]
        BY DEF WaitInv, LimiterTypeOK, Tick
    <2> QED
        BY <2>1, Parameters DEF WaitInv, LimiterTypeOK, Tick
<1>2. Held' = Held + Refill
    BY Parameters DEF WaitInv, LimiterTypeOK, Tick, Held, Wall
<1>3. DebtIsSkew'
    BY <1>2, Parameters, HeldInt DEF WaitInv, DebtIsSkew, Tick
<1>4. WaitIsBounded'
    BY HeldInt, WaitsStayBounded DEF WaitInv, Tick
<1> QED
    BY <1>1, <1>3, <1>4 DEF WaitInv

LEMMA SetBackWait == WaitInv /\ SetBack => WaitInv'
<1> SUFFICES ASSUME WaitInv, SetBack PROVE WaitInv'
    OBVIOUS
<1>1. LimiterTypeOK'
    BY Parameters DEF WaitInv, LimiterTypeOK, SetBack
<1>2. Held' = Held - Refill
    BY Parameters DEF WaitInv, LimiterTypeOK, SetBack, Held, Wall
<1>3. (0 - (skew + 1)) * Refill = (0 - skew) * Refill - Refill
    BY Parameters, HeldInt DEF WaitInv
<1>4. DebtIsSkew'
    BY <1>2, <1>3, Parameters, HeldInt DEF WaitInv, DebtIsSkew, SetBack
<1>5. WaitIsBounded'
    BY HeldInt, WaitsStayBounded DEF WaitInv, SetBack
<1> QED
    BY <1>1, <1>4, <1>5 DEF WaitInv

\* A refilled bucket owes no more than the clock lost.
LEMMA RefilledDebt ==
    ASSUME WaitInv
    PROVE  Refilled >= (0 - skew) * Refill
<1>1. (0 - skew) * Refill <= 0 /\ (0 - skew) * Refill \in Int
    BY Parameters, HeldInt DEF WaitInv
<1> QED
    BY <1>1, Parameters, HeldInt DEF WaitInv, DebtIsSkew

\* After a call of acquire() the bucket is as full as it says, at this moment.
LEMMA FreshBucket ==
    ASSUME WaitInv, lastRefill' = Wall, tokens' \in Int, UNCHANGED <<now, skew>>,
           tokens' >= (0 - skew) * Refill
    PROVE  DebtIsSkew'
<1>1. Held' = tokens'
    BY Parameters, HeldInt DEF WaitInv, Held, Wall
<1> QED
    BY <1>1 DEF DebtIsSkew

LEMMA HandedOut ==
    ASSUME LimiterTypeOK, NEW s \in Senders, HandOut(s)
    PROVE  /\ sent' \in [Counted -> Nat]
           /\ \A k \in Counted :
                  sent'[k] = IF k \in {s, Everybody} THEN sent[k] + 1 ELSE sent[k]
BY DEF LimiterTypeOK, HandOut, Counted

LEMMA CrowdedType == ASSUME Asks PROVE crowded' \in BOOLEAN
<1> DEFINE other == \E r \in Senders : wakeAt[r] # Awake
<1>1. crowded' = (crowded \/ other)
    BY DEF Asks
<1> HIDE DEF other
<1> QED
    BY <1>1

LEMMA TakeWait == ASSUME WaitInv, NEW s \in Senders, Take(s) PROVE WaitInv'
<1>1. (0 - skew) * Refill <= 0 /\ (0 - skew) * Refill \in Int
    BY Parameters, HeldInt DEF WaitInv
<1>2. /\ tokens' \in Int /\ tokens' >= 0 /\ tokens' <= Capacity
      /\ lastRefill' = Wall /\ UNCHANGED <<now, skew, wakeAt>>
    BY Parameters, HeldInt DEF WaitInv, Take
<1>3. DebtIsSkew'
    BY <1>1, <1>2, FreshBucket
<1>4. LimiterTypeOK'
    <2>1. crowded' \in BOOLEAN
        BY CrowdedType DEF Take
    <2> QED
        BY <1>2, <2>1, HeldInt, HandedOut DEF WaitInv, LimiterTypeOK, Take
<1>5. WaitIsBounded'
    BY <1>2 DEF WaitInv, WaitIsBounded
<1> QED
    BY <1>3, <1>4, <1>5 DEF WaitInv

LEMMA SleepWait == ASSUME WaitInv, NEW s \in Senders, Sleep(s) PROVE WaitInv'
<1>1. /\ tokens' = Refilled /\ lastRefill' = Wall /\ UNCHANGED <<now, skew, sent, before>>
      /\ wakeAt' = [wakeAt EXCEPT ![s] = now + Delay] /\ Refilled < PerToken
    BY DEF Sleep
<1>2. Refilled >= (0 - skew) * Refill /\ (0 - skew) * Refill \in Int
    BY RefilledDebt, Parameters, HeldInt DEF WaitInv
<1>3. DebtIsSkew'
    BY <1>1, <1>2, HeldInt, FreshBucket DEF WaitInv
<1>4. PerToken - Refilled <= PerToken + skew * Refill /\ PerToken - Refilled \in Nat
    BY <1>1, <1>2, Parameters, HeldInt DEF WaitInv
<1>5. Delay <= CeilDiv(PerToken, Refill) + skew /\ Delay \in Nat
    <2>1. skew \in Int /\ Refilled \in Int /\ PerToken \in Int /\ Refill \in Nat \ {0}
        BY Parameters, HeldInt DEF WaitInv
    <2>2. Delay <= CeilDiv(PerToken, Refill) + skew
        BY <2>1, <1>4, CeilDivShift DEF Delay
    <2>3. Delay \in Nat
        BY <2>1, <1>4, CeilDivNat DEF Delay
    <2> QED
        BY <2>2, <2>3
<1>6. LimiterTypeOK'
    <2>1. crowded' \in BOOLEAN
        BY CrowdedType DEF Sleep
    <2> QED
        BY <1>1, <1>5, <2>1, HeldInt DEF WaitInv, LimiterTypeOK
<1>7. WaitIsBounded'
    <2>1. wakeAt'[s] = now + Delay
        BY <1>1 DEF WaitInv, LimiterTypeOK
    <2>2. now + Delay <= now + CeilDiv(PerToken, Refill) + skew
        <3>1. CeilDiv(PerToken, Refill) \in Nat /\ now \in Nat /\ skew \in Nat
            BY Parameters, CeilDivNat, HeldInt DEF WaitInv
        <3> QED
            BY <1>5, <3>1
    <2>3. \A r \in Senders : r # s => wakeAt'[r] = wakeAt[r]
        BY <1>1 DEF WaitInv, LimiterTypeOK
    <2>4. now' = now /\ skew' = skew /\ now \in Nat /\ skew \in Nat
        BY <1>1, HeldInt DEF WaitInv
    <2> QED
        BY <2>1, <2>2, <2>3, <2>4, WaitsStayBounded
<1> QED
    BY <1>3, <1>6, <1>7 DEF WaitInv

LEMMA WakeWait == ASSUME WaitInv, NEW s \in Senders, Wake(s) PROVE WaitInv'
<1>1. (0 - skew) * Refill <= 0 /\ (0 - skew) * Refill \in Int
    BY Parameters, HeldInt DEF WaitInv
<1>2. /\ tokens' \in Int /\ tokens' >= 0 /\ tokens' <= Capacity
      /\ lastRefill' = Wall /\ UNCHANGED <<now, skew>>
      /\ wakeAt' = [wakeAt EXCEPT ![s] = Awake]
    BY Parameters, HeldInt DEF WaitInv, Wake, Higher
<1>3. DebtIsSkew'
    BY <1>1, <1>2, FreshBucket
<1>4. LimiterTypeOK'
    BY <1>2, HeldInt, HandedOut DEF WaitInv, LimiterTypeOK, Wake
<1>5. WaitIsBounded'
    <2>1. \A r \in Senders : wakeAt'[r] \in {Awake, wakeAt[r]}
        BY <1>2 DEF WaitInv, LimiterTypeOK
    <2> QED
        BY <1>2, <2>1, HeldInt, WaitsStayBounded DEF WaitInv
<1> QED
    BY <1>3, <1>4, <1>5 DEF WaitInv

\* The bucket, the debt and the wait hold together in every state.
LEMMA WaitInvariant == LimiterSpec => []WaitInv
<1>1. WaitInv /\ [LimiterNext]_limiterVars => WaitInv'
    <2>1. ASSUME WaitInv, UNCHANGED limiterVars PROVE WaitInv'
        BY <2>1 DEF limiterVars, WaitInv, LimiterTypeOK, DebtIsSkew, Held, Wall, WaitIsBounded
    <2> QED
        BY <2>1, TickWait, SetBackWait, TakeWait, SleepWait, WakeWait DEF LimiterNext
<1> QED
    BY <1>1, InitWait, PTL DEF LimiterSpec

\* The bucket never holds more than a second's worth of tokens, whatever its callers do.
THEOREM LimiterInvariant == LimiterSpec => []LimiterTypeOK
<1>1. WaitInv => LimiterTypeOK
    BY DEF WaitInv
<1> QED
    BY <1>1, WaitInvariant, PTL

\* acquire() never sleeps longer than one token takes to come back, plus what the wall
\* clock was set back: no crowd of callers makes anybody's wait longer.
THEOREM NobodyWaitsLong == LimiterSpec => []WaitIsBounded
<1>1. WaitInv => WaitIsBounded
    BY DEF WaitInv
<1> QED
    BY <1>1, WaitInvariant, PTL
-----------------------------------------------------------------------------
(***************************************************************************)
(* The rate.  It needs no clock that only goes forward and no timer on      *)
(* time, only that nobody else takes what a sleeper waits for, which a      *)
(* sender alone, or everybody until two meet, can count on.                 *)
(***************************************************************************)

\* Tokens k got since tick a began.
Since(k, a) == sent[k] - before[k][a]

\* The stretches that end now, those that ended, and what is in the bucket on top:
\* a bucket last filled when the wall clock said lastRefill.
RateUpToNow(k) == \A a \in 0 .. now :
    Since(k, a) * PerToken <= Capacity + (now - a) * Refill
RateBefore(k) == \A a, b \in 0 .. now : a <= b /\ b < now =>
    (before[k][b + 1] - before[k][a]) * PerToken <= Capacity + (b - a) * Refill
BucketOnTop(k) == \A a \in 0 .. now :
    \/ Since(k, a) = 0
    \/ Since(k, a) * PerToken + Higher(0, tokens) <= Capacity + (lastRefill + skew - a) * Refill

Keeping(k) == RateUpToNow(k) /\ RateBefore(k) /\ BucketOnTop(k)

\* When the timer of s fires there is room for the token k gets then.
RoomAtWake(k, s) == wakeAt[s] # Awake => \A a \in 0 .. now :
    Since(k, a) = 0 \/ (Since(k, a) + 1) * PerToken <= Capacity + (wakeAt[s] - a) * Refill

OneSleeper == \A r, s \in Senders : wakeAt[r] # Awake /\ wakeAt[s] # Awake => r = s

SenderInv == \A s \in Senders : Keeping(s) /\ RoomAtWake(s, s)

EverybodyInv == ~ crowded =>
    /\ OneSleeper
    /\ Keeping(Everybody)
    /\ \A s \in Senders : RoomAtWake(Everybody, s)

RateInv == SenderInv /\ EverybodyInv
-----------------------------------------------------------------------------
(* Arithmetic. *)

LEMMA InflowNat ==
    ASSUME NEW n \in Nat PROVE n * Refill \in Nat
BY Parameters

LEMMA InflowSplits ==
    ASSUME NEW x \in Int, NEW y \in Int, NEW a \in Int
    PROVE  /\ (x - a) * Refill = (x - y) * Refill + (y - a) * Refill
           /\ (x - a) * Refill \in Int /\ (x - y) * Refill \in Int /\ (y - a) * Refill \in Int
BY Parameters

LEMMA InflowGrows ==
    ASSUME NEW x \in Int, NEW y \in Int, x <= y, NEW a \in Int
    PROVE  (x - a) * Refill <= (y - a) * Refill
<1>1. (y - x) * Refill \in Nat
    BY InflowNat
<1>2. /\ (y - a) * Refill = (y - x) * Refill + (x - a) * Refill
      /\ (y - a) * Refill \in Int /\ (x - a) * Refill \in Int
    BY InflowSplits
<1> QED
    BY <1>1, <1>2

LEMMA CountInt ==
    ASSUME LimiterTypeOK, NEW k \in Counted, NEW a \in 0 .. now
    PROVE  /\ Since(k, a) \in Int /\ Since(k, a) * PerToken \in Int
           /\ (Since(k, a) + 1) * PerToken = Since(k, a) * PerToken + PerToken
           /\ sent[k] \in Nat /\ before[k][a] \in Nat /\ a \in Nat
<1>1. sent[k] \in Nat /\ before[k][a] \in Nat /\ a \in Nat
    BY Parameters DEF LimiterTypeOK
<1> QED
    BY <1>1, Parameters DEF Since
-----------------------------------------------------------------------------
(* The bucket as a budget. *)

\* Filling it up to now spends nothing; a clock that went back only takes.
LEMMA RefillKeeps ==
    ASSUME LimiterTypeOK, NEW k \in Counted, RateUpToNow(k), BucketOnTop(k),
           NEW a \in 0 .. now, Since(k, a) # 0
    PROVE  Since(k, a) * PerToken + Higher(0, Refilled) <= Capacity + (now - a) * Refill
<1>0. Since(k, a) * PerToken + Higher(0, tokens) <= Capacity + (lastRefill + skew - a) * Refill
    BY DEF BucketOnTop
<1> DEFINE E == Since(k, a) * PerToken
           base == lastRefill + skew
<1>1. /\ a \in Nat /\ now \in Nat /\ skew \in Nat /\ Capacity \in Nat
      /\ tokens \in Int /\ lastRefill \in Int /\ base \in Int
    BY HeldInt, Parameters DEF LimiterTypeOK
<1>2. E \in Int /\ E <= Capacity + (now - a) * Refill
    BY CountInt DEF RateUpToNow
<1>3. E + Higher(0, tokens) <= Capacity + (base - a) * Refill
    <2>1. Since(k, a) * PerToken = E /\ lastRefill + skew = base
        OBVIOUS
    <2> HIDE DEF E, base
    <2> QED
        BY <1>0, <1>1, <1>2, <2>1
<1>4. Held = tokens + (now - base) * Refill
    <2>1. Wall - lastRefill = now - base
        BY <1>1 DEF Wall
    <2> QED
        BY <2>1 DEF Held
<1>5. Refilled \in Int /\ Refilled <= Held
    BY HeldInt
<1>6. /\ (now - a) * Refill = (now - base) * Refill + (base - a) * Refill
      /\ (now - a) * Refill \in Int /\ (now - base) * Refill \in Int
      /\ (base - a) * Refill \in Int
    <2> HIDE DEF base
    <2>1. now \in Int /\ base \in Int /\ a \in Int
        BY <1>1
    <2> QED
        BY <2>1, InflowSplits
<1> DEFINE i == (now - a) * Refill
           j == (now - base) * Refill
           l == (base - a) * Refill
<1> HIDE DEF E, base, i, j, l
<1>7. /\ E <= Capacity + i /\ E + Higher(0, tokens) <= Capacity + l /\ Held = tokens + j
      /\ i = j + l /\ i \in Int /\ j \in Int /\ l \in Int
    BY <1>2, <1>3, <1>4, <1>6 DEF i, j, l
<1>8. E + Higher(0, Refilled) <= Capacity + i
    BY <1>1, <1>2, <1>5, <1>7 DEF Higher
<1> QED
    BY <1>8 DEF E, i

\* What acquire() has to show for k: after it, at this moment, what k got and what is
\* in the bucket are within the inflow.
LEMMA AcquireKeeps ==
    ASSUME LimiterTypeOK, LimiterTypeOK', NEW k \in Counted, Keeping(k),
           UNCHANGED <<now, skew, before>>, lastRefill' = Wall,
           \A a \in 0 .. now :
               \/ sent'[k] - before[k][a] = 0
               \/ (sent'[k] - before[k][a]) * PerToken + Higher(0, tokens')
                      <= Capacity + (now - a) * Refill
    PROVE  Keeping(k)'
<1>1. RateBefore(k)'
    BY DEF Keeping, RateBefore
<1>2. now \in Nat /\ skew \in Nat /\ Wall + skew = now
    BY HeldInt DEF Wall
<1>3. BucketOnTop(k)'
    <2> SUFFICES ASSUME NEW a \in 0 .. now'
                 PROVE  \/ Since(k, a)' = 0
                        \/ Since(k, a)' * PerToken + Higher(0, tokens')
                               <= Capacity + (lastRefill' + skew' - a) * Refill
        BY DEF BucketOnTop, Higher, Capacity
    <2>1. lastRefill' + skew' - a = now - a /\ a \in 0 .. now
        <3>1. lastRefill' + skew' = now /\ now' = now /\ lastRefill' \in Int /\ skew' \in Int
            BY <1>2, HeldInt
        <3> QED
            BY <1>2, <3>1
    <2>2. Since(k, a)' = sent'[k] - before[k][a]
        BY DEF Since
    <2> QED
        BY <2>1, <2>2
<1>4. RateUpToNow(k)'
    <2> SUFFICES ASSUME NEW a \in 0 .. now
                 PROVE  (sent'[k] - before[k][a]) * PerToken <= Capacity + (now - a) * Refill
        BY DEF RateUpToNow, Since
    <2> DEFINE e == sent'[k] - before[k][a]
               i == (now - a) * Refill
    <2>1. e \in Int /\ e * PerToken \in Int
        <3>1. sent'[k] \in Nat
            BY DEF LimiterTypeOK, Counted
        <3> QED
            BY <3>1, CountInt, Parameters
    <2>2. i \in Nat /\ Capacity \in Nat /\ tokens' \in Int /\ PerToken \in Nat
        BY <1>2, InflowNat, Parameters DEF LimiterTypeOK
    <2>3. e = 0 \/ e * PerToken + Higher(0, tokens') <= Capacity + i
        OBVIOUS
    <2> HIDE DEF e, i
    <2>4. CASE e = 0
        BY <2>2, <2>4 DEF e, i
    <2>5. CASE e * PerToken + Higher(0, tokens') <= Capacity + i
        BY <2>1, <2>2, <2>5 DEF Higher, e, i
    <2> QED
        BY <2>3, <2>4, <2>5
<1> QED
    BY <1>1, <1>3, <1>4 DEF Keeping

\* A call that hands k nothing and leaves no more than the refilled bucket.
LEMMA OthersAcquire ==
    ASSUME LimiterTypeOK, LimiterTypeOK', NEW k \in Counted, Keeping(k),
           UNCHANGED <<now, skew, before>>, lastRefill' = Wall, sent'[k] = sent[k],
           Higher(0, tokens') <= Higher(0, Refilled)
    PROVE  Keeping(k)'
<1> SUFFICES ASSUME NEW a \in 0 .. now, Since(k, a) # 0
             PROVE  Since(k, a) * PerToken + Higher(0, tokens') <= Capacity + (now - a) * Refill
    BY AcquireKeeps DEF Since
<1>1. Since(k, a) * PerToken + Higher(0, Refilled) <= Capacity + (now - a) * Refill
    BY RefillKeeps DEF Keeping
<1>2. Higher(0, tokens') \in Int /\ Higher(0, Refilled) \in Int
    BY HeldInt DEF LimiterTypeOK, Higher
<1> DEFINE E == Since(k, a) * PerToken
           i == (now - a) * Refill
<1>3. E \in Int /\ i \in Int /\ Capacity \in Int
    BY CountInt, HeldInt, InflowSplits, Parameters
<1>4. E + Higher(0, Refilled) <= Capacity + i
    BY <1>1
<1> HIDE DEF E, i
<1>5. E + Higher(0, tokens') <= Capacity + i
    BY <1>2, <1>3, <1>4
<1> QED
    BY <1>5 DEF E, i

\* A token paid for out of the bucket.
LEMMA TokenPaid ==
    ASSUME LimiterTypeOK, LimiterTypeOK', NEW k \in Counted, Keeping(k),
           UNCHANGED <<now, skew, before>>, lastRefill' = Wall, sent'[k] = sent[k] + 1,
           Refilled >= PerToken, tokens' = Refilled - PerToken
    PROVE  Keeping(k)'
<1> SUFFICES ASSUME NEW a \in 0 .. now
             PROVE  (sent'[k] - before[k][a]) * PerToken + Higher(0, tokens')
                        <= Capacity + (now - a) * Refill
    BY AcquireKeeps
<1>1. /\ Since(k, a) * PerToken \in Int /\ Refilled \in Int /\ Refilled <= Capacity
      /\ (now - a) * Refill \in Nat /\ Capacity \in Nat /\ PerToken \in Nat
    BY CountInt, HeldInt, InflowNat, Parameters
<1>2. sent'[k] - before[k][a] = Since(k, a) + 1
    BY CountInt DEF Since
<1>3. (Since(k, a) + 1) * PerToken = Since(k, a) * PerToken + PerToken
    BY CountInt
<1>4. Higher(0, tokens') = Refilled - PerToken
    BY <1>1 DEF Higher
<1>5. CASE Since(k, a) = 0
    BY <1>1, <1>2, <1>4, <1>5
<1>6. CASE Since(k, a) # 0
    <2>1. Since(k, a) * PerToken + Higher(0, Refilled) <= Capacity + (now - a) * Refill
        BY <1>6, RefillKeeps DEF Keeping
    <2> QED
        BY <1>1, <1>2, <1>3, <1>4, <2>1 DEF Higher
<1> QED
    BY <1>5, <1>6

\* A token waited for: the bucket may lack some of it, the time slept makes up for it.
LEMMA TokenWaitedFor ==
    ASSUME LimiterTypeOK, LimiterTypeOK', NEW k \in Counted, NEW s \in Senders, Keeping(k),
           RoomAtWake(k, s), wakeAt[s] # Awake, wakeAt[s] <= now,
           UNCHANGED <<now, skew, before>>, lastRefill' = Wall, sent'[k] = sent[k] + 1,
           tokens' = Higher(0, Refilled - PerToken)
    PROVE  Keeping(k)'
<1>1. CASE Refilled >= PerToken
    <2>1. tokens' = Refilled - PerToken
        BY <1>1, HeldInt, Parameters DEF Higher
    <2> QED
        BY <1>1, <2>1, TokenPaid
<1>2. CASE Refilled < PerToken
    <2>1. Higher(0, tokens') = 0
        BY <1>2, HeldInt, Parameters DEF Higher
    <2> SUFFICES ASSUME NEW a \in 0 .. now
                 PROVE  (sent'[k] - before[k][a]) * PerToken <= Capacity + (now - a) * Refill
        <3>1. \A a \in 0 .. now : (sent'[k] - before[k][a]) * PerToken \in Int
            BY CountInt, Parameters
        <3> QED
            BY <2>1, <3>1, AcquireKeeps
    <2>2. sent'[k] - before[k][a] = Since(k, a) + 1
        BY CountInt DEF Since
    <2>3. CASE Since(k, a) = 0
        <3>1. (now - a) * Refill \in Nat
            BY InflowNat, HeldInt
        <3> QED
            BY <2>2, <2>3, <3>1, Parameters
    <2>4. CASE Since(k, a) # 0
        <3>1. (Since(k, a) + 1) * PerToken <= Capacity + (wakeAt[s] - a) * Refill
            BY <2>4 DEF RoomAtWake
        <3>2. wakeAt[s] \in Int /\ now \in Int /\ a \in Int
            BY HeldInt DEF LimiterTypeOK, Awake
        <3>3. (wakeAt[s] - a) * Refill <= (now - a) * Refill
            BY <3>2, InflowGrows
        <3>4. /\ (wakeAt[s] - a) * Refill \in Int /\ (now - a) * Refill \in Int
              /\ Capacity \in Int /\ (Since(k, a) + 1) * PerToken \in Int
            BY <3>2, InflowSplits, CountInt, Parameters
        <3> QED
            BY <2>2, <3>1, <3>3, <3>4
    <2> QED
        BY <2>3, <2>4
<1> QED
    BY <1>1, <1>2, HeldInt, Parameters

\* The delay computed at the call is long enough for the token that is missing.
LEMMA SleepMakesRoom ==
    ASSUME LimiterTypeOK, NEW k \in Counted, NEW s \in Senders, Sleep(s), Keeping(k)
    PROVE  RoomAtWake(k, s)'
<1> DEFINE d == Delay
<1>1. /\ Refilled \in Int /\ PerToken \in Nat /\ Refill \in Nat \ {0} /\ now \in Nat
      /\ Capacity \in Nat
    BY HeldInt, Parameters
<1>2. d \in Int /\ PerToken - Refilled <= d * Refill
    <2> DEFINE m == PerToken - Refilled + Refill - 1
    <2>1. m \in Int /\ d = m \div Refill
        BY <1>1 DEF Delay, CeilDiv
    <2>2. d \in Int /\ m < Refill * d + Refill
        BY <1>1, <2>1, DivBounds
    <2> HIDE DEF d
    <2> QED
        BY <1>1, <2>1, <2>2
<1> HIDE DEF d
<1>3. wakeAt'[s] = now + d /\ UNCHANGED <<now, sent, before>>
    BY DEF Sleep, LimiterTypeOK, d
<1> SUFFICES ASSUME NEW a \in 0 .. now', Since(k, a)' # 0
             PROVE  (Since(k, a)' + 1) * PerToken <= Capacity + (wakeAt'[s] - a) * Refill
    BY DEF RoomAtWake, Capacity
<1>9. a \in 0 .. now /\ Since(k, a)' = Since(k, a) /\ Since(k, a) # 0
    BY <1>3 DEF Since
<1>4. Since(k, a) * PerToken + Higher(0, Refilled) <= Capacity + (now - a) * Refill
    BY <1>9, RefillKeeps DEF Keeping
<1>5. (wakeAt'[s] - a) * Refill = d * Refill + (now - a) * Refill
    BY <1>1, <1>2, <1>3, <1>9
<1>6. /\ Since(k, a) * PerToken \in Int /\ (now - a) * Refill \in Int /\ d * Refill \in Int
      /\ (Since(k, a) + 1) * PerToken = Since(k, a) * PerToken + PerToken
    BY <1>1, <1>2, <1>9, CountInt, InflowSplits
<1>7. Since(k, a) * PerToken + Refilled <= Capacity + (now - a) * Refill
    BY <1>1, <1>4, <1>6 DEF Higher
<1>8. (Since(k, a) + 1) * PerToken <= Capacity + (wakeAt'[s] - a) * Refill
    BY <1>1, <1>2, <1>5, <1>6, <1>7
<1> QED
    BY <1>8, <1>9

\* A sleeper's room stays while nobody hands k anything.
LEMMA RoomStays ==
    ASSUME NEW k \in Counted, NEW s \in Senders, RoomAtWake(k, s), UNCHANGED <<now, before>>,
           sent'[k] = sent[k], wakeAt'[s] \in {Awake, wakeAt[s]}
    PROVE  RoomAtWake(k, s)'
BY DEF RoomAtWake, Since
-----------------------------------------------------------------------------
(* Every step. *)

LEMMA Keys == /\ \A s \in Senders : s \in Counted /\ s # Everybody
              /\ Everybody \in Counted
BY LimiterAssumption DEF Counted

LEMMA InitRate == LimiterInit => RateInv
<1> SUFFICES ASSUME LimiterInit PROVE RateInv
    OBVIOUS
<1>1. now = 0 /\ \A k \in Counted : Since(k, 0) = 0
    BY Parameters DEF LimiterInit, Since
<1>2. \A k \in Counted : Keeping(k)
    <2> SUFFICES ASSUME NEW k \in Counted PROVE Keeping(k)
        OBVIOUS
    <2>1. RateUpToNow(k)
        BY <1>1, Parameters DEF RateUpToNow
    <2>2. RateBefore(k) /\ BucketOnTop(k)
        BY <1>1 DEF RateBefore, BucketOnTop
    <2> QED
        BY <2>1, <2>2 DEF Keeping
<1>3. \A s \in Senders : wakeAt[s] = Awake
    BY DEF LimiterInit
<1> QED
    BY <1>2, <1>3, Keys DEF RateInv, SenderInv, EverybodyInv, OneSleeper, RoomAtWake

\* What a tick does to the counts.
LEMMA TickCounts ==
    ASSUME LimiterTypeOK, LimiterTypeOK', Tick, NEW k \in Counted
    PROVE  /\ now \in Nat /\ now' = now + 1 /\ 0 .. now' = (0 .. now) \cup {now + 1}
           /\ before'[k][now + 1] = sent[k]
           /\ \A a \in 0 .. now : before'[k][a] = before[k][a]
           /\ \A a \in 0 .. now' :
                  /\ Since(k, a)' # 0 => a \in 0 .. now
                  /\ a \in 0 .. now => Since(k, a)' = Since(k, a)
<1>1. /\ now \in Nat /\ now' = now + 1 /\ now + 1 \in 0 .. MaxTime /\ sent' = sent
    BY HeldInt DEF Tick, LimiterTypeOK
<1>2. before'[k] = [before[k] EXCEPT ![now + 1] = sent[k]]
    BY DEF Tick
<1>3. before[k] \in [0 .. MaxTime -> Nat] /\ sent[k] \in Nat
    BY DEF LimiterTypeOK
<1>4. /\ before'[k][now + 1] = sent[k]
      /\ \A a \in 0 .. now : before'[k][a] = before[k][a]
    BY <1>1, <1>2, <1>3, Parameters
<1>5. ASSUME NEW a \in 0 .. now'
      PROVE  /\ Since(k, a)' # 0 => a \in 0 .. now
             /\ a \in 0 .. now => Since(k, a)' = Since(k, a)
    <2>1. CASE a = now + 1
        <3>1. sent'[k] - before'[k][a] = 0
            BY <1>1, <1>3, <1>4, <2>1
        <3> QED
            BY <1>1, <2>1, <3>1 DEF Since
    <2>2. CASE a \in 0 .. now
        BY <1>1, <1>4, <2>2 DEF Since
    <2> QED
        BY <1>1, <2>1, <2>2
<1> QED
    BY <1>1, <1>4, <1>5

\* Time passes: the stretch that ended joins those before it, a new one begins empty.
LEMMA TickKeeps ==
    ASSUME LimiterTypeOK, LimiterTypeOK', Tick, NEW k \in Counted, Keeping(k)
    PROVE  Keeping(k)'
<1>1. /\ now \in Nat /\ now' = now + 1 /\ 0 .. now' = (0 .. now) \cup {now + 1}
      /\ UNCHANGED <<skew, tokens, lastRefill, sent>>
    BY TickCounts DEF Tick
<1>2. /\ before'[k][now + 1] = sent[k]
      /\ \A a \in 0 .. now : before'[k][a] = before[k][a]
    BY TickCounts
<1>3. \A a \in 0 .. now' : /\ Since(k, a)' # 0 => a \in 0 .. now
                           /\ a \in 0 .. now => Since(k, a)' = Since(k, a)
    BY TickCounts
<1>5. RateUpToNow(k)'
    <2> SUFFICES ASSUME NEW a \in 0 .. now'
                 PROVE  Since(k, a)' * PerToken <= Capacity + (now' - a) * Refill
        BY DEF RateUpToNow, Capacity
    <2>1. CASE a = now + 1
        <3>1. a \notin 0 .. now /\ now' - a = 0
            BY <1>1, <2>1
        <3>2. Since(k, a)' = 0
            BY <1>3, <3>1
        <3> QED
            BY <3>1, <3>2, Parameters
    <2>2. CASE a \in 0 .. now
        <3>1. Since(k, a) * PerToken <= Capacity + (now - a) * Refill
            BY <2>2 DEF Keeping, RateUpToNow
        <3>2. now \in Int /\ now' \in Int /\ a \in Int /\ now <= now'
            BY <1>1, <2>2
        <3>3. (now - a) * Refill <= (now' - a) * Refill
            BY <3>2, InflowGrows
        <3>4. /\ (now - a) * Refill \in Int /\ (now' - a) * Refill \in Int
              /\ Capacity \in Int /\ Since(k, a) * PerToken \in Int
            BY <2>2, <3>2, InflowSplits, CountInt, Parameters
        <3> QED
            BY <1>3, <2>2, <3>1, <3>3, <3>4
    <2> QED
        BY <1>1, <2>1, <2>2
<1>6. RateBefore(k)'
    <2> SUFFICES ASSUME NEW a \in 0 .. now', NEW b \in 0 .. now', a <= b, b < now'
                 PROVE  (before'[k][b + 1] - before'[k][a]) * PerToken
                            <= Capacity + (b - a) * Refill
        BY DEF RateBefore, Capacity
    <2>1. a \in 0 .. now /\ b \in 0 .. now
        BY <1>1
    <2>2. CASE b = now
        <3>1. before'[k][b + 1] - before'[k][a] = Since(k, a)
            BY <1>2, <2>1, <2>2 DEF Since
        <3> QED
            BY <2>1, <2>2, <3>1 DEF Keeping, RateUpToNow
    <2>3. CASE b < now
        <3>1. before'[k][b + 1] = before[k][b + 1] /\ before'[k][a] = before[k][a]
            BY <1>1, <1>2, <2>1, <2>3
        <3> QED
            BY <2>1, <2>3, <3>1 DEF Keeping, RateBefore
    <2> QED
        BY <1>1, <2>1, <2>2, <2>3
<1>7. BucketOnTop(k)'
    <2> SUFFICES ASSUME NEW a \in 0 .. now', Since(k, a)' # 0
                 PROVE  Since(k, a)' * PerToken + Higher(0, tokens')
                            <= Capacity + (lastRefill' + skew' - a) * Refill
        BY DEF BucketOnTop, Capacity, Higher
    <2>1. a \in 0 .. now /\ Since(k, a)' = Since(k, a)
        BY <1>3
    <2>2. Since(k, a) * PerToken + Higher(0, tokens) <= Capacity + (lastRefill + skew - a) * Refill
        BY <2>1 DEF Keeping, BucketOnTop
    <2> QED
        BY <1>1, <2>1, <2>2
<1> QED
    BY <1>5, <1>6, <1>7 DEF Keeping

\* A clock set back: what the bucket was filled up to lies further ahead.
LEMMA SetBackKeeps ==
    ASSUME LimiterTypeOK, SetBack, NEW k \in Counted, Keeping(k)
    PROVE  Keeping(k)'
<1>1. /\ skew' = skew + 1 /\ skew \in Nat
      /\ UNCHANGED <<now, tokens, lastRefill, sent, before>>
    BY HeldInt DEF SetBack
<1>2. RateUpToNow(k)' /\ RateBefore(k)'
    BY <1>1 DEF Keeping, RateUpToNow, RateBefore, Since
<1>3. BucketOnTop(k)'
    <2> SUFFICES ASSUME NEW a \in 0 .. now', Since(k, a)' # 0
                 PROVE  Since(k, a)' * PerToken + Higher(0, tokens')
                            <= Capacity + (lastRefill' + skew' - a) * Refill
        BY DEF BucketOnTop, Capacity, Higher
    <2> DEFINE old == lastRefill + skew
               new == lastRefill' + skew'
    <2>1. a \in 0 .. now /\ Since(k, a)' = Since(k, a) /\ tokens' = tokens
        BY <1>1 DEF Since
    <2>2. old \in Int /\ new \in Int /\ a \in Int /\ old <= new
        BY <1>1, <2>1 DEF LimiterTypeOK
    <2>0. Since(k, a) * PerToken + Higher(0, tokens) <= Capacity + (lastRefill + skew - a) * Refill
        BY <2>1 DEF Keeping, BucketOnTop
    <2>7. old = lastRefill + skew /\ new = lastRefill' + skew'
        OBVIOUS
    <2> HIDE DEF old, new
    <2>3. Since(k, a) * PerToken + Higher(0, tokens) <= Capacity + (old - a) * Refill
        <3>1. lastRefill \in Int /\ skew \in Int /\ Since(k, a) * PerToken \in Int
            BY <1>1, <2>1, CountInt DEF LimiterTypeOK
        <3> QED
            BY <2>0, <2>2, <2>7, <3>1
    <2>4. (old - a) * Refill <= (new - a) * Refill
        BY <2>2, InflowGrows
    <2>5. /\ (old - a) * Refill \in Int /\ (new - a) * Refill \in Int /\ Capacity \in Int
          /\ Since(k, a) * PerToken \in Int /\ Higher(0, tokens) \in Int
        BY <2>1, <2>2, InflowSplits, CountInt, Parameters DEF LimiterTypeOK, Higher
    <2>6. Since(k, a)' * PerToken + Higher(0, tokens') <= Capacity + (new - a) * Refill
        BY <2>1, <2>3, <2>4, <2>5
    <2>8. lastRefill' \in Int /\ skew' \in Int
        BY <1>1 DEF LimiterTypeOK
    <2> QED
        BY <2>2, <2>5, <2>6, <2>7, <2>8
<1> QED
    BY <1>2, <1>3 DEF Keeping

\* Room at the waking of s outlives every step that does not wake s or hand k a token.
LEMMA RoomThroughTick ==
    ASSUME LimiterTypeOK, LimiterTypeOK', Tick, NEW k \in Counted, NEW s \in Senders,
           RoomAtWake(k, s)
    PROVE  RoomAtWake(k, s)'
<1>1. wakeAt' = wakeAt
    BY DEF Tick
<1> SUFFICES ASSUME NEW a \in 0 .. now', Since(k, a)' # 0, wakeAt'[s] # Awake
             PROVE  (Since(k, a)' + 1) * PerToken <= Capacity + (wakeAt'[s] - a) * Refill
    BY DEF RoomAtWake, Capacity
<1>4. a \in 0 .. now /\ Since(k, a)' = Since(k, a)
    BY TickCounts
<1>5. (Since(k, a) + 1) * PerToken <= Capacity + (wakeAt[s] - a) * Refill
    BY <1>1, <1>4 DEF RoomAtWake
<1> QED
    BY <1>1, <1>4, <1>5

\* What the three steps of acquire() have in common.
LEMMA AcquireFrame ==
    ASSUME LimiterTypeOK, NEW s \in Senders, Take(s) \/ Sleep(s) \/ Wake(s)
    PROVE  /\ UNCHANGED <<now, skew, before>> /\ lastRefill' = Wall
           /\ \A r \in Senders : r # s => /\ wakeAt'[r] = wakeAt[r]
                                          /\ sent'[r] = sent[r]
<1>1. \A r \in Senders : r # s => sent'[r] = sent[r]
    BY Keys, HandedOut DEF Take, Sleep, Wake
<1> QED
    BY <1>1 DEF Take, Sleep, Wake, LimiterTypeOK

LEMMA TakeRate ==
    ASSUME LimiterTypeOK, LimiterTypeOK', RateInv, NEW s \in Senders, Take(s)
    PROVE  RateInv'
<1>1. /\ Refilled >= PerToken /\ tokens' = Refilled - PerToken
      /\ wakeAt' = wakeAt /\ wakeAt[s] = Awake /\ Asks
    BY DEF Take
<1>2. \A k \in {s, Everybody} : sent'[k] = sent[k] + 1
    BY Keys, HandedOut DEF Take
<1>3. Higher(0, tokens') <= Higher(0, Refilled)
    BY <1>1, HeldInt, Parameters DEF Higher
<1>4. SenderInv'
    <2> SUFFICES ASSUME NEW r \in Senders PROVE Keeping(r)' /\ RoomAtWake(r, r)'
        BY DEF SenderInv
    <2>1. CASE r = s
        BY <1>1, <1>2, <2>1, Keys, AcquireFrame, TokenPaid
           DEF RateInv, SenderInv, RoomAtWake
    <2>2. CASE r # s
        BY <1>1, <1>3, <2>2, Keys, AcquireFrame, OthersAcquire, RoomStays
           DEF RateInv, SenderInv
    <2> QED
        BY <2>1, <2>2
<1>5. EverybodyInv'
    <2> SUFFICES ASSUME ~ crowded'
                 PROVE  /\ Keeping(Everybody)'
                        /\ \A r \in Senders : wakeAt'[r] = Awake
        BY DEF EverybodyInv, OneSleeper, RoomAtWake
    <2>1. ~ crowded /\ \A r \in Senders : wakeAt[r] = Awake
        BY <1>1 DEF Asks
    <2>2. Keeping(Everybody)'
        BY <1>1, <1>2, <2>1, Keys, AcquireFrame, TokenPaid DEF RateInv, EverybodyInv
    <2> QED
        BY <1>1, <2>1, <2>2
<1> QED
    BY <1>4, <1>5 DEF RateInv

LEMMA SleepRate ==
    ASSUME LimiterTypeOK, LimiterTypeOK', RateInv, NEW s \in Senders, Sleep(s)
    PROVE  RateInv'
<1>1. /\ tokens' = Refilled /\ sent' = sent /\ Asks
      /\ \A r \in Senders : r # s => wakeAt'[r] = wakeAt[r]
    BY AcquireFrame DEF Sleep
<1>2. Higher(0, tokens') <= Higher(0, Refilled)
    BY <1>1, HeldInt DEF Higher
<1>3. \A k \in Counted : Keeping(k) => Keeping(k)' /\ RoomAtWake(k, s)'
    BY <1>1, <1>2, AcquireFrame, OthersAcquire, SleepMakesRoom
<1>4. SenderInv'
    <2> SUFFICES ASSUME NEW r \in Senders PROVE Keeping(r)' /\ RoomAtWake(r, r)'
        BY DEF SenderInv
    <2>1. CASE r = s
        BY <1>3, <2>1, Keys DEF RateInv, SenderInv
    <2>2. CASE r # s
        BY <1>1, <1>3, <2>2, Keys, AcquireFrame, RoomStays DEF RateInv, SenderInv
    <2> QED
        BY <2>1, <2>2
<1>5. EverybodyInv'
    <2> SUFFICES ASSUME ~ crowded'
                 PROVE  /\ Keeping(Everybody)' /\ RoomAtWake(Everybody, s)'
                        /\ \A r \in Senders : r # s => wakeAt'[r] = Awake
        BY DEF EverybodyInv, OneSleeper, RoomAtWake
    <2>1. ~ crowded /\ \A r \in Senders : wakeAt[r] = Awake
        BY <1>1 DEF Asks
    <2> QED
        BY <1>1, <1>3, <2>1, Keys DEF RateInv, EverybodyInv
<1> QED
    BY <1>4, <1>5 DEF RateInv

LEMMA WakeRate ==
    ASSUME LimiterTypeOK, LimiterTypeOK', RateInv, NEW s \in Senders, Wake(s)
    PROVE  RateInv'
<1>1. /\ tokens' = Higher(0, Refilled - PerToken) /\ wakeAt[s] # Awake /\ wakeAt[s] <= now
      /\ wakeAt'[s] = Awake /\ crowded' = crowded
    BY DEF Wake, LimiterTypeOK
<1>2. \A k \in {s, Everybody} : sent'[k] = sent[k] + 1
    BY Keys, HandedOut DEF Wake
<1>3. Higher(0, tokens') <= Higher(0, Refilled)
    BY <1>1, HeldInt, Parameters DEF Higher
<1>4. SenderInv'
    <2> SUFFICES ASSUME NEW r \in Senders PROVE Keeping(r)' /\ RoomAtWake(r, r)'
        BY DEF SenderInv
    <2>1. CASE r = s
        BY <1>1, <1>2, <2>1, Keys, AcquireFrame, TokenWaitedFor
           DEF RateInv, SenderInv, RoomAtWake
    <2>2. CASE r # s
        BY <1>3, <2>2, Keys, AcquireFrame, OthersAcquire, RoomStays
           DEF RateInv, SenderInv
    <2> QED
        BY <2>1, <2>2
<1>5. EverybodyInv'
    <2> SUFFICES ASSUME ~ crowded
                 PROVE  /\ Keeping(Everybody)'
                        /\ \A r \in Senders : wakeAt'[r] = Awake
        BY <1>1 DEF EverybodyInv, OneSleeper, RoomAtWake
    <2>1. Keeping(Everybody)'
        BY <1>1, <1>2, Keys, AcquireFrame, TokenWaitedFor DEF RateInv, EverybodyInv
    <2>2. \A r \in Senders : r # s => wakeAt[r] = Awake
        BY <1>1 DEF RateInv, EverybodyInv, OneSleeper
    <2> QED
        BY <1>1, <2>1, <2>2, AcquireFrame
<1> QED
    BY <1>4, <1>5 DEF RateInv

LEMMA ClockRate ==
    ASSUME LimiterTypeOK, LimiterTypeOK', RateInv, Tick \/ SetBack
    PROVE  RateInv'
<1>1. /\ UNCHANGED <<wakeAt, crowded, sent>>
      /\ \A k \in Counted : Keeping(k) => Keeping(k)'
    BY TickKeeps, SetBackKeeps DEF Tick, SetBack
<1>2. \A k \in Counted, s \in Senders : RoomAtWake(k, s) => RoomAtWake(k, s)'
    <2> SUFFICES ASSUME NEW k \in Counted, NEW s \in Senders, RoomAtWake(k, s)
                 PROVE  RoomAtWake(k, s)'
        OBVIOUS
    <2>1. CASE Tick
        BY <2>1, RoomThroughTick
    <2>2. CASE SetBack
        BY <2>2, RoomStays DEF SetBack
    <2> QED
        BY <2>1, <2>2
<1>3. SenderInv'
    BY <1>1, <1>2, Keys DEF RateInv, SenderInv
<1>4. EverybodyInv'
    BY <1>1, <1>2, Keys DEF RateInv, EverybodyInv, OneSleeper
<1> QED
    BY <1>3, <1>4 DEF RateInv

LEMMA RateInvariant == LimiterSpec => [](LimiterTypeOK /\ RateInv)
<1>1. LimiterTypeOK /\ LimiterTypeOK' /\ RateInv /\ [LimiterNext]_limiterVars => RateInv'
    <2> SUFFICES ASSUME LimiterTypeOK, LimiterTypeOK', RateInv, [LimiterNext]_limiterVars
                 PROVE  RateInv'
        OBVIOUS
    <2>1. CASE UNCHANGED limiterVars
        BY <2>1 DEF limiterVars, RateInv, SenderInv, EverybodyInv, OneSleeper, RoomAtWake,
           Keeping, RateUpToNow, RateBefore, BucketOnTop, Since
    <2> QED
        BY <2>1, ClockRate, TakeRate, SleepRate, WakeRate DEF LimiterNext
<1>2. WaitInv => LimiterTypeOK
    BY DEF WaitInv
<1> QED
    BY <1>1, <1>2, InitRate, WaitInvariant, PTL DEF LimiterSpec

\* The counts of the invariant are those the property speaks of.
LEMMA KeepingMeans ==
    ASSUME LimiterTypeOK, NEW k \in Counted, Keeping(k)
    PROVE  KeepsTheRate(k)
<1> SUFFICES ASSUME NEW a \in 0 .. now, NEW b \in 0 .. now, a <= b
             PROVE  GotIn(k, a, b) * PerToken <= Capacity + (b - a) * Refill
    BY DEF KeepsTheRate
<1>1. CASE b = now
    BY <1>1 DEF Keeping, RateUpToNow, Since, GotIn
<1>2. CASE b # now
    <2>1. b < now
        BY <1>2, HeldInt
    <2> QED
        BY <1>2, <2>1 DEF Keeping, RateBefore, GotIn
<1> QED
    BY <1>1, <1>2

\* acquire() keeps the rate over every stretch of time: for all handlers together until two
\* of them want a token at once, for each handler alone always; neither late timers nor a
\* clock set back change that.
THEOREM TheRateIsKept == LimiterSpec => []RateBound
<1>1. LimiterTypeOK /\ RateInv => RateBound
    BY Keys, KeepingMeans DEF RateInv, SenderInv, EverybodyInv, RateBound
<1> QED
    BY <1>1, RateInvariant, PTL

-----------------------------------------------------------------------------
(* The device store, for any number of overlapping saves, of pre-keys and of  *)
(* crashes.  That the counter is ahead of the keys is a fact about one copy,  *)
(* so the inductive invariant says that every place a copy can be in holds a  *)
(* sound one; changes keep it sound, and everything else moves copies around. *)

Sound == {c \in Contents : \A k \in c.keys : k < c.next}

SoundFiles  == {Absent} \cup {Whole(c) : c \in Sound} \cup {Torn(n) : n \in 0 .. MaxKey + MaxRest + 1}
SoundSavers == {Idle, Asked} \cup {Holds(c) : c \in Sound} \cup {Opened(c) : c \in Sound}

SoundInv == /\ proc \in {"down", "creating", "up"}
            /\ mode \in {"memory", "data", "file"}
            /\ callback \in BOOLEAN
            /\ mem \in Sound
            /\ saver \in [Savers -> SoundSavers]
            /\ own \in SoundFiles
            /\ given \in SoundFiles
            /\ events \in Seq(Sound)
            /\ devices \in 1 .. MaxDevices
            /\ firstOwn \in 0 .. MaxDevices
            /\ unread \in BOOLEAN
            /\ \A s \in Savers : saver[s].pc = "opened" => own.kind # "absent"
-----------------------------------------------------------------------------
(* Contents, files and saves. *)

LEMMA FreshIsSound ==
    ASSUME NEW d \in 1 .. MaxDevices
    PROVE  Fresh(d) \in Sound
BY StoreAssumption DEF Fresh, Sound, Contents

LEMMA SizeBound ==
    ASSUME NEW c \in Contents
    PROVE  Size(c) \in 0 .. MaxKey + MaxRest + 1
<1>1. c.keys \in SUBSET (1 .. MaxKey) /\ c.rest \in 0 .. MaxRest
    BY DEF Contents
<1>2. IsFiniteSet(1 .. MaxKey) /\ Cardinality(1 .. MaxKey) = MaxKey
    BY FS_Interval, StoreAssumption
<1>3. IsFiniteSet(c.keys) /\ Cardinality(c.keys) <= MaxKey
    BY <1>1, <1>2, FS_Subset
<1>4. Cardinality(c.keys) \in Nat
    BY <1>3, FS_CardinalityType
<1> QED
    BY <1>1, <1>3, <1>4, StoreAssumption DEF Size

LEMMA WholeIsSound ==
    ASSUME NEW f \in SoundFiles, f.kind = "whole"
    PROVE  f.data \in Sound /\ f = Whole(f.data)
BY DEF SoundFiles, Absent, Whole, Torn

LEMMA TornLength ==
    ASSUME NEW f \in SoundFiles, f.kind = "torn"
    PROVE  f.len \in 0 .. MaxKey + MaxRest + 1
BY DEF SoundFiles, Absent, Whole, Torn

LEMMA LengthBound ==
    ASSUME NEW f \in SoundFiles, f.kind # "absent"
    PROVE  Length(f) \in 0 .. MaxKey + MaxRest + 1
<1>1. CASE f.kind = "torn"
    BY <1>1, TornLength DEF Length
<1>2. CASE f.kind = "whole"
    BY <1>2, WholeIsSound, SizeBound DEF Length, Sound
<1> QED
    BY <1>1, <1>2 DEF SoundFiles, Absent, Whole, Torn

LEMMA OverwriteIsSound ==
    ASSUME NEW f \in SoundFiles, f.kind # "absent", NEW c \in Sound
    PROVE  Overwrite(f, c) \in SoundFiles
BY LengthBound DEF Overwrite, SoundFiles

LEMMA SaverHolds ==
    ASSUME NEW x \in SoundSavers, x.pc \in {"holds", "opened"}
    PROVE  x.data \in Sound
BY DEF SoundSavers, Idle, Asked, Holds, Opened
-----------------------------------------------------------------------------
LEMMA InitSound == StoreInit => SoundInv
<1> SUFFICES ASSUME StoreInit PROVE SoundInv
    OBVIOUS
<1>1. 1 \in 1 .. MaxDevices
    BY StoreAssumption
<1>2. Fresh(1) \in Sound
    BY <1>1, FreshIsSound
<1>3. Absent \in SoundFiles /\ Whole(Fresh(1)) \in SoundFiles /\ Idle \in SoundSavers
    BY <1>2 DEF SoundFiles, SoundSavers
<1>4. own \in SoundFiles /\ given \in SoundFiles /\ mem \in Sound
    BY <1>2, <1>3 DEF StoreInit
<1>5. saver \in [Savers -> SoundSavers]
    BY <1>3 DEF StoreInit
<1>6. events \in Seq(Sound)
    BY DEF StoreInit
<1>7. callback \in BOOLEAN /\ proc \in {"down", "creating", "up"}
    BY DEF StoreInit
<1>8. mode \in {"memory", "data", "file"}
    BY DEF StoreInit
<1>9. devices \in 1 .. MaxDevices /\ firstOwn \in 0 .. MaxDevices
    BY StoreAssumption DEF StoreInit
<1>10. unread \in BOOLEAN
    BY DEF StoreInit
<1>11. \A s \in Savers : saver[s].pc # "opened"
    BY DEF StoreInit, Idle
<1> QED
    BY <1>4, <1>5, <1>6, <1>7, <1>8, <1>9, <1>10, <1>11 DEF SoundInv

LEMMA CreateSound ==
    ASSUME SoundInv, Create
    PROVE  devices' \in 1 .. MaxDevices /\ mem' \in Sound
<1>1. devices' \in 1 .. MaxDevices
    BY StoreAssumption DEF SoundInv, Create
<1> QED
    BY <1>1, FreshIsSound DEF Create

\* The changes of the maps.
LEMMA RecountedIsSound ==
    ASSUME NEW c \in Contents, NEW K \in SUBSET (1 .. MaxKey), NEW m \in 1 .. MaxKey + 1,
           \A k \in K : k < m
    PROVE  [c EXCEPT !.keys = K, !.next = m] \in Sound
BY DEF Sound, Contents

LEMMA GeneratedIsSound ==
    ASSUME NEW c \in Sound, NEW n \in 1 .. MaxKey, c.next + n <= MaxKey + 1
    PROVE  [c EXCEPT !.keys = @ \cup c.next .. c.next + n - 1, !.next = @ + n] \in Sound
<1> DEFINE K == c.keys \cup c.next .. c.next + n - 1
           m == c.next + n
<1>1. /\ c \in Contents /\ c.keys \in SUBSET (1 .. MaxKey) /\ c.next \in 1 .. MaxKey + 1
      /\ \A k \in c.keys : k < c.next
    BY DEF Sound, Contents
<1>2. K \in SUBSET (1 .. MaxKey) /\ m \in 1 .. MaxKey + 1
    BY <1>1, StoreAssumption
<1>3. \A k \in K : k < m
    BY <1>1, StoreAssumption
<1>4. [c EXCEPT !.keys = K, !.next = m] \in Sound
    <2> HIDE DEF K, m
    <2> QED
        BY <1>1, <1>2, <1>3, RecountedIsSound
<1> QED
    BY <1>4

LEMMA RemovedIsSound ==
    ASSUME NEW c \in Sound, NEW k \in 1 .. MaxKey
    PROVE  [c EXCEPT !.keys = @ \ {k}] \in Sound
BY DEF Sound, Contents

LEMMA PutIsSound ==
    ASSUME NEW c \in Sound, NEW size \in 0 .. MaxRest
    PROVE  [c EXCEPT !.rest = size] \in Sound
BY DEF Sound, Contents

LEMMA ChangeSound ==
    ASSUME SoundInv, NEW c \in Sound, Change(c)
    PROVE  SoundInv'
<1>1. Asked \in SoundSavers
    BY DEF SoundSavers
<1>2. saver' \in [Savers -> SoundSavers]
    BY <1>1 DEF SoundInv, Change, GoSave
<1>3. mem' \in Sound
    BY DEF Change
<1>4. \A s \in Savers : saver'[s].pc = "opened" => saver[s].pc = "opened"
    BY DEF Change, GoSave, Asked, SoundInv
<1> QED
    BY <1>2, <1>3, <1>4 DEF SoundInv, Change
-----------------------------------------------------------------------------
LEMMA StepSound == SoundInv /\ [StoreNext]_storeVars => SoundInv'
<1> SUFFICES ASSUME SoundInv, [StoreNext]_storeVars PROVE SoundInv'
    OBVIOUS
<1>1. Torn(0) \in SoundFiles /\ Torn(0).kind = "torn"
    BY StoreAssumption DEF SoundFiles, Torn
<1>2. CASE StartInMemory
    <2>1. callback' \in BOOLEAN
        BY <1>2 DEF StartInMemory, Handed
    <2>2. devices' \in 1 .. MaxDevices /\ mem' \in Sound
        BY <1>2, CreateSound DEF StartInMemory
    <2> QED
        BY <1>2, <2>1, <2>2 DEF StartInMemory, SoundInv
<1>3. CASE StartFromData
    <2>1. callback' \in BOOLEAN
        BY <1>3 DEF StartFromData
    <2>2. mem' \in Sound
        BY <1>3, WholeIsSound DEF StartFromData, SoundInv
    <2> QED
        BY <1>3, <2>1, <2>2 DEF StartFromData, SoundInv
<1>4. CASE Load
    <2>1. callback' \in BOOLEAN
        BY <1>4 DEF Load, StartFromFile
    <2>2. mem' \in Sound
        BY <1>4, WholeIsSound DEF Load, SoundInv
    <2> QED
        BY <1>4, <2>1, <2>2 DEF Load, StartFromFile, SoundInv
<1>5. CASE CreateFile
    <2>1. callback' \in BOOLEAN
        BY <1>5 DEF CreateFile, StartFromFile
    <2>2. devices' \in 1 .. MaxDevices /\ mem' \in Sound
        BY <1>5, CreateSound DEF CreateFile
    <2>3. firstOwn' \in 0 .. MaxDevices
        BY <1>5, <2>2 DEF CreateFile, SoundInv
    <2>4. unread' \in BOOLEAN
        BY <1>5 DEF CreateFile
    <2> QED
        BY <1>1, <1>5, <2>1, <2>2, <2>3, <2>4 DEF CreateFile, StartFromFile, SoundInv
<1>6. CASE FileCreated
    <2>1. own' \in SoundFiles /\ own'.kind = "whole"
        BY <1>6 DEF FileCreated, SoundFiles, SoundInv, Whole
    <2> QED
        BY <1>6, <2>1 DEF FileCreated, SoundInv
<1>7. CASE \E n \in 1 .. MaxKey : GenPreKeys(n)
    <2>1. PICK n \in 1 .. MaxKey : GenPreKeys(n)
        BY <1>7
    <2>2. [mem EXCEPT !.keys = @ \cup mem.next .. mem.next + n - 1, !.next = @ + n] \in Sound
        BY <2>1, GeneratedIsSound DEF GenPreKeys, SoundInv
    <2> QED
        BY <2>1, <2>2, ChangeSound DEF GenPreKeys
<1>8. CASE \E k \in 1 .. MaxKey : RemovePreKey(k)
    <2>1. PICK k \in 1 .. MaxKey : RemovePreKey(k)
        BY <1>8
    <2>2. [mem EXCEPT !.keys = @ \ {k}] \in Sound
        BY RemovedIsSound DEF SoundInv
    <2> QED
        BY <2>1, <2>2, ChangeSound DEF RemovePreKey
<1>9. CASE \E size \in 0 .. MaxRest : Put(size)
    <2>1. PICK size \in 0 .. MaxRest : Put(size)
        BY <1>9
    <2>2. [mem EXCEPT !.rest = size] \in Sound
        BY PutIsSound DEF SoundInv
    <2> QED
        BY <2>1, <2>2, ChangeSound DEF Put
<1>10. CASE \E s \in Savers : Snapshot(s)
    <2>1. PICK s \in Savers : Snapshot(s)
        BY <1>10
    <2>2. Holds(mem) \in SoundSavers /\ Idle \in SoundSavers
        BY DEF SoundSavers, SoundInv
    <2>3. saver' \in [Savers -> SoundSavers]
        BY <2>1, <2>2 DEF Snapshot, SoundInv
    <2>4. \A x \in Savers : saver'[x].pc = "opened" => saver[x].pc = "opened"
        BY <2>1 DEF Snapshot, Holds, Idle, SoundInv
    <2> QED
        BY <2>1, <2>3, <2>4 DEF Snapshot, SoundInv
<1>11. CASE \E s \in Savers : OpenFile(s)
    <2>1. PICK s \in Savers : OpenFile(s)
        BY <1>11
    <2>2. saver[s].data \in Sound
        BY <2>1, SaverHolds DEF OpenFile, SoundInv
    <2>3. Opened(saver[s].data) \in SoundSavers
        BY <2>2 DEF SoundSavers
    <2>4. saver' \in [Savers -> SoundSavers]
        BY <2>1, <2>3 DEF OpenFile, SoundInv
    <2> QED
        BY <1>1, <2>1, <2>4 DEF OpenFile, SoundInv
<1>12. CASE \E s \in Savers : WriteFile(s)
    <2>1. PICK s \in Savers : WriteFile(s)
        BY <1>12
    <2>2. saver[s].data \in Sound /\ own.kind # "absent"
        BY <2>1, SaverHolds DEF WriteFile, SoundInv
    <2>3. own' \in SoundFiles
        BY <2>1, <2>2, OverwriteIsSound DEF WriteFile, SoundInv
    <2>4. own'.kind # "absent"
        BY <2>1 DEF WriteFile, Overwrite, Whole, Torn
    <2>5. saver' \in [Savers -> SoundSavers]
        BY <2>1 DEF WriteFile, SoundInv, SoundSavers
    <2> QED
        BY <2>1, <2>3, <2>4, <2>5 DEF WriteFile, SoundInv
<1>13. CASE \E s \in Savers : Raise(s)
    <2>1. PICK s \in Savers : Raise(s)
        BY <1>13
    <2>2. saver[s].data \in Sound
        BY <2>1, SaverHolds DEF Raise, SoundInv
    <2>3. events' \in Seq(Sound)
        BY <2>1, <2>2 DEF Raise, SoundInv
    <2>4. saver' \in [Savers -> SoundSavers]
        BY <2>1 DEF Raise, SoundInv, SoundSavers
    <2>5. \A x \in Savers : saver'[x].pc = "opened" => saver[x].pc = "opened"
        BY <2>1 DEF Raise, Idle, SoundInv
    <2> QED
        BY <2>1, <2>3, <2>4, <2>5 DEF Raise, SoundInv
<1>14. CASE AdapterWrites
    <2>1. Head(events) \in Sound /\ events' \in Seq(Sound)
        BY <1>14 DEF AdapterWrites, SoundInv
    <2>2. given' \in SoundFiles
        BY <1>14, <2>1 DEF AdapterWrites, SoundFiles
    <2> QED
        BY <1>14, <2>1, <2>2 DEF AdapterWrites, SoundInv
<1>15. CASE Crash
    <2>1. events' \in Seq(Sound)
        BY <1>15 DEF Crash
    <2>2. saver' \in [Savers -> SoundSavers] /\ \A s \in Savers : saver'[s].pc # "opened"
        BY <1>15 DEF Crash, SoundSavers, Idle
    <2>3. given' \in SoundFiles
        BY <1>1, <1>15 DEF Crash, SoundInv
    <2> QED
        BY <1>15, <2>1, <2>2, <2>3 DEF Crash, SoundInv
<1>16. CASE UNCHANGED storeVars
    BY <1>16 DEF storeVars, SoundInv
<1> QED
    BY <1>2, <1>3, <1>4, <1>5, <1>6, <1>7, <1>8, <1>9, <1>10, <1>11, <1>12, <1>13, <1>14, <1>15, <1>16
    DEF StoreNext
-----------------------------------------------------------------------------
LEMMA SoundImpliesInv == SoundInv => StoreInv
<1> SUFFICES ASSUME SoundInv PROVE StoreInv
    OBVIOUS
<1>1. Sound \subseteq Contents
    BY DEF Sound
<1>2. SoundFiles \subseteq Files /\ SoundSavers \subseteq SaverStates
    BY <1>1 DEF SoundFiles, SoundSavers, Files, SaverStates
<1>3. StoreTypeOK
    <2>1. mem \in Contents /\ own \in Files /\ given \in Files
        BY <1>1, <1>2 DEF SoundInv
    <2>2. saver \in [Savers -> SaverStates]
        BY <1>2 DEF SoundInv
    <2>3. events \in Seq(Contents)
        BY <1>1 DEF SoundInv
    <2> QED
        BY <2>1, <2>2, <2>3 DEF SoundInv, StoreTypeOK
<1>4. InFlight \subseteq Sound
    BY SaverHolds DEF InFlight, SoundInv
<1>5. OnDisk \subseteq Sound
    BY WholeIsSound DEF OnDisk, SoundInv
<1>6. \A i \in DOMAIN events : events[i] \in Sound
    BY DEF SoundInv
<1>7. Copies \subseteq Sound
    BY <1>4, <1>5, <1>6 DEF Copies, SoundInv
<1>8. CounterAhead
    BY <1>7 DEF CounterAhead, Sound
<1> QED
    BY <1>3, <1>8 DEF StoreInv

LEMMA AlwaysSound == StoreSpec => []SoundInv
BY InitSound, StepSound, PTL DEF StoreSpec

\* Every copy of the store, in memory, under way or on disk, counts ahead of its
\* pre-keys (GetOrGenPreKeys, GetDeviceData, Save, and the constructors).
THEOREM StoreInvariant == StoreSpec => []StoreInv
BY AlwaysSound, SoundImpliesInv, PTL

\* No pre-key that the store holds is generated a second time (GetOrGenPreKeys,
\* GenOnePreKey), whatever saves and crashes came before.
THEOREM PreKeysAreNotReplaced == StoreSpec => NoPreKeyReplaced
<1>1. SoundInv => (proc = "up" => mem.keys \cap (mem.next .. mem'.next - 1) = {})
    <2> SUFFICES ASSUME SoundInv, NEW k \in mem.keys, k \in mem.next .. mem'.next - 1
                 PROVE  FALSE
        OBVIOUS
    <2>1. k < mem.next /\ k \in 1 .. MaxKey /\ mem.next \in 1 .. MaxKey + 1
        BY DEF SoundInv, Sound, Contents
    <2> QED
        BY <2>1
<1> QED
    BY <1>1, AlwaysSound, PTL DEF NoPreKeyReplaced
-----------------------------------------------------------------------------
(* One device per file.  Saves under way carry the device of the file too, and *)
(* none is under way while the process is down.                                *)

Carries(s) == saver[s].pc \in {"holds", "opened"}

OneDevice == /\ own.kind = "absent" <=> firstOwn = 0
             /\ own.kind = "whole" => own.data.dev = firstOwn
             /\ (mode = "file" /\ proc # "down") => mem.dev = firstOwn
             /\ proc = "creating" => mode = "file"
             /\ \A s \in Savers : proc # "up" => saver[s] = Idle
             /\ \A s \in Savers : (Carries(s) /\ mode = "file") => saver[s].data.dev = firstOwn
             /\ \A s \in Savers : saver[s].pc = "opened" => mode = "file"

SameInv == ~ unread => OneDevice

LEMMA InitSame == StoreInit => SameInv
BY DEF StoreInit, SameInv, OneDevice, Absent, Carries, Idle

LEMMA ChangeSame ==
    ASSUME SoundInv, OneDevice, NEW c \in Sound, c.dev = mem.dev, Change(c)
    PROVE  OneDevice'
<1>1. PICK s \in Savers : saver[s] = Idle /\ saver' = [saver EXCEPT ![s] = Asked]
    BY DEF Change, GoSave
<1>2. \A x \in Savers : saver'[x].pc \in {"holds", "opened"} => saver'[x] = saver[x]
    BY <1>1 DEF Asked, SoundInv
<1> QED
    BY <1>2 DEF OneDevice, Carries, Change

LEMMA KeepsDevice ==
    ASSUME NEW c \in Sound
    PROVE  /\ \A n \in 1 .. MaxKey :
                 [c EXCEPT !.keys = @ \cup c.next .. c.next + n - 1, !.next = @ + n].dev = c.dev
           /\ \A k \in 1 .. MaxKey : [c EXCEPT !.keys = @ \ {k}].dev = c.dev
           /\ \A size \in 0 .. MaxRest : [c EXCEPT !.rest = size].dev = c.dev
BY DEF Sound, Contents

LEMMA StepSame ==
    ASSUME SoundInv, OneDevice, ~ unread', [StoreNext]_storeVars
    PROVE  OneDevice'
<1>1. /\ \A c : Whole(c).kind = "whole" /\ Whole(c).data = c
      /\ \A n : Torn(n).kind = "torn"
      /\ \A c : Holds(c).pc = "holds" /\ Holds(c).data = c
      /\ \A c : Opened(c).pc = "opened" /\ Opened(c).data = c
      /\ Idle.pc = "idle" /\ Asked.pc = "asked"
    BY DEF Whole, Torn, Holds, Opened, Idle, Asked
<1>2. CASE StartInMemory
    BY <1>1, <1>2 DEF StartInMemory, OneDevice, Carries
<1>3. CASE StartFromData
    BY <1>1, <1>3 DEF StartFromData, OneDevice, Carries
<1>4. CASE Load
    BY <1>1, <1>4 DEF Load, StartFromFile, OneDevice, Carries
<1>5. CASE CreateFile
    <2>1. firstOwn = 0 /\ firstOwn' = devices' /\ devices' \in 1 .. MaxDevices
        BY <1>5, CreateSound DEF CreateFile, OneDevice, SoundInv
    <2>2. mem'.dev = devices'
        BY <1>5 DEF CreateFile, Create, Fresh
    <2> QED
        BY <1>1, <1>5, <2>1, <2>2 DEF CreateFile, StartFromFile, OneDevice, Carries
<1>6. CASE FileCreated
    <2>1. firstOwn # 0
        BY <1>6 DEF FileCreated, OneDevice, SoundInv, Sound, Contents
    <2> QED
        BY <1>1, <1>6, <2>1 DEF FileCreated, OneDevice, Carries
<1>7. CASE \E n \in 1 .. MaxKey : GenPreKeys(n)
    <2>1. PICK n \in 1 .. MaxKey : GenPreKeys(n)
        BY <1>7
    <2>2. [mem EXCEPT !.keys = @ \cup mem.next .. mem.next + n - 1, !.next = @ + n] \in Sound
        BY <2>1, GeneratedIsSound DEF GenPreKeys, SoundInv
    <2> QED
        BY <2>1, <2>2, KeepsDevice, ChangeSame DEF GenPreKeys, SoundInv
<1>8. CASE \E k \in 1 .. MaxKey : RemovePreKey(k)
    <2>1. PICK k \in 1 .. MaxKey : RemovePreKey(k)
        BY <1>8
    <2>2. [mem EXCEPT !.keys = @ \ {k}] \in Sound
        BY RemovedIsSound DEF SoundInv
    <2> QED
        BY <2>1, <2>2, KeepsDevice, ChangeSame DEF RemovePreKey, SoundInv
<1>9. CASE \E size \in 0 .. MaxRest : Put(size)
    <2>1. PICK size \in 0 .. MaxRest : Put(size)
        BY <1>9
    <2>2. [mem EXCEPT !.rest = size] \in Sound
        BY PutIsSound DEF SoundInv
    <2> QED
        BY <2>1, <2>2, KeepsDevice, ChangeSame DEF Put, SoundInv
<1>10. CASE \E s \in Savers : Snapshot(s)
    <2>1. PICK s \in Savers : Snapshot(s)
        BY <1>10
    <2>2. proc = "up"
        BY <1>1, <2>1 DEF Snapshot, OneDevice
    <2>3. \A x \in Savers : \/ saver'[x] = saver[x]
                            \/ saver'[x] = Holds(mem)
                            \/ saver'[x] = Idle
        BY <2>1 DEF Snapshot, SoundInv
    <2> QED
        BY <1>1, <2>1, <2>2, <2>3 DEF Snapshot, OneDevice, Carries
<1>11. CASE \E s \in Savers : OpenFile(s)
    <2>1. PICK s \in Savers : OpenFile(s)
        BY <1>11
    <2>2. proc = "up"
        BY <1>1, <2>1 DEF OpenFile, OneDevice
    <2>3. firstOwn # 0
        BY <1>1, <2>1, <2>2, SaverHolds DEF OpenFile, OneDevice, SoundInv, Sound, Contents
    <2>4. \A x \in Savers : saver'[x] = saver[x] \/ (x = s /\ saver'[x] = Opened(saver[s].data))
        BY <2>1 DEF OpenFile, SoundInv
    <2> QED
        BY <1>1, <2>1, <2>2, <2>3, <2>4 DEF OpenFile, OneDevice, Carries
<1>12. CASE \E s \in Savers : WriteFile(s)
    <2>1. PICK s \in Savers : WriteFile(s)
        BY <1>12
    <2>2. own' = Whole(saver[s].data) \/ own'.kind = "torn"
        BY <1>1, <2>1 DEF WriteFile, Overwrite
    <2>3. \A x \in Savers : saver'[x] = saver[x] \/ saver'[x] = Idle
        BY <2>1 DEF WriteFile, SoundInv
    <2>4. own.kind # "absent"
        BY <2>1 DEF WriteFile, SoundInv
    <2> QED
        BY <1>1, <2>1, <2>2, <2>3, <2>4 DEF WriteFile, OneDevice, Carries
<1>13. CASE \E s \in Savers : Raise(s)
    <2>1. PICK s \in Savers : Raise(s)
        BY <1>13
    <2>2. \A x \in Savers : saver'[x] = saver[x] \/ saver'[x] = Idle
        BY <2>1 DEF Raise, SoundInv
    <2> QED
        BY <1>1, <2>1, <2>2 DEF Raise, OneDevice, Carries
<1>14. CASE AdapterWrites
    BY <1>14 DEF AdapterWrites, OneDevice, Carries
<1>15. CASE Crash
    BY <1>1, <1>15 DEF Crash, OneDevice, Carries
<1>16. CASE UNCHANGED storeVars
    BY <1>16 DEF storeVars, OneDevice, Carries
<1> QED
    BY <1>2, <1>3, <1>4, <1>5, <1>6, <1>7, <1>8, <1>9, <1>10, <1>11, <1>12, <1>13, <1>14, <1>15, <1>16
    DEF StoreNext

\* Nothing takes a failed read back.
LEMMA UnreadStays == ASSUME SoundInv, unread, [StoreNext]_storeVars PROVE unread'
BY DEF StoreNext, StartInMemory, StartFromData, Load, CreateFile, FileCreated, Change,
       GenPreKeys, RemovePreKey, Put, Snapshot, OpenFile, WriteFile, Raise,
       AdapterWrites, Crash, storeVars

\* A start from the file of the bridge is the device of the first one (NewDeviceStore),
\* as long as no start found a file it could not read.
THEOREM SameDeviceForEver == StoreSpec => []SameDevice
<1>1. SoundInv /\ SameInv /\ [StoreNext]_storeVars => SameInv'
    BY StepSame, UnreadStays DEF SameInv
<1>2. SameInv => SameDevice
    BY DEF SameInv, OneDevice, SameDevice
<1> QED
    BY <1>1, <1>2, InitSame, AlwaysSound, PTL DEF StoreSpec
-----------------------------------------------------------------------------
(* The gate, for every channel capacity, with and without E2EE, for any number *)
(* of messages and of lost connections: GateInv is inductive as it stands.    *)
(* The order of the messages is a fact about three sequences and a counter;   *)
(* the lemmas say what each operation does to it.                            *)

Msgs  == 1 .. MaxMsgs

\* InOrder, of any delivered, pending and channel contents and any count.
Ordered(d, p, c, a) ==
    /\ \A i, j \in DOMAIN d : i < j => d[i] < d[j]
    /\ \A i, j \in DOMAIN p : i < j => p[i] < p[j]
    /\ \A i, j \in DOMAIN c :
          (i < j /\ IsMessage(c[i]) /\ IsMessage(c[j])) => c[i].n < c[j].n
    /\ \A i \in DOMAIN d, j \in DOMAIN p : d[i] < p[j]
    /\ \A j \in DOMAIN c : IsMessage(c[j]) => c[j].n <= a
    /\ \A j \in DOMAIN c : IsMessage(c[j]) => \A i \in DOMAIN d : d[i] < c[j].n
    /\ \A j \in DOMAIN c : IsMessage(c[j]) => \A i \in DOMAIN p : p[i] < c[j].n
    /\ \A i \in DOMAIN d : d[i] <= a
    /\ \A i \in DOMAIN p : p[i] <= a

LEMMA OrderedIsInOrder == InOrder <=> Ordered(delivered, pending, chan, arrived)
BY DEF InOrder, Ordered, Ascending, ChanAscending
-----------------------------------------------------------------------------
(* What goes into the channel. *)

\* A full channel stays as it is, another one grows by the event.
LEMMA PushType ==
    ASSUME NEW c \in Seq(Event), NEW ev \in Event
    PROVE  Push(c, ev) \in Seq(Event)
BY DEF Push

LEMMA SignalIsEvent ==
    ASSUME NEW t \in Signals
    PROVE  Signal(t) \in Event /\ ~ IsMessage(Signal(t))
BY DEF Signal, Event, IsMessage, Signals

LEMMA MessageIsEvent ==
    ASSUME NEW k \in Msgs
    PROVE  Message(k) \in Event /\ IsMessage(Message(k)) /\ Message(k).n = k
BY DEF Message, Event, IsMessage, Msgs

LEMMA EventNumbers ==
    ASSUME NEW ev \in Event
    PROVE  /\ ev.n \in Nat
           /\ IsMessage(ev) => ev.n \in Msgs
           /\ ~ IsMessage(ev) => ev.type \in Signals
<1>1. CASE \E t \in Signals : ev = Signal(t)
    BY <1>1 DEF Signal, IsMessage, Signals
<1>2. CASE \E k \in 1 .. MaxMsgs : ev = Message(k)
    BY <1>2, GateAssumption DEF Message, IsMessage, Msgs
<1> QED
    BY <1>1, <1>2 DEF Event

\* A signal in the channel disturbs no order.
LEMMA PushSignal ==
    ASSUME NEW d \in Seq(Msgs), NEW p \in Seq(Msgs), NEW c \in Seq(Event), NEW a \in Nat,
           NEW ev \in Event, ~ IsMessage(ev), Ordered(d, p, c, a)
    PROVE  Ordered(d, p, Push(c, ev), a)
<1>1. CASE ~ (Len(c) < ChanCap)
    BY <1>1 DEF Push
<1>2. CASE Len(c) < ChanCap
    <2> DEFINE e == Append(c, ev)
    <2>1. DOMAIN e = 1 .. Len(c) + 1 /\ DOMAIN c = 1 .. Len(c) /\ Len(c) \in Nat
        OBVIOUS
    <2>2. \A j \in DOMAIN e : IsMessage(e[j]) => j \in DOMAIN c /\ e[j] = c[j]
        BY <2>1
    <2>3. \A j \in DOMAIN e : IsMessage(e[j]) => j \in DOMAIN c /\ IsMessage(c[j]) /\ e[j] = c[j]
        BY <2>2
    <2> HIDE DEF e
    <2>4. Ordered(d, p, e, a)
        BY <2>3 DEF Ordered
    <2> QED
        BY <1>2, <2>4 DEF Push, e
<1> QED
    BY <1>1, <1>2

\* The newest message goes behind every other one.
LEMMA PushNewest ==
    ASSUME NEW d \in Seq(Msgs), NEW p \in Seq(Msgs), NEW c \in Seq(Event), NEW a \in Nat,
           a + 1 \in Msgs, Ordered(d, p, c, a)
    PROVE  Ordered(d, p, Push(c, Message(a + 1)), a + 1)
<1>0. MaxMsgs \in Nat
    BY GateAssumption
<1>a. /\ \A i \in DOMAIN d : d[i] \in Nat
      /\ \A i \in DOMAIN p : p[i] \in Nat
      /\ \A i \in DOMAIN c : c[i].n \in Nat
    <2>1. \A i \in DOMAIN d : d[i] \in Nat
        BY <1>0 DEF Msgs
    <2>2. \A i \in DOMAIN p : p[i] \in Nat
        BY <1>0 DEF Msgs
    <2>3. \A i \in DOMAIN c : c[i] \in Event
        OBVIOUS
    <2>4. \A v \in Event : v.n \in Nat
        BY EventNumbers
    <2> QED
        BY <2>1, <2>2, <2>3, <2>4
<1>1. Ordered(d, p, c, a + 1)
    <2>1. \A i \in DOMAIN d : d[i] <= a + 1
        BY <1>a DEF Ordered
    <2>2. \A i \in DOMAIN p : p[i] <= a + 1
        BY <1>a DEF Ordered
    <2>3. \A j \in DOMAIN c : IsMessage(c[j]) => c[j].n <= a + 1
        <3>1. \A j \in DOMAIN c : IsMessage(c[j]) => c[j].n <= a
            BY DEF Ordered
        <3>2. \A n \in Nat : n <= a => n <= a + 1
            OBVIOUS
        <3> QED
            BY <3>1, <3>2, <1>a
    <2> QED
        BY <2>1, <2>2, <2>3 DEF Ordered
<1>2. CASE ~ (Len(c) < ChanCap)
    BY <1>1, <1>2 DEF Push
<1>3. CASE Len(c) < ChanCap
    <2> DEFINE e == Append(c, Message(a + 1))
               last == Len(c) + 1
    <2>1. DOMAIN e = 1 .. last /\ DOMAIN c = 1 .. Len(c) /\ last \in Nat
        OBVIOUS
    <2>2. e[last] = Message(a + 1)
        OBVIOUS
    <2>3. e[last].n = a + 1 /\ IsMessage(e[last])
        BY <2>2, MessageIsEvent
    <2>4. \A j \in DOMAIN e : j # last => j \in DOMAIN c /\ e[j] = c[j] /\ j < last
        OBVIOUS
    <2>5. last \in DOMAIN e /\ \A j \in DOMAIN e : j \in Int /\ ~ (last < j)
        BY <2>1
    <2> HIDE DEF e, last
    <2>6. \A i, j \in DOMAIN e :
             (i < j /\ IsMessage(e[i]) /\ IsMessage(e[j])) => e[i].n < e[j].n
        <3> SUFFICES ASSUME NEW i \in DOMAIN e, NEW j \in DOMAIN e,
                            i < j, IsMessage(e[i]), IsMessage(e[j])
                     PROVE  e[i].n < e[j].n
            OBVIOUS
        <3>1. i # last
            BY <2>5
        <3>2. i \in DOMAIN c /\ e[i] = c[i]
            BY <3>1, <2>4
        <3>3. CASE j = last
            <4>1. c[i].n <= a /\ c[i].n \in Nat
                BY <3>2, <1>a DEF Ordered
            <4> QED
                BY <3>2, <3>3, <4>1, <2>3
        <3>4. CASE j # last
            <4>1. j \in DOMAIN c /\ e[j] = c[j]
                BY <3>4, <2>4
            <4> QED
                BY <3>2, <4>1 DEF Ordered
        <3> QED
            BY <3>3, <3>4
    <2>7. \A j \in DOMAIN e : IsMessage(e[j]) =>
             /\ e[j].n <= a + 1
             /\ \A i \in DOMAIN d : d[i] < e[j].n
             /\ \A i \in DOMAIN p : p[i] < e[j].n
        <3> SUFFICES ASSUME NEW j \in DOMAIN e, IsMessage(e[j])
                     PROVE  /\ e[j].n <= a + 1
                            /\ \A i \in DOMAIN d : d[i] < e[j].n
                            /\ \A i \in DOMAIN p : p[i] < e[j].n
            OBVIOUS
        <3>1. CASE j = last
            <4>1. /\ \A i \in DOMAIN d : d[i] <= a
                  /\ \A i \in DOMAIN p : p[i] <= a
                BY DEF Ordered
            <4>2. \A n \in Nat : n <= a => n < a + 1
                OBVIOUS
            <4> QED
                BY <3>1, <4>1, <4>2, <2>3, <1>a
        <3>2. CASE j # last
            <4>1. j \in DOMAIN c /\ e[j] = c[j]
                BY <3>2, <2>4
            <4> QED
                BY <4>1, <1>1 DEF Ordered
        <3> QED
            BY <3>1, <3>2
    <2>8. Ordered(d, p, e, a + 1)
        BY <1>1, <2>6, <2>7 DEF Ordered
    <2> QED
        BY <1>3, <2>8 DEF Push, e
<1> QED
    BY <1>2, <1>3
-----------------------------------------------------------------------------
(* What comes out of it. *)

\* Taking the first event out leaves the others in their order.
LEMMA TakeFirst ==
    ASSUME NEW d \in Seq(Msgs), NEW p \in Seq(Msgs), NEW c \in Seq(Event), NEW a \in Nat,
           c # << >>, Ordered(d, p, c, a)
    PROVE  Tail(c) \in Seq(Event) /\ Ordered(d, p, Tail(c), a)
<1> DEFINE t == Tail(c)
<1>1. t \in Seq(Event) /\ DOMAIN t = 1 .. Len(c) - 1 /\ DOMAIN c = 1 .. Len(c) /\ Len(c) \in Nat
    OBVIOUS
<1>2. \A j \in DOMAIN t : j \in Int /\ j + 1 \in DOMAIN c /\ t[j] = c[j + 1]
    BY <1>1
<1>3. \A i, j \in DOMAIN t : i < j => i + 1 < j + 1
    BY <1>2
<1> HIDE DEF t
<1>4. \A i, j \in DOMAIN t : (i < j /\ IsMessage(t[i]) /\ IsMessage(t[j])) => t[i].n < t[j].n
    BY <1>2, <1>3 DEF Ordered
<1>5. \A j \in DOMAIN t : IsMessage(t[j]) =>
         /\ t[j].n <= a
         /\ \A i \in DOMAIN d : d[i] < t[j].n
         /\ \A i \in DOMAIN p : p[i] < t[j].n
    BY <1>2 DEF Ordered
<1>6. Ordered(d, p, t, a)
    BY <1>4, <1>5 DEF Ordered
<1> QED
    BY <1>1, <1>6 DEF t

\* The message at the head of the channel is newer than what went before it, and
\* older than what is behind it.
LEMMA HeadIsBetween ==
    ASSUME NEW d \in Seq(Msgs), NEW p \in Seq(Msgs), NEW c \in Seq(Event), NEW a \in Nat,
           c # << >>, Ordered(d, p, c, a), IsMessage(Head(c))
    PROVE  /\ Head(c).n <= a
           /\ \A i \in DOMAIN d : d[i] < Head(c).n
           /\ \A i \in DOMAIN p : p[i] < Head(c).n
           /\ \A j \in DOMAIN Tail(c) : IsMessage(Tail(c)[j]) => Head(c).n < Tail(c)[j].n
<1>1. Head(c) = c[1] /\ 1 \in DOMAIN c
    OBVIOUS
<1>2. \A j \in DOMAIN Tail(c) : 1 < j + 1 /\ j + 1 \in DOMAIN c /\ Tail(c)[j] = c[j + 1]
    OBVIOUS
<1>3. \A j \in DOMAIN Tail(c) : IsMessage(Tail(c)[j]) => Head(c).n < Tail(c)[j].n
    BY <1>1, <1>2 DEF Ordered
<1> QED
    BY <1>1, <1>3 DEF Ordered

\* A sequence that ends below k still ascends with k behind it.
LEMMA AscendingAppend ==
    ASSUME NEW q \in Seq(Msgs), NEW k \in Msgs,
           \A i, j \in DOMAIN q : i < j => q[i] < q[j],
           \A i \in DOMAIN q : q[i] < k
    PROVE  /\ Append(q, k) \in Seq(Msgs)
           /\ \A i, j \in DOMAIN Append(q, k) : i < j => Append(q, k)[i] < Append(q, k)[j]
           /\ \A i \in DOMAIN Append(q, k) :
                 Append(q, k)[i] = k \/ (i \in DOMAIN q /\ Append(q, k)[i] = q[i])
<1> DEFINE e == Append(q, k)
           last == Len(q) + 1
<1>1. e \in Seq(Msgs) /\ DOMAIN e = 1 .. last /\ last \in Nat /\ e[last] = k
    OBVIOUS
<1>2. \A j \in DOMAIN e : j # last => j \in DOMAIN q /\ e[j] = q[j]
    OBVIOUS
<1>3. \A j \in DOMAIN e : j \in Int /\ ~ (last < j)
    BY <1>1
<1> HIDE DEF e, last
<1>4. \A i, j \in DOMAIN e : i < j => e[i] < e[j]
    BY <1>1, <1>2, <1>3
<1>5. \A i \in DOMAIN e : e[i] = k \/ (i \in DOMAIN q /\ e[i] = q[i])
    BY <1>1, <1>2
<1> QED
    BY <1>1, <1>4, <1>5 DEF e

\* An open gate passes the head of the channel on to the bot.
LEMMA DeliverHead ==
    ASSUME NEW d \in Seq(Msgs), NEW c \in Seq(Event), NEW a \in Nat,
           c # << >>, Ordered(d, << >>, c, a), IsMessage(Head(c)), Head(c).n \in Msgs
    PROVE  /\ Append(d, Head(c).n) \in Seq(Msgs)
           /\ Ordered(Append(d, Head(c).n), << >>, Tail(c), a)
<1> DEFINE k == Head(c).n
           e == Append(d, k)
           t == Tail(c)
<1>1. t \in Seq(Event) /\ Ordered(d, << >>, t, a)
    BY TakeFirst, << >> \in Seq(Msgs)
<1>2. /\ k <= a
      /\ \A i \in DOMAIN d : d[i] < k
      /\ \A j \in DOMAIN t : IsMessage(t[j]) => k < t[j].n
    BY HeadIsBetween, << >> \in Seq(Msgs)
<1>3. k \in Msgs
    OBVIOUS
<1> HIDE DEF k, t
<1>4. /\ e \in Seq(Msgs)
      /\ \A i, j \in DOMAIN e : i < j => e[i] < e[j]
      /\ \A i \in DOMAIN e : e[i] = k \/ (i \in DOMAIN d /\ e[i] = d[i])
    BY <1>1, <1>2, <1>3, AscendingAppend DEF Ordered
<1> HIDE DEF e
<1>5. Ordered(e, << >>, t, a)
    BY <1>1, <1>2, <1>4, DOMAIN << >> = {} DEF Ordered
<1> QED
    BY <1>4, <1>5 DEF e, k, t

\* A closed gate puts it behind what is queued.
LEMMA QueueHead ==
    ASSUME NEW d \in Seq(Msgs), NEW p \in Seq(Msgs), NEW c \in Seq(Event), NEW a \in Nat,
           c # << >>, Ordered(d, p, c, a), IsMessage(Head(c)), Head(c).n \in Msgs
    PROVE  /\ Append(p, Head(c).n) \in Seq(Msgs)
           /\ Ordered(d, Append(p, Head(c).n), Tail(c), a)
<1> DEFINE k == Head(c).n
           e == Append(p, k)
           t == Tail(c)
<1>1. t \in Seq(Event) /\ Ordered(d, p, t, a)
    BY TakeFirst
<1>2. /\ k <= a
      /\ \A i \in DOMAIN d : d[i] < k
      /\ \A i \in DOMAIN p : p[i] < k
      /\ \A j \in DOMAIN t : IsMessage(t[j]) => k < t[j].n
    BY HeadIsBetween
<1>3. k \in Msgs
    OBVIOUS
<1> HIDE DEF k, t
<1>4. /\ e \in Seq(Msgs)
      /\ \A i, j \in DOMAIN e : i < j => e[i] < e[j]
      /\ \A i \in DOMAIN e : e[i] = k \/ (i \in DOMAIN p /\ e[i] = p[i])
    BY <1>1, <1>2, <1>3, AscendingAppend DEF Ordered
<1> HIDE DEF e
<1>5. Ordered(d, e, t, a)
    BY <1>1, <1>2, <1>4 DEF Ordered
<1> QED
    BY <1>4, <1>5 DEF e, k, t

\* The queue goes out behind what the bot already has.
LEMMA FlushQueue ==
    ASSUME NEW d \in Seq(Msgs), NEW p \in Seq(Msgs), NEW c \in Seq(Event), NEW a \in Nat,
           Ordered(d, p, c, a)
    PROVE  d \o p \in Seq(Msgs) /\ Ordered(d \o p, << >>, c, a)
<1> DEFINE e == d \o p
           m == Len(d)
<1>1. /\ e \in Seq(Msgs) /\ m \in Nat /\ DOMAIN d = 1 .. m
      /\ DOMAIN p = 1 .. Len(p) /\ DOMAIN e = 1 .. m + Len(p) /\ Len(p) \in Nat
    OBVIOUS
<1>2. \A i \in DOMAIN e : /\ i \in Int
                          /\ i <= m => i \in DOMAIN d /\ e[i] = d[i]
                          /\ ~ (i <= m) => i - m \in DOMAIN p /\ e[i] = p[i - m]
    OBVIOUS
<1> HIDE DEF e, m
<1>3. \A i, j \in DOMAIN e : i < j => e[i] < e[j]
    <2> SUFFICES ASSUME NEW i \in DOMAIN e, NEW j \in DOMAIN e, i < j
                 PROVE  e[i] < e[j]
        OBVIOUS
    <2>1. CASE j <= m
        <3>1. i <= m
            BY <2>1, <1>1, <1>2
        <3> QED
            BY <2>1, <3>1, <1>2 DEF Ordered
    <2>2. CASE i <= m /\ ~ (j <= m)
        BY <2>2, <1>2 DEF Ordered
    <2>3. CASE ~ (i <= m)
        <3>1. ~ (j <= m) /\ i - m < j - m
            BY <2>3, <1>1, <1>2
        <3> QED
            BY <2>3, <3>1, <1>2 DEF Ordered
    <2> QED
        BY <2>1, <2>2, <2>3
<1>4. \A i \in DOMAIN e : \/ \E l \in DOMAIN d : e[i] = d[l]
                          \/ \E l \in DOMAIN p : e[i] = p[l]
    BY <1>2
<1>5. Ordered(e, << >>, c, a)
    BY <1>3, <1>4, DOMAIN << >> = {} DEF Ordered
<1> QED
    BY <1>1, <1>5 DEF e

\* Throwing the queue away leaves the rest in order.
LEMMA ForgetQueue ==
    ASSUME NEW d, NEW p, NEW c, NEW a, Ordered(d, p, c, a)
    PROVE  Ordered(d, << >>, c, a)
BY DOMAIN << >> = {} DEF Ordered
-----------------------------------------------------------------------------
(* The invariant. *)

LEMMA InitGate == GateInit => GateInv
<1>1. MaxMsgs \in Nat /\ MaxDrops \in Nat /\ 0 \in 0 .. MaxMsgs /\ 0 \in 0 .. MaxDrops
    BY GateAssumption
<1> SUFFICES ASSUME GateInit PROVE GateInv
    OBVIOUS
<1>a. \A S : << >> \in Seq(S)
    OBVIOUS
<1>b. /\ mqtt \in {"dialing", "up", "dead"} /\ everUp \in BOOLEAN
      /\ wa \in {"off", "connecting", "up", "down", "failed"}
      /\ looping \in BOOLEAN /\ socketReady \in BOOLEAN
      /\ e2eeConnected \in BOOLEAN /\ open \in BOOLEAN
    BY DEF GateInit
<1>2. GateTypeOK
    BY <1>1, <1>a, <1>b, Zenon DEF GateInit, GateTypeOK
<1>3. GateConsistent
    BY DEF GateInit, GateConsistent
<1>4. InOrder
    BY DOMAIN << >> = {} DEF GateInit, InOrder, Ascending, ChanAscending
<1> QED
    BY <1>2, <1>3, <1>4 DEF GateInv

\* One event of the bridge that carries no message.
LEMMA EmitSignal ==
    ASSUME GateInv, NEW t \in Signals, Emit(Signal(t)), UNCHANGED <<jsVars, arrived>>
    PROVE  chan' \in Seq(Event) /\ InOrder'
<1> DEFINE c1 == Push(chan, Signal("raw"))
<1>1. /\ Ordered(delivered, pending, chan, arrived)
      /\ chan \in Seq(Event) /\ delivered \in Seq(Msgs) /\ pending \in Seq(Msgs)
    BY OrderedIsInOrder DEF GateInv, GateTypeOK, Msgs
<1>2. arrived \in Nat
    BY GateAssumption DEF GateInv, GateTypeOK
<1>3. "raw" \in Signals
    BY DEF Signals
<1>4. c1 \in Seq(Event) /\ Ordered(delivered, pending, c1, arrived)
    BY <1>1, <1>2, <1>3, SignalIsEvent, PushType, PushSignal
<1> HIDE DEF c1
<1>5. /\ Push(c1, Signal(t)) \in Seq(Event)
      /\ Ordered(delivered, pending, Push(c1, Signal(t)), arrived)
    BY <1>1, <1>2, <1>4, SignalIsEvent, PushType, PushSignal
<1>6. chan' = Push(c1, Signal(t))
    BY DEF Emit, c1
<1>7. Ordered(delivered, pending, chan, arrived)'
    BY <1>5, <1>6 DEF jsVars
<1>8. InOrder'
    BY <1>7, OrderedIsInOrder, PTL
<1> QED
    BY <1>5, <1>6, <1>8

\* One event of the bridge that carries the next message.
LEMMA EmitNewest ==
    ASSUME GateInv, arrived < MaxMsgs, arrived' = arrived + 1,
           Emit(Message(arrived')), UNCHANGED jsVars
    PROVE  chan' \in Seq(Event) /\ InOrder'
<1> DEFINE c1 == Push(chan, Signal("raw"))
<1>1. /\ Ordered(delivered, pending, chan, arrived)
      /\ chan \in Seq(Event) /\ delivered \in Seq(Msgs) /\ pending \in Seq(Msgs)
    BY OrderedIsInOrder DEF GateInv, GateTypeOK, Msgs
<1>2. arrived \in Nat /\ arrived + 1 \in Msgs
    BY GateAssumption DEF GateInv, GateTypeOK, Msgs
<1>3. "raw" \in Signals
    BY DEF Signals
<1>4. c1 \in Seq(Event) /\ Ordered(delivered, pending, c1, arrived)
    BY <1>1, <1>2, <1>3, SignalIsEvent, PushType, PushSignal
<1> HIDE DEF c1
<1>5. /\ Push(c1, Message(arrived + 1)) \in Seq(Event)
      /\ Ordered(delivered, pending, Push(c1, Message(arrived + 1)), arrived + 1)
    BY <1>1, <1>2, <1>4, MessageIsEvent, PushType, PushNewest
<1>6. chan' = Push(c1, Message(arrived + 1))
    BY DEF Emit, c1
<1>7. Ordered(delivered, pending, chan, arrived)'
    BY <1>5, <1>6 DEF jsVars
<1>8. InOrder'
    BY <1>7, OrderedIsInOrder, PTL
<1> QED
    BY <1>5, <1>6, <1>8

\* What the bridge does leaves the gate alone.
LEMMA BridgeKeeps == GateInv /\ Bridge => GateInv'
<1> SUFFICES ASSUME GateInv, Bridge PROVE GateInv'
    OBVIOUS
<1>0. MaxMsgs \in Nat /\ MaxDrops \in Nat
    BY GateAssumption
<1>1. UNCHANGED jsVars
    BY DEF Bridge
<1>2. GateConsistent'
    BY <1>1 DEF GateInv, GateConsistent, jsVars, FullyReady
<1>3. /\ looping' \in BOOLEAN /\ socketReady' \in BOOLEAN /\ e2eeConnected' \in BOOLEAN
      /\ open' \in BOOLEAN /\ pending' \in Seq(Msgs) /\ delivered' \in Seq(Msgs)
    BY <1>1 DEF GateInv, GateTypeOK, jsVars, Msgs
<1>4. ASSUME chan' \in Seq(Event), InOrder',
             mqtt' \in {"dialing", "up", "dead"}, everUp' \in BOOLEAN,
             wa' \in {"off", "connecting", "up", "down", "failed"},
             arrived' \in 0 .. MaxMsgs, drops' \in 0 .. MaxDrops
      PROVE  GateInv'
    BY <1>2, <1>3, <1>4 DEF GateInv, GateTypeOK, Msgs
<1>5. CASE MqttReady
    <2>1. PICK t \in {"ready", "reconnected"} : Emit(Signal(t))
        BY <1>5 DEF MqttReady
    <2>2. t \in Signals
        BY DEF Signals
    <2>3. chan' \in Seq(Event) /\ InOrder'
        BY <2>1, <2>2, <1>1, <1>5, EmitSignal DEF MqttReady
    <2> QED
        BY <2>3, <1>4, <1>5 DEF MqttReady, GateInv, GateTypeOK
<1>6. CASE MqttFails
    <2>1. chan' \in Seq(Event) /\ InOrder'
        BY <1>1, <1>6, "error" \in Signals, EmitSignal DEF MqttFails, Signals
    <2> QED
        BY <2>1, <1>0, <1>4, <1>6 DEF MqttFails, GateInv, GateTypeOK
<1>7. CASE MqttRefused
    <2>1. chan' \in Seq(Event) /\ InOrder'
        BY <1>1, <1>7, "fatal" \in Signals, EmitSignal DEF MqttRefused, Signals
    <2> QED
        BY <2>1, <1>4, <1>7 DEF MqttRefused, GateInv, GateTypeOK
<1>8. CASE ConnectE2EE
    <2>1. chan' \in Seq(Event) /\ InOrder'
        BY <1>1, <1>8 DEF ConnectE2EE, GateInv, GateTypeOK, jsVars,
                          InOrder, Ascending, ChanAscending
    <2> QED
        BY <2>1, <1>4, <1>8 DEF ConnectE2EE, GateInv, GateTypeOK
<1>9. CASE WaUp
    <2>1. chan' \in Seq(Event) /\ InOrder'
        BY <1>1, <1>9, "e2eeConnected" \in Signals, EmitSignal DEF WaUp, Signals
    <2> QED
        BY <2>1, <1>4, <1>9 DEF WaUp, GateInv, GateTypeOK
<1>10. CASE WaDown
    <2>1. chan' \in Seq(Event) /\ InOrder'
        BY <1>1, <1>10, "disconnected" \in Signals, EmitSignal DEF WaDown, Signals
    <2> QED
        BY <2>1, <1>0, <1>4, <1>10 DEF WaDown, GateInv, GateTypeOK
<1>11. CASE Arrive
    <2>1. chan' \in Seq(Event) /\ InOrder'
        BY <1>1, <1>11, EmitNewest DEF Arrive
    <2> QED
        BY <2>1, <1>0, <1>4, <1>11 DEF Arrive, GateInv, GateTypeOK
<1> QED
    BY <1>5, <1>6, <1>7, <1>8, <1>9, <1>10, <1>11 DEF Bridge

\* What the event loop does with the state of the gate, given that it takes the
\* first event out of the channel.
LEMMA LoopKeeps ==
    ASSUME GateInv, chan # << >>, chan' = Tail(chan), UNCHANGED goVars,
           looping' \in BOOLEAN, socketReady' \in BOOLEAN, e2eeConnected' \in BOOLEAN,
           open' \in BOOLEAN, pending' \in Seq(Msgs), delivered' \in Seq(Msgs),
           GateConsistent', Ordered(delivered', pending', Tail(chan), arrived)
    PROVE  GateInv'
<1>1. chan \in Seq(Event)
    BY DEF GateInv, GateTypeOK
<1>2. chan' \in Seq(Event)
    BY <1>1
<1>3. Ordered(delivered, pending, chan, arrived)'
    BY DEF goVars
<1>4. InOrder'
    BY <1>3, OrderedIsInOrder, PTL
<1> QED
    BY <1>2, <1>4 DEF GateInv, GateTypeOK, goVars, Msgs

LEMMA HandleEventKeeps == GateInv /\ HandleEvent => GateInv'
<1> SUFFICES ASSUME GateInv, HandleEvent PROVE GateInv'
    OBVIOUS
<1>1. chan # << >> /\ chan' = Tail(chan) /\ UNCHANGED goVars
    BY DEF HandleEvent
<1>2. /\ Ordered(delivered, pending, chan, arrived)
      /\ chan \in Seq(Event) /\ delivered \in Seq(Msgs) /\ pending \in Seq(Msgs)
      /\ looping \in BOOLEAN /\ socketReady \in BOOLEAN
      /\ e2eeConnected \in BOOLEAN /\ open \in BOOLEAN
    BY OrderedIsInOrder DEF GateInv, GateTypeOK, Msgs
<1>3. arrived \in Nat /\ MaxMsgs \in Nat /\ arrived <= MaxMsgs
    BY GateAssumption DEF GateInv, GateTypeOK
<1>4. Ordered(delivered, pending, Tail(chan), arrived)
    BY <1>1, <1>2, <1>3, TakeFirst
<1>e. << >> \in Seq(Msgs)
    OBVIOUS
<1>5. CASE IsMessage(Head(chan))
    <2> DEFINE k == Head(chan).n
    <2>1. k \in Msgs /\ HandleMessage(k)
        BY <1>1, <1>2, <1>5, EventNumbers, Head(chan) \in Event DEF HandleEvent
    <2>2. CASE open
        <3>1. pending = << >>
            BY <2>2 DEF GateInv, GateConsistent
        <3>2. delivered' = Append(delivered, k) /\ pending' = << >>
            BY <2>1, <2>2, <3>1 DEF HandleMessage
        <3>3. /\ delivered' \in Seq(Msgs)
              /\ Ordered(delivered', pending', Tail(chan), arrived)
            BY <1>1, <1>2, <1>3, <1>5, <2>1, <3>1, <3>2, DeliverHead
        <3> QED
            BY <1>1, <1>2, <2>1, <2>2, <3>2, <3>3, <1>e, LoopKeeps
               DEF HandleMessage, GateInv, GateConsistent, FullyReady
    <2>3. CASE ~ open
        <3>1. delivered' = delivered /\ pending' = Append(pending, k)
            BY <2>1, <2>3 DEF HandleMessage
        <3>2. /\ pending' \in Seq(Msgs)
              /\ Ordered(delivered', pending', Tail(chan), arrived)
            BY <1>1, <1>2, <1>3, <1>5, <2>1, <3>1, QueueHead
        <3> QED
            BY <1>1, <1>2, <2>1, <2>3, <3>1, <3>2, LoopKeeps
               DEF HandleMessage, GateConsistent
    <2> QED
        BY <2>2, <2>3
<1>6. CASE ~ IsMessage(Head(chan))
    <2> DEFINE t == Head(chan).type
    <2>1. HandleSignal(t)
        BY <1>6 DEF HandleEvent
    <2>2. ASSUME NEW s, NEW e, CheckFullyReady(s, e),
                 open => FullyReady(s, e),
                 socketReady' = s, e2eeConnected' = e, s \in BOOLEAN, e \in BOOLEAN,
                 UNCHANGED looping
          PROVE  GateInv'
        <3>1. CASE FullyReady(s, e) /\ ~ open
            <4>1. open' = TRUE /\ delivered' = delivered \o pending /\ pending' = << >>
                BY <2>2, <3>1 DEF CheckFullyReady
            <4>2. /\ delivered' \in Seq(Msgs)
                  /\ Ordered(delivered', pending', Tail(chan), arrived)
                BY <1>1, <1>2, <1>3, <1>4, <4>1, FlushQueue, TakeFirst
            <4>3. GateConsistent'
                BY <2>2, <3>1, <4>1 DEF GateConsistent, FullyReady
            <4> QED
                BY <1>1, <1>2, <1>e, <2>2, <4>1, <4>2, <4>3, LoopKeeps
        <3>2. CASE ~ (FullyReady(s, e) /\ ~ open)
            <4>1. UNCHANGED <<open, delivered, pending>>
                BY <2>2, <3>2 DEF CheckFullyReady
            <4>2. GateConsistent'
                BY <2>2, <4>1 DEF GateInv, GateConsistent, FullyReady
            <4> QED
                BY <1>1, <1>2, <1>4, <2>2, <4>1, <4>2, LoopKeeps
        <3> QED
            BY <3>1, <3>2
    <2>3. CASE t = "ready"
        <3>1. /\ socketReady' = TRUE /\ CheckFullyReady(TRUE, e2eeConnected)
              /\ UNCHANGED <<looping, e2eeConnected>>
            BY <2>1, <2>3 DEF HandleSignal
        <3>2. open => FullyReady(TRUE, e2eeConnected)
            BY DEF GateInv, GateConsistent, FullyReady
        <3> QED
            BY <1>2, <2>2, <3>1, <3>2
    <2>4. CASE t = "e2eeConnected"
        <3>1. /\ e2eeConnected' = TRUE /\ CheckFullyReady(socketReady, TRUE)
              /\ UNCHANGED <<looping, socketReady>>
            BY <2>1, <2>4 DEF HandleSignal
        <3>2. open => FullyReady(socketReady, TRUE)
            BY DEF GateInv, GateConsistent, FullyReady
        <3> QED
            BY <1>2, <2>2, <3>1, <3>2
    <2>5. CASE t \in {"disconnected", "fatal"}
        <3>1. Reset /\ UNCHANGED delivered /\ looping' \in {looping, FALSE}
            BY <2>1, <2>5 DEF HandleSignal
        <3>2. Ordered(delivered', pending', Tail(chan), arrived)
            BY <1>4, <3>1, ForgetQueue DEF Reset
        <3>3. GateConsistent'
            BY <3>1 DEF Reset, GateConsistent
        <3> QED
            BY <1>1, <1>2, <1>e, <3>1, <3>2, <3>3, LoopKeeps DEF Reset
    <2>6. CASE t \in {"raw", "reconnected", "error"}
        <3>1. UNCHANGED jsVars
            BY <2>1, <2>6 DEF HandleSignal
        <3>2. GateConsistent'
            BY <3>1 DEF jsVars, GateInv, GateConsistent, FullyReady
        <3> QED
            BY <1>1, <1>2, <1>4, <3>1, <3>2, LoopKeeps DEF jsVars
    <2> QED
        BY <2>1, <2>3, <2>4, <2>5, <2>6 DEF HandleSignal
<1> QED
    BY <1>5, <1>6

LEMMA DisconnectKeeps == GateInv /\ Disconnect => GateInv'
<1> SUFFICES ASSUME GateInv, Disconnect PROVE GateInv'
    OBVIOUS
<1>1. InOrder'
    BY DEF Disconnect, GateInv, InOrder, Ascending, ChanAscending
<1>2. GateConsistent'
    BY DEF Disconnect, GateInv, GateConsistent, FullyReady
<1>3. GateTypeOK'
    BY DEF Disconnect, GateInv, GateTypeOK
<1> QED
    BY <1>1, <1>2, <1>3 DEF GateInv

LEMMA GateStep == GateInv /\ [GateNext]_gateVars => GateInv'
<1>1. ASSUME GateInv, UNCHANGED gateVars PROVE GateInv'
    <2>1. InOrder'
        BY <1>1 DEF gateVars, GateInv, InOrder, Ascending, ChanAscending
    <2>2. GateConsistent'
        BY <1>1 DEF gateVars, GateInv, GateConsistent, FullyReady
    <2>3. GateTypeOK'
        BY <1>1 DEF gateVars, GateInv, GateTypeOK
    <2> QED
        BY <2>1, <2>2, <2>3 DEF GateInv
<1> QED
    BY <1>1, BridgeKeeps, HandleEventKeeps, DisconnectKeeps DEF GateNext

\* The gate is open only while both connections are known to be ready and nothing
\* is queued, and between Meta and the bot no message is doubled or passes another:
\* the event loop of client.ts, at any capacity of the channel.
THEOREM GateInvariant == GateSpec => []GateInv
<1> QED
    BY InitGate, GateStep, PTL DEF GateSpec
-----------------------------------------------------------------------------
(* Where a message can get lost. *)

In(q) == {q[i] : i \in DOMAIN q}

LEMMA InAppend ==
    ASSUME NEW S, NEW q \in Seq(S), NEW v \in S
    PROVE  In(q) \cup {v} \subseteq In(Append(q, v))
<1>1. \A i \in DOMAIN q : i \in DOMAIN Append(q, v) /\ Append(q, v)[i] = q[i]
    OBVIOUS
<1>2. Len(q) + 1 \in DOMAIN Append(q, v) /\ Append(q, v)[Len(q) + 1] = v
    OBVIOUS
<1> QED
    BY <1>1, <1>2 DEF In

LEMMA InPush ==
    ASSUME NEW c \in Seq(Event), NEW ev \in Event
    PROVE  In(c) \subseteq In(Push(c, ev))
BY InAppend DEF Push

LEMMA InTail ==
    ASSUME NEW S, NEW c \in Seq(S), c # << >>
    PROVE  In(c) \subseteq {Head(c)} \cup In(Tail(c))
<1> SUFFICES ASSUME NEW i \in DOMAIN c, c[i] # Head(c)
             PROVE  c[i] \in In(Tail(c))
    BY DEF In
<1>1. i - 1 \in DOMAIN Tail(c) /\ Tail(c)[i - 1] = c[i]
    OBVIOUS
<1> QED
    BY <1>1 DEF In

LEMMA InConcat ==
    ASSUME NEW S, NEW d \in Seq(S), NEW p \in Seq(S)
    PROVE  In(d) \cup In(p) \subseteq In(d \o p)
<1>1. \A i \in DOMAIN d : i \in DOMAIN (d \o p) /\ (d \o p)[i] = d[i]
    OBVIOUS
<1>2. \A i \in DOMAIN p : Len(d) + i \in DOMAIN (d \o p) /\ (d \o p)[Len(d) + i] = p[i]
    OBVIOUS
<1> QED
    BY <1>1, <1>2 DEF In

\* A step that keeps what each of the three places hold, or moves it to the next.
LEMMA StaysOnTheWay ==
    ASSUME \A k \in Msgs : Message(k) \in In(chan) =>
              Message(k) \in In(chan') \/ k \in In(pending') \/ k \in In(delivered'),
           In(pending) \subseteq In(pending') \cup In(delivered'),
           In(delivered) \subseteq In(delivered')
    PROVE  OnTheWay \subseteq OnTheWay'
<1>1. OnTheWay = {k \in Msgs : Message(k) \in In(chan) \/ k \in In(pending)
                                                    \/ k \in In(delivered)}
    BY DEF OnTheWay, In, Msgs
<1>2. OnTheWay' = {k \in Msgs : Message(k) \in In(chan') \/ k \in In(pending')
                                                      \/ k \in In(delivered')}
    BY DEF OnTheWay, In, Msgs
<1> QED
    BY <1>1, <1>2

\* Emitting an event removes none.
LEMMA EmitKeeps ==
    ASSUME chan \in Seq(Event), NEW ev \in Event, Emit(ev)
    PROVE  In(chan) \subseteq In(chan')
<1>1. Signal("raw") \in Event
    BY SignalIsEvent DEF Signals
<1>2. Push(chan, Signal("raw")) \in Seq(Event)
    BY <1>1, PushType
<1> QED
    BY <1>1, <1>2, InPush DEF Emit

LEMMA BridgeLosesNothing == GateInv /\ Bridge => OnTheWay \subseteq OnTheWay'
<1> SUFFICES ASSUME GateInv, Bridge PROVE OnTheWay \subseteq OnTheWay'
    OBVIOUS
<1>1. chan \in Seq(Event) /\ UNCHANGED <<pending, delivered>>
    BY DEF GateInv, GateTypeOK, Bridge, jsVars
<1>2. In(chan) \subseteq In(chan')
    <2>1. ASSUME NEW t \in Signals, Emit(Signal(t)) PROVE In(chan) \subseteq In(chan')
        BY <1>1, <2>1, SignalIsEvent, EmitKeeps
    <2>2. CASE MqttReady
        <3>1. PICK t \in {"ready", "reconnected"} : Emit(Signal(t))
            BY <2>2 DEF MqttReady
        <3> QED
            BY <2>1, <3>1 DEF Signals
    <2>3. CASE MqttFails
        BY <2>1, <2>3 DEF MqttFails, Signals
    <2>4. CASE MqttRefused
        BY <2>1, <2>4 DEF MqttRefused, Signals
    <2>5. CASE ConnectE2EE
        BY <2>5 DEF ConnectE2EE
    <2>6. CASE WaUp
        BY <2>1, <2>6 DEF WaUp, Signals
    <2>7. CASE WaDown
        BY <2>1, <2>7 DEF WaDown, Signals
    <2>8. CASE Arrive
        <3>1. arrived' \in Msgs /\ Emit(Message(arrived'))
            BY <2>8, GateAssumption DEF Arrive, GateInv, GateTypeOK, Msgs
        <3> QED
            BY <1>1, <3>1, MessageIsEvent, EmitKeeps
    <2> QED
        BY <2>2, <2>3, <2>4, <2>5, <2>6, <2>7, <2>8 DEF Bridge
<1> QED
    BY <1>1, <1>2, StaysOnTheWay

LEMMA LoopLosesOnDisconnect ==
    GateInv /\ HandleEvent /\ Head(chan).type \notin {"disconnected", "fatal"}
        => OnTheWay \subseteq OnTheWay'
<1> SUFFICES ASSUME GateInv, HandleEvent, Head(chan).type \notin {"disconnected", "fatal"}
             PROVE  OnTheWay \subseteq OnTheWay'
    OBVIOUS
<1>1. /\ chan # << >> /\ chan' = Tail(chan)
      /\ chan \in Seq(Event) /\ pending \in Seq(Msgs) /\ delivered \in Seq(Msgs)
    BY DEF HandleEvent, GateInv, GateTypeOK, Msgs
<1>2. In(chan) \subseteq {Head(chan)} \cup In(chan')
    BY <1>1, InTail
<1>3. CASE IsMessage(Head(chan))
    <2> DEFINE m == Head(chan).n
    <2>1. m \in Msgs /\ HandleMessage(m)
        BY <1>1, <1>3, EventNumbers, Head(chan) \in Event DEF HandleEvent
    <2>2. \A k \in Msgs : Message(k) = Head(chan) => k = m
        BY MessageIsEvent
    <2>3. CASE open
        <3>1. UNCHANGED pending /\ In(delivered) \cup {m} \subseteq In(delivered')
            BY <1>1, <2>1, <2>3, InAppend DEF HandleMessage
        <3> QED
            BY <1>2, <2>2, <3>1, StaysOnTheWay
    <2>4. CASE ~ open
        <3>1. UNCHANGED delivered /\ In(pending) \cup {m} \subseteq In(pending')
            BY <1>1, <2>1, <2>4, InAppend DEF HandleMessage
        <3> QED
            BY <1>2, <2>2, <3>1, StaysOnTheWay
    <2> QED
        BY <2>3, <2>4
<1>4. CASE ~ IsMessage(Head(chan))
    <2>1. HandleSignal(Head(chan).type)
        BY <1>4 DEF HandleEvent
    <2>2. \A k \in Msgs : Message(k) # Head(chan)
        BY <1>4, MessageIsEvent
    <2>3. \/ UNCHANGED <<pending, delivered>>
          \/ pending' = << >> /\ delivered' = delivered \o pending
        BY <2>1 DEF HandleSignal, CheckFullyReady, jsVars
    <2>4. In(pending) \cup In(delivered) \subseteq In(pending') \cup In(delivered')
          /\ In(delivered) \subseteq In(delivered')
        BY <1>1, <2>3, InConcat
    <2> QED
        BY <1>2, <2>2, <2>4, StaysOnTheWay
<1> QED
    BY <1>3, <1>4

\* Whatever the capacity of the channel and whatever connects and disconnects, a
\* message that got into the channel is lost only when the event loop handles a
\* "disconnected" or a permanent error.
THEOREM NothingElseIsLost == GateSpec => LostOnlyOnDisconnect
<1>1. ASSUME GateInv, [GateNext]_gateVars
      PROVE  [~ (OnTheWay \subseteq OnTheWay')
                  => Head(chan).type \in {"disconnected", "fatal"}]_gateVars
    <2>1. CASE Bridge
        BY <1>1, <2>1, BridgeLosesNothing
    <2>2. CASE HandleEvent
        BY <1>1, <2>2, LoopLosesOnDisconnect
    <2>3. CASE Disconnect
        BY <2>3, StaysOnTheWay DEF Disconnect, In
    <2> QED
        BY <1>1, <2>1, <2>2, <2>3 DEF GateNext
<1> QED
    BY <1>1, GateInvariant, PTL DEF GateSpec, LostOnlyOnDisconnect
=============================================================================
