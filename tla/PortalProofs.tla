---------------------------- MODULE PortalProofs ----------------------------
(***************************************************************************)
(* For any number of messages, members and fields, and any history of the    *)
(* chat, of losses and of repetitions: when nothing of the chat is on its    *)
(* way, the room shows it as it is, except for what is blurred               *)
(* (PortalFollows of Incoming).                                              *)
(*                                                                           *)
(* Kept is the inductive invariant.  It has a chat `was`, the one the last   *)
(* table told of: what waits in the queue leads the room to it (RoomFits,    *)
(* TextFits); the rows of the next table lead from it to the chat as it is   *)
(* (Since), and what they say last is so (TableFits); the table that may     *)
(* come again is right about it.  The steps of the server extend the rows    *)
(* (MoveFollows), a table that arrives makes the chat the new `was`          *)
(* (PushFollows), one that comes again or is lost changes nothing or blurs   *)
(* what it told of (ResendFollows, LossFollows), and the portal takes events *)
(* from the front (PopFollows).                                              *)
(***************************************************************************)
EXTENDS RoomProofs

-----------------------------------------------------------------------------
(* Reactions, of messages the table has rows of: the last one is right.      *)

\* The reaction or its removal that a table has last about a message.
LEMMA LastBeat ==
    ASSUME NEW T, IsList(T), NEW i, ~ Quiet(T, i)
    PROVE  \E n \in DOMAIN T : /\ T[n].kind \in {"react", "unreact"} /\ T[n].of = i
                               /\ \A m \in DOMAIN T : m > n => ~ (T[m].kind \in {"react", "unreact"} /\ T[m].of = i)
<1>1. PICK S : S = {n \in DOMAIN T : T[n].kind \in {"react", "unreact"} /\ T[n].of = i}
    OBVIOUS
<1>2. S # {}
    BY <1>1 DEF Quiet
<1>3. DOMAIN T = 1 .. Len(T) /\ Len(T) \in Nat
    BY ListIs
<1>4. S \subseteq 0 .. Len(T)
    BY <1>1, <1>3
<1>5. Max(S) \in S /\ \A y \in S : y <= Max(S)
    BY <1>2, <1>3, <1>4, LargestIs
<1>6. PICK n : n = Max(S)
    OBVIOUS
<1>7. n \in DOMAIN T /\ T[n].kind \in {"react", "unreact"} /\ T[n].of = i
    BY <1>1, <1>5, <1>6
<1>8. ASSUME NEW m \in DOMAIN T, m > n, T[m].kind \in {"react", "unreact"}, T[m].of = i PROVE FALSE
    <2>1. m \in S
        BY <1>1, <1>8
    <2>2. m <= n
        BY <1>5, <1>6, <2>1
    <2> QED
        BY <1>3, <1>7, <1>8, <2>2
<1> QED
    BY <1>7, <1>8

LEMMA BeatMeets ==
    ASSUME NEW u, NEW q, NEW x, NEW T, NEW w, NEW t, Meets(u, q, x, T, w, t), ~ Deletes(T),
           NEW p, NEW b, RoomFits(w, p, b, q), NEW i \in Said, Heart(i) \notin Conflicts(T),
           t.text[i] \in Words, w.text[i] \in Marks, w.text[i] \in Words => Present(p, b, q, i, Heart(i), Len(q)),
           ~ Quiet(T, i)
    PROVE  IF t.heart[i] THEN HeartOn(p, b, u, i) ELSE HeartOff(p, b, u, i)
<1>1. /\ Grown(u, q, x) /\ Rendered(x, T) /\ OfTable(x, T) /\ IsList(T) /\ TableFits(T, t)
    BY DEF Meets, Rendered, TableShape
<1>2. /\ Len(q) \in Nat /\ Len(x) \in Nat /\ Len(u) = Len(q) + Len(x) /\ DOMAIN x = 1 .. Len(x)
      /\ Len(x) \in 0 .. Len(x)
    BY <1>1 DEF Grown
<1>3. PICK n \in DOMAIN T : /\ T[n].kind \in {"react", "unreact"} /\ T[n].of = i
                            /\ \A m \in DOMAIN T : m > n => ~ (T[m].kind \in {"react", "unreact"} /\ T[m].of = i)
    BY <1>1, LastBeat
<1>4. (T[n].kind = "react") = t.heart[i]
    <2>1. \/ (T[n].kind = "react") = t.heart[i]
          \/ \E m \in DOMAIN T : m > n /\ T[m].kind \in {"react", "unreact"} /\ T[m].of = i
        BY <1>1, <1>3 DEF TableFits
    <2> QED
        BY <1>3, <2>1
<1>5. n \in LateShown(T)
    BY <1>3 DEF LateShown, Late, Known
<1>6. PICK j \in DOMAIN x : Stands(x, T, n, j)
    BY <1>1, <1>5 DEF Rendered
<1>7. x[j] = T[n] /\ j \in 1 .. Len(x) /\ Len(x) \in j .. Len(x)
    BY <1>2, <1>6 DEF Stands
<1>8. PICK k : k = j + Len(q)
    OBVIOUS
<1>9. k \in DOMAIN u /\ u[k] = x[j]
    BY <1>1, <1>7, <1>8, NewEvents
<1>10. CASE T[n].kind = "react"
    <2> DEFINE Start == p.heart[i] \/ Heart(i) \in b
    <2>1. ASSUME NEW l \in 1 .. Len(x), l > j
          PROVE  x[l].kind = "react" \/ Phase(x[l].kind) > 10
        <3>1. l \in DOMAIN x /\ Phase(x[l].kind) \in Nat
            BY <1>1, <1>2, PhasesKnown
        <3> QED
            BY <1>6, <1>10, <2>1, <3>1, KindsApart, Later
    <2>2. ASSUME NEW l \in 1 .. Len(x), l > j PROVE l + Len(q) \notin Colds(u, i)
        <3>1. x[l].kind \notin {"delete", "unsend", "upsert", "resync"}
            BY <2>1, <2>2, KindsApart
        <3>2. l \notin Named(x, "unreact", i)
            <4> SUFFICES ASSUME l \in Named(x, "unreact", i) PROVE FALSE
                OBVIOUS
            <4>1. l \in DOMAIN x /\ x[l].kind = "unreact" /\ x[l].of = i
                BY DEF Named
            <4>2. PICK m \in DOMAIN T : x[l] = T[m]
                BY <1>1, <4>1 DEF OfTable
            <4>3. m \in Nat /\ n \in Nat /\ ~ m > n /\ m # n
                <5>1. DOMAIN T = 1 .. Len(T) /\ Len(T) \in Nat
                    BY <1>1, ListIs
                <5> QED
                    BY <1>3, <1>10, <4>1, <4>2, <5>1
            <4>4. m < n /\ T[m].of = T[n].of /\ T[m].kind = "unreact"
                BY <1>3, <4>1, <4>2, <4>3
            <4>5. Heart(T[n].of) \in Conflicts(T)
                BY <1>1, <1>10, <4>2, <4>4, ConflictsAre
            <4> QED
                BY <1>3, <4>5
        <3>3. l \notin Colds(x, i)
            BY <3>1, <3>2, BringKinds DEF Colds, Losses, Leaving, Named
        <3> QED
            BY <1>1, <3>3, ColdsKeep
    <2>3. PICK f \in 0 .. Len(x) : /\ f # 0 => x[f].kind = "insert"
                                   /\ \A m \in f .. Len(x) : Present(p, b, u, i, Heart(i), Len(q) + m)
        BY PresentMeets
    <2>4. f < j
        <3>1. CASE f = j
            BY <1>7, <1>10, <2>3, <3>1
        <3>2. CASE f > j
            BY <1>7, <2>1, <2>3, <3>2, KindsApart
        <3> QED
            BY <1>7, <2>3, <3>1, <3>2
    <2>5. PICK m : m = j - 1
        OBVIOUS
    <2>6. m \in f .. Len(x) /\ Len(q) + m = k - 1
        BY <1>2, <1>7, <1>8, <2>3, <2>4, <2>5
    <2>7. Present(p, b, u, i, Heart(i), Len(q) + m)
        BY <2>3, <2>6
    <2>8. Present(p, b, u, i, Heart(i), k - 1)
        BY <2>6, <2>7
    <2>9. k \in Glows(p, b, u, i)
        BY <1>3, <1>7, <1>9, <1>10, <2>8 DEF Glows, Named
    <2> HIDE DEF Start
    <2>10. j + Len(q) \in Glows(p, b, u, i)
        BY <1>8, <2>9
    <2>11. Lasts(Len(q) + Len(x), Start, Glows(p, b, u, i), Colds(u, i))
        BY <1>1, <1>7, <2>2, <2>10, LastsNew
    <2>12. HeartOn(p, b, u, i)
        BY <1>2, <2>11 DEF HeartOn, Glows, Start
    <2>13. t.heart[i] = TRUE
        <3>1. (T[n].kind = "react") = TRUE
            BY <1>10
        <3> QED
            BY <1>4, <3>1, Zenon
    <2> QED
        BY <2>12, <2>13, Zenon
<1>11. CASE T[n].kind = "unreact"
    <2> DEFINE Start == ~ p.heart[i] \/ Heart(i) \in b
               W == Named(u, "unreact", i) \cup Veils(u, Heart(i))
    <2>1. ASSUME NEW l \in 1 .. Len(x), l > j
          PROVE  x[l].kind = "unreact" \/ Phase(x[l].kind) > 11
        <3>1. l \in DOMAIN x /\ Phase(x[l].kind) \in Nat
            BY <1>1, <1>2, PhasesKnown
        <3> QED
            BY <1>6, <1>11, <2>1, <3>1, KindsApart, Later
    <2>2. ASSUME NEW l \in 1 .. Len(x), l > j PROVE l + Len(q) \notin Warms(u, i)
        <3>1. x[l].kind \notin {"react", "upsert", "resync"}
            BY <2>1, <2>2, KindsApart
        <3>2. l \notin Warms(x, i)
            BY <3>1, BringKinds DEF Warms, Named
        <3> QED
            BY <1>1, <3>2, ColdsKeep
    <2>3. j + Len(q) \in W
        BY <1>3, <1>7, <1>8, <1>9, <1>11 DEF Named
    <2> HIDE DEF Start, W
    <2>4. Lasts(Len(q) + Len(x), Start, W, Warms(u, i))
        BY <1>1, <1>7, <2>2, <2>3, LastsNew
    <2>5. HeartOff(p, b, u, i)
        BY <1>2, <2>4 DEF HeartOff, Start, W
    <2>6. t.heart[i] = FALSE
        <3>1. (T[n].kind = "react") = FALSE
            BY <1>11
        <3> QED
            BY <1>4, <3>1, Zenon
    <2> QED
        BY <2>5, <2>6, Zenon
<1> QED
    BY <1>3, <1>10, <1>11

LEMMA HeartMeets ==
    ASSUME NEW u, NEW q, NEW x, NEW T, NEW w, NEW t, Meets(u, q, x, T, w, t), ~ Deletes(T),
           NEW now, NEW p, NEW b, RoomFits(w, p, b, q), NEW i \in Said,
           t.text[i] \in Words, w.text[i] \in Marks, w.text[i] \in Words => Present(p, b, q, i, Heart(i), Len(q)),
           Quiet(T, i) => IF t.heart[i] THEN HeartOn(p, b, q, i) ELSE HeartOff(p, b, q, i)
    PROVE  IF t.heart[i] THEN HeartOn(p, b, u, i) ELSE HeartOff(p, b, u, i)
<1>1. Grown(u, q, x)
    BY DEF Meets
<1>2. CASE Heart(i) \in Conflicts(T)
    <2>1. Veiled(x, Heart(i))
        BY <1>2 DEF Meets
    <2>2. HeartOn(p, b, u, i) /\ HeartOff(p, b, u, i)
        BY <1>1, <2>1, VeiledHolds
    <2> QED
        BY <2>2
<1>3. CASE Heart(i) \notin Conflicts(T) /\ ~ Quiet(T, i)
    BY <1>3, BeatMeets
<1>4. CASE Quiet(T, i) /\ t.heart[i]
    <2>1. Colds(x, i) = {}
        BY <1>4, QuietMeets
    <2>2. HeartOn(p, b, q, i)
        BY <1>4
    <2>3. HeartOn(p, b, u, i)
        BY <1>1, <2>1, <2>2, WarmOn
    <2> QED
        BY <1>4, <2>3
<1>5. CASE Quiet(T, i) /\ ~ t.heart[i]
    <2>1. Warms(x, i) = {}
        BY <1>5, QuietMeets
    <2>2. HeartOff(p, b, q, i)
        BY <1>5
    <2>3. HeartOff(p, b, u, i)
        BY <1>1, <2>1, <2>2, ColdOn
    <2> QED
        BY <1>5, <2>3
<1> QED
    BY <1>2, <1>3, <1>4, <1>5

-----------------------------------------------------------------------------
(* All of a message behind a table.                                          *)

\* A chat as the server has it.
ChatSound(t) == /\ t \in Rooms
                /\ \A i \in Said : t.heart[i] => i \in Shown(t)
                /\ \A i \in Said : i \in Shown(t) => t.exists
Onward(t, now, i) == /\ t.text[i] = "gone" => now.text[i] = "gone"
                     /\ t.text[i] # "unsaid" => now.text[i] # "unsaid"

LEMMA TextMeets ==
    ASSUME NEW u, NEW q, NEW x, NEW T, NEW w, NEW t, Meets(u, q, x, T, w, t), NEW now, NEW p, NEW b,
           RoomFits(w, p, b, q), NEW i \in Said, NEW H, NEW C, TextFits(w, now, H, p, b, q, i),
           w \in Rooms, now \in Rooms, ChatSound(t), Onward(t, now, i),
           Quiet(T, i) /\ Quiet(C, i) => Quiet(H, i),
           Quiet(C, i) /\ now.text[i] # "gone" => t.heart[i] = now.heart[i]
    PROVE  TextFits(t, now, C, p, b, u, i)
<1>1. /\ Grown(u, q, x) /\ Since(w, T, t) /\ w.text[i] \in Marks /\ t.text[i] \in Marks /\ now.text[i] \in Marks
      /\ t.text[i] \in Words => t.exists
      /\ t.heart[i] => t.text[i] \in Words
      /\ Text(i) \in All /\ Heart(i) \in All
    <2>1. Grown(u, q, x) /\ Since(w, T, t)
        BY DEF Meets
    <2>2. w.text[i] \in Marks /\ t.text[i] \in Marks /\ now.text[i] \in Marks
        BY DEF ChatSound, Rooms
    <2>3. t.text[i] \in Words => t.exists
        BY DEF ChatSound, Shown
    <2>4. t.heart[i] => t.text[i] \in Words
        BY DEF ChatSound, Shown
    <2>5. Text(i) \in All /\ Heart(i) \in All
        BY DEF All, Text, Heart
    <2> QED
        BY <2>1, <2>2, <2>3, <2>4, <2>5
<1>2. PICK n : n = Len(u)
    OBVIOUS
<1>3. n \in Nat /\ n = Len(q) + Len(x) /\ Len(x) \in Nat
    BY <1>1, <1>2 DEF Grown
<1>4. ASSUME Deletes(T), t.text[i] \in Words PROVE Veiled(x, Text(i)) /\ Veiled(x, Heart(i))
    BY <1>1, <1>4, MeetsDeletes
<1>5. ASSUME t.text[i] = "gone" PROVE GoneHolds(p, b, u, i, Text(i)) /\ GoneHolds(p, b, u, i, Heart(i))
    <2>1. ASSUME NEW a \in {Text(i), Heart(i)} PROVE GoneHolds(p, b, u, i, a)
        <3>1. w.text[i] = "gone" => GoneHolds(p, b, q, i, a)
            BY DEF TextFits
        <3> QED
            BY <1>5, <3>1, GoneMeets
    <2> QED
        BY <2>1
<1>6. ASSUME t.text[i] \in Words, now.text[i] \in Words, NEW a \in {Text(i), Heart(i)}
      PROVE  Present(p, b, u, i, a, n)
    <2>1. CASE Deletes(T)
        <3>1. Veiled(x, a)
            BY <1>4, <1>6, <2>1
        <3> QED
            BY <1>1, <1>2, <3>1, VeiledHolds
    <2>2. CASE ~ Deletes(T)
        <3>1. w.text[i] \in Words => Present(p, b, q, i, a, Len(q))
            BY <1>6 DEF TextFits
        <3>2. PICK f \in 0 .. Len(x) : /\ f # 0 => x[f].kind = "insert"
                                       /\ \A m \in f .. Len(x) : Present(p, b, u, i, a, Len(q) + m)
            BY <1>1, <1>6, <2>2, <3>1, PresentMeets
        <3>3. Len(x) \in f .. Len(x)
            BY <1>3, <3>2
        <3>4. Present(p, b, u, i, a, Len(q) + Len(x))
            BY <3>2, <3>3
        <3> QED
            BY <1>3, <3>4
    <2> QED
        BY <2>1, <2>2
<1>7. ASSUME t.text[i] = "second", now.text[i] = "second" PROVE EditHolds(p, b, u, i)
    <2>1. CASE Deletes(T)
        <3>1. Veiled(x, Text(i))
            BY <1>4, <1>7, <2>1 DEF Words
        <3> QED
            BY <1>1, <3>1, VeiledHolds
    <2>2. CASE ~ Deletes(T)
        <3>1. w.text[i] = "second" => EditHolds(p, b, q, i)
            BY <1>7 DEF TextFits
        <3> QED
            BY <1>7, <2>2, <3>1, EditMeets
    <2> QED
        BY <2>1, <2>2
<1>8. ASSUME t.text[i] # "gone", now.text[i] # "gone", Quiet(C, i)
      PROVE  IF now.heart[i] THEN HeartOn(p, b, u, i) ELSE HeartOff(p, b, u, i)
    <2>1. w.text[i] # "gone"
        BY <1>1, <1>8 DEF Since
    <2>2. t.heart[i] = now.heart[i]
        BY <1>8
    <2>3. Quiet(T, i) => IF now.heart[i] THEN HeartOn(p, b, q, i) ELSE HeartOff(p, b, q, i)
        BY <1>8, <2>1 DEF TextFits
    <2>4. Quiet(T, i) => IF t.heart[i] THEN HeartOn(p, b, q, i) ELSE HeartOff(p, b, q, i)
        BY <2>2, <2>3, Zenon
    <2>5. CASE t.text[i] = "unsaid"
        <3>1. ~ t.heart[i]
            BY <1>1, <2>5 DEF Words
        <3>2. Quiet(T, i) /\ Warms(x, i) = {}
            BY <2>5, UnsaidMeets
        <3>3. HeartOff(p, b, q, i)
            BY <2>4, <3>1, <3>2, Zenon
        <3>4. HeartOff(p, b, u, i)
            BY <1>1, <3>2, <3>3, ColdOn
        <3> QED
            BY <2>2, <3>1, <3>4, Zenon
    <2>6. CASE t.text[i] \in Words /\ Deletes(T)
        <3>1. Veiled(x, Heart(i))
            BY <1>4, <2>6
        <3>2. HeartOn(p, b, u, i) /\ HeartOff(p, b, u, i)
            BY <1>1, <3>1, VeiledHolds
        <3> QED
            BY <3>2
    <2>7. CASE t.text[i] \in Words /\ ~ Deletes(T)
        <3>1. now.text[i] \in Words
            BY <1>1, <1>8, <2>7 DEF Onward, Marks, Words
        <3>2. w.text[i] \in Words => Present(p, b, q, i, Heart(i), Len(q))
            BY <3>1 DEF TextFits
        <3>3. IF t.heart[i] THEN HeartOn(p, b, u, i) ELSE HeartOff(p, b, u, i)
            BY <1>1, <2>4, <2>7, <3>2, HeartMeets
        <3> QED
            BY <2>2, <3>3, Zenon
    <2> QED
        BY <1>1, <1>8, <2>5, <2>6, <2>7 DEF Marks, Words
<1> QED
    BY <1>2, <1>5, <1>6, <1>7, <1>8 DEF TextFits

-----------------------------------------------------------------------------
(* What a blur alone leaves as it is.                                        *)

\* What blurs alone leave as it is.
LEMMA BlurNothing ==
    ASSUME NEW x, OnlyBlurs(x), NEW k \in DOMAIN x
    PROVE  /\ k \notin Leaving(x) /\ k \notin Opened(x)
           /\ \A i : k \notin Olds(x, i) /\ k \notin Colds(x, i) /\ k \notin Warms(x, i) /\ k \notin Losses(x, i)
           /\ \A i : ~ Brings(x[k], i)
           /\ \A s : ~ Writes(x[k], s) /\ \A v : ~ Wronging(x[k], s, v)
<1>1. x[k].kind = "blur"
    BY DEF OnlyBlurs
<1>2. Bundles(x[k]) = {}
    BY <1>1, BringKinds
<1>3. \A i : ~ Brings(x[k], i)
    BY <1>1, BringKinds
<1>4. \A i : k \notin Losses(x, i)
    BY <1>1 DEF Losses, Leaving, Named
<1>5. \A i : k \notin Olds(x, i) /\ k \notin Colds(x, i) /\ k \notin Warms(x, i)
    BY <1>1, <1>2, <1>4 DEF Olds, Colds, Warms, Named
<1>6. \A s : ~ Writes(x[k], s) /\ \A v : ~ Wronging(x[k], s, v)
    BY <1>1 DEF Writes, Wronging, Decides
<1> QED
    BY <1>1, <1>3, <1>4, <1>5, <1>6 DEF Leaving, Opened

LEMMA NoRoomOn ==
    ASSUME NEW u, NEW q, NEW x, Grown(u, q, x), OnlyBlurs(x), NEW p, NEW b, NEW a, NoRoom(p, b, q, a, Len(q))
    PROVE  NoRoom(p, b, u, a, Len(u))
<1>1. Len(q) \in 0 .. Len(q) /\ Len(x) \in 0 .. Len(x) /\ Len(u) = Len(q) + Len(x) /\ DOMAIN x = 1 .. Len(x)
    BY DEF Grown
<1>2. NoRoom(p, b, u, a, Len(q))
    BY <1>1, NoRoomKeeps
<1> DEFINE Start == ~ p.exists \/ a \in b
           W == Leaving(u) \cup Veils(u, a)
<1>3. Lasts(Len(q), Start, W, NoRoomBy(p, u, a))
    BY <1>2 DEF NoRoom, NoRoomBy
<1>4. ASSUME NEW l \in 1 .. Len(x) PROVE l + Len(q) \notin NoRoomBy(p, u, a)
    <2>1. l \notin Opened(x) /\ ~ Writes(x[l], a)
        BY <1>1, BlurNothing
    <2>2. l + Len(q) \notin Opened(u) /\ u[l + Len(q)] = x[l]
        BY <2>1, NewEvents
    <2> QED
        BY <2>1, <2>2 DEF NoRoomBy
<1> HIDE DEF Start, W
<1>5. Lasts(Len(q) + Len(x), Start, W, NoRoomBy(p, u, a))
    BY <1>1, <1>3, <1>4, LastsOn
<1> QED
    BY <1>1, <1>5 DEF NoRoom, NoRoomBy, Start, W

LEMMA GoneOn ==
    ASSUME NEW u, NEW q, NEW x, Grown(u, q, x), OnlyBlurs(x), NEW p, NEW b, NEW i, NEW a, GoneHolds(p, b, q, i, a)
    PROVE  GoneHolds(p, b, u, i, a)
<1>1. Len(x) \in 0 .. Len(x) /\ Len(u) = Len(q) + Len(x) /\ DOMAIN x = 1 .. Len(x)
    BY DEF Grown
<1> DEFINE Start == i \notin Shown(p) \/ a \in b
           W(y) == Leaving(y) \cup Named(y, "unsend", i) \cup Veils(y, a)
<1>2. Lasts(Len(q), Start, W(q), Returns(p, q, i))
    BY DEF GoneHolds
<1>3. \A k \in 1 .. Len(q) : /\ k \in W(q) => k \in W(u)
                             /\ k \in Returns(p, u, i) => k \in Returns(p, q, i)
    BY OldEvents, ReturnsKeep
<1>4. ASSUME NEW l \in 1 .. Len(x) PROVE l + Len(q) \notin Returns(p, u, i)
    <2>1. ~ Brings(x[l], i) /\ u[l + Len(q)] = x[l]
        BY <1>1, BlurNothing, NewEvents
    <2> QED
        BY <2>1 DEF Returns
<1> HIDE DEF Start, W
<1>5. Lasts(Len(q) + Len(x), Start, W(u), Returns(p, u, i))
    BY <1>1, <1>2, <1>3, <1>4, LastsOn
<1> QED
    BY <1>1, <1>5 DEF GoneHolds, Start, W

LEMMA PresentOn ==
    ASSUME NEW u, NEW q, NEW x, Grown(u, q, x), OnlyBlurs(x), NEW p, NEW b, NEW i, NEW a, Present(p, b, q, i, a, Len(q))
    PROVE  Present(p, b, u, i, a, Len(u))
<1>1. Len(x) \in 0 .. Len(x) /\ Len(u) = Len(q) + Len(x) /\ DOMAIN x = 1 .. Len(x) /\ Len(q) \in 0 .. Len(q)
    BY DEF Grown
<1> DEFINE Start == i \in Shown(p) \/ a \in b
<1>2. Present(p, b, u, i, a, Len(q))
    BY <1>1, PresentKeeps
<1>3. Lasts(Len(q), Start, Comes(p, b, u, i, a), Losses(u, i))
    BY <1>2 DEF Present
<1>4. ASSUME NEW l \in 1 .. Len(x) PROVE l + Len(q) \notin Losses(u, i)
    <2>1. l \notin Losses(x, i)
        BY <1>1, BlurNothing
    <2> QED
        BY <2>1, NewEvents DEF Losses
<1> HIDE DEF Start
<1>5. Lasts(Len(q) + Len(x), Start, Comes(p, b, u, i, a), Losses(u, i))
    BY <1>1, <1>3, <1>4, LastsOn
<1> QED
    BY <1>1, <1>5 DEF Present, Start

LEMMA EditOn ==
    ASSUME NEW u, NEW q, NEW x, Grown(u, q, x), OnlyBlurs(x), NEW p, NEW b, NEW i, EditHolds(p, b, q, i)
    PROVE  EditHolds(p, b, u, i)
<1>1. Len(x) \in 0 .. Len(x) /\ Len(u) = Len(q) + Len(x) /\ DOMAIN x = 1 .. Len(x)
    BY DEF Grown
<1> DEFINE W(y) == Named(y, "edit", i) \cup Veils(y, Text(i))
           Start == p.text[i] # "first" \/ Text(i) \in b
<1>2. Lasts(Len(q), Start, W(q), Olds(q, i))
    BY DEF EditHolds
<1>3. \A k \in 1 .. Len(q) : (k \in W(q) => k \in W(u)) /\ (k \in Olds(u, i) => k \in Olds(q, i))
    BY OldEvents, OldsKeep
<1>4. ASSUME NEW l \in 1 .. Len(x) PROVE l + Len(q) \notin Olds(u, i)
    <2>1. l \notin Olds(x, i)
        BY <1>1, BlurNothing
    <2> QED
        BY <2>1, OldsKeep
<1> HIDE DEF Start, W
<1>5. Lasts(Len(q) + Len(x), Start, W(u), Olds(u, i))
    BY <1>1, <1>2, <1>3, <1>4, LastsOn
<1> QED
    BY <1>1, <1>5 DEF EditHolds, Start, W

LEMMA HeartsOn ==
    ASSUME NEW u, NEW q, NEW x, Grown(u, q, x), OnlyBlurs(x), NEW p, NEW b, NEW i
    PROVE  /\ HeartOn(p, b, q, i) => HeartOn(p, b, u, i)
           /\ HeartOff(p, b, q, i) => HeartOff(p, b, u, i)
<1>1. Colds(x, i) = {} /\ Warms(x, i) = {}
    <2>1. \A k \in Colds(x, i) \cup Warms(x, i) : k \in DOMAIN x
        BY DEF Colds, Warms, Losses, Named, Leaving
    <2> QED
        BY <2>1, BlurNothing
<1> QED
    BY <1>1, WarmOn, ColdOn

-----------------------------------------------------------------------------
(* A table that was lost: every aspect its rows were about is blurred.       *)

Sweeping(r) == r.kind \in {"exists", "thread", "upsert", "deletethread"} \/ Deleting(r)

LEMMA TopicsAre ==
    ASSUME NEW T, TableShape(T), NEW n \in DOMAIN T
    PROVE  /\ Sweeping(T[n]) => All \subseteq Topics(T)
           /\ \A s \in Slots : Writes(T[n], s) => s \in Topics(T)
           /\ T[n].kind \in {"insert", "unsend"} => Text(T[n].of) \in Topics(T) /\ Heart(T[n].of) \in Topics(T)
           /\ T[n].kind = "edit" => Text(T[n].of) \in Topics(T)
           /\ T[n].kind \in {"react", "unreact"} => Heart(T[n].of) \in Topics(T)
<1>1. Topic(T[n]) \subseteq Topics(T)
    BY DEF Topics
<1>2. PICK r : r = T[n]
    OBVIOUS
<1>3. ASSUME Sweeping(r) PROVE Topic(r) = All
    <2>1. CASE r.kind \in {"exists", "thread", "upsert", "deletethread"}
        BY <2>1 DEF Topic
    <2>2. CASE r.kind = "remove" /\ r.of = Self
        BY <2>2 DEF Topic
    <2> QED
        BY <1>3, <2>1, <2>2 DEF Sweeping, Deleting
<1>4. ASSUME NEW s \in Slots, Writes(r, s) PROVE s \in Topic(r)
    <2>1. CASE s[1] = "field" /\ s[2] \in Fields /\ s = <<"field", s[2]>>
        <3>1. r.kind \in {"set", "merging"} /\ r.of = s[2]
            BY <1>4, <2>1 DEF Writes
        <3>2. Topic(r) = {<<"field", r.of>>}
            BY <3>1 DEF Topic
        <3> QED
            BY <2>1, <3>1, <3>2
    <2>2. CASE s[1] = "member" /\ s[2] \in Members /\ s = <<"member", s[2]>>
        <3>1. r.kind \in {"add", "remove"} /\ r.of = s[2]
            BY <1>4, <2>2 DEF Writes
        <3>2. r.of # Self
            BY <2>2, <3>1, IncomingAssumption DEF IncomingAssumption
        <3>3. Topic(r) = {<<"member", r.of>>}
            BY <3>1, <3>2 DEF Topic
        <3> QED
            BY <2>2, <3>1, <3>3
    <2> QED
        BY <2>1, <2>2, SlotIs
<1>5. r.kind \in {"insert", "unsend"} => Topic(r) = {Text(r.of), Heart(r.of)}
    BY DEF Topic, Text, Heart
<1>6. r.kind = "edit" => Topic(r) = {Text(r.of)}
    BY DEF Topic, Text
<1>7. r.kind \in {"react", "unreact"} => Topic(r) = {Heart(r.of)}
    BY DEF Topic, Heart
<1> QED
    BY <1>1, <1>2, <1>3, <1>4, <1>5, <1>6, <1>7

\* The events in place of a table that was lost.
Forgets(u, q, x, T, w, t) ==
    /\ Grown(u, q, x) /\ OnlyBlurs(x) /\ TableShape(T) /\ Since(w, T, t)
    /\ \A a \in Topics(T) : Veiled(x, a)

LEMMA LostWhole ==
    ASSUME NEW u, NEW q, NEW x, NEW T, NEW w, NEW t, Forgets(u, q, x, T, w, t),
           NEW n \in DOMAIN T, Sweeping(T[n]), NEW a \in All
    PROVE  Veiled(x, a)
BY TopicsAre DEF Forgets

LEMMA LostRoom ==
    ASSUME NEW u, NEW q, NEW x, NEW T, NEW w, NEW t, Forgets(u, q, x, T, w, t),
           NEW p, NEW b, RoomFits(w, p, b, q)
    PROVE  RoomFits(t, p, b, u)
<1>1. Grown(u, q, x) /\ OnlyBlurs(x) /\ TableShape(T) /\ Since(w, T, t)
    BY DEF Forgets
<1>2. PICK l : l = Len(u)
    OBVIOUS
<1>3. Len(x) \in 0 .. Len(x) /\ l = Len(q) + Len(x)
    BY <1>1, <1>2 DEF Grown
<1>4. CASE \E n \in DOMAIN T : Sweeping(T[n])
    <2>1. \A a \in All : Veiled(x, a)
        BY <1>4, LostWhole
    <2>2. Slots \cup {Chat} \subseteq All
        BY DEF Slots, Chat, All
    <2>3. ASSUME NEW a \in All PROVE Housed(p, b, u, a, l) /\ NoRoom(p, b, u, a, l)
        BY <1>1, <1>2, <2>1, <2>3, VeiledHolds
    <2>4. ASSUME NEW s \in Slots PROVE SlotHolds(p, b, u, s, Value(t, s))
        BY <1>1, <2>1, <2>2, <2>4, VeiledHolds
    <2> QED
        BY <1>2, <2>2, <2>3, <2>4 DEF RoomFits
<1>5. CASE \A n \in DOMAIN T : ~ Sweeping(T[n])
    <2>1. w.exists = t.exists
        <3>1. Rows(T, {"exists", "thread"}) = {} /\ ~ Deletes(T)
            BY <1>5 DEF Rows, Deletes, Sweeping
        <3> QED
            BY <1>1, <3>1 DEF Since
    <2>2. ASSUME t.exists, NEW a \in All PROVE Housed(p, b, u, a, l)
        <3>1. Housed(p, b, q, a, Len(q))
            BY <2>1, <2>2 DEF RoomFits
        <3>2. \A k \in DOMAIN x : x[k].kind # "delete"
            BY <1>1 DEF OnlyBlurs
        <3>3. Housed(p, b, u, a, Len(q) + Len(x))
            BY <1>1, <1>3, <3>1, <3>2, HousedOn
        <3> QED
            BY <1>3, <3>3
    <2>3. ASSUME ~ t.exists, NEW a \in Slots \cup {Chat} PROVE NoRoom(p, b, u, a, l)
        <3>1. NoRoom(p, b, q, a, Len(q))
            BY <2>1, <2>3 DEF RoomFits
        <3> QED
            BY <1>1, <1>2, <3>1, NoRoomOn
    <2>4. ASSUME t.exists, NEW s \in Slots PROVE SlotHolds(p, b, u, s, Value(t, s))
        <3>1. CASE \E n \in DOMAIN T : Writes(T[n], s)
            <4>1. Veiled(x, s)
                BY <3>1, TopicsAre DEF Forgets
            <4> QED
                BY <1>1, <4>1, VeiledHolds
        <3>2. CASE \A n \in DOMAIN T : ~ Writes(T[n], s)
            <4>1. Value(w, s) = Value(t, s)
                BY <1>1, <3>2 DEF Since
            <4>2. PICK v : v = Value(t, s)
                OBVIOUS
            <4>3. SlotHolds(p, b, q, s, v)
                BY <2>1, <2>4, <4>1, <4>2 DEF RoomFits
            <4>4. \A k \in DOMAIN x : ~ Wronging(x[k], s, v)
                BY <1>1, BlurNothing
            <4>5. SlotHolds(p, b, u, s, v)
                BY <1>1, <4>3, <4>4, SlotOn
            <4> QED
                BY <4>2, <4>5
        <3> QED
            BY <3>1, <3>2
    <2> QED
        BY <1>2, <2>2, <2>3, <2>4 DEF RoomFits
<1> QED
    BY <1>4, <1>5

LEMMA LostText ==
    ASSUME NEW u, NEW q, NEW x, NEW T, NEW w, NEW t, Forgets(u, q, x, T, w, t), NEW p, NEW b,
           NEW i \in Said, NEW C, TextFits(w, t, T, p, b, q, i), w \in Rooms, t \in Rooms
    PROVE  TextFits(t, t, C, p, b, u, i)
<1>1. /\ Grown(u, q, x) /\ OnlyBlurs(x) /\ TableShape(T) /\ Since(w, T, t)
      /\ w.text[i] \in Marks /\ t.text[i] \in Marks /\ Text(i) \in All /\ Heart(i) \in All
    BY DEF Forgets, Rooms, All, Text, Heart
<1>2. PICK l : l = Len(u)
    OBVIOUS
<1>3. ASSUME NEW n \in DOMAIN T, T[n].kind \in {"insert", "unsend"}, T[n].of = i, NEW a \in {Text(i), Heart(i)}
      PROVE  Veiled(x, a)
    BY <1>1, <1>3, TopicsAre DEF Forgets
<1>4. ASSUME t.text[i] = "gone", NEW a \in {Text(i), Heart(i)} PROVE GoneHolds(p, b, u, i, a)
    <2>1. CASE w.text[i] = "gone"
        <3>1. GoneHolds(p, b, q, i, a)
            BY <1>4, <2>1 DEF TextFits
        <3> QED
            BY <1>1, <3>1, GoneOn
    <2>2. CASE w.text[i] # "gone"
        <3>1. Named(T, "unsend", i) # {} \/ Deletes(T)
            BY <1>1, <1>4, <2>2 DEF Since
        <3>2. Veiled(x, a)
            <4>1. CASE Named(T, "unsend", i) # {}
                BY <1>3, <1>4, <4>1 DEF Named
            <4>2. CASE Deletes(T)
                BY <1>1, <1>4, <4>2, LostWhole DEF Deletes, Sweeping
            <4> QED
                BY <3>1, <4>1, <4>2
        <3> QED
            BY <1>1, <3>2, VeiledHolds
    <2> QED
        BY <2>1, <2>2
<1>5. ASSUME t.text[i] \in Words, NEW a \in {Text(i), Heart(i)} PROVE Present(p, b, u, i, a, l)
    <2>1. CASE w.text[i] \in Words
        <3>1. Present(p, b, q, i, a, Len(q))
            BY <1>5, <2>1 DEF TextFits
        <3> QED
            BY <1>1, <1>2, <3>1, PresentOn
    <2>2. CASE w.text[i] = "unsaid"
        <3>1. Named(T, "insert", i) # {}
            BY <1>1, <1>5, <2>2 DEF Since, Words
        <3>2. Veiled(x, a)
            BY <1>3, <1>5, <3>1 DEF Named
        <3> QED
            BY <1>1, <1>2, <3>2, VeiledHolds
    <2>3. w.text[i] # "gone"
        BY <1>1, <1>5 DEF Since, Words
    <2> QED
        BY <1>1, <2>1, <2>2, <2>3 DEF Marks, Words
<1>6. ASSUME t.text[i] = "second" PROVE EditHolds(p, b, u, i)
    <2>1. CASE w.text[i] = "second"
        <3>1. EditHolds(p, b, q, i)
            BY <1>6, <2>1 DEF TextFits
        <3> QED
            BY <1>1, <3>1, EditOn
    <2>2. CASE w.text[i] # "second"
        <3>1. PICK n \in DOMAIN T : T[n].kind = "edit" /\ T[n].of = i
            BY <1>1, <1>6, <2>2 DEF Since, Named
        <3>2. Veiled(x, Text(i))
            BY <1>1, <3>1, TopicsAre DEF Forgets
        <3> QED
            BY <1>1, <3>2, VeiledHolds
    <2> QED
        BY <2>1, <2>2
<1>7. ASSUME t.text[i] # "gone" PROVE IF t.heart[i] THEN HeartOn(p, b, u, i) ELSE HeartOff(p, b, u, i)
    <2>1. CASE Quiet(T, i)
        <3>1. w.text[i] # "gone"
            BY <1>1, <1>7 DEF Since
        <3>2. IF t.heart[i] THEN HeartOn(p, b, q, i) ELSE HeartOff(p, b, q, i)
            BY <1>7, <2>1, <3>1 DEF TextFits
        <3>3. /\ HeartOn(p, b, q, i) => HeartOn(p, b, u, i)
              /\ HeartOff(p, b, q, i) => HeartOff(p, b, u, i)
            BY <1>1, HeartsOn
        <3> QED
            BY <3>2, <3>3
    <2>2. CASE ~ Quiet(T, i)
        <3>1. PICK n \in DOMAIN T : T[n].kind \in {"react", "unreact"} /\ T[n].of = i
            BY <2>2 DEF Quiet
        <3>2. Veiled(x, Heart(i))
            BY <1>1, <3>1, TopicsAre DEF Forgets
        <3>3. HeartOn(p, b, u, i) /\ HeartOff(p, b, u, i)
            BY <1>1, <3>2, VeiledHolds
        <3> QED
            BY <3>3
    <2> QED
        BY <2>1, <2>2
<1> QED
    BY <1>2, <1>4, <1>5, <1>6, <1>7 DEF TextFits

-----------------------------------------------------------------------------
(* The server only goes ahead: what fits the chat as it was fits it as it    *)
(* will be.                                                                  *)

\* What was said stays said, what was edited or unsent stays so.
Ahead(t, now) == \A i \in Said : /\ t.text[i] # "unsaid" => now.text[i] # "unsaid"
                                 /\ t.text[i] \in {"second", "gone"} => now.text[i] \in {"second", "gone"}
                                 /\ t.text[i] = "gone" => now.text[i] = "gone"

LEMMA SinceAhead ==
    ASSUME NEW w, NEW T, NEW t, Since(w, T, t)
    PROVE  Ahead(w, t)
BY DEF Since, Ahead

LEMMA BehindOn ==
    ASSUME NEW room, NEW t, NEW now, Behind(room, t), Ahead(t, now)
    PROVE  Behind(room, now)
BY DEF Behind, Ahead

LEMMA FitsOn ==
    ASSUME NEW e, EventShape(e), NEW t, NEW now, EventFits(e, t), Ahead(t, now)
    PROVE  EventFits(e, now)
<1>1. \A room \in Bundles(e) : Behind(room, now)
    BY BehindOn DEF EventFits
<1>2. e.kind \in {"react", "unreact", "unsend", "insert", "edit"} => e.of \in Said
    BY DEF EventShape
<1> QED
    BY <1>1, <1>2 DEF EventFits, Ahead

LEMMA MergedEvent ==
    ASSUME NEW T, TableShape(T), NEW n \in DOMAIN T, T[n].kind = "thread"
    PROVE  EventShape(Merged(T, T[n])) /\ Merged(T, T[n]).kind = "resync"
<1>1. IsList(T)
    BY DEF TableShape
<1>2. PICK e : e = Merged(T, T[n])
    OBVIOUS
<1>3. MergedAs(e, T, n)
    BY <1>1, <1>2, MergedIs
<1>4. Adds(T) \subseteq Members
    BY DEF Adds, Rows, TableShape, EventShape
<1>5. e.kind = "resync" /\ e.of \subseteq Members /\ e.full \in BOOLEAN
    <2>1. e.of = Adds(T) /\ e.kind = "resync" /\ e.full = Whole(T, T[n])
        BY <1>3 DEF MergedAs
    <2>2. Whole(T, T[n]) \in BOOLEAN
        BY DEF Whole
    <2> QED
        BY <1>4, <2>1, <2>2
<1>6. ASSUME NEW f \in Fields PROVE e.field[f] \in {0, 1}
    <2>1. \/ e.field[f] = T[n].value.field[f]
          \/ \E m \in DOMAIN T : T[m].kind = "merging" /\ e.field[f] = T[m].value
        BY <1>3 DEF MergedAs
    <2>2. T[n].value.field[f] \in {0, 1}
        BY DEF TableShape
    <2>3. \A m \in DOMAIN T : T[m].kind = "merging" => T[m].value \in {0, 1}
        BY DEF TableShape, EventShape
    <2> QED
        BY <2>1, <2>2, <2>3
<1>7. e.field \in [Fields -> {0, 1}]
    <2>1. e.field = [f \in Fields |-> e.field[f]]
        BY <1>3 DEF MergedAs
    <2> QED
        BY <1>6, <2>1
<1>8. e.fill = << >> \/ (e.fill = <<e.fill[1]>> /\ Bundle(e.fill[1]))
    <2>1. CASE e.fill = << >>
        BY <2>1
    <2>2. CASE e.fill # << >>
        <3>1. PICK m \in DOMAIN T : T[m].kind = "upsert" /\ e.fill = <<T[m]>>
            BY <1>3, <2>2 DEF MergedAs
        <3>2. Bundle(T[m])
            BY <3>1 DEF TableShape, EventShape
        <3> QED
            BY <3>1, <3>2
    <2> QED
        BY <2>1, <2>2
<1>9. EventShape(e)
    BY <1>5, <1>7, <1>8 DEF EventShape
<1> QED
    BY <1>2, <1>5, <1>9

LEMMA RenderedEvents ==
    ASSUME NEW x, NEW T, Rendered(x, T), TableShape(T), NEW now, \A n \in DOMAIN T : EventFits(T[n], now),
           NEW k \in DOMAIN x
    PROVE  EventShape(x[k]) /\ EventFits(x[k], now)
<1>1. OfTable(x, T) /\ IsList(T)
    BY DEF Rendered, TableShape
<1>2. CASE x[k].kind \in Early \cup Late
    <2>1. PICK n \in DOMAIN T : x[k] = T[n]
        BY <1>1, <1>2, KindsApart DEF OfTable
    <2> QED
        BY <2>1 DEF TableShape
<1>3. CASE x[k].kind \in {"delete", "exists", "blur"}
    <2>1. Bundles(x[k]) = {}
        BY <1>3, BringKinds
    <2> QED
        BY <1>3, <2>1 DEF EventShape, EventFits
<1>4. CASE x[k].kind = "resync"
    <2>1. \A room \in Bundles(x[k]) : Behind(room, now)
        BY <1>1, BundlesOf DEF EventFits
    <2>2. EventFits(x[k], now)
        BY <1>4, <2>1 DEF EventFits
    <2>3. ~ Deletes(T) /\ Threads(T) # {}
        BY <1>4 DEF Rendered, Closing, Listing
    <2>4. Merging1(x, T)
        BY <2>3 DEF Rendered
    <2>5. k = 1
        BY <1>4, <2>4, KindsApart DEF Merging1
    <2>6. PICK n \in Threads(T) : x[1] = Merged(T, T[n])
        BY <2>4 DEF Merging1
    <2>7. n \in DOMAIN T /\ T[n].kind = "thread"
        BY DEF Threads, Rows
    <2> QED
        BY <2>2, <2>5, <2>6, <2>7, MergedEvent
<1> QED
    BY <1>1, <1>2, <1>3, <1>4 DEF OfTable

-----------------------------------------------------------------------------
(* Rows behind rows: what led to the chat before leads on to the chat after. *)

LEMMA JoinedTable ==
    ASSUME NEW T2, NEW T, NEW rows, Grown(T2, T, rows)
    PROVE  /\ \A k \in DOMAIN T : k \in DOMAIN T2 /\ T2[k] = T[k] /\ k \in Nat /\ k <= Len(T)
           /\ \A l \in DOMAIN rows : /\ l + Len(T) \in DOMAIN T2 /\ T2[l + Len(T)] = rows[l]
                                     /\ \A k \in DOMAIN T : l + Len(T) > k
           /\ \A l, m \in DOMAIN rows : m > l => m + Len(T) > l + Len(T)
           /\ \A k \in DOMAIN T2 : \/ k \in DOMAIN T /\ T2[k] = T[k]
                                   \/ \E l \in DOMAIN rows : k = l + Len(T) /\ T2[k] = rows[l]
<1>1. ASSUME NEW k \in DOMAIN T PROVE k \in DOMAIN T2 /\ T2[k] = T[k] /\ k \in Nat /\ k <= Len(T)
    BY <1>1 DEF Grown
<1>2. ASSUME NEW l \in DOMAIN rows
      PROVE  l + Len(T) \in DOMAIN T2 /\ T2[l + Len(T)] = rows[l] /\ \A k \in DOMAIN T : l + Len(T) > k
    BY <1>2 DEF Grown
<1>3. ASSUME NEW l \in DOMAIN rows, NEW m \in DOMAIN rows, m > l PROVE m + Len(T) > l + Len(T)
    BY <1>3 DEF Grown
<1>4. ASSUME NEW k \in DOMAIN T2
      PROVE  \/ k \in DOMAIN T /\ T2[k] = T[k]
             \/ \E l \in DOMAIN rows : k = l + Len(T) /\ T2[k] = rows[l]
    BY <1>4, GrownAt
<1> QED
    BY <1>1, <1>2, <1>3, <1>4

LEMMA JoinedRows ==
    ASSUME NEW T2, NEW T, NEW rows, Grown(T2, T, rows)
    PROVE  /\ Deletes(T2) <=> Deletes(T) \/ Deletes(rows)
           /\ \A kind, i : Named(T2, kind, i) = {} <=> Named(T, kind, i) = {} /\ Named(rows, kind, i) = {}
           /\ \A i : Quiet(T2, i) <=> Quiet(T, i) /\ Quiet(rows, i)
           /\ \A those : Rows(T2, those) = {} <=> Rows(T, those) = {} /\ Rows(rows, those) = {}
           /\ \A s : (\A n \in DOMAIN T2 : ~ Writes(T2[n], s)) =>
                        (\A n \in DOMAIN T : ~ Writes(T[n], s)) /\ \A n \in DOMAIN rows : ~ Writes(rows[n], s)
           /\ \A i : Olds(T, i) = {} /\ Olds(rows, i) = {} => Olds(T2, i) = {}
<1>1. Deletes(T2) <=> Deletes(T) \/ Deletes(rows)
    BY JoinedTable DEF Deletes
<1>2. ASSUME NEW kind, NEW i PROVE Named(T2, kind, i) = {} <=> Named(T, kind, i) = {} /\ Named(rows, kind, i) = {}
    BY JoinedTable DEF Named
<1>3. ASSUME NEW i PROVE Quiet(T2, i) <=> Quiet(T, i) /\ Quiet(rows, i)
    BY JoinedTable DEF Quiet
<1>4. ASSUME NEW those PROVE Rows(T2, those) = {} <=> Rows(T, those) = {} /\ Rows(rows, those) = {}
    BY JoinedTable DEF Rows
<1>5. ASSUME NEW s, \A n \in DOMAIN T2 : ~ Writes(T2[n], s)
      PROVE  (\A n \in DOMAIN T : ~ Writes(T[n], s)) /\ \A n \in DOMAIN rows : ~ Writes(rows[n], s)
    <2>1. ASSUME NEW n \in DOMAIN T PROVE ~ Writes(T[n], s)
        <3>1. n \in DOMAIN T2 /\ T2[n] = T[n]
            BY <2>1, JoinedTable
        <3>2. ~ Writes(T2[n], s)
            BY <1>5, <3>1
        <3> QED
            BY <3>1, <3>2
    <2>2. ASSUME NEW n \in DOMAIN rows PROVE ~ Writes(rows[n], s)
        <3>1. n + Len(T) \in DOMAIN T2 /\ T2[n + Len(T)] = rows[n]
            BY <2>2, JoinedTable
        <3>2. ~ Writes(T2[n + Len(T)], s)
            BY <1>5, <3>1
        <3> QED
            BY <3>1, <3>2
    <2> QED
        BY <2>1, <2>2
<1>6. ASSUME NEW i, Olds(T, i) = {}, Olds(rows, i) = {} PROVE Olds(T2, i) = {}
    BY <1>6, JoinedTable DEF Olds, Named
<1> QED
    BY <1>1, <1>2, <1>3, <1>4, <1>5, <1>6

\* What an operation of the server does to the chat and says about it, in rows behind those of T.
Moves(t, T, rows, t2) ==
    /\ TableShape(rows) /\ rows # << >> /\ ChatSound(t2) /\ Since(t, rows, t2) /\ TableFits(rows, t2)
    /\ \A v \in t2.members : v \notin t.members => Named(rows, "add", v) # {}
    /\ Rows(rows, {"thread"}) # {} => \/ \A v \in t2.members : Named(rows, "add", v) # {}
                                      \/ t.exists /\ Rows(T, {"exists"}) = {}

LEMMA SinceJoins ==
    ASSUME NEW T2, NEW T, NEW rows, Grown(T2, T, rows), NEW w \in Rooms, NEW t \in Rooms, NEW t2 \in Rooms,
           Since(w, T, t), TableFits(T, t), IsList(T), Moves(t, T, rows, t2)
    PROVE  Since(w, T2, t2)
<1>1. Since(t, rows, t2)
    BY DEF Moves
<1>2. ASSUME NEW i \in Said
      PROVE  /\ w.text[i] = "unsaid" /\ t2.text[i] # "unsaid" => Named(T2, "insert", i) # {}
             /\ w.text[i] # "second" /\ t2.text[i] = "second" => Named(T2, "edit", i) # {}
             /\ w.text[i] # "gone" /\ t2.text[i] = "gone" => Named(T2, "unsend", i) # {} \/ Deletes(T2)
             /\ w.text[i] = "gone" => t2.text[i] = "gone"
             /\ w.text[i] # "unsaid" => t2.text[i] # "unsaid"
             /\ w.text[i] = "second" => t2.text[i] \in {"second", "gone"}
    BY <1>1, JoinedRows DEF Since
<1>3. ASSUME NEW i \in Said, Quiet(T2, i), t2.text[i] # "gone" PROVE w.heart[i] = t2.heart[i]
    <2>1. Quiet(T, i) /\ Quiet(rows, i) /\ t.text[i] # "gone"
        BY <1>1, <1>3, JoinedRows DEF Since
    <2>2. w.heart[i] = t.heart[i] /\ t.heart[i] = t2.heart[i]
        BY <1>1, <1>3, <2>1 DEF Since
    <2> QED
        BY <2>2, Zenon
<1>4. ASSUME NEW s \in Slots, \A n \in DOMAIN T2 : ~ Writes(T2[n], s) PROVE Value(w, s) = Value(t2, s)
    <2>1. (\A n \in DOMAIN T : ~ Writes(T[n], s)) /\ \A n \in DOMAIN rows : ~ Writes(rows[n], s)
        BY <1>4, JoinedRows
    <2>2. Value(w, s) = Value(t, s) /\ Value(t, s) = Value(t2, s)
        BY <1>1, <2>1 DEF Since
    <2> QED
        BY <2>2, Zenon
<1>5. ASSUME Rows(T2, {"exists", "thread"}) = {}, ~ Deletes(T2) PROVE w.exists = t2.exists
    <2>1. Rows(T, {"exists", "thread"}) = {} /\ Rows(rows, {"exists", "thread"}) = {} /\ ~ Deletes(T) /\ ~ Deletes(rows)
        BY <1>5, JoinedRows
    <2>2. w.exists = t.exists /\ t.exists = t2.exists
        BY <1>1, <2>1 DEF Since
    <2> QED
        BY <2>2, Zenon
<1>6. ASSUME ~ w.exists, t2.exists, ~ Deletes(T2), Rows(T2, {"thread"}) # {}, NEW v \in t2.members
      PROVE  Named(T2, "add", v) # {}
    <2>1. ~ Deletes(T) /\ ~ Deletes(rows) /\ (Rows(T, {"thread"}) # {} \/ Rows(rows, {"thread"}) # {})
        BY <1>6, JoinedRows
    <2>2. CASE v \notin t.members
        <3>1. Named(rows, "add", v) # {}
            BY <1>6, <2>2 DEF Moves
        <3> QED
            BY <3>1, JoinedRows
    <2>3. CASE v \in t.members /\ Rows(T, {"thread"}) # {}
        <3>1. T # << >> /\ Len(T) \in DOMAIN T
            <4>1. DOMAIN T # {}
                BY <2>3 DEF Rows
            <4>2. T # << >>
                BY <4>1, NoList
            <4> QED
                BY <4>2, TableIs
        <3>2. t.exists
            BY <2>1, <3>1 DEF TableFits, Deletes
        <3>3. Named(T, "add", v) # {}
            BY <1>6, <2>1, <2>3, <3>2 DEF Since
        <3> QED
            BY <3>3, JoinedRows
    <2>4. CASE Rows(T, {"thread"}) = {} /\ Rows(rows, {"thread"}) # {}
        <3>1. CASE \A l \in t2.members : Named(rows, "add", l) # {}
            <4>1. Named(rows, "add", v) # {}
                BY <1>6, <3>1
            <4> QED
                BY <4>1, JoinedRows
        <3>2. CASE t.exists /\ Rows(T, {"exists"}) = {}
            <4>1. Rows(T, {"exists", "thread"}) = {}
                BY <2>4, <3>2 DEF Rows
            <4>2. w.exists = t.exists
                BY <2>1, <4>1 DEF Since
            <4> QED
                BY <1>6, <3>2, <4>2, Zenon
        <3> QED
            BY <2>4, <3>1, <3>2 DEF Moves
    <2> QED
        BY <2>1, <2>2, <2>3, <2>4
<1>7. ~ w.exists /\ t2.exists /\ ~ Deletes(T2) /\ Rows(T2, {"thread"}) # {} => \A v \in t2.members : Named(T2, "add", v) # {}
    BY <1>6
<1> QED
    BY <1>2, <1>3, <1>4, <1>5, <1>7 DEF Since

-----------------------------------------------------------------------------
(* And what the rows say last is so, if what they said was, and what the new *)
(* ones say is.                                                              *)

Closed(T, t) == T # << >> => t.exists = ~ Deleting(T[Len(T)])
SlotFits(T, t, s, n) ==
    /\ Writes(T[n], s) => Written(T[n], s) = Value(t, s) \/ \E m \in DOMAIN T : m > n /\ Writes(T[m], s)
    /\ T[n].kind = "thread" =>
         \/ \E m \in DOMAIN T : m > n /\ Writes(T[m], s)
         \/ (IF s[1] = "field" THEN T[n].value.field[s[2]] ELSE s[2] \in T[n].value.who) = Value(t, s)
MarkFitsIn(T, t, i) ==
    /\ t.text[i] = "gone" /\ Named(T, "unsend", i) = {} /\ ~ Deletes(T) => \A n \in DOMAIN T : ~ Brings(T[n], i)
    /\ t.text[i] \in Words => Named(T, "unsend", i) = {}
    /\ t.text[i] = "second" /\ Named(T, "edit", i) = {} => Olds(T, i) = {}
Answered(T, i, n) == \E m \in DOMAIN T : m > n /\ T[m].kind \in {"react", "unreact"} /\ T[m].of = i
BeatFits(T, t, i, n) ==
    /\ T[n].kind \in {"react", "unreact"} /\ T[n].of = i => (T[n].kind = "react") = t.heart[i] \/ Answered(T, i, n)
    /\ \A room \in Bundles(T[n]) : i \in Shown(room) => room.heart[i] = t.heart[i] \/ Answered(T, i, n)

LEMMA TableParts ==
    ASSUME NEW T, NEW t
    PROVE  TableFits(T, t) <=> /\ Closed(T, t)
                               /\ \A s \in Slots : \A n \in DOMAIN T : SlotFits(T, t, s, n)
                               /\ \A i \in Said : MarkFitsIn(T, t, i)
                               /\ \A i \in Said : t.text[i] \in Words => \A n \in DOMAIN T : BeatFits(T, t, i, n)
                               /\ \A n \in DOMAIN T : EventFits(T[n], t)
<1>1. ASSUME TableFits(T, t)
      PROVE  /\ Closed(T, t)
             /\ \A s \in Slots : \A n \in DOMAIN T : SlotFits(T, t, s, n)
             /\ \A i \in Said : MarkFitsIn(T, t, i)
             /\ \A n \in DOMAIN T : EventFits(T[n], t)
    BY <1>1 DEF TableFits, Closed, SlotFits, MarkFitsIn
<1>2. ASSUME TableFits(T, t), NEW i \in Said, t.text[i] \in Words, NEW n \in DOMAIN T PROVE BeatFits(T, t, i, n)
    BY <1>2 DEF TableFits, BeatFits, Answered
<1>3. ASSUME Closed(T, t),
             \A s \in Slots : \A n \in DOMAIN T : SlotFits(T, t, s, n),
             \A i \in Said : MarkFitsIn(T, t, i),
             \A i \in Said : t.text[i] \in Words => \A n \in DOMAIN T : BeatFits(T, t, i, n),
             \A n \in DOMAIN T : EventFits(T[n], t)
      PROVE  TableFits(T, t)
    <2>1. T # << >> => t.exists = ~ Deleting(T[Len(T)])
        BY <1>3 DEF Closed
    <2>2. \A s \in Slots : \A n \in DOMAIN T :
            /\ Writes(T[n], s) => Written(T[n], s) = Value(t, s) \/ \E m \in DOMAIN T : m > n /\ Writes(T[m], s)
            /\ T[n].kind = "thread" =>
                 \/ \E m \in DOMAIN T : m > n /\ Writes(T[m], s)
                 \/ (IF s[1] = "field" THEN T[n].value.field[s[2]] ELSE s[2] \in T[n].value.who) = Value(t, s)
        BY <1>3, Zenon DEF SlotFits
    <2>3. \A i \in Said :
            /\ t.text[i] = "gone" /\ Named(T, "unsend", i) = {} /\ ~ Deletes(T) => \A n \in DOMAIN T : ~ Brings(T[n], i)
            /\ t.text[i] \in Words => Named(T, "unsend", i) = {}
            /\ t.text[i] = "second" /\ Named(T, "edit", i) = {} => Olds(T, i) = {}
        BY <1>3, Zenon DEF MarkFitsIn
    <2>4. \A i \in Said : t.text[i] \in Words => \A n \in DOMAIN T :
            /\ T[n].kind \in {"react", "unreact"} /\ T[n].of = i =>
                 \/ (T[n].kind = "react") = t.heart[i]
                 \/ \E m \in DOMAIN T : m > n /\ T[m].kind \in {"react", "unreact"} /\ T[m].of = i
            /\ \A room \in Bundles(T[n]) : i \in Shown(room) =>
                 \/ room.heart[i] = t.heart[i]
                 \/ \E m \in DOMAIN T : m > n /\ T[m].kind \in {"react", "unreact"} /\ T[m].of = i
        BY <1>3, Zenon DEF BeatFits, Answered
    <2> QED
        BY <1>3, <2>1, <2>2, <2>3, <2>4 DEF TableFits
<1> QED
    BY <1>1, <1>2, <1>3

LEMMA ShapeJoins ==
    ASSUME NEW T2, NEW T, NEW rows, Grown(T2, T, rows), IsList(T2), TableShape(T), TableShape(rows)
    PROVE  TableShape(T2)
<1>1. ASSUME NEW n \in DOMAIN T2
      PROVE  /\ T2[n].kind \in Early \cup Late \cup {"exists", "thread", "deletethread"} /\ EventShape(T2[n])
             /\ T2[n].kind = "merging" => T2[n].of \in Merging
             /\ T2[n].kind = "set" => T2[n].of \notin Merging
             /\ T2[n].kind = "thread" => T2[n].value.field \in [Fields -> {0, 1}] /\ T2[n].value.who \subseteq Members
    <2>1. CASE n \in DOMAIN T /\ T2[n] = T[n]
        BY <2>1 DEF TableShape
    <2>2. CASE \E l \in DOMAIN rows : T2[n] = rows[l]
        BY <2>2 DEF TableShape
    <2> QED
        BY <2>1, <2>2, JoinedTable
<1> QED
    BY <1>1 DEF TableShape

LEMMA SlotJoins ==
    ASSUME NEW T2, NEW T, NEW rows, Grown(T2, T, rows), NEW t, NEW t2, TableFits(T, t), TableFits(rows, t2),
           Since(t, rows, t2), NEW s \in Slots, NEW n \in DOMAIN T2
    PROVE  SlotFits(T2, t2, s, n)
<1>1. CASE \E l \in DOMAIN rows : n = l + Len(T) /\ T2[n] = rows[l]
    <2>1. PICK l \in DOMAIN rows : n = l + Len(T) /\ T2[n] = rows[l]
        BY <1>1
    <2>2. SlotFits(rows, t2, s, l)
        BY TableParts
    <2>3. ASSUME NEW m \in DOMAIN rows, m > l, Writes(rows[m], s)
          PROVE  \E k \in DOMAIN T2 : k > n /\ Writes(T2[k], s)
        <3>1. m + Len(T) \in DOMAIN T2 /\ T2[m + Len(T)] = rows[m] /\ m + Len(T) > n
            BY <2>1, <2>3, JoinedTable
        <3> QED
            BY <2>3, <3>1
    <2> QED
        BY <2>1, <2>2, <2>3 DEF SlotFits
<1>2. CASE n \in DOMAIN T /\ T2[n] = T[n] /\ \E l \in DOMAIN rows : Writes(rows[l], s)
    <2>1. PICK l \in DOMAIN rows : Writes(rows[l], s)
        BY <1>2
    <2>2. l + Len(T) \in DOMAIN T2 /\ T2[l + Len(T)] = rows[l] /\ l + Len(T) > n
        BY <1>2, JoinedTable
    <2>3. \E k \in DOMAIN T2 : k > n /\ Writes(T2[k], s)
        BY <2>1, <2>2
    <2> QED
        BY <2>3 DEF SlotFits
<1>3. CASE n \in DOMAIN T /\ T2[n] = T[n] /\ \A l \in DOMAIN rows : ~ Writes(rows[l], s)
    <2>1. Value(t, s) = Value(t2, s)
        BY <1>3 DEF Since
    <2>2. SlotFits(T, t, s, n)
        BY <1>3, TableParts
    <2>3. ASSUME NEW m \in DOMAIN T, m > n, Writes(T[m], s) PROVE \E k \in DOMAIN T2 : k > n /\ Writes(T2[k], s)
        BY <2>3, JoinedTable
    <2>4. ASSUME Writes(T2[n], s), ~ \E k \in DOMAIN T2 : k > n /\ Writes(T2[k], s) PROVE Written(T2[n], s) = Value(t2, s)
        <3>1. Writes(T[n], s) /\ ~ \E k \in DOMAIN T : k > n /\ Writes(T[k], s)
            BY <1>3, <2>3, <2>4
        <3>2. Written(T[n], s) = Value(t, s)
            BY <2>2, <3>1 DEF SlotFits
        <3>3. Written(T2[n], s) = Written(T[n], s)
            BY <1>3
        <3> QED
            BY <2>1, <3>2, <3>3, Zenon
    <2>5. ASSUME T2[n].kind = "thread", ~ \E k \in DOMAIN T2 : k > n /\ Writes(T2[k], s)
          PROVE  (IF s[1] = "field" THEN T2[n].value.field[s[2]] ELSE s[2] \in T2[n].value.who) = Value(t2, s)
        <3> DEFINE Told(r) == IF s[1] = "field" THEN r.value.field[s[2]] ELSE s[2] \in r.value.who
        <3>1. T[n].kind = "thread" /\ ~ \E k \in DOMAIN T : k > n /\ Writes(T[k], s)
            BY <1>3, <2>3, <2>5
        <3>2. Told(T[n]) = Value(t, s)
            BY <2>2, <3>1 DEF SlotFits
        <3>3. Told(T2[n]) = Told(T[n])
            BY <1>3
        <3>4. Told(T2[n]) = Value(t2, s)
            <4> HIDE DEF Told
            <4> QED
                BY <2>1, <3>2, <3>3, Zenon
        <3> QED
            BY <3>4
    <2> QED
        BY <2>4, <2>5 DEF SlotFits
<1> QED
    BY <1>1, <1>2, <1>3, JoinedTable

LEMMA MarkJoins ==
    ASSUME NEW T2, NEW T, NEW rows, Grown(T2, T, rows), NEW t \in Rooms, NEW t2 \in Rooms, TableFits(T, t), TableFits(rows, t2),
           Since(t, rows, t2), NEW i \in Said
    PROVE  MarkFitsIn(T2, t2, i)
<1>1. MarkFitsIn(T, t, i) /\ MarkFitsIn(rows, t2, i) /\ \A n \in DOMAIN T : EventFits(T[n], t)
    BY TableParts
<1>2. t.text[i] \in Marks /\ t2.text[i] \in Marks
    BY DEF Rooms
<1>3. ASSUME t2.text[i] = "gone", Named(T2, "unsend", i) = {}, ~ Deletes(T2), NEW n \in DOMAIN T2 PROVE ~ Brings(T2[n], i)
    <2>1. Named(T, "unsend", i) = {} /\ Named(rows, "unsend", i) = {} /\ ~ Deletes(T) /\ ~ Deletes(rows)
        BY <1>3, JoinedRows
    <2>2. t.text[i] = "gone"
        BY <1>3, <2>1 DEF Since
    <2>3. (\A k \in DOMAIN T : ~ Brings(T[k], i)) /\ \A k \in DOMAIN rows : ~ Brings(rows[k], i)
        BY <1>1, <1>3, <2>1, <2>2 DEF MarkFitsIn
    <2>4. CASE n \in DOMAIN T /\ T2[n] = T[n]
        BY <2>3, <2>4
    <2>5. CASE \E l \in DOMAIN rows : T2[n] = rows[l]
        BY <2>3, <2>5
    <2> QED
        BY <2>4, <2>5, JoinedTable
<1>4. ASSUME t2.text[i] \in Words PROVE Named(T2, "unsend", i) = {}
    <2>1. Named(rows, "unsend", i) = {} /\ t.text[i] # "gone"
        BY <1>1, <1>4 DEF MarkFitsIn, Since, Words
    <2>2. CASE t.text[i] \in Words
        BY <1>1, <2>1, <2>2, JoinedRows DEF MarkFitsIn
    <2>3. CASE t.text[i] = "unsaid"
        <3>1. Named(T, "unsend", i) = {}
            BY <1>1, <2>3 DEF EventFits, Named
        <3> QED
            BY <2>1, <3>1, JoinedRows
    <2> QED
        BY <1>2, <2>1, <2>2, <2>3 DEF Marks, Words
<1>5. ASSUME t2.text[i] = "second", Named(T2, "edit", i) = {} PROVE Olds(T2, i) = {}
    <2>1. Named(T, "edit", i) = {} /\ Named(rows, "edit", i) = {}
        BY <1>5, JoinedRows
    <2>2. t.text[i] = "second"
        BY <1>5, <2>1 DEF Since
    <2>3. Olds(T, i) = {} /\ Olds(rows, i) = {}
        BY <1>1, <1>5, <2>1, <2>2 DEF MarkFitsIn
    <2> QED
        BY <2>3, JoinedRows
<1> QED
    BY <1>3, <1>4, <1>5 DEF MarkFitsIn

LEMMA BeatJoins ==
    ASSUME NEW T2, NEW T, NEW rows, Grown(T2, T, rows), NEW t \in Rooms, NEW t2 \in Rooms, TableFits(T, t), TableFits(rows, t2),
           Since(t, rows, t2), NEW i \in Said, t2.text[i] \in Words, NEW n \in DOMAIN T2
    PROVE  BeatFits(T2, t2, i, n)
<1>1. CASE \E l \in DOMAIN rows : n = l + Len(T) /\ T2[n] = rows[l]
    <2>1. PICK l \in DOMAIN rows : n = l + Len(T) /\ T2[n] = rows[l]
        BY <1>1
    <2>2. BeatFits(rows, t2, i, l)
        BY TableParts
    <2>3. Answered(rows, i, l) => Answered(T2, i, n)
        BY <2>1, JoinedTable DEF Answered
    <2> QED
        BY <2>1, <2>2, <2>3 DEF BeatFits
<1>2. CASE n \in DOMAIN T /\ T2[n] = T[n] /\ ~ Quiet(rows, i)
    <2>1. Answered(T2, i, n)
        BY <1>2, JoinedTable DEF Answered, Quiet
    <2> QED
        BY <2>1 DEF BeatFits
<1>3. CASE n \in DOMAIN T /\ T2[n] = T[n] /\ Quiet(rows, i)
    <2>1. t.heart[i] = t2.heart[i]
        BY <1>3 DEF Since, Words
    <2>2. Answered(T, i, n) => Answered(T2, i, n)
        BY JoinedTable DEF Answered
    <2>3. t.text[i] # "gone" /\ t.text[i] \in Marks
        BY DEF Since, Words, Rooms
    <2>4. CASE t.text[i] \in Words
        <3>1. BeatFits(T, t, i, n)
            BY <1>3, <2>4, TableParts
        <3>2. ASSUME T2[n].kind \in {"react", "unreact"}, T2[n].of = i, ~ Answered(T2, i, n)
              PROVE  (T2[n].kind = "react") = t2.heart[i]
            <4>1. (T[n].kind = "react") = t.heart[i]
                BY <1>3, <2>2, <3>1, <3>2 DEF BeatFits
            <4> QED
                BY <1>3, <2>1, <4>1, Zenon
        <3>3. ASSUME NEW room \in Bundles(T2[n]), i \in Shown(room), ~ Answered(T2, i, n) PROVE room.heart[i] = t2.heart[i]
            <4>1. room.heart[i] = t.heart[i]
                BY <1>3, <2>2, <3>1, <3>3 DEF BeatFits
            <4> QED
                BY <2>1, <4>1, Zenon
        <3> QED
            BY <3>2, <3>3 DEF BeatFits
    <2>5. CASE t.text[i] = "unsaid"
        <3>1. EventFits(T[n], t)
            BY <1>3, TableParts
        <3>2. ~ (T2[n].kind \in {"react", "unreact"} /\ T2[n].of = i)
            BY <1>3, <2>5, <3>1 DEF EventFits
        <3>3. \A room \in Bundles(T2[n]) : i \notin Shown(room)
            BY <1>3, <2>5, <3>1 DEF EventFits, Behind
        <3> QED
            BY <3>2, <3>3 DEF BeatFits
    <2> QED
        BY <2>3, <2>4, <2>5 DEF Marks, Words
<1> QED
    BY <1>1, <1>2, <1>3, JoinedTable

LEMMA TableJoins ==
    ASSUME NEW T2, NEW T, NEW rows, Grown(T2, T, rows), NEW t \in Rooms, NEW t2 \in Rooms, TableFits(T, t), TableShape(T),
           Moves(t, T, rows, t2)
    PROVE  TableFits(T2, t2)
<1>1. TableFits(rows, t2) /\ Since(t, rows, t2) /\ rows # << >> /\ IsList(rows)
    BY DEF Moves, TableShape
<1>2. Closed(T2, t2)
    <2>1. Len(rows) \in DOMAIN rows /\ Len(T2) = Len(rows) + Len(T)
        BY <1>1, TableIs DEF Grown
    <2>2. T2[Len(T2)] = rows[Len(rows)]
        BY <2>1, JoinedTable
    <2>3. t2.exists = ~ Deleting(rows[Len(rows)])
        BY <1>1 DEF TableFits
    <2> QED
        BY <2>2, <2>3 DEF Closed
<1>3. ASSUME NEW n \in DOMAIN T2 PROVE EventFits(T2[n], t2)
    <2>1. CASE n \in DOMAIN T /\ T2[n] = T[n]
        <3>1. EventFits(T[n], t) /\ EventShape(T[n])
            BY <2>1, TableParts DEF TableShape
        <3>2. Ahead(t, t2)
            BY <1>1, SinceAhead
        <3> QED
            BY <2>1, <3>1, <3>2, FitsOn
    <2>2. CASE \E l \in DOMAIN rows : T2[n] = rows[l]
        BY <1>1, <2>2, TableParts
    <2> QED
        BY <2>1, <2>2, JoinedTable
<1>4. \A s \in Slots : \A n \in DOMAIN T2 : SlotFits(T2, t2, s, n)
    BY <1>1, SlotJoins
<1>5. \A i \in Said : MarkFitsIn(T2, t2, i)
    BY <1>1, MarkJoins
<1>6. \A i \in Said : t2.text[i] \in Words => \A n \in DOMAIN T2 : BeatFits(T2, t2, i, n)
    BY <1>1, BeatJoins
<1> QED
    BY <1>2, <1>3, <1>4, <1>5, <1>6, TableParts

-----------------------------------------------------------------------------
(* The invariant, for the five ways in which it may change.                  *)

Follows(was, t, T, R, p, b, q) ==
    /\ ChatSound(was) /\ ChatSound(t) /\ RoomSound(p, t)
    /\ RoomFits(was, p, b, q) /\ \A i \in Said : TextFits(was, t, T, p, b, q, i)
    /\ Since(was, T, t) /\ TableFits(T, t) /\ TableFits(R, was)
    /\ TableShape(T) /\ TableShape(R)
    /\ IsList(q) /\ \A k \in DOMAIN q : EventShape(q[k]) /\ EventFits(q[k], t)

LEMMA SinceSelf ==
    ASSUME NEW T, NEW t
    PROVE  Since(t, T, t)
BY DEF Since

LEMMA NothingFits ==
    ASSUME NEW t
    PROVE  TableFits(<< >>, t) /\ TableShape(<< >>)
<1>1. PICK e : e = << >>
    OBVIOUS
<1>2. IsList(e) /\ DOMAIN e = {}
    BY <1>1, NoList
<1>3. TableShape(e)
    BY <1>2 DEF TableShape
<1>4. \A i \in Said : MarkFitsIn(e, t, i)
    BY <1>2 DEF MarkFitsIn, Named, Olds
<1>5. TableFits(e, t)
    BY <1>1, <1>2, <1>4, TableParts DEF Closed
<1> QED
    BY <1>1, <1>3, <1>5

LEMMA QuietNothing == \A i : Quiet(<< >>, i)
BY NoList DEF Quiet

LEMMA EventsOn ==
    ASSUME NEW u, NEW q, NEW x, Grown(u, q, x), NEW now,
           \A k \in DOMAIN q : EventShape(q[k]) /\ EventFits(q[k], now),
           \A k \in DOMAIN x : EventShape(x[k]) /\ EventFits(x[k], now)
    PROVE  \A k \in DOMAIN u : EventShape(u[k]) /\ EventFits(u[k], now)
<1>1. ASSUME NEW k \in DOMAIN u PROVE EventShape(u[k]) /\ EventFits(u[k], now)
    <2>1. CASE k \in DOMAIN q /\ u[k] = q[k]
        BY <2>1
    <2>2. CASE \E j \in DOMAIN x : u[k] = x[j]
        BY <2>2
    <2> QED
        BY <2>1, <2>2, GrownAt
<1> QED
    BY <1>1

LEMMA BlurEvents ==
    ASSUME NEW x, OnlyBlurs(x), NEW now, NEW k \in DOMAIN x
    PROVE  EventShape(x[k]) /\ EventFits(x[k], now)
<1>1. x[k].kind = "blur" /\ Bundles(x[k]) = {}
    BY BringKinds DEF OnlyBlurs
<1> QED
    BY <1>1 DEF EventShape, EventFits

\* A table is parsed when it arrives.
LEMMA PushFollows ==
    ASSUME NEW was, NEW t, NEW T, NEW R, NEW p, NEW b, NEW q, Follows(was, t, T, R, p, b, q), T # << >>,
           NEW x, Rendered(x, T), \A a \in Conflicts(T) : Veiled(x, a), NEW u, Abuts(u, q, x), NEW R2, R2 \in {T, << >>}
    PROVE  Follows(t, t, << >>, R2, p, b, u)
<1>1. PICK e : e = << >>
    OBVIOUS
<1>2. /\ ChatSound(was) /\ ChatSound(t) /\ RoomSound(p, t) /\ RoomFits(was, p, b, q)
      /\ Since(was, T, t) /\ TableFits(T, t) /\ TableShape(T) /\ IsList(q) /\ IsList(x) /\ IsList(T)
      /\ was \in Rooms /\ t \in Rooms
      /\ \A k \in DOMAIN q : EventShape(q[k]) /\ EventFits(q[k], t)
    BY DEF Follows, ChatSound, Rendered, TableShape
<1>3. Grown(u, q, x) /\ IsList(u)
    BY <1>2, GrownIs
<1>4. Meets(u, q, x, T, was, t)
    BY <1>2, <1>3 DEF Meets
<1>5. RoomFits(t, p, b, u)
    <2>1. ~ p.exists => p = Unborn
        BY <1>2 DEF RoomSound
    <2> QED
        BY <1>2, <1>4, <2>1, RoomMeets
<1>6. ASSUME NEW i \in Said PROVE TextFits(t, t, e, p, b, u, i)
    <2>1. TextFits(was, t, T, p, b, q, i)
        BY DEF Follows
    <2>2. Onward(t, t, i)
        BY DEF Onward
    <2> QED
        BY <1>2, <1>4, <2>1, <2>2, TextMeets
<1>7. \A k \in DOMAIN x : EventShape(x[k]) /\ EventFits(x[k], t)
    <2>1. \A n \in DOMAIN T : EventFits(T[n], t)
        BY <1>2, TableParts
    <2> QED
        BY <1>2, <2>1, RenderedEvents
<1>8. \A k \in DOMAIN u : EventShape(u[k]) /\ EventFits(u[k], t)
    BY <1>2, <1>3, <1>7, EventsOn
<1>9. TableFits(e, t) /\ TableShape(e) /\ Since(t, e, t)
    BY <1>1, NothingFits, SinceSelf
<1>10. TableFits(R2, t) /\ TableShape(R2)
    BY <1>1, <1>2, <1>9
<1>11. Follows(t, t, e, R2, p, b, u)
    BY <1>2, <1>3, <1>5, <1>6, <1>8, <1>9, <1>10 DEF Follows
<1> QED
    BY <1>1, <1>11

\* The last table comes again.
LEMMA ResendFollows ==
    ASSUME NEW was, NEW t, NEW T, NEW R, NEW p, NEW b, NEW q, Follows(was, t, T, R, p, b, q), R # << >>,
           NEW x, Rendered(x, R), \A a \in Conflicts(R) : Veiled(x, a), NEW u, Abuts(u, q, x)
    PROVE  Follows(was, t, T, << >>, p, b, u)
<1>1. PICK e : e = << >>
    OBVIOUS
<1>2. /\ ChatSound(was) /\ ChatSound(t) /\ RoomSound(p, t) /\ RoomFits(was, p, b, q)
      /\ Since(was, T, t) /\ TableFits(T, t) /\ TableShape(T) /\ IsList(q) /\ IsList(x)
      /\ TableFits(R, was) /\ TableShape(R)
      /\ was \in Rooms /\ t \in Rooms
      /\ \A k \in DOMAIN q : EventShape(q[k]) /\ EventFits(q[k], t)
    BY DEF Follows, ChatSound, Rendered
<1>3. Grown(u, q, x) /\ IsList(u)
    BY <1>2, GrownIs
<1>4. Meets(u, q, x, R, was, was)
    BY <1>2, <1>3, SinceSelf DEF Meets
<1>5. RoomFits(was, p, b, u)
    <2>1. ~ p.exists => p = Unborn
        BY <1>2 DEF RoomSound
    <2> QED
        BY <1>2, <1>4, <2>1, RoomMeets
<1>6. ASSUME NEW i \in Said PROVE TextFits(was, t, T, p, b, u, i)
    <2>1. TextFits(was, t, T, p, b, q, i)
        BY DEF Follows
    <2>2. Onward(was, t, i)
        BY <1>2 DEF Onward, Since
    <2>3. Quiet(T, i) /\ t.text[i] # "gone" => was.heart[i] = t.heart[i]
        BY <1>2 DEF Since
    <2> QED
        BY <1>2, <1>4, <2>1, <2>2, <2>3, TextMeets
<1>7. \A k \in DOMAIN x : EventShape(x[k]) /\ EventFits(x[k], t)
    <2>1. Ahead(was, t)
        BY <1>2, SinceAhead
    <2>2. ASSUME NEW n \in DOMAIN R PROVE EventFits(R[n], t)
        <3>1. EventFits(R[n], was) /\ EventShape(R[n])
            BY <1>2, TableParts DEF TableShape
        <3> QED
            BY <2>1, <3>1, FitsOn
    <2> QED
        BY <1>2, <2>2, RenderedEvents
<1>8. \A k \in DOMAIN u : EventShape(u[k]) /\ EventFits(u[k], t)
    BY <1>2, <1>3, <1>7, EventsOn
<1>9. TableFits(e, was) /\ TableShape(e)
    BY <1>1, NothingFits
<1>10. Follows(was, t, T, e, p, b, u)
    BY <1>2, <1>3, <1>5, <1>6, <1>8, <1>9 DEF Follows
<1> QED
    BY <1>1, <1>10

\* A table is lost.
LEMMA LossFollows ==
    ASSUME NEW was, NEW t, NEW T, NEW R, NEW p, NEW b, NEW q, Follows(was, t, T, R, p, b, q),
           NEW x, IsList(x), OnlyBlurs(x), \A a \in Topics(T) : Veiled(x, a), NEW u, Abuts(u, q, x)
    PROVE  Follows(t, t, << >>, << >>, p, b, u)
<1>1. PICK e : e = << >>
    OBVIOUS
<1>2. /\ ChatSound(t) /\ RoomSound(p, t) /\ RoomFits(was, p, b, q)
      /\ Since(was, T, t) /\ TableShape(T) /\ IsList(q)
      /\ was \in Rooms /\ t \in Rooms
      /\ \A k \in DOMAIN q : EventShape(q[k]) /\ EventFits(q[k], t)
    BY DEF Follows, ChatSound
<1>3. Grown(u, q, x) /\ IsList(u)
    BY <1>2, GrownIs
<1>4. Forgets(u, q, x, T, was, t)
    BY <1>2, <1>3 DEF Forgets
<1>5. RoomFits(t, p, b, u)
    BY <1>2, <1>4, LostRoom
<1>6. ASSUME NEW i \in Said PROVE TextFits(t, t, e, p, b, u, i)
    <2>1. TextFits(was, t, T, p, b, q, i)
        BY DEF Follows
    <2> QED
        BY <1>2, <1>4, <2>1, LostText
<1>7. \A k \in DOMAIN u : EventShape(u[k]) /\ EventFits(u[k], t)
    BY <1>2, <1>3, BlurEvents, EventsOn
<1>8. TableFits(e, t) /\ TableShape(e) /\ Since(t, e, t)
    BY <1>1, NothingFits, SinceSelf
<1>9. Follows(t, t, e, e, p, b, u)
    BY <1>2, <1>3, <1>5, <1>6, <1>7, <1>8 DEF Follows
<1> QED
    BY <1>1, <1>9

\* The portal handles an event.
LEMMA PopFollows ==
    ASSUME NEW was, NEW t, NEW T, NEW R, NEW p, NEW b, NEW q, Follows(was, t, T, R, p, b, q), q # << >>,
           NEW p2, NEW b2, Takes(q[1], p, b, p2, b2, t), RoomSound(p2, t)
    PROVE  Follows(was, t, T, R, p2, b2, Tail(q))
<1>1. PICK r : r = Tail(q)
    OBVIOUS
<1>2. IsList(q) /\ Since(was, T, t) /\ ChatSound(t)
    BY DEF Follows
<1>3. /\ Shifted(q, r) /\ IsList(r)
      /\ \A k \in DOMAIN r : k + 1 \in DOMAIN q /\ r[k] = q[k + 1]
    BY <1>1, <1>2, TailShifts
<1>4. RoomFits(was, p2, b2, r)
    BY <1>3, RoomFitsPop DEF Follows
<1>5. ASSUME NEW i \in Said PROVE TextFits(was, t, T, p2, b2, r, i)
    <2>1. TextFits(was, t, T, p, b, q, i)
        BY DEF Follows
    <2>2. was.text[i] = "gone" => t.text[i] = "gone"
        BY <1>2 DEF Since
    <2>3. t.heart[i] => i \in Shown(t)
        BY <1>2 DEF ChatSound
    <2> QED
        BY <1>3, <2>1, <2>2, <2>3, TextFitsPop
<1>6. \A k \in DOMAIN r : EventShape(r[k]) /\ EventFits(r[k], t)
    BY <1>3 DEF Follows
<1>7. Follows(was, t, T, R, p2, b2, r)
    BY <1>3, <1>4, <1>5, <1>6 DEF Follows
<1> QED
    BY <1>1, <1>7

\* The server changes the chat and says so.
LEMMA MoveFollows ==
    ASSUME NEW was, NEW t, NEW T, NEW R, NEW p, NEW b, NEW q, Follows(was, t, T, R, p, b, q),
           NEW rows, NEW t2, Moves(t, T, rows, t2), NEW T2, Abuts(T2, T, rows)
    PROVE  Follows(was, t2, T2, R, p, b, q)
<1>1. /\ ChatSound(was) /\ ChatSound(t2) /\ RoomSound(p, t) /\ was \in Rooms /\ t \in Rooms /\ t2 \in Rooms
      /\ Since(was, T, t) /\ Since(t, rows, t2) /\ TableFits(T, t) /\ TableShape(T) /\ TableShape(rows)
      /\ IsList(T) /\ IsList(rows) /\ RoomFits(was, p, b, q)
    BY DEF Follows, Moves, ChatSound, TableShape
<1>2. Grown(T2, T, rows) /\ IsList(T2)
    BY <1>1, GrownIs
<1>3. Since(was, T2, t2) /\ TableFits(T2, t2) /\ TableShape(T2)
    BY <1>1, <1>2, SinceJoins, TableJoins, ShapeJoins
<1>4. Ahead(t, t2)
    BY <1>1, SinceAhead
<1>5. RoomSound(p, t2)
    BY <1>1, <1>4, BehindOn DEF RoomSound
<1>6. RoomFits(was, p, b, q)
    BY <1>1 DEF RoomFits
<1>7. ASSUME NEW i \in Said PROVE TextFits(was, t2, T2, p, b, q, i)
    <2>1. TextFits(was, t, T, p, b, q, i) /\ t.text[i] \in Marks /\ was.text[i] \in Marks
        BY <1>1 DEF Follows, Rooms
    <2>2. /\ was.text[i] \in Words /\ t2.text[i] \in Words => t.text[i] \in Words
          /\ was.text[i] = "second" /\ t2.text[i] = "second" => t.text[i] = "second"
          /\ t2.text[i] # "gone" => t.text[i] # "gone"
        BY <1>1, <1>4, <2>1 DEF Ahead, Since, Marks, Words
    <2>3. Quiet(T2, i) => Quiet(T, i) /\ Quiet(rows, i)
        BY <1>2, JoinedRows
    <2>4. Quiet(T2, i) /\ t2.text[i] # "gone" => t.heart[i] = t2.heart[i]
        BY <1>1, <2>3 DEF Since
    <2>5. was.text[i] = "gone" => GoneHolds(p, b, q, i, Text(i)) /\ GoneHolds(p, b, q, i, Heart(i))
        BY <2>1 DEF TextFits
    <2>6. was.text[i] \in Words /\ t2.text[i] \in Words
            => Present(p, b, q, i, Text(i), Len(q)) /\ Present(p, b, q, i, Heart(i), Len(q))
        BY <2>1, <2>2 DEF TextFits
    <2>7. was.text[i] = "second" /\ t2.text[i] = "second" => EditHolds(p, b, q, i)
        BY <2>1, <2>2 DEF TextFits
    <2>8. ASSUME was.text[i] # "gone", t2.text[i] # "gone", Quiet(T2, i)
          PROVE  IF t2.heart[i] THEN HeartOn(p, b, q, i) ELSE HeartOff(p, b, q, i)
        <3>1. IF t.heart[i] THEN HeartOn(p, b, q, i) ELSE HeartOff(p, b, q, i)
            BY <2>1, <2>2, <2>3, <2>8 DEF TextFits
        <3> QED
            BY <2>4, <2>8, <3>1, Zenon
    <2> QED
        BY <2>5, <2>6, <2>7, <2>8 DEF TextFits
<1>8. \A k \in DOMAIN q : EventShape(q[k]) /\ EventFits(q[k], t2)
    BY <1>4, FitsOn DEF Follows
<1>9. TableFits(R, was) /\ TableShape(R) /\ IsList(q)
    BY DEF Follows
<1> QED
    BY <1>1, <1>3, <1>5, <1>6, <1>7, <1>8, <1>9 DEF Follows

-----------------------------------------------------------------------------
(* Operations on one message, as rows that fit them (Moves).                 *)

\* One row, before which there may be others that say only that the chat exists.
Brief(rows, r) == /\ IsList(rows) /\ rows # << >> /\ rows[Len(rows)] = r
                  /\ \A n \in DOMAIN rows : n = Len(rows) \/ rows[n].kind = "exists"

LEMMA BriefIs ==
    ASSUME NEW rows, NEW r, Brief(rows, r)
    PROVE  /\ Len(rows) \in DOMAIN rows /\ rows[Len(rows)] = r
           /\ \A n \in DOMAIN rows : rows[n] = r \/ rows[n].kind = "exists"
           /\ \A n \in DOMAIN rows : rows[n].kind # "exists" => n = Len(rows)
BY TableIs DEF Brief

LEMMA ExistsIs ==
    ASSUME NEW e, e.kind = "exists"
    PROVE  /\ Bundles(e) = {} /\ ~ Deleting(e) /\ EventShape(e) /\ \A t : EventFits(e, t)
           /\ \A i : ~ Brings(e, i)
           /\ \A s : ~ Writes(e, s)
<1>1. Bundles(e) = {} /\ \A i : ~ Brings(e, i)
    BY BringKinds
<1> QED
    BY <1>1 DEF Deleting, EventShape, EventFits, Writes

LEMMA BriefShape ==
    ASSUME NEW rows, NEW r, Brief(rows, r), EventShape(r), r.kind \in Early \cup Late \cup {"deletethread"},
           r.kind = "merging" => r.of \in Merging, r.kind = "set" => r.of \notin Merging
    PROVE  TableShape(rows)
<1>1. ASSUME NEW n \in DOMAIN rows
      PROVE  /\ rows[n].kind \in Early \cup Late \cup {"exists", "thread", "deletethread"} /\ EventShape(rows[n])
             /\ rows[n].kind = "merging" => rows[n].of \in Merging
             /\ rows[n].kind = "set" => rows[n].of \notin Merging
             /\ rows[n].kind # "thread"
    <2>1. CASE rows[n] = r
        BY <2>1, KindsApart
    <2>2. CASE rows[n].kind = "exists"
        BY <2>2, ExistsIs
    <2> QED
        BY <2>1, <2>2, BriefIs
<1> QED
    BY <1>1 DEF TableShape, Brief

Remarks(r, i, t, t2) ==
    \/ r.kind = "insert" /\ r.value = "first" /\ t.text[i] = "unsaid" /\ t2.text[i] = "first" /\ t2.heart[i] = FALSE
    \/ r.kind = "edit" /\ r.value = "second" /\ t.text[i] = "first" /\ t2.text[i] = "second" /\ t2.heart[i] = t.heart[i]
    \/ r.kind = "unsend" /\ i \in Shown(t) /\ t2.text[i] = "gone" /\ t2.heart[i] = FALSE
    \/ r.kind \in {"react", "unreact"} /\ i \in Shown(t) /\ t2.text[i] = t.text[i] /\ t2.heart[i] = (r.kind = "react")

LEMMA MarkMoves ==
    ASSUME NEW t, ChatSound(t), NEW T, NEW rows, NEW r, Brief(rows, r), NEW i \in Said, r.of = i,
           NEW t2 \in Rooms, t2.exists, t2.field = t.field, t2.members = t.members,
           \A j \in Said : j # i => t2.text[j] = t.text[j] /\ t2.heart[j] = t.heart[j],
           t.exists \/ Rows(rows, {"exists"}) # {}, Remarks(r, i, t, t2)
    PROVE  Moves(t, T, rows, t2)
<1>1. t \in Rooms /\ \A j \in Said : (t.heart[j] => t.text[j] \in {"first", "second"}) /\ t.text[j] \in Marks
    BY ShownIs DEF ChatSound, Rooms
<1>2. r.kind \in {"insert", "edit", "unsend", "react", "unreact"} /\ r.kind \in Late
    BY DEF Remarks, Late
<1>3. Bundles(r) = {} /\ ~ Deleting(r) /\ (\A s : ~ Writes(r, s)) /\ EventShape(r)
    <2>1. Bundles(r) = {}
        BY <1>2, BringKinds
    <2>2. EventShape(r)
        BY <1>2 DEF EventShape
    <2> QED
        BY <1>2, <2>1, <2>2 DEF Deleting, Writes
<1>4. Len(rows) \in DOMAIN rows /\ rows[Len(rows)] = r
    BY BriefIs
<1>5. ASSUME NEW n \in DOMAIN rows
      PROVE  /\ Bundles(rows[n]) = {} /\ ~ Deleting(rows[n]) /\ \A s : ~ Writes(rows[n], s)
             /\ rows[n].kind # "thread" /\ rows[n].kind # "add"
             /\ rows[n].kind # "exists" => rows[n] = r /\ n = Len(rows)
    BY <1>2, <1>3, BriefIs, ExistsIs
<1>6. ~ Deletes(rows)
    BY <1>5 DEF Deletes
<1>7. \A kind \in Late : \A j : Named(rows, kind, j) = {} <=> ~ (kind = r.kind /\ j = i)
    <2>1. ASSUME NEW kind \in Late, NEW j, kind = r.kind, j = i PROVE Named(rows, kind, j) # {}
        <3>1. Len(rows) \in Named(rows, kind, j)
            BY <1>4, <2>1 DEF Named
        <3> QED
            BY <3>1
    <2>2. ASSUME NEW kind \in Late, NEW j, ~ (kind = r.kind /\ j = i) PROVE Named(rows, kind, j) = {}
        <3> SUFFICES ASSUME NEW n \in Named(rows, kind, j) PROVE FALSE
            OBVIOUS
        <3>1. n \in DOMAIN rows /\ rows[n].kind = kind /\ rows[n].of = j
            BY DEF Named
        <3>2. rows[n] = r
            BY <1>5, <3>1, KindsApart
        <3> QED
            BY <2>2, <3>1, <3>2
    <2> QED
        BY <2>1, <2>2
<1>8. {"insert", "edit", "unsend", "react", "unreact"} \subseteq Late
    BY DEF Late
<1>9. \A j \in Said : Quiet(rows, j) <=> ~ (r.kind \in {"react", "unreact"} /\ j = i)
    <2>1. ASSUME NEW j, r.kind \in {"react", "unreact"}, j = i PROVE ~ Quiet(rows, j)
        BY <1>4, <2>1 DEF Quiet
    <2>2. ASSUME NEW j, ~ (r.kind \in {"react", "unreact"} /\ j = i) PROVE Quiet(rows, j)
        BY <1>5, <2>2 DEF Quiet
    <2> QED
        BY <2>1, <2>2
<1>10. ASSUME NEW s \in Slots PROVE Value(t, s) = Value(t2, s)
    BY SameValue
<1>11. TableShape(rows)
    BY <1>2, <1>3, BriefShape, KindsApart
<1>12. ChatSound(t2)
    <2>1. ASSUME NEW j \in Said, t2.heart[j] PROVE j \in Shown(t2)
        <3>1. CASE j # i
            BY <1>1, <2>1, <3>1, ShownIs
        <3>2. CASE j = i
            BY <1>1, <2>1, <3>2, ShownIs DEF Remarks
        <3> QED
            BY <3>1, <3>2
    <2> QED
        BY <2>1 DEF ChatSound
<1>13. Since(t, rows, t2)
    <2>1. ASSUME NEW j \in Said
          PROVE  /\ t.text[j] = "unsaid" /\ t2.text[j] # "unsaid" => Named(rows, "insert", j) # {}
                 /\ t.text[j] # "second" /\ t2.text[j] = "second" => Named(rows, "edit", j) # {}
                 /\ t.text[j] # "gone" /\ t2.text[j] = "gone" => Named(rows, "unsend", j) # {} \/ Deletes(rows)
                 /\ t.text[j] = "gone" => t2.text[j] = "gone"
                 /\ t.text[j] # "unsaid" => t2.text[j] # "unsaid"
                 /\ t.text[j] = "second" => t2.text[j] \in {"second", "gone"}
        <3>1. CASE j # i
            BY <3>1
        <3>2. CASE j = i
            BY <1>7, <1>8, <3>2, ShownIs DEF Remarks
        <3> QED
            BY <3>1, <3>2
    <2>2. ASSUME NEW j \in Said, Quiet(rows, j), t2.text[j] # "gone" PROVE t.heart[j] = t2.heart[j]
        <3>1. CASE j # i
            BY <3>1
        <3>2. CASE j = i
            <4>1. r.kind \notin {"react", "unreact"}
                BY <1>9, <2>2, <3>2
            <4>2. CASE r.kind = "insert" /\ t.text[i] = "unsaid" /\ t2.heart[i] = FALSE
                <5>1. ~ t.heart[i] /\ t.heart[i] \in BOOLEAN
                    BY <1>1, <4>2 DEF Rooms
                <5> QED
                    BY <3>2, <4>2, <5>1
            <4>3. CASE t2.heart[i] = t.heart[i]
                BY <3>2, <4>3
            <4> QED
                BY <2>2, <3>2, <4>1, <4>2, <4>3 DEF Remarks
        <3> QED
            BY <3>1, <3>2
    <2>3. Rows(rows, {"exists", "thread"}) = {} => t.exists = t2.exists
        <3>1. Rows(rows, {"exists"}) # {} => Rows(rows, {"exists", "thread"}) # {}
            BY DEF Rows
        <3>2. t.exists \in BOOLEAN /\ t2.exists = TRUE
            BY <1>1 DEF Rooms
        <3> QED
            BY <3>1, <3>2
    <2>4. Rows(rows, {"thread"}) = {}
        BY <1>5 DEF Rows
    <2> QED
        BY <1>10, <2>1, <2>2, <2>3, <2>4 DEF Since
<1>14. TableFits(rows, t2)
    <2>1. Closed(rows, t2)
        <3>1. t2.exists = TRUE
            BY DEF Rooms
        <3>2. Deleting(r) = FALSE
            BY <1>3 DEF Deleting
        <3> QED
            BY <1>4, <3>1, <3>2 DEF Closed
    <2>2. \A s \in Slots : \A n \in DOMAIN rows : SlotFits(rows, t2, s, n)
        BY <1>5 DEF SlotFits
    <2>3. ASSUME NEW j \in Said PROVE MarkFitsIn(rows, t2, j)
        <3>1. ASSUME NEW n \in DOMAIN rows, Brings(rows[n], j) PROVE r.kind = "insert" /\ j = i
            BY <1>5, <3>1, ExistsIs DEF Brings
        <3>2. t2.text[j] = "gone" => \A n \in DOMAIN rows : ~ Brings(rows[n], j)
            BY <3>1 DEF Remarks
        <3>3. t2.text[j] \in Words => Named(rows, "unsend", j) = {}
            BY <1>7, <1>8 DEF Remarks, Words
        <3>4. t2.text[j] = "second" => Olds(rows, j) = {}
            <4>1. t2.text[j] = "second" => Named(rows, "insert", j) = {}
                BY <1>7, <1>8 DEF Remarks
            <4> QED
                BY <1>5, <4>1 DEF Olds
        <3> QED
            BY <3>2, <3>3, <3>4 DEF MarkFitsIn
    <2>4. ASSUME NEW j \in Said, NEW n \in DOMAIN rows PROVE BeatFits(rows, t2, j, n)
        <3>1. ASSUME rows[n].kind \in {"react", "unreact"}, rows[n].of = j PROVE (rows[n].kind = "react") = t2.heart[j]
            <4>1. rows[n] = r /\ j = i /\ r.kind \in {"react", "unreact"}
                BY <1>5, <3>1
            <4>2. t2.heart[i] = (r.kind = "react")
                BY <4>1 DEF Remarks
            <4> QED
                BY <4>1, <4>2, Zenon
        <3> QED
            BY <1>5, <3>1 DEF BeatFits
    <2>5. ASSUME NEW n \in DOMAIN rows PROVE EventFits(rows[n], t2)
        <3>1. EventFits(r, t2)
            BY <1>3, ShownIs DEF EventFits, Remarks
        <3> QED
            BY <3>1, BriefIs, ExistsIs
    <2> QED
        BY <2>1, <2>2, <2>3, <2>4, <2>5, TableParts
<1>15. Rows(rows, {"thread"}) = {}
    BY <1>5 DEF Rows
<1> QED
    BY <1>11, <1>12, <1>13, <1>14, <1>15 DEF Moves, Brief

-----------------------------------------------------------------------------
(* Operations on a field or a member, deletions and snapshots, as rows that  *)
(* fit them.                                                                 *)

\* A change of the name, a setting or who is in the chat.
LEMMA SlotMoves ==
    ASSUME NEW t, ChatSound(t), t.exists, NEW T, NEW rows, NEW r, Brief(rows, r), NEW s \in Slots, Writes(r, s), EventShape(r),
           r.kind = "merging" => r.of \in Merging, r.kind = "set" => r.of \notin Merging,
           NEW t2 \in Rooms, t2.exists, t2.text = t.text, t2.heart = t.heart,
           \A z \in Slots : z # s => Value(t2, z) = Value(t, z), Value(t2, s) = Written(r, s),
           \A v \in t2.members : v \notin t.members => r.kind = "add" /\ r.of = v
    PROVE  Moves(t, T, rows, t2)
<1>1. t \in Rooms /\ t.exists = TRUE /\ t2.exists = TRUE
    BY DEF ChatSound, Rooms
<1>2. r.kind \in {"set", "merging", "add", "remove"} /\ r.kind \in Early \cup Late
    BY DEF Writes, Early, Late
<1>3. Bundles(r) = {} /\ (\A i : ~ Brings(r, i))
    BY <1>2, BringKinds
<1>4. r.of \in Members \cup Fields /\ (r.kind = "remove" => r.of \in Members) /\ ~ Deleting(r)
    <2>1. r.kind = "remove" => r.of \in Members
        BY SlotIs DEF Writes
    <2>2. ~ Deleting(r)
        BY <1>2, <2>1, IncomingAssumption DEF Deleting, IncomingAssumption
    <2> QED
        BY <1>2, <2>1, <2>2 DEF EventShape
<1>5. Len(rows) \in DOMAIN rows /\ rows[Len(rows)] = r
    BY BriefIs
<1>6. ASSUME NEW n \in DOMAIN rows
      PROVE  /\ Bundles(rows[n]) = {} /\ ~ Deleting(rows[n]) /\ (\A i : ~ Brings(rows[n], i))
             /\ rows[n].kind \notin {"thread", "insert", "edit", "unsend", "react", "unreact"}
             /\ rows[n] = r \/ (rows[n].kind = "exists" /\ \A z : ~ Writes(rows[n], z))
    BY <1>2, <1>3, <1>4, BriefIs, ExistsIs
<1>7. ~ Deletes(rows)
    BY <1>6 DEF Deletes
<1>8. \A i : /\ Named(rows, "insert", i) = {} /\ Named(rows, "edit", i) = {} /\ Named(rows, "unsend", i) = {}
             /\ Olds(rows, i) = {} /\ Quiet(rows, i)
    BY <1>6 DEF Named, Olds, Quiet
<1>9. TableShape(rows)
    BY <1>2, BriefShape
<1>10. ChatSound(t2)
    <2>1. \A i \in Said : i \in Shown(t2) <=> i \in Shown(t)
        BY ShownIs
    <2> QED
        BY <2>1 DEF ChatSound
<1>11. Since(t, rows, t2)
    <2>1. ASSUME NEW z \in Slots, \A n \in DOMAIN rows : ~ Writes(rows[n], z) PROVE Value(t, z) = Value(t2, z)
        <3>1. z # s
            BY <1>5, <2>1
        <3> QED
            BY <3>1
    <2>2. Rows(rows, {"thread"}) = {}
        BY <1>6 DEF Rows
    <2> QED
        BY <1>1, <2>1, <2>2 DEF Since
<1>12. ASSUME NEW z \in Slots, Writes(r, z) PROVE z = s
    <2>1. z[2] = s[2]
        BY <1>12 DEF Writes
    <2>2. z[1] = s[1]
        BY <1>12, SlotIs DEF Writes
    <2> QED
        BY <2>1, <2>2, SlotIs
<1>13. TableFits(rows, t2)
    <2>1. Closed(rows, t2)
        <3>1. Deleting(r) = FALSE
            BY <1>4 DEF Deleting
        <3> QED
            BY <1>1, <1>5, <3>1 DEF Closed
    <2>2. ASSUME NEW z \in Slots, NEW n \in DOMAIN rows PROVE SlotFits(rows, t2, z, n)
        <3>1. ASSUME Writes(rows[n], z) PROVE Written(rows[n], z) = Value(t2, z)
            <4>1. rows[n] = r
                BY <1>6, <3>1
            <4>2. z = s
                BY <1>12, <3>1, <4>1
            <4> QED
                BY <4>1, <4>2
        <3> QED
            BY <1>6, <3>1 DEF SlotFits
    <2>3. \A j \in Said : MarkFitsIn(rows, t2, j)
        BY <1>6, <1>8 DEF MarkFitsIn
    <2>4. \A j \in Said : \A n \in DOMAIN rows : BeatFits(rows, t2, j, n)
        BY <1>6 DEF BeatFits
    <2>5. \A n \in DOMAIN rows : EventFits(rows[n], t2)
        BY <1>6 DEF EventFits
    <2> QED
        BY <2>1, <2>2, <2>3, <2>4, <2>5, TableParts
<1>14. Rows(rows, {"thread"}) = {}
    BY <1>6 DEF Rows
<1>15. ASSUME NEW v \in t2.members, v \notin t.members PROVE Named(rows, "add", v) # {}
    <2>1. r.kind = "add" /\ r.of = v
        BY <1>15
    <2>2. Len(rows) \in Named(rows, "add", v)
        BY <1>5, <2>1 DEF Named
    <2> QED
        BY <2>2
<1> QED
    BY <1>9, <1>10, <1>11, <1>13, <1>14, <1>15 DEF Moves, Brief

\* The chat is gone for this login.
LEMMA ForsakeMoves ==
    ASSUME NEW t, ChatSound(t), NEW T, NEW rows, NEW r, Brief(rows, r), Deleting(r),
           NEW t2 \in Rooms, ~ t2.exists, t2.field = t.field, t2.members = t.members,
           \A j \in Said : /\ t2.text[j] = IF t.text[j] \in Words THEN "gone" ELSE t.text[j]
                           /\ t2.heart[j] = FALSE
    PROVE  Moves(t, T, rows, t2)
<1>1. t \in Rooms /\ t2.exists = FALSE /\ \A j \in Said : t.text[j] \in Marks /\ t.heart[j] \in BOOLEAN
    BY DEF ChatSound, Rooms
<1>2. r.kind \in {"deletethread", "remove"} /\ r.kind \in Early \cup Late \cup {"deletethread"}
    BY DEF Deleting, Late
<1>3. Bundles(r) = {} /\ (\A i : ~ Brings(r, i)) /\ EventShape(r)
    BY <1>2, BringKinds DEF EventShape
<1>4. \A s \in Slots : ~ Writes(r, s)
    <2> SUFFICES ASSUME NEW s \in Slots, Writes(r, s) PROVE FALSE
        OBVIOUS
    <2>1. r.kind = "remove" /\ r.of = s[2] /\ s[1] = "member"
        BY <1>2 DEF Writes
    <2>2. r.of = Self /\ s[2] \in Members
        BY <2>1, SlotIs DEF Deleting
    <2> QED
        BY <2>1, <2>2, IncomingAssumption DEF IncomingAssumption
<1>5. Len(rows) \in DOMAIN rows /\ rows[Len(rows)] = r
    BY BriefIs
<1>6. ASSUME NEW n \in DOMAIN rows
      PROVE  /\ Bundles(rows[n]) = {} /\ (\A i : ~ Brings(rows[n], i)) /\ \A s \in Slots : ~ Writes(rows[n], s)
             /\ rows[n].kind \notin {"thread", "insert", "edit", "unsend", "react", "unreact"}
    BY <1>2, <1>3, <1>4, BriefIs, ExistsIs
<1>7. Deletes(rows)
    BY <1>5 DEF Deletes
<1>8. \A i : /\ Named(rows, "unsend", i) = {} /\ Olds(rows, i) = {}
    BY <1>6 DEF Named, Olds
<1>9. TableShape(rows)
    BY <1>2, <1>3, BriefShape, KindsApart
<1>10. \A j \in Said : t2.text[j] \in {"unsaid", "gone"}
    BY <1>1 DEF Marks, Words
<1>11. ChatSound(t2)
    BY <1>10, ShownIs DEF ChatSound
<1>12. ASSUME NEW s \in Slots PROVE Value(t, s) = Value(t2, s)
    BY SameValue
<1>13. Since(t, rows, t2)
    <2>1. ASSUME NEW j \in Said
          PROVE  /\ t.text[j] = "unsaid" => t2.text[j] = "unsaid"
                 /\ t2.text[j] # "second"
                 /\ t.text[j] = "gone" => t2.text[j] = "gone"
                 /\ t.text[j] # "unsaid" => t2.text[j] = "gone"
        BY <1>1 DEF Marks, Words
    <2>2. ASSUME NEW j \in Said, t2.text[j] # "gone" PROVE t.heart[j] = t2.heart[j]
        <3>1. t.text[j] = "unsaid"
            BY <2>1, <2>2
        <3>2. ~ t.heart[j]
            BY <3>1, ShownIs DEF ChatSound
        <3> QED
            BY <1>1, <3>2
    <2> QED
        BY <1>7, <1>12, <2>1, <2>2 DEF Since
<1>14. TableFits(rows, t2)
    <2>1. Closed(rows, t2)
        <3>1. Deleting(r) = TRUE
            BY DEF Deleting
        <3> QED
            BY <1>1, <1>5, <3>1 DEF Closed
    <2>2. \A s \in Slots : \A n \in DOMAIN rows : SlotFits(rows, t2, s, n)
        BY <1>6 DEF SlotFits
    <2>3. \A j \in Said : MarkFitsIn(rows, t2, j)
        BY <1>6, <1>8 DEF MarkFitsIn
    <2>4. \A j \in Said : \A n \in DOMAIN rows : BeatFits(rows, t2, j, n)
        BY <1>6 DEF BeatFits
    <2>5. \A n \in DOMAIN rows : EventFits(rows[n], t2)
        BY <1>6 DEF EventFits
    <2> QED
        BY <2>1, <2>2, <2>3, <2>4, <2>5, TableParts
<1>15. Rows(rows, {"thread"}) = {}
    BY <1>6 DEF Rows
<1> QED
    BY <1>9, <1>11, <1>13, <1>14, <1>15 DEF Moves, Brief

\* The rows of a snapshot of t, or of its messages alone.
Pictures(rows, t) ==
    /\ IsList(rows) /\ rows # << >>
    /\ \A n \in DOMAIN rows :
         \/ rows[n].kind = "thread" /\ rows[n].value.field = t.field /\ rows[n].value.who = t.members
         \/ rows[n].kind = "add" /\ rows[n].of \in t.members
         \/ rows[n].kind = "upsert" /\ rows[n].value = t /\ rows[n].of = Shown(t)
Peoples(rows, t) == \A v \in t.members : Named(rows, "add", v) # {}

LEMMA SnapMoves ==
    ASSUME NEW t, ChatSound(t), NEW T, NEW t2 \in Rooms, t2.exists, t2.field = t.field, t2.members = t.members,
           t2.text = t.text, t2.heart = t.heart, NEW rows, Pictures(rows, t2), t.exists \/ Rows(rows, {"thread"}) # {},
           Rows(rows, {"thread"}) # {} => Peoples(rows, t2) \/ (t.exists /\ Rows(T, {"exists"}) = {})
    PROVE  Moves(t, T, rows, t2)
<1>1. t \in Rooms /\ t2.exists = TRUE
    BY DEF ChatSound, Rooms
<1>2. ASSUME NEW n \in DOMAIN rows
      PROVE  /\ rows[n].kind \in {"thread", "add", "upsert"} /\ ~ Deleting(rows[n])
             /\ \A room \in Bundles(rows[n]) : room = t2
             /\ \A i : Brings(rows[n], i) => i \in Shown(t2)
    <2>1. rows[n].kind \in {"thread", "add", "upsert"} /\ (rows[n].kind = "upsert" => rows[n].value = t2)
        BY DEF Pictures
    <2>2. \A room \in Bundles(rows[n]) : room = t2
        BY <2>1 DEF Bundles
    <2> QED
        BY <2>1, <2>2 DEF Deleting, Brings
<1>3. ~ Deletes(rows)
    BY <1>2 DEF Deletes
<1>4. \A i : /\ Named(rows, "insert", i) = {} /\ Named(rows, "edit", i) = {} /\ Named(rows, "unsend", i) = {}
             /\ Quiet(rows, i) /\ (t2.text[i] # "first" => Olds(rows, i) = {})
    BY <1>2 DEF Named, Olds, Quiet
<1>5. TableShape(rows)
    <2>1. ASSUME NEW n \in DOMAIN rows
          PROVE  /\ rows[n].kind \in Early \cup Late \cup {"exists", "thread", "deletethread"} /\ EventShape(rows[n])
                 /\ rows[n].kind \notin {"merging", "set"}
                 /\ rows[n].kind = "thread" => rows[n].value.field \in [Fields -> {0, 1}] /\ rows[n].value.who \subseteq Members
        <3>1. CASE rows[n].kind = "thread"
            <4>1. rows[n].value.field = t2.field /\ rows[n].value.who = t2.members
                BY <3>1 DEF Pictures
            <4> QED
                BY <3>1, <4>1 DEF EventShape, Rooms
        <3>2. CASE rows[n].kind = "add"
            <4>1. rows[n].of \in t2.members
                BY <3>2 DEF Pictures
            <4> QED
                BY <3>2, <4>1 DEF EventShape, Rooms, Early
        <3>3. CASE rows[n].kind = "upsert"
            <4>1. rows[n].value = t2 /\ rows[n].of = Shown(t2)
                BY <3>3 DEF Pictures
            <4>2. Bundle(rows[n])
                BY <3>3, <4>1 DEF Bundle
            <4> QED
                BY <3>3, <4>2 DEF EventShape, Early
        <3> QED
            BY <1>2, <3>1, <3>2, <3>3
    <2> QED
        BY <2>1 DEF TableShape, Pictures
<1>6. ChatSound(t2)
    <2>1. \A i \in Said : i \in Shown(t2) <=> i \in Shown(t)
        BY ShownIs
    <2> QED
        BY <2>1 DEF ChatSound
<1>7. ASSUME NEW s \in Slots PROVE Value(t, s) = Value(t2, s)
    BY SameValue
<1>8. Since(t, rows, t2)
    <2>1. Rows(rows, {"exists", "thread"}) = {} => t.exists = t2.exists
        <3>1. Rows(rows, {"thread"}) # {} => Rows(rows, {"exists", "thread"}) # {}
            BY DEF Rows
        <3>2. t.exists \in BOOLEAN
            BY <1>1 DEF Rooms
        <3> QED
            BY <1>1, <3>1, <3>2
    <2>2. ~ t.exists /\ Rows(rows, {"thread"}) # {} => \A v \in t2.members : Named(rows, "add", v) # {}
        BY DEF Peoples
    <2> QED
        BY <1>7, <2>1, <2>2 DEF Since
<1>9. TableFits(rows, t2)
    <2>1. Closed(rows, t2)
        <3>1. Len(rows) \in DOMAIN rows
            BY TableIs DEF Pictures
        <3>2. Deleting(rows[Len(rows)]) = FALSE
            BY <1>2, <3>1 DEF Deleting
        <3> QED
            BY <1>1, <3>2 DEF Closed
    <2>2. ASSUME NEW s \in Slots, NEW n \in DOMAIN rows PROVE SlotFits(rows, t2, s, n)
        <3>1. ASSUME Writes(rows[n], s) PROVE Written(rows[n], s) = Value(t2, s)
            <4>1. s[1] = "member" /\ rows[n].kind = "add" /\ rows[n].of = s[2]
                BY <1>2, <3>1 DEF Writes
            <4>2. s[2] \in t2.members
                BY <4>1 DEF Pictures
            <4>3. Written(rows[n], s) = TRUE
                BY <4>1 DEF Written
            <4>4. (s[2] \in t2.members) = TRUE
                BY <4>2
            <4>5. Value(t2, s) = (s[2] \in t2.members)
                BY <4>1, ValueIs
            <4> QED
                BY <4>3, <4>4, <4>5, Zenon
        <3>2. ASSUME rows[n].kind = "thread"
              PROVE  (IF s[1] = "field" THEN rows[n].value.field[s[2]] ELSE s[2] \in rows[n].value.who) = Value(t2, s)
            <4>1. rows[n].value.field = t2.field /\ rows[n].value.who = t2.members
                BY <3>2 DEF Pictures
            <4>2. (IF s[1] = "field" THEN rows[n].value.field[s[2]] ELSE s[2] \in rows[n].value.who)
                    = (IF s[1] = "field" THEN t2.field[s[2]] ELSE s[2] \in t2.members)
                BY <4>1, Zenon
            <4> QED
                BY <4>2, Zenon DEF Value
        <3> QED
            BY <3>1, <3>2 DEF SlotFits
    <2>3. ASSUME NEW j \in Said PROVE MarkFitsIn(rows, t2, j)
        <3>1. t2.text[j] = "gone" => j \notin Shown(t2)
            BY ShownIs
        <3> QED
            BY <1>2, <1>4, <3>1 DEF MarkFitsIn
    <2>4. \A j \in Said : \A n \in DOMAIN rows : BeatFits(rows, t2, j, n)
        BY <1>2 DEF BeatFits
    <2>5. ASSUME NEW n \in DOMAIN rows PROVE EventFits(rows[n], t2)
        <3>1. Behind(t2, t2)
            BY ShownIs DEF Behind
        <3> QED
            BY <1>2, <3>1 DEF EventFits
    <2> QED
        BY <2>1, <2>2, <2>3, <2>4, <2>5, TableParts
<1> QED
    BY <1>5, <1>6, <1>8, <1>9 DEF Moves, Pictures, Peoples

-----------------------------------------------------------------------------
(* The rows of a snapshot list the members as they are.                      *)

LEMMA SetListed ==
    ASSUME NEW S, IsFiniteSet(S)
    PROVE  /\ IsList(SetToSeq(S)) /\ \A k \in DOMAIN SetToSeq(S) : SetToSeq(S)[k] \in S
           /\ \A v \in S : \E k \in DOMAIN SetToSeq(S) : SetToSeq(S)[k] = v
<1>1. PICK n : n = Cardinality(S)
    OBVIOUS
<1>2. n \in Nat /\ ExistsBijection(1 .. n, S)
    BY <1>1, FS_CardinalityType
<1>3. PICK f : f = SetToSeq(S)
    OBVIOUS
<1>4. f \in [1 .. n -> S] /\ IsInjective(f)
    <2>1. \E g \in [1 .. n -> S] : IsInjective(g)
        BY <1>2, Zenon DEF ExistsBijection, Bijection, Injection
    <2> QED
        BY <1>1, <1>3, <2>1, Zenon DEF SetToSeq
<1>5. f \in Injection(1 .. n, S)
    BY <1>4 DEF Injection
<1>6. IsFiniteSet(1 .. n) /\ Cardinality(1 .. n) = n
    BY <1>2, FS_Interval
<1>7. f \in Surjection(1 .. n, S)
    BY <1>1, <1>5, <1>6, FS_Injection
<1>8. \A v \in S : \E k \in 1 .. n : f[k] = v
    BY <1>7 DEF Surjection
<1>9. DOMAIN f = 1 .. n /\ f = [i \in 1 .. n |-> f[i]]
    BY <1>4
<1>10. IsList(f)
    BY <1>2, <1>9, MadeList
<1> QED
    BY <1>3, <1>4, <1>8, <1>9, <1>10

LEMMA AddsFinite ==
    ASSUME NEW M \in SUBSET Members
    PROVE  IsFiniteSet({NewRow("add", v, 0) : v \in M})
<1>1. IsFiniteSet(M)
    BY IncomingAssumption, FS_Subset DEF IncomingAssumption
<1>2. PICK S : S = {NewRow("add", v, 0) : v \in M}
    OBVIOUS
<1>3. PICK f : f = [v \in M |-> NewRow("add", v, 0)]
    OBVIOUS
<1>4. f \in Surjection(M, S)
    BY <1>2, <1>3 DEF Surjection
<1>5. IsFiniteSet(S)
    BY <1>1, <1>4, FS_Surjection
<1> QED
    BY <1>2, <1>5

LEMMA PictureJoins ==
    ASSUME NEW s, NEW c, NEW u, Abuts(u, s, c), NEW t, Pictures(s, t),
           c = << >> \/ Pictures(c, t)
    PROVE  /\ Pictures(u, t) /\ IsList(u)
           /\ \A those : Rows(s, those) # {} => Rows(u, those) # {}
           /\ Peoples(s, t) \/ Peoples(c, t) => Peoples(u, t)
<1>1. IsList(s) /\ IsList(c)
    BY NoList DEF Pictures
<1>2. Grown(u, s, c) /\ IsList(u)
    BY <1>1, GrownIs
<1>3. u # << >>
    <2>1. Len(s) \in DOMAIN s
        BY TableIs DEF Pictures
    <2>2. DOMAIN u # {}
        BY <1>2, <2>1, JoinedTable
    <2> QED
        BY <2>2, NoList
<1>4. ASSUME NEW n \in DOMAIN u
      PROVE  \/ u[n].kind = "thread" /\ u[n].value.field = t.field /\ u[n].value.who = t.members
             \/ u[n].kind = "add" /\ u[n].of \in t.members
             \/ u[n].kind = "upsert" /\ u[n].value = t /\ u[n].of = Shown(t)
    <2>1. CASE n \in DOMAIN s /\ u[n] = s[n]
        BY <2>1 DEF Pictures
    <2>2. CASE \E l \in DOMAIN c : u[n] = c[l]
        <3>1. Pictures(c, t)
            BY <2>2, NoList
        <3> QED
            BY <2>2, <3>1 DEF Pictures
    <2> QED
        BY <1>2, <2>1, <2>2, JoinedTable
<1>5. Pictures(u, t)
    BY <1>2, <1>3, <1>4 DEF Pictures
<1> QED
    BY <1>2, <1>5, JoinedRows DEF Peoples

LEMMA SnapshotIs ==
    ASSUME NEW t \in Rooms, NEW peopled \in BOOLEAN, NEW filled \in BOOLEAN
    PROVE  /\ Pictures(Snapshot(t, peopled, filled), t)
           /\ Rows(Snapshot(t, peopled, filled), {"thread"}) # {}
           /\ peopled => Peoples(Snapshot(t, peopled, filled), t)
<1>1. PICK r : r = NewRow("thread", Cardinality(t.members) + 1,
                          [field |-> t.field, who |-> t.members, own |-> peopled])
    OBVIOUS
<1>2. r.kind = "thread" /\ r.value.field = t.field /\ r.value.who = t.members
    BY <1>1 DEF NewRow
<1>3. PICK s : s = <<r>>
    OBVIOUS
<1>4. Pictures(s, t) /\ Rows(s, {"thread"}) # {}
    <2>1. IsList(s) /\ DOMAIN s = 1 .. 1 /\ s[1] = r /\ s # << >>
        BY <1>3, OneList
    <2>2. Pictures(s, t)
        BY <1>2, <2>1 DEF Pictures
    <2>3. 1 \in Rows(s, {"thread"})
        BY <1>2, <2>1 DEF Rows
    <2> QED
        BY <2>2, <2>3
<1>5. PICK S : S = {NewRow("add", v, 0) : v \in t.members}
    OBVIOUS
<1>6. PICK c : c = IF peopled THEN SetToSeq(S) ELSE << >>
    OBVIOUS
<1>7. (c = << >> \/ Pictures(c, t)) /\ (peopled => Peoples(c, t))
    <2>1. CASE ~ peopled
        BY <1>6, <2>1
    <2>2. CASE peopled
        <3>1. IsFiniteSet(S)
            BY <1>5, AddsFinite DEF Rooms
        <3>2. c = SetToSeq(S)
            BY <1>6, <2>2
        <3>3. IsList(c) /\ (\A k \in DOMAIN c : c[k] \in S) /\ \A v \in S : \E k \in DOMAIN c : c[k] = v
            BY <3>1, <3>2, SetListed
        <3>4. c # << >> => Pictures(c, t)
            BY <1>5, <3>3 DEF Pictures, NewRow
        <3>5. ASSUME NEW v \in t.members PROVE Named(c, "add", v) # {}
            <4>1. PICK e : e = NewRow("add", v, 0)
                OBVIOUS
            <4>2. e \in S /\ e.kind = "add" /\ e.of = v
                BY <1>5, <4>1 DEF NewRow
            <4>3. PICK k \in DOMAIN c : c[k] = e
                BY <3>3, <4>2
            <4>4. k \in Named(c, "add", v)
                BY <4>2, <4>3 DEF Named
            <4> QED
                BY <4>4
        <3> QED
            BY <3>4, <3>5 DEF Peoples
    <2> QED
        BY <2>1, <2>2
<1>8. PICK y : y = s \o c
    OBVIOUS
<1>9. Abuts(y, s, c)
    BY <1>8 DEF Abuts
<1>10. /\ Pictures(y, t) /\ Rows(y, {"thread"}) # {}
       /\ peopled => Peoples(y, t)
    BY <1>4, <1>7, <1>9, PictureJoins
<1>11. PICK f : f = IF filled THEN <<NewRow("upsert", Shown(t), t)>> ELSE << >>
    OBVIOUS
<1>12. f = << >> \/ Pictures(f, t)
    <2>1. CASE filled
        <3>1. PICK e : e = NewRow("upsert", Shown(t), t)
            OBVIOUS
        <3>2. e.kind = "upsert" /\ e.value = t /\ e.of = Shown(t)
            BY <3>1 DEF NewRow
        <3>3. IsList(f) /\ DOMAIN f = 1 .. 1 /\ f[1] = e /\ f # << >>
            BY <1>11, <2>1, <3>1, OneList
        <3> QED
            BY <3>2, <3>3 DEF Pictures
    <2> QED
        BY <1>11, <2>1
<1>13. PICK z : z = y \o f
    OBVIOUS
<1>14. Abuts(z, y, f)
    BY <1>13 DEF Abuts
<1>15. /\ Pictures(z, t) /\ Rows(z, {"thread"}) # {}
       /\ peopled => Peoples(z, t)
    BY <1>10, <1>12, <1>14, PictureJoins
<1>16. Snapshot(t, peopled, filled) = z
    BY <1>1, <1>3, <1>5, <1>6, <1>8, <1>11, <1>13 DEF Snapshot
<1> QED
    BY <1>15, <1>16

-----------------------------------------------------------------------------
(* Kept, and the operations on messages keep it.                             *)

LEMMA OneBrief ==
    ASSUME NEW r
    PROVE  Brief(<<r>>, r)
<1>1. PICK s : s = <<r>>
    OBVIOUS
<1>2. IsList(s) /\ DOMAIN s = 1 .. 1 /\ s[1] = r /\ s # << >> /\ Len(s) = 1
    BY <1>1, OneList
<1>3. Brief(s, r)
    BY <1>2 DEF Brief
<1> QED
    BY <1>1, <1>3

LEMMA ExistsBrief ==
    ASSUME NEW r
    PROVE  Brief(Exists \o <<r>>, r) /\ (~ aware => Rows(Exists \o <<r>>, {"exists"}) # {})
<1>1. PICK s : s = Exists
    OBVIOUS
<1>2. PICK c : c = <<r>>
    OBVIOUS
<1>3. IsList(c) /\ DOMAIN c = 1 .. 1 /\ c[1] = r /\ c # << >>
    BY <1>2, OneList
<1>4. PICK u : u = s \o c
    OBVIOUS
<1>5. Abuts(u, s, c)
    BY <1>4 DEF Abuts
<1>6. CASE aware
    <2>1. s = << >>
        BY <1>1, <1>6 DEF Exists
    <2>2. u = c
        BY <1>3, <1>4, <2>1, NilJoins
    <2>3. Brief(u, r)
        BY <1>2, <2>2, OneBrief
    <2> QED
        BY <1>1, <1>2, <1>4, <1>6, <2>3
<1>7. CASE ~ aware
    <2>1. PICK e : e = NewRow("exists", Self, 0)
        OBVIOUS
    <2>2. s = <<e>> /\ e.kind = "exists"
        BY <1>1, <1>7, <2>1 DEF Exists, NewRow
    <2>3. IsList(s) /\ DOMAIN s = 1 .. 1 /\ s[1] = e
        BY <2>2, OneList
    <2>4. Grown(u, s, c) /\ IsList(u)
        BY <1>3, <1>5, <2>3, GrownIs
    <2>5. Len(s) = 1 /\ Len(c) = 1
        BY <1>3, <2>3, ListIs
    <2>6. Len(u) = 2 /\ DOMAIN u = 1 .. 2 /\ u[1] = e /\ u[2] = r
        <3>1. Len(u) = 2 /\ DOMAIN u = 1 .. 2
            BY <2>4, <2>5 DEF Grown
        <3>2. u[1] = s[1] /\ u[1 + Len(s)] = c[1]
            BY <2>4, <2>5 DEF Grown
        <3> QED
            BY <1>3, <2>3, <2>5, <3>1, <3>2
    <2>7. u # << >>
        BY <2>6, NoList
    <2>8. Brief(u, r)
        BY <2>2, <2>4, <2>6, <2>7 DEF Brief
    <2>9. 1 \in Rows(u, {"exists"})
        BY <2>2, <2>6 DEF Rows
    <2> QED
        BY <1>1, <1>2, <1>4, <2>8, <2>9
<1> QED
    BY <1>6, <1>7

Kept == /\ \E was : Follows(was, thread, news, resent, portal, blurred, queued)
        /\ aware = thread.exists

LEMMA KeptIs ==
    ASSUME Kept
    PROVE  /\ ChatSound(thread) /\ thread \in Rooms /\ RoomSound(portal, thread) /\ TableShape(news) /\ IsList(news)
           /\ TableShape(resent) /\ IsList(resent) /\ IsList(queued)
           /\ \A i \in Said : (i \in Shown(thread) => thread.exists) /\ thread.heart[i] \in BOOLEAN /\ thread.text[i] \in Marks
           /\ thread.exists \in BOOLEAN
<1>1. PICK was : Follows(was, thread, news, resent, portal, blurred, queued)
    BY DEF Kept
<1>2. ChatSound(thread) /\ RoomSound(portal, thread) /\ TableShape(news) /\ TableShape(resent) /\ IsList(queued)
    BY <1>1 DEF Follows
<1> QED
    BY <1>2 DEF ChatSound, Rooms, TableShape

LEMMA OpKeeps ==
    ASSUME Kept, NEW rows, NEW t2, Moves(thread, news, rows, t2), thread' = t2, news' = news \o rows,
           UNCHANGED <<resent, queued, portal, blurred>>, aware' = t2.exists
    PROVE  Kept'
<1>1. PICK was : Follows(was, thread, news, resent, portal, blurred, queued)
    BY DEF Kept
<1>2. PICK T2 : T2 = news \o rows
    OBVIOUS
<1>3. Abuts(T2, news, rows)
    BY <1>2 DEF Abuts
<1>4. Follows(was, t2, T2, resent, portal, blurred, queued)
    BY <1>1, <1>3, MoveFollows
<1>5. Follows(was, thread', news', resent', portal', blurred', queued')
    BY <1>2, <1>4
<1> QED
    BY <1>5 DEF Kept

LEMMA SayKeeps ==
    ASSUME Kept, NEW i \in Said, Say(i)
    PROVE  Kept'
<1>1. PICK t : t = thread
    OBVIOUS
<1>2. PICK p : p = [t EXCEPT !.exists = TRUE]
    OBVIOUS
<1>3. p \in Rooms /\ p.exists = TRUE /\ p.field = t.field /\ p.members = t.members /\ p.text = t.text /\ p.heart = t.heart
    BY <1>1, <1>2, KeptIs DEF Rooms
<1>4. PICK t2 : t2 = [p EXCEPT !.text[i] = "first"]
    OBVIOUS
<1>5. Marked(p, i, "first", p.heart[i], t2)
    <2>1. p.heart[i] \in BOOLEAN /\ "first" \in Marks
        BY <1>3 DEF Rooms, Marks
    <2>2. PICK h : h = p.heart[i]
        OBVIOUS
    <2>3. Marked(p, i, "first", h, t2)
        BY <1>3, <1>4, <2>1, <2>2, MarkedIs
    <2> QED
        BY <2>2, <2>3
<1>6. PICK r : r = NewRow("insert", i, "first")
    OBVIOUS
<1>7. r.kind = "insert" /\ r.of = i /\ r.value = "first"
    BY <1>6 DEF NewRow
<1>8. t2 = [thread EXCEPT !.exists = TRUE, !.text[i] = "first"]
    BY <1>1, <1>2, <1>4
<1>9. PICK rows : rows = Exists \o <<r>>
    OBVIOUS
<1>10. thread.text[i] = "unsaid" /\ thread' = t2 /\ news' = news \o rows /\ UNCHANGED <<resent, queued, portal, blurred>> /\ aware' = TRUE
    BY <1>6, <1>8, <1>9 DEF Say, Op
<1>11. Brief(rows, r) /\ (t.exists \/ Rows(rows, {"exists"}) # {})
    BY <1>1, <1>9, ExistsBrief DEF Kept
<1>12. ~ t.heart[i] /\ ChatSound(t)
    BY <1>1, <1>10, KeptIs, ShownIs DEF ChatSound
<1>13. Remarks(r, i, t, t2)
    <2>1. t2.heart[i] = FALSE
        BY <1>1, <1>3, <1>5, <1>12, KeptIs DEF Marked
    <2> QED
        BY <1>1, <1>5, <1>7, <1>10, <2>1 DEF Remarks, Marked
<1>14. /\ t2 \in Rooms /\ t2.exists = TRUE /\ t2.field = t.field /\ t2.members = t.members
       /\ \A j \in Said : j # i => t2.text[j] = t.text[j] /\ t2.heart[j] = t.heart[j]
    BY <1>3, <1>5 DEF Marked
<1>15. Moves(t, news, rows, t2)
    BY <1>7, <1>11, <1>12, <1>13, <1>14, MarkMoves
<1> QED
    BY <1>1, <1>10, <1>14, <1>15, OpKeeps

LEMMA MarkKeeps ==
    ASSUME Kept, NEW i \in Said, NEW r, r.of = i, NEW w, NEW h, NEW t2, Marked(thread, i, w, h, t2),
           Remarks(r, i, thread, t2), r.kind # "insert", Op(t2, <<r>>), UNCHANGED aware
    PROVE  Kept'
<1>1. thread.exists /\ aware' = TRUE
    <2>1. i \in Shown(thread)
        BY ShownIs DEF Remarks
    <2> QED
        BY <2>1, KeptIs DEF Kept
<1>2. PICK rows : rows = <<r>>
    OBVIOUS
<1>3. Brief(rows, r)
    BY <1>2, OneBrief
<1>4. /\ t2 \in Rooms /\ t2.exists = TRUE /\ t2.field = thread.field /\ t2.members = thread.members
      /\ \A j \in Said : j # i => t2.text[j] = thread.text[j] /\ t2.heart[j] = thread.heart[j]
    BY <1>1, KeptIs DEF Marked
<1>5. Moves(thread, news, rows, t2)
    BY <1>1, <1>3, <1>4, KeptIs, MarkMoves
<1> QED
    BY <1>1, <1>2, <1>4, <1>5, OpKeeps DEF Op

LEMMA EditKeeps ==
    ASSUME Kept, NEW i \in Said, Edit(i)
    PROVE  Kept'
<1>1. PICK t2 : t2 = [thread EXCEPT !.text[i] = "second"]
    OBVIOUS
<1>2. PICK r : r = NewRow("edit", i, "second")
    OBVIOUS
<1>3. r.kind = "edit" /\ r.of = i /\ r.value = "second"
    BY <1>2 DEF NewRow
<1>4. PICK h : h = thread.heart[i]
    OBVIOUS
<1>5. thread.text[i] = "first" /\ Op(t2, <<r>>) /\ UNCHANGED aware
    BY <1>1, <1>2 DEF Edit
<1>6. Marked(thread, i, "second", h, t2)
    <2>1. "second" \in Marks /\ h \in BOOLEAN
        BY <1>4, KeptIs DEF Marks
    <2> QED
        BY <1>1, <1>4, <2>1, KeptIs, MarkedIs
<1>7. Remarks(r, i, thread, t2)
    BY <1>3, <1>4, <1>5, <1>6 DEF Remarks, Marked
<1> QED
    BY <1>3, <1>5, <1>6, <1>7, MarkKeeps

LEMMA UnsendKeeps ==
    ASSUME Kept, NEW i \in Said, Unsend(i)
    PROVE  Kept'
<1>1. PICK t2 : t2 = [thread EXCEPT !.text[i] = "gone", !.heart[i] = FALSE]
    OBVIOUS
<1>2. PICK r : r = NewRow("unsend", i, 0)
    OBVIOUS
<1>3. r.kind = "unsend" /\ r.of = i
    BY <1>2 DEF NewRow
<1>4. i \in Shown(thread) /\ Op(t2, <<r>>) /\ UNCHANGED aware
    BY <1>1, <1>2 DEF Unsend
<1>5. Marked(thread, i, "gone", FALSE, t2)
    <2>1. "gone" \in Marks
        BY DEF Marks
    <2> QED
        BY <1>1, <2>1, KeptIs, MarkedIs
<1>6. Remarks(r, i, thread, t2)
    BY <1>3, <1>4, <1>5 DEF Remarks, Marked
<1> QED
    BY <1>3, <1>4, <1>5, <1>6, MarkKeeps

LEMMA ReactKeeps ==
    ASSUME Kept, NEW i \in Said, React(i)
    PROVE  Kept'
<1>1. PICK h : h = ~ thread.heart[i]
    OBVIOUS
<1>2. PICK t2 : t2 = [thread EXCEPT !.heart[i] = h]
    OBVIOUS
<1>3. PICK r : r = NewRow(IF thread.heart[i] THEN "unreact" ELSE "react", i, 0)
    OBVIOUS
<1>4. r.kind = (IF thread.heart[i] THEN "unreact" ELSE "react") /\ r.of = i
    BY <1>3 DEF NewRow
<1>5. i \in Shown(thread) /\ Op(t2, <<r>>) /\ UNCHANGED aware
    <2>1. t2 = [thread EXCEPT !.heart[i] = ~ @]
        BY <1>1, <1>2
    <2> QED
        BY <1>3, <2>1 DEF React
<1>6. PICK w : w = thread.text[i]
    OBVIOUS
<1>7. Marked(thread, i, w, h, t2)
    <2>1. w \in Marks /\ h \in BOOLEAN
        BY <1>1, <1>6, KeptIs
    <2> QED
        BY <1>2, <1>6, <2>1, KeptIs, MarkedIs
<1>8. h = (r.kind = "react")
    <2>1. CASE thread.heart[i]
        <3>1. h = FALSE /\ (r.kind = "react") = FALSE
            BY <1>1, <1>4, <2>1
        <3> QED
            BY <3>1
    <2>2. CASE ~ thread.heart[i]
        <3>1. h = TRUE /\ (r.kind = "react") = TRUE
            BY <1>1, <1>4, <2>2
        <3> QED
            BY <3>1
    <2> QED
        BY <2>1, <2>2
<1>9. Remarks(r, i, thread, t2)
    <2>1. t2.heart[i] = (r.kind = "react")
        BY <1>7, <1>8, Zenon DEF Marked
    <2>2. r.kind \in {"react", "unreact"} /\ t2.text[i] = thread.text[i]
        BY <1>4, <1>6, <1>7 DEF Marked
    <2> QED
        BY <1>5, <2>1, <2>2 DEF Remarks
<1>10. r.kind # "insert"
    BY <1>4
<1> QED
    BY <1>4, <1>5, <1>7, <1>9, <1>10, MarkKeeps

-----------------------------------------------------------------------------
(* The other operations of the server keep it.                               *)

LEMMA SlotKeeps ==
    ASSUME Kept, thread.exists, NEW s \in Slots, NEW r, Writes(r, s), EventShape(r),
           r.kind = "merging" => r.of \in Merging, r.kind = "set" => r.of \notin Merging,
           NEW t2 \in Rooms, t2.exists = thread.exists, t2.text = thread.text, t2.heart = thread.heart,
           \A z \in Slots : z # s => Value(t2, z) = Value(thread, z), Value(t2, s) = Written(r, s),
           \A v \in t2.members : v \notin thread.members => r.kind = "add" /\ r.of = v,
           Op(t2, <<r>>), UNCHANGED aware
    PROVE  Kept'
<1>1. PICK rows : rows = <<r>>
    OBVIOUS
<1>2. Brief(rows, r)
    BY <1>1, OneBrief
<1>3. Moves(thread, news, rows, t2)
    BY <1>2, KeptIs, SlotMoves
<1>4. aware' = t2.exists
    BY DEF Kept
<1> QED
    BY <1>1, <1>3, <1>4, OpKeeps DEF Op

LEMMA SetKeeps ==
    ASSUME Kept, NEW f \in Fields, Set(f)
    PROVE  Kept'
<1>1. PICK v : v = 1 - thread.field[f]
    OBVIOUS
<1>2. thread.field \in [Fields -> {0, 1}] /\ v \in {0, 1} /\ thread.exists
    BY <1>1, KeptIs DEF Rooms, Set
<1>3. PICK g : g = [thread.field EXCEPT ![f] = v]
    OBVIOUS
<1>4. g \in [Fields -> {0, 1}] /\ g[f] = v /\ \A x \in Fields : x # f => g[x] = thread.field[x]
    BY <1>2, <1>3
<1>5. PICK t2 : t2 = [thread EXCEPT !.field = g]
    OBVIOUS
<1>6. /\ t2 \in Rooms /\ t2.exists = thread.exists /\ t2.members = thread.members /\ t2.text = thread.text
      /\ t2.heart = thread.heart /\ t2.field = g
    BY <1>4, <1>5, KeptIs DEF Rooms
<1>7. PICK r : r = NewRow(IF f \in Merging THEN "merging" ELSE "set", f, v)
    OBVIOUS
<1>8. r.kind = (IF f \in Merging THEN "merging" ELSE "set") /\ r.of = f /\ r.value = v
    BY <1>7 DEF NewRow
<1>9. Op(t2, <<r>>) /\ UNCHANGED aware
    <2>1. t2 = [thread EXCEPT !.field[f] = 1 - @]
        BY <1>1, <1>3, <1>5
    <2> QED
        BY <1>1, <1>7, <2>1 DEF Set
<1>10. PICK s : s = <<"field", f>>
    OBVIOUS
<1>11. s \in Slots /\ s[1] = "field" /\ s[2] = f
    BY <1>10 DEF Slots
<1>12. Writes(r, s) /\ EventShape(r)
    BY <1>2, <1>8, <1>11 DEF Writes, EventShape
<1>13. ASSUME NEW z \in Slots, z # s PROVE Value(t2, z) = Value(thread, z)
    <2>1. z[1] = "field" => z[2] \in Fields /\ z[2] # f
        BY <1>10, <1>13, SlotIs
    <2>2. z[1] = "field" => t2.field[z[2]] = thread.field[z[2]]
        BY <1>4, <1>6, <2>1
    <2> QED
        BY <1>6, <2>2, SameValue
<1>14. Value(t2, s) = Written(r, s)
    <2>1. Value(t2, s) = t2.field[s[2]]
        BY <1>6, <1>11, ValueIs
    <2>2. Value(t2, s) = v
        BY <1>4, <1>6, <1>11, <2>1
    <2>3. Written(r, s) = v
        BY <1>8, <1>11 DEF Written
    <2> QED
        BY <2>2, <2>3
<1> QED
    BY <1>2, <1>6, <1>8, <1>9, <1>11, <1>12, <1>13, <1>14, SlotKeeps

LEMMA PeopleKeep ==
    ASSUME Kept, thread.exists, NEW v \in Members, NEW kind \in {"add", "remove"}, NEW m, NEW t2,
           m = IF kind = "add" THEN thread.members \cup {v} ELSE thread.members \ {v},
           t2 = [thread EXCEPT !.members = m], Op(t2, <<NewRow(kind, v, 0)>>), UNCHANGED aware
    PROVE  Kept'
<1>1. m \in SUBSET Members
    BY KeptIs DEF Rooms
<1>2. /\ t2 \in Rooms /\ t2.exists = thread.exists /\ t2.members = m /\ t2.text = thread.text
      /\ t2.heart = thread.heart /\ t2.field = thread.field
    BY <1>1, KeptIs DEF Rooms
<1>3. PICK r : r = NewRow(kind, v, 0)
    OBVIOUS
<1>4. r.kind = kind /\ r.of = v
    BY <1>3 DEF NewRow
<1>5. PICK s : s = <<"member", v>>
    OBVIOUS
<1>6. s \in Slots /\ s[1] = "member" /\ s[2] = v
    BY <1>5 DEF Slots
<1>7. Writes(r, s) /\ EventShape(r)
    BY <1>4, <1>6 DEF Writes, EventShape
<1>8. ASSUME NEW z \in Slots, z # s PROVE Value(t2, z) = Value(thread, z)
    <2>1. z[1] = "member" => z[2] # v
        BY <1>5, <1>8, SlotIs
    <2>2. z[1] = "member" => (z[2] \in t2.members <=> z[2] \in thread.members)
        BY <1>2, <2>1
    <2> QED
        BY <1>2, <2>2, SameValue
<1>9. Value(t2, s) = Written(r, s)
    <2>1. Value(t2, s) = (v \in m)
        BY <1>2, <1>6, ValueIs
    <2>2. Written(r, s) = (kind = "add")
        BY <1>4, <1>6 DEF Written
    <2>3. CASE kind = "add"
        <3>1. (v \in m) = TRUE /\ (kind = "add") = TRUE
            BY <2>3
        <3> QED
            BY <2>1, <2>2, <3>1, Zenon
    <2>4. CASE kind = "remove"
        <3>1. (v \in m) = FALSE /\ (kind = "add") = FALSE
            BY <2>4
        <3> QED
            BY <2>1, <2>2, <3>1, Zenon
    <2> QED
        BY <2>3, <2>4
<1>10. ASSUME NEW l \in t2.members, l \notin thread.members PROVE r.kind = "add" /\ r.of = l
    BY <1>2, <1>4, <1>10
<1>11. r.kind \notin {"set", "merging"}
    BY <1>4
<1>12. Op(t2, <<r>>)
    BY <1>3
<1> QED
    BY <1>2, <1>6, <1>7, <1>8, <1>9, <1>10, <1>11, <1>12, SlotKeeps

LEMMA JoinsKeep ==
    ASSUME Kept, NEW v \in Members, Joins(v) \/ Leaves(v)
    PROVE  Kept'
<1>1. CASE Joins(v)
    <2>1. PICK m : m = thread.members \cup {v}
        OBVIOUS
    <2>2. PICK t2 : t2 = [thread EXCEPT !.members = m]
        OBVIOUS
    <2>3. thread.exists /\ Op(t2, <<NewRow("add", v, 0)>>) /\ UNCHANGED aware
        BY <1>1, <2>1, <2>2 DEF Joins
    <2>4. m = IF "add" = "add" THEN thread.members \cup {v} ELSE thread.members \ {v}
        BY <2>1
    <2> QED
        BY <2>2, <2>3, <2>4, PeopleKeep
<1>2. CASE Leaves(v)
    <2>1. PICK m : m = thread.members \ {v}
        OBVIOUS
    <2>2. PICK t2 : t2 = [thread EXCEPT !.members = m]
        OBVIOUS
    <2>3. thread.exists /\ Op(t2, <<NewRow("remove", v, 0)>>) /\ UNCHANGED aware
        BY <1>2, <2>1, <2>2 DEF Leaves
    <2>4. m = IF "remove" = "add" THEN thread.members \cup {v} ELSE thread.members \ {v}
        BY <2>1
    <2> QED
        BY <2>2, <2>3, <2>4, PeopleKeep
<1> QED
    BY <1>1, <1>2

LEMMA ForsakeKeeps ==
    ASSUME Kept, NEW how \in {"deletethread", "remove"}, Forsake(how)
    PROVE  Kept'
<1>1. PICK t : t = thread
    OBVIOUS
<1>2. t.text \in [Said -> Marks] /\ t \in Rooms
    BY <1>1, KeptIs DEF Rooms
<1>3. PICK g : g = [i \in Said |-> IF t.text[i] \in Words THEN "gone" ELSE t.text[i]]
    OBVIOUS
<1>4. PICK h : h = [i \in Said |-> FALSE]
    OBVIOUS
<1>5. g \in [Said -> Marks] /\ h \in [Said -> BOOLEAN]
    BY <1>2, <1>3, <1>4 DEF Marks
<1>6. PICK t2 : t2 = [t EXCEPT !.exists = FALSE, !.text = g, !.heart = h]
    OBVIOUS
<1>7. /\ t2 \in Rooms /\ t2.exists = FALSE /\ t2.members = t.members /\ t2.field = t.field
      /\ t2.text = g /\ t2.heart = h
    BY <1>2, <1>5, <1>6 DEF Rooms
<1>8. PICK r : r = NewRow(how, Self, 0)
    OBVIOUS
<1>9. Deleting(r)
    BY <1>8 DEF NewRow, Deleting
<1>10. thread' = t2 /\ news' = news \o <<r>> /\ UNCHANGED <<resent, queued, portal, blurred>> /\ aware' = FALSE
    <2>1. t2 = [thread EXCEPT !.exists = FALSE,
                              !.text = [i \in Said |-> IF @[i] \in Words THEN "gone" ELSE @[i]],
                              !.heart = [i \in Said |-> FALSE]]
        BY <1>1, <1>3, <1>4, <1>6
    <2> QED
        BY <1>8, <2>1 DEF Forsake, Op
<1>11. PICK rows : rows = <<r>>
    OBVIOUS
<1>12. Brief(rows, r)
    BY <1>11, OneBrief
<1>13. \A j \in Said : /\ t2.text[j] = IF t.text[j] \in Words THEN "gone" ELSE t.text[j]
                       /\ t2.heart[j] = FALSE
    BY <1>3, <1>4, <1>7
<1>14. Moves(t, news, rows, t2)
    BY <1>1, <1>7, <1>9, <1>12, <1>13, KeptIs, ForsakeMoves
<1> QED
    BY <1>1, <1>7, <1>10, <1>11, <1>14, OpKeeps

LEMMA SnapKeeps ==
    ASSUME Kept, NEW t2, t2 = [thread EXCEPT !.exists = TRUE], NEW rows, Pictures(rows, t2),
           thread.exists \/ Rows(rows, {"thread"}) # {},
           Rows(rows, {"thread"}) # {} => Peoples(rows, t2) \/ (thread.exists /\ Rows(news, {"exists"}) = {}),
           thread' = t2, news' = news \o rows, UNCHANGED <<resent, queued, portal, blurred>>, aware' = TRUE
    PROVE  Kept'
<1>1. /\ t2 \in Rooms /\ t2.exists = TRUE /\ t2.members = thread.members /\ t2.field = thread.field
      /\ t2.text = thread.text /\ t2.heart = thread.heart
    BY KeptIs DEF Rooms
<1>2. Moves(thread, news, rows, t2)
    BY <1>1, KeptIs, SnapMoves
<1> QED
    BY <1>1, <1>2, OpKeeps

LEMMA ResyncKeeps ==
    ASSUME Kept, NEW peopled \in BOOLEAN, NEW filled \in BOOLEAN, Resync(peopled, filled)
    PROVE  Kept'
<1>1. PICK t2 : t2 = [thread EXCEPT !.exists = TRUE]
    OBVIOUS
<1>2. PICK rows : rows = Snapshot(t2, peopled, filled)
    OBVIOUS
<1>3. t2 \in Rooms
    BY <1>1, KeptIs DEF Rooms
<1>4. Pictures(rows, t2) /\ Rows(rows, {"thread"}) # {} /\ (peopled => Peoples(rows, t2))
    BY <1>2, <1>3, SnapshotIs
<1>5. thread' = t2 /\ news' = news \o rows /\ UNCHANGED <<resent, queued, portal, blurred>> /\ aware' = TRUE
    BY <1>1, <1>2 DEF Resync, Op
<1>6. ~ peopled => thread.exists /\ Rows(news, {"exists"}) = {}
    BY DEF Resync, Kept, Rows
<1> QED
    BY <1>1, <1>4, <1>5, <1>6, SnapKeeps

LEMMA SliceKeeps ==
    ASSUME Kept, Slice
    PROVE  Kept'
<1>1. thread.exists = TRUE /\ thread \in Rooms
    <2>1. \E i \in Said : i \in Shown(thread)
        BY DEF Slice, Shown
    <2> QED
        BY <2>1, KeptIs
<1>2. PICK t2 : t2 = [thread EXCEPT !.exists = TRUE]
    OBVIOUS
<1>3. t2 = thread
    BY <1>1, <1>2 DEF Rooms
<1>4. PICK r : r = NewRow("upsert", Shown(thread), thread)
    OBVIOUS
<1>5. r.kind = "upsert" /\ r.value = t2 /\ r.of = Shown(t2)
    BY <1>3, <1>4 DEF NewRow
<1>6. PICK rows : rows = <<r>>
    OBVIOUS
<1>7. IsList(rows) /\ DOMAIN rows = 1 .. 1 /\ rows[1] = r /\ rows # << >>
    BY <1>6, OneList
<1>8. Pictures(rows, t2) /\ Rows(rows, {"thread"}) = {}
    BY <1>5, <1>7 DEF Pictures, Rows
<1>9. thread' = t2 /\ news' = news \o rows /\ UNCHANGED <<resent, queued, portal, blurred>> /\ aware' = TRUE
    BY <1>1, <1>3, <1>4, <1>6 DEF Slice, Op, Kept
<1> QED
    BY <1>1, <1>2, <1>8, <1>9, SnapKeeps

LEMMA AnswerKeeps ==
    ASSUME Kept, AnswerWanted
    PROVE  Kept'
<1>1. CASE ~ thread.exists
    <2>1. UNCHANGED <<thread, aware, news, resent, queued, portal, blurred>>
        BY <1>1 DEF AnswerWanted
    <2> QED
        BY <2>1 DEF Kept
<1>2. CASE thread.exists
    <2>1. thread \in Rooms /\ thread.exists = TRUE
        BY <1>2, KeptIs
    <2>2. PICK t2 : t2 = [thread EXCEPT !.exists = TRUE]
        OBVIOUS
    <2>3. t2 = thread
        BY <2>1, <2>2 DEF Rooms
    <2>4. PICK rows : rows = Snapshot(t2, TRUE, FALSE)
        OBVIOUS
    <2>5. Pictures(rows, t2) /\ Rows(rows, {"thread"}) # {} /\ Peoples(rows, t2)
        BY <2>1, <2>3, <2>4, SnapshotIs
    <2>6. thread' = t2 /\ news' = news \o rows /\ UNCHANGED <<resent, queued, portal, blurred>> /\ aware' = TRUE
        BY <1>2, <2>1, <2>3, <2>4 DEF AnswerWanted, Kept
    <2> QED
        BY <2>2, <2>5, <2>6, SnapKeeps
<1> QED
    BY <1>1, <1>2

-----------------------------------------------------------------------------
(* So do the tables that arrive, come again or are lost, and the portal; and *)
(* so does every step.                                                       *)

\* What arrives is put behind what waits, in one piece.
LEMMA JoinsAlike ==
    ASSUME NEW q, IsList(q), NEW y, IsList(y), NEW c, IsList(c), NEW u, u = q \o y \o c
    PROVE  Abuts(u, q, y \o c)
<1>1. PICK T : T = Range(q) \cup Range(y) \cup Range(c)
    OBVIOUS
<1>2. q \in Seq(T) /\ y \in Seq(T) /\ c \in Seq(T)
    <2>1. ASSUME NEW s, IsList(s), Range(s) \subseteq T PROVE s \in Seq(T)
        <3>1. /\ Len(s) \in Nat /\ s = [i \in 1 .. Len(s) |-> s[i]] /\ DOMAIN s = 1 .. Len(s)
              /\ \A i \in DOMAIN s : s[i] \in Range(s)
            BY <2>1, ListIs
        <3>2. \A i \in 1 .. Len(s) : s[i] \in T
            BY <2>1, <3>1
        <3> QED
            BY <3>1, <3>2
    <2> QED
        BY <1>1, <2>1
<1>3. PICK a : a = q \o y
    OBVIOUS
<1>4. PICK b : b = y \o c
    OBVIOUS
<1>5. PICK v : v = q \o b
    OBVIOUS
<1>6. u = a \o c
    BY <1>3
<1>7. a \in Seq(T) /\ b \in Seq(T) /\ u \in Seq(T) /\ v \in Seq(T)
    BY <1>2, <1>3, <1>4, <1>5, <1>6
<1>8. u = v
    BY <1>2, <1>3, <1>4, <1>5, <1>6, <1>7
<1> QED
    BY <1>4, <1>5, <1>8 DEF Abuts

LEMMA SpokenJoins ==
    ASSUME NEW q, IsList(q), NEW T, IsList(T), NEW u, u = q \o ParseTable(T) \o Blur(Conflicts(T))
    PROVE  \E x : Rendered(x, T) /\ (\A a \in Conflicts(T) : Veiled(x, a)) /\ Abuts(u, q, x)
<1>1. PICK y : y = ParseTable(T)
    OBVIOUS
<1>2. PICK c : c = Blur(Conflicts(T))
    OBVIOUS
<1>3. IsList(y)
    BY <1>1, ParsedRenders DEF Rendered
<1>4. IsList(c)
    BY <1>2, BlurIs
<1>5. u = q \o y \o c
    BY <1>1, <1>2
<1>6. PICK x : x = y \o c
    OBVIOUS
<1>7. Abuts(u, q, x)
    BY <1>3, <1>4, <1>5, <1>6, JoinsAlike
<1>8. x = Spoken(T)
    BY <1>1, <1>2, <1>6 DEF Spoken
<1>9. Rendered(x, T) /\ \A a \in Conflicts(T) : Veiled(x, a)
    BY <1>8, SpokenRenders
<1> QED
    BY <1>7, <1>9

LEMMA PushKeeps ==
    ASSUME Kept, Push
    PROVE  Kept'
<1>1. PICK was : Follows(was, thread, news, resent, portal, blurred, queued)
    BY DEF Kept
<1>2. IsList(news) /\ IsList(queued)
    BY KeptIs
<1>3. PICK u : u = queued \o ParseTable(news) \o Blur(Conflicts(news))
    OBVIOUS
<1>4. PICK x : Rendered(x, news) /\ (\A a \in Conflicts(news) : Veiled(x, a)) /\ Abuts(u, queued, x)
    BY <1>2, <1>3, SpokenJoins
<1>5. news # << >> /\ queued' = u /\ resent' \in {news, << >>} /\ news' = << >> /\ UNCHANGED <<thread, aware, portal, blurred>>
    BY <1>3 DEF Push
<1>6. PICK R2 : R2 = resent'
    OBVIOUS
<1>7. Follows(thread, thread, << >>, R2, portal, blurred, u)
    BY <1>1, <1>4, <1>5, <1>6, PushFollows
<1>8. Follows(thread, thread', news', resent', portal', blurred', queued')
    BY <1>5, <1>6, <1>7
<1>9. aware' = thread'.exists
    BY <1>5 DEF Kept
<1> QED
    BY <1>8, <1>9 DEF Kept

LEMMA ResendKeeps ==
    ASSUME Kept, Resend
    PROVE  Kept'
<1>1. PICK was : Follows(was, thread, news, resent, portal, blurred, queued)
    BY DEF Kept
<1>2. IsList(resent) /\ IsList(queued)
    BY KeptIs
<1>3. PICK u : u = queued \o ParseTable(resent) \o Blur(Conflicts(resent))
    OBVIOUS
<1>4. PICK x : Rendered(x, resent) /\ (\A a \in Conflicts(resent) : Veiled(x, a)) /\ Abuts(u, queued, x)
    BY <1>2, <1>3, SpokenJoins
<1>5. resent # << >> /\ queued' = u /\ resent' = << >> /\ UNCHANGED <<thread, aware, news, portal, blurred>>
    BY <1>3 DEF Resend
<1>6. Follows(was, thread, news, << >>, portal, blurred, u)
    BY <1>1, <1>4, <1>5, ResendFollows
<1>7. Follows(was, thread', news', resent', portal', blurred', queued')
    BY <1>5, <1>6
<1>8. aware' = thread'.exists
    BY <1>5 DEF Kept
<1> QED
    BY <1>7, <1>8 DEF Kept

LEMMA LossKeeps ==
    ASSUME Kept, LoseTable
    PROVE  Kept'
<1>1. PICK was : Follows(was, thread, news, resent, portal, blurred, queued)
    BY DEF Kept
<1>2. PICK W : W = Topics(news)
    OBVIOUS
<1>3. PICK x : x = Blur(W)
    OBVIOUS
<1>4. IsList(x) /\ OnlyBlurs(x) /\ \A a \in Topics(news) : Veiled(x, a)
    BY <1>2, <1>3, BlurIs
<1>5. PICK u : u = queued \o x
    OBVIOUS
<1>6. Abuts(u, queued, x)
    BY <1>5 DEF Abuts
<1>7. queued' = u /\ resent' = << >> /\ news' = << >> /\ UNCHANGED <<thread, aware, portal, blurred>>
    BY <1>2, <1>3, <1>5 DEF LoseTable
<1>8. Follows(thread, thread, << >>, << >>, portal, blurred, u)
    BY <1>1, <1>4, <1>6, LossFollows
<1>9. Follows(thread, thread', news', resent', portal', blurred', queued')
    BY <1>7, <1>8
<1>10. aware' = thread'.exists
    BY <1>7 DEF Kept
<1> QED
    BY <1>9, <1>10 DEF Kept

LEMMA HandleKeeps ==
    ASSUME Kept, Handle
    PROVE  Kept'
<1>1. PICK was : Follows(was, thread, news, resent, portal, blurred, queued)
    BY DEF Kept
<1>2. queued # << >> /\ queued' = Tail(queued) /\ UNCHANGED <<thread, aware, news, resent>>
    BY HandlePops
<1>3. PICK q : q = queued
    OBVIOUS
<1>4. IsList(q) /\ thread \in Rooms /\ RoomSound(portal, thread)
    BY <1>3, KeptIs
<1>5. Event = q[1] /\ 1 \in DOMAIN q
    BY <1>2, <1>3, <1>4, TailShifts DEF Event
<1>6. EventShape(Event) /\ EventFits(Event, thread)
    BY <1>1, <1>3, <1>5 DEF Follows
<1>7. Takes(Event, portal, blurred, portal', blurred', thread) /\ RoomSound(portal', thread)
    BY <1>4, <1>6, HandleTakes
<1>8. PICK p2 : p2 = portal'
    OBVIOUS
<1>9. PICK b2 : b2 = blurred'
    OBVIOUS
<1>10. Takes(q[1], portal, blurred, p2, b2, thread) /\ RoomSound(p2, thread)
    BY <1>5, <1>7, <1>8, <1>9
<1>11. Follows(was, thread, news, resent, p2, b2, Tail(q))
    BY <1>1, <1>2, <1>3, <1>10, PopFollows
<1>12. Follows(was, thread', news', resent', portal', blurred', queued')
    BY <1>2, <1>3, <1>8, <1>9, <1>11
<1>13. aware' = thread'.exists
    BY <1>2 DEF Kept
<1> QED
    BY <1>12, <1>13 DEF Kept

\* Every step keeps it.
LEMMA StepKeeps ==
    ASSUME Kept, [IncomingNext]_incomingVars
    PROVE  Kept'
<1>1. ASSUME NEW i \in Said, Say(i) \/ Edit(i) \/ Unsend(i) \/ React(i) PROVE Kept'
    BY <1>1, SayKeeps, EditKeeps, UnsendKeeps, ReactKeeps
<1>2. ASSUME NEW f \in Fields, Set(f) PROVE Kept'
    BY <1>2, SetKeeps
<1>3. ASSUME NEW v \in Members, Joins(v) \/ Leaves(v) PROVE Kept'
    BY <1>3, JoinsKeep
<1>4. ASSUME NEW how \in {"deletethread", "remove"}, Forsake(how) PROVE Kept'
    BY <1>4, ForsakeKeeps
<1>5. ASSUME NEW peopled \in BOOLEAN, NEW filled \in BOOLEAN, Resync(peopled, filled) PROVE Kept'
    BY <1>5, ResyncKeeps
<1>6. CASE Slice
    BY <1>6, SliceKeeps
<1>7. CASE AnswerWanted
    BY <1>7, AnswerKeeps
<1>8. CASE Push
    BY <1>8, PushKeeps
<1>9. CASE Resend
    BY <1>9, ResendKeeps
<1>10. CASE LoseTable
    BY <1>10, LossKeeps
<1>11. CASE Handle
    BY <1>11, HandleKeeps
<1>12. CASE UNCHANGED incomingVars
    BY <1>12 DEF incomingVars, Kept
<1> QED
    BY <1>1, <1>2, <1>3, <1>4, <1>5, <1>6, <1>7, <1>8, <1>9, <1>10, <1>11, <1>12 DEF IncomingNext, Handle

-----------------------------------------------------------------------------
(* A history starts with it.                                                 *)

LEMMA LastsNone ==
    ASSUME NEW start, NEW W, NEW B
    PROVE  Lasts(0, start, W, B) <=> start
<1>1. 0 .. 0 = {0} /\ (0 + 1) .. 0 = {}
    OBVIOUS
<1>2. ASSUME Lasts(0, start, W, B) PROVE start
    <2>1. PICK k \in 0 .. 0 : IF k = 0 THEN start ELSE k \in W
        BY <1>2 DEF Lasts
    <2> QED
        BY <1>1, <2>1
<1>3. ASSUME start PROVE Lasts(0, start, W, B)
    <2>1. 0 \in 0 .. 0 /\ \A j \in (0 + 1) .. 0 : j \notin B
        BY <1>1
    <2> QED
        BY <1>3, <2>1 DEF Lasts
<1> QED
    BY <1>2, <1>3

\* With nothing waiting, what will be is what is.
LEMMA HoldsNow ==
    ASSUME NEW p, NEW b, NEW q, q = << >>
    PROVE  /\ \A a : Housed(p, b, q, a, Len(q)) <=> p.exists \/ a \in b
           /\ \A a : NoRoom(p, b, q, a, Len(q)) <=> ~ p.exists \/ a \in b
           /\ \A s, v : SlotHolds(p, b, q, s, v) <=> s \in b \/ Value(p, s) = v
           /\ \A i, a : GoneHolds(p, b, q, i, a) <=> i \notin Shown(p) \/ a \in b
           /\ \A i, a : Present(p, b, q, i, a, Len(q)) <=> i \in Shown(p) \/ a \in b
           /\ \A i : EditHolds(p, b, q, i) <=> p.text[i] # "first" \/ Text(i) \in b
           /\ \A i : HeartOn(p, b, q, i) <=> p.heart[i] \/ Heart(i) \in b
           /\ \A i : HeartOff(p, b, q, i) <=> ~ p.heart[i] \/ Heart(i) \in b
<1>1. Len(q) = 0
    OBVIOUS
<1>2. \A a : Housed(p, b, q, a, Len(q)) <=> p.exists \/ a \in b
    BY <1>1, LastsNone DEF Housed
<1>3. \A a : NoRoom(p, b, q, a, Len(q)) <=> ~ p.exists \/ a \in b
    BY <1>1, LastsNone DEF NoRoom
<1>4. \A s, v : SlotHolds(p, b, q, s, v) <=> s \in b \/ Value(p, s) = v
    BY <1>1, LastsNone DEF SlotHolds
<1>5. \A i, a : GoneHolds(p, b, q, i, a) <=> i \notin Shown(p) \/ a \in b
    BY <1>1, LastsNone DEF GoneHolds
<1>6. \A i, a : Present(p, b, q, i, a, Len(q)) <=> i \in Shown(p) \/ a \in b
    BY <1>1, LastsNone DEF Present
<1>7. \A i : EditHolds(p, b, q, i) <=> p.text[i] # "first" \/ Text(i) \in b
    BY <1>1, LastsNone DEF EditHolds
<1>8. \A i : HeartOn(p, b, q, i) <=> p.heart[i] \/ Heart(i) \in b
    BY <1>1, LastsNone DEF HeartOn
<1>9. \A i : HeartOff(p, b, q, i) <=> ~ p.heart[i] \/ Heart(i) \in b
    BY <1>1, LastsNone DEF HeartOff
<1> QED
    BY <1>2, <1>3, <1>4, <1>5, <1>6, <1>7, <1>8, <1>9

\* A history starts with a room like its chat.
LEMMA StartFollows ==
    ASSUME NEW t, t \in Rooms, \A i \in Said : t.text[i] = "unsaid" /\ t.heart[i] = FALSE, ~ t.exists => t = Unborn
    PROVE  Follows(t, t, << >>, << >>, t, {}, << >>)
<1>1. PICK q : q = << >>
    OBVIOUS
<1>2. \A i \in Said : i \notin Shown(t)
    BY ShownIs DEF Words
<1>3. ChatSound(t) /\ RoomSound(t, t)
    BY <1>2 DEF ChatSound, RoomSound, Behind
<1>4. RoomFits(t, t, {}, q)
    <2>1. t.exists => \A a \in All : Housed(t, {}, q, a, Len(q))
        BY <1>1, HoldsNow
    <2>2. ~ t.exists => \A a \in Slots \cup {Chat} : NoRoom(t, {}, q, a, Len(q))
        BY <1>1, HoldsNow
    <2>3. \A s \in Slots : SlotHolds(t, {}, q, s, Value(t, s))
        BY <1>1, HoldsNow
    <2> QED
        BY <2>1, <2>2, <2>3 DEF RoomFits
<1>5. ASSUME NEW i \in Said PROVE TextFits(t, t, q, t, {}, q, i)
    <2>1. t.text[i] = "unsaid" /\ ~ t.heart[i]
        OBVIOUS
    <2>2. HeartOff(t, {}, q, i)
        BY <1>1, <2>1, HoldsNow
    <2> QED
        BY <2>1, <2>2 DEF TextFits, Words
<1>6. TableFits(q, t) /\ TableShape(q) /\ Since(t, q, t)
    BY <1>1, NothingFits, SinceSelf
<1>7. IsList(q) /\ DOMAIN q = {}
    BY <1>1, NoList
<1>8. Follows(t, t, q, q, t, {}, q)
    BY <1>3, <1>4, <1>5, <1>6, <1>7 DEF Follows
<1> QED
    BY <1>1, <1>8

LEMMA InitKeeps ==
    ASSUME IncomingInit
    PROVE  Kept
<1>1. PICK t : t = thread
    OBVIOUS
<1>2. t \in Rooms /\ (\A i \in Said : t.text[i] = "unsaid" /\ t.heart[i] = FALSE) /\ (~ t.exists => t = Unborn)
    <2>1. CASE t = Unborn
        BY <2>1, UnbornIs
    <2>2. CASE t = [Unborn EXCEPT !.exists = TRUE, !.members = Members]
        BY <2>2, UnbornIs DEF Rooms
    <2> QED
        BY <1>1, <2>1, <2>2 DEF IncomingInit
<1>3. Follows(t, t, << >>, << >>, t, {}, << >>)
    BY <1>2, StartFollows
<1>4. aware = thread.exists /\ portal = t /\ news = << >> /\ resent = << >> /\ queued = << >> /\ blurred = {}
    BY <1>1 DEF IncomingInit
<1>5. Follows(t, thread, news, resent, portal, blurred, queued)
    BY <1>1, <1>3, <1>4
<1> QED
    BY <1>4, <1>5 DEF Kept

-----------------------------------------------------------------------------
(* And when nothing is on its way, it is the room that agrees with the chat. *)

\* With no rows on their way the chat is what it was at the last table.
LEMMA SinceNothing ==
    ASSUME NEW w \in Rooms, NEW t \in Rooms, NEW T, T = << >>, Since(w, T, t), ChatSound(t), ChatSound(w)
    PROVE  /\ w.exists = t.exists
           /\ \A s \in Slots : Value(w, s) = Value(t, s)
           /\ \A i \in Said : w.text[i] = t.text[i] /\ w.heart[i] = t.heart[i]
<1>1. DOMAIN T = {}
    BY NoList
<1>2. Rows(T, {"exists", "thread"}) = {} /\ ~ Deletes(T) /\ \A i, kind : Named(T, kind, i) = {}
    BY <1>1 DEF Rows, Deletes, Named
<1>3. w.exists = t.exists
    BY <1>2 DEF Since
<1>4. \A s \in Slots : Value(w, s) = Value(t, s)
    BY <1>1 DEF Since
<1>5. ASSUME NEW i \in Said PROVE w.text[i] = t.text[i] /\ w.heart[i] = t.heart[i]
    <2>1. w.text[i] \in Marks /\ t.text[i] \in Marks
        BY DEF Rooms
    <2>2. /\ w.text[i] = "unsaid" => t.text[i] = "unsaid"
          /\ w.text[i] # "second" => t.text[i] # "second"
          /\ w.text[i] # "gone" => t.text[i] # "gone"
          /\ w.text[i] = "gone" => t.text[i] = "gone"
          /\ w.text[i] # "unsaid" => t.text[i] # "unsaid"
          /\ w.text[i] = "second" => t.text[i] \in {"second", "gone"}
        BY <1>2 DEF Since
    <2>3. w.text[i] = t.text[i]
        BY <2>1, <2>2 DEF Marks, Words
    <2>4. CASE t.text[i] # "gone"
        <3>1. Quiet(T, i)
            BY <1>1 DEF Quiet
        <3>2. w.heart[i] = t.heart[i]
            BY <2>4, <3>1 DEF Since
        <3> QED
            BY <2>3, <3>2
    <2>5. CASE t.text[i] = "gone"
        <3>1. i \notin Shown(t) /\ i \notin Shown(w)
            BY <2>3, <2>5, ShownIs DEF Words
        <3>2. t.heart[i] \in BOOLEAN /\ w.heart[i] \in BOOLEAN
            BY DEF Rooms
        <3>3. t.heart[i] = FALSE /\ w.heart[i] = FALSE
            BY <3>1, <3>2 DEF ChatSound
        <3> QED
            BY <2>3, <3>3
    <2> QED
        BY <2>4, <2>5
<1> QED
    BY <1>3, <1>4, <1>5

\* And with nothing waiting the room agrees with it.
LEMMA TextAgrees ==
    ASSUME NEW w, NEW t, NEW T, NEW R, NEW p, NEW b, NEW q, Follows(w, t, T, R, p, b, q), q = << >>, T = << >>,
           NEW i \in Said, Text(i) \notin b, i \in Shown(p) \cup Shown(t)
    PROVE  p.text[i] = t.text[i]
<1>1. ChatSound(w) /\ ChatSound(t) /\ w \in Rooms /\ t \in Rooms /\ RoomSound(p, t) /\ p \in Rooms /\ Since(w, T, t)
    BY DEF Follows, ChatSound, RoomSound
<1>2. w.text[i] = t.text[i]
    BY <1>1, SinceNothing
<1>3. TextFits(w, t, T, p, b, q, i)
    BY DEF Follows
<1>4. p.text[i] \in Marks /\ t.text[i] \in Marks
    BY <1>1 DEF Rooms
<1>5. CASE i \in Shown(t)
    <2>1. t.text[i] \in Words
        BY <1>5, ShownIs DEF Words
    <2>2. Present(p, b, q, i, Text(i), Len(q))
        BY <1>2, <1>3, <2>1 DEF TextFits
    <2>3. i \in Shown(p)
        BY <2>2, HoldsNow
    <2>4. p.text[i] \in Words
        BY <2>3, ShownIs DEF Words
    <2>5. p.text[i] = "second" => t.text[i] = "second"
        BY <1>1, <2>1 DEF RoomSound, Behind, Words
    <2>6. t.text[i] = "second" => p.text[i] # "first"
        <3>1. t.text[i] = "second" => EditHolds(p, b, q, i)
            BY <1>2, <1>3 DEF TextFits
        <3> QED
            BY <3>1, HoldsNow
    <2> QED
        BY <2>1, <2>4, <2>5, <2>6 DEF Words
<1>6. CASE i \notin Shown(t)
    <2>1. i \in Shown(p)
        BY <1>6
    <2>2. t.text[i] = "gone"
        BY <1>1, <1>4, <1>6, <2>1, ShownIs DEF RoomSound, Behind, Words, Marks
    <2>3. GoneHolds(p, b, q, i, Text(i))
        BY <1>2, <1>3, <2>2 DEF TextFits
    <2> QED
        BY <2>1, <2>3, HoldsNow
<1> QED
    BY <1>5, <1>6

LEMMA HeartAgrees ==
    ASSUME NEW w, NEW t, NEW T, NEW R, NEW p, NEW b, NEW q, Follows(w, t, T, R, p, b, q), q = << >>, T = << >>,
           NEW i \in Said, Heart(i) \notin b
    PROVE  p.heart[i] = t.heart[i]
<1>1. ChatSound(w) /\ ChatSound(t) /\ w \in Rooms /\ t \in Rooms /\ RoomSound(p, t) /\ p \in Rooms /\ Since(w, T, t)
    BY DEF Follows, ChatSound, RoomSound
<1>2. w.text[i] = t.text[i]
    BY <1>1, SinceNothing
<1>3. TextFits(w, t, T, p, b, q, i)
    BY DEF Follows
<1>4. p.heart[i] \in BOOLEAN /\ t.heart[i] \in BOOLEAN
    BY <1>1 DEF Rooms
<1>5. CASE t.text[i] # "gone"
    <2>1. Quiet(T, i)
        BY QuietNothing
    <2>2. IF t.heart[i] THEN HeartOn(p, b, q, i) ELSE HeartOff(p, b, q, i)
        BY <1>2, <1>3, <1>5, <2>1 DEF TextFits
    <2>3. CASE t.heart[i] = TRUE
        <3>1. HeartOn(p, b, q, i)
            BY <2>2, <2>3
        <3>2. p.heart[i] = TRUE
            BY <1>4, <3>1, HoldsNow
        <3> QED
            BY <2>3, <3>2, Zenon
    <2>4. CASE t.heart[i] = FALSE
        <3>1. HeartOff(p, b, q, i)
            BY <2>2, <2>4
        <3>2. p.heart[i] = FALSE
            BY <1>4, <3>1, HoldsNow
        <3> QED
            BY <2>4, <3>2, Zenon
    <2> QED
        BY <1>4, <2>3, <2>4
<1>6. CASE t.text[i] = "gone"
    <2>1. GoneHolds(p, b, q, i, Heart(i))
        BY <1>2, <1>3, <1>6 DEF TextFits
    <2>2. i \notin Shown(p)
        BY <2>1, HoldsNow
    <2>3. i \notin Shown(t)
        BY <1>6, ShownIs DEF Words
    <2>4. p.heart[i] = FALSE /\ t.heart[i] = FALSE
        BY <1>1, <1>4, <2>2, <2>3 DEF RoomSound, ChatSound
    <2> QED
        BY <2>4, Zenon
<1> QED
    BY <1>5, <1>6

LEMMA RoomAgrees ==
    ASSUME NEW w, NEW t, NEW T, NEW R, NEW p, NEW b, NEW q, Follows(w, t, T, R, p, b, q), q = << >>, T = << >>
    PROVE  /\ Chat \in b \/ p.exists = t.exists
           /\ t.exists => \A s \in Slots : s \in b \/ Value(p, s) = Value(t, s)
<1>1. ChatSound(w) /\ ChatSound(t) /\ w \in Rooms /\ t \in Rooms /\ p \in Rooms /\ Since(w, T, t) /\ RoomFits(w, p, b, q)
    BY DEF Follows, ChatSound, RoomSound
<1>2. w.exists = t.exists /\ \A s \in Slots : Value(w, s) = Value(t, s)
    BY <1>1, SinceNothing
<1>3. t.exists \in BOOLEAN /\ p.exists \in BOOLEAN
    BY <1>1 DEF Rooms
<1>4. CASE t.exists = TRUE
    <2>1. Housed(p, b, q, Chat, Len(q))
        BY <1>1, <1>2, <1>4 DEF RoomFits, All, Chat
    <2>2. p.exists = TRUE \/ Chat \in b
        BY <1>3, <2>1, HoldsNow
    <2>3. ASSUME NEW s \in Slots PROVE s \in b \/ Value(p, s) = Value(t, s)
        <3>1. SlotHolds(p, b, q, s, Value(w, s))
            BY <1>1, <1>2, <1>4 DEF RoomFits
        <3> QED
            BY <1>2, <3>1, HoldsNow
    <2> QED
        BY <1>4, <2>2, <2>3
<1>5. CASE t.exists = FALSE
    <2>1. NoRoom(p, b, q, Chat, Len(q))
        BY <1>1, <1>2, <1>5 DEF RoomFits
    <2>2. p.exists = FALSE \/ Chat \in b
        BY <1>3, <2>1, HoldsNow
    <2> QED
        BY <1>5, <2>2
<1> QED
    BY <1>3, <1>4, <1>5

LEMMA KeptFollows ==
    ASSUME Kept
    PROVE  PortalFollows
<1>1. SUFFICES ASSUME Settled
               PROVE  /\ Chat \in blurred \/ portal.exists = thread.exists
                      /\ thread.exists /\ portal.exists => \A what \in All \ blurred : Agrees(what)
    BY DEF PortalFollows, Chat
<1>2. PICK w : Follows(w, thread, news, resent, portal, blurred, queued)
    BY DEF Kept
<1>3. queued = << >> /\ news = << >>
    BY <1>1 DEF Settled
<1>4. Chat \in blurred \/ portal.exists = thread.exists
    BY <1>2, <1>3, RoomAgrees
<1>5. ASSUME thread.exists, NEW what \in All \ blurred PROVE Agrees(what)
    <2>1. CASE what = Chat
        <3>1. portal.exists = thread.exists
            BY <1>4, <2>1, <1>5
        <3>2. what[1] = "chat"
            BY <2>1 DEF Chat
        <3> QED
            BY <3>1, <3>2 DEF Agrees
    <2>2. CASE what \in Slots
        <3>1. Value(portal, what) = Value(thread, what)
            BY <1>2, <1>3, <1>5, <2>2, RoomAgrees
        <3>2. CASE what[1] = "field"
            <4>1. /\ Value(portal, what) = portal.field[what[2]]
                  /\ Value(thread, what) = thread.field[what[2]]
                BY <2>2, <3>2, ValueIs
            <4>2. portal.field[what[2]] = thread.field[what[2]]
                BY <3>1, <4>1
            <4> QED
                BY <3>2, <4>2 DEF Agrees
        <3>3. CASE what[1] = "member"
            <4>1. (what[2] \in portal.members) = (what[2] \in thread.members)
                BY <2>2, <3>1, <3>3, ValueIs, Zenon
            <4> QED
                BY <3>3, <4>1 DEF Agrees
        <3> QED
            BY <2>2, <3>2, <3>3, SlotIs
    <2>3. ASSUME NEW i \in Said, what = Text(i) PROVE Agrees(what)
        <3>1. what[1] = "text" /\ what[2] = i
            BY <2>3 DEF Text
        <3>2. i \in Shown(portal) \cup Shown(thread) => portal.text[i] = thread.text[i]
            BY <1>2, <1>3, <1>5, <2>3, TextAgrees
        <3> QED
            BY <3>1, <3>2 DEF Agrees
    <2>4. ASSUME NEW i \in Said, what = Heart(i) PROVE Agrees(what)
        <3>1. what[1] = "heart" /\ what[2] = i
            BY <2>4 DEF Heart
        <3>2. portal.heart[i] = thread.heart[i]
            BY <1>2, <1>3, <1>5, <2>4, HeartAgrees
        <3> QED
            BY <3>1, <3>2 DEF Agrees
    <2> QED
        BY <1>5, <2>1, <2>2, <2>3, <2>4 DEF All, Slots, Chat, Text, Heart
<1> QED
    BY <1>4, <1>5

\* The room is the chat whenever nothing of the chat is on its way, but for
\* what the code is known to lose (parseTable and the portal's events).
THEOREM PortalIsKept == IncomingSpec => []PortalFollows
<1>1. IncomingInit => Kept
    BY InitKeeps
<1>2. Kept /\ [IncomingNext]_incomingVars => Kept'
    BY StepKeeps
<1>3. Kept => PortalFollows
    BY KeptFollows
<1> QED
    BY <1>1, <1>2, <1>3, PTL DEF IncomingSpec
=============================================================================
