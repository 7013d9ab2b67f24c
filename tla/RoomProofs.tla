----------------------------- MODULE RoomProofs -----------------------------
(***************************************************************************)
(* What waits for the portal, and what a table adds to it.                   *)
(*                                                                           *)
(* An aspect of a room (that it is there, a field, a member, a message, its  *)
(* newest text, its reaction) will be as the last event that says anything   *)
(* of it tells, and as it is now when none does.  Lasts(n, start, W, B) says *)
(* so: among the first n events there is one in W, or the start is as        *)
(* wanted, with no event in B behind it.  The properties below (Housed,      *)
(* NoRoom, SlotHolds, GoneHolds, Present, EditHolds, HeartOn, HeartOff) are  *)
(* what has to last for the room to become the chat `was` as it was when the *)
(* last table was made; an aspect that is blurred is as wanted by            *)
(* definition.                                                               *)
(*                                                                           *)
(* The module proves that they are kept by every event the portal handles    *)
(* (HandleTakes, RoomFitsPop, TextFitsPop), says what the events of a parsed *)
(* table are, in the order of their types (ParsedRenders), and proves for    *)
(* the greater part of them that a table put behind the queue makes them     *)
(* last towards the chat as it became (RoomMeets, GoneMeets, PresentMeets,   *)
(* EditMeets, QuietMeets).  The rest, and the invariant, are in              *)
(* PortalProofs.                                                             *)
(***************************************************************************)
EXTENDS Incoming, SequenceTheorems, FiniteSetTheorems, WellFoundedInduction, TLAPS

(* Among the first n something in W, or the start, and nothing in B behind   *)
(* it.                                                                       *)
Lasts(n, start, W, B) ==
    \E k \in 0 .. n : (IF k = 0 THEN start ELSE k \in W) /\ \A j \in (k + 1) .. n : j \notin B

(* Events by what they are: those that take the room away, that open one,    *)
(* that blur an aspect, and those of a kind about something.                 *)
Leaving(q) == {k \in DOMAIN q : q[k].kind = "delete"}
Opened(q) == {k \in DOMAIN q : q[k].kind \in {"exists", "resync"}}
Veils(q, a) == {k \in DOMAIN q : q[k].kind = "blur" /\ a \in q[k].value}
Named(q, kind, x) == {k \in DOMAIN q : q[k].kind = kind /\ q[k].of = x}

(* After n events: there certainly is no room; there is one, unless that is  *)
(* blurred.                                                                  *)
Roomless(p, q, n) == Lasts(n, ~ p.exists, Leaving(q), Opened(q))
Housed(p, b, q, a, n) == Lasts(n, p.exists \/ a \in b, Opened(q) \cup Veils(q, a), Leaving(q))

(* The aspects that have one value, the events that write or decide it, and  *)
(* the value they give.                                                      *)
Chat == <<"chat", Self>>
Slots == ({"field"} \X Fields) \cup ({"member"} \X Members)
Value(t, s) == IF s[1] = "field" THEN t.field[s[2]] ELSE s[2] \in t.members
Default(s) == IF s[1] = "field" THEN 0 ELSE FALSE
Writes(e, s) == \/ s[1] = "field" /\ e.kind \in {"set", "merging"} /\ e.of = s[2]
                \/ s[1] = "member" /\ e.kind \in {"add", "remove"} /\ e.of = s[2]
Written(e, s) == IF s[1] = "field" THEN e.value ELSE e.kind = "add"
Decides(e, s) == /\ e.kind = "resync"
                 /\ IF s[1] = "field" THEN s[2] \in e.certain ELSE e.full \/ s[2] \in e.of
Decided(e, s) == IF s[1] = "field" THEN e.field[s[2]] ELSE s[2] \in e.of

(* After n events there is no room, or what one would show of the aspect is  *)
(* blurred.                                                                  *)
NoRoom(p, b, q, a, n) ==
    Lasts(n, ~ p.exists \/ a \in b, Leaving(q) \cup Veils(q, a),
          Opened(q) \cup {k \in DOMAIN q : Writes(q[k], a) /\ ~ Roomless(p, q, k - 1)})

(* The events that make a slot v, or make it not matter, those that make it  *)
(* something else, and that it will be v.                                    *)
Rights(p, b, q, s, v) ==
    {k \in DOMAIN q : Writes(q[k], s) /\ Written(q[k], s) = v /\ Housed(p, b, q, s, k - 1)}
      \cup {k \in DOMAIN q : Decides(q[k], s) /\ Decided(q[k], s) = v}
      \cup Veils(q, s)
      \cup {k \in DOMAIN q : q[k].kind = "exists" /\ NoRoom(p, b, q, s, k - 1)}
      \cup {k \in Leaving(q) : v = Default(s)}
Wrongs(p, q, s, v) ==
    {k \in DOMAIN q : Writes(q[k], s) /\ Written(q[k], s) # v /\ ~ Roomless(p, q, k - 1)}
      \cup {k \in DOMAIN q : Decides(q[k], s) /\ Decided(q[k], s) # v}
      \cup {k \in Leaving(q) : v # Default(s)}
SlotHolds(p, b, q, s, v) == Lasts(Len(q), s \in b \/ Value(p, s) = v, Rights(p, b, q, s, v), Wrongs(p, q, s, v))

(* A message that is gone: it is taken away or blurred, and nothing brings   *)
(* it back.                                                                  *)
Bundles(e) == IF e.kind = "upsert" THEN {e.value}
              ELSE IF e.kind = "resync" THEN {e.fill[k].value : k \in DOMAIN e.fill} ELSE {}
Brings(e, i) == \/ e.kind = "insert" /\ e.of = i
                \/ \E t \in Bundles(e) : i \in Shown(t)
Returns(p, q, i) == {k \in DOMAIN q : Brings(q[k], i) /\ (q[k].kind = "resync" \/ ~ Roomless(p, q, k - 1))}
GoneHolds(p, b, q, i, a) ==
    Lasts(Len(q), i \notin Shown(p) \/ a \in b, Leaving(q) \cup Named(q, "unsend", i) \cup Veils(q, a), Returns(p, q, i))

(* A message that is shown.                                                  *)
Losses(q, i) == Leaving(q) \cup Named(q, "unsend", i)
Comes(p, b, q, i, a) == {k \in Named(q, "insert", i) : Housed(p, b, q, a, k - 1)} \cup Veils(q, a)
Present(p, b, q, i, a, n) == Lasts(n, i \in Shown(p) \/ a \in b, Comes(p, b, q, i, a), Losses(q, i))

(* A message that was edited: what brings its first text comes before its    *)
(* edit.                                                                     *)
Text(i) == <<"text", i>>
Heart(i) == <<"heart", i>>
Olds(q, i) == Named(q, "insert", i) \cup {k \in DOMAIN q : \E t \in Bundles(q[k]) : t.text[i] = "first"}
EditHolds(p, b, q, i) ==
    Lasts(Len(q), p.text[i] # "first" \/ Text(i) \in b, Named(q, "edit", i) \cup Veils(q, Text(i)), Olds(q, i))

(* The reaction to a message.                                                *)
Colds(q, i) == Named(q, "unreact", i) \cup Losses(q, i)
                 \cup {k \in DOMAIN q : \E t \in Bundles(q[k]) : i \in Shown(t) /\ ~ t.heart[i]}
Warms(q, i) == Named(q, "react", i) \cup {k \in DOMAIN q : \E t \in Bundles(q[k]) : i \in Shown(t) /\ t.heart[i]}
HeartOn(p, b, q, i) ==
    Lasts(Len(q), p.heart[i] \/ Heart(i) \in b,
          {k \in Named(q, "react", i) : Present(p, b, q, i, Heart(i), k - 1)} \cup Veils(q, Heart(i)), Colds(q, i))
HeartOff(p, b, q, i) ==
    Lasts(Len(q), ~ p.heart[i] \/ Heart(i) \in b, Named(q, "unreact", i) \cup Veils(q, Heart(i)), Warms(q, i))

-----------------------------------------------------------------------------
(* No room, no bundle and no event is ahead of the server. *)
Behind(t, now) == \A i \in Said : /\ i \in Shown(t) => now.text[i] # "unsaid"
                                  /\ t.text[i] = "second" => now.text[i] \in {"second", "gone"}
EventFits(e, now) == /\ \A t \in Bundles(e) : Behind(t, now)
                     /\ e.kind \in {"react", "unreact", "unsend"} => now.text[e.of] # "unsaid"
                     /\ e.kind = "insert" => now.text[e.of] # "unsaid" /\ e.value = "first"
                     /\ e.kind = "edit" => now.text[e.of] \in {"second", "gone"} /\ e.value = "second"

Quiet(table, i) == ~ \E n \in DOMAIN table : table[n].kind \in {"react", "unreact"} /\ table[n].of = i

(* The queue leads the room to the chat `was`, and a message of it to what   *)
(* it was, when the rows of the next table do not take it elsewhere.         *)
RoomFits(was, p, b, q) ==
    /\ was.exists => \A a \in All : Housed(p, b, q, a, Len(q))
    /\ ~ was.exists => \A a \in Slots \cup {Chat} : NoRoom(p, b, q, a, Len(q))
    /\ was.exists => \A s \in Slots : SlotHolds(p, b, q, s, Value(was, s))
TextFits(was, now, table, p, b, q, i) ==
    /\ was.text[i] = "gone" => GoneHolds(p, b, q, i, Text(i)) /\ GoneHolds(p, b, q, i, Heart(i))
    /\ was.text[i] \in Words /\ now.text[i] \in Words
         => Present(p, b, q, i, Text(i), Len(q)) /\ Present(p, b, q, i, Heart(i), Len(q))
    /\ was.text[i] = "second" /\ now.text[i] = "second" => EditHolds(p, b, q, i)
    /\ was.text[i] # "gone" /\ now.text[i] # "gone" /\ Quiet(table, i)
         => IF now.heart[i] THEN HeartOn(p, b, q, i) ELSE HeartOff(p, b, q, i)

(* The rows T tell how `was` became t ...                                    *)
Deletes(T) == \E n \in DOMAIN T : Deleting(T[n])
Rows(T, kinds) == {n \in DOMAIN T : T[n].kind \in kinds}

Since(was, T, t) ==
    /\ \A i \in Said :
         /\ was.text[i] = "unsaid" /\ t.text[i] # "unsaid" => Named(T, "insert", i) # {}
         /\ was.text[i] # "second" /\ t.text[i] = "second" => Named(T, "edit", i) # {}
         /\ was.text[i] # "gone" /\ t.text[i] = "gone" => Named(T, "unsend", i) # {} \/ Deletes(T)
         /\ was.text[i] = "gone" => t.text[i] = "gone"
         /\ was.text[i] # "unsaid" => t.text[i] # "unsaid"
         /\ was.text[i] = "second" => t.text[i] \in {"second", "gone"}
         /\ Quiet(T, i) /\ t.text[i] # "gone" => was.heart[i] = t.heart[i]
    /\ \A s \in Slots : (\A n \in DOMAIN T : ~ Writes(T[n], s)) => Value(was, s) = Value(t, s)
    /\ Rows(T, {"exists", "thread"}) = {} /\ ~ Deletes(T) => was.exists = t.exists
    /\ ~ was.exists /\ t.exists /\ ~ Deletes(T) /\ Rows(T, {"thread"}) # {}
         => \A u \in t.members : Named(T, "add", u) # {}

(* ... and what the rows T say last of t is so.                              *)
TableFits(T, t) ==
    /\ T # << >> => t.exists = ~ Deleting(T[Len(T)])
    /\ \A s \in Slots : \A n \in DOMAIN T :
         /\ Writes(T[n], s) => Written(T[n], s) = Value(t, s) \/ \E m \in DOMAIN T : m > n /\ Writes(T[m], s)
         /\ T[n].kind = "thread" =>
              \/ \E m \in DOMAIN T : m > n /\ Writes(T[m], s)
              \/ (IF s[1] = "field" THEN T[n].value.field[s[2]] ELSE s[2] \in T[n].value.who) = Value(t, s)
    /\ \A i \in Said :
         /\ t.text[i] = "gone" /\ Named(T, "unsend", i) = {} /\ ~ Deletes(T) => \A n \in DOMAIN T : ~ Brings(T[n], i)
         /\ t.text[i] \in Words => Named(T, "unsend", i) = {}
         /\ t.text[i] = "second" /\ Named(T, "edit", i) = {} => Olds(T, i) = {}
         /\ t.text[i] \in Words => \A n \in DOMAIN T :
              /\ T[n].kind \in {"react", "unreact"} /\ T[n].of = i =>
                   \/ (T[n].kind = "react") = t.heart[i]
                   \/ \E m \in DOMAIN T : m > n /\ T[m].kind \in {"react", "unreact"} /\ T[m].of = i
              /\ \A u \in Bundles(T[n]) : i \in Shown(u) =>
                   \/ u.heart[i] = t.heart[i]
                   \/ \E m \in DOMAIN T : m > n /\ T[m].kind \in {"react", "unreact"} /\ T[m].of = i
    /\ \A n \in DOMAIN T : EventFits(T[n], t)

-----------------------------------------------------------------------------
(* Sequences as the model makes them: what SetToSortSeq collects in order,   *)
(* what Chosen takes of a table, and lists put behind each other.            *)

LEMMA LeastOf ==
    ASSUME NEW T, T \subseteq Nat, T # {}
    PROVE  \E x \in T : \A y \in T : x <= y
<1> DEFINE lesser == {ss \in Nat \X Nat : ss[1] < ss[2]}
<1>1. \E x \in T : \A y \in T : ~ (<<y, x>> \in OpToRel(<, Nat))
    BY WFMin, NatLessThanWellFounded, Zenon
<1>2. PICK x \in T : \A y \in T : <<y, x>> \notin lesser
    BY <1>1, Zenon DEF OpToRel
<1>3. ASSUME NEW y \in T PROVE x <= y
    <2>1. <<y, x>> \in Nat \X Nat /\ <<y, x>>[1] = y /\ <<y, x>>[2] = x
        OBVIOUS
    <2>2. ~ (<<y, x>>[1] < <<y, x>>[2])
        BY <1>2, <2>1, Zenon
    <2> QED
        BY <2>1, <2>2
<1> QED
    BY <1>3

LEMMA LargestIs ==
    ASSUME NEW n \in Nat, NEW T, T \subseteq 0 .. n, T # {}
    PROVE  Max(T) \in T /\ \A y \in T : y <= Max(T)
<1> DEFINE U == {k \in Nat : n - k \in T}
<1>1. PICK t \in T : TRUE
    OBVIOUS
<1>2. t \in 0 .. n /\ n - t \in Nat /\ n - (n - t) = t
    BY <1>1
<1>3. n - t \in U
    BY <1>1, <1>2
<1>4. PICK k \in U : \A j \in U : k <= j
    BY <1>3, LeastOf
<1>5. n - k \in T
    OBVIOUS
<1>6. ASSUME NEW y \in T PROVE y <= n - k
    <2>1. y \in 0 .. n /\ n - y \in Nat /\ n - (n - y) = y
        OBVIOUS
    <2>2. n - y \in U
        BY <2>1
    <2>3. k <= n - y
        BY <1>4, <2>2
    <2> QED
        BY <1>4, <2>1, <2>3
<1>7. PICK m \in T : \A y \in T : y <= m
    BY <1>5, <1>6
<1>8. \E x \in T : \A y \in T : x >= y
    <2>1. \A y \in T : m >= y
        BY <1>2, <1>7
    <2> QED
        BY <2>1
<1>9. Max(T) \in T /\ \A y \in T : Max(T) >= y
    BY <1>8 DEF Max
<1> QED
    BY <1>9

LEMMA Induces ==
    ASSUME NEW S, 0 \in S, \A n \in Nat : n \in S => n + 1 \in S
    PROVE  Nat \subseteq S
<1> DEFINE T == {n \in Nat : n \notin S}
<1> SUFFICES ASSUME T # {} PROVE FALSE
    OBVIOUS
<1>1. PICK x \in T : \A y \in T : x <= y
    BY LeastOf
<1>2. x - 1 \in Nat /\ x - 1 \in S
    BY <1>1
<1> QED
    BY <1>1, <1>2

\* The numbers InOrder collects up to k, in their order.
Rising(s) == \A i, j \in DOMAIN s : i < j => s[i] < s[j]
Climbs(s, k, those) == /\ s \in Seq(Nat) /\ Rising(s)
                       /\ \A i \in DOMAIN s : s[i] \in those /\ s[i] \in 1 .. k
                       /\ \A m \in 1 .. k : m \in those => \E i \in DOMAIN s : s[i] = m

LEMMA AppendIs ==
    ASSUME NEW s \in Seq(Nat), NEW x \in Nat
    PROVE  /\ Append(s, x) \in Seq(Nat) /\ DOMAIN Append(s, x) = 1 .. (Len(s) + 1) /\ DOMAIN s = 1 .. Len(s)
           /\ Len(s) \in Nat /\ Append(s, x)[Len(s) + 1] = x
           /\ \A i \in 1 .. Len(s) : Append(s, x)[i] = s[i] /\ s[i] \in Nat
OBVIOUS

LEMMA OrderExists ==
    ASSUME NEW n \in Nat, NEW those
    PROVE  \E upto : upto = [k \in 0 .. n |-> IF k = 0 THEN << >>
                                ELSE Adding(upto[k - 1], k, those)]
<1> DEFINE Steps(f, j) == f = [k \in 0 .. j |-> IF k = 0 THEN << >>
                                               ELSE Adding(f[k - 1], k, those)]
           S == {j \in Nat : \E f : Steps(f, j)}
<1>1. 0 \in S
    <2>1. Steps([k \in 0 .. 0 |-> << >>], 0)
        OBVIOUS
    <2> QED
        BY <2>1
<1>2. ASSUME NEW j \in Nat, j \in S PROVE j + 1 \in S
    <2>1. PICK f : Steps(f, j)
        BY <1>2
    <2> DEFINE g == [k \in 0 .. (j + 1) |-> IF k = j + 1
                                            THEN Adding(f[j], k, those)
                                            ELSE f[k]]
    <2>2. ASSUME NEW k \in 0 .. (j + 1)
          PROVE  g[k] = IF k = 0 THEN << >> ELSE Adding(g[k - 1], k, those)
        <3>1. CASE k = j + 1
            <4>1. k # 0 /\ k - 1 = j /\ k - 1 \in 0 .. (j + 1) /\ k - 1 # j + 1
                BY <3>1
            <4>2. g[k - 1] = f[j] /\ g[k] = Adding(f[j], k, those)
                BY <3>1, <4>1
            <4> QED
                BY <4>1, <4>2
        <3>2. CASE k # j + 1
            <4>1. k \in 0 .. j /\ g[k] = f[k]
                BY <3>2
            <4>2. f[k] = IF k = 0 THEN << >> ELSE Adding(f[k - 1], k, those)
                BY <2>1, <4>1
            <4>3. k # 0 => g[k - 1] = f[k - 1]
                BY <3>2
            <4> QED
                BY <4>1, <4>2, <4>3
        <3> QED
            BY <3>1, <3>2
    <2>3. g = [k \in 0 .. (j + 1) |-> g[k]]
        OBVIOUS
    <2> HIDE DEF g
    <2>4. Steps(g, j + 1)
        BY <2>2, <2>3
    <2>5. j + 1 \in Nat
        OBVIOUS
    <2> QED
        BY <2>4, <2>5, Zenon
<1>3. Nat \subseteq S
    <2> HIDE DEF S
    <2> QED
        BY <1>1, <1>2, Induces
<1> QED
    BY <1>3

LEMMA InOrderIs ==
    ASSUME NEW n \in Nat, NEW those
    PROVE  Climbs(InOrder(n, those), n, those)
<1> DEFINE f == CHOOSE upto : upto = [k \in 0 .. n |-> IF k = 0 THEN << >>
                                ELSE Adding(upto[k - 1], k, those)]
           S == {k \in Nat : k <= n => Climbs(f[k], k, those)}
<1>1. InOrder(n, those) = f[n]
    BY DEF InOrder
<1>2. f = [k \in 0 .. n |-> IF k = 0 THEN << >> ELSE Adding(f[k - 1], k, those)]
    BY OrderExists, Zenon
<1> HIDE DEF f
<1>3. \A k \in 0 .. n : f[k] = IF k = 0 THEN << >> ELSE Adding(f[k - 1], k, those)
    BY <1>2
<1>4. 0 \in S
    <2>1. f[0] = << >>
        BY <1>3
    <2>2. Climbs(<< >>, 0, those)
        BY DEF Climbs, Rising
    <2> QED
        BY <2>1, <2>2
<1>5. ASSUME NEW k \in Nat, k \in S PROVE k + 1 \in S
    <2> SUFFICES ASSUME k + 1 <= n PROVE Climbs(f[k + 1], k + 1, those)
        OBVIOUS
    <2>1. PICK s : s = f[k]
        OBVIOUS
    <2>2. /\ s \in Seq(Nat) /\ Rising(s) /\ \A i \in DOMAIN s : s[i] \in those /\ s[i] \in 1 .. k
          /\ \A m \in 1 .. k : m \in those => \E i \in DOMAIN s : s[i] = m
        BY <1>5, <2>1 DEF Climbs
    <2>3. f[k + 1] = IF k + 1 \in those THEN Append(s, k + 1) ELSE s
        <3>1. k + 1 \in 0 .. n /\ k + 1 # 0 /\ (k + 1) - 1 = k
            OBVIOUS
        <3> QED
            BY <1>3, <2>1, <3>1 DEF Adding
    <2>4. CASE k + 1 \in those
        <3>1. PICK m \in Nat : m = k + 1
            OBVIOUS
        <3>2. PICK a : a = Append(s, m)
            OBVIOUS
        <3>3. /\ a \in Seq(Nat) /\ DOMAIN a = 1 .. (Len(s) + 1) /\ DOMAIN s = 1 .. Len(s)
              /\ Len(s) \in Nat /\ a[Len(s) + 1] = m /\ \A i \in 1 .. Len(s) : a[i] = s[i] /\ s[i] \in Nat
            BY <2>2, <3>2, AppendIs
        <3>4. \A i \in DOMAIN a : a[i] \in those /\ a[i] \in 1 .. m
            BY <2>2, <2>4, <3>1, <3>3
        <3>5. Rising(a)
            <4> SUFFICES ASSUME NEW i \in DOMAIN a, NEW j \in DOMAIN a, i < j PROVE a[i] < a[j]
                BY DEF Rising
            <4>1. i \in 1 .. Len(s) /\ a[i] = s[i]
                BY <3>3
            <4>2. CASE j = Len(s) + 1
                BY <2>2, <3>1, <3>3, <4>1, <4>2
            <4>3. CASE j # Len(s) + 1
                <5>1. j \in DOMAIN s /\ i \in DOMAIN s /\ a[j] = s[j]
                    BY <3>3, <4>1, <4>3
                <5> QED
                    BY <2>2, <4>1, <5>1 DEF Rising
            <4> QED
                BY <4>2, <4>3
        <3>7. ASSUME NEW x \in 1 .. m, x \in those PROVE \E i \in DOMAIN a : a[i] = x
            <4>2. CASE x = m
                BY <3>3, <4>2
            <4>3. CASE x # m
                <5>1. x \in 1 .. k
                    BY <3>1, <4>3
                <5>2. PICK i \in DOMAIN s : s[i] = x
                    BY <2>2, <3>7, <5>1
                <5> QED
                    BY <3>3, <5>2
            <4> QED
                BY <4>2, <4>3
        <3>8. Climbs(a, m, those)
            BY <3>3, <3>4, <3>5, <3>7 DEF Climbs
        <3> QED
            BY <2>3, <2>4, <3>1, <3>2, <3>8
    <2>5. CASE k + 1 \notin those
        <3>1. \A i \in DOMAIN s : s[i] \in 1 .. (k + 1)
            BY <2>2
        <3>2. \A m \in 1 .. (k + 1) : m \in those => m \in 1 .. k
            BY <2>5
        <3> QED
            BY <2>2, <2>3, <2>5, <3>1, <3>2 DEF Climbs
    <2> QED
        BY <2>4, <2>5
<1>6. Nat \subseteq S
    <2> HIDE DEF S
    <2> QED
        BY <1>4, <1>5, Induces
<1> QED
    BY <1>1, <1>6

\* A list, of whatever.
IsList(s) == s \in Seq(Range(s))

LEMMA ListIs ==
    ASSUME NEW s, IsList(s)
    PROVE  /\ Len(s) \in Nat /\ DOMAIN s = 1 .. Len(s) /\ s = [i \in 1 .. Len(s) |-> s[i]]
           /\ \A i \in DOMAIN s : s[i] \in Range(s)
BY DEF IsList, Range

LEMMA MadeList ==
    ASSUME NEW s, NEW n \in Nat, DOMAIN s = 1 .. n, s = [i \in 1 .. n |-> s[i]]
    PROVE  IsList(s) /\ Len(s) = n
<1>1. s \in [1 .. n -> Range(s)]
    BY DEF Range
<1>2. s \in Seq(Range(s))
    BY <1>1
<1> QED
    BY <1>2 DEF IsList

LEMMA ChosenIs ==
    ASSUME NEW s, IsList(s), NEW those
    PROVE  /\ IsList(Chosen(s, those))
           /\ \E places : /\ DOMAIN places = DOMAIN Chosen(s, those) /\ Rising(places)
                          /\ \A i \in DOMAIN places : /\ places[i] \in those /\ places[i] \in DOMAIN s
                                                      /\ Chosen(s, those)[i] = s[places[i]]
                          /\ \A m \in DOMAIN s : m \in those => \E i \in DOMAIN places : places[i] = m
<1>1. Len(s) \in Nat /\ DOMAIN s = 1 .. Len(s)
    BY ListIs
<1>2. PICK p : p = InOrder(Len(s), those)
    OBVIOUS
<1>3. /\ p \in Seq(Nat) /\ Rising(p)
      /\ \A i \in DOMAIN p : p[i] \in those /\ p[i] \in 1 .. Len(s)
      /\ \A m \in 1 .. Len(s) : m \in those => \E i \in DOMAIN p : p[i] = m
    BY <1>1, <1>2, InOrderIs DEF Climbs
<1>4. PICK c : c = Chosen(s, those)
    OBVIOUS
<1>5. c = [i \in DOMAIN p |-> s[p[i]]]
    BY <1>2, <1>4 DEF Chosen
<1>6. DOMAIN p = 1 .. Len(p) /\ Len(p) \in Nat
    BY <1>3
<1>7. IsList(c)
    <2>1. DOMAIN c = 1 .. Len(p) /\ c = [i \in 1 .. Len(p) |-> c[i]]
        BY <1>5, <1>6
    <2> QED
        BY <1>6, <2>1, MadeList
<1> QED
    BY <1>1, <1>3, <1>4, <1>5, <1>7

LEMMA JoinedLists ==
    ASSUME NEW s, IsList(s), NEW t, IsList(t)
    PROVE  /\ IsList(s \o t) /\ Len(s \o t) = Len(s) + Len(t)
           /\ \A i \in DOMAIN s : (s \o t)[i] = s[i]
           /\ \A i \in DOMAIN t : i + Len(s) \in DOMAIN (s \o t) /\ (s \o t)[i + Len(s)] = t[i]
           /\ \A i \in DOMAIN (s \o t) : i \in DOMAIN s \/ (i - Len(s) \in DOMAIN t /\ i \in Int)
<1>1. PICK T : T = Range(s) \cup Range(t)
    OBVIOUS
<1>2. s \in Seq(T) /\ t \in Seq(T)
    BY <1>1 DEF IsList
<1>3. PICK u : u = s \o t
    OBVIOUS
<1>4. /\ u \in Seq(T) /\ Len(u) = Len(s) + Len(t) /\ Len(s) \in Nat /\ Len(t) \in Nat
      /\ \A i \in 1 .. Len(s) : u[i] = s[i]
      /\ \A i \in (Len(s) + 1) .. (Len(s) + Len(t)) : u[i] = t[i - Len(s)]
      /\ DOMAIN u = 1 .. (Len(s) + Len(t)) /\ DOMAIN s = 1 .. Len(s) /\ DOMAIN t = 1 .. Len(t)
    BY <1>2, <1>3
<1>5. IsList(u)
    <2>1. u = [i \in 1 .. Len(u) |-> u[i]] /\ DOMAIN u = 1 .. Len(u) /\ Len(u) \in Nat
        BY <1>4
    <2> QED
        BY <2>1, MadeList
<1>6. ASSUME NEW i \in DOMAIN t PROVE i + Len(s) \in DOMAIN u /\ u[i + Len(s)] = t[i]
    <2>1. i + Len(s) \in (Len(s) + 1) .. (Len(s) + Len(t)) /\ (i + Len(s)) - Len(s) = i
        BY <1>4
    <2> QED
        BY <1>4, <2>1
<1>7. \A i \in DOMAIN u : i \in DOMAIN s \/ (i - Len(s) \in DOMAIN t /\ i \in Int)
    BY <1>4
<1> QED
    BY <1>3, <1>4, <1>5, <1>6, <1>7

-----------------------------------------------------------------------------
(* How what lasts changes when an event is taken from the front, or when     *)
(* what makes it last is known under another name.                           *)

LEMMA Popped ==
    ASSUME NEW n \in Nat, n >= 1, NEW start, NEW W, NEW B, NEW start2, NEW W2, NEW B2,
           Lasts(n, start, W, B),
           start /\ 1 \notin B => start2, 1 \in W => start2,
           \A k \in 2 .. n : k \in W => k - 1 \in W2,
           \A k \in 2 .. n : k - 1 \in B2 => k \in B
    PROVE  Lasts(n - 1, start2, W2, B2)
<1>1. PICK k \in 0 .. n : (IF k = 0 THEN start ELSE k \in W) /\ \A j \in (k + 1) .. n : j \notin B
    BY DEF Lasts
<1>2. \A j \in k .. (n - 1) : j >= 1 => j \notin B2
    <2> SUFFICES ASSUME NEW j \in k .. (n - 1), j >= 1 PROVE j \notin B2
        OBVIOUS
    <2>1. j + 1 \in (k + 1) .. n /\ j + 1 \in 2 .. n /\ (j + 1) - 1 = j
        OBVIOUS
    <2> QED
        BY <1>1, <2>1
<1>3. CASE k = 0
    <2>1. start2
        BY <1>1, <1>3
    <2>2. 0 \in 0 .. (n - 1) /\ \A j \in (0 + 1) .. (n - 1) : j \notin B2
        BY <1>2, <1>3
    <2> QED
        BY <2>1, <2>2 DEF Lasts
<1>4. CASE k = 1
    <2>1. start2
        BY <1>1, <1>4
    <2>2. 0 \in 0 .. (n - 1) /\ \A j \in (0 + 1) .. (n - 1) : j \notin B2
        BY <1>2, <1>4
    <2> QED
        BY <2>1, <2>2 DEF Lasts
<1>5. CASE k >= 2
    <2>1. k - 1 \in W2 /\ k - 1 # 0 /\ k - 1 \in 0 .. (n - 1)
        BY <1>1, <1>5
    <2>2. \A j \in (k - 1 + 1) .. (n - 1) : j \notin B2
        BY <1>2, <1>5
    <2> QED
        BY <2>1, <2>2 DEF Lasts
<1> QED
    BY <1>1, <1>3, <1>4, <1>5

LEMMA Prolonged ==
    ASSUME NEW n \in Nat, NEW m \in Nat, NEW start, NEW W, NEW B, NEW W2, NEW B2,
           Lasts(n, start, W, B),
           \A k \in 1 .. n : (k \in W => k \in W2) /\ (k \in B2 => k \in B),
           \A j \in (n + 1) .. (n + m) : j \notin B2
    PROVE  Lasts(n + m, start, W2, B2)
<1>1. PICK k \in 0 .. n : (IF k = 0 THEN start ELSE k \in W) /\ \A j \in (k + 1) .. n : j \notin B
    BY DEF Lasts
<1>2. k \in 0 .. (n + m) /\ (IF k = 0 THEN start ELSE k \in W2)
    BY <1>1
<1>3. \A j \in (k + 1) .. (n + m) : j \notin B2
    <2> SUFFICES ASSUME NEW j \in (k + 1) .. (n + m) PROVE j \notin B2
        OBVIOUS
    <2>1. CASE j <= n
        BY <1>1, <2>1
    <2>2. CASE j > n
        BY <2>2
    <2> QED
        BY <2>1, <2>2
<1> QED
    BY <1>2, <1>3 DEF Lasts

LEMMA Renewed ==
    ASSUME NEW n \in Nat, NEW start, NEW W, NEW B, NEW k \in 1 .. n, k \in W,
           \A j \in (k + 1) .. n : j \notin B
    PROVE  Lasts(n, start, W, B)
<1>1. k \in 0 .. n /\ k # 0
    OBVIOUS
<1> QED
    BY <1>1 DEF Lasts

LEMMA Begun ==
    ASSUME NEW n \in Nat, NEW start, NEW W, NEW B, start, \A j \in 1 .. n : j \notin B
    PROVE  Lasts(n, start, W, B)
<1>1. 0 \in 0 .. n
    OBVIOUS
<1> QED
    BY <1>1 DEF Lasts

\* Sets that are the same, or better, up to n.
LEMMA Alike ==
    ASSUME NEW n \in Nat, NEW start, NEW W, NEW B, NEW start2, NEW W2, NEW B2,
           Lasts(n, start, W, B), start => start2,
           \A k \in 1 .. n : (k \in W => k \in W2) /\ (k \in B2 => k \in B)
    PROVE  Lasts(n, start2, W2, B2)
<1>1. PICK k \in 0 .. n : (IF k = 0 THEN start ELSE k \in W) /\ \A j \in (k + 1) .. n : j \notin B
    BY DEF Lasts
<1>2. (IF k = 0 THEN start2 ELSE k \in W2) /\ \A j \in (k + 1) .. n : j \notin B2
    BY <1>1
<1> QED
    BY <1>2 DEF Lasts

-----------------------------------------------------------------------------
(* What an event does to a room (Takes), aspect by aspect, and what the      *)
(* first event of a queue, once handled, leaves of the promises about        *)
(* whether there is a room.                                                  *)

Shifted(q, r) == /\ Len(q) \in Nat /\ Len(q) >= 1 /\ DOMAIN q = 1 .. Len(q)
                 /\ Len(r) = Len(q) - 1 /\ DOMAIN r = 1 .. Len(r) /\ \A k \in 1 .. Len(r) : r[k] = q[k + 1]

TakesRoom(e, p, b, p2, b2) ==
    /\ p2.exists = IF e.kind = "delete" THEN FALSE ELSE e.kind \in {"exists", "resync"} \/ p.exists
    /\ e.kind \notin {"exists", "resync"} /\ Chat \in b => Chat \in b2
    /\ e.kind = "blur" => e.value \subseteq b2
    /\ ~ p.exists /\ e.kind \notin {"exists", "resync"} => b \subseteq b2

TakesSlot(e, p, b, p2, b2, s) ==
    /\ p.exists /\ Writes(e, s) => Value(p2, s) = Written(e, s)
    /\ Decides(e, s) => Value(p2, s) = Decided(e, s)
    /\ e.kind = "delete" => Value(p2, s) = Default(s)
    /\ e.kind # "delete" /\ ~ Decides(e, s) /\ ~ (Writes(e, s) /\ p.exists) => Value(p2, s) = Value(p, s)
    /\ s \in b /\ ~ Decides(e, s) => s \in b2
    /\ e.kind = "exists" /\ ~ p.exists => s \in b2

IsOf(e, kind, i) == e.kind = kind /\ e.of = i

Filled(e, p, p2, now, i) ==
    /\ i \notin Shown(p) /\ (e.kind = "resync" \/ (e.kind = "upsert" /\ p.exists))
    /\ \/ \E t \in Bundles(e) : i \in Shown(t) /\ p2.text[i] = t.text[i] /\ p2.heart[i] = t.heart[i]
       \/ i \in Shown(now) /\ p2.text[i] = now.text[i] /\ p2.heart[i] = now.heart[i]

TakesText(e, p, b, p2, b2, now, i) ==
    /\ e.kind = "delete" => i \notin Shown(p2) /\ p2.text[i] # "first"
    /\ IsOf(e, "unsend", i) => i \notin Shown(p2)
    /\ IsOf(e, "insert", i) /\ p.exists => i \in Shown(p2)
    /\ IsOf(e, "edit", i) => p2.text[i] # "first"
    /\ IsOf(e, "react", i) /\ i \in Shown(p) => p2.heart[i]
    /\ IsOf(e, "unreact", i) => ~ p2.heart[i]
    /\ i \in Shown(p) /\ e.kind # "delete" /\ ~ IsOf(e, "unsend", i) => i \in Shown(p2)
    /\ i \notin Shown(p) /\ i \in Shown(p2) => (IsOf(e, "insert", i) /\ p.exists) \/ Filled(e, p, p2, now, i)
    /\ i \in Shown(p) /\ p2.text[i] = "first" => p.text[i] = "first"
    /\ p2.heart[i] /\ ~ p.heart[i] => IsOf(e, "react", i) \/ Filled(e, p, p2, now, i)
    /\ p.heart[i] /\ ~ p2.heart[i] => IsOf(e, "unreact", i) \/ IsOf(e, "unsend", i) \/ e.kind = "delete"
    /\ p2.heart[i] => i \in Shown(p2)
    /\ p2.text[i] = "first" => i \in Shown(p2)
    /\ \A a \in {Text(i), Heart(i)} :
         a \in b => \/ a \in b2 
                    \/ Filled(e, p, p2, now, i)
                    \/ i \notin Shown(p) /\ i \notin Shown(now) /\ i \notin Shown(p2)

LEMMA Shift ==
    ASSUME NEW q, NEW r, Shifted(q, r), NEW k \in 2 .. Len(q)
    PROVE  k - 1 \in DOMAIN r /\ k \in DOMAIN q /\ r[k - 1] = q[k] /\ k - 1 \in 1 .. Len(r)
<1>1. Len(q) \in Nat /\ Len(r) = Len(q) - 1 /\ DOMAIN r = 1 .. Len(r) /\ DOMAIN q = 1 .. Len(q)
      /\ \A j \in 1 .. Len(r) : r[j] = q[j + 1]
    BY DEF Shifted
<1>2. k - 1 \in 1 .. Len(r) /\ (k - 1) + 1 = k
    BY <1>1
<1> QED
    BY <1>1, <1>2

LEMMA RoomlessPops ==
    ASSUME NEW q, NEW r, NEW p, NEW b, NEW p2, NEW b2, Shifted(q, r), TakesRoom(q[1], p, b, p2, b2),
           NEW n \in 1 .. Len(q), Roomless(p, q, n)
    PROVE  Roomless(p2, r, n - 1)
<1>1. Len(q) \in Nat /\ n \in Nat /\ n >= 1 /\ \A k \in 2 .. n : k \in 2 .. Len(q)
    BY DEF Shifted
<1>2. \A k \in 2 .. n : k \in Leaving(q) => k - 1 \in Leaving(r)
    BY <1>1, Shift DEF Leaving
<1>3. \A k \in 2 .. n : k - 1 \in Opened(r) => k \in Opened(q)
    BY <1>1, Shift DEF Opened
<1>4. 1 \in DOMAIN q
    BY <1>1 DEF Shifted
<1>5. ~ p.exists /\ 1 \notin Opened(q) => ~ p2.exists
    BY <1>4 DEF TakesRoom, Opened
<1>6. 1 \in Leaving(q) => ~ p2.exists
    BY DEF TakesRoom, Leaving
<1> QED
    BY <1>1, <1>2, <1>3, <1>5, <1>6, Popped DEF Roomless

LEMMA VeilsPop ==
    ASSUME NEW q, NEW r, Shifted(q, r), NEW a, NEW k \in 2 .. Len(q)
    PROVE  /\ k \in Veils(q, a) <=> k - 1 \in Veils(r, a)
           /\ k \in Leaving(q) <=> k - 1 \in Leaving(r)
           /\ k \in Opened(q) <=> k - 1 \in Opened(r)
           /\ \A kind, x : k \in Named(q, kind, x) <=> k - 1 \in Named(r, kind, x)
<1> QED
    BY Shift DEF Veils, Leaving, Opened, Named

LEMMA HousedPops ==
    ASSUME NEW q, NEW r, NEW p, NEW b, NEW p2, NEW b2, Shifted(q, r), TakesRoom(q[1], p, b, p2, b2),
           NEW a, NEW n \in 1 .. Len(q), Housed(p, b, q, a, n)
    PROVE  Housed(p2, b2, r, a, n - 1)
<1>1. Len(q) \in Nat /\ n \in Nat /\ n >= 1 /\ \A k \in 2 .. n : k \in 2 .. Len(q)
    BY DEF Shifted
<1>2. \A k \in 2 .. n : /\ k \in Opened(q) \cup Veils(q, a) => k - 1 \in Opened(r) \cup Veils(r, a)
                        /\ k - 1 \in Leaving(r) => k \in Leaving(q)
    BY <1>1, VeilsPop
<1>4. 1 \in DOMAIN q
    BY <1>1 DEF Shifted
<1>5. (p.exists \/ a \in b) /\ 1 \notin Leaving(q) => p2.exists \/ a \in b2
    BY <1>4 DEF TakesRoom, Leaving
<1>6. 1 \in Opened(q) \cup Veils(q, a) => p2.exists \/ a \in b2
    BY DEF TakesRoom, Opened, Veils
<1> QED
    BY <1>1, <1>2, <1>5, <1>6, Popped DEF Housed

LEMMA WrittenPops ==
    ASSUME NEW q, NEW r, NEW p, NEW b, NEW p2, NEW b2, Shifted(q, r), TakesRoom(q[1], p, b, p2, b2),
           NEW k \in 2 .. Len(q), ~ Roomless(p2, r, k - 1 - 1)
    PROVE  ~ Roomless(p, q, k - 1)
<1>1. PICK n : n = k - 1
    OBVIOUS
<1>2. n \in 1 .. Len(q)
    BY <1>1 DEF Shifted
<1>3. Roomless(p, q, n) => Roomless(p2, r, n - 1)
    BY <1>2, RoomlessPops
<1> QED
    BY <1>1, <1>3

LEMMA NoRoomPops ==
    ASSUME NEW q, NEW r, NEW p, NEW b, NEW p2, NEW b2, Shifted(q, r), TakesRoom(q[1], p, b, p2, b2),
           NEW a \in Slots \cup {Chat}, a \in Slots => TakesSlot(q[1], p, b, p2, b2, a),
           NEW n \in 1 .. Len(q), NoRoom(p, b, q, a, n)
    PROVE  NoRoom(p2, b2, r, a, n - 1)
<1> DEFINE W(t) == Leaving(t) \cup Veils(t, a)
           B(x, t) == Opened(t) \cup {k \in DOMAIN t : Writes(t[k], a) /\ ~ Roomless(x, t, k - 1)}
<1>1. Len(q) \in Nat /\ n \in Nat /\ n >= 1 /\ \A k \in 2 .. n : k \in 2 .. Len(q)
    BY DEF Shifted
<1>2. \A k \in 2 .. n : k \in W(q) => k - 1 \in W(r)
    BY <1>1, VeilsPop
<1>3. ASSUME NEW k \in 2 .. n, k - 1 \in B(p2, r) PROVE k \in B(p, q)
    <2>1. CASE k - 1 \in Opened(r)
        BY <1>1, <2>1, VeilsPop
    <2>2. CASE k - 1 \in DOMAIN r /\ Writes(r[k - 1], a) /\ ~ Roomless(p2, r, k - 1 - 1)
        BY <1>1, <2>2, WrittenPops, Shift
    <2> QED
        BY <1>3, <2>1, <2>2
<1>4. 1 \in DOMAIN q
    BY <1>1 DEF Shifted
<1>5. (~ p.exists \/ a \in b) /\ 1 \notin B(p, q) => ~ p2.exists \/ a \in b2
    <2> SUFFICES ASSUME ~ p.exists \/ a \in b, 1 \notin B(p, q), p2.exists PROVE a \in b2
        OBVIOUS
    <2>1. q[1].kind \notin {"exists", "resync"}
        BY <1>4 DEF Opened
    <2>2. a \in b
        BY <2>1 DEF TakesRoom
    <2> QED
        BY <2>1, <2>2 DEF TakesRoom, TakesSlot, Decides
<1>6. 1 \in W(q) => ~ p2.exists \/ a \in b2
    BY DEF TakesRoom, Leaving, Veils
<1>7. Lasts(n, ~ p.exists \/ a \in b, W(q), B(p, q))
    BY DEF NoRoom
<1> HIDE DEF W, B
<1>8. Lasts(n - 1, ~ p2.exists \/ a \in b2, W(r), B(p2, r))
    BY <1>1, <1>2, <1>3, <1>5, <1>6, <1>7, Popped
<1> QED
    BY <1>8 DEF NoRoom, W, B

-----------------------------------------------------------------------------
(* The same for the fields and members, the messages, their texts and their  *)
(* reactions.                                                                *)

LEMMA SlotPops ==
    ASSUME NEW q, NEW r, NEW p, NEW b, NEW p2, NEW b2, Shifted(q, r), TakesRoom(q[1], p, b, p2, b2),
           NEW s \in Slots, TakesSlot(q[1], p, b, p2, b2, s), NEW v, SlotHolds(p, b, q, s, v)
    PROVE  SlotHolds(p2, b2, r, s, v)
<1> DEFINE n == Len(q)
<1>1. n \in Nat /\ n >= 1 /\ Len(r) = n - 1 /\ 1 \in DOMAIN q
    BY DEF Shifted
<1>2. ASSUME NEW k \in 2 .. n, k \in Rights(p, b, q, s, v) PROVE k - 1 \in Rights(p2, b2, r, s, v)
    <2>1. k - 1 \in DOMAIN r /\ r[k - 1] = q[k] /\ k \in DOMAIN q
        BY Shift
    <2>2. PICK m : m = k - 1
        OBVIOUS
    <2>3. m \in 1 .. Len(q) /\ m \in DOMAIN r /\ r[m] = q[k]
        BY <1>1, <2>1, <2>2
    <2>4. CASE Writes(q[k], s) /\ Written(q[k], s) = v /\ Housed(p, b, q, s, k - 1)
        <3>1. Housed(p2, b2, r, s, m - 1)
            BY <2>2, <2>3, <2>4, HousedPops
        <3> QED
            BY <2>2, <2>3, <2>4, <3>1 DEF Rights
    <2>5. CASE Decides(q[k], s) /\ Decided(q[k], s) = v
        BY <2>2, <2>3, <2>5 DEF Rights
    <2>6. CASE k \in Veils(q, s)
        BY <2>1, <2>6, VeilsPop DEF Rights
    <2>7. CASE q[k].kind = "exists" /\ NoRoom(p, b, q, s, k - 1)
        <3>1. NoRoom(p2, b2, r, s, m - 1)
            BY <2>2, <2>3, <2>7, NoRoomPops
        <3> QED
            BY <2>2, <2>3, <2>7, <3>1 DEF Rights
    <2>8. CASE k \in Leaving(q) /\ v = Default(s)
        BY <2>1, <2>8, VeilsPop DEF Rights
    <2> QED
        BY <1>2, <2>4, <2>5, <2>6, <2>7, <2>8 DEF Rights
<1>3. ASSUME NEW k \in 2 .. n, k - 1 \in Wrongs(p2, r, s, v) PROVE k \in Wrongs(p, q, s, v)
    <2>1. k - 1 \in DOMAIN r /\ r[k - 1] = q[k] /\ k \in DOMAIN q
        BY Shift
    <2>2. CASE Writes(r[k - 1], s) /\ Written(r[k - 1], s) # v /\ ~ Roomless(p2, r, k - 1 - 1)
        <3>1. ~ Roomless(p, q, k - 1)
            BY <2>2, WrittenPops
        <3> QED
            BY <2>1, <2>2, <3>1 DEF Wrongs
    <2>3. CASE Decides(r[k - 1], s) /\ Decided(r[k - 1], s) # v
        BY <2>1, <2>3 DEF Wrongs
    <2>4. CASE k - 1 \in Leaving(r) /\ v # Default(s)
        BY <2>1, <2>4, VeilsPop DEF Wrongs
    <2> QED
        BY <1>3, <2>2, <2>3, <2>4 DEF Wrongs
<1>4. \A x, y : x.exists => ~ Roomless(x, y, 0)
    BY DEF Roomless, Lasts
<1>5. (s \in b \/ Value(p, s) = v) /\ 1 \notin Wrongs(p, q, s, v) => s \in b2 \/ Value(p2, s) = v
    <2> SUFFICES ASSUME s \in b \/ Value(p, s) = v, 1 \notin Wrongs(p, q, s, v), s \notin b2 PROVE Value(p2, s) = v
        OBVIOUS
    <2>1. CASE Decides(q[1], s)
        BY <1>1, <2>1 DEF Wrongs, TakesSlot
    <2>2. CASE ~ Decides(q[1], s)
        <3>1. Value(p, s) = v
            BY <2>2 DEF TakesSlot
        <3>2. CASE q[1].kind = "delete"
            BY <1>1, <3>2 DEF Wrongs, TakesSlot, Leaving
        <3>3. CASE Writes(q[1], s) /\ p.exists
            <4>1. ~ Roomless(p, q, 1 - 1)
                BY <1>4, <3>3
            <4> QED
                BY <1>1, <3>3, <4>1 DEF Wrongs, TakesSlot
        <3> QED
            BY <2>2, <3>1, <3>2, <3>3 DEF TakesSlot
    <2> QED
        BY <2>1, <2>2
<1>6. 1 \in Rights(p, b, q, s, v) => s \in b2 \/ Value(p2, s) = v
    <2> SUFFICES ASSUME 1 \in Rights(p, b, q, s, v), s \notin b2 PROVE Value(p2, s) = v
        OBVIOUS
    <2>1. CASE Writes(q[1], s) /\ Written(q[1], s) = v /\ Housed(p, b, q, s, 1 - 1)
        <3>1. p.exists \/ s \in b
            BY <2>1 DEF Housed, Lasts
        <3>2. ~ Decides(q[1], s)
            BY <2>1 DEF Writes, Decides
        <3> QED
            BY <2>1, <3>1, <3>2 DEF TakesSlot
    <2>2. CASE Decides(q[1], s) /\ Decided(q[1], s) = v
        BY <2>2 DEF TakesSlot
    <2>3. CASE 1 \in Veils(q, s)
        BY <2>3 DEF Veils, TakesRoom
    <2>4. CASE q[1].kind = "exists" /\ NoRoom(p, b, q, s, 1 - 1)
        <3>1. ~ p.exists \/ s \in b
            BY <2>4 DEF NoRoom, Lasts
        <3> QED
            BY <2>4, <3>1 DEF TakesSlot, Decides
    <2>5. CASE 1 \in Leaving(q) /\ v = Default(s)
        BY <2>5 DEF Leaving, TakesSlot
    <2> QED
        BY <2>1, <2>2, <2>3, <2>4, <2>5 DEF Rights
<1>7. Lasts(n, s \in b \/ Value(p, s) = v, Rights(p, b, q, s, v), Wrongs(p, q, s, v))
    BY DEF SlotHolds
<1>8. Lasts(n - 1, s \in b2 \/ Value(p2, s) = v, Rights(p2, b2, r, s, v), Wrongs(p2, r, s, v))
    BY <1>1, <1>2, <1>3, <1>5, <1>6, <1>7, Popped
<1> QED
    BY <1>1, <1>8 DEF SlotHolds

LEMMA GonePops ==
    ASSUME NEW q, NEW r, NEW p, NEW b, NEW p2, NEW b2, NEW now, Shifted(q, r), TakesRoom(q[1], p, b, p2, b2),
           NEW i \in Said, NEW a \in {Text(i), Heart(i)}, TakesText(q[1], p, b, p2, b2, now, i),
           i \notin Shown(now), GoneHolds(p, b, q, i, a)
    PROVE  GoneHolds(p2, b2, r, i, a)
<1> DEFINE n == Len(q)
           W(t) == Leaving(t) \cup Named(t, "unsend", i) \cup Veils(t, a)
<1>1. n \in Nat /\ n >= 1 /\ Len(r) = n - 1 /\ 1 \in DOMAIN q
    BY DEF Shifted
<1>2. \A k \in 2 .. n : k \in W(q) => k - 1 \in W(r)
    BY VeilsPop
<1>3. ASSUME NEW k \in 2 .. n, k - 1 \in Returns(p2, r, i) PROVE k \in Returns(p, q, i)
    <2>1. k \in DOMAIN q /\ r[k - 1] = q[k]
        BY Shift
    <2>2. ~ Roomless(p2, r, k - 1 - 1) => ~ Roomless(p, q, k - 1)
        BY WrittenPops
    <2> QED
        BY <1>3, <2>1, <2>2 DEF Returns
<1>4. p.exists => ~ Roomless(p, q, 1 - 1)
    BY DEF Roomless, Lasts
<1>5. (i \notin Shown(p) \/ a \in b) /\ 1 \notin Returns(p, q, i) => i \notin Shown(p2) \/ a \in b2
    <2> SUFFICES ASSUME i \notin Shown(p) \/ a \in b, 1 \notin Returns(p, q, i), i \in Shown(p2), a \notin b2 PROVE FALSE
        OBVIOUS
    <2>1. ~ Filled(q[1], p, p2, now, i)
        BY <1>1, <1>4 DEF Filled, Returns, Brings
    <2>2. ~ (IsOf(q[1], "insert", i) /\ p.exists)
        BY <1>1, <1>4 DEF Returns, Brings, IsOf
    <2> QED
        BY <2>1, <2>2 DEF TakesText
<1>6. 1 \in W(q) => i \notin Shown(p2) \/ a \in b2
    BY DEF TakesRoom, TakesText, IsOf, Veils, Leaving, Named
<1>7. Lasts(n, i \notin Shown(p) \/ a \in b, W(q), Returns(p, q, i))
    BY DEF GoneHolds
<1> HIDE DEF W
<1>8. Lasts(n - 1, i \notin Shown(p2) \/ a \in b2, W(r), Returns(p2, r, i))
    BY <1>1, <1>2, <1>3, <1>5, <1>6, <1>7, Popped
<1> QED
    BY <1>1, <1>8 DEF GoneHolds, W

LEMMA PresentPops ==
    ASSUME NEW q, NEW r, NEW p, NEW b, NEW p2, NEW b2, NEW now, Shifted(q, r), TakesRoom(q[1], p, b, p2, b2),
           NEW i \in Said, NEW a \in {Text(i), Heart(i)}, TakesText(q[1], p, b, p2, b2, now, i),
           i \in Shown(now), NEW n \in 1 .. Len(q), Present(p, b, q, i, a, n)
    PROVE  Present(p2, b2, r, i, a, n - 1)
<1>1. Len(q) \in Nat /\ n \in Nat /\ n >= 1 /\ \A k \in 2 .. n : k \in 2 .. Len(q)
    BY DEF Shifted
<1>0. 1 \in DOMAIN q
    BY DEF Shifted
<1>2. ASSUME NEW k \in 2 .. n, k \in Comes(p, b, q, i, a) PROVE k - 1 \in Comes(p2, b2, r, i, a)
    <2>1. PICK m : m = k - 1
        OBVIOUS
    <2>2. m \in 1 .. Len(q)
        BY <1>1, <2>1
    <2>3. CASE k \in Named(q, "insert", i) /\ Housed(p, b, q, a, k - 1)
        <3>0. Housed(p, b, q, a, m)
            BY <2>1, <2>3
        <3>1. Housed(p2, b2, r, a, m - 1)
            BY <2>2, <3>0, HousedPops
        <3>2. m \in Named(r, "insert", i)
            BY <1>1, <2>1, <2>3, VeilsPop
        <3> QED
            BY <2>1, <3>1, <3>2 DEF Comes
    <2>4. CASE k \in Veils(q, a)
        BY <1>1, <2>4, VeilsPop DEF Comes
    <2> QED
        BY <1>2, <2>3, <2>4 DEF Comes
<1>3. \A k \in 2 .. n : k - 1 \in Losses(r, i) => k \in Losses(q, i)
    BY <1>1, VeilsPop DEF Losses
<1>4. Filled(q[1], p, p2, now, i) => i \in Shown(p2)
    BY DEF Filled, Shown
<1>5. (i \in Shown(p) \/ a \in b) /\ 1 \notin Losses(q, i) => i \in Shown(p2) \/ a \in b2
    BY <1>0, <1>4 DEF Losses, Leaving, Named, TakesText, IsOf
<1>6. 1 \in Comes(p, b, q, i, a) => i \in Shown(p2) \/ a \in b2
    <2>1. CASE 1 \in Named(q, "insert", i) /\ Housed(p, b, q, a, 1 - 1)
        <3>1. p.exists \/ a \in b
            BY <2>1 DEF Housed, Lasts
        <3>2. IsOf(q[1], "insert", i)
            BY <2>1 DEF Named, IsOf
        <3> QED
            BY <1>4, <3>1, <3>2 DEF TakesText
    <2>2. CASE 1 \in Veils(q, a)
        BY <2>2 DEF Veils, TakesRoom
    <2> QED
        BY <2>1, <2>2 DEF Comes
<1>7. Lasts(n, i \in Shown(p) \/ a \in b, Comes(p, b, q, i, a), Losses(q, i))
    BY DEF Present
<1>8. Lasts(n - 1, i \in Shown(p2) \/ a \in b2, Comes(p2, b2, r, i, a), Losses(r, i))
    BY <1>1, <1>2, <1>3, <1>5, <1>6, <1>7, Popped
<1> QED
    BY <1>8 DEF Present

LEMMA EditPops ==
    ASSUME NEW q, NEW r, NEW p, NEW b, NEW p2, NEW b2, NEW now, Shifted(q, r), TakesRoom(q[1], p, b, p2, b2),
           NEW i \in Said, TakesText(q[1], p, b, p2, b2, now, i),
           now.text[i] = "second", EditHolds(p, b, q, i)
    PROVE  EditHolds(p2, b2, r, i)
<1> DEFINE n == Len(q)
           W(t) == Named(t, "edit", i) \cup Veils(t, Text(i))
<1>1. n \in Nat /\ n >= 1 /\ Len(r) = n - 1 /\ 1 \in DOMAIN q
    BY DEF Shifted
<1>2. \A k \in 2 .. n : k \in W(q) => k - 1 \in W(r)
    BY VeilsPop
<1>3. ASSUME NEW k \in 2 .. n, k - 1 \in Olds(r, i) PROVE k \in Olds(q, i)
    <2>1. k \in DOMAIN q /\ r[k - 1] = q[k]
        BY Shift
    <2>2. k - 1 \in Named(r, "insert", i) => k \in Named(q, "insert", i)
        BY VeilsPop
    <2> QED
        BY <1>3, <2>1, <2>2 DEF Olds
<1>4. ASSUME 1 \notin Olds(q, i), Filled(q[1], p, p2, now, i) PROVE p2.text[i] # "first"
    <2>1. \A t \in Bundles(q[1]) : t.text[i] # "first"
        BY <1>1, <1>4 DEF Olds
    <2> QED
        BY <1>4, <2>1 DEF Filled
<1>5. (p.text[i] # "first" \/ Text(i) \in b) /\ 1 \notin Olds(q, i) => p2.text[i] # "first" \/ Text(i) \in b2
    <2> SUFFICES ASSUME p.text[i] # "first" \/ Text(i) \in b, 1 \notin Olds(q, i), p2.text[i] = "first"
                 PROVE  Text(i) \in b2
        OBVIOUS
    <2>1. i \in Shown(p2) /\ ~ Filled(q[1], p, p2, now, i)
        BY <1>4 DEF TakesText
    <2>2. ~ IsOf(q[1], "insert", i)
        BY <1>1 DEF Olds, Named, IsOf
    <2>3. i \in Shown(p) /\ p.text[i] = "first"
        BY <2>1, <2>2 DEF TakesText
    <2> QED
        BY <2>1, <2>3 DEF TakesText
<1>6. 1 \in W(q) => p2.text[i] # "first" \/ Text(i) \in b2
    BY DEF TakesRoom, TakesText, IsOf, Veils, Named
<1>7. Lasts(n, p.text[i] # "first" \/ Text(i) \in b, W(q), Olds(q, i))
    BY DEF EditHolds
<1> HIDE DEF W
<1>8. Lasts(n - 1, p2.text[i] # "first" \/ Text(i) \in b2, W(r), Olds(r, i))
    BY <1>1, <1>2, <1>3, <1>5, <1>6, <1>7, Popped
<1> QED
    BY <1>1, <1>8 DEF EditHolds, W

LEMMA HeartOnPops ==
    ASSUME NEW q, NEW r, NEW p, NEW b, NEW p2, NEW b2, NEW now, Shifted(q, r), TakesRoom(q[1], p, b, p2, b2),
           NEW i \in Said, TakesText(q[1], p, b, p2, b2, now, i),
           i \in Shown(now), now.heart[i], HeartOn(p, b, q, i)
    PROVE  HeartOn(p2, b2, r, i)
<1> DEFINE n == Len(q)
           W(x, y, t) == {k \in Named(t, "react", i) : Present(x, y, t, i, Heart(i), k - 1)} \cup Veils(t, Heart(i))
<1>1. n \in Nat /\ n >= 1 /\ Len(r) = n - 1 /\ 1 \in DOMAIN q
    BY DEF Shifted
<1>2. ASSUME NEW k \in 2 .. n, k \in W(p, b, q) PROVE k - 1 \in W(p2, b2, r)
    <2>1. PICK m : m = k - 1
        OBVIOUS
    <2>2. m \in 1 .. Len(q)
        BY <1>1, <2>1
    <2>3. CASE k \in Named(q, "react", i) /\ Present(p, b, q, i, Heart(i), k - 1)
        <3>0. PICK a \in {Text(i), Heart(i)} : a = Heart(i)
            OBVIOUS
        <3>3. Present(p, b, q, i, a, m)
            BY <2>1, <2>3, <3>0
        <3>4. Present(p2, b2, r, i, a, m - 1)
            BY <2>2, <3>3, PresentPops
        <3>1. Present(p2, b2, r, i, Heart(i), m - 1)
            BY <3>0, <3>4
        <3>2. m \in Named(r, "react", i)
            BY <1>1, <2>1, <2>3, VeilsPop
        <3> QED
            BY <2>1, <3>1, <3>2
    <2>4. CASE k \in Veils(q, Heart(i))
        BY <1>1, <2>4, VeilsPop
    <2> QED
        BY <1>2, <2>3, <2>4
<1>3. ASSUME NEW k \in 2 .. n, k - 1 \in Colds(r, i) PROVE k \in Colds(q, i)
    <2>1. k \in DOMAIN q /\ r[k - 1] = q[k]
        BY Shift
    <2>2. /\ k - 1 \in Named(r, "unreact", i) => k \in Named(q, "unreact", i)
          /\ k - 1 \in Losses(r, i) => k \in Losses(q, i)
        BY VeilsPop DEF Losses
    <2> QED
        BY <1>3, <2>1, <2>2 DEF Colds
<1>4. ASSUME 1 \notin Colds(q, i), Filled(q[1], p, p2, now, i) PROVE p2.heart[i]
    <2>1. \A t \in Bundles(q[1]) : i \in Shown(t) => t.heart[i]
        BY <1>1, <1>4 DEF Colds
    <2> QED
        BY <1>4, <2>1 DEF Filled
<1>5. (p.heart[i] \/ Heart(i) \in b) /\ 1 \notin Colds(q, i) => p2.heart[i] \/ Heart(i) \in b2
    <2> SUFFICES ASSUME p.heart[i] \/ Heart(i) \in b, 1 \notin Colds(q, i) PROVE p2.heart[i] \/ Heart(i) \in b2
        OBVIOUS
    <2>1. ~ IsOf(q[1], "unreact", i) /\ ~ IsOf(q[1], "unsend", i) /\ q[1].kind # "delete"
        BY <1>1 DEF Colds, Losses, Leaving, Named, IsOf
    <2>2. CASE p.heart[i]
        BY <2>1, <2>2 DEF TakesText
    <2>3. CASE Heart(i) \in b
        BY <1>4, <2>3 DEF TakesText
    <2> QED
        BY <2>2, <2>3
<1>6. 1 \in W(p, b, q) => p2.heart[i] \/ Heart(i) \in b2
    <2>1. CASE 1 \in Named(q, "react", i) /\ Present(p, b, q, i, Heart(i), 1 - 1)
        <3>1. i \in Shown(p) \/ Heart(i) \in b
            BY <2>1 DEF Present, Lasts
        <3>2. IsOf(q[1], "react", i) /\ ~ Filled(q[1], p, p2, now, i)
            BY <2>1 DEF Named, IsOf, Filled
        <3> QED
            BY <3>1, <3>2 DEF TakesText
    <2>2. CASE 1 \in Veils(q, Heart(i))
        BY <2>2 DEF Veils, TakesRoom
    <2> QED
        BY <2>1, <2>2
<1>7. Lasts(n, p.heart[i] \/ Heart(i) \in b, W(p, b, q), Colds(q, i))
    BY DEF HeartOn
<1> HIDE DEF W
<1>8. Lasts(n - 1, p2.heart[i] \/ Heart(i) \in b2, W(p2, b2, r), Colds(r, i))
    BY <1>1, <1>2, <1>3, <1>5, <1>6, <1>7, Popped
<1> QED
    BY <1>1, <1>8 DEF HeartOn, W

LEMMA HeartOffPops ==
    ASSUME NEW q, NEW r, NEW p, NEW b, NEW p2, NEW b2, NEW now, Shifted(q, r), TakesRoom(q[1], p, b, p2, b2),
           NEW i \in Said, TakesText(q[1], p, b, p2, b2, now, i), ~ now.heart[i], HeartOff(p, b, q, i)
    PROVE  HeartOff(p2, b2, r, i)
<1> DEFINE n == Len(q)
           W(t) == Named(t, "unreact", i) \cup Veils(t, Heart(i))
<1>1. n \in Nat /\ n >= 1 /\ Len(r) = n - 1 /\ 1 \in DOMAIN q
    BY DEF Shifted
<1>2. \A k \in 2 .. n : k \in W(q) => k - 1 \in W(r)
    BY VeilsPop
<1>3. ASSUME NEW k \in 2 .. n, k - 1 \in Warms(r, i) PROVE k \in Warms(q, i)
    <2>1. k \in DOMAIN q /\ r[k - 1] = q[k]
        BY Shift
    <2>2. k - 1 \in Named(r, "react", i) => k \in Named(q, "react", i)
        BY VeilsPop
    <2> QED
        BY <1>3, <2>1, <2>2 DEF Warms
<1>4. ASSUME 1 \notin Warms(q, i), Filled(q[1], p, p2, now, i) PROVE ~ p2.heart[i]
    <2>1. \A t \in Bundles(q[1]) : i \in Shown(t) => ~ t.heart[i]
        BY <1>1, <1>4 DEF Warms
    <2> QED
        BY <1>4, <2>1 DEF Filled
<1>5. (~ p.heart[i] \/ Heart(i) \in b) /\ 1 \notin Warms(q, i) => ~ p2.heart[i] \/ Heart(i) \in b2
    <2> SUFFICES ASSUME ~ p.heart[i] \/ Heart(i) \in b, 1 \notin Warms(q, i) PROVE ~ p2.heart[i] \/ Heart(i) \in b2
        OBVIOUS
    <2>1. ~ IsOf(q[1], "react", i)
        BY <1>1 DEF Warms, Named, IsOf
    <2>2. CASE ~ p.heart[i]
        BY <1>4, <2>1, <2>2 DEF TakesText
    <2>3. CASE Heart(i) \in b
        BY <1>4, <2>3 DEF TakesText
    <2> QED
        BY <2>2, <2>3
<1>6. 1 \in W(q) => ~ p2.heart[i] \/ Heart(i) \in b2
    BY DEF TakesRoom, TakesText, IsOf, Veils, Named
<1>7. Lasts(n, ~ p.heart[i] \/ Heart(i) \in b, W(q), Warms(q, i))
    BY DEF HeartOff
<1> HIDE DEF W
<1>8. Lasts(n - 1, ~ p2.heart[i] \/ Heart(i) \in b2, W(r), Warms(r, i))
    BY <1>1, <1>2, <1>3, <1>5, <1>6, <1>7, Popped
<1> QED
    BY <1>1, <1>8 DEF HeartOff, W

-----------------------------------------------------------------------------
(* The rooms and the events there can be, and what one change does to a      *)
(* room.                                                                     *)

Marks == {"unsaid", "first", "second", "gone"}
Rooms == [exists : BOOLEAN, field : [Fields -> {0, 1}], members : SUBSET Members,
          text : [Said -> Marks], heart : [Said -> BOOLEAN]]

Bundle(e) == e.kind = "upsert" /\ e.value \in Rooms /\ e.of = Shown(e.value)
EventShape(e) ==
    /\ e.kind = "add" => e.of \in Members
    /\ e.kind \in {"set", "merging"} => e.of \in Fields /\ e.value \in {0, 1}
    /\ e.kind \in {"insert", "edit", "unsend", "react", "unreact"} => e.of \in Said
    /\ e.kind = "upsert" => Bundle(e)
    /\ e.kind = "resync" => /\ e.of \subseteq Members /\ e.full \in BOOLEAN
                            /\ e.field \in [Fields -> {0, 1}]
                            /\ e.fill = << >> \/ (e.fill = <<e.fill[1]>> /\ Bundle(e.fill[1]))

RoomSound(p, now) == /\ p \in Rooms /\ Behind(p, now)
                     /\ \A i \in Said : p.heart[i] => i \in Shown(p)
                     /\ ~ p.exists => p = Unborn

Takes(e, p, b, p2, b2, now) ==
    /\ TakesRoom(e, p, b, p2, b2)
    /\ \A s \in Slots : TakesSlot(e, p, b, p2, b2, s)
    /\ \A i \in Said : TakesText(e, p, b, p2, b2, now, i)

LEMMA SlotIs == ASSUME NEW s \in Slots
                PROVE  \/ s[1] = "field" /\ s[2] \in Fields /\ s = <<"field", s[2]>>
                       \/ s[1] = "member" /\ s[2] \in Members /\ s = <<"member", s[2]>>
<1>1. CASE s \in {"field"} \X Fields
    BY <1>1
<1>2. CASE s \in {"member"} \X Members
    BY <1>2
<1> QED
    BY <1>1, <1>2 DEF Slots

LEMMA ValueIs == ASSUME NEW s \in Slots, NEW t
                 PROVE  /\ s[1] = "field" => Value(t, s) = t.field[s[2]] /\ Default(s) = 0
                        /\ s[1] = "member" => Value(t, s) = (s[2] \in t.members) /\ Default(s) = FALSE
BY DEF Value, Default

LEMMA UnbornIs == /\ Unborn \in Rooms /\ ~ Unborn.exists /\ Shown(Unborn) = {}
                  /\ \A i \in Said : Unborn.text[i] = "unsaid" /\ Unborn.heart[i] = FALSE
                  /\ \A s \in Slots : Value(Unborn, s) = Default(s)
<1>1. Unborn \in Rooms /\ ~ Unborn.exists /\ \A i \in Said : Unborn.text[i] = "unsaid" /\ Unborn.heart[i] = FALSE
    BY DEF Unborn, Rooms, Marks
<1>2. Shown(Unborn) = {}
    BY <1>1 DEF Shown, Words
<1>3. ASSUME NEW s \in Slots PROVE Value(Unborn, s) = Default(s)
    <2>0. PICK u : u = Unborn
        OBVIOUS
    <2>1. u.members = {} /\ \A f \in Fields : u.field[f] = 0
        BY <2>0 DEF Unborn
    <2>2. Value(u, s) = Default(s)
        <3>1. CASE s[1] = "field" /\ s[2] \in Fields
            BY <2>1, <3>1, ValueIs
        <3>2. CASE s[1] = "member"
            <4>1. (s[2] \in u.members) = FALSE
                BY <2>1
            <4>2. Value(u, s) = (s[2] \in u.members) /\ Default(s) = FALSE
                BY <3>2, ValueIs
            <4> QED
                BY <4>1, <4>2, Zenon
        <3> QED
            BY <3>1, <3>2, SlotIs
    <2> QED
        BY <2>0, <2>2
<1> QED
    BY <1>1, <1>2, <1>3

\* What one change does to a room that is there, part by part.
LEMMA PeopledIs ==
    ASSUME NEW p \in Rooms, NEW e, e.kind \in {"add", "remove"}, EventShape(e)
    PROVE  /\ Peopled(p, e) \in Rooms /\ Peopled(p, e).exists = p.exists
           /\ Peopled(p, e).field = p.field /\ Peopled(p, e).text = p.text /\ Peopled(p, e).heart = p.heart
           /\ Peopled(p, e).members = IF e.kind = "add" THEN p.members \cup {e.of} ELSE p.members \ {e.of}
<1>1. PICK m : m = IF e.kind = "add" THEN p.members \cup {e.of} ELSE p.members \ {e.of}
    OBVIOUS
<1>2. m \in SUBSET Members
    BY <1>1 DEF EventShape, Rooms
<1>3. Peopled(p, e) = [p EXCEPT !.members = m]
    BY <1>1 DEF Peopled
<1> QED
    BY <1>1, <1>2, <1>3 DEF Rooms

LEMMA RetitledIs ==
    ASSUME NEW p \in Rooms, NEW e, e.kind \in {"set", "merging"}, EventShape(e)
    PROVE  /\ Retitled(p, e) \in Rooms /\ Retitled(p, e).exists = p.exists
           /\ Retitled(p, e).members = p.members /\ Retitled(p, e).text = p.text /\ Retitled(p, e).heart = p.heart
           /\ \A f \in Fields : Retitled(p, e).field[f] = IF f = e.of THEN e.value ELSE p.field[f]
<1>1. PICK v : v = e.value
    OBVIOUS
<1>2. PICK f : f = e.of
    OBVIOUS
<1>3. Retitled(p, e) = [p EXCEPT !.field = [p.field EXCEPT ![f] = v]]
    BY <1>1, <1>2 DEF Retitled
<1>4. f \in Fields /\ v \in {0, 1} /\ p.field \in [Fields -> {0, 1}]
    BY <1>1, <1>2 DEF EventShape, Rooms
<1>5. PICK g : g = [p.field EXCEPT ![f] = v]
    OBVIOUS
<1>6. g \in [Fields -> {0, 1}] /\ \A x \in Fields : g[x] = IF x = f THEN v ELSE p.field[x]
    BY <1>4, <1>5
<1>7. [p EXCEPT !.field = g] \in Rooms
    BY <1>6 DEF Rooms
<1> QED
    BY <1>1, <1>2, <1>3, <1>5, <1>6, <1>7 DEF Rooms

LEMMA RewordedIs ==
    ASSUME NEW p \in Rooms, NEW t \in [Said -> Marks], NEW h \in [Said -> BOOLEAN]
    PROVE  LET r == [p EXCEPT !.text = t, !.heart = h] IN
           /\ r \in Rooms /\ r.exists = p.exists /\ r.field = p.field /\ r.members = p.members
           /\ r.text = t /\ r.heart = h
BY DEF Rooms

Marked(p, i, w, h, r) ==
    /\ r \in Rooms /\ r.exists = p.exists /\ r.field = p.field /\ r.members = p.members
    /\ \A j \in Said : j # i => r.text[j] = p.text[j] /\ r.heart[j] = p.heart[j]
    /\ r.text[i] = w /\ r.heart[i] = h

LEMMA MarkedIs ==
    ASSUME NEW p \in Rooms, NEW i \in Said, NEW w \in Marks, NEW h \in BOOLEAN
    PROVE  /\ Marked(p, i, w, h, [p EXCEPT !.text[i] = w, !.heart[i] = h])
           /\ h = p.heart[i] => Marked(p, i, w, h, [p EXCEPT !.text[i] = w])
           /\ w = p.text[i] => Marked(p, i, w, h, [p EXCEPT !.heart[i] = h])
<1>1. PICK t : t = [p.text EXCEPT ![i] = w]
    OBVIOUS
<1>2. PICK g : g = [p.heart EXCEPT ![i] = h]
    OBVIOUS
<1>3. p.text \in [Said -> Marks] /\ p.heart \in [Said -> BOOLEAN]
    BY DEF Rooms
<1>4. t \in [Said -> Marks] /\ \A j \in Said : t[j] = IF j = i THEN w ELSE p.text[j]
    BY <1>1, <1>3
<1>5. g \in [Said -> BOOLEAN] /\ \A j \in Said : g[j] = IF j = i THEN h ELSE p.heart[j]
    BY <1>2, <1>3
<1>6. PICK r : r = [p EXCEPT !.text = t, !.heart = g]
    OBVIOUS
<1>7. /\ r \in Rooms /\ r.exists = p.exists /\ r.field = p.field /\ r.members = p.members
      /\ r.text = t /\ r.heart = g
    BY <1>4, <1>5, <1>6 DEF Rooms
<1>8. Marked(p, i, w, h, r)
    BY <1>4, <1>5, <1>7 DEF Marked
<1>9. [p EXCEPT !.text[i] = w, !.heart[i] = h] = r
    BY <1>1, <1>2, <1>6 DEF Rooms
<1>10. h = p.heart[i] => [p EXCEPT !.text[i] = w] = r
    <2>1. h = p.heart[i] => g = p.heart
        BY <1>2, <1>3
    <2> QED
        BY <1>1, <1>6, <2>1 DEF Rooms
<1>11. w = p.text[i] => [p EXCEPT !.heart[i] = h] = r
    <2>1. w = p.text[i] => t = p.text
        BY <1>1, <1>3
    <2> QED
        BY <1>2, <1>6, <2>1 DEF Rooms
<1> QED
    BY <1>8, <1>9, <1>10, <1>11

-----------------------------------------------------------------------------
(* HandleChange: an event that changes one message, one member or one field  *)
(* does what Takes says.                                                     *)

LEMMA ShownIs == ASSUME NEW i \in Said, NEW r PROVE i \in Shown(r) <=> r.text[i] \in {"first", "second"}
BY DEF Shown, Words

LEMMA StillText ==
    ASSUME NEW p, NEW p2, NEW e, NEW b, NEW b2, NEW now, NEW i \in Said, b \subseteq b2,
           p2.text[i] = p.text[i], p2.heart[i] = p.heart[i], p.heart[i] => i \in Shown(p), e.kind # "delete",
           i \in Shown(p) => \A k \in {"edit", "unsend", "react", "unreact"} : ~ IsOf(e, k, i),
           IsOf(e, "insert", i) /\ p.exists => i \in Shown(p)
    PROVE  TakesText(e, p, b, p2, b2, now, i)
<1>1. i \in Shown(p2) <=> i \in Shown(p)
    BY ShownIs
<1>2. p.text[i] = "first" => i \in Shown(p)
    BY ShownIs
<1> QED
    BY <1>1, <1>2 DEF TakesText

LEMMA StillSlot ==
    ASSUME NEW p, NEW p2, NEW e, NEW b, NEW b2, NEW s \in Slots, b \subseteq b2, Value(p2, s) = Value(p, s),
           e.kind \notin {"delete", "exists", "resync"}, ~ (Writes(e, s) /\ p.exists)
    PROVE  TakesSlot(e, p, b, p2, b2, s)
BY DEF TakesSlot, Decides

LEMMA SameValue ==
    ASSUME NEW s \in Slots, NEW t, NEW u,
           s[1] = "field" => t.field[s[2]] = u.field[s[2]],
           s[1] = "member" => (s[2] \in t.members <=> s[2] \in u.members)
    PROVE  Value(t, s) = Value(u, s)
<1>1. CASE s[1] = "field"
    BY <1>1, ValueIs
<1>2. CASE s[1] = "member"
    <2>1. (s[2] \in t.members) = (s[2] \in u.members)
        BY <1>2
    <2> QED
        BY <1>2, <2>1, ValueIs
<1> QED
    BY <1>1, <1>2, SlotIs

\* A change of one message.
MarkFits(e, p, w, h, now) ==
    /\ e.kind \in {"insert", "edit", "unsend", "react", "unreact"} /\ p.exists
    /\ e.kind = "insert" => e.of \notin Shown(p) /\ w = "first" /\ h = p.heart[e.of]
    /\ e.kind # "insert" => e.of \in Shown(p)
    /\ e.kind = "edit" => w = "second" /\ h = p.heart[e.of]
    /\ e.kind = "unsend" => w = "gone" /\ h = FALSE
    /\ e.kind = "react" => w = p.text[e.of] /\ h = TRUE
    /\ e.kind = "unreact" => w = p.text[e.of] /\ h = FALSE
    /\ w \in Words => now.text[e.of] # "unsaid"
    /\ w = "second" => now.text[e.of] \in {"second", "gone"}

LEMMA MarkTakes ==
    ASSUME NEW p, NEW b, NEW b2, NEW now, NEW e, NEW p2, NEW w \in Marks, NEW h \in BOOLEAN,
           RoomSound(p, now), b \subseteq b2, e.of \in Said, Marked(p, e.of, w, h, p2), MarkFits(e, p, w, h, now)
    PROVE  Takes(e, p, b, p2, b2, now) /\ RoomSound(p2, now)
<1> DEFINE o == e.of
<1>1. /\ p2 \in Rooms /\ p2.exists = p.exists /\ p2.field = p.field /\ p2.members = p.members
      /\ \A j \in Said : j # o => p2.text[j] = p.text[j] /\ p2.heart[j] = p.heart[j]
      /\ p2.text[o] = w /\ p2.heart[o] = h
    BY DEF Marked
<1>2. /\ e.kind \in {"insert", "edit", "unsend", "react", "unreact"} /\ p.exists
    BY DEF MarkFits
<1>3. TakesRoom(e, p, b, p2, b2)
    BY <1>1, <1>2 DEF TakesRoom
<1>4. ASSUME NEW s \in Slots PROVE TakesSlot(e, p, b, p2, b2, s)
    <2>1. Value(p2, s) = Value(p, s)
        BY <1>1, SameValue
    <2>2. ~ Writes(e, s)
        BY <1>2 DEF Writes
    <2> QED
        BY <1>2, <2>1, <2>2, StillSlot
<1>5. \A i \in Said : p.heart[i] => i \in Shown(p)
    BY DEF RoomSound
<1>6. ASSUME NEW i \in Said, i # o PROVE TakesText(e, p, b, p2, b2, now, i)
    <2>1. \A k : ~ IsOf(e, k, i)
        BY <1>6 DEF IsOf
    <2>2. p2.text[i] = p.text[i] /\ p2.heart[i] = p.heart[i] /\ e.kind # "delete"
        BY <1>1, <1>2, <1>6
    <2> QED
        BY <1>5, <2>1, <2>2, StillText
<1>7. TakesText(e, p, b, p2, b2, now, o)
    <2>1. \A k : IsOf(e, k, o) <=> e.kind = k
        BY DEF IsOf
    <2>2. o \in Shown(p) <=> p.text[o] \in {"first", "second"}
        BY ShownIs
    <2>3. o \in Shown(p2) <=> w \in {"first", "second"}
        BY <1>1, ShownIs
    <2>4. p.heart[o] => o \in Shown(p)
        BY <1>5
    <2>5. p.heart[o] \in BOOLEAN
        BY DEF RoomSound, Rooms
    <2>6. CASE e.kind = "insert"
        BY <1>1, <2>1, <2>2, <2>3, <2>4, <2>5, <2>6 DEF TakesText, MarkFits
    <2>7. CASE e.kind = "edit"
        BY <1>1, <2>1, <2>2, <2>3, <2>4, <2>5, <2>7 DEF TakesText, MarkFits
    <2>8. CASE e.kind = "unsend"
        BY <1>1, <2>1, <2>2, <2>3, <2>4, <2>5, <2>8 DEF TakesText, MarkFits
    <2>9. CASE e.kind = "react"
        BY <1>1, <2>1, <2>2, <2>3, <2>4, <2>5, <2>9 DEF TakesText, MarkFits
    <2>10. CASE e.kind = "unreact"
        BY <1>1, <2>1, <2>2, <2>3, <2>4, <2>5, <2>10 DEF TakesText, MarkFits
    <2> QED
        BY <1>2, <2>6, <2>7, <2>8, <2>9, <2>10
<1>8. Behind(p2, now)
    <2>1. Behind(p, now)
        BY DEF RoomSound
    <2>2. ASSUME NEW i \in Said
          PROVE  /\ i \in Shown(p2) => now.text[i] # "unsaid"
                 /\ p2.text[i] = "second" => now.text[i] \in {"second", "gone"}
        <3>1. CASE i = o
            BY <1>1, <3>1, ShownIs DEF MarkFits, Words
        <3>2. CASE i # o
            BY <1>1, <2>1, <3>2, ShownIs DEF Behind
        <3> QED
            BY <3>1, <3>2
    <2> QED
        BY <2>2 DEF Behind
<1>9. ASSUME NEW i \in Said, p2.heart[i] PROVE i \in Shown(p2)
    <2>1. CASE i = o
        BY <1>1, <1>2, <1>5, <1>9, <2>1, ShownIs DEF MarkFits
    <2>2. CASE i # o
        BY <1>1, <1>5, <1>9, <2>2, ShownIs
    <2> QED
        BY <2>1, <2>2
<1> QED
    BY <1>1, <1>2, <1>3, <1>4, <1>6, <1>7, <1>8, <1>9 DEF Takes, RoomSound

Changes == {"add", "remove", "set", "merging", "insert", "edit", "unsend", "react", "unreact"}

LEMMA RestTakes ==
    ASSUME NEW p, NEW b, NEW b2, NEW now, NEW e, RoomSound(p, now), b \subseteq b2, e.kind \in Changes,
           ~ p.exists \/ (e.kind \in {"edit", "unsend", "react", "unreact"} /\ e.of \notin Shown(p))
           \/ (e.kind = "insert" /\ e.of \in Shown(p))
    PROVE  Takes(e, p, b, p, b2, now)
<1>1. TakesRoom(e, p, b, p, b2)
    <2>1. p.exists \in BOOLEAN
        BY DEF RoomSound, Rooms
    <2> QED
        BY <2>1 DEF TakesRoom, Changes
<1>2. ASSUME NEW s \in Slots PROVE TakesSlot(e, p, b, p, b2, s)
    <2>1. ~ (Writes(e, s) /\ p.exists)
        BY DEF Writes, Changes
    <2> QED
        BY <2>1, StillSlot DEF Changes
<1>3. ASSUME NEW i \in Said PROVE TakesText(e, p, b, p, b2, now, i)
    <2>1. ~ p.exists => i \notin Shown(p)
        BY UnbornIs DEF RoomSound
    <2>2. i \in Shown(p) => \A k \in {"edit", "unsend", "react", "unreact"} : ~ IsOf(e, k, i)
        BY <2>1 DEF IsOf
    <2>3. IsOf(e, "insert", i) /\ p.exists => i \in Shown(p)
        BY DEF IsOf
    <2> QED
        BY <2>2, <2>3, StillText DEF Changes, RoomSound
<1> QED
    BY <1>1, <1>2, <1>3 DEF Takes

\* A change of the people or of a field.
LEMMA SlotTakes ==
    ASSUME NEW p, NEW b, NEW b2, NEW now, NEW e, NEW p2, RoomSound(p, now), b \subseteq b2, p.exists,
           e.kind \in {"add", "remove", "set", "merging"},
           p2 \in Rooms, p2.exists = p.exists, p2.text = p.text, p2.heart = p.heart,
           \A s \in Slots : Value(p2, s) = IF Writes(e, s) THEN Written(e, s) ELSE Value(p, s)
    PROVE  Takes(e, p, b, p2, b2, now) /\ RoomSound(p2, now)
<1>1. TakesRoom(e, p, b, p2, b2)
    BY DEF TakesRoom
<1>2. ASSUME NEW s \in Slots PROVE TakesSlot(e, p, b, p2, b2, s)
    BY DEF TakesSlot, Decides
<1>3. ASSUME NEW i \in Said PROVE TakesText(e, p, b, p2, b2, now, i)
    <2>1. \A k \in {"edit", "unsend", "react", "unreact", "insert"} : ~ IsOf(e, k, i)
        BY DEF IsOf
    <2> QED
        BY <2>1, StillText DEF RoomSound
<1>4. Shown(p2) = Shown(p)
    BY DEF Shown
<1>5. Behind(p2, now)
    BY <1>4 DEF Behind, RoomSound
<1> QED
    BY <1>1, <1>2, <1>3, <1>4, <1>5 DEF Takes, RoomSound

LEMMA ChangeTakes ==
    ASSUME NEW p, NEW b, NEW b2, NEW now, NEW e, RoomSound(p, now), b \subseteq b2, e.kind \in Changes,
           EventShape(e), EventFits(e, now)
    PROVE  Takes(e, p, b, Changed(p, e), b2, now) /\ RoomSound(Changed(p, e), now)
<1> DEFINE Still == ~ p.exists \/ (e.kind \in {"edit", "unsend", "react", "unreact"} /\ e.of \notin Shown(p))
<1>0. p \in Rooms
    BY DEF RoomSound
<1>1. CASE Still
    <2>1. Changed(p, e) = p
        BY <1>1 DEF Changed
    <2> QED
        BY <1>1, <2>1, RestTakes
<1>2. CASE ~ Still /\ e.kind \in {"add", "remove"}
    <2>1. PICK r : r = Peopled(p, e)
        OBVIOUS
    <2>2. Changed(p, e) = r
        BY <1>2, <2>1 DEF Changed
    <2>3. /\ r \in Rooms /\ r.exists = p.exists /\ r.field = p.field /\ r.text = p.text /\ r.heart = p.heart
          /\ r.members = IF e.kind = "add" THEN p.members \cup {e.of} ELSE p.members \ {e.of}
        BY <1>0, <1>2, <2>1, PeopledIs
    <2>4. ASSUME NEW s \in Slots PROVE Value(r, s) = IF Writes(e, s) THEN Written(e, s) ELSE Value(p, s)
        <3>1. CASE Writes(e, s)
            <4>1. s[1] = "member" /\ e.of = s[2]
                BY <1>2, <3>1 DEF Writes
            <4>2. (s[2] \in r.members) = (e.kind = "add")
                BY <1>2, <2>3, <4>1
            <4>3. Value(r, s) = (s[2] \in r.members)
                BY <4>1, ValueIs
            <4>4. Written(e, s) = (e.kind = "add")
                BY <4>1 DEF Written
            <4> QED
                BY <3>1, <4>2, <4>3, <4>4, Zenon
        <3>2. CASE ~ Writes(e, s)
            <4>1. s[1] = "member" => (s[2] \in r.members <=> s[2] \in p.members)
                BY <1>2, <2>3, <3>2 DEF Writes
            <4>2. Value(r, s) = Value(p, s)
                BY <2>3, <4>1, SameValue
            <4> QED
                BY <3>2, <4>2
        <3> QED
            BY <3>1, <3>2
    <2>5. Takes(e, p, b, r, b2, now) /\ RoomSound(r, now)
        BY <1>2, <2>3, <2>4, SlotTakes
    <2> QED
        BY <2>2, <2>5
<1>3. CASE ~ Still /\ e.kind \in {"set", "merging"}
    <2>1. PICK r : r = Retitled(p, e)
        OBVIOUS
    <2>2. Changed(p, e) = r
        BY <1>3, <2>1 DEF Changed
    <2>3. /\ r \in Rooms /\ r.exists = p.exists /\ r.members = p.members /\ r.text = p.text /\ r.heart = p.heart
          /\ \A f \in Fields : r.field[f] = IF f = e.of THEN e.value ELSE p.field[f]
        BY <1>0, <1>3, <2>1, RetitledIs
    <2>4. ASSUME NEW s \in Slots PROVE Value(r, s) = IF Writes(e, s) THEN Written(e, s) ELSE Value(p, s)
        <3>1. CASE Writes(e, s)
            <4>1. s[1] = "field" /\ e.of = s[2] /\ s[2] \in Fields
                BY <1>3, <3>1, SlotIs DEF Writes
            <4>2. Value(r, s) = r.field[s[2]] /\ Written(e, s) = e.value
                BY <4>1, ValueIs DEF Written
            <4> QED
                BY <2>3, <3>1, <4>1, <4>2
        <3>2. CASE ~ Writes(e, s)
            <4>1. s[1] = "field" => r.field[s[2]] = p.field[s[2]]
                BY <1>3, <2>3, <3>2, SlotIs DEF Writes
            <4>2. Value(r, s) = Value(p, s)
                BY <2>3, <4>1, SameValue
            <4> QED
                BY <3>2, <4>2
        <3> QED
            BY <3>1, <3>2
    <2>5. Takes(e, p, b, r, b2, now) /\ RoomSound(r, now)
        BY <1>3, <2>3, <2>4, SlotTakes
    <2> QED
        BY <2>2, <2>5
<1>4. CASE ~ Still /\ e.kind = "insert" /\ e.of \in Shown(p)
    <2>1. Changed(p, e) = p
        BY <1>4 DEF Changed, Inserted
    <2> QED
        BY <1>4, <2>1, RestTakes
<1>5. ASSUME ~ Still, e.kind \in {"insert", "edit", "unsend", "react", "unreact"},
             ~ (e.kind = "insert" /\ e.of \in Shown(p))
      PROVE  Takes(e, p, b, Changed(p, e), b2, now) /\ RoomSound(Changed(p, e), now)
    <2>1. PICK i : i = e.of
        OBVIOUS
    <2>2. i \in Said /\ p.text[i] \in Marks /\ p.heart[i] \in BOOLEAN
        BY <1>0, <1>5, <2>1 DEF EventShape, Rooms
    <2>3. PICK w : w = CASE e.kind \in {"insert", "edit"} -> e.value
                         [] e.kind = "unsend" -> "gone"
                         [] e.kind \in {"react", "unreact"} -> p.text[i]
        OBVIOUS
    <2>4. PICK h : h = CASE e.kind \in {"insert", "edit"} -> p.heart[i]
                         [] e.kind \in {"unsend", "unreact"} -> FALSE
                         [] e.kind = "react" -> TRUE
        OBVIOUS
    <2>5. w \in Marks /\ h \in BOOLEAN
        BY <1>5, <2>2, <2>3, <2>4 DEF EventFits, Marks
    <2>6. MarkFits(e, p, w, h, now)
        <3>1. i \in Shown(p) => now.text[i] # "unsaid"
            BY <2>2 DEF RoomSound, Behind
        <3>2. p.text[i] = "second" => now.text[i] \in {"second", "gone"}
            BY <2>2 DEF RoomSound, Behind
        <3>3. i \in Shown(p) <=> p.text[i] \in {"first", "second"}
            BY <2>2, ShownIs
        <3> QED
            BY <1>5, <2>1, <2>3, <2>4, <3>1, <3>2, <3>3 DEF MarkFits, EventFits, Words
    <2>7. PICK r : r = Changed(p, e)
        OBVIOUS
    <2>8. Marked(p, i, w, h, r)
        <3>1. CASE e.kind \in {"insert", "edit"}
            <4>1. r = [p EXCEPT !.text[i] = w] /\ h = p.heart[i]
                BY <1>5, <2>1, <2>3, <2>4, <2>7, <3>1 DEF Changed, Inserted, Edited
            <4> QED
                BY <1>0, <2>2, <2>5, <4>1, MarkedIs
        <3>2. CASE e.kind = "unsend"
            <4>1. r = [p EXCEPT !.text[i] = w, !.heart[i] = h]
                BY <1>5, <2>1, <2>3, <2>4, <2>7, <3>2 DEF Changed, Unsent
            <4> QED
                BY <1>0, <2>2, <2>5, <4>1, MarkedIs
        <3>3. CASE e.kind \in {"react", "unreact"}
            <4>1. r = [p EXCEPT !.heart[i] = h] /\ w = p.text[i]
                BY <1>5, <2>1, <2>3, <2>4, <2>7, <3>3 DEF Changed, Reacted
            <4> QED
                BY <1>0, <2>2, <2>5, <4>1, MarkedIs
        <3> QED
            BY <1>5, <3>1, <3>2, <3>3
    <2>9. Takes(e, p, b, r, b2, now) /\ RoomSound(r, now)
        BY <2>1, <2>2, <2>5, <2>6, <2>8, MarkTakes
    <2> QED
        BY <2>7, <2>9
<1> QED
    BY <1>1, <1>2, <1>3, <1>4, <1>5 DEF Changes

-----------------------------------------------------------------------------
(* Backfilling: the newest message shown, and what a filling takes over.     *)

LEMMA SaidIs == \E n \in Nat : Said = 1 .. n
<1>1. IsFiniteSet(Said) /\ Said = 1 .. Cardinality(Said)
    BY IncomingAssumption DEF IncomingAssumption
<1>2. Cardinality(Said) \in Nat
    BY <1>1, FS_CardinalityType
<1> QED
    BY <1>1, <1>2

LEMMA NewestShownIs ==
    ASSUME NEW r
    PROVE  /\ NewestShown(r) \in Nat
           /\ NewestShown(r) # 0 => NewestShown(r) \in Shown(r)
           /\ \A i \in Said : i \in Nat /\ (i > NewestShown(r) => i \notin Shown(r))
<1>1. PICK n \in Nat : Said = 1 .. n
    BY SaidIs
<1>2. Shown(r) \subseteq Said
    BY DEF Shown
<1>3. CASE Shown(r) = {}
    BY <1>1, <1>3 DEF NewestShown
<1>4. CASE Shown(r) # {}
    <2>1. Shown(r) \subseteq 0 .. n
        BY <1>1, <1>2
    <2>2. Max(Shown(r)) \in Shown(r) /\ \A y \in Shown(r) : y <= Max(Shown(r))
        BY <1>4, <2>1, LargestIs
    <2>3. NewestShown(r) = Max(Shown(r))
        BY <1>4 DEF NewestShown
    <2>4. PICK m : m = NewestShown(r)
        OBVIOUS
    <2>5. m \in 1 .. n /\ m \in Shown(r) /\ \A y \in Shown(r) : y <= m
        BY <1>1, <1>2, <2>2, <2>3, <2>4
    <2> QED
        BY <1>1, <2>4, <2>5
<1> QED
    BY <1>3, <1>4

LEMMA FillIs ==
    ASSUME NEW p \in Rooms, NEW from \in Rooms, NEW ids, ids \subseteq Said
    PROVE  LET r == Fill(p, ids, from) IN
           /\ r \in Rooms /\ r.exists = p.exists /\ r.field = p.field /\ r.members = p.members
           /\ \A i \in Said : /\ i \in ids => r.text[i] = from.text[i] /\ r.heart[i] = from.heart[i]
                              /\ i \notin ids => r.text[i] = p.text[i] /\ r.heart[i] = p.heart[i]
<1>1. PICK t : t = [i \in Said |-> IF i \in ids THEN from.text[i] ELSE p.text[i]]
    OBVIOUS
<1>2. PICK h : h = [i \in Said |-> IF i \in ids THEN from.heart[i] ELSE p.heart[i]]
    OBVIOUS
<1>3. /\ p.text \in [Said -> Marks] /\ p.heart \in [Said -> BOOLEAN]
      /\ from.text \in [Said -> Marks] /\ from.heart \in [Said -> BOOLEAN]
    BY DEF Rooms
<1>4. t \in [Said -> Marks] /\ h \in [Said -> BOOLEAN]
    BY <1>1, <1>2, <1>3
<1>5. PICK r : r = [p EXCEPT !.text = t, !.heart = h]
    OBVIOUS
<1>6. /\ r \in Rooms /\ r.exists = p.exists /\ r.field = p.field /\ r.members = p.members
      /\ r.text = t /\ r.heart = h
    BY <1>4, <1>5 DEF Rooms
<1>7. Fill(p, ids, from) = r
    BY <1>1, <1>2, <1>5 DEF Fill
<1>8. ASSUME NEW i \in Said
      PROVE  /\ i \in ids => r.text[i] = from.text[i] /\ r.heart[i] = from.heart[i]
             /\ i \notin ids => r.text[i] = p.text[i] /\ r.heart[i] = p.heart[i]
    BY <1>1, <1>2, <1>6
<1> QED
    BY <1>6, <1>7, <1>8

\* What a filling brings is new, and comes from the server or from a bundle of the event.
FillFits(e, p, now, ids, from) ==
    /\ from \in Rooms /\ ids \subseteq Said /\ \A i \in ids : i \in Shown(from) /\ i \notin Shown(p)
    /\ from = now \/ from \in Bundles(e)
    /\ Behind(from, now)

\* The texts and hearts of a room that was filled.
LEMMA FillTakes ==
    ASSUME NEW p, NEW b, NEW b2, NEW now, NEW e, NEW q \in Rooms, NEW from, NEW ids, NEW r,
           RoomSound(p, now), FillFits(e, p, now, ids, from),
           q.text = p.text, q.heart = p.heart, q.exists, r = Fill(q, ids, from),
           e.kind = "resync" \/ (e.kind = "upsert" /\ p.exists),
           \A i \in Said : \A a \in {Text(i), Heart(i)} :
               a \in b => \/ a \in b2 
                          \/ i \in ids
                          \/ i \notin Shown(p) /\ i \notin Shown(now)
    PROVE  /\ \A i \in Said : TakesText(e, p, b, r, b2, now, i)
           /\ RoomSound(r, now)
<1>1. /\ r \in Rooms /\ r.exists
      /\ \A i \in Said : /\ i \in ids => r.text[i] = from.text[i] /\ r.heart[i] = from.heart[i]
                         /\ i \notin ids => r.text[i] = p.text[i] /\ r.heart[i] = p.heart[i]
    BY FillIs DEF FillFits
<1>2. ASSUME NEW i \in Said, i \in ids
      PROVE  Filled(e, p, r, now, i) /\ i \in Shown(r) /\ i \notin Shown(p)
    <2>1. i \in Shown(from) /\ i \notin Shown(p) /\ r.text[i] = from.text[i] /\ r.heart[i] = from.heart[i]
        BY <1>1, <1>2 DEF FillFits
    <2>2. i \in Shown(r)
        BY <2>1, ShownIs
    <2>3. \/ \E t \in Bundles(e) : i \in Shown(t) /\ r.text[i] = t.text[i] /\ r.heart[i] = t.heart[i]
          \/ i \in Shown(now) /\ r.text[i] = now.text[i] /\ r.heart[i] = now.heart[i]
        BY <2>1 DEF FillFits
    <2> QED
        BY <2>1, <2>2, <2>3 DEF Filled
<1>3. ASSUME NEW i \in Said, i \notin ids
      PROVE  (i \in Shown(r) <=> i \in Shown(p)) /\ r.text[i] = p.text[i] /\ r.heart[i] = p.heart[i]
    BY <1>1, <1>3, ShownIs
<1>4. \A i \in Said : (p.heart[i] => i \in Shown(p)) /\ (p.text[i] = "first" => i \in Shown(p))
    BY ShownIs DEF RoomSound
<1>5. \A i \in Said, k \in {"insert", "edit", "unsend", "react", "unreact"} : ~ IsOf(e, k, i)
    BY DEF IsOf
<1>6. e.kind # "delete"
    OBVIOUS
<1>7. ASSUME NEW i \in Said PROVE TakesText(e, p, b, r, b2, now, i)
    <2>1. CASE i \in ids
        <3>1. r.text[i] = "first" => i \in Shown(r)
            BY ShownIs
        <3>2. ~ p.heart[i]
            BY <1>2, <1>4, <2>1
        <3> QED
            BY <1>2, <1>4, <1>5, <1>6, <2>1, <3>1, <3>2 DEF TakesText
    <2>2. CASE i \notin ids
        BY <1>3, <1>4, <1>5, <1>6, <2>2 DEF TakesText
    <2> QED
        BY <2>1, <2>2
<1>8. Behind(r, now)
    <2>1. Behind(p, now) /\ Behind(from, now)
        BY DEF RoomSound, FillFits
    <2>2. ASSUME NEW i \in Said
          PROVE  /\ i \in Shown(r) => now.text[i] # "unsaid"
                 /\ r.text[i] = "second" => now.text[i] \in {"second", "gone"}
        <3>1. CASE i \in ids
            BY <1>1, <2>1, <3>1, ShownIs DEF Behind
        <3>2. CASE i \notin ids
            BY <1>1, <2>1, <3>2, ShownIs DEF Behind
        <3> QED
            BY <3>1, <3>2
    <2> QED
        BY <2>2 DEF Behind
<1>9. ASSUME NEW i \in Said, r.heart[i] PROVE i \in Shown(r)
    BY <1>2, <1>3, <1>4, <1>9
<1> QED
    BY <1>1, <1>7, <1>8, <1>9 DEF RoomSound

-----------------------------------------------------------------------------
(* HandleResync and HandleUpsert do what Takes says.                         *)

LEMMA BehindItself == \A t : Behind(t, t)
BY DEF Behind, Shown, Words

LEMMA ResyncedIs ==
    ASSUME portal \in Rooms, Event.kind = "resync", EventShape(Event)
    PROVE  /\ Resynced \in Rooms /\ Resynced.exists /\ Resynced.text = portal.text /\ Resynced.heart = portal.heart
           /\ \A s \in Slots : Value(Resynced, s) = IF Decides(Event, s) THEN Decided(Event, s) ELSE Value(portal, s)
<1>1. PICK e : e = Event
    OBVIOUS
<1>2. PICK p : p = portal
    OBVIOUS
<1>3. PICK g : g = [f \in Fields |-> IF f \in e.certain THEN e.field[f] ELSE p.field[f]]
    OBVIOUS
<1>4. PICK m : m = IF e.full THEN e.of ELSE p.members \cup e.of
    OBVIOUS
<1>5. g \in [Fields -> {0, 1}] /\ m \in SUBSET Members
    BY <1>1, <1>2, <1>3, <1>4 DEF EventShape, Rooms
<1>6. PICK r : r = [p EXCEPT !.exists = TRUE, !.field = g, !.members = m]
    OBVIOUS
<1>7. /\ r \in Rooms /\ r.exists /\ r.text = p.text /\ r.heart = p.heart
      /\ r.field = g /\ r.members = m
    BY <1>2, <1>5, <1>6 DEF Rooms
<1>8. Resynced = r
    BY <1>1, <1>2, <1>3, <1>4, <1>6 DEF Resynced
<1>9. ASSUME NEW s \in Slots PROVE Value(r, s) = IF Decides(e, s) THEN Decided(e, s) ELSE Value(p, s)
    <2>1. CASE s[1] = "field"
        <3>1. Value(r, s) = g[s[2]] /\ Value(p, s) = p.field[s[2]] /\ s[2] \in Fields
            BY <1>7, <2>1, ValueIs, SlotIs
        <3>2. (Decides(e, s) <=> s[2] \in e.certain) /\ Decided(e, s) = e.field[s[2]]
            BY <1>1, <2>1 DEF Decides, Decided
        <3> QED
            BY <1>3, <3>1, <3>2
    <2>2. CASE s[1] = "member"
        <3>1. Value(r, s) = (s[2] \in m) /\ Value(p, s) = (s[2] \in p.members)
            BY <1>7, <2>2, ValueIs
        <3>2. (Decides(e, s) <=> (e.full \/ s[2] \in e.of)) /\ Decided(e, s) = (s[2] \in e.of)
            BY <1>1, <2>2 DEF Decides, Decided
        <3>3. e.full \/ s[2] \in e.of => (s[2] \in m) = (s[2] \in e.of)
            BY <1>4
        <3>4. ~ (e.full \/ s[2] \in e.of) => (s[2] \in m) = (s[2] \in p.members)
            BY <1>4
        <3>5. CASE Decides(e, s)
            <4>1. Value(r, s) = Decided(e, s)
                BY <3>1, <3>2, <3>3, <3>5, Zenon
            <4> QED
                BY <3>5, <4>1, Zenon
        <3>6. CASE ~ Decides(e, s)
            <4>1. Value(r, s) = Value(p, s)
                BY <3>1, <3>2, <3>4, <3>6, Zenon
            <4> QED
                BY <3>6, <4>1, Zenon
        <3> QED
            BY <3>5, <3>6
    <2> QED
        BY <2>1, <2>2, SlotIs
<1> QED
    BY <1>1, <1>2, <1>7, <1>8, <1>9

LEMMA ResyncBundle ==
    ASSUME NEW e, e.kind = "resync", EventShape(e), e.fill # << >>
    PROVE  /\ e.fill[1].value \in Rooms /\ e.fill[1].of = Shown(e.fill[1].value)
           /\ e.fill[1].value \in Bundles(e)
<1>1. PICK x : x = e.fill[1]
    OBVIOUS
<1>2. e.fill = <<x>> /\ Bundle(x)
    BY <1>1 DEF EventShape
<1>3. 1 \in DOMAIN e.fill
    BY <1>2
<1> QED
    BY <1>1, <1>2, <1>3 DEF Bundle, Bundles

LEMMA FillNone == ASSUME NEW r \in Rooms, NEW from PROVE Fill(r, {}, from) = r
<1>1. r.text = [i \in Said |-> r.text[i]] /\ r.heart = [i \in Said |-> r.heart[i]]
    BY DEF Rooms
<1>2. Fill(r, {}, from) = [r EXCEPT !.text = [i \in Said |-> r.text[i]], !.heart = [i \in Said |-> r.heart[i]]]
    BY DEF Fill
<1>3. [r EXCEPT !.text = r.text, !.heart = r.heart] = r
    BY DEF Rooms
<1> QED
    BY <1>1, <1>2, <1>3

LEMMA ResyncTakes ==
    ASSUME HandleResync, RoomSound(portal, thread), thread \in Rooms, EventShape(Event), EventFits(Event, thread)
    PROVE  Takes(Event, portal, blurred, portal', blurred', thread) /\ RoomSound(portal', thread)
<1>1. PICK e : e = Event
    OBVIOUS
<1>2. PICK p : p = portal
    OBVIOUS
<1>3. PICK now : now = thread
    OBVIOUS
<1>4. PICK q : q = Resynced
    OBVIOUS
<1>5. PICK ids : ids = Filling(p, e.fill)
    OBVIOUS
<1>6. PICK from : from = IF e.fill = << >> THEN now ELSE e.fill[1].value
    OBVIOUS
<1>8. p \in Rooms
    BY <1>2 DEF RoomSound
<1>9. /\ q \in Rooms /\ q.exists /\ q.text = p.text /\ q.heart = p.heart
      /\ \A s \in Slots : Value(q, s) = IF Decides(e, s) THEN Decided(e, s) ELSE Value(p, s)
    BY <1>1, <1>2, <1>4, <1>8, ResyncedIs DEF HandleResync
<1>7. e.kind = "resync" /\ portal' = Fill(q, ids, from) /\ blurred' = blurred \ Healed
    <2>1. e.kind = "resync" /\ blurred' = blurred \ Healed
        BY <1>1 DEF HandleResync, Handled
    <2>2. portal' = IF e.fill = << >> THEN q ELSE Fill(q, ids, e.fill[1].value)
        BY <1>1, <1>2, <1>4, <1>5 DEF HandleResync, Handled
    <2>3. e.fill = << >> => Fill(q, ids, from) = q
        BY <1>5, <1>9, FillNone DEF Filling
    <2> QED
        BY <1>6, <2>1, <2>2, <2>3
<1>10. PICK n \in Nat : n = NewestShown(p)
    BY NewestShownIs
<1>11. \A i \in Said : i \in Nat /\ (i > n => i \notin Shown(p))
    BY <1>10, NewestShownIs
<1>12. FillFits(e, p, now, ids, from)
    <2>1. CASE e.fill # << >>
        <3>1. from = e.fill[1].value /\ ids = {i \in Shown(from) : i > n}
            BY <1>5, <1>6, <1>10, <2>1 DEF Filling
        <3>2. from \in Rooms /\ from \in Bundles(e)
            BY <1>1, <1>7, <2>1, <3>1, ResyncBundle
        <3>3. Behind(from, now)
            BY <1>1, <1>3, <3>2 DEF EventFits
        <3> QED
            BY <1>11, <3>1, <3>2, <3>3 DEF FillFits, Shown
    <2>2. CASE e.fill = << >>
        <3>1. from = now /\ ids = {}
            BY <1>5, <1>6, <2>2 DEF Filling
        <3>2. from \in Rooms /\ Behind(from, now)
            BY <1>3, <3>1, BehindItself
        <3> QED
            BY <3>1, <3>2 DEF FillFits
    <2> QED
        BY <2>1, <2>2
<1>13. ASSUME NEW i \in Said, NEW a \in {Text(i), Heart(i)}, a \in blurred
       PROVE  a \in blurred' \/ i \in ids \/ (i \notin Shown(p) /\ i \notin Shown(now))
    <2> SUFFICES ASSUME a \in Healed PROVE i \in ids \/ (i \notin Shown(p) /\ i \notin Shown(now))
        BY <1>7, <1>13
    <2>1. i > n /\ e.fill # << >> /\ i \in e.fill[1].of
        BY <1>1, <1>2, <1>10 DEF Healed, Text, Heart
    <2>2. ids = {j \in Shown(e.fill[1].value) : j > n}
        BY <1>5, <1>10, <2>1 DEF Filling
    <2>3. i \in Shown(e.fill[1].value)
        BY <1>1, <1>7, <2>1, ResyncBundle
    <2> QED
        BY <2>1, <2>2, <2>3
<1>14. /\ \A i \in Said : TakesText(e, p, blurred, portal', blurred', now, i)
       /\ RoomSound(portal', now)
    <2>1. RoomSound(p, now)
        BY <1>2, <1>3
    <2>2. PICK b : b = blurred
        OBVIOUS
    <2>3. PICK b2 : b2 = blurred'
        OBVIOUS
    <2>4. PICK r : r = portal'
        OBVIOUS
    <2>5. \A i \in Said : \A a \in {Text(i), Heart(i)} :
              a \in b => a \in b2 \/ i \in ids \/ (i \notin Shown(p) /\ i \notin Shown(now))
        BY <1>13, <2>2, <2>3
    <2>6. r = Fill(q, ids, from)
        BY <1>7, <2>4
    <2>7. (\A i \in Said : TakesText(e, p, b, r, b2, now, i)) /\ RoomSound(r, now)
        BY <1>7, <1>9, <1>12, <2>1, <2>5, <2>6, FillTakes
    <2> QED
        BY <2>2, <2>3, <2>4, <2>7
<1>15. /\ portal'.exists /\ portal'.field = q.field /\ portal'.members = q.members
    <2>1. ids \subseteq Said /\ from \in Rooms
        BY <1>12 DEF FillFits
    <2> QED
        BY <1>7, <1>9, <2>1, FillIs
<1>16. TakesRoom(e, p, blurred, portal', blurred')
    <2>1. portal'.exists = TRUE
        BY <1>14, <1>15 DEF RoomSound, Rooms
    <2> QED
        BY <1>7, <2>1 DEF TakesRoom
<1>17. ASSUME NEW s \in Slots PROVE TakesSlot(e, p, blurred, portal', blurred', s)
    <2>1. Value(portal', s) = Value(q, s)
        BY <1>15, SameValue
    <2>2. ~ Writes(e, s)
        BY <1>7 DEF Writes
    <2>3. s \in Healed => Decides(e, s)
        <3>1. CASE s[1] = "field" /\ s = <<"field", s[2]>>
            BY <1>1, <1>7, <3>1 DEF Healed, Decides
        <3>2. CASE s[1] = "member" /\ s = <<"member", s[2]>>
            <4>1. s \in Healed => s[2] \in IF e.full THEN Members ELSE e.of
                BY <1>1, <3>2 DEF Healed
            <4> QED
                BY <1>7, <3>2, <4>1 DEF Decides
        <3> QED
            BY <3>1, <3>2, SlotIs
    <2>4. s \in blurred /\ ~ Decides(e, s) => s \in blurred'
        BY <1>7, <2>3
    <2> QED
        BY <1>7, <1>9, <2>1, <2>2, <2>4 DEF TakesSlot
<1> QED
    BY <1>1, <1>2, <1>3, <1>14, <1>16, <1>17 DEF Takes

LEMMA UpsertTakes ==
    ASSUME HandleUpsert, RoomSound(portal, thread), thread \in Rooms, EventShape(Event), EventFits(Event, thread)
    PROVE  Takes(Event, portal, blurred, portal', blurred', thread) /\ RoomSound(portal', thread)
<1>1. PICK e : e = Event
    OBVIOUS
<1>2. PICK p : p = portal
    OBVIOUS
<1>3. PICK now : now = thread
    OBVIOUS
<1>4. e.kind = "upsert" /\ p \in Rooms /\ RoomSound(p, now)
    BY <1>1, <1>2, <1>3 DEF HandleUpsert, RoomSound
<1>5. CASE p.exists
    <2>1. PICK ids : ids = Filling(p, <<e>>)
        OBVIOUS
    <2>2. portal' = Fill(p, ids, e.value) /\ blurred' = blurred \ ({"text", "heart"} \X ids)
        BY <1>1, <1>2, <1>5, <2>1 DEF HandleUpsert, Handled
    <2>3. ids = {i \in Shown(e.value) : i > NewestShown(p)}
        BY <2>1 DEF Filling
    <2>4. e.value \in Rooms /\ e.value \in Bundles(e)
        BY <1>1, <1>4 DEF EventShape, Bundle, Bundles
    <2>5. FillFits(e, p, now, ids, e.value)
        <3>1. Behind(e.value, now)
            BY <1>1, <1>3, <2>4 DEF EventFits
        <3>2. \A i \in Said : i > NewestShown(p) => i \notin Shown(p)
            BY NewestShownIs
        <3> QED
            BY <2>3, <2>4, <3>1, <3>2 DEF FillFits, Shown
    <2>6. PICK b : b = blurred
        OBVIOUS
    <2>7. PICK b2 : b2 = blurred'
        OBVIOUS
    <2>8. PICK r : r = portal'
        OBVIOUS
    <2>9. \A i \in Said : \A a \in {Text(i), Heart(i)} :
              a \in b => a \in b2 \/ i \in ids \/ (i \notin Shown(p) /\ i \notin Shown(now))
        BY <2>2, <2>6, <2>7 DEF Text, Heart
    <2>10. (\A i \in Said : TakesText(e, p, b, r, b2, now, i)) /\ RoomSound(r, now)
        <3>1. PICK from : from = e.value
            OBVIOUS
        <3>2. r = Fill(p, ids, from) /\ FillFits(e, p, now, ids, from)
            BY <2>2, <2>5, <2>8, <3>1
        <3> QED
            BY <1>4, <1>5, <2>9, <3>2, FillTakes
    <2>11. r \in Rooms /\ r.exists = p.exists /\ r.field = p.field /\ r.members = p.members
        <3>1. ids \subseteq Said
            BY <2>5 DEF FillFits
        <3> QED
            BY <1>4, <2>2, <2>4, <2>8, <3>1, FillIs
    <2>12. \A c \in b : c[1] \notin {"text", "heart"} => c \in b2
        BY <2>2, <2>6, <2>7
    <2>13. TakesRoom(e, p, b, r, b2)
        <3>1. Chat \in b => Chat \in b2
            BY <2>12 DEF Chat
        <3> QED
            BY <1>4, <1>5, <2>11, <3>1 DEF TakesRoom
    <2>14. ASSUME NEW s \in Slots PROVE TakesSlot(e, p, b, r, b2, s)
        <3>1. Value(r, s) = Value(p, s)
            BY <2>11, SameValue
        <3>2. s \in b => s \in b2
            BY <2>12, SlotIs
        <3>3. ~ Writes(e, s) /\ ~ Decides(e, s)
            BY <1>4 DEF Writes, Decides
        <3> QED
            BY <1>4, <3>1, <3>2, <3>3 DEF TakesSlot
    <2>15. Takes(e, p, b, r, b2, now)
        BY <2>10, <2>13, <2>14 DEF Takes
    <2> QED
        BY <1>1, <1>2, <1>3, <2>6, <2>7, <2>8, <2>10, <2>15
<1>6. CASE ~ p.exists
    <2>1. portal' = p /\ blurred \subseteq blurred'
        BY <1>2, <1>6 DEF HandleUpsert, Handled, Dropped
    <2>2. PICK b : b = blurred
        OBVIOUS
    <2>3. PICK b2 : b2 = blurred' /\ b \subseteq b2
        BY <2>1, <2>2
    <2>4. p = Unborn
        BY <1>4, <1>6 DEF RoomSound
    <2>5. TakesRoom(e, p, b, p, b2)
        <3>1. p.exists = FALSE
            BY <1>4, <1>6 DEF Rooms
        <3> QED
            BY <1>4, <2>3, <3>1 DEF TakesRoom
    <2>6. ASSUME NEW s \in Slots PROVE TakesSlot(e, p, b, p, b2, s)
        BY <1>4, <1>6, <2>3, StillSlot
    <2>7. ASSUME NEW i \in Said PROVE TakesText(e, p, b, p, b2, now, i)
        <3>1. \A k \in {"edit", "unsend", "react", "unreact", "insert"} : ~ IsOf(e, k, i)
            BY <1>4 DEF IsOf
        <3>2. p.heart[i] => i \in Shown(p)
            BY <1>4 DEF RoomSound
        <3> QED
            BY <1>4, <2>3, <3>1, <3>2, StillText
    <2>8. Takes(e, p, b, p, b2, now)
        BY <2>5, <2>6, <2>7 DEF Takes
    <2> QED
        BY <1>1, <1>2, <1>3, <1>4, <2>1, <2>2, <2>3, <2>8
<1> QED
    BY <1>5, <1>6

-----------------------------------------------------------------------------
(* The other handlers, and all of them together.                             *)

LEMMA DeleteTakes ==
    ASSUME NEW p, NEW b, NEW now, NEW e, RoomSound(p, now), e.kind = "delete"
    PROVE  Takes(e, p, b, Unborn, b, now) /\ RoomSound(Unborn, now)
<1>1. PICK u : u = Unborn
    OBVIOUS
<1>2. /\ u \in Rooms /\ ~ u.exists /\ Shown(u) = {}
      /\ \A i \in Said : u.text[i] = "unsaid" /\ u.heart[i] = FALSE
      /\ \A s \in Slots : Value(u, s) = Default(s)
    BY <1>1, UnbornIs
<1>3. TakesRoom(e, p, b, u, b)
    <2>1. u.exists = FALSE
        BY <1>2 DEF Rooms
    <2> QED
        BY <2>1 DEF TakesRoom
<1>4. ASSUME NEW s \in Slots PROVE TakesSlot(e, p, b, u, b, s)
    BY <1>2 DEF TakesSlot, Writes, Decides
<1>5. ASSUME NEW i \in Said PROVE TakesText(e, p, b, u, b, now, i)
    <2>1. \A k \in {"edit", "unsend", "react", "unreact", "insert"} : ~ IsOf(e, k, i)
        BY DEF IsOf
    <2> QED
        BY <1>2, <2>1 DEF TakesText
<1>6. RoomSound(u, now)
    BY <1>1, <1>2 DEF RoomSound, Behind
<1> QED
    BY <1>1, <1>3, <1>4, <1>5, <1>6 DEF Takes

LEMMA BlurTakes ==
    ASSUME NEW p, NEW b, NEW b2, NEW now, NEW e, RoomSound(p, now), e.kind \in {"blur", "exists"}, b \subseteq b2,
           e.kind = "blur" => e.value \subseteq b2, e.kind = "exists" => p.exists
    PROVE  Takes(e, p, b, p, b2, now)
<1>1. p.exists \in BOOLEAN
    BY DEF RoomSound, Rooms
<1>2. TakesRoom(e, p, b, p, b2)
    BY <1>1 DEF TakesRoom
<1>3. ASSUME NEW s \in Slots PROVE TakesSlot(e, p, b, p, b2, s)
    BY DEF TakesSlot, Decides, Writes
<1>4. ASSUME NEW i \in Said PROVE TakesText(e, p, b, p, b2, now, i)
    <2>1. \A k \in {"edit", "unsend", "react", "unreact", "insert"} : ~ IsOf(e, k, i)
        BY DEF IsOf
    <2> QED
        BY <2>1, StillText DEF RoomSound
<1> QED
    BY <1>2, <1>3, <1>4 DEF Takes

LEMMA ExistsTakes ==
    ASSUME NEW p, NEW b, NEW b2, NEW now, NEW e, RoomSound(p, now), ~ p.exists, e.kind = "exists",
           b2 = (b \ {Chat}) \cup Poor
    PROVE  LET r == [Unborn EXCEPT !.exists = TRUE] IN Takes(e, p, b, r, b2, now) /\ RoomSound(r, now)
<1>1. PICK u : u = Unborn
    OBVIOUS
<1>2. /\ u \in Rooms /\ ~ u.exists /\ Shown(u) = {} /\ p = u
      /\ \A i \in Said : u.text[i] = "unsaid" /\ u.heart[i] = FALSE
    BY <1>1, UnbornIs DEF RoomSound
<1>3. PICK r : r = [u EXCEPT !.exists = TRUE]
    OBVIOUS
<1>4. /\ r \in Rooms /\ r.exists = TRUE /\ r.field = u.field /\ r.members = u.members
      /\ r.text = u.text /\ r.heart = u.heart
    BY <1>2, <1>3 DEF Rooms
<1>5. TakesRoom(e, p, b, r, b2)
    BY <1>4 DEF TakesRoom
<1>6. ASSUME NEW s \in Slots PROVE TakesSlot(e, p, b, r, b2, s)
    <2>1. Value(r, s) = Value(p, s)
        BY <1>2, <1>4, SameValue
    <2>2. s \in b2
        <3>1. s \in Poor
            <4>1. CASE s[1] = "field" /\ s[2] \in Fields /\ s = <<"field", s[2]>>
                BY <4>1 DEF Poor
            <4>2. CASE s[1] = "member" /\ s[2] \in Members /\ s = <<"member", s[2]>>
                BY <4>2 DEF Poor
            <4> QED
                BY <4>1, <4>2, SlotIs
        <3> QED
            BY <3>1
    <2> QED
        BY <2>1, <2>2 DEF TakesSlot, Decides, Writes
<1>7. ASSUME NEW i \in Said PROVE TakesText(e, p, b, r, b2, now, i)
    <2>1. \A k \in {"edit", "unsend", "react", "unreact", "insert"} : ~ IsOf(e, k, i)
        BY DEF IsOf
    <2>2. i \notin Shown(p) /\ i \notin Shown(r) /\ ~ p.heart[i] /\ ~ r.heart[i]
        BY <1>2, <1>4, ShownIs
    <2>3. r.text[i] # "first" /\ p.text[i] # "first"
        BY <1>2, <1>4
    <2>4. \A a \in {Text(i), Heart(i)} : a \in b => a \in b2
        BY DEF Text, Heart, Chat
    <2> QED
        BY <2>1, <2>2, <2>3, <2>4 DEF TakesText
<1>8. RoomSound(r, now)
    BY <1>2, <1>4, ShownIs DEF RoomSound, Behind
<1> QED
    BY <1>1, <1>3, <1>5, <1>6, <1>7, <1>8 DEF Takes

Handle == HandleChange \/ HandleDelete \/ HandleBlur \/ HandleExists \/ HandleUpsert \/ HandleResync

LEMMA HandleTakes ==
    ASSUME Handle, RoomSound(portal, thread), thread \in Rooms, EventShape(Event), EventFits(Event, thread)
    PROVE  Takes(Event, portal, blurred, portal', blurred', thread) /\ RoomSound(portal', thread)
<1>1. CASE HandleChange
    <2>1. /\ portal' = Changed(portal, Event) /\ blurred \subseteq blurred' /\ Event.kind \in Changes
        BY <1>1 DEF HandleChange, Handled, Dropped, Changes
    <2>2. PICK b : b = blurred
        OBVIOUS
    <2>3. PICK b2 : b2 = blurred'
        OBVIOUS
    <2>4. PICK p : p = portal
        OBVIOUS
    <2>5. PICK e : e = Event
        OBVIOUS
    <2>6. PICK now : now = thread
        OBVIOUS
    <2>7. Takes(e, p, b, Changed(p, e), b2, now) /\ RoomSound(Changed(p, e), now)
        BY <2>1, <2>2, <2>3, <2>4, <2>5, <2>6, ChangeTakes
    <2> QED
        BY <2>1, <2>2, <2>3, <2>4, <2>5, <2>6, <2>7
<1>2. CASE HandleDelete
    <2>1. Event.kind = "delete" /\ portal' = Unborn /\ blurred' = blurred
        BY <1>2 DEF HandleDelete, Handled
    <2> QED
        BY <2>1, DeleteTakes
<1>3. CASE HandleBlur
    <2>1. Event.kind = "blur" /\ portal' = portal /\ blurred' = blurred \cup Event.value
        BY <1>3 DEF HandleBlur, Handled
    <2>2. blurred \subseteq blurred' /\ Event.value \subseteq blurred'
        BY <2>1
    <2>3. Takes(Event, portal, blurred, portal, blurred', thread)
        BY <2>1, <2>2, BlurTakes
    <2> QED
        BY <2>1, <2>3
<1>4. CASE HandleExists /\ portal.exists
    <2>1. Event.kind = "exists" /\ portal' = portal /\ blurred' = blurred
        BY <1>4 DEF HandleExists, Handled
    <2>2. Takes(Event, portal, blurred, portal, blurred', thread)
        BY <1>4, <2>1, BlurTakes
    <2> QED
        BY <2>1, <2>2
<1>5. CASE HandleExists /\ ~ portal.exists
    <2>1. Event.kind = "exists" /\ portal' = [Unborn EXCEPT !.exists = TRUE] /\ blurred' = (blurred \ {Chat}) \cup Poor
        BY <1>5 DEF HandleExists, Handled, Chat
    <2>2. PICK b : b = blurred
        OBVIOUS
    <2>3. PICK b2 : b2 = blurred'
        OBVIOUS
    <2>4. PICK r : r = portal'
        OBVIOUS
    <2>5. Takes(Event, portal, b, r, b2, thread) /\ RoomSound(r, thread)
        BY <1>5, <2>1, <2>2, <2>3, <2>4, ExistsTakes
    <2> QED
        BY <2>2, <2>3, <2>4, <2>5
<1>6. CASE HandleUpsert
    BY <1>6, UpsertTakes
<1>7. CASE HandleResync
    BY <1>7, ResyncTakes
<1> QED
    BY <1>1, <1>2, <1>3, <1>4, <1>5, <1>6, <1>7 DEF Handle

LEMMA HandlePops ==
    ASSUME Handle PROVE queued # << >> /\ queued' = Tail(queued) /\ UNCHANGED <<thread, aware, news, resent>>
BY DEF Handle, HandleChange, HandleDelete, HandleBlur, HandleExists, HandleUpsert, HandleResync, Handled

LEMMA TailShifts ==
    ASSUME NEW q, IsList(q), q # << >>
    PROVE  Shifted(q, Tail(q)) /\ IsList(Tail(q)) /\ Head(q) = q[1] /\ 1 \in DOMAIN q
           /\ \A k \in DOMAIN Tail(q) : k + 1 \in DOMAIN q /\ Tail(q)[k] = q[k + 1]
<1>1. PICK T : T = Range(q)
    OBVIOUS
<1>2. q \in Seq(T)
    BY <1>1 DEF IsList
<1>3. PICK r : r = Tail(q)
    OBVIOUS
<1>4. /\ Len(q) \in Nat /\ Len(q) >= 1 /\ DOMAIN q = 1 .. Len(q)
      /\ r \in Seq(T) /\ Len(r) = Len(q) - 1 /\ DOMAIN r = 1 .. Len(r) /\ \A k \in 1 .. Len(r) : r[k] = q[k + 1]
    BY <1>2, <1>3
<1>5. r = [k \in 1 .. Len(r) |-> r[k]]
    BY <1>4
<1>6. IsList(r)
    BY <1>4, <1>5, MadeList
<1>7. Head(q) = q[1]
    BY <1>2
<1> QED
    BY <1>3, <1>4, <1>6, <1>7 DEF Shifted

-----------------------------------------------------------------------------
(* What was promised of the whole room, and of one message, holds after an   *)
(* event was handled.                                                        *)

LEMMA RoomFitsPop ==
    ASSUME NEW q, NEW r, NEW p, NEW b, NEW p2, NEW b2, NEW now, NEW was, Shifted(q, r),
           Takes(q[1], p, b, p2, b2, now), RoomFits(was, p, b, q)
    PROVE  RoomFits(was, p2, b2, r)
<1>1. TakesRoom(q[1], p, b, p2, b2) /\ \A s \in Slots : TakesSlot(q[1], p, b, p2, b2, s)
    BY DEF Takes
<1>2. PICK n : n = Len(q)
    OBVIOUS
<1>3. n \in 1 .. Len(q) /\ n - 1 = Len(r)
    BY <1>2 DEF Shifted
<1>4. ASSUME was.exists, NEW a \in All PROVE Housed(p2, b2, r, a, Len(r))
    <2>1. Housed(p, b, q, a, n)
        BY <1>2, <1>4 DEF RoomFits
    <2>2. Housed(p2, b2, r, a, n - 1)
        BY <1>1, <1>3, <2>1, HousedPops
    <2> QED
        BY <1>3, <2>2
<1>5. ASSUME ~ was.exists, NEW a \in Slots \cup {Chat} PROVE NoRoom(p2, b2, r, a, Len(r))
    <2>1. NoRoom(p, b, q, a, n)
        BY <1>2, <1>5 DEF RoomFits
    <2>2. NoRoom(p2, b2, r, a, n - 1)
        BY <1>1, <1>3, <2>1, NoRoomPops
    <2> QED
        BY <1>3, <2>2
<1>6. ASSUME was.exists, NEW s \in Slots PROVE SlotHolds(p2, b2, r, s, Value(was, s))
    <2>1. PICK v : v = Value(was, s)
        OBVIOUS
    <2>2. SlotHolds(p, b, q, s, v)
        BY <1>6, <2>1 DEF RoomFits
    <2>3. SlotHolds(p2, b2, r, s, v)
        BY <1>1, <2>2, SlotPops
    <2> QED
        BY <2>1, <2>3
<1> QED
    BY <1>4, <1>5, <1>6 DEF RoomFits

LEMMA TextFitsPop ==
    ASSUME NEW q, NEW r, NEW p, NEW b, NEW p2, NEW b2, NEW now, NEW was, NEW table, NEW i \in Said, Shifted(q, r),
           Takes(q[1], p, b, p2, b2, now), TextFits(was, now, table, p, b, q, i),
           was.text[i] = "gone" => now.text[i] = "gone", now.heart[i] => i \in Shown(now)
    PROVE  TextFits(was, now, table, p2, b2, r, i)
<1>1. TakesRoom(q[1], p, b, p2, b2) /\ TakesText(q[1], p, b, p2, b2, now, i)
    BY DEF Takes
<1>2. PICK n : n = Len(q)
    OBVIOUS
<1>3. n \in 1 .. Len(q) /\ n - 1 = Len(r)
    BY <1>2 DEF Shifted
<1>4. ASSUME was.text[i] = "gone" PROVE GoneHolds(p2, b2, r, i, Text(i)) /\ GoneHolds(p2, b2, r, i, Heart(i))
    <2>1. i \notin Shown(now)
        BY <1>4, ShownIs
    <2>2. ASSUME NEW a \in {Text(i), Heart(i)} PROVE GoneHolds(p2, b2, r, i, a)
        <3>1. GoneHolds(p, b, q, i, a)
            BY <1>4 DEF TextFits
        <3> QED
            BY <1>1, <2>1, <3>1, GonePops
    <2> QED
        BY <2>2
<1>5. ASSUME was.text[i] \in Words, now.text[i] \in Words
      PROVE  Present(p2, b2, r, i, Text(i), Len(r)) /\ Present(p2, b2, r, i, Heart(i), Len(r))
    <2>1. i \in Shown(now)
        BY <1>5 DEF Shown
    <2>2. ASSUME NEW a \in {Text(i), Heart(i)} PROVE Present(p2, b2, r, i, a, Len(r))
        <3>1. Present(p, b, q, i, a, n)
            BY <1>2, <1>5 DEF TextFits
        <3>2. Present(p2, b2, r, i, a, n - 1)
            BY <1>1, <1>3, <2>1, <3>1, PresentPops
        <3> QED
            BY <1>3, <3>2
    <2> QED
        BY <2>2
<1>6. ASSUME was.text[i] = "second", now.text[i] = "second" PROVE EditHolds(p2, b2, r, i)
    <2>1. EditHolds(p, b, q, i)
        BY <1>6 DEF TextFits
    <2> QED
        BY <1>1, <1>6, <2>1, EditPops
<1>7. ASSUME was.text[i] # "gone", now.text[i] # "gone", Quiet(table, i)
      PROVE  IF now.heart[i] THEN HeartOn(p2, b2, r, i) ELSE HeartOff(p2, b2, r, i)
    <2>1. IF now.heart[i] THEN HeartOn(p, b, q, i) ELSE HeartOff(p, b, q, i)
        BY <1>7 DEF TextFits
    <2>2. CASE now.heart[i]
        <3>1. HeartOn(p, b, q, i) /\ i \in Shown(now)
            BY <2>1, <2>2
        <3>2. HeartOn(p2, b2, r, i)
            BY <1>1, <2>2, <3>1, HeartOnPops
        <3> QED
            BY <2>2, <3>2
    <2>3. CASE ~ now.heart[i]
        <3>1. HeartOff(p, b, q, i)
            BY <2>1, <2>3
        <3>2. HeartOff(p2, b2, r, i)
            BY <1>1, <2>3, <3>1, HeartOffPops
        <3> QED
            BY <2>3, <3>2
    <2> QED
        BY <2>2, <2>3
<1> QED
    BY <1>4, <1>5, <1>6, <1>7 DEF TextFits

-----------------------------------------------------------------------------
(* Where the rows of a table stand among its events: the types come in       *)
(* phases, and within one phase the rows keep their order.                   *)

Phase(kind) == CASE kind = "delete" -> 1 [] kind \in {"exists", "resync"} -> 2 [] kind = "add" -> 3
                 [] kind = "merging" -> 4 [] kind = "upsert" -> 5 [] kind = "insert" -> 6 [] kind = "edit" -> 7
                 [] kind = "set" -> 8 [] kind = "unsend" -> 9 [] kind = "react" -> 10 [] kind = "unreact" -> 11
                 [] kind = "remove" -> 12 [] kind = "blur" -> 13

Late == {"insert", "edit", "set", "unsend", "react", "unreact", "remove"}
Early == {"add", "merging", "upsert"}

\* Where a row is among the events: behind it are events of later types, and of rows that come later.
Stands(x, T, n, k) ==
    /\ x[k] = T[n]
    /\ \A j \in DOMAIN x : j > k => \/ Phase(x[j].kind) > Phase(T[n].kind)
                                    \/ \E m \in DOMAIN T : m > n /\ x[j] = T[m] /\ T[m].kind = T[n].kind

Stacked(x, start, T, those, g, f) ==
    /\ g <= f /\ IsList(x) /\ IsList(start)
    /\ \A k \in DOMAIN start : k \in DOMAIN x /\ x[k] = start[k]
    /\ \A k \in DOMAIN x : k \notin DOMAIN start => \E n \in DOMAIN T :
          x[k] = T[n] /\ T[n].kind \in Early \cup Late /\ Phase(T[n].kind) > g
    /\ \A k \in DOMAIN x : Phase(x[k].kind) \in Nat /\ Phase(x[k].kind) <= f
    /\ \A n \in those : n \in DOMAIN T /\ \E k \in DOMAIN x : Stands(x, T, n, k)

\* Rows of one type, in their order, of which some are known to be there.
Piece(c, T, kind, more) ==
    /\ IsList(c)
    /\ \A i \in DOMAIN c : \E m \in DOMAIN T : c[i] = T[m] /\ T[m].kind = kind
    /\ \A n \in more : n \in DOMAIN T /\ \E i \in DOMAIN c :
          /\ c[i] = T[n]
          /\ \A j \in DOMAIN c : j > i => \E m \in DOMAIN T : m > n /\ c[j] = T[m] /\ T[m].kind = T[n].kind

Abuts(u, s, t) == u = s \o t

LEMMA JoinIs ==
    ASSUME NEW s, IsList(s), NEW t, IsList(t), NEW u, Abuts(u, s, t)
    PROVE  /\ IsList(u) /\ Len(u) = Len(s) + Len(t)
           /\ Len(s) \in Nat /\ DOMAIN s = 1 .. Len(s) /\ Len(t) \in Nat /\ DOMAIN t = 1 .. Len(t)
           /\ DOMAIN u = 1 .. (Len(s) + Len(t))
           /\ \A i \in DOMAIN s : i \in DOMAIN u /\ u[i] = s[i]
           /\ \A i \in DOMAIN t : i + Len(s) \in DOMAIN u /\ u[i + Len(s)] = t[i]
           /\ \A i \in DOMAIN u : \/ i \in DOMAIN s
                                  \/ /\ i - Len(s) \in DOMAIN t /\ i \in Nat /\ i > Len(s)
                                     /\ u[i] = t[i - Len(s)]
<1>0. u = s \o t
    BY DEF Abuts
<1>1. IsList(u) /\ Len(u) = Len(s) + Len(t)
    BY <1>0, JoinedLists
<1>2. \A i \in DOMAIN s : u[i] = s[i]
    BY <1>0, JoinedLists
<1>3. \A i \in DOMAIN t : i + Len(s) \in DOMAIN u /\ u[i + Len(s)] = t[i]
    BY <1>0, JoinedLists
<1>4. /\ Len(s) \in Nat /\ DOMAIN s = 1 .. Len(s) /\ Len(t) \in Nat /\ DOMAIN t = 1 .. Len(t)
      /\ DOMAIN u = 1 .. (Len(s) + Len(t))
    BY <1>1, ListIs
<1>5. ASSUME NEW i \in DOMAIN u, i \notin DOMAIN s
      PROVE  i - Len(s) \in DOMAIN t /\ i \in Nat /\ i > Len(s) /\ u[i] = t[i - Len(s)]
    <2>1. PICK j : j = i - Len(s)
        OBVIOUS
    <2>2. i \in Nat /\ i > Len(s) /\ j \in DOMAIN t /\ j + Len(s) = i
        BY <1>4, <1>5, <2>1
    <2> QED
        BY <1>3, <2>1, <2>2
<1> QED
    BY <1>1, <1>2, <1>3, <1>4, <1>5

LEMMA PhaseIs == \A kind \in Early \cup Late : Phase(kind) \in 3 .. 12
BY DEF Phase, Early, Late

\* Rows of the next type are added to the events.
LEMMA Stacks ==
    ASSUME NEW x, NEW start, NEW T, NEW those, NEW g \in Nat, NEW f \in Nat, Stacked(x, start, T, those, g, f),
           NEW kind \in Early \cup Late, f < Phase(kind), NEW c, NEW more, Piece(c, T, kind, more)
    PROVE  Stacked(x \o c, start, T, those \cup more, g, Phase(kind))
<1>1. PICK u : u = x \o c
    OBVIOUS
<1>2. /\ IsList(x) /\ IsList(start) /\ g <= f
      /\ \A k \in DOMAIN start : k \in DOMAIN x /\ x[k] = start[k]
      /\ \A k \in DOMAIN x : k \notin DOMAIN start => \E n \in DOMAIN T :
          x[k] = T[n] /\ T[n].kind \in Early \cup Late /\ Phase(T[n].kind) > g
      /\ \A k \in DOMAIN x : Phase(x[k].kind) \in Nat /\ Phase(x[k].kind) <= f
      /\ \A n \in those : n \in DOMAIN T /\ \E k \in DOMAIN x : Stands(x, T, n, k)
    BY DEF Stacked
<1>10. IsList(c)
    BY DEF Piece
<1>3. /\ IsList(u) /\ Len(u) = Len(x) + Len(c)
      /\ Len(x) \in Nat /\ DOMAIN x = 1 .. Len(x) /\ Len(c) \in Nat /\ DOMAIN c = 1 .. Len(c)
      /\ DOMAIN u = 1 .. (Len(x) + Len(c))
      /\ \A i \in DOMAIN x : i \in DOMAIN u /\ u[i] = x[i]
      /\ \A i \in DOMAIN c : i + Len(x) \in DOMAIN u /\ u[i + Len(x)] = c[i]
      /\ \A i \in DOMAIN u : \/ i \in DOMAIN x
                             \/ /\ i - Len(x) \in DOMAIN c /\ i \in Nat /\ i > Len(x)
                                /\ u[i] = c[i - Len(x)]
    <2>1. IsList(x)
        BY <1>2
    <2>2. Abuts(u, x, c)
        BY <1>1 DEF Abuts
    <2> QED
        BY <1>10, <2>1, <2>2, JoinIs
<1>4. Phase(kind) \in Nat
    BY PhaseIs
<1>5. ASSUME NEW i \in DOMAIN c PROVE Phase(c[i].kind) = Phase(kind)
    BY <1>5 DEF Piece
<1>6. ASSUME NEW k \in DOMAIN u PROVE Phase(u[k].kind) \in Nat /\ Phase(u[k].kind) <= Phase(kind)
    <2>1. CASE k \in DOMAIN x
        <3>1. u[k] = x[k] /\ Phase(x[k].kind) <= f /\ Phase(x[k].kind) \in Nat
            BY <1>2, <1>3, <2>1
        <3> QED
            BY <1>4, <3>1
    <2>2. CASE k \notin DOMAIN x
        <3>1. Phase(u[k].kind) = Phase(kind)
            BY <1>3, <1>5, <2>2
        <3> QED
            BY <1>4, <3>1
    <2> QED
        BY <2>1, <2>2
<1>7. ASSUME NEW k \in DOMAIN u, k \notin DOMAIN start
      PROVE  \E n \in DOMAIN T : u[k] = T[n] /\ T[n].kind \in Early \cup Late /\ Phase(T[n].kind) > g
    <2>1. \A i \in DOMAIN c : \E n \in DOMAIN T : c[i] = T[n] /\ T[n].kind \in Early \cup Late /\ Phase(T[n].kind) > g
        BY <1>2, <1>4 DEF Piece
    <2> QED
        BY <1>2, <1>3, <1>7, <2>1
<1>8. ASSUME NEW n \in those PROVE n \in DOMAIN T /\ \E k \in DOMAIN u : Stands(u, T, n, k)
    <2>1. PICK k \in DOMAIN x : Stands(x, T, n, k)
        BY <1>2
    <2>2. ASSUME NEW j \in DOMAIN u, j > k
          PROVE  \/ Phase(u[j].kind) > Phase(T[n].kind)
                 \/ \E m \in DOMAIN T : m > n /\ u[j] = T[m] /\ T[m].kind = T[n].kind
        <3>1. CASE j \in DOMAIN x
            BY <1>3, <2>1, <2>2, <3>1 DEF Stands
        <3>2. CASE j \notin DOMAIN x
            <4>1. Phase(u[j].kind) = Phase(kind)
                BY <1>3, <1>5, <3>2
            <4>2. Phase(T[n].kind) <= f /\ Phase(T[n].kind) \in Nat
                BY <1>2, <2>1 DEF Stands
            <4> QED
                BY <1>4, <4>1, <4>2
        <3> QED
            BY <3>1, <3>2
    <2> QED
        BY <1>2, <1>3, <2>1, <2>2 DEF Stands
<1>9. ASSUME NEW n \in more PROVE n \in DOMAIN T /\ \E k \in DOMAIN u : Stands(u, T, n, k)
    <2>1. PICK i \in DOMAIN c : c[i] = T[n] /\
                        \A j \in DOMAIN c : j > i => \E m \in DOMAIN T : m > n /\ c[j] = T[m] /\ T[m].kind = T[n].kind
        BY DEF Piece
    <2>5. n \in DOMAIN T
        BY DEF Piece
    <2>2. PICK k : k = i + Len(x)
        OBVIOUS
    <2>3. k \in DOMAIN u /\ u[k] = T[n]
        BY <1>3, <2>1, <2>2
    <2>4. ASSUME NEW j \in DOMAIN u, j > k
          PROVE  \E m \in DOMAIN T : m > n /\ u[j] = T[m] /\ T[m].kind = T[n].kind
        <3>1. i \in Nat /\ k \in Nat /\ k > Len(x)
            BY <1>3, <2>2
        <3>2. j \notin DOMAIN x
            BY <1>3, <2>4, <3>1
        <3>3. j - Len(x) \in DOMAIN c /\ u[j] = c[j - Len(x)] /\ j - Len(x) > i
            BY <1>3, <2>2, <2>4, <3>1, <3>2
        <3> QED
            BY <2>1, <3>3
    <2> QED
        BY <2>3, <2>4, <2>5 DEF Stands
<1> QED
    BY <1>1, <1>2, <1>3, <1>4, <1>6, <1>7, <1>8, <1>9 DEF Stacked

\* What is chosen of a table is in its order.
LEMMA ChosenStands ==
    ASSUME NEW T, IsList(T), NEW those
    PROVE  /\ IsList(Chosen(T, those))
           /\ \A i \in DOMAIN Chosen(T, those) : \E m \in DOMAIN T : m \in those /\ Chosen(T, those)[i] = T[m]
           /\ \A n \in DOMAIN T : n \in those => \E i \in DOMAIN Chosen(T, those) :
                /\ Chosen(T, those)[i] = T[n]
                /\ \A j \in DOMAIN Chosen(T, those) : j > i => \E m \in DOMAIN T : m \in those /\ m > n /\ Chosen(T, those)[j] = T[m]
           /\ Chosen(T, those) = << >> <=> \A n \in DOMAIN T : n \notin those
<1>1. PICK c : c = Chosen(T, those)
    OBVIOUS
<1>2. IsList(c)
    BY <1>1, ChosenIs
<1>3. PICK places : /\ DOMAIN places = DOMAIN c /\ Rising(places)
                    /\ \A i \in DOMAIN places : places[i] \in those /\ places[i] \in DOMAIN T /\ c[i] = T[places[i]]
                    /\ \A m \in DOMAIN T : m \in those => \E i \in DOMAIN places : places[i] = m
    BY <1>1, ChosenIs
<1>4. DOMAIN c = 1 .. Len(c) /\ Len(c) \in Nat /\ DOMAIN T = 1 .. Len(T) /\ Len(T) \in Nat
    BY <1>2, ListIs
<1>5. ASSUME NEW n \in DOMAIN T, n \in those
      PROVE  \E i \in DOMAIN c : /\ c[i] = T[n]
                                 /\ \A j \in DOMAIN c : j > i => \E m \in DOMAIN T : m \in those /\ m > n /\ c[j] = T[m]
    <2>1. PICK i \in DOMAIN places : places[i] = n
        BY <1>3, <1>5
    <2>2. ASSUME NEW j \in DOMAIN c, j > i PROVE places[j] \in DOMAIN T /\ places[j] \in those /\ places[j] > n /\ c[j] = T[places[j]]
        BY <1>3, <1>4, <2>1, <2>2 DEF Rising
    <2> QED
        BY <1>3, <2>1, <2>2
<1>6. c = << >> <=> DOMAIN c = {}
    <2>1. c = [k \in 1 .. Len(c) |-> c[k]]
        BY <1>2, ListIs
    <2> QED
        BY <1>4, <2>1
<1>7. c = << >> <=> \A n \in DOMAIN T : n \notin those
    BY <1>3, <1>6
<1> QED
    BY <1>1, <1>2, <1>3, <1>5, <1>7

\* The last of what is chosen is the last there is.
LEMMA LastChosen ==
    ASSUME NEW T, IsList(T), NEW those, Chosen(T, those) # << >>
    PROVE  \E n \in DOMAIN T : /\ n \in those /\ Last(Chosen(T, those)) = T[n]
                               /\ \A m \in DOMAIN T : m \in those => m <= n
<1>1. PICK c : c = Chosen(T, those)
    OBVIOUS
<1>2. IsList(c)
    BY <1>1, ChosenIs
<1>3. PICK places : /\ DOMAIN places = DOMAIN c /\ Rising(places)
                    /\ \A i \in DOMAIN places : places[i] \in those /\ places[i] \in DOMAIN T /\ c[i] = T[places[i]]
                    /\ \A m \in DOMAIN T : m \in those => \E i \in DOMAIN places : places[i] = m
    BY <1>1, ChosenIs
<1>4. DOMAIN c = 1 .. Len(c) /\ Len(c) \in Nat /\ DOMAIN T = 1 .. Len(T) /\ Len(T) \in Nat
      /\ c = [k \in 1 .. Len(c) |-> c[k]]
    BY <1>2, ListIs
<1>5. Len(c) \in DOMAIN c
    BY <1>1, <1>4
<1>6. Last(c) = c[Len(c)]
    BY DEF Last
<1>7. PICK n : n = places[Len(c)]
    OBVIOUS
<1>8. n \in those /\ n \in DOMAIN T /\ c[Len(c)] = T[n]
    BY <1>3, <1>5, <1>7
<1>9. ASSUME NEW m \in DOMAIN T, m \in those PROVE m <= n
    <2>1. PICK i \in DOMAIN places : places[i] = m
        BY <1>3, <1>9
    <2>2. i = Len(c) \/ i < Len(c)
        BY <1>3, <1>4
    <2>3. i < Len(c) => m < n
        BY <1>3, <1>5, <1>7, <2>1 DEF Rising
    <2> QED
        BY <1>4, <1>7, <1>8, <2>1, <2>2, <2>3
<1> QED
    BY <1>1, <1>6, <1>8, <1>9

-----------------------------------------------------------------------------
(* The pieces of ParseTable, for the types after the opening.                *)

Threads(T) == Rows(T, {"thread"})
LateShown(T) == {n \in DOMAIN T : T[n].kind \in Late /\ Known(T[n])}
Typed(T, kind) == {n \in DOMAIN T : T[n].kind = kind}

LEMMA OfPiece ==
    ASSUME NEW T, IsList(T), NEW kind
    PROVE  Piece(Of({kind}, T), T, kind, Typed(T, kind))
<1>1. PICK those : those = {k \in DOMAIN T : T[k].kind \in {kind}}
    OBVIOUS
<1>2. Of({kind}, T) = Chosen(T, those)
    BY <1>1 DEF Of
<1>3. PICK c : c = Chosen(T, those)
    OBVIOUS
<1>4. /\ IsList(c)
      /\ \A i \in DOMAIN c : \E m \in DOMAIN T : m \in those /\ c[i] = T[m]
      /\ \A n \in DOMAIN T : n \in those => \E i \in DOMAIN c :
                /\ c[i] = T[n]
                /\ \A j \in DOMAIN c : j > i => \E m \in DOMAIN T : m \in those /\ m > n /\ c[j] = T[m]
    BY <1>3, ChosenStands
<1>5. \A n \in DOMAIN T : n \in those <=> T[n].kind = kind
    BY <1>1
<1>6. \A i \in DOMAIN c : \E m \in DOMAIN T : c[i] = T[m] /\ T[m].kind = kind
    BY <1>4, <1>5
<1>7. ASSUME NEW n \in Typed(T, kind)
      PROVE  n \in DOMAIN T /\ \E i \in DOMAIN c :
                /\ c[i] = T[n]
                /\ \A j \in DOMAIN c : j > i => \E m \in DOMAIN T : m > n /\ c[j] = T[m] /\ T[m].kind = T[n].kind
    <2>1. n \in DOMAIN T /\ T[n].kind = kind /\ n \in those
        BY <1>5 DEF Typed
    <2>2. PICK i \in DOMAIN c : c[i] = T[n] /\ \A j \in DOMAIN c : j > i => \E m \in DOMAIN T : m \in those /\ m > n /\ c[j] = T[m]
        BY <1>4, <2>1
    <2>3. \A j \in DOMAIN c : j > i => \E m \in DOMAIN T : m > n /\ c[j] = T[m] /\ T[m].kind = T[n].kind
        BY <1>5, <2>1, <2>2
    <2> QED
        BY <2>1, <2>2, <2>3
<1>8. PICK more : more = Typed(T, kind)
    OBVIOUS
<1>9. Piece(c, T, kind, more)
    BY <1>4, <1>6, <1>7, <1>8 DEF Piece
<1> QED
    BY <1>2, <1>3, <1>8, <1>9

LEMMA EditsPiece ==
    ASSUME NEW T, IsList(T)
    PROVE  Piece(Edits(T), T, "edit", {n \in Typed(T, "edit") : Known(T[n])})
<1>1. PICK those : those = {k \in DOMAIN T : T[k].kind = "edit" /\ Known(T[k])}
    OBVIOUS
<1>2. Edits(T) = Chosen(T, those)
    BY <1>1 DEF Edits
<1>3. PICK c : c = Chosen(T, those)
    OBVIOUS
<1>4. /\ IsList(c)
      /\ \A i \in DOMAIN c : \E m \in DOMAIN T : m \in those /\ c[i] = T[m]
      /\ \A n \in DOMAIN T : n \in those => \E i \in DOMAIN c :
                /\ c[i] = T[n]
                /\ \A j \in DOMAIN c : j > i => \E m \in DOMAIN T : m \in those /\ m > n /\ c[j] = T[m]
    BY <1>3, ChosenStands
<1>5. \A n \in DOMAIN T : n \in those <=> T[n].kind = "edit" /\ Known(T[n])
    BY <1>1
<1>6. \A i \in DOMAIN c : \E m \in DOMAIN T : c[i] = T[m] /\ T[m].kind = "edit"
    BY <1>4, <1>5
<1> DEFINE More == {n \in Typed(T, "edit") : Known(T[n])}
<1>7. ASSUME NEW n \in More
      PROVE  n \in DOMAIN T /\ \E i \in DOMAIN c :
                /\ c[i] = T[n]
                /\ \A j \in DOMAIN c : j > i => \E m \in DOMAIN T : m > n /\ c[j] = T[m] /\ T[m].kind = T[n].kind
    <2>1. n \in DOMAIN T /\ T[n].kind = "edit" /\ n \in those
        BY <1>5 DEF Typed
    <2>2. PICK i \in DOMAIN c : c[i] = T[n] /\ \A j \in DOMAIN c : j > i => \E m \in DOMAIN T : m \in those /\ m > n /\ c[j] = T[m]
        BY <1>4, <2>1
    <2>3. \A j \in DOMAIN c : j > i => \E m \in DOMAIN T : m > n /\ c[j] = T[m] /\ T[m].kind = T[n].kind
        BY <1>5, <2>1, <2>2
    <2> QED
        BY <2>1, <2>2, <2>3
<1> HIDE DEF More
<1>8. Piece(c, T, "edit", More)
    BY <1>4, <1>6, <1>7 DEF Piece
<1> QED
    BY <1>2, <1>3, <1>8 DEF More

\* Rows chosen of rows that were chosen.
LEMMA LivePiece ==
    ASSUME NEW T, IsList(T), NEW kind
    PROVE  Piece(Of({kind}, Live(T)), T, kind, {})
<1>1. PICK L : L = Live(T)
    OBVIOUS
<1>2. IsList(L) /\ \A k \in DOMAIN L : \E m \in DOMAIN T : L[k] = T[m]
    <2>1. CASE Deletions(T) # {}
        <3>1. PICK those : those = {k \in DOMAIN T : T[k].kind \notin {"exists", "thread"}}
            OBVIOUS
        <3>2. L = Chosen(T, those)
            BY <1>1, <2>1, <3>1 DEF Live
        <3> QED
            BY <3>2, ChosenStands
    <2>2. CASE Deletions(T) = {}
        BY <1>1, <2>2 DEF Live
    <2> QED
        BY <2>1, <2>2
<1>3. PICK c : c = Of({kind}, L)
    OBVIOUS
<1>4. Piece(c, L, kind, Typed(L, kind))
    BY <1>2, <1>3, OfPiece
<1>5. IsList(c) /\ \A i \in DOMAIN c : \E k \in DOMAIN L : c[i] = L[k] /\ L[k].kind = kind
    BY <1>4 DEF Piece
<1>6. \A i \in DOMAIN c : \E m \in DOMAIN T : c[i] = T[m] /\ T[m].kind = kind
    BY <1>2, <1>5
<1>7. Piece(c, T, kind, {})
    BY <1>5, <1>6 DEF Piece
<1> QED
    BY <1>1, <1>3, <1>7

\* The same pieces, later ones of all types.
LEMMA LateStack ==
    ASSUME NEW T, IsList(T), NEW x, NEW start, NEW those, NEW g \in Nat, NEW f \in Nat, f <= 5,
           Stacked(x, start, T, those, g, f)
    PROVE  Stacked(x \o Of({"insert"}, T) \o Edits(T) \o Of({"set"}, T) \o Of({"unsend"}, T) \o Of({"react"}, T)
                     \o Of({"unreact"}, T) \o Of({"remove"}, T), start, T, those \cup LateShown(T), g, 12)
<1>1. /\ Phase("insert") = 6 /\ Phase("edit") = 7 /\ Phase("set") = 8 /\ Phase("unsend") = 9
      /\ Phase("react") = 10 /\ Phase("unreact") = 11 /\ Phase("remove") = 12
    BY DEF Phase
<1>2. PICK x1 : x1 = x \o Of({"insert"}, T)
    OBVIOUS
<1>3. PICK n1 : n1 = those \cup Typed(T, "insert")
    OBVIOUS
<1>4. Stacked(x1, start, T, n1, g, 6)
    <2>1. PICK more : more = Typed(T, "insert")
        OBVIOUS
    <2>2. PICK c : c = Of({"insert"}, T)
        OBVIOUS
    <2>3. Piece(c, T, "insert", more)
        BY <2>1, <2>2, OfPiece
    <2>4. "insert" \in Early \cup Late /\ f < Phase("insert")
        BY <1>1 DEF Late
    <2>5. Stacked(x \o c, start, T, those \cup more, g, Phase("insert"))
        BY <2>3, <2>4, Stacks
    <2> QED
        BY <1>1, <1>2, <1>3, <2>1, <2>2, <2>5
<1>5. PICK x2 : x2 = x1 \o Edits(T)
    OBVIOUS
<1>6. PICK n2 : n2 = n1 \cup {n \in Typed(T, "edit") : Known(T[n])}
    OBVIOUS
<1>7. Stacked(x2, start, T, n2, g, 7)
    <2>1. PICK more : more = {n \in Typed(T, "edit") : Known(T[n])}
        OBVIOUS
    <2>2. Piece(Edits(T), T, "edit", more)
        BY <2>1, EditsPiece
    <2>3. "edit" \in Early \cup Late /\ 6 < Phase("edit") /\ 6 \in Nat
        BY <1>1 DEF Late
    <2> QED
        BY <1>1, <1>4, <1>5, <1>6, <2>1, <2>2, <2>3, Stacks
<1>8. ASSUME NEW kind \in {"set", "unsend", "react", "unreact", "remove"}, NEW y, NEW n, NEW h \in Nat,
             h < Phase(kind), Stacked(y, start, T, n, g, h)
      PROVE  Stacked(y \o Of({kind}, T), start, T, n \cup Typed(T, kind), g, Phase(kind))
    <2>1. Piece(Of({kind}, T), T, kind, Typed(T, kind))
        BY OfPiece
    <2>2. kind \in Early \cup Late
        BY DEF Late
    <2> QED
        BY <1>8, <2>1, <2>2, Stacks
<1>9. PICK x3 : x3 = x2 \o Of({"set"}, T)
    OBVIOUS
<1>10. PICK n3 : n3 = n2 \cup Typed(T, "set")
    OBVIOUS
<1>11. Stacked(x3, start, T, n3, g, 8)
    <2>1. 7 < Phase("set") /\ 7 \in Nat
        BY <1>1
    <2> QED
        BY <1>1, <1>7, <1>8, <1>9, <1>10, <2>1
<1>12. PICK x4 : x4 = x3 \o Of({"unsend"}, T)
    OBVIOUS
<1>13. PICK n4 : n4 = n3 \cup Typed(T, "unsend")
    OBVIOUS
<1>14. Stacked(x4, start, T, n4, g, 9)
    <2>1. 8 < Phase("unsend") /\ 8 \in Nat
        BY <1>1
    <2> QED
        BY <1>1, <1>8, <1>11, <1>12, <1>13, <2>1
<1>15. PICK x5 : x5 = x4 \o Of({"react"}, T)
    OBVIOUS
<1>16. PICK n5 : n5 = n4 \cup Typed(T, "react")
    OBVIOUS
<1>17. Stacked(x5, start, T, n5, g, 10)
    <2>1. 9 < Phase("react") /\ 9 \in Nat
        BY <1>1
    <2> QED
        BY <1>1, <1>8, <1>14, <1>15, <1>16, <2>1
<1>18. PICK x6 : x6 = x5 \o Of({"unreact"}, T)
    OBVIOUS
<1>19. PICK n6 : n6 = n5 \cup Typed(T, "unreact")
    OBVIOUS
<1>20. Stacked(x6, start, T, n6, g, 11)
    <2>1. 10 < Phase("unreact") /\ 10 \in Nat
        BY <1>1
    <2> QED
        BY <1>1, <1>8, <1>17, <1>18, <1>19, <2>1
<1>21. PICK x7 : x7 = x6 \o Of({"remove"}, T)
    OBVIOUS
<1>22. PICK n7 : n7 = n6 \cup Typed(T, "remove")
    OBVIOUS
<1>23. Stacked(x7, start, T, n7, g, 12)
    <2>1. 11 < Phase("remove") /\ 11 \in Nat
        BY <1>1
    <2> QED
        BY <1>1, <1>8, <1>20, <1>21, <1>22, <2>1
<1>24. n7 = those \cup LateShown(T)
    <2>1. ASSUME NEW n PROVE n \in n7 <=> n \in those \cup LateShown(T)
        <3>1. n \in n7 <=> \/ n \in those \/ n \in Typed(T, "insert") \/ (n \in Typed(T, "edit") /\ Known(T[n]))
                           \/ n \in Typed(T, "set") \/ n \in Typed(T, "unsend") \/ n \in Typed(T, "react")
                           \/ n \in Typed(T, "unreact") \/ n \in Typed(T, "remove")
            BY <1>3, <1>6, <1>10, <1>13, <1>16, <1>19, <1>22
        <3>2. n \in DOMAIN T /\ T[n].kind # "edit" => Known(T[n])
            BY DEF Known
        <3> QED
            BY <3>1, <3>2 DEF Typed, LateShown, Late
    <2> QED
        BY <2>1
<1> QED
    BY <1>2, <1>5, <1>9, <1>12, <1>15, <1>18, <1>21, <1>23, <1>24

-----------------------------------------------------------------------------
(* The opening: the check that the thread exists or the resync, with the     *)
(* members and the settings it merges.                                       *)

LEMMA NilJoins ==
    ASSUME NEW s, IsList(s)
    PROVE  << >> \o s = s
<1>1. PICK T : T = Range(s)
    OBVIOUS
<1>2. s \in Seq(T)
    BY <1>1 DEF IsList
<1> QED
    BY <1>2

LEMMA OneList ==
    ASSUME NEW e
    PROVE  IsList(<<e>>) /\ DOMAIN <<e>> = 1 .. 1 /\ <<e>>[1] = e /\ <<e>> # << >>
<1>1. PICK s : s = <<e>>
    OBVIOUS
<1>2. DOMAIN s = 1 .. 1 /\ s[1] = e /\ s = [i \in 1 .. 1 |-> s[i]] /\ s # << >>
    BY <1>1
<1>3. IsList(s)
    BY <1>2, MadeList
<1> QED
    BY <1>1, <1>2, <1>3

LEMMA NoList == IsList(<< >>) /\ DOMAIN << >> = {}
<1>1. PICK s : s = << >>
    OBVIOUS
<1>2. DOMAIN s = 1 .. 0 /\ s = [i \in 1 .. 0 |-> s[i]] /\ DOMAIN s = {}
    BY <1>1
<1>3. IsList(s)
    BY <1>2, MadeList
<1> QED
    BY <1>1, <1>2, <1>3

LEMMA EarlyStack ==
    ASSUME NEW T, IsList(T), NEW x, NEW start, NEW g \in Nat, NEW f \in Nat, f <= 2, Stacked(x, start, T, {}, g, f)
    PROVE  Stacked(x \o Of({"add"}, T) \o Of({"merging"}, T) \o Of({"upsert"}, T), start, T, Rows(T, Early), g, 5)
<1>1. Phase("add") = 3 /\ Phase("merging") = 4 /\ Phase("upsert") = 5
    BY DEF Phase
<1>2. ASSUME NEW kind \in {"add", "merging", "upsert"}, NEW y, NEW n, NEW h \in Nat,
             h < Phase(kind), Stacked(y, start, T, n, g, h)
      PROVE  Stacked(y \o Of({kind}, T), start, T, n \cup Typed(T, kind), g, Phase(kind))
    <2>1. Piece(Of({kind}, T), T, kind, Typed(T, kind))
        BY OfPiece
    <2>2. kind \in Early \cup Late
        BY DEF Early
    <2> QED
        BY <1>2, <2>1, <2>2, Stacks
<1>3. PICK x1 : x1 = x \o Of({"add"}, T)
    OBVIOUS
<1>4. PICK n0 : n0 = {}
    OBVIOUS
<1>5. PICK n1 : n1 = n0 \cup Typed(T, "add")
    OBVIOUS
<1>6. Stacked(x1, start, T, n1, g, 3)
    <2>1. f < Phase("add") /\ Stacked(x, start, T, n0, g, f)
        BY <1>1, <1>4
    <2> QED
        BY <1>1, <1>2, <1>3, <1>5, <2>1
<1>7. PICK x2 : x2 = x1 \o Of({"merging"}, T)
    OBVIOUS
<1>8. PICK n2 : n2 = n1 \cup Typed(T, "merging")
    OBVIOUS
<1>9. Stacked(x2, start, T, n2, g, 4)
    <2>1. 3 < Phase("merging") /\ 3 \in Nat
        BY <1>1
    <2> QED
        BY <1>1, <1>2, <1>6, <1>7, <1>8, <2>1
<1>10. PICK x3 : x3 = x2 \o Of({"upsert"}, T)
    OBVIOUS
<1>11. PICK n3 : n3 = n2 \cup Typed(T, "upsert")
    OBVIOUS
<1>12. Stacked(x3, start, T, n3, g, 5)
    <2>1. 4 < Phase("upsert") /\ 4 \in Nat
        BY <1>1
    <2> QED
        BY <1>1, <1>2, <1>9, <1>10, <1>11, <2>1
<1>13. n3 = Rows(T, Early)
    BY <1>4, <1>5, <1>8, <1>11 DEF Rows, Early, Typed
<1> QED
    BY <1>3, <1>7, <1>10, <1>12, <1>13

\* The opening, without a deletion and with a snapshot of the thread.
LEMMA OpeningMerges ==
    ASSUME NEW T, IsList(T), ~ Deletes(T), Threads(T) # {}
    PROVE  \E n \in Threads(T) : Opening(T) = <<Merged(T, T[n])>> /\ \A m \in Threads(T) : m <= n
<1>1. Deletions(T) = {}
    BY DEF Deletes, Deletions
<1>2. Live(T) = T
    BY <1>1 DEF Live
<1>3. PICK d : d = Chosen(T, Deletions(T))
    OBVIOUS
<1>4. d = << >>
    BY <1>1, <1>3, ChosenStands
<1>5. PICK those : those = {k \in DOMAIN T : T[k].kind \in {"thread"}}
    OBVIOUS
<1>6. those = Threads(T)
    BY <1>5 DEF Threads, Rows
<1>7. PICK raws : raws = Of({"thread"}, T)
    OBVIOUS
<1>8. raws = Chosen(T, those)
    BY <1>5, <1>7 DEF Of
<1>9. raws # << >>
    <2>1. \A n \in those : n \in DOMAIN T
        BY <1>5
    <2> QED
        BY <1>6, <1>8, <2>1, ChosenStands
<1>10. PICK n \in DOMAIN T : /\ n \in those /\ Last(raws) = T[n]
                             /\ \A m \in DOMAIN T : m \in those => m <= n
    BY <1>8, <1>9, LastChosen
<1>11. PICK e : e = Merged(T, Last(raws))
    OBVIOUS
<1>12. Opening(T) = [k \in DOMAIN d |-> NewRow("delete", Self, 0)] \o <<e>>
    BY <1>2, <1>3, <1>7, <1>9, <1>11 DEF Opening
<1>13. [k \in DOMAIN d |-> NewRow("delete", Self, 0)] = << >>
    BY <1>4
<1>14. Opening(T) = <<e>>
    BY <1>12, <1>13
<1>15. \A m \in Threads(T) : m <= n
    BY <1>6, <1>10 DEF Threads, Rows
<1> QED
    BY <1>6, <1>10, <1>11, <1>14, <1>15

\* And without one.
Check(T) == IF Has({"exists"}, T) THEN <<NewRow("exists", Self, 0)>> ELSE << >>

LEMMA CheckStack ==
    ASSUME NEW T
    PROVE  /\ IsList(Check(T)) /\ Stacked(Check(T), Check(T), T, {}, 2, 2)
           /\ \A k \in DOMAIN Check(T) : Check(T)[k].kind = "exists"
           /\ Rows(T, {"exists"}) # {} => 1 \in DOMAIN Check(T)
<1>1. PICK c : c = Check(T)
    OBVIOUS
<1>2. /\ IsList(c) /\ \A k \in DOMAIN c : c[k].kind = "exists"
      /\ Has({"exists"}, T) => 1 \in DOMAIN c
    <2>1. CASE Has({"exists"}, T)
        <3>1. PICK e : e = NewRow("exists", Self, 0)
            OBVIOUS
        <3>2. c = <<e>> /\ e.kind = "exists"
            BY <1>1, <2>1, <3>1 DEF Check, NewRow
        <3>3. IsList(c) /\ DOMAIN c = 1 .. 1 /\ c[1] = e
            BY <3>2, OneList
        <3> QED
            BY <3>2, <3>3
    <2>2. CASE ~ Has({"exists"}, T)
        BY <1>1, <2>2, NoList DEF Check
    <2> QED
        BY <2>1, <2>2
<1>3. Phase("exists") = 2
    BY DEF Phase
<1>4. Stacked(c, c, T, {}, 2, 2)
    BY <1>2, <1>3 DEF Stacked
<1>5. Rows(T, {"exists"}) # {} => Has({"exists"}, T)
    BY DEF Rows, Has
<1> QED
    BY <1>1, <1>2, <1>4, <1>5

LEMMA OpeningStack ==
    ASSUME NEW T, IsList(T), ~ Deletes(T), Threads(T) = {}
    PROVE  Stacked(Opening(T), Check(T), T, Rows(T, Early), 2, 5)
<1>1. Deletions(T) = {}
    BY DEF Deletes, Deletions
<1>2. Live(T) = T
    BY <1>1 DEF Live
<1>3. PICK d : d = Chosen(T, Deletions(T))
    OBVIOUS
<1>4. d = << >>
    BY <1>1, <1>3, ChosenStands
<1>5. PICK those : those = {k \in DOMAIN T : T[k].kind \in {"thread"}}
    OBVIOUS
<1>6. \A n \in DOMAIN T : n \notin those
    BY <1>5 DEF Threads, Rows
<1>7. Of({"thread"}, T) = << >>
    BY <1>5, <1>6, ChosenStands DEF Of
<1>8. PICK x : x = Check(T) \o Of({"add"}, T) \o Of({"merging"}, T) \o Of({"upsert"}, T)
    OBVIOUS
<1>9. Opening(T) = [k \in DOMAIN d |-> NewRow("delete", Self, 0)] \o x
    BY <1>2, <1>3, <1>7, <1>8 DEF Opening, Check
<1>10. [k \in DOMAIN d |-> NewRow("delete", Self, 0)] = << >>
    BY <1>4
<1>11. Stacked(x, Check(T), T, Rows(T, Early), 2, 5)
    BY <1>8, CheckStack, EarlyStack
<1>12. IsList(x)
    BY <1>11 DEF Stacked
<1>13. << >> \o x = x
    BY <1>12, NilJoins
<1> QED
    BY <1>9, <1>10, <1>11, <1>13

-----------------------------------------------------------------------------
(* What ParseTable makes of a table, with a deletion, with a snapshot and    *)
(* without either (Rendered).                                                *)

\* What a table becomes, with or without what is blurred by it.
OfTable(x, T) ==
    \A k \in DOMAIN x : \/ x[k].kind \in {"delete", "exists", "resync", "blur"}
                        \/ x[k].kind \in Early \cup Late /\ \E n \in DOMAIN T : x[k] = T[n]
Closing(x) == 1 \in DOMAIN x /\ x[1].kind = "delete" /\ \A k \in DOMAIN x : x[k].kind \notin {"exists", "resync"}
Merging1(x, T) == /\ 1 \in DOMAIN x
                  /\ \E n \in Threads(T) : x[1] = Merged(T, T[n]) /\ \A m \in Threads(T) : m <= n
                  /\ \A k \in DOMAIN x : k # 1 => x[k].kind \in Late \cup {"blur"}
Listing(x, T) == /\ \A k \in DOMAIN x : x[k].kind # "resync"
                 /\ \A n \in Rows(T, Early) : n \in DOMAIN T /\ \E k \in DOMAIN x : Stands(x, T, n, k)
                 /\ Rows(T, {"exists"}) # {} => 1 \in DOMAIN x /\ x[1].kind = "exists"
Rendered(x, T) ==
    /\ IsList(x) /\ OfTable(x, T)
    /\ Deletes(T) => Closing(x)
    /\ ~ Deletes(T) => /\ \A k \in DOMAIN x : x[k].kind # "delete"
                       /\ \A n \in LateShown(T) : n \in DOMAIN T /\ \E k \in DOMAIN x : Stands(x, T, n, k)
                       /\ IF Threads(T) # {} THEN Merging1(x, T) ELSE Listing(x, T)

Mixed(x, T) == /\ IsList(x)
               /\ \A k \in DOMAIN x : \/ x[k].kind = "delete"
                                      \/ \E n \in DOMAIN T : x[k] = T[n] /\ T[n].kind \in Early \cup Late
Begins(x) == 1 \in DOMAIN x /\ x[1].kind = "delete"

LEMMA MixedJoins ==
    ASSUME NEW T, NEW s, Mixed(s, T), NEW t, Mixed(t, T)
    PROVE  Mixed(s \o t, T) /\ (Begins(s) => Begins(s \o t))
<1>1. PICK u : u = s \o t
    OBVIOUS
<1>2. IsList(s) /\ IsList(t) /\ Abuts(u, s, t)
    BY <1>1 DEF Mixed, Abuts
<1>3. /\ IsList(u)
      /\ \A i \in DOMAIN s : i \in DOMAIN u /\ u[i] = s[i]
      /\ \A i \in DOMAIN u : \/ i \in DOMAIN s
                             \/ /\ i - Len(s) \in DOMAIN t /\ i \in Nat /\ i > Len(s)
                                /\ u[i] = t[i - Len(s)]
    BY <1>2, JoinIs
<1>4. Mixed(u, T)
    BY <1>3 DEF Mixed
<1>5. Begins(s) => Begins(u)
    BY <1>3 DEF Begins
<1> QED
    BY <1>1, <1>4, <1>5

LEMMA PieceMixes ==
    ASSUME NEW T, NEW c, NEW kind \in Early \cup Late, NEW more, Piece(c, T, kind, more)
    PROVE  Mixed(c, T)
BY DEF Piece, Mixed

LEMMA OpeningDeletes ==
    ASSUME NEW T, IsList(T), Deletes(T)
    PROVE  Mixed(Opening(T), T) /\ Begins(Opening(T))
<1>1. Deletions(T) # {} /\ \E n \in DOMAIN T : n \in Deletions(T)
    BY DEF Deletes, Deletions
<1>2. PICK d : d = Chosen(T, Deletions(T))
    OBVIOUS
<1>3. d # << >> /\ IsList(d)
    BY <1>1, <1>2, ChosenStands
<1>4. DOMAIN d = 1 .. Len(d) /\ Len(d) \in Nat /\ d = [i \in 1 .. Len(d) |-> d[i]]
    BY <1>3, ListIs
<1>5. PICK ds : ds = [k \in DOMAIN d |-> NewRow("delete", Self, 0)]
    OBVIOUS
<1>6. /\ DOMAIN ds = 1 .. Len(d) /\ ds = [i \in 1 .. Len(d) |-> ds[i]]
      /\ \A k \in DOMAIN ds : ds[k].kind = "delete"
    BY <1>4, <1>5 DEF NewRow
<1>7. Mixed(ds, T)
    BY <1>4, <1>6, MadeList DEF Mixed
<1>8. Begins(ds)
    <2>1. Len(d) # 0
        BY <1>3, <1>4, NoList
    <2> QED
        BY <1>4, <1>6, <2>1 DEF Begins
<1>9. PICK L : L = Live(T)
    OBVIOUS
<1>10. PICK those : those = {k \in DOMAIN T : T[k].kind \notin {"exists", "thread"}}
    OBVIOUS
<1>11. L = Chosen(T, those)
    BY <1>1, <1>9, <1>10 DEF Live
<1>12. IsList(L) /\ \A k \in DOMAIN L : L[k].kind \notin {"exists", "thread"}
    BY <1>10, <1>11, ChosenStands
<1>13. ~ Has({"exists"}, L)
    BY <1>12 DEF Has
<1>14. Of({"thread"}, L) = << >>
    <2>1. PICK none : none = {k \in DOMAIN L : L[k].kind \in {"thread"}}
        OBVIOUS
    <2>2. \A n \in DOMAIN L : n \notin none
        BY <1>12, <2>1
    <2> QED
        BY <1>12, <2>1, <2>2, ChosenStands DEF Of
<1>15. ASSUME NEW kind \in Early PROVE Mixed(Of({kind}, L), T)
    <2>1. Piece(Of({kind}, L), T, kind, {})
        BY <1>9, LivePiece
    <2> QED
        BY <2>1, PieceMixes
<1>16. Mixed(<< >>, T)
    BY NoList DEF Mixed
<1>17. Mixed(<< >> \o Of({"add"}, L), T)
    BY <1>15, <1>16, MixedJoins DEF Early
<1>18. Mixed(<< >> \o Of({"add"}, L) \o Of({"merging"}, L), T)
    BY <1>15, <1>17, MixedJoins DEF Early
<1>19. PICK y : y = << >> \o Of({"add"}, L) \o Of({"merging"}, L) \o Of({"upsert"}, L)
    OBVIOUS
<1>20. Mixed(y, T)
    BY <1>15, <1>18, <1>19, MixedJoins DEF Early
<1>21. Opening(T) = ds \o y
    BY <1>2, <1>5, <1>9, <1>13, <1>14, <1>19 DEF Opening
<1> QED
    BY <1>7, <1>8, <1>20, <1>21, MixedJoins

LEMMA ParsedDeletes ==
    ASSUME NEW T, IsList(T), Deletes(T)
    PROVE  Mixed(ParseTable(T), T) /\ Begins(ParseTable(T))
<1>1. ASSUME NEW kind \in Late PROVE Mixed(Of({kind}, T), T)
    BY OfPiece, PieceMixes
<1>2. Mixed(Edits(T), T)
    BY EditsPiece, PieceMixes DEF Late
<1>3. PICK x0 : x0 = Opening(T)
    OBVIOUS
<1>4. Mixed(x0, T) /\ Begins(x0)
    BY <1>3, OpeningDeletes
<1>5. PICK x1 : x1 = x0 \o Of({"insert"}, T)
    OBVIOUS
<1>6. Mixed(x1, T) /\ Begins(x1)
    BY <1>1, <1>4, <1>5, MixedJoins DEF Late
<1>7. PICK x2 : x2 = x1 \o Edits(T)
    OBVIOUS
<1>8. Mixed(x2, T) /\ Begins(x2)
    BY <1>2, <1>6, <1>7, MixedJoins
<1>9. PICK x3 : x3 = x2 \o Of({"set"}, T)
    OBVIOUS
<1>10. Mixed(x3, T) /\ Begins(x3)
    BY <1>1, <1>8, <1>9, MixedJoins DEF Late
<1>11. PICK x4 : x4 = x3 \o Of({"unsend"}, T)
    OBVIOUS
<1>12. Mixed(x4, T) /\ Begins(x4)
    BY <1>1, <1>10, <1>11, MixedJoins DEF Late
<1>13. PICK x5 : x5 = x4 \o Of({"react"}, T)
    OBVIOUS
<1>14. Mixed(x5, T) /\ Begins(x5)
    BY <1>1, <1>12, <1>13, MixedJoins DEF Late
<1>15. PICK x6 : x6 = x5 \o Of({"unreact"}, T)
    OBVIOUS
<1>16. Mixed(x6, T) /\ Begins(x6)
    BY <1>1, <1>14, <1>15, MixedJoins DEF Late
<1>17. PICK x7 : x7 = x6 \o Of({"remove"}, T)
    OBVIOUS
<1>18. Mixed(x7, T) /\ Begins(x7)
    BY <1>1, <1>16, <1>17, MixedJoins DEF Late
<1> QED
    BY <1>3, <1>5, <1>7, <1>9, <1>11, <1>13, <1>15, <1>17, <1>18 DEF ParseTable

LEMMA ParsedRenders ==
    ASSUME NEW T, IsList(T)
    PROVE  Rendered(ParseTable(T), T) /\ \A k \in DOMAIN ParseTable(T) : ParseTable(T)[k].kind # "blur"
<1>1. PICK x : x = ParseTable(T)
    OBVIOUS
<1>2. ASSUME NEW kind \in Early \cup Late PROVE kind \notin {"delete", "exists", "resync", "blur"}
    BY <1>2 DEF Early, Late
<1>3. CASE Deletes(T)
    <2>1. Mixed(x, T) /\ Begins(x)
        BY <1>1, <1>3, ParsedDeletes
    <2>2. /\ IsList(x)
          /\ \A k \in DOMAIN x : \/ x[k].kind = "delete"
                                 \/ x[k].kind \in Early \cup Late /\ \E n \in DOMAIN T : x[k] = T[n]
        BY <2>1 DEF Mixed
    <2>3. OfTable(x, T)
        BY <2>2 DEF OfTable
    <2>4. \A k \in DOMAIN x : x[k].kind \notin {"exists", "resync", "blur"}
        BY <1>2, <2>2
    <2>5. Closing(x)
        BY <2>1, <2>4 DEF Closing, Begins
    <2> QED
        BY <1>1, <1>3, <2>2, <2>3, <2>4, <2>5 DEF Rendered
<1>4. CASE ~ Deletes(T) /\ Threads(T) # {}
    <2>1. PICK n \in Threads(T) : Opening(T) = <<Merged(T, T[n])>> /\ \A m \in Threads(T) : m <= n
        BY <1>4, OpeningMerges
    <2>2. PICK e : e = Merged(T, T[n])
        OBVIOUS
    <2>3. e.kind = "resync"
        BY <2>2 DEF Merged
    <2>4. PICK s : s = <<e>>
        OBVIOUS
    <2>5. IsList(s) /\ DOMAIN s = 1 .. 1 /\ s[1] = e
        BY <2>4, OneList
    <2>6. Phase("resync") = 2
        BY DEF Phase
    <2>7. Stacked(s, s, T, {}, 5, 5)
        BY <2>3, <2>5, <2>6 DEF Stacked
    <2>8. Stacked(x, s, T, {} \cup LateShown(T), 5, 12)
        BY <1>1, <2>1, <2>2, <2>4, <2>7, LateStack DEF ParseTable
    <2>9. /\ IsList(x) /\ 1 \in DOMAIN x /\ x[1] = e
          /\ \A k \in DOMAIN x : k # 1 => \E m \in DOMAIN T :
                  x[k] = T[m] /\ T[m].kind \in Early \cup Late /\ Phase(T[m].kind) > 5
          /\ \A m \in LateShown(T) : m \in DOMAIN T /\ \E k \in DOMAIN x : Stands(x, T, m, k)
        BY <2>5, <2>8 DEF Stacked
    <2>10. \A kind \in Early : ~ Phase(kind) > 5
        BY DEF Early, Phase
    <2>11. \A k \in DOMAIN x : k # 1 => x[k].kind \in Late /\ \E m \in DOMAIN T : x[k] = T[m]
        BY <2>9, <2>10
    <2>12. OfTable(x, T)
        BY <2>3, <2>9, <2>11 DEF OfTable
    <2>13. Merging1(x, T)
        BY <2>1, <2>2, <2>9, <2>11 DEF Merging1
    <2>14. \A k \in DOMAIN x : x[k].kind # "delete" /\ x[k].kind # "blur"
        BY <1>2, <2>3, <2>9, <2>11
    <2> QED
        BY <1>1, <1>4, <2>9, <2>12, <2>13, <2>14 DEF Rendered
<1>5. CASE ~ Deletes(T) /\ Threads(T) = {}
    <2>1. PICK c : c = Check(T)
        OBVIOUS
    <2>2. Stacked(Opening(T), c, T, Rows(T, Early), 2, 5)
        BY <1>5, <2>1, OpeningStack
    <2>3. Stacked(x, c, T, Rows(T, Early) \cup LateShown(T), 2, 12)
        BY <1>1, <2>2, LateStack DEF ParseTable
    <2>4. /\ IsList(c) /\ \A k \in DOMAIN c : c[k].kind = "exists"
          /\ Rows(T, {"exists"}) # {} => 1 \in DOMAIN c
        BY <2>1, CheckStack
    <2>5. /\ IsList(x)
          /\ \A k \in DOMAIN c : k \in DOMAIN x /\ x[k] = c[k]
          /\ \A k \in DOMAIN x : k \notin DOMAIN c => \E m \in DOMAIN T : x[k] = T[m] /\ T[m].kind \in Early \cup Late
          /\ \A m \in Rows(T, Early) \cup LateShown(T) : m \in DOMAIN T /\ \E k \in DOMAIN x : Stands(x, T, m, k)
        BY <2>3 DEF Stacked
    <2>6. ASSUME NEW k \in DOMAIN x
          PROVE  x[k].kind = "exists" \/ (x[k].kind \in Early \cup Late /\ \E m \in DOMAIN T : x[k] = T[m])
        BY <2>4, <2>5
    <2>7. OfTable(x, T)
        BY <2>6 DEF OfTable
    <2>8. \A k \in DOMAIN x : x[k].kind \notin {"delete", "resync", "blur"}
        BY <1>2, <2>6
    <2>9. Listing(x, T)
        BY <2>4, <2>5, <2>8 DEF Listing
    <2> QED
        BY <1>1, <1>5, <2>5, <2>7, <2>8, <2>9 DEF Rendered
<1> QED
    BY <1>1, <1>3, <1>4, <1>5

-----------------------------------------------------------------------------
(* The blur that follows the events of a table.                              *)

Veiled(x, a) == \E k \in DOMAIN x : k = Len(x) /\ x[k].kind = "blur" /\ a \in x[k].value
OnlyBlurs(x) == \A k \in DOMAIN x : x[k].kind = "blur"

LEMMA BlurIs ==
    ASSUME NEW W
    PROVE  IsList(Blur(W)) /\ OnlyBlurs(Blur(W)) /\ \A a \in W : Veiled(Blur(W), a)
<1>1. CASE W = {}
    <2>1. Blur(W) = << >>
        BY <1>1 DEF Blur
    <2> QED
        BY <1>1, <2>1, NoList DEF OnlyBlurs
<1>2. CASE W # {}
    <2>1. PICK e : e = NewRow("blur", Self, W)
        OBVIOUS
    <2>2. e.kind = "blur" /\ e.value = W
        BY <2>1 DEF NewRow
    <2>3. PICK s : s = <<e>>
        OBVIOUS
    <2>4. Blur(W) = s
        BY <1>2, <2>1, <2>3 DEF Blur
    <2>5. IsList(s) /\ DOMAIN s = 1 .. 1 /\ s[1] = e
        BY <2>3, OneList
    <2>6. Len(s) = 1
        BY <2>3
    <2> QED
        BY <2>2, <2>4, <2>5, <2>6 DEF OnlyBlurs, Veiled
<1> QED
    BY <1>1, <1>2

LEMMA StandsStill ==
    ASSUME NEW T, NEW n \in DOMAIN T, T[n].kind \in Early \cup Late, NEW x, IsList(x), NEW b, IsList(b), OnlyBlurs(b),
           NEW u, Abuts(u, x, b), NEW k \in DOMAIN x, Stands(x, T, n, k)
    PROVE  k \in DOMAIN u /\ Stands(u, T, n, k)
<1>1. /\ \A i \in DOMAIN x : i \in DOMAIN u /\ u[i] = x[i]
      /\ \A i \in DOMAIN u : \/ i \in DOMAIN x
                             \/ i - Len(x) \in DOMAIN b /\ u[i] = b[i - Len(x)]
    BY JoinIs
<1>2. Phase("blur") = 13 /\ Phase(T[n].kind) \in 3 .. 12
    BY PhaseIs DEF Phase
<1>3. Phase("blur") > Phase(T[n].kind)
    BY <1>2
<1>4. ASSUME NEW j \in DOMAIN u, j > k
      PROVE  \/ Phase(u[j].kind) > Phase(T[n].kind)
             \/ \E m \in DOMAIN T : m > n /\ u[j] = T[m] /\ T[m].kind = T[n].kind
    <2>1. CASE j \in DOMAIN x
        BY <1>1, <1>4, <2>1 DEF Stands
    <2>2. CASE j \notin DOMAIN x
        <3>1. u[j].kind = "blur"
            BY <1>1, <2>2 DEF OnlyBlurs
        <3> QED
            BY <1>3, <3>1
    <2> QED
        BY <2>1, <2>2
<1> QED
    BY <1>1, <1>4 DEF Stands

LEMMA RenderedBlurs ==
    ASSUME NEW T, NEW x, Rendered(x, T), NEW b, IsList(b), OnlyBlurs(b), NEW u, Abuts(u, x, b)
    PROVE  Rendered(u, T) /\ \A a : Veiled(b, a) => Veiled(u, a)
<1>1. IsList(x)
    BY DEF Rendered
<1>2. /\ IsList(u) /\ Len(u) = Len(x) + Len(b)
      /\ \A i \in DOMAIN x : i \in DOMAIN u /\ u[i] = x[i]
      /\ \A i \in DOMAIN b : i + Len(x) \in DOMAIN u /\ u[i + Len(x)] = b[i]
      /\ \A i \in DOMAIN u : \/ i \in DOMAIN x
                             \/ /\ i - Len(x) \in DOMAIN b /\ i \in Nat /\ i > Len(x)
                                /\ u[i] = b[i - Len(x)]
      /\ Len(x) \in Nat /\ Len(b) \in Nat /\ DOMAIN b = 1 .. Len(b) /\ DOMAIN x = 1 .. Len(x)
    BY <1>1, JoinIs
<1>3. \A i \in DOMAIN u : (i \in DOMAIN x /\ u[i] = x[i]) \/ u[i].kind = "blur"
    BY <1>2 DEF OnlyBlurs
<1>4. OfTable(u, T)
    BY <1>3 DEF Rendered, OfTable
<1>5. Deletes(T) => Closing(u)
    <2>1. Closing(x) => Closing(u)
        BY <1>2, <1>3 DEF Closing
    <2> QED
        BY <2>1 DEF Rendered
<1>6. ~ Deletes(T) => \A k \in DOMAIN u : u[k].kind # "delete"
    BY <1>3 DEF Rendered
<1>7. ASSUME NEW n \in DOMAIN T, T[n].kind \in Early \cup Late, \E k \in DOMAIN x : Stands(x, T, n, k)
      PROVE  \E k \in DOMAIN u : Stands(u, T, n, k)
    BY <1>1, <1>7, StandsStill
<1>8. ASSUME ~ Deletes(T), NEW n \in LateShown(T) PROVE n \in DOMAIN T /\ \E k \in DOMAIN u : Stands(u, T, n, k)
    <2>1. n \in DOMAIN T /\ \E k \in DOMAIN x : Stands(x, T, n, k)
        BY <1>8 DEF Rendered
    <2>2. T[n].kind \in Early \cup Late
        BY DEF LateShown
    <2> QED
        BY <1>7, <2>1, <2>2
<1>9. Merging1(x, T) => Merging1(u, T)
    BY <1>2, <1>3 DEF Merging1
<1>10. Listing(x, T) => Listing(u, T)
    <2> SUFFICES ASSUME Listing(x, T) PROVE Listing(u, T)
        OBVIOUS
    <2>1. ASSUME NEW n \in Rows(T, Early) PROVE n \in DOMAIN T /\ \E k \in DOMAIN u : Stands(u, T, n, k)
        <3>1. n \in DOMAIN T /\ \E k \in DOMAIN x : Stands(x, T, n, k)
            BY DEF Listing
        <3>2. T[n].kind \in Early \cup Late
            BY DEF Rows
        <3> QED
            BY <1>7, <3>1, <3>2
    <2>2. \A k \in DOMAIN u : u[k].kind # "resync"
        BY <1>3 DEF Listing
    <2>3. Rows(T, {"exists"}) # {} => 1 \in DOMAIN u /\ u[1].kind = "exists"
        BY <1>2 DEF Listing
    <2> QED
        BY <2>1, <2>2, <2>3 DEF Listing
<1>11. Rendered(u, T)
    BY <1>2, <1>4, <1>5, <1>6, <1>8, <1>9, <1>10 DEF Rendered
<1>12. ASSUME NEW a, Veiled(b, a) PROVE Veiled(u, a)
    <2>1. PICK k \in DOMAIN b : k = Len(b) /\ b[k].kind = "blur" /\ a \in b[k].value
        BY <1>12 DEF Veiled
    <2>2. PICK j : j = k + Len(x)
        OBVIOUS
    <2>3. j \in DOMAIN u /\ u[j] = b[k] /\ j = Len(u)
        BY <1>2, <2>1, <2>2
    <2> QED
        BY <2>1, <2>3 DEF Veiled
<1> QED
    BY <1>11, <1>12

Spoken(T) == ParseTable(T) \o Blur(Conflicts(T))

LEMMA SpokenRenders ==
    ASSUME NEW T, IsList(T)
    PROVE  Rendered(Spoken(T), T) /\ \A a \in Conflicts(T) : Veiled(Spoken(T), a)
<1>1. PICK x : x = ParseTable(T)
    OBVIOUS
<1>2. PICK W : W = Conflicts(T)
    OBVIOUS
<1>3. PICK b : b = Blur(W)
    OBVIOUS
<1>4. PICK u : u = x \o b
    OBVIOUS
<1>5. IsList(b) /\ OnlyBlurs(b) /\ \A a \in W : Veiled(b, a)
    BY <1>3, BlurIs
<1>6. Rendered(x, T)
    BY <1>1, ParsedRenders
<1>7. Abuts(u, x, b)
    BY <1>4 DEF Abuts
<1>8. Rendered(u, T) /\ \A a \in W : Veiled(u, a)
    BY <1>5, <1>6, <1>7, RenderedBlurs
<1> QED
    BY <1>1, <1>2, <1>3, <1>4, <1>8 DEF Spoken

-----------------------------------------------------------------------------
(* A queue grows at its end: what was known of its events stays so, and what *)
(* else there is comes from the table.                                       *)

\* A queue with something behind it.
Grown(u, q, x) == /\ Len(q) \in Nat /\ Len(x) \in Nat /\ Len(u) = Len(q) + Len(x)
                  /\ DOMAIN q = 1 .. Len(q) /\ DOMAIN x = 1 .. Len(x) /\ DOMAIN u = 1 .. (Len(q) + Len(x))
                  /\ \A k \in 1 .. Len(q) : u[k] = q[k]
                  /\ \A k \in 1 .. Len(x) : u[k + Len(q)] = x[k]

LEMMA GrownIs ==
    ASSUME NEW q, IsList(q), NEW x, IsList(x), NEW u, Abuts(u, q, x)
    PROVE  Grown(u, q, x) /\ IsList(u)
BY JoinIs DEF Grown

LEMMA GrownAt ==
    ASSUME NEW u, NEW q, NEW x, Grown(u, q, x), NEW k \in DOMAIN u
    PROVE  \/ k \in DOMAIN q /\ k \in 1 .. Len(q) /\ u[k] = q[k]
           \/ \E j \in DOMAIN x : k = j + Len(q) /\ u[k] = x[j] /\ j \in 1 .. Len(x)
<1>1. /\ Len(q) \in Nat /\ Len(x) \in Nat /\ k \in 1 .. (Len(q) + Len(x))
      /\ DOMAIN q = 1 .. Len(q) /\ DOMAIN x = 1 .. Len(x)
      /\ \A i \in 1 .. Len(q) : u[i] = q[i]
      /\ \A i \in 1 .. Len(x) : u[i + Len(q)] = x[i]
    BY DEF Grown
<1>2. CASE k <= Len(q)
    BY <1>1, <1>2
<1>3. CASE k > Len(q)
    <2>1. PICK j : j = k - Len(q)
        OBVIOUS
    <2>2. j \in 1 .. Len(x) /\ k = j + Len(q)
        BY <1>1, <1>3, <2>1
    <2> QED
        BY <1>1, <2>2
<1> QED
    BY <1>1, <1>2, <1>3

LEMMA OldEvents ==
    ASSUME NEW u, NEW q, NEW x, Grown(u, q, x), NEW k \in 1 .. Len(q)
    PROVE  /\ k \in DOMAIN q /\ k \in DOMAIN u /\ u[k] = q[k]
           /\ k \in Leaving(u) <=> k \in Leaving(q)
           /\ k \in Opened(u) <=> k \in Opened(q)
           /\ \A a : k \in Veils(u, a) <=> k \in Veils(q, a)
           /\ \A kind, i : k \in Named(u, kind, i) <=> k \in Named(q, kind, i)
<1>1. k \in DOMAIN q /\ k \in DOMAIN u /\ u[k] = q[k]
    BY DEF Grown
<1> QED
    BY <1>1 DEF Leaving, Opened, Veils, Named

LEMMA NewEvents ==
    ASSUME NEW u, NEW q, NEW x, Grown(u, q, x), NEW j \in 1 .. Len(x)
    PROVE  /\ j \in DOMAIN x /\ j + Len(q) \in DOMAIN u /\ u[j + Len(q)] = x[j]
           /\ j + Len(q) \in Leaving(u) <=> j \in Leaving(x)
           /\ j + Len(q) \in Opened(u) <=> j \in Opened(x)
           /\ \A a : j + Len(q) \in Veils(u, a) <=> j \in Veils(x, a)
           /\ \A kind, i : j + Len(q) \in Named(u, kind, i) <=> j \in Named(x, kind, i)
<1>1. j \in DOMAIN x /\ j + Len(q) \in DOMAIN u /\ u[j + Len(q)] = x[j]
    BY DEF Grown
<1> QED
    BY <1>1 DEF Leaving, Opened, Veils, Named

\* What is known along the queue stays so.
LEMMA RoomlessKeeps ==
    ASSUME NEW u, NEW q, NEW x, Grown(u, q, x), NEW p, NEW n \in 0 .. Len(q)
    PROVE  Roomless(p, u, n) <=> Roomless(p, q, n)
<1>1. Len(q) \in Nat /\ n \in Nat /\ \A k \in 1 .. n : k \in 1 .. Len(q)
    BY DEF Grown
<1>2. \A k \in 1 .. n : (k \in Leaving(u) <=> k \in Leaving(q)) /\ (k \in Opened(u) <=> k \in Opened(q))
    BY <1>1, OldEvents
<1>3. Roomless(p, u, n) => Roomless(p, q, n)
    BY <1>1, <1>2, Alike DEF Roomless
<1>4. Roomless(p, q, n) => Roomless(p, u, n)
    BY <1>1, <1>2, Alike DEF Roomless
<1> QED
    BY <1>3, <1>4

LEMMA HousedKeeps ==
    ASSUME NEW u, NEW q, NEW x, Grown(u, q, x), NEW p, NEW b, NEW a, NEW n \in 0 .. Len(q), Housed(p, b, q, a, n)
    PROVE  Housed(p, b, u, a, n)
<1>1. Len(q) \in Nat /\ n \in Nat /\ \A k \in 1 .. n : k \in 1 .. Len(q)
    BY DEF Grown
<1>2. \A k \in 1 .. n : /\ k \in Opened(q) \cup Veils(q, a) => k \in Opened(u) \cup Veils(u, a)
                        /\ k \in Leaving(u) => k \in Leaving(q)
    BY <1>1, OldEvents
<1> QED
    BY <1>1, <1>2, Alike DEF Housed

NoRoomBy(p, q, a) == Opened(q) \cup {k \in DOMAIN q : Writes(q[k], a) /\ ~ Roomless(p, q, k - 1)}

LEMMA NoRoomWrites ==
    ASSUME NEW u, NEW q, NEW x, Grown(u, q, x), NEW p, NEW a, NEW k \in 1 .. Len(q)
    PROVE  k \in NoRoomBy(p, u, a) => k \in NoRoomBy(p, q, a)
<1>1. PICK m : m = k - 1
    OBVIOUS
<1>2. m \in 0 .. Len(q)
    BY <1>1 DEF Grown
<1>3. Roomless(p, u, m) <=> Roomless(p, q, m)
    BY <1>2, RoomlessKeeps
<1> QED
    BY <1>1, <1>3, OldEvents DEF NoRoomBy

LEMMA NoRoomKeeps ==
    ASSUME NEW u, NEW q, NEW x, Grown(u, q, x), NEW p, NEW b, NEW a, NEW n \in 0 .. Len(q), NoRoom(p, b, q, a, n)
    PROVE  NoRoom(p, b, u, a, n)
<1>1. Len(q) \in Nat /\ n \in Nat /\ \A k \in 1 .. n : k \in 1 .. Len(q)
    BY DEF Grown
<1>2. \A k \in 1 .. n : /\ k \in Leaving(q) \cup Veils(q, a) => k \in Leaving(u) \cup Veils(u, a)
                        /\ k \in NoRoomBy(p, u, a) => k \in NoRoomBy(p, q, a)
    BY <1>1, OldEvents, NoRoomWrites
<1>3. Lasts(n, ~ p.exists \/ a \in b, Leaving(q) \cup Veils(q, a), NoRoomBy(p, q, a))
    BY DEF NoRoom, NoRoomBy
<1>4. Lasts(n, ~ p.exists \/ a \in b, Leaving(u) \cup Veils(u, a), NoRoomBy(p, u, a))
    BY <1>1, <1>2, <1>3, Alike
<1> QED
    BY <1>4 DEF NoRoom, NoRoomBy

LEMMA ComesKeep ==
    ASSUME NEW u, NEW q, NEW x, Grown(u, q, x), NEW p, NEW b, NEW i, NEW a, NEW k \in 1 .. Len(q),
           k \in Comes(p, b, q, i, a)
    PROVE  k \in Comes(p, b, u, i, a)
<1>1. PICK m : m = k - 1
    OBVIOUS
<1>2. m \in 0 .. Len(q)
    BY <1>1 DEF Grown
<1>3. Housed(p, b, q, a, m) => Housed(p, b, u, a, m)
    BY <1>2, HousedKeeps
<1> QED
    BY <1>1, <1>3, OldEvents DEF Comes

LEMMA PresentKeeps ==
    ASSUME NEW u, NEW q, NEW x, Grown(u, q, x), NEW p, NEW b, NEW i, NEW a, NEW n \in 0 .. Len(q),
           Present(p, b, q, i, a, n)
    PROVE  Present(p, b, u, i, a, n)
<1>1. Len(q) \in Nat /\ n \in Nat /\ \A k \in 1 .. n : k \in 1 .. Len(q)
    BY DEF Grown
<1>2. \A k \in 1 .. n : /\ k \in Comes(p, b, q, i, a) => k \in Comes(p, b, u, i, a)
                        /\ k \in Losses(u, i) => k \in Losses(q, i)
    BY <1>1, OldEvents, ComesKeep DEF Losses
<1> QED
    BY <1>1, <1>2, Alike DEF Present

-----------------------------------------------------------------------------
(* What a table with a deletion, or a blur, leaves of the promises.          *)

LEMMA HousedOn ==
    ASSUME NEW u, NEW q, NEW x, Grown(u, q, x), NEW p, NEW b, NEW a, Housed(p, b, q, a, Len(q)),
           \A k \in DOMAIN x : x[k].kind # "delete", NEW j \in 0 .. Len(x)
    PROVE  Housed(p, b, u, a, Len(q) + j)
<1>1. Len(q) \in Nat /\ Len(x) \in Nat /\ j \in Nat /\ Len(q) \in 0 .. Len(q)
    BY DEF Grown
<1>2. Lasts(Len(q), p.exists \/ a \in b, Opened(u) \cup Veils(u, a), Leaving(u))
    BY <1>1, HousedKeeps DEF Housed
<1>3. ASSUME NEW k \in (Len(q) + 1) .. (Len(q) + j) PROVE k \notin Leaving(u)
    <2>1. PICK i : i = k - Len(q)
        OBVIOUS
    <2>2. i \in 1 .. Len(x) /\ k = i + Len(q)
        BY <1>1, <2>1
    <2>3. i \notin Leaving(x)
        BY DEF Leaving
    <2> QED
        BY <2>2, <2>3, NewEvents
<1>4. Lasts(Len(q) + j, p.exists \/ a \in b, Opened(u) \cup Veils(u, a), Leaving(u))
    BY <1>1, <1>2, <1>3, Prolonged
<1> QED
    BY <1>4 DEF Housed

LEMMA HousedAfter ==
    ASSUME NEW u, NEW q, NEW x, Grown(u, q, x), NEW p, NEW b, NEW a, 1 \in Opened(x),
           \A k \in DOMAIN x : x[k].kind # "delete", NEW j \in 1 .. Len(x)
    PROVE  Housed(p, b, u, a, Len(q) + j)
<1>1. Len(q) \in Nat /\ Len(x) \in Nat /\ j \in Nat /\ 1 \in 1 .. Len(x)
    BY DEF Grown
<1>2. PICK n : n = 1 + Len(q)
    OBVIOUS
<1>3. n \in 1 .. (Len(q) + j) /\ n \in Opened(u) \cup Veils(u, a) /\ Len(q) + j \in Nat
    BY <1>1, <1>2, NewEvents
<1>4. ASSUME NEW k \in (n + 1) .. (Len(q) + j) PROVE k \notin Leaving(u)
    <2>1. PICK i : i = k - Len(q)
        OBVIOUS
    <2>2. i \in 1 .. Len(x) /\ k = i + Len(q)
        BY <1>1, <1>2, <2>1
    <2>3. i \notin Leaving(x)
        BY DEF Leaving
    <2> QED
        BY <2>2, <2>3, NewEvents
<1>5. Lasts(Len(q) + j, p.exists \/ a \in b, Opened(u) \cup Veils(u, a), Leaving(u))
    BY <1>3, <1>4, Renewed
<1> QED
    BY <1>5 DEF Housed

LEMMA ClosingIs ==
    ASSUME NEW u, NEW q, NEW x, Grown(u, q, x), Closing(x)
    PROVE  /\ 1 + Len(q) \in Leaving(u) /\ 1 + Len(q) \in 1 .. Len(u)
           /\ \A k \in (1 + Len(q)) .. Len(u) : k \notin Opened(u)
<1>1. Len(q) \in Nat /\ Len(x) \in Nat /\ Len(u) = Len(q) + Len(x) /\ 1 \in 1 .. Len(x) /\ 1 \in Leaving(x)
    BY DEF Grown, Closing, Leaving
<1>2. 1 + Len(q) \in Leaving(u)
    BY <1>1, NewEvents
<1>3. ASSUME NEW k \in (1 + Len(q)) .. Len(u) PROVE k \notin Opened(u)
    <2>1. PICK i : i = k - Len(q)
        OBVIOUS
    <2>2. i \in 1 .. Len(x) /\ k = i + Len(q)
        BY <1>1, <2>1
    <2>3. i \notin Opened(x)
        BY DEF Opened, Closing
    <2> QED
        BY <2>2, <2>3, NewEvents
<1> QED
    BY <1>1, <1>2, <1>3

LEMMA RoomlessAfter ==
    ASSUME NEW u, NEW q, NEW x, Grown(u, q, x), NEW p, Closing(x), NEW n \in (1 + Len(q)) .. Len(u)
    PROVE  Roomless(p, u, n)
<1>1. Len(q) \in Nat /\ n \in Nat /\ Len(u) \in Nat
    BY DEF Grown
<1>2. PICK k : k = 1 + Len(q)
    OBVIOUS
<1>3. k \in 1 .. n /\ k \in Leaving(u)
    BY <1>1, <1>2, ClosingIs
<1>4. \A j \in (k + 1) .. n : j \notin Opened(u)
    BY <1>1, <1>2, ClosingIs
<1> QED
    BY <1>1, <1>3, <1>4, Renewed DEF Roomless

LEMMA NoRoomClosed ==
    ASSUME NEW u, NEW q, NEW x, Grown(u, q, x), NEW p, NEW b, NEW a, Closing(x)
    PROVE  NoRoom(p, b, u, a, Len(u))
<1>1. Len(q) \in Nat /\ Len(u) \in Nat
    BY DEF Grown
<1>2. PICK k : k = 1 + Len(q)
    OBVIOUS
<1>3. k \in 1 .. Len(u) /\ k \in Leaving(u) \cup Veils(u, a)
    BY <1>2, ClosingIs
<1>4. ASSUME NEW j \in (k + 1) .. Len(u) PROVE j \notin NoRoomBy(p, u, a)
    <2>1. PICK n : n = j - 1
        OBVIOUS
    <2>2. n \in (1 + Len(q)) .. Len(u) /\ j \in (1 + Len(q)) .. Len(u)
        BY <1>1, <1>2, <2>1
    <2>3. Roomless(p, u, n)
        BY <2>2, RoomlessAfter
    <2>4. j \notin Opened(u)
        BY <2>2, ClosingIs
    <2> QED
        BY <2>1, <2>3, <2>4 DEF NoRoomBy
<1>5. Lasts(Len(u), ~ p.exists \/ a \in b, Leaving(u) \cup Veils(u, a), NoRoomBy(p, u, a))
    BY <1>1, <1>3, <1>4, Renewed
<1> QED
    BY <1>5 DEF NoRoom, NoRoomBy

LEMMA GoneClosed ==
    ASSUME NEW u, NEW q, NEW x, Grown(u, q, x), NEW p, NEW b, NEW i, NEW a, Closing(x)
    PROVE  GoneHolds(p, b, u, i, a)
<1>1. Len(q) \in Nat /\ Len(u) \in Nat
    BY DEF Grown
<1>2. PICK k : k = 1 + Len(q)
    OBVIOUS
<1>3. k \in 1 .. Len(u) /\ k \in Leaving(u) \cup Named(u, "unsend", i) \cup Veils(u, a)
    BY <1>2, ClosingIs
<1>4. ASSUME NEW j \in (k + 1) .. Len(u) PROVE j \notin Returns(p, u, i)
    <2>1. PICK n : n = j - 1
        OBVIOUS
    <2>2. n \in (1 + Len(q)) .. Len(u) /\ j \in (1 + Len(q)) .. Len(u)
        BY <1>1, <1>2, <2>1
    <2>3. Roomless(p, u, n)
        BY <2>2, RoomlessAfter
    <2>4. j \notin Opened(u)
        BY <2>2, ClosingIs
    <2> QED
        BY <2>1, <2>3, <2>4 DEF Returns, Opened
<1> QED
    BY <1>1, <1>3, <1>4, Renewed DEF GoneHolds

\* A room that is not there has what a new one has.
LEMMA NoRoomDefault ==
    ASSUME NEW q, Len(q) \in Nat, NEW p, NEW b, NEW s \in Slots, ~ p.exists => p = Unborn, NoRoom(p, b, q, s, Len(q))
    PROVE  SlotHolds(p, b, q, s, Default(s))
<1>1. PICK v : v = Default(s)
    OBVIOUS
<1>2. ~ p.exists \/ s \in b => s \in b \/ Value(p, s) = v
    BY <1>1, UnbornIs
<1>3. \A k \in Leaving(q) \cup Veils(q, s) : k \in Rights(p, b, q, s, v)
    BY <1>1 DEF Rights
<1>4. ASSUME NEW k \in Wrongs(p, q, s, v) PROVE k \in NoRoomBy(p, q, s)
    BY <1>1 DEF Wrongs, NoRoomBy, Opened, Decides
<1>5. Lasts(Len(q), ~ p.exists \/ s \in b, Leaving(q) \cup Veils(q, s), NoRoomBy(p, q, s))
    BY DEF NoRoom, NoRoomBy
<1>6. Lasts(Len(q), s \in b \/ Value(p, s) = v, Rights(p, b, q, s, v), Wrongs(p, q, s, v))
    <2> DEFINE Start == ~ p.exists \/ s \in b
               Then == s \in b \/ Value(p, s) = v
               W == Leaving(q) \cup Veils(q, s)
    <2>1. Lasts(Len(q), Start, W, NoRoomBy(p, q, s))
        BY <1>5
    <2>2. Start => Then
        BY <1>2
    <2>3. \A k \in 1 .. Len(q) : /\ k \in W => k \in Rights(p, b, q, s, v)
                                 /\ k \in Wrongs(p, q, s, v) => k \in NoRoomBy(p, q, s)
        BY <1>3, <1>4
    <2> HIDE DEF Start, Then, W
    <2>4. Lasts(Len(q), Then, Rights(p, b, q, s, v), Wrongs(p, q, s, v))
        BY <2>1, <2>2, <2>3, Alike
    <2> QED
        BY <2>4 DEF Then
<1> QED
    BY <1>1, <1>6 DEF SlotHolds

\* What is veiled may be anything.
LEMMA VeiledHolds ==
    ASSUME NEW u, NEW q, NEW x, Grown(u, q, x), NEW p, NEW b, NEW a, Veiled(x, a)
    PROVE  /\ Housed(p, b, u, a, Len(u)) /\ NoRoom(p, b, u, a, Len(u))
           /\ \A v : SlotHolds(p, b, u, a, v)
           /\ \A i : GoneHolds(p, b, u, i, a) /\ Present(p, b, u, i, a, Len(u))
           /\ \A i : a = Text(i) => EditHolds(p, b, u, i)
           /\ \A i : a = Heart(i) => HeartOn(p, b, u, i) /\ HeartOff(p, b, u, i)
<1>1. PICK j \in DOMAIN x : j = Len(x) /\ x[j].kind = "blur" /\ a \in x[j].value
    BY DEF Veiled
<1>2. PICK k : k = j + Len(q)
    OBVIOUS
<1>3. j \in 1 .. Len(x) /\ k \in 1 .. Len(u) /\ k = Len(u) /\ Len(u) \in Nat /\ j \in Veils(x, a)
    BY <1>1, <1>2 DEF Grown, Veils
<1>4. k \in Veils(u, a)
    BY <1>2, <1>3, NewEvents
<1>5. ASSUME NEW start, NEW W, NEW B, k \in W PROVE Lasts(Len(u), start, W, B)
    <2>1. \A i \in (k + 1) .. Len(u) : i \notin B
        BY <1>3
    <2> QED
        BY <1>3, <1>5, <2>1, Renewed
<1>6. Housed(p, b, u, a, Len(u)) /\ NoRoom(p, b, u, a, Len(u))
    BY <1>4, <1>5 DEF Housed, NoRoom
<1>7. ASSUME NEW v PROVE SlotHolds(p, b, u, a, v)
    <2>1. k \in Rights(p, b, u, a, v)
        BY <1>4 DEF Rights
    <2> QED
        BY <1>5, <2>1 DEF SlotHolds
<1>8. ASSUME NEW i PROVE GoneHolds(p, b, u, i, a) /\ Present(p, b, u, i, a, Len(u))
    BY <1>4, <1>5 DEF GoneHolds, Present, Comes
<1>9. ASSUME NEW i, a = Text(i) PROVE EditHolds(p, b, u, i)
    BY <1>4, <1>5, <1>9 DEF EditHolds
<1>10. ASSUME NEW i, a = Heart(i) PROVE HeartOn(p, b, u, i) /\ HeartOff(p, b, u, i)
    BY <1>4, <1>5, <1>10 DEF HeartOn, HeartOff
<1> QED
    BY <1>6, <1>7, <1>8, <1>9, <1>10

-----------------------------------------------------------------------------
(* The rows a server makes (TableShape), and what a snapshot merges of them. *)

TableShape(T) ==
    /\ IsList(T)
    /\ \A n \in DOMAIN T :
         /\ T[n].kind \in Early \cup Late \cup {"exists", "thread", "deletethread"} /\ EventShape(T[n])
         /\ T[n].kind = "merging" => T[n].of \in Merging
         /\ T[n].kind = "set" => T[n].of \notin Merging
         /\ T[n].kind = "thread" => T[n].value.field \in [Fields -> {0, 1}] /\ T[n].value.who \subseteq Members

LEMMA OfSet ==
    ASSUME NEW T, IsList(T), NEW kind
    PROVE  \A r : r \in ToSet(Of({kind}, T)) <=> \E n \in DOMAIN T : T[n].kind = kind /\ r = T[n]
<1>1. PICK c : c = Of({kind}, T)
    OBVIOUS
<1>2. PICK more : more = Typed(T, kind)
    OBVIOUS
<1>3. Piece(c, T, kind, more)
    BY <1>1, <1>2, OfPiece
<1>4. /\ \A i \in DOMAIN c : \E m \in DOMAIN T : c[i] = T[m] /\ T[m].kind = kind
      /\ \A n \in more : \E i \in DOMAIN c : c[i] = T[n]
    BY <1>3 DEF Piece
<1>5. \A n \in DOMAIN T : T[n].kind = kind => n \in more
    BY <1>2 DEF Typed
<1>6. ToSet(c) = {c[i] : i \in DOMAIN c}
    BY DEF ToSet
<1> QED
    BY <1>1, <1>4, <1>5, <1>6

Adds(T) == {T[n].of : n \in Rows(T, {"add"})}

LEMMA AddsAre ==
    ASSUME NEW T, IsList(T)
    PROVE  Listed(T) = Adds(T)
<1>1. PICK S : S = ToSet(Of({"add"}, T))
    OBVIOUS
<1>2. \A r : r \in S <=> \E n \in DOMAIN T : T[n].kind = "add" /\ r = T[n]
    BY <1>1, OfSet
<1>3. {r.of : r \in S} = Adds(T)
    BY <1>2 DEF Adds, Rows
<1> QED
    BY <1>1, <1>3 DEF Listed

LEMMA LastOf ==
    ASSUME NEW T, IsList(T), NEW n \in Threads(T), \A m \in Threads(T) : m <= n
    PROVE  Of({"thread"}, T) # << >> /\ Last(Of({"thread"}, T)) = T[n]
<1>1. PICK those : those = {k \in DOMAIN T : T[k].kind \in {"thread"}}
    OBVIOUS
<1>2. those = Threads(T)
    BY <1>1 DEF Threads, Rows
<1>3. Of({"thread"}, T) = Chosen(T, those)
    BY <1>1 DEF Of
<1>4. n \in DOMAIN T /\ n \in those /\ those \subseteq DOMAIN T
    BY <1>1, <1>2
<1>5. Chosen(T, those) # << >>
    BY <1>4, ChosenStands
<1>6. PICK l \in DOMAIN T : l \in those /\ Last(Chosen(T, those)) = T[l] /\ \A m \in DOMAIN T : m \in those => m <= l
    BY <1>5, LastChosen
<1>7. l <= n /\ n <= l
    BY <1>2, <1>4, <1>6
<1>8. DOMAIN T \subseteq Nat
    BY ListIs
<1>9. l = n
    BY <1>4, <1>6, <1>7, <1>8
<1> QED
    BY <1>3, <1>5, <1>6, <1>9

LEMMA ConflictsAre ==
    ASSUME NEW T, IsList(T)
    PROVE  /\ \A m, n \in DOMAIN T : m < n /\ T[m].of = T[n].of =>
                /\ T[m].kind = "remove" /\ T[n].kind = "add" => <<"member", T[n].of>> \in Conflicts(T)
                /\ T[m].kind = "unreact" /\ T[n].kind = "react" => Heart(T[n].of) \in Conflicts(T)
           /\ \A n \in DOMAIN T : T[n].kind = "edit" /\ ~ Known(T[n]) => Text(T[n].of) \in Conflicts(T)
           /\ \A n \in Threads(T) : (\A m \in Threads(T) : m <= n) /\ Adds(T) # T[n].value.who /\ Whole(T, T[n])
                => {"member"} \X Members \subseteq Conflicts(T)
           /\ \A k \in DOMAIN T : Deleting(T[k]) /\ k # Len(T) => All \subseteq Conflicts(T)
<1>1. DOMAIN T = 1 .. Len(T) /\ Len(T) \in Nat
    BY ListIs
<1>2. ASSUME NEW m \in DOMAIN T, NEW n \in DOMAIN T, m < n, T[m].of = T[n].of, NEW first, NEW second,
             T[m].kind = first, T[n].kind = second
      PROVE  T[n].of \in Reversed(T, first, second)
    <2>1. m \in 1 .. (n - 1)
        BY <1>1, <1>2
    <2> QED
        BY <1>2, <2>1 DEF Reversed
<1>3. ASSUME NEW m \in DOMAIN T, NEW n \in DOMAIN T, m < n, T[m].of = T[n].of, T[m].kind = "remove", T[n].kind = "add"
      PROVE  <<"member", T[n].of>> \in Conflicts(T)
    <2>1. T[n].of \in Reversed(T, "remove", "add")
        BY <1>2, <1>3
    <2> QED
        BY <2>1 DEF Conflicts
<1>4. ASSUME NEW m \in DOMAIN T, NEW n \in DOMAIN T, m < n, T[m].of = T[n].of, T[m].kind = "unreact", T[n].kind = "react"
      PROVE  Heart(T[n].of) \in Conflicts(T)
    <2>1. T[n].of \in Reversed(T, "unreact", "react")
        BY <1>2, <1>4
    <2> QED
        BY <2>1 DEF Conflicts, Heart
<1>5. ASSUME NEW n \in DOMAIN T, T[n].kind = "edit", ~ Known(T[n]) PROVE Text(T[n].of) \in Conflicts(T)
    <2>1. PICK r : r = T[n]
        OBVIOUS
    <2>2. r \in ToSet(Of({"edit"}, T)) /\ ~ Known(r)
        BY <1>5, <2>1, OfSet
    <2>3. <<"text", r.of>> \in Conflicts(T)
        BY <2>2 DEF Conflicts
    <2> QED
        BY <2>1, <2>3 DEF Text
<1>6. ASSUME NEW n \in Threads(T), \A m \in Threads(T) : m <= n, Adds(T) # T[n].value.who, Whole(T, T[n])
      PROVE  {"member"} \X Members \subseteq Conflicts(T)
    <2>1. Of({"thread"}, T) # << >> /\ Last(Of({"thread"}, T)) = T[n]
        BY <1>6, LastOf
    <2>2. Miscounted(T)
        BY <1>6, <2>1, AddsAre DEF Miscounted
    <2> QED
        BY <2>2 DEF Conflicts
<1>7. ASSUME NEW k \in DOMAIN T, Deleting(T[k]), k # Len(T) PROVE All \subseteq Conflicts(T)
    <2>1. k \in 1 .. (Len(T) - 1)
        BY <1>1, <1>7
    <2>2. PICK gone : gone = \E j \in 1 .. (Len(T) - 1) : Deleting(T[j])
        OBVIOUS
    <2> QED
        BY <1>7, <2>1 DEF Conflicts
<1> QED
    BY <1>3, <1>4, <1>5, <1>6, <1>7

\* What becomes of a snapshot.
MergedAs(e, T, n) ==
    /\ e.kind = "resync" /\ e.of = Adds(T) /\ e.full = Whole(T, T[n])
    /\ DOMAIN e.field = Fields /\ e.field = [f \in Fields |-> e.field[f]]
    /\ \A f \in Fields :
         \/ /\ \A m \in DOMAIN T : ~ (T[m].kind = "merging" /\ T[m].of = f)
            /\ e.field[f] = T[n].value.field[f] /\ (f \in e.certain <=> T[n].value.field[f] = 1)
         \/ /\ f \in e.certain
            /\ \E m \in DOMAIN T : /\ T[m].kind = "merging" /\ T[m].of = f /\ e.field[f] = T[m].value
                                   /\ \A l \in DOMAIN T : T[l].kind = "merging" /\ T[l].of = f => l <= m
    /\ e.fill = << >> \/ \E m \in DOMAIN T : T[m].kind = "upsert" /\ e.fill = <<T[m]>>

LEMMA MergedIs ==
    ASSUME NEW T, IsList(T), NEW n \in DOMAIN T
    PROVE  MergedAs(Merged(T, T[n]), T, n)
<1>1. PICK e : e = Merged(T, T[n])
    OBVIOUS
<1>2. e.kind = "resync" /\ e.of = Adds(T) /\ e.full = Whole(T, T[n])
    BY <1>1, AddsAre DEF Merged
<1>3. PICK g : g = [f \in Fields |-> IF Chosen(T, {k \in DOMAIN T : T[k].kind = "merging" /\ T[k].of = f}) = << >>
                                     THEN T[n].value.field[f]
                                     ELSE Last(Chosen(T, {k \in DOMAIN T : T[k].kind = "merging" /\ T[k].of = f})).value]
    OBVIOUS
<1>4. e.field = g
    BY <1>1, <1>3 DEF Merged
<1>5. \A f : f \in e.certain <=> \/ f \in Fields /\ T[n].value.field[f] = 1
                                 \/ \E m \in DOMAIN T : T[m].kind = "merging" /\ T[m].of = f
    <2>1. PICK S : S = {r.of : r \in ToSet(Of({"merging"}, T))}
        OBVIOUS
    <2>2. \A r : r \in ToSet(Of({"merging"}, T)) <=> \E m \in DOMAIN T : T[m].kind = "merging" /\ r = T[m]
        BY OfSet
    <2>3. \A f : f \in S <=> \E m \in DOMAIN T : T[m].kind = "merging" /\ T[m].of = f
        BY <2>1, <2>2
    <2>4. e.certain = {f \in Fields : T[n].value.field[f] = 1} \cup {r.of : r \in ToSet(Of({"merging"}, T))}
        BY <1>1 DEF Merged
    <2>5. e.certain = {f \in Fields : T[n].value.field[f] = 1} \cup S
        BY <2>1, <2>4
    <2> QED
        BY <2>3, <2>5
<1>6. ASSUME NEW f \in Fields
      PROVE  \/ /\ \A m \in DOMAIN T : ~ (T[m].kind = "merging" /\ T[m].of = f)
                /\ e.field[f] = T[n].value.field[f] /\ (f \in e.certain <=> T[n].value.field[f] = 1)
             \/ /\ f \in e.certain
                /\ \E m \in DOMAIN T : /\ T[m].kind = "merging" /\ T[m].of = f /\ e.field[f] = T[m].value
                                       /\ \A l \in DOMAIN T : T[l].kind = "merging" /\ T[l].of = f => l <= m
    <2>1. PICK those : those = {k \in DOMAIN T : T[k].kind = "merging" /\ T[k].of = f}
        OBVIOUS
    <2>2. PICK mine : mine = Chosen(T, those)
        OBVIOUS
    <2>3. e.field[f] = IF mine = << >> THEN T[n].value.field[f] ELSE Last(mine).value
        BY <1>3, <1>4, <2>1, <2>2
    <2>4. mine = << >> <=> \A m \in DOMAIN T : m \notin those
        BY <2>2, ChosenStands
    <2>5. CASE mine = << >>
        <3>1. \A m \in DOMAIN T : ~ (T[m].kind = "merging" /\ T[m].of = f)
            BY <2>1, <2>4, <2>5
        <3>2. e.field[f] = T[n].value.field[f]
            BY <2>3, <2>5
        <3>3. f \in e.certain <=> T[n].value.field[f] = 1
            BY <1>5, <3>1
        <3> QED
            BY <3>1, <3>2, <3>3
    <2>6. CASE mine # << >>
        <3>1. PICK m \in DOMAIN T : m \in those /\ Last(mine) = T[m] /\ \A l \in DOMAIN T : l \in those => l <= m
            BY <2>2, <2>6, LastChosen
        <3>2. T[m].kind = "merging" /\ T[m].of = f /\ e.field[f] = T[m].value
            BY <2>1, <2>3, <2>6, <3>1
        <3>3. \A l \in DOMAIN T : T[l].kind = "merging" /\ T[l].of = f => l <= m
            BY <2>1, <3>1
        <3> QED
            BY <1>5, <3>2, <3>3
    <2> QED
        BY <2>5, <2>6
<1>7. e.fill = << >> \/ \E m \in DOMAIN T : T[m].kind = "upsert" /\ e.fill = <<T[m]>>
    <2>1. PICK those : those = {k \in DOMAIN T : T[k].kind \in {"upsert"}}
        OBVIOUS
    <2>2. PICK c : c = Chosen(T, those)
        OBVIOUS
    <2>3. e.fill = IF c = << >> THEN << >> ELSE <<Last(c)>>
        BY <1>1, <2>1, <2>2 DEF Merged, Of
    <2>4. CASE c # << >>
        <3>1. PICK m \in DOMAIN T : m \in those /\ Last(c) = T[m]
            BY <2>2, <2>4, LastChosen
        <3> QED
            BY <2>1, <2>3, <2>4, <3>1
    <2> QED
        BY <2>3, <2>4
<1>8. DOMAIN e.field = Fields /\ e.field = [f \in Fields |-> e.field[f]]
    BY <1>3, <1>4
<1> QED
    BY <1>1, <1>2, <1>6, <1>7, <1>8 DEF MergedAs

-----------------------------------------------------------------------------
(* Which events speak for a value of a field or a member, and which against  *)
(* it.                                                                       *)

Wronging(e, s, v) == \/ e.kind = "delete"
                     \/ Writes(e, s) /\ Written(e, s) # v
                     \/ Decides(e, s) /\ Decided(e, s) # v

LEMMA RightsKeep ==
    ASSUME NEW u, NEW q, NEW x, Grown(u, q, x), NEW p, NEW b, NEW s, NEW v, NEW k \in 1 .. Len(q)
    PROVE  /\ k \in Rights(p, b, q, s, v) => k \in Rights(p, b, u, s, v)
           /\ k \in Wrongs(p, u, s, v) => k \in Wrongs(p, q, s, v)
<1>1. PICK m : m = k - 1
    OBVIOUS
<1>2. m \in 0 .. Len(q)
    BY <1>1 DEF Grown
<1>3. /\ Housed(p, b, q, s, m) => Housed(p, b, u, s, m)
      /\ NoRoom(p, b, q, s, m) => NoRoom(p, b, u, s, m)
      /\ Roomless(p, u, m) <=> Roomless(p, q, m)
    BY <1>2, HousedKeeps, NoRoomKeeps, RoomlessKeeps
<1>4. /\ k \in DOMAIN q /\ k \in DOMAIN u /\ u[k] = q[k]
      /\ k \in Leaving(u) <=> k \in Leaving(q)
      /\ k \in Veils(u, s) <=> k \in Veils(q, s)
    BY OldEvents
<1>5. k \in Rights(p, b, q, s, v) => k \in Rights(p, b, u, s, v)
    BY <1>1, <1>3, <1>4 DEF Rights
<1>6. k \in Wrongs(p, u, s, v) => k \in Wrongs(p, q, s, v)
    BY <1>1, <1>3, <1>4 DEF Wrongs
<1> QED
    BY <1>5, <1>6

LEMMA WrongIs ==
    ASSUME NEW u, NEW q, NEW x, Grown(u, q, x), NEW p, NEW s, NEW v, NEW k \in (Len(q) + 1) .. Len(u),
           k \in Wrongs(p, u, s, v)
    PROVE  \E i \in DOMAIN x : k = i + Len(q) /\ i \in 1 .. Len(x) /\ Wronging(x[i], s, v)
<1>1. Len(q) \in Nat /\ Len(x) \in Nat /\ Len(u) = Len(q) + Len(x)
    BY DEF Grown
<1>2. PICK i : i = k - Len(q)
    OBVIOUS
<1>3. i \in 1 .. Len(x) /\ k = i + Len(q)
    BY <1>1, <1>2
<1>4. i \in DOMAIN x /\ u[k] = x[i]
    BY <1>3, NewEvents
<1>5. Wronging(u[k], s, v)
    BY DEF Wrongs, Wronging, Leaving
<1> QED
    BY <1>3, <1>4, <1>5

LEMMA SlotOn ==
    ASSUME NEW u, NEW q, NEW x, Grown(u, q, x), NEW p, NEW b, NEW s, NEW v, SlotHolds(p, b, q, s, v),
           \A i \in DOMAIN x : ~ Wronging(x[i], s, v)
    PROVE  SlotHolds(p, b, u, s, v)
<1>1. Len(q) \in Nat /\ Len(x) \in Nat /\ Len(u) = Len(q) + Len(x)
    BY DEF Grown
<1>2. \A k \in 1 .. Len(q) : /\ k \in Rights(p, b, q, s, v) => k \in Rights(p, b, u, s, v)
                             /\ k \in Wrongs(p, u, s, v) => k \in Wrongs(p, q, s, v)
    BY RightsKeep
<1>3. \A k \in (Len(q) + 1) .. (Len(q) + Len(x)) : k \notin Wrongs(p, u, s, v)
    BY <1>1, WrongIs
<1>4. Lasts(Len(q), s \in b \/ Value(p, s) = v, Rights(p, b, q, s, v), Wrongs(p, q, s, v))
    BY DEF SlotHolds
<1>5. Lasts(Len(q) + Len(x), s \in b \/ Value(p, s) = v, Rights(p, b, u, s, v), Wrongs(p, u, s, v))
    BY <1>1, <1>2, <1>3, <1>4, Prolonged
<1> QED
    BY <1>1, <1>5 DEF SlotHolds

LEMMA SlotNew ==
    ASSUME NEW u, NEW q, NEW x, Grown(u, q, x), NEW p, NEW b, NEW s, NEW v, NEW j \in 1 .. Len(x),
           j + Len(q) \in Rights(p, b, u, s, v),
           \A i \in DOMAIN x : i > j => ~ Wronging(x[i], s, v)
    PROVE  SlotHolds(p, b, u, s, v)
<1>1. Len(q) \in Nat /\ Len(x) \in Nat /\ Len(u) = Len(q) + Len(x) /\ Len(u) \in Nat
    BY DEF Grown
<1>2. PICK k : k = j + Len(q)
    OBVIOUS
<1>3. k \in 1 .. Len(u) /\ k \in Rights(p, b, u, s, v)
    BY <1>1, <1>2
<1>4. ASSUME NEW l \in (k + 1) .. Len(u) PROVE l \notin Wrongs(p, u, s, v)
    <2>1. l \in (Len(q) + 1) .. Len(u) /\ l > j + Len(q)
        BY <1>1, <1>2
    <2> SUFFICES ASSUME l \in Wrongs(p, u, s, v) PROVE FALSE
        OBVIOUS
    <2>2. PICK i \in DOMAIN x : l = i + Len(q) /\ i \in 1 .. Len(x) /\ Wronging(x[i], s, v)
        BY <2>1, WrongIs
    <2>3. i > j
        BY <1>1, <2>1, <2>2
    <2> QED
        BY <2>2, <2>3
<1> QED
    BY <1>1, <1>3, <1>4, Renewed DEF SlotHolds

\* KindsApart told apart.
LEMMA KindsApart ==
               /\ \A kind \in Early \cup Late : kind \notin {"delete", "exists", "resync", "blur", "thread", "deletethread"}
               /\ Early \cap Late = {} /\ Phase("delete") = 1 /\ Phase("resync") = 2 /\ Phase("exists") = 2
               /\ Phase("add") = 3 /\ Phase("merging") = 4 /\ Phase("upsert") = 5 /\ Phase("insert") = 6
               /\ Phase("edit") = 7 /\ Phase("set") = 8 /\ Phase("unsend") = 9 /\ Phase("react") = 10
               /\ Phase("unreact") = 11 /\ Phase("remove") = 12 /\ Phase("blur") = 13
<1>1. ASSUME NEW kind \in Early \cup Late
      PROVE  kind \notin {"delete", "exists", "resync", "blur", "thread", "deletethread"}
    BY <1>1 DEF Early, Late
<1>2. Early \cap Late = {}
    BY DEF Early, Late
<1> QED
    BY <1>1, <1>2 DEF Phase

\* Behind the last row that writes something, nothing is said against it.
LEMMA LastWrites ==
    ASSUME NEW T, TableShape(T), NEW x, OfTable(x, T), NEW s \in Slots, s \notin Conflicts(T),
           NEW n \in DOMAIN T, Writes(T[n], s), \A m \in DOMAIN T : m > n => ~ Writes(T[m], s),
           NEW j \in DOMAIN x, Stands(x, T, n, j), NEW i \in DOMAIN x, i > j
    PROVE  ~ Wronging(x[i], s, Written(T[n], s))
<1>1. \/ Phase(x[i].kind) > Phase(T[n].kind)
      \/ \E m \in DOMAIN T : m > n /\ x[i] = T[m] /\ T[m].kind = T[n].kind
    BY DEF Stands
<1>2. T[n].kind \in {"set", "merging", "add", "remove"}
    BY DEF Writes
<1>3. IsList(T) /\ DOMAIN T \subseteq Nat
    BY ListIs DEF TableShape
<1>4. CASE Phase(x[i].kind) > Phase(T[n].kind)
    <2>1. x[i].kind # "delete" /\ x[i].kind # "resync"
        BY <1>2, <1>4, KindsApart
    <2>2. ASSUME Writes(x[i], s) PROVE FALSE
        <3>1. x[i].kind \in {"set", "merging", "add", "remove"}
            BY <2>2 DEF Writes
        <3>2. PICK m \in DOMAIN T : x[i] = T[m]
            BY <3>1 DEF OfTable
        <3>3. Writes(T[m], s)
            BY <2>2, <3>2
        <3>4. T[m].kind # T[n].kind
            BY <1>2, <1>4, <3>2, KindsApart
        <3>5. m # n /\ ~ m > n
            BY <3>3, <3>4
        <3>6. m < n
            BY <1>3, <3>5
        <3>7. CASE s[1] = "field"
            <4>1. T[n].kind \in {"set", "merging"} /\ T[m].kind \in {"set", "merging"} /\ T[n].of = s[2] /\ T[m].of = s[2]
                BY <3>3, <3>7 DEF Writes
            <4> QED
                BY <3>4, <4>1 DEF TableShape
        <3>8. CASE s[1] = "member" /\ s = <<"member", s[2]>>
            <4>1. T[n].kind \in {"add", "remove"} /\ T[m].kind \in {"add", "remove"} /\ T[n].of = s[2] /\ T[m].of = s[2]
                BY <3>3, <3>8 DEF Writes
            <4>2. T[n].kind = "add" /\ T[m].kind = "remove"
                BY <1>4, <3>2, <3>4, <4>1, KindsApart
            <4>3. <<"member", T[n].of>> \in Conflicts(T)
                BY <1>3, <3>6, <4>1, <4>2, ConflictsAre
            <4> QED
                BY <3>8, <4>1, <4>3
        <3> QED
            BY <3>7, <3>8, SlotIs
    <2> QED
        BY <2>1, <2>2 DEF Wronging, Decides
<1>5. CASE \E m \in DOMAIN T : m > n /\ x[i] = T[m] /\ T[m].kind = T[n].kind
    <2>1. PICK m \in DOMAIN T : m > n /\ x[i] = T[m] /\ T[m].kind = T[n].kind
        BY <1>5
    <2>2. ~ Writes(x[i], s)
        BY <2>1
    <2>3. x[i].kind # "delete" /\ x[i].kind # "resync"
        BY <1>2, <2>1
    <2> QED
        BY <2>2, <2>3 DEF Wronging, Decides
<1> QED
    BY <1>1, <1>4, <1>5

-----------------------------------------------------------------------------
(* A table behind the queue (Meets): the room is there when the event of a   *)
(* row comes.                                                                *)

\* The events x, of a table that tells how w became t, are behind those of q.
Meets(u, q, x, T, w, t) ==
    /\ Grown(u, q, x) /\ Rendered(x, T) /\ TableShape(T) /\ T # << >> /\ TableFits(T, t) /\ Since(w, T, t)
    /\ \A a \in Conflicts(T) : Veiled(x, a)

LEMMA TableIs ==
    ASSUME NEW T, IsList(T), T # << >>
    PROVE  Len(T) \in DOMAIN T /\ DOMAIN T = 1 .. Len(T) /\ Len(T) \in Nat
<1>1. DOMAIN T = 1 .. Len(T) /\ Len(T) \in Nat /\ T = [i \in 1 .. Len(T) |-> T[i]]
    BY ListIs
<1>2. Len(T) # 0
    BY <1>1
<1> QED
    BY <1>1, <1>2

LEMMA Opens ==
    ASSUME NEW u, NEW q, NEW x, NEW T, NEW w, NEW t, Meets(u, q, x, T, w, t), ~ Deletes(T)
    PROVE  /\ t.exists
           /\ w.exists \/ 1 \in Opened(x)
           /\ w.exists \/ Threads(T) # {} \/ (1 \in DOMAIN x /\ x[1].kind = "exists")
           /\ \A k \in DOMAIN x : x[k].kind # "delete"
<1>1. Len(T) \in DOMAIN T
    BY TableIs DEF Meets, TableShape
<1>2. t.exists = ~ Deleting(T[Len(T)])
    BY DEF Meets, TableFits
<1>3. t.exists
    BY <1>1, <1>2 DEF Deletes
<1>4. Rows(T, {"exists", "thread"}) = {} => w.exists
    BY <1>3 DEF Meets, Since
<1>5. \A k \in DOMAIN x : x[k].kind # "delete"
    BY DEF Meets, Rendered
<1>6. CASE Threads(T) # {}
    <2>1. Merging1(x, T)
        BY <1>6 DEF Meets, Rendered
    <2>2. PICK n \in Threads(T) : x[1] = Merged(T, T[n])
        BY <2>1 DEF Merging1
    <2>3. 1 \in DOMAIN x /\ x[1].kind = "resync"
        BY <2>1, <2>2 DEF Merging1, Merged
    <2> QED
        BY <1>3, <1>5, <1>6, <2>3 DEF Opened
<1>7. CASE Threads(T) = {}
    <2>1. Listing(x, T)
        BY <1>7 DEF Meets, Rendered
    <2>2. Rows(T, {"exists"}) = {} => Rows(T, {"exists", "thread"}) = {}
        BY <1>7 DEF Rows, Threads
    <2>3. w.exists \/ (1 \in DOMAIN x /\ x[1].kind = "exists")
        BY <1>4, <2>1, <2>2 DEF Listing
    <2> QED
        BY <1>3, <1>5, <2>3 DEF Opened
<1> QED
    BY <1>6, <1>7

LEMMA Along ==
    ASSUME NEW u, NEW q, NEW x, NEW T, NEW w, NEW t, Meets(u, q, x, T, w, t), ~ Deletes(T),
           NEW p, NEW b, RoomFits(w, p, b, q), NEW a \in All, NEW j \in 0 .. Len(x),
           w.exists \/ j # 0
    PROVE  Housed(p, b, u, a, Len(q) + j)
<1>1. Grown(u, q, x) /\ \A k \in DOMAIN x : x[k].kind # "delete"
    BY Opens DEF Meets
<1>2. CASE w.exists
    <2>1. Housed(p, b, q, a, Len(q))
        BY <1>2 DEF RoomFits
    <2> QED
        BY <1>1, <2>1, HousedOn
<1>3. CASE ~ w.exists
    <2>1. 1 \in Opened(x)
        BY <1>3, Opens
    <2>2. j \in 1 .. Len(x)
        BY <1>1, <1>3 DEF Grown
    <2> QED
        BY <1>1, <2>1, <2>2, HousedAfter
<1> QED
    BY <1>2, <1>3

\* An event of a row comes when the room is there.
LEMMA RowHoused ==
    ASSUME NEW u, NEW q, NEW x, NEW T, NEW w, NEW t, Meets(u, q, x, T, w, t), ~ Deletes(T),
           NEW p, NEW b, RoomFits(w, p, b, q), NEW a \in All, NEW j \in DOMAIN x,
           x[j].kind \in Early \cup Late
    PROVE  /\ j \in 1 .. Len(x) /\ j + Len(q) \in DOMAIN u /\ u[j + Len(q)] = x[j]
           /\ Housed(p, b, u, a, (j + Len(q)) - 1)
<1>1. Grown(u, q, x)
    BY DEF Meets
<1>2. Len(q) \in Nat /\ Len(x) \in Nat /\ j \in 1 .. Len(x)
    BY <1>1 DEF Grown
<1>3. w.exists \/ j # 1
    BY Opens, KindsApart DEF Opened
<1>4. PICK i : i = j - 1
    OBVIOUS
<1>5. i \in 0 .. Len(x) /\ (w.exists \/ i # 0) /\ Len(q) + i = (j + Len(q)) - 1
    BY <1>2, <1>3, <1>4
<1>6. Housed(p, b, u, a, Len(q) + i)
    BY <1>5, Along
<1> QED
    BY <1>1, <1>2, <1>5, <1>6, NewEvents

LEMMA SlotByRow ==
    ASSUME NEW u, NEW q, NEW x, NEW T, NEW w, NEW t, Meets(u, q, x, T, w, t), ~ Deletes(T),
           NEW p, NEW b, RoomFits(w, p, b, q), NEW s \in Slots, s \notin Conflicts(T),
           NEW n \in DOMAIN T, Writes(T[n], s), \A m \in DOMAIN T : m > n => ~ Writes(T[m], s),
           NEW j \in DOMAIN x, Stands(x, T, n, j)
    PROVE  SlotHolds(p, b, u, s, Value(t, s))
<1>1. Grown(u, q, x) /\ TableShape(T) /\ OfTable(x, T)
    BY DEF Meets, Rendered
<1>2. PICK v : v = Value(t, s)
    OBVIOUS
<1>3. Written(T[n], s) = v
    <2>1. Written(T[n], s) = Value(t, s) \/ \E m \in DOMAIN T : m > n /\ Writes(T[m], s)
        BY DEF Meets, TableFits
    <2> QED
        BY <1>2, <2>1
<1>4. x[j] = T[n]
    BY DEF Stands
<1>5. x[j].kind \in Early \cup Late
    BY <1>4 DEF Writes, Early, Late
<1>6. s \in All
    BY DEF Slots, All
<1>7. PICK k : k = j + Len(q)
    OBVIOUS
<1>8. j \in 1 .. Len(x) /\ k \in DOMAIN u /\ u[k] = T[n] /\ Housed(p, b, u, s, k - 1)
    BY <1>4, <1>5, <1>6, <1>7, RowHoused
<1>9. k \in Rights(p, b, u, s, v)
    BY <1>3, <1>8 DEF Rights
<1>10. \A i \in DOMAIN x : i > j => ~ Wronging(x[i], s, v)
    BY <1>1, <1>3, LastWrites
<1>11. SlotHolds(p, b, u, s, v)
    BY <1>1, <1>7, <1>8, <1>9, <1>10, SlotNew
<1> QED
    BY <1>2, <1>11

-----------------------------------------------------------------------------
(* Fields and members that a snapshot brings.                                *)

LEMMA EarlyLast ==
    ASSUME NEW T, TableShape(T), NEW s \in Slots, s \notin Conflicts(T),
           NEW n \in DOMAIN T, Writes(T[n], s), \A m \in DOMAIN T : m > n => ~ Writes(T[m], s),
           T[n].kind \in {"add", "merging"}, NEW m \in DOMAIN T, Writes(T[m], s)
    PROVE  T[m].kind \notin {"set", "remove"}
<1> SUFFICES ASSUME T[m].kind \in {"set", "remove"} PROVE FALSE
    OBVIOUS
<1>1. IsList(T) /\ DOMAIN T \subseteq Nat
    BY ListIs DEF TableShape
<1>2. m < n
    <2>1. m # n /\ ~ m > n
        OBVIOUS
    <2> QED
        BY <1>1, <2>1
<1>3. CASE s[1] = "field"
    <2>1. T[n].kind = "merging" /\ T[m].kind = "set" /\ T[n].of = s[2] /\ T[m].of = s[2]
        BY <1>3 DEF Writes
    <2> QED
        BY <2>1 DEF TableShape
<1>4. CASE s[1] = "member" /\ s = <<"member", s[2]>>
    <2>1. T[n].kind = "add" /\ T[m].kind = "remove" /\ T[n].of = s[2] /\ T[m].of = s[2]
        BY <1>4 DEF Writes
    <2>2. <<"member", T[n].of>> \in Conflicts(T)
        BY <1>1, <1>2, <2>1, ConflictsAre
    <2> QED
        BY <1>4, <2>1, <2>2
<1> QED
    BY <1>3, <1>4, SlotIs

\* Behind a snapshot come rows of later types only.
LEMMA BehindMerged ==
    ASSUME NEW T, NEW x, OfTable(x, T), Merging1(x, T), NEW s, NEW v, NEW i \in DOMAIN x, i # 1, Wronging(x[i], s, v)
    PROVE  \E m \in DOMAIN T : x[i] = T[m] /\ Writes(T[m], s) /\ T[m].kind \in {"set", "remove"}
<1>1. x[i].kind \in Late \cup {"blur"}
    BY DEF Merging1
<1>2. x[i].kind \notin {"delete", "resync", "add", "merging"}
    BY <1>1 DEF Late
<1>3. Writes(x[i], s)
    BY <1>2 DEF Wronging, Decides
<1>4. x[i].kind \in {"set", "remove"}
    BY <1>2, <1>3 DEF Writes
<1>5. PICK m \in DOMAIN T : x[i] = T[m]
    BY <1>4 DEF OfTable
<1> QED
    BY <1>3, <1>4, <1>5

LEMMA SlotByMerge ==
    ASSUME NEW u, NEW q, NEW x, NEW T, NEW w, NEW t, Meets(u, q, x, T, w, t), ~ Deletes(T), Threads(T) # {},
           NEW p, NEW b, NEW s \in Slots, s \notin Conflicts(T),
           NEW n \in DOMAIN T, Writes(T[n], s), \A m \in DOMAIN T : m > n => ~ Writes(T[m], s),
           T[n].kind \in {"add", "merging"}
    PROVE  SlotHolds(p, b, u, s, Value(t, s))
<1>1. Grown(u, q, x) /\ TableShape(T) /\ OfTable(x, T) /\ Merging1(x, T) /\ IsList(T)
    BY DEF Meets, Rendered, TableShape
<1>2. PICK v : v = Value(t, s)
    OBVIOUS
<1>3. Written(T[n], s) = v
    <2>1. Written(T[n], s) = Value(t, s) \/ \E m \in DOMAIN T : m > n /\ Writes(T[m], s)
        BY DEF Meets, TableFits
    <2> QED
        BY <1>2, <2>1
<1>4. PICK th \in Threads(T) : x[1] = Merged(T, T[th])
    BY <1>1 DEF Merging1
<1>5. 1 \in DOMAIN x /\ th \in DOMAIN T /\ 1 \in 1 .. Len(x)
    BY <1>1 DEF Merging1, Threads, Rows, Grown
<1>6. PICK e : e = x[1]
    OBVIOUS
<1>14. MergedAs(e, T, th)
    BY <1>1, <1>4, <1>5, <1>6, MergedIs
<1>7. e.kind = "resync" /\ e.of = Adds(T)
    BY <1>14 DEF MergedAs
<1>8. Decides(e, s) /\ Decided(e, s) = v
    <2>1. CASE s[1] = "field" /\ s[2] \in Fields
        <3>1. PICK f \in Fields : f = s[2]
            BY <2>1
        <3>2. T[n].kind = "merging" /\ T[n].of = f /\ v = T[n].value
            BY <1>3, <2>1, <3>1 DEF Writes, Written
        <3>3. /\ f \in e.certain
              /\ \E m \in DOMAIN T : /\ T[m].kind = "merging" /\ T[m].of = f /\ e.field[f] = T[m].value
                                     /\ \A l \in DOMAIN T : T[l].kind = "merging" /\ T[l].of = f => l <= m
            BY <1>14, <3>2 DEF MergedAs
        <3>4. PICK m \in DOMAIN T : T[m].kind = "merging" /\ T[m].of = f /\ e.field[f] = T[m].value /\ n <= m
            BY <3>2, <3>3
        <3>5. Writes(T[m], s)
            BY <2>1, <3>1, <3>4 DEF Writes
        <3>6. DOMAIN T \subseteq Nat
            BY <1>1, ListIs
        <3>7. m = n
            BY <3>4, <3>5, <3>6
        <3>8. e.field[f] = v
            BY <3>2, <3>4, <3>7
        <3> QED
            BY <1>7, <2>1, <3>1, <3>3, <3>8 DEF Decides, Decided
    <2>2. CASE s[1] = "member"
        <3>1. T[n].kind = "add" /\ T[n].of = s[2]
            BY <2>2 DEF Writes
        <3>2. s[2] \in e.of
            BY <1>7, <3>1 DEF Adds, Rows
        <3>3. Written(T[n], s) = (T[n].kind = "add")
            BY <2>2 DEF Written
        <3>4. Decided(e, s) = (s[2] \in e.of)
            BY <2>2 DEF Decided
        <3>5. Written(T[n], s) = TRUE /\ Decided(e, s) = TRUE
            BY <3>1, <3>2, <3>3, <3>4, Zenon
        <3>6. Decided(e, s) = v
            BY <1>3, <3>5
        <3>7. Decides(e, s)
            BY <1>7, <2>2, <3>2 DEF Decides
        <3> QED
            BY <3>6, <3>7
    <2> QED
        BY <2>1, <2>2, SlotIs
<1>9. PICK k : k = 1 + Len(q)
    OBVIOUS
<1>10. k \in DOMAIN u /\ u[k] = e
    BY <1>1, <1>5, <1>6, <1>9, NewEvents
<1>11. k \in Rights(p, b, u, s, v)
    BY <1>8, <1>10 DEF Rights
<1>12. ASSUME NEW i \in DOMAIN x, i > 1 PROVE ~ Wronging(x[i], s, v)
    <2> SUFFICES ASSUME Wronging(x[i], s, v) PROVE FALSE
        OBVIOUS
    <2>1. PICK m \in DOMAIN T : Writes(T[m], s) /\ T[m].kind \in {"set", "remove"}
        BY <1>1, <1>12, BehindMerged
    <2> QED
        BY <1>1, <2>1, EarlyLast
<1>13. SlotHolds(p, b, u, s, v)
    BY <1>1, <1>5, <1>9, <1>11, <1>12, SlotNew
<1> QED
    BY <1>2, <1>13

\* What no row writes.
LEMMA Unwritten ==
    ASSUME NEW T, NEW x, OfTable(x, T), NEW s, \A n \in DOMAIN T : ~ Writes(T[n], s), NEW i \in DOMAIN x
    PROVE  ~ Writes(x[i], s)
<1> SUFFICES ASSUME Writes(x[i], s) PROVE FALSE
    OBVIOUS
<1>1. x[i].kind \in {"set", "merging", "add", "remove"}
    BY DEF Writes
<1>2. PICK m \in DOMAIN T : x[i] = T[m]
    BY <1>1 DEF OfTable
<1> QED
    BY <1>2

LEMMA SlotPrior ==
    ASSUME NEW q, Len(q) \in Nat, NEW T, NEW w, NEW t, Since(w, T, t), NEW p, NEW b, RoomFits(w, p, b, q),
           ~ p.exists => p = Unborn, NEW s \in Slots, \A n \in DOMAIN T : ~ Writes(T[n], s),
           w.exists \/ Value(t, s) = Default(s)
    PROVE  SlotHolds(p, b, q, s, Value(t, s))
<1>1. CASE w.exists
    <2>1. Value(w, s) = Value(t, s)
        BY DEF Since
    <2>2. SlotHolds(p, b, q, s, Value(w, s))
        BY <1>1 DEF RoomFits
    <2> QED
        BY <2>1, <2>2
<1>2. CASE ~ w.exists
    <2>1. NoRoom(p, b, q, s, Len(q))
        BY <1>2 DEF RoomFits
    <2>2. SlotHolds(p, b, q, s, Default(s))
        BY <2>1, NoRoomDefault
    <2>3. Value(t, s) = Default(s)
        BY <1>2
    <2> QED
        BY <2>2, <2>3
<1> QED
    BY <1>1, <1>2

-----------------------------------------------------------------------------
(* And those that rows write, or nothing; a table makes each of them what it *)
(* became.                                                                   *)

LEMMA SlotBySnapshot ==
    ASSUME NEW u, NEW q, NEW x, NEW T, NEW w, NEW t, Meets(u, q, x, T, w, t), ~ Deletes(T), Threads(T) # {},
           NEW p, NEW b, RoomFits(w, p, b, q), ~ p.exists => p = Unborn,
           NEW s \in Slots, s \notin Conflicts(T), \A n \in DOMAIN T : ~ Writes(T[n], s)
    PROVE  SlotHolds(p, b, u, s, Value(t, s))
<1>1. /\ Grown(u, q, x) /\ TableShape(T) /\ OfTable(x, T) /\ Merging1(x, T) /\ IsList(T) /\ Since(w, T, t)
      /\ TableFits(T, t)
    BY DEF Meets, Rendered, TableShape
<1>2. PICK v : v = Value(t, s)
    OBVIOUS
<1>3. PICK th \in Threads(T) : x[1] = Merged(T, T[th]) /\ \A m \in Threads(T) : m <= th
    BY <1>1 DEF Merging1
<1>4. 1 \in DOMAIN x /\ th \in DOMAIN T /\ T[th].kind = "thread" /\ 1 \in 1 .. Len(x) /\ Len(q) \in Nat
    BY <1>1 DEF Merging1, Threads, Rows, Grown
<1>5. PICK e : e = x[1]
    OBVIOUS
<1>6. MergedAs(e, T, th)
    BY <1>1, <1>3, <1>4, <1>5, MergedIs
<1>7. (IF s[1] = "field" THEN T[th].value.field[s[2]] ELSE s[2] \in T[th].value.who) = v
    BY <1>1, <1>2, <1>4 DEF TableFits
<1>8. ASSUME NEW i \in DOMAIN x, i # 1 PROVE ~ Wronging(x[i], s, v)
    BY <1>1, <1>8, BehindMerged
<1>9. ASSUME Decides(e, s), Decided(e, s) = v PROVE SlotHolds(p, b, u, s, v)
    <2>1. PICK k : k = 1 + Len(q)
        OBVIOUS
    <2>2. k \in DOMAIN u /\ u[k] = e
        BY <1>1, <1>4, <1>5, <2>1, NewEvents
    <2>3. k \in Rights(p, b, u, s, v)
        BY <1>9, <2>2 DEF Rights
    <2>4. \A i \in DOMAIN x : i > 1 => ~ Wronging(x[i], s, v)
        BY <1>8
    <2> QED
        BY <1>1, <1>4, <2>1, <2>3, <2>4, SlotNew
<1>10. ASSUME ~ Decides(e, s), w.exists \/ v = Default(s) PROVE SlotHolds(p, b, u, s, v)
    <2>1. SlotHolds(p, b, q, s, v)
        BY <1>1, <1>2, <1>4, <1>10, SlotPrior
    <2>2. ~ Wronging(e, s, v)
        BY <1>6, <1>10 DEF MergedAs, Wronging, Writes
    <2>3. \A i \in DOMAIN x : ~ Wronging(x[i], s, v)
        BY <1>5, <1>8, <2>2
    <2> QED
        BY <1>1, <2>1, <2>3, SlotOn
<1>11. CASE s[1] = "field" /\ s[2] \in Fields
    <2>1. PICK f \in Fields : f = s[2]
        BY <1>11
    <2>2. \A m \in DOMAIN T : ~ (T[m].kind = "merging" /\ T[m].of = f)
        BY <1>11, <2>1 DEF Writes
    <2>3. e.field[f] = T[th].value.field[f] /\ (f \in e.certain <=> T[th].value.field[f] = 1)
        BY <1>6, <2>2 DEF MergedAs
    <2>4. T[th].value.field[f] = v
        BY <1>7, <1>11, <2>1
    <2>5. v \in {0, 1}
        BY <1>1, <1>4, <2>4 DEF TableShape
    <2>6. e.kind = "resync"
        BY <1>6 DEF MergedAs
    <2>7. CASE v = 1
        <3>1. Decides(e, s) /\ Decided(e, s) = v
            BY <1>11, <2>1, <2>3, <2>4, <2>6, <2>7 DEF Decides, Decided
        <3> QED
            BY <1>2, <1>9, <3>1
    <2>8. CASE v = 0
        <3>1. ~ Decides(e, s)
            BY <1>11, <2>1, <2>3, <2>4, <2>8 DEF Decides
        <3>2. v = Default(s)
            BY <1>11, <2>8 DEF Default
        <3> QED
            BY <1>2, <1>10, <3>1, <3>2
    <2> QED
        BY <2>5, <2>7, <2>8
<1>12. CASE s[1] = "member" /\ s[2] \in Members /\ s = <<"member", s[2]>>
    <2>1. PICK y \in Members : y = s[2]
        BY <1>12
    <2>2. y \notin Adds(T)
        BY <1>12, <2>1 DEF Writes, Adds, Rows
    <2>3. e.kind = "resync" /\ y \notin e.of /\ e.full = Whole(T, T[th])
        BY <1>6, <2>2 DEF MergedAs
    <2>4. (y \in T[th].value.who) = v /\ v = (y \in t.members)
        <3>1. s[1] # "field"
            BY <1>12
        <3>2. (s[2] \in T[th].value.who) = v
            BY <1>7, <3>1
        <3>3. Value(t, s) = (s[2] \in t.members)
            BY <1>12, ValueIs
        <3> QED
            BY <1>2, <2>1, <3>2, <3>3
    <2>5. CASE e.full
        <3>1. Whole(T, T[th])
            BY <2>3, <2>5
        <3>2. s \in {"member"} \X Members
            BY <1>12
        <3>3. Adds(T) = T[th].value.who
            BY <1>1, <1>3, <3>1, <3>2, ConflictsAre
        <3>4. Decides(e, s)
            BY <1>12, <2>3, <2>5 DEF Decides
        <3>5. Decided(e, s) = (y \in e.of)
            BY <1>12, <2>1 DEF Decided
        <3>6. (y \in e.of) = FALSE
            BY <2>3
        <3>7. Decided(e, s) = FALSE
            BY <3>5, <3>6, Zenon
        <3>8. (y \in T[th].value.who) = FALSE
            BY <2>2, <3>3
        <3>9. v = FALSE
            BY <2>4, <3>8, Zenon
        <3> QED
            BY <1>2, <1>9, <3>4, <3>7, <3>9
    <2>6. CASE ~ e.full
        <3>1. ~ Decides(e, s)
            BY <1>12, <2>1, <2>3, <2>6 DEF Decides
        <3>2. ~ w.exists => y \notin t.members
            <4> SUFFICES ASSUME ~ w.exists, y \in t.members PROVE FALSE
                OBVIOUS
            <4>1. t.exists /\ Rows(T, {"thread"}) # {}
                BY Opens DEF Threads
            <4>2. Named(T, "add", y) # {}
                BY <1>1, <4>1 DEF Since
            <4> QED
                BY <1>12, <2>1, <4>2 DEF Named, Writes
        <3>3. Default(s) = FALSE
            BY <1>12, ValueIs
        <3>4. ASSUME y \notin t.members PROVE v = Default(s)
            <4>1. (y \in t.members) = FALSE
                BY <3>4
            <4> QED
                BY <2>4, <3>3, <4>1, Zenon
        <3> QED
            BY <1>2, <1>10, <3>1, <3>2, <3>4
    <2> QED
        BY <2>5, <2>6
<1> QED
    BY <1>11, <1>12, SlotIs

LEMMA SlotByNothing ==
    ASSUME NEW u, NEW q, NEW x, NEW T, NEW w, NEW t, Meets(u, q, x, T, w, t), ~ Deletes(T), Threads(T) = {},
           NEW p, NEW b, RoomFits(w, p, b, q), ~ p.exists => p = Unborn,
           NEW s \in Slots, \A n \in DOMAIN T : ~ Writes(T[n], s)
    PROVE  SlotHolds(p, b, u, s, Value(t, s))
<1>1. Grown(u, q, x) /\ OfTable(x, T) /\ Listing(x, T) /\ Since(w, T, t) /\ Len(q) \in Nat
    BY DEF Meets, Rendered, Grown
<1>2. PICK v : v = Value(t, s)
    OBVIOUS
<1>3. ASSUME NEW i \in DOMAIN x PROVE ~ Wronging(x[i], s, v)
    <2>1. x[i].kind # "delete" /\ x[i].kind # "resync"
        BY <1>1, Opens DEF Listing
    <2>2. ~ Writes(x[i], s)
        BY <1>1, Unwritten
    <2> QED
        BY <2>1, <2>2 DEF Wronging, Decides
<1>4. CASE w.exists
    <2>1. SlotHolds(p, b, q, s, v)
        BY <1>1, <1>2, <1>4, SlotPrior
    <2>2. SlotHolds(p, b, u, s, v)
        BY <1>1, <1>3, <2>1, SlotOn
    <2> QED
        BY <1>2, <2>2
<1>5. CASE ~ w.exists
    <2>1. 1 \in DOMAIN x /\ x[1].kind = "exists"
        BY <1>5, Opens
    <2>2. 1 \in 1 .. Len(x)
        BY <1>1, <2>1 DEF Grown
    <2>3. PICK k : k = 1 + Len(q)
        OBVIOUS
    <2>4. k \in DOMAIN u /\ u[k] = x[1] /\ k - 1 = Len(q) /\ Len(q) \in 0 .. Len(q)
        BY <1>1, <2>2, <2>3, NewEvents
    <2>5. NoRoom(p, b, q, s, Len(q))
        BY <1>5 DEF RoomFits
    <2>6. NoRoom(p, b, u, s, k - 1)
        BY <1>1, <2>4, <2>5, NoRoomKeeps
    <2>7. k \in Rights(p, b, u, s, v)
        BY <2>1, <2>4, <2>6 DEF Rights
    <2>8. SlotHolds(p, b, u, s, v)
        BY <1>1, <1>3, <2>2, <2>3, <2>7, SlotNew
    <2> QED
        BY <1>2, <2>8
<1> QED
    BY <1>4, <1>5

LEMMA SlotMeets ==
    ASSUME NEW u, NEW q, NEW x, NEW T, NEW w, NEW t, Meets(u, q, x, T, w, t), ~ Deletes(T),
           NEW p, NEW b, RoomFits(w, p, b, q), ~ p.exists => p = Unborn, NEW s \in Slots
    PROVE  SlotHolds(p, b, u, s, Value(t, s))
<1>1. Grown(u, q, x) /\ TableShape(T) /\ IsList(T) /\ Rendered(x, T)
    BY DEF Meets, TableShape
<1>2. CASE s \in Conflicts(T)
    <2>1. Veiled(x, s)
        BY <1>2 DEF Meets
    <2> QED
        BY <1>1, <2>1, VeiledHolds
<1>3. CASE s \notin Conflicts(T) /\ \A n \in DOMAIN T : ~ Writes(T[n], s)
    BY <1>3, SlotBySnapshot, SlotByNothing
<1>4. CASE s \notin Conflicts(T) /\ \E n \in DOMAIN T : Writes(T[n], s)
    <2>1. PICK W : W = {n \in DOMAIN T : Writes(T[n], s)}
        OBVIOUS
    <2>2. W # {} /\ W \subseteq 0 .. Len(T) /\ Len(T) \in Nat /\ DOMAIN T \subseteq Nat
        BY <1>1, <1>4, <2>1, ListIs
    <2>3. PICK n \in W : \A y \in W : y <= n
        BY <2>2, LargestIs
    <2>4. n \in DOMAIN T /\ Writes(T[n], s)
        BY <2>1, <2>3
    <2>5. \A m \in DOMAIN T : m > n => ~ Writes(T[m], s)
        BY <2>1, <2>2, <2>3
    <2>6. T[n].kind \in {"add", "merging", "set", "remove"}
        BY <2>4 DEF Writes
    <2>7. CASE T[n].kind \in {"set", "remove"}
        <3>1. n \in LateShown(T)
            BY <2>4, <2>7 DEF LateShown, Late, Known
        <3>2. PICK j \in DOMAIN x : Stands(x, T, n, j)
            BY <1>1, <3>1 DEF Rendered
        <3> QED
            BY <1>3, <1>4, <2>4, <2>5, <3>2, SlotByRow
    <2>8. CASE T[n].kind \in {"add", "merging"} /\ Threads(T) = {}
        <3>1. n \in Rows(T, Early)
            BY <2>4, <2>8 DEF Rows, Early
        <3>2. PICK j \in DOMAIN x : Stands(x, T, n, j)
            BY <1>1, <2>8, <3>1 DEF Rendered, Listing
        <3> QED
            BY <1>4, <2>4, <2>5, <3>2, SlotByRow
    <2>9. CASE T[n].kind \in {"add", "merging"} /\ Threads(T) # {}
        BY <1>4, <2>4, <2>5, <2>9, SlotByMerge
    <2> QED
        BY <2>6, <2>7, <2>8, <2>9
<1> QED
    BY <1>2, <1>3, <1>4

-----------------------------------------------------------------------------
(* Whether the room is there, behind a table, and what bundles come with     *)
(* one.                                                                      *)

\* A table with a deletion: the chat is gone, or everything is blurred.
LEMMA MeetsDeletes ==
    ASSUME NEW u, NEW q, NEW x, NEW T, NEW w, NEW t, Meets(u, q, x, T, w, t), Deletes(T)
    PROVE  (Closing(x) /\ ~ t.exists) \/ \A a \in All : Veiled(x, a)
<1>1. IsList(T) /\ T # << >> /\ Closing(x) /\ \A a \in Conflicts(T) : Veiled(x, a)
    BY DEF Meets, TableShape, Rendered
<1>2. t.exists = ~ Deleting(T[Len(T)])
    BY DEF Meets, TableFits
<1>3. PICK k \in DOMAIN T : Deleting(T[k])
    BY DEF Deletes
<1>4. CASE Deleting(T[Len(T)])
    BY <1>1, <1>2, <1>4
<1>5. CASE ~ Deleting(T[Len(T)])
    <2>1. k # Len(T)
        BY <1>3, <1>5
    <2>2. All \subseteq Conflicts(T)
        BY <1>1, <1>3, <2>1, ConflictsAre
    <2> QED
        BY <1>1, <2>2
<1> QED
    BY <1>4, <1>5

LEMMA RoomMeets ==
    ASSUME NEW u, NEW q, NEW x, NEW T, NEW w, NEW t, Meets(u, q, x, T, w, t),
           NEW p, NEW b, RoomFits(w, p, b, q), ~ p.exists => p = Unborn
    PROVE  RoomFits(t, p, b, u)
<1>1. Grown(u, q, x)
    BY DEF Meets
<1>2. Len(q) \in Nat /\ Len(x) \in Nat /\ Len(u) = Len(q) + Len(x)
    BY <1>1 DEF Grown
<1>3. Slots \subseteq All /\ Chat \in All
    BY DEF Slots, All, Chat
<1>4. CASE ~ Deletes(T)
    <2>1. t.exists /\ (w.exists \/ 1 \in Opened(x))
        BY <1>4, Opens
    <2>2. w.exists \/ Len(x) # 0
        BY <1>1, <2>1 DEF Opened, Grown
    <2>3. \A a \in All : Housed(p, b, u, a, Len(u))
        BY <1>2, <1>4, <2>2, Along
    <2>4. ASSUME NEW s \in Slots PROVE SlotHolds(p, b, u, s, Value(t, s))
        BY <1>4, SlotMeets
    <2> QED
        BY <2>1, <2>3, <2>4 DEF RoomFits
<1>5. CASE Closing(x) /\ ~ t.exists
    <2>1. \A a : NoRoom(p, b, u, a, Len(u))
        BY <1>1, <1>5, NoRoomClosed
    <2> QED
        BY <1>5, <2>1 DEF RoomFits
<1>6. CASE \A a \in All : Veiled(x, a)
    <2>1. \A a \in All : Housed(p, b, u, a, Len(u)) /\ NoRoom(p, b, u, a, Len(u))
        BY <1>1, <1>6, VeiledHolds
    <2>2. ASSUME NEW s \in Slots PROVE SlotHolds(p, b, u, s, Value(t, s))
        <3>1. Veiled(x, s)
            BY <1>3, <1>6
        <3> QED
            BY <1>1, <3>1, VeiledHolds
    <2> QED
        BY <1>3, <2>1, <2>2 DEF RoomFits
<1> QED
    BY <1>4, <1>5, <1>6, MeetsDeletes

LEMMA LastsOn ==
    ASSUME NEW u, NEW q, NEW x, Grown(u, q, x), NEW start, NEW W, NEW B, NEW W2, NEW B2,
           Lasts(Len(q), start, W, B),
           \A k \in 1 .. Len(q) : (k \in W => k \in W2) /\ (k \in B2 => k \in B),
           \A i \in 1 .. Len(x) : i + Len(q) \notin B2, NEW m \in 0 .. Len(x)
    PROVE  Lasts(Len(q) + m, start, W2, B2)
<1>1. Len(q) \in Nat /\ Len(x) \in Nat /\ m \in Nat
    BY DEF Grown
<1>2. ASSUME NEW k \in (Len(q) + 1) .. (Len(q) + m) PROVE k \notin B2
    <2>1. PICK i : i = k - Len(q)
        OBVIOUS
    <2>2. i \in 1 .. Len(x) /\ k = i + Len(q)
        BY <1>1, <2>1
    <2> QED
        BY <2>2
<1> QED
    BY <1>1, <1>2, Prolonged

LEMMA LastsNew ==
    ASSUME NEW u, NEW q, NEW x, Grown(u, q, x), NEW start, NEW W, NEW B,
           NEW j \in 1 .. Len(x), j + Len(q) \in W, \A i \in 1 .. Len(x) : i > j => i + Len(q) \notin B,
           NEW m \in j .. Len(x)
    PROVE  Lasts(Len(q) + m, start, W, B)
<1>1. Len(q) \in Nat /\ Len(x) \in Nat /\ m \in Nat /\ Len(q) + m \in Nat
    BY DEF Grown
<1>2. PICK k : k = j + Len(q)
    OBVIOUS
<1>3. k \in 1 .. (Len(q) + m) /\ k \in W
    BY <1>1, <1>2
<1>4. ASSUME NEW l \in (k + 1) .. (Len(q) + m) PROVE l \notin B
    <2>1. PICK i : i = l - Len(q)
        OBVIOUS
    <2>2. i \in 1 .. Len(x) /\ i > j /\ l = i + Len(q)
        BY <1>1, <1>2, <2>1
    <2> QED
        BY <2>2
<1> QED
    BY <1>1, <1>3, <1>4, Renewed

\* Bundles are the table's.
LEMMA BundlesOf ==
    ASSUME NEW T, IsList(T), NEW x, Rendered(x, T), NEW k \in DOMAIN x, NEW room \in Bundles(x[k])
    PROVE  \E m \in DOMAIN T : room \in Bundles(T[m])
<1>1. x[k].kind \in {"upsert", "resync"}
    BY DEF Bundles
<1>2. CASE x[k].kind = "upsert"
    <2>1. \E m \in DOMAIN T : x[k] = T[m]
        BY <1>2 DEF Rendered, OfTable
    <2> QED
        BY <2>1
<1>3. CASE x[k].kind = "resync"
    <2>0. ~ Deletes(T)
        BY <1>3 DEF Rendered, Closing
    <2>1. Threads(T) # {} /\ Merging1(x, T)
        BY <1>3, <2>0 DEF Rendered, Listing
    <2>2. k = 1
        BY <1>3, <2>1 DEF Merging1, Late
    <2>3. PICK th \in Threads(T) : x[1] = Merged(T, T[th])
        BY <2>1 DEF Merging1
    <2>4. th \in DOMAIN T
        BY DEF Threads, Rows
    <2>5. PICK e : e = x[k]
        OBVIOUS
    <2>6. MergedAs(e, T, th)
        BY <2>2, <2>3, <2>4, <2>5, MergedIs
    <2>7. room \in {e.fill[l].value : l \in DOMAIN e.fill}
        BY <1>3, <2>5 DEF Bundles
    <2>8. e.fill # << >>
        BY <2>7
    <2>9. PICK m \in DOMAIN T : T[m].kind = "upsert" /\ e.fill = <<T[m]>>
        BY <2>6, <2>8 DEF MergedAs
    <2>10. PICK r : r = T[m]
        OBVIOUS
    <2>11. e.fill = <<r>>
        BY <2>9, <2>10
    <2>12. room = r.value
        BY <2>7, <2>11
    <2> QED
        BY <2>9, <2>10, <2>12 DEF Bundles
<1> QED
    BY <1>1, <1>2, <1>3

\* What brings a message, or tells of it, is a row that does.
LEMMA BringsOf ==
    ASSUME NEW T, IsList(T), NEW x, Rendered(x, T), NEW k \in DOMAIN x, NEW i, Brings(x[k], i)
    PROVE  \E m \in DOMAIN T : Brings(T[m], i)
<1>1. CASE x[k].kind = "insert" /\ x[k].of = i
    <2>1. PICK m \in DOMAIN T : x[k] = T[m]
        BY <1>1 DEF Rendered, OfTable
    <2> QED
        BY <2>1
<1>2. CASE \E room \in Bundles(x[k]) : i \in Shown(room)
    <2>1. PICK room \in Bundles(x[k]) : i \in Shown(room)
        BY <1>2
    <2>2. PICK m \in DOMAIN T : room \in Bundles(T[m])
        BY BundlesOf
    <2> QED
        BY <2>1, <2>2 DEF Brings
<1> QED
    BY <1>1, <1>2 DEF Brings

LEMMA NamedOf ==
    ASSUME NEW T, NEW x, OfTable(x, T), NEW kind \in Early \cup Late, NEW i, NEW k \in Named(x, kind, i)
    PROVE  k \in DOMAIN x /\ \E m \in DOMAIN T : m \in Named(T, kind, i) /\ x[k] = T[m]
<1>1. k \in DOMAIN x /\ x[k].kind = kind /\ x[k].of = i
    BY DEF Named
<1>2. kind \notin {"delete", "exists", "resync", "blur"}
    BY KindsApart
<1>3. PICK m \in DOMAIN T : x[k] = T[m]
    BY <1>1, <1>2 DEF OfTable
<1> QED
    BY <1>1, <1>3 DEF Named

-----------------------------------------------------------------------------
(* Messages that are gone.                                                   *)

LEMMA BringKinds ==
    ASSUME NEW e
    PROVE  /\ \A i : Brings(e, i) => e.kind \in {"insert", "upsert", "resync"}
           /\ \A room \in Bundles(e) : e.kind \in {"upsert", "resync"}
<1>1. \A room \in Bundles(e) : e.kind \in {"upsert", "resync"}
    BY DEF Bundles
<1> QED
    BY <1>1 DEF Brings

\* Behind the event of a row come later types, or the same.
LEMMA Later ==
    ASSUME NEW T, NEW x, NEW n, NEW j, Stands(x, T, n, j), NEW i \in DOMAIN x, i > j,
           Phase(x[i].kind) \in Nat, Phase(T[n].kind) \in Nat
    PROVE  x[i].kind = T[n].kind \/ Phase(x[i].kind) > Phase(T[n].kind)
BY DEF Stands

LEMMA PhasesKnown ==
    ASSUME NEW T, NEW x, OfTable(x, T), NEW i \in DOMAIN x
    PROVE  Phase(x[i].kind) \in Nat
BY PhaseIs, KindsApart DEF OfTable

LEMMA ReturnsKeep ==
    ASSUME NEW u, NEW q, NEW x, Grown(u, q, x), NEW p, NEW i, NEW k \in 1 .. Len(q), k \in Returns(p, u, i)
    PROVE  k \in Returns(p, q, i)
<1>1. PICK m : m = k - 1
    OBVIOUS
<1>2. m \in 0 .. Len(q)
    BY <1>1 DEF Grown
<1>3. Roomless(p, u, m) <=> Roomless(p, q, m)
    BY <1>2, RoomlessKeeps
<1>4. k \in DOMAIN q /\ u[k] = q[k]
    BY OldEvents
<1> QED
    BY <1>1, <1>3, <1>4 DEF Returns

LEMMA GoneMeets ==
    ASSUME NEW u, NEW q, NEW x, NEW T, NEW w, NEW t, Meets(u, q, x, T, w, t),
           NEW p, NEW b, NEW i \in Said, NEW a \in {Text(i), Heart(i)}, t.text[i] = "gone",
           w.text[i] = "gone" => GoneHolds(p, b, q, i, a)
    PROVE  GoneHolds(p, b, u, i, a)
<1>1. /\ Grown(u, q, x) /\ Rendered(x, T) /\ OfTable(x, T) /\ IsList(T) /\ TableFits(T, t) /\ Since(w, T, t)
    BY DEF Meets, Rendered, TableShape
<1>2. Len(q) \in Nat /\ Len(x) \in Nat /\ Len(u) = Len(q) + Len(x) /\ DOMAIN x = 1 .. Len(x)
    BY <1>1 DEF Grown
<1>3. a \in All
    BY DEF All, Text, Heart
<1>4. \A l \in 1 .. Len(x) : l + Len(q) \in Returns(p, u, i) => Brings(x[l], i)
    BY <1>1, NewEvents DEF Returns
<1>5. CASE Deletes(T)
    BY <1>1, <1>3, <1>5, MeetsDeletes, GoneClosed, VeiledHolds
<1>6. CASE ~ Deletes(T) /\ Named(T, "unsend", i) # {}
    <2>1. PICK n \in Named(T, "unsend", i) : TRUE
        BY <1>6
    <2>2. n \in DOMAIN T /\ T[n].kind = "unsend" /\ T[n].of = i
        BY DEF Named
    <2>3. n \in LateShown(T)
        BY <2>2 DEF LateShown, Late, Known
    <2>4. PICK j \in DOMAIN x : Stands(x, T, n, j)
        BY <1>1, <1>6, <2>3 DEF Rendered
    <2>5. j \in 1 .. Len(x) /\ j \in Named(x, "unsend", i)
        BY <1>2, <2>2, <2>4 DEF Stands, Named
    <2> DEFINE W == Leaving(u) \cup Named(u, "unsend", i) \cup Veils(u, a)
               Start == i \notin Shown(p) \/ a \in b
    <2>6. j + Len(q) \in W
        BY <1>1, <2>5, NewEvents
    <2>7. ASSUME NEW l \in 1 .. Len(x), l > j PROVE l + Len(q) \notin Returns(p, u, i)
        <3>1. l \in DOMAIN x /\ Phase(x[l].kind) \in Nat
            BY <1>1, <1>2, PhasesKnown
        <3>2. x[l].kind = "unsend" \/ Phase(x[l].kind) > Phase("unsend")
            BY <2>2, <2>4, <2>7, <3>1, KindsApart, Later
        <3>3. x[l].kind \notin {"insert", "upsert", "resync"}
            BY <3>2, KindsApart
        <3> QED
            BY <1>4, <3>3, BringKinds
    <2>8. Len(x) \in j .. Len(x)
        BY <1>2, <2>5
    <2> HIDE DEF W, Start
    <2>9. Grown(u, q, x) /\ j \in 1 .. Len(x)
        BY <1>1, <2>5
    <2>10. \A l \in 1 .. Len(x) : l > j => l + Len(q) \notin Returns(p, u, i)
        BY <2>7
    <2>11. Lasts(Len(q) + Len(x), Start, W, Returns(p, u, i))
        BY <2>6, <2>8, <2>9, <2>10, LastsNew
    <2> QED
        BY <1>2, <2>11 DEF GoneHolds, W, Start
<1>7. CASE ~ Deletes(T) /\ Named(T, "unsend", i) = {}
    <2>1. w.text[i] = "gone"
        BY <1>1, <1>7 DEF Since
    <2>2. \A n \in DOMAIN T : ~ Brings(T[n], i)
        BY <1>1, <1>7 DEF TableFits
    <2>3. \A l \in 1 .. Len(x) : l + Len(q) \notin Returns(p, u, i)
        BY <1>1, <1>2, <1>4, <2>2, BringsOf
    <2>4. GoneHolds(p, b, q, i, a)
        BY <2>1
    <2> DEFINE W(y) == Leaving(y) \cup Named(y, "unsend", i) \cup Veils(y, a)
               Start == i \notin Shown(p) \/ a \in b
    <2>5. \A k \in 1 .. Len(q) : (k \in W(q) => k \in W(u)) /\ (k \in Returns(p, u, i) => k \in Returns(p, q, i))
        BY <1>1, OldEvents, ReturnsKeep
    <2>6. Lasts(Len(q), Start, W(q), Returns(p, q, i))
        BY <2>4 DEF GoneHolds
    <2>7. Len(x) \in 0 .. Len(x)
        BY <1>2
    <2> HIDE DEF W, Start
    <2>8. Lasts(Len(q) + Len(x), Start, W(u), Returns(p, u, i))
        BY <1>1, <2>3, <2>5, <2>6, <2>7, LastsOn
    <2> QED
        BY <1>2, <2>8 DEF GoneHolds, W, Start
<1> QED
    BY <1>5, <1>6, <1>7

-----------------------------------------------------------------------------
(* Messages that are shown, and those that were edited.                      *)

LEMMA KeepsNaming ==
    ASSUME NEW T, NEW x, OfTable(x, T), NEW kind \in Early \cup Late, NEW i, Named(T, kind, i) = {}
    PROVE  Named(x, kind, i) = {}
BY NamedOf

\* A message that is shown on the server is on its way, from its event on or from the start.
LEMMA PresentMeets ==
    ASSUME NEW u, NEW q, NEW x, NEW T, NEW w, NEW t, Meets(u, q, x, T, w, t), ~ Deletes(T),
           NEW p, NEW b, RoomFits(w, p, b, q), NEW i \in Said, NEW a \in {Text(i), Heart(i)},
           t.text[i] \in Words, w.text[i] \in Marks, w.text[i] \in Words => Present(p, b, q, i, a, Len(q))
    PROVE  \E j \in 0 .. Len(x) : /\ j # 0 => x[j].kind = "insert"
                                  /\ \A m \in j .. Len(x) : Present(p, b, u, i, a, Len(q) + m)
<1>1. /\ Grown(u, q, x) /\ Rendered(x, T) /\ OfTable(x, T) /\ IsList(T) /\ TableFits(T, t) /\ Since(w, T, t)
    BY DEF Meets, Rendered, TableShape
<1>2. Len(q) \in Nat /\ Len(x) \in Nat /\ Len(u) = Len(q) + Len(x) /\ DOMAIN x = 1 .. Len(x) /\ 0 \in 0 .. Len(x)
    BY <1>1 DEF Grown
<1>3. a \in All
    BY DEF All, Text, Heart
<1>4. Named(x, "unsend", i) = {}
    <2>1. Named(T, "unsend", i) = {}
        BY <1>1 DEF TableFits
    <2>2. "unsend" \in Early \cup Late
        BY DEF Late
    <2> QED
        BY <1>1, <2>1, <2>2, KeepsNaming
<1>5. \A l \in 1 .. Len(x) : l + Len(q) \notin Losses(u, i)
    <2>1. \A l \in DOMAIN x : x[l].kind # "delete"
        BY Opens
    <2>2. \A l : l \notin Leaving(x) /\ l \notin Named(x, "unsend", i)
        BY <1>4, <2>1 DEF Leaving
    <2> QED
        BY <1>1, <2>2, NewEvents DEF Losses
<1> DEFINE Start == i \in Shown(p) \/ a \in b
<1>6. CASE w.text[i] \in Words
    <2>1. Lasts(Len(q), Start, Comes(p, b, q, i, a), Losses(q, i))
        BY <1>6 DEF Present
    <2>2. \A k \in 1 .. Len(q) : /\ k \in Comes(p, b, q, i, a) => k \in Comes(p, b, u, i, a)
                                 /\ k \in Losses(u, i) => k \in Losses(q, i)
        BY <1>1, OldEvents, ComesKeep DEF Losses
    <2> HIDE DEF Start
    <2>3. \A m \in 0 .. Len(x) : Lasts(Len(q) + m, Start, Comes(p, b, u, i, a), Losses(u, i))
        BY <1>1, <1>5, <2>1, <2>2, LastsOn
    <2>4. \A m \in 0 .. Len(x) : Present(p, b, u, i, a, Len(q) + m)
        BY <2>3 DEF Present, Start
    <2> QED
        BY <1>2, <2>4
<1>7. CASE w.text[i] \notin Words
    <2>1. t.text[i] # "gone" /\ t.text[i] # "unsaid" /\ w.text[i] \in {"unsaid", "gone"}
        BY <1>7 DEF Words, Marks
    <2>2. w.text[i] = "unsaid"
        BY <1>1, <2>1 DEF Since
    <2>3. PICK n \in Named(T, "insert", i) : TRUE
        BY <1>1, <2>1, <2>2 DEF Since
    <2>4. n \in DOMAIN T /\ T[n].kind = "insert" /\ T[n].of = i
        BY DEF Named
    <2>5. n \in LateShown(T)
        BY <2>4 DEF LateShown, Late, Known
    <2>6. PICK j \in DOMAIN x : Stands(x, T, n, j)
        BY <1>1, <2>5 DEF Rendered
    <2>7. x[j].kind = "insert" /\ j \in Named(x, "insert", i)
        BY <2>4, <2>6 DEF Stands, Named
    <2>8. PICK k : k = j + Len(q)
        OBVIOUS
    <2>9. j \in 1 .. Len(x) /\ k \in DOMAIN u /\ u[k] = x[j] /\ Housed(p, b, u, a, k - 1)
        BY <1>3, <2>7, <2>8, RowHoused DEF Late
    <2>10. k \in Comes(p, b, u, i, a)
        BY <2>4, <2>6, <2>9 DEF Comes, Named, Stands
    <2> HIDE DEF Start
    <2>11. \A m \in j .. Len(x) : Lasts(Len(q) + m, Start, Comes(p, b, u, i, a), Losses(u, i))
        BY <1>1, <1>5, <2>8, <2>9, <2>10, LastsNew
    <2>12. \A m \in j .. Len(x) : Present(p, b, u, i, a, Len(q) + m)
        BY <2>11 DEF Present, Start
    <2> QED
        BY <2>7, <2>9, <2>12
<1> QED
    BY <1>6, <1>7

LEMMA OldsKeep ==
    ASSUME NEW u, NEW q, NEW x, Grown(u, q, x), NEW i
    PROVE  /\ \A k \in 1 .. Len(q) : k \in Olds(u, i) => k \in Olds(q, i)
           /\ \A l \in 1 .. Len(x) : l + Len(q) \in Olds(u, i) => l \in Olds(x, i)
<1>1. ASSUME NEW k \in 1 .. Len(q), k \in Olds(u, i) PROVE k \in Olds(q, i)
    BY <1>1, OldEvents DEF Olds
<1>2. ASSUME NEW l \in 1 .. Len(x), l + Len(q) \in Olds(u, i) PROVE l \in Olds(x, i)
    BY <1>2, NewEvents DEF Olds
<1> QED
    BY <1>1, <1>2

LEMMA EditMeets ==
    ASSUME NEW u, NEW q, NEW x, NEW T, NEW w, NEW t, Meets(u, q, x, T, w, t), ~ Deletes(T),
           NEW p, NEW b, NEW i \in Said, t.text[i] = "second", w.text[i] = "second" => EditHolds(p, b, q, i)
    PROVE  EditHolds(p, b, u, i)
<1>1. /\ Grown(u, q, x) /\ Rendered(x, T) /\ OfTable(x, T) /\ IsList(T) /\ TableFits(T, t) /\ Since(w, T, t)
    BY DEF Meets, Rendered, TableShape
<1>2. Len(q) \in Nat /\ Len(x) \in Nat /\ Len(u) = Len(q) + Len(x) /\ DOMAIN x = 1 .. Len(x) /\ Len(x) \in 0 .. Len(x)
    BY <1>1 DEF Grown
<1> DEFINE W(y) == Named(y, "edit", i) \cup Veils(y, Text(i))
           Start == p.text[i] # "first" \/ Text(i) \in b
<1>3. CASE Named(T, "edit", i) = {}
    <2>1. w.text[i] = "second" /\ Olds(T, i) = {}
        BY <1>1, <1>3 DEF Since, TableFits
    <2>2. Lasts(Len(q), Start, W(q), Olds(q, i))
        BY <2>1 DEF EditHolds
    <2>3. Olds(x, i) = {}
        <3>1. "insert" \in Early \cup Late
            BY DEF Late
        <3>2. Named(x, "insert", i) = {}
            BY <1>1, <2>1, <3>1, KeepsNaming DEF Olds
        <3>3. ASSUME NEW k \in DOMAIN x, NEW room \in Bundles(x[k]), room.text[i] = "first" PROVE FALSE
            <4>1. PICK m \in DOMAIN T : room \in Bundles(T[m])
                BY <1>1, BundlesOf
            <4> QED
                BY <2>1, <3>3, <4>1 DEF Olds
        <3> QED
            BY <3>2, <3>3 DEF Olds
    <2>4. \A k \in 1 .. Len(q) : (k \in W(q) => k \in W(u)) /\ (k \in Olds(u, i) => k \in Olds(q, i))
        BY <1>1, OldEvents, OldsKeep
    <2>5. \A l \in 1 .. Len(x) : l + Len(q) \notin Olds(u, i)
        BY <1>1, <2>3, OldsKeep
    <2> HIDE DEF W, Start
    <2>6. Lasts(Len(q) + Len(x), Start, W(u), Olds(u, i))
        BY <1>1, <1>2, <2>2, <2>4, <2>5, LastsOn
    <2> QED
        BY <1>2, <2>6 DEF EditHolds, W, Start
<1>4. CASE Named(T, "edit", i) # {}
    <2>1. PICK n \in Named(T, "edit", i) : TRUE
        BY <1>4
    <2>2. n \in DOMAIN T /\ T[n].kind = "edit" /\ T[n].of = i
        BY DEF Named
    <2>3. CASE ~ Known(T[n])
        <3>1. Text(i) \in Conflicts(T)
            BY <1>1, <2>2, <2>3, ConflictsAre
        <3>2. Veiled(x, Text(i))
            BY <3>1 DEF Meets
        <3> QED
            BY <1>1, <3>2, VeiledHolds
    <2>4. CASE Known(T[n])
        <3>1. n \in LateShown(T)
            BY <2>2, <2>4 DEF LateShown, Late
        <3>2. PICK j \in DOMAIN x : Stands(x, T, n, j)
            BY <1>1, <3>1 DEF Rendered
        <3>3. j \in 1 .. Len(x) /\ j \in Named(x, "edit", i) /\ Len(x) \in j .. Len(x)
            BY <1>2, <2>2, <3>2 DEF Stands, Named
        <3>4. j + Len(q) \in W(u)
            BY <1>1, <3>3, NewEvents
        <3>5. ASSUME NEW l \in 1 .. Len(x), l > j PROVE l + Len(q) \notin Olds(u, i)
            <4>1. l \in DOMAIN x /\ Phase(x[l].kind) \in Nat
                BY <1>1, <1>2, PhasesKnown
            <4>2. x[l].kind = "edit" \/ Phase(x[l].kind) > Phase("edit")
                BY <2>2, <3>2, <3>5, <4>1, KindsApart, Later
            <4>3. x[l].kind \notin {"insert", "upsert", "resync"}
                BY <4>2, KindsApart
            <4>4. l \notin Olds(x, i)
                BY <4>3, BringKinds DEF Olds, Named
            <4> QED
                BY <1>1, <4>4, OldsKeep
        <3> HIDE DEF W, Start
        <3>6. Lasts(Len(q) + Len(x), Start, W(u), Olds(u, i))
            BY <1>1, <3>3, <3>4, <3>5, LastsNew
        <3> QED
            BY <1>2, <3>6 DEF EditHolds, W, Start
    <2> QED
        BY <2>3, <2>4
<1> QED
    BY <1>3, <1>4

-----------------------------------------------------------------------------
(* Reactions, of messages the table says nothing of.                         *)

LEMMA ColdsKeep ==
    ASSUME NEW u, NEW q, NEW x, Grown(u, q, x), NEW i
    PROVE  /\ \A k \in 1 .. Len(q) : /\ k \in Colds(u, i) => k \in Colds(q, i)
                                     /\ k \in Warms(u, i) => k \in Warms(q, i)
           /\ \A l \in 1 .. Len(x) : /\ l + Len(q) \in Colds(u, i) => l \in Colds(x, i)
                                     /\ l + Len(q) \in Warms(u, i) => l \in Warms(x, i)
<1>1. ASSUME NEW k \in 1 .. Len(q), k \in Colds(u, i) PROVE k \in Colds(q, i)
    BY <1>1, OldEvents DEF Colds, Losses
<1>2. ASSUME NEW l \in 1 .. Len(x), l + Len(q) \in Colds(u, i) PROVE l \in Colds(x, i)
    BY <1>2, NewEvents DEF Colds, Losses
<1>3. ASSUME NEW k \in 1 .. Len(q), k \in Warms(u, i) PROVE k \in Warms(q, i)
    BY <1>3, OldEvents DEF Warms
<1>4. ASSUME NEW l \in 1 .. Len(x), l + Len(q) \in Warms(u, i) PROVE l \in Warms(x, i)
    BY <1>4, NewEvents DEF Warms
<1> QED
    BY <1>1, <1>2, <1>3, <1>4

Glows(p, b, q, i) == {k \in Named(q, "react", i) : Present(p, b, q, i, Heart(i), k - 1)} \cup Veils(q, Heart(i))

LEMMA GlowsKeep ==
    ASSUME NEW u, NEW q, NEW x, Grown(u, q, x), NEW p, NEW b, NEW i, NEW k \in 1 .. Len(q), k \in Glows(p, b, q, i)
    PROVE  k \in Glows(p, b, u, i)
<1>1. PICK m : m = k - 1
    OBVIOUS
<1>2. m \in 0 .. Len(q)
    BY <1>1 DEF Grown
<1>3. Present(p, b, q, i, Heart(i), m) => Present(p, b, u, i, Heart(i), m)
    BY <1>2, PresentKeeps
<1> QED
    BY <1>1, <1>3, OldEvents DEF Glows

LEMMA WarmOn ==
    ASSUME NEW u, NEW q, NEW x, Grown(u, q, x), NEW p, NEW b, NEW i, HeartOn(p, b, q, i), Colds(x, i) = {}
    PROVE  HeartOn(p, b, u, i)
<1>1. Len(x) \in 0 .. Len(x) /\ Len(u) = Len(q) + Len(x)
    BY DEF Grown
<1> DEFINE Start == p.heart[i] \/ Heart(i) \in b
<1>2. Lasts(Len(q), Start, Glows(p, b, q, i), Colds(q, i))
    BY DEF HeartOn, Glows
<1>3. \A k \in 1 .. Len(q) : /\ k \in Glows(p, b, q, i) => k \in Glows(p, b, u, i)
                             /\ k \in Colds(u, i) => k \in Colds(q, i)
    BY GlowsKeep, ColdsKeep
<1>4. \A l \in 1 .. Len(x) : l + Len(q) \notin Colds(u, i)
    BY ColdsKeep
<1> HIDE DEF Start
<1>5. Lasts(Len(q) + Len(x), Start, Glows(p, b, u, i), Colds(u, i))
    BY <1>1, <1>2, <1>3, <1>4, LastsOn
<1> QED
    BY <1>1, <1>5 DEF HeartOn, Glows, Start

LEMMA ColdOn ==
    ASSUME NEW u, NEW q, NEW x, Grown(u, q, x), NEW p, NEW b, NEW i, HeartOff(p, b, q, i), Warms(x, i) = {}
    PROVE  HeartOff(p, b, u, i)
<1>1. Len(x) \in 0 .. Len(x) /\ Len(u) = Len(q) + Len(x)
    BY DEF Grown
<1> DEFINE Start == ~ p.heart[i] \/ Heart(i) \in b
           W(y) == Named(y, "unreact", i) \cup Veils(y, Heart(i))
<1>2. Lasts(Len(q), Start, W(q), Warms(q, i))
    BY DEF HeartOff
<1>3. \A k \in 1 .. Len(q) : /\ k \in W(q) => k \in W(u)
                             /\ k \in Warms(u, i) => k \in Warms(q, i)
    BY OldEvents, ColdsKeep
<1>4. \A l \in 1 .. Len(x) : l + Len(q) \notin Warms(u, i)
    BY ColdsKeep
<1> HIDE DEF Start, W
<1>5. Lasts(Len(q) + Len(x), Start, W(u), Warms(u, i))
    BY <1>1, <1>2, <1>3, <1>4, LastsOn
<1> QED
    BY <1>1, <1>5 DEF HeartOff, W, Start

\* What was not said yet has no heart.
LEMMA UnsaidMeets ==
    ASSUME NEW u, NEW q, NEW x, NEW T, NEW w, NEW t, Meets(u, q, x, T, w, t), NEW i \in Said, t.text[i] = "unsaid"
    PROVE  Quiet(T, i) /\ Warms(x, i) = {}
<1>1. /\ Grown(u, q, x) /\ Rendered(x, T) /\ OfTable(x, T) /\ IsList(T) /\ \A n \in DOMAIN T : EventFits(T[n], t)
    BY DEF Meets, Rendered, TableShape, TableFits
<1>2. ASSUME NEW n \in DOMAIN T, T[n].kind \in {"react", "unreact"}, T[n].of = i PROVE FALSE
    BY <1>1, <1>2 DEF EventFits
<1>3. Quiet(T, i)
    BY <1>2 DEF Quiet
<1>4. Named(x, "react", i) = {}
    <2>1. Named(T, "react", i) = {}
        BY <1>2 DEF Named
    <2>2. "react" \in Early \cup Late
        BY DEF Late
    <2> QED
        BY <1>1, <2>1, <2>2, KeepsNaming
<1>5. ASSUME NEW k \in DOMAIN x, NEW room \in Bundles(x[k]), i \in Shown(room) PROVE FALSE
    <2>1. PICK m \in DOMAIN T : room \in Bundles(T[m])
        BY <1>1, BundlesOf
    <2>2. Behind(room, t)
        BY <1>1, <2>1 DEF EventFits
    <2> QED
        BY <1>5, <2>2 DEF Behind
<1> QED
    BY <1>3, <1>4, <1>5 DEF Warms

LEMMA QuietMeets ==
    ASSUME NEW u, NEW q, NEW x, NEW T, NEW w, NEW t, Meets(u, q, x, T, w, t), ~ Deletes(T), NEW i \in Said,
           t.text[i] \in Words, Quiet(T, i)
    PROVE  IF t.heart[i] THEN Colds(x, i) = {} ELSE Warms(x, i) = {}
<1>1. /\ Grown(u, q, x) /\ Rendered(x, T) /\ OfTable(x, T) /\ IsList(T) /\ TableFits(T, t)
    BY DEF Meets, Rendered, TableShape
<1>2. /\ Named(x, "react", i) = {} /\ Named(x, "unreact", i) = {} /\ Named(x, "unsend", i) = {}
    <2>1. Named(T, "react", i) = {} /\ Named(T, "unreact", i) = {} /\ Named(T, "unsend", i) = {}
        BY <1>1 DEF Quiet, Named, TableFits
    <2>2. "react" \in Early \cup Late /\ "unreact" \in Early \cup Late /\ "unsend" \in Early \cup Late
        BY DEF Late
    <2> QED
        BY <1>1, <2>1, <2>2, KeepsNaming
<1>3. Leaving(x) = {}
    BY Opens DEF Leaving
<1>4. ASSUME NEW k \in DOMAIN x, NEW room \in Bundles(x[k]), i \in Shown(room) PROVE room.heart[i] = t.heart[i]
    <2>1. PICK m \in DOMAIN T : room \in Bundles(T[m])
        BY <1>1, BundlesOf
    <2>2. \/ room.heart[i] = t.heart[i]
          \/ \E l \in DOMAIN T : l > m /\ T[l].kind \in {"react", "unreact"} /\ T[l].of = i
        BY <1>1, <1>4, <2>1 DEF TableFits
    <2> QED
        BY <2>2 DEF Quiet
<1>5. CASE t.heart[i]
    <2>1. ASSUME NEW k \in DOMAIN x, NEW room \in Bundles(x[k]), i \in Shown(room) PROVE room.heart[i]
        BY <1>4, <1>5, <2>1, Zenon
    <2> QED
        BY <1>2, <1>3, <1>5, <2>1 DEF Colds, Losses
<1>6. CASE ~ t.heart[i]
    <2>1. ASSUME NEW k \in DOMAIN x, NEW room \in Bundles(x[k]), i \in Shown(room) PROVE ~ room.heart[i]
        BY <1>4, <1>6, <2>1, Zenon
    <2> QED
        BY <1>2, <1>6, <2>1 DEF Warms
<1> QED
    BY <1>5, <1>6
=============================================================================
