--------------------------- MODULE ReadingProofs ---------------------------
(***************************************************************************)
(* What the login reads: what it syncs, the tables in it, and the messages   *)
(* with their media.                                                         *)
(*                                                                           *)
(* No message is skipped and none is handled again without need, for any     *)
(* databases, any size of block and cache, and any history of drops.         *)
(*                                                                           *)
(* The bot's cache and the cursors keep each other's promises: a message     *)
(* that was handled is among the last the cache holds, counted since the     *)
(* last good sync began, or it lies behind the cursor and waits nowhere.     *)
(*                                                                           *)
(* A plain message and its media, for any messages, any number of downloads  *)
(* at once, any size of a chunk, and as many expiries and mishaps as may be  *)
(* (MaxAge and MaxMishaps are not used).  The message as it is made is sound *)
(* (MessageStands): its pieces are of different files and have ids of their  *)
(* own, a link names the id of its piece, and of two pieces that become one  *)
(* the other is its caption.  MediaInv is inductive: the rows change in      *)
(* nothing but their addresses (RowsInv); a download goes by the row it has  *)
(* found, nothing is renewed before it expired unless something went wrong,  *)
(* and the number of an attachment decides only where another download was   *)
(* through first or something went wrong (AsksInv); what is read of a video  *)
(* and what is held follow each other (ChunksInv).                           *)
(*                                                                           *)
(* A table, for any number of rows in any order, and any payloads, however   *)
(* they are read (MaxTime is not used).  What a loop passes over it chooses, *)
(* and Chosen has of every value as many as the places chosen have           *)
(* (ChosenHas): so the parts of a message are counted, and the events of the *)
(* loops one after the other (EventsAre).  TablesInv is inductive: the       *)
(* bridge remembers an unreaction with the time it was last reported, or     *)
(* has forgotten it when that no longer matters (Recalled); within a table,  *)
(* what is told is told once, and of the rest nothing is forgotten that is   *)
(* still needed (SoFar).                                                     *)
(***************************************************************************)
EXTENDS Sync, Media, Tables, SequenceTheorems, FiniteSetTheorems, WellFoundedInduction, TLAPS

-----------------------------------------------------------------------------
(* The invariant.                                                            *)

\* m is among the last k messages of a window; every message is when k is past counting.
Among(w, k, m) == k > Cap \/ \E i \in DOMAIN w : w[i] = m /\ i > Len(w) - k

Queued(m) == \E i \in DOMAIN queue : queue[i] = m

\* Neither pushed any more nor fetched again.
Settled == {m \in Messages : ~ Queued(m) /\ m[2] <= cursor[m[1]]}

\* The same, as far as the sync that goes on has got.
Settling == {m \in Messages : /\ ~ Queued(m)
                              /\ asked[m[1]] = Idle /\ m[1] \notin behind => m[2] <= cursor[m[1]]}

\* Where the cursors are: a request goes out with the cursor, and the first answer of a
\* database without one decides from where on nothing may be missed.
CursorSound == \A db \in Dbs :
    /\ cursor[db] <= sent[db] /\ from[db] <= cursor[db]
    /\ from[db] = None => cursor[db] = None
    /\ asked[db] \notin {Idle, ToAsk} => asked[db] = cursor[db]
    /\ worker # "syncing" => asked[db] = Idle

\* Only what was sent is queued or handled, and nothing queued was handled before a sync.
QueueSound == \A i \in DOMAIN queue :
    /\ queue[i][2] <= sent[queue[i][1]]
    /\ worker = "greeting" => handled[queue[i]] = 0
HandledSound == \A m \in Messages : handled[m] > 0 => m[2] <= sent[m[1]]
WindowSound == \A i \in DOMAIN window : handled[window[i]] > 0

\* Whoever was handled is remembered or settled.
RememberedSince == \A m \in Messages :
    handled[m] > 0 => Among(window, since, m) \/ m \in Settled
RememberedFresh == worker = "syncing" => \A m \in Messages :
    handled[m] > 0 => Among(window, fresh, m) \/ m \in Settling

SyncIInv == /\ SyncTypeOK /\ CursorSound /\ QueueSound /\ HandledSound /\ WindowSound
            /\ RememberedSince /\ RememberedFresh /\ NothingSkipped
-----------------------------------------------------------------------------
(* Induction.  A set of numbers has a least one, so a set that holds 0 and the *)
(* successor of what it holds leaves no number out.                            *)

LEMMA LeastOne ==
    ASSUME NEW T, T \subseteq Nat, T # {}
    PROVE  \E x \in T : \A y \in T : x <= y
<1> DEFINE lesser == {ss \in Nat \X Nat : ss[1] < ss[2]}
<1>1. \E x \in T : \A y \in T : ~ (<<y, x>> \in OpToRel(<, Nat))
    BY WFMin, NatLessThanWellFounded, Zenon
<1>2. PICK x \in T : \A y \in T : <<y, x>> \notin lesser
    BY <1>1, Zenon DEF OpToRel
<1>3. ASSUME NEW y \in T PROVE x <= y
    <2>1. <<y, x>> \in Nat \X Nat /\ <<y, x>>[1] = y /\ <<y, x>>[2] = x
        OBVIOUS
    <2>2. ~ (<<y, x>>[1] < <<y, x>>[2])
        BY <1>2, <2>1, Zenon
    <2> QED
        BY <2>1, <2>2
<1> QED
    BY <1>3

LEMMA Induction ==
    ASSUME NEW S, 0 \in S, \A n \in Nat : n \in S => n + 1 \in S
    PROVE  Nat \subseteq S
<1> DEFINE T == {n \in Nat : n \notin S}
<1> SUFFICES ASSUME T # {} PROVE FALSE
    OBVIOUS
<1>1. PICK x \in T : \A y \in T : x <= y
    BY LeastOne
<1>2. x - 1 \in Nat /\ x - 1 \in S
    BY <1>1
<1> QED
    BY <1>1, <1>2
-----------------------------------------------------------------------------
(* Messages. *)

LEMMA MessageForm ==
    /\ \A m \in Messages : /\ m[1] \in Dbs /\ m[2] \in 1 .. Sends[m[1]] /\ m[2] \in Nat
                           /\ m = <<m[1], m[2]>>
    /\ \A db \in Dbs : /\ Sends[db] \in Nat
                       /\ \A n \in 1 .. Sends[db] : <<db, n>> \in Messages
<1>1. \A db \in Dbs : Sends[db] \in Nat
    BY SyncAssumption
<1> QED
    BY <1>1 DEF Messages
-----------------------------------------------------------------------------
(* The bot, one message at a time.  OldSince and OldFresh are any sets of      *)
(* messages that need not be remembered.                                       *)

BotType(b) == /\ b.window \in Seq(Messages) /\ Len(b.window) <= Cap
              /\ b.since \in 0 .. Cap + 1 /\ b.fresh \in 0 .. Cap + 1
              /\ b.handled \in [Messages -> 0 .. 2]

Remembers(b, k, old) == \A m \in Messages : b.handled[m] > 0 => Among(b.window, k, m) \/ m \in old

BotSound(b, oldSince, oldFresh) ==
    /\ BotType(b)
    /\ \A i \in DOMAIN b.window : b.handled[b.window[i]] > 0
    /\ Remembers(b, b.since, oldSince) /\ Remembers(b, b.fresh, oldFresh)

LEMMA CountedType ==
    ASSUME NEW n \in 0 .. Cap + 1
    PROVE  /\ Counted(n) \in 0 .. Cap + 1
           /\ n > Cap => Counted(n) > Cap
           /\ n <= Cap => Counted(n) = n + 1
BY SyncAssumption DEF Counted

\* The window after an admission: what was among the last k is among the last k + 1, and
\* so is the new one.
Moved(w, m) == IF Len(w) < Cap THEN Append(w, m) ELSE Append(Tail(w), m)

LEMMA WindowMoves ==
    ASSUME NEW w \in Seq(Messages), Len(w) <= Cap, NEW m \in Messages, NEW k \in 0 .. Cap + 1,
           NEW x, x = Moved(w, m)
    PROVE  /\ x \in Seq(Messages) /\ Len(x) <= Cap
           /\ \A i \in DOMAIN x : x[i] = m \/ \E j \in DOMAIN w : x[i] = w[j]
           /\ Among(x, Counted(k), m)
           /\ \A o : Among(w, k, o) => Among(x, Counted(k), o)
<1>1. Cap \in Nat \ {0} /\ Len(w) \in Nat
    BY SyncAssumption
<1>2. CASE Len(w) < Cap
    <2>1. /\ x \in Seq(Messages) /\ Len(x) = Len(w) + 1 /\ x[Len(x)] = m
          /\ \A i \in DOMAIN w : i \in DOMAIN x /\ x[i] = w[i]
          /\ \A i \in DOMAIN x : i \in DOMAIN w \/ i = Len(x)
          /\ DOMAIN x = 1 .. Len(x) /\ DOMAIN w = 1 .. Len(w)
        BY <1>2 DEF Moved
    <2>2. Among(x, Counted(k), m)
        <3>1. Len(x) \in DOMAIN x
            BY <1>1, <2>1
        <3>2. Counted(k) > Cap \/ Len(x) > Len(x) - Counted(k)
            BY <1>1, <2>1, CountedType
        <3> QED
            BY <2>1, <3>1, <3>2 DEF Among
    <2>3. ASSUME NEW o, Among(w, k, o) PROVE Among(x, Counted(k), o)
        <3>1. CASE k > Cap
            BY <1>1, <3>1, CountedType DEF Among
        <3>2. CASE k <= Cap
            <4>1. PICK i \in DOMAIN w : w[i] = o /\ i > Len(w) - k
                BY <1>1, <2>3, <3>2 DEF Among
            <4>2. i \in DOMAIN x /\ x[i] = o /\ Counted(k) = k + 1
                BY <2>1, <3>2, <4>1, CountedType
            <4>3. i > Len(x) - (k + 1)
                BY <1>1, <2>1, <4>1
            <4> QED
                BY <4>2, <4>3 DEF Among
        <3> QED
            BY <1>1, <3>1, <3>2
    <2> QED
        BY <1>1, <1>2, <2>1, <2>2, <2>3
<1>3. CASE Len(w) = Cap
    <2>1. /\ x \in Seq(Messages) /\ Len(x) = Len(w) /\ x[Len(x)] = m
          /\ \A i \in 2 .. Len(w) : i - 1 \in DOMAIN x /\ x[i - 1] = w[i]
          /\ \A i \in DOMAIN x : (i + 1 \in DOMAIN w /\ x[i] = w[i + 1]) \/ i = Len(x)
          /\ DOMAIN x = 1 .. Len(x) /\ DOMAIN w = 1 .. Len(w)
        <3> DEFINE t == Tail(w)
        <3>1. /\ t \in Seq(Messages) /\ Len(t) = Len(w) - 1 /\ DOMAIN w = 1 .. Len(w)
              /\ \A i \in 1 .. Len(t) : t[i] = w[i + 1]
            BY <1>1, <1>3
        <3>2. x = Append(t, m)
            BY <1>1, <1>3 DEF Moved
        <3> HIDE DEF t
        <3>3. /\ x \in Seq(Messages) /\ Len(x) = Len(t) + 1 /\ x[Len(t) + 1] = m
              /\ \A i \in 1 .. Len(t) : x[i] = t[i]
              /\ DOMAIN x = 1 .. Len(x)
            BY <3>1, <3>2
        <3> QED
            BY <1>1, <1>3, <3>1, <3>3
    <2>2. Among(x, Counted(k), m)
        <3>1. Len(x) \in DOMAIN x
            BY <1>1, <1>3, <2>1
        <3>2. Counted(k) > Cap \/ Len(x) > Len(x) - Counted(k)
            BY <1>1, <1>3, <2>1, CountedType
        <3> QED
            BY <2>1, <3>1, <3>2 DEF Among
    <2>3. ASSUME NEW o, Among(w, k, o) PROVE Among(x, Counted(k), o)
        <3>1. CASE k >= Cap
            BY <1>1, <3>1, CountedType DEF Among
        <3>2. CASE k < Cap
            <4>1. PICK i \in DOMAIN w : w[i] = o /\ i > Len(w) - k
                BY <1>1, <2>3, <3>2 DEF Among
            <4>2. i \in 2 .. Len(w) /\ i - 1 > Len(x) - (k + 1) /\ k \in Nat
                <5>1. /\ i \in 1 .. Len(w) /\ k \in 0 .. Cap + 1 /\ Len(w) = Cap /\ Len(x) = Cap
                      /\ i > Cap - k
                    BY <1>1, <1>3, <2>1, <4>1
                <5> QED
                    BY <1>1, <3>2, <5>1
            <4>3. i - 1 \in DOMAIN x /\ x[i - 1] = o /\ Counted(k) = k + 1
                <5>1. k <= Cap /\ k \in 0 .. Cap + 1
                    BY <1>1, <3>2
                <5>2. Counted(k) = k + 1
                    BY <5>1, CountedType
                <5> QED
                    BY <2>1, <4>1, <4>2, <5>2
            <4> QED
                BY <4>2, <4>3 DEF Among
        <3> QED
            BY <1>1, <3>1, <3>2
    <2> QED
        BY <1>1, <1>3, <2>1, <2>2, <2>3
<1> QED
    BY <1>1, <1>2, <1>3

\* One message: the bot stays sound, remembers it as handled, and handles again only what it
\* no longer holds.
LEMMA AdmitSound ==
    ASSUME NEW b, NEW m \in Messages, NEW oldSince, NEW oldFresh, BotSound(b, oldSince, oldFresh)
    PROVE  /\ BotSound(Admit(b, m), oldSince, oldFresh)
           /\ Admit(b, m).handled[m] > 0
           /\ \A o \in Messages : o # m => Admit(b, m).handled[o] = b.handled[o]
           /\ Admit(b, m).handled[m] # b.handled[m] =>
                  ~ Among(b.window, b.since, m) \/ b.since > Cap
           /\ b.since > Cap => Admit(b, m).since > Cap
           /\ Admit(b, m).handled[m] >= b.handled[m]
<1> DEFINE a == Admit(b, m)
<1>1. CASE Contains(b.window, m)
    <2>1. a = b
        BY <1>1 DEF Admit
    <2>2. PICK i \in DOMAIN b.window : b.window[i] = m
        BY <1>1 DEF Contains, BotSound, BotType
    <2>3. b.handled[m] > 0 /\ b.handled[m] \in 0 .. 2
        BY <2>2 DEF BotSound, BotType
    <2> HIDE DEF a
    <2> QED
        BY <2>1, <2>3 DEF a
<1>2. CASE ~ Contains(b.window, m)
    <2>1. /\ a.window = Moved(b.window, m)
          /\ a.since = Counted(b.since) /\ a.fresh = Counted(b.fresh)
          /\ a.handled = [b.handled EXCEPT ![m] = IF @ = 2 THEN 2 ELSE @ + 1]
        BY <1>2 DEF Admit, Moved
    <2> HIDE DEF a
    <2>2. /\ b.window \in Seq(Messages) /\ Len(b.window) <= Cap
          /\ b.since \in 0 .. Cap + 1 /\ b.fresh \in 0 .. Cap + 1
          /\ b.handled \in [Messages -> 0 .. 2]
        BY DEF BotSound, BotType
    <2>3. /\ a.handled \in [Messages -> 0 .. 2] /\ a.handled[m] > 0
          /\ a.handled[m] >= b.handled[m]
          /\ \A o \in Messages : o # m => a.handled[o] = b.handled[o]
        BY <2>1, <2>2
    <2>4. /\ a.window \in Seq(Messages) /\ Len(a.window) <= Cap
          /\ \A i \in DOMAIN a.window :
                 a.window[i] = m \/ \E j \in DOMAIN b.window : a.window[i] = b.window[j]
        <3>1. 0 \in 0 .. Cap + 1
            BY SyncAssumption
        <3> QED
            BY <2>1, <2>2, <3>1, WindowMoves
    <2>5. BotType(a)
        BY <2>1, <2>2, <2>3, <2>4, CountedType DEF BotType
    <2>6. \A i \in DOMAIN a.window : a.handled[a.window[i]] > 0
        <3> SUFFICES ASSUME NEW i \in DOMAIN a.window PROVE a.handled[a.window[i]] > 0
            OBVIOUS
        <3>1. CASE a.window[i] = m
            BY <2>3, <3>1
        <3>2. CASE a.window[i] # m
            <4>1. PICK j \in DOMAIN b.window : a.window[i] = b.window[j]
                BY <2>4, <3>2
            <4>2. b.window[j] \in Messages /\ b.handled[b.window[j]] > 0
                BY <2>2 DEF BotSound
            <4> QED
                BY <2>3, <3>2, <4>1, <4>2
        <3> QED
            BY <3>1, <3>2
    <2>7. ASSUME NEW k \in 0 .. Cap + 1, NEW old, Remembers(b, k, old)
          PROVE  Remembers(a, Counted(k), old)
        <3> SUFFICES ASSUME NEW o \in Messages, a.handled[o] > 0, o \notin old
                     PROVE  Among(a.window, Counted(k), o)
            BY DEF Remembers
        <3>1. CASE o = m
            BY <2>1, <2>2, <3>1, WindowMoves
        <3>2. CASE o # m
            <4>1. Among(b.window, k, o)
                BY <2>3, <2>7, <3>2 DEF Remembers
            <4> QED
                BY <2>1, <2>2, <4>1, WindowMoves
        <3> QED
            BY <3>1, <3>2
    <2>8. BotSound(a, oldSince, oldFresh)
        BY <2>1, <2>2, <2>5, <2>6, <2>7 DEF BotSound
    <2>9. ~ Among(b.window, b.since, m) \/ b.since > Cap
        BY <1>2, <2>2 DEF Among, Contains
    <2> QED
        BY <2>1, <2>2, <2>3, <2>8, <2>9, CountedType DEF a
<1> QED
    BY <1>1, <1>2
-----------------------------------------------------------------------------
(* The messages of a block, one by one. *)

\* The function Admitted defines is there.
LEMMA AdmissionExists ==
    ASSUME NEW db, NEW k \in Nat, NEW n \in Nat, k <= n
    PROVE  \E f : f = [i \in k .. n |-> IF i = k THEN Bot ELSE Admit(f[i - 1], <<db, i>>)]
<1> DEFINE Steps(f, j) == f = [i \in k .. k + j |-> IF i = k THEN Bot ELSE Admit(f[i - 1], <<db, i>>)]
           S == {j \in Nat : \E f : Steps(f, j)}
<1>1. 0 \in S
    <2>1. Steps([i \in k .. k + 0 |-> Bot], 0)
        OBVIOUS
    <2> QED
        BY <2>1
<1>2. ASSUME NEW j \in Nat, j \in S PROVE j + 1 \in S
    <2>1. PICK f : Steps(f, j)
        BY <1>2
    <2> DEFINE g == [i \in k .. k + (j + 1) |-> IF i = k + (j + 1)
                                                THEN Admit(f[k + j], <<db, i>>) ELSE f[i]]
    <2>2. ASSUME NEW i \in k .. k + (j + 1)
          PROVE  g[i] = IF i = k THEN Bot ELSE Admit(g[i - 1], <<db, i>>)
        <3>1. CASE i = k + (j + 1)
            <4>1. i # k /\ i - 1 = k + j /\ i - 1 \in k .. k + (j + 1) /\ i - 1 # k + (j + 1)
                BY <3>1
            <4>2. g[i - 1] = f[k + j] /\ g[i] = Admit(f[k + j], <<db, i>>)
                BY <3>1, <4>1
            <4> QED
                BY <4>1, <4>2
        <3>2. CASE i # k + (j + 1)
            <4>1. i \in k .. k + j /\ g[i] = f[i]
                BY <3>2
            <4>2. f[i] = IF i = k THEN Bot ELSE Admit(f[i - 1], <<db, i>>)
                BY <2>1, <4>1
            <4>3. i # k => g[i - 1] = f[i - 1]
                BY <3>2
            <4> QED
                BY <4>1, <4>2, <4>3
        <3> QED
            BY <3>1, <3>2
    <2>3. g = [i \in k .. k + (j + 1) |-> g[i]]
        OBVIOUS
    <2> HIDE DEF g
    <2>4. Steps(g, j + 1)
        BY <2>2, <2>3
    <2> QED
        BY <2>4
<1>3. Nat \subseteq S
    <2> HIDE DEF S
    <2> QED
        BY <1>1, <1>2, Induction
<1>4. n - k \in Nat /\ k + (n - k) = n
    OBVIOUS
<1>5. n - k \in S
    <2> HIDE DEF S
    <2> QED
        BY <1>3, <1>4
<1>6. \E f : f = [i \in k .. k + (n - k) |-> IF i = k THEN Bot ELSE Admit(f[i - 1], <<db, i>>)]
    BY <1>5
<1> QED
    BY <1>4, <1>6, Zenon

\* What a block does to the bot that was sound before it.
Brought(db, k, n) == {m \in Messages : m[1] = db /\ k < m[2] /\ m[2] <= n}

Handles(b, db, k, n, oldSince, oldFresh) ==
    /\ BotSound(b, oldSince, oldFresh)
    /\ \A m \in Messages : m \notin Brought(db, k, n) => b.handled[m] = handled[m]
    /\ \A m \in Messages : handled[m] <= b.handled[m]
    /\ \A m \in Brought(db, k, n) : b.handled[m] > 0
    /\ since > Cap => b.since > Cap
    /\ oldSince \cap Brought(db, k, n) = {} =>
         \A m \in Messages : handled[m] = 1 /\ b.handled[m] = 2 => b.since > Cap

LEMMA HandlesNext ==
    ASSUME NEW b, NEW db \in Dbs, NEW k \in Nat, NEW n \in Nat, k <= n, n + 1 <= Sends[db],
           NEW oldSince, NEW oldFresh, Handles(b, db, k, n, oldSince, oldFresh),
           handled \in [Messages -> 0 .. 2]
    PROVE  Handles(Admit(b, <<db, n + 1>>), db, k, n + 1, oldSince, oldFresh)
<1> DEFINE m == <<db, n + 1>>
           a == Admit(b, m)
<1>1. m \in Messages /\ Sends[db] \in Nat /\ m[1] = db /\ m[2] = n + 1
    BY MessageForm
<1>2. \A o \in Messages : o[1] \in Dbs /\ o[2] \in Nat /\ o = <<o[1], o[2]>>
    BY MessageForm
<1> HIDE DEF m
<1>3. /\ \A o \in Messages : o \in Brought(db, k, n + 1) <=> o \in Brought(db, k, n) \/ o = m
      /\ m \notin Brought(db, k, n)
    <2>1. \A o \in Messages : o = m <=> o[1] = db /\ o[2] = n + 1
        BY <1>1, <1>2 DEF m
    <2> QED
        BY <1>1, <1>2, <2>1 DEF Brought
<1>4. /\ BotSound(b, oldSince, oldFresh)
      /\ \A o \in Messages : o \notin Brought(db, k, n) => b.handled[o] = handled[o]
      /\ \A o \in Messages : handled[o] <= b.handled[o]
      /\ \A o \in Brought(db, k, n) : b.handled[o] > 0
      /\ since > Cap => b.since > Cap
      /\ oldSince \cap Brought(db, k, n) = {} =>
           \A o \in Messages : handled[o] = 1 /\ b.handled[o] = 2 => b.since > Cap
    BY DEF Handles
<1>5. /\ BotSound(a, oldSince, oldFresh)
      /\ a.handled[m] > 0
      /\ \A o \in Messages : o # m => a.handled[o] = b.handled[o]
      /\ a.handled[m] # b.handled[m] => ~ Among(b.window, b.since, m) \/ b.since > Cap
      /\ b.since > Cap => a.since > Cap
      /\ a.handled[m] >= b.handled[m]
    BY <1>1, <1>4, AdmitSound
<1> HIDE DEF a
<1>6. \A o \in Messages : o \notin Brought(db, k, n + 1) => a.handled[o] = handled[o]
    BY <1>3, <1>4, <1>5
<1>7. \A o \in Messages : handled[o] <= a.handled[o]
    <2>1. handled[m] = b.handled[m]
        BY <1>1, <1>3, <1>4
    <2> QED
        BY <1>4, <1>5, <2>1
<1>8. \A o \in Brought(db, k, n + 1) : a.handled[o] > 0
    <2>1. \A o \in Brought(db, k, n + 1) : o \in Messages
        BY DEF Brought
    <2> QED
        BY <1>3, <1>4, <1>5, <2>1
<1>9. ASSUME oldSince \cap Brought(db, k, n + 1) = {}, NEW o \in Messages,
             handled[o] = 1, a.handled[o] = 2
      PROVE  a.since > Cap
    <2>1. oldSince \cap Brought(db, k, n) = {} /\ m \notin oldSince
        <3>1. Brought(db, k, n) \subseteq Messages
            BY DEF Brought
        <3> QED
            BY <1>1, <1>3, <1>9, <3>1
    <2>2. CASE o # m
        BY <1>4, <1>5, <1>9, <2>1, <2>2
    <2>3. CASE o = m
        <3>1. b.handled[m] = 1 /\ a.handled[m] # b.handled[m] /\ b.handled[m] > 0
            BY <1>1, <1>3, <1>4, <1>9, <2>3
        <3>2. Among(b.window, b.since, m)
            BY <1>1, <1>4, <2>1, <3>1 DEF BotSound, Remembers
        <3> QED
            BY <1>5, <3>1, <3>2
    <2> QED
        BY <2>2, <2>3
<1> QED
    BY <1>4, <1>5, <1>6, <1>7, <1>8, <1>9 DEF Handles, a, m

LEMMA Admission ==
    ASSUME NEW db \in Dbs, NEW k \in Nat, NEW n \in Nat, k <= n, n <= Sends[db],
           NEW oldSince, NEW oldFresh, BotSound(Bot, oldSince, oldFresh)
    PROVE  Handles(Admitted(db, k, n), db, k, n, oldSince, oldFresh)
<1> DEFINE bot == CHOOSE f : f = [i \in k .. n |-> IF i = k THEN Bot ELSE Admit(f[i - 1], <<db, i>>)]
           S == {j \in Nat : k + j <= n => Handles(bot[k + j], db, k, k + j, oldSince, oldFresh)}
<1>1. Admitted(db, k, n) = bot[n]
    BY DEF Admitted
<1>2. bot = [i \in k .. n |-> IF i = k THEN Bot ELSE Admit(bot[i - 1], <<db, i>>)]
    BY AdmissionExists, ZenonT(60)
<1> HIDE DEF bot
<1>3. \A i \in k .. n : bot[i] = IF i = k THEN Bot ELSE Admit(bot[i - 1], <<db, i>>)
    BY <1>2
<1>4. handled \in [Messages -> 0 .. 2]
    BY DEF BotSound, BotType, Bot
<1>5. 0 \in S
    <2>1. Brought(db, k, k) = {}
        BY MessageForm DEF Brought
    <2>2. \A m \in Messages : handled[m] <= handled[m] /\ ~ (handled[m] = 1 /\ handled[m] = 2)
        BY <1>4
    <2>3. bot[k] = Bot /\ k + 0 = k /\ k \in k .. n
        <3>1. k \in k .. n /\ k + 0 = k
            OBVIOUS
        <3>2. bot[k] = Bot
            BY <1>3, <3>1, Zenon
        <3> QED
            BY <3>1, <3>2
    <2>4. Bot.handled = handled /\ Bot.since = since
        BY DEF Bot
    <2>5. Handles(Bot, db, k, k, oldSince, oldFresh)
        BY <2>1, <2>2, <2>4 DEF Handles
    <2> QED
        BY <2>3, <2>5
<1>6. ASSUME NEW j \in Nat, j \in S PROVE j + 1 \in S
    <2> SUFFICES ASSUME k + (j + 1) <= n
                 PROVE  Handles(bot[k + (j + 1)], db, k, k + (j + 1), oldSince, oldFresh)
        OBVIOUS
    <2> DEFINE i == k + j
    <2>1. /\ i \in Nat /\ k <= i /\ i <= n /\ i + 1 <= n /\ k + (j + 1) = i + 1
          /\ i + 1 \in k .. n /\ i + 1 # k /\ (i + 1) - 1 = i /\ i + 1 <= Sends[db]
        BY MessageForm
    <2>2. Handles(bot[i], db, k, i, oldSince, oldFresh)
        BY <1>6, <2>1
    <2> HIDE DEF i
    <2>3. bot[i + 1] = Admit(bot[i], <<db, i + 1>>)
        BY <1>3, <2>1
    <2>4. Handles(Admit(bot[i], <<db, i + 1>>), db, k, i + 1, oldSince, oldFresh)
        BY <1>4, <2>1, <2>2, HandlesNext
    <2> QED
        BY <2>1, <2>3, <2>4
<1>7. Nat \subseteq S
    <2> HIDE DEF S
    <2> QED
        BY <1>5, <1>6, Induction
<1>8. n - k \in S /\ k + (n - k) = n
    BY <1>7
<1> QED
    BY <1>1, <1>8
-----------------------------------------------------------------------------
(* The invariant, step by step. *)

Forgettable == IF worker = "syncing" THEN Settling ELSE Messages

LEMMA BotIsSound == SyncIInv => BotSound(Bot, Settled, Forgettable)
<1> SUFFICES ASSUME SyncIInv PROVE BotSound(Bot, Settled, Forgettable)
    OBVIOUS
<1>1. /\ Bot.window = window /\ Bot.since = since /\ Bot.fresh = fresh /\ Bot.handled = handled
    BY DEF Bot
<1>2. BotType(Bot)
    BY <1>1 DEF SyncIInv, SyncTypeOK, BotType
<1>3. Remembers(Bot, since, Settled)
    BY <1>1 DEF SyncIInv, RememberedSince, Remembers
<1>4. Remembers(Bot, fresh, Forgettable)
    BY <1>1 DEF SyncIInv, RememberedFresh, Remembers, Forgettable
<1> QED
    BY <1>1, <1>2, <1>3, <1>4 DEF BotSound, SyncIInv, WindowSound

\* A block is handled.
Delivered(db, k, n) ==
    /\ window' \in Seq(Messages) /\ Len(window') <= Cap
    /\ handled' \in [Messages -> 0 .. 2] /\ since' \in 0 .. Cap + 1 /\ fresh' \in 0 .. Cap + 1
    /\ WindowSound'
    /\ \A m \in Messages : handled'[m] > 0 => Among(window', since', m) \/ m \in Settled
    /\ worker = "syncing" =>
         \A m \in Messages : handled'[m] > 0 => Among(window', fresh', m) \/ m \in Settling
    /\ \A m \in Messages : handled[m] > 0 => handled'[m] > 0
    /\ \A m \in Messages : handled'[m] > 0 => handled[m] > 0 \/ m \in Brought(db, k, n)
    /\ \A m \in Brought(db, k, n) : handled'[m] > 0
    /\ Settled \cap Brought(db, k, n) = {} =>
         \A m \in Messages : handled[m] = 1 /\ handled'[m] = 2 => since' > Cap

LEMMA HandleEventDelivers ==
    ASSUME SyncIInv, NEW db \in Dbs, NEW k \in Nat, NEW n \in Nat, k <= n, n <= Sends[db],
           HandleEvent(db, k, n)
    PROVE  Delivered(db, k, n)
<1> DEFINE b == Admitted(db, k, n)
<1>1. Handles(b, db, k, n, Settled, Forgettable)
    BY BotIsSound, Admission
<1>2. window' = b.window /\ handled' = b.handled /\ since' = b.since /\ fresh' = b.fresh
    BY DEF HandleEvent
<1> HIDE DEF b
<1>3. BotSound(b, Settled, Forgettable)
    BY <1>1 DEF Handles
<1>4. handled \in [Messages -> 0 .. 2]
    BY DEF SyncIInv, SyncTypeOK
<1>5. /\ window' \in Seq(Messages) /\ Len(window') <= Cap
      /\ handled' \in [Messages -> 0 .. 2] /\ since' \in 0 .. Cap + 1 /\ fresh' \in 0 .. Cap + 1
    BY <1>2, <1>3 DEF BotSound, BotType
<1>6. WindowSound'
    BY <1>2, <1>3 DEF BotSound, WindowSound
<1>7. \A m \in Messages : handled'[m] > 0 => Among(window', since', m) \/ m \in Settled
    BY <1>2, <1>3 DEF BotSound, Remembers
<1>8. worker = "syncing" =>
        \A m \in Messages : handled'[m] > 0 => Among(window', fresh', m) \/ m \in Settling
    BY <1>2, <1>3 DEF BotSound, Remembers, Forgettable
<1>9. \A m \in Messages : handled[m] <= handled'[m]
    BY <1>1, <1>2 DEF Handles
<1>10. \A m \in Messages : handled[m] > 0 => handled'[m] > 0
    <2> SUFFICES ASSUME NEW m \in Messages, handled[m] > 0 PROVE handled'[m] > 0
        OBVIOUS
    <2>1. handled[m] \in 0 .. 2 /\ handled'[m] \in 0 .. 2 /\ handled[m] <= handled'[m]
        BY <1>4, <1>5, <1>9
    <2> QED
        BY <2>1
<1>11. \A m \in Messages : handled'[m] > 0 => handled[m] > 0 \/ m \in Brought(db, k, n)
    BY <1>1, <1>2 DEF Handles
<1>12. \A m \in Brought(db, k, n) : handled'[m] > 0
    BY <1>1, <1>2 DEF Handles
<1>13. Settled \cap Brought(db, k, n) = {} =>
         \A m \in Messages : handled[m] = 1 /\ handled'[m] = 2 => since' > Cap
    BY <1>1, <1>2 DEF Handles
<1> QED
    BY <1>5, <1>6, <1>7, <1>8, <1>10, <1>11, <1>12, <1>13 DEF Delivered

LEMMA InitInv == Init => SyncIInv
<1> SUFFICES ASSUME Init PROVE SyncIInv
    OBVIOUS
<1>1. \A db \in Dbs : /\ sent[db] = 0 /\ asked[db] = Idle /\ from[db] = cursor[db]
                      /\ cursor[db] \in {0, None}
    BY DEF Init
<1>2. SyncTypeOK
    <2>1. \A f \in {sent, cursor, from, asked} : f \in [Dbs -> Int]
        BY DEF Init, None, Idle
    <2>2. \A db \in Dbs : 0 \in 0 .. Sends[db]
        BY SyncAssumption
    <2>3. 0 \in 0 .. MaxDrops /\ 0 \in 0 .. MaxFails /\ 0 \in 0 .. Cap + 1 /\ 0 <= Cap
        BY SyncAssumption
    <2>4. /\ << >> \in Seq(Messages) /\ Len(<< >>) = 0
          /\ [m \in Messages |-> 0] \in [Messages -> 0 .. 2]
        OBVIOUS
    <2>5. /\ drops \in 0 .. MaxDrops /\ fails \in 0 .. MaxFails
          /\ queue \in Seq(Messages) /\ window \in Seq(Messages) /\ Len(window) <= Cap
          /\ handled \in [Messages -> 0 .. 2] /\ since \in 0 .. Cap + 1 /\ fresh \in 0 .. Cap + 1
        BY <2>3, <2>4, Zenon DEF Init
    <2>6. \A db \in Dbs : /\ sent[db] \in 0 .. Sends[db] /\ asked[db] \in Positions(db) \cup {Idle, ToAsk}
                          /\ cursor[db] \in Positions(db) /\ from[db] \in Positions(db)
        BY <1>1, <2>2 DEF Positions
    <2> QED
        BY <2>1, <2>5, <2>6 DEF Init, SyncTypeOK
<1>3. CursorSound
    BY <1>1 DEF CursorSound, None, Init
<1>4. QueueSound /\ HandledSound /\ WindowSound /\ RememberedSince /\ RememberedFresh
    BY DEF Init, QueueSound, HandledSound, WindowSound, RememberedSince, RememberedFresh
<1>5. NothingSkipped
    BY <1>1, SyncAssumption DEF NothingSkipped, None
<1> QED
    BY <1>2, <1>3, <1>4, <1>5 DEF SyncIInv

\* The numbers of a database.
LEMMA Numbers ==
    SyncIInv => \A db \in Dbs :
      /\ Sends[db] \in Nat /\ sent[db] \in Nat /\ sent[db] <= Sends[db]
      /\ cursor[db] \in Int /\ from[db] \in Int /\ asked[db] \in Int
      /\ -1 <= cursor[db] /\ -1 <= from[db] /\ cursor[db] \in Positions(db)
      /\ asked[db] \in Positions(db) \cup {Idle, ToAsk}
<1> SUFFICES ASSUME SyncIInv, NEW db \in Dbs
             PROVE  /\ Sends[db] \in Nat /\ sent[db] \in Nat /\ sent[db] <= Sends[db]
                    /\ cursor[db] \in Int /\ from[db] \in Int /\ asked[db] \in Int
                    /\ -1 <= cursor[db] /\ -1 <= from[db] /\ cursor[db] \in Positions(db)
                    /\ asked[db] \in Positions(db) \cup {Idle, ToAsk}
    OBVIOUS
<1>1. Sends[db] \in Nat
    BY SyncAssumption
<1>2. /\ sent[db] \in 0 .. Sends[db]
      /\ cursor[db] \in Positions(db) /\ from[db] \in Positions(db)
      /\ asked[db] \in Positions(db) \cup {Idle, ToAsk}
    BY DEF SyncIInv, SyncTypeOK
<1>3. \A p \in Positions(db) : p \in Int /\ -1 <= p
    BY <1>1 DEF Positions, None
<1> QED
    BY <1>1, <1>2, <1>3 DEF Idle, ToAsk

LEMMA SendInv == ASSUME SyncIInv, NEW db \in Dbs, Send(db) PROVE SyncIInv'
<1> DEFINE new == <<db, sent[db] + 1>>
<1>1. /\ sent[db] < Sends[db] /\ sent' = [sent EXCEPT ![db] = @ + 1]
      /\ queue' = queue \/ queue' = Append(queue, new)
      /\ UNCHANGED <<drops, fails, cursor, from, asked, conn, everUp, worker,
                     window, handled, since, fresh, behind>>
    BY DEF Send, storeVars, botVars
<1>2. /\ \A d \in Dbs : /\ Sends[d] \in Nat /\ sent[d] \in Nat
                        /\ sent'[d] \in 0 .. Sends[d] /\ sent[d] <= sent'[d]
      /\ sent'[db] = sent[db] + 1 /\ sent' \in [Dbs -> Int]
    <2>1. sent \in [Dbs -> Int]
        BY DEF SyncIInv, SyncTypeOK
    <2> QED
        BY <1>1, <2>1, Numbers
<1>3. /\ new \in Messages /\ new[1] = db /\ new[2] = sent[db] + 1
      /\ \A m \in Messages : m[1] \in Dbs /\ m[2] \in Nat
    BY <1>1, <1>2, MessageForm
<1>4. handled[new] = 0
    <2>1. handled[new] \in 0 .. 2 /\ ~ (handled[new] > 0)
        BY <1>2, <1>3 DEF SyncIInv, SyncTypeOK, HandledSound
    <2> QED
        BY <2>1
<1> HIDE DEF new
<1>5. queue \in Seq(Messages)
    BY DEF SyncIInv, SyncTypeOK
<1>6. /\ queue' \in Seq(Messages)
      /\ \A i \in DOMAIN queue' : queue'[i] = new \/ \E j \in DOMAIN queue : queue'[i] = queue[j]
    <2>1. CASE queue' = queue
        BY <1>5, <2>1
    <2>2. CASE queue' = Append(queue, new)
        BY <1>3, <1>5, <2>2
    <2> QED
        BY <1>1, <2>1, <2>2
<1>7. \A m \in Messages : handled[m] > 0 /\ ~ Queued(m) => ~ Queued(m)'
    BY <1>4, <1>6 DEF Queued
<1>8. SyncTypeOK'
    BY <1>1, <1>2, <1>6 DEF SyncIInv, SyncTypeOK, Positions
<1>9. CursorSound'
    <2> SUFFICES ASSUME NEW d \in Dbs
                 PROVE  /\ cursor[d] <= sent'[d] /\ from[d] <= cursor[d]
                        /\ from[d] = None => cursor[d] = None
                        /\ asked[d] \notin {Idle, ToAsk} => asked[d] = cursor[d]
                        /\ worker # "syncing" => asked[d] = Idle
        BY <1>1 DEF CursorSound
    <2> QED
        BY <1>2, Numbers DEF SyncIInv, CursorSound
<1>10. QueueSound'
    <2> SUFFICES ASSUME NEW i \in DOMAIN queue'
                 PROVE  /\ queue'[i][2] <= sent'[queue'[i][1]]
                        /\ worker = "greeting" => handled[queue'[i]] = 0
        BY <1>1 DEF QueueSound
    <2>1. CASE queue'[i] = new
        BY <1>2, <1>3, <1>4, <2>1
    <2>2. CASE queue'[i] # new
        <3>1. PICK j \in DOMAIN queue : queue'[i] = queue[j]
            BY <1>6, <2>2
        <3>2. queue[j] \in Messages /\ queue[j][2] <= sent[queue[j][1]]
            BY <1>5 DEF SyncIInv, QueueSound
        <3> QED
            BY <1>2, <1>3, <3>1, <3>2 DEF SyncIInv, QueueSound
    <2> QED
        BY <2>1, <2>2
<1>11. HandledSound'
    BY <1>1, <1>2, <1>3 DEF SyncIInv, HandledSound
<1>12. WindowSound' /\ NothingSkipped'
    BY <1>1 DEF SyncIInv, WindowSound, NothingSkipped
<1>13. RememberedSince'
    <2>1. \A m \in Messages : handled[m] > 0 /\ m \in Settled => m \in Settled'
        BY <1>1, <1>7 DEF Settled
    <2> QED
        BY <1>1, <2>1 DEF SyncIInv, RememberedSince, Among
<1>14. RememberedFresh'
    <2>1. \A m \in Messages : handled[m] > 0 /\ m \in Settling => m \in Settling'
        BY <1>1, <1>7 DEF Settling
    <2> QED
        BY <1>1, <2>1 DEF SyncIInv, RememberedFresh, Among
<1> QED
    BY <1>8, <1>9, <1>10, <1>11, <1>12, <1>13, <1>14 DEF SyncIInv

\* The connection and the worker come and go.
LEMMA DropInv == ASSUME SyncIInv, Drop PROVE SyncIInv'
<1>1. /\ drops < MaxDrops /\ conn' = "down" /\ drops' = drops + 1
      /\ UNCHANGED <<sent, fails, cursor, from, asked, everUp, worker, queue,
                     window, handled, since, fresh, behind>>
    BY DEF Drop, storeVars, botVars
<1>2. SyncTypeOK'
    BY <1>1, SyncAssumption DEF SyncIInv, SyncTypeOK, Positions
<1>3. RememberedSince'
    BY <1>1 DEF SyncIInv, RememberedSince, Among, Settled, Queued
<1>4. RememberedFresh'
    BY <1>1 DEF SyncIInv, RememberedFresh, Among, Settling, Queued
<1> QED
    BY <1>1, <1>2, <1>3, <1>4
    DEF SyncIInv, CursorSound, QueueSound, HandledSound, WindowSound, NothingSkipped

LEMMA ConnectInv == ASSUME SyncIInv, Connect PROVE SyncIInv'
<1>1. /\ worker = "idle" /\ queue = << >> /\ conn' = "up" /\ worker' = "greeting"
      /\ UNCHANGED <<sent, drops, fails, cursor, from, asked, everUp, queue,
                     window, handled, since, fresh, behind>>
    BY DEF Connect, storeVars, botVars, serverVars
<1>2. SyncTypeOK'
    BY <1>1, SyncAssumption DEF SyncIInv, SyncTypeOK, Positions
<1>3. RememberedSince'
    BY <1>1 DEF SyncIInv, RememberedSince, Among, Settled, Queued
<1>4. RememberedFresh' /\ QueueSound'
    BY <1>1 DEF RememberedFresh, QueueSound
<1> QED
    BY <1>1, <1>2, <1>3, <1>4 DEF SyncIInv, CursorSound, HandledSound, WindowSound, NothingSkipped

LEMMA GreetingFailsInv == ASSUME SyncIInv, GreetingFails PROVE SyncIInv'
<1>1. /\ worker = "greeting" /\ conn' = "down" /\ worker' = "idle"
      /\ fails' \in 0 .. MaxFails
      /\ UNCHANGED <<sent, drops, cursor, from, asked, everUp, queue,
                     window, handled, since, fresh, behind>>
    BY SyncAssumption DEF GreetingFails, storeVars, botVars, SyncIInv, SyncTypeOK
<1>2. SyncTypeOK'
    BY <1>1, SyncAssumption DEF SyncIInv, SyncTypeOK, Positions
<1>3. RememberedSince'
    BY <1>1 DEF SyncIInv, RememberedSince, Among, Settled, Queued
<1>4. RememberedFresh' /\ QueueSound'
    BY <1>1 DEF SyncIInv, RememberedFresh, QueueSound
<1> QED
    BY <1>1, <1>2, <1>3, <1>4 DEF SyncIInv, CursorSound, HandledSound, WindowSound, NothingSkipped

LEMMA GreetedInv == ASSUME SyncIInv, Greeted PROVE SyncIInv'
<1>1. /\ worker = "greeting" /\ worker' = "syncing" /\ asked' = [db \in Dbs |-> ToAsk] /\ fresh' = 0
      /\ UNCHANGED <<sent, drops, fails, cursor, from, conn, everUp, queue,
                     window, handled, since, behind>>
    BY DEF Greeted, serverVars
<1>2. \A db \in Dbs : asked'[db] = ToAsk
    BY <1>1
<1>3. SyncTypeOK'
    <2>1. asked' \in [Dbs -> Int] /\ fresh' \in 0 .. Cap + 1
        BY <1>1, SyncAssumption DEF ToAsk
    <2> QED
        BY <1>1, <1>2, <2>1 DEF SyncIInv, SyncTypeOK, Positions
<1>4. CursorSound'
    BY <1>1, <1>2 DEF SyncIInv, CursorSound
<1>5. QueueSound'
    BY <1>1 DEF SyncIInv, QueueSound
<1>6. RememberedSince'
    BY <1>1 DEF SyncIInv, RememberedSince, Among, Settled, Queued
<1>7. RememberedFresh'
    <2> SUFFICES ASSUME NEW m \in Messages, handled[m] > 0 PROVE m \in Settling'
        BY <1>1 DEF RememberedFresh
    <2>1. ~ Queued(m)
        BY <1>1 DEF SyncIInv, QueueSound, Queued
    <2>2. asked'[m[1]] # Idle
        BY <1>2, MessageForm DEF Idle, ToAsk
    <2> QED
        BY <1>1, <2>1, <2>2 DEF Settling, Queued
<1> QED
    BY <1>1, <1>3, <1>4, <1>5, <1>6, <1>7 DEF SyncIInv, HandledSound, WindowSound, NothingSkipped

\* A database's sync.
LEMMA AskInv == ASSUME SyncIInv, NEW db \in Dbs, Ask(db) PROVE SyncIInv'
<1>1. /\ asked[db] = ToAsk /\ asked' = [asked EXCEPT ![db] = cursor[db]]
      /\ UNCHANGED <<sent, drops, fails, cursor, from, conn, everUp, worker, queue,
                     window, handled, since, fresh, behind>>
    BY DEF Ask, serverVars, connVars, botVars
<1>2. /\ asked' \in [Dbs -> Int] /\ asked'[db] = cursor[db]
      /\ \A d \in Dbs : d # db => asked'[d] = asked[d]
      /\ cursor[db] \in Positions(db) /\ cursor[db] \in Int /\ -1 <= cursor[db]
    BY <1>1, Numbers DEF SyncIInv, SyncTypeOK
<1>3. SyncTypeOK'
    BY <1>1, <1>2 DEF SyncIInv, SyncTypeOK, Positions
<1>4. worker = "syncing"
    BY <1>1 DEF SyncIInv, CursorSound, Idle, ToAsk
<1>5. CursorSound'
    BY <1>1, <1>2, <1>4 DEF SyncIInv, CursorSound
<1>6. RememberedSince'
    BY <1>1 DEF SyncIInv, RememberedSince, Among, Settled, Queued
<1>7. RememberedFresh'
    <2>1. \A m \in Messages : m \in Settling => m \in Settling'
        BY <1>1, <1>2, MessageForm DEF Settling, Queued, Idle, ToAsk
    <2> QED
        BY <1>1, <2>1 DEF SyncIInv, RememberedFresh, Among
<1> QED
    BY <1>1, <1>3, <1>5, <1>6, <1>7
    DEF SyncIInv, QueueSound, HandledSound, WindowSound, NothingSkipped

LEMMA SyncFailsInv == ASSUME SyncIInv, NEW db \in Dbs, SyncFails(db) PROVE SyncIInv'
<1>1. /\ asked[db] # Idle /\ asked' = [asked EXCEPT ![db] = Idle]
      /\ fails' \in 0 .. MaxFails /\ behind' = behind \cup {db}
      /\ UNCHANGED <<sent, drops, cursor, from, conn, everUp, worker, queue,
                     window, handled, since, fresh>>
    BY SyncAssumption DEF SyncFails, connVars, botVars, SyncIInv, SyncTypeOK
<1>2. /\ asked' \in [Dbs -> Int] /\ asked'[db] = Idle
      /\ \A d \in Dbs : d # db => asked'[d] = asked[d]
    BY <1>1 DEF SyncIInv, SyncTypeOK, Idle
<1>3. SyncTypeOK'
    BY <1>1, <1>2 DEF SyncIInv, SyncTypeOK, Positions
<1>4. worker = "syncing"
    BY <1>1 DEF SyncIInv, CursorSound
<1>5. CursorSound'
    BY <1>1, <1>2, <1>4 DEF SyncIInv, CursorSound
<1>6. RememberedSince'
    BY <1>1 DEF SyncIInv, RememberedSince, Among, Settled, Queued
<1>7. RememberedFresh'
    <2>1. \A m \in Messages : m \in Settling => m \in Settling'
        BY <1>1, <1>2, MessageForm DEF Settling, Queued
    <2> QED
        BY <1>1, <2>1 DEF SyncIInv, RememberedFresh, Among
<1> QED
    BY <1>1, <1>3, <1>5, <1>6, <1>7
    DEF SyncIInv, QueueSound, HandledSound, WindowSound, NothingSkipped

LEMMA SyncedInv == ASSUME SyncIInv, Synced PROVE SyncIInv'
<1>1. /\ worker = "syncing" /\ \A db \in Dbs : asked[db] = Idle
      /\ worker' = "idle" /\ everUp' = TRUE
      /\ since' = IF behind = {} THEN fresh ELSE since
      /\ UNCHANGED <<sent, drops, fails, cursor, from, asked, conn, queue,
                     window, handled, fresh, behind>>
    BY DEF Synced, serverVars, storeVars
<1>2. SyncTypeOK'
    BY <1>1 DEF SyncIInv, SyncTypeOK, Positions
<1>3. RememberedSince'
    <2>1. Settled' = Settled
        BY <1>1 DEF Settled, Queued
    <2>2. CASE behind # {}
        BY <1>1, <2>1, <2>2 DEF SyncIInv, RememberedSince, Among
    <2>3. CASE behind = {}
        <3>1. Settling = Settled
            BY <1>1, <2>3, MessageForm DEF Settled, Settling
        <3> QED
            BY <1>1, <2>1, <2>3, <3>1 DEF SyncIInv, RememberedSince, RememberedFresh, Among
    <2> QED
        BY <2>2, <2>3
<1>4. RememberedFresh' /\ QueueSound' /\ CursorSound'
    BY <1>1 DEF SyncIInv, RememberedFresh, QueueSound, CursorSound
<1> QED
    BY <1>1, <1>2, <1>3, <1>4 DEF SyncIInv, HandledSound, WindowSound, NothingSkipped

\* The message at the head of the queue is handled, and it is not one that is settled.
LEMMA PushDelivers ==
    ASSUME SyncIInv, Push
    PROVE  LET m == Head(queue)
           IN /\ m \in Messages /\ queue \in Seq(Messages) /\ queue # << >> /\ Queued(m)
              /\ Delivered(m[1], m[2] - 1, m[2])
              /\ Brought(m[1], m[2] - 1, m[2]) = {m}
<1> DEFINE m == Head(queue)
<1>1. queue \in Seq(Messages) /\ queue # << >> /\ HandlePush(m)
    BY DEF Push, SyncIInv, SyncTypeOK
<1>2. m \in Messages /\ 1 \in DOMAIN queue /\ queue[1] = m
    BY <1>1
<1> HIDE DEF m
<1>3. /\ m[1] \in Dbs /\ m[2] \in Nat /\ m[2] - 1 \in Nat /\ m[2] <= Sends[m[1]]
      /\ m[2] - 1 <= m[2]
    BY <1>2, MessageForm
<1>4. Delivered(m[1], m[2] - 1, m[2])
    BY <1>1, <1>3, HandleEventDelivers DEF HandlePush
<1>5. Brought(m[1], m[2] - 1, m[2]) = {m}
    <2>1. \A o \in Messages : o[1] = m[1] /\ o[2] = m[2] => o = m
        BY <1>2, MessageForm
    <2>2. \A o \in Messages : o[2] \in Nat
        BY MessageForm
    <2> QED
        BY <1>2, <1>3, <2>1, <2>2 DEF Brought
<1> QED
    BY <1>1, <1>2, <1>4, <1>5 DEF Queued, m

LEMMA PushInv == ASSUME SyncIInv, Push PROVE SyncIInv'
<1> DEFINE h == Head(queue)
<1>1. /\ worker = "idle" /\ queue' = Tail(queue)
      /\ UNCHANGED <<sent, drops, fails, cursor, from, asked, conn, everUp, worker, behind>>
    BY DEF Push, serverVars, storeVars
<1>2. /\ h \in Messages /\ queue \in Seq(Messages) /\ queue # << >> /\ Queued(h)
      /\ Delivered(h[1], h[2] - 1, h[2]) /\ Brought(h[1], h[2] - 1, h[2]) = {h}
    BY PushDelivers
<1>3. /\ queue' \in Seq(Messages)
      /\ \A i \in DOMAIN queue' : i + 1 \in DOMAIN queue /\ queue'[i] = queue[i + 1]
    BY <1>1, <1>2
<1> HIDE DEF h
<1>4. SyncTypeOK'
    BY <1>1, <1>2, <1>3 DEF SyncIInv, SyncTypeOK, Positions, Delivered
<1>5. CursorSound'
    BY <1>1 DEF SyncIInv, CursorSound
<1>6. QueueSound' /\ RememberedFresh'
    BY <1>1, <1>3 DEF SyncIInv, QueueSound, RememberedFresh
<1>7. HandledSound'
    <2>1. h[2] <= sent[h[1]]
        BY <1>2 DEF SyncIInv, QueueSound, Queued
    <2> QED
        BY <1>1, <1>2, <2>1 DEF SyncIInv, HandledSound, Delivered
<1>8. WindowSound'
    BY <1>2 DEF Delivered
<1>9. RememberedSince'
    <2>1. \A m \in Messages : m \in Settled => m \in Settled'
        BY <1>1, <1>3 DEF Settled, Queued
    <2> QED
        BY <1>2, <2>1 DEF RememberedSince, Among, Delivered
<1>10. NothingSkipped'
    BY <1>1, <1>2, MessageForm DEF SyncIInv, NothingSkipped, Delivered
<1> QED
    BY <1>4, <1>5, <1>6, <1>7, <1>8, <1>9, <1>10 DEF SyncIInv

\* What an answer brings begins behind the cursor and ends with what was sent; when it ends
\* where it began, nothing is left.
LEMMA AnswerForm ==
    ASSUME SyncIInv, NEW db \in Dbs, Receive(db)
    PROVE  LET k == Answer(db).after
               n == Answer(db).next
           IN /\ k \in Nat /\ n \in Nat /\ k <= n /\ n <= sent[db] /\ cursor[db] <= k
              /\ cursor[db] # None => k = cursor[db]
              /\ n = asked[db] => n = sent[db]
              /\ asked[db] = cursor[db] /\ cursor[db] <= n
              /\ Delivered(db, k, n) /\ worker = "syncing"
<1> DEFINE k == Answer(db).after
           n == Answer(db).next
<1>1. /\ asked[db] \notin {Idle, ToAsk} /\ HandleEvent(db, k, n)
    BY DEF Receive
<1>2. /\ asked[db] = cursor[db] /\ cursor[db] <= sent[db] /\ worker = "syncing"
    BY <1>1 DEF SyncIInv, CursorSound
<1>3. /\ Sends[db] \in Nat /\ sent[db] \in Nat /\ sent[db] <= Sends[db]
      /\ cursor[db] \in Int /\ -1 <= cursor[db]
    BY Numbers
<1>4. CASE asked[db] = None
    <2>1. k = sent[db] /\ n = sent[db] /\ cursor[db] = -1
        BY <1>2, <1>4 DEF Answer, None
    <2> HIDE DEF k, n
    <2>2. Delivered(db, k, n)
        BY <1>1, <1>3, <2>1, HandleEventDelivers
    <2> QED
        BY <1>2, <1>3, <2>1, <2>2 DEF k, n, None
<1>5. CASE asked[db] # None
    <2>1. k = cursor[db] /\ n = IF cursor[db] + Block < sent[db] THEN cursor[db] + Block ELSE sent[db]
        BY <1>2, <1>5 DEF Answer
    <2>2. Block \in Nat \ {0} /\ cursor[db] # -1
        BY <1>2, <1>5, SyncAssumption DEF None
    <2> HIDE DEF k, n
    <2>3. /\ k \in Nat /\ n \in Nat /\ k <= n /\ n <= sent[db] /\ n <= Sends[db]
          /\ n = cursor[db] => n = sent[db]
        BY <1>2, <1>3, <2>1, <2>2
    <2>4. Delivered(db, k, n)
        BY <1>1, <2>3, HandleEventDelivers
    <2> QED
        BY <1>2, <1>3, <2>1, <2>3, <2>4 DEF k, n
<1> QED
    BY <1>4, <1>5

LEMMA ReceiveInv == ASSUME SyncIInv, NEW db \in Dbs, Receive(db) PROVE SyncIInv'
<1> DEFINE k == Answer(db).after
           n == Answer(db).next
           last == n = asked[db]
<1>1. /\ k \in Nat /\ n \in Nat /\ k <= n /\ n <= sent[db] /\ cursor[db] <= k
      /\ cursor[db] # None => k = cursor[db]
      /\ last => n = sent[db]
      /\ asked[db] = cursor[db] /\ cursor[db] <= n
      /\ Delivered(db, k, n) /\ worker = "syncing"
    BY AnswerForm
<1>2. /\ asked' = [asked EXCEPT ![db] = IF last THEN Idle ELSE ToAsk]
      /\ cursor' = IF last THEN cursor ELSE [cursor EXCEPT ![db] = n]
      /\ from' = IF from[db] = None THEN [from EXCEPT ![db] = n] ELSE from
      /\ behind' = IF last THEN behind \ {db} ELSE behind
      /\ UNCHANGED <<sent, drops, fails, conn, everUp, worker, queue>>
    BY DEF Receive, serverVars, connVars
<1> HIDE DEF k, n
<1>3. /\ asked \in [Dbs -> Int] /\ cursor \in [Dbs -> Int] /\ from \in [Dbs -> Int]
    BY DEF SyncIInv, SyncTypeOK
<1>4. /\ asked' \in [Dbs -> Int] /\ cursor' \in [Dbs -> Int] /\ from' \in [Dbs -> Int]
      /\ asked'[db] \in {Idle, ToAsk}
      /\ cursor'[db] = n
      /\ from'[db] = IF from[db] = None THEN n ELSE from[db]
      /\ \A d \in Dbs : d # db => asked'[d] = asked[d] /\ cursor'[d] = cursor[d] /\ from'[d] = from[d]
    BY <1>1, <1>2, <1>3 DEF Idle, ToAsk
<1>5. /\ Sends[db] \in Nat /\ sent[db] \in Nat /\ sent[db] <= Sends[db]
      /\ cursor[db] \in Int /\ from[db] \in Int /\ from[db] <= cursor[db]
      /\ n \in Positions(db)
    <2>1. /\ Sends[db] \in Nat /\ sent[db] \in Nat /\ sent[db] <= Sends[db]
          /\ cursor[db] \in Int /\ from[db] \in Int
        BY Numbers
    <2>2. from[db] <= cursor[db]
        BY DEF SyncIInv, CursorSound
    <2> QED
        BY <1>1, <2>1, <2>2 DEF Positions
<1>6. SyncTypeOK'
    <2>1. \A f \in {sent', cursor', from', asked'} : f \in [Dbs -> Int]
        BY <1>2, <1>4 DEF SyncIInv, SyncTypeOK
    <2>2. \A d \in Dbs : /\ sent'[d] \in 0 .. Sends[d]
                         /\ cursor'[d] \in Positions(d) /\ from'[d] \in Positions(d)
                         /\ asked'[d] \in Positions(d) \cup {Idle, ToAsk}
        BY <1>2, <1>4, <1>5 DEF SyncIInv, SyncTypeOK
    <2>3. /\ window' \in Seq(Messages) /\ Len(window') <= Cap
          /\ handled' \in [Messages -> 0 .. 2] /\ since' \in 0 .. Cap + 1 /\ fresh' \in 0 .. Cap + 1
        BY <1>1 DEF Delivered
    <2>4. behind' \subseteq Dbs
        BY <1>2 DEF SyncIInv, SyncTypeOK
    <2> QED
        BY <1>2, <2>1, <2>2, <2>3, <2>4 DEF SyncIInv, SyncTypeOK, Positions
<1>7. CursorSound'
    <2> SUFFICES ASSUME NEW d \in Dbs
                 PROVE  /\ cursor'[d] <= sent[d] /\ from'[d] <= cursor'[d]
                        /\ from'[d] = None => cursor'[d] = None
                        /\ asked'[d] \notin {Idle, ToAsk} => asked'[d] = cursor'[d]
                        /\ worker # "syncing" => asked'[d] = Idle
        BY <1>2 DEF CursorSound
    <2>1. CASE d # db
        BY <1>4, <2>1 DEF SyncIInv, CursorSound
    <2>2. CASE d = db
        BY <1>1, <1>4, <1>5, <2>2 DEF None
    <2> QED
        BY <2>1, <2>2
<1>8. QueueSound'
    BY <1>1, <1>2 DEF SyncIInv, QueueSound
<1>9. HandledSound'
    <2> SUFFICES ASSUME NEW m \in Messages, handled'[m] > 0 PROVE m[2] <= sent[m[1]]
        BY <1>2 DEF HandledSound
    <2>1. CASE handled[m] > 0
        BY <2>1 DEF SyncIInv, HandledSound
    <2>2. CASE m \in Brought(db, k, n)
        <3>1. m[1] = db /\ m[2] <= n /\ m[2] \in Nat
            BY <2>2, MessageForm DEF Brought
        <3> QED
            BY <1>1, <1>5, <3>1
    <2> QED
        BY <1>1, <2>1, <2>2 DEF Delivered
<1>10. WindowSound'
    BY <1>1 DEF Delivered
<1>11. \A d \in Dbs : cursor[d] \in Int /\ cursor'[d] \in Int /\ cursor[d] <= cursor'[d]
    <2>1. \A d \in Dbs : cursor[d] \in Int /\ cursor'[d] \in Int
        BY <1>3, <1>4
    <2> QED
        BY <1>1, <1>4, <2>1
<1>12. \A m \in Messages : m[1] \in Dbs /\ m[2] \in Nat
    BY MessageForm
<1>13. RememberedSince'
    <2>1. \A m \in Messages : m \in Settled => m \in Settled'
        BY <1>2, <1>11, <1>12 DEF Settled, Queued
    <2> QED
        BY <1>1, <2>1 DEF RememberedSince, Among, Delivered
<1>14. RememberedFresh'
    <2> SUFFICES ASSUME NEW m \in Messages, handled'[m] > 0, m \in Settling
                 PROVE  m \in Settling'
        BY <1>1, <1>2 DEF RememberedFresh, Among, Delivered
    <2>1. ~ Queued(m)'
        BY <1>2 DEF Settling, Queued
    <2>2. CASE m[1] # db
        BY <1>2, <1>4, <1>12, <2>1, <2>2 DEF Settling
    <2>3. CASE m[1] = db
        <3>1. CASE last
            <4>1. m[2] <= sent'[m[1]]
                BY <1>9 DEF HandledSound
            <4> QED
                BY <1>1, <1>2, <1>4, <1>12, <2>1, <2>3, <3>1, <4>1 DEF Settling
        <3>2. CASE ~ last
            <4>1. asked'[db] = ToAsk
                BY <1>2, <1>3, <3>2
            <4> QED
                BY <2>1, <2>3, <4>1 DEF Settling, Idle, ToAsk
        <3> QED
            BY <3>1, <3>2
    <2> QED
        BY <2>2, <2>3
<1>15. NothingSkipped'
    <2> SUFFICES ASSUME NEW d \in Dbs, NEW i \in 1 .. Sends[d],
                        from'[d] # None, from'[d] < i, i <= cursor'[d]
                 PROVE  handled'[<<d, i>>] > 0
        BY DEF NothingSkipped
    <2>1. <<d, i>> \in Messages /\ Sends[d] \in Nat
        BY MessageForm
    <2>2. CASE d # db
        <3>1. handled[<<d, i>>] > 0
            BY <1>4, <2>2 DEF SyncIInv, NothingSkipped
        <3> QED
            BY <1>1, <2>1, <3>1 DEF Delivered
    <2>3. CASE d = db /\ i <= cursor[db]
        <3>1. from[db] # None
            BY <1>1, <1>4, <1>5, <2>1, <2>3 DEF None
        <3>2. handled[<<d, i>>] > 0
            BY <1>4, <2>3, <3>1 DEF SyncIInv, NothingSkipped
        <3> QED
            BY <1>1, <2>1, <3>2 DEF Delivered
    <2>4. CASE d = db /\ ~ (i <= cursor[db])
        <3>1. from[db] # None
            BY <1>1, <1>4, <1>5, <2>1, <2>4
        <3>2. cursor[db] # None
            <4>1. from[db] \in Int /\ -1 <= from[db]
                BY Numbers
            <4> QED
                BY <1>5, <3>1, <4>1 DEF None
        <3>3. k = cursor[db] /\ k < i /\ i <= n
            BY <1>1, <1>4, <1>5, <2>1, <2>4, <3>2
        <3>4. <<d, i>> \in Brought(db, k, n)
            BY <2>1, <2>4, <3>3 DEF Brought
        <3> QED
            BY <1>1, <3>4 DEF Delivered
    <2> QED
        BY <2>2, <2>3, <2>4
<1> QED
    BY <1>6, <1>7, <1>8, <1>9, <1>10, <1>13, <1>14, <1>15 DEF SyncIInv

LEMMA StutterInv == SyncIInv /\ UNCHANGED syncVars => SyncIInv'
<1> SUFFICES ASSUME SyncIInv, UNCHANGED syncVars PROVE SyncIInv'
    OBVIOUS
<1>1. UNCHANGED <<sent, drops, fails, cursor, from, asked, conn, everUp, worker, queue,
                  window, handled, since, fresh, behind>>
    BY DEF syncVars, serverVars, storeVars, connVars, botVars
<1>2. SyncTypeOK'
    BY <1>1 DEF SyncIInv, SyncTypeOK, Positions
<1>3. RememberedSince' /\ RememberedFresh'
    BY <1>1 DEF SyncIInv, RememberedSince, RememberedFresh, Among, Settled, Settling, Queued
<1> QED
    BY <1>1, <1>2, <1>3
    DEF SyncIInv, CursorSound, QueueSound, HandledSound, WindowSound, NothingSkipped

LEMMA NextInv == SyncIInv /\ [Next]_syncVars => SyncIInv'
<1> SUFFICES ASSUME SyncIInv, [Next]_syncVars PROVE SyncIInv'
    OBVIOUS
<1>1. ASSUME NEW db \in Dbs, Send(db) PROVE SyncIInv'
    BY <1>1, SendInv
<1>2. ASSUME NEW db \in Dbs, DbStep(db) PROVE SyncIInv'
    BY <1>2, AskInv, ReceiveInv, SyncFailsInv DEF DbStep
<1>3. CASE WorkerStep
    BY <1>3, GreetingFailsInv, GreetedInv, SyncedInv, PushInv DEF WorkerStep
<1> QED
    BY <1>1, <1>2, <1>3, DropInv, ConnectInv, StutterInv DEF Next

THEOREM Invariance == Spec => []SyncIInv
BY InitInv, NextInv, PTL DEF Spec

\* No message is skipped: whatever drops, fails or is pushed in between, the cursor of a
\* database passes only what the bot has handled (SyncSocketData), and the cache holds only
\* what was handled.
THEOREM NoMessageIsSkipped == Spec => []SyncInv
<1>1. SyncIInv => SyncInv
    BY DEF SyncIInv, SyncInv, WindowSound
<1> QED
    BY <1>1, Invariance, PTL

\* A message is handled a second time only when more messages than the cache holds were
\* handled since the last sync of all databases that succeeded began.
THEOREM NoneIsHandledAgainInBetween == Spec => OnceBetweenSyncs
<1> DEFINE Again == \A m \in Messages : handled[m] = 1 /\ handled'[m] = 2 => since' > Cap
<1>1. SyncIInv /\ [Next]_syncVars => [Again]_syncVars
    <2> SUFFICES ASSUME SyncIInv, Next PROVE Again
        OBVIOUS
    <2>1. CASE handled' = handled
        <3>1. \A m \in Messages : handled[m] = 1 => handled[m] # 2
            OBVIOUS
        <3> QED
            BY <2>1, <3>1
    <2>2. ASSUME NEW db \in Dbs, Receive(db) PROVE Again
        <3> DEFINE k == Answer(db).after
                   n == Answer(db).next
        <3>1. cursor[db] \in Int /\ cursor[db] <= k /\ k \in Nat /\ Delivered(db, k, n)
            BY <2>2, AnswerForm, Numbers
        <3> HIDE DEF k, n
        <3>2. Settled \cap Brought(db, k, n) = {}
            <4> SUFFICES ASSUME NEW m \in Settled, m \in Brought(db, k, n) PROVE FALSE
                OBVIOUS
            <4>1. m \in Messages /\ m[1] = db /\ k < m[2] /\ m[2] <= cursor[m[1]] /\ m[2] \in Nat
                BY MessageForm DEF Settled, Brought
            <4> QED
                BY <3>1, <4>1
        <3> QED
            BY <3>1, <3>2 DEF Delivered
    <2>3. CASE Push
        <3> DEFINE h == Head(queue)
        <3>1. Queued(h) /\ Delivered(h[1], h[2] - 1, h[2]) /\ Brought(h[1], h[2] - 1, h[2]) = {h}
            BY <2>3, PushDelivers
        <3> HIDE DEF h
        <3>2. Settled \cap {h} = {}
            BY <3>1 DEF Settled
        <3> QED
            BY <3>1, <3>2 DEF Delivered
    <2>4. ASSUME NEW db \in Dbs, Send(db) \/ Ask(db) \/ SyncFails(db) PROVE handled' = handled
        BY <2>4 DEF Send, Ask, SyncFails, botVars
    <2>5. CASE Drop \/ Connect \/ GreetingFails \/ Greeted \/ Synced
        <3>1. handled' = handled
            BY <2>5 DEF Drop, Connect, GreetingFails, Greeted, Synced, botVars
        <3> QED
            BY <2>1, <3>1
    <2> HIDE DEF Again
    <2> QED
        BY <2>1, <2>2, <2>3, <2>4, <2>5 DEF Next, DbStep, WorkerStep
<1> HIDE DEF Again
<1>2. Spec => [][Again]_syncVars
    BY <1>1, Invariance, PTL DEF Spec
<1> QED
    BY <1>2 DEF OnceBetweenSyncs, Again

-----------------------------------------------------------------------------
(* A plain message and its media.                                            *)

-----------------------------------------------------------------------------
(* Sequences. *)

\* No element twice.
Apart(s) == \A i, j \in DOMAIN s : s[i] = s[j] => i = j

LEMMA AppendIs ==
    ASSUME NEW T, NEW s \in Seq(T), NEW x \in T, Apart(s), \A i \in DOMAIN s : s[i] # x
    PROVE  /\ Append(s, x) \in Seq(T) /\ Apart(Append(s, x))
           /\ \A i \in DOMAIN Append(s, x) : Append(s, x)[i] = x \/ \E j \in DOMAIN s : Append(s, x)[i] = s[j]
<1>1. /\ Append(s, x) \in Seq(T) /\ Len(Append(s, x)) = Len(s) + 1 /\ Len(s) \in Nat
      /\ \A i \in 1 .. Len(s) : Append(s, x)[i] = s[i]
      /\ Append(s, x)[Len(s) + 1] = x
      /\ DOMAIN Append(s, x) = 1 .. (Len(s) + 1) /\ DOMAIN s = 1 .. Len(s)
    OBVIOUS
<1>2. PICK t : t = Append(s, x)
    OBVIOUS
<1>3. \A i \in DOMAIN t : i = Len(s) + 1 \/ i \in DOMAIN s
    BY <1>1, <1>2
<1> QED
    BY <1>1, <1>2, <1>3 DEF Apart

LEMMA ConcatIs ==
    ASSUME NEW T, NEW s \in Seq(T), NEW t \in Seq(T), Apart(s), Apart(t),
           \A i \in DOMAIN s, j \in DOMAIN t : s[i] # t[j]
    PROVE  /\ s \o t \in Seq(T) /\ Apart(s \o t)
           /\ \A i \in DOMAIN (s \o t) : \/ \E j \in DOMAIN s : (s \o t)[i] = s[j]
                                         \/ \E j \in DOMAIN t : (s \o t)[i] = t[j]
<1>1. PICK u : u = s \o t
    OBVIOUS
<1>2. /\ u \in Seq(T) /\ Len(u) = Len(s) + Len(t) /\ Len(s) \in Nat /\ Len(t) \in Nat
      /\ \A i \in 1 .. Len(s) : u[i] = s[i]
      /\ \A i \in (Len(s) + 1) .. (Len(s) + Len(t)) : u[i] = t[i - Len(s)]
      /\ DOMAIN u = 1 .. (Len(s) + Len(t)) /\ DOMAIN s = 1 .. Len(s) /\ DOMAIN t = 1 .. Len(t)
    BY <1>1
<1>3. ASSUME NEW i \in DOMAIN u
      PROVE  \/ i \in DOMAIN s /\ u[i] = s[i]
             \/ i - Len(s) \in DOMAIN t /\ u[i] = t[i - Len(s)] /\ i \in Int
    BY <1>2
<1>4. Apart(u)
    <2> SUFFICES ASSUME NEW i \in DOMAIN u, NEW j \in DOMAIN u, u[i] = u[j] PROVE i = j
        BY DEF Apart
    <2>1. CASE i \in DOMAIN s /\ u[i] = s[i]
        <3>1. j \in DOMAIN s /\ u[j] = s[j]
            BY <1>3, <2>1
        <3> QED
            BY <2>1, <3>1 DEF Apart
    <2>2. CASE i - Len(s) \in DOMAIN t /\ u[i] = t[i - Len(s)] /\ i \in Int
        <3>1. j - Len(s) \in DOMAIN t /\ u[j] = t[j - Len(s)] /\ j \in Int
            BY <1>3, <2>2
        <3>2. i - Len(s) = j - Len(s)
            BY <2>2, <3>1 DEF Apart
        <3> QED
            BY <1>2, <2>2, <3>1, <3>2
    <2> QED
        BY <1>3, <2>1, <2>2
<1> QED
    BY <1>1, <1>2, <1>3, <1>4

\* The numbers InOrder collects up to k: each of them once, and all there are.
Climbs(s, k, those) == /\ s \in Seq(Nat) /\ Apart(s)
                       /\ \A i \in DOMAIN s : s[i] \in those /\ s[i] \in 1 .. k
                       /\ \A m \in 1 .. k : m \in those => \E i \in DOMAIN s : s[i] = m

LEMMA OrderExists ==
    ASSUME NEW n \in Nat, NEW those
    PROVE  \E upto : upto = [k \in 0 .. n |-> IF k = 0 THEN << >>
                                ELSE Adding(upto[k - 1], k, those)]
<1> DEFINE Steps(f, j) == f = [k \in 0 .. j |-> IF k = 0 THEN << >>
                                               ELSE Adding(f[k - 1], k, those)]
           S == {j \in Nat : \E f : Steps(f, j)}
<1>1. 0 \in S
    <2>1. Steps([k \in 0 .. 0 |-> << >>], 0)
        OBVIOUS
    <2> QED
        BY <2>1
<1>2. ASSUME NEW j \in Nat, j \in S PROVE j + 1 \in S
    <2>1. PICK f : Steps(f, j)
        BY <1>2
    <2> DEFINE g == [k \in 0 .. (j + 1) |-> IF k = j + 1
                                            THEN Adding(f[j], k, those)
                                            ELSE f[k]]
    <2>2. ASSUME NEW k \in 0 .. (j + 1)
          PROVE  g[k] = IF k = 0 THEN << >> ELSE Adding(g[k - 1], k, those)
        <3>1. CASE k = j + 1
            <4>1. k # 0 /\ k - 1 = j /\ k - 1 \in 0 .. (j + 1) /\ k - 1 # j + 1
                BY <3>1
            <4>2. g[k - 1] = f[j] /\ g[k] = Adding(f[j], k, those)
                BY <3>1, <4>1
            <4> QED
                BY <4>1, <4>2
        <3>2. CASE k # j + 1
            <4>1. k \in 0 .. j /\ g[k] = f[k]
                BY <3>2
            <4>2. f[k] = IF k = 0 THEN << >> ELSE Adding(f[k - 1], k, those)
                BY <2>1, <4>1
            <4>3. k # 0 => g[k - 1] = f[k - 1]
                BY <3>2
            <4> QED
                BY <4>1, <4>2, <4>3
        <3> QED
            BY <3>1, <3>2
    <2>3. g = [k \in 0 .. (j + 1) |-> g[k]]
        OBVIOUS
    <2> HIDE DEF g
    <2>4. Steps(g, j + 1)
        BY <2>2, <2>3
    <2>5. j + 1 \in Nat
        OBVIOUS
    <2> QED
        BY <2>4, <2>5, Zenon
<1>3. Nat \subseteq S
    <2> HIDE DEF S
    <2> QED
        BY <1>1, <1>2, Induction
<1> QED
    BY <1>3

LEMMA InOrderIs ==
    ASSUME NEW n \in Nat, NEW those
    PROVE  Climbs(InOrder(n, those), n, those)
<1> DEFINE f == CHOOSE upto : upto = [k \in 0 .. n |-> IF k = 0 THEN << >>
                                ELSE Adding(upto[k - 1], k, those)]
           S == {k \in Nat : k <= n => Climbs(f[k], k, those)}
<1>1. InOrder(n, those) = f[n]
    BY DEF InOrder
<1>2. f = [k \in 0 .. n |-> IF k = 0 THEN << >> ELSE Adding(f[k - 1], k, those)]
    BY OrderExists, Zenon
<1> HIDE DEF f
<1>3. \A k \in 0 .. n : f[k] = IF k = 0 THEN << >> ELSE Adding(f[k - 1], k, those)
    BY <1>2
<1>4. 0 \in S
    <2>1. f[0] = << >>
        BY <1>3
    <2>2. Climbs(<< >>, 0, those)
        BY DEF Climbs, Apart
    <2> QED
        BY <2>1, <2>2
<1>5. ASSUME NEW k \in Nat, k \in S PROVE k + 1 \in S
    <2> SUFFICES ASSUME k + 1 <= n PROVE Climbs(f[k + 1], k + 1, those)
        OBVIOUS
    <2>1. PICK s : s = f[k]
        OBVIOUS
    <2>2. /\ s \in Seq(Nat) /\ Apart(s) /\ \A i \in DOMAIN s : s[i] \in those /\ s[i] \in 1 .. k
          /\ \A m \in 1 .. k : m \in those => \E i \in DOMAIN s : s[i] = m
        BY <1>5, <2>1 DEF Climbs
    <2>3. f[k + 1] = IF k + 1 \in those THEN Append(s, k + 1) ELSE s
        <3>1. k + 1 \in 0 .. n /\ k + 1 # 0 /\ (k + 1) - 1 = k
            OBVIOUS
        <3> QED
            BY <1>3, <2>1, <3>1 DEF Adding
    <2>4. CASE k + 1 \in those
        <3>1. k + 1 \in Nat /\ \A i \in DOMAIN s : s[i] # k + 1
            BY <2>2
        <3>2. PICK m : m = k + 1
            OBVIOUS
        <3>3. /\ Append(s, m) \in Seq(Nat) /\ Apart(Append(s, m))
              /\ \A i \in DOMAIN Append(s, m) :
                   Append(s, m)[i] = m \/ \E j \in DOMAIN s : Append(s, m)[i] = s[j]
            BY <2>2, <3>1, <3>2, AppendIs
        <3>4. \A j \in DOMAIN s : s[j] \in those /\ s[j] \in 1 .. m
            BY <2>2, <3>2
        <3>5. m \in those /\ m \in 1 .. m
            BY <2>4, <3>2
        <3>6. \A i \in DOMAIN Append(s, m) : Append(s, m)[i] \in those /\ Append(s, m)[i] \in 1 .. m
            BY <3>3, <3>4, <3>5
        <3>7. ASSUME NEW x \in 1 .. m, x \in those PROVE \E i \in DOMAIN Append(s, m) : Append(s, m)[i] = x
            <4>1. /\ DOMAIN Append(s, m) = 1 .. (Len(s) + 1) /\ DOMAIN s = 1 .. Len(s) /\ Len(s) \in Nat
                  /\ Append(s, m)[Len(s) + 1] = m /\ \A i \in 1 .. Len(s) : Append(s, m)[i] = s[i]
                BY <2>2
            <4>2. CASE x = m
                BY <4>1, <4>2
            <4>3. CASE x # m
                <5>1. x \in 1 .. k
                    BY <3>2, <4>3
                <5>2. PICK i \in DOMAIN s : s[i] = x
                    BY <2>2, <3>7, <5>1
                <5> QED
                    BY <4>1, <5>2
            <4> QED
                BY <4>2, <4>3
        <3>8. Climbs(Append(s, m), m, those)
            BY <3>3, <3>6, <3>7 DEF Climbs
        <3> QED
            BY <2>3, <2>4, <3>2, <3>8
    <2>5. CASE k + 1 \notin those
        <3>1. \A i \in DOMAIN s : s[i] \in 1 .. (k + 1)
            BY <2>2
        <3>2. \A m \in 1 .. (k + 1) : m \in those => m \in 1 .. k
            BY <2>5
        <3> QED
            BY <2>2, <2>3, <2>5, <3>1, <3>2 DEF Climbs
    <2> QED
        BY <2>4, <2>5
<1>6. Nat \subseteq S
    <2> HIDE DEF S
    <2> QED
        BY <1>4, <1>5, Induction
<1> QED
    BY <1>1, <1>6

-----------------------------------------------------------------------------
(* A message: where its pieces come from.                                    *)

LEMMA LetterIs == ASSUME NEW l \in Letters PROVE LetterShape(l) /\ FilesApart(l)
BY MediaAssumption DEF MediaAssumption

LEMMA PlaceIs ==
    ASSUME NEW l, NEW p \in Places(l)
    PROVE  /\ p = <<p[1], p[2]>> /\ p[1] \in {"blob", "attachment", "share", "sticker"}
           /\ p[1] = "blob" => p[2] \in DOMAIN l.blobs
           /\ p[1] = "attachment" => p[2] \in DOMAIN l.legacies
           /\ p[1] = "share" => p[2] \in DOMAIN l.shares
           /\ p[1] = "sticker" => p[2] \in DOMAIN l.stickers
<1>1. PICK A : A = DOMAIN l.blobs
    OBVIOUS
<1>2. PICK B : B = DOMAIN l.legacies
    OBVIOUS
<1>3. PICK C : C = DOMAIN l.shares
    OBVIOUS
<1>4. PICK D : D = DOMAIN l.stickers
    OBVIOUS
<1>5. p \in ({"blob"} \X A) \cup ({"attachment"} \X B) \cup ({"share"} \X C) \cup ({"sticker"} \X D)
    BY <1>1, <1>2, <1>3, <1>4 DEF Places
<1>6. /\ p = <<p[1], p[2]>> /\ p[1] \in {"blob", "attachment", "share", "sticker"}
      /\ p[1] = "blob" => p[2] \in A
      /\ p[1] = "attachment" => p[2] \in B
      /\ p[1] = "share" => p[2] \in C
      /\ p[1] = "sticker" => p[2] \in D
    BY <1>5
<1> QED
    BY <1>1, <1>2, <1>3, <1>4, <1>6

\* Of the blobs that came twice the first is taken, of the shares those that are shown.
Taken(l, p) ==
    /\ p[1] = "blob" => ~ l.blobs[p[2]].mark \/ \A h \in 1 .. (p[2] - 1) : l.blobs[h] # l.blobs[p[2]]
    /\ p[1] = "share" => l.shares[p[2]].kind \notin {"preview", "poll"}

\* A list of places, each of them once.
Listed(s, lists, l) == /\ s \in Seq(Places(l)) /\ Apart(s)
                       /\ \A i \in DOMAIN s : s[i][1] \in lists /\ Taken(l, s[i])

LEMMA AtIs ==
    ASSUME NEW list, NEW s \in Seq(Nat), Apart(s), NEW T, \A i \in DOMAIN s : <<list, s[i]>> \in T
    PROVE  /\ At(list, s) \in Seq(T) /\ Apart(At(list, s))
           /\ DOMAIN At(list, s) = DOMAIN s /\ \A i \in DOMAIN s : At(list, s)[i] = <<list, s[i]>>
<1>1. DOMAIN s = 1 .. Len(s) /\ Len(s) \in Nat
    OBVIOUS
<1>2. PICK t : t = At(list, s)
    OBVIOUS
<1>3. t = [k \in 1 .. Len(s) |-> <<list, s[k]>>]
    BY <1>1, <1>2 DEF At
<1>4. /\ DOMAIN t = 1 .. Len(s) /\ \A i \in 1 .. Len(s) : t[i] = <<list, s[i]>> /\ t[i] \in T
    BY <1>1, <1>3
<1>5. t \in Seq(T)
    BY <1>1, <1>3, <1>4
<1>6. Apart(t)
    BY <1>1, <1>4 DEF Apart
<1> QED
    BY <1>1, <1>2, <1>4, <1>5, <1>6

LEMMA ListedTogether ==
    ASSUME NEW l, NEW A, NEW B, NEW s, NEW t, Listed(s, A, l), Listed(t, B, l), A \cap B = {}
    PROVE  Listed(s \o t, A \cup B, l)
<1>1. /\ s \in Seq(Places(l)) /\ t \in Seq(Places(l)) /\ Apart(s) /\ Apart(t)
      /\ \A i \in DOMAIN s : s[i][1] \in A /\ Taken(l, s[i])
      /\ \A i \in DOMAIN t : t[i][1] \in B /\ Taken(l, t[i])
    BY DEF Listed
<1>2. \A i \in DOMAIN s, j \in DOMAIN t : s[i] # t[j]
    BY <1>1
<1>3. PICK u : u = s \o t
    OBVIOUS
<1>4. /\ u \in Seq(Places(l)) /\ Apart(u)
      /\ \A i \in DOMAIN u : (\E j \in DOMAIN s : u[i] = s[j]) \/ (\E j \in DOMAIN t : u[i] = t[j])
    BY <1>1, <1>2, <1>3, ConcatIs
<1>5. \A i \in DOMAIN u : u[i][1] \in A \cup B /\ Taken(l, u[i])
    BY <1>1, <1>4
<1> QED
    BY <1>3, <1>4, <1>5 DEF Listed

LEMMA NumbersListed ==
    ASSUME NEW l, NEW n \in Nat, NEW those, NEW list,
           \A i \in 1 .. n : i \in those => <<list, i>> \in Places(l) /\ Taken(l, <<list, i>>)
    PROVE  Listed(At(list, InOrder(n, those)), {list}, l)
<1>1. PICK s : s = InOrder(n, those)
    OBVIOUS
<1>2. s \in Seq(Nat) /\ Apart(s) /\ \A i \in DOMAIN s : s[i] \in those /\ s[i] \in 1 .. n
    BY <1>1, InOrderIs DEF Climbs
<1>3. \A i \in DOMAIN s : <<list, s[i]>> \in Places(l) /\ Taken(l, <<list, s[i]>>)
    BY <1>2
<1>4. PICK t : t = At(list, s)
    OBVIOUS
<1>5. PICK T : T = Places(l)
    OBVIOUS
<1>6. /\ t \in Seq(T) /\ Apart(t) /\ DOMAIN t = DOMAIN s /\ \A i \in DOMAIN s : t[i] = <<list, s[i]>>
    BY <1>2, <1>3, <1>4, <1>5, AtIs
<1>7. ASSUME NEW i \in DOMAIN t PROVE t[i][1] \in {list} /\ Taken(l, t[i])
    <2>1. t[i] = <<list, s[i]>> /\ Taken(l, <<list, s[i]>>)
        BY <1>3, <1>6
    <2>2. t[i][1] = list
        BY <2>1
    <2> QED
        BY <2>1, <2>2, Zenon
<1> QED
    BY <1>1, <1>4, <1>5, <1>6, <1>7 DEF Listed

LEMMA SourcesAre ==
    ASSUME NEW l \in Letters
    PROVE  Listed(Sources(l), {"blob", "attachment", "share", "sticker"}, l)
<1>1. /\ Len(l.blobs) \in Nat /\ DOMAIN l.blobs = 1 .. Len(l.blobs)
      /\ Len(l.legacies) \in Nat /\ DOMAIN l.legacies = 1 .. Len(l.legacies)
      /\ Len(l.shares) \in Nat /\ DOMAIN l.shares = 1 .. Len(l.shares)
      /\ Len(l.stickers) \in Nat /\ DOMAIN l.stickers = 1 .. Len(l.stickers)
    BY LetterIs DEF LetterShape
<1>2. Listed(At("blob", ShownBlobs(l)), {"blob"}, l)
    <2> DEFINE those == {i \in DOMAIN l.blobs : ~ l.blobs[i].mark
                                                \/ \A h \in 1 .. (i - 1) : l.blobs[h] # l.blobs[i]}
    <2>1. \A i \in 1 .. Len(l.blobs) : i \in those => <<"blob", i>> \in Places(l) /\ Taken(l, <<"blob", i>>)
        BY <1>1 DEF Places, Taken
    <2>2. ShownBlobs(l) = InOrder(Len(l.blobs), those)
        BY DEF ShownBlobs
    <2> HIDE DEF those
    <2> QED
        BY <1>1, <2>1, <2>2, NumbersListed
<1>3. Listed(At("attachment", InOrder(Len(l.legacies), Nat)), {"attachment"}, l)
    <2>1. \A i \in 1 .. Len(l.legacies) : <<"attachment", i>> \in Places(l) /\ Taken(l, <<"attachment", i>>)
        BY <1>1 DEF Places, Taken
    <2> QED
        BY <1>1, <2>1, NumbersListed
<1>4. Listed(At("share", ShownShares(l)), {"share"}, l)
    <2> DEFINE those == {i \in DOMAIN l.shares : l.shares[i].kind \notin {"preview", "poll"}}
    <2>1. \A i \in 1 .. Len(l.shares) : i \in those => <<"share", i>> \in Places(l) /\ Taken(l, <<"share", i>>)
        BY <1>1 DEF Places, Taken
    <2>2. ShownShares(l) = InOrder(Len(l.shares), those)
        BY DEF ShownShares
    <2> HIDE DEF those
    <2> QED
        BY <1>1, <2>1, <2>2, NumbersListed
<1>5. PICK last : last = IF IsThumb(l) THEN << >> ELSE At("sticker", InOrder(Len(l.stickers), Nat))
    OBVIOUS
<1>6. Listed(last, {"sticker"}, l)
    <2>1. \A i \in 1 .. Len(l.stickers) : <<"sticker", i>> \in Places(l) /\ Taken(l, <<"sticker", i>>)
        BY <1>1 DEF Places, Taken
    <2>2. Listed(At("sticker", InOrder(Len(l.stickers), Nat)), {"sticker"}, l)
        BY <1>1, <2>1, NumbersListed
    <2>3. Listed(<< >>, {"sticker"}, l)
        BY DEF Listed, Apart
    <2> QED
        BY <1>5, <2>2, <2>3
<1>7. Listed(At("blob", ShownBlobs(l)) \o At("attachment", InOrder(Len(l.legacies), Nat)),
             {"blob"} \cup {"attachment"}, l)
    BY <1>2, <1>3, ListedTogether
<1>8. Listed(At("blob", ShownBlobs(l)) \o At("attachment", InOrder(Len(l.legacies), Nat))
               \o At("share", ShownShares(l)), ({"blob"} \cup {"attachment"}) \cup {"share"}, l)
    BY <1>4, <1>7, ListedTogether
<1>9. Listed(Sources(l), (({"blob"} \cup {"attachment"}) \cup {"share"}) \cup {"sticker"}, l)
    <2>1. (({"blob"} \cup {"attachment"}) \cup {"share"}) \cap {"sticker"} = {}
        OBVIOUS
    <2> QED
        BY <1>5, <1>6, <1>8, <2>1, ListedTogether DEF Sources
<1> QED
    BY <1>9 DEF Listed

\* No file is shown twice.
LEMMA FilesOnce ==
    ASSUME NEW l \in Letters, NEW i \in DOMAIN Sources(l), NEW j \in DOMAIN Sources(l),
           FileAt(l, Sources(l)[i]) = FileAt(l, Sources(l)[j])
    PROVE  i = j
<1>1. PICK s : s = Sources(l)
    OBVIOUS
<1>2. s \in Seq(Places(l)) /\ Apart(s) /\ \A k \in DOMAIN s : Taken(l, s[k])
    BY <1>1, SourcesAre DEF Listed
<1>3. PICK p \in Places(l) : p = s[i]
    BY <1>1, <1>2
<1>4. PICK q \in Places(l) : q = s[j]
    BY <1>1, <1>2
<1>5. p = q \/ (p[1] = "blob" /\ q[1] = "blob" /\ l.blobs[p[2]] = l.blobs[q[2]] /\ l.blobs[p[2]].mark)
    BY <1>1, <1>3, <1>4, LetterIs DEF FilesApart
<1>6. CASE p # q
    <2>1. p[2] \in DOMAIN l.blobs /\ q[2] \in DOMAIN l.blobs /\ p = <<"blob", p[2]>> /\ q = <<"blob", q[2]>>
        <3>1. p[1] = "blob" /\ q[1] = "blob"
            BY <1>5, <1>6, Zenon
        <3>2. p[2] \in DOMAIN l.blobs /\ p = <<"blob", p[2]>>
            BY <3>1, PlaceIs
        <3>3. q[2] \in DOMAIN l.blobs /\ q = <<"blob", q[2]>>
            BY <3>1, PlaceIs
        <3> QED
            BY <3>2, <3>3
    <2>2. DOMAIN l.blobs = 1 .. Len(l.blobs) /\ Len(l.blobs) \in Nat
        BY LetterIs DEF LetterShape
    <2>3. p[2] # q[2] /\ p[2] \in Nat \ {0} /\ q[2] \in Nat \ {0}
        BY <1>6, <2>1, <2>2
    <2>4. /\ \A h \in 1 .. (p[2] - 1) : l.blobs[h] # l.blobs[p[2]]
          /\ \A h \in 1 .. (q[2] - 1) : l.blobs[h] # l.blobs[q[2]]
        BY <1>1, <1>2, <1>3, <1>4, <1>5, <1>6 DEF Taken
    <2> QED
        BY <1>5, <1>6, <2>3, <2>4
<1>7. CASE p = q
    BY <1>1, <1>2, <1>3, <1>4, <1>7 DEF Apart
<1> QED
    BY <1>6, <1>7

-----------------------------------------------------------------------------
(* The pieces. *)

IsPiece(x) == x = [shows |-> x.shows, of |-> x.of, place |-> x.place, id |-> x.id, uri |-> x.uri,
                   meta |-> x.meta, opens |-> x.opens, caption |-> x.caption]
IsMeta(m) == m = [url |-> m.url, by |-> m.by, index |-> m.index, expires |-> m.expires]

\* No medium, or a link and what it takes to follow it.
Linked(x) ==
    \/ x.id = Unnumbered /\ x.uri = Unnumbered /\ x.meta = NoMeta
    \/ /\ x.id = x.place /\ x.uri = x.place
       /\ IsMeta(x.meta) /\ x.meta.url = <<x.of, 0>> /\ x.meta.by # "no medium"

\* A piece as it comes out of the handler of its kind.
Raw(x, of, place) == IsPiece(x) /\ x.of = of /\ x.place = place /\ x.caption = FALSE /\ Linked(x)
Openly(x, l) == x.shows = "notice" => x.opens # "nowhere" \/ x.of \in Withheld(l)

\* What is not of a medium.
Bare(x) == x.id = Unnumbered /\ x.uri = Unnumbered /\ x.meta = NoMeta

LEMMA PieceIs ==
    ASSUME NEW shows, NEW of, NEW place
    PROVE  /\ Raw(Piece(shows, of, place), of, place) /\ Bare(Piece(shows, of, place))
           /\ Piece(shows, of, place).shows = shows /\ Piece(shows, of, place).opens = "nowhere"
BY DEF Piece, Raw, IsPiece, Linked, Bare

\* To say where else a piece can be looked at changes nothing else.
LEMMA OpensElse ==
    ASSUME NEW x, NEW of, NEW place, NEW where, Raw(x, of, place)
    PROVE  /\ Raw([x EXCEPT !.opens = where], of, place)
           /\ Bare(x) => Bare([x EXCEPT !.opens = where])
           /\ [x EXCEPT !.opens = where].shows = x.shows /\ [x EXCEPT !.opens = where].opens = where
<1>1. PICK y : y = [x EXCEPT !.opens = where]
    OBVIOUS
<1>2. y = [shows |-> x.shows, of |-> x.of, place |-> x.place, id |-> x.id, uri |-> x.uri,
           meta |-> x.meta, opens |-> where, caption |-> x.caption]
    BY <1>1 DEF Raw, IsPiece
<1> QED
    BY <1>1, <1>2 DEF Raw, IsPiece, Linked, Bare

LEMMA NoticeIs ==
    ASSUME NEW of, NEW place
    PROVE  /\ Raw(Notice(of, place), of, place) /\ Bare(Notice(of, place))
           /\ Notice(of, place).shows = "notice" /\ Notice(of, place).opens = "thread"
<1>1. Notice(of, place) = [Piece("notice", of, place) EXCEPT !.opens = "thread"]
    BY DEF Notice
<1>2. PICK x : x = Piece("notice", of, place)
    OBVIOUS
<1>3. Raw(x, of, place) /\ Bare(x) /\ x.shows = "notice"
    BY <1>2, PieceIs
<1> QED
    BY <1>1, <1>2, <1>3, OpensElse

LEMMA ReuploadedIs ==
    ASSUME NEW shows, NEW a, NEW place, NEW by, NEW index, by # "no medium", shows # "notice"
    PROVE  /\ Raw(Reuploaded(shows, a, place, by, index), a.file, place)
           /\ Reuploaded(shows, a, place, by, index).shows = "notice" =>
                Reuploaded(shows, a, place, by, index).opens # "nowhere"
<1>1. PICK x : x = Reuploaded(shows, a, place, by, index)
    OBVIOUS
<1>2. CASE ~ a.url \/ a.file \in bad
    <2>1. x = Notice(a.file, place)
        BY <1>1, <1>2 DEF Reuploaded
    <2> QED
        BY <1>1, <2>1, NoticeIs
<1>3. CASE ~ (~ a.url \/ a.file \in bad) /\ direct
    <2>1. x = [Piece(shows, a.file, place) EXCEPT !.id = place, !.uri = place,
                                                  !.meta = Renewable(<<a.file, 0>>, by, index)]
        BY <1>1, <1>3 DEF Reuploaded
    <2>2. x = [shows |-> shows, of |-> a.file, place |-> place, id |-> place, uri |-> place,
               meta |-> Renewable(<<a.file, 0>>, by, index), opens |-> "nowhere", caption |-> FALSE]
        BY <2>1 DEF Piece
    <2>3. PICK m : m = Renewable(<<a.file, 0>>, by, index)
        OBVIOUS
    <2>4. IsMeta(m) /\ m.url = <<a.file, 0>> /\ m.by # "no medium"
        BY <2>3 DEF Renewable, IsMeta
    <2>5. Raw(x, a.file, place) /\ x.shows # "notice"
        BY <2>2, <2>3, <2>4 DEF Raw, IsPiece, Linked
    <2> QED
        BY <1>1, <2>5
<1>4. CASE ~ (~ a.url \/ a.file \in bad) /\ ~ direct
    <2>1. x = Piece(shows, a.file, place)
        BY <1>1, <1>4 DEF Reuploaded
    <2>2. Raw(x, a.file, place) /\ x.shows = shows
        BY <2>1, PieceIs
    <2> QED
        BY <1>1, <2>2
<1> QED
    BY <1>2, <1>3, <1>4

LEMMA SharePieceIs ==
    ASSUME NEW l \in Letters, NEW i \in DOMAIN l.shares
    PROVE  Raw(SharePiece(l, i), l.shares[i].file, <<"share", i>>) /\ Openly(SharePiece(l, i), l)
<1>1. PICK a : a = l.shares[i]
    OBVIOUS
<1>2. PICK place : place = <<"share", i>>
    OBVIOUS
<1>3. PICK x : x = SharePiece(l, i)
    OBVIOUS
<1>4. CASE a.kind \in {"place", "livePlace"}
    <2>1. x = PlaceShare(a, place)
        BY <1>1, <1>2, <1>3, <1>4 DEF SharePiece
    <2>2. Raw(x, a.file, place) /\ (x.shows = "notice" => a.kind = "livePlace")
        BY <1>4, <2>1, PieceIs DEF PlaceShare
    <2>3. a.kind = "livePlace" => a.file \in Withheld(l)
        BY <1>1 DEF Withheld
    <2>4. Openly(x, l)
        BY <2>2, <2>3 DEF Openly, Raw
    <2> QED
        BY <1>1, <1>2, <1>3, <2>2, <2>4
<1>5. CASE a.kind = "profile"
    <2>1. x = [Piece("text", a.file, place) EXCEPT !.opens = "page"]
        BY <1>1, <1>2, <1>3, <1>5 DEF SharePiece, ProfileShare
    <2>2. PICK y : y = Piece("text", a.file, place)
        OBVIOUS
    <2>3. Raw(y, a.file, place) /\ y.shows = "text"
        BY <2>2, PieceIs
    <2>4. PICK w : w = "page"
        OBVIOUS
    <2>5. x = [y EXCEPT !.opens = w]
        BY <2>1, <2>2, <2>4
    <2>6. Raw(x, a.file, place) /\ x.shows = "text"
        BY <2>3, <2>5, OpensElse
    <2> QED
        BY <1>1, <1>2, <1>3, <2>6 DEF Openly
<1>6. CASE a.kind \notin {"place", "livePlace", "profile"} /\ ~ a.url /\ a.title
    <2>1. x = Piece("text", a.file, place)
        BY <1>1, <1>2, <1>3, <1>6 DEF SharePiece
    <2>2. Raw(x, a.file, place) /\ x.shows = "text"
        BY <2>1, PieceIs
    <2> QED
        BY <1>1, <1>2, <1>3, <2>2 DEF Openly
<1>7. CASE a.kind \notin {"place", "livePlace", "profile"} /\ ~ (~ a.url /\ a.title)
    <2>1. PICK by : by = IF a.kind \in Fetchable /\ a.file \in fetched THEN a.kind ELSE "nothing"
        OBVIOUS
    <2>2. by # "no medium"
        BY <2>1 DEF Fetchable
    <2>3. PICK y : y = Reuploaded("media", a, place, by, 0)
        OBVIOUS
    <2>4. Raw(y, a.file, place) /\ (y.shows = "notice" => y.opens # "nowhere")
        BY <2>2, <2>3, ReuploadedIs
    <2>5. PICK w : w = IF y.opens = "nowhere" /\ a.kind \in Fetchable THEN "page" ELSE y.opens
        OBVIOUS
    <2>6. PICK z : z = FullShare(a, place)
        OBVIOUS
    <2>7. z = [y EXCEPT !.opens = w]
        BY <2>1, <2>3, <2>5, <2>6 DEF FullShare
    <2>8. Raw(z, a.file, place) /\ (z.shows = "notice" => z.opens # "nowhere")
        BY <2>4, <2>5, <2>7, OpensElse
    <2>9. PICK v : v = IF z.opens # "page" /\ a.page THEN "page" ELSE z.opens
        OBVIOUS
    <2>10. x = [z EXCEPT !.opens = v]
        BY <1>1, <1>2, <1>3, <1>7, <2>6, <2>9 DEF SharePiece
    <2>11. Raw(x, a.file, place) /\ (x.shows = "notice" => x.opens # "nowhere")
        BY <2>8, <2>9, <2>10, OpensElse
    <2> QED
        BY <1>1, <1>2, <1>3, <2>11 DEF Openly
<1> QED
    BY <1>4, <1>5, <1>6, <1>7

LEMMA PieceOfIs ==
    ASSUME NEW l \in Letters, NEW p \in Places(l)
    PROVE  Raw(PieceOf(l, p), FileAt(l, p), p) /\ Openly(PieceOf(l, p), l)
<1>1. CASE p[1] = "blob"
    <2>1. p = <<"blob", p[2]>> /\ PieceOf(l, p) = BlobPiece(l, p[2]) /\ FileAt(l, p) = l.blobs[p[2]].file
        BY <1>1, PlaceIs DEF PieceOf, FileAt
    <2>2. PICK by : by = IF l.blobs[p[2]].mark THEN "messages" ELSE "nothing"
        OBVIOUS
    <2>3. PieceOf(l, p) = Reuploaded("media", l.blobs[p[2]], p, by, p[2])
        BY <2>1, <2>2 DEF BlobPiece
    <2>4. by # "no medium"
        BY <2>2
    <2> QED
        BY <2>1, <2>3, <2>4, ReuploadedIs DEF Openly
<1>2. CASE p[1] = "attachment"
    <2>1. p = <<"attachment", p[2]>> /\ PieceOf(l, p) = LegacyPiece(l, p[2])
          /\ FileAt(l, p) = l.legacies[p[2]].file /\ p[2] \in DOMAIN l.legacies
        BY <1>2, PlaceIs DEF PieceOf, FileAt
    <2>2. CASE l.legacies[p[2]].once
        <3>1. PieceOf(l, p) = Piece("notice", FileAt(l, p), p)
            BY <2>1, <2>2 DEF LegacyPiece
        <3>2. FileAt(l, p) \in Withheld(l)
            BY <2>1, <2>2 DEF Withheld
        <3>3. Raw(PieceOf(l, p), FileAt(l, p), p)
            BY <3>1, PieceIs
        <3> QED
            BY <3>2, <3>3 DEF Openly, Raw
    <2>3. CASE ~ l.legacies[p[2]].once
        <3>1. PICK by : by = IF l.legacies[p[2]].mark THEN "messages" ELSE "nothing"
            OBVIOUS
        <3>2. PieceOf(l, p) = Reuploaded("media", l.legacies[p[2]], p, by, p[2])
            BY <2>1, <2>3, <3>1 DEF LegacyPiece
        <3>3. by # "no medium"
            BY <3>1
        <3> QED
            BY <2>1, <3>2, <3>3, ReuploadedIs DEF Openly
    <2> QED
        BY <2>2, <2>3
<1>3. CASE p[1] = "share"
    <2>1. p = <<"share", p[2]>> /\ PieceOf(l, p) = SharePiece(l, p[2])
          /\ FileAt(l, p) = l.shares[p[2]].file /\ p[2] \in DOMAIN l.shares
        BY <1>3, PlaceIs DEF PieceOf, FileAt
    <2> QED
        BY <2>1, SharePieceIs
<1>4. CASE p[1] = "sticker"
    <2>1. p = <<"sticker", p[2]>> /\ PieceOf(l, p) = StickerPiece(l, p[2])
          /\ FileAt(l, p) = l.stickers[p[2]].file
        BY <1>4, PlaceIs DEF PieceOf, FileAt
    <2>2. PieceOf(l, p) = Reuploaded("sticker", l.stickers[p[2]], p, "nothing", 0)
        BY <2>1 DEF StickerPiece
    <2> QED
        BY <2>1, <2>2, ReuploadedIs DEF Openly
<1> QED
    BY <1>1, <1>2, <1>3, <1>4, PlaceIs

-----------------------------------------------------------------------------
(* The parts of a message. *)

\* What is attached: each file once, each from a place of its own.
Gathered(ps, l) ==
    /\ \E T : ps \in Seq(T)
    /\ \A k \in DOMAIN ps : /\ Raw(ps[k], ps[k].of, ps[k].place) /\ Openly(ps[k], l)
                            /\ ps[k].place \in Places(l) /\ ps[k].of \in FilesOf(l)
    /\ \A j, k \in DOMAIN ps : ps[j].of = ps[k].of \/ ps[j].place = ps[k].place => j = k

LEMMA AttachedIs == ASSUME NEW l \in Letters PROVE Gathered(Attached(l), l)
<1>1. PICK s : s = Sources(l)
    OBVIOUS
<1>2. s \in Seq(Places(l)) /\ Apart(s)
    BY <1>1, SourcesAre DEF Listed
<1>3. PICK T : T = Places(l)
    OBVIOUS
<1>4. Len(s) \in Nat /\ DOMAIN s = 1 .. Len(s) /\ \A k \in DOMAIN s : s[k] \in T
    BY <1>2, <1>3
<1>5. PICK ps : ps = Attached(l)
    OBVIOUS
<1>6. ps = [k \in 1 .. Len(s) |-> PieceOf(l, s[k])]
    BY <1>1, <1>4, <1>5 DEF Attached
<1>7. Len(ps) = Len(s) /\ DOMAIN ps = 1 .. Len(s) /\ \A k \in 1 .. Len(s) : ps[k] = PieceOf(l, s[k])
    BY <1>4, <1>6
<1>8. ASSUME NEW k \in DOMAIN ps
      PROVE  /\ Raw(ps[k], FileAt(l, s[k]), s[k]) /\ Openly(ps[k], l) /\ s[k] \in Places(l)
             /\ ps[k].of = FileAt(l, s[k]) /\ ps[k].place = s[k]
    <2>1. s[k] \in Places(l) /\ ps[k] = PieceOf(l, s[k])
        BY <1>3, <1>4, <1>7
    <2>2. Raw(ps[k], FileAt(l, s[k]), s[k]) /\ Openly(ps[k], l)
        BY <2>1, PieceOfIs
    <2>3. ps[k].of = FileAt(l, s[k]) /\ ps[k].place = s[k]
        BY <2>2 DEF Raw
    <2> QED
        BY <2>1, <2>2, <2>3
<1>9. ASSUME NEW j \in DOMAIN ps, NEW k \in DOMAIN ps, ps[j].of = ps[k].of \/ ps[j].place = ps[k].place
      PROVE  j = k
    <2>1. CASE ps[j].place = ps[k].place
        BY <1>2, <1>4, <1>7, <1>8, <2>1 DEF Apart
    <2>2. CASE ps[j].of = ps[k].of
        <3>1. FileAt(l, Sources(l)[j]) = FileAt(l, Sources(l)[k])
            BY <1>1, <1>8, <2>2
        <3>2. j \in DOMAIN Sources(l) /\ k \in DOMAIN Sources(l)
            BY <1>1, <1>4, <1>7
        <3> QED
            BY <3>1, <3>2, FilesOnce
    <2> QED
        BY <1>9, <2>1, <2>2
<1>10. \A k \in DOMAIN ps : FileAt(l, s[k]) \in FilesOf(l)
    BY <1>8 DEF FilesOf
<1>11. \E S : ps \in Seq(S)
    <2>1. PICK S : S = {PieceOf(l, p) : p \in T}
        OBVIOUS
    <2>2. \A k \in 1 .. Len(s) : PieceOf(l, s[k]) \in S
        BY <1>4, <2>1
    <2>3. ps \in Seq(S)
        BY <1>4, <1>6, <2>2
    <2> QED
        BY <2>3
<1> QED
    BY <1>5, <1>8, <1>9, <1>10, <1>11 DEF Gathered

\* The parts are what is attached, and besides at most one, the text or what stands for nothing.
Parts(ps, l) ==
    /\ Len(ps) \in Nat /\ DOMAIN ps = 1 .. Len(ps)
    /\ \A k \in DOMAIN ps : Raw(ps[k], ps[k].of, ps[k].place) /\ Openly(ps[k], l)
    /\ Len(Attached(l)) <= Len(ps)
    /\ \A k \in DOMAIN ps : \/ k \in DOMAIN Attached(l) /\ ps[k] = Attached(l)[k]
                            \/ /\ k = Len(Attached(l)) + 1 /\ Bare(ps[k])
                               /\ ps[k].of \notin FilesOf(l) \/ k = 1
    /\ l.text => \E k \in DOMAIN ps : ps[k].of = "text"

LEMMA TextIs ==
    ASSUME NEW l
    PROVE  \/ TextPiece(l) = << >> /\ ~ l.text
           \/ \E x : /\ TextPiece(l) = <<x>> /\ Raw(x, "text", Unnumbered) /\ Bare(x) /\ Openly(x, l)
<1>1. CASE l.text \/ IsThumb(l) \/ HasSnippet(l) \/ Previews(l) # {}
    <2>1. PICK x : x = Piece(IF l.admin THEN "notice" ELSE "text", "text", Unnumbered)
        OBVIOUS
    <2>2. TextPiece(l) = <<x>>
        BY <1>1, <2>1 DEF TextPiece
    <2>3. Raw(x, "text", Unnumbered)
        BY <2>1, PieceIs
    <2>4. Bare(x)
        BY <2>1 DEF Piece, Bare
    <2>5. Openly(x, l)
        BY <2>3 DEF Raw, Openly, Withheld
    <2> QED
        BY <2>2, <2>3, <2>4, <2>5
<1>2. CASE ~ (l.text \/ IsThumb(l) \/ HasSnippet(l) \/ Previews(l) # {})
    BY <1>2 DEF TextPiece
<1> QED
    BY <1>1, <1>2

LEMMA AppendedIs ==
    ASSUME NEW T, NEW ps \in Seq(T), NEW x
    PROVE  /\ Len(ps \o <<x>>) = Len(ps) + 1 /\ DOMAIN (ps \o <<x>>) = 1 .. (Len(ps) + 1)
           /\ \A k \in 1 .. Len(ps) : (ps \o <<x>>)[k] = ps[k]
           /\ (ps \o <<x>>)[Len(ps) + 1] = x
           /\ ps \o << >> = ps
           /\ Len(ps) \in Nat /\ DOMAIN ps = 1 .. Len(ps)
<1>1. PICK y : y = <<x>>
    OBVIOUS
<1>2. y \in Seq({x}) /\ Len(y) = 1 /\ y[1] = x
    BY <1>1
<1>3. ps \in Seq(T \cup {x}) /\ y \in Seq(T \cup {x})
    BY <1>2
<1>4. PICK S : S = T \cup {x}
    OBVIOUS
<1>5. Len(ps) \in Nat /\ DOMAIN ps = 1 .. Len(ps) /\ ps \o << >> = ps
    OBVIOUS
<1>6. PICK u : u = ps \o y
    OBVIOUS
<1>7. /\ Len(u) = Len(ps) + Len(y) /\ u \in Seq(S)
      /\ \A i \in 1 .. Len(ps) : u[i] = ps[i]
      /\ \A i \in (Len(ps) + 1) .. (Len(ps) + Len(y)) : u[i] = y[i - Len(ps)]
      /\ DOMAIN u = 1 .. (Len(ps) + Len(y))
    BY <1>3, <1>4, <1>6
<1>8. u[Len(ps) + 1] = x
    BY <1>2, <1>5, <1>7
<1> QED
    BY <1>1, <1>2, <1>5, <1>6, <1>7, <1>8

LEMMA PartsAre ==
    ASSUME NEW l \in Letters, NEW ps,
           ps = IF Attached(l) \o TextPiece(l) = << >> THEN Unsupported ELSE Attached(l) \o TextPiece(l)
    PROVE  Parts(ps, l)
<1>1. PICK a : a = Attached(l)
    OBVIOUS
<1>2. PICK T : a \in Seq(T)
    BY <1>1, AttachedIs DEF Gathered
<1>3. Len(a) \in Nat /\ DOMAIN a = 1 .. Len(a)
    BY <1>2
<1>4. \A k \in DOMAIN a : Raw(a[k], a[k].of, a[k].place) /\ Openly(a[k], l)
    BY <1>1, AttachedIs DEF Gathered
<1>5. CASE TextPiece(l) = << >> /\ ~ l.text
    <2>1. a \o TextPiece(l) = a
        BY <1>2, <1>5, AppendedIs
    <2>2. CASE a = << >>
        <3>1. PICK x : x = Notice("nothing", Unnumbered)
            OBVIOUS
        <3>2. ps = <<x>>
            BY <1>1, <2>1, <2>2, <3>1 DEF Unsupported
        <3>3. Raw(x, "nothing", Unnumbered) /\ Openly(x, l)
            BY <3>1, NoticeIs DEF Openly
        <3>4. Bare(x)
            BY <3>1, NoticeIs
        <3>5. /\ Len(ps) \in Nat /\ DOMAIN ps = 1 .. Len(ps) /\ ps[1] = x /\ Len(a) <= Len(ps)
              /\ \A k \in DOMAIN ps : k = 1 /\ k = Len(a) + 1
            <4>1. Len(ps) = 1 /\ DOMAIN ps = 1 .. 1 /\ ps[1] = x
                BY <3>2
            <4>2. Len(a) = 0
                BY <2>2
            <4>3. \A k \in 1 .. 1 : k = 1
                OBVIOUS
            <4> QED
                BY <4>1, <4>2, <4>3
        <3>6. x.of = "nothing" /\ x.place = Unnumbered
            BY <3>3 DEF Raw
        <3>7. \A k \in DOMAIN ps : ps[k] = x /\ k = 1 /\ k = Len(a) + 1
            BY <3>5
        <3>8. \A k \in DOMAIN ps : Raw(ps[k], ps[k].of, ps[k].place) /\ Openly(ps[k], l)
            BY <3>3, <3>6, <3>7, Zenon
        <3>9. \A k \in DOMAIN ps : k = Len(Attached(l)) + 1 /\ Bare(ps[k]) /\ k = 1
            BY <1>1, <3>4, <3>7, Zenon
        <3> QED
            BY <1>1, <1>5, <3>5, <3>8, <3>9, Zenon DEF Parts
    <2>3. CASE a # << >>
        <3>1. ps = a
            BY <1>1, <2>1, <2>3
        <3> QED
            BY <1>1, <1>3, <1>4, <1>5, <3>1 DEF Parts
    <2> QED
        BY <2>2, <2>3
<1>6. ASSUME NEW x, TextPiece(l) = <<x>>, Raw(x, "text", Unnumbered), Bare(x), Openly(x, l)
      PROVE  Parts(ps, l)
    <2>1. PICK u : u = a \o <<x>>
        OBVIOUS
    <2>2. /\ Len(u) = Len(a) + 1 /\ DOMAIN u = 1 .. (Len(a) + 1)
          /\ \A k \in 1 .. Len(a) : u[k] = a[k]
          /\ u[Len(a) + 1] = x
        BY <1>2, <2>1, AppendedIs
    <2>3. u # << >>
        <3>1. Len(<< >>) = 0
            OBVIOUS
        <3> QED
            BY <1>3, <2>2, <3>1
    <2>4. ps = u
        BY <1>1, <1>6, <2>1, <2>3
    <2>5. x.of = "text" /\ x.place = Unnumbered /\ "text" \notin FilesOf(l)
        BY <1>6, LetterIs DEF Raw, FilesApart
    <2>6. \A k \in DOMAIN u : k \in DOMAIN a \/ k = Len(a) + 1
        BY <1>3, <2>2
    <2>7. Len(u) \in Nat /\ DOMAIN u = 1 .. Len(u) /\ Len(a) <= Len(u) /\ Len(a) + 1 \in DOMAIN u
        BY <1>3, <2>2
    <2>8. ASSUME NEW k \in DOMAIN u
          PROVE  /\ Raw(u[k], u[k].of, u[k].place) /\ Openly(u[k], l)
                 /\ \/ k \in DOMAIN a /\ u[k] = a[k]
                    \/ k = Len(a) + 1 /\ Bare(u[k]) /\ u[k].of \notin FilesOf(l)
        <3>1. CASE k \in DOMAIN a
            <4>1. u[k] = a[k]
                BY <1>3, <2>2, <3>1
            <4> QED
                BY <1>4, <3>1, <4>1
        <3>2. CASE k = Len(a) + 1
            <4>1. u[k] = x
                BY <2>2, <3>2
            <4> QED
                BY <1>6, <2>5, <3>2, <4>1
        <3> QED
            BY <2>6, <3>1, <3>2
    <2>9. \E k \in DOMAIN u : u[k].of = "text"
        BY <2>2, <2>5, <2>7
    <2> QED
        BY <1>1, <2>4, <2>7, <2>8, <2>9 DEF Parts
<1> QED
    BY <1>5, <1>6, TextIs

\* The parts, numbered: each under an id of its own, and the link of a medium names its.
Told(qs, l) ==
    /\ Len(qs) \in Nat /\ DOMAIN qs = 1 .. Len(qs)
    /\ \A k \in DOMAIN qs : /\ IsPiece(qs[k]) /\ Openly(qs[k], l)
                            /\ \/ qs[k].uri = Unnumbered /\ qs[k].meta = NoMeta
                               \/ /\ qs[k].uri = qs[k].id /\ qs[k].uri = qs[k].place
                                  /\ IsMeta(qs[k].meta) /\ qs[k].meta.url = <<qs[k].of, 0>>
                                  /\ qs[k].meta.by # "no medium"
    /\ \A j, k \in DOMAIN qs : qs[j].id = qs[k].id => j = k

LEMMA NumberIs ==
    ASSUME NEW x, Raw(x, x.of, x.place), NEW id, NEW y,
           y = IF x.id = Unnumbered THEN [x EXCEPT !.id = id] ELSE x
    PROVE  /\ IsPiece(y) /\ y.shows = x.shows /\ y.of = x.of /\ y.place = x.place /\ y.uri = x.uri
           /\ y.meta = x.meta /\ y.opens = x.opens /\ y.caption = x.caption
           /\ y.id = IF x.id = Unnumbered THEN id ELSE x.id
<1>1. x.id = Unnumbered =>
        y = [shows |-> x.shows, of |-> x.of, place |-> x.place, id |-> id, uri |-> x.uri,
             meta |-> x.meta, opens |-> x.opens, caption |-> x.caption]
    BY DEF Raw, IsPiece
<1> QED
    BY <1>1 DEF Raw, IsPiece

LEMMA NumberedAre ==
    ASSUME NEW l \in Letters, NEW ps, Parts(ps, l), NEW qs, qs = Numbered(ps)
    PROVE  /\ Told(qs, l) /\ Len(qs) = Len(ps) /\ DOMAIN qs = DOMAIN ps
           /\ \A k \in DOMAIN ps : /\ qs[k].shows = ps[k].shows /\ qs[k].of = ps[k].of
                                   /\ qs[k].place = ps[k].place /\ qs[k].uri = ps[k].uri
<1>1. Len(ps) \in Nat /\ DOMAIN ps = 1 .. Len(ps)
    BY DEF Parts
<1>2. qs = [k \in 1 .. Len(ps) |-> IF ps[k].id = Unnumbered THEN [ps[k] EXCEPT !.id = <<"part", k - 1>>]
                                   ELSE ps[k]]
    BY <1>1 DEF Numbered
<1>3. Len(qs) = Len(ps) /\ DOMAIN qs = 1 .. Len(ps)
    BY <1>1, <1>2
<1>4. ASSUME NEW k \in 1 .. Len(ps)
      PROVE  /\ IsPiece(qs[k]) /\ qs[k].shows = ps[k].shows /\ qs[k].of = ps[k].of /\ qs[k].place = ps[k].place
             /\ qs[k].uri = ps[k].uri /\ qs[k].meta = ps[k].meta /\ qs[k].opens = ps[k].opens
             /\ qs[k].id = IF ps[k].id = Unnumbered THEN <<"part", k - 1>> ELSE ps[k].id
    <2>1. Raw(ps[k], ps[k].of, ps[k].place) /\ k \in Nat
        BY <1>1 DEF Parts
    <2>2. PICK x : x = ps[k]
        OBVIOUS
    <2>3. PICK y : y = qs[k]
        OBVIOUS
    <2> DEFINE id == <<"part", k - 1>>
    <2>4. y = IF x.id = Unnumbered THEN [x EXCEPT !.id = id] ELSE x
        BY <1>2, <2>2, <2>3
    <2> HIDE DEF id
    <2>5. Raw(x, x.of, x.place)
        BY <2>1, <2>2
    <2>6. /\ IsPiece(y) /\ y.shows = x.shows /\ y.of = x.of /\ y.place = x.place /\ y.uri = x.uri
          /\ y.meta = x.meta /\ y.opens = x.opens
          /\ y.id = IF x.id = Unnumbered THEN id ELSE x.id
        BY <2>4, <2>5, NumberIs, SMTT(30)
    <2> QED
        BY <2>2, <2>3, <2>6 DEF id
<1>5. ASSUME NEW k \in 1 .. Len(ps), ps[k].id # Unnumbered
      PROVE  ps[k].id = ps[k].place /\ k \in DOMAIN Attached(l) /\ ps[k] = Attached(l)[k]
    <2>1. Linked(ps[k]) /\ ~ Bare(ps[k])
        BY <1>1, <1>5 DEF Parts, Raw, Bare
    <2> QED
        BY <1>1, <1>5, <2>1 DEF Parts, Linked
<1>6. ASSUME NEW k \in 1 .. Len(ps)
      PROVE  \/ qs[k].uri = Unnumbered /\ qs[k].meta = NoMeta
             \/ /\ qs[k].uri = qs[k].id /\ qs[k].uri = qs[k].place
                /\ IsMeta(qs[k].meta) /\ qs[k].meta.url = <<qs[k].of, 0>>
                /\ qs[k].meta.by # "no medium"
    <2>1. Linked(ps[k])
        BY <1>1 DEF Parts, Raw
    <2>2. CASE ps[k].uri = Unnumbered /\ ps[k].meta = NoMeta
        BY <1>4, <2>2
    <2>3. CASE /\ ps[k].id = ps[k].place /\ ps[k].uri = ps[k].place
               /\ IsMeta(ps[k].meta) /\ ps[k].meta.url = <<ps[k].of, 0>> /\ ps[k].meta.by # "no medium"
        <3>1. ~ Bare(ps[k])
            <4>1. NoMeta.by = "no medium"
                BY DEF NoMeta
            <4> QED
                BY <2>3, <4>1 DEF Bare
        <3>2. k \in DOMAIN Attached(l) /\ ps[k] = Attached(l)[k]
            BY <1>1, <3>1 DEF Parts
        <3>3. ps[k].place \in Places(l)
            BY <3>2, AttachedIs DEF Gathered
        <3>4. ps[k].place[1] \in {"blob", "attachment", "share", "sticker"}
            BY <3>3, PlaceIs
        <3>5. ps[k].place # Unnumbered
            BY <3>4 DEF Unnumbered
        <3> QED
            BY <1>4, <2>3, <3>5
    <2> QED
        BY <2>1, <2>2, <2>3 DEF Linked
<1>7. ASSUME NEW j \in 1 .. Len(ps), NEW k \in 1 .. Len(ps), qs[j].id = qs[k].id PROVE j = k
    <2>1. ASSUME NEW m \in 1 .. Len(ps), ps[m].id # Unnumbered
          PROVE  qs[m].id = ps[m].place /\ qs[m].id[1] # "part" /\ ps[m].place = Attached(l)[m].place
                 /\ m \in DOMAIN Attached(l)
        <3>1. qs[m].id = ps[m].place /\ m \in DOMAIN Attached(l) /\ ps[m] = Attached(l)[m]
            BY <1>4, <1>5, <2>1
        <3>2. ps[m].place \in Places(l)
            BY <3>1, AttachedIs DEF Gathered
        <3>3. ps[m].place[1] \in {"blob", "attachment", "share", "sticker"}
            BY <3>2, PlaceIs
        <3>4. ps[m].place[1] # "part"
            BY <3>3
        <3> QED
            BY <3>1, <3>4
    <2>2. ASSUME NEW m \in 1 .. Len(ps), ps[m].id = Unnumbered
          PROVE  qs[m].id = <<"part", m - 1>> /\ qs[m].id[1] = "part" /\ qs[m].id[2] = m - 1
        <3>1. PICK n : n = m - 1
            OBVIOUS
        <3>2. qs[m].id = <<"part", n>>
            BY <1>4, <2>2, <3>1
        <3> QED
            BY <3>1, <3>2
    <2>3. CASE ps[j].id = Unnumbered /\ ps[k].id = Unnumbered
        <3>1. j - 1 = k - 1
            BY <1>7, <2>2, <2>3
        <3> QED
            BY <1>1, <3>1
    <2>4. CASE ps[j].id # Unnumbered /\ ps[k].id # Unnumbered
        <3>1. Attached(l)[j].place = Attached(l)[k].place /\ j \in DOMAIN Attached(l) /\ k \in DOMAIN Attached(l)
            BY <1>7, <2>1, <2>4
        <3> QED
            BY <3>1, AttachedIs DEF Gathered
    <2> QED
        BY <1>7, <2>1, <2>2, <2>3, <2>4
<1>8. ASSUME NEW k \in 1 .. Len(ps) PROVE Openly(qs[k], l)
    BY <1>1, <1>4 DEF Parts, Openly
<1> QED
    BY <1>1, <1>3, <1>4, <1>6, <1>7, <1>8 DEF Told

-----------------------------------------------------------------------------
(* The message as it stands. *)

\* Each file that is attached is shown once, unless its text is a caption, and the text is shown.
Complete(ms, l) ==
    /\ \A k \in DOMAIN Attached(l) :
         \/ \E i \in DOMAIN ms : \A j \in DOMAIN ms : ms[j].of = Attached(l)[k].of <=> j = i
         \/ Attached(l)[k].shows = "text" /\ \E i \in DOMAIN ms : ms[i].caption
    /\ l.text => \E i \in DOMAIN ms : ms[i].of = "text" \/ ms[i].caption

Stand(ms, l) ==
    /\ Len(ms) \in Nat /\ DOMAIN ms = 1 .. Len(ms)
    /\ \A k \in DOMAIN ms : /\ IsPiece(ms[k]) /\ Openly(ms[k], l)
                            /\ \/ ms[k].uri = Unnumbered /\ ms[k].meta = NoMeta
                               \/ /\ ms[k].uri = ms[k].id \/ (ShareIsCaption(l) /\ Len(ms) = 1)
                                  /\ IsMeta(ms[k].meta) /\ ms[k].meta.url = <<ms[k].of, 0>>
                                  /\ ms[k].meta.by # "no medium"
    /\ \A j, k \in DOMAIN ms : ms[j].id = ms[k].id => j = k
    /\ ~ l.unsent => Complete(ms, l)

Merged(x, other, caption, id) == [[x EXCEPT !.id = other, !.caption = caption] EXCEPT !.id = id]

LEMMA MergedIs ==
    ASSUME NEW x, IsPiece(x), NEW id, NEW other, NEW caption, NEW m, m = Merged(x, other, caption, id)
    PROVE  /\ IsPiece(m) /\ m.shows = x.shows /\ m.of = x.of /\ m.uri = x.uri /\ m.meta = x.meta
           /\ m.opens = x.opens /\ m.id = id /\ m.caption = caption
<1>y. PICK y : y = [x EXCEPT !.id = other, !.caption = caption]
    OBVIOUS
<1>1. y = [shows |-> x.shows, of |-> x.of, place |-> x.place, id |-> other, uri |-> x.uri,
           meta |-> x.meta, opens |-> x.opens, caption |-> caption]
    BY <1>y DEF IsPiece
<1>2. m = [shows |-> x.shows, of |-> x.of, place |-> x.place, id |-> id, uri |-> x.uri,
           meta |-> x.meta, opens |-> x.opens, caption |-> caption]
    BY <1>y, <1>1 DEF Merged
<1> QED
    BY <1>2 DEF IsPiece

LEMMA SingleIs == ASSUME NEW x PROVE Len(<<x>>) = 1 /\ DOMAIN <<x>> = 1 .. 1 /\ <<x>>[1] = x /\ <<x>> # << >>
OBVIOUS

LEMMA CaptionStands ==
    ASSUME NEW l \in Letters, NEW ps, Parts(ps, l), ~ l.unsent,
           Len(ps) = 2 => ps = Attached(l) \o TextPiece(l)
    PROVE  Stand(WithCaption(Numbered(ps)), l)
<1>1. PICK qs : qs = Numbered(ps)
    OBVIOUS
<1>2. /\ Told(qs, l) /\ Len(qs) = Len(ps) /\ DOMAIN qs = DOMAIN ps
      /\ \A k \in DOMAIN ps : /\ qs[k].shows = ps[k].shows /\ qs[k].of = ps[k].of
                              /\ qs[k].place = ps[k].place /\ qs[k].uri = ps[k].uri
    BY <1>1, NumberedAre
<1>3. PICK a : a = Attached(l)
    OBVIOUS
<1>4. PICK ms : ms = WithCaption(qs)
    OBVIOUS
<1>5. /\ Len(ps) \in Nat /\ DOMAIN ps = 1 .. Len(ps)
      /\ \A k \in DOMAIN ps : \/ k \in DOMAIN a /\ ps[k] = a[k]
                              \/ k = Len(a) + 1 /\ (ps[k].of \notin FilesOf(l) \/ k = 1)
      /\ Len(a) <= Len(ps)
      /\ l.text => \E k \in DOMAIN ps : ps[k].of = "text"
    BY <1>3 DEF Parts
<1>6. /\ Len(a) \in Nat /\ DOMAIN a = 1 .. Len(a)
      /\ \A k \in DOMAIN a : a[k].of \in FilesOf(l)
      /\ \A j, k \in DOMAIN a : a[j].of = a[k].of => j = k
    <2>1. PICK T : a \in Seq(T)
        BY <1>3, AttachedIs DEF Gathered
    <2>2. Len(a) \in Nat /\ DOMAIN a = 1 .. Len(a)
        BY <2>1
    <2> QED
        BY <1>3, <2>2, AttachedIs DEF Gathered
<1>7. \A k \in DOMAIN a : k \in DOMAIN ps /\ ps[k] = a[k]
    <2> SUFFICES ASSUME NEW k \in DOMAIN a PROVE k \in DOMAIN ps /\ ps[k] = a[k]
        OBVIOUS
    <2>1. PICK na, np : na = Len(a) /\ np = Len(ps)
        OBVIOUS
    <2>2. na \in Nat /\ np \in Nat /\ na <= np /\ DOMAIN a = 1 .. na /\ DOMAIN ps = 1 .. np
        BY <1>5, <1>6, <2>1
    <2>3. k \in DOMAIN ps /\ k # na + 1
        BY <2>2
    <2> QED
        BY <1>5, <2>1, <2>3
<1>8. CASE Len(qs) = 2 /\ Captioned(qs) # qs
    <2>1. PICK t, o : t = (IF qs[2].shows = "text" THEN 2 ELSE 1) /\ o = 3 - t
        OBVIOUS
    <2>2. /\ qs[t].shows = "text" /\ qs[o].shows \in {"media", "notice"}
          /\ Captioned(qs) = <<[qs[o] EXCEPT !.id = qs[t].id, !.caption = TRUE]>>
        BY <1>8, <2>1 DEF Captioned
    <2>3. (t = 1 /\ o = 2) \/ (t = 2 /\ o = 1)
        BY <2>1
    <2>4. DOMAIN qs = 1 .. 2 /\ t \in DOMAIN qs /\ o \in DOMAIN qs /\ 1 \in DOMAIN qs
        <3>1. DOMAIN qs = 1 .. Len(qs) /\ Len(qs) = 2
            BY <1>2, <1>8 DEF Told
        <3>2. DOMAIN qs = 1 .. 2
            BY <3>1, Zenon
        <3>3. 1 \in 1 .. 2 /\ 2 \in 1 .. 2
            OBVIOUS
        <3> QED
            BY <2>3, <3>2, <3>3, Zenon
    <2>5. PICK m : m = Merged(qs[o], qs[t].id, TRUE, qs[1].place)
        OBVIOUS
    <2>6. ms = <<m>>
        <3>1. Captioned(qs)[1] = [qs[o] EXCEPT !.id = qs[t].id, !.caption = TRUE]
            BY <2>2
        <3> QED
            BY <1>4, <1>8, <2>5, <3>1 DEF WithCaption, Merged
    <2>7. /\ IsPiece(m) /\ m.shows = qs[o].shows /\ m.of = qs[o].of /\ m.uri = qs[o].uri /\ m.meta = qs[o].meta
          /\ m.opens = qs[o].opens /\ m.id = qs[1].place /\ m.caption = TRUE
        <3>1. PICK x, other, id, caption :
                  x = qs[o] /\ other = qs[t].id /\ id = qs[1].place /\ caption = TRUE
            OBVIOUS
        <3>2. IsPiece(x)
            BY <1>2, <2>4, <3>1 DEF Told
        <3>3. m = Merged(x, other, caption, id)
            BY <2>5, <3>1
        <3>4. /\ IsPiece(m) /\ m.shows = x.shows /\ m.of = x.of /\ m.uri = x.uri /\ m.meta = x.meta
              /\ m.opens = x.opens /\ m.id = id /\ m.caption = caption
            BY <3>2, <3>3, MergedIs
        <3> QED
            BY <3>1, <3>4
    <2>8. /\ Len(ms) = 1 /\ DOMAIN ms = 1 .. 1 /\ ms[1] = m
          /\ \A k \in DOMAIN ms : k = 1
        BY <2>6
    <2>9. t = 1 => ShareIsCaption(l)
        <3>1. ASSUME t = 1 PROVE ShareIsCaption(l)
            <4>1. Len(ps) = 2 /\ ps[1].shows = "text" /\ ps[2].shows \in {"media", "notice"}
                BY <1>2, <1>8, <2>2, <2>3, <2>4, <3>1
            <4> QED
                BY <4>1 DEF ShareIsCaption
        <3> QED
            BY <3>1
    <2>10. \/ m.uri = Unnumbered /\ m.meta = NoMeta
           \/ /\ m.uri = m.id \/ ShareIsCaption(l)
              /\ IsMeta(m.meta) /\ m.meta.url = <<m.of, 0>> /\ m.meta.by # "no medium"
        <3>1. \/ qs[o].uri = Unnumbered /\ qs[o].meta = NoMeta
              \/ /\ qs[o].uri = qs[o].place /\ IsMeta(qs[o].meta) /\ qs[o].meta.url = <<qs[o].of, 0>>
                 /\ qs[o].meta.by # "no medium"
            BY <1>2, <2>4 DEF Told
        <3>2. CASE qs[o].uri = Unnumbered /\ qs[o].meta = NoMeta
            BY <2>7, <3>2
        <3>3. CASE /\ qs[o].uri = qs[o].place /\ IsMeta(qs[o].meta) /\ qs[o].meta.url = <<qs[o].of, 0>>
                   /\ qs[o].meta.by # "no medium"
            <4>1. IsMeta(m.meta) /\ m.meta.url = <<m.of, 0>> /\ m.meta.by # "no medium"
                BY <2>7, <3>3
            <4>2. o = 1 => m.uri = m.id
                BY <2>7, <3>3
            <4> QED
                BY <2>3, <2>9, <4>1, <4>2
        <3> QED
            BY <3>1, <3>2, <3>3
    <2>11. Openly(m, l)
        <3>1. Openly(qs[o], l)
            BY <1>2, <2>4 DEF Told
        <3> QED
            BY <2>7, <3>1 DEF Openly
    <2>12. Complete(ms, l)
        <3>1. \E i \in DOMAIN ms : ms[i].caption
            BY <2>7, <2>8
        <3>2. ASSUME NEW k \in DOMAIN a
              PROVE  \/ \E i \in DOMAIN ms : \A j \in DOMAIN ms : ms[j].of = a[k].of <=> j = i
                     \/ a[k].shows = "text" /\ \E i \in DOMAIN ms : ms[i].caption
            <4>1. k \in DOMAIN ps /\ ps[k] = a[k]
                BY <1>7
            <4>2. k = o \/ k = t
                BY <1>2, <2>3, <2>4, <4>1
            <4>3. CASE k = o
                <5>1. ms[1].of = a[k].of
                    BY <1>2, <2>7, <2>8, <4>1, <4>3
                <5> QED
                    BY <2>8, <5>1
            <4>4. CASE k = t
                <5>1. a[k].shows = "text"
                    BY <1>2, <2>2, <4>1, <4>4
                <5> QED
                    BY <3>1, <5>1
            <4> QED
                BY <4>2, <4>3, <4>4
        <3> QED
            BY <1>3, <3>1, <3>2 DEF Complete
    <2>13. Len(ms) \in Nat /\ DOMAIN ms = 1 .. Len(ms)
        BY <2>8
    <2> QED
        BY <1>1, <1>4, <2>7, <2>8, <2>10, <2>11, <2>12, <2>13 DEF Stand
<1>9. CASE ~ (Len(qs) = 2 /\ Captioned(qs) # qs)
    <2>1. ms = qs
        BY <1>4, <1>9 DEF WithCaption
    <2>2. Complete(qs, l)
        <3>1. ASSUME NEW k \in DOMAIN a
              PROVE  \E i \in DOMAIN qs : \A j \in DOMAIN qs : qs[j].of = a[k].of <=> j = i
            <4>1. k \in DOMAIN qs /\ qs[k].of = a[k].of
                BY <1>2, <1>7
            <4>2. ASSUME NEW j \in DOMAIN qs, qs[j].of = a[k].of PROVE j = k
                <5>1. j \in DOMAIN ps /\ ps[j].of = a[k].of
                    BY <1>2, <4>2
                <5>2. CASE j \in DOMAIN a /\ ps[j] = a[j]
                    BY <1>6, <5>1, <5>2
                <5>3. CASE j = Len(a) + 1 /\ (ps[j].of \notin FilesOf(l) \/ j = 1)
                    BY <1>6, <5>1, <5>3
                <5> QED
                    BY <1>5, <5>1, <5>2, <5>3
            <4> QED
                BY <4>1, <4>2
        <3>2. l.text => \E k \in DOMAIN qs : qs[k].of = "text"
            BY <1>2, <1>5
        <3> QED
            BY <1>3, <3>1, <3>2 DEF Complete
    <2>3. ASSUME NEW k \in DOMAIN qs
          PROVE  /\ IsPiece(qs[k]) /\ Openly(qs[k], l)
                 /\ \/ qs[k].uri = Unnumbered /\ qs[k].meta = NoMeta
                    \/ /\ qs[k].uri = qs[k].id \/ (ShareIsCaption(l) /\ Len(qs) = 1)
                       /\ IsMeta(qs[k].meta) /\ qs[k].meta.url = <<qs[k].of, 0>>
                       /\ qs[k].meta.by # "no medium"
        <3>1. /\ IsPiece(qs[k]) /\ Openly(qs[k], l)
              /\ \/ qs[k].uri = Unnumbered /\ qs[k].meta = NoMeta
                 \/ /\ qs[k].uri = qs[k].id /\ IsMeta(qs[k].meta) /\ qs[k].meta.url = <<qs[k].of, 0>>
                    /\ qs[k].meta.by # "no medium"
            BY <1>2 DEF Told
        <3> QED
            BY <3>1, Zenon
    <2>4. Len(qs) \in Nat /\ DOMAIN qs = 1 .. Len(qs) /\ \A j, k \in DOMAIN qs : qs[j].id = qs[k].id => j = k
        BY <1>2 DEF Told
    <2>5. Stand(qs, l)
        BY <2>2, <2>3, <2>4 DEF Stand
    <2> QED
        BY <1>1, <1>4, <2>1, <2>5
<1> QED
    BY <1>8, <1>9

LEMMA MessageStands == ASSUME NEW l \in Letters PROVE Stand(ToMatrix(l), l)
<1>1. CASE l.unsent
    <2>1. PICK ms : ms = ToMatrix(l)
        OBVIOUS
    <2>2. ms = << >>
        BY <1>1, <2>1 DEF ToMatrix
    <2>3. Len(ms) \in Nat /\ DOMAIN ms = 1 .. Len(ms) /\ \A k \in DOMAIN ms : FALSE
        BY <2>2
    <2> QED
        BY <1>1, <2>1, <2>3 DEF Stand
<1>2. CASE ~ l.unsent
    <2>1. PICK ps : ps = IF Attached(l) \o TextPiece(l) = << >> THEN Unsupported ELSE Attached(l) \o TextPiece(l)
        OBVIOUS
    <2>2. Parts(ps, l)
        BY <2>1, PartsAre
    <2>3. Len(Unsupported) # 2
        BY DEF Unsupported
    <2>4. ToMatrix(l) = WithCaption(Numbered(ps))
        BY <1>2, <2>1 DEF ToMatrix
    <2> QED
        BY <1>2, <2>1, <2>2, <2>3, <2>4, CaptionStands
<1> QED
    BY <1>1, <1>2

-----------------------------------------------------------------------------
(* The rows kept of the pieces: only the addresses of media change. *)

Medium(x) == IsMeta(x.meta) /\ x.meta.by # "no medium" /\ x.meta.url[1] = x.of

Kept(x, y) ==
    /\ IsPiece(x) /\ x.shows = y.shows /\ x.of = y.of /\ x.id = y.id /\ x.uri = y.uri
    /\ x.opens = y.opens /\ x.caption = y.caption
    /\ (x.meta = NoMeta /\ y.meta = NoMeta) \/ (Medium(x) /\ y.meta # NoMeta)

\* A download that has had the messages again, at that time, and has been through with the rows.
Through(d, n) == /\ asks[d].pc \in {"again", "done"} /\ asks[d].info.by = "messages"
                 /\ asks[d].fresh = n

RowsInv ==
    /\ letter \in Letters /\ age \in Nat /\ mishaps \in Nat
    /\ DOMAIN pieces = DOMAIN ToMatrix(letter)
    /\ \A i \in DOMAIN pieces : Kept(pieces[i], ToMatrix(letter)[i])
    /\ \A i \in DOMAIN pieces : /\ pieces[i].meta.url[2] \in 0 .. age
                                /\ pieces[i].meta.url[2] = 0 \/ \E e \in Downloads : Through(e, pieces[i].meta.url[2])

LEMMA NoMetaIs == NoMeta.by = "no medium" /\ NoMeta.url[1] = "none" /\ NoMeta.url[2] = 0
BY DEF NoMeta

LEMMA RowsFound == ASSUME RowsInv PROVE PiecesStand
<1>1. PICK ms : ms = ToMatrix(letter)
    OBVIOUS
<1>2. Stand(ms, letter)
    BY <1>1, MessageStands DEF RowsInv
<1>3. DOMAIN pieces = DOMAIN ms /\ \A i \in DOMAIN ms : Kept(pieces[i], ms[i])
    BY <1>1 DEF RowsInv
<1>4. \A i \in DOMAIN ms : /\ pieces[i].shows = ms[i].shows /\ pieces[i].of = ms[i].of /\ pieces[i].id = ms[i].id
                           /\ pieces[i].uri = ms[i].uri /\ pieces[i].opens = ms[i].opens
                           /\ pieces[i].caption = ms[i].caption
    BY <1>3 DEF Kept
<1> SUFFICES ASSUME ~ letter.unsent
             PROVE  /\ \A i, j \in DOMAIN pieces : pieces[i].id = pieces[j].id => i = j
                    /\ \A k \in DOMAIN Attached(letter) :
                         \/ Cardinality({i \in DOMAIN pieces : pieces[i].of = Attached(letter)[k].of}) = 1
                         \/ Attached(letter)[k].shows = "text" /\ \E i \in DOMAIN pieces : pieces[i].caption
                    /\ letter.text /\ ~ letter.admin =>
                         \E i \in DOMAIN pieces : pieces[i].of = "text" \/ pieces[i].caption
                    /\ \A i \in DOMAIN pieces :
                         /\ pieces[i].shows = "notice" /\ pieces[i].of \notin Withheld(letter) =>
                              pieces[i].opens # "nowhere"
                         /\ pieces[i].uri # Unnumbered =>
                              \/ \E j \in DOMAIN pieces : pieces[j].id = pieces[i].uri /\ pieces[j].of = pieces[i].of
                              \/ ShareIsCaption(letter)
    BY DEF PiecesStand
<1>5. Complete(ms, letter)
    BY <1>2 DEF Stand
<1>6. ASSUME NEW i \in DOMAIN pieces, NEW j \in DOMAIN pieces, pieces[i].id = pieces[j].id PROVE i = j
    <2>1. i \in DOMAIN ms /\ j \in DOMAIN ms /\ ms[i].id = ms[j].id
        BY <1>3, <1>4, <1>6
    <2> QED
        BY <1>2, <2>1 DEF Stand
<1>7. ASSUME NEW k \in DOMAIN Attached(letter)
      PROVE  \/ Cardinality({i \in DOMAIN pieces : pieces[i].of = Attached(letter)[k].of}) = 1
             \/ Attached(letter)[k].shows = "text" /\ \E i \in DOMAIN pieces : pieces[i].caption
    <2>1. CASE \E i \in DOMAIN ms : \A j \in DOMAIN ms : ms[j].of = Attached(letter)[k].of <=> j = i
        <3>1. PICK i \in DOMAIN ms : \A j \in DOMAIN ms : ms[j].of = Attached(letter)[k].of <=> j = i
            BY <2>1
        <3>2. \A j \in DOMAIN pieces : pieces[j].of = Attached(letter)[k].of <=> j = i
            BY <1>3, <1>4, <3>1
        <3>3. {j \in DOMAIN pieces : pieces[j].of = Attached(letter)[k].of} = {i}
            BY <1>3, <3>1, <3>2
        <3> QED
            BY <3>3, FS_Singleton, Zenon
    <2>2. CASE Attached(letter)[k].shows = "text" /\ \E i \in DOMAIN ms : ms[i].caption
        BY <1>3, <1>4, <2>2
    <2> QED
        BY <1>5, <2>1, <2>2 DEF Complete
<1>8. letter.text => \E i \in DOMAIN pieces : pieces[i].of = "text" \/ pieces[i].caption
    BY <1>3, <1>4, <1>5 DEF Complete
<1>9. ASSUME NEW i \in DOMAIN pieces, pieces[i].shows = "notice", pieces[i].of \notin Withheld(letter)
      PROVE  pieces[i].opens # "nowhere"
    <2>1. i \in DOMAIN ms /\ Openly(ms[i], letter)
        BY <1>2, <1>3 DEF Stand
    <2> QED
        BY <1>4, <1>9, <2>1 DEF Openly
<1>10. ASSUME NEW i \in DOMAIN pieces, pieces[i].uri # Unnumbered
       PROVE  \/ \E j \in DOMAIN pieces : pieces[j].id = pieces[i].uri /\ pieces[j].of = pieces[i].of
              \/ ShareIsCaption(letter)
    <2>1. i \in DOMAIN ms /\ ms[i].uri # Unnumbered
        BY <1>3, <1>4, <1>10
    <2>2. ms[i].uri = ms[i].id \/ ShareIsCaption(letter)
        BY <1>2, <2>1 DEF Stand
    <2>3. pieces[i].uri = pieces[i].id \/ ShareIsCaption(letter)
        BY <1>4, <2>1, <2>2
    <2> QED
        BY <2>3
<1> QED
    BY <1>6, <1>7, <1>8, <1>9, <1>10

\* The row a link leads to is that of its medium.
LEMMA LinkLeads ==
    ASSUME RowsInv, NEW i \in DOMAIN pieces, pieces[i].uri # Unnumbered
    PROVE  /\ \A j \in DOMAIN pieces : pieces[j].id = pieces[i].uri /\ pieces[j].meta # NoMeta =>
                Medium(pieces[j]) /\ pieces[j].of = pieces[i].of
           /\ ShareIsCaption(letter) \/ \E j \in DOMAIN pieces : pieces[j].id = pieces[i].uri /\ pieces[j].meta # NoMeta
<1>1. PICK ms : ms = ToMatrix(letter)
    OBVIOUS
<1>2. Stand(ms, letter)
    BY <1>1, MessageStands DEF RowsInv
<1>3. DOMAIN pieces = DOMAIN ms /\ \A j \in DOMAIN ms : Kept(pieces[j], ms[j])
    BY <1>1 DEF RowsInv
<1>4. \A j \in DOMAIN ms : /\ pieces[j].of = ms[j].of /\ pieces[j].id = ms[j].id /\ pieces[j].uri = ms[j].uri
                           /\ (pieces[j].meta = NoMeta /\ ms[j].meta = NoMeta)
                              \/ (Medium(pieces[j]) /\ ms[j].meta # NoMeta)
    BY <1>3 DEF Kept
<1>5. i \in DOMAIN ms /\ ms[i].uri # Unnumbered
    BY <1>3, <1>4
<1>6. (ms[i].uri = ms[i].id \/ (ShareIsCaption(letter) /\ Len(ms) = 1)) /\ ms[i].meta.by # "no medium"
    BY <1>2, <1>5 DEF Stand
<1>7. ms[i].meta # NoMeta
    BY <1>6, NoMetaIs
<1>8. DOMAIN ms = 1 .. Len(ms) /\ \A j, k \in DOMAIN ms : ms[j].id = ms[k].id => j = k
    BY <1>2 DEF Stand
<1>9. ASSUME NEW j \in DOMAIN pieces, pieces[j].id = pieces[i].uri, pieces[j].meta # NoMeta
      PROVE  Medium(pieces[j]) /\ pieces[j].of = pieces[i].of
    <2>1. j \in DOMAIN ms /\ Medium(pieces[j]) /\ ms[j].id = ms[i].uri
        BY <1>3, <1>4, <1>5, <1>9
    <2>2. j = i
        <3>1. CASE ms[i].uri = ms[i].id
            BY <1>5, <1>8, <2>1, <3>1
        <3>2. CASE Len(ms) = 1
            <4>1. i \in 1 .. 1 /\ j \in 1 .. 1
                BY <1>5, <1>8, <2>1, <3>2
            <4> QED
                BY <4>1
        <3> QED
            BY <1>6, <3>1, <3>2
    <2> QED
        BY <2>1, <2>2
<1>10. ms[i].uri = ms[i].id => pieces[i].id = pieces[i].uri /\ pieces[i].meta # NoMeta
    <2>1. Medium(pieces[i])
        BY <1>4, <1>5, <1>7
    <2>2. pieces[i].meta # NoMeta
        BY <2>1, NoMetaIs DEF Medium
    <2> QED
        BY <1>4, <1>5, <2>2
<1> QED
    BY <1>6, <1>9, <1>10

-----------------------------------------------------------------------------
(* The downloads. *)

IsAsk(a) == a = [pc |-> a.pc, said |-> a.said, got |-> a.got, row |-> a.row, of |-> a.of, info |-> a.info,
                 url |-> a.url, blobs |-> a.blobs, fresh |-> a.fresh, rows |-> a.rows]

\* The exceptions of RightFile.
Odd(d) == \/ asks[d].info.by = "carousel"
          \/ asks[d].info.by = "story" /\ storyOver
          \/ asks[d].info.by = "messages" /\ Misnumbered(d) /\ (Overtaken(d) \/ mishaps > 0)

\* A download that is under way goes by the row it has found.
Underway(d) ==
    asks[d].pc \in {"get", "renew", "rows", "update", "again"} =>
        /\ asks[d].said = "nothing" /\ asks[d].row \in DOMAIN pieces
        /\ asks[d].info.by = pieces[asks[d].row].meta.by

\* What an address that was read when others may have renewed it says.
RowsAsRead(d) == \A i \in DOMAIN pieces :
              \/ asks[d].rows[i][2] = 0
              \/ \E e \in Downloads \ {d} : Through(e, asks[d].rows[i][2])

\* Nothing is renewed before it has expired, unless something went wrong.
Renewing(d) ==
    /\ asks[d].pc = "get" => asks[d].url[1] = asks[d].of /\ asks[d].url[2] \in 0 .. age
    /\ asks[d].pc = "renew" /\ age = 0 => mishaps > 0
    /\ asks[d].pc \in {"rows", "update"} => /\ asks[d].info.by = "messages"
                                            /\ asks[d].fresh = 0 => mishaps > 0
    /\ asks[d].pc = "update" => RowsAsRead(d)
    /\ asks[d].pc = "again" => /\ asks[d].url[1] = asks[d].of \/ Odd(d)
                               /\ asks[d].url[2] \in 0 .. age
                               /\ asks[d].url[2] = 0 => mishaps > 0

Answered(d) ==
    /\ asks[d].said = "file" => asks[d].got = asks[d].of \/ Odd(d)
    /\ asks[d].said = "error" => Odd(d) \/ mishaps > 0 \/ age > 1 \/ asks[d].info.by = "nothing"
    /\ asks[d].said = "missing" => ShareIsCaption(letter)

DownloadInv(d) ==
    /\ IsAsk(asks[d]) /\ asks[d].fresh \in 0 .. age
    /\ asks[d].pc \in {"idle", "get", "renew", "rows", "update", "again", "done"}
    /\ asks[d].pc = "idle" => asks[d].said = "nothing" /\ asks[d].info.by = "no medium"
    /\ Underway(d) /\ Renewing(d) /\ Answered(d)

AsksInv == DOMAIN asks = Downloads /\ \A d \in Downloads : DownloadInv(d)

LEMMA AsksRight == ASSUME AsksInv PROVE RightFile
<1> SUFFICES ASSUME NEW d \in Downloads
             PROVE  /\ asks[d].said = "file" => asks[d].got = asks[d].of \/ Odd(d)
                    /\ asks[d].said = "error" =>
                         Odd(d) \/ mishaps > 0 \/ age > 1 \/ asks[d].info.by = "nothing"
                    /\ asks[d].said = "missing" => ShareIsCaption(letter)
    BY Zenon DEF RightFile, Odd
<1> QED
    BY DEF AsksInv, DownloadInv, Answered

\* What every step leaves, and what it only adds to.
Onward ==
    /\ UNCHANGED <<letter, direct, bad, fetched>>
    /\ age \in Nat /\ age' \in Nat /\ mishaps \in Nat /\ mishaps' \in Nat
    /\ age <= age' /\ mishaps <= mishaps' /\ (storyOver => storyOver')
    /\ DOMAIN pieces' = DOMAIN pieces
    /\ \A i \in DOMAIN pieces : pieces'[i].meta.by = pieces[i].meta.by
    /\ \A f \in Downloads : asks[f].fresh \in Nat /\ asks'[f].fresh \in Nat
    /\ \A f \in Downloads : asks[f].info.by = "messages" =>
                              asks'[f].info.by = "messages" /\ asks[f].fresh <= asks'[f].fresh
    /\ \A f \in Downloads : \A n : Through(f, n) => Through(f, n)'

\* A download that keeps to its medium keeps its exceptions.
LEMMA OddMoves ==
    ASSUME Onward, NEW d \in Downloads, NEW x, asks'[d] = x, x.info = asks[d].info,
           x.fresh = asks[d].fresh, x.blobs = asks[d].blobs, x.of = asks[d].of, Odd(d)
    PROVE  Odd(d)'
<1>1. Misnumbered(d) => Misnumbered(d)'
    BY DEF Misnumbered
<1>2. Overtaken(d) => Overtaken(d)'
    <2> SUFFICES ASSUME NEW e \in Downloads \ {d}, asks[e].info.by = "messages",
                        asks[e].fresh >= asks[d].fresh
                 PROVE  asks'[e].info.by = "messages" /\ asks'[e].fresh >= asks'[d].fresh
        BY DEF Overtaken
    <2>1. /\ asks'[e].info.by = "messages" /\ asks[e].fresh <= asks'[e].fresh
          /\ asks[e].fresh \in Nat /\ asks'[e].fresh \in Nat /\ asks[d].fresh \in Nat
        BY DEF Onward
    <2> QED
        BY <2>1
<1>3. (mishaps > 0 => mishaps' > 0) /\ (storyOver => storyOver')
    BY DEF Onward
<1> QED
    BY <1>1, <1>2, <1>3 DEF Odd

LEMMA RowsStayAsRead ==
    ASSUME Onward, NEW d \in Downloads, asks'[d] = asks[d], RowsAsRead(d)
    PROVE  RowsAsRead(d)'
BY Zenon DEF RowsAsRead, Onward

\* What is made of a message is settled once it is read.
LEMMA MessageSettled ==
    ASSUME UNCHANGED <<letter, direct, bad, fetched>>
    PROVE  /\ Attached(letter)' = Attached(letter) /\ ToMatrix(letter)' = ToMatrix(letter)
           /\ ShareIsCaption(letter)' <=> ShareIsCaption(letter)
<1>1. ASSUME NEW CONSTANT p PROVE PieceOf(letter, p)' = PieceOf(letter, p)
    BY DEF PieceOf, BlobPiece, LegacyPiece, SharePiece, StickerPiece, Reuploaded, FullShare
<1>2. Attached(letter)' = Attached(letter)
    BY <1>1 DEF Attached
<1>3. TextPiece(letter)' = TextPiece(letter)
    OBVIOUS
<1> QED
    BY <1>2, <1>3 DEF ToMatrix, ShareIsCaption

\* A download that takes no step stays right.
LEMMA AskStays ==
    ASSUME Onward, NEW d \in Downloads, asks'[d] = asks[d], DownloadInv(d)
    PROVE  DownloadInv(d)'
<1>1. Odd(d) => Odd(d)'
    BY OddMoves
<1>2. RowsAsRead(d) => RowsAsRead(d)'
    BY RowsStayAsRead
<1>3. ShareIsCaption(letter) => ShareIsCaption(letter)'
    BY MessageSettled DEF Onward
<1>4. /\ age \in Nat /\ age' \in Nat /\ mishaps \in Nat /\ mishaps' \in Nat
      /\ age <= age' /\ mishaps <= mishaps' /\ letter' = letter
    BY DEF Onward
<1>5. /\ mishaps > 0 => mishaps' > 0
      /\ age > 1 => age' > 1
      /\ age' = 0 => age = 0
      /\ \A n : n \in 0 .. age => n \in 0 .. age'
    BY <1>4
<1>6. Underway(d)'
    BY DEF Underway, DownloadInv, Onward
<1>7. Renewing(d)'
    <2>1. Renewing(d)
        BY DEF DownloadInv
    <2>2. /\ asks[d].pc = "get" => asks[d].url[1] = asks[d].of /\ asks[d].url[2] \in 0 .. age'
          /\ asks[d].pc = "renew" /\ age' = 0 => mishaps' > 0
          /\ asks[d].pc \in {"rows", "update"} => /\ asks[d].info.by = "messages"
                                                  /\ asks[d].fresh = 0 => mishaps' > 0
          /\ asks[d].pc = "update" => RowsAsRead(d)
          /\ asks[d].pc = "again" => /\ asks[d].url[1] = asks[d].of \/ Odd(d)
                                     /\ asks[d].url[2] \in 0 .. age'
                                     /\ asks[d].url[2] = 0 => mishaps' > 0
        BY <1>5, <2>1, Zenon DEF Renewing
    <2> QED
        BY <1>1, <1>2, <2>2 DEF Renewing
<1>8. Answered(d)'
    <2>1. Answered(d)
        BY DEF DownloadInv
    <2>2. /\ asks[d].said = "file" => asks[d].got = asks[d].of \/ Odd(d)
          /\ asks[d].said = "error" => Odd(d) \/ mishaps' > 0 \/ age' > 1 \/ asks[d].info.by = "nothing"
          /\ asks[d].said = "missing" => ShareIsCaption(letter)
        BY <1>5, <2>1, Zenon DEF Answered
    <2> QED
        BY <1>1, <1>3, <1>4, <2>2 DEF Answered
<1>9. IsAsk(asks[d]) /\ asks[d].fresh \in 0 .. age
    BY DEF DownloadInv
<1>10. IsAsk(asks[d])'
    BY <1>9 DEF IsAsk
<1>11. /\ asks[d].pc \in {"idle", "get", "renew", "rows", "update", "again", "done"}
       /\ asks[d].pc = "idle" => asks[d].said = "nothing" /\ asks[d].info.by = "no medium"
    BY DEF DownloadInv
<1> QED
    BY <1>5, <1>6, <1>7, <1>8, <1>9, <1>10, <1>11 DEF DownloadInv

LEMMA RowsStay == ASSUME RowsInv, Onward, pieces' = pieces PROVE RowsInv'
<1>1. ToMatrix(letter)' = ToMatrix(letter) /\ letter' = letter
    BY MessageSettled DEF Onward
<1>2. age' \in Nat /\ mishaps' \in Nat /\ \A n : n \in 0 .. age => n \in 0 .. age'
    BY DEF Onward
<1>3. /\ letter \in Letters /\ DOMAIN pieces = DOMAIN ToMatrix(letter)
      /\ \A i \in DOMAIN pieces : Kept(pieces[i], ToMatrix(letter)[i])
    BY DEF RowsInv
<1>4. ASSUME NEW i \in DOMAIN pieces
      PROVE  /\ pieces[i].meta.url[2] \in 0 .. age'
             /\ pieces[i].meta.url[2] = 0 \/ \E e \in Downloads : Through(e, pieces[i].meta.url[2])'
    <2>1. PICK n : n = pieces[i].meta.url[2]
        OBVIOUS
    <2>2. n \in 0 .. age /\ (n = 0 \/ \E e \in Downloads : Through(e, n))
        BY <2>1 DEF RowsInv
    <2>3. n = 0 \/ \E e \in Downloads : Through(e, n)'
        BY <2>2 DEF Onward
    <2>4. \A e \in Downloads : Through(e, n)' => Through(e, pieces[i].meta.url[2])'
        BY <2>1 DEF Through
    <2> QED
        BY <1>2, <2>1, <2>2, <2>3, <2>4
<1>5. \A i \in DOMAIN pieces : Kept(pieces[i], ToMatrix(letter)[i])'
    BY <1>1, <1>3 DEF Kept
<1> QED
    BY <1>1, <1>2, <1>3, <1>4, <1>5 DEF RowsInv

\* A step of a download.
Still == /\ UNCHANGED <<letter, direct, bad, fetched, age, storyOver>>
         /\ mishaps' = mishaps \/ mishaps' = mishaps + 1
         /\ DOMAIN pieces' = DOMAIN pieces
         /\ \A i \in DOMAIN pieces : pieces'[i].meta.by = pieces[i].meta.by

MovesOn(d, x) == /\ DOMAIN asks' = DOMAIN asks /\ asks'[d] = x
               /\ \A e \in DOMAIN asks : e # d => asks'[e] = asks[e]

LEMMA Moves ==
    ASSUME RowsInv, AsksInv, Still, NEW d \in Downloads, NEW x, MovesOn(d, x),
           x.fresh \in Nat, asks[d].fresh <= x.fresh,
           asks[d].info.by = "messages" => x.info.by = "messages",
           asks[d].pc \in {"again", "done"} => x.pc \in {"again", "done"} /\ x.fresh = asks[d].fresh
    PROVE  Onward /\ (DownloadInv(d)' => AsksInv')
<1>1. DOMAIN asks = Downloads /\ \A e \in Downloads : asks[e].fresh \in Nat
    <2>1. \A e \in Downloads : asks[e].fresh \in 0 .. age
        BY DEF AsksInv, DownloadInv
    <2>2. age \in Nat
        BY DEF RowsInv
    <2> QED
        BY <2>1, <2>2 DEF AsksInv
<1>2. ASSUME NEW f \in Downloads
      PROVE  /\ asks'[f].fresh \in Nat
             /\ asks[f].info.by = "messages" =>
                  asks'[f].info.by = "messages" /\ asks[f].fresh <= asks'[f].fresh
             /\ asks[f].pc \in {"again", "done"} =>
                  asks'[f].pc \in {"again", "done"} /\ asks'[f].fresh = asks[f].fresh
    <2>1. CASE f = d
        BY <2>1 DEF MovesOn
    <2>2. CASE f # d
        <3>1. asks'[f] = asks[f]
            BY <1>1, <2>2 DEF MovesOn
        <3>2. asks[f].fresh \in Nat /\ asks[f].fresh <= asks[f].fresh
            BY <1>1
        <3> QED
            BY <3>1, <3>2
    <2> QED
        BY <2>1, <2>2
<1>3. \A f \in Downloads : \A n : Through(f, n) => Through(f, n)'
    BY <1>2 DEF Through
<1>4. Onward
    <2>1. age \in Nat /\ mishaps \in Nat /\ mishaps' \in Nat /\ mishaps <= mishaps' /\ age <= age'
        BY DEF RowsInv, Still
    <2> QED
        BY <1>1, <1>2, <1>3, <2>1 DEF Onward, Still
<1>5. ASSUME NEW e \in Downloads, e # d PROVE DownloadInv(e)'
    <2>1. asks'[e] = asks[e] /\ DownloadInv(e)
        BY <1>1, <1>5 DEF MovesOn, AsksInv
    <2> QED
        BY <1>4, <2>1, AskStays
<1>6. DOMAIN asks' = Downloads
    BY <1>1 DEF MovesOn
<1> QED
    BY <1>4, <1>5, <1>6 DEF AsksInv

\* Of a download that has come to an end only the answer matters.
LEMMA ComesToAnEnd ==
    ASSUME RowsInv, AsksInv, Still, NEW d \in Downloads, NEW x, MovesOn(d, x),
           IsAsk(x), x.pc = "done", x.info = asks[d].info, x.fresh = asks[d].fresh,
           Onward => Answered(d)'
    PROVE  Onward /\ AsksInv'
<1>1. asks[d].fresh \in 0 .. age /\ age \in Nat /\ asks'[d] = x /\ age' = age
    BY DEF AsksInv, DownloadInv, RowsInv, MovesOn, Still
<1>2. x.fresh \in Nat /\ asks[d].fresh <= x.fresh /\ x.fresh \in 0 .. age'
    BY <1>1
<1>3. Onward /\ (DownloadInv(d)' => AsksInv')
    BY <1>2, Moves
<1>4. Underway(d)'
    BY <1>1 DEF Underway
<1>5. Renewing(d)'
    BY <1>1 DEF Renewing
<1>6. DownloadInv(d)'
    BY <1>1, <1>2, <1>3, <1>4, <1>5 DEF DownloadInv, IsAsk
<1> QED
    BY <1>3, <1>6

LEMMA FailIs ==
    ASSUME NEW d \in Downloads, d \in DOMAIN asks, IsAsk(asks[d]), Fail(d)
    PROVE  \E x : /\ MovesOn(d, x) /\ IsAsk(x) /\ x.pc = "done" /\ x.said = "error"
                  /\ x.info = asks[d].info /\ x.fresh = asks[d].fresh
                  /\ x.blobs = asks[d].blobs /\ x.of = asks[d].of
<1>1. PICK x : x = [asks[d] EXCEPT !.pc = "done", !.said = "error"]
    OBVIOUS
<1>2. x = [pc |-> "done", said |-> "error", got |-> asks[d].got, row |-> asks[d].row, of |-> asks[d].of,
           info |-> asks[d].info, url |-> asks[d].url, blobs |-> asks[d].blobs, fresh |-> asks[d].fresh,
           rows |-> asks[d].rows]
    BY <1>1 DEF IsAsk
<1>3. MovesOn(d, x)
    BY <1>1 DEF Fail, MovesOn
<1> QED
    BY <1>2, <1>3 DEF IsAsk

LEMMA Fails ==
    ASSUME RowsInv, AsksInv, Still, NEW d \in Downloads, Fail(d),
           Onward => Odd(d) \/ mishaps' > 0 \/ age > 1 \/ asks[d].info.by = "nothing"
    PROVE  Onward /\ AsksInv'
<1>1. d \in DOMAIN asks /\ IsAsk(asks[d])
    BY DEF AsksInv, DownloadInv
<1>2. PICK x : /\ MovesOn(d, x) /\ IsAsk(x) /\ x.pc = "done" /\ x.said = "error"
               /\ x.info = asks[d].info /\ x.fresh = asks[d].fresh
               /\ x.blobs = asks[d].blobs /\ x.of = asks[d].of
    BY <1>1, FailIs
<1>3. asks'[d] = x /\ age' = age
    BY <1>2 DEF MovesOn, Still
<1>4. ASSUME Onward PROVE Answered(d)'
    <2>1. Odd(d) => Odd(d)'
        BY <1>2, <1>3, <1>4, OddMoves
    <2>2. Odd(d)' \/ mishaps' > 0 \/ age > 1 \/ asks[d].info.by = "nothing"
        BY <1>4, <2>1
    <2> QED
        BY <1>2, <1>3, <2>2 DEF Answered
<1> QED
    BY <1>2, <1>4, ComesToAnEnd

LEMMA GiveIs ==
    ASSUME NEW d \in Downloads, d \in DOMAIN asks, IsAsk(asks[d]), NEW file, Give(d, file)
    PROVE  \E x : /\ MovesOn(d, x) /\ IsAsk(x) /\ x.pc = "done" /\ x.said = "file" /\ x.got = file
                  /\ x.info = asks[d].info /\ x.fresh = asks[d].fresh
                  /\ x.blobs = asks[d].blobs /\ x.of = asks[d].of
<1>1. PICK x : x = [asks[d] EXCEPT !.pc = "done", !.said = "file", !.got = file]
    OBVIOUS
<1>2. x = [pc |-> "done", said |-> "file", got |-> file, row |-> asks[d].row, of |-> asks[d].of,
           info |-> asks[d].info, url |-> asks[d].url, blobs |-> asks[d].blobs, fresh |-> asks[d].fresh,
           rows |-> asks[d].rows]
    BY <1>1 DEF IsAsk
<1>3. MovesOn(d, x)
    BY <1>1 DEF Give, MovesOn
<1> QED
    BY <1>2, <1>3 DEF IsAsk

\* The medium is had.
LEMMA Gives ==
    ASSUME RowsInv, AsksInv, Still, NEW d \in Downloads, NEW file, Give(d, file),
           file = asks[d].of \/ Odd(d)
    PROVE  Onward /\ AsksInv'
<1>1. d \in DOMAIN asks /\ IsAsk(asks[d])
    BY DEF AsksInv, DownloadInv
<1>2. PICK x : /\ MovesOn(d, x) /\ IsAsk(x) /\ x.pc = "done" /\ x.said = "file" /\ x.got = file
               /\ x.info = asks[d].info /\ x.fresh = asks[d].fresh
               /\ x.blobs = asks[d].blobs /\ x.of = asks[d].of
    BY <1>1, GiveIs
<1>3. asks'[d] = x /\ age' = age
    BY <1>2 DEF MovesOn, Still
<1>4. ASSUME Onward PROVE Answered(d)'
    <2>1. Odd(d) => Odd(d)'
        BY <1>2, <1>3, <1>4, OddMoves
    <2> QED
        BY <1>2, <1>3, <2>1 DEF Answered
<1> QED
    BY <1>2, <1>4, ComesToAnEnd

LEMMA ComeIs ==
    ASSUME NEW d \in Downloads, d \in DOMAIN asks, IsAsk(asks[d]), NEW pc, Come(d, pc)
    PROVE  \E x : /\ MovesOn(d, x) /\ IsAsk(x)
                  /\ x = [pc |-> pc, said |-> asks[d].said, got |-> asks[d].got, row |-> asks[d].row,
                          of |-> asks[d].of, info |-> asks[d].info, url |-> asks[d].url,
                          blobs |-> asks[d].blobs, fresh |-> asks[d].fresh, rows |-> asks[d].rows]
<1>1. PICK x : x = [asks[d] EXCEPT !.pc = pc]
    OBVIOUS
<1>2. x = [pc |-> pc, said |-> asks[d].said, got |-> asks[d].got, row |-> asks[d].row,
           of |-> asks[d].of, info |-> asks[d].info, url |-> asks[d].url,
           blobs |-> asks[d].blobs, fresh |-> asks[d].fresh, rows |-> asks[d].rows]
    BY <1>1 DEF IsAsk
<1>3. MovesOn(d, x)
    BY <1>1 DEF Come, MovesOn
<1> QED
    BY <1>2, <1>3 DEF IsAsk

LEMMA LookRight == ASSUME RowsInv, AsksInv, NEW d \in Downloads, Look(d) PROVE Onward /\ AsksInv'
<1>1. Still
    BY DEF Look, stillVars, Still
<1>2. PICK a : a = asks[d]
    OBVIOUS
<1>3. d \in DOMAIN asks /\ DownloadInv(d) /\ IsAsk(a) /\ a.pc = "idle"
    BY <1>2 DEF AsksInv, DownloadInv, Look, Unasked
<1>4. a.said = "nothing" /\ a.info.by = "no medium" /\ a.fresh \in 0 .. age /\ age \in Nat
    BY <1>2, <1>3 DEF DownloadInv, RowsInv
<1>5. PICK i \in DOMAIN pieces :
         /\ pieces[i].uri # Unnumbered
         /\ LET rows == {j \in DOMAIN pieces : pieces[j].id = pieces[i].uri /\ pieces[j].meta # NoMeta}
            IN  \/ /\ rows = {} /\ asks' = [asks EXCEPT ![d].pc = "done", ![d].said = "missing"]
                \/ \E j \in rows :
                     asks' = [asks EXCEPT ![d].pc = "get", ![d].row = j, ![d].of = pieces[i].of,
                                          ![d].info = pieces[j].meta, ![d].url = pieces[j].meta.url]
    BY DEF Look
<1>6. CASE /\ \A j \in DOMAIN pieces : ~ (pieces[j].id = pieces[i].uri /\ pieces[j].meta # NoMeta)
           /\ asks' = [asks EXCEPT ![d].pc = "done", ![d].said = "missing"]
    <2>1. ShareIsCaption(letter)
        BY <1>5, <1>6, LinkLeads
    <2>2. PICK x : x = [a EXCEPT !.pc = "done", !.said = "missing"]
        OBVIOUS
    <2>3. x = [pc |-> "done", said |-> "missing", got |-> a.got, row |-> a.row, of |-> a.of, info |-> a.info,
               url |-> a.url, blobs |-> a.blobs, fresh |-> a.fresh, rows |-> a.rows]
        BY <1>3, <2>2 DEF IsAsk
    <2>4. MovesOn(d, x)
        BY <1>2, <1>3, <1>6, <2>2 DEF MovesOn
    <2>5. asks'[d] = x
        BY <2>4 DEF MovesOn
    <2>6. ShareIsCaption(letter)'
        BY <1>1, <2>1, MessageSettled DEF Still
    <2>7. Answered(d)'
        BY <2>3, <2>5, <2>6 DEF Answered
    <2>8. IsAsk(x) /\ x.pc = "done" /\ x.info = asks[d].info /\ x.fresh = asks[d].fresh
        BY <1>2, <2>3 DEF IsAsk
    <2> QED
        BY <1>1, <2>4, <2>7, <2>8, ComesToAnEnd
<1>7. ASSUME NEW j \in DOMAIN pieces, pieces[j].id = pieces[i].uri, pieces[j].meta # NoMeta,
             asks' = [asks EXCEPT ![d].pc = "get", ![d].row = j, ![d].of = pieces[i].of,
                                  ![d].info = pieces[j].meta, ![d].url = pieces[j].meta.url]
      PROVE  Onward /\ AsksInv'
    <2>1. Medium(pieces[j]) /\ pieces[j].of = pieces[i].of
        BY <1>5, <1>7, LinkLeads
    <2>2. PICK of, info, url : of = pieces[i].of /\ info = pieces[j].meta /\ url = pieces[j].meta.url
        OBVIOUS
    <2>3. PICK x : x = [a EXCEPT !.pc = "get", !.row = j, !.of = of, !.info = info, !.url = url]
        OBVIOUS
    <2>4. x = [pc |-> "get", said |-> a.said, got |-> a.got, row |-> j, of |-> of, info |-> info,
               url |-> url, blobs |-> a.blobs, fresh |-> a.fresh, rows |-> a.rows]
        BY <1>3, <2>3 DEF IsAsk
    <2>4a. /\ x.pc = "get" /\ x.said = a.said /\ x.row = j /\ x.of = of /\ x.info = info /\ x.url = url
          /\ x.fresh = a.fresh
        BY <2>4
    <2>5. MovesOn(d, x)
        BY <1>2, <1>3, <1>7, <2>2, <2>3 DEF MovesOn
    <2>6. x.fresh \in Nat /\ asks[d].fresh <= x.fresh /\ x.fresh \in 0 .. age
        <3>1. asks[d].fresh = x.fresh
            BY <1>2, <2>4a
        <3>2. x.fresh \in 0 .. age /\ age \in Nat
            BY <1>4, <2>4a
        <3>3. x.fresh <= x.fresh /\ x.fresh \in Nat
            BY <3>2
        <3> QED
            BY <3>1, <3>2, <3>3
    <2>7. asks[d].info.by # "messages" /\ asks[d].pc \notin {"again", "done"}
        BY <1>2, <1>3, <1>4
    <2>8. Onward /\ (DownloadInv(d)' => AsksInv')
        BY <1>1, <2>5, <2>6, <2>7, Moves
    <2>9. asks'[d] = x /\ age' = age /\ pieces' = pieces
        BY <1>1, <2>5 DEF MovesOn, Still, Look
    <2>10. url[1] = of /\ url[2] \in 0 .. age
        BY <1>7, <2>1, <2>2 DEF Medium, RowsInv
    <2>11. IsAsk(x)
        BY <2>4 DEF IsAsk
    <2>12. Underway(d)'
        BY <1>4, <2>2, <2>4a, <2>9 DEF Underway
    <2>13. Renewing(d)'
        BY <2>4a, <2>9, <2>10 DEF Renewing
    <2>14. Answered(d)'
        BY <1>4, <2>4a, <2>9 DEF Answered
    <2>15. IsAsk(asks[d])'
        BY <2>9, <2>11 DEF IsAsk
    <2>16. DownloadInv(d)'
        BY <2>4a, <2>6, <2>9, <2>12, <2>13, <2>14, <2>15 DEF DownloadInv
    <2> QED
        BY <2>8, <2>16
<1> QED
    BY <1>5, <1>6, <1>7

LEMMA GetRight == ASSUME RowsInv, AsksInv, NEW d \in Downloads, Get(d) PROVE Onward /\ AsksInv'
<1>1. PICK a : a = asks[d]
    OBVIOUS
<1>2. d \in DOMAIN asks /\ DownloadInv(d) /\ IsAsk(asks[d]) /\ a.pc = "get"
    BY <1>1 DEF AsksInv, DownloadInv, Get
<1>3. /\ a.said = "nothing" /\ a.row \in DOMAIN pieces /\ a.info.by = pieces[a.row].meta.by
      /\ a.url[1] = a.of /\ a.url[2] \in 0 .. age /\ a.fresh \in 0 .. age /\ age \in Nat /\ mishaps \in Nat
    BY <1>1, <1>2 DEF DownloadInv, Underway, Renewing, RowsInv
<1>4. UNCHANGED <<letter, direct, bad, fetched, pieces, age, storyOver>>
    BY DEF Get, stillVars
<1>5. CASE Valid(asks[d].url) /\ Give(d, asks[d].url[1]) /\ UNCHANGED mishaps
    <2>1. Still
        BY <1>4, <1>5 DEF Still
    <2>2. PICK file : file = asks[d].url[1]
        OBVIOUS
    <2>3. file = asks[d].of
        BY <1>1, <1>3, <2>2
    <2>4. Give(d, file)
        BY <1>5, <2>2 DEF Give
    <2> QED
        BY <2>1, <2>3, <2>4, Gives
<1>6. CASE Mishap /\ Fail(d)
    <2>1. Still /\ mishaps' > 0
        BY <1>3, <1>4, <1>6 DEF Still, Mishap
    <2> QED
        BY <1>6, <2>1, Fails
<1>7. CASE Come(d, "renew") /\ ((~ Valid(asks[d].url) /\ UNCHANGED mishaps) \/ Mishap)
    <2>1. Still
        BY <1>3, <1>4, <1>7 DEF Still, Mishap
    <2>2. PICK pc : pc = "renew"
        OBVIOUS
    <2>3. Come(d, pc)
        BY <1>7, <2>2
    <2>4. PICK x : /\ MovesOn(d, x) /\ IsAsk(x)
                   /\ x = [pc |-> pc, said |-> asks[d].said, got |-> asks[d].got, row |-> asks[d].row,
                           of |-> asks[d].of, info |-> asks[d].info, url |-> asks[d].url,
                           blobs |-> asks[d].blobs, fresh |-> asks[d].fresh, rows |-> asks[d].rows]
        BY <1>2, <2>3, ComeIs
    <2>5. /\ x.pc = "renew" /\ x.said = a.said /\ x.row = a.row /\ x.of = a.of /\ x.info = a.info
          /\ x.url = a.url /\ x.fresh = a.fresh
        BY <1>1, <2>2, <2>4
    <2>6. x.fresh \in Nat /\ asks[d].fresh <= x.fresh /\ x.fresh \in 0 .. age
        <3>1. asks[d].fresh = x.fresh
            BY <1>1, <2>5
        <3>2. x.fresh \in 0 .. age /\ age \in Nat
            BY <1>3, <2>5
        <3>3. x.fresh <= x.fresh /\ x.fresh \in Nat
            BY <3>2
        <3> QED
            BY <3>1, <3>2, <3>3
    <2>7. /\ asks[d].pc \notin {"again", "done"}
          /\ asks[d].info.by = "messages" => x.info.by = "messages"
        BY <1>1, <1>2, <2>5
    <2>8. Onward /\ (DownloadInv(d)' => AsksInv')
        BY <2>1, <2>4, <2>6, <2>7, Moves
    <2>9. asks'[d] = x /\ age' = age /\ pieces' = pieces
        BY <1>4, <2>4 DEF MovesOn
    <2>10. age = 0 => mishaps' > 0
        <3>1. age = 0 => Valid(asks[d].url)
            BY <1>1, <1>3 DEF Valid
        <3> QED
            BY <1>3, <1>7, <3>1 DEF Mishap
    <2>11. Underway(d)' /\ Renewing(d)' /\ Answered(d)'
        BY <1>3, <2>5, <2>9, <2>10 DEF Underway, Renewing, Answered
    <2>12. IsAsk(asks[d])'
        BY <2>4, <2>9 DEF IsAsk
    <2>13. DownloadInv(d)'
        BY <2>5, <2>6, <2>9, <2>11, <2>12 DEF DownloadInv
    <2> QED
        BY <2>8, <2>13
<1> QED
    BY <1>5, <1>6, <1>7 DEF Get

LEMMA RefuseRight == ASSUME RowsInv, AsksInv, NEW d \in Downloads, Refuse(d) PROVE Onward /\ AsksInv'
<1>1. mishaps \in Nat /\ Fail(d)
    BY DEF RowsInv, Refuse
<1>2. Still
    BY <1>1 DEF Refuse, stillVars, Mishap, Still
<1>3. Odd(d) \/ mishaps' > 0 \/ asks[d].info.by = "nothing"
    BY <1>1 DEF Refuse, Mishap, Odd
<1> QED
    BY <1>1, <1>2, <1>3, Fails

LEMMA GetAgainRight == ASSUME RowsInv, AsksInv, NEW d \in Downloads, GetAgain(d) PROVE Onward /\ AsksInv'
<1>1. PICK a : a = asks[d]
    OBVIOUS
<1>2. a.pc = "again" /\ DownloadInv(d) /\ age \in Nat /\ mishaps \in Nat
    BY <1>1 DEF AsksInv, GetAgain, RowsInv
<1>3. (a.url[1] = a.of \/ Odd(d)) /\ a.url[2] \in 0 .. age /\ (a.url[2] = 0 => mishaps > 0)
    BY <1>1, <1>2 DEF DownloadInv, Renewing
<1>4. Still
    BY <1>2 DEF GetAgain, stillVars, Mishap, Still
<1>5. CASE Valid(asks[d].url) /\ Give(d, asks[d].url[1])
    <2>1. PICK file : file = asks[d].url[1]
        OBVIOUS
    <2>2. file = asks[d].of \/ Odd(d)
        BY <1>1, <1>3, <2>1
    <2>3. Give(d, file)
        BY <1>5, <2>1 DEF Give
    <2> QED
        BY <1>4, <2>2, <2>3, Gives
<1>6. CASE ~ Valid(asks[d].url) /\ Fail(d) /\ UNCHANGED mishaps
    <2>1. mishaps' > 0 \/ age > 1
        BY <1>1, <1>2, <1>3, <1>6 DEF Valid
    <2> QED
        BY <1>4, <1>6, <2>1, Fails
<1>7. CASE Mishap /\ Fail(d)
    <2>1. mishaps' > 0
        BY <1>2, <1>7 DEF Mishap
    <2> QED
        BY <1>4, <1>7, <2>1, Fails
<1> QED
    BY <1>5, <1>6, <1>7 DEF GetAgain

\* A download goes on.
LEMMA GoesOn ==
    ASSUME RowsInv, AsksInv, Still, NEW d \in Downloads, NEW x, MovesOn(d, x), IsAsk(x),
           asks[d].pc \notin {"again", "done"}, x.pc \in {"renew", "rows", "update", "again"},
           x.info = asks[d].info, x.said = "nothing", x.row \in DOMAIN pieces,
           asks[d].info.by = pieces[asks[d].row].meta.by, x.row = asks[d].row,
           x.fresh \in 0 .. age, asks[d].fresh <= x.fresh,
           Onward => Renewing(d)'
    PROVE  Onward /\ AsksInv'
<1>1. x.fresh \in Nat /\ age \in Nat
    BY DEF RowsInv
<1>2. Onward /\ (DownloadInv(d)' => AsksInv')
    BY <1>1, Moves
<1>3. asks'[d] = x /\ age' = age /\ DOMAIN pieces' = DOMAIN pieces
      /\ \A i \in DOMAIN pieces : pieces'[i].meta.by = pieces[i].meta.by
    BY DEF MovesOn, Still
<1>4. Underway(d)' /\ Answered(d)'
    BY <1>3 DEF Underway, Answered
<1>5. IsAsk(asks[d])'
    BY <1>3 DEF IsAsk
<1>6. DownloadInv(d)'
    BY <1>2, <1>3, <1>4, <1>5 DEF DownloadInv
<1> QED
    BY <1>2, <1>6

LEMMA RenewRight == ASSUME RowsInv, AsksInv, NEW d \in Downloads, Renew(d) PROVE Onward /\ AsksInv'
<1>1. PICK a : a = asks[d]
    OBVIOUS
<1>2. d \in DOMAIN asks /\ DownloadInv(d) /\ IsAsk(a) /\ a.pc = "renew"
    BY <1>1 DEF AsksInv, DownloadInv, Renew
<1>3. /\ a.said = "nothing" /\ a.row \in DOMAIN pieces /\ a.info.by = pieces[a.row].meta.by
      /\ a.fresh \in 0 .. age /\ age \in Nat /\ mishaps \in Nat /\ (age = 0 => mishaps > 0)
    BY <1>1, <1>2 DEF DownloadInv, Underway, Renewing, RowsInv
<1>4. Still /\ mishaps' = mishaps /\ age' = age
    BY DEF Renew, stillVars, Still
<1>5. PICK file \in Renewed(asks[d].info.by, asks[d].of) :
         asks' = [asks EXCEPT ![d].pc = "again", ![d].url = <<file, age>>]
    BY DEF Renew
<1>6. file = a.of \/ Odd(d)
    BY <1>1, <1>5 DEF Renewed, Odd
<1>7. PICK url : url = <<file, age>>
    OBVIOUS
<1>8. PICK x : x = [a EXCEPT !.pc = "again", !.url = url]
    OBVIOUS
<1>9. x = [pc |-> "again", said |-> a.said, got |-> a.got, row |-> a.row, of |-> a.of, info |-> a.info,
           url |-> url, blobs |-> a.blobs, fresh |-> a.fresh, rows |-> a.rows]
    BY <1>2, <1>8 DEF IsAsk
<1>10. MovesOn(d, x)
    BY <1>1, <1>2, <1>5, <1>7, <1>8 DEF MovesOn
<1>11. /\ x.pc = "again" /\ x.said = a.said /\ x.row = a.row /\ x.of = a.of /\ x.info = a.info
       /\ x.url = url /\ x.fresh = a.fresh /\ x.blobs = a.blobs
    BY <1>9
<1>12. IsAsk(x) /\ asks'[d] = x /\ url[1] = file /\ url[2] = age
    BY <1>7, <1>9, <1>10 DEF IsAsk, MovesOn
<1>13. asks[d].fresh = x.fresh /\ x.fresh \in 0 .. age /\ asks[d].fresh <= x.fresh
    BY <1>1, <1>3, <1>11
<1>14. ASSUME Onward PROVE Renewing(d)'
    <2>1. Odd(d) => Odd(d)'
        BY <1>1, <1>11, <1>12, <1>14, OddMoves
    <2>2. x.url[1] = x.of \/ Odd(d)'
        BY <1>6, <1>11, <1>12, <2>1
    <2>3. x.url[2] \in 0 .. age /\ (x.url[2] = 0 => mishaps > 0)
        BY <1>3, <1>11, <1>12
    <2> QED
        BY <1>4, <1>11, <1>12, <2>2, <2>3 DEF Renewing
<1> QED
    BY <1>1, <1>2, <1>3, <1>4, <1>10, <1>11, <1>12, <1>13, <1>14, GoesOn

LEMMA RefetchRight == ASSUME RowsInv, AsksInv, NEW d \in Downloads, Refetch(d) PROVE Onward /\ AsksInv'
<1>1. PICK a : a = asks[d]
    OBVIOUS
<1>2. d \in DOMAIN asks /\ DownloadInv(d) /\ IsAsk(a) /\ a.pc = "renew" /\ a.info.by = "messages"
    BY <1>1 DEF AsksInv, DownloadInv, Refetch
<1>3. /\ a.said = "nothing" /\ a.row \in DOMAIN pieces /\ a.info.by = pieces[a.row].meta.by
      /\ a.fresh \in 0 .. age /\ age \in Nat /\ mishaps \in Nat /\ (age = 0 => mishaps > 0)
    BY <1>1, <1>2 DEF DownloadInv, Underway, Renewing, RowsInv
<1>4. Still /\ mishaps' = mishaps /\ age' = age
    BY DEF Refetch, stillVars, Still
<1>5. PICK blobs \in Resent(letter) :
         asks' = [asks EXCEPT ![d].pc = "rows", ![d].blobs = blobs, ![d].fresh = age]
    BY DEF Refetch
<1>7. PICK newest : newest = age
    OBVIOUS
<1>8. PICK x : x = [a EXCEPT !.pc = "rows", !.blobs = blobs, !.fresh = newest]
    OBVIOUS
<1>9. x = [pc |-> "rows", said |-> a.said, got |-> a.got, row |-> a.row, of |-> a.of, info |-> a.info,
           url |-> a.url, blobs |-> blobs, fresh |-> newest, rows |-> a.rows]
    BY <1>2, <1>8 DEF IsAsk
<1>10. MovesOn(d, x)
    BY <1>1, <1>2, <1>5, <1>7, <1>8 DEF MovesOn
<1>11. /\ x.pc = "rows" /\ x.said = a.said /\ x.row = a.row /\ x.of = a.of /\ x.info = a.info
       /\ x.fresh = newest
    BY <1>9
<1>12. IsAsk(x) /\ asks'[d] = x
    BY <1>9, <1>10 DEF IsAsk, MovesOn
<1>13. x.fresh \in 0 .. age /\ asks[d].fresh <= x.fresh
    BY <1>1, <1>3, <1>7, <1>11
<1>14. Renewing(d)'
    BY <1>2, <1>3, <1>4, <1>7, <1>11, <1>12 DEF Renewing
<1> QED
    BY <1>1, <1>2, <1>3, <1>4, <1>10, <1>11, <1>12, <1>13, <1>14, GoesOn

LEMMA ReadRowsRight == ASSUME RowsInv, AsksInv, NEW d \in Downloads, ReadRows(d) PROVE Onward /\ AsksInv'
<1>1. PICK a : a = asks[d]
    OBVIOUS
<1>2. d \in DOMAIN asks /\ DownloadInv(d) /\ IsAsk(a) /\ a.pc = "rows"
    BY <1>1 DEF AsksInv, DownloadInv, ReadRows
<1>3. /\ a.said = "nothing" /\ a.row \in DOMAIN pieces /\ a.info.by = pieces[a.row].meta.by
      /\ a.fresh \in 0 .. age /\ age \in Nat /\ a.info.by = "messages" /\ (a.fresh = 0 => mishaps > 0)
    BY <1>1, <1>2 DEF DownloadInv, Underway, Renewing, RowsInv
<1>4. Still /\ mishaps' = mishaps /\ age' = age /\ pieces' = pieces
    BY DEF ReadRows, stillVars, Still
<1>7. PICK rows : rows = [i \in DOMAIN pieces |-> pieces[i].meta.url]
    OBVIOUS
<1>8. PICK x : x = [a EXCEPT !.pc = "update", !.rows = rows]
    OBVIOUS
<1>9. x = [pc |-> "update", said |-> a.said, got |-> a.got, row |-> a.row, of |-> a.of, info |-> a.info,
           url |-> a.url, blobs |-> a.blobs, fresh |-> a.fresh, rows |-> rows]
    BY <1>2, <1>8 DEF IsAsk
<1>10. MovesOn(d, x)
    BY <1>1, <1>2, <1>7, <1>8 DEF MovesOn, ReadRows
<1>11. /\ x.pc = "update" /\ x.said = a.said /\ x.row = a.row /\ x.of = a.of /\ x.info = a.info
       /\ x.fresh = a.fresh /\ x.rows = rows
    BY <1>9
<1>12. IsAsk(x) /\ asks'[d] = x
    BY <1>9, <1>10 DEF IsAsk, MovesOn
<1>13. asks[d].fresh = x.fresh /\ x.fresh \in 0 .. age /\ asks[d].fresh <= x.fresh
    BY <1>1, <1>3, <1>11
<1>14. ASSUME Onward PROVE Renewing(d)'
    <2>1. ASSUME NEW i \in DOMAIN pieces
          PROVE  rows[i][2] = 0 \/ \E e \in Downloads \ {d} : Through(e, rows[i][2])'
        <3>1. PICK n : n = rows[i][2]
            OBVIOUS
        <3>2. n = pieces[i].meta.url[2]
            BY <1>7, <3>1
        <3>3. n = 0 \/ \E e \in Downloads : Through(e, n)
            BY <3>2 DEF RowsInv
        <3>4. ~ Through(d, n)
            BY <1>1, <1>2 DEF Through
        <3>5. n = 0 \/ \E e \in Downloads \ {d} : Through(e, n)'
            BY <1>14, <3>3, <3>4 DEF Onward
        <3>6. \A e \in Downloads : Through(e, n)' => Through(e, rows[i][2])'
            BY <3>1 DEF Through
        <3> QED
            BY <3>1, <3>5, <3>6
    <2>2. RowsAsRead(d)'
        BY <1>4, <1>11, <1>12, <2>1 DEF RowsAsRead, Through
    <2> QED
        BY <1>3, <1>4, <1>11, <1>12, <2>2 DEF Renewing
<1> QED
    BY <1>1, <1>2, <1>3, <1>4, <1>10, <1>11, <1>12, <1>13, <1>14, GoesOn

Readdressed(x, url) == [x EXCEPT !.meta.url = url]

LEMMA ReaddressedIs ==
    ASSUME NEW x, IsPiece(x), IsMeta(x.meta), NEW url, NEW y, y = Readdressed(x, url)
    PROVE  /\ IsPiece(y) /\ y.shows = x.shows /\ y.of = x.of /\ y.id = x.id /\ y.uri = x.uri
           /\ y.opens = x.opens /\ y.caption = x.caption
           /\ IsMeta(y.meta) /\ y.meta.url = url /\ y.meta.by = x.meta.by
<1>1. PICK m : m = x.meta
    OBVIOUS
<1>2. PICK n : n = [url |-> url, by |-> m.by, index |-> m.index, expires |-> m.expires]
    OBVIOUS
<1>3. [m EXCEPT !.url = url] = n
    BY <1>1, <1>2 DEF IsMeta
<1>4. y = [shows |-> x.shows, of |-> x.of, place |-> x.place, id |-> x.id, uri |-> x.uri,
           meta |-> n, opens |-> x.opens, caption |-> x.caption]
    BY <1>1, <1>3 DEF IsPiece, Readdressed
<1>5. IsMeta(n) /\ n.url = url /\ n.by = x.meta.by
    BY <1>1, <1>2 DEF IsMeta
<1> QED
    BY <1>4, <1>5 DEF IsPiece

\* What an update makes of the rows.
LEMMA RowsUpdated ==
    ASSUME RowsInv, NEW updated, NEW newest,
           \A i \in updated : i \in DOMAIN pieces => pieces[i].meta.by = "messages",
           pieces' = [i \in DOMAIN pieces |->
                        IF i \in updated THEN [pieces[i] EXCEPT !.meta.url = <<pieces[i].of, newest>>]
                        ELSE pieces[i]]
    PROVE  /\ DOMAIN pieces' = DOMAIN pieces
           /\ \A i \in DOMAIN pieces :
                IF i \in updated
                THEN /\ IsPiece(pieces'[i]) /\ pieces'[i].shows = pieces[i].shows /\ pieces'[i].of = pieces[i].of
                     /\ pieces'[i].id = pieces[i].id /\ pieces'[i].uri = pieces[i].uri
                     /\ pieces'[i].opens = pieces[i].opens /\ pieces'[i].caption = pieces[i].caption
                     /\ Medium(pieces[i])
                     /\ IsMeta(pieces'[i].meta) /\ pieces'[i].meta.by = "messages"
                     /\ pieces'[i].meta.url[1] = pieces[i].of /\ pieces'[i].meta.url[2] = newest
                ELSE pieces'[i] = pieces[i]
<1>1. ASSUME NEW i \in DOMAIN pieces, i \in updated
      PROVE  /\ IsPiece(pieces'[i]) /\ pieces'[i].shows = pieces[i].shows /\ pieces'[i].of = pieces[i].of
             /\ pieces'[i].id = pieces[i].id /\ pieces'[i].uri = pieces[i].uri
             /\ pieces'[i].opens = pieces[i].opens /\ pieces'[i].caption = pieces[i].caption
             /\ Medium(pieces[i])
             /\ IsMeta(pieces'[i].meta) /\ pieces'[i].meta.by = "messages"
             /\ pieces'[i].meta.url[1] = pieces[i].of /\ pieces'[i].meta.url[2] = newest
    <2>1. PICK x : x = pieces[i]
        OBVIOUS
    <2>2. x.meta.by = "messages"
        BY <1>1, <2>1
    <2>3. x.meta # NoMeta
        BY <2>2, NoMetaIs
    <2>4. Medium(x) /\ IsPiece(x)
        BY <2>1, <2>3 DEF RowsInv, Kept
    <2>4a. IsMeta(x.meta)
        BY <2>4 DEF Medium
    <2>5. PICK url : url = <<x.of, newest>>
        OBVIOUS
    <2>6. PICK y : y = pieces'[i]
        OBVIOUS
    <2>7. y = Readdressed(x, url)
        BY <1>1, <2>1, <2>5, <2>6 DEF Readdressed
    <2>8. /\ IsPiece(y) /\ y.shows = x.shows /\ y.of = x.of /\ y.id = x.id /\ y.uri = x.uri
          /\ y.opens = x.opens /\ y.caption = x.caption
          /\ IsMeta(y.meta) /\ y.meta.url = url /\ y.meta.by = x.meta.by
        BY <2>4, <2>4a, <2>7, ReaddressedIs
    <2>9. url[1] = x.of /\ url[2] = newest
        BY <2>5
    <2> QED
        BY <2>1, <2>2, <2>4, <2>6, <2>8, <2>9
<1>2. \A i \in DOMAIN pieces : i \notin updated => pieces'[i] = pieces[i]
    OBVIOUS
<1>3. DOMAIN pieces' = DOMAIN pieces
    OBVIOUS
<1> QED
    BY <1>1, <1>2, <1>3, Zenon

LEMMA UpdateRowsRight ==
    ASSUME RowsInv, AsksInv, NEW d \in Downloads, UpdateRows(d)
    PROVE  RowsInv' /\ AsksInv'
<1>1. PICK a : a = asks[d]
    OBVIOUS
<1>2. d \in DOMAIN asks /\ DownloadInv(d) /\ IsAsk(asks[d]) /\ a.pc = "update"
    BY <1>1 DEF AsksInv, DownloadInv, UpdateRows
<1>3. /\ a.said = "nothing" /\ a.row \in DOMAIN pieces /\ a.info.by = pieces[a.row].meta.by
      /\ a.fresh \in 0 .. age /\ age \in Nat /\ mishaps \in Nat /\ a.info.by = "messages"
      /\ (a.fresh = 0 => mishaps > 0) /\ RowsAsRead(d)
    BY <1>1, <1>2 DEF DownloadInv, Underway, Renewing, RowsInv
<1>4. PICK updated \in {Newer(d), Newer(d) \ {asks[d].row}} :
         /\ IF updated = Newer(d) THEN UNCHANGED mishaps ELSE Mishap
         /\ pieces' = [i \in DOMAIN pieces |->
                         IF i \in updated THEN [pieces[i] EXCEPT !.meta.url = <<pieces[i].of, asks[d].fresh>>]
                         ELSE pieces[i]]
         /\ IF asks[d].row \in updated
            THEN asks' = [asks EXCEPT ![d].pc = "again", ![d].url = <<asks[d].of, asks[d].fresh>>]
            ELSE IF asks[d].info.index \in DOMAIN asks[d].blobs
            THEN asks' = [asks EXCEPT ![d].pc = "again",
                                      ![d].url = <<asks[d].blobs[asks[d].info.index].file, asks[d].fresh>>]
            ELSE Fail(d)
    BY DEF UpdateRows
<1>5. UNCHANGED <<letter, direct, bad, fetched, age, storyOver>>
    BY DEF UpdateRows, stillVars
<1>6. \A i \in updated : i \in DOMAIN pieces => pieces[i].meta.by = "messages"
    BY <1>4 DEF Newer
<1>7. PICK newest : newest = asks[d].fresh
    OBVIOUS
<1>8. /\ DOMAIN pieces' = DOMAIN pieces
      /\ \A i \in DOMAIN pieces :
           IF i \in updated
           THEN /\ IsPiece(pieces'[i]) /\ pieces'[i].shows = pieces[i].shows /\ pieces'[i].of = pieces[i].of
                /\ pieces'[i].id = pieces[i].id /\ pieces'[i].uri = pieces[i].uri
                /\ pieces'[i].opens = pieces[i].opens /\ pieces'[i].caption = pieces[i].caption
                /\ Medium(pieces[i])
                /\ IsMeta(pieces'[i].meta) /\ pieces'[i].meta.by = "messages"
                /\ pieces'[i].meta.url[1] = pieces[i].of /\ pieces'[i].meta.url[2] = newest
           ELSE pieces'[i] = pieces[i]
    <2>1. pieces' = [i \in DOMAIN pieces |->
                       IF i \in updated THEN [pieces[i] EXCEPT !.meta.url = <<pieces[i].of, newest>>]
                       ELSE pieces[i]]
        BY <1>4, <1>7
    <2> QED
        BY <1>6, <2>1, RowsUpdated
<1>9. Still
    <2>1. mishaps' = mishaps \/ mishaps' = mishaps + 1
        BY <1>4 DEF Mishap
    <2>2. \A i \in DOMAIN pieces : pieces'[i].meta.by = pieces[i].meta.by
        BY <1>6, <1>8
    <2> QED
        BY <1>5, <1>8, <2>1, <2>2 DEF Still
\* Where the number decides, another was first, or something went wrong.
<1>10. asks[d].row \notin updated => Overtaken(d) \/ mishaps' > 0
    <2> SUFFICES ASSUME asks[d].row \notin updated PROVE Overtaken(d) \/ mishaps' > 0
        OBVIOUS
    <2>1. CASE updated # Newer(d)
        BY <1>3, <1>4, <2>1 DEF Mishap
    <2>2. CASE updated = Newer(d)
        <3>1. mishaps' = mishaps /\ asks[d].rows[a.row][2] = asks[d].fresh
            BY <1>1, <1>3, <1>4, <2>2 DEF Newer
        <3>2. asks[d].rows[a.row][2] = 0 \/ \E e \in Downloads \ {d} : Through(e, asks[d].rows[a.row][2])
            BY <1>3 DEF RowsAsRead
        <3>3. CASE asks[d].fresh = 0
            BY <1>1, <1>3, <3>1, <3>3
        <3>4. ASSUME NEW e \in Downloads \ {d}, Through(e, asks[d].rows[a.row][2]) PROVE Overtaken(d)
            <4>1. asks[e].info.by = "messages" /\ asks[e].fresh = asks[d].fresh
                BY <3>1, <3>4 DEF Through
            <4>2. asks[d].fresh \in Nat
                BY <1>1, <1>3
            <4> QED
                BY <4>1, <4>2 DEF Overtaken
        <3> QED
            BY <3>1, <3>2, <3>3, <3>4
    <2> QED
        BY <2>1, <2>2
<1>11. ASSUME NEW x, MovesOn(d, x), x.pc \in {"again", "done"}, x.info = a.info, x.fresh = a.fresh, Onward
       PROVE  RowsInv'
    <2>1. asks'[d] = x /\ age' = age
        BY <1>5, <1>11 DEF MovesOn
    <2>2. Through(d, newest)'
        BY <1>1, <1>3, <1>7, <1>11, <2>1 DEF Through
    <2>3. ToMatrix(letter)' = ToMatrix(letter) /\ letter' = letter
        BY <1>5, MessageSettled
    <2>4. letter \in Letters /\ DOMAIN pieces = DOMAIN ToMatrix(letter) /\ mishaps' \in Nat
        BY <1>11 DEF RowsInv, Onward
    <2>5. ASSUME NEW i \in DOMAIN pieces PROVE Kept(pieces'[i], ToMatrix(letter)[i])
        <3>1. Kept(pieces[i], ToMatrix(letter)[i])
            BY DEF RowsInv
        <3>2. CASE i \in updated
            <4>1. Medium(pieces'[i])
                BY <1>8, <3>2 DEF Medium
            <4>2. pieces[i].meta # NoMeta
                BY <1>8, <3>2, NoMetaIs DEF Medium
            <4> QED
                BY <1>8, <3>1, <3>2, <4>1, <4>2 DEF Kept
        <3>3. CASE i \notin updated
            BY <1>8, <3>1, <3>3
        <3> QED
            BY <3>2, <3>3
    <2>6. ASSUME NEW i \in DOMAIN pieces
          PROVE  /\ pieces'[i].meta.url[2] \in 0 .. age
                 /\ pieces'[i].meta.url[2] = 0 \/ \E e \in Downloads : Through(e, pieces[i].meta.url[2])'
        <3>1. PICK n : n = pieces'[i].meta.url[2]
            OBVIOUS
        <3>2. n \in 0 .. age /\ (n = 0 \/ \E e \in Downloads : Through(e, n)')
            <4>1. CASE i \in updated
                <5>1. n = newest
                    BY <1>8, <3>1, <4>1
                <5>2. newest \in 0 .. age
                    BY <1>1, <1>3, <1>7
                <5>3. Through(d, n)'
                    BY <2>2, <5>1
                <5> QED
                    BY <5>1, <5>2, <5>3
            <4>2. CASE i \notin updated
                <5>1. n = pieces[i].meta.url[2]
                    BY <1>8, <3>1, <4>2
                <5>2. n \in 0 .. age /\ (n = 0 \/ \E e \in Downloads : Through(e, n))
                    BY <5>1 DEF RowsInv
                <5> QED
                    BY <1>11, <5>2 DEF Onward
            <4> QED
                BY <4>1, <4>2
        <3>3. \A e \in Downloads : Through(e, n)' => Through(e, pieces[i].meta.url[2])'
            BY <3>1 DEF Through
        <3> QED
            BY <3>1, <3>2, <3>3
    <2>7. \A i \in DOMAIN pieces : Kept(pieces[i], ToMatrix(letter)[i])'
        BY <2>3, <2>5 DEF Kept, Medium
    <2> QED
        BY <1>3, <1>8, <2>1, <2>3, <2>4, <2>6, <2>7 DEF RowsInv
<1>12. ASSUME NEW url, asks' = [asks EXCEPT ![d].pc = "again", ![d].url = url],
              url[2] = newest, url[1] = a.of \/ (Misnumbered(d) /\ (Overtaken(d) \/ mishaps' > 0))
       PROVE  RowsInv' /\ AsksInv'
    <2>1. PICK x : x = [a EXCEPT !.pc = "again", !.url = url]
        OBVIOUS
    <2>2. x = [pc |-> "again", said |-> a.said, got |-> a.got, row |-> a.row, of |-> a.of, info |-> a.info,
               url |-> url, blobs |-> a.blobs, fresh |-> a.fresh, rows |-> a.rows]
        BY <1>1, <1>2, <2>1 DEF IsAsk
    <2>3. MovesOn(d, x)
        BY <1>1, <1>2, <1>12, <2>1 DEF MovesOn
    <2>4. /\ x.pc = "again" /\ x.said = a.said /\ x.row = a.row /\ x.of = a.of /\ x.info = a.info
          /\ x.url = url /\ x.fresh = a.fresh /\ x.blobs = a.blobs
        BY <2>2
    <2>5. IsAsk(x) /\ asks'[d] = x
        BY <2>2, <2>3 DEF IsAsk, MovesOn
    <2>6. asks[d].fresh = x.fresh /\ x.fresh \in 0 .. age /\ asks[d].fresh <= x.fresh
        BY <1>1, <1>3, <2>4
    <2>7. ASSUME Onward PROVE Renewing(d)'
        <3>1. Misnumbered(d) => Misnumbered(d)'
            BY <1>1, <2>4, <2>5 DEF Misnumbered
        <3>2. Overtaken(d) => Overtaken(d)'
            <4> SUFFICES ASSUME NEW e \in Downloads \ {d}, asks[e].info.by = "messages",
                                asks[e].fresh >= asks[d].fresh
                         PROVE  asks'[e].info.by = "messages" /\ asks'[e].fresh >= asks'[d].fresh
                BY DEF Overtaken
            <4>1. /\ asks'[e].info.by = "messages" /\ asks[e].fresh <= asks'[e].fresh
                  /\ asks[e].fresh \in Nat /\ asks'[e].fresh \in Nat /\ asks[d].fresh \in Nat
                BY <2>7 DEF Onward
            <4> QED
                BY <2>5, <2>6, <4>1
        <3>3. x.url[1] = x.of \/ Odd(d)'
            BY <1>1, <1>3, <1>12, <2>4, <2>5, <3>1, <3>2 DEF Odd
        <3>4. x.url[2] \in 0 .. age /\ (x.url[2] = 0 => mishaps' > 0)
            <4>1. x.url[2] = a.fresh
                BY <1>1, <1>7, <1>12, <2>4
            <4>2. mishaps > 0 => mishaps' > 0
                BY <2>7 DEF Onward
            <4> QED
                BY <1>3, <4>1, <4>2
        <3> QED
            BY <1>5, <2>4, <2>5, <3>3, <3>4 DEF Renewing
    <2>8. Onward /\ AsksInv'
        BY <1>1, <1>2, <1>3, <1>9, <2>3, <2>4, <2>5, <2>6, <2>7, GoesOn
    <2>9. x.pc \in {"again", "done"}
        BY <2>4
    <2> QED
        BY <1>11, <2>3, <2>4, <2>8, <2>9
<1>13. CASE asks[d].row \in updated
    <2>1. PICK url : url = <<asks[d].of, asks[d].fresh>>
        OBVIOUS
    <2>2. asks' = [asks EXCEPT ![d].pc = "again", ![d].url = url]
        BY <1>4, <1>13, <2>1
    <2>3. url[1] = a.of /\ url[2] = newest
        BY <1>1, <1>7, <2>1
    <2> QED
        BY <1>12, <2>2, <2>3
<1>14. CASE asks[d].row \notin updated /\ asks[d].info.index \in DOMAIN asks[d].blobs
    <2>1. PICK url : url = <<asks[d].blobs[asks[d].info.index].file, asks[d].fresh>>
        OBVIOUS
    <2>2. asks' = [asks EXCEPT ![d].pc = "again", ![d].url = url]
        BY <1>4, <1>14, <2>1
    <2>3. url[1] = asks[d].blobs[asks[d].info.index].file /\ url[2] = newest
        BY <1>1, <1>7, <2>1
    <2>4. url[1] = a.of \/ Misnumbered(d)
        BY <1>1, <2>3 DEF Misnumbered
    <2> QED
        BY <1>10, <1>12, <1>14, <2>2, <2>3, <2>4
<1>15. CASE asks[d].row \notin updated /\ asks[d].info.index \notin DOMAIN asks[d].blobs
    <2>1. Fail(d)
        BY <1>4, <1>15
    <2>2. Misnumbered(d)
        BY <1>15 DEF Misnumbered
    <2>3. Odd(d) \/ mishaps' > 0
        BY <1>1, <1>3, <1>10, <1>15, <2>2 DEF Odd
    <2>4. Onward /\ AsksInv'
        BY <1>9, <2>1, <2>3, Fails
    <2>5. PICK x : /\ MovesOn(d, x) /\ x.pc = "done" /\ x.info = asks[d].info /\ x.fresh = asks[d].fresh
        BY <1>2, <2>1, FailIs
    <2>6. x.pc \in {"again", "done"} /\ x.info = a.info /\ x.fresh = a.fresh
        BY <1>1, <2>5
    <2> QED
        BY <1>11, <2>4, <2>5, <2>6
<1> QED
    BY <1>13, <1>14, <1>15

\* The addresses expire, or the story ends; the downloads wait.
LEMMA AllStay ==
    ASSUME RowsInv, AsksInv, UNCHANGED <<letter, direct, bad, fetched, pieces, mishaps, asks>>,
           age' = age \/ age' = age + 1, storyOver => storyOver'
    PROVE  RowsInv' /\ AsksInv'
<1>1. age \in Nat /\ mishaps \in Nat /\ age' \in Nat /\ age <= age' /\ mishaps <= mishaps'
    BY DEF RowsInv
<1>2. \A f \in Downloads : asks[f].fresh \in Nat /\ asks[f].fresh <= asks[f].fresh
    <2>1. \A f \in Downloads : asks[f].fresh \in 0 .. age
        BY DEF AsksInv, DownloadInv
    <2> QED
        BY <1>1, <2>1
<1>3. \A f \in Downloads : \A n : Through(f, n) => Through(f, n)'
    BY DEF Through
<1>4. Onward
    BY <1>1, <1>2, <1>3 DEF Onward
<1>5. \A d \in Downloads : DownloadInv(d)'
    BY <1>4, AskStays DEF AsksInv
<1> QED
    BY <1>4, <1>5, RowsStay DEF AsksInv

-----------------------------------------------------------------------------
(* The video. *)

ChunksInv ==
    /\ chunks = [off |-> chunks.off, held |-> chunks.held, got |-> chunks.got, over |-> chunks.over]
    /\ chunks.off \in Nat /\ chunks.held \in Seq(Nat) /\ chunks.got \in Seq(Nat)
    /\ \A k \in DOMAIN chunks.got : chunks.got[k] = k - 1
    /\ \A k \in DOMAIN chunks.held : chunks.held[k] = Len(chunks.got) + k - 1
    /\ chunks.off < letter.size => chunks.off = Len(chunks.got) + Len(chunks.held)
    /\ chunks.off >= letter.size => Len(chunks.got) + Len(chunks.held) = letter.size
    /\ chunks.over => Len(chunks.got) = letter.size /\ chunks.held = << >>

LEMMA SizeIs == ASSUME RowsInv PROVE letter.size \in Nat /\ ChunkSize \in Nat /\ ChunkSize > 0
<1>1. letter \in Letters
    BY DEF RowsInv
<1>2. letter.size \in Nat
    BY <1>1, LetterIs DEF LetterShape
<1>3. ChunkSize \in Nat \ {0}
    BY MediaAssumption DEF MediaAssumption
<1> QED
    BY <1>2, <1>3

LEMMA OpenChunkRight == ASSUME RowsInv, ChunksInv, OpenChunk PROVE ChunksInv'
<1>1. PICK size, off, got : size = letter.size /\ off = chunks.off /\ got = chunks.got
    OBVIOUS
<1>2. /\ size \in Nat /\ ChunkSize \in Nat /\ ChunkSize > 0 /\ off \in Nat /\ got \in Seq(Nat)
      /\ off < size /\ chunks.held = << >> /\ ~ chunks.over /\ letter' = letter
    BY <1>1, SizeIs DEF OpenChunk, ChunksInv
<1>3. off = Len(got) /\ Len(got) \in Nat
    <2>1. Len(<< >>) = 0
        OBVIOUS
    <2>2. Len(got) \in Nat
        BY <1>2
    <2>3. off = Len(got) + Len(chunks.held)
        BY <1>1, <1>2 DEF ChunksInv
    <2> QED
        BY <1>2, <2>1, <2>2, <2>3
<1>4. PICK last : last = off + ChunkSize - 1
    OBVIOUS
<1>5. PICK end : end = IF last > size THEN size - 1 ELSE last
    OBVIOUS
<1>6. PICK here : here = IF end < size THEN end ELSE size - 1
    OBVIOUS
<1>7. PICK n : n = here + 1 - off
    OBVIOUS
<1>8. /\ n \in Nat /\ end + 1 \in Nat
      /\ end + 1 < size => end + 1 = off + n
      /\ end + 1 >= size => off + n = size
    BY <1>2, <1>4, <1>5, <1>6, <1>7
<1>9. PICK ahead : ahead = [k \in 1 .. n |-> off + k - 1]
    OBVIOUS
<1>10. ahead \in Seq(Nat) /\ Len(ahead) = n /\ DOMAIN ahead = 1 .. n /\ \A k \in 1 .. n : ahead[k] = off + k - 1
    <2>1. \A k \in 1 .. n : off + k - 1 \in Nat
        BY <1>2, <1>8
    <2> QED
        BY <1>8, <1>9, <2>1
<1>11. PICK next : next = end + 1
    OBVIOUS
<1>12. chunks' = [chunks EXCEPT !.held = ahead, !.off = next]
    BY <1>1, <1>4, <1>5, <1>6, <1>7, <1>9, <1>11 DEF OpenChunk
<1>13. chunks' = [off |-> next, held |-> ahead, got |-> got, over |-> chunks.over]
    BY <1>1, <1>12 DEF ChunksInv
<1>14. /\ chunks'.off = next /\ chunks'.held = ahead /\ chunks'.got = got /\ chunks'.over = chunks.over
       /\ chunks' = [off |-> chunks'.off, held |-> chunks'.held, got |-> chunks'.got, over |-> chunks'.over]
    BY <1>13
<1>15. \A k \in DOMAIN ahead : ahead[k] = Len(got) + k - 1
    BY <1>3, <1>10
<1>16. \A k \in DOMAIN got : got[k] = k - 1
    BY <1>1 DEF ChunksInv
<1>17. /\ next \in Nat /\ (next < size => next = Len(got) + Len(ahead))
       /\ (next >= size => Len(got) + Len(ahead) = size)
    BY <1>3, <1>8, <1>10, <1>11
<1> QED
    BY <1>1, <1>2, <1>10, <1>14, <1>15, <1>16, <1>17 DEF ChunksInv

LEMMA JoinedIs ==
    ASSUME NEW s \in Seq(Nat), NEW t \in Seq(Nat), NEW u, u = s \o t
    PROVE  /\ u \in Seq(Nat) /\ Len(u) = Len(s) + Len(t) /\ Len(s) \in Nat /\ Len(t) \in Nat
           /\ \A i \in 1 .. Len(s) : u[i] = s[i]
           /\ \A i \in (Len(s) + 1) .. (Len(s) + Len(t)) : u[i] = t[i - Len(s)]
           /\ DOMAIN u = 1 .. (Len(s) + Len(t)) /\ DOMAIN s = 1 .. Len(s) /\ DOMAIN t = 1 .. Len(t)
OBVIOUS

LEMMA ReadChunkRight == ASSUME RowsInv, ChunksInv, ReadChunk PROVE ChunksInv'
<1>1. PICK size, off, got, ahead :
         size = letter.size /\ off = chunks.off /\ got = chunks.got /\ ahead = chunks.held
    OBVIOUS
<1>2. /\ size \in Nat /\ off \in Nat /\ got \in Seq(Nat) /\ ahead \in Seq(Nat) /\ letter' = letter
      /\ \A k \in DOMAIN got : got[k] = k - 1
      /\ \A k \in DOMAIN ahead : ahead[k] = Len(got) + k - 1
      /\ off < size => off = Len(got) + Len(ahead)
      /\ off >= size => Len(got) + Len(ahead) = size
    BY <1>1, SizeIs DEF ReadChunk, ChunksInv
<1>3. PICK u : u = got \o ahead
    OBVIOUS
<1>4. /\ u \in Seq(Nat) /\ Len(u) = Len(got) + Len(ahead) /\ Len(got) \in Nat /\ Len(ahead) \in Nat
      /\ \A i \in 1 .. Len(got) : u[i] = got[i]
      /\ \A i \in (Len(got) + 1) .. (Len(got) + Len(ahead)) : u[i] = ahead[i - Len(got)]
      /\ DOMAIN u = 1 .. (Len(got) + Len(ahead)) /\ DOMAIN got = 1 .. Len(got) /\ DOMAIN ahead = 1 .. Len(ahead)
    BY <1>2, <1>3, JoinedIs
<1>5. ASSUME NEW k \in DOMAIN u PROVE u[k] = k - 1
    <2>1. CASE k \in 1 .. Len(got)
        BY <1>2, <1>4, <2>1
    <2>2. CASE k \in (Len(got) + 1) .. (Len(got) + Len(ahead))
        <3>1. u[k] = ahead[k - Len(got)] /\ k - Len(got) \in DOMAIN ahead
            BY <1>4, <2>2
        <3>2. u[k] = Len(got) + (k - Len(got)) - 1
            BY <1>2, <3>1
        <3> QED
            BY <1>4, <2>2, <3>2
    <2> QED
        BY <1>4, <2>1, <2>2
<1>6. PICK done : done = (off >= size)
    OBVIOUS
<1>7. chunks' = [chunks EXCEPT !.got = u, !.held = << >>, !.over = done]
    BY <1>1, <1>3, <1>6 DEF ReadChunk
<1>8. chunks' = [off |-> off, held |-> << >>, got |-> u, over |-> done]
    BY <1>1, <1>7 DEF ChunksInv
<1>9. /\ chunks'.off = off /\ chunks'.held = << >> /\ chunks'.got = u /\ chunks'.over = done
      /\ chunks' = [off |-> chunks'.off, held |-> chunks'.held, got |-> chunks'.got, over |-> chunks'.over]
    BY <1>8
<1>10. << >> \in Seq(Nat) /\ Len(<< >>) = 0 /\ DOMAIN << >> = {}
    OBVIOUS
<1>11. /\ off < size => off = Len(u) + Len(<< >>)
       /\ off >= size => Len(u) + Len(<< >>) = size
       /\ done => Len(u) = size
    <2>1. done => off >= size
        BY <1>6, Zenon
    <2>2. Len(u) + Len(<< >>) = Len(u)
        BY <1>4, <1>10
    <2> QED
        BY <1>2, <1>4, <2>1, <2>2
<1> QED
    BY <1>1, <1>2, <1>4, <1>5, <1>9, <1>10, <1>11 DEF ChunksInv

-----------------------------------------------------------------------------
MediaInv == RowsInv /\ AsksInv /\ ChunksInv

LEMMA MediaStarts == MediaInit => MediaInv
<1> SUFFICES ASSUME MediaInit PROVE MediaInv
    OBVIOUS
<1>1. letter \in Letters /\ pieces = ToMatrix(letter) /\ age = 0 /\ mishaps = 0
    BY DEF MediaInit
<1>2. PICK ms : ms = ToMatrix(letter)
    OBVIOUS
<1>3. Stand(ms, letter)
    BY <1>1, <1>2, MessageStands
<1>4. ASSUME NEW i \in DOMAIN ms PROVE Kept(ms[i], ms[i]) /\ ms[i].meta.url[2] = 0
    <2>1. /\ IsPiece(ms[i])
          /\ \/ ms[i].meta = NoMeta
             \/ IsMeta(ms[i].meta) /\ ms[i].meta.url = <<ms[i].of, 0>> /\ ms[i].meta.by # "no medium"
        BY <1>3 DEF Stand
    <2>2. CASE ms[i].meta = NoMeta
        BY <2>1, <2>2, NoMetaIs DEF Kept
    <2>3. CASE IsMeta(ms[i].meta) /\ ms[i].meta.url = <<ms[i].of, 0>> /\ ms[i].meta.by # "no medium"
        <3>1. ms[i].meta.url[1] = ms[i].of /\ ms[i].meta.url[2] = 0
            <4>1. PICK url : url = <<ms[i].of, 0>>
                OBVIOUS
            <4>2. url[1] = ms[i].of /\ url[2] = 0
                BY <4>1
            <4> QED
                BY <2>3, <4>1, <4>2, Zenon
        <3>2. Medium(ms[i]) /\ ms[i].meta # NoMeta
            BY <2>3, <3>1, NoMetaIs DEF Medium
        <3> QED
            BY <2>1, <3>1, <3>2 DEF Kept
    <2> QED
        BY <2>1, <2>2, <2>3
<1>5. RowsInv
    BY <1>1, <1>2, <1>4 DEF RowsInv
<1>6. DOMAIN asks = Downloads
    BY DEF MediaInit
<1>7. ASSUME NEW d \in Downloads PROVE DownloadInv(d)
    <2>1. PICK a : a = asks[d]
        OBVIOUS
    <2>2. a = [pc |-> "idle", said |-> "nothing", got |-> "none", row |-> 0, of |-> "none",
               info |-> NoMeta, url |-> <<"none", 0>>, blobs |-> << >>, fresh |-> 0, rows |-> << >>]
        BY <2>1 DEF MediaInit
    <2>3. IsAsk(a) /\ a.pc = "idle" /\ a.said = "nothing" /\ a.info = NoMeta /\ a.fresh = 0
        BY <2>2 DEF IsAsk
    <2>4. Underway(d)
        BY <2>1, <2>3 DEF Underway
    <2>5. Renewing(d)
        BY <2>1, <2>3 DEF Renewing
    <2>6. Answered(d)
        BY <2>1, <2>3 DEF Answered
    <2>7. IsAsk(asks[d]) /\ asks[d].info.by = "no medium" /\ asks[d].fresh \in 0 .. age
        <3>1. 0 \in 0 .. age
            BY <1>1
        <3>2. asks[d].fresh \in 0 .. age
            BY <2>1, <2>3, <3>1, Zenon
        <3>3. asks[d].info.by = "no medium"
            BY <2>1, <2>3, NoMetaIs, Zenon
        <3> QED
            BY <2>1, <2>3, <3>2, <3>3, Zenon
    <2> QED
        BY <2>1, <2>3, <2>4, <2>5, <2>6, <2>7 DEF DownloadInv
<1>8. ChunksInv
    <2>1. letter.size \in Nat
        BY <1>5, SizeIs
    <2>2. PICK done : done = (letter.size = 0)
        OBVIOUS
    <2>3. chunks = [off |-> 0, held |-> << >>, got |-> << >>, over |-> done]
        BY <2>2 DEF MediaInit
    <2>4. << >> \in Seq(Nat) /\ Len(<< >>) = 0 /\ DOMAIN << >> = {}
        OBVIOUS
    <2>5. /\ chunks.off = 0 /\ chunks.held = << >> /\ chunks.got = << >> /\ chunks.over = done
          /\ chunks = [off |-> chunks.off, held |-> chunks.held, got |-> chunks.got, over |-> chunks.over]
        BY <2>3
    <2>6. done => letter.size = 0
        BY <2>2, Zenon
    <2> QED
        BY <2>1, <2>4, <2>5, <2>6 DEF ChunksInv
<1> QED
    BY <1>5, <1>6, <1>7, <1>8 DEF MediaInv, AsksInv

LEMMA MediaGoesOn == MediaInv /\ [MediaNext]_mediaVars => MediaInv'
<1> SUFFICES ASSUME RowsInv, AsksInv, ChunksInv, [MediaNext]_mediaVars PROVE MediaInv'
    BY DEF MediaInv
<1>1. ASSUME UNCHANGED <<letter, chunks>> PROVE ChunksInv'
    BY <1>1 DEF ChunksInv
<1>2. ASSUME NEW d \in Downloads, Look(d) PROVE MediaInv'
    <2>1. Onward /\ AsksInv' /\ pieces' = pieces /\ UNCHANGED <<letter, chunks>>
        BY <1>2, LookRight DEF Look, stillVars
    <2> QED
        BY <1>1, <2>1, RowsStay DEF MediaInv
<1>3. ASSUME NEW d \in Downloads, Get(d) PROVE MediaInv'
    <2>1. Onward /\ AsksInv' /\ pieces' = pieces /\ UNCHANGED <<letter, chunks>>
        BY <1>3, GetRight DEF Get, stillVars
    <2> QED
        BY <1>1, <2>1, RowsStay DEF MediaInv
<1>4. ASSUME NEW d \in Downloads, Refuse(d) PROVE MediaInv'
    <2>1. Onward /\ AsksInv' /\ pieces' = pieces /\ UNCHANGED <<letter, chunks>>
        BY <1>4, RefuseRight DEF Refuse, stillVars
    <2> QED
        BY <1>1, <2>1, RowsStay DEF MediaInv
<1>5. ASSUME NEW d \in Downloads, Renew(d) PROVE MediaInv'
    <2>1. Onward /\ AsksInv' /\ pieces' = pieces /\ UNCHANGED <<letter, chunks>>
        BY <1>5, RenewRight DEF Renew, stillVars
    <2> QED
        BY <1>1, <2>1, RowsStay DEF MediaInv
<1>6. ASSUME NEW d \in Downloads, Refetch(d) PROVE MediaInv'
    <2>1. Onward /\ AsksInv' /\ pieces' = pieces /\ UNCHANGED <<letter, chunks>>
        BY <1>6, RefetchRight DEF Refetch, stillVars
    <2> QED
        BY <1>1, <2>1, RowsStay DEF MediaInv
<1>7. ASSUME NEW d \in Downloads, ReadRows(d) PROVE MediaInv'
    <2>1. Onward /\ AsksInv' /\ pieces' = pieces /\ UNCHANGED <<letter, chunks>>
        BY <1>7, ReadRowsRight DEF ReadRows, stillVars
    <2> QED
        BY <1>1, <2>1, RowsStay DEF MediaInv
<1>8. ASSUME NEW d \in Downloads, UpdateRows(d) PROVE MediaInv'
    <2>1. RowsInv' /\ AsksInv' /\ UNCHANGED <<letter, chunks>>
        BY <1>8, UpdateRowsRight DEF UpdateRows, stillVars
    <2> QED
        BY <1>1, <2>1 DEF MediaInv
<1>9. ASSUME NEW d \in Downloads, GetAgain(d) PROVE MediaInv'
    <2>1. Onward /\ AsksInv' /\ pieces' = pieces /\ UNCHANGED <<letter, chunks>>
        BY <1>9, GetAgainRight DEF GetAgain, stillVars
    <2> QED
        BY <1>1, <2>1, RowsStay DEF MediaInv
<1>10. CASE Expire \/ StoryEnds
    <2>1. /\ UNCHANGED <<letter, direct, bad, fetched, pieces, mishaps, asks, chunks>>
          /\ age' = age \/ age' = age + 1
          /\ storyOver => storyOver'
        BY <1>10 DEF Expire, StoryEnds, stillVars
    <2> QED
        BY <1>1, <2>1, AllStay DEF MediaInv
<1>11. CASE OpenChunk \/ ReadChunk
    <2>1. UNCHANGED <<letter, direct, bad, fetched, pieces, age, storyOver, mishaps, asks>>
        BY <1>11 DEF OpenChunk, ReadChunk
    <2>2. RowsInv' /\ AsksInv'
        BY <2>1, AllStay
    <2>3. ChunksInv'
        BY <1>11, OpenChunkRight, ReadChunkRight
    <2> QED
        BY <2>2, <2>3 DEF MediaInv
<1>12. CASE UNCHANGED mediaVars
    <2>1. UNCHANGED <<letter, direct, bad, fetched, pieces, age, storyOver, mishaps, asks, chunks>>
        BY <1>12 DEF mediaVars
    <2>2. RowsInv' /\ AsksInv'
        BY <2>1, AllStay
    <2> QED
        BY <1>1, <2>1, <2>2 DEF MediaInv
<1> QED
    BY <1>2, <1>3, <1>4, <1>5, <1>6, <1>7, <1>8, <1>9, <1>10, <1>11, <1>12 DEF MediaNext

(* Of every message, however many follow its links and whenever the          *)
(* addresses expire: each piece is stored once under an id of its own, whose *)
(* link leads to it; who follows a link gets that medium, but for the        *)
(* exceptions RightFile names; and a video is read whole (ToMatrix, Download,*)
(* refreshBlobMedia, chunkedVideoDownloader).                                *)
THEOREM WhatWasSentIsFound == MediaSpec => []MediaFound
<1>1. MediaInv => MediaFound
    <2> SUFFICES ASSUME RowsInv, AsksInv, ChunksInv PROVE MediaFound
        BY DEF MediaInv
    <2>1. PiecesStand
        BY RowsFound
    <2>2. RightFile
        BY AsksRight
    <2>3. VideoWhole
        BY DEF ChunksInv, VideoWhole
    <2> QED
        BY <2>1, <2>2, <2>3 DEF MediaFound
<1> QED
    BY <1>1, MediaStarts, MediaGoesOn, PTL DEF MediaSpec

-----------------------------------------------------------------------------
(* Counting what a list has.                                                 *)

\* The places where a list has one of some values.
Having(s, those) == {i \in DOMAIN s : s[i] \in those}

LEMMA ListIs ==
    ASSUME NEW s, IsList(s)
    PROVE  /\ Len(s) \in Nat /\ DOMAIN s = 1 .. Len(s) /\ s = [i \in 1 .. Len(s) |-> s[i]]
           /\ \A i \in DOMAIN s : s[i] \in ToSet(s)
           /\ \A x \in ToSet(s) : \E i \in DOMAIN s : s[i] = x
BY DEF IsList, ToSet

\* What is defined at the numbers up to a length is a list.
LEMMA MadeList ==
    ASSUME NEW s, NEW n \in Nat, DOMAIN s = 1 .. n, s = [i \in 1 .. n |-> s[i]]
    PROVE  IsList(s) /\ Len(s) = n
<1>1. s \in [1 .. n -> ToSet(s)]
    BY DEF ToSet
<1>2. s \in Seq(ToSet(s))
    BY <1>1
<1> QED
    BY <1>2 DEF IsList

LEMMA PlacesFinite ==
    ASSUME NEW n \in Nat, NEW those, those \subseteq 1 .. n
    PROVE  IsFiniteSet(those) /\ Cardinality(those) \in Nat
<1>1. IsFiniteSet(1 .. n)
    <2>1. 1 \in Int /\ n \in Int
        OBVIOUS
    <2> QED
        BY <2>1, FS_Interval
<1>2. those \in SUBSET (1 .. n)
    OBVIOUS
<1>3. IsFiniteSet(those)
    BY <1>1, <1>2, FS_Subset
<1> QED
    BY <1>3, FS_CardinalityType

LEMMA HavingFinite ==
    ASSUME NEW s, IsList(s), NEW those
    PROVE  IsFiniteSet(Having(s, those)) /\ Cardinality(Having(s, those)) \in Nat
<1>1. Having(s, those) \subseteq 1 .. Len(s) /\ Len(s) \in Nat
    BY ListIs DEF Having
<1> QED
    BY <1>1, PlacesFinite

\* A list that chooses places of another: where the places are.
LEMMA ChosenIs ==
    ASSUME NEW s, IsList(s), NEW those
    PROVE  /\ IsList(Chosen(s, those))
           /\ \E places : /\ DOMAIN places = DOMAIN Chosen(s, those) /\ Apart(places)
                          /\ \A i \in DOMAIN places : /\ places[i] \in those /\ places[i] \in DOMAIN s
                                                      /\ Chosen(s, those)[i] = s[places[i]]
                          /\ \A m \in DOMAIN s : m \in those => \E i \in DOMAIN places : places[i] = m
<1>1. Len(s) \in Nat /\ DOMAIN s = 1 .. Len(s)
    BY ListIs
<1>2. PICK p : p = InOrder(Len(s), those)
    OBVIOUS
<1>3. /\ p \in Seq(Nat) /\ Apart(p)
      /\ \A i \in DOMAIN p : p[i] \in those /\ p[i] \in 1 .. Len(s)
      /\ \A m \in 1 .. Len(s) : m \in those => \E i \in DOMAIN p : p[i] = m
    BY <1>1, <1>2, InOrderIs DEF Climbs
<1>4. PICK c : c = Chosen(s, those)
    OBVIOUS
<1>5. c = [i \in DOMAIN p |-> s[p[i]]]
    BY <1>2, <1>4 DEF Chosen
<1>6. DOMAIN p = 1 .. Len(p) /\ Len(p) \in Nat
    BY <1>3
<1>7. IsList(c)
    <2>1. DOMAIN c = 1 .. Len(p) /\ c = [i \in 1 .. Len(p) |-> c[i]]
        BY <1>5, <1>6
    <2> QED
        BY <1>6, <2>1, MadeList
<1> QED
    BY <1>1, <1>3, <1>4, <1>5, <1>7

\* Two sets whose elements go together one to one.
LEMMA SameSize ==
    ASSUME NEW A, NEW B, NEW f, IsFiniteSet(A),
           \A a \in A : f[a] \in B,
           \A a, b \in A : f[a] = f[b] => a = b,
           \A b \in B : \E a \in A : f[a] = b
    PROVE  IsFiniteSet(B) /\ Cardinality(B) = Cardinality(A)
<1> DEFINE g == [a \in A |-> f[a]]
<1>1. g \in [A -> B]
    OBVIOUS
<1>2. g \in Injection(A, B)
    BY <1>1 DEF Injection, IsInjective
<1>3. g \in Surjection(A, B)
    BY <1>1 DEF Surjection
<1>4. ExistsBijection(A, B)
    BY <1>2, <1>3 DEF ExistsBijection, Bijection
<1> QED
    BY <1>4, FS_Bijection

\* Of the values that are looked for, the list has as many as the places chosen have.
LEMMA ChosenHas ==
    ASSUME NEW s, IsList(s), NEW those, NEW values
    PROVE  Cardinality(Having(Chosen(s, those), values))
             = Cardinality({n \in DOMAIN s : n \in those /\ s[n] \in values})
<1>1. PICK c : c = Chosen(s, those)
    OBVIOUS
<1>2. IsList(c)
    BY <1>1, ChosenIs
<1>3. PICK places : /\ DOMAIN places = DOMAIN c /\ Apart(places)
                    /\ \A i \in DOMAIN places : /\ places[i] \in those /\ places[i] \in DOMAIN s
                                                /\ c[i] = s[places[i]]
                    /\ \A m \in DOMAIN s : m \in those => \E i \in DOMAIN places : places[i] = m
    BY <1>1, ChosenIs
<1> DEFINE A == Having(c, values)
           B == {n \in DOMAIN s : n \in those /\ s[n] \in values}
<1>4. IsFiniteSet(A)
    BY <1>2, HavingFinite
<1>5. \A a \in A : places[a] \in B
    BY <1>3 DEF Having
<1>6. \A a, b \in A : places[a] = places[b] => a = b
    BY <1>3 DEF Having, Apart
<1>7. ASSUME NEW b \in B PROVE \E a \in A : places[a] = b
    <2>1. PICK i \in DOMAIN places : places[i] = b
        BY <1>3
    <2>2. i \in A
        BY <1>3, <2>1 DEF Having
    <2> QED
        BY <2>1, <2>2
<1> HIDE DEF A, B
<1>8. Cardinality(B) = Cardinality(A)
    BY <1>4, <1>5, <1>6, <1>7, SameSize
<1> QED
    BY <1>1, <1>8 DEF A, B

\* Two lists one after the other.
LEMMA JoinedLists ==
    ASSUME NEW s, IsList(s), NEW t, IsList(t)
    PROVE  /\ IsList(s \o t) /\ Len(s \o t) = Len(s) + Len(t)
           /\ \A i \in DOMAIN s : (s \o t)[i] = s[i]
           /\ \A i \in DOMAIN t : i + Len(s) \in DOMAIN (s \o t) /\ (s \o t)[i + Len(s)] = t[i]
           /\ \A i \in DOMAIN (s \o t) : i \in DOMAIN s \/ (i - Len(s) \in DOMAIN t /\ i \in Int)
<1>1. PICK T : T = ToSet(s) \cup ToSet(t)
    OBVIOUS
<1>2. s \in Seq(T) /\ t \in Seq(T)
    BY <1>1 DEF IsList
<1>3. PICK u : u = s \o t
    OBVIOUS
<1>4. /\ u \in Seq(T) /\ Len(u) = Len(s) + Len(t) /\ Len(s) \in Nat /\ Len(t) \in Nat
      /\ \A i \in 1 .. Len(s) : u[i] = s[i]
      /\ \A i \in (Len(s) + 1) .. (Len(s) + Len(t)) : u[i] = t[i - Len(s)]
      /\ DOMAIN u = 1 .. (Len(s) + Len(t)) /\ DOMAIN s = 1 .. Len(s) /\ DOMAIN t = 1 .. Len(t)
    BY <1>2, <1>3
<1>5. IsList(u)
    <2>1. u = [i \in 1 .. Len(u) |-> u[i]] /\ DOMAIN u = 1 .. Len(u) /\ Len(u) \in Nat
        BY <1>4
    <2> QED
        BY <2>1, MadeList
<1>6. ASSUME NEW i \in DOMAIN t PROVE i + Len(s) \in DOMAIN u /\ u[i + Len(s)] = t[i]
    <2>1. i + Len(s) \in (Len(s) + 1) .. (Len(s) + Len(t)) /\ (i + Len(s)) - Len(s) = i
        BY <1>4
    <2> QED
        BY <1>4, <2>1
<1>7. \A i \in DOMAIN u : i \in DOMAIN s \/ (i - Len(s) \in DOMAIN t /\ i \in Int)
    BY <1>4
<1> QED
    BY <1>3, <1>4, <1>5, <1>6, <1>7

LEMMA JoinedHave ==
    ASSUME NEW s, IsList(s), NEW t, IsList(t), NEW values
    PROVE  Cardinality(Having(s \o t, values)) = Cardinality(Having(s, values)) + Cardinality(Having(t, values))
<1>1. PICK u : u = s \o t
    OBVIOUS
<1>2. /\ IsList(u) /\ Len(u) = Len(s) + Len(t)
      /\ \A i \in DOMAIN s : u[i] = s[i]
      /\ \A i \in DOMAIN t : i + Len(s) \in DOMAIN u /\ u[i + Len(s)] = t[i]
      /\ \A i \in DOMAIN u : i \in DOMAIN s \/ (i - Len(s) \in DOMAIN t /\ i \in Int)
    BY <1>1, JoinedLists
<1>3. /\ Len(s) \in Nat /\ Len(t) \in Nat
      /\ DOMAIN s = 1 .. Len(s) /\ DOMAIN t = 1 .. Len(t) /\ DOMAIN u = 1 .. (Len(s) + Len(t))
    BY <1>2, ListIs
<1> DEFINE A == Having(s, values)
           B == Having(t, values)
           C == {i \in DOMAIN u : i > Len(s) /\ u[i] \in values}
           f == [i \in B |-> i + Len(s)]
<1>4. IsFiniteSet(A) /\ IsFiniteSet(B) /\ Cardinality(A) \in Nat /\ Cardinality(B) \in Nat
    BY HavingFinite
<1>5. IsFiniteSet(C) /\ Cardinality(C) = Cardinality(B)
    <2>1. \A b \in B : f[b] \in C
        BY <1>2, <1>3 DEF Having
    <2>2. \A a, b \in B : f[a] = f[b] => a = b
        BY <1>3 DEF Having
    <2>3. ASSUME NEW c \in C PROVE \E b \in B : f[b] = c
        <3>1. c - Len(s) \in DOMAIN t /\ (c - Len(s)) + Len(s) = c
            BY <1>3
        <3>2. c - Len(s) \in B
            BY <1>2, <3>1 DEF Having
        <3> QED
            BY <3>1, <3>2
    <2> HIDE DEF B, C, f
    <2> QED
        BY <1>4, <2>1, <2>2, <2>3, SameSize
<1>6. A \cap C = {} /\ Having(u, values) = A \cup C
    <2>1. A \cap C = {}
        BY <1>3 DEF Having
    <2>2. ASSUME NEW i PROVE i \in Having(u, values) <=> i \in A \cup C
        BY <1>2, <1>3 DEF Having
    <2> QED
        BY <2>1, <2>2
<1> HIDE DEF A, B, C
<1>7. Cardinality(A \cup C) = Cardinality(A) + Cardinality(C) - Cardinality(A \cap C)
    BY <1>4, <1>5, FS_Union
<1>8. Cardinality({}) = 0
    BY FS_EmptySet
<1>9. Cardinality(Having(u, values)) = Cardinality(A) + Cardinality(B)
    <2>1. Cardinality(A \cup C) = Cardinality(A) + Cardinality(B) - 0
        BY <1>5, <1>6, <1>7, <1>8
    <2> QED
        BY <1>4, <1>6, <2>1
<1> QED
    BY <1>1, <1>9 DEF A, B

-----------------------------------------------------------------------------
(* What is attached to a message.                                            *)

LEMMA TimesJoined ==
    ASSUME NEW s, IsList(s), NEW t, IsList(t), NEW x
    PROVE  Times(s \o t, x) = Times(s, x) + Times(t, x)
<1>1. \A u : Times(u, x) = Cardinality(Having(u, {x}))
    BY DEF Times, Having
<1>2. Cardinality(Having(s \o t, {x})) = Cardinality(Having(s, {x})) + Cardinality(Having(t, {x}))
    BY JoinedHave
<1> QED
    BY <1>1, <1>2

LEMMA LengthIs ==
    ASSUME NEW s, IsList(s)
    PROVE  Cardinality(DOMAIN s) = Len(s)
<1>1. Len(s) \in Nat /\ DOMAIN s = 1 .. Len(s)
    BY ListIs
<1>2. 1 \in Int /\ Len(s) \in Int
    BY <1>1
<1>3. Cardinality(1 .. Len(s)) = IF 1 > Len(s) THEN 0 ELSE Len(s) - 1 + 1
    BY <1>2, FS_Interval
<1> QED
    BY <1>1, <1>3

LEMMA ChosenLength ==
    ASSUME NEW s, IsList(s), NEW those, those \subseteq DOMAIN s
    PROVE  Len(Chosen(s, those)) = Cardinality(those)
<1>1. PICK c : c = Chosen(s, those)
    OBVIOUS
<1>2. IsList(c) /\ \A i \in DOMAIN c : c[i] \in ToSet(s)
    BY <1>1, ChosenIs, ListIs
<1>3. Having(c, ToSet(s)) = DOMAIN c
    BY <1>2 DEF Having
<1>4. {n \in DOMAIN s : n \in those /\ s[n] \in ToSet(s)} = those
    BY ListIs
<1>5. Cardinality(Having(c, ToSet(s))) = Cardinality({n \in DOMAIN s : n \in those /\ s[n] \in ToSet(s)})
    BY <1>1, ChosenHas
<1> QED
    BY <1>1, <1>2, <1>3, <1>4, <1>5, LengthIs

\* Where every member is the same.
LEMMA EachIs ==
    ASSUME NEW s, IsList(s), NEW att
    PROVE  /\ IsList(Each(s, att)) /\ Times(Each(s, att), att) = Len(s)
           /\ \A x : x # att => Times(Each(s, att), x) = 0
<1>1. PICK e : e = Each(s, att)
    OBVIOUS
<1>2. DOMAIN e = DOMAIN s /\ e = [i \in DOMAIN s |-> e[i]] /\ \A i \in DOMAIN e : e[i] = att
    BY <1>1 DEF Each
<1>3. IsList(e)
    BY <1>2, ListIs, MadeList
<1>4. {i \in DOMAIN e : e[i] = att} = DOMAIN s
    BY <1>2
<1>5. \A x : x # att => {i \in DOMAIN e : e[i] = x} = {}
    BY <1>2
<1> QED
    BY <1>1, <1>3, <1>4, <1>5, LengthIs, FS_EmptySet DEF Times

LEMMA NoneAre ==
    IsList(<< >>) /\ Len(<< >>) = 0 /\ \A x : Times(<< >>, x) = 0
<1>1. {i \in DOMAIN << >> : << >>[i] = i} = {} /\ \A x : {i \in DOMAIN << >> : << >>[i] = x} = {}
    OBVIOUS
<1>2. IsList(<< >>)
    BY DEF IsList, ToSet
<1> QED
    BY <1>1, <1>2, FS_EmptySet DEF Times

LEMMA OwnRows ==
    ASSUME NEW rows, IsList(rows), NEW id
    PROVE  /\ IsList(RowsOf(rows, id)) /\ OwnOf(rows, id) \subseteq DOMAIN rows
           /\ IsFiniteSet(OwnOf(rows, id)) /\ Len(RowsOf(rows, id)) = Cardinality(OwnOf(rows, id))
           /\ \A i \in DOMAIN RowsOf(rows, id) : \E n \in OwnOf(rows, id) : RowsOf(rows, id)[i] = rows[n]
           /\ \A n \in OwnOf(rows, id) : \E i \in DOMAIN RowsOf(rows, id) : RowsOf(rows, id)[i] = rows[n]
<1>1. PICK own : own = OwnOf(rows, id)
    OBVIOUS
<1>2. own \subseteq DOMAIN rows
    BY <1>1 DEF OwnOf
<1>3. PICK c : c = Chosen(rows, own)
    OBVIOUS
<1>4. c = RowsOf(rows, id)
    BY <1>1, <1>3 DEF RowsOf, OwnOf
<1>5. PICK places : /\ DOMAIN places = DOMAIN c
                    /\ \A i \in DOMAIN places : /\ places[i] \in own /\ places[i] \in DOMAIN rows
                                                /\ c[i] = rows[places[i]]
                    /\ \A m \in DOMAIN rows : m \in own => \E i \in DOMAIN places : places[i] = m
    BY <1>3, ChosenIs
<1>6. IsList(c) /\ Len(c) = Cardinality(own)
    BY <1>2, <1>3, ChosenIs, ChosenLength
<1>7. IsFiniteSet(own)
    BY <1>2, ListIs, PlacesFinite
<1> QED
    BY <1>1, <1>2, <1>4, <1>5, <1>6, <1>7

LEMMA OwnHave ==
    ASSUME NEW rows, IsList(rows), NEW id, NEW values
    PROVE  Cardinality(Having(RowsOf(rows, id), values))
             = Cardinality({n \in OwnOf(rows, id) : rows[n] \in values})
<1>1. PICK own : own = OwnOf(rows, id)
    OBVIOUS
<1>2. RowsOf(rows, id) = Chosen(rows, own)
    BY <1>1 DEF RowsOf, OwnOf
<1>3. {n \in DOMAIN rows : n \in own /\ rows[n] \in values} = {n \in own : rows[n] \in values}
    BY <1>1 DEF OwnOf
<1> QED
    BY <1>1, <1>2, <1>3, ChosenHas

\* Of a message's blobs one per attachment id, and those without.
LEMMA BlobsTold ==
    ASSUME NEW rows, IsList(rows), NEW id
    PROVE  /\ IsList(Blobs(RowsOf(rows, id)))
           /\ Times(Blobs(RowsOf(rows, id)), "blob")
                = Cardinality({rows[n].fbid : n \in OwnOf(rows, id)} \ {NoId})
                    + Cardinality({n \in OwnOf(rows, id) : rows[n].fbid = NoId})
           /\ \A x : x # "blob" => Times(Blobs(RowsOf(rows, id)), x) = 0
<1>1. PICK b : b = RowsOf(rows, id)
    OBVIOUS
<1>2. PICK own : own = OwnOf(rows, id)
    OBVIOUS
<1>3. /\ IsList(b) /\ own \subseteq DOMAIN rows
      /\ \A i \in DOMAIN b : \E n \in own : b[i] = rows[n]
      /\ \A n \in own : \E i \in DOMAIN b : b[i] = rows[n]
    BY <1>1, <1>2, OwnRows
<1>4. Len(b) \in Nat /\ DOMAIN b = 1 .. Len(b)
    BY <1>3, ListIs
<1> DEFINE First == {i \in DOMAIN b : b[i].fbid # NoId /\ \A j \in 1 .. i - 1 : b[j].fbid # b[i].fbid}
           Nameless == {i \in DOMAIN b : b[i].fbid = NoId}
           Those == {i \in DOMAIN b : b[i].fbid = NoId \/ \A j \in 1 .. i - 1 : b[j].fbid # b[i].fbid}
           Names == {rows[n].fbid : n \in own} \ {NoId}
           f == [i \in First |-> b[i].fbid]
<1>5. Blobs(b) = Each(Chosen(b, Those), "blob")
    BY DEF Blobs
<1>6. IsList(Chosen(b, Those)) /\ Len(Chosen(b, Those)) = Cardinality(Those)
    <2>1. Those \subseteq DOMAIN b
        OBVIOUS
    <2> HIDE DEF Those
    <2> QED
        BY <1>3, <2>1, ChosenIs, ChosenLength
<1>7. Cardinality(Those) = Cardinality(First) + Cardinality(Nameless)
    <2>1. First \subseteq 1 .. Len(b) /\ Nameless \subseteq 1 .. Len(b)
        BY <1>4
    <2>2. First \cap Nameless = {} /\ Those = First \cup Nameless
        OBVIOUS
    <2> HIDE DEF First, Nameless, Those
    <2>3. IsFiniteSet(First) /\ IsFiniteSet(Nameless) /\ Cardinality(First) \in Nat /\ Cardinality(Nameless) \in Nat
        BY <1>4, <2>1, PlacesFinite
    <2>4. Cardinality(Those) = Cardinality(First) + Cardinality(Nameless) - Cardinality({})
        BY <2>2, <2>3, FS_Union
    <2>5. Cardinality({}) = 0
        BY FS_EmptySet
    <2> QED
        BY <2>3, <2>4, <2>5
<1>8. Cardinality(Nameless) = Cardinality({n \in own : rows[n].fbid = NoId})
    <2> DEFINE values == {r \in ToSet(rows) : r.fbid = NoId}
    <2>1. \A n \in own : rows[n] \in ToSet(rows)
        BY <1>3, ListIs
    <2>2. Having(b, values) = Nameless
        BY <1>3, <2>1 DEF Having
    <2>3. {n \in own : rows[n] \in values} = {n \in own : rows[n].fbid = NoId}
        BY <2>1
    <2> HIDE DEF values, Nameless
    <2>4. Cardinality(Having(b, values)) = Cardinality({n \in own : rows[n] \in values})
        BY <1>1, <1>2, OwnHave
    <2> QED
        BY <2>2, <2>3, <2>4
<1>9. Cardinality(Names) = Cardinality(First)
    <2>1. IsFiniteSet(First)
        <3>1. First \subseteq 1 .. Len(b)
            BY <1>4
        <3> HIDE DEF First
        <3> QED
            BY <1>4, <3>1, PlacesFinite
    <2>2. \A i \in First : f[i] \in Names
        BY <1>3
    <2>3. ASSUME NEW i \in First, NEW j \in First, f[i] = f[j] PROVE i = j
        <3>1. b[i].fbid = b[j].fbid /\ i \in 1 .. Len(b) /\ j \in 1 .. Len(b)
            BY <1>4, <2>3
        <3>2. ~ (j \in 1 .. i - 1) /\ ~ (i \in 1 .. j - 1)
            BY <3>1
        <3> QED
            BY <1>4, <3>1, <3>2
    <2>4. ASSUME NEW v \in Names PROVE \E i \in First : f[i] = v
        <3> DEFINE Q == {i \in DOMAIN b : b[i].fbid = v}
        <3>0. v # NoId
            OBVIOUS
        <3>1. PICK n \in own : rows[n].fbid = v
            OBVIOUS
        <3>2. PICK i \in DOMAIN b : b[i] = rows[n]
            BY <1>3
        <3>3. Q \subseteq Nat /\ i \in Q
            BY <1>4, <3>1, <3>2
        <3>4. PICK x \in Q : \A y \in Q : x <= y
            BY <3>3, LeastOne
        <3>5. x \in DOMAIN b /\ b[x].fbid = v
            OBVIOUS
        <3>6. ASSUME NEW j \in 1 .. x - 1 PROVE b[j].fbid # v
            <4>1. j \in DOMAIN b /\ ~ (x <= j)
                BY <1>4, <3>5
            <4> QED
                BY <3>4, <4>1
        <3> QED
            BY <3>0, <3>5, <3>6
    <2> HIDE DEF First, Names, f
    <2> QED
        BY <2>1, <2>2, <2>3, <2>4, SameSize
<1> HIDE DEF First, Nameless, Those, Names
<1>10. /\ IsList(Blobs(b)) /\ Times(Blobs(b), "blob") = Cardinality(Those)
       /\ \A x : x # "blob" => Times(Blobs(b), x) = 0
    BY <1>5, <1>6, EachIs
<1> QED
    BY <1>1, <1>2, <1>7, <1>8, <1>9, <1>10 DEF Names

\* A message's stickers, unless it is one thumb.
LEMMA StickersTold ==
    ASSUME NEW rows, IsList(rows), NEW id, \A i \in DOMAIN rows : rows[i].thumb \in BOOLEAN
    PROVE  /\ IsList(Stickers(RowsOf(rows, id)))
           /\ Times(Stickers(RowsOf(rows, id)), "sticker")
                = Cardinality({n \in OwnOf(rows, id) : Cardinality(OwnOf(rows, id)) > 1 \/ ~ rows[n].thumb})
           /\ \A x : x # "sticker" => Times(Stickers(RowsOf(rows, id)), x) = 0
<1>1. PICK s : s = RowsOf(rows, id)
    OBVIOUS
<1>2. PICK own : own = OwnOf(rows, id)
    OBVIOUS
<1>3. /\ IsList(s) /\ own \subseteq DOMAIN rows /\ IsFiniteSet(own) /\ Len(s) = Cardinality(own)
      /\ \A i \in DOMAIN s : \E n \in own : s[i] = rows[n]
    BY <1>1, <1>2, OwnRows
<1>4. Len(s) \in Nat /\ DOMAIN s = 1 .. Len(s)
    BY <1>3, ListIs
<1>5. CASE Len(s) = 1 /\ s[1].thumb
    <2>1. Stickers(s) = << >>
        BY <1>5 DEF Stickers
    <2>2. PICK n : own = {n}
        <3>1. IsFiniteSet(own) /\ Cardinality(own) = 1
            BY <1>3, <1>5
        <3> QED
            BY <3>1, FS_Singleton, Zenon
    <2>3. s[1] = rows[n]
        BY <1>3, <1>4, <1>5, <2>2
    <2>4. {m \in own : Cardinality(own) > 1 \/ ~ rows[m].thumb} = {}
        BY <1>3, <1>5, <2>2, <2>3
    <2> QED
        BY <1>1, <1>2, <2>1, <2>4, NoneAre, FS_EmptySet
<1>6. CASE ~ (Len(s) = 1 /\ s[1].thumb)
    <2>1. Stickers(s) = Each(s, "sticker")
        BY <1>6 DEF Stickers
    <2>2. {m \in own : Cardinality(own) > 1 \/ ~ rows[m].thumb} = own
        <3>1. CASE Len(s) = 0
            BY <1>3, <3>1, FS_EmptySet
        <3>2. CASE Len(s) = 1
            <4>1. PICK n : own = {n}
                BY <1>3, <3>2, FS_Singleton
            <4>2. s[1] = rows[n]
                BY <1>3, <1>4, <3>2, <4>1
            <4> QED
                BY <1>6, <3>2, <4>1, <4>2
        <3>3. CASE Len(s) > 1
            BY <1>3, <3>3
        <3> QED
            BY <1>4, <3>1, <3>2, <3>3
    <2>3. /\ IsList(Each(s, "sticker")) /\ Times(Each(s, "sticker"), "sticker") = Len(s)
          /\ \A x : x # "sticker" => Times(Each(s, "sticker"), x) = 0
        BY <1>3, EachIs
    <2> QED
        BY <1>1, <1>2, <1>3, <2>1, <2>2, <2>3
<1> QED
    BY <1>5, <1>6

\* A message's shares: the maps and the links.
LEMMA SharesTold ==
    ASSUME NEW rows, IsList(rows), NEW id
    PROVE  /\ IsList(Shares(RowsOf(rows, id)))
           /\ Times(Shares(RowsOf(rows, id)), "location")
                = Cardinality({n \in OwnOf(rows, id) : rows[n].kind = "map"})
           /\ Times(Shares(RowsOf(rows, id)), "link")
                = Cardinality({n \in OwnOf(rows, id) : rows[n].kind = "link"})
           /\ \A x : x \notin {"location", "link"} => Times(Shares(RowsOf(rows, id)), x) = 0
<1>1. PICK s : s = RowsOf(rows, id)
    OBVIOUS
<1>2. PICK own : own = OwnOf(rows, id)
    OBVIOUS
<1>3. IsList(s) /\ own \subseteq DOMAIN rows /\ \A i \in DOMAIN s : \E n \in own : s[i] = rows[n]
    BY <1>1, <1>2, OwnRows
<1> DEFINE Those == {i \in DOMAIN s : s[i].kind \in {"map", "link"}}
           Of(kind) == {r \in ToSet(rows) : r.kind = kind}
<1>4. PICK c : c = Chosen(s, Those)
    OBVIOUS
<1>5. IsList(c) /\ \A i \in DOMAIN c : \E n \in DOMAIN s : c[i] = s[n] /\ s[n].kind \in {"map", "link"}
    <2>0. \A i \in Those : s[i].kind \in {"map", "link"}
        OBVIOUS
    <2> HIDE DEF Those
    <2>1. PICK places : /\ DOMAIN places = DOMAIN c
                        /\ \A i \in DOMAIN places : /\ places[i] \in Those /\ places[i] \in DOMAIN s
                                                    /\ c[i] = s[places[i]]
        BY <1>3, <1>4, ChosenIs
    <2>2. IsList(c)
        BY <1>3, <1>4, ChosenIs
    <2> QED
        BY <2>0, <2>1, <2>2
<1>6. PICK e : e = Shares(s)
    OBVIOUS
<1>7. e = [i \in DOMAIN c |-> IF c[i].kind = "map" THEN "location" ELSE "link"]
    BY <1>4, <1>6 DEF Shares
<1>8. IsList(e)
    <2>1. DOMAIN e = 1 .. Len(c) /\ Len(c) \in Nat /\ e = [i \in 1 .. Len(c) |-> e[i]]
        BY <1>5, <1>7, ListIs
    <2> QED
        BY <2>1, MadeList
<1>9. ASSUME NEW kind \in {"map", "link"}
      PROVE  Cardinality(Having(c, Of(kind))) = Cardinality({n \in own : rows[n].kind = kind})
    <2>1. \A n \in own : rows[n] \in ToSet(rows)
        BY <1>3, ListIs
    <2>2. {n \in DOMAIN s : n \in Those /\ s[n] \in Of(kind)} = Having(s, Of(kind))
        BY DEF Having
    <2>3. {n \in own : rows[n] \in Of(kind)} = {n \in own : rows[n].kind = kind}
        BY <2>1
    <2> HIDE DEF Those, Of
    <2>4. Cardinality(Having(c, Of(kind))) = Cardinality({n \in DOMAIN s : n \in Those /\ s[n] \in Of(kind)})
        BY <1>3, <1>4, ChosenHas
    <2>5. Cardinality(Having(s, Of(kind))) = Cardinality({n \in own : rows[n] \in Of(kind)})
        BY <1>1, <1>2, OwnHave
    <2> QED
        BY <2>2, <2>3, <2>4, <2>5
<1>10. \A i \in DOMAIN c : c[i] \in ToSet(rows)
    BY <1>3, <1>5, ListIs
<1>11. Times(e, "location") = Cardinality(Having(c, Of("map")))
    <2>1. {i \in DOMAIN e : e[i] = "location"} = Having(c, Of("map"))
        BY <1>7, <1>10 DEF Having
    <2> QED
        BY <2>1 DEF Times
<1>12. Times(e, "link") = Cardinality(Having(c, Of("link")))
    <2>1. {i \in DOMAIN e : e[i] = "link"} = Having(c, Of("link"))
        BY <1>5, <1>7, <1>10 DEF Having
    <2> QED
        BY <2>1 DEF Times
<1>13. ASSUME NEW x, x \notin {"location", "link"} PROVE Times(e, x) = 0
    <2>1. {i \in DOMAIN e : e[i] = x} = {}
        BY <1>7, <1>13
    <2> QED
        BY <2>1, FS_EmptySet DEF Times
<1> HIDE DEF Of
<1> QED
    BY <1>1, <1>2, <1>6, <1>8, <1>9, <1>11, <1>12, <1>13

LEMMA ReceivedIs ==
    ASSUME NEW t, TableShape(t)
    PROVE  /\ IsList(t.inserts) /\ IsList(t.upserts) /\ IsList(t.unreactions) /\ IsList(t.blobs)
           /\ IsList(t.stickers) /\ IsList(t.shares) /\ IsList(t.reactions) /\ IsList(t.rows)
           /\ \A i \in DOMAIN t.stickers : t.stickers[i].thumb \in BOOLEAN
BY DEF TableShape

LEMMA AllTold ==
    ASSUME NEW t, TableShape(t), NEW i \in DOMAIN t.inserts, Times(t.inserts, t.inserts[i]) = 1
    PROVE  /\ Convert(Wrapped(t)[i]).type = "message" /\ Convert(Wrapped(t)[i]).of = t.inserts[i]
           /\ AllAttached(t, t.inserts[i], Convert(Wrapped(t)[i]).atts)
<1>1. PICK id : id = t.inserts[i]
    OBVIOUS
<1>2. IsList(t.inserts) /\ DOMAIN t.inserts = 1 .. Len(t.inserts) /\ Len(t.inserts) \in Nat
    BY ReceivedIs, ListIs
<1>3. \A j \in DOMAIN t.inserts : t.inserts[j] = id => j =< i
    <2> DEFINE Q == {j \in DOMAIN t.inserts : t.inserts[j] = id}
    <2>1. Q \subseteq 1 .. Len(t.inserts) /\ i \in Q
        BY <1>1, <1>2
    <2>2. Cardinality(Q) = 1
        BY <1>1 DEF Times
    <2> HIDE DEF Q
    <2>3. IsFiniteSet(Q)
        BY <1>2, <2>1, PlacesFinite
    <2>4. PICK q : Q = {q}
        BY <2>2, <2>3, FS_Singleton
    <2>5. \A j \in Q : j = i
        BY <2>1, <2>4
    <2> QED
        BY <1>2, <2>1, <2>5 DEF Q
<1>4. PICK b : b = RowsOf(t.blobs, id)
    OBVIOUS
<1>5. PICK st : st = RowsOf(t.stickers, id)
    OBVIOUS
<1>6. PICK sh : sh = RowsOf(t.shares, id)
    OBVIOUS
<1>7. Wrapped(t)[i] = [id |-> id, blobs |-> b, stickers |-> st, shares |-> sh]
    BY <1>1, <1>3, <1>4, <1>5, <1>6 DEF Wrapped
<1>8. PICK atts : atts = (Blobs(b) \o Stickers(st)) \o Shares(sh)
    OBVIOUS
<1>9. Convert(Wrapped(t)[i]) = [type |-> "message", of |-> id, atts |-> atts]
    BY <1>7, <1>8 DEF Convert, Message
<1>10. IsList(Blobs(b)) /\ \A x : x # "blob" => Times(Blobs(b), x) = 0
    <2>1. IsList(t.blobs)
        BY ReceivedIs
    <2> QED
        BY <1>4, <2>1, BlobsTold
<1>11. IsList(Stickers(st)) /\ \A x : x # "sticker" => Times(Stickers(st), x) = 0
    <2>1. IsList(t.stickers) /\ \A n \in DOMAIN t.stickers : t.stickers[n].thumb \in BOOLEAN
        BY ReceivedIs
    <2>2. /\ IsList(Stickers(RowsOf(t.stickers, id)))
          /\ \A x : x # "sticker" => Times(Stickers(RowsOf(t.stickers, id)), x) = 0
        BY <2>1, StickersTold, Zenon
    <2> QED
        BY <1>5, <2>2
<1>12. IsList(Shares(sh)) /\ \A x : x \notin {"location", "link"} => Times(Shares(sh), x) = 0
    <2>1. IsList(t.shares)
        BY ReceivedIs
    <2>2. /\ IsList(Shares(RowsOf(t.shares, id)))
          /\ \A x : x \notin {"location", "link"} => Times(Shares(RowsOf(t.shares, id)), x) = 0
        BY <2>1, SharesTold, Zenon
    <2> QED
        BY <1>6, <2>2
<1>13. ASSUME NEW x PROVE Times(atts, x) = (Times(Blobs(b), x) + Times(Stickers(st), x)) + Times(Shares(sh), x)
    <2>1. PICK u : u = Blobs(b) \o Stickers(st)
        OBVIOUS
    <2>2. IsList(u) /\ Times(u, x) = Times(Blobs(b), x) + Times(Stickers(st), x)
        BY <1>10, <1>11, <2>1, JoinedLists, TimesJoined
    <2>3. Times(u \o Shares(sh), x) = Times(u, x) + Times(Shares(sh), x)
        BY <1>12, <2>2, TimesJoined
    <2> QED
        BY <1>8, <2>1, <2>2, <2>3
<1>14. /\ Times(Blobs(b), "blob") \in Nat /\ Times(Stickers(st), "sticker") \in Nat
       /\ Times(Shares(sh), "location") \in Nat /\ Times(Shares(sh), "link") \in Nat
    <2>1. \A u, x : Times(u, x) = Cardinality(Having(u, {x}))
        BY DEF Times, Having
    <2> QED
        BY <1>10, <1>11, <1>12, <2>1, HavingFinite
<1>15. /\ Times(atts, "blob") = Times(Blobs(b), "blob") /\ Times(atts, "sticker") = Times(Stickers(st), "sticker")
       /\ Times(atts, "location") = Times(Shares(sh), "location")
       /\ Times(atts, "link") = Times(Shares(sh), "link")
    BY <1>10, <1>11, <1>12, <1>13, <1>14
<1>16. AllAttached(t, id, atts)
    <2>1. Times(Blobs(b), "blob") = Cardinality({t.blobs[n].fbid : n \in OwnOf(t.blobs, id)} \ {NoId})
                                     + Cardinality({n \in OwnOf(t.blobs, id) : t.blobs[n].fbid = NoId})
        BY <1>4, BlobsTold, ReceivedIs
    <2>2. Times(Stickers(st), "sticker") = Cardinality({n \in OwnOf(t.stickers, id) :
                               Cardinality(OwnOf(t.stickers, id)) > 1 \/ ~ t.stickers[n].thumb})
        BY <1>5, StickersTold, ReceivedIs
    <2>3. /\ Times(Shares(sh), "location") = Cardinality({n \in OwnOf(t.shares, id) : t.shares[n].kind = "map"})
          /\ Times(Shares(sh), "link") = Cardinality({n \in OwnOf(t.shares, id) : t.shares[n].kind = "link"})
        BY <1>6, SharesTold, ReceivedIs
    <2> QED
        BY <1>15, <2>1, <2>2, <2>3 DEF AllAttached
<1> QED
    BY <1>1, <1>9, <1>16

-----------------------------------------------------------------------------
(* The events of a table.                                                    *)

\* A message is reported where it is first inserted, with all of it if that is the only place.
LEMMA MessagesAre ==
    ASSUME NEW t, TableShape(t)
    PROVE  /\ IsList(NewMessages(t))
           /\ \A j \in DOMAIN NewMessages(t) : /\ NewMessages(t)[j].type = "message"
                                               /\ NewMessages(t)[j].of \in ToSet(t.inserts)
           /\ \A id \in ToSet(t.inserts) \ {NoId} :
                \E j \in DOMAIN NewMessages(t) :
                  /\ About(NewMessages(t), "message", id) = {j}
                  /\ Times(t.inserts, id) = 1 => AllAttached(t, id, NewMessages(t)[j].atts)
<1>1. IsList(t.inserts) /\ DOMAIN t.inserts = 1 .. Len(t.inserts) /\ Len(t.inserts) \in Nat
    BY ReceivedIs, ListIs
<1>2. PICK list : list = t.inserts
    OBVIOUS
<1>3. PICK w : w = Wrapped(t)
    OBVIOUS
<1>4. /\ DOMAIN w = DOMAIN list /\ w = [i \in DOMAIN list |-> w[i]]
      /\ \A i \in DOMAIN list : Convert(w[i]).type = "message" /\ Convert(w[i]).of = list[i]
    BY <1>2, <1>3 DEF Wrapped, Convert, Message
<1>5. IsList(w)
    BY <1>1, <1>2, <1>4, MadeList
<1> DEFINE Those == {i \in DOMAIN list : list[i] = NoId \/ \A j \in 1 .. i - 1 : list[j] # list[i]}
<1>6. PICK c : c = Chosen(w, Those)
    OBVIOUS
<1>7. PICK n : n = NewMessages(t)
    OBVIOUS
<1>8. n = [i \in DOMAIN c |-> Convert(c[i])]
    BY <1>2, <1>3, <1>6, <1>7 DEF NewMessages
<1>9. \A i \in Those : i \in DOMAIN list /\ (list[i] # NoId => \A j \in 1 .. i - 1 : list[j] # list[i])
    OBVIOUS
<1>10. \A i \in DOMAIN list : (\A j \in 1 .. i - 1 : list[j] # list[i]) => i \in Those
    OBVIOUS
<1> HIDE DEF Those
<1>11. IsList(c)
    BY <1>5, <1>6, ChosenIs
<1>12. PICK p : /\ DOMAIN p = DOMAIN c /\ Apart(p)
                /\ \A i \in DOMAIN p : p[i] \in Those /\ p[i] \in DOMAIN w /\ c[i] = w[p[i]]
                /\ \A m \in DOMAIN w : m \in Those => \E i \in DOMAIN p : p[i] = m
    BY <1>5, <1>6, ChosenIs
<1>13. IsList(n)
    <2>1. DOMAIN n = 1 .. Len(c) /\ Len(c) \in Nat /\ n = [i \in 1 .. Len(c) |-> n[i]]
        BY <1>8, <1>11, ListIs
    <2> QED
        BY <2>1, MadeList
<1>14. \A j \in DOMAIN n : /\ n[j] = Convert(w[p[j]]) /\ p[j] \in DOMAIN list /\ n[j].type = "message"
                           /\ n[j].of = list[p[j]]
    BY <1>4, <1>8, <1>12
<1>15. \A j \in DOMAIN n : n[j].of \in ToSet(list)
    BY <1>1, <1>2, <1>14, ListIs
<1>16. ASSUME NEW id \in ToSet(list), id # NoId
       PROVE  \E j \in DOMAIN n : /\ About(n, "message", id) = {j}
                                  /\ Times(list, id) = 1 => AllAttached(t, id, n[j].atts)
    <2> DEFINE Q == {i \in DOMAIN list : list[i] = id}
    <2>1. PICK q \in DOMAIN list : list[q] = id
        BY <1>1, <1>2, ListIs
    <2>2. Q \subseteq Nat /\ Q # {}
        BY <1>1, <1>2, <2>1
    <2>3. PICK x \in Q : \A y \in Q : x <= y
        BY <2>2, LeastOne
    <2>4. x \in DOMAIN list /\ list[x] = id /\ x \in 1 .. Len(list) /\ DOMAIN list = 1 .. Len(list)
        BY <1>1, <1>2
    <2>5. \A j \in 1 .. x - 1 : list[j] # id
        <3> SUFFICES ASSUME NEW j \in 1 .. x - 1, list[j] = id PROVE FALSE
            OBVIOUS
        <3>1. j \in Q /\ ~ (x <= j)
            BY <1>1, <1>2, <2>4
        <3> QED
            BY <2>3, <3>1
    <2>6. x \in Those
        BY <1>10, <2>4, <2>5
    <2>7. PICK j \in DOMAIN n : p[j] = x
        BY <1>4, <1>8, <1>12, <2>4, <2>6
    <2>8. j \in About(n, "message", id)
        BY <1>14, <2>4, <2>7 DEF About
    <2>9. ASSUME NEW k \in About(n, "message", id) PROVE k = j
        <3>1. k \in DOMAIN n /\ n[k].of = id
            BY DEF About
        <3>2. p[k] \in DOMAIN list /\ list[p[k]] = id /\ p[k] \in Those
            BY <1>8, <1>12, <1>14, <3>1
        <3>3. \A i \in 1 .. p[k] - 1 : list[i] # id
            BY <1>9, <1>16, <3>2
        <3>4. ~ (x \in 1 .. p[k] - 1) /\ ~ (p[k] \in 1 .. x - 1)
            BY <2>4, <2>5, <3>2, <3>3
        <3>5. p[k] = x
            BY <1>1, <1>2, <2>4, <3>2, <3>4
        <3> QED
            BY <1>8, <1>12, <2>7, <3>1, <3>5 DEF Apart
    <2>10. About(n, "message", id) = {j}
        BY <2>8, <2>9
    <2>11. Times(list, id) = 1 => AllAttached(t, id, n[j].atts)
        <3>1. x \in DOMAIN t.inserts /\ t.inserts[x] = id /\ n[j] = Convert(Wrapped(t)[x])
            BY <1>2, <1>3, <1>14, <2>4, <2>7
        <3> QED
            BY <1>2, <3>1, AllTold
    <2> QED
        BY <2>10, <2>11
<1> QED
    BY <1>2, <1>7, <1>13, <1>14, <1>15, <1>16

\* A part that has nothing of a type but what is given.
Only(part, type) == IsList(part) /\ \A i \in DOMAIN part : part[i].type = type

LEMMA RowsTold ==
    ASSUME NEW t, TableShape(t), NEW type
    PROVE  Only(RowEvents(t, type), type)
<1>1. PICK those : those = {n \in DOMAIN t.rows : t.rows[n].type = type}
    OBVIOUS
<1>2. PICK c : c = Chosen(t.rows, those)
    OBVIOUS
<1>3. IsList(c)
    BY <1>2, ReceivedIs, ChosenIs
<1>4. PICK e : e = RowEvents(t, type)
    OBVIOUS
<1>5. e = [i \in DOMAIN c |-> [type |-> type, of |-> c[i].of, atts |-> << >>]]
    BY <1>1, <1>2, <1>4 DEF RowEvents, Other
<1>6. DOMAIN e = 1 .. Len(c) /\ Len(c) \in Nat /\ e = [i \in 1 .. Len(c) |-> e[i]]
    BY <1>3, <1>5, ListIs
<1> QED
    BY <1>4, <1>5, <1>6, MadeList DEF Only

LEMMA FallbackIs ==
    ASSUME NEW t, TableShape(t)
    PROVE  Only(Fallback(t), "message") /\ \A i \in DOMAIN Fallback(t) : Fallback(t)[i].of = NoId
<1>1. PICK those : those = {i \in DOMAIN t.inserts : t.inserts[i] = NoId}
    OBVIOUS
<1>2. PICK c : c = Chosen(t.inserts, those)
    OBVIOUS
<1>3. IsList(t.inserts)
    BY ReceivedIs
<1>4. IsList(c) /\ \A i \in DOMAIN c : c[i] = NoId
    BY <1>1, <1>2, <1>3, ChosenIs
<1>5. PICK e : e = Fallback(t)
    OBVIOUS
<1>6. e = [i \in DOMAIN c |-> [type |-> "message", of |-> c[i], atts |-> << >>]]
    BY <1>1, <1>2, <1>5 DEF Fallback, Message
<1>7. DOMAIN e = 1 .. Len(c) /\ Len(c) \in Nat /\ e = [i \in 1 .. Len(c) |-> e[i]]
    BY <1>4, <1>6, ListIs
<1>8. IsList(e)
    BY <1>7, MadeList
<1> QED
    BY <1>4, <1>5, <1>6, <1>8 DEF Only

\* No reaction is lost but those to a message that is upserted.
LEMMA ReactionsTold ==
    ASSUME NEW t, TableShape(t), NEW id
    PROVE  /\ Only(Reactions(t), "reaction")
           /\ Cardinality(About(Reactions(t), "reaction", id)) =
                IF id \in ToSet(t.upserts) THEN 0 ELSE Cardinality(OwnOf(t.reactions, id))
<1>1. PICK rows : rows = t.reactions
    OBVIOUS
<1>2. IsList(rows)
    BY <1>1, ReceivedIs
<1> DEFINE Those == {n \in DOMAIN rows : rows[n].of \notin ToSet(t.upserts)}
           Its == {r \in ToSet(rows) : r.of = id}
<1>3. PICK c : c = Chosen(rows, Those)
    OBVIOUS
<1>4. c = NewReactions(t)
    BY <1>1, <1>3 DEF NewReactions
<1>5. IsList(c) /\ \A i \in DOMAIN c : c[i] \in ToSet(rows)
    <2> HIDE DEF Those
    <2> QED
        BY <1>2, <1>3, ChosenIs, ListIs
<1>6. PICK e : e = Reactions(t)
    OBVIOUS
<1>7. e = [i \in DOMAIN c |-> [type |-> "reaction", of |-> c[i].of, atts |-> << >>]]
    BY <1>4, <1>6 DEF Reactions, Other
<1>8. Only(e, "reaction")
    <2>1. DOMAIN e = 1 .. Len(c) /\ Len(c) \in Nat /\ e = [i \in 1 .. Len(c) |-> e[i]]
        BY <1>5, <1>7, ListIs
    <2> QED
        BY <1>7, <2>1, MadeList DEF Only
<1>9. About(e, "reaction", id) = Having(c, Its)
    BY <1>5, <1>7 DEF About, Having
<1>10. {n \in DOMAIN rows : n \in Those /\ rows[n] \in Its}
         = IF id \in ToSet(t.upserts) THEN {} ELSE OwnOf(rows, id)
    BY <1>2, ListIs DEF OwnOf
<1>11. Cardinality(Having(c, Its)) = Cardinality({n \in DOMAIN rows : n \in Those /\ rows[n] \in Its})
    <2> HIDE DEF Those, Its
    <2> QED
        BY <1>2, <1>3, ChosenHas
<1> QED
    BY <1>1, <1>6, <1>8, <1>9, <1>10, <1>11, FS_EmptySet

\* Each is reported once.
LEMMA UnreactionsTold ==
    ASSUME NEW told, IsList(told)
    PROVE  /\ Only(Unreactions(told), "unreaction")
           /\ \A k : Apart(told) /\ k \in ToSet(told) => Cardinality(About(Unreactions(told), "unreaction", k)) = 1
           /\ \A k : k \notin ToSet(told) => Cardinality(About(Unreactions(told), "unreaction", k)) = 0
<1>1. PICK e : e = Unreactions(told)
    OBVIOUS
<1>2. e = [i \in DOMAIN told |-> [type |-> "unreaction", of |-> told[i], atts |-> << >>]]
    BY <1>1 DEF Unreactions, Other
<1>3. Only(e, "unreaction")
    <2>1. DOMAIN e = 1 .. Len(told) /\ Len(told) \in Nat /\ e = [i \in 1 .. Len(told) |-> e[i]]
        BY <1>2, ListIs
    <2> QED
        BY <1>2, <2>1, MadeList DEF Only
<1>4. \A k : About(e, "unreaction", k) = {i \in DOMAIN told : told[i] = k}
    BY <1>2 DEF About
<1>5. ASSUME NEW k, Apart(told), k \in ToSet(told) PROVE Cardinality(About(e, "unreaction", k)) = 1
    <2>1. PICK i \in DOMAIN told : told[i] = k
        BY <1>5, ListIs
    <2>2. {j \in DOMAIN told : told[j] = k} = {i}
        BY <1>5, <2>1 DEF Apart
    <2> QED
        BY <1>4, <2>2, FS_Singleton
<1>6. ASSUME NEW k, k \notin ToSet(told) PROVE Cardinality(About(e, "unreaction", k)) = 0
    <2>1. {j \in DOMAIN told : told[j] = k} = {}
        BY <1>6, ListIs
    <2> QED
        BY <1>4, <2>1, FS_EmptySet
<1> QED
    BY <1>1, <1>3, <1>5, <1>6

\* What begins with some events, and tells of no other message with an id after them.
Begins(events, first) ==
    /\ IsList(events) /\ Len(first) <= Len(events)
    /\ \A i \in DOMAIN first : i \in DOMAIN events /\ events[i] = first[i]
    /\ \A i \in DOMAIN events : i \notin DOMAIN first => (events[i].type = "message" => events[i].of = NoId)

\* As many of a type about somebody as a part has.
AsMany(events, part, type) ==
    \A id : Cardinality(About(events, type, id)) = Cardinality(About(part, type, id))

\* Nothing of a type.
Without(events, type) == \A i \in DOMAIN events : events[i].type # type

LEMMA AtJoined ==
    ASSUME NEW s, IsList(s), NEW t, IsList(t), NEW type
    PROVE  /\ Without(t, type) => AsMany(s \o t, s, type)
           /\ Without(s, type) => AsMany(s \o t, t, type)
           /\ Without(s, type) /\ Without(t, type) => Without(s \o t, type)
<1>1. PICK u : u = s \o t
    OBVIOUS
<1>2. /\ IsList(u) /\ \A i \in DOMAIN s : u[i] = s[i]
      /\ \A i \in DOMAIN t : i + Len(s) \in DOMAIN u /\ u[i + Len(s)] = t[i]
      /\ \A i \in DOMAIN u : i \in DOMAIN s \/ (i - Len(s) \in DOMAIN t /\ i \in Int)
    BY <1>1, JoinedLists
<1>3. /\ Len(s) \in Nat /\ Len(t) \in Nat /\ \A i \in DOMAIN s : s[i] \in ToSet(s)
      /\ \A i \in DOMAIN t : t[i] \in ToSet(t)
    BY ListIs
<1>4. ASSUME NEW i \in DOMAIN u PROVE (\E j \in DOMAIN s : u[i] = s[j]) \/ \E j \in DOMAIN t : u[i] = t[j]
    <2>1. CASE i \in DOMAIN s
        BY <1>2, <2>1
    <2>2. CASE i - Len(s) \in DOMAIN t /\ i \in Int
        <3>1. (i - Len(s)) + Len(s) = i
            BY <1>3, <2>2
        <3> QED
            BY <1>2, <2>2, <3>1
    <2> QED
        BY <1>2, <2>1, <2>2
<1>5. ASSUME NEW id
      PROVE  Cardinality(About(u, type, id)) = Cardinality(About(s, type, id)) + Cardinality(About(t, type, id))
    <2>1. PICK those : those = {x \in ToSet(s) \cup ToSet(t) : x.type = type /\ x.of = id}
        OBVIOUS
    <2>2. About(s, type, id) = Having(s, those) /\ About(t, type, id) = Having(t, those)
        BY <1>3, <2>1 DEF About, Having
    <2>3. About(u, type, id) = Having(u, those)
        <3>1. \A i \in DOMAIN u : u[i] \in ToSet(s) \cup ToSet(t)
            BY <1>3, <1>4
        <3> QED
            BY <2>1, <3>1 DEF About, Having
    <2>4. Cardinality(Having(u, those)) = Cardinality(Having(s, those)) + Cardinality(Having(t, those))
        BY <1>1, JoinedHave
    <2> QED
        BY <2>2, <2>3, <2>4
<1>6. ASSUME NEW v, IsList(v), NEW id
      PROVE  /\ Cardinality(About(v, type, id)) \in Nat
             /\ Without(v, type) => Cardinality(About(v, type, id)) = 0
    <2>1. About(v, type, id) \subseteq 1 .. Len(v) /\ Len(v) \in Nat
        BY <1>6, ListIs DEF About
    <2>2. Without(v, type) => About(v, type, id) = {}
        BY DEF Without, About
    <2> QED
        BY <2>1, <2>2, PlacesFinite, FS_EmptySet
<1>7. Without(t, type) => AsMany(u, s, type)
    BY <1>5, <1>6 DEF AsMany
<1>8. Without(s, type) => AsMany(u, t, type)
    BY <1>5, <1>6 DEF AsMany
<1>9. Without(s, type) /\ Without(t, type) => Without(u, type)
    BY <1>4 DEF Without
<1> QED
    BY <1>1, <1>7, <1>8, <1>9

LEMMA BeginsLonger ==
    ASSUME NEW e, NEW first, IsList(first), Begins(e, first), NEW part, IsList(part),
           \A i \in DOMAIN part : part[i].type = "message" => part[i].of = NoId
    PROVE  Begins(e \o part, first)
<1>1. PICK u : u = e \o part
    OBVIOUS
<1>2. /\ IsList(u) /\ Len(u) = Len(e) + Len(part) /\ \A i \in DOMAIN e : u[i] = e[i]
      /\ \A i \in DOMAIN part : i + Len(e) \in DOMAIN u /\ u[i + Len(e)] = part[i]
      /\ \A i \in DOMAIN u : i \in DOMAIN e \/ (i - Len(e) \in DOMAIN part /\ i \in Int)
    BY <1>1, JoinedLists DEF Begins
<1>3. /\ Len(e) \in Nat /\ Len(part) \in Nat /\ Len(first) \in Nat /\ DOMAIN u = 1 .. (Len(e) + Len(part))
      /\ DOMAIN e = 1 .. Len(e) /\ DOMAIN first = 1 .. Len(first)
    BY <1>2, ListIs DEF Begins
<1>4. ASSUME NEW i \in DOMAIN u, i \notin DOMAIN first, u[i].type = "message" PROVE u[i].of = NoId
    <2>1. CASE i \in DOMAIN e
        BY <1>2, <1>4, <2>1 DEF Begins
    <2>2. CASE i - Len(e) \in DOMAIN part /\ i \in Int
        <3>1. (i - Len(e)) + Len(e) = i
            BY <1>3, <2>2
        <3> QED
            BY <1>2, <1>4, <2>2, <3>1
    <2> QED
        BY <1>2, <2>1, <2>2
<1>5. \A i \in DOMAIN first : i \in DOMAIN u /\ u[i] = first[i]
    BY <1>2, <1>3 DEF Begins
<1> QED
    BY <1>1, <1>2, <1>3, <1>4, <1>5 DEF Begins

\* A further part: what it is of, it adds; of the rest there is what there was.
LEMMA PartAdded ==
    ASSUME NEW e, NEW first, IsList(first), Begins(e, first), NEW part, NEW type, Only(part, type),
           type = "message" => \A i \in DOMAIN part : part[i].of = NoId
    PROVE  /\ Begins(e \o part, first)
           /\ \A other : Without(e, other) /\ other # type => Without(e \o part, other)
           /\ \A other, p : AsMany(e, p, other) /\ other # type => AsMany(e \o part, p, other)
           /\ Without(e, type) => AsMany(e \o part, part, type)
<1>1. IsList(e) /\ IsList(part)
    BY DEF Begins, Only
<1>2. \A i \in DOMAIN part : part[i].type = "message" => part[i].of = NoId
    BY DEF Only
<1>3. Begins(e \o part, first)
    BY <1>1, <1>2, BeginsLonger
<1>4. \A other : other # type => Without(part, other)
    BY DEF Only, Without
<1>5. ASSUME NEW other, other # type
      PROVE  /\ Without(e, other) => Without(e \o part, other)
             /\ \A p : AsMany(e, p, other) => AsMany(e \o part, p, other)
    <2>1. AsMany(e \o part, e, other) /\ (Without(e, other) => Without(e \o part, other))
        BY <1>1, <1>4, <1>5, AtJoined
    <2> QED
        BY <2>1 DEF AsMany
<1>6. Without(e, type) => AsMany(e \o part, part, type)
    BY <1>1, AtJoined
<1> QED
    BY <1>3, <1>5, <1>6

LEMMA EventsAre ==
    ASSUME NEW t, TableShape(t), NEW told, IsList(told)
    PROVE  /\ Begins(Events(t, told), NewMessages(t))
           /\ AsMany(Events(t, told), Reactions(t), "reaction")
           /\ AsMany(Events(t, told), Unreactions(told), "unreaction")
<1>n. PICK n : n = NewMessages(t)
    OBVIOUS
<1>1. IsList(n) /\ \A j \in DOMAIN n : n[j].type = "message"
    BY <1>n, MessagesAre
<1>2. Begins(n, n) /\ Without(n, "reaction") /\ Without(n, "unreaction")
    BY <1>1, ListIs DEF Begins, Without
<1>p. PICK p1, p2, p3, p4, p5, p6, p7, p8, p9 :
        /\ p1 = Fallback(t) /\ p2 = RowEvents(t, "edit") /\ p3 = RowEvents(t, "delete")
        /\ p4 = RowEvents(t, "unsent") /\ p5 = RowEvents(t, "receipt") /\ p6 = RowEvents(t, "read")
        /\ p7 = Reactions(t) /\ p8 = Unreactions(told) /\ p9 = RowEvents(t, "typing")
    OBVIOUS
<1>3. /\ Only(p1, "message") /\ \A i \in DOMAIN p1 : p1[i].of = NoId
      /\ Only(p2, "edit") /\ Only(p3, "delete") /\ Only(p4, "unsent") /\ Only(p5, "receipt")
      /\ Only(p6, "read") /\ Only(p7, "reaction") /\ Only(p8, "unreaction") /\ Only(p9, "typing")
    BY <1>p, FallbackIs, RowsTold, ReactionsTold, UnreactionsTold
<1>4. PICK e1 : e1 = n \o p1
    OBVIOUS
<1>5. Begins(e1, n) /\ Without(e1, "reaction") /\ Without(e1, "unreaction")
    BY <1>1, <1>2, <1>3, <1>4, PartAdded
<1>6. PICK e2 : e2 = e1 \o p2
    OBVIOUS
<1>7. Begins(e2, n) /\ Without(e2, "reaction") /\ Without(e2, "unreaction")
    BY <1>1, <1>3, <1>5, <1>6, PartAdded
<1>8. PICK e3 : e3 = e2 \o p3
    OBVIOUS
<1>9. Begins(e3, n) /\ Without(e3, "reaction") /\ Without(e3, "unreaction")
    BY <1>1, <1>3, <1>7, <1>8, PartAdded
<1>10. PICK e4 : e4 = e3 \o p4
    OBVIOUS
<1>11. Begins(e4, n) /\ Without(e4, "reaction") /\ Without(e4, "unreaction")
    BY <1>1, <1>3, <1>9, <1>10, PartAdded
<1>12. PICK e5 : e5 = e4 \o p5
    OBVIOUS
<1>13. Begins(e5, n) /\ Without(e5, "reaction") /\ Without(e5, "unreaction")
    BY <1>1, <1>3, <1>11, <1>12, PartAdded
<1>14. PICK e6 : e6 = e5 \o p6
    OBVIOUS
<1>15. Begins(e6, n) /\ Without(e6, "reaction") /\ Without(e6, "unreaction")
    BY <1>1, <1>3, <1>13, <1>14, PartAdded
<1>16. PICK e7 : e7 = e6 \o p7
    OBVIOUS
<1>17. Begins(e7, n) /\ AsMany(e7, p7, "reaction") /\ Without(e7, "unreaction")
    BY <1>1, <1>3, <1>15, <1>16, PartAdded
<1>18. PICK e8 : e8 = e7 \o p8
    OBVIOUS
<1>19. Begins(e8, n) /\ AsMany(e8, p7, "reaction") /\ AsMany(e8, p8, "unreaction")
    BY <1>1, <1>3, <1>17, <1>18, PartAdded
<1>20. PICK e9 : e9 = e8 \o p9
    OBVIOUS
<1>21. Begins(e9, n) /\ AsMany(e9, p7, "reaction") /\ AsMany(e9, p8, "unreaction")
    BY <1>1, <1>3, <1>19, <1>20, PartAdded
<1>22. e9 = Events(t, told)
    BY <1>n, <1>p, <1>4, <1>6, <1>8, <1>10, <1>12, <1>14, <1>16, <1>18, <1>20 DEF Events
<1> QED
    BY <1>n, <1>p, <1>21, <1>22

LEMMA ToldTogether ==
    ASSUME NEW t, TableShape(t), NEW told, IsList(told)
    PROVE  TableTold(t, Events(t, told))
<1>1. PICK e : e = Events(t, told)
    OBVIOUS
<1>2. PICK n : n = NewMessages(t)
    OBVIOUS
<1>3. Begins(e, n) /\ AsMany(e, Reactions(t), "reaction")
    BY <1>1, <1>2, EventsAre
<1>4. /\ IsList(n) /\ \A j \in DOMAIN n : n[j].type = "message" /\ n[j].of \in ToSet(t.inserts)
      /\ \A id \in ToSet(t.inserts) \ {NoId} :
           \E j \in DOMAIN n : /\ About(n, "message", id) = {j}
                               /\ Times(t.inserts, id) = 1 => AllAttached(t, id, n[j].atts)
    BY <1>2, MessagesAre
<1>5. /\ IsList(e) /\ Len(n) \in Nat /\ DOMAIN n = 1 .. Len(n) /\ DOMAIN e = 1 .. Len(e) /\ Len(e) \in Nat
      /\ \A i \in DOMAIN n : i \in DOMAIN e /\ e[i] = n[i]
      /\ \A i \in DOMAIN e : i \notin DOMAIN n => (e[i].type = "message" => e[i].of = NoId)
    BY <1>3, <1>4, ListIs DEF Begins
<1>6. \A id : id # NoId => About(e, "message", id) = About(n, "message", id)
    BY <1>5 DEF About
<1>7. ASSUME NEW id \in ToSet(t.inserts) \ {NoId}
      PROVE  \E i \in DOMAIN e : /\ About(e, "message", id) = {i}
                                 /\ \A j \in DOMAIN e : e[j].of = id => i =< j
                                 /\ Times(t.inserts, id) = 1 => AllAttached(t, id, e[i].atts)
    <2>1. PICK i \in DOMAIN n : /\ About(n, "message", id) = {i}
                                /\ Times(t.inserts, id) = 1 => AllAttached(t, id, n[i].atts)
        BY <1>4
    <2>2. ASSUME NEW j \in DOMAIN e, e[j].of = id PROVE i =< j
        <3>1. CASE j \in DOMAIN n
            <4>1. j \in About(n, "message", id)
                BY <1>4, <1>5, <2>2, <3>1 DEF About
            <4> QED
                BY <1>5, <2>1, <4>1
        <3>2. CASE j \notin DOMAIN n
            BY <1>5, <3>2
        <3> QED
            BY <3>1, <3>2
    <2> QED
        BY <1>5, <1>6, <2>1, <2>2
<1>8. ASSUME NEW id \in ToSet(t.upserts) \ ((ToSet(t.inserts) \ {NoId}) \cup {NoId})
      PROVE  About(e, "message", id) = {}
    <2>1. About(n, "message", id) = {}
        BY <1>4, <1>8 DEF About
    <2> QED
        BY <1>6, <1>8, <2>1
<1>9. ASSUME NEW id PROVE Cardinality(About(e, "reaction", id)) =
                            IF id \in ToSet(t.upserts) THEN 0 ELSE Cardinality(OwnOf(t.reactions, id))
    <2>1. Cardinality(About(e, "reaction", id)) = Cardinality(About(Reactions(t), "reaction", id))
        BY <1>3 DEF AsMany
    <2> QED
        BY <2>1, ReactionsTold
<1> QED
    BY <1>1, <1>7, <1>8, <1>9 DEF TableTold

-----------------------------------------------------------------------------
(* Unreactions.                                                              *)

\* What is remembered of an unreaction, and when it was last reported.
Recalled(r, s, now) == \/ s = Unknown
                       \/ r # Never /\ r = s
                       \/ r = Never /\ now - s >= Window

TablesInv == /\ clock \in Nat /\ recent \in [Keys -> Int] /\ seen \in [Keys -> Int]
             /\ \A k \in Keys : Recalled(recent[k], seen[k], clock)
             /\ OfTable => EveryMessageOnce /\ \E r \in Received : out.of = r.got /\ out.sent = r.sent

\* The same unreaction was reported a moment ago.
JustTold(k) == recent[k] # Never /\ clock - recent[k] < Window

\* After some unreactions of a table: those told and what is remembered of the rest.
SoFar(was, keys, n) ==
    /\ was = [recent |-> was.recent, told |-> was.told]
    /\ was.recent \in [Keys -> Int] /\ was.told \in Seq(Keys) /\ Apart(was.told)
    /\ \A k \in ToSet(was.told) : was.recent[k] = clock /\ ~ JustTold(k)
    /\ \A k \in Keys \ ToSet(was.told) :
         was.recent[k] = recent[k] \/ (was.recent[k] = Never /\ clock - recent[k] > Keep)
    /\ \A i \in 1 .. n : keys[i] \in ToSet(was.told) \/ JustTold(keys[i])
    /\ \A i \in DOMAIN was.told : \E j \in 1 .. n : was.told[i] = keys[j]

LEMMA RecalledWhen ==
    ASSUME NEW r, NEW s, NEW now
    PROVE  /\ s = Unknown => Recalled(r, s, now)
           /\ r # Never /\ r = s => Recalled(r, s, now)
           /\ r = Never /\ now - s >= Window => Recalled(r, s, now)
BY DEF Recalled

LEMMA BoundsAre == /\ Window \in Nat \ {0} /\ Keep \in Nat /\ Window <= Keep /\ MaxTime \in Nat
                   /\ \A r \in Received : TableShape(r.got)
BY TablesAssumption

LEMMA UnreactedGoesOn ==
    ASSUME clock \in Nat, recent \in [Keys -> Int], NEW keys \in Seq(Keys), NEW n \in Nat, n + 1 \in DOMAIN keys,
           NEW was, SoFar(was, keys, n)
    PROVE  SoFar(Unreact(was, keys[n + 1]), keys, n + 1)
<1>1. PICK key \in Keys : key = keys[n + 1]
    OBVIOUS
<1>2. /\ was = [recent |-> was.recent, told |-> was.told] /\ was.recent \in [Keys -> Int]
      /\ was.told \in Seq(Keys) /\ Apart(was.told)
      /\ \A k \in ToSet(was.told) : was.recent[k] = clock /\ ~ JustTold(k)
      /\ \A k \in Keys \ ToSet(was.told) :
           was.recent[k] = recent[k] \/ (was.recent[k] = Never /\ clock - recent[k] > Keep)
      /\ \A i \in 1 .. n : keys[i] \in ToSet(was.told) \/ JustTold(keys[i])
      /\ \A i \in DOMAIN was.told : \E j \in 1 .. n : was.told[i] = keys[j]
    BY DEF SoFar
<1>3. \A i \in 1 .. n + 1 : i \in 1 .. n \/ i = n + 1
    OBVIOUS
<1>4. clock # Never /\ clock \in Int /\ \A k \in Keys : recent[k] \in Int /\ was.recent[k] \in Int
    BY <1>2 DEF Never
<1>5. CASE was.recent[key] # Never /\ clock - was.recent[key] < Window
    <2>1. Unreact(was, key) = was
        BY <1>5 DEF Unreact
    <2>2. key \in ToSet(was.told) \/ JustTold(key)
        BY <1>1, <1>2, <1>5 DEF JustTold
    <2>3. \A i \in 1 .. n + 1 : keys[i] \in ToSet(was.told) \/ JustTold(keys[i])
        BY <1>1, <1>2, <1>3, <2>2
    <2>4. \A i \in DOMAIN was.told : \E j \in 1 .. n + 1 : was.told[i] = keys[j]
        BY <1>2
    <2> QED
        BY <1>1, <1>2, <2>1, <2>3, <2>4 DEF SoFar
<1>6. CASE ~ (was.recent[key] # Never /\ clock - was.recent[key] < Window)
    <2>1. PICK r : r = [k \in Keys |-> IF k = key THEN clock
                                       ELSE IF clock - was.recent[k] > Keep THEN Never ELSE was.recent[k]]
        OBVIOUS
    <2>2. PICK told : told = Append(was.told, key)
        OBVIOUS
    <2>3. Unreact(was, key) = [recent |-> r, told |-> told]
        BY <1>6, <2>1, <2>2 DEF Unreact
    <2>4. key \notin ToSet(was.told) /\ ~ JustTold(key)
        <3>1. key \notin ToSet(was.told)
            <4>1. clock - clock = 0 /\ 0 < Window
                BY <1>4, BoundsAre
            <4> QED
                BY <1>2, <1>4, <1>6, <4>1
        <3>2. CASE was.recent[key] = recent[key]
            BY <1>4, <1>6, <3>1, <3>2 DEF JustTold
        <3>3. CASE was.recent[key] = Never /\ clock - recent[key] > Keep
            BY <1>4, <3>1, <3>3, BoundsAre DEF JustTold
        <3> QED
            BY <1>2, <3>1, <3>2, <3>3
    <2>5. PICK said : said = was.told
        OBVIOUS
    <2>6. /\ told \in Seq(Keys) /\ Apart(told)
          /\ \A i \in DOMAIN told : told[i] = key \/ \E j \in DOMAIN was.told : told[i] = was.told[j]
        <3>1. said \in Seq(Keys) /\ Apart(said) /\ \A i \in DOMAIN said : said[i] # key
            BY <1>2, <2>4, <2>5 DEF ToSet
        <3>2. /\ Append(said, key) \in Seq(Keys) /\ Apart(Append(said, key))
              /\ \A i \in DOMAIN Append(said, key) :
                   Append(said, key)[i] = key \/ \E j \in DOMAIN said : Append(said, key)[i] = said[j]
            BY <1>1, <3>1, AppendIs
        <3> QED
            BY <2>2, <2>5, <3>2
    <2>7. \A k : k \in ToSet(told) <=> k = key \/ k \in ToSet(was.told)
        <3>1. /\ DOMAIN told = 1 .. (Len(was.told) + 1) /\ DOMAIN was.told = 1 .. Len(was.told)
              /\ Len(was.told) \in Nat /\ told[Len(was.told) + 1] = key
              /\ \A i \in 1 .. Len(was.told) : told[i] = was.told[i]
            BY <1>2, <2>2
        <3>2. \A i \in DOMAIN was.told : i \in DOMAIN told /\ told[i] = was.told[i]
            BY <3>1
        <3>3. Len(was.told) + 1 \in DOMAIN told /\ told[Len(was.told) + 1] = key
            BY <3>1
        <3>4. key \in ToSet(told)
            BY <3>3 DEF ToSet
        <3>5. \A k \in ToSet(was.told) : k \in ToSet(told)
            BY <3>2 DEF ToSet
        <3>6. \A k \in ToSet(told) : k = key \/ k \in ToSet(was.told)
            BY <2>6 DEF ToSet
        <3> QED
            BY <3>4, <3>5, <3>6
    <2>8. r \in [Keys -> Int]
        BY <1>4, <2>1 DEF Never
    <2>9. ASSUME NEW k \in ToSet(told) PROVE r[k] = clock /\ ~ JustTold(k)
        <3>1. CASE k = key
            <4>1. r[key] = clock
                BY <1>1, <2>1
            <4> QED
                BY <2>4, <3>1, <4>1
        <3>2. CASE k # key
            <4>a. k \in ToSet(was.told)
                BY <2>7, <2>9, <3>2
            <4>b. \A x \in ToSet(said) : x \in Keys
                BY <1>2, <2>5 DEF ToSet
            <4>1. k \in ToSet(was.told) /\ k \in Keys
                BY <2>5, <4>a, <4>b
            <4>2. was.recent[k] = clock /\ ~ JustTold(k)
                BY <1>2, <4>1
            <4>3. ~ (clock - was.recent[k] > Keep)
                BY <1>4, <4>2, BoundsAre
            <4> QED
                BY <2>1, <3>2, <4>1, <4>2, <4>3
        <3> QED
            BY <3>1, <3>2
    <2>10. ASSUME NEW k \in Keys, k \notin ToSet(told)
           PROVE  r[k] = recent[k] \/ (r[k] = Never /\ clock - recent[k] > Keep)
        <3>1. k # key /\ k \notin ToSet(was.told)
            BY <2>7, <2>10
        <3>2. r[k] = IF clock - was.recent[k] > Keep THEN Never ELSE was.recent[k]
            BY <2>1, <3>1
        <3>3. was.recent[k] = recent[k] \/ (was.recent[k] = Never /\ clock - recent[k] > Keep)
            BY <1>2, <3>1
        <3> QED
            BY <3>2, <3>3
    <2>11. \A i \in 1 .. n + 1 : keys[i] \in ToSet(told) \/ JustTold(keys[i])
        BY <1>1, <1>2, <1>3, <2>7
    <2>12. \A i \in DOMAIN told : \E j \in 1 .. n + 1 : told[i] = keys[j]
        <3> SUFFICES ASSUME NEW i \in DOMAIN told PROVE \E j \in 1 .. n + 1 : told[i] = keys[j]
            OBVIOUS
        <3>1. n + 1 \in 1 .. n + 1 /\ \A j \in 1 .. n : j \in 1 .. n + 1
            OBVIOUS
        <3>2. CASE told[i] = key
            BY <1>1, <3>1, <3>2
        <3>3. CASE \E j \in DOMAIN was.told : told[i] = was.told[j]
            BY <1>2, <3>1, <3>3, ZenonT(30)
        <3> QED
            BY <2>6, <3>2, <3>3
    <2>13. PICK w : w = [recent |-> r, told |-> told]
        OBVIOUS
    <2>14. w = [recent |-> w.recent, told |-> w.told] /\ w.recent = r /\ w.told = told
        BY <2>13
    <2>15. SoFar(w, keys, n + 1)
        BY <2>6, <2>8, <2>9, <2>10, <2>11, <2>12, <2>14 DEF SoFar
    <2> QED
        BY <1>1, <2>3, <2>13, <2>15
<1> QED
    BY <1>5, <1>6

LEMMA UnreactedExists ==
    ASSUME NEW keys, NEW n \in Nat
    PROVE  \E after : after = [m \in 0 .. n |-> IF m = 0 THEN [recent |-> recent, told |-> << >>]
                                                ELSE Unreact(after[m - 1], keys[m])]
<1> DEFINE Steps(f, j) == f = [m \in 0 .. j |-> IF m = 0 THEN [recent |-> recent, told |-> << >>]
                                                ELSE Unreact(f[m - 1], keys[m])]
           S == {j \in Nat : \E f : Steps(f, j)}
<1>1. 0 \in S
    <2>1. Steps([m \in 0 .. 0 |-> [recent |-> recent, told |-> << >>]], 0)
        OBVIOUS
    <2> QED
        BY <2>1
<1>2. ASSUME NEW j \in Nat, j \in S PROVE j + 1 \in S
    <2>1. PICK f : Steps(f, j)
        BY <1>2
    <2> DEFINE g == [m \in 0 .. (j + 1) |-> IF m = j + 1 THEN Unreact(f[j], keys[m]) ELSE f[m]]
    <2>2. ASSUME NEW m \in 0 .. (j + 1)
          PROVE  g[m] = IF m = 0 THEN [recent |-> recent, told |-> << >>] ELSE Unreact(g[m - 1], keys[m])
        <3>1. CASE m = j + 1
            <4>1. m # 0 /\ m - 1 = j /\ m - 1 \in 0 .. (j + 1) /\ m - 1 # j + 1
                BY <3>1
            <4>2. g[m - 1] = f[j] /\ g[m] = Unreact(f[j], keys[m])
                BY <3>1, <4>1
            <4> QED
                BY <4>1, <4>2
        <3>2. CASE m # j + 1
            <4>1. m \in 0 .. j /\ g[m] = f[m]
                BY <3>2
            <4>2. f[m] = IF m = 0 THEN [recent |-> recent, told |-> << >>] ELSE Unreact(f[m - 1], keys[m])
                BY <2>1, <4>1
            <4>3. m # 0 => g[m - 1] = f[m - 1]
                BY <3>2
            <4> QED
                BY <4>1, <4>2, <4>3
        <3> QED
            BY <3>1, <3>2
    <2>3. g = [m \in 0 .. (j + 1) |-> g[m]]
        OBVIOUS
    <2> HIDE DEF g
    <2>4. Steps(g, j + 1)
        BY <2>2, <2>3
    <2>5. j + 1 \in Nat
        OBVIOUS
    <2> QED
        BY <2>4, <2>5, Zenon
<1>3. Nat \subseteq S
    <2> HIDE DEF S
    <2> QED
        BY <1>1, <1>2, Induction
<1> QED
    BY <1>3

LEMMA UnreactedIs ==
    ASSUME clock \in Nat, recent \in [Keys -> Int], NEW keys \in Seq(Keys)
    PROVE  SoFar(Unreacted(keys), keys, Len(keys))
<1> DEFINE f == CHOOSE after : after = [m \in 0 .. Len(keys) |->
                                          IF m = 0 THEN [recent |-> recent, told |-> << >>]
                                          ELSE Unreact(after[m - 1], keys[m])]
           S == {n \in Nat : n <= Len(keys) => SoFar(f[n], keys, n)}
<1>0. Len(keys) \in Nat /\ DOMAIN keys = 1 .. Len(keys)
    OBVIOUS
<1>1. Unreacted(keys) = f[Len(keys)]
    BY DEF Unreacted
<1>2. f = [m \in 0 .. Len(keys) |-> IF m = 0 THEN [recent |-> recent, told |-> << >>]
                                    ELSE Unreact(f[m - 1], keys[m])]
    BY <1>0, UnreactedExists, Zenon
<1> HIDE DEF f
<1>3. \A m \in 0 .. Len(keys) : f[m] = IF m = 0 THEN [recent |-> recent, told |-> << >>]
                                       ELSE Unreact(f[m - 1], keys[m])
    BY <1>2
<1>4. 0 \in S
    <2>1. PICK w : w = [recent |-> recent, told |-> << >>]
        OBVIOUS
    <2>2. w.recent = recent /\ w.told = << >> /\ w = [recent |-> w.recent, told |-> w.told]
        BY <2>1
    <2>3. SoFar(w, keys, 0)
        BY <2>2 DEF SoFar, Apart, ToSet
    <2>4. f[0] = w
        BY <1>0, <1>3, <2>1
    <2> QED
        BY <2>3, <2>4
<1>5. ASSUME NEW n \in Nat, n \in S PROVE n + 1 \in S
    <2> SUFFICES ASSUME n + 1 <= Len(keys) PROVE SoFar(f[n + 1], keys, n + 1)
        OBVIOUS
    <2>1. n <= Len(keys) /\ n + 1 \in DOMAIN keys /\ n + 1 \in 0 .. Len(keys) /\ n + 1 # 0 /\ (n + 1) - 1 = n
        BY <1>0
    <2>2. SoFar(f[n], keys, n)
        BY <1>5, <2>1
    <2>3. f[n + 1] = Unreact(f[n], keys[n + 1])
        BY <1>3, <2>1
    <2>4. SoFar(Unreact(f[n], keys[n + 1]), keys, n + 1)
        BY <2>1, <2>2, UnreactedGoesOn
    <2> QED
        BY <2>3, <2>4
<1>6. Nat \subseteq S
    <2> HIDE DEF S
    <2> QED
        BY <1>4, <1>5, Induction
<1> QED
    BY <1>0, <1>1, <1>6

-----------------------------------------------------------------------------
(* The tables that come.                                                     *)

LEMMA KeysAre ==
    ASSUME NEW r \in Received
    PROVE  TableShape(r.got) /\ r.got.unreactions \in Seq(Keys)
<1>1. TableShape(r.got)
    BY BoundsAre
<1>2. IsList(r.got.unreactions)
    BY <1>1, ReceivedIs
<1>3. ToSet(r.got.unreactions) \subseteq Keys
    BY DEF Keys
<1>4. PICK list : list = r.got.unreactions
    OBVIOUS
<1>5. PICK those : those = ToSet(list)
    OBVIOUS
<1>6. list \in Seq(those) /\ those \subseteq Keys
    BY <1>2, <1>3, <1>4, <1>5 DEF IsList
<1> QED
    BY <1>1, <1>4, <1>6

LEMMA ReceiveTells ==
    ASSUME TablesInv, ReceiveTable
    PROVE  TablesInv'
<1>1. PICK r \in Received : HandleTable(r.got, r.sent)
    BY DEF ReceiveTable
<1>2. UNCHANGED clock
    BY DEF ReceiveTable
<1>3. PICK t : t = r.got
    OBVIOUS
<1>4. TableShape(t) /\ t.unreactions \in Seq(Keys)
    BY <1>3, KeysAre
<1>5. PICK un : un = Unreacted(t.unreactions)
    OBVIOUS
<1>6. PICK told : told = un.told
    OBVIOUS
<1>7. PICK e : e = Events(t, told)
    OBVIOUS
<1>8. /\ recent' = un.recent
      /\ seen' = [k \in Keys |-> IF k \in ToSet(told) THEN clock ELSE seen[k]]
      /\ out' = [what |-> "table", of |-> t, sent |-> r.sent, seen |-> seen, events |-> e]
    BY <1>1, <1>3, <1>5, <1>6, <1>7 DEF HandleTable
<1>9. /\ clock \in Nat /\ recent \in [Keys -> Int] /\ seen \in [Keys -> Int]
      /\ \A k \in Keys : Recalled(recent[k], seen[k], clock)
    BY DEF TablesInv
<1>10. SoFar(un, t.unreactions, Len(t.unreactions))
    BY <1>4, <1>5, <1>9, UnreactedIs
<1>11. /\ un.recent \in [Keys -> Int] /\ told \in Seq(Keys) /\ Apart(told)
       /\ \A k \in ToSet(told) : un.recent[k] = clock /\ ~ JustTold(k)
       /\ \A k \in Keys \ ToSet(told) :
            un.recent[k] = recent[k] \/ (un.recent[k] = Never /\ clock - recent[k] > Keep)
       /\ \A i \in 1 .. Len(t.unreactions) : t.unreactions[i] \in ToSet(told) \/ JustTold(t.unreactions[i])
    BY <1>6, <1>10 DEF SoFar
<1>12. IsList(told) /\ Len(t.unreactions) \in Nat /\ DOMAIN t.unreactions = 1 .. Len(t.unreactions)
    <2>1. told \in Seq(Keys)
        BY <1>11
    <2>2. DOMAIN told = 1 .. Len(told) /\ Len(told) \in Nat /\ told = [i \in 1 .. Len(told) |-> told[i]]
        BY <2>1
    <2>3. IsList(told)
        BY <2>2, MadeList
    <2> QED
        BY <1>4, <2>3
<1>13. recent' \in [Keys -> Int] /\ seen' \in [Keys -> Int] /\ clock' \in Nat
    BY <1>2, <1>8, <1>9, <1>11
<1>14. ASSUME NEW k \in Keys PROVE Recalled(recent'[k], seen'[k], clock')
    <2>1. Recalled(recent[k], seen[k], clock) /\ recent[k] \in Int /\ seen[k] \in Int /\ clock \in Nat
        BY <1>9
    <2>2. CASE k \in ToSet(told)
        <3>1. recent'[k] = clock /\ seen'[k] = clock /\ clock # Never
            BY <1>8, <1>9, <1>11, <2>2 DEF Never
        <3>2. Recalled(clock, clock, clock)
            BY <3>1, RecalledWhen
        <3> QED
            BY <1>2, <3>1, <3>2
    <2>3. CASE k \notin ToSet(told)
        <3>1. seen'[k] = seen[k] /\ recent'[k] = un.recent[k]
            BY <1>8, <2>3
        <3>2. CASE un.recent[k] = recent[k]
            BY <1>2, <2>1, <3>1, <3>2
        <3>3. CASE un.recent[k] = Never /\ clock - recent[k] > Keep
            <4>1. seen[k] = Unknown \/ recent[k] = seen[k] \/ clock - seen[k] >= Window
                BY <2>1 DEF Recalled
            <4>2. seen[k] = Unknown \/ clock - seen[k] >= Window
                BY <2>1, <3>3, <4>1, BoundsAre
            <4>3. Recalled(Never, seen[k], clock)
                BY <4>2, RecalledWhen
            <4> QED
                BY <1>2, <3>1, <3>3, <4>3
        <3> QED
            BY <1>11, <2>3, <3>2, <3>3
    <2> QED
        BY <2>2, <2>3
<1>15. out'.of = t /\ out'.events = e /\ out'.seen = seen
    BY <1>8
<1>16. TableTold(t, e)
    BY <1>4, <1>7, <1>12, ToldTogether
<1>17. ASSUME NEW k \in ToSet(t.unreactions), seen[k] # Unknown
       PROVE  Cardinality(About(e, "unreaction", k)) = IF clock - seen[k] < Window THEN 0 ELSE 1
    <2>1. PICK i \in 1 .. Len(t.unreactions) : t.unreactions[i] = k
        BY <1>12 DEF ToSet
    <2>2. k \in Keys
        BY <1>4, <1>12, <2>1
    <2>3. /\ recent[k] \in Int /\ seen[k] \in Int
          /\ (recent[k] # Never /\ recent[k] = seen[k]) \/ (recent[k] = Never /\ clock - seen[k] >= Window)
        BY <1>9, <1>17, <2>2 DEF Recalled
    <2>4. JustTold(k) <=> clock - seen[k] < Window
        BY <1>9, <2>3, BoundsAre DEF JustTold
    <2>5. k \in ToSet(told) <=> ~ JustTold(k)
        BY <1>11, <2>1
    <2>6. AsMany(e, Unreactions(told), "unreaction")
        BY <1>4, <1>7, <1>12, EventsAre
    <2>7. Cardinality(About(e, "unreaction", k)) = Cardinality(About(Unreactions(told), "unreaction", k))
        BY <2>6 DEF AsMany
    <2>8. Cardinality(About(Unreactions(told), "unreaction", k)) = IF k \in ToSet(told) THEN 1 ELSE 0
        BY <1>11, <1>12, UnreactionsTold
    <2> QED
        BY <2>4, <2>5, <2>7, <2>8
<1>18. EveryMessageOnce'
    <2>1. MessagesTogether'
        BY <1>15, <1>16 DEF MessagesTogether
    <2>2. UnreactionsApart'
        BY <1>2, <1>15, <1>17 DEF UnreactionsApart
    <2> QED
        BY <2>1, <2>2 DEF EveryMessageOnce
<1>19. out'.of = r.got /\ out'.sent = r.sent
    BY <1>3, <1>8
<1> QED
    BY <1>13, <1>14, <1>18, <1>19 DEF TablesInv

LEMMA TablesStart == TablesInit => TablesInv
<1> SUFFICES ASSUME TablesInit PROVE TablesInv
    OBVIOUS
<1>1. /\ clock = 0 /\ recent = [k \in Keys |-> Never] /\ seen = [k \in Keys |-> LongAgo] /\ out = Nothing
    BY DEF TablesInit
<1>2. ~ OfTable
    BY <1>1 DEF OfTable, Nothing
<1>3. LongAgo \in Int /\ 0 - LongAgo >= Window /\ Never \in Int
    BY BoundsAre DEF LongAgo, Never
<1>4. \A k \in Keys : recent[k] = Never /\ seen[k] = LongAgo
    BY <1>1
<1>5. \A k \in Keys : Recalled(recent[k], seen[k], clock)
    BY <1>1, <1>3, <1>4 DEF Recalled
<1>6. recent \in [Keys -> Int] /\ seen \in [Keys -> Int] /\ clock \in Nat
    BY <1>1, <1>3
<1> QED
    BY <1>2, <1>5, <1>6 DEF TablesInv

LEMMA TablesGoOn == TablesInv /\ [TablesNext]_tableVars => TablesInv'
<1> SUFFICES ASSUME TablesInv, [TablesNext]_tableVars PROVE TablesInv'
    OBVIOUS
<1>0. /\ clock \in Nat /\ recent \in [Keys -> Int] /\ seen \in [Keys -> Int]
      /\ \A k \in Keys : Recalled(recent[k], seen[k], clock)
      /\ OfTable => EveryMessageOnce /\ \E r \in Received : out.of = r.got /\ out.sent = r.sent
    BY DEF TablesInv
<1>1. CASE ReceiveTable
    BY <1>1, ReceiveTells
<1>2. CASE Done
    <2>1. out' = Nothing /\ UNCHANGED <<clock, recent, seen>>
        BY <1>2 DEF Done
    <2>2. ~ OfTable'
        BY <2>1 DEF OfTable, Nothing
    <2> QED
        BY <1>0, <2>1, <2>2 DEF TablesInv
<1>3. CASE Tick
    <2>1. out' = Nothing /\ clock' = clock + 1 /\ recent' = recent /\ seen' = seen
        BY <1>3 DEF Tick
    <2>2. ~ OfTable'
        BY <2>1 DEF OfTable, Nothing
    <2>3. ASSUME NEW k \in Keys PROVE Recalled(recent[k], seen[k], clock + 1)
        <3>1. Recalled(recent[k], seen[k], clock) /\ seen[k] \in Int /\ Window \in Int
            BY <1>0, BoundsAre
        <3> QED
            BY <1>0, <3>1 DEF Recalled
    <2> QED
        BY <1>0, <2>1, <2>2, <2>3 DEF TablesInv
<1>4. CASE SetClock
    <2>1. out' = Nothing /\ clock' \in 0 .. MaxTime /\ recent' = recent /\ seen' = [k \in Keys |-> Unknown]
        BY <1>4 DEF SetClock
    <2>2. ~ OfTable'
        BY <2>1 DEF OfTable, Nothing
    <2>3. Unknown \in Int
        BY BoundsAre DEF Unknown, LongAgo
    <2>4. \A k \in Keys : Recalled(recent'[k], seen'[k], clock')
        <3>1. \A k \in Keys : seen'[k] = Unknown
            BY <2>1
        <3> QED
            BY <3>1, RecalledWhen
    <2>5. seen' \in [Keys -> Int] /\ clock' \in Nat /\ recent' \in [Keys -> Int]
        BY <1>0, <2>1, <2>3
    <2> QED
        BY <2>2, <2>4, <2>5 DEF TablesInv
<1>5. CASE UNCHANGED tableVars
    <2>1. clock' = clock /\ recent' = recent /\ seen' = seen /\ out' = out
        BY <1>5 DEF tableVars
    <2>2. OfTable' => EveryMessageOnce' /\ \E r \in Received : out'.of = r.got /\ out'.sent = r.sent
        BY <1>0, <2>1 DEF OfTable, EveryMessageOnce, MessagesTogether, UnreactionsApart
    <2> QED
        BY <1>0, <2>1, <2>2 DEF TablesInv
<1> QED
    BY <1>1, <1>2, <1>3, <1>4, <1>5 DEF TablesNext

\* Of every payload that is read, however it is read, and whatever the wall
\* clock does: what its table says is told once, all of it and of nothing else
\* (handleTable, recentUnreactions).
THEOREM TablesAreTold == TablesSpec => []EveryMessageOnce
<1>1. TablesInv => EveryMessageOnce
    BY DEF TablesInv, EveryMessageOnce, MessagesTogether, UnreactionsApart
<1> QED
    BY <1>1, TablesStart, TablesGoOn, PTL DEF TablesSpec

\* Where the payloads are read as the tables they are sent for, which is what the
\* decoder is for, a payload comes out as the events of the table the server
\* means (Decode, handleStoredProcedure, handleTable).
THEOREM TablesAreRead ==
    ASSUME \A r \in Received : r.got = r.sent
    PROVE  TablesSpec => []TablesRead
<1>1. TablesInv => TablesRead
    BY DEF TablesInv, TablesRead, DecodesWhatWasSent, EveryMessageOnce, MessagesTogether, UnreactionsApart
<1> QED
    BY <1>1, TablesStart, TablesGoOn, PTL DEF TablesSpec
=============================================================================
