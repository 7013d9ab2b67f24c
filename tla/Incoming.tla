------------------------------ MODULE Incoming ------------------------------
(***************************************************************************)
(* How the connector keeps a Matrix room, the portal, like the group chat it *)
(* stands for (pkg/connector/handlemeta.go, parseTable, and events.go).      *)
(*                                                                         *)
(* The server turns every change of the chat into a row and sends the rows   *)
(* in tables.  A table says what happened and not in which order: the rows   *)
(* come grouped by type, and parseTable takes the types in an order of its   *)
(* own.  A table is parsed as soon as it arrives and its events wait in a    *)
(* queue, so what parsing looks up may be behind.  A table may be lost with  *)
(* its connection, and one that was handled may come again; a later snapshot *)
(* of the thread is what heals a loss.                                       *)
(*                                                                         *)
(* The portal itself is bridgev2, modelled from the events given to it.      *)
(***************************************************************************)
EXTENDS Lists, Integers, FiniteSetsExt, SequencesExt

CONSTANTS
    Members,    \* the others who may be in the chat
    Fields,     \* what a chat has one value of: its name, picture, mute, ...
    Merging,    \* those of them whose row becomes a part of a snapshot
    Said,       \* the messages, 1 .. n in the order they are said
    Stories     \* what may happen in one history (see `budget`)

Self == "self"

IncomingAssumption == /\ Merging \subseteq Fields
                      /\ IsFiniteSet(Members) /\ Self \notin Members
                      /\ IsFiniteSet(Said) /\ Said = 1 .. Cardinality(Said)
ASSUME IncomingAssumption

Words == {"first", "second"}

VARIABLES
    thread,     \* the chat on the server
    aware,      \* the server believes the login knows the thread
    wanted,     \* the login asked for the thread and was not answered yet
    news,       \* the rows of the next table
    resent,     \* the last table, which may come again; << >> when it may not
    queued,     \* parsed and not handled yet
    portal,     \* the room and the database rows behind it
    blurred,    \* what the code is known to lose (see Conflicts and Blur)
    budget      \* [kinds, ops, faults]: what this history may still do

incomingVars == <<thread, aware, wanted, news, resent, queued, portal, blurred, budget>>

(* A chat, or a room: its messages, each with its newest text and whether it *)
(* is reacted to, and what else there is one of.                             *)
Unborn == [exists |-> FALSE, field |-> [f \in Fields |-> 0], members |-> {},
           text |-> [i \in Said |-> "unsaid"], heart |-> [i \in Said |-> FALSE]]

Shown(room) == {i \in Said : room.text[i] \in Words}

(* Everything of a chat that can be right or wrong, each by a name.          *)
All == {<<"chat", Self>>} \cup ({"field"} \X Fields) \cup ({"member"} \X Members)
          \cup ({"text", "heart"} \X Said)

-----------------------------------------------------------------------------
(* The server.  Every operation is one change and the rows it makes.         *)

NewRow(k, x, v) == [kind |-> k, of |-> x, value |-> v]

(* The first row about a thread the login may not know is preceded by one    *)
(* that says it exists (LSVerifyThreadExists).                               *)
Exists == IF aware THEN << >> ELSE <<NewRow("exists", Self, 0)>>

(* LSDeleteThenInsertThread, with the participants and the messages of the   *)
(* thread (an upsert) when the server adds them.  It counts the login among  *)
(* the participants, whose own row comes with the others' (`own`).           *)
Snapshot(t, peopled, filled) ==
    <<NewRow("thread", Cardinality(t.members) + 1, [field |-> t.field, who |-> t.members, own |-> peopled])>>
      \o (IF peopled THEN SetToSeq({NewRow("add", u, 0) : u \in t.members}) ELSE << >>)
      \o (IF filled THEN <<NewRow("upsert", Shown(t), t)>> ELSE << >>)

Allowed(kind) == kind \in budget.kinds /\ budget.ops > 0

Op(t, new) == /\ thread' = t
              /\ news' = news \o new
              /\ budget' = [budget EXCEPT !.ops = @ - 1]
              /\ UNCHANGED <<wanted, resent, queued, portal, blurred>>

Say(i) == /\ Allowed("say") /\ thread.text[i] = "unsaid" /\ \A j \in 1 .. (i - 1) : thread.text[j] # "unsaid"
          /\ Op([thread EXCEPT !.exists = TRUE, !.text[i] = "first"], Exists \o <<NewRow("insert", i, "first")>>)
          /\ aware' = TRUE

Edit(i) == /\ Allowed("edit") /\ thread.text[i] = "first"
           /\ Op([thread EXCEPT !.text[i] = "second"], <<NewRow("edit", i, "second")>>)
           /\ UNCHANGED aware

Unsend(i) == /\ Allowed("unsend") /\ i \in Shown(thread)
             /\ Op([thread EXCEPT !.text[i] = "gone", !.heart[i] = FALSE], <<NewRow("unsend", i, 0)>>)
             /\ UNCHANGED aware

React(i) == /\ Allowed("react") /\ i \in Shown(thread)
            /\ Op([thread EXCEPT !.heart[i] = ~@],
                  <<NewRow(IF thread.heart[i] THEN "unreact" ELSE "react", i, 0)>>)
            /\ UNCHANGED aware

Set(f) == /\ Allowed("set") /\ thread.exists
          /\ Op([thread EXCEPT !.field[f] = 1 - @],
                <<NewRow(IF f \in Merging THEN "merging" ELSE "set", f, 1 - thread.field[f])>>)
          /\ UNCHANGED aware

Joins(u) == /\ Allowed("members") /\ thread.exists /\ u \notin thread.members
            /\ Op([thread EXCEPT !.members = @ \cup {u}], <<NewRow("add", u, 0)>>)
            /\ UNCHANGED aware

Leaves(u) == /\ Allowed("members") /\ thread.exists /\ u \in thread.members
             /\ Op([thread EXCEPT !.members = @ \ {u}], <<NewRow("remove", u, 0)>>)
             /\ UNCHANGED aware

(* The user deletes the chat elsewhere, or is removed from it: for this      *)
(* login nothing of it remains.                                              *)
Forsake(how) == /\ Allowed("delete") /\ thread.exists
                /\ Op([thread EXCEPT !.exists = FALSE,
                                     !.text = [i \in Said |-> IF @[i] \in Words THEN "gone" ELSE @[i]],
                                     !.heart = [i \in Said |-> FALSE]],
                      <<NewRow(how, Self, 0)>>)
                /\ aware' = FALSE

(* A snapshot, which also brings a forsaken chat back (a new invitation).  A *)
(* thread the login does not know comes with its participants.               *)
Resync(peopled, filled) ==
    /\ Allowed("snapshot")
    /\ peopled \/ (aware /\ ~\E k \in DOMAIN news : news[k].kind = "exists")
    /\ LET t == [thread EXCEPT !.exists = TRUE] IN Op(t, Snapshot(t, peopled, filled))
    /\ aware' = TRUE

(* A part of the history nobody asked for.                                   *)
Slice == /\ Allowed("slice") /\ Shown(thread) # {}
         /\ Op(thread, <<NewRow("upsert", Shown(thread), thread)>>)
         /\ UNCHANGED aware

(* The answer to the CreateThreadTask of VerifyThreadExistsEvent arrives as  *)
(* a table of the server's.                                                  *)
AnswerWanted == /\ wanted
                /\ wanted' = FALSE
                /\ news' = IF thread.exists THEN news \o Snapshot(thread, TRUE, FALSE) ELSE news
                /\ UNCHANGED <<thread, aware, resent, queued, portal, blurred, budget>>

-----------------------------------------------------------------------------
(* parseTable.                                                               *)

Of(kinds, table) == Chosen(table, {k \in DOMAIN table : table[k].kind \in kinds})
Has(kinds, table) == \E k \in DOMAIN table : table[k].kind \in kinds

Deleting(r) == r.kind = "deletethread" \/ (r.kind = "remove" /\ r.of = Self)

(* Whom the table adds, and whether they are everybody: as many as the       *)
(* thread counts, the login among them, and not nobody at all.               *)
Listed(table) == {r.of : r \in ToSet(Of({"add"}, table))}

Whole(table, raw) ==
    LET rows == Cardinality(Listed(table))
                  + (IF \E k \in DOMAIN table : table[k].kind = "thread" /\ table[k].value.own THEN 1 ELSE 0)
    IN  rows > 0 /\ rows = raw.of

(* Members and mute settings of the table become a part of the resync;       *)
(* without one they are events of their own.  An upsert without a resync is  *)
(* a resync that knows nothing of the thread.                                *)
Merged(table, raw) ==
    [kind    |-> "resync",
     of      |-> Listed(table),
     full    |-> Whole(table, raw),
     field   |-> [f \in Fields |->
                    LET mine == Chosen(table, {k \in DOMAIN table : table[k].kind = "merging" /\ table[k].of = f})
                    IN  IF mine = << >> THEN raw.value.field[f] ELSE Last(mine).value],
     certain |-> {f \in Fields : raw.value.field[f] = 1} \cup {r.of : r \in ToSet(Of({"merging"}, table))},
     fill    |-> LET upserts == Of({"upsert"}, table)
                 IN  IF upserts = << >> THEN << >> ELSE <<Last(upserts)>>]

(* An edit names only its message, whose chat is looked up in the database   *)
(* while the table is parsed; an unknown message is an edit dropped.         *)
Known(r) == r.kind # "edit" \/ r.of \in Shown(portal)
Edits(table) == Chosen(table, {k \in DOMAIN table : table[k].kind = "edit" /\ Known(table[k])})

(* A deletion takes the thread out of the maps, so neither the check that it *)
(* exists nor a resync of it is left.                                        *)
Deletions(table) == {k \in DOMAIN table : Deleting(table[k])}
Live(table) == IF Deletions(table) # {}
               THEN Chosen(table, {k \in DOMAIN table : table[k].kind \notin {"exists", "thread"}}) ELSE table

Opening(table) ==
    LET dels == Chosen(table, Deletions(table))
        live == Live(table)
        raws == Of({"thread"}, live)
    IN  [k \in DOMAIN dels |-> NewRow("delete", Self, 0)]
          \o IF raws = << >>
             THEN (IF Has({"exists"}, live) THEN <<NewRow("exists", Self, 0)>> ELSE << >>)
                    \o Of({"add"}, live) \o Of({"merging"}, live) \o Of({"upsert"}, live)
             ELSE <<Merged(live, Last(raws))>>

(* A plausible slip: what was unsent is handled before what was said.        *)
ParseTableUnsendsFirst(table) ==
    Opening(table) \o Of({"unsend"}, table) \o Of({"insert"}, table)
      \o Edits(table) \o Of({"set"}, table)
      \o Of({"react"}, table) \o Of({"unreact"}, table) \o Of({"remove"}, table)

(* The order of the types.                                                   *)
ParseTable(table) ==
    Opening(table) \o Of({"insert"}, table) \o Edits(table)
      \o Of({"set"}, table) \o Of({"unsend"}, table) \o Of({"react"}, table)
      \o Of({"unreact"}, table) \o Of({"remove"}, table)

(* What the order of the types is known to get wrong, by the rows of a       *)
(* table: a participant removed and then added, a reaction taken back and    *)
(* then given, anything beside a deletion, an edit that is looked up before  *)
(* its message is handled, and people who joined taken for the whole list of *)
(* a thread that came without one because they are as many.                  *)
Reversed(table, first, second) ==
    {table[k].of : k \in {n \in DOMAIN table : table[n].kind = second /\ \E m \in 1 .. (n - 1) :
                              table[m].kind = first /\ table[m].of = table[n].of}}

Miscounted(table) ==
    LET raws == Of({"thread"}, table)
    IN  raws # << >> /\ Listed(table) # Last(raws).value.who /\ Whole(table, Last(raws))

Conflicts(table) ==
    {<<"member", u>> : u \in Reversed(table, "remove", "add")}
      \cup {<<"heart", i>> : i \in Reversed(table, "unreact", "react")}
      \cup {<<"text", r.of>> : r \in {x \in ToSet(Of({"edit"}, table)) : ~Known(x)}}
      \cup (IF Miscounted(table) THEN {"member"} \X Members ELSE {})
      \cup (IF \E k \in 1 .. (Len(table) - 1) : Deleting(table[k]) THEN All ELSE {})

(* The aspects the rows of a lost table were about.                          *)
Topic(r) == CASE r.kind \in {"insert", "unsend"} -> {<<"text", r.of>>, <<"heart", r.of>>}
              [] r.kind = "edit" -> {<<"text", r.of>>}
              [] r.kind \in {"react", "unreact"} -> {<<"heart", r.of>>}
              [] r.kind \in {"set", "merging"} -> {<<"field", r.of>>}
              [] r.kind \in {"add", "remove"} /\ r.of # Self -> {<<"member", r.of>>}
              [] OTHER -> All

Topics(table) == UNION {Topic(table[k]) : k \in DOMAIN table}

Blur(what) == IF what = {} THEN << >> ELSE <<NewRow("blur", Self, what)>>

(* A table arrives, is parsed and queued (parseAndQueueTable).               *)
Push == /\ news # << >>
        /\ queued' = queued \o ParseTable(news) \o Blur(Conflicts(news))
        /\ resent' = IF budget.faults > 0 THEN news ELSE << >>
        /\ news' = << >>
        /\ UNCHANGED <<thread, aware, wanted, portal, blurred, budget>>

(* It comes again after a reconnection that goes back to an older cursor.    *)
Resend == /\ resent # << >> /\ budget.faults > 0
          /\ queued' = queued \o ParseTable(resent) \o Blur(Conflicts(resent))
          /\ resent' = << >>
          /\ budget' = [budget EXCEPT !.faults = @ - 1]
          /\ UNCHANGED <<thread, aware, wanted, news, portal, blurred>>

(* It is lost with the connection, or dropped when the context is cancelled  *)
(* while the queue is full.                                                  *)
LoseTable == /\ news # << >> /\ budget.faults > 0
             /\ queued' = queued \o Blur(Topics(news))
             /\ news' = << >> /\ resent' = << >>
             /\ budget' = [budget EXCEPT !.faults = @ - 1]
             /\ UNCHANGED <<thread, aware, wanted, portal, blurred>>

-----------------------------------------------------------------------------
(* The portal handles its events one at a time.                              *)

Event == Head(queued)

(* An event for a portal without a room is dropped.  When the room is        *)
(* missing for a known reason, so is what it would have shown.               *)
Handled(room, lost) == /\ queued' = Tail(queued)
                       /\ portal' = room
                       /\ blurred' = lost
                       /\ UNCHANGED <<thread, aware, news, resent>>

Dropped == blurred \cup IF <<"chat", Self>> \in blurred THEN Topics(<<Event>>) ELSE {}

(* Who is in the room, what it is called and looks like, what was said in it *)
(* and taken back, and the reactions.  What is not shown is not changed.     *)
Peopled(room, e) == [room EXCEPT !.members = IF e.kind = "add" THEN @ \cup {e.of} ELSE @ \ {e.of}]
Retitled(room, e) == [room EXCEPT !.field[e.of] = e.value]
Inserted(room, e) == IF e.of \in Shown(room) THEN room ELSE [room EXCEPT !.text[e.of] = e.value]
Edited(room, e) == [room EXCEPT !.text[e.of] = e.value]
Unsent(room, e) == [room EXCEPT !.text[e.of] = "gone", !.heart[e.of] = FALSE]
Reacted(room, e) == [room EXCEPT !.heart[e.of] = (e.kind = "react")]

Changed(room, e) ==
    IF ~room.exists \/ (e.kind \in {"edit", "unsend", "react", "unreact"} /\ e.of \notin Shown(room)) THEN room
    ELSE CASE e.kind \in {"add", "remove"} -> Peopled(room, e)
           [] e.kind \in {"set", "merging"} -> Retitled(room, e)
           [] e.kind = "insert" -> Inserted(room, e)
           [] e.kind = "edit" -> Edited(room, e)
           [] e.kind = "unsend" -> Unsent(room, e)
           [] e.kind \in {"react", "unreact"} -> Reacted(room, e)

HandleChange ==
    /\ queued # << >>
    /\ Event.kind \in {"add", "remove", "set", "merging", "insert", "edit", "unsend", "react", "unreact"}
    /\ Handled(Changed(portal, Event), IF portal.exists THEN blurred ELSE Dropped)
    /\ UNCHANGED <<wanted, budget>>

(* ChatDelete removes the room and its database rows.                        *)
HandleDelete == /\ queued # << >> /\ Event.kind = "delete"
                /\ Handled(Unborn, blurred)
                /\ UNCHANGED <<wanted, budget>>

HandleBlur == /\ queued # << >> /\ Event.kind = "blur"
              /\ Handled(portal, blurred \cup Event.value)
              /\ UNCHANGED <<wanted, budget>>

(* VerifyThreadExists: a missing room is created with what little is known,  *)
(* and the rest is asked for, once (FetchAttempted).  When the request fails *)
(* the room stays as it is.                                                  *)
Poor == {<<"field", f>> : f \in Fields} \cup {<<"member", u>> : u \in Members}

HandleExists ==
    /\ queued # << >> /\ Event.kind = "exists"
    /\ \/ portal.exists /\ Handled(portal, blurred) /\ UNCHANGED <<wanted, budget>>
       \/ /\ ~portal.exists
          /\ Handled([Unborn EXCEPT !.exists = TRUE], (blurred \ {<<"chat", Self>>}) \cup Poor)
          /\ \/ wanted' = TRUE /\ UNCHANGED budget
             \/ budget.faults > 0 /\ budget' = [budget EXCEPT !.faults = @ - 1] /\ UNCHANGED wanted

NewestShown(room) == IF Shown(room) = {} THEN 0 ELSE Max(Shown(room))

(* CheckNeedsBackfill and FetchMessages: the bundled messages, if they go    *)
(* further than the newest one known.  Without a bundle nothing is fetched:  *)
(* where the thread says that something newer happened, what is handed on is *)
(* a nil of the bundle's type, which FetchMessages takes for a bundle and    *)
(* dereferences; the portal outlives that panic, and the rest of the resync  *)
(* is done by then.                                                          *)
Filling(room, bundle) ==
    IF bundle = << >> THEN {} ELSE {i \in Shown(bundle[1].value) : i > NewestShown(room)}

Fill(room, ids, from) == [room EXCEPT !.text = [i \in Said |-> IF i \in ids THEN from.text[i] ELSE @[i]],
                                      !.heart = [i \in Said |-> IF i \in ids THEN from.heart[i] ELSE @[i]]]

(* An upsert that came without a thread fills an existing room.              *)
HandleUpsert == /\ queued # << >> /\ Event.kind = "upsert"
                /\ IF portal.exists
                   THEN LET ids == Filling(portal, <<Event>>)
                        IN  Handled(Fill(portal, ids, Event.value), blurred \ ({"text", "heart"} \X ids))
                   ELSE Handled(portal, Dropped)
                /\ UNCHANGED <<wanted, budget>>

(* A resync creates the room, or brings it up to date: the fields it has a   *)
(* value for, and the participants, as a whole when the thread's count says  *)
(* that they are all there.                                                  *)
Resynced == [portal EXCEPT
    !.exists = TRUE,
    !.field = [f \in Fields |-> IF f \in Event.certain THEN Event.field[f] ELSE @[f]],
    !.members = IF Event.full THEN Event.of ELSE @ \cup Event.of]

(* What a snapshot is to heal: the room, the fields it has a value for, the  *)
(* people it lists, and the messages it brings, after the newest one known.  *)
Healed == {<<"chat", Self>>} \cup ({"field"} \X Event.certain)
             \cup ({"member"} \X IF Event.full THEN Members ELSE Event.of)
             \cup ({"text", "heart"} \X
                      {i \in Said : Event.fill # << >> /\ i \in Event.fill[1].of /\ i > NewestShown(portal)})

HandleResync ==
    /\ queued # << >> /\ Event.kind = "resync"
    /\ Handled(IF Event.fill = << >> THEN Resynced
               ELSE Fill(Resynced, Filling(portal, Event.fill), Event.fill[1].value), blurred \ Healed)
    /\ UNCHANGED <<wanted, budget>>

-----------------------------------------------------------------------------
(* A history starts with a chat both sides know, or with none.               *)
IncomingInit ==
    /\ budget \in Stories
    /\ thread \in {Unborn, [Unborn EXCEPT !.exists = TRUE, !.members = Members]}
    /\ aware = thread.exists /\ portal = thread
    /\ wanted = FALSE /\ news = << >> /\ resent = << >> /\ queued = << >> /\ blurred = {}

IncomingNext ==
    \/ \E i \in Said : Say(i) \/ Edit(i) \/ Unsend(i) \/ React(i)
    \/ \E f \in Fields : Set(f)
    \/ \E u \in Members : Joins(u) \/ Leaves(u)
    \/ \E how \in {"deletethread", "remove"} : Forsake(how)
    \/ \E peopled, filled \in BOOLEAN : Resync(peopled, filled)
    \/ Slice \/ AnswerWanted \/ Push \/ Resend \/ LoseTable
    \/ HandleChange \/ HandleDelete \/ HandleBlur \/ HandleExists \/ HandleUpsert \/ HandleResync

IncomingSpec == IncomingInit /\ [][IncomingNext]_incomingVars

-----------------------------------------------------------------------------
(* Nothing of the chat is on its way any more.                               *)
Settled == news = << >> /\ queued = << >> /\ ~wanted

Agrees(what) == LET x == what[2] IN
    CASE what[1] = "chat" -> portal.exists = thread.exists
      [] what[1] = "field" -> portal.field[x] = thread.field[x]
      [] what[1] = "member" -> (x \in portal.members) = (x \in thread.members)
      [] what[1] = "text" -> (x \in Shown(portal) \cup Shown(thread)) => portal.text[x] = thread.text[x]
      [] OTHER -> portal.heart[x] = thread.heart[x]

(* When everything sent was handled, the room shows the chat as it is: its   *)
(* messages, their newest text, the reactions, the name and the people in    *)
(* it, whatever the order of the types, the age of the lookups, tables that  *)
(* came twice and rooms that were deleted and created anew, and except for   *)
(* what `blurred` names.  A snapshot heals what it covers.                   *)
PortalFollows ==
    Settled => /\ <<"chat", Self>> \in blurred \/ portal.exists = thread.exists
               /\ thread.exists /\ portal.exists => \A what \in All \ blurred : Agrees(what)
=============================================================================
