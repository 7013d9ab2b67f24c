------------------------------- MODULE Tables -------------------------------
(***************************************************************************)
(* From the tables Meta sends to the events of the bridge.  A table is a      *)
(* handful of lists of rows, and the rows of one message are spread over      *)
(* several of them: WrapMessages puts them together, handleTable turns what   *)
(* came out into events, in an order of its own, and leaves out what it takes *)
(* for repetitions.  What comes is a program; Lightspeed reads it as a table. *)
(***************************************************************************)
EXTENDS Lists, Integers, FiniteSets, SequencesExt

CONSTANTS Payloads,  \* what arrives: programs, each with the table it is sent for
          Read(_),   \* the table a program is read as (see Lightspeed)
          NoId,      \* the id of a message, or of an attachment, that has none
          Window,    \* 500 ms: an unreaction again is one repeated
          Keep,      \* 5000 ms: how long recentUnreactions remembers
          MaxTime    \* bound on the clock

Received == {[sent |-> p.table, got |-> Read(p.program)] : p \in Payloads}

IsList(s) == s \in Seq(ToSet(s))

TableShape(t) ==
    /\ IsList(t.inserts) /\ IsList(t.upserts) /\ IsList(t.unreactions)
    /\ IsList(t.blobs)      \* of [of, fbid]
    /\ IsList(t.stickers)   \* of [of, thumb]
    /\ IsList(t.shares)     \* of [of, kind]
    /\ IsList(t.reactions)  \* of [of]
    /\ IsList(t.rows)       \* of [of, type]
    /\ \A i \in DOMAIN t.stickers : t.stickers[i].thumb \in BOOLEAN

ASSUME TablesAssumption == /\ Window \in Nat \ {0} /\ Keep \in Nat /\ MaxTime \in Nat
                           /\ Window =< Keep
                           /\ \A r \in Received : TableShape(r.got)

VARIABLES clock,   \* time.Now()
          recent,  \* recentUnreactions, by message and actor
          seen,    \* when each unreaction was last reported (history)
          out      \* what came last, and the events made of it

tableVars == <<clock, recent, seen, out>>

Never == -1
Keys == UNION {ToSet(r.got.unreactions) : r \in Received}
LongAgo == -Window
Unknown == LongAgo - 1   \* the clock was set since
Nothing == [what |-> "nothing"]

TablesInit == /\ clock = 0
              /\ recent = [k \in Keys |-> Never]
              /\ seen = [k \in Keys |-> LongAgo]
              /\ out = Nothing
-----------------------------------------------------------------------------
(* WrapMessages.  Its upserts, their ranges and read marks are dropped by     *)
(* handleTable; what they take along matters: their reactions.               *)

RowsOf(rows, id) == Chosen(rows, {n \in DOMAIN rows : rows[n].of = id})

\* Rows belong to the message the map has under their id: the last one
\* inserted, or one upserted, which no event is made of.
Wrapped(t) ==
    LET last(i) == \A j \in DOMAIN t.inserts : t.inserts[j] = t.inserts[i] => j =< i
        rows(list, i) == IF last(i) THEN RowsOf(list, t.inserts[i]) ELSE << >>
    IN [i \in DOMAIN t.inserts |->
          [id |-> t.inserts[i], blobs |-> rows(t.blobs, i),
           stickers |-> rows(t.stickers, i), shares |-> rows(t.shares, i)]]

\* The reactions to messages that are upserted go with those.
NewReactions(t) ==
    Chosen(t.reactions, {n \in DOMAIN t.reactions : t.reactions[n].of \notin ToSet(t.upserts)})
-----------------------------------------------------------------------------
(* convertWrappedMessage. *)

Each(list, att) == [i \in DOMAIN list |-> att]

\* A blob comes once per attachment id.
Blobs(blobs) ==
    LET new(i) == blobs[i].fbid = NoId \/ \A j \in 1 .. i - 1 : blobs[j].fbid # blobs[i].fbid
    IN Each(Chosen(blobs, {i \in DOMAIN blobs : new(i)}), "blob")

\* One sticker that is a thumb is text; more of them are stickers.
Stickers(stickers) == IF Len(stickers) = 1 /\ stickers[1].thumb THEN << >> ELSE Each(stickers, "sticker")

\* A share is a map, a poll, which is left out, a link, or too little for a link.
Shares(shares) ==
    LET shown == Chosen(shares, {i \in DOMAIN shares : shares[i].kind \in {"map", "link"}})
    IN [i \in DOMAIN shown |-> IF shown[i].kind = "map" THEN "location" ELSE "link"]

Message(id, atts) == [type |-> "message", of |-> id, atts |-> atts]
Other(type, id) == [type |-> type, of |-> id, atts |-> << >>]

Convert(w) == Message(w.id, Blobs(w.blobs) \o Stickers(w.stickers) \o Shares(w.shares))
-----------------------------------------------------------------------------
(* handleTable. *)

\* The first of the messages with an id; all of those without.
NewMessages(t) ==
    LET first(i) == t.inserts[i] = NoId \/ \A j \in 1 .. i - 1 : t.inserts[j] # t.inserts[i]
        new == Chosen(Wrapped(t), {i \in DOMAIN t.inserts : first(i)})
    IN [i \in DOMAIN new |-> Convert(new[i])]

\* Mutant: nobody remembers what the first loop reported.
FallbackForAll(t) == [i \in DOMAIN t.inserts |-> Message(t.inserts[i], << >>)]

\* The fallback loop finds every id handled; messages without one come again.
Fallback(t) == LET bare == Chosen(t.inserts, {i \in DOMAIN t.inserts : t.inserts[i] = NoId})
               IN [i \in DOMAIN bare |-> Message(bare[i], << >>)]

\* A list that is reported row by row.  A message that is deleted to be inserted
\* again is reported only when it is unsent.
RowEvents(t, type) ==
    LET list == Chosen(t.rows, {n \in DOMAIN t.rows : t.rows[n].type = type})
    IN [i \in DOMAIN list |-> Other(type, list[i].of)]

Reactions(t) == [i \in DOMAIN NewReactions(t) |-> Other("reaction", NewReactions(t)[i].of)]

\* One row of LSDeleteReaction: skipped, or reported and remembered, and then
\* what is old is forgotten.
Unreact(was, key) ==
    IF was.recent[key] # Never /\ clock - was.recent[key] < Window THEN was
    ELSE [recent |-> [k \in Keys |-> IF k = key THEN clock
                                     ELSE IF clock - was.recent[k] > Keep THEN Never ELSE was.recent[k]],
          told |-> Append(was.told, key)]

Unreacted(keys) ==
    LET after[n \in 0 .. Len(keys)] == IF n = 0 THEN [recent |-> recent, told |-> << >>]
                                       ELSE Unreact(after[n - 1], keys[n])
    IN after[Len(keys)]

Unreactions(told) == [i \in DOMAIN told |-> Other("unreaction", told[i])]

\* The loops, one after the other.
Events(t, told) ==
    NewMessages(t) \o Fallback(t) \o RowEvents(t, "edit") \o RowEvents(t, "delete")
      \o RowEvents(t, "unsent") \o RowEvents(t, "receipt") \o RowEvents(t, "read")
      \o Reactions(t) \o Unreactions(told) \o RowEvents(t, "typing")

HandleTable(t, sent) ==
    LET un == Unreacted(t.unreactions)
    IN /\ recent' = un.recent
       /\ seen' = [k \in Keys |-> IF k \in ToSet(un.told) THEN clock ELSE seen[k]]
       /\ out' = [what |-> "table", of |-> t, sent |-> sent, seen |-> seen, events |-> Events(t, un.told)]

ReceiveTable == /\ out = Nothing
                /\ \E r \in Received : HandleTable(r.got, r.sent)
                /\ UNCHANGED clock

\* The events are out; the next one may come in the same millisecond.
Done == out # Nothing /\ out' = Nothing /\ UNCHANGED <<clock, recent, seen>>

Tick == /\ out = Nothing /\ clock < MaxTime /\ clock' = clock + 1
        /\ UNCHANGED <<recent, seen, out>>

\* The clock is the wall clock: it may be set, and what it said before means nothing.
SetClock == /\ out = Nothing /\ clock' \in 0 .. MaxTime
            /\ seen' = [k \in Keys |-> Unknown]
            /\ UNCHANGED <<recent, out>>

TablesNext == ReceiveTable \/ Done \/ Tick \/ SetClock
TablesSpec == TablesInit /\ [][TablesNext]_tableVars
-----------------------------------------------------------------------------
(* Properties. *)

OfTable == out.what = "table"
About(events, type, id) == {i \in DOMAIN events : events[i].type = type /\ events[i].of = id}
Times(list, x) == Cardinality({i \in DOMAIN list : list[i] = x})
OwnOf(rows, id) == {n \in DOMAIN rows : rows[n].of = id}

\* The table the bridge works on is the one the server means: stored values,
\* conditions, steps and procedures nobody knows, missing, undefined and extra
\* arguments change nothing (Decode, handleStoredProcedure).
DecodesWhatWasSent == OfTable => out.of = out.sent

\* While nobody sets the clock, an unreaction is left out exactly when the same
\* one was reported less than Window ago: forgetting the old ones loses nothing
\* that is still needed, and lets nothing through (recentUnreactions).
UnreactionsApart ==
    OfTable =>
      \A k \in ToSet(out.of.unreactions) :
        out.seen[k] # Unknown =>
          Cardinality(About(out.events, "unreaction", k)) = IF clock - out.seen[k] < Window THEN 0 ELSE 1

\* What is attached to a message: of its blobs each once, its stickers, unless
\* they are one thumb, its maps and links.
AllAttached(t, id, atts) ==
    LET blobs == OwnOf(t.blobs, id)
        stickers == OwnOf(t.stickers, id)
        shares == OwnOf(t.shares, id)
    IN /\ Times(atts, "blob") = Cardinality({t.blobs[n].fbid : n \in blobs} \ {NoId})
                                  + Cardinality({n \in blobs : t.blobs[n].fbid = NoId})
       /\ Times(atts, "sticker") =
            Cardinality({n \in stickers : Cardinality(stickers) > 1 \/ ~t.stickers[n].thumb})
       /\ Times(atts, "location") = Cardinality({n \in shares : t.shares[n].kind = "map"})
       /\ Times(atts, "link") = Cardinality({n \in shares : t.shares[n].kind = "link"})

\* A new message is reported once however often the table has it, and before
\* what the table says about it; one that is upserted is not reported, nor are
\* the reactions to it, and no other reaction is lost.  All attachments of a
\* message that is there once arrive with it: a blob that is repeated once,
\* stickers, maps and links, and none of another message's (handleTable).
TableTold(t, events) ==
    LET inserted == ToSet(t.inserts) \ {NoId}
    IN /\ \A id \in inserted :
            \E i \in DOMAIN events :
              /\ About(events, "message", id) = {i}
              /\ \A j \in DOMAIN events : events[j].of = id => i =< j
              /\ Times(t.inserts, id) = 1 => AllAttached(t, id, events[i].atts)
       /\ \A id \in ToSet(t.upserts) \ (inserted \cup {NoId}) : About(events, "message", id) = {}
       /\ \A id \in {r.of : r \in ToSet(t.reactions)} :
            Cardinality(About(events, "reaction", id)) =
              IF id \in ToSet(t.upserts) THEN 0 ELSE Cardinality(OwnOf(t.reactions, id))

MessagesTogether == OfTable => TableTold(out.of, out.events)

\* What a table says is told once, all of it and of nothing else: every message
\* with its parts, every unreaction once per window (handleTable).
EveryMessageOnce == MessagesTogether /\ UnreactionsApart

\* A payload is read as the table it was made from, and the table as the events
\* it stands for.
TablesRead == DecodesWhatWasSent /\ EveryMessageOnce
=============================================================================
