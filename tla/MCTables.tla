------------------------------ MODULE MCTables ------------------------------
\* Two ids and one that is missing.  Tables of messages: up to two inserted and
\* one upserted, with up to two rows of the rest; tables of unreactions: up to
\* two, of two people.
EXTENDS Tables, Lightspeed, TLC

Ids == {"a", "b", "none"}
NoRows == [inserts |-> << >>, upserts |-> << >>, blobs |-> << >>, stickers |-> << >>,
          shares |-> << >>, reactions |-> << >>, rows |-> << >>, unreactions |-> << >>]

New == {[NoRows EXCEPT !.inserts = i] : i \in SeqOf(Ids, 2)}
Messages == {[m EXCEPT !.upserts = u] : m \in New, u \in SeqOf({"a", "b"}, 1)}
BlobRow == [of : {"a"}, fbid : {"x", "none"}] \cup [of : {"b"}, fbid : {"x"}]
Sticker == [of : {"a"}, thumb : BOOLEAN]
Share == [of : {"a"}, kind : {"map", "poll", "link", "bare"}]
Reaction == [of : {"a", "b"}]
Types == {"edit", "delete", "unsent", "replaced", "receipt", "read", "typing"}

Meant ==
    {[m EXCEPT !.blobs = b] : m \in Messages, b \in SeqOf(BlobRow, 2)}
      \cup {[m EXCEPT !.stickers = s] : m \in New, s \in SeqOf(Sticker, 2)}
      \cup {[m EXCEPT !.shares = <<x, [of |-> "a", kind |-> "link"]>>] : m \in New, x \in Share}
      \cup {[m EXCEPT !.reactions = r] : m \in Messages, r \in SeqOf(Reaction, 2)}
      \cup {[m EXCEPT !.rows = <<[type |-> x, of |-> "a"], [type |-> "edit", of |-> "a"]>>] :
              m \in New, x \in Types}
      \cup {[NoRows EXCEPT !.inserts = <<"a">>, !.unreactions = u] : u \in SeqOf({"a1", "a2"}, 2)}

-----------------------------------------------------------------------------
\* The programs a table may come as.
Text == [t |-> "string", v |-> "none"]
Flag == [t |-> "bool", v |-> FALSE]
MCColumns == [insertMessage |-> <<Text>>, upsertMessage |-> <<Text>>,
              insertBlobAttachment |-> <<Text, Text>>, insertStickerAttachment |-> <<Text, Flag>>,
              insertXmaAttachment |-> <<Text, Text>>, upsertReaction |-> <<Text>>,
              deleteReaction |-> <<Text>>, row |-> <<Text, Text>>]

Lit(val) == [op |-> "literal", val |-> val]
Do(op, args) == [op |-> op, args |-> args]
Number0(n) == [op |-> "i64", ok |-> TRUE, n |-> n]
CallOf(proc, args) == [op |-> "call", proc |-> proc, args |-> args]
CallEach(list, proc, args(_)) == [i \in DOMAIN list |-> CallOf(proc, args(list[i]))]

Calls(t) ==
    LET id(x) == <<Lit(Str(x))>>
        two(x, y) == <<Lit(Str(x)), Lit(Str(y))>>
    IN CallEach(t.inserts, "insertMessage", id)
         \o CallEach(t.blobs, "insertBlobAttachment", LAMBDA b : two(b.of, b.fbid))
         \o CallEach(t.stickers, "insertStickerAttachment", LAMBDA s : <<Lit(Str(s.of)), Lit(Bool(s.thumb))>>)
         \o CallEach(t.shares, "insertXmaAttachment", LAMBDA x : two(x.of, x.kind))
         \o CallEach(t.upserts, "upsertMessage", id)
         \o CallEach(t.reactions, "upsertReaction", LAMBDA r : id(r.of))
         \o CallEach(t.rows, "row", LAMBDA r : two(r.of, r.type))
         \o CallEach(t.unreactions, "deleteReaction", id)

Bogus == CallOf("insertMessage", <<Lit(Str("b"))>>)
Undefined == [op |-> "undefined"]

\* Arguments by way of references, which every call uses again.
Stored(call) ==
    Do("block", [i \in DOMAIN call.args |-> [op |-> "store", key |-> i, args |-> <<call.args[i]>>]]
                  \o <<[call EXCEPT !.args = [i \in DOMAIN call.args |-> [op |-> "load", key |-> i]]]>>)

\* Under conditions that hold and that do not: numbers, sums, and what is stored.
Guarded(call) ==
    Do("block", <<[op |-> "store", key |-> 7, args |-> <<Do("add", <<Number0(1), Number0(-1)>>)>>],
                  Do("if", <<[op |-> "load", key |-> 7], Bogus>>),
                  Do("if", <<[op |-> "load", key |-> 7], Bogus,
                             Do("if", <<Number0(1), call, Bogus>>)>>)>>)

\* Among what is passed over, with a field that is not given and arguments more.
Noisy(call) ==
    LET given == [i \in DOMAIN call.args |->
                    IF call.args[i].val.t = "string" /\ call.args[i].val.v = "none"
                    THEN Undefined ELSE call.args[i]]
    IN Do("block", <<CallOf("unheardOf", <<Bogus>>), [op |-> "log"],
                     Do("if", <<Do("equal", <<Number0(1), Number0(1)>>), Bogus, Bogus>>),
                     Do("if", <<[op |-> "i64", ok |-> FALSE, n |-> 1], Bogus, Bogus>>),
                     Do("if", <<Do("size", <<Do("append", <<[op |-> "array"], Lit(Str("x"))>>)>>), Bogus, Bogus>>),
                     Do("mapSet", <<[op |-> "map"], Lit(Str("k")), Lit(Num(1))>>),
                     [op |-> "storeArray", key |-> 8, code |-> 1, args |-> <<Undefined>>],
                     [call EXCEPT !.args = given \o <<Undefined, Lit(Num(1)), [op |-> "toBlob", ok |-> TRUE]>>]>>)

Program(t, as(_)) == Do("block", [i \in DOMAIN Calls(t) |-> as(Calls(t)[i])])

MCPayloads == {[table |-> t, program |-> Program(t, LAMBDA c : c)] : t \in Meant}
                \cup UNION {{[table |-> t, program |-> Program(t, Stored)],
                             [table |-> t, program |-> Program(t, Guarded)],
                             [table |-> t, program |-> Program(t, Noisy)]} : t \in Meant}
=============================================================================
