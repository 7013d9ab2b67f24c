----------------------------- MODULE Lightspeed -----------------------------
(***************************************************************************)
(* A table does not come as data: the server sends a program, and Decode     *)
(* runs it.  A program is a step; a step is a literal or an operation on     *)
(* steps.  Running one yields a value, may store values for later steps, and *)
(* by calling stored procedures adds rows to the table.                      *)
(***************************************************************************)
EXTENDS Integers, Sequences, SequencesExt

CONSTANT Columns  \* the stored procedures that are known: per procedure, the
                  \* types of the fields of its row

\* Values carry their Go type.
Nil    == [t |-> "nil"]
I64(n) == [t |-> "i64", v |-> n]
Num(n) == [t |-> "float64", v |-> n]  \* what JSON has for numbers
Str(x) == [t |-> "string", v |-> x]
Bool(b) == [t |-> "bool", v |-> b]
GoInt  == [t |-> "int"]    \* 0, where something is missing, and every length
Blob   == [t |-> "bytes"]
Map    == [t |-> "map"]
Array  == [t |-> "array"]

\* References are stored under keys 0 .. 9.
Fresh == [refs |-> [k \in 0 .. 9 |-> GoInt], rows |-> << >>]

Is(type, val) == val.t = type

\* The row of a call: each field takes the argument at its place if that has
\* its type, and keeps its zero value if not, or if there is none.  Arguments
\* without a field are put aside.
Row(proc, vals) ==
    [proc |-> proc,
     fields |-> [i \in DOMAIN Columns[proc] |->
                   IF i \in DOMAIN vals /\ Is(Columns[proc][i].t, vals[i])
                   THEN vals[i].v ELSE Columns[proc][i].v]]

Result(val, env) == [val |-> val, env |-> env]

RECURSIVE Decode(_, _)

\* Steps one after the other, and what they yield.
DecodeEach(steps, env) ==
    FoldLeft(LAMBDA done, step : LET d == Decode(step, done.env)
                                 IN [vals |-> Append(done.vals, d.val), env |-> d.env],
             [vals |-> << >>, env |-> env], steps)

\* handleStoredProcedure: one that is not known is skipped, its arguments with it.
Call(step, env) ==
    LET all == DecodeEach(step.args, env)
    IN IF step.proc \notin DOMAIN Columns THEN env
       ELSE [all.env EXCEPT !.rows = Append(@, Row(step.proc, all.vals))]

Store(step, env) ==
    LET d == Decode(step.args[1], env) IN [d.env EXCEPT !.refs[step.key] = d.val]

\* What is left of the step is run as a step of its own, and its number stored.
StoreArray(step, env) ==
    Decode(step.args[1], [env EXCEPT !.refs[step.key] = I64(step.code)]).env

\* Mutant: a condition that is 0 holds.
IfNotNegative(step, env) ==
    LET cond == Decode(step.args[1], env)
        branch == IF cond.val.v >= 0 THEN 2 ELSE 3
    IN IF Is("i64", cond.val) /\ branch \in DOMAIN step.args
       THEN Decode(step.args[branch], cond.env).env ELSE cond.env

\* Anything but an int64 takes neither branch, a bool included.
If(step, env) ==
    LET cond == Decode(step.args[1], env)
        branch == IF cond.val.v > 0 THEN 2 ELSE 3
    IN IF Is("i64", cond.val) /\ branch \in DOMAIN step.args
       THEN Decode(step.args[branch], cond.env).env ELSE cond.env

\* The first operand is of the type the operation wants, or the others are not run.
Operate(type, step, env) ==
    LET d == Decode(step.args[1], env)
        all == DecodeEach(step.args, env)
    IN IF Is(type, d.val) THEN [ok |-> TRUE, vals |-> all.vals, env |-> all.env]
       ELSE [ok |-> FALSE, vals |-> << >>, env |-> d.env]

\* NOT yields what it is given; I64_EQUAL a bool.
Number(step, env) ==
    LET o == Operate("i64", step, env)
        val == CASE ~ o.ok -> Nil
                 [] step.op = "not" -> o.vals[1]
                 [] ~ Is("i64", o.vals[2]) -> Nil
                 [] step.op = "add" -> I64(o.vals[1].v + o.vals[2].v)
                 [] step.op = "equal" -> Bool(o.vals[1].v = o.vals[2].v)
    IN Result(val, o.env)

\* What is in maps and arrays no row takes; a length is no int64.
Collect(step, env) ==
    LET o == Operate(IF step.op = "mapSet" THEN "map" ELSE "array", step, env)
    IN Result(CASE ~ o.ok \/ step.op = "mapSet" -> Nil
                [] step.op = "append" -> Array
                [] step.op = "size" -> GoInt, o.env)

Decode(step, env) ==
    CASE step.op = "literal" -> Result(step.val, env)
      [] step.op = "block" -> Result(Nil, DecodeEach(step.args, env).env)
      [] step.op = "load" -> Result(env.refs[step.key], env)
      [] step.op = "store" -> Result(Nil, Store(step, env))
      [] step.op = "storeArray" -> Result(Nil, StoreArray(step, env))
      [] step.op = "call" -> Result(Nil, Call(step, env))
      [] step.op = "if" -> Result(Nil, If(step, env))
      [] step.op = "i64" -> Result(IF step.ok THEN I64(step.n) ELSE GoInt, env)
      [] step.op = "toBlob" -> Result(IF step.ok THEN Blob ELSE Nil, env)
      [] step.op = "time" -> Result(I64(1), env)
      [] step.op = "map" -> Result(Map, env)
      [] step.op = "array" -> Result(Array, env)
      [] step.op \in {"not", "add", "equal"} -> Number(step, env)
      [] step.op \in {"mapSet", "append", "size"} -> Collect(step, env)
      \* undefined, logs, native operations, and the many steps nobody knows
      [] OTHER -> Result(Nil, env)

\* Event_PublishResponse.Finish: the rows of a payload.
Finish(program) == Decode(program, Fresh).env.rows

(* The lists of a table: the rows of their procedures, in the order of the    *)
(* calls.                                                                    *)
TableOf(rows) ==
    LET of(proc) == SelectSeq(rows, LAMBDA r : r.proc = proc)
        ids(proc) == [i \in DOMAIN of(proc) |-> of(proc)[i].fields[1]]
        parts(proc, field) ==
            [i \in DOMAIN of(proc) |-> ("of" :> of(proc)[i].fields[1]) @@ (field :> of(proc)[i].fields[2])]
        events == SelectSeq(rows, LAMBDA r : r.proc = "row")
    IN [inserts |-> ids("insertMessage"), upserts |-> ids("upsertMessage"),
        blobs |-> parts("insertBlobAttachment", "fbid"),
        stickers |-> parts("insertStickerAttachment", "thumb"),
        shares |-> parts("insertXmaAttachment", "kind"),
        reactions |-> [i \in DOMAIN ids("upsertReaction") |-> [of |-> ids("upsertReaction")[i]]],
        \* the lists that are only reported, in one
        rows |-> [i \in DOMAIN events |-> [of |-> events[i].fields[1], type |-> events[i].fields[2]]],
        unreactions |-> ids("deleteReaction")]

ReadTable(program) == TableOf(Finish(program))
=============================================================================
