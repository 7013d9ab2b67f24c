-------------------------- MODULE ConnectorProofs --------------------------
(***************************************************************************)
(* For any handlers at once, any number of attempts and any room in the      *)
(* channels: what the user is told of a message, an edit or a deletion is    *)
(* so.  And for one login, any number of tables, starts, reconnects and      *)
(* failures and any room in the queue: a stop is one, a login that stands    *)
(* still has said so, and no table is forgotten.                             *)
(*                                                                           *)
(* The argument for edits: a correction is on its way, or in the channel of  *)
(* the edit that waits for it, or the edit is excused; it is sent only for   *)
(* an edit that was done.                                                    *)
(*                                                                           *)
(* The argument for the login: one call connects at a time, and a call that  *)
(* leaves without a word was told to, by somebody who goes on or who met it  *)
(* (Alone, Answered); a stop under way keeps what it has done away with      *)
(* (Calmed); and every place from which a sync may start, or which a sync is *)
(* about to count, has all before it handled, on its way or counted as lost  *)
(* (AllCovered).                                                             *)
(*                                                                           *)
(* The chats as a login reads them.                                          *)
(*                                                                           *)
(* The encrypted chat, for any number of devices of two people, any number   *)
(* of messages and any order, delay and repetition of their delivery; no     *)
(* proof uses the bounds of Open and Room, nor MaxLog.                       *)
(*                                                                           *)
(* ChatInv is inductive: every message of the chat Fits.  What it holds is   *)
(* Content, what it quotes was written by who is said to have written it,    *)
(* and the key of what is about a message says whose that is as who speaks   *)
(* of it sees it; and what a connector keeps, it keeps under the id it gives *)
(* the message (Known).  Two facts carry the rest: a key that is right in    *)
(* the eyes of its sender is read back to the same message by everybody      *)
(* (KeyIsRead), and what is shown of a message depends on its content alone. *)
(*                                                                           *)
(* The history of a chat and the list of chats, for every length of them,    *)
(* every size of an answer and any number of answers under way (the bound of *)
(* Copies is not used).  HistoryInv is inductive: what a call has collected  *)
(* reaches without a gap from its lower end to its top, whoever of the two   *)
(* calls the collector is handed to meanwhile (Sound); ChatsInv: the login   *)
(* never says that its list is complete before a page or a range said so.    *)
(***************************************************************************)
EXTENDS Connector, Outgoing, Sealed, Backfill,
        SequenceTheorems, FiniteSetTheorems, WellFoundedInduction, TLAPS

-----------------------------------------------------------------------------
(* The handlers for a Matrix user: their steps. *)

Groups == {Messages, Edits, Reactions, Removals, Receipts, Typing, Deletions, Settings, Members}

LEMMA GroupNames ==
  /\ DOMAIN Messages = {"message", "sealedmessage"} /\ DOMAIN Edits = {"edit", "sealededit"}
  /\ DOMAIN Reactions = {"react", "sealedreact"} /\ DOMAIN Removals = {"remove", "sealedremove"}
  /\ DOMAIN Receipts = {"receipt"} /\ DOMAIN Typing = {"typing"}
  /\ DOMAIN Deletions = {"delete", "sealeddelete"} /\ DOMAIN Settings = {"rename", "avatar"}
  /\ DOMAIN Members = {"members", "sealedmembers"}
BY DEF Messages, Edits, Reactions, Removals, Receipts, Typing, Deletions, Settings, Members

LEMMA HandlerOfGroup ==
  ASSUME NEW h, NEW some \in Groups, h \in DOMAIN some
  PROVE  Handlers[h] = some[h]
<1>1. \A x, y \in Groups : h \in DOMAIN x /\ h \in DOMAIN y => x = y
  BY GroupNames DEF Groups
<1>2. (CHOOSE x \in Groups : h \in DOMAIN x) = some
  BY <1>1
<1> QED
  BY <1>2 DEF Handlers, Groups

LEMMA StepsOfGroups ==
  /\ \A h \in DOMAIN Messages : Handlers[h] = Messages[h]
  /\ \A h \in DOMAIN Edits : Handlers[h] = Edits[h]
  /\ \A h \in DOMAIN Reactions : Handlers[h] = Reactions[h]
  /\ \A h \in DOMAIN Removals : Handlers[h] = Removals[h]
  /\ \A h \in DOMAIN Receipts : Handlers[h] = Receipts[h]
  /\ \A h \in DOMAIN Typing : Handlers[h] = Typing[h]
  /\ \A h \in DOMAIN Deletions : Handlers[h] = Deletions[h]
  /\ \A h \in DOMAIN Settings : Handlers[h] = Settings[h]
  /\ \A h \in DOMAIN Members : Handlers[h] = Members[h]
  /\ DOMAIN Handlers = UNION {DOMAIN some : some \in Groups}
<1>1. \A some \in Groups : \A h \in DOMAIN some : Handlers[h] = some[h]
  BY HandlerOfGroup
<1>2. DOMAIN Handlers = UNION {DOMAIN some : some \in Groups}
  BY DEF Handlers, Groups
<1> QED
  BY <1>1, <1>2 DEF Groups

LEMMA StepsOfHandlers ==
  /\ Handlers["edit"] = <<"login", "plain", "convert", "listen", "askedit", "correct">>
  /\ Handlers["sealeddelete"] = <<"ask", "ask">>
  /\ \A h \in DOMAIN Handlers \ {"edit", "sealeddelete"} :
       Handlers[h] \in {<<"login", "plain", "convert", "post">>, <<"login", "sealed", "convert", "seal">>,
                        <<"login", "plain", "ask">>, <<"login", "sealed", "seal">>,
                        <<"login", "try", "try">>, <<"ask">>, <<"seal">>, <<"convert", "convert", "ask">>}
<1>1. /\ Handlers["edit"] = Edits["edit"] /\ Handlers["sealeddelete"] = Deletions["sealeddelete"]
  BY StepsOfGroups, GroupNames
<1>2. ASSUME NEW h \in DOMAIN Handlers, h # "edit", h # "sealeddelete"
      PROVE  \/ h \in {"message", "sealedmessage"} /\ Handlers[h] = Messages[h]
             \/ h = "sealededit" /\ Handlers[h] = Edits[h]
             \/ h \in {"react", "sealedreact"} /\ Handlers[h] = Reactions[h]
             \/ h \in {"remove", "sealedremove"} /\ Handlers[h] = Removals[h]
             \/ h = "receipt" /\ Handlers[h] = Receipts[h]
             \/ h = "typing" /\ Handlers[h] = Typing[h]
             \/ h = "delete" /\ Handlers[h] = Deletions[h]
             \/ h \in {"rename", "avatar"} /\ Handlers[h] = Settings[h]
             \/ h \in {"members", "sealedmembers"} /\ Handlers[h] = Members[h]
  <2>1. PICK some \in Groups : h \in DOMAIN some
    BY StepsOfGroups
  <2>2. \/ some = Messages \/ some = Edits \/ some = Reactions \/ some = Removals \/ some = Receipts
        \/ some = Typing \/ some = Deletions \/ some = Settings \/ some = Members
    BY DEF Groups
  <2> QED
    BY <1>2, <2>1, <2>2, StepsOfGroups, GroupNames
<1>3. /\ Messages["message"] = <<"login", "plain", "convert", "post">>
      /\ Messages["sealedmessage"] = <<"login", "sealed", "convert", "seal">>
      /\ Edits["sealededit"] = <<"login", "sealed", "seal">>
      /\ Reactions["react"] = <<"login", "plain", "ask">> /\ Reactions["sealedreact"] = <<"login", "sealed", "seal">>
      /\ Removals["remove"] = <<"login", "plain", "ask">> /\ Removals["sealedremove"] = <<"login", "sealed", "seal">>
      /\ Receipts["receipt"] = <<"login", "try", "try">> /\ Typing["typing"] = <<"ask">>
      /\ Deletions["delete"] = <<"ask">> /\ Settings["rename"] = <<"ask">>
      /\ Settings["avatar"] = <<"convert", "convert", "ask">>
      /\ Members["members"] = <<"ask">> /\ Members["sealedmembers"] = <<"seal">>
  BY DEF Messages, Edits, Reactions, Removals, Receipts, Typing, Deletions, Settings, Members
<1>4. /\ Edits["edit"] = <<"login", "plain", "convert", "listen", "askedit", "correct">>
      /\ Deletions["sealeddelete"] = <<"ask", "ask">>
  BY DEF Edits, Deletions
<1> QED
  BY <1>1, <1>2, <1>3, <1>4

\* Only an edit listens, asks for an edit and waits for a correction, and only at its place.
LEMMA EditSteps ==
  ASSUME NEW h \in DOMAIN Handlers, NEW i \in 1 .. Len(Handlers[h])
  PROVE  /\ Handlers[h][i] = "listen" => h = "edit" /\ i = 4
         /\ Handlers[h][i] = "askedit" => h = "edit" /\ i = 5
         /\ Handlers[h][i] = "correct" => h = "edit" /\ i = 6
         /\ Handlers[h][i] \in {"login", "plain", "sealed", "convert"} => h # "edit" \/ i < 4
         /\ Handlers[h][i] \in {"ask", "try", "seal"} => h # "edit"
         /\ h = "sealeddelete" => Handlers[h][i] = "ask"
         /\ h = "edit" => Len(Handlers[h]) = 6
         /\ h = "sealeddelete" => Len(Handlers[h]) = 2
         /\ Len(Handlers[h]) \in Nat
<1>1. CASE h = "edit"
  <2>1. Handlers[h] = <<"login", "plain", "convert", "listen", "askedit", "correct">>
    BY <1>1, StepsOfHandlers
  <2>2. Len(Handlers[h]) = 6 /\ i \in 1 .. 6
    BY <2>1
  <2> QED
    BY <1>1, <2>1, <2>2
<1>2. CASE h = "sealeddelete"
  <2>1. Handlers[h] = <<"ask", "ask">>
    BY <1>2, StepsOfHandlers
  <2> QED
    BY <1>2, <2>1
<1>3. CASE h \notin {"edit", "sealeddelete"}
  <2>1. Handlers[h] \in {<<"login", "plain", "convert", "post">>, <<"login", "sealed", "convert", "seal">>,
                         <<"login", "plain", "ask">>, <<"login", "sealed", "seal">>,
                         <<"login", "try", "try">>, <<"ask">>, <<"seal">>, <<"convert", "convert", "ask">>}
    BY <1>3, StepsOfHandlers
  <2>2. Handlers[h][i] \notin {"listen", "askedit", "correct"} /\ Len(Handlers[h]) \in Nat
    BY <2>1
  <2> QED
    BY <1>3, <2>2
<1> QED
  BY <1>1, <1>2, <1>3

-----------------------------------------------------------------------------
(* The invariant. *)

Verdicts == {"nothing", "ok", "failed", "sent", "unsure", "rejected", "confirmed", "reverted"}
Pushes == Calls \cup {"other"}

OutgoingTypeOK ==
  /\ work \in [Calls -> DOMAIN Handlers]
  /\ task \in [Calls -> [pc : Nat, tries : Nat, reloaded : BOOLEAN, said : Verdicts]]
  /\ \A c \in Calls : task[c].said = "nothing" => task[c].pc \in 1 .. Len(Steps(c))
  /\ tasks \in [Calls -> Nat]
  /\ \A o \in posted : \E c \in Calls : o = Otid(c)
  /\ listening \in Calls \cup {"nobody"}
  /\ heard \in [Calls -> Seq(Pushes)] /\ extras \subseteq Pushes

Hears(c, x) == \E k \in DOMAIN heard[c] : heard[c][k] = x

\* What a handler was told is so, and what it will be told is on its way.
Fine(c) ==
  LET said == task[c].said
      edits == work[c] = "edit" /\ said = "nothing"
  IN  /\ said = "sent" => Otid(c) \in posted
      /\ said = "rejected" => Otid(c) \notin posted
      /\ said = "confirmed" => tasks[c] = 1
      /\ said = "reverted" => tasks[c] = 0 \/ c \in excused
      /\ edits /\ task[c].pc < 6 => tasks[c] = 0
      /\ edits /\ task[c].pc >= 5 => listening = c \/ c \in excused
      /\ edits /\ task[c].pc = 6 => tasks[c] = 0 \/ c \in excused \/ c \in extras \/ Hears(c, c)
      /\ work[c] = "sealeddelete" /\ said = "nothing" => tasks[c] = task[c].pc - 1
      /\ work[c] = "sealeddelete" /\ said = "ok" => tasks[c] = 2

\* A correction names an edit that was done and waits for it, or no longer waits.
Corrects(c) ==
  c \in extras \/ (\E d \in Calls : Hears(d, c)) =>
    /\ work[c] = "edit" /\ tasks[c] = 1
    /\ task[c].said # "nothing" \/ task[c].pc = 6

SaidInv == OutgoingTypeOK /\ \A c \in Calls : Fine(c) /\ Corrects(c)

\* A step of others: what is the handler's own stays.
Bystands(c) ==
  /\ task'[c] = task[c] /\ tasks'[c] = tasks[c] /\ work' = work
  /\ Otid(c) \in posted' <=> Otid(c) \in posted
  /\ c \in excused => c \in excused'

LEMMA BystanderFine ==
  ASSUME NEW c \in Calls, SaidInv, Bystands(c),
         work[c] = "edit" /\ task[c].said = "nothing" /\ task[c].pc >= 5 =>
           (listening = c => listening' = c \/ c \in excused'),
         (c \in extras \/ Hears(c, c)) => (c \in extras' \/ Hears(c, c)' \/ c \in excused')
  PROVE  Fine(c)'
<1>1. /\ Fine(c) /\ task[c].pc \in Nat /\ Otid(c)' = Otid(c)
  BY DEF SaidInv, OutgoingTypeOK, Otid
<1> QED
  BY <1>1 DEF Fine, Bystands

LEMMA BystanderCorrects ==
  ASSUME NEW c \in Calls, SaidInv, Bystands(c),
         (c \in extras' \/ \E d \in Calls : Hears(d, c)') => (c \in extras \/ \E d \in Calls : Hears(d, c))
  PROVE  Corrects(c)'
BY DEF SaidInv, Corrects, Bystands

LEMMA AtStep ==
  ASSUME SaidInv, NEW c \in Calls, NEW step, At(c, step)
  PROVE  /\ task[c].said = "nothing" /\ work[c] \in DOMAIN Handlers
         /\ task[c].pc \in 1 .. Len(Handlers[work[c]]) /\ Handlers[work[c]][task[c].pc] = step
         /\ Steps(c) = Handlers[work[c]] /\ task[c].pc \in Nat
BY DEF SaidInv, OutgoingTypeOK, At, Steps

\* A handler moves, and nobody else.
Tasks == [pc : Nat, tries : Nat, reloaded : BOOLEAN, said : Verdicts]
Moves(c) == /\ task' \in [Calls -> Tasks]
            /\ \A d \in Calls \ {c} : task'[d] = task[d]
            /\ \A d \in Calls : task'[d].said = "nothing" => task'[d].pc \in 1 .. Len(Steps(d)')

LEMMA MovesTo ==
  ASSUME SaidInv, NEW c \in Calls, work' = work, NEW t \in Tasks, task' = [task EXCEPT ![c] = t],
         t.said = "nothing" => t.pc \in 1 .. Len(Steps(c))
  PROVE  Moves(c) /\ task'[c] = t
<1>1. /\ task \in [Calls -> Tasks]
      /\ \A d \in Calls : task[d].said = "nothing" => task[d].pc \in 1 .. Len(Steps(d))
      /\ \A d \in Calls : Steps(d)' = Steps(d)
  BY DEF SaidInv, OutgoingTypeOK, Steps, Tasks
<1>2. task' \in [Calls -> Tasks] /\ task'[c] = t /\ \A d \in Calls \ {c} : task'[d] = task[d]
  BY <1>1
<1> QED
  BY <1>1, <1>2 DEF Moves

LEMMA AdvanceMoves ==
  ASSUME SaidInv, NEW c \in Calls, NEW step, At(c, step), work' = work, Advance(c)
  PROVE  /\ Moves(c) /\ task'[c].pc = task[c].pc + 1
         /\ task'[c].said = IF task[c].pc = Len(Steps(c)) THEN "ok" ELSE "nothing"
<1> DEFINE v == IF task[c].pc = Len(Steps(c)) THEN "ok" ELSE task[c].said
           p == task[c].pc + 1
           t == [task[c] EXCEPT !.pc = p, !.said = v]
<1>1. task \in [Calls -> Tasks] /\ task[c] \in Tasks /\ task[c].said = "nothing"
  BY DEF SaidInv, OutgoingTypeOK, Tasks, At
<1>2. v \in Verdicts
  BY <1>1 DEF Verdicts
<1>3. task' = [task EXCEPT ![c] = t]
  BY DEF Advance
<1>4. v = IF task[c].pc = Len(Steps(c)) THEN "ok" ELSE "nothing"
  BY <1>1
<1>5. t \in Tasks /\ t.pc = p /\ t.said = v
  <2>1. p \in Nat
    BY <1>1 DEF Tasks
  <2> HIDE DEF p, v
  <2> QED
    BY <1>1, <1>2, <2>1 DEF Tasks
<1>6. t.said = "nothing" => t.pc \in 1 .. Len(Steps(c))
  <2>1. task[c].pc \in 1 .. Len(Steps(c)) /\ Len(Steps(c)) \in Nat
    BY AtStep, EditSteps
  <2> QED
    BY <1>4, <1>5, <2>1
<1> HIDE DEF t, v
<1> QED
  BY <1>3, <1>4, <1>5, <1>6, MovesTo

LEMMA TellMoves ==
  ASSUME SaidInv, NEW c \in Calls, NEW step, At(c, step), work' = work,
         NEW what \in Verdicts \ {"nothing"}, Tell(c, what)
  PROVE  Moves(c) /\ task'[c].said = what
<1> DEFINE t == [task[c] EXCEPT !.said = what]
<1>1. task \in [Calls -> Tasks] /\ task[c] \in Tasks
  BY DEF SaidInv, OutgoingTypeOK, Tasks
<1>2. t \in Tasks /\ t.said = what
  BY <1>1 DEF Tasks
<1>3. task' = [task EXCEPT ![c] = t]
  BY DEF Tell
<1> HIDE DEF t
<1> QED
  BY <1>2, <1>3, MovesTo

LEMMA PostAgainMoves ==
  ASSUME SaidInv, NEW c \in Calls, At(c, "post"), work' = work, PostAgain(c)
  PROVE  Moves(c) /\ task'[c].pc = task[c].pc /\ task'[c].said \in {"nothing", "failed"}
<1> DEFINE n == task[c].tries + 1
           v == IF n = Tries THEN "failed" ELSE task[c].said
           t == [task[c] EXCEPT !.tries = n, !.said = v]
<1>1. task \in [Calls -> Tasks] /\ task[c] \in Tasks /\ task[c].said = "nothing"
  BY DEF SaidInv, OutgoingTypeOK, Tasks, At
<1>2. n \in Nat /\ v \in {"nothing", "failed"} /\ v \in Verdicts
  BY <1>1 DEF Tasks, Verdicts
<1>3. task' = [task EXCEPT ![c] = t]
  BY DEF PostAgain
<1>4. t \in Tasks /\ t.said = v /\ t.pc = task[c].pc
  <2> HIDE DEF n, v
  <2> QED
    BY <1>1, <1>2 DEF Tasks
<1>5. t.said = "nothing" => t.pc \in 1 .. Len(Steps(c))
  BY <1>4, AtStep
<1> HIDE DEF t, n, v
<1> QED
  BY <1>2, <1>3, <1>4, <1>5, MovesTo

LEMMA ReloadMoves ==
  ASSUME SaidInv, NEW c \in Calls, At(c, "convert"), work' = work,
         task' = [task EXCEPT ![c].reloaded = TRUE]
  PROVE  Moves(c) /\ task'[c].pc = task[c].pc /\ task'[c].said = "nothing"
<1> DEFINE t == [task[c] EXCEPT !.reloaded = TRUE]
<1>1. task \in [Calls -> Tasks] /\ task[c] \in Tasks /\ task[c].said = "nothing"
  BY DEF SaidInv, OutgoingTypeOK, Tasks, At
<1>2. t \in Tasks /\ t.said = "nothing" /\ t.pc = task[c].pc
  BY <1>1 DEF Tasks
<1>3. task' = [task EXCEPT ![c] = t]
  OBVIOUS
<1>4. t.said = "nothing" => t.pc \in 1 .. Len(Steps(c))
  BY <1>2, AtStep
<1> HIDE DEF t
<1> QED
  BY <1>2, <1>3, <1>4, MovesTo

-----------------------------------------------------------------------------
(* Step by step. *)

\* The steps before anything is asked for.
Prepares(c, step) ==
  /\ At(c, step)
  /\ \/ Advance(c) \/ Tell(c, "failed")
     \/ step = "convert" /\ task' = [task EXCEPT ![c].reloaded = TRUE]
  /\ UNCHANGED <<work, posted, tasks, listening, heard, extras, excused>>

LEMMA PrepareSaid ==
  ASSUME SaidInv, NEW c \in Calls, NEW step \in {"login", "plain", "sealed", "convert"}, Prepares(c, step)
  PROVE  SaidInv'
<1> USE DEF Prepares
<1>1. /\ task[c].said = "nothing" /\ work[c] \in DOMAIN Handlers /\ task[c].pc \in Nat
      /\ work[c] = "edit" => task[c].pc < 4 /\ Len(Steps(c)) = 6
      /\ work[c] # "sealeddelete"
  <2>1. step # "ask"
    OBVIOUS
  <2> QED
    BY <2>1, AtStep, EditSteps
<1>2. /\ Moves(c)
      /\ \/ task'[c].said = "failed"
         \/ task'[c].said = "ok" /\ work[c] # "edit"
         \/ task'[c].said = "nothing" /\ task'[c].pc \in {task[c].pc, task[c].pc + 1}
  <2>1. CASE Advance(c)
    <3>1. /\ Moves(c) /\ task'[c].pc = task[c].pc + 1
          /\ task'[c].said = IF task[c].pc = Len(Steps(c)) THEN "ok" ELSE "nothing"
      BY <2>1, AdvanceMoves
    <3>2. CASE task[c].pc = Len(Steps(c))
      <4>1. work[c] # "edit"
        BY <1>1, <3>2
      <4>2. task'[c].said = "ok"
        BY <3>1, <3>2
      <4> QED
        BY <3>1, <4>1, <4>2
    <3>3. CASE task[c].pc # Len(Steps(c))
      BY <3>1, <3>3
    <3> QED
      BY <3>2, <3>3
  <2>2. CASE Tell(c, "failed")
    BY <2>2, TellMoves DEF Verdicts
  <2>3. CASE step = "convert" /\ task' = [task EXCEPT ![c].reloaded = TRUE]
    BY <2>3, ReloadMoves
  <2> QED
    BY <2>1, <2>2, <2>3
<1>3. OutgoingTypeOK'
  BY <1>2 DEF SaidInv, OutgoingTypeOK, Moves, Tasks, Otid
<1>4. ASSUME NEW d \in Calls \ {c} PROVE Fine(d)' /\ Corrects(d)'
  <2>1. Bystands(d)
    BY <1>2 DEF Bystands, Moves
  <2>2. \A x, y \in Calls : Hears(x, y)' <=> Hears(x, y)
    BY DEF Hears
  <2> QED
    BY <2>1, <2>2, BystanderFine, BystanderCorrects
<1>5. Fine(c)' /\ Corrects(c)'
  <2>1. Fine(c) /\ Corrects(c)
    BY DEF SaidInv
  <2>2. Fine(c)'
    BY <1>1, <1>2, <2>1 DEF Fine
  <2>3. Corrects(c)'
    BY <1>1, <2>1 DEF Corrects, Hears
  <2> QED
    BY <2>2, <2>3
<1> QED
  BY <1>3, <1>4, <1>5 DEF SaidInv

LEMMA PostSaid ==
  ASSUME SaidInv, NEW c \in Calls, Post(c)
  PROVE  SaidInv'
<1>1. /\ At(c, "post")
      /\ UNCHANGED <<work, tasks, listening, heard, extras, excused>>
      /\ \/ PostAgain(c) /\ posted' = posted
         \/ posted' = posted \cup {Otid(c)} /\ (PostAgain(c) \/ Tell(c, "sent") \/ Tell(c, "unsure"))
         \/ Otid(c) \notin posted /\ posted' = posted /\ (Tell(c, "rejected") \/ Tell(c, "unsure"))
  BY DEF Post, worldVars, editVars
<1>2. /\ Moves(c)
      /\ \/ task'[c].pc = task[c].pc /\ task'[c].said = "nothing"
         \/ task'[c].said \in {"failed", "unsure"}
         \/ task'[c].said = "sent" /\ Otid(c) \in posted'
         \/ task'[c].said = "rejected" /\ Otid(c) \notin posted'
  <2>1. CASE PostAgain(c)
    BY <1>1, <2>1, PostAgainMoves
  <2>2. CASE \E what \in {"sent", "unsure", "rejected"} : Tell(c, what)
    <3>1. ASSUME NEW what \in {"sent", "unsure", "rejected"}, Tell(c, what)
          PROVE  Moves(c) /\ task'[c].said = what
      <4>1. what \in Verdicts \ {"nothing"}
        BY DEF Verdicts
      <4> QED
        BY <1>1, <3>1, <4>1, TellMoves
    <3> QED
      BY <1>1, <2>1, <2>2, <3>1
  <2> QED
    BY <1>1, <2>1, <2>2
<1>3. \A d \in Calls \ {c} : Otid(d) # Otid(c) /\ (Otid(d) \in posted' <=> Otid(d) \in posted)
  BY <1>1 DEF Otid
<1>4. OutgoingTypeOK'
  <2>1. \A o \in posted' : \E d \in Calls : o = Otid(d)
    BY <1>1 DEF SaidInv, OutgoingTypeOK
  <2> QED
    BY <1>1, <1>2, <2>1 DEF SaidInv, OutgoingTypeOK, Moves, Tasks, Otid
<1>5. \A x, y \in Calls : Hears(x, y)' <=> Hears(x, y)
  BY <1>1 DEF Hears
<1>6. ASSUME NEW d \in Calls \ {c} PROVE Fine(d)' /\ Corrects(d)'
  <2>1. Bystands(d)
    BY <1>1, <1>2, <1>3 DEF Bystands, Moves
  <2> QED
    BY <1>1, <1>5, <2>1, BystanderFine, BystanderCorrects
<1>7. Fine(c)' /\ Corrects(c)'
  <2>1. Fine(c) /\ Corrects(c) /\ task[c].said = "nothing"
    BY <1>1 DEF SaidInv, At
  <2>2. Fine(c)'
    <3>1. Otid(c)' = Otid(c)
      BY DEF Otid
    <3> QED
      BY <1>1, <1>2, <1>5, <2>1, <3>1 DEF Fine
  <2>3. Corrects(c)'
    BY <1>1, <1>2, <1>5, <2>1 DEF Corrects
  <2> QED
    BY <2>2, <2>3
<1> QED
  BY <1>4, <1>6, <1>7 DEF SaidInv

\* The tasks that are no edits: asked for, attempted or sealed.
Does(c, step) ==
  /\ At(c, step)
  /\ \/ Perform(c) /\ (Advance(c) \/ Tell(c, "failed"))
     \/ tasks' = tasks /\ (Tell(c, "failed") \/ (step = "try" /\ Advance(c)))
  /\ UNCHANGED <<work, posted, listening, heard, extras, excused>>

LEMMA TaskSaid ==
  ASSUME SaidInv, NEW c \in Calls, NEW step \in {"ask", "try", "seal"}, Does(c, step)
  PROVE  SaidInv'
<1> USE DEF Does
<1>1. /\ task[c].said = "nothing" /\ work[c] \in DOMAIN Handlers /\ work[c] # "edit"
      /\ work[c] = "sealeddelete" => step = "ask" /\ Len(Steps(c)) = 2
      /\ task[c].pc \in Nat
  BY AtStep, EditSteps
<1>2. tasks \in [Calls -> Nat]
  BY DEF SaidInv, OutgoingTypeOK
<1>3. /\ tasks' \in [Calls -> Nat] /\ \A d \in Calls \ {c} : tasks'[d] = tasks[d]
      /\ tasks'[c] = tasks[c] \/ (tasks'[c] = tasks[c] + 1 /\ Perform(c))
  BY <1>2 DEF Perform
<1>4. Advance(c) => /\ Moves(c) /\ task'[c].pc = task[c].pc + 1
                    /\ task'[c].said = IF task[c].pc = Len(Steps(c)) THEN "ok" ELSE "nothing"
  BY AdvanceMoves
<1>5. Tell(c, "failed") => Moves(c) /\ task'[c].said = "failed"
  BY TellMoves DEF Verdicts
<1>6. Moves(c) /\ task'[c].said \in {"nothing", "ok", "failed"}
  BY <1>4, <1>5
<1>7. OutgoingTypeOK'
  BY <1>3, <1>6 DEF SaidInv, OutgoingTypeOK, Moves, Tasks, Otid
<1>8. \A x, y \in Calls : Hears(x, y)' <=> Hears(x, y)
  BY DEF Hears
<1>9. ASSUME NEW d \in Calls \ {c} PROVE Fine(d)' /\ Corrects(d)'
  <2>1. Bystands(d)
    BY <1>3, <1>6 DEF Bystands, Moves
  <2> QED
    BY <1>8, <2>1, BystanderFine, BystanderCorrects
<1>10. Fine(c)'
  <2>1. ASSUME work[c] = "sealeddelete"
        PROVE  /\ task'[c].said = "nothing" => tasks'[c] = task'[c].pc - 1
               /\ task'[c].said = "ok" => tasks'[c] = 2
    <3>1. tasks[c] = task[c].pc - 1
      BY <1>1, <2>1 DEF SaidInv, Fine
    <3>2. CASE Tell(c, "failed")
      BY <1>5, <3>2
    <3>3. CASE Perform(c) /\ Advance(c)
      <4>1. tasks'[c] = tasks[c] + 1
        BY <1>2, <3>3 DEF Perform
      <4>2. CASE task[c].pc = 2
        BY <1>1, <1>4, <2>1, <3>1, <3>3, <4>1, <4>2
      <4>3. CASE task[c].pc # 2
        <5>1. task'[c].pc = task[c].pc + 1 /\ task'[c].said = "nothing"
          BY <1>1, <1>4, <2>1, <3>3, <4>3
        <5> QED
          BY <1>1, <1>2, <3>1, <4>1, <5>1
      <4> QED
        BY <4>2, <4>3
    <3> QED
      BY <1>1, <2>1, <3>2, <3>3
  <2> QED
    BY <1>1, <1>6, <2>1 DEF Fine
<1>11. Corrects(c)'
  BY <1>1, <1>8 DEF SaidInv, Corrects
<1> QED
  BY <1>7, <1>9, <1>10, <1>11 DEF SaidInv

\* An edit that waits is not one of the others only when it is the one that acts.
LEMMA OthersWait ==
  ASSUME SaidInv, NEW c \in Calls, NEW d \in Calls \ {c},
         work[d] = "edit", task[d].said = "nothing", task[d].pc >= 5
  PROVE  d \in Others(c)
<1>1. task[d].pc \in 1 .. 6 /\ Steps(d) = <<"login", "plain", "convert", "listen", "askedit", "correct">>
  <2>1. task[d].pc \in 1 .. Len(Steps(d))
    BY DEF SaidInv, OutgoingTypeOK
  <2>2. Steps(d) = <<"login", "plain", "convert", "listen", "askedit", "correct">>
    BY StepsOfHandlers DEF Steps
  <2>3. Len(Steps(d)) = 6
    BY <2>2
  <2> QED
    BY <2>1, <2>2, <2>3
<1>2. Steps(d)[task[d].pc] \in {"askedit", "correct"}
  BY <1>1
<1> QED
  BY <1>2 DEF Others, At

LEMMA ListenSaid ==
  ASSUME SaidInv, NEW c \in Calls, Listen(c)
  PROVE  SaidInv'
<1>1. /\ At(c, "listen") /\ Advance(c) /\ listening' = c /\ excused' = excused \cup Others(c)
      /\ UNCHANGED <<work, posted, tasks, heard, extras>>
  BY DEF Listen, worldVars
<1>2. work[c] = "edit" /\ task[c].pc = 4 /\ task[c].said = "nothing" /\ Len(Steps(c)) = 6
  BY <1>1, AtStep, EditSteps
<1>3. Moves(c) /\ task'[c].pc = 5 /\ task'[c].said = "nothing"
  <2>1. /\ Moves(c) /\ task'[c].pc = task[c].pc + 1
        /\ task'[c].said = IF task[c].pc = Len(Steps(c)) THEN "ok" ELSE "nothing"
    BY <1>1, AdvanceMoves
  <2> QED
    BY <1>2, <2>1
<1>4. OutgoingTypeOK'
  BY <1>1, <1>3 DEF SaidInv, OutgoingTypeOK, Moves, Tasks, Otid
<1>5. \A x, y \in Calls : Hears(x, y)' <=> Hears(x, y)
  BY <1>1 DEF Hears
<1>6. ASSUME NEW d \in Calls \ {c} PROVE Fine(d)' /\ Corrects(d)'
  <2>1. Bystands(d)
    BY <1>1, <1>3 DEF Bystands, Moves
  <2>2. work[d] = "edit" /\ task[d].said = "nothing" /\ task[d].pc >= 5 => d \in excused'
    BY <1>1, OthersWait
  <2> QED
    BY <1>1, <1>5, <2>1, <2>2, BystanderFine, BystanderCorrects
<1>7. Fine(c)'
  <2>1. Fine(c)
    BY DEF SaidInv
  <2>2. tasks'[c] = 0
    BY <1>1, <1>2, <2>1 DEF Fine
  <2> QED
    BY <1>1, <1>2, <1>3, <2>2 DEF Fine
<1>8. Corrects(c)'
  BY <1>1, <1>2, <1>5 DEF SaidInv, Corrects
<1> QED
  BY <1>4, <1>6, <1>7, <1>8 DEF SaidInv

\* An edit ends: those it leaves without a channel are excused, and nothing is on its way
\* that was not.
LEMMA EditEnds ==
  ASSUME SaidInv, NEW c \in Calls, NEW step \in {"askedit", "correct"}, At(c, step),
         NEW what \in Verdicts \ {"nothing", "sent", "rejected", "ok"}, Tell(c, what),
         listening' = "nobody", excused \cup Others(c) \subseteq excused',
         UNCHANGED <<work, posted, extras>>,
         tasks' = tasks \/ (step = "askedit" /\ Perform(c)),
         \/ heard' = heard
         \/ heard[c] # << >> /\ heard' = [heard EXCEPT ![c] = Tail(@)],
         what = "confirmed" => tasks'[c] = 1,
         what = "reverted" => tasks'[c] = 0 \/ c \in excused'
  PROVE  SaidInv'
<1>1. /\ work[c] = "edit" /\ task[c].said = "nothing" /\ step = "askedit" => task[c].pc = 5
      /\ work[c] = "edit" /\ task[c].said = "nothing"
  BY AtStep, EditSteps
<1>2. Moves(c) /\ task'[c].said = what
  BY TellMoves
<1>3. /\ tasks \in [Calls -> Nat] /\ heard \in [Calls -> Seq(Pushes)]
  BY DEF SaidInv, OutgoingTypeOK
<1>4. /\ tasks' \in [Calls -> Nat] /\ \A d \in Calls \ {c} : tasks'[d] = tasks[d]
  BY <1>3 DEF Perform
<1>5. /\ heard' \in [Calls -> Seq(Pushes)] /\ \A d \in Calls \ {c} : heard'[d] = heard[d]
      /\ \A x \in Calls : Hears(c, x)' => Hears(c, x)
  <2>1. CASE heard' = heard
    BY <1>3, <2>1 DEF Hears
  <2>2. CASE heard[c] # << >> /\ heard' = [heard EXCEPT ![c] = Tail(@)]
    <3>1. /\ heard' \in [Calls -> Seq(Pushes)] /\ heard'[c] = Tail(heard[c])
          /\ \A d \in Calls \ {c} : heard'[d] = heard[d]
      BY <1>3, <2>2
    <3>2. \A k \in DOMAIN heard'[c] : k + 1 \in DOMAIN heard[c] /\ heard'[c][k] = heard[c][k + 1]
      BY <1>3, <2>2, <3>1
    <3> QED
      BY <3>1, <3>2 DEF Hears
  <2> QED
    BY <2>1, <2>2
<1>6. \A d, x \in Calls : Hears(d, x)' => Hears(d, x)
  <2>1. \A d \in Calls \ {c}, x \in Calls : Hears(d, x)' => Hears(d, x)
    BY <1>5 DEF Hears
  <2> QED
    BY <1>5, <2>1
<1>7. OutgoingTypeOK'
  BY <1>2, <1>4, <1>5 DEF SaidInv, OutgoingTypeOK, Moves, Tasks, Otid
<1>8. ASSUME NEW d \in Calls \ {c} PROVE Fine(d)' /\ Corrects(d)'
  <2>1. Bystands(d)
    BY <1>2, <1>4 DEF Bystands, Moves
  <2>2. work[d] = "edit" /\ task[d].said = "nothing" /\ task[d].pc >= 5 => d \in excused'
    BY OthersWait
  <2>3. Hears(d, d) => Hears(d, d)'
    BY <1>5 DEF Hears
  <2> QED
    BY <1>6, <2>1, <2>2, <2>3, BystanderFine, BystanderCorrects
<1>9. Fine(c)'
  BY <1>1, <1>2 DEF Fine, Verdicts
<1>10. Corrects(c)'
  <2> SUFFICES ASSUME c \in extras' \/ \E d \in Calls : Hears(d, c)'
               PROVE  work'[c] = "edit" /\ tasks'[c] = 1 /\ task'[c].said # "nothing"
    BY DEF Corrects
  <2>1. c \in extras \/ \E d \in Calls : Hears(d, c)
    BY <1>6
  <2>2. tasks[c] = 1 /\ (task[c].said # "nothing" \/ task[c].pc = 6)
    BY <2>1 DEF SaidInv, Corrects
  <2>3. step # "askedit"
    BY <1>1, <2>2
  <2> QED
    BY <1>1, <1>2, <2>2, <2>3 DEF Verdicts
<1> QED
  BY <1>7, <1>8, <1>9, <1>10 DEF SaidInv

\* The answer shows another text: the edit waits for its correction.
LEMMA EditWaits ==
  ASSUME SaidInv, NEW c \in Calls, At(c, "askedit"), Advance(c),
         UNCHANGED <<work, posted, listening, heard, excused>>,
         \/ tasks' = tasks /\ extras' \in {extras, extras \cup {"other"}}
         \/ Perform(c) /\ extras' = extras \cup {c}
  PROVE  SaidInv'
<1>1. work[c] = "edit" /\ task[c].pc = 5 /\ task[c].said = "nothing" /\ Len(Steps(c)) = 6
  BY AtStep, EditSteps
<1>2. Moves(c) /\ task'[c].pc = 6 /\ task'[c].said = "nothing"
  <2>1. /\ Moves(c) /\ task'[c].pc = task[c].pc + 1
        /\ task'[c].said = IF task[c].pc = Len(Steps(c)) THEN "ok" ELSE "nothing"
    BY AdvanceMoves
  <2> QED
    BY <1>1, <2>1
<1>3. tasks \in [Calls -> Nat] /\ tasks[c] = 0 /\ "other" \notin Calls
  BY <1>1, OutgoingAssumption DEF SaidInv, OutgoingTypeOK, Fine
<1>4. /\ tasks' \in [Calls -> Nat] /\ \A d \in Calls \ {c} : tasks'[d] = tasks[d]
      /\ tasks'[c] = 0 \/ (tasks'[c] = 1 /\ c \in extras')
      /\ c \in extras' /\ c \notin extras => tasks'[c] = 1
      /\ \A d \in Calls \ {c} : d \in extras' <=> d \in extras
      /\ extras' \subseteq Pushes
  <2>1. extras \subseteq Pushes
    BY DEF SaidInv, OutgoingTypeOK
  <2> QED
    BY <1>3, <2>1 DEF Perform, Pushes
<1>5. OutgoingTypeOK'
  BY <1>2, <1>4 DEF SaidInv, OutgoingTypeOK, Moves, Tasks, Otid
<1>6. \A x, y \in Calls : Hears(x, y)' <=> Hears(x, y)
  BY DEF Hears
<1>7. ASSUME NEW d \in Calls \ {c} PROVE Fine(d)' /\ Corrects(d)'
  <2>1. Bystands(d)
    BY <1>2, <1>4 DEF Bystands, Moves
  <2> QED
    BY <1>4, <1>6, <2>1, BystanderFine, BystanderCorrects
<1>8. Fine(c)'
  <2>1. listening = c \/ c \in excused
    BY <1>1 DEF SaidInv, Fine
  <2> QED
    BY <1>1, <1>2, <1>4, <2>1 DEF Fine
<1>9. Corrects(c)'
  <2>1. ~ (c \in extras) /\ ~ \E d \in Calls : Hears(d, c)
    BY <1>1 DEF SaidInv, Corrects
  <2> QED
    BY <1>1, <1>2, <1>4, <1>6, <2>1 DEF Corrects
<1> QED
  BY <1>5, <1>7, <1>8, <1>9 DEF SaidInv

LEMMA AskEditSaid ==
  ASSUME SaidInv, NEW c \in Calls, AskEdit(c)
  PROVE  SaidInv'
<1>1. At(c, "askedit") /\ UNCHANGED <<work, posted, heard>>
  BY DEF AskEdit, worldVars
<1>2. task[c].said = "nothing" /\ work[c] = "edit" /\ task[c].pc = 5
  BY <1>1, AtStep, EditSteps
<1>3. tasks \in [Calls -> Nat] /\ tasks[c] = 0
  BY <1>2 DEF SaidInv, OutgoingTypeOK, Fine
<1>4. ASSUME NEW what \in {"failed", "unsure"}, EndEdit(c, what), extras' = extras,
             tasks' = tasks \/ Perform(c)
      PROVE  SaidInv'
  <2>1. what \in Verdicts \ {"nothing", "sent", "rejected", "ok"} /\ what \notin {"confirmed", "reverted"}
    BY DEF Verdicts
  <2> QED
    BY <1>1, <1>4, <2>1, EditEnds DEF EndEdit
<1>5. ASSUME EndEdit(c, "confirmed"), extras' = extras, Perform(c)
      PROVE  SaidInv'
  <2>1. tasks'[c] = 1
    BY <1>3, <1>5 DEF Perform
  <2>2. "confirmed" \in Verdicts \ {"nothing", "sent", "rejected", "ok"}
    BY DEF Verdicts
  <2> QED
    BY <1>1, <1>5, <2>1, <2>2, EditEnds DEF EndEdit
<1>6. ASSUME Advance(c), UNCHANGED <<listening, excused>>,
             \/ tasks' = tasks /\ extras' \in {extras, extras \cup {"other"}}
             \/ Perform(c) /\ extras' = extras \cup {c}
      PROVE  SaidInv'
  BY <1>1, <1>6, EditWaits
<1> QED
  BY <1>4, <1>5, <1>6 DEF AskEdit

LEMMA CorrectSaid ==
  ASSUME SaidInv, NEW c \in Calls, Correct(c)
  PROVE  SaidInv'
<1>1. /\ At(c, "correct") /\ heard[c] # << >> /\ heard' = [heard EXCEPT ![c] = Tail(@)]
      /\ UNCHANGED <<work, posted, tasks, extras>>
  BY DEF Correct, worldVars
<1>2. heard \in [Calls -> Seq(Pushes)] /\ work[c] = "edit" /\ task[c].said = "nothing"
  <2>1. work[c] = "edit" /\ task[c].said = "nothing"
    BY <1>1, AtStep, EditSteps
  <2> QED
    BY <2>1 DEF SaidInv, OutgoingTypeOK
<1>3. CASE Head(heard[c]) = c
  <2>1. EndEdit(c, "confirmed")
    BY <1>3 DEF Correct
  <2>2. Hears(c, c)
    BY <1>1, <1>2, <1>3 DEF Hears
  <2>3. tasks[c] = 1
    BY <2>2 DEF SaidInv, Corrects
  <2>4. "confirmed" \in Verdicts \ {"nothing", "sent", "rejected", "ok"}
    BY DEF Verdicts
  <2> QED
    BY <1>1, <2>1, <2>3, <2>4, EditEnds DEF EndEdit
<1>4. CASE Head(heard[c]) # c
  <2>1. UNCHANGED <<task, listening, excused>>
    BY <1>4 DEF Correct
  <2>2. /\ heard' \in [Calls -> Seq(Pushes)] /\ heard'[c] = Tail(heard[c])
        /\ \A d \in Calls \ {c} : heard'[d] = heard[d]
        /\ \A k \in DOMAIN heard'[c] : k + 1 \in DOMAIN heard[c] /\ heard'[c][k] = heard[c][k + 1]
    BY <1>1, <1>2
  <2>3. \A d, x \in Calls : Hears(d, x)' => Hears(d, x)
    BY <2>2 DEF Hears
  <2>4. \A d \in Calls \ {c} : Hears(d, d) => Hears(d, d)'
    BY <2>2 DEF Hears
  <2>5. Hears(c, c) => Hears(c, c)'
    <3> SUFFICES ASSUME NEW k \in DOMAIN heard[c], heard[c][k] = c PROVE Hears(c, c)'
      BY DEF Hears
    <3>1. heard[c] \in Seq(Pushes) /\ k # 1
      BY <1>1, <1>2, <1>4
    <3>2. k - 1 \in DOMAIN heard'[c] /\ heard'[c][k - 1] = c
      BY <1>1, <2>2, <3>1
    <3> QED
      BY <3>2 DEF Hears
  <2>6. OutgoingTypeOK'
    BY <1>1, <2>1, <2>2 DEF SaidInv, OutgoingTypeOK, Otid, Steps
  <2>7. \A d \in Calls : Bystands(d)
    BY <1>1, <2>1 DEF Bystands
  <2>8. \A d \in Calls : Fine(d)' /\ Corrects(d)'
    BY <1>1, <2>1, <2>3, <2>4, <2>5, <2>7, BystanderFine, BystanderCorrects
  <2> QED
    BY <2>6, <2>8 DEF SaidInv
<1> QED
  BY <1>3, <1>4

LEMMA RevertSaid ==
  ASSUME SaidInv, NEW c \in Calls, Revert(c)
  PROVE  SaidInv'
<1>1. /\ At(c, "correct") /\ Tell(c, "reverted") /\ listening' = "nobody"
      /\ excused' = excused \cup Others(c) \cup ({c} \cap (extras \cup {heard[c][k] : k \in DOMAIN heard[c]}))
      /\ UNCHANGED <<work, posted, tasks, heard, extras>>
  BY DEF Revert, worldVars
<1>2. task[c].said = "nothing" /\ work[c] = "edit" /\ task[c].pc = 6
  BY <1>1, AtStep, EditSteps
<1>3. tasks[c] = 0 \/ c \in excused \/ c \in extras \/ Hears(c, c)
  BY <1>2 DEF SaidInv, Fine
<1>4. tasks'[c] = 0 \/ c \in excused'
  BY <1>1, <1>3 DEF Hears
<1>5. "reverted" \in Verdicts \ {"nothing", "sent", "rejected", "ok"}
  BY DEF Verdicts
<1> QED
  BY <1>1, <1>4, <1>5, EditEnds

LEMMA AbandonSaid ==
  ASSUME SaidInv, NEW c \in Calls, Abandon(c)
  PROVE  SaidInv'
<1>1. UNCHANGED <<work, posted, tasks, heard, extras>>
  BY DEF Abandon, worldVars
<1>2. CASE At(c, "correct") /\ EndEdit(c, "failed")
  <2>1. "failed" \in Verdicts \ {"nothing", "sent", "rejected", "ok"}
    BY DEF Verdicts
  <2> QED
    BY <1>1, <1>2, <2>1, EditEnds DEF EndEdit
<1>3. CASE At(c, "post") /\ Tell(c, "failed") /\ UNCHANGED <<listening, excused>>
  <2>1. Moves(c) /\ task'[c].said = "failed" /\ task[c].said = "nothing"
    BY <1>1, <1>3, TellMoves DEF Verdicts, At
  <2>2. OutgoingTypeOK'
    BY <1>1, <1>3, <2>1 DEF SaidInv, OutgoingTypeOK, Moves, Tasks, Otid
  <2>3. \A x, y \in Calls : Hears(x, y)' <=> Hears(x, y)
    BY <1>1 DEF Hears
  <2>4. ASSUME NEW d \in Calls \ {c} PROVE Fine(d)' /\ Corrects(d)'
    <3>1. Bystands(d)
      BY <1>1, <1>3, <2>1 DEF Bystands, Moves
    <3> QED
      BY <1>1, <1>3, <2>3, <3>1, BystanderFine, BystanderCorrects
  <2>5. Fine(c)'
    BY <2>1 DEF Fine
  <2>6. Corrects(c)'
    BY <1>1, <2>1, <2>3 DEF SaidInv, Corrects
  <2> QED
    BY <2>2, <2>4, <2>5, <2>6 DEF SaidInv
<1> QED
  BY <1>2, <1>3 DEF Abandon

LEMMA HearPushSaid ==
  ASSUME SaidInv, NEW x \in Pushes, HearPush(x)
  PROVE  SaidInv'
<1>1. /\ x \in extras /\ extras' = extras \ {x}
      /\ UNCHANGED <<work, task, posted, tasks, listening>>
  BY DEF HearPush, worldVars
<1>2. heard \in [Calls -> Seq(Pushes)] /\ listening \in Calls \cup {"nobody"} /\ extras \subseteq Pushes
  BY DEF SaidInv, OutgoingTypeOK
<1>3. CASE listening # "nobody" /\ Len(heard[listening]) < ChannelCap
  <2>1. heard' = [heard EXCEPT ![listening] = Append(@, x)] /\ excused' = excused /\ listening \in Calls
    BY <1>2, <1>3 DEF HearPush
  <2>2. /\ heard' \in [Calls -> Seq(Pushes)] /\ heard'[listening] = Append(heard[listening], x)
        /\ \A d \in Calls \ {listening} : heard'[d] = heard[d]
    BY <1>2, <2>1
  <2>3. /\ \A k \in DOMAIN heard[listening] : /\ k \in DOMAIN heard'[listening]
                                              /\ heard'[listening][k] = heard[listening][k]
        /\ \A k \in DOMAIN heard'[listening] :
             \/ heard'[listening][k] = x
             \/ k \in DOMAIN heard[listening] /\ heard'[listening][k] = heard[listening][k]
        /\ Len(heard'[listening]) \in DOMAIN heard'[listening]
        /\ heard'[listening][Len(heard'[listening])] = x
    <3> DEFINE q == heard[listening]
    <3>1. q \in Seq(Pushes) /\ heard'[listening] = Append(q, x)
      BY <1>2, <2>1, <2>2
    <3> HIDE DEF q
    <3>2. /\ \A k \in DOMAIN q : k \in DOMAIN Append(q, x) /\ Append(q, x)[k] = q[k]
          /\ \A k \in DOMAIN Append(q, x) : Append(q, x)[k] = x \/ (k \in DOMAIN q /\ Append(q, x)[k] = q[k])
          /\ Len(Append(q, x)) \in DOMAIN Append(q, x) /\ Append(q, x)[Len(Append(q, x))] = x
      BY <3>1
    <3> QED
      BY <3>1, <3>2 DEF q
  <2>4. \A d, y \in Calls : (Hears(d, y) => Hears(d, y)') /\ (Hears(d, y)' => Hears(d, y) \/ y = x)
    <3>1. \A d \in Calls \ {listening}, y \in Calls : Hears(d, y) <=> Hears(d, y)'
      BY <2>2 DEF Hears
    <3>2. \A y \in Calls : /\ Hears(listening, y) => Hears(listening, y)'
                           /\ Hears(listening, y)' => Hears(listening, y) \/ y = x
      BY <1>1, <2>3 DEF Hears
    <3> SUFFICES ASSUME NEW d \in Calls, NEW y \in Calls
                 PROVE  (Hears(d, y) => Hears(d, y)') /\ (Hears(d, y)' => Hears(d, y) \/ y = x)
      OBVIOUS
    <3>3. CASE d = listening
      <4>1. d' = d /\ listening' = listening
        BY <1>1
      <4> QED
        BY <1>1, <2>3, <3>3 DEF Hears
    <3>4. CASE d # listening
      BY <3>1, <3>4
    <3> QED
      BY <3>3, <3>4
  <2>5. Hears(listening, x)'
    BY <1>1, <2>3 DEF Hears
  <2>6. OutgoingTypeOK'
    BY <1>1, <1>2, <2>2 DEF SaidInv, OutgoingTypeOK, Otid, Steps
  <2>7. ASSUME NEW d \in Calls PROVE Fine(d)' /\ Corrects(d)'
    <3>1. Bystands(d)
      BY <1>1, <2>1 DEF Bystands
    <3>2. Corrects(d)'
      BY <1>1, <2>4, <3>1, BystanderCorrects
    <3>3. CASE d # x \/ d = listening
      <4>1. (d \in extras \/ Hears(d, d)) => (d \in extras' \/ Hears(d, d)')
        BY <1>1, <2>4, <2>5, <3>3
      <4> QED
        BY <1>1, <3>1, <3>2, <4>1, BystanderFine
    <3>4. CASE d = x /\ d # listening
      <4>1. Fine(d) /\ work[d] = "edit" /\ tasks[d] = 1 /\ task[d].pc \in Nat
        BY <1>1, <3>4 DEF SaidInv, Corrects, OutgoingTypeOK
      <4>2. task[d].said = "nothing" => d \in excused
        BY <1>1, <3>4, <4>1 DEF SaidInv, Corrects, Fine
      <4> QED
        BY <1>1, <2>1, <3>2, <4>1, <4>2 DEF Fine, Otid
    <3> QED
      BY <3>3, <3>4
  <2> QED
    BY <2>6, <2>7 DEF SaidInv
<1>4. CASE ~ (listening # "nobody" /\ Len(heard[listening]) < ChannelCap)
  <2>1. /\ heard' = heard
        /\ excused' = IF listening # "nobody" THEN excused \cup {x} ELSE excused
    BY <1>4 DEF HearPush
  <2>2. \A d, y \in Calls : Hears(d, y) <=> Hears(d, y)'
    BY <2>1 DEF Hears
  <2>3. OutgoingTypeOK'
    BY <1>1, <1>2, <2>1 DEF SaidInv, OutgoingTypeOK, Otid, Steps
  <2>4. ASSUME NEW d \in Calls PROVE Fine(d)' /\ Corrects(d)'
    <3>1. Bystands(d)
      BY <1>1, <2>1 DEF Bystands
    <3>2. Corrects(d)'
      BY <1>1, <2>2, <3>1, BystanderCorrects
    <3>3. CASE d # x
      BY <1>1, <2>2, <3>1, <3>2, <3>3, BystanderFine
    <3>4. CASE d = x
      <4>1. Fine(d) /\ work[d] = "edit" /\ tasks[d] = 1 /\ task[d].pc \in Nat
        BY <1>1, <3>4 DEF SaidInv, Corrects, OutgoingTypeOK
      <4>2. task[d].said = "nothing" => d \in excused'
        <5>1. task[d].said = "nothing" => listening = d \/ d \in excused
          BY <1>1, <3>4, <4>1 DEF SaidInv, Corrects, Fine
        <5>2. d # "nobody"
          BY OutgoingAssumption
        <5> QED
          BY <2>1, <3>4, <5>1, <5>2
      <4> QED
        BY <1>1, <2>1, <3>2, <4>1, <4>2 DEF Fine, Otid
    <3> QED
      BY <3>3, <3>4
  <2> QED
    BY <2>3, <2>4 DEF SaidInv
<1> QED
  BY <1>3, <1>4

LEMMA QuietSaid ==
  ASSUME SaidInv, UNCHANGED <<work, task, posted, tasks, listening, heard, extras, excused>>
  PROVE  SaidInv'
BY DEF SaidInv, OutgoingTypeOK, Fine, Corrects, Hears, Otid, Steps

LEMMA InitSaid == OutgoingInit => SaidInv
<1> SUFFICES ASSUME OutgoingInit PROVE SaidInv
  OBVIOUS
<1>1. work \in [Calls -> DOMAIN Handlers]
  BY OutgoingAssumption DEF OutgoingInit
<1>2. \A h \in DOMAIN Handlers : 1 \in 1 .. Len(Handlers[h])
  <2>1. \A h \in DOMAIN Handlers \ {"edit", "sealeddelete"} : Len(Handlers[h]) \in {1, 3, 4}
    <3> SUFFICES ASSUME NEW h \in DOMAIN Handlers \ {"edit", "sealeddelete"} PROVE Len(Handlers[h]) \in {1, 3, 4}
      OBVIOUS
    <3>1. Handlers[h] \in {<<"login", "plain", "convert", "post">>, <<"login", "sealed", "convert", "seal">>,
                           <<"login", "plain", "ask">>, <<"login", "sealed", "seal">>,
                           <<"login", "try", "try">>, <<"ask">>, <<"seal">>, <<"convert", "convert", "ask">>}
      BY StepsOfHandlers
    <3> QED
      BY <3>1
  <2>2. Len(Handlers["edit"]) = 6 /\ Len(Handlers["sealeddelete"]) = 2
    BY StepsOfHandlers
  <2>3. ASSUME NEW h \in DOMAIN Handlers PROVE Len(Handlers[h]) \in {1, 2, 3, 4, 6}
    <3>1. CASE h = "edit"
      BY <2>2, <3>1
    <3>2. CASE h = "sealeddelete"
      BY <2>2, <3>2
    <3>3. CASE h \notin {"edit", "sealeddelete"}
      BY <2>1, <3>3
    <3> QED
      BY <3>1, <3>2, <3>3
  <2>4. \A n \in {1, 2, 3, 4, 6} : 1 \in 1 .. n
    OBVIOUS
  <2> QED
    BY <2>3, <2>4, Zenon
<1>3. \A c \in Calls : /\ task[c] = [pc |-> 1, tries |-> 0, reloaded |-> FALSE, said |-> "nothing"]
                       /\ tasks[c] = 0 /\ heard[c] = << >>
  BY DEF OutgoingInit
<1>4. OutgoingTypeOK
  <2>1. task \in [Calls -> Tasks] /\ tasks \in [Calls -> Nat] /\ heard \in [Calls -> Seq(Pushes)]
    BY DEF OutgoingInit, Tasks, Verdicts
  <2>2. \A c \in Calls : task[c].pc \in 1 .. Len(Steps(c))
    BY <1>1, <1>2, <1>3 DEF Steps
  <2> QED
    BY <1>1, <2>1, <2>2 DEF OutgoingInit, OutgoingTypeOK, Tasks
<1>5. \A c \in Calls : Fine(c) /\ Corrects(c)
  <2> SUFFICES ASSUME NEW c \in Calls PROVE Fine(c) /\ Corrects(c)
    OBVIOUS
  <2>1. task[c].said = "nothing" /\ task[c].pc = 1 /\ tasks[c] = 0
    BY <1>3
  <2>2. c \notin extras /\ \A d \in Calls : ~ Hears(d, c)
    BY <1>3 DEF OutgoingInit, Hears
  <2> QED
    BY <2>1, <2>2 DEF Fine, Corrects
<1> QED
  BY <1>4, <1>5 DEF SaidInv

LEMMA NextSaid == SaidInv /\ [OutgoingNext]_outgoingVars => SaidInv'
<1> SUFFICES ASSUME SaidInv, [OutgoingNext]_outgoingVars PROVE SaidInv'
  OBVIOUS
<1>1. ASSUME NEW c \in Calls, Login(c) PROVE SaidInv'
  <2>1. Prepares(c, "login")
    BY <1>1 DEF Prepares, Login, worldVars, editVars
  <2>2. "login" \in {"login", "plain", "sealed", "convert"}
    OBVIOUS
  <2> QED
    BY <2>1, <2>2, PrepareSaid
<1>2. ASSUME NEW c \in Calls, Convert(c) PROVE SaidInv'
  <2>1. Prepares(c, "convert")
    BY <1>2 DEF Prepares, Convert, Converted, worldVars, editVars
  <2>2. "convert" \in {"login", "plain", "sealed", "convert"}
    OBVIOUS
  <2> QED
    BY <2>1, <2>2, PrepareSaid
<1>3. ASSUME NEW c \in Calls, NEW which \in {"plain", "sealed"}, Await(c, which) PROVE SaidInv'
  <2>1. Prepares(c, which)
    BY <1>3 DEF Prepares, Await, worldVars, editVars
  <2>2. which \in {"login", "plain", "sealed", "convert"}
    OBVIOUS
  <2> QED
    BY <2>1, <2>2, PrepareSaid
<1>4. ASSUME NEW c \in Calls, AskTask(c) PROVE SaidInv'
  <2>1. Does(c, "ask")
    BY <1>4 DEF Does, AskTask, worldVars, editVars
  <2>2. "ask" \in {"ask", "try", "seal"}
    OBVIOUS
  <2> QED
    BY <2>1, <2>2, TaskSaid
<1>5. ASSUME NEW c \in Calls, Attempt(c) PROVE SaidInv'
  <2>1. Does(c, "try")
    BY <1>5 DEF Does, Attempt, worldVars, editVars
  <2>2. "try" \in {"ask", "try", "seal"}
    OBVIOUS
  <2> QED
    BY <2>1, <2>2, TaskSaid
<1>6. ASSUME NEW c \in Calls, SendSealed(c) PROVE SaidInv'
  <2>1. Does(c, "seal")
    BY <1>6 DEF Does, SendSealed, worldVars, editVars
  <2>2. "seal" \in {"ask", "try", "seal"}
    OBVIOUS
  <2> QED
    BY <2>1, <2>2, TaskSaid
<1>7. CASE Turn
  BY <1>7, QuietSaid DEF Turn, editVars
<1>8. CASE UNCHANGED outgoingVars
  BY <1>8, QuietSaid DEF outgoingVars
<1>9. ASSUME NEW x \in Pushes, HearPush(x) PROVE SaidInv'
  BY <1>9, HearPushSaid
<1> QED
  BY <1>1, <1>2, <1>3, <1>4, <1>5, <1>6, <1>7, <1>8, <1>9, PostSaid, ListenSaid, AskEditSaid,
     CorrectSaid, RevertSaid, AbandonSaid DEF OutgoingNext, Pushes

\* What the user is told is so (HandleMatrixMessage, HandleMatrixEdit,
\* HandleMatrixDeleteChat): a message is posted once at most, whatever attempts were lost;
\* sent and rejected, confirmed and reverted, and a finished deletion mean what they say.
THEOREM TheUserIsToldWhatIsSo == OutgoingSpec => []SaidIsSo
<1>1. SaidInv => SaidIsSo
  <2> SUFFICES ASSUME SaidInv, NEW c \in Calls
               PROVE  LET mine == {o \in posted : o[1] = c}
                          said == task[c].said
                      IN  /\ Cardinality(mine) <= 1
                          /\ said = "sent" => mine # {}
                          /\ said = "rejected" => mine = {}
                          /\ said = "confirmed" => tasks[c] = 1
                          /\ said = "reverted" => tasks[c] = 0 \/ c \in excused
                          /\ said = "ok" /\ work[c] = "sealeddelete" => tasks[c] = 2
    BY DEF SaidIsSo
  <2> DEFINE mine == {o \in posted : o[1] = c}
  <2>1. mine = posted \cap {Otid(c)}
    BY DEF SaidInv, OutgoingTypeOK, Otid
  <2>2. Cardinality(mine) <= 1
    <3>1. mine = {} \/ mine = {Otid(c)}
      BY <2>1
    <3>2. Cardinality({}) = 0 /\ Cardinality({Otid(c)}) = 1
      BY FS_EmptySet, FS_Singleton
    <3> QED
      BY <3>1, <3>2
  <2>3. Fine(c)
    BY DEF SaidInv
  <2> HIDE DEF mine
  <2>4. /\ task[c].said = "sent" => mine # {}
        /\ task[c].said = "rejected" => mine = {}
    BY <2>1, <2>3 DEF Fine
  <2> QED
    BY <2>2, <2>3, <2>4 DEF Fine, mine
<1> QED
  BY <1>1, InitSaid, NextSaid, PTL DEF OutgoingSpec

-----------------------------------------------------------------------------
(* The login: its invariant. *)

Pcs == {"idle", "connect", "make", "sleep", "load", "check", "cached", "join", "raise", "drop", "close", "unloop"}
Connecting == {"make", "sleep", "load", "check", "cached", "join", "raise"}
Callers == {"start", "again"}
Other(k) == IF k = "start" THEN "again" ELSE "start"
Place == Nat \cup {None}
Call == [pc : Pcs, n : 0 .. MaxRetries, cancelled : BOOLEAN, held : Place]
Loop == [is : {"gone", "new", "on", "over"}, t : Place]

CallTypes ==
  /\ run \in [Goroutines -> Call]
  /\ run["start"].pc \notin {"drop", "close", "unloop"}
  /\ run["stop"].pc \in {"idle", "drop", "close", "unloop"}
  /\ lock \in {"free", "start", "again"} /\ attempt \in {"nobody", "start", "again"}
  /\ refused \in BOOLEAN

OwnerTypes ==
  /\ wants \in {"up", "down"} /\ calm \in BOOLEAN
  /\ wants = "up" => Idle("stop")

ConnTypes ==
  /\ client \in {"nil", "made", "on", "dead"} /\ conn \in {"off", "dial", "syncing", "up"}
  /\ told \in {"nothing", "connecting", "connected", "transient", "bad", "unknown"}
  /\ armed \subseteq {"new", "armed"}
  /\ device \in {"none", "fresh", "kept"} /\ sealed \in {"nil", "dial", "up", "lost", "ended"}
  /\ conn # "off" => client = "on"

MarkTypes ==
  /\ sent \in Nat /\ cursor \in 0 .. sent /\ from \in 0 .. sent
  /\ saved \in Place /\ saved <= sent /\ run["stop"].held <= sent

ReadTypes ==
  /\ pushes \in Seq(Nat) /\ \A i \in DOMAIN pushes : pushes[i] <= sent
  /\ got \in [t : Place, fetched : BOOLEAN] /\ got.t <= sent /\ (got.fetched => got.t \in Nat)

QueueTypes ==
  /\ queue \in Seq(Nat) /\ \A i \in DOMAIN queue : queue[i] <= sent
  /\ Len(queue) <= QueueCap

LoopTypes ==
  /\ loops \in [Loops -> Loop] /\ \A l \in Loops : loops[l].t <= sent
  /\ current \in Loops \cup {None}
  /\ done \subseteq 0 .. sent

TableTypes == ReadTypes /\ QueueTypes /\ LoopTypes

\* One call connects at a time, and only such a one can be told to stop.
Alone ==
  /\ \A k \in Goroutines : run[k].pc \in Connecting => lock = k
  /\ \A k \in Goroutines : attempt = k \/ run[k].cancelled => run[k].pc \in Connecting

\* A call that was told to stop, or that lost its client behind its back, has
\* somebody behind it who goes on, or who met it and left it to that.
Answered ==
  wants = "up" => \A k \in Callers :
    /\ run[k].cancelled => refused \/ ~ Idle(Other(k))
    /\ run[k].pc = "raise" => client = "on" \/ told \in {"bad", "unknown"} \/ refused \/ ~ Idle(Other(k))

\* The loop that handles tables can be stopped.
OneLoop == \A l \in Loops : loops[l].is = "on" => current = l

\* What a stop that met nobody has done away with so far.
Quiet ==
  /\ Idle("start") /\ Idle("again") /\ "new" \notin armed /\ \A l \in Loops : loops[l].is # "new"
  /\ run["stop"].pc \in {"unloop", "idle"} => client = "nil" /\ conn = "off" /\ sealed = "nil"
  /\ Idle("stop") => armed = {} /\ \A l \in Loops : loops[l].is # "on"
Calmed == calm /\ wants = "down" => Quiet

\* No table up to here is forgotten.
Covered(c) == \A n \in 1 .. sent : from < n /\ n <= c => n \in done \cup lost \cup Pipeline
AllCovered == \A c \in Cursors \cup Counted : Covered(c)

LoginTypeOK == CallTypes /\ OwnerTypes /\ ConnTypes /\ MarkTypes /\ TableTypes

LoginInv == LoginTypeOK /\ Alone /\ Answered /\ StandsStillOnlySaid /\ OneLoop /\ Calmed /\ AllCovered

-----------------------------------------------------------------------------
(* How a goroutine moves. *)

LEMMA GoMoves ==
  ASSUME run \in [Goroutines -> Call], NEW k \in Goroutines, NEW pc \in Pcs, Go(k, pc)
  PROVE  /\ run' \in [Goroutines -> Call] /\ \A o \in Goroutines \ {k} : run'[o] = run[o]
         /\ run'[k].pc = pc /\ run'[k].n = run[k].n
         /\ run'[k].cancelled = run[k].cancelled /\ run'[k].held = run[k].held
<1> DEFINE c == [run[k] EXCEPT !.pc = pc]
<1>1. run[k] \in Call
  OBVIOUS
<1>2. /\ c \in Call /\ c.pc = pc /\ c.n = run[k].n
      /\ c.cancelled = run[k].cancelled /\ c.held = run[k].held
  BY <1>1 DEF Call
<1>3. run' = [run EXCEPT ![k] = c]
  BY DEF Go
<1> HIDE DEF c
<1> QED
  BY <1>2, <1>3

LEMMA LeaveMoves ==
  ASSUME run \in [Goroutines -> Call], NEW k \in Goroutines, run' = [run EXCEPT ![k] = Resting]
  PROVE  /\ run' \in [Goroutines -> Call] /\ \A o \in Goroutines \ {k} : run'[o] = run[o]
         /\ run'[k].pc = "idle" /\ run'[k].cancelled = FALSE /\ run'[k].held = None
<1>1. Resting \in Call /\ Resting.pc = "idle" /\ Resting.cancelled = FALSE /\ Resting.held = None
  BY ConnectorAssumption DEF Resting, Call, Pcs, Place
<1> HIDE DEF Resting
<1> QED
  BY <1>1

LEMMA RetryMoves ==
  ASSUME run \in [Goroutines -> Call], NEW k \in Goroutines, run[k].n < MaxRetries,
         run' = [run EXCEPT ![k].pc = "make", ![k].n = @ + 1]
  PROVE  /\ run' \in [Goroutines -> Call] /\ \A o \in Goroutines \ {k} : run'[o] = run[o]
         /\ run'[k].pc = "make" /\ run'[k].cancelled = run[k].cancelled /\ run'[k].held = run[k].held
<1> DEFINE m == run[k].n + 1
           c == [run[k] EXCEPT !.pc = "make", !.n = m]
<1>1. run[k] \in Call
  OBVIOUS
<1>2. m \in 0 .. MaxRetries
  BY <1>1, ConnectorAssumption DEF Call
<1>3. run' = [run EXCEPT ![k] = c]
  OBVIOUS
<1> HIDE DEF m
<1>4. /\ c \in Call /\ c.pc = "make"
      /\ c.cancelled = run[k].cancelled /\ c.held = run[k].held
  BY <1>1, <1>2 DEF Call, Pcs
<1> HIDE DEF c
<1> QED
  BY <1>3, <1>4

LEMMA CloseMoves ==
  ASSUME run \in [Goroutines -> Call], NEW k \in Goroutines, NEW h \in Place,
         run' = [run EXCEPT ![k].pc = "unloop", ![k].held = h]
  PROVE  /\ run' \in [Goroutines -> Call] /\ \A o \in Goroutines \ {k} : run'[o] = run[o]
         /\ run'[k].pc = "unloop" /\ run'[k].cancelled = run[k].cancelled /\ run'[k].held = h
<1> DEFINE c == [run[k] EXCEPT !.pc = "unloop", !.held = h]
<1>1. run[k] \in Call
  OBVIOUS
<1>2. run' = [run EXCEPT ![k] = c]
  OBVIOUS
<1>3. /\ c \in Call /\ c.pc = "unloop" /\ c.cancelled = run[k].cancelled /\ c.held = h
  BY <1>1 DEF Call, Pcs
<1> HIDE DEF c
<1> QED
  BY <1>2, <1>3

LEMMA DropMoves ==
  ASSUME CallTypes, NEW k \in Goroutines, Drop(k)
  PROVE  /\ run' \in [Goroutines -> Call]
         /\ run'[k].pc = "close" /\ run'[k].cancelled = run[k].cancelled /\ run'[k].held = run[k].held
         /\ \A o \in Goroutines \ {k} :
              /\ run'[o].pc = run[o].pc /\ run'[o].held = run[o].held
              /\ run'[o].cancelled = (o = attempt \/ run[o].cancelled)
<1> DEFINE c == [run[k] EXCEPT !.pc = "close"]
           d(o) == [run[o] EXCEPT !.cancelled = TRUE]
<1>1. \A o \in Goroutines : run[o] \in Call
  BY DEF CallTypes
<1>2. run' = [o \in Goroutines |-> IF o = k THEN c ELSE IF o = attempt THEN d(o) ELSE run[o]]
  BY DEF Drop
<1>3. c \in Call /\ c.pc = "close" /\ c.cancelled = run[k].cancelled /\ c.held = run[k].held
  BY <1>1 DEF Call, Pcs
<1>4. \A o \in Goroutines : d(o) \in Call /\ d(o).pc = run[o].pc /\ d(o).cancelled = TRUE /\ d(o).held = run[o].held
  BY <1>1 DEF Call
<1>5. \A o \in Goroutines : run[o].cancelled \in BOOLEAN
  BY <1>1 DEF Call
<1> HIDE DEF c, d
<1> QED
  BY <1>1, <1>2, <1>3, <1>4, <1>5

-----------------------------------------------------------------------------
(* What a step means for the calls. *)

Only(k) == run' \in [Goroutines -> Call] /\ \A o \in Goroutines \ {k} : run'[o] = run[o]

\* Nothing, as long as they are told what happened to the connection.
StandBy ==
  /\ UNCHANGED <<wants, run, lock, attempt, refused>>
  /\ (told' = told /\ client' = client) \/ client' = "on" \/ told' \in {"bad", "unknown"}

Refuses(k) ==
  /\ Only(k) /\ run[k].pc = "connect" /\ run'[k].pc = "idle" /\ run'[k].cancelled = FALSE
  /\ refused' = TRUE /\ UNCHANGED <<wants, lock, attempt>>

Enters(k) ==
  /\ Only(k) /\ run[k].pc = "connect" /\ run'[k].pc = "make" /\ run'[k].cancelled = run[k].cancelled
  /\ lock = "free" /\ lock' = k /\ attempt' = k /\ refused' = FALSE /\ wants' = wants

Advances(k) ==
  /\ Only(k) /\ run[k].pc \in Connecting /\ run'[k].pc \in Connecting
  /\ run'[k].cancelled = run[k].cancelled
  /\ run'[k].pc = "raise" => client' = "on"
  /\ UNCHANGED <<wants, lock, attempt, refused>>

\* A call leaves because of what it says, because it was told to, or behind its last step.
Leaves(k) ==
  /\ Only(k) /\ run[k].pc \in Connecting /\ run'[k].pc = "idle" /\ run'[k].cancelled = FALSE
  /\ lock' = "free" /\ attempt' = IF attempt = k THEN "nobody" ELSE attempt
  /\ \/ told' \in {"bad", "unknown"}
     \/ told' = told /\ client' = client /\ (run[k].cancelled \/ run[k].pc = "raise")
  /\ UNCHANGED <<wants, refused>>

\* disconnect
Drops(k) ==
  /\ run' \in [Goroutines -> Call] /\ run[k].pc = "drop"
  /\ run'[k].pc = "close" /\ run'[k].cancelled = run[k].cancelled
  /\ \A o \in Goroutines : run'[o].held = run[o].held
  /\ \A o \in Goroutines \ {k} :
       run'[o].pc = run[o].pc /\ run'[o].cancelled = (o = attempt \/ run[o].cancelled)
  /\ attempt' = "nobody" /\ UNCHANGED <<wants, lock, refused, told, client>>

Tears(k) ==
  /\ Only(k) /\ run[k].pc \in {"close", "unloop"} /\ run'[k].cancelled = run[k].cancelled
  /\ run'[k].pc = IF run[k].pc = "close" THEN "unloop" ELSE "connect"
  /\ k = "stop" => run[k].pc = "close" /\ Close(k)
  /\ UNCHANGED <<wants, lock, attempt, refused>>

IsStopped ==
  /\ Only("stop") /\ run["stop"].pc = "unloop"
  /\ run'["stop"].pc = "idle" /\ run'["stop"].cancelled = FALSE /\ run'["stop"].held = None
  /\ UNCHANGED <<wants, lock, attempt, refused>>

Begins(k) ==
  /\ Only(k) /\ run[k].pc = "idle" /\ run'[k].cancelled = run[k].cancelled
  /\ run'[k].pc = IF k = "start" THEN "connect" ELSE "drop"
  /\ run'[k].held = run[k].held
  /\ wants' = CASE k = "start" -> "up" [] k = "stop" -> "down" [] k = "again" -> wants
  /\ k = "start" => run["stop"].pc = "idle"
  /\ UNCHANGED <<lock, attempt, refused>>

AllRest ==
  /\ run' = [k \in Goroutines |-> Resting] /\ wants' = "down"
  /\ lock' = "free" /\ attempt' = "nobody" /\ refused' = FALSE

CallsMove ==
  \/ StandBy
  \/ \E k \in Callers : Refuses(k) \/ Enters(k) \/ Advances(k) \/ Leaves(k)
  \/ \E k \in {"stop", "again"} : Drops(k) \/ Tears(k)
  \/ IsStopped
  \/ \E k \in Goroutines : Begins(k)
  \/ AllRest

LEMMA ConnectStepMoves ==
  ASSUME LoginTypeOK, NEW k \in Callers, ConnectStep(k)
  PROVE  Refuses(k) \/ Enters(k) \/ Advances(k) \/ Leaves(k)
<1> USE DEF LoginTypeOK
<1>1. k \in Goroutines /\ run \in [Goroutines -> Call]
  BY DEF Callers, Goroutines, CallTypes
<1>2. ASSUME NEW pc \in Connecting, Go(k, pc)
      PROVE  Only(k) /\ run'[k].pc = pc /\ run'[k].cancelled = run[k].cancelled
  <2>1. pc \in Pcs
    BY <1>2 DEF Connecting, Pcs
  <2> QED
    BY <1>1, <1>2, <2>1, GoMoves DEF Only
<1>3. ASSUME Leave(k)
      PROVE  /\ Only(k) /\ run'[k].pc = "idle" /\ run'[k].cancelled = FALSE
             /\ lock' = "free" /\ attempt' = IF attempt = k THEN "nobody" ELSE attempt
  BY <1>1, <1>3, LeaveMoves DEF Only, Leave
<1>4. CASE Connect(k)
  <2>1. CASE lock # "free"
    BY <1>1, <1>4, <2>1, LeaveMoves DEF Connect, Refuses, Only, ownerVars
  <2>2. CASE lock = "free"
    <3>1. "make" \in Connecting /\ Go(k, "make")
      BY <1>4, <2>2 DEF Connect, Connecting
    <3> QED
      BY <1>2, <1>4, <2>2, <3>1 DEF Connect, Enters, ownerVars
  <2> QED
    BY <2>1, <2>2
<1>5. CASE Make(k)
  <2>0. run[k].pc \in Connecting /\ UNCHANGED <<wants, refused>>
    BY <1>5 DEF Make, Connecting, ownerVars
  <2>1. CASE client = "nil" /\ ~ cookies
    BY <1>3, <1>5, <2>0, <2>1 DEF Make, Leaves
  <2>2. CASE ~ (client = "nil" /\ ~ cookies)
    <3>1. UNCHANGED <<lock, attempt>> /\ (Go(k, "sleep") \/ Go(k, "cached") \/ Go(k, "load"))
      BY <1>5, <2>2 DEF Make
    <3>2. {"sleep", "cached", "load"} \subseteq Connecting \ {"raise"}
      BY DEF Connecting
    <3> QED
      BY <1>2, <2>0, <3>1, <3>2 DEF Advances
  <2> QED
    BY <2>1, <2>2
<1>6. CASE Sleep(k)
  <2>0. /\ run[k].pc \in Connecting /\ "load" \in Connecting
        /\ UNCHANGED <<wants, refused, told, client>>
    BY <1>6 DEF Sleep, Connecting, ownerVars, connVars
  <2>1. CASE Go(k, "load") /\ UNCHANGED <<lock, attempt>>
    BY <1>2, <2>0, <2>1 DEF Advances
  <2>2. CASE run[k].cancelled /\ Leave(k)
    BY <1>3, <2>0, <2>2 DEF Leaves
  <2> QED
    BY <1>6, <2>1, <2>2 DEF Sleep
<1>7. CASE LoadFails(k)
  <2>0. run[k].pc \in Connecting /\ UNCHANGED <<wants, refused>>
    BY <1>7 DEF LoadFails, Connecting, ownerVars
  <2>1. CASE told' \in {"bad", "unknown"} /\ Leave(k)
    BY <1>3, <2>0, <2>1 DEF Leaves
  <2>2. CASE /\ run[k].n < MaxRetries /\ UNCHANGED <<lock, attempt>>
             /\ run' = [run EXCEPT ![k].pc = "make", ![k].n = @ + 1]
    <3>1. "make" \in Connecting \ {"raise"}
      BY DEF Connecting
    <3> QED
      BY <1>1, <2>0, <2>2, <3>1, RetryMoves DEF Advances, Only
  <2> QED
    BY <1>7, <2>1, <2>2 DEF LoadFails
<1>8. CASE Unready(k)
  BY <1>3, <1>8 DEF Unready, Leaves, Connecting, ownerVars
<1>9. CASE Load(k)
  BY <1>2, <1>9 DEF Load, Advances, Connecting, ownerVars
<1>10. CASE Spawn(k)
  BY <1>2, <1>10 DEF Spawn, Advances, Connecting, ownerVars
<1>11. CASE Cancelled(k)
  BY <1>3, <1>11 DEF Cancelled, Leaves, Connecting, ownerVars, connVars
<1>12. CASE Join(k)
  <2>0. run[k].pc \in Connecting /\ "raise" \in Connecting /\ UNCHANGED <<wants, refused>>
    BY <1>12 DEF Join, Connecting, ownerVars
  <2>1. CASE told' = "unknown" /\ Leave(k)
    BY <1>3, <2>0, <2>1 DEF Leaves
  <2>2. CASE client' = "on" /\ Go(k, "raise") /\ UNCHANGED <<lock, attempt>>
    BY <1>2, <2>0, <2>2 DEF Advances
  <2> QED
    BY <1>12, <2>1, <2>2 DEF Join
<1>13. CASE Raise(k)
  BY <1>3, <1>13 DEF Raise, Leaves, Connecting, ownerVars
<1> QED
  BY <1>4, <1>5, <1>6, <1>7, <1>8, <1>9, <1>10, <1>11, <1>12, <1>13 DEF ConnectStep

LEMMA CountedTypes ==
  ASSUME LoginTypeOK
  PROVE  \A c \in Counted : c \in 0 .. sent
BY DEF LoginTypeOK, MarkTypes, TableTypes, ReadTypes, Counted, Place

LEMMA DropStepMoves ==
  ASSUME LoginTypeOK, NEW k \in {"stop", "again"}, DropStep(k)
  PROVE  Drops(k) \/ Tears(k) \/ (k = "stop" /\ IsStopped)
<1>1. k \in Goroutines /\ run \in [Goroutines -> Call] /\ CallTypes
  BY DEF LoginTypeOK, Goroutines, CallTypes
<1>2. CASE Drop(k)
  BY <1>1, <1>2, DropMoves DEF Drop, Drops, ownerVars, connVars
<1>3. CASE Close(k)
  <2>1. PICK c \in {cursor} \cup Counted :
          run' = [run EXCEPT ![k].pc = "unloop",
                             ![k].held = IF k = "stop" /\ CacheState /\ client # "nil" /\ everUp THEN c ELSE None]
    BY <1>3 DEF Close
  <2>2. c \in Nat /\ None \in Place
    <3>1. cursor \in Nat
      BY DEF LoginTypeOK, MarkTypes
    <3>2. \A x \in Counted : x \in Nat
      BY CountedTypes
    <3> QED
      BY <3>1, <3>2 DEF Place
  <2> DEFINE h == IF k = "stop" /\ CacheState /\ client # "nil" /\ everUp THEN c ELSE None
  <2>3. h \in Place
    BY <2>2 DEF Place
  <2>4. run' = [run EXCEPT ![k].pc = "unloop", ![k].held = h]
    BY <2>1
  <2> HIDE DEF h
  <2>5. Only(k) /\ run'[k].pc = "unloop" /\ run'[k].cancelled = run[k].cancelled
    BY <1>1, <2>3, <2>4, CloseMoves DEF Only
  <2> QED
    BY <1>3, <2>5 DEF Close, Tears, ownerVars
<1>4. CASE Unloop(k)
  <2>1. CASE k = "stop"
    BY <1>1, <1>4, <2>1, LeaveMoves DEF Unloop, IsStopped, Only, ownerVars
  <2>2. CASE k # "stop"
    <3>1. Go(k, "connect") /\ "connect" \in Pcs
      BY <1>4, <2>2 DEF Unloop, Pcs
    <3> QED
      BY <1>1, <1>4, <2>2, <3>1, GoMoves DEF Unloop, Tears, Only, ownerVars
  <2> QED
    BY <2>1, <2>2
<1> QED
  BY <1>2, <1>3, <1>4 DEF DropStep

LEMMA AgainBegins ==
  ASSUME LoginTypeOK, Again, UNCHANGED <<wants, lock, attempt, refused>>
  PROVE  Begins("again")
<1>1. run \in [Goroutines -> Call] /\ "again" \in Goroutines /\ "drop" \in Pcs
  BY DEF LoginTypeOK, CallTypes, Goroutines, Pcs
<1>2. Idle("again") /\ Go("again", "drop")
  BY DEF Again
<1> QED
  BY <1>1, <1>2, GoMoves DEF Begins, Only, Idle

LEMMA EveryStepMoves ==
  ASSUME LoginTypeOK, ConnectorNext
  PROVE  CallsMove
<1>1. ASSUME NEW k \in {"start", "again"}, ConnectStep(k) PROVE CallsMove
  <2>1. k \in Callers
    BY DEF Callers
  <2> QED
    BY <1>1, <2>1, ConnectStepMoves DEF CallsMove
<1>2. ASSUME NEW k \in {"stop", "again"}, DropStep(k) PROVE CallsMove
  BY <1>2, DropStepMoves DEF CallsMove
<1>3. run \in [Goroutines -> Call] /\ "connect" \in Pcs /\ "drop" \in Pcs
      /\ Goroutines = {"start", "stop", "again"}
  BY DEF LoginTypeOK, CallTypes, Goroutines, Pcs
<1>4. CASE Start
  <2>1. Idle("start") /\ Idle("stop") /\ Go("start", "connect") /\ wants' = "up"
        /\ UNCHANGED <<lock, attempt, refused>>
    BY <1>4 DEF Start
  <2>2. Begins("start")
    BY <1>3, <2>1, GoMoves DEF Begins, Only, Idle
  <2> QED
    BY <1>3, <2>2 DEF CallsMove
<1>5. CASE Stop
  <2>1. Idle("stop") /\ Go("stop", "drop") /\ wants' = "down" /\ UNCHANGED <<lock, attempt, refused>>
    BY <1>5 DEF Stop
  <2>2. Begins("stop")
    BY <1>3, <2>1, GoMoves DEF Begins, Only, Idle
  <2> QED
    BY <1>3, <2>2 DEF CallsMove
<1>6. CASE Fire
  <2>1. Again /\ UNCHANGED <<wants, lock, attempt, refused>>
    BY <1>6 DEF Fire
  <2> QED
    BY <1>3, <2>1, AgainBegins DEF CallsMove
<1>7. CASE Arm \/ Send \/ Greet \/ Fetch \/ TableStep
  <2>1. UNCHANGED <<wants, run, lock, attempt, refused, told, client>>
    BY <1>7 DEF Arm, Send, Greet, Fetch, TableStep, TakePush, Enqueue, Settle, Take, Handle, End,
                ownerVars, callVars, connVars
  <2> QED
    BY <2>1 DEF StandBy, CallsMove
<1>8. CASE Ready \/ Lose
  <2>1. client = "on" /\ UNCHANGED <<wants, run, lock, attempt, refused, client>>
    BY <1>8 DEF Ready, Lose, Online, ownerVars, callVars, LoginTypeOK, ConnTypes
  <2> QED
    BY <2>1 DEF StandBy, CallsMove
<1>9. CASE GiveUp
  <2>1. told' \in {"bad", "unknown"} /\ UNCHANGED <<wants, lock, attempt, refused>> /\ (run' = run \/ Again)
    BY <1>9 DEF GiveUp
  <2> QED
    BY <1>3, <2>1, AgainBegins DEF StandBy, CallsMove
<1>10. CASE Seal \/ Register \/ RaiseSealed \/ SealedUp \/ SealedLost
  <2>1. UNCHANGED <<wants, run, lock, attempt, refused, told, client>>
    BY <1>10 DEF Seal, Register, RaiseSealed, SealedUp, SealedLost, ownerVars, callVars, connVars
  <2> QED
    BY <2>1 DEF StandBy, CallsMove
<1>11. CASE SealedRefused
  <2>1. UNCHANGED <<wants, lock, attempt, refused, told, client>> /\ (run' = run \/ Again)
    BY <1>11 DEF SealedRefused, connVars
  <2> QED
    BY <1>3, <2>1, AgainBegins DEF StandBy, CallsMove
<1>12. CASE Crash
  BY <1>12 DEF Crash, AllRest, CallsMove
<1> QED
  BY <1>1, <1>2, <1>4, <1>5, <1>6, <1>7, <1>8, <1>9, <1>10, <1>11, <1>12
     DEF ConnectorNext, ConnectionStep, SealStep

-----------------------------------------------------------------------------
(* A login that stands still has said so. *)

LEMMA CallTypesKept ==
  ASSUME CallTypes, CallsMove
  PROVE  CallTypes'
<1> USE DEF CallTypes, Goroutines, Callers, Connecting, Only
<1>1. CASE StandBy
  BY <1>1 DEF StandBy
<1>2. ASSUME NEW k \in Callers, Refuses(k) PROVE CallTypes'
  BY <1>2 DEF Refuses
<1>3. ASSUME NEW k \in Callers, Enters(k) PROVE CallTypes'
  BY <1>3 DEF Enters
<1>4. ASSUME NEW k \in Callers, Advances(k) PROVE CallTypes'
  BY <1>4 DEF Advances
<1>5. ASSUME NEW k \in Callers, Leaves(k) PROVE CallTypes'
  BY <1>5 DEF Leaves
<1>6. ASSUME NEW k \in {"stop", "again"}, Drops(k) PROVE CallTypes'
  BY <1>6 DEF Drops
<1>7. ASSUME NEW k \in {"stop", "again"}, Tears(k) PROVE CallTypes'
  BY <1>7 DEF Tears
<1>8. CASE IsStopped
  BY <1>8 DEF IsStopped
<1>9. ASSUME NEW k \in Goroutines, Begins(k) PROVE CallTypes'
  BY <1>9 DEF Begins
<1>10. CASE AllRest
  <2>1. Resting \in Call /\ Resting.pc = "idle"
    BY ConnectorAssumption DEF Resting, Call, Pcs, Place
  <2> HIDE DEF Resting
  <2> QED
    BY <1>10, <2>1 DEF AllRest
<1> QED
  BY <1>1, <1>2, <1>3, <1>4, <1>5, <1>6, <1>7, <1>8, <1>9, <1>10 DEF CallsMove

LEMMA AloneKept ==
  ASSUME CallTypes, Alone, CallsMove
  PROVE  Alone'
<1> USE DEF CallTypes, Alone, Goroutines, Callers, Connecting, Only
<1>1. CASE StandBy
  BY <1>1 DEF StandBy
<1>2. ASSUME NEW k \in Callers, Refuses(k) PROVE Alone'
  BY <1>2 DEF Refuses
<1>3. ASSUME NEW k \in Callers, Enters(k) PROVE Alone'
  BY <1>3 DEF Enters
<1>4. ASSUME NEW k \in Callers, Advances(k) PROVE Alone'
  BY <1>4 DEF Advances
<1>5. ASSUME NEW k \in Callers, Leaves(k) PROVE Alone'
  BY <1>5 DEF Leaves
<1>6. ASSUME NEW k \in {"stop", "again"}, Drops(k) PROVE Alone'
  BY <1>6 DEF Drops
<1>7. ASSUME NEW k \in {"stop", "again"}, Tears(k) PROVE Alone'
  BY <1>7 DEF Tears
<1>8. CASE IsStopped
  BY <1>8 DEF IsStopped
<1>9. ASSUME NEW k \in Goroutines, Begins(k) PROVE Alone'
  BY <1>9 DEF Begins
<1>10. CASE AllRest
  <2>1. Resting.pc = "idle" /\ Resting.cancelled = FALSE
    BY DEF Resting
  <2> HIDE DEF Resting
  <2> QED
    BY <1>10, <2>1 DEF AllRest
<1> QED
  BY <1>1, <1>2, <1>3, <1>4, <1>5, <1>6, <1>7, <1>8, <1>9, <1>10 DEF CallsMove

LEMMA UpOrDown ==
  ASSUME CallTypes, OwnerTypes, CallsMove
  PROVE  wants' \in {"up", "down"} /\ (wants' = "up" => Idle("stop")')
<1> USE DEF CallTypes, OwnerTypes, Goroutines, Callers, Only, Idle
<1>1. CASE StandBy
  BY <1>1 DEF StandBy
<1>2. ASSUME NEW k \in Callers, Refuses(k) \/ Enters(k) \/ Advances(k) \/ Leaves(k)
      PROVE  wants' = wants /\ run'["stop"] = run["stop"]
  BY <1>2 DEF Refuses, Enters, Advances, Leaves
<1>3. ASSUME NEW k \in {"stop", "again"}, Drops(k) \/ Tears(k)
      PROVE  wants' = wants /\ (wants = "up" => run'["stop"].pc = run["stop"].pc)
  BY <1>3 DEF Drops, Tears
<1>4. CASE IsStopped
  BY <1>4 DEF IsStopped
<1>5. ASSUME NEW k \in Goroutines, Begins(k)
      PROVE  wants' \in {"up", "down"} /\ (wants' = "up" => Idle("stop")')
  BY <1>5 DEF Begins
<1>6. CASE AllRest
  BY <1>6 DEF AllRest
<1> QED
  BY <1>1, <1>2, <1>3, <1>4, <1>5, <1>6 DEF CallsMove

LEMMA AnsweredKept ==
  ASSUME CallTypes, OwnerTypes, Alone, Answered, CallsMove
  PROVE  Answered'
<1> USE DEF CallTypes, OwnerTypes, Goroutines, Callers, Other, Idle, Only
<1>1. CASE StandBy
  BY <1>1 DEF StandBy, Answered
<1>2. ASSUME NEW k \in Callers, Refuses(k) PROVE Answered'
  BY <1>2 DEF Refuses, Answered
<1>3. ASSUME NEW k \in Callers, Enters(k) PROVE Answered'
  BY <1>3 DEF Enters, Answered, Alone, Connecting
<1>4. ASSUME NEW k \in Callers, Advances(k) PROVE Answered'
  <2>1. \A o \in Callers \ {k} : run'[o] = run[o] /\ run[o].pc \notin Connecting /\ ~ run[o].cancelled
    BY <1>4 DEF Advances, Alone
  <2> QED
    BY <1>4, <2>1 DEF Advances, Answered, Connecting
<1>5. ASSUME NEW k \in Callers, Leaves(k) PROVE Answered'
  <2>1. \A o \in Callers \ {k} : run'[o] = run[o] /\ run[o].pc \notin Connecting /\ ~ run[o].cancelled
    BY <1>5 DEF Leaves, Alone
  <2> QED
    BY <1>5, <2>1 DEF Leaves, Answered, Connecting
<1>6. ASSUME NEW k \in {"stop", "again"}, Drops(k) PROVE Answered'
  <2>1. CASE k = "stop"
    BY <1>6, <2>1 DEF Drops, Answered
  <2>2. CASE k = "again"
    <3>1. /\ run'["again"].pc = "close" /\ ~ run'["again"].cancelled
          /\ run'["start"].pc = run["start"].pc /\ refused' = refused
      BY <1>6, <2>2 DEF Drops, Alone, Connecting
    <3> QED
      BY <1>6, <3>1 DEF Answered
  <2> QED
    BY <2>1, <2>2
<1>7. ASSUME NEW k \in {"stop", "again"}, Tears(k) PROVE Answered'
  <2>1. CASE k = "stop"
    BY <1>7, <2>1 DEF Tears, Answered
  <2>2. CASE k = "again"
    <3>1. run'["again"].pc \in {"unloop", "connect"} /\ ~ run'["again"].cancelled
      BY <1>7, <2>2 DEF Tears, Alone, Connecting
    <3> QED
      BY <1>7, <2>2, <3>1 DEF Answered, Tears
  <2> QED
    BY <2>1, <2>2
<1>8. CASE IsStopped
  BY <1>8 DEF IsStopped, Answered
<1>9. ASSUME NEW k \in Goroutines, Begins(k) PROVE Answered'
  <2>1. /\ run'[k].pc \in {"connect", "drop"} /\ ~ run'[k].cancelled
    BY <1>9 DEF Begins, Alone, Connecting
  <2>2. CASE k = "stop"
    BY <1>9, <2>2 DEF Begins, Answered
  <2>3. CASE k # "stop"
    BY <1>9, <2>1, <2>3 DEF Begins, Answered
  <2> QED
    BY <2>2, <2>3
<1>10. CASE AllRest
  BY <1>10 DEF AllRest, Answered
<1> QED
  BY <1>1, <1>2, <1>3, <1>4, <1>5, <1>6, <1>7, <1>8, <1>9, <1>10 DEF CallsMove

LEMMA StandsStillKept ==
  ASSUME CallTypes, OwnerTypes, Alone, Answered, StandsStillOnlySaid, CallsMove
  PROVE  StandsStillOnlySaid'
<1> USE DEF CallTypes, OwnerTypes, Goroutines, Callers, Other, Idle, Only, Trying
<1>1. CASE StandBy
  BY <1>1 DEF StandBy, StandsStillOnlySaid
<1>2. ASSUME NEW k \in Callers, Refuses(k) PROVE StandsStillOnlySaid'
  BY <1>2 DEF Refuses, StandsStillOnlySaid
<1>3. ASSUME NEW k \in Callers, Enters(k) PROVE StandsStillOnlySaid'
  BY <1>3 DEF Enters, StandsStillOnlySaid
<1>4. ASSUME NEW k \in Callers, Advances(k) PROVE StandsStillOnlySaid'
  BY <1>4 DEF Advances, StandsStillOnlySaid, Connecting
<1>5. ASSUME NEW k \in Callers, Leaves(k) PROVE StandsStillOnlySaid'
  BY <1>5 DEF Leaves, StandsStillOnlySaid, Answered, Connecting
<1>6. ASSUME NEW k \in {"stop", "again"}, Drops(k) PROVE StandsStillOnlySaid'
  BY <1>6 DEF Drops, StandsStillOnlySaid
<1>7. ASSUME NEW k \in {"stop", "again"}, Tears(k) PROVE StandsStillOnlySaid'
  BY <1>7 DEF Tears, StandsStillOnlySaid
<1>8. CASE IsStopped
  BY <1>8 DEF IsStopped, StandsStillOnlySaid
<1>9. ASSUME NEW k \in Goroutines, Begins(k) PROVE StandsStillOnlySaid'
  BY <1>9 DEF Begins, StandsStillOnlySaid
<1>10. CASE AllRest
  BY <1>10 DEF AllRest, StandsStillOnlySaid
<1> QED
  BY <1>1, <1>2, <1>3, <1>4, <1>5, <1>6, <1>7, <1>8, <1>9, <1>10 DEF CallsMove

-----------------------------------------------------------------------------
(* Types. *)

LEMMA ConnTypesKept ==
  ASSUME LoginTypeOK, ConnectorNext
  PROVE  ConnTypes'
<1> USE DEF LoginTypeOK, ConnTypes
<1>0. ASSUME UNCHANGED <<client, conn, told, armed, device, sealed>> PROVE ConnTypes'
  BY <1>0
<1>1. ASSUME NEW k \in {"start", "again"}, ConnectStep(k) PROVE ConnTypes'
  <2>1. CASE Connect(k)
    BY <2>1 DEF Connect, sealVars
  <2>2. CASE Make(k)
    BY <2>2 DEF Make, sealVars
  <2>3. CASE LoadFails(k)
    BY <2>3 DEF LoadFails, sealVars
  <2>4. CASE Join(k)
    BY <2>4 DEF Join, sealVars
  <2>5. CASE Unready(k) \/ Raise(k)
    BY <2>5 DEF Unready, Raise, sealVars
  <2>6. CASE Sleep(k) \/ Load(k) \/ Spawn(k) \/ Cancelled(k)
    BY <2>6, <1>0 DEF Sleep, Load, Spawn, Cancelled, connVars, sealVars
  <2> QED
    BY <1>1, <2>1, <2>2, <2>3, <2>4, <2>5, <2>6 DEF ConnectStep
<1>2. ASSUME NEW k \in {"stop", "again"}, DropStep(k) PROVE ConnTypes'
  <2>1. CASE Drop(k)
    BY <2>1, <1>0 DEF Drop, connVars, sealVars
  <2>2. CASE Close(k)
    BY <2>2 DEF Close
  <2>3. CASE Unloop(k)
    BY <2>3 DEF Unloop
  <2> QED
    BY <1>2, <2>1, <2>2, <2>3 DEF DropStep
<1>3. CASE Start \/ Stop \/ Send \/ Fetch \/ TableStep
  BY <1>0, <1>3 DEF Start, Stop, Send, Fetch, TableStep, TakePush, Enqueue, Settle, Take, Handle, End,
                    connVars, sealVars
<1>4. CASE Arm \/ Fire
  BY <1>4 DEF Arm, Fire, sealVars
<1>5. CASE Greet \/ Lose
  BY <1>5 DEF Greet, Lose, sealVars, Online
<1>6. CASE Ready
  BY <1>6 DEF Ready
<1>7. CASE GiveUp
  BY <1>7 DEF GiveUp, sealVars
<1>8. CASE Seal \/ Register
  BY <1>8 DEF Seal, Register, connVars
<1>9. CASE RaiseSealed \/ SealedUp \/ SealedLost
  BY <1>9 DEF RaiseSealed, SealedUp, SealedLost, connVars
<1>10. CASE SealedRefused
  BY <1>10 DEF SealedRefused, connVars
<1>11. CASE Crash
  BY <1>11 DEF Crash
<1> QED
  BY <1>1, <1>2, <1>3, <1>4, <1>5, <1>6, <1>7, <1>8, <1>9, <1>10, <1>11
     DEF ConnectorNext, ConnectionStep, SealStep

LEMMA CalmIsBoolean ==
  ASSUME LoginTypeOK, ConnectorNext
  PROVE  calm' \in BOOLEAN
<1>0. calm \in BOOLEAN
  BY DEF LoginTypeOK, OwnerTypes
<1>1. ASSUME NEW k \in {"start", "again"}, ConnectStep(k) PROVE calm' = calm
  BY <1>1 DEF ConnectStep, Connect, Make, Sleep, LoadFails, Unready, Load, Spawn, Cancelled, Join, Raise, ownerVars
<1>2. ASSUME NEW k \in {"stop", "again"}, DropStep(k) PROVE calm' = calm
  BY <1>2 DEF DropStep, Drop, Close, Unloop, ownerVars
<1>3. CASE Stop
  BY <1>3 DEF Stop
<1>4. ASSUME Again PROVE calm' \in BOOLEAN
  BY <1>0, <1>4 DEF Again
<1>5. CASE Fire
  BY <1>4, <1>5 DEF Fire
<1>6. CASE Start \/ Arm \/ Send \/ Greet \/ Fetch \/ Ready \/ Lose \/ TableStep
  BY <1>0, <1>6 DEF Start, Arm, Send, Greet, Fetch, Ready, Lose, TableStep, TakePush, Enqueue, Settle, Take,
                    Handle, End, ownerVars
<1>7. CASE GiveUp
  BY <1>0, <1>4, <1>7 DEF GiveUp
<1>8. CASE SealedRefused
  BY <1>0, <1>4, <1>8 DEF SealedRefused
<1>9. CASE Seal \/ Register \/ RaiseSealed \/ SealedUp \/ SealedLost
  BY <1>0, <1>9 DEF Seal, Register, RaiseSealed, SealedUp, SealedLost, ownerVars
<1>10. CASE Crash
  BY <1>10 DEF Crash
<1> QED
  BY <1>0, <1>1, <1>2, <1>3, <1>5, <1>6, <1>7, <1>8, <1>9, <1>10
     DEF ConnectorNext, ConnectionStep, SealStep

\* What a stop holds on to it holds until it is saved.
LEMMA HeldKept ==
  ASSUME CallTypes, CallsMove, ~ Close("stop")
  PROVE  run'["stop"].held \in {run["stop"].held, None}
<1> USE DEF Goroutines, Callers, Only
<1>1. CASE StandBy
  BY <1>1 DEF StandBy
<1>2. ASSUME NEW k \in Callers, Refuses(k) \/ Enters(k) \/ Advances(k) \/ Leaves(k)
      PROVE  run'["stop"] = run["stop"]
  BY <1>2 DEF Refuses, Enters, Advances, Leaves
<1>3. ASSUME NEW k \in {"stop", "again"}, Drops(k) \/ Tears(k)
      PROVE  run'["stop"].held = run["stop"].held
  BY <1>3 DEF Drops, Tears
<1>4. CASE IsStopped
  BY <1>4 DEF IsStopped
<1>5. ASSUME NEW k \in Goroutines, Begins(k)
      PROVE  run'["stop"].held = run["stop"].held
  BY <1>5 DEF Begins
<1>6. CASE AllRest
  BY <1>6 DEF AllRest, Resting
<1> QED
  BY <1>1, <1>2, <1>3, <1>4, <1>5, <1>6 DEF CallsMove

\* Which place a close remembers.
LEMMA CloseHolds ==
  ASSUME LoginTypeOK, NEW k \in {"stop", "again"}, Close(k)
  PROVE  \E c \in {cursor} \cup Counted :
           /\ cursor' = c /\ lost' = lost \cup Missed({got.t}, Cursors \cup {c})
           /\ run'["stop"].held \in {run["stop"].held, None} \cup (IF client = "nil" THEN {} ELSE {c})
<1>1. PICK c \in {cursor} \cup Counted :
        /\ cursor' = c /\ lost' = lost \cup Missed({got.t}, Cursors \cup {c})
        /\ run' = [run EXCEPT ![k].pc = "unloop",
                              ![k].held = IF k = "stop" /\ CacheState /\ client # "nil" /\ everUp THEN c ELSE None]
  BY DEF Close
<1> DEFINE h == IF k = "stop" /\ CacheState /\ client # "nil" /\ everUp THEN c ELSE None
<1>2. h \in Place
  BY CountedTypes DEF LoginTypeOK, MarkTypes, Place
<1>3. run' = [run EXCEPT ![k].pc = "unloop", ![k].held = h]
  BY <1>1
<1>4. h \in {None} \cup (IF client = "nil" THEN {} ELSE {c})
  OBVIOUS
<1> HIDE DEF h
<1>5. /\ run'[k].held = h /\ \A o \in Goroutines \ {k} : run'[o] = run[o]
  BY <1>2, <1>3, CloseMoves DEF LoginTypeOK, CallTypes, Goroutines
<1>6. run'["stop"].held \in {run["stop"].held, h}
  BY <1>5 DEF Goroutines
<1> QED
  BY <1>1, <1>4, <1>6

LEMMA SentGrows ==
  ASSUME LoginTypeOK, ConnectorNext
  PROVE  sent' \in Nat /\ sent' >= sent
<1> USE DEF LoginTypeOK, MarkTypes
<1>1. CASE Send
  BY <1>1 DEF Send
<1>2. CASE ~ Send
  <2>1. ASSUME NEW k \in {"start", "again"}, ConnectStep(k) PROVE sent' = sent
    BY <2>1 DEF ConnectStep, Connect, Make, Sleep, LoadFails, Unready, Load, Spawn, Cancelled, Join, Raise, readVars
  <2>2. ASSUME NEW k \in {"stop", "again"}, DropStep(k) PROVE sent' = sent
    BY <2>2 DEF DropStep, Drop, Close, Unloop, readVars
  <2>3. CASE Start \/ Stop \/ Arm \/ Fire \/ ConnectionStep
    BY <2>3 DEF Start, Stop, Arm, Fire, ConnectionStep, Greet, Fetch, Ready, Lose, GiveUp, readVars
  <2>5. ASSUME NEW l \in Loops, Settle(l) \/ Take(l) \/ Handle(l) \/ End(l) PROVE sent' = sent
    BY <2>5 DEF Settle, Take, Handle, End, readVars
  <2>6. CASE TakePush \/ Enqueue
    BY <2>6 DEF TakePush, Enqueue, readVars
  <2>4. CASE SealStep \/ Crash
    BY <2>4 DEF SealStep, Seal, Register, RaiseSealed, SealedUp, SealedLost, SealedRefused, Crash, readVars
  <2> QED
    BY <1>2, <2>1, <2>2, <2>3, <2>4, <2>5, <2>6 DEF ConnectorNext, TableStep
<1> QED
  BY <1>1, <1>2

LEMMA MarkTypesKept ==
  ASSUME LoginTypeOK, ConnectorNext
  PROVE  MarkTypes'
<1> USE DEF LoginTypeOK, MarkTypes
<1>1. sent' \in Nat /\ sent' >= sent
  BY SentGrows
<1>2. run["stop"].held \in Place /\ run'["stop"].held \in Place
  BY EveryStepMoves, CallTypesKept DEF CallTypes, Call, Goroutines
<1>3. run'["stop"].held <= sent'
  <2>1. CASE Close("stop")
    <3>1. PICK c \in {cursor} \cup Counted :
            run'["stop"].held \in {run["stop"].held, None} \cup (IF client = "nil" THEN {} ELSE {c})
      BY <2>1, CloseHolds
    <3> QED
      BY <1>1, <1>2, <3>1, CountedTypes DEF None, Place
  <2>2. CASE ~ Close("stop")
    <3>1. run'["stop"].held \in {run["stop"].held, None}
      BY <2>2, EveryStepMoves, HeldKept
    <3> QED
      BY <1>1, <1>2, <3>1 DEF None, Place
  <2> QED
    BY <2>1, <2>2
<1>4. cursor' \in 0 .. sent /\ from' \in 0 .. sent
  <2>0. got.fetched => got.t \in 0 .. sent
    BY DEF TableTypes, ReadTypes, Place
  <2>1. ASSUME NEW k \in {"start", "again"}, ConnectStep(k) PROVE cursor' \in 0 .. sent /\ from' \in 0 .. sent
    <3>1. CASE Make(k)
      BY <3>1 DEF Make, Kept, None, Place
    <3>2. CASE Load(k)
      BY <3>2 DEF Load
    <3>3. CASE ~ Make(k) /\ ~ Load(k)
      BY <2>1, <3>3 DEF ConnectStep, Connect, Sleep, LoadFails, Unready, Spawn, Cancelled, Join, Raise, markVars
    <3> QED
      BY <3>1, <3>2, <3>3
  <2>2. ASSUME NEW k \in {"stop", "again"}, DropStep(k) PROVE cursor' \in 0 .. sent /\ from' \in 0 .. sent
    <3>1. CASE Close(k)
      BY <3>1, CloseHolds, CountedTypes DEF Close
    <3>2. CASE Drop(k) \/ Unloop(k)
      BY <3>2 DEF Drop, Unloop, markVars
    <3> QED
      BY <2>2, <3>1, <3>2 DEF DropStep
  <2>3. CASE Enqueue
    BY <2>0, <2>3 DEF Enqueue
  <2>4. ASSUME NEW l \in Loops, Handle(l) PROVE cursor' \in 0 .. sent /\ from' \in 0 .. sent
    <3>1. loops[l].t # None => loops[l].t \in 0 .. sent
      BY DEF TableTypes, LoopTypes, Loop, Place
    <3> QED
      BY <2>4, <3>1 DEF Handle
  <2>5. CASE Start \/ Stop \/ Arm \/ Fire \/ Send \/ ConnectionStep \/ TakePush
    BY <2>5 DEF Start, Stop, Arm, Fire, Send, ConnectionStep, Greet, Fetch, Ready, Lose, GiveUp, TakePush, markVars
  <2>6. ASSUME NEW l \in Loops, Settle(l) \/ Take(l) \/ End(l) PROVE UNCHANGED <<cursor, from>>
    BY <2>6 DEF Settle, Take, End, markVars
  <2>7. CASE SealStep \/ Crash
    BY <2>7 DEF SealStep, Seal, Register, RaiseSealed, SealedUp, SealedLost, SealedRefused, Crash, markVars
  <2> QED
    BY <2>1, <2>2, <2>3, <2>4, <2>5, <2>6, <2>7 DEF ConnectorNext, TableStep
<1>5. saved' \in {saved, None, run["stop"].held}
  <2>1. ASSUME NEW k \in {"start", "again"}, ConnectStep(k) PROVE saved' \in {saved, None}
    BY <2>1 DEF ConnectStep, Connect, Make, Sleep, LoadFails, Unready, Load, Spawn, Cancelled, Join, Raise, markVars
  <2>2. ASSUME NEW k \in {"stop", "again"}, DropStep(k) PROVE saved' \in {saved, run["stop"].held}
    BY <2>2 DEF DropStep, Drop, Close, Unloop, markVars
  <2>3. CASE Start \/ Stop \/ Arm \/ Fire \/ Send \/ ConnectionStep \/ TableStep
    BY <2>3 DEF Start, Stop, Arm, Fire, Send, ConnectionStep, Greet, Fetch, Ready, Lose, GiveUp,
                TableStep, TakePush, Enqueue, Settle, Take, Handle, End, markVars
  <2>4. CASE SealStep \/ Crash
    BY <2>4 DEF SealStep, Seal, Register, RaiseSealed, SealedUp, SealedLost, SealedRefused, Crash, markVars
  <2> QED
    BY <2>1, <2>2, <2>3, <2>4 DEF ConnectorNext
<1> QED
  BY <1>1, <1>2, <1>3, <1>4, <1>5 DEF None, Place

\* How a loop moves.
LEMMA LoopMoves ==
  ASSUME loops \in [Loops -> Loop], NEW l \in Loops
  PROVE  /\ \A x \in {"gone", "new", "on", "over"} : loops' = [loops EXCEPT ![l].is = x] =>
              /\ loops' \in [Loops -> Loop] /\ loops'[l].is = x /\ loops'[l].t = loops[l].t
              /\ \A o \in Loops \ {l} : loops'[o] = loops[o]
         /\ \A t \in Place : loops' = [loops EXCEPT ![l].t = t] =>
              /\ loops' \in [Loops -> Loop] /\ loops'[l].t = t /\ loops'[l].is = loops[l].is
              /\ \A o \in Loops \ {l} : loops'[o] = loops[o]
<1>0. loops[l] \in Loop
  OBVIOUS
<1>1. ASSUME NEW x \in {"gone", "new", "on", "over"}, loops' = [loops EXCEPT ![l].is = x]
      PROVE  /\ loops' \in [Loops -> Loop] /\ loops'[l].is = x /\ loops'[l].t = loops[l].t
             /\ \A o \in Loops \ {l} : loops'[o] = loops[o]
  <2> DEFINE c == [loops[l] EXCEPT !.is = x]
  <2>1. c \in Loop /\ c.is = x /\ c.t = loops[l].t
    BY <1>0 DEF Loop
  <2>2. loops' = [loops EXCEPT ![l] = c]
    BY <1>1
  <2> HIDE DEF c
  <2> QED
    BY <2>1, <2>2
<1>2. ASSUME NEW t \in Place, loops' = [loops EXCEPT ![l].t = t]
      PROVE  /\ loops' \in [Loops -> Loop] /\ loops'[l].t = t /\ loops'[l].is = loops[l].is
             /\ \A o \in Loops \ {l} : loops'[o] = loops[o]
  <2> DEFINE c == [loops[l] EXCEPT !.t = t]
  <2>1. c \in Loop /\ c.t = t /\ c.is = loops[l].is
    BY <1>0 DEF Loop
  <2>2. loops' = [loops EXCEPT ![l] = c]
    BY <1>2
  <2> HIDE DEF c
  <2> QED
    BY <2>1, <2>2
<1> QED
  BY <1>1, <1>2

LEMMA SettleMoves ==
  ASSUME loops \in [Loops -> Loop], NEW l \in Loops, Settle(l)
  PROVE  /\ loops' \in [Loops -> Loop] /\ \A o \in Loops : loops'[o].t = loops[o].t
         /\ \A o \in Loops : loops'[o].is = IF o = l THEN "on" ELSE IF o = current THEN "over" ELSE loops[o].is
<1> DEFINE on(o) == [loops[o] EXCEPT !.is = "on"]
           closed(o) == [loops[o] EXCEPT !.is = "over"]
<1>1. \A o \in Loops : loops[o] \in Loop
  OBVIOUS
<1>2. loops' = [o \in Loops |-> IF o = l THEN on(o) ELSE IF o = current THEN closed(o) ELSE loops[o]]
  BY DEF Settle
<1>3. \A o \in Loops : /\ on(o) \in Loop /\ on(o).is = "on" /\ on(o).t = loops[o].t
                       /\ closed(o) \in Loop /\ closed(o).is = "over" /\ closed(o).t = loops[o].t
  BY <1>1 DEF Loop
<1> HIDE DEF on, closed
<1> QED
  BY <1>1, <1>2, <1>3

LEMMA NewLoopMoves ==
  ASSUME loops \in [Loops -> Loop], NewLoop
  PROVE  \E l \in Loops : /\ loops[l].is = "gone" /\ loops' \in [Loops -> Loop]
                          /\ loops'[l].is = "new" /\ loops'[l].t = loops[l].t
                          /\ \A o \in Loops \ {l} : loops'[o] = loops[o]
<1>1. PICK l \in Free : loops' = [loops EXCEPT ![l].is = "new"]
  BY DEF NewLoop
<1>2. l \in Loops /\ loops[l].is = "gone"
  BY DEF Free
<1> QED
  BY <1>1, <1>2, LoopMoves

LEMMA ReadTypesKept ==
  ASSUME LoginTypeOK, ConnectorNext
  PROVE  ReadTypes'
<1>0. sent \in Nat /\ sent' \in Nat /\ sent' >= sent /\ cursor \in 0 .. sent /\ ReadTypes
  BY SentGrows DEF LoginTypeOK, MarkTypes, TableTypes
<1>14. /\ got.t \in Nat \/ got.t = None
      /\ got.t <= sent' /\ \A i \in DOMAIN pushes : pushes[i] \in Nat /\ pushes[i] <= sent'
  <2>1. (got.t \in Nat \/ got.t = None) /\ got.t <= sent
    BY <1>0 DEF ReadTypes, Place
  <2>2. \A i \in DOMAIN pushes : pushes[i] \in Nat /\ pushes[i] <= sent
    BY <1>0 DEF ReadTypes
  <2> QED
    BY <1>0, <2>1, <2>2 DEF None
<1>1. ASSUME UNCHANGED <<pushes, got>> PROVE ReadTypes'
  BY <1>0, <1>14, <1>1 DEF ReadTypes
<1>2. NoTable \in [t : Place, fetched : BOOLEAN] /\ NoTable.t = None /\ NoTable.fetched = FALSE
      /\ None <= sent'
  BY <1>0 DEF NoTable, Place, None
<1>3. ASSUME NEW k \in {"start", "again"}, ConnectStep(k) PROVE UNCHANGED <<pushes, got>>
  BY <1>3 DEF ConnectStep, Connect, Make, Sleep, LoadFails, Unready, Load, Spawn, Cancelled, Join, Raise, readVars
<1>4. ASSUME NEW k \in {"stop", "again"}, DropStep(k) PROVE ReadTypes'
  <2>1. CASE Close(k)
    <3>1. pushes' = << >> /\ got' = NoTable
      BY <2>1 DEF Close
    <3> HIDE DEF NoTable
    <3> QED
      BY <1>2, <3>1 DEF ReadTypes
  <2>2. CASE Drop(k) \/ Unloop(k)
    BY <2>2, <1>1 DEF Drop, Unloop, readVars
  <2> QED
    BY <1>4, <2>1, <2>2 DEF DropStep
<1>5. CASE Send
  <2>1. sent' = sent + 1 /\ (pushes' = Append(pushes, sent + 1) \/ pushes' = pushes) /\ got' = got
    BY <1>5 DEF Send
  <2>2. CASE pushes' = pushes
    BY <1>1, <2>1, <2>2
  <2>3. CASE pushes' = Append(pushes, sent + 1)
    <3>1. pushes' \in Seq(Nat) /\ \A i \in DOMAIN pushes' : pushes'[i] <= sent'
      BY <1>0, <1>14, <2>1, <2>3 DEF ReadTypes
    <3> QED
      BY <1>0, <1>14, <2>1, <3>1 DEF ReadTypes
  <2> QED
    BY <2>1, <2>2, <2>3
<1>6. CASE Fetch
  <2>1. cursor < sent /\ got' = [t |-> cursor + 1, fetched |-> TRUE] /\ pushes' = pushes
    BY <1>6 DEF Fetch
  <2> QED
    BY <1>0, <2>1 DEF ReadTypes, Place
<1>7. CASE Ready
  <2>1. (got' = [t |-> Page, fetched |-> FALSE] \/ got' = got) /\ pushes' = pushes
    BY <1>7 DEF Ready
  <2>2. CASE got' = got
    BY <1>1, <2>1, <2>2
  <2>3. CASE got' = [t |-> Page, fetched |-> FALSE]
    <3>1. got' \in [t : Place, fetched : BOOLEAN] /\ got'.t = 0 /\ got'.fetched = FALSE
      BY <2>3 DEF Place, Page
    <3> QED
      BY <1>0, <1>14, <2>1, <3>1 DEF ReadTypes
  <2> QED
    BY <2>1, <2>2, <2>3
<1>8. CASE TakePush
  <2>1. pushes # << >> /\ got' = [t |-> Head(pushes), fetched |-> FALSE] /\ pushes' = Tail(pushes)
    BY <1>8 DEF TakePush
  <2>2. Head(pushes) = pushes[1] /\ 1 \in DOMAIN pushes /\ pushes[1] \in Nat
    BY <1>0, <2>1 DEF ReadTypes
  <2>3. pushes' \in Seq(Nat) /\ \A i \in DOMAIN pushes' : pushes'[i] = pushes[i + 1] /\ i + 1 \in DOMAIN pushes
    BY <1>0, <2>1 DEF ReadTypes
    <2> QED
    BY <1>0, <1>14, <2>1, <2>2, <2>3 DEF ReadTypes, Place
<1>9. CASE Enqueue
  <2>1. pushes' = pushes /\ got' = NoTable
    BY <1>9 DEF Enqueue
  <2> HIDE DEF NoTable
  <2> QED
    BY <1>0, <1>2, <2>1 DEF ReadTypes
<1>10. ASSUME NEW l \in Loops, Settle(l) \/ Take(l) \/ Handle(l) \/ End(l) PROVE UNCHANGED <<pushes, got>>
  BY <1>10 DEF Settle, Take, Handle, End, readVars
<1>11. CASE Start \/ Stop \/ Arm \/ Fire \/ Greet \/ Lose \/ GiveUp
  BY <1>1, <1>11 DEF Start, Stop, Arm, Fire, Greet, Lose, GiveUp, readVars
<1>12. CASE SealStep
  BY <1>1, <1>12 DEF SealStep, Seal, Register, RaiseSealed, SealedUp, SealedLost, SealedRefused, readVars
<1>13. CASE Crash
  <2>1. pushes' = << >> /\ got' = NoTable
    BY <1>13 DEF Crash
  <2> HIDE DEF NoTable
  <2> QED
    BY <1>2, <2>1 DEF ReadTypes
<1> QED
  BY <1>1, <1>3, <1>4, <1>5, <1>6, <1>7, <1>8, <1>9, <1>10, <1>11, <1>12, <1>13
     DEF ConnectorNext, ConnectionStep, TableStep

\* A table with the parser is one, unless there is none.
LEMMA GotTable ==
  ASSUME ReadTypes, got # NoTable
  PROVE  got.t \in Nat
<1>1. got = [t |-> got.t, fetched |-> got.fetched] /\ got.t \in Place /\ got.fetched \in BOOLEAN
  BY DEF ReadTypes
<1>2. CASE got.t = None
  BY <1>1, <1>2 DEF ReadTypes, NoTable, None
<1> QED
  BY <1>1, <1>2 DEF Place

LEMMA QueueTypesKept ==
  ASSUME LoginTypeOK, ConnectorNext
  PROVE  QueueTypes'
<1>0. /\ sent \in Nat /\ sent' \in Nat /\ sent' >= sent
      /\ ReadTypes /\ QueueTypes /\ QueueCap \in Nat \ {0}
  BY SentGrows, ConnectorAssumption DEF LoginTypeOK, MarkTypes, TableTypes
<1>1. \A i \in DOMAIN queue : queue[i] \in Nat /\ queue[i] <= sent'
  BY <1>0 DEF QueueTypes
<1>2. ASSUME queue' = queue PROVE QueueTypes'
  BY <1>0, <1>1, <1>2 DEF QueueTypes
<1>3. ASSUME queue' = << >> PROVE QueueTypes'
  BY <1>0, <1>3 DEF QueueTypes
<1>4. CASE Enqueue
  <2>1. got # NoTable /\ Len(queue) < QueueCap /\ queue' = Append(queue, got.t)
    BY <1>4 DEF Enqueue
  <2>2. got.t \in Nat /\ got.t <= sent'
    BY <1>0, <2>1, GotTable DEF ReadTypes
  <2> QED
    BY <1>0, <1>1, <2>1, <2>2 DEF QueueTypes
<1>5. ASSUME NEW l \in Loops, Take(l) PROVE QueueTypes'
  <2>1. queue # << >> /\ queue' = Tail(queue)
    BY <1>5 DEF Take
  <2>2. queue' \in Seq(Nat) /\ \A i \in DOMAIN queue' : queue'[i] = queue[i + 1] /\ i + 1 \in DOMAIN queue
    BY <1>0, <2>1 DEF QueueTypes
  <2>3. Len(queue') <= Len(queue)
    BY <1>0, <2>1 DEF QueueTypes
  <2> QED
    BY <1>0, <1>1, <2>2, <2>3 DEF QueueTypes
<1>6. ASSUME NEW l \in Loops, Settle(l) \/ Handle(l) \/ End(l) PROVE queue' = queue
  BY <1>6 DEF Settle, Handle, End
<1>7. CASE TakePush
  BY <1>2, <1>7 DEF TakePush, tableVars
<1>8. ASSUME NEW k \in {"start", "again"}, ConnectStep(k) PROVE queue' = queue
  BY <1>8 DEF ConnectStep, Connect, Make, Sleep, LoadFails, Unready, Load, Spawn, Cancelled, Join, Raise, tableVars
<1>9. ASSUME NEW k \in {"stop", "again"}, DropStep(k) PROVE queue' = queue
  BY <1>9 DEF DropStep, Drop, Close, Unloop, tableVars
<1>10. CASE Start \/ Stop \/ Arm \/ Fire \/ Send \/ ConnectionStep
  BY <1>2, <1>10 DEF Start, Stop, Arm, Fire, Send, ConnectionStep, Greet, Fetch, Ready, Lose, GiveUp, tableVars
<1>11. CASE SealStep
  BY <1>2, <1>11 DEF SealStep, Seal, Register, RaiseSealed, SealedUp, SealedLost, SealedRefused, tableVars
<1>12. CASE Crash
  BY <1>3, <1>12 DEF Crash
<1> QED
  BY <1>2, <1>4, <1>5, <1>6, <1>7, <1>8, <1>9, <1>10, <1>11, <1>12 DEF ConnectorNext, TableStep

LEMMA LoopTypesKept ==
  ASSUME LoginTypeOK, ConnectorNext
  PROVE  LoopTypes'
<1>0. /\ sent \in Nat /\ sent' \in Nat /\ sent' >= sent /\ QueueTypes /\ LoopTypes
  BY SentGrows DEF LoginTypeOK, MarkTypes, TableTypes
<1>1. \A l \in Loops : loops[l].t \in Place /\ loops[l].t <= sent'
  <2>1. \A l \in Loops : loops[l].t \in Place /\ loops[l].t <= sent
    BY <1>0 DEF LoopTypes, Loop
  <2> QED
    BY <1>0, <2>1 DEF Place, None
<1>2. current \in Loops \cup {None} /\ done \subseteq 0 .. sent'
  BY <1>0 DEF LoopTypes
<1>3. None <= sent' /\ None \in Place
  BY <1>0 DEF None, Place
<1>4. ASSUME UNCHANGED <<loops, current, done>> PROVE LoopTypes'
  BY <1>0, <1>1, <1>4 DEF LoopTypes
<1>5. ASSUME loops' \in [Loops -> Loop], \A l \in Loops : loops'[l].t = loops[l].t \/ loops'[l].t = None,
             current' \in Loops \cup {None}, done' = done
      PROVE  LoopTypes'
  BY <1>0, <1>1, <1>3, <1>5 DEF LoopTypes
<1>6. ASSUME NewLoop, UNCHANGED <<current, done>> PROVE LoopTypes'
  BY <1>0, <1>2, <1>5, <1>6, NewLoopMoves DEF LoopTypes
<1>7. ASSUME NEW k \in {"start", "again"}, ConnectStep(k) PROVE LoopTypes'
  <2>1. CASE Unready(k)
    BY <2>1, <1>4, <1>6 DEF Unready, pastVars
  <2>2. CASE Spawn(k)
    BY <2>2, <1>6 DEF Spawn, pastVars
  <2>3. CASE ~ Unready(k) /\ ~ Spawn(k)
    BY <1>4, <1>7, <2>3 DEF ConnectStep, Connect, Make, Sleep, LoadFails, Load, Cancelled, Join, Raise,
                            tableVars, pastVars
  <2> QED
    BY <2>1, <2>2, <2>3
<1>8. ASSUME NEW k \in {"stop", "again"}, DropStep(k) PROVE LoopTypes'
  <2>1. CASE Unloop(k)
    <3>1. current' = None /\ done' = done
      BY <2>1 DEF Unloop, pastVars
    <3>2. CASE current = None
      BY <2>1, <3>1, <3>2, <1>0, <1>5 DEF Unloop, LoopTypes
    <3>3. CASE current # None
      <4>1. current \in Loops /\ loops' = [loops EXCEPT ![current].is = "over"]
        BY <1>2, <2>1, <3>3 DEF Unloop
      <4>2. loops' \in [Loops -> Loop] /\ \A l \in Loops : loops'[l].t = loops[l].t
        BY <1>0, <4>1, LoopMoves DEF LoopTypes
      <4> QED
        BY <1>5, <3>1, <4>2
    <3> QED
      BY <3>2, <3>3
  <2>2. CASE Drop(k) \/ Close(k)
    BY <1>4, <2>2 DEF Drop, Close, tableVars, pastVars
  <2> QED
    BY <1>8, <2>1, <2>2 DEF DropStep
<1>9. ASSUME NEW l \in Loops, Settle(l) PROVE LoopTypes'
  BY <1>0, <1>5, <1>9, SettleMoves DEF Settle, LoopTypes, pastVars
<1>10. ASSUME NEW l \in Loops, Take(l) PROVE LoopTypes'
  <2>1. /\ queue # << >> /\ loops' = [loops EXCEPT ![l].t = Head(queue)] /\ UNCHANGED <<current, done>>
    BY <1>10 DEF Take, pastVars
  <2>2. Head(queue) \in Nat /\ Head(queue) <= sent'
    BY <1>0, <2>1 DEF QueueTypes
  <2>3. /\ loops' \in [Loops -> Loop] /\ loops'[l].t = Head(queue)
        /\ \A o \in Loops \ {l} : loops'[o] = loops[o]
    <3>1. Head(queue) \in Place
      BY <2>2 DEF Place
    <3> QED
      BY <1>0, <2>1, <3>1, LoopMoves DEF LoopTypes
  <2>4. \A o \in Loops : loops'[o].t <= sent'
    BY <1>1, <2>2, <2>3
  <2> QED
    BY <1>2, <2>1, <2>3, <2>4 DEF LoopTypes
<1>11. ASSUME NEW l \in Loops, Handle(l) PROVE LoopTypes'
  <2>1. /\ loops[l].t # None /\ loops' = [loops EXCEPT ![l].t = None] /\ current' = current
        /\ done' = done \cup {loops[l].t} \/ done' = done
    BY <1>11 DEF Handle
  <2>2. /\ loops' \in [Loops -> Loop] /\ loops'[l].t = None
        /\ \A o \in Loops \ {l} : loops'[o] = loops[o]
    BY <1>0, <1>3, <2>1, LoopMoves DEF LoopTypes
  <2>3. loops[l].t \in 0 .. sent'
    BY <1>0, <1>1, <2>1 DEF Place
  <2>4. \A o \in Loops : loops'[o].t <= sent'
    BY <1>1, <1>3, <2>2
  <2>5. done' \subseteq 0 .. sent'
    BY <1>2, <2>1, <2>3
  <2> QED
    BY <1>2, <2>1, <2>2, <2>4, <2>5 DEF LoopTypes
<1>12. ASSUME NEW l \in Loops, End(l) PROVE LoopTypes'
  <2>1. loops' = [loops EXCEPT ![l].is = "gone"] /\ UNCHANGED <<current, done>>
    BY <1>12 DEF End, pastVars
  <2>2. loops' \in [Loops -> Loop] /\ \A o \in Loops : loops'[o].t = loops[o].t
    BY <1>0, <2>1, LoopMoves DEF LoopTypes
  <2> QED
    BY <1>2, <1>5, <2>1, <2>2
<1>13. CASE TakePush \/ Enqueue
  BY <1>4, <1>13 DEF TakePush, Enqueue, tableVars, pastVars
<1>14. CASE Start \/ Stop \/ Arm \/ Fire \/ Send \/ ConnectionStep
  BY <1>4, <1>14 DEF Start, Stop, Arm, Fire, Send, ConnectionStep, Greet, Fetch, Ready, Lose, GiveUp,
                     tableVars, pastVars
<1>15. CASE SealStep
  BY <1>4, <1>15 DEF SealStep, Seal, Register, RaiseSealed, SealedUp, SealedLost, SealedRefused,
                     tableVars, pastVars
<1>16. CASE Crash
  <2>1. loops' = [l \in Loops |-> NoLoop] /\ current' = None /\ done' = done
    BY <1>16 DEF Crash
  <2>2. NoLoop \in Loop /\ NoLoop.t = None
    BY DEF NoLoop, Loop, Place
  <2> HIDE DEF NoLoop
  <2> QED
    BY <1>5, <2>1, <2>2
<1> QED
  BY <1>7, <1>8, <1>9, <1>10, <1>11, <1>12, <1>13, <1>14, <1>15, <1>16 DEF ConnectorNext, TableStep

LEMMA LoginTypeOKKept ==
  ASSUME LoginTypeOK, ConnectorNext
  PROVE  LoginTypeOK'
<1>1. CallsMove
  BY EveryStepMoves
<1>2. CallTypes' /\ OwnerTypes'
  BY <1>1, CallTypesKept, UpOrDown, CalmIsBoolean DEF LoginTypeOK, OwnerTypes
<1>3. ConnTypes' /\ MarkTypes' /\ TableTypes'
  BY ConnTypesKept, MarkTypesKept, ReadTypesKept, QueueTypesKept, LoopTypesKept DEF TableTypes
<1> QED
  BY <1>2, <1>3 DEF LoginTypeOK

-----------------------------------------------------------------------------
(* A stop that met nobody is one. *)

\* What a step means for the loops: nothing, or one ends; one starts; one is stopped;
\* one takes its place.
LoopsRest ==
  /\ \A l \in Loops : loops'[l].is \in {loops[l].is, "gone"}
  /\ current' = current \/ \A l \in Loops : loops'[l].is = "gone"
LoopStarts == current' = current /\ \A l \in Loops : loops'[l].is \in {loops[l].is, "new"}
LoopStops == \A l \in Loops : loops'[l].is = IF l = current THEN "over" ELSE loops[l].is
LoopSettles == \E l \in Loops :
  /\ loops[l].is = "new" /\ current' = l
  /\ \A o \in Loops : loops'[o].is = IF o = l THEN "on" ELSE IF o = current THEN "over" ELSE loops[o].is

LEMMA UnloopStops ==
  ASSUME LoginTypeOK, NEW k \in {"stop", "again"}, Unloop(k)
  PROVE  LoopStops
<1>0. LoopTypes /\ loops \in [Loops -> Loop]
  BY DEF LoginTypeOK, TableTypes, LoopTypes
<1>1. CASE current = None
  BY <1>1 DEF Unloop, LoopStops, Loops, None
<1>2. CASE current # None
  <2>1. current \in Loops /\ loops' = [loops EXCEPT ![current].is = "over"]
    BY <1>0, <1>2 DEF Unloop, LoopTypes
  <2> QED
    BY <1>0, <2>1, LoopMoves DEF LoopStops
<1> QED
  BY <1>1, <1>2

LEMMA LoopsMove ==
  ASSUME LoginTypeOK, ConnectorNext
  PROVE  \/ LoopsRest
         \/ LoopStarts /\ \E k \in Callers : ~ Idle(k)
         \/ LoopStops /\ \E k \in {"stop", "again"} : Unloop(k)
         \/ LoopSettles
<1>0. LoopTypes /\ loops \in [Loops -> Loop]
  BY DEF LoginTypeOK, TableTypes, LoopTypes
<1>1. ASSUME UNCHANGED <<loops, current>> PROVE LoopsRest
  BY <1>1 DEF LoopsRest
<1>2. ASSUME NEW k \in {"start", "again"}, ConnectStep(k)
      PROVE  LoopsRest \/ (LoopStarts /\ k \in Callers /\ ~ Idle(k))
  <2>1. CASE NewLoop /\ current' = current /\ run[k].pc # "idle"
    BY <1>0, <2>1, NewLoopMoves DEF LoopStarts, Callers, Idle
  <2>2. CASE Unready(k) \/ Spawn(k)
    BY <1>1, <2>1, <2>2 DEF Unready, Spawn
  <2>3. CASE ~ Unready(k) /\ ~ Spawn(k)
    BY <1>1, <1>2, <2>3 DEF ConnectStep, Connect, Make, Sleep, LoadFails, Load, Cancelled, Join, Raise, tableVars
  <2> QED
    BY <2>2, <2>3
<1>3. ASSUME NEW k \in {"stop", "again"}, DropStep(k) PROVE LoopsRest \/ (LoopStops /\ Unloop(k))
  <2>1. CASE Unloop(k)
    BY <2>1, UnloopStops
  <2>2. CASE Drop(k) \/ Close(k)
    BY <1>1, <2>2 DEF Drop, Close, tableVars
  <2> QED
    BY <1>3, <2>1, <2>2 DEF DropStep
<1>4. ASSUME NEW l \in Loops, Settle(l) PROVE LoopSettles
  BY <1>0, <1>4, SettleMoves DEF Settle, LoopSettles
<1>5. ASSUME NEW l \in Loops, Take(l) \/ Handle(l) PROVE LoopsRest
  <2>1. PICK t \in Place : loops' = [loops EXCEPT ![l].t = t] /\ current' = current
    <3>1. CASE Take(l)
      <4>1. Head(queue) \in Place
        BY <3>1 DEF Take, LoginTypeOK, TableTypes, QueueTypes, Place
      <4> QED
        BY <3>1, <4>1 DEF Take
    <3>2. CASE Handle(l)
      BY <3>2 DEF Handle, Place
    <3> QED
      BY <1>5, <3>1, <3>2
  <2> QED
    BY <1>0, <2>1, LoopMoves DEF LoopsRest
<1>6. ASSUME NEW l \in Loops, End(l) PROVE LoopsRest
  BY <1>0, <1>6, LoopMoves DEF End, LoopsRest
<1>7. CASE TakePush \/ Enqueue
  BY <1>1, <1>7 DEF TakePush, Enqueue, tableVars
<1>8. CASE Start \/ Stop \/ Arm \/ Fire \/ Send \/ ConnectionStep
  BY <1>1, <1>8 DEF Start, Stop, Arm, Fire, Send, ConnectionStep, Greet, Fetch, Ready, Lose, GiveUp, tableVars
<1>9. CASE SealStep
  BY <1>1, <1>9 DEF SealStep, Seal, Register, RaiseSealed, SealedUp, SealedLost, SealedRefused, tableVars
<1>10. CASE Crash
  BY <1>10 DEF Crash, NoLoop, LoopsRest
<1> QED
  BY <1>2, <1>3, <1>4, <1>5, <1>6, <1>7, <1>8, <1>9, <1>10 DEF ConnectorNext, TableStep

LEMMA OneLoopKept ==
  ASSUME LoginTypeOK, OneLoop, ConnectorNext
  PROVE  OneLoop'
<1>1. CASE LoopsRest
  BY <1>1 DEF LoopsRest, OneLoop
<1>2. CASE LoopStarts
  BY <1>2 DEF LoopStarts, OneLoop
<1>3. CASE LoopStops
  BY <1>3 DEF LoopStops, OneLoop
<1>4. CASE LoopSettles
  BY <1>4 DEF LoopSettles, OneLoop
<1> QED
  BY <1>1, <1>2, <1>3, <1>4, LoopsMove

LEMMA CalmedKept ==
  ASSUME LoginTypeOK, OneLoop, Calmed, ConnectorNext, calm', wants' = "down"
  PROVE  Quiet'
<1> DEFINE Loud == run["stop"].pc \in {"drop", "close"}
<1>0. /\ armed \subseteq {"new", "armed"} /\ run \in [Goroutines -> Call] /\ calm \in BOOLEAN
      /\ Goroutines = {"start", "stop", "again"} /\ Callers = {"start", "again"}
      /\ run["stop"].pc \in {"idle", "drop", "close", "unloop"}
  BY DEF LoginTypeOK, ConnTypes, CallTypes, OwnerTypes, Goroutines, Callers
<1>21. ASSUME calm' = calm, wants' = wants PROVE calm /\ wants = "down"
  BY <1>21, Zenon
<1>1. ASSUME calm, wants = "down" PROVE
        /\ Idle("start") /\ Idle("again") /\ "new" \notin armed /\ \A l \in Loops : loops[l].is # "new"
        /\ ~ Loud => client = "nil" /\ conn = "off" /\ sealed = "nil"
        /\ Idle("stop") => armed = {} /\ \A l \in Loops : loops[l].is # "on"
  BY <1>0, <1>1 DEF Calmed, Quiet
\* What the loops do is no reason to doubt.
<1>2. ASSUME calm, wants = "down", ~ \E k \in {"stop", "again"} : Unloop(k)
      PROVE  \A l \in Loops : loops'[l].is \in {loops[l].is, "gone"}
  <2>1. ~ LoopSettles
    BY <1>1, <1>2 DEF LoopSettles
  <2>2. ~ \E k \in Callers : ~ Idle(k)
    BY <1>0, <1>1, <1>2
  <2> QED
    BY <1>2, <2>1, <2>2, LoopsMove DEF LoopsRest
\* A step that leaves the calls alone, and with a stop under way all but that there is none anew.
<1>3. ASSUME calm, wants = "down", run' = run,
             armed' \subseteq armed, Loud \/ UNCHANGED <<client, conn, sealed>>
      PROVE  Quiet'
  <2>1. ASSUME NEW k \in {"stop", "again"}, Unloop(k) PROVE FALSE
    <3>1. Drops(k) \/ Tears(k) \/ (k = "stop" /\ IsStopped)
      BY <2>1, DropStepMoves DEF DropStep
    <3> QED
      BY <1>0, <1>3, <3>1 DEF Drops, Tears, IsStopped
  <2> QED
    BY <1>0, <1>1, <1>2, <1>3, <2>1 DEF Idle, Quiet
\* A call that moves was not idle.
<1>4. ASSUME NEW k \in {"start", "again"}, ConnectStep(k) PROVE Quiet'
  <2>1. calm' = calm /\ wants' = wants /\ run[k].pc # "idle"
    BY <1>4 DEF ConnectStep, Connect, Make, Sleep, LoadFails, Unready, Load, Spawn, Cancelled, Join, Raise, ownerVars
  <2> QED
    BY <1>1, <2>1 DEF Idle
<1>5. ASSUME NEW k \in {"stop", "again"}, DropStep(k) PROVE Quiet'
  <2>1. calm' = calm /\ wants' = wants /\ run[k].pc # "idle"
    BY <1>5 DEF DropStep, Drop, Close, Unloop, ownerVars
  <2>2. calm /\ wants = "down" /\ k = "stop"
    BY <1>1, <2>1 DEF Idle
  <2>3. /\ \A o \in Callers : run'[o].pc = run[o].pc
        /\ Drop("stop") => run'["stop"].pc = "close"
        /\ Close("stop") => run'["stop"].pc = "unloop"
        /\ Unloop("stop") => run'["stop"].pc = "idle"
    <3>1. Drops("stop") \/ Tears("stop") \/ IsStopped
      BY <1>5, <2>2, DropStepMoves
    <3> QED
      BY <1>0, <1>5, <2>2, <3>1 DEF Drops, Tears, IsStopped, Only, DropStep, Drop, Close, Unloop
  <2>4. CASE Drop("stop")
    <3>1. armed' = armed /\ loops' = loops /\ run'["stop"].pc = "close"
      BY <1>0, <2>3, <2>4 DEF Drop, connVars, tableVars
    <3> QED
      BY <1>0, <1>1, <2>2, <2>3, <3>1 DEF Idle, Quiet
  <2>5. CASE Close("stop")
    <3>1. /\ armed' = armed /\ loops' = loops /\ run'["stop"].pc = "unloop"
          /\ client' = "nil" /\ conn' = "off" /\ sealed' = "nil"
      BY <1>0, <2>3, <2>5 DEF Drop, Close, tableVars
    <3> QED
      BY <1>0, <1>1, <2>2, <2>3, <3>1 DEF Idle, Quiet
  <2>6. CASE Unloop("stop")
    <3>1. /\ armed' = armed \ {"armed"} /\ run'["stop"].pc = "idle"
          /\ UNCHANGED <<client, conn, sealed>> /\ ~ Loud
      BY <1>0, <2>3, <2>6 DEF Drop, Close, Unloop
    <3>3. \A l \in Loops : loops'[l].is \notin {"on", "new"}
      <4>1. LoopStops
        BY <2>6, UnloopStops
      <4> QED
        BY <1>1, <2>2, <4>1 DEF LoopStops, OneLoop
    <3> QED
      BY <1>0, <1>1, <2>2, <2>3, <3>1, <3>3 DEF Idle, Quiet
  <2> QED
    BY <1>5, <2>2, <2>4, <2>5, <2>6 DEF DropStep
<1>6. CASE Start
  BY <1>6 DEF Start
<1>7. CASE Stop
  <2>1. Go("stop", "drop") /\ "drop" \in Pcs
    BY <1>7 DEF Stop, Pcs
  <2>2. /\ run'["start"] = run["start"] /\ run'["again"] = run["again"] /\ run'["stop"].pc = "drop"
    BY <1>0, <2>1, GoMoves
  <2> QED
    BY <1>7, <2>2 DEF Stop, Idle, Quiet, connVars, tableVars
\* Nothing of this is left behind a stop, and what comes again calls the stop in doubt.
<1>8. ASSUME Again, wants' = wants, armed # {} \/ conn # "off" \/ sealed # "nil" PROVE Quiet'
  <2>1. calm /\ Idle("stop") /\ wants = "down"
    BY <1>8 DEF Again
  <2>2. ~ Loud
    BY <2>1 DEF Idle
  <2> QED
    BY <1>1, <1>8, <2>1, <2>2
<1>9. CASE Fire
  BY <1>8, <1>9 DEF Fire
<1>10. CASE Arm
  BY <1>1, <1>21, <1>10 DEF Arm, ownerVars
<1>11. CASE Send
  BY <1>3, <1>21, <1>11 DEF Send, ownerVars, callVars, connVars, sealVars
<1>12. CASE Greet \/ Fetch \/ Ready \/ Lose
  <2>1. conn # "off" /\ calm' = calm /\ wants' = wants /\ run' = run /\ armed' = armed
    BY <1>12 DEF Greet, Fetch, Ready, Lose, Online, ownerVars, callVars, connVars
  <2> QED
    BY <1>1, <1>3, <1>21, <2>1
<1>13. CASE GiveUp
  <2>1. conn # "off" /\ wants' = wants /\ armed' \subseteq armed /\ (Again \/ (run' = run /\ calm' = calm))
    BY <1>13 DEF GiveUp
  <2> QED
    BY <1>1, <1>3, <1>8, <1>21, <2>1
<1>14. CASE TakePush \/ Enqueue
  BY <1>3, <1>21, <1>14 DEF TakePush, Enqueue, ownerVars, callVars, connVars, sealVars
<1>15. ASSUME NEW l \in Loops, Settle(l) \/ Take(l) \/ Handle(l) \/ End(l) PROVE Quiet'
  <2>1. UNCHANGED <<calm, wants, run, armed, client, conn, sealed>>
    BY <1>15 DEF Settle, Take, Handle, End, ownerVars, callVars, connVars, sealVars
  <2> QED
    BY <1>3, <1>21, <2>1
<1>16. CASE Seal \/ Register
  BY <1>3, <1>21, <1>16 DEF Seal, Register, ownerVars, callVars, connVars
<1>17. CASE RaiseSealed \/ SealedUp \/ SealedLost
  <2>1. UNCHANGED <<calm, wants, run, armed, client, conn>> /\ (sealed # "nil" \/ client # "nil" \/ sealed' = sealed)
    BY <1>17 DEF RaiseSealed, SealedUp, SealedLost, ownerVars, callVars, connVars
  <2> QED
    BY <1>1, <1>3, <1>21, <2>1
<1>18. CASE SealedRefused
  <2>1. /\ sealed # "nil" /\ UNCHANGED <<wants, armed, client, conn>>
        /\ Again \/ (run' = run /\ calm' = calm)
    BY <1>18 DEF SealedRefused, connVars
  <2> QED
    BY <1>1, <1>3, <1>8, <1>21, <2>1
<1>19. CASE Crash
  <2>1. \A l \in Loops : loops'[l].is = "gone"
    BY <1>19 DEF Crash, NoLoop
  <2>2. \A k \in Goroutines : run'[k].pc = "idle"
    BY <1>19 DEF Crash, Resting
  <2> QED
    BY <1>0, <1>19, <2>1, <2>2 DEF Crash, Quiet, Idle
<1> QED
  BY <1>4, <1>5, <1>6, <1>7, <1>9, <1>10, <1>11, <1>12, <1>13, <1>14, <1>15, <1>16, <1>17, <1>18, <1>19, Zenon
     DEF ConnectorNext, ConnectionStep, TableStep, SealStep

-----------------------------------------------------------------------------
(* No table that a sync would not bring again is forgotten. *)

\* A step that counts no further, and forgets no table.
LEMMA StillCovered ==
  ASSUME AllCovered, UNCHANGED <<from, sent>>,
         Cursors' \cup Counted' \subseteq Cursors \cup Counted \cup {None, 0},
         done \cup lost \cup Pipeline \subseteq done' \cup lost' \cup Pipeline' \cup {None, Page}
  PROVE  AllCovered'
<1> SUFFICES ASSUME NEW c \in Cursors' \cup Counted', NEW n \in 1 .. sent', from' < n, n <= c
             PROVE  n \in done' \cup lost' \cup Pipeline'
  BY DEF AllCovered, Covered
<1>1. c \notin {None, 0}
  BY DEF None
<1>2. n \in done \cup lost \cup Pipeline
  BY <1>1 DEF AllCovered, Covered
<1>3. n # None /\ n # Page
  BY DEF None, Page
<1> QED
  BY <1>2, <1>3

LEMMA SameCursors ==
  ASSUME UNCHANGED <<saved, cursor, got>>, client = "nil" => client' = "nil",
         run'["stop"].held \in {run["stop"].held, None}
  PROVE  Cursors' \cup Counted' \subseteq Cursors \cup Counted \cup {None, 0}
BY DEF Cursors, Counted

LEMMA SamePipeline ==
  ASSUME UNCHANGED <<queue, got>>, \A l \in Loops : loops'[l].t = loops[l].t
  PROVE  Pipeline' = Pipeline
BY DEF Pipeline, Tables

\* Connect, which may start anew.
LEMMA ConnectCovers ==
  ASSUME LoginTypeOK, AllCovered, NEW k \in Callers, ConnectStep(k)
  PROVE  AllCovered'
<1>0. /\ run'["stop"] = run["stop"] /\ run["stop"].held \in Nat \cup {None}
      /\ sent \in Nat /\ loops \in [Loops -> Loop]
  <2>1. run'["stop"] = run["stop"]
    BY ConnectStepMoves DEF Refuses, Enters, Advances, Leaves, Only, Callers, Goroutines
  <2> QED
    BY <2>1 DEF LoginTypeOK, CallTypes, Call, Goroutines, Place, MarkTypes, TableTypes, LoopTypes
<1>1. UNCHANGED <<sent, got, queue, done, lost>>
  BY DEF ConnectStep, Connect, Make, Sleep, LoadFails, Unready, Load, Spawn, Cancelled, Join, Raise,
         readVars, tableVars, pastVars
<1>2. \A l \in Loops : loops'[l].t = loops[l].t
  <2>1. CASE NewLoop
    BY <1>0, <2>1, NewLoopMoves
  <2>2. CASE loops' = loops
    BY <2>2
  <2> QED
    BY <2>1, <2>2 DEF ConnectStep, Connect, Make, Sleep, LoadFails, Unready, Load, Spawn, Cancelled, Join, Raise,
                      tableVars
<1>3. Pipeline' = Pipeline
  BY <1>1, <1>2, SamePipeline
<1>4. CASE Make(k)
  <2>1. /\ from' = from /\ saved' \in {saved, None}
        /\ \/ client = "nil" /\ client' = "nil"
           \/ client' # "nil" /\ cursor' \in {saved, IF client = "nil" THEN 0 ELSE cursor}
    BY <1>4 DEF Make, Kept
  <2>2. Cursors' \cup Counted' \subseteq Cursors \cup Counted \cup {None, 0}
    BY <1>0, <1>1, <2>1 DEF Cursors, Counted
  <2> QED
    BY <1>1, <1>3, <2>1, <2>2, StillCovered
<1>5. CASE Load(k)
  <2>1. CASE client = "nil"
    <3>1. UNCHANGED <<saved, cursor, got, client, from>>
      BY <1>5, <2>1 DEF Load, readVars, connVars
    <3> QED
      BY <1>0, <1>1, <1>3, <3>1, SameCursors, StillCovered
  <2>2. CASE client # "nil"
    <3>1. from' = sent
      BY <1>5, <2>2 DEF Load
    <3> QED
      BY <1>0, <1>1, <3>1 DEF AllCovered, Covered
  <2> QED
    BY <2>1, <2>2
<1>6. CASE ~ Make(k) /\ ~ Load(k)
  <2>1. UNCHANGED <<saved, cursor, from>> /\ (client = "nil" => client' = "nil")
    BY <1>6 DEF ConnectStep, Connect, Sleep, LoadFails, Unready, Spawn, Cancelled, Join, Raise, markVars, connVars
  <2> QED
    BY <1>0, <1>1, <1>3, <2>1, SameCursors, StillCovered
<1> QED
  BY <1>4, <1>5, <1>6

\* disconnect
LEMMA DropCovers ==
  ASSUME LoginTypeOK, AllCovered, NEW k \in {"stop", "again"}, DropStep(k)
  PROVE  AllCovered'
<1>0. /\ sent \in Nat /\ loops \in [Loops -> Loop] /\ got.t \in Nat \cup {None} /\ Callers = {"start", "again"}
      /\ from \in Nat /\ saved \in Nat \cup {None} /\ run["stop"].held \in Nat \cup {None} /\ cursor \in Nat
  BY DEF LoginTypeOK, CallTypes, Call, Goroutines, Callers, Place, MarkTypes, TableTypes, ReadTypes, LoopTypes
<1>1. CASE Drop(k)
  <2>1. UNCHANGED <<sent, got, queue, loops, done, lost, from, saved, cursor, client>>
    BY <1>1 DEF Drop, readVars, tableVars, pastVars, markVars, connVars
  <2>2. run'["stop"].held = run["stop"].held
    BY <1>1, DropMoves DEF LoginTypeOK, Goroutines
  <2> QED
    BY <2>1, <2>2, SameCursors, SamePipeline, StillCovered
<1>2. CASE Close(k)
  <2>1. PICK c \in {cursor} \cup Counted :
           /\ cursor' = c /\ lost' = lost \cup Missed({got.t}, Cursors \cup {c})
           /\ run'["stop"].held \in {run["stop"].held, None} \cup (IF client = "nil" THEN {} ELSE {c})
    BY <1>2, CloseHolds
  <2>2. UNCHANGED <<sent, queue, loops, done, from, saved>> /\ client' = "nil" /\ got' = NoTable
    BY <1>2 DEF Close, tableVars
  <2>3. Cursors' \subseteq {saved, run["stop"].held, None} \cup (IF client = "nil" THEN {} ELSE {c})
    BY <2>1, <2>2 DEF Cursors
  <2>4. Counted' = {}
    BY <2>2 DEF Counted, NoTable
  <2>5. \A x \in Cursors' : x # None => x \in (Cursors \cup Counted) \cap (Cursors \cup {c})
    BY <2>1, <2>3 DEF Cursors
  <2>6. Pipeline \subseteq Pipeline' \cup {got.t}
    BY <2>2 DEF Pipeline, Tables
  <2> SUFFICES ASSUME NEW x \in Cursors', x # None, NEW n \in 1 .. sent, from < n, n <= x
               PROVE  n \in done' \cup lost' \cup Pipeline'
    <3>1. \A n \in 1 .. sent : ~ n <= None
      BY <1>0 DEF None
    <3> QED
      BY <2>2, <2>4, <3>1 DEF AllCovered, Covered
  <2>7. n \in done \cup lost \cup Pipeline
    BY <2>5 DEF AllCovered, Covered
  <2>8. CASE n = got.t
    <3>1. n \in done \/ n \in Missed({got.t}, Cursors \cup {c})
      BY <2>5, <2>8 DEF Missed
    <3> QED
      BY <2>1, <2>2, <3>1
  <2>9. CASE n # got.t
    BY <2>1, <2>2, <2>6, <2>7, <2>9
  <2> QED
    BY <2>8, <2>9
<1>3. CASE Unloop(k)
  <2>1. /\ UNCHANGED <<sent, got, queue, done, lost, from, client, cursor>>
        /\ saved' \in {saved, run["stop"].held}
    BY <1>3 DEF Unloop, readVars, pastVars
  <2>2. run'["stop"].held \in {run["stop"].held, None}
    <3>0. run \in [Goroutines -> Call] /\ {"stop", "again"} \subseteq Goroutines /\ "connect" \in Pcs
      BY DEF LoginTypeOK, CallTypes, Goroutines, Pcs
    <3>1. CASE k = "stop"
      BY <1>3, <3>0, <3>1, LeaveMoves DEF Unloop
    <3>2. CASE k = "again"
      BY <1>3, <3>0, <3>2, GoMoves DEF Unloop
    <3> QED
      BY <3>1, <3>2
  <2>3. \A l \in Loops : loops'[l].t = loops[l].t
    <3>1. CASE current = None
      BY <1>3, <3>1 DEF Unloop
    <3>2. CASE current # None
      <4>1. current \in Loops /\ loops' = [loops EXCEPT ![current].is = "over"]
        BY <1>3, <3>2 DEF Unloop, LoginTypeOK, TableTypes, LoopTypes
      <4> QED
        BY <1>0, <4>1, LoopMoves
    <3> QED
      BY <3>1, <3>2
  <2>4. Cursors' \cup Counted' \subseteq Cursors \cup Counted \cup {None, 0}
    BY <2>1, <2>2 DEF Cursors, Counted
  <2> QED
    BY <2>1, <2>3, <2>4, SamePipeline, StillCovered
<1> QED
  BY <1>1, <1>2, <1>3 DEF DropStep

\* What the connection and the tables do: only where something is brought, queued,
\* taken or handled does the pipeline change.
LEMMA FetchCovers ==
  ASSUME LoginTypeOK, AllCovered, Fetch
  PROVE  AllCovered'
<1>0. /\ sent \in Nat /\ cursor \in Nat /\ client # "nil"
      /\ cursor' = cursor /\ saved' = saved /\ from' = from /\ sent' = sent /\ client' = client /\ run' = run
  BY DEF Fetch, LoginTypeOK, MarkTypes, ConnTypes, connVars, markVars, callVars
<1>1. /\ got = NoTable /\ got' = [t |-> cursor + 1, fetched |-> TRUE]
      /\ lost' = lost \ {cursor + 1} /\ done' = done /\ queue' = queue /\ loops' = loops
  BY DEF Fetch, tableVars
<1>2. Pipeline' \cup {None} = Pipeline \cup {None, cursor + 1}
  BY <1>1 DEF Pipeline, Tables, NoTable
<1>3. Cursors' = Cursors /\ cursor \in Cursors /\ Counted' = {cursor + 1} /\ cursor + 1 # None
  BY <1>0, <1>1 DEF Cursors, Counted, None
<1> SUFFICES ASSUME NEW c \in Cursors \cup {cursor + 1}, NEW n \in 1 .. sent, from < n, n <= c
             PROVE  n \in done' \cup lost' \cup Pipeline'
  BY <1>0, <1>3 DEF AllCovered, Covered
<1>4. CASE n = cursor + 1
  BY <1>2, <1>3, <1>4
<1>5. CASE n # cursor + 1
  <2>1. c = cursor + 1 => n <= cursor
    BY <1>0, <1>5
  <2>2. n \in done \cup lost \cup Pipeline
    BY <1>3, <2>1 DEF AllCovered, Covered
  <2>3. n # None
    BY DEF None
  <2> QED
    BY <1>1, <1>2, <1>5, <2>2, <2>3
<1> QED
  BY <1>4, <1>5

LEMMA EnqueueCovers ==
  ASSUME LoginTypeOK, AllCovered, Enqueue
  PROVE  AllCovered'
<1>1. /\ queue' = Append(queue, got.t) /\ got' = NoTable /\ loops' = loops
      /\ cursor' = IF got.fetched THEN got.t ELSE cursor
      /\ UNCHANGED <<client, run, saved, from, sent, done, lost>>
  BY DEF Enqueue, callVars, connVars, pastVars
<1>2. queue \in Seq(Nat)
  BY DEF LoginTypeOK, TableTypes, QueueTypes
<1>3. Tables(queue') = Tables(queue) \cup {got.t}
  <2>1. DOMAIN Append(queue, got.t) = DOMAIN queue \cup {Len(queue) + 1}
    BY <1>2
  <2>2. /\ \A i \in DOMAIN queue : Append(queue, got.t)[i] = queue[i]
        /\ Append(queue, got.t)[Len(queue) + 1] = got.t
    BY <1>2
  <2> QED
    BY <1>1, <2>1, <2>2 DEF Tables
<1>4. Pipeline \subseteq Pipeline'
  BY <1>1, <1>3 DEF Pipeline
<1>5. Cursors' \cup Counted' \subseteq Cursors \cup Counted
  BY <1>1 DEF Cursors, Counted, NoTable
<1> QED
  BY <1>1, <1>4, <1>5, StillCovered

LEMMA TakeCovers ==
  ASSUME LoginTypeOK, AllCovered, NEW l \in Loops, Take(l)
  PROVE  AllCovered'
<1>0. queue \in Seq(Nat) /\ loops \in [Loops -> Loop]
  BY DEF LoginTypeOK, TableTypes, QueueTypes, LoopTypes
<1>1. /\ queue # << >> /\ queue' = Tail(queue) /\ loops[l].t = None
      /\ loops' = [loops EXCEPT ![l].t = Head(queue)]
      /\ UNCHANGED <<client, run, saved, cursor, from, sent, done, lost, got>>
  BY DEF Take, callVars, connVars, pastVars, readVars, markVars
<1>2. Tables(queue) \subseteq Tables(queue') \cup {Head(queue)}
  <2> SUFFICES ASSUME NEW i \in DOMAIN queue PROVE queue[i] \in Tables(queue') \cup {Head(queue)}
    BY DEF Tables
  <2>1. CASE i = 1
    BY <1>0, <1>1, <2>1
  <2>2. CASE i # 1
    <3>1. i - 1 \in DOMAIN Tail(queue) /\ Tail(queue)[i - 1] = queue[i]
      BY <1>0, <1>1, <2>2
    <3> QED
      BY <1>1, <3>1 DEF Tables
  <2> QED
    BY <2>1, <2>2
<1>3. /\ loops'[l].t = Head(queue) /\ \A o \in Loops \ {l} : loops'[o] = loops[o]
  <2>1. Head(queue) \in Place
    BY <1>0, <1>1 DEF Place
  <2> QED
    BY <1>0, <1>1, <2>1, LoopMoves
<1>4. Pipeline \subseteq Pipeline' \cup {None}
  BY <1>1, <1>2, <1>3 DEF Pipeline
<1>5. Cursors' = Cursors /\ Counted' = Counted
  BY <1>1 DEF Cursors, Counted
<1> QED
  BY <1>1, <1>4, <1>5, StillCovered

LEMMA HandleCovers ==
  ASSUME LoginTypeOK, AllCovered, NEW l \in Loops, Handle(l)
  PROVE  AllCovered'
<1> DEFINE t == loops[l].t
<1>0. /\ sent \in Nat /\ loops \in [Loops -> Loop] /\ t # None /\ t \in Nat /\ from \in Nat
      /\ loops' = [loops EXCEPT ![l].t = None]
      /\ UNCHANGED <<client, run, saved, from, sent, got, queue>>
  <2>1. loops \in [Loops -> Loop] /\ t \in Nat \cup {None} /\ sent \in Nat /\ from \in Nat
    BY DEF LoginTypeOK, TableTypes, LoopTypes, Loop, Place, MarkTypes
  <2>2. t # None /\ loops' = [loops EXCEPT ![l].t = None]
        /\ UNCHANGED <<client, run, saved, from, sent, got, queue>>
    BY DEF Handle, callVars, connVars, readVars
  <2> QED
    BY <2>1, <2>2
<1>1. /\ \A o \in Loops \ {l} : loops'[o] = loops[o]
  BY <1>0, LoopMoves DEF Place
<1>2. Pipeline \subseteq Pipeline' \cup {t}
  BY <1>0, <1>1 DEF Pipeline, Tables
<1>3. Counted' = Counted
  BY <1>0 DEF Counted
<1> HIDE DEF t
<1>4. CASE /\ done' = done \cup {t} /\ cursor' = t
           /\ lost' = (lost \cup Missed(1 .. (t - 1), {t})) \ (Pipeline \cup {t})
  <2>1. Cursors' \subseteq Cursors \cup {t}
    BY <1>0, <1>4 DEF Cursors
  <2> SUFFICES ASSUME NEW c \in Cursors \cup {t} \cup Counted, NEW n \in 1 .. sent, from < n, n <= c
               PROVE  n \in done' \cup lost' \cup Pipeline'
    BY <1>0, <1>3, <2>1 DEF AllCovered, Covered
  <2>2. CASE n = t
    BY <1>4, <2>2
  <2>3. CASE n # t /\ n \in Pipeline
    BY <1>2, <2>3
  <2>4. CASE n # t /\ n \notin Pipeline /\ c \in Cursors \cup Counted
    <3>1. n \in done \cup lost
      BY <2>4 DEF AllCovered, Covered
    <3> QED
      BY <1>4, <2>4, <3>1
  <2>5. CASE n # t /\ n \notin Pipeline /\ c = t
    <3>1. n \in 1 .. (t - 1)
      BY <1>0, <2>5
    <3>2. n \in done \/ n \in Missed(1 .. (t - 1), {t})
      BY <2>5, <3>1 DEF Missed
    <3> QED
      BY <1>4, <2>5, <3>2
  <2> QED
    BY <2>2, <2>3, <2>4, <2>5
<1>5. CASE done' = done \cup {t} /\ cursor' = cursor /\ lost' = lost
  <2>1. Cursors' = Cursors
    BY <1>0, <1>5 DEF Cursors
  <2>2. done \cup lost \cup Pipeline \subseteq done' \cup lost' \cup Pipeline'
    BY <1>2, <1>5
  <2> QED
    BY <1>0, <1>3, <2>1, <2>2, StillCovered
<1>6. CASE done' = done /\ cursor' = cursor /\ lost' = lost \cup Missed({t}, Cursors \cup Counted)
  <2>1. Cursors' = Cursors
    BY <1>0, <1>6 DEF Cursors
  <2> SUFFICES ASSUME NEW c \in Cursors \cup Counted, NEW n \in 1 .. sent, from < n, n <= c
               PROVE  n \in done' \cup lost' \cup Pipeline'
    BY <1>0, <1>3, <2>1 DEF AllCovered, Covered
  <2>2. n \in done \cup lost \cup Pipeline
    BY DEF AllCovered, Covered
  <2>3. n = t => n \in done \/ n \in Missed({t}, Cursors \cup Counted)
    BY DEF Missed
  <2> QED
    BY <1>2, <1>6, <2>2, <2>3
<1> QED
  BY <1>4, <1>5, <1>6 DEF Handle, t

LEMMA CrashCovers ==
  ASSUME LoginTypeOK, Crash
  PROVE  AllCovered'
<1>0. sent \in Nat /\ from \in Nat /\ saved \in Nat \cup {None}
  BY DEF LoginTypeOK, MarkTypes, Place
<1>1. /\ lost' = lost \cup Missed(1 .. sent, {saved}) /\ client' = "nil" /\ got' = NoTable
      /\ run' = [k \in Goroutines |-> Resting] /\ UNCHANGED <<sent, saved, from, done>>
  BY DEF Crash
<1>2. Cursors' \cup Counted' = {saved, None}
  BY <1>1 DEF Cursors, Counted, NoTable, Resting, Goroutines
<1> SUFFICES ASSUME NEW n \in 1 .. sent, from < n, n <= saved
             PROVE  n \in done' \cup lost'
  <2>1. \A n \in 1 .. sent : ~ n <= None
    BY <1>0 DEF None
  <2> QED
    BY <1>1, <1>2, <2>1 DEF AllCovered, Covered
<1> QED
  BY <1>1 DEF Missed

LEMMA SendCovers ==
  ASSUME LoginTypeOK, AllCovered, Send
  PROVE  AllCovered'
<1>0. /\ sent \in Nat /\ sent' = sent + 1
      /\ UNCHANGED <<saved, cursor, from, client, run, got, queue, loops, done, lost>>
  BY DEF LoginTypeOK, MarkTypes, Send, callVars, connVars, tableVars, markVars, pastVars
<1>1. Cursors' = Cursors /\ Counted' = Counted /\ Pipeline' = Pipeline
  BY <1>0 DEF Cursors, Counted, Pipeline, Tables
<1>2. \A c \in Cursors \cup Counted : c \in Int /\ c <= sent
  <2>1. \A c \in Counted : c \in 0 .. sent
    BY CountedTypes
  <2>2. \A c \in Cursors : c \in Nat \cup {None} /\ c <= sent
    BY <1>0 DEF Cursors, LoginTypeOK, MarkTypes, CallTypes, Call, Goroutines, Place, None
  <2> QED
    BY <1>0, <2>1, <2>2 DEF None
<1> SUFFICES ASSUME NEW c \in Cursors \cup Counted, NEW n \in 1 .. (sent + 1), from < n, n <= c
             PROVE  n \in done \cup lost \cup Pipeline
  BY <1>0, <1>1 DEF AllCovered, Covered
<1>3. n \in 1 .. sent
  BY <1>0, <1>2
<1> QED
  BY <1>3 DEF AllCovered, Covered

LEMMA AllCoveredKept ==
  ASSUME LoginTypeOK, AllCovered, ConnectorNext
  PROVE  AllCovered'
<1>1. ASSUME UNCHANGED <<sent, from, saved, cursor, queue, loops, done, lost>>, got' = got \/ got = NoTable,
             run'["stop"].held \in {run["stop"].held, None}, client = "nil" => client' = "nil",
             Counted' \subseteq Counted
      PROVE  AllCovered'
  <2>1. Pipeline \subseteq Pipeline' \cup {None}
    BY <1>1 DEF Pipeline, Tables, NoTable
  <2>2. Cursors' \cup Counted' \subseteq Cursors \cup Counted \cup {None, 0}
    BY <1>1 DEF Cursors
  <2> QED
    BY <1>1, <2>1, <2>2, StillCovered
<1>2. ASSUME NEW k \in {"start", "again"}, ConnectStep(k) PROVE AllCovered'
  BY <1>2, ConnectCovers DEF Callers
<1>3. ASSUME NEW k \in {"stop", "again"}, DropStep(k) PROVE AllCovered'
  BY <1>3, DropCovers
<1>4. ASSUME ~ Close("stop") PROVE run'["stop"].held \in {run["stop"].held, None}
  BY <1>4, EveryStepMoves, HeldKept DEF LoginTypeOK
<1>6. got' = got => Counted' = Counted
  BY DEF Counted
<1>7. CASE Start \/ Stop \/ Fire \/ GiveUp \/ SealedRefused
  <2>1. /\ UNCHANGED <<sent, from, saved, cursor, queue, loops, done, lost, got>>
        /\ client = "nil" => client' = "nil"
    BY <1>7 DEF Start, Stop, Fire, GiveUp, SealedRefused, LoginTypeOK, ConnTypes,
                connVars, readVars, tableVars, markVars, pastVars
  <2> QED
    BY <1>1, <1>3, <1>4, <1>6, <2>1 DEF DropStep
<1>8. CASE Arm \/ Greet \/ Lose
  BY <1>1, <1>6, <1>8 DEF Arm, Greet, Lose, callVars, connVars, readVars, tableVars, markVars, pastVars
<1>9. CASE Ready
  <2>1. got = NoTable /\ (got' = got \/ got' = [t |-> Page, fetched |-> FALSE])
        /\ UNCHANGED <<sent, from, saved, cursor, queue, loops, done, lost, run, client>>
    BY <1>9 DEF Ready, callVars, tableVars, markVars, pastVars
  <2>2. Counted' \subseteq Counted
    BY <2>1 DEF Counted
  <2> QED
    BY <1>1, <2>1, <2>2
<1>10. CASE TakePush
  <2>1. got = NoTable /\ got' = [t |-> Head(pushes), fetched |-> FALSE]
        /\ UNCHANGED <<sent, from, saved, cursor, queue, loops, done, lost, run, client>>
    BY <1>10 DEF TakePush, callVars, connVars, tableVars, markVars, pastVars
  <2>2. Counted' \subseteq Counted
    BY <2>1 DEF Counted
  <2> QED
    BY <1>1, <2>1, <2>2
<1>11. ASSUME NEW l \in Loops, Settle(l) \/ End(l) PROVE AllCovered'
  <2>1. UNCHANGED <<sent, from, saved, cursor, queue, done, lost, got, run, client>>
    BY <1>11 DEF Settle, End, callVars, connVars, readVars, markVars, pastVars
  <2>2. \A o \in Loops : loops'[o].t = loops[o].t
    BY <1>11, SettleMoves, LoopMoves DEF End, LoginTypeOK, TableTypes, LoopTypes
  <2> QED
    BY <2>1, <2>2, SamePipeline, SameCursors, StillCovered
<1>12. CASE Seal \/ Register \/ RaiseSealed \/ SealedUp \/ SealedLost
  BY <1>1, <1>6, <1>12 DEF Seal, Register, RaiseSealed, SealedUp, SealedLost, callVars, connVars, readVars,
                           tableVars, markVars, pastVars
<1> QED
  BY <1>2, <1>3, <1>7, <1>8, <1>9, <1>10, <1>11, <1>12,
     FetchCovers, EnqueueCovers, TakeCovers, HandleCovers, CrashCovers, SendCovers
     DEF ConnectorNext, ConnectionStep, TableStep, SealStep

-----------------------------------------------------------------------------
LEMMA LoginInit == Init => LoginInv
<1> SUFFICES ASSUME Init PROVE LoginInv
  OBVIOUS
<1>1. Resting \in Call /\ Resting.pc = "idle" /\ Resting.cancelled = FALSE /\ Resting.held = None
  BY ConnectorAssumption DEF Resting, Call, Pcs, Place
<1>2. NoLoop \in Loop /\ NoLoop.is = "gone" /\ NoLoop.t = None
  BY DEF NoLoop, Loop, Place
<1>3. NoTable \in [t : Place, fetched : BOOLEAN] /\ NoTable.t = None /\ NoTable.fetched = FALSE
  BY DEF NoTable, Place
<1>4. \A k \in Goroutines : run[k] = Resting
  BY DEF Init
<1> HIDE DEF Resting, NoLoop, NoTable
<1>5. CallTypes /\ OwnerTypes
  BY <1>1 DEF Init, CallTypes, OwnerTypes, Idle, Goroutines
<1>6. ConnTypes /\ MarkTypes
  BY <1>1 DEF Init, ConnTypes, MarkTypes, Place, Goroutines, None
<1>7. ReadTypes /\ QueueTypes /\ LoopTypes
  BY <1>2, <1>3, ConnectorAssumption DEF Init, ReadTypes, QueueTypes, LoopTypes, None
<1>8. Alone /\ Answered /\ StandsStillOnlySaid
  BY <1>1, <1>4 DEF Init, Alone, Answered, StandsStillOnlySaid, Connecting, Goroutines
<1>9. OneLoop /\ Calmed
  BY <1>1, <1>2 DEF Init, OneLoop, Calmed, Quiet, Idle, Goroutines
<1>10. AllCovered
  BY DEF Init, AllCovered, Covered
<1> QED
  BY <1>5, <1>6, <1>7, <1>8, <1>9, <1>10 DEF LoginInv, LoginTypeOK, TableTypes

LEMMA LoginNext == LoginInv /\ [ConnectorNext]_connectorVars => LoginInv'
<1> SUFFICES ASSUME LoginInv, [ConnectorNext]_connectorVars PROVE LoginInv'
  OBVIOUS
<1>1. CASE ConnectorNext
  <2>1. LoginTypeOK /\ CallTypes /\ OwnerTypes /\ CallsMove
    BY <1>1, EveryStepMoves DEF LoginInv, LoginTypeOK
  <2>2. LoginTypeOK'
    BY <1>1, LoginTypeOKKept DEF LoginInv
  <2>3. Alone' /\ Answered' /\ StandsStillOnlySaid'
    BY <2>1, AloneKept, AnsweredKept, StandsStillKept DEF LoginInv
  <2>4. OneLoop'
    BY <1>1, OneLoopKept DEF LoginInv
  <2>5. Calmed'
    <3>1. ASSUME calm', wants' = "down" PROVE Quiet'
      BY <1>1, <3>1, CalmedKept DEF LoginInv
    <3> QED
      BY <3>1 DEF Calmed
  <2>6. AllCovered'
    BY <1>1, AllCoveredKept DEF LoginInv
  <2> QED
    BY <2>2, <2>3, <2>4, <2>5, <2>6 DEF LoginInv
<1>2. CASE UNCHANGED connectorVars
  <2> USE <1>2 DEF connectorVars, ownerVars, callVars, connVars, sealVars, readVars, tableVars, markVars, pastVars
  <2>1. CallTypes' /\ OwnerTypes' /\ ConnTypes' /\ MarkTypes'
    BY DEF LoginInv, LoginTypeOK, CallTypes, OwnerTypes, ConnTypes, MarkTypes, Idle
  <2>2. TableTypes'
    BY DEF LoginInv, LoginTypeOK, TableTypes, ReadTypes, QueueTypes, LoopTypes
  <2>3. Alone' /\ Answered' /\ StandsStillOnlySaid'
    BY DEF LoginInv, Alone, Answered, StandsStillOnlySaid, Trying, Idle
  <2>4. OneLoop' /\ Calmed'
    BY DEF LoginInv, OneLoop, Calmed, Quiet, Idle
  <2>5. AllCovered'
    BY DEF LoginInv, AllCovered, Covered, Cursors, Counted, Pipeline, Tables
  <2> QED
    BY <2>1, <2>2, <2>3, <2>4, <2>5 DEF LoginInv, LoginTypeOK
<1> QED
  BY <1>1, <1>2

LEMMA LoginInvariance == ConnectorSpec => []LoginInv
BY LoginInit, LoginNext, PTL DEF ConnectorSpec

\* A Disconnect that meets nobody leaves nothing behind that works on or connects
\* again by itself, for any number of tables, restarts and failures (disconnect).
THEOREM AStopIsOne == ConnectorSpec => []ConnectorInv
<1>1. LoginInv => ConnectorInv
  <2> SUFFICES ASSUME LoginInv PROVE ConnectorInv
    OBVIOUS
  <2>1. ConnectorTypeOK
    BY DEF LoginInv, LoginTypeOK, CallTypes, Call, OwnerTypes, ConnTypes, MarkTypes, TableTypes, QueueTypes,
           LoopTypes, ConnectorTypeOK
  <2>2. StopStays
    BY DEF LoginInv, Calmed, Quiet, StopStays, Idle
  <2> QED
    BY <2>1, <2>2 DEF ConnectorInv
<1> QED
  BY <1>1, LoginInvariance, PTL

\* A table that a cursor has passed was handled, or is on its way, or is among those
\* counted as lost (handleParsedTable, SyncSocketData, disconnect, Connect).
THEOREM NoTableIsForgotten == ConnectorSpec => []HandledBeforePassed
<1>1. LoginInv => HandledBeforePassed
  BY DEF LoginInv, AllCovered, Covered, HandledBeforePassed
<1> QED
  BY <1>1, LoginInvariance, PTL

\* A login that should be connected and that nobody connects has said so, or left
\* it to a call it met (Connect, connectWithRetry, FullReconnect).
THEOREM ItSaysThatItStandsStill == ConnectorSpec => []StandsStillOnlySaid
<1>1. LoginInv => StandsStillOnlySaid
  BY DEF LoginInv
<1> QED
  BY <1>1, LoginInvariance, PTL

\* The values a message is made of.
Texts == {"", "text", "title", "page"}
Sealable == {"image", "video", "audio", "document", "sticker", "viewOnce"}
MessageKinds == Sealable \cup {"text", "extended", "share", "sear", "bump", "place", "livePlace", "contact",
                               "storeSticker", "timer", "instagram"}
Kinds == MessageKinds \cup {"reaction", "edit", "revoke"}
Meanings == Kinds \cup {"location", "gif", "voice", "file", "still"}

MessageKeys == [id : Nat, fromMe : BOOLEAN, participant : Users \cup {NoUser}, remote : Users \cup {"group", "none"}]

Entries == [by : Devices \cup {"nobody"}, kind : Kinds, words : Seq(Texts),
            cta : [action : {"", "page", "redirect"}, native : {"", "page", "place"}],
            about : {"none", "place", "still"}, sealedAs : {"none", "image", "video", "audio", "document"},
            ptt : BOOLEAN, quote : [id : Nat, participant : Users \cup {NoUser}], key : MessageKeys, at : Nat,
            meant : Meanings, target : Nat, said : Texts]

\* What the parts of a message have to do with one another.
Content(e) ==
    /\ Len(e.words) = IF e.kind = "extended" THEN 3 ELSE IF e.kind = "share" THEN 2 ELSE 1
    /\ e.words[1] # "" => e.kind \in {"text", "extended", "image", "video", "share"} /\ e.cta.native # "place"
    /\ e.said = e.words[1] \/ e.kind \in Captionless
    /\ e.meant = "location" => e.kind = "share" /\ e.cta.native = "place"
    /\ e.about = "place" => e.meant = "location"
    /\ e.sealedAs # "none" => e.kind \in Sealable
    /\ e.kind = "image" => e.sealedAs = "image" /\ e.meant \in {"image", "gif"}
    /\ e.kind = "video" => /\ e.sealedAs = "video" /\ e.meant \in {"video", "gif", "still"}
                           /\ e.about = "still" => e.meant = "still"
    /\ e.kind = "audio" => e.sealedAs = "audio" /\ e.meant = IF e.ptt THEN "voice" ELSE "audio"
    /\ e.kind = "document" => e.sealedAs = "document" /\ e.meant = "file"
    /\ e.kind = "sticker" => e.sealedAs = "image" /\ e.meant = "sticker"
    /\ e.kind = "viewOnce" => e.sealedAs \in {"image", "video"} /\ e.meant = "viewOnce"

Fresh(e) == /\ e \in Entries /\ e.kind \in MessageKinds /\ e.kind # "bump" /\ Content(e)
            /\ e.quote = NoQuote /\ e.target = 0 /\ e.at = 0

LEMMA NothingWell == NoQuote \in [id : Nat, participant : Users \cup {NoUser}] /\ NoKey \in MessageKeys
                     /\ NoCall \in [action : {"", "page", "redirect"}, native : {"", "page", "place"}]
BY DEF NoQuote, NoKey, NoCall, MessageKeys

\* A message made of a kind, words and a way of sealing, and of nothing else.
Made(h, kind, words, as) ==
    /\ h \in Entries /\ h.kind = kind /\ h.words = words /\ h.cta = NoCall /\ h.about = "none"
    /\ h.sealedAs = as /\ h.ptt = FALSE /\ h.quote = NoQuote /\ h.key = NoKey /\ h.at = 0
    /\ h.meant = kind /\ h.target = 0 /\ h.said = words[1]

LEMMA WordsWell ==
    /\ \A w : Len(<<w>>) = 1 /\ <<w>>[1] = w
    /\ \A w \in Texts : <<w>> \in Seq(Texts)
    /\ "" \in Texts /\ "text" \in Texts /\ "title" \in Texts /\ "page" \in Texts
    /\ Sealable \subseteq Kinds /\ MessageKinds \subseteq Kinds /\ Kinds \subseteq Meanings
    /\ {"image", "video", "audio", "document", "sticker", "viewOnce"} \subseteq Sealable
    /\ {"text", "extended", "share", "sear", "bump", "place", "livePlace", "contact",
        "storeSticker", "timer", "instagram"} \subseteq MessageKinds
    /\ {"reaction", "edit", "revoke"} \subseteq Kinds
    /\ {"location", "gif", "voice", "file", "still"} \subseteq Meanings
<1>1. (\A w : Len(<<w>>) = 1 /\ <<w>>[1] = w) /\ \A w \in Texts : <<w>> \in Seq(Texts)
    OBVIOUS
<1> QED
    BY <1>1 DEF Texts, Kinds, MessageKinds, Sealable, Meanings

LEMMA PairWell ==
    ASSUME NEW a \in Texts, NEW b \in Texts
    PROVE  <<a, b>> \in Seq(Texts) /\ Len(<<a, b>>) = 2 /\ <<a, b>>[1] = a /\ <<a, b>>[2] = b
OBVIOUS

LEMMA TripleWell ==
    ASSUME NEW a \in Texts, NEW b \in Texts, NEW c \in Texts
    PROVE  /\ <<a, b, c>> \in Seq(Texts) /\ Len(<<a, b, c>>) = 3
           /\ <<a, b, c>>[1] = a /\ <<a, b, c>>[2] = b /\ <<a, b, c>>[3] = c
OBVIOUS

LEMMA Triples ==
    ASSUME NEW A, NEW B, NEW C, NEW w \in A \X B \X C
    PROVE  \E a \in A, b \in B, c \in C : w = <<a, b, c>>
OBVIOUS

LEMMA Pairs ==
    ASSUME NEW A, NEW B, NEW w \in A \X B
    PROVE  \E a \in A, b \in B : w = <<a, b>>
OBVIOUS

LEMMA LinksWell ==
    ASSUME NEW w \in Links
    PROVE  w \in Seq(Texts) /\ Len(w) = 3 /\ w[1] \in Texts
<1> DEFINE A == {"", "text"}
           B == {"", "page"}
<1>a. w \in A \X B \X B /\ A \subseteq Texts /\ B \subseteq Texts
    BY DEF Links, Texts
<1> HIDE DEF A, B
<1>1. PICK a \in A, b \in B, c \in B : w = <<a, b, c>>
    BY <1>a, Triples
<1>2. a \in Texts /\ b \in Texts /\ c \in Texts
    BY <1>a
<1> QED
    BY <1>1, <1>2, TripleWell

LEMMA TitlesWell ==
    ASSUME NEW w \in Titles
    PROVE  w \in Seq(Texts) /\ Len(w) = 2 /\ w[1] \in Texts
<1> DEFINE A == {"", "text"}
           B == {"", "title"}
<1>a. w \in A \X B /\ A \subseteq Texts /\ B \subseteq Texts
    BY DEF Titles, Texts
<1> HIDE DEF A, B
<1>1. PICK a \in A, b \in B : w = <<a, b>>
    BY <1>a, Pairs
<1>2. a \in Texts /\ b \in Texts
    BY <1>a
<1> QED
    BY <1>1, <1>2, PairWell

LEMMA HoldingWell ==
    ASSUME NEW kind \in Kinds, NEW words \in Seq(Texts), words[1] \in Texts
    PROVE  Made(Holding(kind, words), kind, words, "none")
<1>1. "text" \in Kinds /\ <<"">> \in Seq(Texts) /\ kind \in Meanings
    BY WordsWell
<1>2. NoQuote \in [id : Nat, participant : Users \cup {NoUser}] /\ NoKey \in MessageKeys
      /\ NoCall \in [action : {"", "page", "redirect"}, native : {"", "page", "place"}]
    BY NothingWell
<1>3. Blank \in Entries
    BY <1>1, <1>2, WordsWell DEF Blank, Entries
<1>4. Holding(kind, words) \in Entries
    BY <1>1, <1>3 DEF Holding, Entries
<1> QED
    BY <1>4 DEF Holding, Blank, Made

LEMMA MediaWell ==
    ASSUME NEW kind \in Sealable, NEW as \in {"image", "video", "audio", "document"}, NEW caption \in Texts
    PROVE  Made(Media(kind, as, caption), kind, <<caption>>, as)
<1> DEFINE h == Holding(kind, <<caption>>)
<1>1. kind \in Kinds /\ <<caption>> \in Seq(Texts) /\ <<caption>>[1] \in Texts
    BY WordsWell
<1>2. Made(h, kind, <<caption>>, "none")
    BY <1>1, HoldingWell
<1> HIDE DEF h
<1>3. Media(kind, as, caption) = [h EXCEPT !.sealedAs = as]
    BY DEF Media, h
<1> QED
    BY <1>2, <1>3 DEF Entries, Made

\* The messages that are plain text, or hold nothing anybody reads.
LEMMA PlainIsFresh ==
    ASSUME NEW kind \in MessageKinds \ (Sealable \cup {"extended", "share", "bump"}), NEW w \in {"", "text"},
           kind = "text" \/ w = "", NEW e, Made(e, kind, <<w>>, "none")
    PROVE  Fresh(e)
<1>1. Len(<<w>>) = 1 /\ <<w>>[1] = w
    OBVIOUS
<1>2. kind \notin Sealable /\ kind \in MessageKinds /\ kind # "extended" /\ kind # "share" /\ kind # "location" /\ kind # "bump"
    BY DEF MessageKinds, Sealable
<1>3. /\ e \in Entries /\ e.kind = kind /\ e.words = <<w>> /\ e.sealedAs = "none" /\ e.about = "none"
      /\ e.meant = kind /\ e.quote = NoQuote /\ e.at = 0 /\ e.target = 0 /\ e.cta = NoCall
      /\ e.said = <<w>>[1]
    BY DEF Made
<1>4. e.kind \in {"image", "video", "audio", "document", "sticker", "viewOnce"} => FALSE
    BY <1>2, <1>3 DEF Sealable
<1>5. NoCall.native = ""
    BY DEF NoCall
<1>6. Content(e)
    BY <1>1, <1>2, <1>3, <1>4, <1>5 DEF Content
<1> QED
    BY <1>2, <1>3, <1>6 DEF Fresh

LEMMA TextIsFresh == Fresh(Holding("text", <<"text">>))
<1>1. "text" \in Kinds /\ <<"text">> \in Seq(Texts) /\ <<"text">>[1] \in Texts
    BY WordsWell
<1>2. "text" \in MessageKinds \ (Sealable \cup {"extended", "share", "bump"})
    BY DEF MessageKinds, Sealable
<1>3. Made(Holding("text", <<"text">>), "text", <<"text">>, "none")
    BY <1>1, HoldingWell
<1> QED
    BY <1>2, <1>3, PlainIsFresh

\* What is shown as what, of the media.
Suits(h) ==
    \/ h.kind = "image" /\ h.sealedAs = "image" /\ h.meant \in {"image", "gif"} /\ h.about = "none"
    \/ h.kind = "video" /\ h.sealedAs = "video" /\ h.meant \in {"video", "gif"} /\ h.about = "none"
    \/ h.kind = "video" /\ h.sealedAs = "video" /\ h.meant = "still" /\ h.about = "still"
    \/ /\ h.words[1] = "" /\ h.about = "none"
       /\ \/ h.kind = "audio" /\ h.sealedAs = "audio" /\ h.meant = IF h.ptt THEN "voice" ELSE "audio"
          \/ h.kind = "document" /\ h.sealedAs = "document" /\ h.meant = "file"
          \/ h.kind = "sticker" /\ h.sealedAs = "image" /\ h.meant = "sticker"
          \/ h.kind = "viewOnce" /\ h.sealedAs \in {"image", "video"} /\ h.meant = "viewOnce"

LEMMA MediaAreFresh ==
    ASSUME NEW h \in Entries, Len(h.words) = 1, h.quote = NoQuote, h.at = 0,
           h.target = 0, h.cta = NoCall, h.said = h.words[1] \/ h.kind \in Captionless, Suits(h)
    PROVE  Fresh(h)
<1>1. h.kind \in MessageKinds /\ h.kind \in Sealable /\ h.kind # "extended" /\ h.kind # "share" /\ h.kind # "bump"
    BY DEF Suits, MessageKinds, Sealable
<1>2. h.cta.native = ""
    <2>1. NoCall.native = ""
        BY DEF NoCall
    <2> QED
        BY <2>1
<1>3. h.meant # "location" /\ h.about # "place" /\ (h.words[1] # "" => h.kind \in {"image", "video"})
    BY DEF Suits
<1> QED
    BY <1>1, <1>2, <1>3 DEF Fresh, Content, Suits

LEMMA FromBridgeIsFresh ==
    ASSUME NEW e \in FromBridge
    PROVE  Fresh(e)
<1>1. CASE e \in SendText
    BY <1>1, TextIsFresh DEF SendText
<1>2. CASE e \in SendE2EEImage
    <2>1. PICK caption \in {"", "text"} : e = Media("image", "image", caption)
        BY <1>2 DEF SendE2EEImage
    <2>2. Made(e, "image", <<caption>>, "image")
        BY <2>1, MediaWell, WordsWell
    <2> QED
        BY <2>2, MediaAreFresh, WordsWell DEF Made, Suits, Captionless
<1>3. CASE e \in SendE2EEVideo
    <2>1. PICK caption \in {"", "text"} : e = Media("video", "video", caption)
        BY <1>3 DEF SendE2EEVideo
    <2>2. Made(e, "video", <<caption>>, "video")
        BY <2>1, MediaWell, WordsWell
    <2> QED
        BY <2>2, MediaAreFresh, WordsWell DEF Made, Suits, Captionless
<1>4. CASE e \in SendE2EEAudio
    <2> DEFINE h == Media("audio", "audio", "")
    <2>1. PICK p \in BOOLEAN : e = [h EXCEPT !.ptt = p, !.meant = IF p THEN "voice" ELSE "audio"]
        BY <1>4 DEF SendE2EEAudio
    <2>2. Made(h, "audio", <<"">>, "audio")
        BY MediaWell, WordsWell
    <2> HIDE DEF h
    <2>3. "voice" \in Meanings /\ "audio" \in Meanings
        BY WordsWell
    <2>4. /\ e \in Entries /\ e.kind = "audio" /\ e.words = <<"">> /\ e.cta = NoCall /\ e.about = "none"
          /\ e.sealedAs = "audio" /\ e.quote = NoQuote /\ e.at = 0 /\ e.target = 0
          /\ e.meant = IF e.ptt THEN "voice" ELSE "audio"
        BY <2>1, <2>2, <2>3 DEF Entries, Made
    <2> QED
        BY <2>4, MediaAreFresh, WordsWell DEF Suits, Captionless
<1>5. CASE e \in SendE2EEDocument
    <2> DEFINE h == Media("document", "document", "")
    <2>1. e = [h EXCEPT !.meant = "file"]
        BY <1>5 DEF SendE2EEDocument
    <2>2. Made(h, "document", <<"">>, "document")
        BY MediaWell, WordsWell
    <2> HIDE DEF h
    <2>3. "file" \in Meanings
        BY WordsWell
    <2>4. /\ e \in Entries /\ e.kind = "document" /\ e.words = <<"">> /\ e.cta = NoCall /\ e.about = "none"
          /\ e.sealedAs = "document" /\ e.quote = NoQuote /\ e.at = 0 /\ e.target = 0 /\ e.meant = "file"
        BY <2>1, <2>2, <2>3 DEF Entries, Made
    <2> QED
        BY <2>4, MediaAreFresh, WordsWell DEF Suits, Captionless
<1>6. CASE e \in SendE2EESticker
    <2>1. e = Media("sticker", "image", "")
        BY <1>6 DEF SendE2EESticker
    <2>2. Made(e, "sticker", <<"">>, "image")
        BY <2>1, MediaWell, WordsWell
    <2> QED
        BY <2>2, MediaAreFresh, WordsWell DEF Made, Suits, Captionless
<1> QED
    BY <1>1, <1>2, <1>3, <1>4, <1>5, <1>6 DEF FromBridge

LEMMA MatrixEventsAre ==
    ASSUME NEW evt \in MatrixEvents
    PROVE  /\ evt \in [type : {"text", "location", "image", "video", "audio", "file", "sticker"},
                       gif : BOOLEAN, voice : BOOLEAN, caption : {"", "text"}]
           /\ evt.gif => evt.type = "image" /\ ~ evt.voice
           /\ evt.voice => evt.type = "audio" /\ ~ evt.gif
BY DEF MatrixEvents

LEMMA FromConnectorIsFresh ==
    ASSUME NEW evt \in MatrixEvents, NEW ffmpeg \in BOOLEAN
    PROVE  Fresh(ToWhatsApp(evt, ffmpeg))
<1> DEFINE e == ToWhatsApp(evt, ffmpeg)
<1>0. /\ evt \in [type : {"text", "location", "image", "video", "audio", "file", "sticker"},
                  gif : BOOLEAN, voice : BOOLEAN, caption : {"", "text"}]
      /\ evt.gif => evt.type = "image" /\ ~ evt.voice
      /\ evt.voice => evt.type = "audio" /\ ~ evt.gif
    BY MatrixEventsAre
<1>1. CASE evt.type = "text"
    <2>1. e = Holding("text", <<"text">>)
        BY <1>1 DEF ToWhatsApp
    <2> QED
        BY <2>1, TextIsFresh
<1>2. CASE evt.type = "location"
    <2> DEFINE h == Holding("share", <<"", "title">>)
               cta == [action |-> "", native |-> "place"]
    <2>1. e = [h EXCEPT !.cta = cta, !.about = "place", !.meant = "location"]
        BY <1>2 DEF ToWhatsApp
    <2>2. /\ <<"", "title">> \in Seq(Texts) /\ Len(<<"", "title">>) = 2 /\ <<"", "title">>[1] = ""
          /\ "share" \in Kinds /\ "location" \in Meanings /\ "share" \in MessageKinds
          /\ "share" \notin Sealable
        BY PairWell, WordsWell DEF Sealable
    <2>3. Made(h, "share", <<"", "title">>, "none")
        BY <2>2, WordsWell, HoldingWell
    <2>4. cta \in [action : {"", "page", "redirect"}, native : {"", "page", "place"}] /\ cta.native = "place"
        OBVIOUS
    <2> HIDE DEF h, cta
    <2>5. /\ e \in Entries /\ e.kind = "share" /\ e.words = <<"", "title">> /\ e.cta = cta /\ e.about = "place"
          /\ e.meant = "location" /\ e.sealedAs = "none" /\ e.quote = NoQuote /\ e.at = 0 /\ e.target = 0
          /\ e.said = ""
        <3>1. /\ h \in Entries /\ h.kind = "share" /\ h.words = <<"", "title">> /\ h.sealedAs = "none"
              /\ h.quote = NoQuote /\ h.at = 0 /\ h.target = 0 /\ h.said = ""
            BY <2>2, <2>3 DEF Made
        <3>2. e \in Entries
            BY <2>1, <2>2, <2>4, <3>1 DEF Entries
        <3> QED
            BY <2>1, <3>1, <3>2 DEF Entries
    <2>6. Content(e)
        BY <2>2, <2>4, <2>5 DEF Content
    <2> QED
        BY <2>2, <2>5, <2>6 DEF Fresh
<1>3. CASE evt.type \notin {"text", "location"}
    <2> DEFINE v == ReuploadMediaToWhatsApp(evt, ffmpeg)
               h == WrapWhatsAppMedia(v)
    <2>1. e = [h EXCEPT !.meant = Meaning(evt), !.said = evt.caption] /\ evt.caption \in Texts
        BY <1>0, <1>3, WordsWell DEF ToWhatsApp
    <2>2. v = evt \/ (evt.gif /\ v = [evt EXCEPT !.type = "video"])
        BY DEF ReuploadMediaToWhatsApp
    <2>3. /\ v.voice = evt.voice /\ v.caption = evt.caption /\ v.caption \in {"", "text"}
          /\ v.type = evt.type \/ (evt.gif /\ v.type = "video")
        BY <1>0, <2>2
    <2>4. /\ Meaning(evt) \in Meanings
          /\ evt.gif => Meaning(evt) = "gif"
          /\ evt.voice => Meaning(evt) = "voice"
          /\ ~ evt.gif /\ ~ evt.voice => Meaning(evt) = evt.type
        BY <1>0, <1>3 DEF Meaning, Meanings, Kinds, MessageKinds, Sealable
    <2> HIDE DEF v
    <2>5. CASE v.type \in {"image", "video"}
        <3>1. h = Media(v.type, v.type, v.caption)
            BY <2>5 DEF WrapWhatsAppMedia, MsgToMediaType
        <3>2. Made(h, v.type, <<v.caption>>, v.type)
            BY <2>3, <2>5, <3>1, MediaWell, WordsWell
        <3> HIDE DEF h
        <3>3. /\ e \in Entries /\ e.kind = v.type /\ e.words = <<v.caption>> /\ e.cta = NoCall /\ e.about = "none"
              /\ e.sealedAs = v.type /\ e.quote = NoQuote /\ e.at = 0 /\ e.target = 0 /\ e.meant = Meaning(evt)
              /\ e.said = v.caption
            BY <2>1, <2>3, <2>4, <3>2 DEF Entries, Made
        <3>4. e.meant = "gif" \/ e.meant = e.kind
            BY <1>0, <2>3, <2>4, <2>5, <3>3
        <3>5. Suits(e)
            BY <2>5, <3>3, <3>4 DEF Suits
        <3> QED
            BY <3>3, <3>5, MediaAreFresh, WordsWell
    <2>6. CASE v.type = "audio"
        <3>1. h = [Media("audio", "audio", "") EXCEPT !.ptt = v.voice]
            BY <2>6 DEF WrapWhatsAppMedia, MsgToMediaType
        <3> DEFINE a == Media("audio", "audio", "")
        <3>2. Made(a, "audio", <<"">>, "audio")
            BY MediaWell, WordsWell
        <3> HIDE DEF h, a
        <3>3. h = [a EXCEPT !.ptt = v.voice]
            BY <3>1 DEF a
        <3>4. v.voice \in BOOLEAN
            BY <1>0, <2>3
        <3>5. /\ h \in Entries /\ h.kind = "audio" /\ h.words = <<"">> /\ h.cta = NoCall /\ h.about = "none"
              /\ h.sealedAs = "audio" /\ h.quote = NoQuote /\ h.at = 0 /\ h.target = 0 /\ h.ptt = v.voice
            BY <3>2, <3>3, <3>4 DEF Entries, Made
        <3>6. /\ e \in Entries /\ e.kind = "audio" /\ e.words = <<"">> /\ e.cta = NoCall /\ e.about = "none"
              /\ e.sealedAs = "audio" /\ e.quote = NoQuote /\ e.at = 0 /\ e.target = 0 /\ e.ptt = v.voice
              /\ e.meant = Meaning(evt)
            BY <2>1, <2>4, <3>5 DEF Entries
        <3>7. e.meant = IF e.ptt THEN "voice" ELSE "audio"
            BY <1>0, <2>3, <2>4, <2>6, <3>6
        <3> QED
            BY <3>6, <3>7, MediaAreFresh, WordsWell DEF Suits, Captionless
    <2>7. CASE v.type = "sticker"
        <3>1. h = Media("sticker", "image", "")
            BY <2>7 DEF WrapWhatsAppMedia, MsgToMediaType
        <3>2. Made(h, "sticker", <<"">>, "image")
            BY <3>1, MediaWell, WordsWell
        <3> HIDE DEF h
        <3>3. e.meant = "sticker"
            BY <1>0, <2>1, <2>3, <2>4, <2>7, <3>2 DEF Entries, Made
        <3>4. /\ e \in Entries /\ e.kind = "sticker" /\ e.words = <<"">> /\ e.cta = NoCall /\ e.about = "none"
              /\ e.sealedAs = "image" /\ e.quote = NoQuote /\ e.at = 0 /\ e.target = 0
            BY <2>1, <2>4, <3>2 DEF Entries, Made
        <3> QED
            BY <3>3, <3>4, MediaAreFresh, WordsWell DEF Suits, Captionless
    <2>8. CASE v.type = "file"
        <3>1. h = Media("document", "document", "")
            BY <2>8 DEF WrapWhatsAppMedia, MsgToMediaType
        <3>2. Made(h, "document", <<"">>, "document")
            BY <3>1, MediaWell, WordsWell
        <3> HIDE DEF h
        <3>3. e.meant = "file"
            BY <1>0, <2>1, <2>3, <2>4, <2>8, <3>2 DEF Entries, Made
        <3>4. /\ e \in Entries /\ e.kind = "document" /\ e.words = <<"">> /\ e.cta = NoCall /\ e.about = "none"
              /\ e.sealedAs = "document" /\ e.quote = NoQuote /\ e.at = 0 /\ e.target = 0
            BY <2>1, <2>4, <3>2 DEF Entries, Made
        <3> QED
            BY <3>3, <3>4, MediaAreFresh, WordsWell DEF Suits, Captionless
    <2> QED
        BY <1>0, <1>3, <2>3, <2>5, <2>6, <2>7, <2>8
<1> QED
    BY <1>1, <1>2, <1>3

LEMMA FromAppIsFresh ==
    ASSUME NEW e \in FromApp
    PROVE  Fresh(e)
<1>1. CASE e \in FromBridge
    BY <1>1, FromBridgeIsFresh
<1>2. CASE e \in ExtendedTexts
    <2>1. PICK w \in Links : e = Holding("extended", w)
        BY <1>2 DEF ExtendedTexts
    <2>3. w \in Seq(Texts) /\ Len(w) = 3 /\ w[1] \in Texts
        BY LinksWell
    <2>5. "extended" \in Kinds /\ "extended" \in MessageKinds /\ "extended" \notin Sealable
        BY DEF Kinds, MessageKinds, Sealable
    <2>6. Made(e, "extended", w, "none")
        BY <2>1, <2>3, <2>5, HoldingWell
    <2>7. NoCall.native = ""
        BY DEF NoCall
    <2>8. Content(e)
        BY <2>3, <2>5, <2>6, <2>7 DEF Content, Made
    <2> QED
        BY <2>5, <2>6, <2>8 DEF Fresh, Made
<1>3. CASE e \in SharedPosts
    <2>1. PICK w \in Titles, cta \in CallsToAct : e = [Holding("share", w) EXCEPT !.cta = cta]
        BY <1>3 DEF SharedPosts
    <2>3. w \in Seq(Texts) /\ Len(w) = 2 /\ w[1] \in Texts
        BY TitlesWell
    <2>5. cta \in [action : {"", "page", "redirect"}, native : {"", "page", "place"}] /\ cta.native # "place"
        BY DEF CallsToAct
    <2> DEFINE h == Holding("share", w)
    <2>6. "share" \in Kinds /\ "share" \in MessageKinds /\ "share" \notin Sealable
        BY DEF Kinds, MessageKinds, Sealable
    <2>7. Made(h, "share", w, "none")
        BY <2>3, <2>6, HoldingWell
    <2> HIDE DEF h
    <2>4. e = [h EXCEPT !.cta = cta]
        BY <2>1 DEF h
    <2>8. /\ e \in Entries /\ e.kind = "share" /\ e.words = w /\ e.cta = cta /\ e.about = "none"
          /\ e.meant = "share" /\ e.sealedAs = "none" /\ e.quote = NoQuote /\ e.at = 0 /\ e.target = 0
          /\ e.said = w[1]
        BY <2>4, <2>5, <2>7 DEF Entries, Made
    <2>9. Content(e)
        BY <2>3, <2>5, <2>6, <2>8 DEF Content
    <2> QED
        BY <2>6, <2>8, <2>9 DEF Fresh
<1>4. CASE e \in Searches
    <2>1. PICK native \in {"", "page"} : e = [Holding("sear", <<"">>) EXCEPT !.cta.native = native]
        BY <1>4 DEF Searches
    <2> DEFINE h == Holding("sear", <<"">>)
               cta == [NoCall EXCEPT !.native = native]
    <2>2. cta \in [action : {"", "page", "redirect"}, native : {"", "page", "place"}] /\ cta.native # "place"
        BY DEF NoCall
    <2>3. "sear" \in Kinds /\ "sear" \in MessageKinds /\ "sear" \notin Sealable /\ <<"">> \in Seq(Texts)
          /\ <<"">>[1] = "" /\ "" \in Texts
        BY WordsWell DEF Sealable
    <2>4. Made(h, "sear", <<"">>, "none")
        BY <2>3, HoldingWell
    <2>5. e = [h EXCEPT !.cta = [h.cta EXCEPT !.native = native]]
        BY <2>1
    <2>6. e = [h EXCEPT !.cta = cta]
        BY <2>4, <2>5 DEF Made
    <2> HIDE DEF cta, h
    <2>8. /\ e \in Entries /\ e.kind = "sear" /\ e.words = <<"">> /\ e.cta = cta /\ e.about = "none"
          /\ e.meant = "sear" /\ e.sealedAs = "none" /\ e.quote = NoQuote /\ e.at = 0 /\ e.target = 0
          /\ e.said = ""
        BY <2>2, <2>4, <2>6 DEF Entries, Made
    <2>9. Content(e)
        BY <2>3, <2>8, WordsWell DEF Content
    <2> QED
        BY <2>3, <2>8, <2>9 DEF Fresh
<1>5. CASE e \in Stills
    <2> DEFINE h == Media("video", "video", "")
    <2>1. e = [h EXCEPT !.about = "still", !.meant = "still"]
        BY <1>5 DEF Stills
    <2>2. Made(h, "video", <<"">>, "video")
        BY MediaWell, WordsWell
    <2> HIDE DEF h
    <2>3. "still" \in Meanings
        BY WordsWell
    <2>4. /\ e \in Entries /\ e.kind = "video" /\ e.words = <<"">> /\ e.cta = NoCall /\ e.about = "still"
          /\ e.sealedAs = "video" /\ e.quote = NoQuote /\ e.at = 0 /\ e.target = 0 /\ e.meant = "still"
          /\ e.said = <<"">>[1]
        BY <2>1, <2>2, <2>3 DEF Entries, Made
    <2> QED
        BY <2>4, MediaAreFresh, WordsWell DEF Suits, Captionless
<1>6. CASE e \in ViewedOnce
    <2>1. PICK as \in {"image", "video"} : e = Media("viewOnce", as, "")
        BY <1>6 DEF ViewedOnce
    <2>2. Made(e, "viewOnce", <<"">>, as)
        BY <2>1, MediaWell, WordsWell
    <2> QED
        BY <2>2, MediaAreFresh, WordsWell DEF Made, Suits, Captionless
<1>7. CASE e \in OtherMessages
    <2>1. PICK kind \in {"place", "livePlace", "contact", "storeSticker", "timer", "instagram"} :
             e = Holding(kind, <<"">>)
        BY <1>7 DEF OtherMessages
    <2>2. kind \in Kinds /\ kind \in MessageKinds \ (Sealable \cup {"extended", "share", "bump"}) /\ <<"">> \in Seq(Texts)
        <3>1. kind \in MessageKinds \ (Sealable \cup {"extended", "share", "bump"})
            BY DEF MessageKinds, Sealable
        <3> QED
            BY <3>1, WordsWell
    <2>3. Made(e, kind, <<"">>, "none")
        BY <2>1, <2>2, WordsWell, HoldingWell
    <2> QED
        BY <2>2, <2>3, PlainIsFresh
<1> QED
    BY <1>1, <1>2, <1>3, <1>4, <1>5, <1>6, <1>7 DEF FromApp
-----------------------------------------------------------------------------
(* The chat.                                                                 *)

\* A key names the message of an owner as who sends it sees it.
KeyIsRight(key, id, owner, speaker) ==
    /\ key.id = id /\ key.fromMe = (owner = speaker)
    /\ (key.remote = "group") = (chat = "group")
    /\ owner # speaker => key.participant = IF chat = "group" THEN owner ELSE NoUser

\* What a device may send: a message of its content, with what it quotes, or
\* something about a message.
Fits(e, d) ==
    /\ e \in Entries
    /\ IsMessage(e) => Content(e)
    /\ IsMessage(e) /\ e.quote # NoQuote =>
         /\ e.quote.id = e.target /\ e.target \in DOMAIN log
         /\ e.quote.participant \in {NoUser, UserOf[log[e.target].by]}
    /\ e.kind = "bump" => e.quote = NoQuote
    /\ ~ IsMessage(e) => /\ e.quote = NoQuote /\ e.about = "none" /\ e.target \in DOMAIN log
                         /\ KeyIsRight(e.key, e.target, UserOf[log[e.target].by], UserOf[d])

ChatTypeOK == /\ chat \in {"direct", "group"} /\ log \in Seq(Entries)
              /\ handed \in [Readers -> SUBSET DOMAIN log]
              /\ DOMAIN known = Connectors

LogSound == \A i \in DOMAIN log : log[i].by \in Devices /\ Fits(log[i], log[i].by)

\* What a connector has under an id is that message, and says when it was edited.
Known(c) == \A m \in DOMAIN known[c] : /\ m.id \in DOMAIN log /\ m = IdOf(c, m.id)
                                       /\ known[c][m] \in [says : Nat, at : Nat]

ChatInv == /\ ChatTypeOK /\ LogSound
           /\ known = [c \in Connectors |-> known[c]]
           /\ \A c \in Connectors : Known(c)

\* There are two people; one talks to the other.
LEMMA TwoUsers ==
    ASSUME NEW d \in Devices
    PROVE  /\ UserOf[d] \in Users /\ UserOf[d] # NoUser
           /\ ChatOf(d) \in Users \cup {"group"}
           /\ (ChatOf(d) = "group") = (chat = "group")
           /\ chat # "group" => /\ ChatOf(d) \in Users /\ ChatOf(d) # UserOf[d]
           /\ \A u, v \in Users : u # UserOf[d] /\ v # UserOf[d] => u = v
<1>1. PICK a, b \in Users : a # b /\ Users = {a, b}
    BY SealedAssumption
<1>2. UserOf[d] \in Users /\ NoUser \notin Users /\ "group" \notin Users
    BY SealedAssumption
<1>3. \E u \in Users : u # UserOf[d]
    BY <1>1
<1> DEFINE other == CHOOSE u \in Users : u # UserOf[d]
<1>4. other \in Users /\ other # UserOf[d]
    BY <1>3
<1>5. ChatOf(d) = IF chat = "group" THEN "group" ELSE other
    BY DEF ChatOf
<1> HIDE DEF other
<1>6. \A u, v \in Users : u # UserOf[d] /\ v # UserOf[d] => u = v
    BY <1>1, <1>2
<1> QED
    BY <1>2, <1>4, <1>5, <1>6

\* Whoever reads a key finds the message that is meant.
LEMMA KeyIsRead ==
    ASSUME NEW e, NEW d \in Devices, NEW owner \in Users, NEW id, e.by \in Devices,
           KeyIsRight(e.key, id, owner, UserOf[e.by])
    PROVE  WAKeyToMessageID(d, e) = MakeWAMessageID(ChatOf(d), owner, id)
<1> DEFINE key == e.key
           us == UserOf[e.by]
<1>1. /\ key.id = id /\ (key.fromMe <=> owner = us) /\ (key.remote = "group" <=> chat = "group")
      /\ owner # us => key.participant = IF chat = "group" THEN owner ELSE NoUser
    BY DEF KeyIsRight
<1>2. us \in Users /\ owner # NoUser
    BY TwoUsers, SealedAssumption
<1>3. /\ UserOf[d] \in Users /\ (ChatOf(d) = "group" <=> chat = "group")
      /\ chat # "group" => ChatOf(d) \in Users /\ ChatOf(d) # UserOf[d]
      /\ \A u, v \in Users : u # UserOf[d] /\ v # UserOf[d] => u = v
      /\ \A u, v \in Users : u # us /\ v # us => u = v
    BY TwoUsers
<1> HIDE DEF us
<1> DEFINE sender == IF key.fromMe THEN us
                     ELSE IF key.participant # NoUser THEN key.participant
                     ELSE IF us = UserOf[d] THEN ChatOf(d)
                     ELSE UserOf[d]
<1>4. WAKeyToMessageID(d, e) =
        IF ~ key.fromMe /\ key.participant = NoUser /\ chat = "group" THEN NoReply
        ELSE MakeWAMessageID(IF key.remote = "group" THEN "group" ELSE ChatOf(d), sender, key.id)
    BY DEF WAKeyToMessageID, us
<1> HIDE DEF key
<1>5. sender = owner
    BY <1>1, <1>2, <1>3
<1>6. ~ (~ key.fromMe /\ key.participant = NoUser /\ chat = "group")
    BY <1>1, <1>2
<1>7. (IF key.remote = "group" THEN "group" ELSE ChatOf(d)) = ChatOf(d)
    BY <1>1, <1>3
<1> QED
    BY <1>1, <1>4, <1>5, <1>6, <1>7

LEMMA LogIs ==
    ASSUME ChatInv, NEW i \in DOMAIN log
    PROVE  /\ log[i] \in Entries /\ log[i].by \in Devices /\ Fits(log[i], log[i].by)
           /\ log[i].kind \in Kinds /\ i \in Nat \ {0} /\ i <= Len(log)
<1>1. log \in Seq(Entries) /\ log[i].by \in Devices /\ Fits(log[i], log[i].by)
    BY DEF ChatInv, ChatTypeOK, LogSound
<1>2. log[i] \in Entries /\ i \in Nat \ {0} /\ i <= Len(log)
    BY <1>1
<1>3. log[i].kind \in Kinds
    BY <1>2 DEF Entries
<1> QED
    BY <1>1, <1>2, <1>3

LEMMA ReportIs == \A type, target : Report(type, target).type = type /\ Report(type, target).target = target
BY DEF Report

LEMMA ReportIsEmpty == \A type, target : Report(type, target).text = "" /\ Report(type, target).parts = << >>
BY DEF Report

\* What a bridge makes of what is about a message, and of a message.
LEMMA BridgeReadsAbout ==
    ASSUME NEW e, e.kind \in {"reaction", "edit", "revoke"}, e.about # "place", e.key.id # 0
    PROVE  HandleE2EEEvent(e).target = e.key.id /\ HandleE2EEEvent(e).type # "message"
<1>1. CASE e.kind = "reaction"
    <2>1. HandleE2EEEvent(e) = ExtractE2EEReaction(e)
        BY <1>1 DEF HandleE2EEEvent
    <2>2. ExtractE2EEReaction(e).target = e.key.id /\ ExtractE2EEReaction(e).type = "reaction"
        BY DEF ExtractE2EEReaction, Report
    <2> QED
        BY <2>1, <2>2
<1>2. CASE e.kind = "edit"
    <2>1. HandleE2EEEvent(e) = ExtractE2EEEditInfo(e)
        BY <1>2 DEF HandleE2EEEvent
    <2>2. ExtractE2EEEditInfo(e).target = e.key.id /\ ExtractE2EEEditInfo(e).type = "edit"
        BY DEF ExtractE2EEEditInfo, Report
    <2> QED
        BY <2>1, <2>2
<1>3. CASE e.kind = "revoke"
    <2>1. HandleE2EEEvent(e) = Report("remove", e.key.id)
        BY <1>3 DEF HandleE2EEEvent, ExtractE2EERevokedMessage
    <2> QED
        BY <2>1, ReportIs
<1> QED
    BY <1>1, <1>2, <1>3

LEMMA BridgeReads ==
    ASSUME NEW e, IsMessage(e)
    PROVE  /\ e.about = "place" => HandleE2EEEvent(e) = Report("nothing", 0)
           /\ e.about # "place" =>
                /\ HandleE2EEEvent(e).type = "message" /\ HandleE2EEEvent(e).text = ExtractE2EEText(e)
                /\ HandleE2EEEvent(e).parts = Attachments(e)
                /\ HandleE2EEEvent(e).reply = ExtractE2EEReplyTo(e)
<1>1. e.kind # "reaction" /\ e.kind # "edit" /\ e.kind # "revoke"
    BY DEF IsMessage
<1>2. CASE e.about = "place"
    BY <1>1, <1>2 DEF HandleE2EEEvent
<1>3. CASE e.about # "place"
    <2>1. HandleE2EEEvent(e) = [Report("message", 0) EXCEPT !.text = ExtractE2EEText(e), !.parts = Attachments(e),
                                                            !.reply = ExtractE2EEReplyTo(e)]
        BY <1>1, <1>3 DEF HandleE2EEEvent
    <2> QED
        BY <1>3, <2>1 DEF Report
<1> QED
    BY <1>2, <1>3

\* What is about a message is about it under the id every connector has for it.
LEMMA AboutIsRead ==
    ASSUME ChatInv, NEW i \in DOMAIN log, ~ IsMessage(log[i])
    PROVE  /\ log[i].target \in DOMAIN log /\ log[i].key.id = log[i].target /\ log[i].target # 0
           /\ log[i].quote = NoQuote /\ log[i].about = "none"
           /\ \A d \in Devices : WAKeyToMessageID(d, log[i]) = IdOf(d, log[i].target)
<1> DEFINE e == log[i]
           t == e.target
           owner == UserOf[log[t].by]
<1>1. /\ e.by \in Devices /\ e.quote = NoQuote /\ e.about = "none" /\ t \in DOMAIN log
      /\ KeyIsRight(e.key, t, owner, UserOf[e.by])
    BY LogIs DEF Fits
<1>2. log[t].by \in Devices /\ t # 0
    BY <1>1, LogIs
<1>3. owner \in Users
    BY <1>2, TwoUsers
<1>4. e.key.id = t
    BY <1>1 DEF KeyIsRight
<1>5. ASSUME NEW d \in Devices
      PROVE  WAKeyToMessageID(d, e) = IdOf(d, t)
    <2> HIDE DEF e, t, owner
    <2>1. WAKeyToMessageID(d, e) = MakeWAMessageID(ChatOf(d), owner, t)
        BY <1>1, <1>3, KeyIsRead
    <2> QED
        BY <2>1 DEF IdOf, owner
<1> QED
    BY <1>1, <1>2, <1>4, <1>5

LEMMA KindsDiffer == \A e : IsMessage(e) = (EventType(e) = "message")
BY DEF IsMessage, EventType

LEMMA TargetsAreRight == ChatInv => RightTarget
<1> SUFFICES ASSUME ChatInv, NEW d \in Readers, NEW i \in handed[d], NEW moved \in BOOLEAN
             PROVE  /\ ~ IsMessage(log[i]) =>
                         Reading(d, log[i], moved).target =
                           IF d \in Bridges THEN log[i].target ELSE IdOf(d, log[i].target)
                    /\ log[i].quote # NoQuote =>
                         IF d \in Bridges
                         THEN Reading(d, log[i], moved).type = "message" => Reading(d, log[i], moved).reply.id = log[i].target
                         ELSE log[i].quote.participant # NoUser =>
                                Reading(d, log[i], moved).reply = IdOf(d, log[i].target)
    BY DEF RightTarget
<1> DEFINE e == log[i]
           r == Reading(d, e, moved)
<1>1. d \in Devices /\ i \in DOMAIN log
    BY DEF ChatInv, ChatTypeOK, Readers, Devices
<1>2. e.kind \in Kinds /\ Fits(e, e.by)
    BY <1>1, LogIs
<1>3. ASSUME ~ IsMessage(e) PROVE r.target = IF d \in Bridges THEN e.target ELSE IdOf(d, e.target)
    <2>1. /\ e.key.id = e.target /\ e.target # 0 /\ WAKeyToMessageID(d, e) = IdOf(d, e.target)
          /\ e.about = "none" /\ e.kind \in {"reaction", "edit", "revoke"}
        BY <1>1, <1>3, AboutIsRead DEF IsMessage
    <2>2. CASE d \in Bridges
        <3>1. HandleE2EEEvent(e).target = e.key.id
            BY <2>1, BridgeReadsAbout
        <3>2. r = HandleE2EEEvent(e)
            BY <2>2 DEF Reading
        <3> QED
            BY <2>1, <2>2, <3>1, <3>2
    <2>3. CASE d \notin Bridges
        <3>1. r = Report(EventType(e), WAKeyToMessageID(d, e))
            BY <1>3, <2>3, KindsDiffer DEF Reading, ReadEvent
        <3>2. r.target = WAKeyToMessageID(d, e)
            BY <3>1, ReportIs
        <3> QED
            BY <2>1, <2>3, <3>2
    <2> QED
        BY <2>2, <2>3
<1>4. ASSUME e.quote # NoQuote, d \in Bridges, r.type = "message" PROVE r.reply.id = e.target
    <2>1. IsMessage(e) /\ e.quote.id = e.target
        BY <1>2, <1>4 DEF Fits
    <2>2. r = HandleE2EEEvent(e)
        BY <1>4 DEF Reading
    <2>3. e.about # "place"
        BY <1>4, <2>1, <2>2, BridgeReads, ReportIs
    <2>4. r.reply = ExtractE2EEReplyTo(e)
        BY <2>1, <2>2, <2>3, BridgeReads
    <2> QED
        BY <1>4, <2>1, <2>4 DEF ExtractE2EEReplyTo
<1>5. ASSUME e.quote # NoQuote, d \notin Bridges, e.quote.participant # NoUser PROVE r.reply = IdOf(d, e.target)
    <2>1. /\ IsMessage(e) /\ e.quote.id = e.target /\ e.kind # "bump"
          /\ e.quote.participant = UserOf[log[e.target].by]
        BY <1>2, <1>5 DEF Fits
    <2> DEFINE t == e.target
               owner == UserOf[log[t].by]
    <2> HIDE DEF e
    <2>2. r = WhatsAppToMatrix(d, e, moved)
        BY <1>5, <2>1, KindsDiffer DEF Reading, ReadEvent
    <2>3. r.reply = ReplyOf(d, e)
        BY <2>2 DEF WhatsAppToMatrix, Report
    <2>4. ReplyOf(d, e) = MakeWAMessageID(ChatOf(d), e.quote.participant, e.quote.id)
        BY <1>5, <2>1 DEF ReplyOf
    <2> QED
        BY <2>1, <2>3, <2>4 DEF IdOf
<1> QED
    BY <1>3, <1>4, <1>5

\* What a connector's messages are after an event.
RememberedAs(K, R, k, i) ==
    \/ R = K /\ ~ (log[i].kind = "edit" /\ k \in DOMAIN K)
    \/ /\ IsMessage(log[i]) /\ k \notin DOMAIN K
       /\ R = [j \in DOMAIN K \cup {k} |-> IF j = k THEN [says |-> i, at |-> 0] ELSE K[j]]
    \/ /\ log[i].kind = "edit" /\ k \in DOMAIN K
       /\ R = [K EXCEPT ![k] = ConvertEdit(K[k], i)]
    \/ /\ log[i].kind = "revoke"
       /\ R = [j \in DOMAIN K \ {k} |-> K[j]]

LEMMA RememberedIs ==
    ASSUME ChatInv, NEW d \in Connectors, NEW i \in DOMAIN log
    PROVE  /\ IsMessage(log[i]) => RememberedAs(known[d], Remembered(d, i), IdOf(d, i), i)
           /\ ~ IsMessage(log[i]) => /\ log[i].target \in DOMAIN log
                                     /\ RememberedAs(known[d], Remembered(d, i), IdOf(d, log[i].target), i)
<1> DEFINE e == log[i]
           K == known[d]
           R == Remembered(d, i)
           k == IF IsMessage(e) THEN IdOf(d, i) ELSE IdOf(d, e.target)
<1>1. d \in Devices
    BY DEF Devices
<1>2. ~ IsMessage(e) => WAKeyToMessageID(d, e) = IdOf(d, e.target) /\ e.target \in DOMAIN log
    BY <1>1, AboutIsRead
<1>3. k = IF IsMessage(e) THEN IdOf(d, i) ELSE WAKeyToMessageID(d, e)
    BY <1>2
<1> HIDE DEF k
<1>4. R = CASE EventType(e) = "message" /\ k \notin DOMAIN K ->
                 [j \in DOMAIN K \cup {k} |-> IF j = k THEN [says |-> i, at |-> 0] ELSE K[j]]
            [] EventType(e) = "edit" /\ k \in DOMAIN K -> [K EXCEPT ![k] = ConvertEdit(K[k], i)]
            [] EventType(e) = "remove" /\ k \in DOMAIN K -> [j \in DOMAIN K \ {k} |-> K[j]]
            [] OTHER -> K
    BY <1>3 DEF Remembered
<1>5. /\ IsMessage(e) = (EventType(e) = "message")
      /\ (e.kind = "edit") = (EventType(e) = "edit")
      /\ (e.kind = "revoke") = (EventType(e) = "remove")
    BY DEF IsMessage, EventType
<1> HIDE DEF e, K, R
<1> DEFINE P == EventType(e) = "message" /\ k \notin DOMAIN K
           Q == EventType(e) = "edit" /\ k \in DOMAIN K
           S == EventType(e) = "remove" /\ k \in DOMAIN K
           A == [j \in DOMAIN K \cup {k} |-> IF j = k THEN [says |-> i, at |-> 0] ELSE K[j]]
           B == [K EXCEPT ![k] = ConvertEdit(K[k], i)]
           C == [j \in DOMAIN K \ {k} |-> K[j]]
<1>6. ~ (P /\ Q) /\ ~ (P /\ S) /\ ~ (Q /\ S)
    OBVIOUS
<1>7. R = CASE P -> A [] Q -> B [] S -> C [] OTHER -> K
    BY <1>4
<1> HIDE DEF P, Q, S, A, B, C
<1>8. (P /\ R = A) \/ (Q /\ R = B) \/ (S /\ R = C) \/ (~ P /\ ~ Q /\ ~ S /\ R = K)
    BY <1>6, <1>7
<1>9. RememberedAs(K, R, k, i)
    <2>1. P => IsMessage(e) /\ k \notin DOMAIN K
        BY <1>5 DEF P
    <2>2. Q => e.kind = "edit" /\ k \in DOMAIN K
        BY <1>5 DEF Q
    <2>3. S => e.kind = "revoke"
        BY <1>5 DEF S
    <2>4. ~ Q => ~ (e.kind = "edit" /\ k \in DOMAIN K)
        BY <1>5 DEF Q
    <2> QED
        BY <1>8, <2>1, <2>2, <2>3, <2>4, Zenon DEF RememberedAs, A, B, C, e
<1> QED
    BY <1>2, <1>9 DEF e, K, R, k

LEMMA IdIs == \A d, i : IdOf(d, i).id = i
BY DEF IdOf, MakeWAMessageID

\* An event leaves alone what a connector shows of a message, but for an edit of
\* that message that is newer than what it shows.
LEMMA AnEventEdits ==
    ASSUME ChatInv, NEW d \in Connectors, NEW i \in DOMAIN log, NEW m \in DOMAIN known[d],
           m \in DOMAIN Remembered(d, i)
    PROVE  \/ /\ Remembered(d, i)[m] = known[d][m]
              /\ log[i].kind = "edit" /\ log[i].target = m.id => known[d][m].at >= log[i].at
           \/ /\ Remembered(d, i)[m] = [says |-> i, at |-> log[i].at]
              /\ log[i].kind = "edit" /\ log[i].target = m.id /\ known[d][m].at < log[i].at
<1> DEFINE e == log[i]
           K == known[d]
           R == Remembered(d, i)
           k == IF IsMessage(e) THEN IdOf(d, i) ELSE IdOf(d, e.target)
<1>1. RememberedAs(K, R, k, i)
    BY RememberedIs
<1>2. e.kind = "edit" => ~ IsMessage(e) /\ k = IdOf(d, e.target) /\ k.id = e.target
    BY IdIs DEF IsMessage
<1>3. m = IdOf(d, m.id) /\ K[m].at \in Nat /\ e.at \in Nat
    BY LogIs DEF ChatInv, Known, Entries
<1>4. e.kind = "edit" => (e.target = m.id <=> k = m)
    BY <1>2, <1>3
<1> HIDE DEF e, K, R, k
<1>5. CASE R = K /\ ~ (log[i].kind = "edit" /\ k \in DOMAIN K)
    BY <1>4, <1>5 DEF e, K, R
<1>6. CASE /\ IsMessage(log[i]) /\ k \notin DOMAIN K
           /\ R = [j \in DOMAIN K \cup {k} |-> IF j = k THEN [says |-> i, at |-> 0] ELSE K[j]]
    <2>1. e.kind # "edit" /\ m # k
        BY <1>6 DEF e, IsMessage, K
    <2>2. R[m] = K[m]
        BY <1>6, <2>1 DEF K
    <2> QED
        BY <2>1, <2>2 DEF e, K, R
<1>7. CASE log[i].kind = "edit" /\ k \in DOMAIN K /\ R = [K EXCEPT ![k] = ConvertEdit(K[k], i)]
    <2>1. CASE m = k
        <3>1. R[m] = ConvertEdit(K[m], i)
            BY <1>7, <2>1
        <3>2. ConvertEdit(K[m], i) = IF K[m].at >= e.at THEN K[m] ELSE [says |-> i, at |-> e.at]
            BY DEF ConvertEdit, e
        <3>3. CASE K[m].at >= e.at
            BY <3>1, <3>2, <3>3 DEF e, K, R
        <3>4. CASE K[m].at < e.at
            <4>1. R[m] = [says |-> i, at |-> e.at]
                BY <1>3, <3>1, <3>2, <3>4
            <4>2. e.target = m.id /\ e.kind = "edit"
                BY <1>4, <1>7, <2>1 DEF e
            <4> QED
                BY <3>4, <4>1, <4>2 DEF e, K, R
        <3> QED
            BY <1>3, <3>3, <3>4
    <2>2. CASE m # k
        <3>1. R[m] = K[m]
            BY <1>7, <2>2 DEF K
        <3> QED
            BY <1>4, <1>7, <2>2, <3>1 DEF e, K, R
    <2> QED
        BY <2>1, <2>2
<1>8. CASE log[i].kind = "revoke" /\ R = [j \in DOMAIN K \ {k} |-> K[j]]
    <2>1. R[m] = K[m]
        BY <1>8 DEF R
    <2> QED
        BY <1>8, <2>1 DEF K, R
<1> QED
    BY <1>1, <1>5, <1>6, <1>7, <1>8 DEF RememberedAs

\* What a connector knows after an event is of the chat.
LEMMA RememberedWell ==
    ASSUME ChatInv, NEW d \in Connectors, NEW i \in DOMAIN log, NEW m \in DOMAIN Remembered(d, i)
    PROVE  /\ m.id \in DOMAIN log /\ m = IdOf(d, m.id)
           /\ Remembered(d, i)[m] \in [says : Nat, at : Nat]
<1> DEFINE e == log[i]
           K == known[d]
           R == Remembered(d, i)
           k == IF IsMessage(e) THEN IdOf(d, i) ELSE IdOf(d, e.target)
<1>1. RememberedAs(K, R, k, i)
    BY RememberedIs
<1>2. \A j \in DOMAIN K : /\ j.id \in DOMAIN log /\ j = IdOf(d, j.id)
                          /\ K[j] \in [says : Nat, at : Nat]
    BY DEF ChatInv, Known
<1>3. e.at \in Nat /\ i \in Nat
    BY LogIs DEF Entries
<1>4. m \in DOMAIN K
      => m.id \in DOMAIN log /\ m = IdOf(d, m.id) /\ R[m] \in [says : Nat, at : Nat]
    <2> SUFFICES ASSUME m \in DOMAIN K
                 PROVE  m.id \in DOMAIN log /\ m = IdOf(d, m.id) /\ R[m] \in [says : Nat, at : Nat]
        OBVIOUS
    <2>1. R[m] = K[m] \/ R[m] = [says |-> i, at |-> e.at]
        BY AnEventEdits
    <2> HIDE DEF R, K, e
    <2>2. [says |-> i, at |-> e.at] \in [says : Nat, at : Nat]
        BY <1>3
    <2> QED
        BY <1>2, <2>1, <2>2
<1> HIDE DEF e, K, R
<1>5. CASE /\ IsMessage(log[i])
           /\ R = [j \in DOMAIN K \cup {k} |-> IF j = k THEN [says |-> i, at |-> 0] ELSE K[j]]
    <2>1. k = IdOf(d, i) /\ k.id = i
        BY <1>5, IdIs DEF e
    <2> HIDE DEF k
    <2>2. m \in DOMAIN K \/ (m = k /\ R[m] = [says |-> i, at |-> 0])
        BY <1>5 DEF R
    <2>3. [says |-> i, at |-> 0] \in [says : Nat, at : Nat]
        BY <1>3
    <2> QED
        BY <1>4, <2>1, <2>2, <2>3 DEF R
<1>6. CASE DOMAIN R \subseteq DOMAIN K
    BY <1>4, <1>6 DEF R
<1> HIDE DEF k
<1> QED
    BY <1>1, <1>5, <1>6 DEF RememberedAs

LEMMA DeliverKeeps ==
    ASSUME ChatInv, NEW d \in Readers, NEW i \in DOMAIN log, Deliver(d, i)
    PROVE  ChatInv'
<1>1. /\ UNCHANGED <<chat, log>> /\ handed' = [handed EXCEPT ![d] = @ \cup {i}]
      /\ known' = IF d \in Connectors THEN [known EXCEPT ![d] = Remembered(d, i)] ELSE known
    BY DEF Deliver
<1>2. ChatTypeOK' /\ LogSound'
    BY <1>1 DEF ChatInv, ChatTypeOK, LogSound, Fits, KeyIsRight
<1>3. (known = [c \in Connectors |-> known[c]])'
    BY <1>1 DEF ChatInv
<1>4. ASSUME NEW c \in Connectors PROVE Known(c)'
    <2>1. \A j : IdOf(c, j)' = IdOf(c, j)
        BY <1>1 DEF IdOf, ChatOf
    <2>2. CASE c = d
        <3>1. known'[c] = Remembered(c, i)
            BY <1>1, <2>2 DEF ChatInv
        <3> QED
            BY <1>1, <2>1, <3>1, RememberedWell DEF Known
    <2>3. CASE c # d
        <3>1. known'[c] = known[c]
            BY <1>1, <2>3 DEF ChatInv
        <3> QED
            BY <1>1, <2>1, <3>1 DEF Known, ChatInv
    <2> QED
        BY <2>2, <2>3
<1> QED
    BY <1>2, <1>3, <1>4 DEF ChatInv

\* What NewestEditStands says of a step.
NewestShown ==
    log' = log =>
      \A d \in Connectors : handed'[d] # handed[d] \/ known'[d] # known[d] =>
        \A m \in DOMAIN known[d] \cap DOMAIN known'[d] :
          LET was == known[d][m]
              is  == known'[d][m]
              edits(read) == {i \in read : log[i].kind = "edit" /\ log[i].target = m.id}
          IN /\ is.at >= was.at /\ (is.at = was.at => is = was)
             /\ \A i \in edits(handed'[d] \ handed[d]) : is.at >= log[i].at
             /\ is # was => is.says \in edits(handed'[d]) /\ log[is.says].at = is.at

LEMMA DeliverShowsTheNewest ==
    ASSUME ChatInv, NEW d \in Readers, NEW i \in DOMAIN log, Deliver(d, i)
    PROVE  NewestShown
<1>1. /\ UNCHANGED <<chat, log>> /\ handed' = [handed EXCEPT ![d] = @ \cup {i}]
      /\ known' = IF d \in Connectors THEN [known EXCEPT ![d] = Remembered(d, i)] ELSE known
    BY DEF Deliver
<1>2. SUFFICES ASSUME NEW c \in Connectors, handed'[c] # handed[c] \/ known'[c] # known[c],
                      NEW m \in DOMAIN known[c] \cap DOMAIN known'[c]
               PROVE  /\ known'[c][m].at >= known[c][m].at
                      /\ known'[c][m].at = known[c][m].at => known'[c][m] = known[c][m]
                      /\ \A j \in handed'[c] \ handed[c] :
                           log[j].kind = "edit" /\ log[j].target = m.id => known'[c][m].at >= log[j].at
                      /\ known'[c][m] # known[c][m] =>
                           /\ known'[c][m].says \in handed'[c]
                           /\ log[known'[c][m].says].kind = "edit"
                           /\ log[known'[c][m].says].target = m.id
                           /\ log[known'[c][m].says].at = known'[c][m].at
    BY DEF NewestShown
<1>3. c \in Readers /\ handed \in [Readers -> SUBSET DOMAIN log] /\ known = [k \in Connectors |-> known[k]]
    BY DEF Readers, ChatInv, ChatTypeOK
<1>4. c = d
    BY <1>1, <1>2, <1>3
<1>5. known'[c] = Remembered(c, i) /\ handed'[c] = handed[c] \cup {i}
    BY <1>1, <1>3, <1>4
<1>6. known[c][m].at \in Nat /\ log[i].at \in Nat /\ i \in Nat
    BY LogIs DEF ChatInv, Known, Entries
<1>7. \/ /\ known'[c][m] = known[c][m]
         /\ log[i].kind = "edit" /\ log[i].target = m.id => known[c][m].at >= log[i].at
      \/ /\ known'[c][m] = [says |-> i, at |-> log[i].at]
         /\ log[i].kind = "edit" /\ log[i].target = m.id /\ known[c][m].at < log[i].at
    BY <1>5, AnEventEdits
<1> DEFINE is == known'[c][m]
           was == known[c][m]
<1>8. CASE is = was /\ (log[i].kind = "edit" /\ log[i].target = m.id => was.at >= log[i].at)
    BY <1>5, <1>6, <1>8
<1>9. CASE /\ is = [says |-> i, at |-> log[i].at]
           /\ log[i].kind = "edit" /\ log[i].target = m.id /\ was.at < log[i].at
    <2>1. is.at = log[i].at /\ is.says = i
        BY <1>9
    <2> HIDE DEF is, was
    <2>2. is.at >= was.at /\ is.at # was.at
        BY <1>6, <1>9, <2>1 DEF was
    <2>3. \A j \in handed'[c] \ handed[c] : j = i
        BY <1>5
    <2>4. is.at >= log[i].at /\ is.says \in handed'[c]
        BY <1>5, <1>6, <2>1
    <2> QED
        BY <1>9, <2>1, <2>2, <2>3, <2>4 DEF is, was
<1> QED
    BY <1>7, <1>8, <1>9

-----------------------------------------------------------------------------
(* What is sent.                                                             *)

QuoteWell(q) == /\ q \in [id : Nat, participant : Users \cup {NoUser}] /\ q.id \in DOMAIN log
                /\ q.participant \in {NoUser, UserOf[log[q.id].by]}

LEMMA OwnerIs ==
    ASSUME ChatInv, NEW t \in DOMAIN log
    PROVE  UserOf[log[t].by] \in Users /\ t \in Nat /\ t # 0
BY LogIs, TwoUsers

LEMMA SeenIs ==
    ASSUME ChatInv, NEW d \in Readers
    PROVE  Seen(d) \subseteq DOMAIN log
BY DEF ChatInv, ChatTypeOK, Seen

LEMMA BridgeQuotesWell ==
    ASSUME ChatInv, NEW d \in Bridges, NEW q \in BridgeQuotes(d)
    PROVE  QuoteWell(q)
<1> DEFINE T == MessagesIn(Seen(d))
<1>1. T \subseteq DOMAIN log
    BY SeenIs DEF Readers, MessagesIn
<1>2. QuotesOf(d) = {[id |-> t, participant |-> p] : t \in T, p \in Users}
    BY DEF QuotesOf
<1> HIDE DEF T
<1>3. \A p \in QuotesOf(d) : p \in [id : Nat, participant : Users] /\ p.id \in DOMAIN log
    <2> SUFFICES ASSUME NEW p \in QuotesOf(d) PROVE p \in [id : Nat, participant : Users] /\ p.id \in DOMAIN log
        OBVIOUS
    <2>1. PICK t \in T, u \in Users : p = [id |-> t, participant |-> u]
        BY <1>2
    <2>2. t \in Nat /\ t \in DOMAIN log
        BY <1>1, OwnerIs
    <2> QED
        BY <2>1, <2>2
<1>4. CASE q \in {p \in QuotesOf(d) : p.participant = UserOf[log[p.id].by]}
    BY <1>3, <1>4 DEF QuoteWell
<1>5. CASE q \in {[id |-> p.id, participant |-> NoUser] : p \in QuotesOf(d)}
    <2>1. PICK p \in QuotesOf(d) : q = [id |-> p.id, participant |-> NoUser]
        BY <1>5
    <2> QED
        BY <1>3, <2>1 DEF QuoteWell
<1> QED
    BY <1>4, <1>5 DEF BridgeQuotes

LEMMA ConnectorQuotesWell ==
    ASSUME ChatInv, NEW d \in Connectors, NEW q \in ConnectorQuotes(d)
    PROVE  QuoteWell(q)
<1>1. PICK m \in DOMAIN known[d] : q = [id |-> m.id, participant |-> m.sender]
    BY DEF ConnectorQuotes
<1>2. m.id \in DOMAIN log /\ m = IdOf(d, m.id)
    BY DEF ChatInv, Known
<1>3. m.sender = UserOf[log[m.id].by]
    BY <1>2 DEF IdOf, MakeWAMessageID
<1>4. m.sender \in Users /\ m.id \in Nat
    BY <1>2, <1>3, OwnerIs
<1> QED
    BY <1>1, <1>2, <1>3, <1>4 DEF QuoteWell

LEMMA AppQuotesWell ==
    ASSUME ChatInv, NEW q \in AppQuotes
    PROVE  QuoteWell(q)
<1>1. PICK i \in DOMAIN log : q = [id |-> i, participant |-> UserOf[log[i].by]]
    BY DEF AppQuotes, MessagesIn
<1> QED
    BY <1>1, OwnerIs DEF QuoteWell

LEMMA FreshFits ==
    ASSUME NEW e, Fresh(e), NEW d
    PROVE  Fits(e, d) /\ \A q : QuoteWell(q) => Fits(Quoted(e, q), d)
<1>1. /\ e \in Entries /\ e.kind \in MessageKinds /\ e.kind # "bump" /\ Content(e) /\ e.quote = NoQuote /\ e.target = 0
      /\ IsMessage(e)
    BY DEF Fresh, IsMessage, MessageKinds, Sealable
<1>2. Fits(e, d)
    BY <1>1 DEF Fits
<1>3. ASSUME NEW q, QuoteWell(q) PROVE Fits(Quoted(e, q), d)
    <2> DEFINE f == Quoted(e, q)
    <2>1. /\ f \in Entries /\ f.quote = q /\ f.target = q.id /\ f.kind = e.kind /\ f.words = e.words
          /\ f.cta = e.cta /\ f.meant = e.meant /\ f.about = e.about /\ f.sealedAs = e.sealedAs /\ f.ptt = e.ptt
          /\ f.said = e.said
        BY <1>1, <1>3 DEF Entries, QuoteWell, Quoted
    <2> HIDE DEF f
    <2>2. IsMessage(f) /\ Content(f) /\ f.kind # "bump"
        BY <1>1, <2>1 DEF IsMessage, Content
    <2> QED
        BY <1>3, <2>1, <2>2 DEF Fits, QuoteWell, f
<1> QED
    BY <1>2, <1>3

LEMMA QuotingFits ==
    ASSUME NEW messages, \A e \in messages : Fresh(e),
           NEW quotes, \A q \in quotes : QuoteWell(q), NEW d, NEW f \in Quoting(messages, quotes)
    PROVE  Fits(f, d)
<1>1. CASE f \in messages
    BY <1>1, FreshFits
<1>2. CASE f \in {Quoted(e, q) : e \in messages, q \in quotes}
    <2>1. PICK e \in messages, q \in quotes : f = Quoted(e, q)
        BY <1>2
    <2> QED
        BY <2>1, FreshFits
<1> QED
    BY <1>1, <1>2 DEF Quoting

\* What is about a message of the log, with a key that says so.
LEMMA AboutFits ==
    ASSUME ChatInv, NEW d \in Devices, NEW t \in DOMAIN log, NEW key \in MessageKeys,
           KeyIsRight(key, t, UserOf[log[t].by], UserOf[d])
    PROVE  /\ \A emoji \in Emojis : Fits(ReactionAbout(emoji, key, t), d)
           /\ \A at \in Stamps : Fits(EditAbout(at, key, t), d) /\ EditAbout(at, key, t).at \in Nat
           /\ Fits(RemovalAbout(key, t), d)
<1>1. t \in Nat
    BY OwnerIs
<1>2. ASSUME NEW kind \in {"reaction", "edit", "revoke"}, NEW w \in {"", "text"},
             NEW h, h = Holding(kind, <<w>>), NEW x, NEW at \in Nat,
             x = [h EXCEPT !.key = key, !.target = t] \/ x = [h EXCEPT !.key = key, !.target = t, !.at = at]
      PROVE  Fits(x, d)
    <2>1. kind \in Kinds /\ <<w>> \in Seq(Texts) /\ <<w>>[1] \in Texts
        BY WordsWell
    <2>2. Made(h, kind, <<w>>, "none")
        BY <1>2, <2>1, HoldingWell
    <2>3. x \in Entries /\ x.kind = kind /\ x.quote = NoQuote /\ x.about = "none" /\ x.target = t /\ x.key = key
        <3>1. CASE x = [h EXCEPT !.key = key, !.target = t]
            BY <1>1, <2>2, <3>1 DEF Entries, Made
        <3>2. CASE x = [h EXCEPT !.key = key, !.target = t, !.at = at]
            BY <1>1, <2>2, <3>2 DEF Entries, Made
        <3> QED
            BY <1>2, <3>1, <3>2
    <2>4. ~ IsMessage(x) /\ x.kind # "bump"
        BY <2>3 DEF IsMessage
    <2> QED
        BY <2>3, <2>4 DEF Fits
<1>3. ASSUME NEW emoji \in Emojis PROVE Fits(ReactionAbout(emoji, key, t), d)
    BY <1>2 DEF ReactionAbout, Emojis
<1>4. ASSUME NEW at \in Stamps PROVE Fits(EditAbout(at, key, t), d)
    <2>1. at \in Nat
        BY SealedAssumption DEF Stamps
    <2> QED
        BY <1>2, <2>1 DEF EditAbout
<1>5. Fits(RemovalAbout(key, t), d)
    BY <1>2 DEF RemovalAbout
<1> QED
    BY <1>3, <1>4, <1>5 DEF Fits, Entries

LEMMA BuildMessageKeyWell ==
    ASSUME ChatInv, NEW d \in Devices, NEW t \in DOMAIN log, NEW sender,
           sender = UserOf[log[t].by] \/ (sender = NoUser /\ log[t].by = d)
    PROVE  /\ BuildMessageKey(d, sender, t) \in MessageKeys
           /\ KeyIsRight(BuildMessageKey(d, sender, t), t, UserOf[log[t].by], UserOf[d])
<1> DEFINE owner == UserOf[log[t].by]
           us == UserOf[d]
           mine == sender \in {NoUser, us}
           key == BuildMessageKey(d, sender, t)
<1>1. key = [id |-> t, fromMe |-> mine, remote |-> ChatOf(d),
             participant |-> IF mine \/ chat = "direct" THEN NoUser ELSE sender]
    BY DEF BuildMessageKey
<1>2. owner \in Users /\ t \in Nat /\ us \in Users /\ owner # NoUser
    BY OwnerIs, TwoUsers, SealedAssumption
<1>3. ChatOf(d) \in Users \cup {"group"} /\ (ChatOf(d) = "group" <=> chat = "group")
    BY TwoUsers
<1>4. mine \in BOOLEAN /\ (mine <=> owner = us)
    BY <1>2
<1>5. chat = "direct" <=> chat # "group"
    BY DEF ChatInv, ChatTypeOK
<1>6. ~ mine => sender = owner
    BY <1>2
<1> HIDE DEF mine, us, owner, key
<1>7. key \in MessageKeys
    BY <1>1, <1>2, <1>3, <1>4, <1>6 DEF MessageKeys
<1>8. KeyIsRight(key, t, owner, us)
    BY <1>1, <1>3, <1>4, <1>5, <1>6 DEF KeyIsRight
<1> QED
    BY <1>7, <1>8 DEF key, owner, us

LEMMA MessageIDToWAKeyWell ==
    ASSUME ChatInv, NEW d \in Connectors, NEW m \in DOMAIN known[d]
    PROVE  /\ m.id \in DOMAIN log /\ MessageIDToWAKey(d, m) \in MessageKeys
           /\ KeyIsRight(MessageIDToWAKey(d, m), m.id, UserOf[log[m.id].by], UserOf[d])
<1> DEFINE t == m.id
           owner == UserOf[log[t].by]
           key == MessageIDToWAKey(d, m)
           us == UserOf[d]
<1>1. t \in DOMAIN log /\ m = IdOf(d, t) /\ d \in Devices
    BY DEF ChatInv, Known, Devices
<1>2. m.sender = owner /\ m.chat = ChatOf(d)
    BY <1>1 DEF IdOf, MakeWAMessageID
<1>3. owner \in Users /\ t \in Nat
    BY <1>1, OwnerIs
<1>4. ChatOf(d) \in Users \cup {"group"} /\ (ChatOf(d) = "group" <=> chat = "group")
    BY <1>1, TwoUsers
<1>5. key = [id |-> t, fromMe |-> owner = us, remote |-> ChatOf(d),
             participant |-> IF ChatOf(d) = "group" THEN owner ELSE NoUser]
    BY <1>2 DEF MessageIDToWAKey
<1> HIDE DEF key, owner, us, t
<1>6. key \in MessageKeys
    BY <1>3, <1>4, <1>5 DEF MessageKeys
<1>7. KeyIsRight(key, t, owner, us)
    BY <1>4, <1>5 DEF KeyIsRight
<1> QED
    BY <1>1, <1>6, <1>7 DEF key, owner, us, t

LEMMA BridgeAboutFits ==
    ASSUME ChatInv, NEW d \in Bridges,
           NEW e \in SendE2EEReaction(d) \cup EditE2EEMessage(d) \cup UnsendE2EEMessage(d)
    PROVE  Fits(e, d)
<1>1. d \in Devices /\ d \in Readers
    BY DEF Devices, Readers
<1>2. /\ MessagesIn(Seen(d)) \subseteq DOMAIN log /\ MessagesIn(Own(d)) \subseteq DOMAIN log
      /\ \A t \in MessagesIn(Own(d)) : log[t].by = d
    BY <1>1, SeenIs DEF Own, MessagesIn
<1>3. CASE e \in SendE2EEReaction(d)
    <2>1. PICK emoji \in Emojis, t \in MessagesIn(Seen(d)) :
            e = ReactionAbout(emoji, BuildMessageKey(d, UserOf[log[t].by], t), t)
        BY <1>3 DEF SendE2EEReaction
    <2> QED
        BY <1>1, <1>2, <2>1, BuildMessageKeyWell, AboutFits
<1>4. CASE e \in EditE2EEMessage(d)
    <2>1. PICK at \in Stamps, t \in MessagesIn(Own(d)) : e = EditAbout(at, BuildMessageKey(d, NoUser, t), t)
        BY <1>4 DEF EditE2EEMessage
    <2> QED
        BY <1>1, <1>2, <2>1, BuildMessageKeyWell, AboutFits
<1>5. CASE e \in UnsendE2EEMessage(d)
    <2>1. PICK t \in MessagesIn(Own(d)) : e = RemovalAbout(BuildMessageKey(d, NoUser, t), t)
        BY <1>5 DEF UnsendE2EEMessage
    <2> QED
        BY <1>1, <1>2, <2>1, BuildMessageKeyWell, AboutFits
<1> QED
    BY <1>3, <1>4, <1>5

LEMMA HandleMatrixReactionFits ==
    ASSUME ChatInv, NEW d \in Connectors, NEW e \in HandleMatrixReaction(d) \cup HandleMatrixReactionRemove(d)
    PROVE  Fits(e, d)
<1>1. PICK m \in DOMAIN known[d], emoji \in Emojis : e = ReactionAbout(emoji, MessageIDToWAKey(d, m), m.id)
    BY DEF HandleMatrixReaction, HandleMatrixReactionRemove, Emojis
<1> QED
    BY <1>1, MessageIDToWAKeyWell, AboutFits DEF Devices

LEMMA HandleMatrixEditFits ==
    ASSUME ChatInv, NEW d \in Connectors, NEW e \in HandleMatrixEdit(d)
    PROVE  Fits(e, d) /\ e.at \in Nat
<1>1. PICK at \in Stamps, m \in Mine(d) : e = EditAbout(at, MessageIDToWAKey(d, m), m.id)
    BY DEF HandleMatrixEdit
<1>2. m \in DOMAIN known[d] /\ d \in Devices
    BY DEF Mine, Devices
<1> QED
    BY <1>1, <1>2, MessageIDToWAKeyWell, AboutFits

LEMMA HandleMatrixRemoveFits ==
    ASSUME ChatInv, NEW d \in Connectors, NEW e \in HandleMatrixMessageRemove(d)
    PROVE  Fits(e, d)
<1>1. PICK m \in DOMAIN known[d] : e = RemovalAbout(MessageIDToWAKey(d, m), m.id)
    BY DEF HandleMatrixMessageRemove
<1> QED
    BY <1>1, MessageIDToWAKeyWell, AboutFits DEF Devices

LEMMA BumpsFit ==
    ASSUME ChatInv, NEW d \in Apps, NEW e \in Bumps(d)
    PROVE  Fits(e, d)
<1>1. PICK t \in MessagesIn(DOMAIN log) : e = BumpAbout(BuildMessageKey(d, UserOf[log[t].by], t), t)
    BY DEF Bumps
<1> DEFINE key == BuildMessageKey(d, UserOf[log[t].by], t)
           h == Holding("bump", <<"">>)
<1>2. t \in DOMAIN log
    BY DEF MessagesIn
<1>4. key \in MessageKeys /\ t \in Nat
    BY <1>2, BuildMessageKeyWell, OwnerIs DEF Devices
<1>5. "bump" \in Kinds /\ <<"">> \in Seq(Texts) /\ <<"">>[1] \in Texts
    BY WordsWell
<1>6. Made(h, "bump", <<"">>, "none")
    BY <1>5, HoldingWell
<1>7. e = [h EXCEPT !.key = key, !.target = t]
    BY <1>1 DEF BumpAbout
<1> HIDE DEF key, h
<1>8. /\ e \in Entries /\ e.kind = "bump" /\ e.words = <<"">> /\ e.quote = NoQuote /\ e.meant = "bump"
      /\ e.about = "none" /\ e.sealedAs = "none" /\ e.cta = NoCall /\ e.said = <<"">>[1]
    BY <1>4, <1>6, <1>7 DEF Entries, Made
<1>9. IsMessage(e) /\ Content(e)
    BY <1>8, WordsWell DEF IsMessage, Content
<1> QED
    BY <1>8, <1>9 DEF Fits

\* One more message, of a device that may send it.
LEMMA SendKeeps ==
    ASSUME ChatInv, NEW d \in Devices, NEW messages, \A e \in messages : Fits(e, d),
           Publish(d, messages), UNCHANGED <<chat, handed>>
    PROVE  /\ chat' \in {"direct", "group"} /\ log' \in Seq(Entries)
           /\ handed' \in [Readers -> SUBSET DOMAIN log'] /\ LogSound'
           /\ Len(log) + 1 \in DOMAIN log' /\ DOMAIN log \subseteq DOMAIN log'
           /\ Len(log) + 1 \in Nat /\ Len(log) + 1 \notin DOMAIN log
           /\ \A c, i : i \in DOMAIN log => IdOf(c, i)' = IdOf(c, i)
           /\ \A c, i : i = Len(log) + 1 => IdOf(c, i)' = MakeWAMessageID(ChatOf(c), UserOf[d], i)
<1> DEFINE n == Len(log) + 1
<1>1. PICK e \in messages : log' = Append(log, [e EXCEPT !.by = d])
    BY DEF Publish
<1> DEFINE f == [e EXCEPT !.by = d]
<1>2. Fits(e, d) /\ e \in Entries
    BY DEF Fits
<1>3. /\ f \in Entries /\ f.by = d /\ f.kind = e.kind /\ f.words = e.words /\ f.cta = e.cta /\ f.about = e.about
      /\ f.sealedAs = e.sealedAs /\ f.ptt = e.ptt /\ f.quote = e.quote /\ f.key = e.key
      /\ f.meant = e.meant /\ f.target = e.target /\ f.said = e.said
    BY <1>2 DEF Entries
<1> HIDE DEF f
<1>4. log' = Append(log, f)
    BY <1>1 DEF f
<1>5. log \in Seq(Entries) /\ chat \in {"direct", "group"} /\ handed \in [Readers -> SUBSET DOMAIN log]
    BY DEF ChatInv, ChatTypeOK
<1>6. /\ log' \in Seq(Entries) /\ DOMAIN log \subseteq DOMAIN log' /\ n \in DOMAIN log' /\ n \in Nat
      /\ n \notin DOMAIN log /\ log'[n] = f /\ \A i \in DOMAIN log : log'[i] = log[i]
      /\ \A i \in DOMAIN log' : i \in DOMAIN log \/ i = n
    BY <1>3, <1>4, <1>5
<1> HIDE DEF n
<1>7. Fits(f, d)
    <2>1. (IsMessage(f) <=> IsMessage(e)) /\ (Content(e) => Content(f))
        BY <1>3 DEF IsMessage, Content
    <2> QED
        BY <1>2, <1>3, <2>1 DEF Fits
<1>8. ASSUME NEW x, NEW u, Fits(x, u) PROVE Fits(x, u)'
    <2>1. chat' = chat /\ (x.target \in DOMAIN log => x.target \in DOMAIN log' /\ log'[x.target] = log[x.target])
        BY <1>6
    <2>2. \A owner : KeyIsRight(x.key, x.target, owner, UserOf[u])
                       => KeyIsRight(x.key, x.target, owner, UserOf[u])'
        BY <2>1 DEF KeyIsRight
    <2> QED
        BY <1>8, <2>1, <2>2 DEF Fits
<1>9. LogSound'
    <2> SUFFICES ASSUME NEW i \in DOMAIN log' PROVE (log[i].by \in Devices /\ Fits(log[i], log[i].by))'
        BY DEF LogSound
    <2>1. CASE i \in DOMAIN log
        <3>1. log[i].by \in Devices /\ Fits(log[i], log[i].by) /\ log'[i] = log[i]
            BY <1>6, <2>1, LogIs
        <3> QED
            BY <1>8, <3>1
    <2>2. CASE i = n
        BY <1>3, <1>6, <1>7, <1>8, <2>2
    <2> QED
        BY <1>6, <2>1, <2>2
<1>10. handed' \in [Readers -> SUBSET DOMAIN log']
    BY <1>5, <1>6
<1>11. \A c : ChatOf(c)' = ChatOf(c)
    BY DEF ChatOf
<1>12. \A c, i : i \in DOMAIN log => IdOf(c, i)' = IdOf(c, i)
    BY <1>6, <1>11 DEF IdOf, MakeWAMessageID
<1>13. \A c, i : i = n => IdOf(c, i)' = MakeWAMessageID(ChatOf(c), UserOf[d], i)
    BY <1>3, <1>6, <1>11 DEF IdOf
<1> QED
    BY <1>5, <1>6, <1>9, <1>10, <1>12, <1>13 DEF n

\* What a connector keeps of a message it sent.
LEMMA ConnectorKeeps ==
    ASSUME ChatInv, NEW d \in Connectors, NEW messages, \A e \in messages : Fits(e, d),
           Publish(d, messages), UNCHANGED <<chat, handed>>,
           NEW R, known' = [known EXCEPT ![d] = R],
           \A m \in DOMAIN R :
             \/ m \in DOMAIN known[d] /\ R[m] \in [says : Nat, at : Nat]
             \/ /\ m = MakeWAMessageID(ChatOf(d), UserOf[d], Len(log) + 1)
                /\ R[m] \in [says : Nat, at : Nat]
    PROVE  ChatInv'
<1> DEFINE n == Len(log) + 1
<1>1. d \in Devices
    BY DEF Devices
<1>2. /\ chat' \in {"direct", "group"} /\ log' \in Seq(Entries)
      /\ handed' \in [Readers -> SUBSET DOMAIN log'] /\ LogSound'
      /\ n \in DOMAIN log' /\ DOMAIN log \subseteq DOMAIN log'
      /\ \A c, i : i \in DOMAIN log => IdOf(c, i)' = IdOf(c, i)
      /\ \A c, i : i = n => IdOf(c, i)' = MakeWAMessageID(ChatOf(c), UserOf[d], i)
    BY <1>1, SendKeeps
<1> HIDE DEF n
<1>3. (known = [c \in Connectors |-> known[c]])' /\ known'[d] = R
    BY DEF ChatInv
<1>4. ASSUME NEW c \in Connectors PROVE Known(c)'
    <2> SUFFICES ASSUME NEW m \in DOMAIN known'[c]
                 PROVE  m.id \in DOMAIN log' /\ m = IdOf(c, m.id)' /\ known'[c][m] \in [says : Nat, at : Nat]
        BY DEF Known
    <2>1. CASE m \in DOMAIN known[c] /\ known'[c][m] \in [says : Nat, at : Nat]
        <3>1. m.id \in DOMAIN log /\ m = IdOf(c, m.id)
            BY <2>1 DEF ChatInv, Known
        <3> QED
            BY <1>2, <2>1, <3>1
    <2>2. CASE c # d
        <3>1. known'[c] = known[c]
            BY <2>2 DEF ChatInv
        <3> QED
            BY <2>1, <3>1 DEF ChatInv, Known
    <2>3. CASE c = d /\ m = MakeWAMessageID(ChatOf(d), UserOf[d], n) /\ R[m] \in [says : Nat, at : Nat]
        <3>1. m.id = n
            BY <2>3 DEF MakeWAMessageID
        <3>2. IdOf(c, m.id)' = m
            BY <1>2, <2>3, <3>1
        <3> QED
            BY <1>2, <1>3, <2>3, <3>1, <3>2
    <2> QED
        BY <1>3, <2>1, <2>2, <2>3 DEF n
<1> QED
    BY <1>2, <1>3, <1>4 DEF ChatInv, ChatTypeOK

LEMMA OthersSendKeeps ==
    ASSUME ChatInv, NEW d \in Devices, NEW messages, \A e \in messages : Fits(e, d),
           Publish(d, messages), UNCHANGED <<chat, handed, known>>
    PROVE  ChatInv'
<1>1. /\ chat' \in {"direct", "group"} /\ log' \in Seq(Entries)
      /\ handed' \in [Readers -> SUBSET DOMAIN log'] /\ LogSound'
      /\ DOMAIN log \subseteq DOMAIN log'
      /\ \A c, i : i \in DOMAIN log => IdOf(c, i)' = IdOf(c, i)
    BY SendKeeps
<1>2. ASSUME NEW c \in Connectors PROVE Known(c)'
    <2> SUFFICES ASSUME NEW m \in DOMAIN known[c]
                 PROVE  m.id \in DOMAIN log' /\ m = IdOf(c, m.id)' /\ known[c][m] \in [says : Nat, at : Nat]
        BY DEF Known
    <2>1. m.id \in DOMAIN log /\ m = IdOf(c, m.id) /\ known[c][m] \in [says : Nat, at : Nat]
        BY DEF ChatInv, Known
    <2> QED
        BY <1>1, <2>1
<1> QED
    BY <1>1, <1>2 DEF ChatInv, ChatTypeOK

LEMMA ConnectorSendsKeeps ==
    ASSUME ChatInv, NEW d \in Connectors, ConnectorSends(d)
    PROVE  ChatInv'
<1> DEFINE n == Len(log) + 1
           K == known[d]
<1>1. /\ d \in Devices /\ UNCHANGED <<chat, handed>> /\ n \in Nat
      /\ \A m \in DOMAIN K : K[m] \in [says : Nat, at : Nat] /\ m.id \in DOMAIN log
    BY DEF ChatInv, ChatTypeOK, Known, Devices, ConnectorSends
<1>2. CASE /\ Publish(d, Quoting(FromConnector, ConnectorQuotes(d)))
           /\ known' = [known EXCEPT ![d] =
                [k \in DOMAIN @ \cup {MakeWAMessageID(ChatOf(d), UserOf[d], n)} |->
                   IF k.id = n THEN [says |-> n, at |-> 0] ELSE @[k]]]
    <2> DEFINE new == MakeWAMessageID(ChatOf(d), UserOf[d], n)
               R == [k \in DOMAIN K \cup {new} |-> IF k.id = n THEN [says |-> n, at |-> 0] ELSE K[k]]
    <2>1. known' = [known EXCEPT ![d] = R]
        BY <1>2 DEF ChatInv
    <2>2. new.id = n /\ [says |-> n, at |-> 0] \in [says : Nat, at : Nat]
        BY <1>1 DEF MakeWAMessageID
    <2>3. \A m \in DOMAIN R : /\ m \in DOMAIN K \/ m = new
                              /\ R[m] \in [says : Nat, at : Nat]
        <3> SUFFICES ASSUME NEW m \in DOMAIN R
                     PROVE  (m \in DOMAIN K \/ m = new) /\ R[m] \in [says : Nat, at : Nat]
            OBVIOUS
        <3>1. m \in DOMAIN K \/ m = new
            OBVIOUS
        <3>2. R[m] = IF m.id = n THEN [says |-> n, at |-> 0] ELSE K[m]
            OBVIOUS
        <3> HIDE DEF R, K, new, n
        <3> QED
            BY <1>1, <2>2, <3>1, <3>2
    <2>4. \A e \in Quoting(FromConnector, ConnectorQuotes(d)) : Fits(e, d)
        <3>1. \A e \in FromConnector : Fresh(e)
            BY FromConnectorIsFresh DEF FromConnector
        <3>2. \A q \in ConnectorQuotes(d) : QuoteWell(q)
            BY ConnectorQuotesWell
        <3> QED
            BY <3>1, <3>2, QuotingFits
    <2> HIDE DEF R
    <2> QED
        BY <1>1, <1>2, <2>1, <2>3, <2>4, ConnectorKeeps
<1>3. CASE Publish(d, HandleMatrixReaction(d) \cup HandleMatrixReactionRemove(d)) /\ UNCHANGED known
    BY <1>1, <1>3, HandleMatrixReactionFits, OthersSendKeeps
<1>4. ASSUME NEW e \in HandleMatrixEdit(d), Publish(d, {e}),
             known' = [known EXCEPT ![d] = [k \in DOMAIN @ |-> IF k.id = e.target THEN [says |-> n, at |-> e.at] ELSE @[k]]]
      PROVE  ChatInv'
    <2> DEFINE R == [k \in DOMAIN K |-> IF k.id = e.target THEN [says |-> n, at |-> e.at] ELSE K[k]]
    <2>1. known' = [known EXCEPT ![d] = R]
        BY <1>4 DEF ChatInv
    <2>2. Fits(e, d) /\ e.at \in Nat
        BY HandleMatrixEditFits
    <2>3. \A m \in DOMAIN R : m \in DOMAIN K /\ R[m] \in [says : Nat, at : Nat]
        <3> HIDE DEF K, n
        <3> QED
            BY <1>1, <2>2
    <2>4. \A f \in {e} : Fits(f, d)
        BY <2>2
    <2> HIDE DEF R
    <2> QED
        BY <1>1, <1>4, <2>1, <2>3, <2>4, ConnectorKeeps
<1>5. ASSUME NEW e \in HandleMatrixMessageRemove(d), Publish(d, {e}),
             known' = [known EXCEPT ![d] = [k \in {m \in DOMAIN @ : m.id # e.target} |-> @[k]]]
      PROVE  ChatInv'
    <2> DEFINE R == [k \in {m \in DOMAIN K : m.id # e.target} |-> K[k]]
    <2>1. known' = [known EXCEPT ![d] = R]
        BY <1>5 DEF ChatInv
    <2>2. \A m \in DOMAIN R : m \in DOMAIN K /\ R[m] \in [says : Nat, at : Nat]
        <3> HIDE DEF K
        <3> QED
            BY <1>1
    <2>3. \A f \in {e} : Fits(f, d)
        BY HandleMatrixRemoveFits
    <2> HIDE DEF R
    <2> QED
        BY <1>1, <1>5, <2>1, <2>2, <2>3, ConnectorKeeps
<1> HIDE DEF K
<1> QED
    BY <1>2, <1>3, <1>4, <1>5 DEF ConnectorSends

LEMMA SendsKeep ==
    /\ \A d \in Bridges : ChatInv /\ BridgeSends(d) => ChatInv'
    /\ \A d \in Apps : ChatInv /\ AppSends(d) => ChatInv'
<1>1. ASSUME ChatInv, NEW d \in Bridges, BridgeSends(d) PROVE ChatInv'
    <2>1. d \in Devices /\ UNCHANGED <<chat, handed, known>>
        BY <1>1 DEF Devices, BridgeSends
    <2>2. \A e \in Quoting(FromBridge, BridgeQuotes(d)) : Fits(e, d)
        BY <1>1, FromBridgeIsFresh, BridgeQuotesWell, QuotingFits
    <2>3. \A e \in SendE2EEReaction(d) \cup EditE2EEMessage(d) \cup UnsendE2EEMessage(d) : Fits(e, d)
        BY <1>1, BridgeAboutFits
    <2> QED
        BY <1>1, <2>1, <2>2, <2>3, OthersSendKeeps DEF BridgeSends
<1>2. ASSUME ChatInv, NEW d \in Apps, AppSends(d) PROVE ChatInv'
    <2>1. d \in Devices /\ UNCHANGED <<chat, handed, known>> /\ Publish(d, Quoting(FromApp, AppQuotes) \cup Bumps(d))
        BY <1>2 DEF Devices, AppSends
    <2>2. \A e \in Quoting(FromApp, AppQuotes) : Fits(e, d)
        BY <1>2, FromAppIsFresh, AppQuotesWell, QuotingFits
    <2>3. \A e \in Bumps(d) : Fits(e, d)
        BY <1>2, BumpsFit
    <2>4. \A e \in Quoting(FromApp, AppQuotes) \cup Bumps(d) : Fits(e, d)
        BY <2>2, <2>3
    <2> QED
        BY <1>2, <2>1, <2>4, OthersSendKeeps
<1> QED
    BY <1>1, <1>2

LEMMA ChatInvariant == ChatSpec => []ChatInv
<1>1. ChatInit => ChatInv
    BY DEF ChatInit, ChatInv, ChatTypeOK, LogSound, Known
<1>2. ChatInv /\ [ChatNext]_sealedVars => ChatInv'
    <2> SUFFICES ASSUME ChatInv, [ChatNext]_sealedVars PROVE ChatInv'
        OBVIOUS
    <2>1. ASSUME UNCHANGED sealedVars PROVE ChatInv'
        <3>1. UNCHANGED <<chat, log, handed, known>>
            BY <2>1 DEF sealedVars
        <3>2. ChatTypeOK' /\ known' = [c \in Connectors |-> known'[c]]
            BY <3>1 DEF ChatInv, ChatTypeOK
        <3>3. ASSUME NEW i \in DOMAIN log' PROVE (log[i].by \in Devices /\ Fits(log[i], log[i].by))'
            BY <3>1, <3>3 DEF ChatInv, LogSound, Fits, KeyIsRight
        <3>4. ASSUME NEW c \in Connectors PROVE Known(c)'
            BY <3>1, <3>4 DEF ChatInv, Known, IdOf, ChatOf
        <3> QED
            BY <3>2, <3>3, <3>4 DEF ChatInv, LogSound
    <2>2. ASSUME NEW d \in Bridges, BridgeSends(d) PROVE ChatInv'
        BY <2>2, SendsKeep
    <2>3. ASSUME NEW d \in Connectors, ConnectorSends(d) PROVE ChatInv'
        BY <2>3, ConnectorSendsKeeps
    <2>4. ASSUME NEW d \in Apps, AppSends(d) PROVE ChatInv'
        BY <2>4, SendsKeep
    <2>5. ASSUME NEW d \in Readers, NEW i \in DOMAIN log, Deliver(d, i) PROVE ChatInv'
        BY <2>5, DeliverKeeps
    <2> QED
        BY <2>1, <2>2, <2>3, <2>4, <2>5 DEF ChatNext
<1> QED
    BY <1>1, <1>2, PTL DEF ChatSpec

\* Whoever quotes, edits, removes or answers a message, from whichever of his devices,
\* means the message every other device takes it for (WAKeyToMessageID, BuildMessageKey).
THEOREM EveryoneMeansTheSameMessage == ChatSpec => []RightTarget
BY ChatInvariant, TargetsAreRight, PTL

\* An edit never takes a message back to an older text (ConvertEdit), whatever the order
\* the edits of its author's devices arrive in and however often.
THEOREM TheNewestEditIsShown == ChatSpec => NewestEditStands
<1>1. ChatInv /\ [ChatNext]_sealedVars => [NewestShown]_sealedVars
    <2> SUFFICES ASSUME ChatInv, ChatNext PROVE NewestShown
        OBVIOUS
    <2>1. ASSUME NEW d \in Devices, NEW messages, Publish(d, messages) PROVE log' # log
        BY <2>1 DEF Publish, ChatInv, ChatTypeOK
    <2>2. (\E d \in Bridges : BridgeSends(d)) \/ (\E d \in Connectors : ConnectorSends(d))
            \/ (\E d \in Apps : AppSends(d)) => NewestShown
        BY <2>1 DEF BridgeSends, ConnectorSends, AppSends, Devices, NewestShown
    <2>3. ASSUME NEW d \in Readers, NEW i \in DOMAIN log, Deliver(d, i) PROVE NewestShown
        BY <2>3, DeliverShowsTheNewest
    <2> QED
        BY <2>2, <2>3 DEF ChatNext
<1>2. ChatSpec => [][NewestShown]_sealedVars
    BY <1>1, ChatInvariant, PTL DEF ChatSpec
<1> QED
    BY <1>2 DEF NewestEditStands, NewestShown

-----------------------------------------------------------------------------
(* What is read.                                                             *)

LEMMA LeastIs ==
    ASSUME NEW G, \A n \in G : n = 1 \/ n = 2 \/ n = 3, G # {}
    PROVE  LET least == CHOOSE n \in G : \A m \in G : n =< m
           IN least \in G /\ (1 \in G => least = 1)
<1>1. \E n \in G : \A m \in G : n =< m
    <2>1. CASE 1 \in G
        <3>1. \A m \in G : 1 =< m
            OBVIOUS
        <3> QED
            BY <2>1, <3>1
    <2>2. CASE 1 \notin G /\ 2 \in G
        <3>1. \A m \in G : 2 =< m
            BY <2>2
        <3> QED
            BY <2>2, <3>1
    <2>3. CASE 1 \notin G /\ 2 \notin G
        <3>1. 3 \in G /\ \A m \in G : 3 =< m
            BY <2>3
        <3> QED
            BY <3>1
    <2> QED
        BY <2>1, <2>2, <2>3
<1> DEFINE least == CHOOSE n \in G : \A m \in G : n =< m
<1>2. least \in G /\ \A m \in G : least =< m
    BY <1>1
<1> HIDE DEF least
<1>3. 1 \in G => least = 1
    BY <1>2
<1> QED
    BY <1>2, <1>3 DEF least

LEMMA ShortIs ==
    ASSUME NEW S, NEW w \in Seq(S), Len(w) = 1 \/ Len(w) = 2 \/ Len(w) = 3
    PROVE  (\A n \in DOMAIN w : (n = 1 \/ n = 2 \/ n = 3) /\ w[n] \in S) /\ 1 \in DOMAIN w
<1>1. DOMAIN w = 1 .. Len(w)
    OBVIOUS
<1>2. 1 \in DOMAIN w
    BY <1>1
<1>3. \A n \in DOMAIN w : n = 1 \/ n = 2 \/ n = 3
    BY <1>1
<1> QED
    BY <1>2, <1>3

LEMMA FirstOfIs ==
    ASSUME NEW S, NEW w \in Seq(S), Len(w) = 1 \/ Len(w) = 2 \/ Len(w) = 3, "" \in S
    PROVE  FirstOf(w) \in S /\ (w[1] # "" => FirstOf(w) = w[1])
<1> DEFINE G == {n \in DOMAIN w : w[n] # ""}
           least == CHOOSE n \in G : \A m \in G : n =< m
<1>1. FirstOf(w) = IF G = {} THEN "" ELSE w[least]
    BY DEF FirstOf
<1>2. \A n \in DOMAIN w : (n = 1 \/ n = 2 \/ n = 3) /\ w[n] \in S
    BY ShortIs
<1>3. 1 \in DOMAIN w
    BY ShortIs
<1>4. /\ \A n \in G : (n = 1 \/ n = 2 \/ n = 3) /\ w[n] \in S
      /\ w[1] # "" => 1 \in G
    BY <1>2, <1>3, Zenon
<1> HIDE DEF G
<1>5. G # {} => least \in G /\ (1 \in G => least = 1)
    BY <1>4, LeastIs
<1> HIDE DEF least
<1> QED
    BY <1>1, <1>4, <1>5

\* The texts of a message, and of the pages it is about.
Pages == {"", "page", "place"}

LEMMA TwoIs ==
    ASSUME NEW S, NEW a \in S, NEW b \in S
    PROVE  <<a, b>> \in Seq(S) /\ Len(<<a, b>>) = 2
OBVIOUS

LEMMA LongerIs ==
    ASSUME NEW S, NEW w \in Seq(S), Len(w) = 2, NEW a \in S
    PROVE  w \o <<a>> \in Seq(S) /\ Len(w \o <<a>>) = 3 /\ (w \o <<a>>)[1] = w[1]
<1>1. <<a>> \in Seq(S) /\ Len(<<a>>) = 1
    OBVIOUS
<1>2. w \o <<a>> \in Seq(S) /\ Len(w \o <<a>>) = 2 + 1 /\ (w \o <<a>>)[1] = w[1]
    BY <1>1, ConcatProperties
<1> QED
    BY <1>2

LEMMA LastAre ==
    ASSUME NEW S, NEW w \in Seq(S), Len(w) = 3
    PROVE  w[2] \in S /\ w[3] \in S
<1>1. 2 \in 1 .. Len(w) /\ 3 \in 1 .. Len(w)
    OBVIOUS
<1> QED
    BY <1>1, ElementOfSeq

LEMMA LargerIs ==
    ASSUME NEW S, NEW T, NEW w \in Seq(S)
    PROVE  w \in Seq(S \cup T)
OBVIOUS

LEMMA LinkOfIs ==
    ASSUME NEW e \in Entries
    PROVE  LinkOf(e) \in Pages /\ e.cta.native \in Pages
<1> DEFINE a == ExtractURLFromLPHP(e.cta.action)
           b == e.cta.native
<1>1. a \in Pages /\ b \in Pages /\ "" \in Pages
    BY DEF Entries, ExtractURLFromLPHP, Pages
<1>2. LinkOf(e) = FirstOf(<<a, b>>)
    BY DEF LinkOf
<1> HIDE DEF a
<1>3. FirstOf(<<a, b>>) \in Pages
    BY <1>1, TwoIs, FirstOfIs
<1> QED
    BY <1>1, <1>2, <1>3

LEMMA WordsAre ==
    ASSUME NEW e \in Entries, Content(e)
    PROVE  /\ e.words \in Seq(Texts)
           /\ Len(e.words) = 1 \/ Len(e.words) = 2 \/ Len(e.words) = 3
           /\ e.kind = "share" => Len(e.words) = 2
           /\ e.kind = "extended" => Len(e.words) = 3
           /\ e.words[1] # "" => e.kind \in {"text", "extended", "image", "video", "share"}
BY DEF Entries, Content

LEMMA TextIsRead ==
    ASSUME NEW e \in Entries, IsMessage(e), Content(e)
    PROVE  /\ ExtractE2EEText(e) \in Texts \cup Pages
           /\ e.words[1] # "" => ExtractE2EEText(e) = e.words[1]
<1> DEFINE w == e.words
           link == LinkOf(e)
           S == Texts \cup Pages
<1>1. link \in S /\ e.cta.native \in S /\ "" \in S
    BY LinkOfIs DEF Pages
<1>2. w \in Seq(S) /\ (Len(w) = 1 \/ Len(w) = 2 \/ Len(w) = 3) /\ (e.kind = "share" => Len(w) = 2)
    BY WordsAre, LargerIs
<1>3. w[1] # "" => e.kind \in {"text", "extended", "image", "video", "share"}
    BY WordsAre
<1>4. ExtractE2EEText(e) =
        CASE e.kind \in {"text", "extended", "image", "video"} -> FirstOf(w)
          [] e.kind = "share" -> FirstOf(w \o <<link>>)
          [] e.kind = "sear" -> e.cta.native
          [] OTHER -> ""
    BY DEF ExtractE2EEText
<1>5. FirstOf(w) \in S /\ (w[1] # "" => FirstOf(w) = w[1])
    BY <1>1, <1>2, FirstOfIs
<1>6. e.kind = "share" => FirstOf(w \o <<link>>) \in S /\ (w[1] # "" => FirstOf(w \o <<link>>) = w[1])
    <2> DEFINE v == w \o <<link>>
    <2> SUFFICES ASSUME e.kind = "share" PROVE FirstOf(v) \in S /\ (w[1] # "" => FirstOf(v) = w[1])
        OBVIOUS
    <2> HIDE DEF w, link, S
    <2>1. v \in Seq(S) /\ Len(v) = 3 /\ v[1] = w[1]
        BY <1>1, <1>2, LongerIs
    <2> HIDE DEF v
    <2> QED
        BY <1>1, <2>1, FirstOfIs
<1> HIDE DEF w, link, S
<1> QED
    BY <1>1, <1>3, <1>4, <1>5, <1>6 DEF S, w

LEMMA PartIs == \A as, text, opens : /\ Part(as, text, opens).as = as /\ Part(as, text, opens).text = text
                                     /\ Part(as, text, opens).opens = opens
BY DEF Part

LEMMA OneIs ==
    ASSUME NEW p
    PROVE  DOMAIN <<p>> = {1} /\ <<p>>[1] = p /\ Len(<<p>>) = 1 /\ \A n \in DOMAIN <<p>> : <<p>>[n] = p
OBVIOUS

LEMMA WordedIs ==
    ASSUME NEW as, NEW text
    PROVE  /\ text = "" => Worded(as, text) = << >>
           /\ text # "" => Worded(as, text) = <<Part(as, text, "none")>>
BY DEF Worded

LEMMA ShownAsIs ==
    /\ ShownAs["image"] = {"image"} /\ ShownAs["gif"] = {"image", "video"} /\ ShownAs["still"] = {"image", "video"}
    /\ ShownAs["video"] = {"video"} /\ ShownAs["voice"] = {"voice"} /\ ShownAs["audio"] = {"audio", "voice"}
    /\ ShownAs["file"] = {"file"} /\ ShownAs["sticker"] = {"sticker"} /\ ShownAs["viewOnce"] = {"image", "video"}
BY DEF ShownAs

Failed == Part("notice", "failed", "none")

\* No part of what is shown is the redirection to a page; a medium is there once, or
\* the notice that it failed.
Clean(p) == \A n \in DOMAIN p : p[n].text # "redirect"
Once(p, kinds, key) == /\ {n \in DOMAIN p : p[n].as \in kinds /\ p[n].opens = key} = {1}
                       /\ {n \in DOMAIN p : p[n] = Failed} = {}
Never(p, kinds, key) == /\ {n \in DOMAIN p : p[n].as \in kinds /\ p[n].opens = key} = {}
                        /\ {n \in DOMAIN p : p[n] = Failed} = {1}

LEMMA FailedIs == Failed.as = "notice" /\ Failed.text = "failed" /\ Failed.opens = "none"
BY DEF Failed, Part

LEMMA OnePartIs ==
    ASSUME NEW as, NEW text, NEW opens
    PROVE  /\ text # "redirect" => Clean(<<Part(as, text, opens)>>)
           /\ \A kinds, key : as \in kinds /\ opens = key /\ text = "" => Once(<<Part(as, text, opens)>>, kinds, key)
<1> DEFINE p == Part(as, text, opens)
<1>1. p.as = as /\ p.text = text /\ p.opens = opens
    BY DEF Part
<1>2. DOMAIN <<p>> = {1} /\ <<p>>[1] = p
    BY OneIs
<1> HIDE DEF p
<1>3. text # "redirect" => Clean(<<p>>)
    BY <1>1, <1>2 DEF Clean
<1>4. \A kinds, key : as \in kinds /\ opens = key /\ text = "" => Once(<<p>>, kinds, key)
    BY <1>1, <1>2, FailedIs DEF Once
<1> QED
    BY <1>3, <1>4 DEF p

LEMMA NoneIsClean == Clean(<< >>)
BY DEF Clean

LEMMA WordedIsClean ==
    ASSUME NEW as, NEW text, text # "redirect"
    PROVE  Clean(Worded(as, text))
<1>1. CASE text = ""
    BY <1>1, WordedIs, NoneIsClean
<1>2. CASE text # ""
    BY <1>2, WordedIs, OnePartIs
<1> QED
    BY <1>1, <1>2

LEMMA PagesAre == "redirect" \notin Texts \cup Pages
BY DEF Texts, Pages

\* What a bridge shows of a message beside its words.
LEMMA AttachmentsAre ==
    ASSUME NEW e \in Entries, e.kind \in MessageKinds, Content(e)
    PROVE  /\ Clean(Attachments(e))
           /\ e.sealedAs # "none" /\ e.kind # "viewOnce" =>
                Once(Attachments(e), ShownAs[e.meant], e.sealedAs)
<1> DEFINE Goal == /\ Clean(Attachments(e))
                   /\ e.sealedAs # "none" /\ e.kind # "viewOnce" =>
                        Once(Attachments(e), ShownAs[e.meant], e.sealedAs)
<1>1. CASE e.kind = "image"
    <2>1. Attachments(e) = <<Part("image", "", "image")>>
        BY <1>1 DEF Attachments, ExtractE2EEImageAttachment, MediaTypeOf
    <2>2. e.sealedAs = "image" /\ "image" \in ShownAs[e.meant]
        BY <1>1, ShownAsIs DEF Content
    <2> QED
        BY <2>1, <2>2, OnePartIs
<1>2. CASE e.kind = "video"
    <2>1. Attachments(e) = <<Part("video", "", "video")>>
        BY <1>2 DEF Attachments, ExtractE2EEVideoAttachment, MediaTypeOf
    <2>2. e.sealedAs = "video" /\ "video" \in ShownAs[e.meant]
        BY <1>2, ShownAsIs DEF Content
    <2> QED
        BY <2>1, <2>2, OnePartIs
<1>3. CASE e.kind = "audio"
    <2> DEFINE as == IF e.ptt THEN "voice" ELSE "audio"
    <2>1. Attachments(e) = <<Part(as, "", "audio")>>
        BY <1>3 DEF Attachments, ExtractE2EEAudioAttachment, MediaTypeOf
    <2>2. e.sealedAs = "audio" /\ as \in ShownAs[e.meant]
        BY <1>3, ShownAsIs DEF Content
    <2> QED
        BY <2>1, <2>2, OnePartIs
<1>4. CASE e.kind = "document"
    <2>1. Attachments(e) = <<Part("file", "", "document")>>
        BY <1>4 DEF Attachments, ExtractE2EEDocumentAttachment, MediaTypeOf
    <2>2. e.sealedAs = "document" /\ "file" \in ShownAs[e.meant]
        BY <1>4, ShownAsIs DEF Content
    <2> QED
        BY <2>1, <2>2, OnePartIs
<1>5. CASE e.kind \in {"sticker", "storeSticker"}
    <2>1. Attachments(e) = <<Part("sticker", "", "image")>>
        BY <1>5 DEF Attachments, ExtractE2EEStickerAttachment, MediaTypeOf
    <2>2. e.kind = "storeSticker" => e.sealedAs = "none"
        BY DEF Content, Sealable
    <2>3. e.kind = "sticker" => e.sealedAs = "image" /\ "sticker" \in ShownAs[e.meant]
        BY ShownAsIs DEF Content
    <2> QED
        BY <1>5, <2>1, <2>2, <2>3, OnePartIs
<1>6. CASE e.kind \notin {"image", "video", "audio", "document", "sticker", "storeSticker"}
    <2>1. e.sealedAs = "none" \/ e.kind = "viewOnce"
        BY <1>6 DEF Content, Sealable
    <2>2. CASE e.kind = "place"
        <3>1. Attachments(e) = <<Part("location", "", "none")>>
            BY <2>2 DEF Attachments
        <3> QED
            BY <2>1, <3>1, OnePartIs
    <2>3. CASE e.kind = "extended"
        <3> DEFINE a == e.words[3]
                   b == e.words[2]
        <3>1. a \in Texts /\ b \in Texts /\ "" \in Texts
            BY <2>3, WordsAre, LastAre DEF Texts
        <3>2. Attachments(e) = Worded("link", FirstOf(<<a, b>>))
            BY <2>3 DEF Attachments, LinkPart
        <3> HIDE DEF a, b
        <3>3. FirstOf(<<a, b>>) \in Texts
            BY <3>1, TwoIs, FirstOfIs
        <3> QED
            BY <2>1, <2>3, <3>2, <3>3, PagesAre, WordedIsClean
    <2>4. CASE e.kind = "share"
        <3>1. Attachments(e) = Worded("link", LinkOf(e))
            BY <2>4 DEF Attachments, LinkPart
        <3> QED
            BY <2>1, <2>4, <3>1, LinkOfIs, PagesAre, WordedIsClean
    <2>5. CASE e.kind = "sear"
        <3>1. Attachments(e) = Worded("link", e.cta.native)
            BY <2>5 DEF Attachments, LinkPart
        <3> QED
            BY <2>1, <2>5, <3>1, LinkOfIs, PagesAre, WordedIsClean
    <2>6. CASE e.kind \notin {"place", "extended", "share", "sear"}
        <3>1. Attachments(e) = << >>
            BY <1>6, <2>6 DEF Attachments
        <3> QED
            BY <2>1, <3>1, NoneIsClean
    <2> QED
        BY <2>2, <2>3, <2>4, <2>5, <2>6
<1> QED
    BY <1>1, <1>2, <1>3, <1>4, <1>5, <1>6

LEMMA BothAre ==
    ASSUME NEW a, NEW b
    PROVE  LET p == <<a>> \o <<b>> IN DOMAIN p = {1, 2} /\ p[1] = a /\ p[2] = b
<1>1. <<a>> \in Seq({a, b}) /\ <<b>> \in Seq({a, b}) /\ Len(<<a>>) = 1 /\ Len(<<b>>) = 1
    OBVIOUS
<1> DEFINE p == <<a>> \o <<b>>
<1>2. /\ p \in Seq({a, b}) /\ Len(p) = 1 + 1
      /\ \A i \in 1 .. 1 + 1 : p[i] = IF i <= 1 THEN <<a>>[i] ELSE <<b>>[i - 1]
    BY <1>1, ConcatProperties
<1> HIDE DEF p
<1>3. p[1] = a /\ p[2] = b
    BY <1>2
<1>4. DOMAIN p = 1 .. 2
    BY <1>2
<1> QED
    BY <1>3, <1>4 DEF p

LEMMA NothingIs ==
    ASSUME NEW a, NEW b
    PROVE  /\ << >> \o << >> = << >>
           /\ DOMAIN (<<a>> \o << >>) = {1} /\ (<<a>> \o << >>)[1] = a /\ <<a>> \o << >> # << >>
           /\ DOMAIN (<< >> \o <<b>>) = {1} /\ (<< >> \o <<b>>)[1] = b /\ << >> \o <<b>> # << >>
           /\ DOMAIN (<<a>> \o <<b>>) = {1, 2} /\ (<<a>> \o <<b>>)[1] = a /\ (<<a>> \o <<b>>)[2] = b
           /\ <<a>> \o <<b>> # << >>
<1>1. << >> \o << >> = << >>
    OBVIOUS
<1>2. <<a>> \o << >> = <<a>>
    OBVIOUS
<1>3. << >> \o <<b>> = <<b>>
    OBVIOUS
<1>4. DOMAIN << >> = {}
    OBVIOUS
<1>5. DOMAIN <<a>> = {1} /\ <<a>>[1] = a /\ DOMAIN <<b>> = {1} /\ <<b>>[1] = b
    BY OneIs
<1> DEFINE p == <<a>> \o <<b>>
<1>6. DOMAIN p = {1, 2} /\ p[1] = a /\ p[2] = b
    BY BothAre
<1> HIDE DEF p
<1>7. p # << >>
    BY <1>4, <1>6
<1> QED
    BY <1>1, <1>2, <1>3, <1>4, <1>5, <1>6, <1>7 DEF p

LEMMA PairIs ==
    ASSUME NEW a, NEW b, NEW p, p = <<a>> \o <<b>>
    PROVE  DOMAIN p = {1, 2} /\ p[1] = a /\ p[2] = b
<1>1. DOMAIN (<<a>> \o <<b>>) = {1, 2} /\ (<<a>> \o <<b>>)[1] = a /\ (<<a>> \o <<b>>)[2] = b
    BY NothingIs, Zenon
<1> QED
    BY <1>1, Zenon

\* A medium or the notice that stands for it, and its caption.
CaptionShown(p, as, opens, caption, moved) ==
    /\ Clean(p)
    /\ \A kinds : as \in kinds => IF moved THEN Once(p, kinds, opens) ELSE Never(p, kinds, opens)
    /\ caption # "" => \E n \in DOMAIN p : p[n].text = caption

LEMMA MediumIs ==
    ASSUME NEW as, NEW opens, opens # "none", NEW caption \in Texts, NEW moved \in BOOLEAN,
           NEW p, p = ConvertWhatsAppAttachment(Part(as, "", opens), caption, moved)
    PROVE  CaptionShown(p, as, opens, caption, moved)
<1> DEFINE m == IF moved THEN Part(as, "", opens) ELSE Failed
           t == Part("text", caption, "none")
<1>1. /\ moved => m.as = as /\ m.text = "" /\ m.opens = opens
      /\ ~ moved => m = Failed
    BY DEF Part
<1>2. t.as = "text" /\ t.text = caption /\ t.opens = "none"
    BY DEF Part
<1>3. caption # "redirect" /\ caption # "failed"
    BY DEF Texts
<1>4. m # Failed <=> moved
    BY <1>1, FailedIs
<1>5. t # Failed /\ m.text # "redirect" /\ (~ moved => m.opens = "none")
    BY <1>1, <1>2, <1>3, FailedIs
<1>6. p = <<m>> \o Worded("text", caption)
    BY DEF ConvertWhatsAppAttachment, Failed
<1>7. CASE caption = ""
    <2>1. p = <<m>> \o << >>
        BY <1>6, <1>7, WordedIs
    <2> HIDE DEF m
    <2>2. DOMAIN p = {1} /\ p[1] = m
        BY <2>1, NothingIs
    <2>3. \A kinds : as \in kinds /\ moved => Once(p, kinds, opens)
        BY <1>1, <1>4, <2>2 DEF Once
    <2>4. \A kinds : ~ moved => Never(p, kinds, opens)
        BY <1>4, <1>5, <2>2 DEF Never
    <2> QED
        BY <1>5, <1>7, <2>2, <2>3, <2>4 DEF Clean, CaptionShown
<1>8. CASE caption # ""
    <2>1. p = <<m>> \o <<t>>
        BY <1>6, <1>8, WordedIs
    <2> HIDE DEF m, t
    <2>2. DOMAIN p = {1, 2} /\ p[1] = m /\ p[2] = t
        BY <2>1, PairIs
    <2>3. Clean(p) /\ \E n \in DOMAIN p : p[n].text = caption
        BY <1>2, <1>3, <1>5, <2>2 DEF Clean
    <2>4. \A kinds : as \in kinds /\ moved => Once(p, kinds, opens)
        BY <1>1, <1>2, <1>4, <1>5, <2>2 DEF Once
    <2>5. \A kinds : ~ moved => Never(p, kinds, opens)
        BY <1>2, <1>4, <1>5, <2>2 DEF Never
    <2> QED
        BY <2>3, <2>4, <2>5 DEF CaptionShown
<1> QED
    BY <1>7, <1>8

\* What a connector shows of a message.
PartsOf(e, moved) == CASE e.kind \in {"share", "sear", "bump"} -> WAArmadilloToMatrix(e)
                       [] e.kind \in {"timer", "instagram"} -> <<Part("notice", e.kind, "none")>>
                       [] OTHER -> WAConsumerToMatrix(e, moved)

\* The words of a message are in what is shown of it; the rest as for a bridge.
Reads(p, e, moved) ==
    /\ Clean(p)
    /\ e.sealedAs # "none" => IF moved THEN Once(p, ShownAs[e.meant], e.sealedAs)
                              ELSE Never(p, ShownAs[e.meant], e.sealedAs)
    /\ e.words[1] # "" => \E n \in DOMAIN p : p[n].text = e.words[1]
    /\ e.meant = "location" => \E n \in DOMAIN p : p[n].as = "location"

LEMMA NoticeReads ==
    ASSUME NEW e, NEW moved, NEW as, NEW text, text # "redirect", e.sealedAs = "none",
           e.words[1] # "" => text = e.words[1], e.meant = "location" => as = "location"
    PROVE  Reads(<<Part(as, text, "none")>>, e, moved)
<1> DEFINE p == Part(as, text, "none")
<1>1. p.as = as /\ p.text = text
    BY DEF Part
<1>2. Clean(<<p>>)
    BY OnePartIs
<1> HIDE DEF p
<1>3. DOMAIN <<p>> = {1} /\ <<p>>[1] = p
    BY OneIs
<1> QED
    BY <1>1, <1>2, <1>3 DEF Reads, p

LEMMA MediaReads ==
    ASSUME NEW e \in Entries, Content(e), e.kind \in Sealable, NEW moved \in BOOLEAN
    PROVE  Reads(ConvertWhatsAppMedia(e, moved), e, moved)
<1> DEFINE c == e.words[1]
           Sent(as) == ConvertWhatsAppMedia(e, moved) = ConvertWhatsAppAttachment(Part(as, "", e.sealedAs), c, moved)
<1>1. c \in Texts /\ e.meant # "location"
    <2>1. c \in Texts
        BY WordsAre, ShortIs
    <2> QED
        BY <2>1 DEF Content, Sealable
<1>2. e.sealedAs \in {"image", "video", "audio", "document"} /\ e.sealedAs # "none"
    BY DEF Content, Sealable, Entries
<1>3. ASSUME NEW as, Sent(as), as \in ShownAs[e.meant]
      PROVE  Reads(ConvertWhatsAppMedia(e, moved), e, moved)
    <2> DEFINE p == ConvertWhatsAppMedia(e, moved)
               opens == e.sealedAs
    <2>1. p = ConvertWhatsAppAttachment(Part(as, "", opens), c, moved)
        BY <1>3
    <2> HIDE DEF c, p, opens
    <2>2. opens # "none" /\ c \in Texts
        BY <1>1, <1>2 DEF opens
    <2>3. CaptionShown(p, as, opens, c, moved)
        BY <2>1, <2>2, MediumIs
    <2> QED
        BY <1>1, <1>3, <2>3 DEF Reads, CaptionShown, c, opens, p
<1>4. CASE e.kind = "image" \/ (e.kind = "viewOnce" /\ e.sealedAs = "image")
    <2>1. e.sealedAs = "image" /\ "image" \in ShownAs[e.meant]
        BY <1>4, ShownAsIs DEF Content
    <2>2. Sent("image")
        BY <1>4, <2>1 DEF ConvertWhatsAppMedia
    <2> QED
        BY <1>3, <2>1, <2>2
<1>5. CASE e.kind = "video" \/ (e.kind = "viewOnce" /\ e.sealedAs = "video")
    <2> DEFINE as == IF e.about = "still" THEN "image" ELSE "video"
    <2>1. e.sealedAs = "video" /\ as \in ShownAs[e.meant]
        BY <1>5, ShownAsIs DEF Content
    <2>2. Sent(as)
        BY <1>5, <2>1 DEF ConvertWhatsAppMedia
    <2> QED
        BY <1>3, <2>1, <2>2
<1>6. CASE e.kind = "audio"
    <2>1. e.sealedAs = "audio" /\ "voice" \in ShownAs[e.meant]
        BY <1>6, ShownAsIs DEF Content
    <2>2. Sent("voice")
        BY <1>6, <2>1 DEF ConvertWhatsAppMedia
    <2> QED
        BY <1>3, <2>1, <2>2
<1>7. CASE e.kind = "document"
    <2>1. e.sealedAs = "document" /\ "file" \in ShownAs[e.meant]
        BY <1>7, ShownAsIs DEF Content
    <2>2. Sent("file")
        BY <1>7, <2>1 DEF ConvertWhatsAppMedia
    <2> QED
        BY <1>3, <2>1, <2>2
<1>8. CASE e.kind = "sticker"
    <2>1. e.sealedAs = "image" /\ "sticker" \in ShownAs[e.meant]
        BY <1>8, ShownAsIs DEF Content
    <2>2. Sent("sticker")
        BY <1>8, <2>1 DEF ConvertWhatsAppMedia
    <2> QED
        BY <1>3, <2>1, <2>2
<1>9. e.kind = "viewOnce" => e.sealedAs \in {"image", "video"}
    BY DEF Content
<1> QED
    BY <1>4, <1>5, <1>6, <1>7, <1>8, <1>9 DEF Sealable

LEMMA ShareReads ==
    ASSUME NEW e \in Entries, Content(e), e.kind = "share", NEW moved
    PROVE  Reads(WAExtendedContentMessageToMatrix(e), e, moved)
<1> DEFINE a == e.words[1]
           b == e.cta.native
           p == WAExtendedContentMessageToMatrix(e)
<1>1. a # "redirect" /\ b # "redirect"
    <2>1. a \in Texts
        BY WordsAre, ShortIs
    <2>2. b \in Pages
        BY LinkOfIs
    <2> QED
        BY <2>1, <2>2, PagesAre
<1>2. e.sealedAs = "none" /\ (e.meant = "location" => b = "place") /\ (a # "" => b # "place")
    BY DEF Content, Sealable
<1>3. CASE b = "place"
    <2>1. p = <<Part("location", "", "none")>>
        BY <1>3 DEF WAExtendedContentMessageToMatrix
    <2>2. a = ""
        BY <1>2, <1>3
    <2> QED
        BY <1>2, <2>1, <2>2, NoticeReads
<1>4. CASE b # "place"
    <2> DEFINE body == Worded("text", a) \o Worded("text", b)
    <2>1. p = IF body = << >> THEN <<Part("notice", "unsupported", "none")>> ELSE body
        BY <1>4 DEF WAExtendedContentMessageToMatrix
    <2>2. e.meant # "location"
        BY <1>2, <1>4
    <2> DEFINE s == Part("text", a, "none")
               t == Part("text", b, "none")
    <2>3. s.text = a /\ t.text = b
        BY DEF Part
    <2> DEFINE v == Worded("text", a)
               w == Worded("text", b)
    <2>4. /\ (a = "" => v = << >>) /\ (a # "" => v = <<s>>)
          /\ (b = "" => w = << >>) /\ (b # "" => w = <<t>>)
        BY WordedIs
    <2>5. p = IF v \o w = << >> THEN <<Part("notice", "unsupported", "none")>> ELSE v \o w
        BY <2>1
    <2> HIDE DEF a, b, p, s, t, v, w
    <2>6. CASE a = "" /\ b = ""
        <3>1. p = <<Part("notice", "unsupported", "none")>>
            BY <2>4, <2>5, <2>6, NothingIs
        <3> QED
            BY <1>2, <2>2, <2>6, <3>1, NoticeReads DEF a, p
    <2>7. CASE a # "" /\ b # ""
        <3>0. v = <<s>> /\ w = <<t>>
            BY <2>4, <2>7
        <3>1. DOMAIN p = {1, 2} /\ p[1] = s /\ p[2] = t
            BY <2>5, <3>0, NothingIs
        <3> QED
            BY <1>1, <1>2, <2>2, <2>3, <3>1 DEF Reads, Clean, a, p
    <2>8. CASE a # "" /\ b = ""
        <3>1. DOMAIN p = {1} /\ p[1] = s
            BY <2>4, <2>5, <2>8, NothingIs
        <3> QED
            BY <1>1, <1>2, <2>2, <2>3, <3>1 DEF Reads, Clean, a, p
    <2>9. CASE a = "" /\ b # ""
        <3>1. DOMAIN p = {1} /\ p[1] = t
            BY <2>4, <2>5, <2>9, NothingIs
        <3> QED
            BY <1>1, <1>2, <2>2, <2>3, <2>9, <3>1 DEF Reads, Clean, a, p
    <2> QED
        BY <2>6, <2>7, <2>8, <2>9 DEF p
<1> QED
    BY <1>3, <1>4


LEMMA PartsAreRead ==
    ASSUME NEW e \in Entries, e.kind \in MessageKinds, Content(e), NEW moved \in BOOLEAN
    PROVE  Reads(PartsOf(e, moved), e, moved)
<1> DEFINE w == e.words[1]
<1>1. w # "redirect"
    <2>1. w \in Texts
        BY WordsAre, ShortIs
    <2> QED
        BY <2>1, PagesAre
<1>2. /\ e.kind \notin Sealable => e.sealedAs = "none"
      /\ e.kind # "share" => e.meant # "location"
      /\ e.kind \notin {"text", "extended", "image", "video", "share"} => w = ""
    BY DEF Content
<1>3. CASE e.kind = "share"
    <2>1. PartsOf(e, moved) = WAExtendedContentMessageToMatrix(e)
        BY <1>3 DEF PartsOf, WAArmadilloToMatrix
    <2> QED
        BY <1>3, <2>1, ShareReads
<1>4. CASE e.kind = "sear"
    <2>1. PartsOf(e, moved) = <<Part("notice", "unsupported", "none")>>
        BY <1>4 DEF PartsOf, WAArmadilloToMatrix
    <2>2. e.kind \notin Sealable
        BY <1>4 DEF Sealable
    <2> QED
        BY <1>2, <1>4, <2>1, <2>2, NoticeReads
<1>5. CASE e.kind = "bump"
    <2>1. PartsOf(e, moved) = <<Part("text", "bumped", "none")>>
        BY <1>5 DEF PartsOf, WAArmadilloToMatrix
    <2>2. e.kind \notin Sealable
        BY <1>5 DEF Sealable
    <2> QED
        BY <1>2, <1>5, <2>1, <2>2, NoticeReads
<1>6. CASE e.kind \in {"timer", "instagram"}
    <2>1. PartsOf(e, moved) = <<Part("notice", e.kind, "none")>>
        BY <1>6 DEF PartsOf
    <2>2. e.kind \notin Sealable /\ e.kind # "redirect"
        BY <1>6 DEF Sealable
    <2> QED
        BY <1>2, <1>6, <2>1, <2>2, NoticeReads
<1>7. CASE e.kind \in {"text", "extended"}
    <2>1. PartsOf(e, moved) = <<Part("text", w, "none")>>
        BY <1>7 DEF PartsOf, WAConsumerToMatrix
    <2>2. e.kind \notin Sealable
        BY <1>7 DEF Sealable
    <2> QED
        BY <1>1, <1>2, <1>7, <2>1, <2>2, NoticeReads
<1>8. CASE e.kind \in {"place", "livePlace"}
    <2>1. PartsOf(e, moved) = <<Part("location", "", "none")>>
        BY <1>8 DEF PartsOf, WAConsumerToMatrix
    <2>2. e.kind \notin Sealable
        BY <1>8 DEF Sealable
    <2> QED
        BY <1>2, <1>8, <2>1, <2>2, NoticeReads
<1>9. CASE e.kind = "contact"
    <2>1. PartsOf(e, moved) = <<Part("notice", "unsupported", "none")>>
        BY <1>9 DEF PartsOf, WAConsumerToMatrix
    <2>2. e.kind \notin Sealable
        BY <1>9 DEF Sealable
    <2> QED
        BY <1>2, <1>9, <2>1, <2>2, NoticeReads
<1>10. CASE e.kind = "storeSticker"
    <2>1. PartsOf(e, moved) = <<Part("notice", "unsupported", "none")>>
        BY <1>10 DEF PartsOf, WAConsumerToMatrix, ConvertWhatsAppMedia
    <2>2. e.kind \notin Sealable
        BY <1>10 DEF Sealable
    <2> QED
        BY <1>2, <1>10, <2>1, <2>2, NoticeReads
<1>11. CASE e.kind \in Sealable
    <2>1. PartsOf(e, moved) = ConvertWhatsAppMedia(e, moved)
        BY <1>11 DEF PartsOf, WAConsumerToMatrix, Sealable
    <2> QED
        BY <1>11, <2>1, MediaReads
<1> QED
    BY <1>3, <1>4, <1>5, <1>6, <1>7, <1>8, <1>9, <1>10, <1>11 DEF MessageKinds

\* What a device says of a message it read.
SaysOf(d, e, moved, r) ==
    LET shows == moved \/ d \in Bridges
        words == {r.text} \cup {r.parts[n].text : n \in DOMAIN r.parts}
    IN /\ r.type = "message" \/ (d \in Bridges /\ e.meant = "location")
       /\ (e.sealedAs # "none" /\ ~(d \in Bridges /\ e.kind = "viewOnce")) =>
            /\ TimesShown(r, e) = IF shows THEN 1 ELSE 0
            /\ TimesFailed(r) = IF shows THEN 0 ELSE 1
       /\ (e.said # "" /\ r.type = "message" /\ e.kind \notin Captionless) => e.said \in words
       /\ d \in Connectors /\ e.meant = "location" => \E n \in DOMAIN r.parts : r.parts[n].as = "location"
       /\ "redirect" \notin words

LEMMA TimesAre ==
    ASSUME NEW r, NEW e
    PROVE  /\ Once(r.parts, ShownAs[e.meant], e.sealedAs) => TimesShown(r, e) = 1 /\ TimesFailed(r) = 0
           /\ Never(r.parts, ShownAs[e.meant], e.sealedAs) => TimesShown(r, e) = 0 /\ TimesFailed(r) = 1
<1> DEFINE p == r.parts
           S == {n \in DOMAIN p : p[n].as \in ShownAs[e.meant] /\ p[n].opens = e.sealedAs}
           T == {n \in DOMAIN p : p[n] = Failed}
<1>1. TimesShown(r, e) = Cardinality(S) /\ TimesFailed(r) = Cardinality(T)
    BY DEF TimesShown, TimesFailed, Failed
<1>2. Cardinality({}) = 0 /\ Cardinality({1}) = 1
    BY FS_EmptySet, FS_Singleton
<1>3. /\ Once(p, ShownAs[e.meant], e.sealedAs) => S = {1} /\ T = {}
      /\ Never(p, ShownAs[e.meant], e.sealedAs) => S = {} /\ T = {1}
    BY DEF Once, Never
<1> HIDE DEF S, T
<1> QED
    BY <1>1, <1>2, <1>3

LEMMA SaysSo ==
    ASSUME NEW d, NEW e, NEW moved \in BOOLEAN, NEW r, Clean(r.parts), r.text # "redirect", Content(e),
           r.type = "message" \/ (d \in Bridges /\ e.meant = "location"),
           e.sealedAs # "none" /\ ~(d \in Bridges /\ e.kind = "viewOnce") =>
             IF moved \/ d \in Bridges THEN Once(r.parts, ShownAs[e.meant], e.sealedAs)
             ELSE Never(r.parts, ShownAs[e.meant], e.sealedAs),
           e.words[1] # "" /\ r.type = "message" =>
             r.text = e.words[1] \/ \E n \in DOMAIN r.parts : r.parts[n].text = e.words[1],
           d \in Connectors /\ e.meant = "location" => \E n \in DOMAIN r.parts : r.parts[n].as = "location"
    PROVE  SaysOf(d, e, moved, r)
<1> DEFINE words == {r.text} \cup {r.parts[n].text : n \in DOMAIN r.parts}
           shows == moved \/ d \in Bridges
<1>1. e.sealedAs # "none" /\ ~(d \in Bridges /\ e.kind = "viewOnce") =>
        /\ TimesShown(r, e) = IF shows THEN 1 ELSE 0
        /\ TimesFailed(r) = IF shows THEN 0 ELSE 1
    BY TimesAre
<1>2. e.said # "" /\ r.type = "message" /\ e.kind \notin Captionless => e.said \in words
    <2>1. e.kind \notin Captionless => e.said = e.words[1]
        BY DEF Content
    <2> QED
        BY <2>1
<1>3. "redirect" \notin words
    BY DEF Clean
<1> HIDE DEF words
<1> QED
    BY <1>1, <1>2, <1>3 DEF SaysOf, words

LEMMA SaysOfBridge ==
    ASSUME NEW d \in Bridges, NEW e \in Entries, IsMessage(e), e.kind \in MessageKinds, Content(e), NEW moved \in BOOLEAN
    PROVE  SaysOf(d, e, moved, Reading(d, e, moved))
<1> DEFINE r == Reading(d, e, moved)
<1>1. r = HandleE2EEEvent(e)
    BY DEF Reading
<1>2. d \notin Connectors
    BY SealedAssumption
<1> SUFFICES SaysOf(d, e, moved, r)
    OBVIOUS
<1> HIDE DEF r
<1>3. CASE e.about = "place"
    <2>1. r = Report("nothing", 0)
        BY <1>1, <1>3, BridgeReads
    <2>2. r.text = "" /\ r.parts = << >> /\ r.type = "nothing"
        BY <2>1, ReportIs, ReportIsEmpty
    <2>3. e.meant = "location" /\ e.sealedAs = "none"
        BY <1>3 DEF Content, Sealable
    <2>4. Clean(r.parts)
        BY <2>2, NoneIsClean
    <2>5. r.text # "redirect" /\ r.type # "message"
        BY <2>2
    <2> QED
        BY <1>2, <2>2, <2>3, <2>4, <2>5, SaysSo
<1>4. CASE e.about # "place"
    <2>1. r.type = "message" /\ r.text = ExtractE2EEText(e) /\ r.parts = Attachments(e)
        BY <1>1, <1>4, BridgeReads
    <2>2. Clean(r.parts) /\ (e.sealedAs # "none" /\ e.kind # "viewOnce" =>
                               Once(r.parts, ShownAs[e.meant], e.sealedAs))
        BY <2>1, AttachmentsAre
    <2>3. r.text # "redirect" /\ (e.words[1] # "" => r.text = e.words[1])
        BY <2>1, TextIsRead, PagesAre
    <2>4. e.sealedAs # "none" /\ ~(d \in Bridges /\ e.kind = "viewOnce") =>
            IF moved \/ d \in Bridges THEN Once(r.parts, ShownAs[e.meant], e.sealedAs)
            ELSE Never(r.parts, ShownAs[e.meant], e.sealedAs)
        BY <2>2
    <2> QED
        BY <1>2, <2>1, <2>2, <2>3, <2>4, SaysSo
<1> QED
    BY <1>3, <1>4

LEMMA SaysOfConnector ==
    ASSUME NEW d \in Connectors, NEW e \in Entries, IsMessage(e), e.kind \in MessageKinds, Content(e), NEW moved \in BOOLEAN
    PROVE  SaysOf(d, e, moved, Reading(d, e, moved))
<1> DEFINE r == Reading(d, e, moved)
<1>1. d \notin Bridges
    BY SealedAssumption
<1>2. r = WhatsAppToMatrix(d, e, moved)
    BY <1>1, KindsDiffer DEF Reading, ReadEvent
<1>3. r.type = "message" /\ r.text = "" /\ r.parts = PartsOf(e, moved)
    BY <1>2 DEF WhatsAppToMatrix, PartsOf, Report
<1>4. Reads(r.parts, e, moved)
    BY <1>3, PartsAreRead
<1> HIDE DEF r
<1>5. r.text # "redirect"
    BY <1>3
<1> QED
    BY <1>1, <1>3, <1>4, <1>5, SaysSo DEF Reads, r

LEMMA WhatIsSaid == ChatInv => ArrivesAsSent
<1> SUFFICES ASSUME ChatInv, NEW d \in Readers, NEW i \in handed[d], NEW moved \in BOOLEAN,
                    IsMessage(log[i])
             PROVE  SaysOf(d, log[i], moved, Reading(d, log[i], moved))
    BY DEF ArrivesAsSent, SaysOf
<1>1. i \in DOMAIN log
    BY DEF ChatInv, ChatTypeOK
<1> DEFINE e == log[i]
<1>2. e \in Entries /\ e.kind \in Kinds /\ Fits(e, e.by)
    BY <1>1, LogIs
<1>3. e.kind \in MessageKinds /\ Content(e)
    BY <1>2 DEF Fits, IsMessage, Kinds
<1> HIDE DEF e
<1>4. IsMessage(e)
    BY DEF e
<1> QED
    BY <1>2, <1>3, <1>4, SaysOfBridge, SaysOfConnector DEF Readers, e

\* What is sealed by one library is what the other, and the connector, shows: a medium once,
\* as what was meant and under the kind of key that opens it, or the one notice that it could not
\* be moved; what was written with it, but to what has no caption; and no redirection to a page
\* (WrapWhatsAppMedia, handleE2EEEvent, convertWhatsAppAttachment, WhatsAppToMatrix).
THEOREM WhatIsSentArrives == ChatSpec => []ArrivesAsSent
BY ChatInvariant, WhatIsSaid, PTL

-----------------------------------------------------------------------------
(* The least and the largest of some numbers.                                *)

LEMMA SizesAre == /\ History \in Nat \ {0} /\ Batch \in Nat \ {0} /\ Copies \in Nat \ {0}
                  /\ Chats \in Nat \ {0} /\ MaxBatches \in Nat \ {0}
                  /\ Counts \subseteq Nat \ {0} /\ Knowns \subseteq SUBSET (1 .. History)
BY BackfillAssumption

LEMMA LeastOf ==
    ASSUME NEW T, T \subseteq Nat, T # {}
    PROVE  \E x \in T : \A y \in T : x <= y
<1> DEFINE lesser == {ss \in Nat \X Nat : ss[1] < ss[2]}
<1>1. \E x \in T : \A y \in T : ~ (<<y, x>> \in OpToRel(<, Nat))
    BY WFMin, NatLessThanWellFounded, Zenon
<1>2. PICK x \in T : \A y \in T : <<y, x>> \notin lesser
    BY <1>1, Zenon DEF OpToRel
<1>3. ASSUME NEW y \in T PROVE x <= y
    <2>1. <<y, x>> \in Nat \X Nat /\ <<y, x>>[1] = y /\ <<y, x>>[2] = x
        OBVIOUS
    <2>2. ~ (<<y, x>>[1] < <<y, x>>[2])
        BY <1>2, <2>1, Zenon
    <2> QED
        BY <2>1, <2>2
<1> QED
    BY <1>3

LEMMA MinIs ==
    ASSUME NEW T, T \subseteq Nat, T # {}
    PROVE  Min(T) \in T /\ \A y \in T : Min(T) <= y
<1>1. \E x \in T : \A y \in T : x =< y
    BY LeastOf
<1> QED
    BY <1>1 DEF Min

LEMMA MaxIs ==
    ASSUME NEW T, T \subseteq 1 .. History, T # {}
    PROVE  Max(T) \in T
<1> DEFINE U == {k \in Nat : History - k \in T}
<1>0. History \in Nat
    BY SizesAre
<1>1. PICK t \in T : TRUE
    OBVIOUS
<1>2. History - t \in U
    BY <1>0, <1>1
<1>3. PICK x \in U : \A y \in U : x <= y
    BY <1>2, LeastOf
<1>4. History - x \in T
    BY <1>3
<1>5. ASSUME NEW y \in T PROVE History - x >= y
    <2>1. History - y \in U
        BY <1>0
    <2>2. x <= History - y
        BY <1>3, <2>1
    <2> QED
        BY <1>0, <1>3, <2>2
<1> HIDE DEF U
<1>6. \E z \in T : \A y \in T : z >= y
    BY <1>4, <1>5
<1> QED
    BY <1>6 DEF Max

LEMMA MaxOfTwo ==
    ASSUME NEW a \in Int, NEW b \in Int
    PROVE  Max({a, b}) = IF a >= b THEN a ELSE b
<1>1. \E x \in {a, b} : \A y \in {a, b} : x >= y
    OBVIOUS
<1>2. Max({a, b}) \in {a, b} /\ \A y \in {a, b} : Max({a, b}) >= y
    BY <1>1 DEF Max
<1> QED
    BY <1>2

LEMMA MinOfTwo ==
    ASSUME NEW a \in Int, NEW b \in Int
    PROVE  Min({a, b}) = IF a <= b THEN a ELSE b
<1>1. \E x \in {a, b} : \A y \in {a, b} : x =< y
    OBVIOUS
<1>2. Min({a, b}) \in {a, b} /\ \A y \in {a, b} : Min({a, b}) =< y
    BY <1>1 DEF Min
<1> QED
    BY <1>2

\* An answer ends right before the message it was asked for.
LEMMA AnswerIs ==
    ASSUME NEW ref \in 1 .. History
    PROVE  /\ Oldest(ref) \in 1 .. History /\ Oldest(ref) <= ref
           /\ Answer(ref) = Oldest(ref) .. (ref - 1) /\ Answer(ref) \subseteq 1 .. History
           /\ Cardinality(Answer(ref)) \in Nat
<1>1. Oldest(ref) = IF 1 >= ref - Batch THEN 1 ELSE ref - Batch
    BY SizesAre, MaxOfTwo DEF Oldest
<1>2. Oldest(ref) \in 1 .. History /\ Oldest(ref) <= ref
    BY <1>1, SizesAre
<1>3. Cardinality(Oldest(ref) .. (ref - 1)) \in Nat
    <2> DEFINE a == Oldest(ref)
               b == ref - 1
    <2>1. a \in Int /\ b \in Int
        BY <1>2, SizesAre
    <2> HIDE DEF a, b
    <2>2. Cardinality(a .. b) = IF a > b THEN 0 ELSE b - a + 1
        BY <2>1, FS_Interval
    <2>3. Cardinality(a .. b) \in Nat
        BY <2>1, <2>2
    <2> QED
        BY <2>3 DEF a, b
<1> QED
    BY <1>2, <1>3, SizesAre DEF Answer

-----------------------------------------------------------------------------
(* The calls.                                                                *)

FetchStates == [pc : {"idle", "ask", "wait", "wrap", "return"}, anchor : 0 .. History, first : 0 .. History,
                lo : 0 .. History, hi : 0 .. History, more : BOOLEAN, msgs : SUBSET (1 .. History),
                room : Nat, done : BOOLEAN, strange : BOOLEAN, late : BOOLEAN]

HistoryTypeOK == /\ held \subseteq 1 .. History /\ over \in BOOLEAN
                 /\ fetch \in [Ways -> FetchStates] /\ collector \in Ways \cup {"none"}
                 /\ \A a \in wire : a.ref \in 1 .. History

\* Where the result of a call ends, and where it is cut off.
Top(w, f) == IF w = "forward" THEN f.hi ELSE f.anchor - 1
Bottom(w, f) == IF w = "forward" THEN Max({f.lo, f.anchor + 1}) ELSE f.lo

\* The ends of what a call has collected.
Ends(w, f) == f.pc # "idle" =>
    /\ f.lo >= 1 /\ f.first >= 1 /\ f.lo <= Top(w, f) + 1
    /\ w = "backward" => f.anchor >= 1
    /\ w = "forward" => f.anchor < f.hi

\* A collector belongs to a call, and one for the news does not reach what is held.
Collecting(w, f) == collector = w =>
    f.pc # "idle" /\ (w = "forward" => f.anchor = NoMessage \/ f.lo > f.anchor)

\* What a call has is history without a gap, and it knows whether there is more.
Gapless(w, f) == f.pc # "idle" /\ ~ f.strange =>
    /\ f.pc # "return" \/ collector = w => f.msgs = f.lo .. Top(w, f)
    /\ f.pc = "return" /\ ~ f.late => f.msgs = Bottom(w, f) .. Top(w, f)
    /\ f.pc = "return" => \E b \in Nat : f.msgs = b .. Top(w, f)
    /\ f.lo > 1 => f.more
    /\ f.more => f.lo > 1 \/ f.msgs = {}

Sound(w, f) == Ends(w, f) /\ Collecting(w, f) /\ Gapless(w, f)
HistoryInv == HistoryTypeOK /\ \A w \in Ways : Sound(w, fetch[w])

LEMMA FetchIs ==
    ASSUME HistoryInv, NEW w \in Ways
    PROVE  /\ fetch[w] \in FetchStates /\ Sound(w, fetch[w])
BY DEF HistoryInv, HistoryTypeOK

LEMMA AskedIs ==
    ASSUME HistoryTypeOK, NEW ref \in 1 .. History
    PROVE  \A a \in Asked(ref) : a.ref \in 1 .. History
BY DEF HistoryTypeOK, Asked

LEMMA NewestIs ==
    ASSUME HistoryTypeOK
    PROVE  Newest(held) \in 0 .. History
<1>1. CASE held = {}
    BY <1>1, SizesAre DEF Newest, NoMessage
<1>2. CASE held # {}
    <2>0. held \subseteq 1 .. History
        BY DEF HistoryTypeOK
    <2>1. Max(held) \in held
        BY <1>2, <2>0, MaxIs
    <2>2. Newest(held) = Max(held)
        BY <1>2, Zenon DEF Newest
    <2>3. \A m \in held : m \in 0 .. History
        BY <2>0, SizesAre
    <2> QED
        BY <2>1, <2>2, <2>3, Zenon
<1> QED
    BY <1>1, <1>2

LEMMA BottomIs ==
    ASSUME NEW w \in Ways, NEW f \in FetchStates
    PROVE  Bottom(w, f) = IF w = "forward" /\ f.anchor + 1 > f.lo THEN f.anchor + 1 ELSE f.lo
<1>1. f.lo \in Int /\ f.anchor + 1 \in Int
    BY SizesAre DEF FetchStates
<1> QED
    BY <1>1, MaxOfTwo DEF Bottom

\* A step that changes one call, and takes no collector from or gives one to the other.
LEMMA OneCallMoves ==
    ASSUME HistoryInv, NEW w \in Ways, NEW f \in FetchStates, fetch' = [fetch EXCEPT ![w] = f],
           held' \subseteq 1 .. History, over' \in BOOLEAN, collector' \in {collector, w, "none"},
           \A a \in wire' : a.ref \in 1 .. History, Sound(w, f)'
    PROVE  HistoryInv'
<1>1. HistoryTypeOK'
    BY DEF HistoryInv, HistoryTypeOK
<1>2. ASSUME NEW v \in Ways PROVE Sound(v, fetch[v])'
    <2>1. CASE v = w
        <3>1. fetch'[v] = f
            BY <2>1 DEF HistoryInv, HistoryTypeOK
        <3> QED
            BY <2>1, <3>1
    <2>2. CASE v # w
        <3>1. fetch'[v] = fetch[v] /\ Sound(v, fetch[v])
            BY <2>2 DEF HistoryInv, HistoryTypeOK
        <3>2. collector' = v => collector = v
            BY <2>2 DEF Ways
        <3> QED
            BY <3>1, <3>2 DEF Sound, Ends, Collecting, Gapless, Top, Bottom
    <2> QED
        BY <2>1, <2>2
<1> QED
    BY <1>1, <1>2 DEF HistoryInv

LEMMA HistoryStarts == BackfillInit => HistoryInv
<1> SUFFICES ASSUME BackfillInit PROVE HistoryInv
    OBVIOUS
<1>1. NoFetch \in FetchStates /\ NoFetch.pc = "idle"
    BY SizesAre DEF NoFetch, FetchStates, NoMessage
<1>2. HistoryTypeOK
    BY <1>1, SizesAre DEF BackfillInit, HistoryTypeOK
<1>3. ASSUME NEW w \in Ways PROVE Sound(w, fetch[w])
    <2>1. fetch[w] = NoFetch /\ collector # w
        BY DEF BackfillInit, Ways
    <2> QED
        BY <1>1, <2>1 DEF Sound, Ends, Collecting, Gapless
<1> QED
    BY <1>2, <1>3 DEF HistoryInv

LEMMA BundledKeeps ==
    ASSUME HistoryInv, NEW lo \in 1 .. History, NEW hi \in 1 .. History, NEW n \in Counts, lo <= hi,
           Bundled(lo, hi, n)
    PROVE  HistoryInv'
<1>a. PICK anchor : anchor = Newest(held)
    OBVIOUS
<1> DEFINE whole == hi - lo + 1 >= n \/ (anchor # NoMessage /\ lo <= anchor)
<1>p. PICK pc : pc = IF whole THEN "wrap" ELSE "ask"
    OBVIOUS
<1>q. PICK more : more = (lo > 1)
    OBVIOUS
<1>f. PICK f : f = [NoFetch EXCEPT !.pc = pc, !.anchor = anchor, !.first = lo,
                                   !.lo = lo, !.hi = hi, !.more = more, !.msgs = lo .. hi, !.room = n]
    OBVIOUS
<1>1. /\ fetch' = [fetch EXCEPT !["forward"] = f] /\ hi > anchor /\ (whole \/ collector = "none")
      /\ fetch["forward"].pc = "idle"
      /\ collector' = IF whole THEN collector ELSE "forward"
      /\ UNCHANGED <<held, over, wire>>
    BY <1>a, <1>p, <1>q, <1>f DEF Bundled
<1>2. anchor \in 0 .. History /\ HistoryTypeOK
    BY <1>a, NewestIs DEF HistoryInv
<1>3. /\ f.pc = pc /\ pc \in {"wrap", "ask"} /\ (pc = "wrap" <=> whole)
      /\ f.anchor = anchor /\ f.first = lo /\ f.lo = lo /\ f.hi = hi /\ f.more = (lo > 1)
      /\ f.msgs = lo .. hi /\ f.strange = FALSE /\ f.late = FALSE
    BY <1>p, <1>q, <1>f DEF NoFetch
<1>4. f \in FetchStates
    <2>1. lo .. hi \subseteq 1 .. History /\ lo \in 0 .. History /\ hi \in 0 .. History /\ n \in Nat
        BY SizesAre
    <2>2. pc \in {"idle", "ask", "wait", "wrap", "return"} /\ 0 \in 0 .. History /\ more \in BOOLEAN
        BY <1>3, <1>q, SizesAre
    <2> HIDE DEF whole
    <2> QED
        BY <1>2, <1>f, <2>1, <2>2 DEF NoFetch, FetchStates, NoMessage
<1>5. collector # "forward"
    <2>1. Collecting("forward", fetch["forward"])
        BY FetchIs DEF Ways, Sound
    <2> QED
        BY <1>1, <2>1 DEF Collecting
<1>6. Ends("forward", f)' /\ Gapless("forward", f)'
    <2>1. Ends("forward", f)'
        BY <1>1, <1>2, <1>3, SizesAre DEF Ends, Top
    <2>2. f.pc # "return" /\ f.msgs = f.lo .. Top("forward", f) /\ (f.lo > 1 => f.more) /\ (f.more => f.lo > 1)
        BY <1>3 DEF Top
    <2>3. Gapless("forward", f)'
        BY <2>2 DEF Gapless
    <2> QED
        BY <2>1, <2>3
<1>7. Collecting("forward", f)'
    BY <1>1, <1>2, <1>3, <1>5, SizesAre DEF Collecting, NoMessage
<1>8. Sound("forward", f)'
    BY <1>6, <1>7 DEF Sound
<1>9. collector' \in {collector, "forward", "none"} /\ "forward" \in Ways
    BY <1>1 DEF Ways
<1> QED
    BY <1>1, <1>2, <1>4, <1>8, <1>9, OneCallMoves DEF HistoryTypeOK

LEMMA OlderKeeps ==
    ASSUME HistoryInv, NEW n \in Counts, Older(n)
    PROVE  HistoryInv'
<1>m. PICK m : m = Min(held)
    OBVIOUS
<1>f. PICK f : f = [NoFetch EXCEPT !.pc = "ask", !.anchor = m, !.first = m, !.lo = m, !.hi = m,
                                   !.more = TRUE, !.room = n]
    OBVIOUS
<1>1. /\ fetch' = [fetch EXCEPT !["backward"] = f] /\ held # {} /\ collector' = "backward"
      /\ UNCHANGED <<held, over, wire>>
    BY <1>m, <1>f DEF Older
<1>2. HistoryTypeOK /\ m \in 1 .. History
    <2>1. held \subseteq Nat /\ held \subseteq 1 .. History /\ held # {}
        BY <1>1, SizesAre DEF HistoryInv, HistoryTypeOK
    <2>2. m \in held
        BY <1>m, <2>1, MinIs
    <2> QED
        BY <2>1, <2>2 DEF HistoryInv
<1>3. /\ f.pc = "ask" /\ f.anchor = m /\ f.first = m /\ f.lo = m /\ f.hi = m /\ f.more = TRUE
      /\ f.msgs = {} /\ f.strange = FALSE /\ f.late = FALSE
    BY <1>f DEF NoFetch
<1>4. f \in FetchStates
    <2>1. m \in 0 .. History /\ n \in Nat
        BY <1>2, SizesAre
    <2> QED
        BY <1>f, <2>1, SizesAre DEF NoFetch, FetchStates, NoMessage
<1>5. Ends("backward", f)' /\ Collecting("backward", f)'
    BY <1>2, <1>3, SizesAre DEF Ends, Collecting, Top
<1>6. Gapless("backward", f)'
    <2>1. m .. (m - 1) = {}
        BY <1>2, SizesAre
    <2> QED
        BY <1>3, <2>1 DEF Gapless, Top
<1>7. Sound("backward", f)'
    BY <1>5, <1>6 DEF Sound
<1>8. collector' \in {collector, "backward", "none"} /\ "backward" \in Ways
    BY <1>1 DEF Ways
<1> QED
    BY <1>1, <1>2, <1>4, <1>7, <1>8, OneCallMoves DEF HistoryTypeOK

\* A call that ends leaves nothing behind.
LEMMA CallEnds ==
    ASSUME HistoryInv, NEW w \in Ways, fetch' = [fetch EXCEPT ![w] = NoFetch], held' \subseteq 1 .. History,
           over' \in BOOLEAN, collector' \in {collector, "none"}, collector' # w,
           \A a \in wire' : a.ref \in 1 .. History
    PROVE  HistoryInv'
<1>1. NoFetch \in FetchStates /\ NoFetch.pc = "idle"
    BY SizesAre DEF NoFetch, FetchStates, NoMessage
<1>2. Sound(w, NoFetch)'
    BY <1>1 DEF Sound, Ends, Collecting, Gapless
<1> QED
    BY <1>1, <1>2, OneCallMoves

\* A call that only changes where it is, before its result is made.
LEMMA CallMoves ==
    ASSUME HistoryInv, NEW w \in Ways, NEW pc \in {"ask", "wait", "wrap"},
           fetch[w].pc \in {"ask", "wait", "wrap"}, fetch' = [fetch EXCEPT ![w].pc = pc],
           UNCHANGED <<held, over, collector>>, \A a \in wire' : a.ref \in 1 .. History
    PROVE  HistoryInv'
<1>f. PICK f : f = [fetch[w] EXCEPT !.pc = pc]
    OBVIOUS
<1>1. fetch[w] \in FetchStates /\ Sound(w, fetch[w]) /\ HistoryTypeOK
    BY FetchIs DEF HistoryInv
<1>2. fetch' = [fetch EXCEPT ![w] = f]
    BY <1>1, <1>f DEF HistoryTypeOK
<1>3. f \in FetchStates
    BY <1>1, <1>f DEF FetchStates
<1>4. /\ f.pc = pc /\ f.anchor = fetch[w].anchor /\ f.first = fetch[w].first /\ f.lo = fetch[w].lo
      /\ f.hi = fetch[w].hi /\ f.more = fetch[w].more /\ f.msgs = fetch[w].msgs
      /\ f.strange = fetch[w].strange /\ f.late = fetch[w].late
    BY <1>1, <1>f DEF FetchStates
<1>5. Sound(w, f)'
    BY <1>1, <1>4 DEF Sound, Ends, Collecting, Gapless, Top
<1> QED
    BY <1>1, <1>2, <1>3, <1>5, OneCallMoves DEF HistoryTypeOK

LEMMA AskKeeps ==
    ASSUME HistoryInv, NEW w \in Ways, Ask(w)
    PROVE  HistoryInv'
<1>1. fetch[w].pc = "ask" /\ UNCHANGED <<held, over>>
    BY DEF Ask
<1>2. fetch[w] \in FetchStates /\ Sound(w, fetch[w]) /\ HistoryTypeOK
    BY FetchIs DEF HistoryInv
<1>3. fetch[w].first \in 1 .. History
    BY <1>1, <1>2, SizesAre DEF Sound, Ends, FetchStates
<1>4. CASE /\ fetch' = [fetch EXCEPT ![w].pc = "wait"] /\ wire' = Asked(fetch[w].first)
           /\ UNCHANGED collector
    <2>1. \A a \in wire' : a.ref \in 1 .. History
        BY <1>2, <1>3, <1>4, AskedIs
    <2> QED
        BY <1>1, <1>4, <2>1, CallMoves
<1>5. CASE Fails(w) /\ UNCHANGED wire
    BY <1>1, <1>2, <1>5, CallEnds DEF Fails, HistoryTypeOK, Ways
<1> QED
    BY <1>4, <1>5 DEF Ask

LEMMA CollectedKeeps ==
    ASSUME HistoryInv, NEW w \in Ways, Collected(w)
    PROVE  HistoryInv'
BY CallMoves DEF Collected, HistoryInv, HistoryTypeOK

LEMMA GivesUpKeeps ==
    ASSUME HistoryInv, NEW w \in Ways, GivesUp(w)
    PROVE  HistoryInv'
BY CallEnds DEF GivesUp, Fails, HistoryInv, HistoryTypeOK, Ways

LEMMA TickerKeeps ==
    ASSUME HistoryInv, NEW w \in Ways, TickerFires(w)
    PROVE  HistoryInv'
<1>1. fetch[w].pc = "wait" /\ UNCHANGED <<held, over, collector>>
    BY DEF TickerFires
<1>2. fetch[w] \in FetchStates /\ Sound(w, fetch[w]) /\ HistoryTypeOK
    BY FetchIs DEF HistoryInv
<1>3. fetch[w].first \in 1 .. History
    BY <1>1, <1>2, SizesAre DEF Sound, Ends, FetchStates
<1>4. CASE fetch' = [fetch EXCEPT ![w].pc = "wrap"] /\ UNCHANGED wire
    BY <1>1, <1>2, <1>4, CallMoves DEF HistoryTypeOK
<1>5. CASE wire' = Asked(fetch[w].first) /\ UNCHANGED fetch
    <2>1. \A a \in wire' : a.ref \in 1 .. History
        BY <1>2, <1>3, <1>5, AskedIs
    <2> QED
        BY <1>1, <1>5, <2>1
        DEF HistoryInv, HistoryTypeOK, Sound, Ends, Collecting, Gapless, Top, Bottom
<1> QED
    BY <1>4, <1>5 DEF TickerFires

LEMMA WrapKeeps ==
    ASSUME HistoryInv, NEW w \in Ways, Wrap(w)
    PROVE  HistoryInv'
<1>1. fetch[w] \in FetchStates /\ Sound(w, fetch[w]) /\ HistoryTypeOK
    BY FetchIs DEF HistoryInv
<1> DEFINE kept == {m \in fetch[w].msgs : \/ fetch[w].anchor = NoMessage
                                          \/ w = "forward" /\ m > fetch[w].anchor
                                          \/ w = "backward" /\ m < fetch[w].anchor}
<1>k. PICK msgs : msgs = kept
    OBVIOUS
<1>f. PICK f : f = [fetch[w] EXCEPT !.pc = "return", !.msgs = msgs]
    OBVIOUS
<1>2. /\ fetch[w].pc = "wrap" /\ fetch' = [fetch EXCEPT ![w] = f]
      /\ UNCHANGED <<held, over, collector, wire>>
    BY <1>1, <1>k, <1>f DEF Wrap, HistoryTypeOK
<1>3. msgs \subseteq 1 .. History
    BY <1>1, <1>k DEF FetchStates
<1>4. f \in FetchStates
    BY <1>1, <1>3, <1>f DEF FetchStates
<1>5. /\ f.pc = "return" /\ f.anchor = fetch[w].anchor /\ f.first = fetch[w].first /\ f.lo = fetch[w].lo
      /\ f.hi = fetch[w].hi /\ f.more = fetch[w].more /\ f.msgs = msgs
      /\ f.strange = fetch[w].strange /\ f.late = fetch[w].late
    BY <1>1, <1>f DEF FetchStates
<1>6. Ends(w, f)' /\ Collecting(w, f)'
    BY <1>1, <1>2, <1>5 DEF Sound, Ends, Collecting, Top
<1>7. ASSUME ~ f.strange
      PROVE  /\ msgs = Bottom(w, f) .. Top(w, f) /\ (collector = w => msgs = f.lo .. Top(w, f))
             /\ (f.lo > 1 => f.more) /\ (f.more => f.lo > 1 \/ msgs = {})
             /\ Bottom(w, f) \in Nat
    <2> DEFINE lo == f.lo
               top == Top(w, f)
               anchor == f.anchor
    <2>1. /\ fetch[w].msgs = lo .. top /\ (lo > 1 => f.more)
          /\ f.more => lo > 1 \/ fetch[w].msgs = {}
        BY <1>1, <1>2, <1>5, <1>7 DEF Sound, Gapless, Top
    <2>2. lo \in Nat /\ lo >= 1 /\ top \in Int /\ anchor \in Nat
        BY <1>1, <1>2, <1>4, <1>5, SizesAre DEF Sound, Ends, FetchStates, Top
    <2>3. Bottom(w, f) = IF w = "forward" /\ anchor + 1 > lo THEN anchor + 1 ELSE lo
        BY <1>4, BottomIs
    <2>4. CASE w = "forward"
        <3>1. msgs = {m \in lo .. top : anchor = 0 \/ m > anchor}
            BY <1>k, <1>5, <2>1, <2>4 DEF NoMessage
        <3>2. collector = w => anchor = 0 \/ lo > anchor
            BY <1>1, <1>5, <2>4 DEF Sound, Collecting, NoMessage
        <3> HIDE DEF lo, top, anchor
        <3>3. CASE anchor = 0 \/ lo > anchor
            <4>1. msgs = lo .. top
                BY <2>2, <3>1, <3>3
            <4> QED
                BY <2>1, <2>2, <2>3, <3>3, <4>1 DEF lo, top
        <3>4. CASE ~ (anchor = 0 \/ lo > anchor)
            <4>1. msgs = (anchor + 1) .. top
                BY <2>2, <3>1, <3>4
            <4>2. Bottom(w, f) = anchor + 1
                BY <2>2, <2>3, <2>4, <3>4
            <4>3. msgs \subseteq lo .. top
                BY <3>1
            <4> QED
                BY <2>1, <2>2, <3>2, <3>4, <4>1, <4>2, <4>3 DEF lo, top
        <3> QED
            BY <3>3, <3>4
    <2>5. CASE w = "backward"
        <3>1. msgs = {m \in lo .. top : anchor = 0 \/ m < anchor}
            BY <1>k, <1>5, <2>1, <2>5 DEF NoMessage
        <3>2. top = anchor - 1
            BY <2>5 DEF Top
        <3> HIDE DEF lo, top, anchor
        <3>3. msgs = lo .. top
            BY <2>2, <3>1, <3>2
        <3> QED
            BY <2>1, <2>2, <2>3, <2>5, <3>3 DEF lo, top
    <2> QED
        BY <2>4, <2>5 DEF Ways
<1>8. Gapless(w, f)'
    BY <1>2, <1>5, <1>7 DEF Gapless, Bottom, Top
<1>9. Sound(w, f)'
    BY <1>6, <1>8 DEF Sound
<1> QED
    BY <1>1, <1>2, <1>4, <1>9, OneCallMoves DEF HistoryTypeOK

LEMMA ReturnKeeps ==
    ASSUME HistoryInv, NEW w \in Ways, Return(w)
    PROVE  HistoryInv'
<1>1. fetch[w] \in FetchStates /\ HistoryTypeOK
    BY FetchIs DEF HistoryInv
<1>2. held' \subseteq 1 .. History
    BY <1>1 DEF Return, FetchStates, HistoryTypeOK
<1>3. over' \in BOOLEAN
    BY <1>1 DEF Return, FetchStates, HistoryTypeOK
<1> QED
    BY <1>1, <1>2, <1>3, CallEnds DEF Return, HistoryTypeOK, Ways

-----------------------------------------------------------------------------
(* An answer.                                                                *)

LEMMA JoinedSound ==
    ASSUME HistoryInv, NEW w \in Ways, collector = w, NEW ref \in 1 .. History, ref > 1, ref <= fetch[w].lo,
           NEW f, f = Joined(fetch[w], ref)
    PROVE  /\ f \in FetchStates /\ f.pc = fetch[w].pc /\ f.anchor = fetch[w].anchor /\ f.lo = Oldest(ref)
           /\ Ends(w, f)
           /\ ~ f.strange => f.msgs = f.lo .. Top(w, f)
           /\ f.more = (f.lo > 1) /\ (f.pc = "return" => f.late)
<1>1. fetch[w] \in FetchStates /\ Sound(w, fetch[w])
    BY FetchIs
<1>2. PICK g : g = fetch[w]
    OBVIOUS
<1>3. g \in FetchStates /\ Ends(w, g) /\ g.pc # "idle" /\ (~ g.strange => g.msgs = g.lo .. Top(w, g))
    BY <1>1, <1>2 DEF Sound, Collecting, Gapless
<1>4. PICK low : low = Oldest(ref)
    OBVIOUS
<1>5. PICK these : these = Answer(ref)
    OBVIOUS
<1>6. /\ low \in 1 .. History /\ low <= ref /\ these = low .. (ref - 1) /\ these \subseteq 1 .. History
      /\ Cardinality(these) \in Nat
    BY <1>4, <1>5, AnswerIs
<1>7. PICK room : room = Max({g.room - Cardinality(these), 0})
    OBVIOUS
<1>8. room \in Nat
    <2>1. g.room - Cardinality(these) \in Int
        BY <1>3, <1>6 DEF FetchStates
    <2> QED
        BY <1>7, <2>1, MaxOfTwo
<1>9. f = [g EXCEPT !.msgs = @ \cup these, !.lo = low, !.more = low > 1, !.room = room,
                    !.strange = @ \/ ref < g.lo, !.late = @ \/ g.pc = "return"]
    BY <1>2, <1>4, <1>5, <1>7 DEF Joined
<1>10. /\ f.pc = g.pc /\ f.anchor = g.anchor /\ f.first = g.first /\ f.hi = g.hi /\ f.lo = low
       /\ f.more = (low > 1) /\ f.msgs = g.msgs \cup these /\ f.strange = (g.strange \/ ref < g.lo)
       /\ f.late = (g.late \/ g.pc = "return")
    BY <1>3, <1>9 DEF FetchStates
<1>11. f \in FetchStates
    <2>1. g.msgs \cup these \subseteq 1 .. History /\ low \in 0 .. History /\ (low > 1) \in BOOLEAN
          /\ (g.strange \/ ref < g.lo) \in BOOLEAN /\ (g.late \/ g.pc = "return") \in BOOLEAN
        BY <1>3, <1>6, SizesAre DEF FetchStates
    <2> QED
        BY <1>3, <1>8, <1>9, <2>1 DEF FetchStates
<1>12. Ends(w, f)
    BY <1>2, <1>3, <1>6, <1>10, <1>11, SizesAre DEF Ends, Top, FetchStates
<1>13. ~ f.strange => f.msgs = f.lo .. Top(w, f)
    <2> SUFFICES ASSUME ~ f.strange PROVE f.msgs = f.lo .. Top(w, f)
        OBVIOUS
    <2> DEFINE top == Top(w, g)
    <2>a. ~ g.strange /\ ~ (ref < g.lo)
        BY <1>10, Zenon
    <2>b. ref <= g.lo /\ ref \in Int /\ g.lo \in Int
        BY <1>2, <1>3, SizesAre DEF FetchStates
    <2>1. ref = g.lo /\ ~ g.strange
        BY <2>a, <2>b
    <2>2. Top(w, f) = top
        BY <1>10 DEF Top
    <2>3. top \in Int /\ ref <= top + 1
        BY <1>3, <2>1, SizesAre DEF FetchStates, Top, Ends
    <2>4. f.msgs = (ref .. top) \cup (low .. (ref - 1))
        BY <1>3, <1>6, <1>10, <2>1
    <2> HIDE DEF top
    <2>5. (ref .. top) \cup (low .. (ref - 1)) = low .. top
        BY <1>6, <2>3, SizesAre
    <2> QED
        BY <1>10, <2>2, <2>4, <2>5
<1> QED
    BY <1>2, <1>4, <1>10, <1>11, <1>12, <1>13

LEMMA ArriveKeeps ==
    ASSUME HistoryInv, NEW a \in wire, Arrive(a)
    PROVE  HistoryInv'
<1>1. HistoryTypeOK /\ a.ref \in 1 .. History /\ a.ref > 1 /\ UNCHANGED <<held, over>>
    BY DEF HistoryInv, HistoryTypeOK, Arrive
<1>2. CASE collector = "none" \/ a.ref > fetch[collector].lo
    <2>1. wire' = wire \ {a} /\ UNCHANGED <<fetch, collector>>
        BY <1>2 DEF Arrive
    <2> QED
        BY <1>1, <2>1 DEF HistoryInv, HistoryTypeOK, Sound, Ends, Collecting, Gapless, Top, Bottom
<1>3. CASE ~ (collector = "none" \/ a.ref > fetch[collector].lo)
    <2>1. PICK w \in Ways : collector = w
        BY <1>1, <1>3 DEF HistoryTypeOK
    <2>2. PICK f : f = Joined(fetch[w], a.ref)
        OBVIOUS
    <2>3. PICK full : full = Full(w, f)
        OBVIOUS
    <2>4. PICK ended : ended = (f.done \/ full)
        OBVIOUS
    <2>5. PICK g : g = [f EXCEPT !.done = ended]
        OBVIOUS
    <2>6. /\ fetch' = [fetch EXCEPT ![w] = g] /\ collector' = IF full THEN "none" ELSE w
          /\ wire' = (IF full THEN wire ELSE Asked(f.lo)) \ {a}
        BY <1>3, <2>1, <2>2, <2>3, <2>4, <2>5 DEF Arrive
    <2>7. fetch[w] \in FetchStates /\ Sound(w, fetch[w])
        BY FetchIs
    <2>8. a.ref <= fetch[w].lo
        BY <1>1, <1>3, <2>1, <2>7, SizesAre DEF FetchStates
    <2>9. /\ f \in FetchStates /\ f.pc = fetch[w].pc /\ f.anchor = fetch[w].anchor /\ f.lo = Oldest(a.ref)
          /\ Ends(w, f)
          /\ ~ f.strange => f.msgs = f.lo .. Top(w, f)
          /\ f.more = (f.lo > 1) /\ (f.pc = "return" => f.late)
        BY <1>1, <2>1, <2>2, <2>8, JoinedSound
    <2>10. ended \in BOOLEAN /\ full \in BOOLEAN
        BY <2>3, <2>4, <2>9 DEF Full, FetchStates
    <2>11. g \in FetchStates
        BY <2>5, <2>9, <2>10 DEF FetchStates
    <2>12. /\ g.pc = f.pc /\ g.anchor = f.anchor /\ g.first = f.first /\ g.hi = f.hi /\ g.lo = f.lo
           /\ g.more = f.more /\ g.msgs = f.msgs /\ g.strange = f.strange /\ g.late = f.late
        BY <2>5, <2>9 DEF FetchStates
    <2>13. Ends(w, g)'
        BY <2>9, <2>12 DEF Ends, Top
    <2>14. Collecting(w, g)'
        <3>1. fetch[w].pc # "idle"
            BY <2>1, <2>7 DEF Sound, Collecting
        <3>2. ~ full => (w = "forward" => f.anchor = NoMessage \/ f.lo > f.anchor)
            <4>1. ~ full => (w = "forward" => f.anchor = NoMessage \/ ~ (f.lo <= f.anchor))
                BY <2>3, Zenon DEF Full
            <4>2. f.lo \in Int /\ f.anchor \in Int
                BY <2>9, SizesAre DEF FetchStates
            <4> QED
                BY <4>1, <4>2
        <3>3. collector' = w => ~ full
            BY <2>6, <2>10 DEF Ways
        <3> QED
            BY <2>9, <2>12, <3>1, <3>2, <3>3 DEF Collecting
    <2>15. Gapless(w, g)'
        <3>1. f.lo \in Nat
            BY <2>9, SizesAre DEF FetchStates
        <3> QED
            BY <2>9, <2>12, <3>1 DEF Gapless, Top
    <2>16. Sound(w, g)'
        BY <2>13, <2>14, <2>15 DEF Sound
    <2>17. \A b \in wire' : b.ref \in 1 .. History
        <3>1. f.lo \in 1 .. History
            BY <1>1, <2>9, AnswerIs
        <3>2. \A b \in Asked(f.lo) : b.ref \in 1 .. History
            BY <1>1, <3>1, AskedIs
        <3> QED
            BY <1>1, <2>6, <3>2 DEF HistoryTypeOK
    <2>18. collector' \in {collector, w, "none"}
        BY <2>6
    <2>19. held' \subseteq 1 .. History /\ over' \in BOOLEAN
        BY <1>1 DEF HistoryTypeOK
    <2> QED
        BY <2>6, <2>11, <2>16, <2>17, <2>18, <2>19, OneCallMoves
<1> QED
    BY <1>2, <1>3

LEMMA NothingBeforeKeeps ==
    ASSUME HistoryInv, NEW a \in wire, NothingBefore(a)
    PROVE  HistoryInv'
<1>1. HistoryTypeOK /\ wire' = wire \ {a} /\ UNCHANGED <<held, over>>
    BY DEF HistoryInv, NothingBefore
<1>2. CASE collector = "none" \/ fetch[collector].lo # 1
    <2>1. UNCHANGED <<fetch, collector>>
        BY <1>2 DEF NothingBefore
    <2> QED
        BY <1>1, <2>1 DEF HistoryInv, HistoryTypeOK, Sound, Ends, Collecting, Gapless, Top, Bottom
<1>3. CASE ~ (collector = "none" \/ fetch[collector].lo # 1)
    <2>1. PICK w \in Ways : collector = w
        BY <1>1, <1>3 DEF HistoryTypeOK
    <2>2. fetch[w] \in FetchStates /\ Sound(w, fetch[w]) /\ fetch[w].lo = 1
        BY <1>3, <2>1, FetchIs
    <2>3. PICK late : late = (fetch[w].late \/ fetch[w].pc = "return")
        OBVIOUS
    <2>4. PICK f : f = [fetch[w] EXCEPT !.more = FALSE, !.done = TRUE, !.late = late]
        OBVIOUS
    <2>5. fetch' = [fetch EXCEPT ![w] = f] /\ collector' = "none"
        BY <1>1, <1>3, <2>1, <2>2, <2>3, <2>4 DEF NothingBefore, HistoryTypeOK, FetchStates
    <2>6. late \in BOOLEAN
        BY <2>2, <2>3 DEF FetchStates
    <2>7. f \in FetchStates
        BY <2>2, <2>4, <2>6 DEF FetchStates
    <2>8. /\ f.pc = fetch[w].pc /\ f.anchor = fetch[w].anchor /\ f.first = fetch[w].first
          /\ f.hi = fetch[w].hi /\ f.lo = fetch[w].lo /\ f.more = FALSE /\ f.msgs = fetch[w].msgs
          /\ f.strange = fetch[w].strange /\ f.late = late
        BY <2>2, <2>4 DEF FetchStates
    <2>9. Ends(w, f)' /\ Collecting(w, f)'
        BY <2>2, <2>5, <2>8 DEF Sound, Ends, Collecting, Top, Ways
    <2>10. ~ f.strange => f.msgs = f.lo .. Top(w, f)
        BY <2>1, <2>2, <2>8 DEF Sound, Gapless, Collecting, Top
    <2>11. Gapless(w, f)'
        <3>1. f.lo = 1 /\ ~ (f.lo > 1) /\ f.lo \in Nat /\ ~ f.more
            BY <2>2, <2>8
        <3>2. f.pc = "return" => f.late
            BY <2>3, <2>8, Zenon
        <3>3. f.lo .. Top(w, f) = (f.lo .. Top(w, f))'
            OBVIOUS
        <3>4. ~ f.strange => \E b \in Nat : f.msgs = b .. Top(w, f)
            BY <2>10, <3>1
        <3> QED
            BY <2>10, <3>1, <3>2, <3>4 DEF Gapless, Top
    <2>12. Sound(w, f)'
        BY <2>9, <2>11 DEF Sound
    <2>13. held' \subseteq 1 .. History /\ over' \in BOOLEAN /\ \A b \in wire' : b.ref \in 1 .. History
        BY <1>1 DEF HistoryTypeOK
    <2> QED
        BY <2>5, <2>7, <2>12, <2>13, OneCallMoves
<1> QED
    BY <1>2, <1>3

-----------------------------------------------------------------------------
(* The history of a chat.                                                    *)

LEMMA HistoryStays == HistoryInv /\ UNCHANGED historyVars => HistoryInv'
BY DEF HistoryInv, HistoryTypeOK, historyVars, Sound, Ends, Collecting, Gapless, Top, Bottom

LEMMA HistoryMoves == HistoryInv /\ [HistoryNext \/ ChatsNext]_backfillVars => HistoryInv'
<1> SUFFICES ASSUME HistoryInv, [HistoryNext \/ ChatsNext]_backfillVars PROVE HistoryInv'
    OBVIOUS
<1>1. ASSUME NEW lo \in 1 .. History, NEW hi \in 1 .. History, NEW n \in Counts, lo <= hi, Bundled(lo, hi, n)
      PROVE  HistoryInv'
    BY <1>1, BundledKeeps
<1>2. ASSUME NEW n \in Counts, Older(n) PROVE HistoryInv'
    BY <1>2, OlderKeeps
<1>3. ASSUME NEW w \in Ways, Ask(w) \/ Collected(w) \/ TickerFires(w) \/ GivesUp(w) \/ Wrap(w) \/ Return(w)
      PROVE  HistoryInv'
    BY <1>3, AskKeeps, CollectedKeeps, TickerKeeps, GivesUpKeeps, WrapKeeps, ReturnKeeps
<1>4. ASSUME NEW a \in wire, Arrive(a) \/ NothingBefore(a) PROVE HistoryInv'
    BY <1>4, ArriveKeeps, NothingBeforeKeeps
<1>5. CASE ChatsNext
    <2>1. UNCHANGED historyVars
        BY <1>5 DEF ChatsNext, StartChats, StopChats, FetchChats, NoMoreChats
    <2> QED
        BY <2>1, HistoryStays
<1>6. CASE UNCHANGED backfillVars
    BY <1>6, HistoryStays DEF backfillVars
<1> QED
    BY <1>1, <1>2, <1>3, <1>4, <1>5, <1>6 DEF HistoryNext

LEMMA HistoryShows == HistoryInv => FetchedWhole
<1> SUFFICES ASSUME HistoryInv, NEW w \in Ways, fetch[w].pc = "return", ~ fetch[w].strange
             PROVE  /\ fetch[w].msgs # {} => fetch[w].msgs = Min(fetch[w].msgs) .. Top(w, fetch[w])
                    /\ \/ fetch[w].late
                       \/ /\ fetch[w].msgs = Bottom(w, fetch[w]) .. Top(w, fetch[w])
                          /\ fetch[w].lo > 1 => fetch[w].more
                          /\ fetch[w].more => fetch[w].lo > 1 \/ fetch[w].msgs = {}
    BY DEF FetchedWhole, Top, Bottom
<1>1. fetch[w] \in FetchStates /\ Gapless(w, fetch[w])
    BY FetchIs DEF Sound
<1>2. ASSUME fetch[w].msgs # {} PROVE fetch[w].msgs = Min(fetch[w].msgs) .. Top(w, fetch[w])
    <2>1. PICK msgs : msgs = fetch[w].msgs
        OBVIOUS
    <2>2. PICK top : top = Top(w, fetch[w])
        OBVIOUS
    <2>3. PICK least : least = Min(msgs)
        OBVIOUS
    <2>4. top \in Int
        BY <1>1, <2>2, SizesAre DEF FetchStates, Top
    <2>5. PICK b \in Nat : msgs = b .. top
        BY <1>1, <2>1, <2>2 DEF Gapless
    <2>6. b <= top /\ b \in msgs /\ msgs \subseteq Nat
        BY <1>2, <2>1, <2>4, <2>5
    <2>7. least \in msgs /\ \A m \in msgs : least <= m
        BY <1>2, <2>1, <2>3, <2>6, MinIs
    <2>8. least = b
        BY <2>4, <2>5, <2>6, <2>7
    <2> QED
        BY <2>1, <2>2, <2>3, <2>5, <2>8
<1> QED
    BY <1>1, <1>2 DEF Gapless

-----------------------------------------------------------------------------
(* The list of chats.                                                        *)

\* The key that was last asked behind is the one the store has, a list that is not
\* longer than the page has been shown, and nothing is fetched once it is complete.
ChatsInv == /\ chats \in [pc : {"idle", "fetch"}, min : Nat \ {0}, last : Nat, batches : Nat,
                          more : BOOLEAN, got : 1 .. PageEnd]
            /\ completed \in BOOLEAN
            /\ chats.pc = "fetch" => ~ completed /\ chats.last \in {0, chats.min}
            /\ ~ chats.more => chats.got = 1
            /\ ChatsWhole

LEMMA PageEndIs == PageEnd \in Nat \ {0}
<1>1. Chats - Batch + 1 \in Int
    BY SizesAre
<1>2. PageEnd = IF 1 >= Chats - Batch + 1 THEN 1 ELSE Chats - Batch + 1
    BY <1>1, MaxOfTwo DEF PageEnd
<1> QED
    BY <1>1, <1>2

LEMMA ChatsStart == BackfillInit => ChatsInv
<1> SUFFICES ASSUME BackfillInit PROVE ChatsInv
    OBVIOUS
<1>1. PICK size \in {Batch, Chats} :
        chats = [pc |-> "idle", min |-> Max({1, Chats - size + 1}), last |-> 0, batches |-> 0,
                 more |-> Max({1, Chats - size + 1}) > 1, got |-> Max({1, Chats - size + 1})]
    BY DEF BackfillInit
<1>2. PICK end : end = Max({1, Chats - size + 1})
    OBVIOUS
<1>3. chats = [pc |-> "idle", min |-> end, last |-> 0, batches |-> 0, more |-> end > 1, got |-> end]
    BY <1>1, <1>2
<1>4. end \in 1 .. PageEnd
    <2>1. Chats - size + 1 \in Int /\ Chats - Batch + 1 \in Int
        BY SizesAre
    <2>2. end = IF 1 >= Chats - size + 1 THEN 1 ELSE Chats - size + 1
        BY <1>2, <2>1, MaxOfTwo
    <2>3. PageEnd = IF 1 >= Chats - Batch + 1 THEN 1 ELSE Chats - Batch + 1
        BY <2>1, MaxOfTwo DEF PageEnd
    <2>4. CASE size = Batch
        BY <2>1, <2>2, <2>3, <2>4
    <2>5. CASE size = Chats
        BY <2>1, <2>2, <2>3, <2>5, SizesAre
    <2> QED
        BY <2>4, <2>5
<1>5. completed = FALSE
    BY DEF BackfillInit
<1>6. end \in Nat \ {0} /\ (end > 1) \in BOOLEAN /\ (~ (end > 1) => end = 1)
    BY <1>4, PageEndIs
<1>7. chats.pc = "idle" /\ chats.more = (end > 1) /\ chats.got = end
    BY <1>3
<1> QED
    BY <1>3, <1>4, <1>5, <1>6, <1>7 DEF ChatsInv, ChatsWhole

LEMMA FetchChatsKeeps ==
    ASSUME ChatsInv, FetchChats
    PROVE  ChatsInv'
<1>1. PICK c : c = chats
    OBVIOUS
<1>2. /\ c \in [pc : {"idle", "fetch"}, min : Nat \ {0}, last : Nat, batches : Nat, more : BOOLEAN,
                got : 1 .. PageEnd]
      /\ c.pc = "fetch" /\ ~ completed /\ c.last \in {0, c.min} /\ c.more
    BY <1>1 DEF ChatsInv, FetchChats
<1>3. PICK low : low = Max({1, c.min - Batch})
    OBVIOUS
<1>4. PICK min : min = IF low > 1 THEN low ELSE c.min
    OBVIOUS
<1>5. PICK end : end = (min = c.last \/ c.batches + 1 >= MaxBatches)
    OBVIOUS
<1>6. PICK lowest : lowest = Min({c.got, low})
    OBVIOUS
<1>7. /\ c.min \in Nat \ {0} /\ c.got \in 1 .. PageEnd /\ c.batches \in Nat /\ c.last \in {0, c.min}
      /\ PageEnd \in Nat
    BY <1>2, PageEndIs
<1>8. low = IF 1 >= c.min - Batch THEN 1 ELSE c.min - Batch
    BY <1>3, <1>7, SizesAre, MaxOfTwo
<1>9. low \in Nat \ {0} /\ min \in Nat \ {0} /\ c.got \in Int
    BY <1>4, <1>7, <1>8, SizesAre
<1>10. lowest = IF c.got <= low THEN c.got ELSE low
    BY <1>6, <1>9, MinOfTwo
<1>11. lowest \in 1 .. PageEnd
    BY <1>7, <1>9, <1>10
<1>12. min = c.last => lowest = 1
    BY <1>4, <1>7, <1>8, <1>9, <1>10, SizesAre
<1>13. end \in BOOLEAN
    BY <1>5
<1>14. \/ /\ chats' = [c EXCEPT !.pc = IF end THEN "idle" ELSE "fetch", !.min = min, !.last = min,
                                !.batches = @ + 1, !.got = lowest]
          /\ completed' = end
       \/ chats' = [c EXCEPT !.pc = "idle"] /\ UNCHANGED completed
    BY <1>1, <1>3, <1>4, <1>5, <1>6 DEF FetchChats
<1>15. CASE /\ chats' = [c EXCEPT !.pc = IF end THEN "idle" ELSE "fetch", !.min = min, !.last = min,
                                  !.batches = @ + 1, !.got = lowest]
            /\ completed' = end
    <2>1. PICK pc : pc = IF end THEN "idle" ELSE "fetch"
        OBVIOUS
    <2>2. PICK n : n = c.batches + 1
        OBVIOUS
    <2>3. pc \in {"idle", "fetch"} /\ n \in Nat /\ (pc = "fetch" => ~ end)
        BY <1>7, <2>1, <2>2
    <2>4. chats' = [c EXCEPT !.pc = pc, !.min = min, !.last = min, !.batches = n, !.got = lowest]
        BY <1>15, <2>1, <2>2
    <2>5. chats' \in [pc : {"idle", "fetch"}, min : Nat \ {0}, last : Nat, batches : Nat, more : BOOLEAN,
                      got : 1 .. PageEnd]
        BY <1>2, <1>9, <1>11, <2>3, <2>4
    <2>6. /\ chats'.pc = pc /\ chats'.min = min /\ chats'.last = min /\ chats'.batches = n
          /\ chats'.more = c.more /\ chats'.got = lowest
        BY <1>2, <2>4
    <2>7. end => lowest = 1 \/ n >= MaxBatches
        BY <1>5, <1>12, <2>2
    <2> QED
        BY <1>2, <1>13, <1>15, <2>3, <2>5, <2>6, <2>7 DEF ChatsInv, ChatsWhole, PageEnd
<1>16. CASE chats' = [c EXCEPT !.pc = "idle"] /\ UNCHANGED completed
    <2>1. chats' \in [pc : {"idle", "fetch"}, min : Nat \ {0}, last : Nat, batches : Nat, more : BOOLEAN,
                      got : 1 .. PageEnd]
        BY <1>2, <1>16
    <2>2. chats'.pc = "idle" /\ chats'.more = c.more
        BY <1>2, <1>16
    <2> QED
        BY <1>2, <1>16, <2>1, <2>2 DEF ChatsInv, ChatsWhole, PageEnd
<1> QED
    BY <1>14, <1>15, <1>16

LEMMA ChatsMove == ChatsInv /\ [HistoryNext \/ ChatsNext]_backfillVars => ChatsInv'
<1> SUFFICES ASSUME ChatsInv, [HistoryNext \/ ChatsNext]_backfillVars PROVE ChatsInv'
    OBVIOUS
<1>1. CASE StartChats
    BY <1>1 DEF StartChats, ChatsInv, ChatsWhole, PageEnd
<1>2. CASE StopChats
    <2>1. PICK end : end = PageEnd
        OBVIOUS
    <2>2. end \in Nat \ {0}
        BY <2>1, PageEndIs
    <2>3. PICK more : more = (end > 1)
        OBVIOUS
    <2>4. chats' = [chats EXCEPT !.pc = "idle", !.min = end, !.more = more] /\ UNCHANGED completed
        BY <1>2, <2>1, <2>3 DEF StopChats
    <2>5. more \in BOOLEAN /\ (~ more => end = 1)
        <3>1. ~ (end > 1) => end = 1
            BY <2>2
        <3>2. (end > 1) \in BOOLEAN
            OBVIOUS
        <3> QED
            BY <2>3, <3>1, <3>2, Zenon
    <2>6. /\ chats \in [pc : {"idle", "fetch"}, min : Nat \ {0}, last : Nat, batches : Nat, more : BOOLEAN,
                        got : 1 .. end]
          /\ completed \in BOOLEAN /\ ChatsWhole
        BY <2>1 DEF ChatsInv
    <2>7. chats' \in [pc : {"idle", "fetch"}, min : Nat \ {0}, last : Nat, batches : Nat, more : BOOLEAN,
                      got : 1 .. end]
        BY <2>2, <2>4, <2>5, <2>6
    <2>8. /\ chats'.pc = "idle" /\ chats'.more = more /\ chats'.got = chats.got
          /\ chats'.batches = chats.batches /\ chats.got \in 1 .. end
        BY <2>4, <2>6
    <2>9. ~ more => chats.got = 1
        BY <2>2, <2>5, <2>8
    <2> QED
        BY <2>1, <2>4, <2>6, <2>7, <2>8, <2>9 DEF ChatsInv, ChatsWhole, PageEnd
<1>3. CASE FetchChats
    BY <1>3, FetchChatsKeeps
<1>4. CASE NoMoreChats
    BY <1>4 DEF NoMoreChats, ChatsInv, ChatsWhole, PageEnd
<1>5. CASE UNCHANGED chatVars
    BY <1>5 DEF chatVars, ChatsInv, ChatsWhole, PageEnd
<1>6. HistoryNext => UNCHANGED chatVars
    BY DEF HistoryNext, Bundled, Older, Ask, Collected, TickerFires, GivesUp, Fails, Wrap, Return, Arrive, NothingBefore
<1> QED
    BY <1>1, <1>2, <1>3, <1>4, <1>5, <1>6 DEF ChatsNext, backfillVars

\* The history of a chat, and the list of chats, are passed on with nothing missing
\* in the middle (FetchMessages, UpsertMessages.Join, runThreadBackfill), whatever
\* the server's batches, the answers under way and the steps of the two goroutines.
THEOREM NoHistoryIsMissing == BackfillSpec => []HistoryWhole
<1>1. BackfillInit => HistoryInv /\ ChatsInv
    BY HistoryStarts, ChatsStart
<1>2. HistoryInv /\ ChatsInv /\ [HistoryNext \/ ChatsNext]_backfillVars => (HistoryInv /\ ChatsInv)'
    BY HistoryMoves, ChatsMove
<1>3. HistoryInv /\ ChatsInv => HistoryWhole
    BY HistoryShows DEF HistoryWhole, ChatsInv
<1> QED
    BY <1>1, <1>2, <1>3, PTL DEF BackfillSpec
=============================================================================
