------------------------------ MODULE Outgoing ------------------------------
(***************************************************************************)
(* What the connector does for a Matrix user (pkg/connector/handlematrix.go, *)
(* and ToMeta of pkg/msgconv/from-matrix.go): a handler runs its steps, and  *)
(* what it returns is what the user is told: sent, with an id or without     *)
(* one, rejected, failed.                                                    *)
(*                                                                         *)
(* A task may be lost on its way, or done and its answer lost.  A message is *)
(* sent up to five times under one otid, which the server takes once; an     *)
(* edit may be answered as reverted although it was not, and a later push    *)
(* says so.  Several handlers run at once.                                   *)
(***************************************************************************)
EXTENDS Naturals, FiniteSets, Sequences

CONSTANTS
    Calls,          \* the handlers that run
    Works,          \* what they are asked to do: functions from Calls to DOMAIN Handlers
    Tries,          \* how often a message is sent, 5 in the code
    ChannelCap,     \* the pushes one edit may leave unread, 5 in the code
    MaxPages,       \* full reconnections in one history
    MaxTurns        \* how often the connections come and go

VARIABLES
    work,       \* [Calls -> DOMAIN Handlers]
    task,       \* how far each handler is, and what it returned
    online,     \* [plain, sealed, login : BOOLEAN]: connectWaiter, e2eeConnectWaiter, Cookies
    pages,      \* full reconnections so far
    turns,      \* changes of `online` so far
    posted,     \* the otids the server took
    tasks,      \* [Calls -> Nat]: what else of the handler was done
    listening,  \* whose channel editChannels has for the message, or "nobody"
    heard,      \* [Calls -> Seq]: what waits in the channel of each edit
    extras,     \* LSEditMessage rows on their way that answer no request
    excused     \* the edits whose correction was late, given away or crowded out

outgoingVars == <<work, task, online, pages, turns, posted, tasks, listening, heard, extras, excused>>

worldVars == <<work, online, turns>>
editVars == <<listening, heard, extras, excused>>

-----------------------------------------------------------------------------
(* The handlers, as the steps they take.  The tasks of "ask" are answered,   *)
(* and the answer is not looked at: reactions, removals, names, members of   *)
(* plain chats.                                                              *)
Messages  == [message |-> <<"login", "plain", "convert", "post">>,
              sealedmessage |-> <<"login", "sealed", "convert", "seal">>]
Edits     == [edit |-> <<"login", "plain", "convert", "listen", "askedit", "correct">>,
              sealededit |-> <<"login", "sealed", "seal">>]
Reactions == [react |-> <<"login", "plain", "ask">>, sealedreact |-> <<"login", "sealed", "seal">>]
Removals  == [remove |-> <<"login", "plain", "ask">>, sealedremove |-> <<"login", "sealed", "seal">>]
Receipts  == [receipt |-> <<"login", "try", "try">>]
Typing    == [typing |-> <<"ask">>]
Deletions == [delete |-> <<"ask">>, sealeddelete |-> <<"ask", "ask">>]
Settings  == [rename |-> <<"ask">>, avatar |-> <<"convert", "convert", "ask">>]
Members   == [members |-> <<"ask">>, sealedmembers |-> <<"seal">>]

Handlers ==
    LET all == {Messages, Edits, Reactions, Removals, Receipts, Typing, Deletions, Settings, Members}
    IN [h \in UNION {DOMAIN some : some \in all} |-> (CHOOSE some \in all : h \in DOMAIN some)[h]]

ASSUME OutgoingAssumption ==
    /\ {"nobody", "other"} \cap Calls = {} /\ Works \subseteq [Calls -> DOMAIN Handlers]
    /\ Tries \in Nat \ {0} /\ ChannelCap \in Nat /\ MaxPages \in Nat /\ MaxTurns \in Nat

Steps(c) == Handlers[work[c]]
At(c, step) == task[c].said = "nothing" /\ Steps(c)[task[c].pc] = step

Advance(c) == task' = [task EXCEPT ![c].pc = @ + 1,
                                   ![c].said = IF task[c].pc = Len(Steps(c)) THEN "ok" ELSE @]
Tell(c, what) == task' = [task EXCEPT ![c].said = what]

Login(c) == /\ At(c, "login")
            /\ IF online.login THEN Advance(c) ELSE Tell(c, "failed")
            /\ UNCHANGED <<worldVars, pages, posted, tasks, editVars>>

(* WaitTimeout(ConnectWaitTimeout): a minute, and then "not connected".      *)
Await(c, which) == /\ At(c, which)
                   /\ IF online[which] THEN Advance(c) ELSE Tell(c, "failed")
                   /\ UNCHANGED <<worldVars, pages, posted, tasks, editVars>>

(* ToMeta and ToWhatsApp, which download the media, convert voice and        *)
(* upload, and for a picture of the room the download and the upload: an     *)
(* upload without an id is an error.                                         *)
Converted(c) == Advance(c) \/ Tell(c, "failed")

(* When the server wants the page reloaded, a message makes a full           *)
(* reconnection and converts once more; with a token no longer valid it      *)
(* fails, and the reconnection goes on behind it.                            *)
Convert(c) ==
    /\ At(c, "convert")
    /\ \/ Converted(c) /\ UNCHANGED pages
       \/ /\ work[c] = "message" /\ pages < MaxPages /\ pages' = pages + 1
          /\ \/ ~task[c].reloaded /\ task' = [task EXCEPT ![c].reloaded = TRUE]
             \/ Tell(c, "failed")
    /\ UNCHANGED <<worldVars, posted, tasks, editVars>>

-----------------------------------------------------------------------------
(* A plausible slip: an otid of its own for every attempt.                   *)
FreshOtid(c) == <<c, task[c].tries>>

(* getOTID: the one of the transaction, for all attempts.                    *)
Otid(c) == <<c, 0>>

PostAgain(c) == LET n == task[c].tries + 1
                IN  task' = [task EXCEPT ![c].tries = n, ![c].said = IF n = Tries THEN "failed" ELSE @]

(* One attempt: not able to send for 15 seconds, or lost; taken and not      *)
(* answered; taken and answered with the id, or without a word of this otid; *)
(* refused, in a row that names the otid or in one that does not.  An otid   *)
(* the server knows is never refused, and never taken twice.                 *)
Post(c) ==
    /\ At(c, "post")
    /\ \/ PostAgain(c) /\ UNCHANGED posted
       \/ /\ online.plain /\ posted' = posted \cup {Otid(c)}
          /\ PostAgain(c) \/ Tell(c, "sent") \/ Tell(c, "unsure")
       \/ /\ online.plain /\ Otid(c) \notin posted /\ UNCHANGED posted
          /\ Tell(c, "rejected") \/ Tell(c, "unsure")
    /\ UNCHANGED <<worldVars, pages, tasks, editVars>>

Perform(c) == tasks' = [tasks EXCEPT ![c] = @ + 1]

(* One task: done and answered, done and not answered, or lost.              *)
AskTask(c) == /\ At(c, "ask")
              /\ \/ online.plain /\ Perform(c) /\ (Advance(c) \/ Tell(c, "failed"))
                 \/ UNCHANGED tasks /\ Tell(c, "failed")
              /\ UNCHANGED <<worldVars, pages, posted, editVars>>

(* Of a receipt, for the plain messages and for the encrypted ones, an error *)
(* is logged and nothing more.                                               *)
Attempt(c) == /\ At(c, "try")
              /\ Advance(c)
              /\ Perform(c) \/ UNCHANGED tasks
              /\ UNCHANGED <<worldVars, pages, posted, editVars>>

(* SendFBMessage and UpdateGroupParticipants.                                *)
SendSealed(c) == /\ At(c, "seal")
                 /\ \/ online.sealed /\ Perform(c) /\ (Advance(c) \/ Tell(c, "failed"))
                    \/ UNCHANGED tasks /\ Tell(c, "failed")
                 /\ UNCHANGED <<worldVars, pages, posted, editVars>>

-----------------------------------------------------------------------------
(* Editing.  All the edits are of one message, each to a text of its own.    *)

(* An edit that ends takes the entry of its message away, whoever made it    *)
(* (defer m.editChannels.Delete).  An edit it belonged to hears no more.     *)
Others(c) == {d \in Calls \ {c} : At(d, "askedit") \/ At(d, "correct")}
EndEdit(c, what) == /\ Tell(c, what)
                    /\ listening' = "nobody"
                    /\ excused' = excused \cup Others(c)

(* A plausible slip: the channel is made when the answer turns out bad.      *)
ListenLater(c) == /\ At(c, "listen")
                  /\ Advance(c)
                  /\ UNCHANGED <<worldVars, pages, posted, tasks, editVars>>

(* The channel is there before the request goes out; it takes the place of   *)
(* the channel of another edit that still waits.                             *)
Listen(c) == /\ At(c, "listen")
             /\ Advance(c)
             /\ listening' = c
             /\ excused' = excused \cup Others(c)
             /\ UNCHANGED <<worldVars, pages, posted, tasks, heard, extras>>

(* The request is lost; the edit is done, or not, and not answered or        *)
(* answered without a word of this message; done, and shown; not done, and   *)
(* another text shown, which other people's pushes may follow; or done, and  *)
(* another text shown nevertheless, which a push will correct.               *)
AskEdit(c) ==
    /\ At(c, "askedit")
    /\ \/ EndEdit(c, "failed") /\ UNCHANGED <<tasks, extras>>
       \/ /\ online.plain /\ (Perform(c) \/ UNCHANGED tasks) /\ UNCHANGED extras
          /\ EndEdit(c, "failed") \/ EndEdit(c, "unsure")
       \/ online.plain /\ Perform(c) /\ EndEdit(c, "confirmed") /\ UNCHANGED extras
       \/ /\ online.plain /\ UNCHANGED <<tasks, listening, excused>> /\ Advance(c)
          /\ extras' \in {extras, extras \cup {"other"}}
       \/ /\ online.plain /\ Perform(c) /\ Advance(c) /\ extras' = extras \cup {c}
          /\ UNCHANGED <<listening, excused>>
    /\ UNCHANGED <<worldVars, pages, posted, heard>>

(* handleEdit gives a push to the channel of its message, if there is one    *)
(* with room.                                                                *)
HearPush(x) ==
    /\ x \in extras /\ extras' = extras \ {x}
    /\ IF listening # "nobody" /\ Len(heard[listening]) < ChannelCap
       THEN heard' = [heard EXCEPT ![listening] = Append(@, x)] /\ UNCHANGED excused
       ELSE /\ UNCHANGED heard
            /\ excused' = IF listening # "nobody" THEN excused \cup {x} ELSE excused
    /\ UNCHANGED <<worldVars, task, pages, posted, tasks, listening>>

(* The pushes are read until one shows the text.                             *)
Correct(c) == /\ At(c, "correct") /\ heard[c] # << >>
              /\ heard' = [heard EXCEPT ![c] = Tail(@)]
              /\ IF Head(heard[c]) = c THEN EndEdit(c, "confirmed")
                 ELSE UNCHANGED <<task, listening, excused>>
              /\ UNCHANGED <<worldVars, pages, posted, tasks, extras>>

(* Five seconds pass: a push that arrived just then, or did not yet, is too  *)
(* late.                                                                     *)
Revert(c) == /\ At(c, "correct")
             /\ Tell(c, "reverted")
             /\ listening' = "nobody"
             /\ excused' = excused \cup Others(c) \cup ({c} \cap (extras \cup {heard[c][k] : k \in DOMAIN heard[c]}))
             /\ UNCHANGED <<worldVars, pages, posted, tasks, heard, extras>>

-----------------------------------------------------------------------------
(* The context ends between two attempts, or while an edit waits.            *)
Abandon(c) == /\ \/ At(c, "post") /\ task[c].tries > 0 /\ Tell(c, "failed") /\ UNCHANGED <<listening, excused>>
                 \/ At(c, "correct") /\ EndEdit(c, "failed")
              /\ UNCHANGED <<worldVars, pages, posted, tasks, heard, extras>>

(* Connections come and go, and the user may log out.                        *)
Turn == /\ turns < MaxTurns /\ turns' = turns + 1
        /\ \/ \E which \in {"plain", "sealed"} : online' = [online EXCEPT ![which] = ~@]
           \/ online.login /\ online' = [online EXCEPT !.login = FALSE]
        /\ UNCHANGED <<work, task, pages, posted, tasks, editVars>>

OutgoingInit ==
    /\ work \in Works
    /\ task = [c \in Calls |-> [pc |-> 1, tries |-> 0, reloaded |-> FALSE, said |-> "nothing"]]
    /\ online \in [plain : BOOLEAN, sealed : BOOLEAN, login : {TRUE}]
    /\ pages = 0 /\ turns = 0 /\ posted = {} /\ tasks = [c \in Calls |-> 0]
    /\ listening = "nobody" /\ heard = [c \in Calls |-> << >>] /\ extras = {} /\ excused = {}

OutgoingNext ==
    \/ \E c \in Calls : \/ Login(c) \/ Convert(c) \/ Post(c) \/ AskTask(c) \/ Attempt(c) \/ SendSealed(c)
                        \/ Listen(c) \/ AskEdit(c) \/ Correct(c) \/ Revert(c) \/ Abandon(c)
                        \/ \E which \in {"plain", "sealed"} : Await(c, which)
    \/ \E x \in Calls \cup {"other"} : HearPush(x)
    \/ Turn

OutgoingSpec == OutgoingInit /\ [][OutgoingNext]_outgoingVars

-----------------------------------------------------------------------------
(* What the user is told is so.  A message is posted once at most, whatever  *)
(* attempts were lost; it was posted when it is called sent, and was not     *)
(* when it is called rejected.  An edit called confirmed was made; one       *)
(* called reverted was not, unless its correction was late, crowded out of   *)
(* the channel, or another edit of the message took the channel away.  A     *)
(* deletion of an encrypted chat that is called done deleted both threads.   *)
SaidIsSo ==
    \A c \in Calls :
        LET mine == {o \in posted : o[1] = c}
            said == task[c].said
        IN  /\ Cardinality(mine) <= 1
            /\ said = "sent" => mine # {}
            /\ said = "rejected" => mine = {}
            /\ said = "confirmed" => tasks[c] = 1
            /\ said = "reverted" => tasks[c] = 0 \/ c \in excused
            /\ said = "ok" /\ work[c] = "sealeddelete" => tasks[c] = 2
=============================================================================
