------------------------------- MODULE Bridge -------------------------------
(***************************************************************************)
(* The calls of the Go bridge, from the exported functions that the native   *)
(* binding runs on threads of its own, through bridge.Client, to the two     *)
(* connections: messagix for ordinary threads and whatsmeow for encrypted    *)
(* ones.  A call is the list of steps it has still to make; calls of several *)
(* threads, the connections and Disconnect interleave between the steps.     *)
(* One client: its handle is in the map of main.go until Disconnect.         *)
(***************************************************************************)
EXTENDS Naturals, Sequences, FiniteSets

CONSTANTS Threads,        \* native threads that run exported functions
          Calls,          \* the exported functions they run
          MaxHTTPRetries  \* 5 in the code

VARIABLES inMap,      \* main.go: the handle is in clients
          cancelled,  \* Client.ctx is cancelled
          closed,     \* eventChan is closed
          loop,       \* messagix' connection loop: "off", "on", "stopping"
          e2ee,       \* Client.E2EE: "nil", "made", "up", "lost" (it reconnects by itself)
          stray,      \* a whatsmeow client that Client.E2EE no longer names is alive
          call,       \* per thread: its call
          calm,       \* Disconnect found nothing in its way (history)
          panicked    \* "no", or what ended the process

clientVars == <<inMap, cancelled, closed>>
connVars   == <<loop, e2ee, stray>>
bridgeVars == <<inMap, cancelled, closed, loop, e2ee, stray, call, calm, panicked>>

-----------------------------------------------------------------------------
(* What each function of bridge.Client does, step by step.  An upload for an  *)
(* encrypted chat is named by the type whatsmeow encrypts it as.              *)

\* messages.go
sendRegularMessage  == <<"gate", "task">>
sendE2EEMessage     == <<"jid", "sealed">>
SendMessage         == <<"dispatch">>
SendReaction        == <<"task">>
SendE2EEReaction    == <<"connected", "jid", "jid", "sealed">>
EditMessage         == <<"task">>
UnsendMessage       == <<"task">>
SendTypingIndicator == <<"task">>
MarkRead            == <<"task">>
SendE2EETyping      == <<"connected", "jid", "sealed">>
EditE2EEMessage     == <<"connected", "jid", "sealed">>
UnsendE2EEMessage   == <<"connected", "jid", "sealed">>

\* media.go
UploadMedia   == <<"upload">>
SendMedia     == SendMessage
SendSticker   == SendMessage
SendImage     == UploadMedia \o SendMedia
SendVideo     == UploadMedia \o SendMedia
SendVoice     == UploadMedia \o SendMedia
SendFile      == UploadMedia \o SendMedia
MuteThread    == <<"task">>
SetGroupPhoto == <<"upload", "photo", "task">>
RenameThread  == <<"task">>
DeleteThread  == <<"task">>
SearchUsers   == <<"task">>
CreateThread  == <<"task">>
GetUserInfo   == <<"task", "found">>
SendE2EEImage     == <<"connected", "jid", "image", "build", "sealed">>
SendE2EEVideo     == <<"connected", "jid", "video", "build", "sealed">>
SendE2EEAudio     == <<"connected", "jid", "audio", "build", "sealed">>
SendE2EEDocument  == <<"connected", "jid", "document", "build", "sealed">>
SendE2EESticker   == <<"connected", "jid", "image", "build", "sealed">>
DownloadE2EEMedia == <<"connected", "decode", "fetch">>

\* client.go
Connect                   == <<"page", "loop">>
ConnectE2EE               == <<"check", "prepare", "register", "raise">>
RegisterPushNotifications == <<"decode", "request">>

\* Mutant: the channel is closed before the connection loop was waited for.
DisconnectClosingFirst == <<"cancel", "drop", "close", "stop">>

Disconnect == <<"cancel", "drop", "stop", "close">>

\* main.go: the exported functions.  MxPollEvents is in ClientGate, MxGetDeviceData
\* and what the others save in DeviceStore.
LifeCalls == [MxConnect |-> Connect, MxConnectE2EE |-> ConnectE2EE,
              MxDisconnect |-> Disconnect, MxIsConnected |-> << >>]
MessageCalls == [MxSendMessage |-> SendMessage, MxSendReaction |-> SendReaction,
                 MxEditMessage |-> EditMessage, MxUnsendMessage |-> UnsendMessage,
                 MxSendTyping |-> SendTypingIndicator, MxMarkRead |-> MarkRead]
MediaCalls == [MxUploadMedia |-> UploadMedia, MxSendImage |-> SendImage,
               MxSendVideo |-> SendVideo, MxSendVoice |-> SendVoice,
               MxSendFile |-> SendFile, MxSendSticker |-> SendSticker]
ThreadCalls == [MxCreateThread |-> CreateThread, MxGetUserInfo |-> GetUserInfo,
                MxSetGroupPhoto |-> <<"decode">> \o SetGroupPhoto,
                MxRenameThread |-> RenameThread, MxMuteThread |-> MuteThread,
                MxDeleteThread |-> DeleteThread, MxSearchUsers |-> SearchUsers]
SealedCalls == [MxSendE2EEMessage |-> SendMessage, MxSendE2EEReaction |-> SendE2EEReaction,
                MxSendE2EETyping |-> SendE2EETyping, MxEditE2EEMessage |-> EditE2EEMessage,
                MxUnsendE2EEMessage |-> UnsendE2EEMessage]
SealedMediaCalls == [MxSendE2EEImage |-> SendE2EEImage, MxSendE2EEVideo |-> SendE2EEVideo,
                     MxSendE2EEAudio |-> SendE2EEAudio, MxSendE2EEDocument |-> SendE2EEDocument,
                     MxSendE2EESticker |-> SendE2EESticker,
                     MxDownloadE2EEMedia |-> DownloadE2EEMedia]
OtherCalls == [MxGetCookies |-> << >>,
               MxRegisterPushNotifications |-> RegisterPushNotifications]

\* The groups of the functions that send, upload or fetch something.
Senders == {MessageCalls, MediaCalls, ThreadCalls, SealedCalls, SealedMediaCalls}

Exports == LET all == Senders \cup {LifeCalls, OtherCalls}
           IN [op \in UNION {DOMAIN some : some \in all} |-> (CHOOSE some \in all : op \in DOMAIN some)[op]]

ASSUME BridgeAssumption == Calls \subseteq DOMAIN Exports /\ MaxHTTPRetries \in Nat

\* A call: its steps to come, the failed requests of the present MakeRequest,
\* the answers nobody could read, the id of what it uploaded, where its request went.
NoCall == [op |-> "none", todo |-> << >>, tries |-> 0, rounds |-> 0,
           image |-> "none", left |-> "nothing"]
Failed == <<"fail">>

Init == /\ inMap = TRUE /\ cancelled = FALSE /\ closed = FALSE
        /\ loop = "off" /\ e2ee = "nil" /\ stray = FALSE
        /\ call = [k \in Threads |-> NoCall]
        /\ calm = TRUE /\ panicked = "no"
-----------------------------------------------------------------------------
(* Entering and leaving. *)

Under(k) == call[k].op # "none"

\* The handle is looked up under the lock; only Disconnect takes it out.  From
\* there on a call that finds nothing under its handle fails.
Enter(k) ==
    /\ ~Under(k) /\ inMap
    /\ \E op \in Calls :
         /\ call' = [call EXCEPT ![k] = [NoCall EXCEPT !.op = op, !.todo = Exports[op]]]
         /\ inMap' = (op # "MxDisconnect")
         /\ calm' = (inMap' \/ (~stray /\ e2ee # "lost" /\ \A o \in Threads \ {k} : ~Under(o)))
    /\ UNCHANGED <<cancelled, closed, connVars, panicked>>

Return(k) == /\ Under(k) /\ call[k].todo \in {<< >>, Failed}
             /\ call' = [call EXCEPT ![k] = NoCall]
             /\ UNCHANGED <<clientVars, connVars, calm, panicked>>

At(k, step) == call[k].todo # << >> /\ Head(call[k].todo) = step

GoesOn(k) == call' = [call EXCEPT ![k].todo = Tail(@)]
Fails(k)  == call' = [call EXCEPT ![k].todo = Failed]

\* emitEvent; a full channel drops the event, a closed one panics.
Emits == panicked' = IF closed THEN "emit" ELSE panicked
-----------------------------------------------------------------------------
(* Requests. *)

\* SendMessage: an encrypted message goes the ordinary way when there is no
\* encrypted connection.
Dispatch(k) == /\ At(k, "dispatch")
               /\ call' = [call EXCEPT ![k].todo =
                     IF call[k].op = "MxSendE2EEMessage" /\ e2ee = "up" THEN sendE2EEMessage
                     ELSE sendRegularMessage]
               /\ UNCHANGED <<connVars, panicked>>

\* Steps on the call's own arguments and answers, and a download.
Parse(k) == /\ \E step \in {"decode", "jid", "build", "fetch", "found"} : At(k, step)
            /\ (GoesOn(k) \/ Fails(k))
            /\ UNCHANGED <<connVars, panicked>>

\* WaitUntilCanSendMessages.
Gate(k) == /\ At(k, "gate")
           /\ (loop # "off" /\ GoesOn(k)) \/ Fails(k)
           /\ UNCHANGED <<connVars, panicked>>

\* ExecuteTasks, as MqttSocket has it.  An encrypted message that ends here was
\* given a chat and no thread: its thread is 0.
Execute(k) ==
    /\ At(k, "task")
    /\ \/ /\ loop # "off"
          /\ call' = [call EXCEPT ![k].todo = Tail(@),
                        ![k].left = IF call[k].op = "MxSendE2EEMessage" THEN "nowhere" ELSE "thread"]
       \/ Fails(k)
    /\ UNCHANGED <<connVars, panicked>>

\* ErrE2EENotConnected.
NeedsE2EE(k) == /\ At(k, "connected")
                /\ IF e2ee = "up" THEN GoesOn(k) ELSE Fails(k)
                /\ UNCHANGED <<connVars, panicked>>

\* whatsmeow's Upload.
Seal(k) == /\ \E type \in {"image", "video", "audio", "document"} : At(k, type)
           /\ \/ e2ee = "up" /\ call' = [call EXCEPT ![k].todo = Tail(@), ![k].image = "some"]
              \/ Fails(k)
           /\ UNCHANGED <<connVars, panicked>>

\* SendFBMessage.  Encrypting changes the session, and the device is saved.
SendSealed(k) ==
    /\ At(k, "sealed")
    /\ \/ e2ee = "up" /\ call' = [call EXCEPT ![k].todo = Tail(@), ![k].left = "sealed"]
       \/ Fails(k)
    /\ (Emits \/ UNCHANGED panicked)
    /\ UNCHANGED connVars

\* Mutant: nobody counts the attempts.
RetriesForEver(k) == ~cancelled /\ call' = [call EXCEPT ![k].tries = 1 - @]

\* A request that failed is tried again, unless the context is cancelled; that of
\* RegisterPushNotifications has a context of its own.
Retries(k) == /\ call[k].tries < MaxHTTPRetries /\ (~cancelled \/ At(k, "request"))
              /\ call' = [call EXCEPT ![k].tries = @ + 1]

\* MakeRequest for a page or a GraphQL query.  Giving up, and an error that is
\* permanent: a redirect to a checkpoint, a login that is no longer valid.
MakeRequest(k) == /\ \E step \in {"page", "request"} : At(k, step)
                  /\ (call' = [call EXCEPT ![k].todo = Tail(@), ![k].tries = 0]
                        \/ Retries(k) \/ Fails(k))
                  /\ UNCHANGED <<connVars, panicked>>

\* parseMercuryResponse, parseMetadata.  The id is the first of a list, or of
\* entry "0" of a map and then 0 when there is no such entry.  Every retry
\* starts a MakeRequest of its own.
ReadAnswer(k) ==
    \/ /\ \E id \in {"zero", "some"} :
             call' = [call EXCEPT ![k].todo = Tail(@), ![k].tries = 0, ![k].image = id]
       /\ UNCHANGED panicked
    \/ /\ call[k].rounds < MaxHTTPRetries
       /\ call' = [call EXCEPT ![k].rounds = @ + 1, ![k].tries = 0]
       /\ UNCHANGED panicked
    \/ panicked' = "index" /\ UNCHANGED call   \* an empty list

SendMercuryUploadRequest(k) == /\ At(k, "upload")
                               /\ \/ ReadAnswer(k)
                                  \/ (Retries(k) \/ Fails(k)) /\ UNCHANGED panicked
                               /\ UNCHANGED connVars

\* Mutant: any id will do.
CheckImageNever(k) == At(k, "photo") /\ GoesOn(k) /\ UNCHANGED <<connVars, panicked>>

\* SetGroupPhoto wants an id; the messages with media take 0 for one.
CheckImage(k) == /\ At(k, "photo")
                 /\ IF call[k].image = "some" THEN GoesOn(k) ELSE Fails(k)
                 /\ UNCHANGED <<connVars, panicked>>
-----------------------------------------------------------------------------
(* Connecting. *)

\* messagix' Connect: refused while a socket is open or without a login.  A loop
\* that is started with a cancelled context ends at once.
StartLoop(k) == /\ At(k, "loop")
                /\ \/ GoesOn(k) /\ loop' = IF cancelled THEN loop ELSE "on"
                   \/ Fails(k) /\ UNCHANGED loop
                /\ UNCHANGED <<e2ee, stray, panicked>>

CheckE2EE(k) == /\ At(k, "check")
                /\ IF e2ee = "up" THEN call' = [call EXCEPT ![k].todo = << >>] ELSE GoesOn(k)
                /\ UNCHANGED <<connVars, panicked>>

\* A new client takes the place of the old one, which nobody disconnects.
PrepareE2EE(k) == /\ At(k, "prepare") /\ GoesOn(k)
                  /\ stray' = (stray \/ e2ee \in {"up", "lost"})
                  /\ e2ee' = "made"
                  /\ UNCHANGED <<loop, panicked>>

\* RegisterE2EE, and the save.
RegisterE2EE(k) == /\ At(k, "register")
                   /\ \/ GoesOn(k) /\ Emits
                      \/ Fails(k) /\ UNCHANGED panicked
                   /\ UNCHANGED connVars

\* E2EE.Connect; one that cannot be reached goes on trying behind our back.  The
\* event handler that is added last decides what is reported (ClientGate), not
\* whether something is emitted: saves are, with or without it.
Raise(k) == /\ At(k, "raise")
            /\ \/ e2ee = "made" /\ GoesOn(k) /\ e2ee' \in {"up", "lost"}
               \/ Fails(k) /\ UNCHANGED e2ee
            /\ UNCHANGED <<loop, stray, panicked>>

Step(k) == /\ Under(k)
           /\ \/ Dispatch(k) \/ Parse(k) \/ Gate(k) \/ Execute(k) \/ NeedsE2EE(k) \/ Seal(k)
              \/ SendSealed(k) \/ MakeRequest(k) \/ SendMercuryUploadRequest(k) \/ CheckImage(k)
              \/ StartLoop(k) \/ CheckE2EE(k) \/ PrepareE2EE(k) \/ RegisterE2EE(k) \/ Raise(k)
           /\ UNCHANGED <<clientVars, calm>>
-----------------------------------------------------------------------------
(* Client.Disconnect, four steps that nothing else waits for. *)

Cancel(k) == /\ At(k, "cancel") /\ GoesOn(k)
             /\ cancelled' = TRUE
             /\ loop' = IF loop = "on" THEN "stopping" ELSE loop
             /\ UNCHANGED <<inMap, closed, e2ee, stray, calm, panicked>>

\* Only a client that is connected is disconnected; it may leave a handler running.
Drop(k) == /\ At(k, "drop") /\ GoesOn(k)
           /\ IF e2ee = "up"
              THEN /\ e2ee' = "made"
                   /\ \/ UNCHANGED <<stray, calm>>
                      \/ stray' = TRUE /\ calm' = FALSE
              ELSE UNCHANGED <<e2ee, stray, calm>>
           /\ UNCHANGED <<clientVars, loop, panicked>>

\* Messagix.Disconnect waits for its loop, and not longer than five seconds.
StopLoop(k) == /\ At(k, "stop") /\ GoesOn(k)
               /\ calm' = (calm /\ loop = "off")
               /\ UNCHANGED <<clientVars, connVars, panicked>>

Close(k) == /\ At(k, "close") /\ GoesOn(k)
            /\ closed' = TRUE
            /\ panicked' = IF closed THEN "close" ELSE panicked
            /\ UNCHANGED <<inMap, cancelled, connVars, calm>>

DisconnectStep(k) == Under(k) /\ (Cancel(k) \/ Drop(k) \/ StopLoop(k) \/ Close(k))
-----------------------------------------------------------------------------
(* The connections. *)

\* An event of the loop, its last one or not.
LoopRuns == /\ loop # "off" /\ Emits
            /\ loop' \in {loop, "off"}
            /\ UNCHANGED <<clientVars, e2ee, stray, call, calm>>

LoopStops == /\ loop = "stopping" /\ loop' = "off"
             /\ UNCHANGED <<clientVars, e2ee, stray, call, calm, panicked>>

\* whatsmeow reports a message, a receipt, a connection lost or found, or saves a key.
E2EERuns == /\ e2ee \in {"up", "lost"} /\ Emits
            /\ e2ee' \in {"up", "lost"}
            /\ calm' = (calm /\ (inMap \/ e2ee' # "lost"))
            /\ UNCHANGED <<clientVars, loop, stray, call>>

StrayRuns == stray /\ Emits /\ UNCHANGED <<clientVars, connVars, call, calm>>

Next == /\ panicked = "no"
        /\ \/ \E k \in Threads : Enter(k) \/ Return(k) \/ Step(k) \/ DisconnectStep(k)
           \/ LoopRuns \/ LoopStops \/ E2EERuns \/ StrayRuns

Spec == Init /\ [][Next]_bridgeVars

\* A thread that is in a call goes on: every wait of the bridge has an end of its own.
FairSpec == Spec /\ \A k \in Threads :
                      WF_bridgeVars(panicked = "no" /\ (Return(k) \/ Step(k) \/ DisconnectStep(k)))
-----------------------------------------------------------------------------
(* Properties. *)

BridgeTypeOK ==
    /\ inMap \in BOOLEAN /\ cancelled \in BOOLEAN /\ closed \in BOOLEAN
    /\ loop \in {"off", "on", "stopping"} /\ e2ee \in {"nil", "made", "up", "lost"}
    /\ panicked \in {"no", "emit", "close", "index"}
    /\ \A k \in Threads : /\ call[k].op \in Calls \cup {"none"}
                          /\ call[k].tries \in 0 .. MaxHTTPRetries
                          /\ call[k].rounds \in 0 .. MaxHTTPRetries

\* The steps of Disconnect come in an order the rest may rely on: a closed
\* channel means a cancelled context and no handle to come in by, a cancelled
\* context no loop that goes on, and there is one Disconnect at a time.
DisconnectInOrder ==
    /\ closed => cancelled
    /\ cancelled => ~inMap /\ loop # "on"
    /\ Cardinality({k \in Threads : call[k].op = "MxDisconnect"}) =< 1

\* The event channel is closed once, whatever calls of Disconnect overlap: the
\* handle is taken out of the map under the lock (main.go, MxDisconnect).  And when
\* no other call is under way, the encrypted client is not reconnecting, none was
\* left behind, and the loop and whatsmeow's handlers end when they are told to,
\* no event comes after the channel is closed (Client.Disconnect).
QuietDisconnectIsSafe == panicked # "close" /\ (panicked = "emit" => ~calm)

\* A disconnect that nothing races is safe, whatever came before it (Client.Disconnect).
BridgeInv == BridgeTypeOK /\ DisconnectInOrder /\ QuietDisconnectIsSafe

\* A call of a sending function that ends well has sent what it was asked to,
\* where it was asked to, and after it uploaded it: no photo without an id, no
\* media message that skipped the upload, nothing encrypted into an ordinary
\* thread.  An encrypted text is the exception the code makes: it may end in thread 0.
Sends == (UNION {DOMAIN some : some \in Senders}) \ {"MxUploadMedia", "MxDownloadE2EEMedia"}
OkMeansSent ==
    \A k \in Threads :
      LET c == call[k]
      IN /\ c.op \in Sends /\ c.todo = << >> => c.left # "nothing"
         /\ c.left = "sealed" => c.op \in DOMAIN SealedCalls \cup DOMAIN SealedMediaCalls
         /\ c.left = "nowhere" => c.op = "MxSendE2EEMessage"
         /\ c.left # "nothing" /\ c.op \in DOMAIN MediaCalls \ {"MxSendSticker"} => c.image # "none"
         /\ c.left # "nothing" /\ c.op \in DOMAIN SealedMediaCalls => c.image = "some"
         /\ c.left # "nothing" /\ c.op = "MxSetGroupPhoto" => c.image = "some"

\* Every call ends, whatever the servers answer and whoever disconnects, or the
\* process does: the retries of the upload are retries of retries, and counted.
CallsEnd == \A k \in Threads : Under(k) ~> (~Under(k) \/ panicked # "no")
=============================================================================
