--------------------------- MODULE BridgeProofs ---------------------------
(***************************************************************************)
(* Proofs about the calls of the Go bridge, for any number of threads and any *)
(* choice of the exported functions.                                         *)
(*                                                                         *)
(* Every function of the binding is a program, and what is proved of a call  *)
(* is said of the steps it has still to make.  Opening is what each of the   *)
(* exported programs has to begin with, shown function by function; Moves is *)
(* what any step of the model does to the call it is a step of: it makes the *)
(* first of the steps (Passes), or turns to another end (Turns).  From there *)
(* on the two invariants know no function by its name but those they are     *)
(* about:                                                                  *)
(*   SendInv, of one call at a time: what is left of a program cannot send   *)
(*     without uploading, and cannot end well without sending;              *)
(*   LifeInv, of all calls and both connections: how far the one Disconnect  *)
(*     is, and what a Disconnect that nothing races has already stopped.     *)
(***************************************************************************)
EXTENDS Bridge, SequenceTheorems, FiniteSetTheorems, TLAPS

-----------------------------------------------------------------------------
(* Programs.                                                                 *)

Ending     == {"cancel", "drop", "stop", "close"}
Delivering == {"dispatch", "task", "sealed"}
Encrypting == {"image", "video", "audio", "document"}
Words == Ending \cup Delivering \cup Encrypting
           \cup {"gate", "jid", "connected", "upload", "photo", "found", "build", "decode", "fetch",
                 "page", "loop", "check", "prepare", "register", "raise", "request", "fail"}

\* s is the end of the program p.
EndOf(s, p) == /\ Len(s) <= Len(p)
               /\ \A i \in 1 .. Len(s) : s[i] = p[Len(p) - Len(s) + i]

Has(s, steps) == \E i \in 1 .. Len(s) : s[i] \in steps

\* Nothing is delivered before one of the steps.
Behind(s, steps) ==
    \A j \in 1 .. Len(s) : s[j] \in Delivering => \E i \in 1 .. j - 1 : s[i] \in steps

Photo == <<"decode", "upload", "photo", "task">>

\* A sequence put together of two steps, and of four.
LEMMA Joined ==
    ASSUME NEW a \in Words, NEW b \in Words
    PROVE  <<a>> \o <<b>> = <<a, b>>
<1>1. /\ <<a>> \o <<b>> \in Seq(Words) /\ <<a, b>> \in Seq(Words)
      /\ Len(<<a>> \o <<b>>) = 2 /\ Len(<<a, b>>) = 2
      /\ (<<a>> \o <<b>>)[1] = a /\ (<<a>> \o <<b>>)[2] = b
    OBVIOUS
<1>2. \A i \in 1 .. 2 : (<<a>> \o <<b>>)[i] = <<a, b>>[i]
    BY <1>1
<1> QED
    BY <1>1, <1>2, SeqEqual

LEMMA JoinedToThree ==
    ASSUME NEW a \in Words, NEW b \in Words, NEW c \in Words, NEW d \in Words
    PROVE  <<a>> \o <<b, c, d>> = <<a, b, c, d>>
<1>1. /\ <<a>> \o <<b, c, d>> \in Seq(Words) /\ <<a, b, c, d>> \in Seq(Words)
      /\ Len(<<a>> \o <<b, c, d>>) = 4 /\ Len(<<a, b, c, d>>) = 4
      /\ (<<a>> \o <<b, c, d>>)[1] = a /\ (<<a>> \o <<b, c, d>>)[2] = b
      /\ (<<a>> \o <<b, c, d>>)[3] = c /\ (<<a>> \o <<b, c, d>>)[4] = d
    OBVIOUS
<1>2. \A i \in 1 .. 4 : (<<a>> \o <<b, c, d>>)[i] = <<a, b, c, d>>[i]
    BY <1>1
<1> QED
    BY <1>1, <1>2, SeqEqual

LEMMA Composed ==
    /\ SendImage = <<"upload", "dispatch">> /\ SendVideo = <<"upload", "dispatch">>
    /\ SendVoice = <<"upload", "dispatch">> /\ SendFile = <<"upload", "dispatch">>
    /\ <<"decode">> \o SetGroupPhoto = Photo
<1>1. {"upload", "dispatch", "decode", "photo", "task"} \subseteq Words
    BY DEF Words, Delivering
<1> QED
    BY <1>1, Joined, JoinedToThree
       DEF SendImage, SendVideo, SendVoice, SendFile, UploadMedia, SendMedia, SendMessage, Photo, SetGroupPhoto


\* The functions by group.
LEMMA Groups ==
    /\ DOMAIN MessageCalls = {"MxSendMessage", "MxSendReaction", "MxEditMessage", "MxUnsendMessage",
                              "MxSendTyping", "MxMarkRead"}
    /\ DOMAIN MediaCalls = {"MxUploadMedia", "MxSendImage", "MxSendVideo", "MxSendVoice", "MxSendFile",
                            "MxSendSticker"}
    /\ DOMAIN ThreadCalls = {"MxCreateThread", "MxGetUserInfo", "MxSetGroupPhoto", "MxRenameThread",
                             "MxMuteThread", "MxDeleteThread", "MxSearchUsers"}
    /\ DOMAIN SealedCalls = {"MxSendE2EEMessage", "MxSendE2EEReaction", "MxSendE2EETyping",
                             "MxEditE2EEMessage", "MxUnsendE2EEMessage"}
    /\ DOMAIN SealedMediaCalls = {"MxSendE2EEImage", "MxSendE2EEVideo", "MxSendE2EEAudio",
                                  "MxSendE2EEDocument", "MxSendE2EESticker", "MxDownloadE2EEMedia"}
    /\ DOMAIN LifeCalls = {"MxConnect", "MxConnectE2EE", "MxDisconnect", "MxIsConnected"}
    /\ DOMAIN OtherCalls = {"MxGetCookies", "MxRegisterPushNotifications"}
BY DEF MessageCalls, MediaCalls, ThreadCalls, SealedCalls, SealedMediaCalls, LifeCalls, OtherCalls

LEMMA SendsAre ==
    Sends = (DOMAIN MessageCalls \cup DOMAIN MediaCalls \cup DOMAIN ThreadCalls \cup DOMAIN SealedCalls
               \cup DOMAIN SealedMediaCalls) \ {"MxUploadMedia", "MxDownloadE2EEMedia"}
<1>1. \A x : x \in UNION {DOMAIN some : some \in Senders} <=> \E some \in Senders : x \in DOMAIN some
    OBVIOUS
<1>2. \A x : (\E some \in Senders : x \in DOMAIN some) <=>
        (\/ x \in DOMAIN MessageCalls \/ x \in DOMAIN MediaCalls \/ x \in DOMAIN ThreadCalls
         \/ x \in DOMAIN SealedCalls \/ x \in DOMAIN SealedMediaCalls)
    BY Zenon DEF Senders
<1>3. \A x : x \in Sends <=> /\ x \in UNION {DOMAIN some : some \in Senders}
                             /\ x \notin {"MxUploadMedia", "MxDownloadE2EEMedia"}
    BY Zenon DEF Sends
<1> QED
    BY <1>1, <1>2, <1>3

\* What a function has to begin with.
Opening(op, s) ==
    /\ s \in Seq(Words)
    /\ IF op = "MxDisconnect" THEN s = Disconnect ELSE ~ Has(s, Ending)
    /\ op \in Sends => Has(s, Delivering) /\ ~ Has(s, {"check"})
    /\ op \notin DOMAIN SealedCalls \cup DOMAIN SealedMediaCalls => ~ Has(s, {"sealed"})
    /\ op \in DOMAIN MediaCalls \ {"MxSendSticker"} => Behind(s, {"upload"})
    /\ op \in DOMAIN SealedMediaCalls => ~ Has(s, {"upload"}) /\ Behind(s, Encrypting)
    /\ op = "MxSetGroupPhoto" => s = Photo

LEMMA MessagesOpen ==
    ASSUME NEW op \in DOMAIN MessageCalls
    PROVE  Opening(op, MessageCalls[op])
<1> DEFINE s == MessageCalls[op]
<1>1. s = <<"dispatch">> \/ s = <<"task">>
    BY DEF MessageCalls, SendMessage, SendReaction, EditMessage, UnsendMessage, SendTypingIndicator, MarkRead
<1>2. s \in Seq(Words) /\ Len(s) = 1 /\ s[1] \in {"dispatch", "task"}
    <2>1. {"dispatch", "task"} \subseteq Words
        BY DEF Words, Delivering
    <2>2. CASE s = <<"dispatch">>
        BY <2>1, <2>2
    <2>3. CASE s = <<"task">>
        BY <2>1, <2>3
    <2> QED
        BY <1>1, <2>2, <2>3
<1> HIDE DEF s
<1> QED
    BY <1>2, Groups, SendsAre DEF s, Opening, Has, Behind, Ending, Delivering, Encrypting

LEMMA MediaOpen ==
    ASSUME NEW op \in DOMAIN MediaCalls
    PROVE  Opening(op, MediaCalls[op])
<1> DEFINE s == MediaCalls[op]
<1>0. {"upload", "dispatch"} \subseteq Words
    BY DEF Words, Delivering
<1>1. CASE op = "MxUploadMedia"
    <2>1. s = <<"upload">>
        BY <1>1 DEF MediaCalls, UploadMedia
    <2>2. s \in Seq(Words) /\ Len(s) = 1 /\ s[1] = "upload"
        BY <2>1, <1>0
    <2> HIDE DEF s
    <2> QED
        BY <1>1, <2>2, Groups, SendsAre DEF s, Opening, Has, Behind, Ending, Delivering
<1>2. CASE op = "MxSendSticker"
    <2>1. s = <<"dispatch">>
        BY <1>2 DEF MediaCalls, SendSticker, SendMessage
    <2>2. s \in Seq(Words) /\ Len(s) = 1 /\ s[1] = "dispatch"
        BY <2>1, <1>0
    <2> HIDE DEF s
    <2> QED
        BY <1>2, <2>2, Groups, SendsAre DEF s, Opening, Has, Behind, Ending, Delivering
<1>3. CASE op \in {"MxSendImage", "MxSendVideo", "MxSendVoice", "MxSendFile"}
    <2>1. s = <<"upload", "dispatch">>
        BY <1>3, Composed DEF MediaCalls
    <2>2. s \in Seq(Words) /\ Len(s) = 2 /\ s[1] = "upload" /\ s[2] = "dispatch"
        BY <2>1, <1>0
    <2> HIDE DEF s
    <2>3. Has(s, Delivering) /\ Behind(s, {"upload"})
        BY <2>2 DEF Has, Behind, Delivering
    <2> QED
        BY <1>3, <2>2, <2>3, Groups, SendsAre DEF s, Opening, Has, Ending
<1> QED
    BY <1>1, <1>2, <1>3, Groups

LEMMA ThreadsOpen ==
    ASSUME NEW op \in DOMAIN ThreadCalls
    PROVE  Opening(op, ThreadCalls[op])
<1> DEFINE s == ThreadCalls[op]
<1>0. {"task", "found", "decode", "upload", "photo"} \subseteq Words
    BY DEF Words, Delivering
<1>1. CASE op = "MxSetGroupPhoto"
    <2>1. s = Photo
        BY <1>1, Composed DEF ThreadCalls
    <2>2. /\ s \in Seq(Words) /\ Len(s) = 4
          /\ s[1] = "decode" /\ s[2] = "upload" /\ s[3] = "photo" /\ s[4] = "task"
        BY <2>1, <1>0 DEF Photo
    <2> HIDE DEF s
    <2>3. Has(s, Delivering)
        BY <2>2 DEF Has, Delivering
    <2> QED
        BY <1>1, <2>1, <2>2, <2>3, Groups, SendsAre DEF s, Opening, Has, Ending
<1>2. CASE op = "MxGetUserInfo"
    <2>1. s = <<"task", "found">>
        BY <1>2 DEF ThreadCalls, GetUserInfo
    <2>2. s \in Seq(Words) /\ Len(s) = 2 /\ s[1] = "task" /\ s[2] = "found"
        BY <2>1, <1>0
    <2> HIDE DEF s
    <2>3. Has(s, Delivering)
        BY <2>2 DEF Has, Delivering
    <2> QED
        BY <1>2, <2>2, <2>3, Groups, SendsAre DEF s, Opening, Has, Ending
<1>3. CASE op \notin {"MxSetGroupPhoto", "MxGetUserInfo"}
    <2>1. s = <<"task">>
        BY <1>3, Groups DEF ThreadCalls, CreateThread, RenameThread, MuteThread, DeleteThread, SearchUsers
    <2>2. s \in Seq(Words) /\ Len(s) = 1 /\ s[1] = "task"
        BY <2>1, <1>0
    <2> HIDE DEF s
    <2> QED
        BY <1>3, <2>2, Groups, SendsAre DEF s, Opening, Has, Delivering, Ending
<1> QED
    BY <1>1, <1>2, <1>3

LEMMA SealedOpen ==
    ASSUME NEW op \in DOMAIN SealedCalls
    PROVE  Opening(op, SealedCalls[op])
<1> DEFINE s == SealedCalls[op]
<1>0. {"dispatch", "connected", "jid", "sealed"} \subseteq Words
    BY DEF Words, Delivering
<1>1. CASE op = "MxSendE2EEMessage"
    <2>1. s = <<"dispatch">>
        BY <1>1 DEF SealedCalls, SendMessage
    <2>2. s \in Seq(Words) /\ Len(s) = 1 /\ s[1] = "dispatch"
        BY <2>1, <1>0
    <2> HIDE DEF s
    <2> QED
        BY <1>1, <2>2, Groups, SendsAre DEF s, Opening, Has, Delivering, Ending
<1>2. CASE op = "MxSendE2EEReaction"
    <2>1. s = <<"connected", "jid", "jid", "sealed">>
        BY <1>2 DEF SealedCalls, SendE2EEReaction
    <2>2. s \in Seq(Words) /\ Len(s) = 4 /\ s[1] = "connected" /\ s[2] = "jid" /\ s[3] = "jid" /\ s[4] = "sealed"
        BY <2>1, <1>0
    <2> HIDE DEF s
    <2>3. Has(s, Delivering)
        BY <2>2 DEF Has, Delivering
    <2> QED
        BY <1>2, <2>2, <2>3, Groups, SendsAre DEF s, Opening, Has, Ending
<1>3. CASE op \notin {"MxSendE2EEMessage", "MxSendE2EEReaction"}
    <2>1. s = <<"connected", "jid", "sealed">>
        BY <1>3, Groups DEF SealedCalls, SendE2EETyping, EditE2EEMessage, UnsendE2EEMessage
    <2>2. s \in Seq(Words) /\ Len(s) = 3 /\ s[1] = "connected" /\ s[2] = "jid" /\ s[3] = "sealed"
        BY <2>1, <1>0
    <2> HIDE DEF s
    <2>3. Has(s, Delivering)
        BY <2>2 DEF Has, Delivering
    <2> QED
        BY <1>3, <2>2, <2>3, Groups, SendsAre DEF s, Opening, Has, Ending
<1> QED
    BY <1>1, <1>2, <1>3

LEMMA SealedMediaOpen ==
    ASSUME NEW op \in DOMAIN SealedMediaCalls
    PROVE  Opening(op, SealedMediaCalls[op])
<1> DEFINE s == SealedMediaCalls[op]
<1>0. Encrypting \cup {"connected", "jid", "build", "sealed", "decode", "fetch"} \subseteq Words
    BY DEF Words, Delivering
<1>1. CASE op = "MxDownloadE2EEMedia"
    <2>1. s = <<"connected", "decode", "fetch">>
        BY <1>1 DEF SealedMediaCalls, DownloadE2EEMedia
    <2>2. s \in Seq(Words) /\ Len(s) = 3 /\ s[1] = "connected" /\ s[2] = "decode" /\ s[3] = "fetch"
        BY <2>1, <1>0
    <2> HIDE DEF s
    <2> QED
        BY <1>1, <2>2, Groups, SendsAre DEF s, Opening, Has, Behind, Delivering, Ending
<1>2. CASE op # "MxDownloadE2EEMedia"
    <2>1. PICK x \in Encrypting : s = <<"connected", "jid", x, "build", "sealed">>
        BY <1>2, Groups DEF SealedMediaCalls, Encrypting, SendE2EEImage, SendE2EEVideo, SendE2EEAudio,
             SendE2EEDocument, SendE2EESticker
    <2>2. /\ s \in Seq(Words) /\ Len(s) = 5
          /\ s[1] = "connected" /\ s[2] = "jid" /\ s[3] = x /\ s[4] = "build" /\ s[5] = "sealed"
        BY <2>1, <1>0
    <2> HIDE DEF s
    <2>3. Has(s, Delivering) /\ Behind(s, Encrypting)
        BY <2>2 DEF Has, Behind, Delivering, Encrypting
    <2>4. \A i \in 1 .. Len(s) : s[i] \in Encrypting \cup {"connected", "jid", "build", "sealed"}
        BY <2>2
    <2>5. ~ Has(s, Ending) /\ ~ Has(s, {"check"}) /\ ~ Has(s, {"upload"})
        BY <2>4 DEF Has, Ending, Encrypting
    <2> QED
        BY <1>2, <2>2, <2>3, <2>5, Groups, SendsAre DEF s, Opening
<1> QED
    BY <1>1, <1>2

LEMMA LifeOpens ==
    ASSUME NEW op \in DOMAIN LifeCalls
    PROVE  Opening(op, LifeCalls[op])
<1> DEFINE s == LifeCalls[op]
<1>0. Ending \cup {"page", "loop", "check", "prepare", "register", "raise"} \subseteq Words
    BY DEF Words
<1>1. CASE op = "MxConnect"
    <2>1. s = <<"page", "loop">>
        BY <1>1 DEF LifeCalls, Connect
    <2>2. s \in Seq(Words) /\ Len(s) = 2 /\ s[1] = "page" /\ s[2] = "loop"
        BY <2>1, <1>0
    <2> HIDE DEF s
    <2> QED
        BY <1>1, <2>2, Groups, SendsAre DEF s, Opening, Has, Ending
<1>2. CASE op = "MxConnectE2EE"
    <2>1. s = <<"check", "prepare", "register", "raise">>
        BY <1>2 DEF LifeCalls, ConnectE2EE
    <2>2. /\ s \in Seq(Words) /\ Len(s) = 4
          /\ s[1] = "check" /\ s[2] = "prepare" /\ s[3] = "register" /\ s[4] = "raise"
        BY <2>1, <1>0
    <2> HIDE DEF s
    <2> QED
        BY <1>2, <2>2, Groups, SendsAre DEF s, Opening, Has, Ending
<1>3. CASE op = "MxDisconnect"
    <2>1. s = Disconnect
        BY <1>3 DEF LifeCalls
    <2>2. /\ s \in Seq(Words) /\ Len(s) = 4
          /\ s[1] = "cancel" /\ s[2] = "drop" /\ s[3] = "stop" /\ s[4] = "close"
        BY <2>1, <1>0 DEF Disconnect, Ending
    <2> HIDE DEF s
    <2> QED
        BY <1>3, <2>1, <2>2, Groups, SendsAre DEF s, Opening, Has
<1>4. CASE op = "MxIsConnected"
    <2>1. s = << >>
        BY <1>4 DEF LifeCalls
    <2>2. s \in Seq(Words) /\ Len(s) = 0
        BY <2>1
    <2> HIDE DEF s
    <2> QED
        BY <1>4, <2>2, Groups, SendsAre DEF s, Opening, Has
<1> QED
    BY <1>1, <1>2, <1>3, <1>4, Groups

LEMMA OthersOpen ==
    ASSUME NEW op \in DOMAIN OtherCalls
    PROVE  Opening(op, OtherCalls[op])
<1> DEFINE s == OtherCalls[op]
<1>0. {"decode", "request"} \subseteq Words
    BY DEF Words
<1>1. CASE op = "MxGetCookies"
    <2>1. s = << >>
        BY <1>1 DEF OtherCalls
    <2>2. s \in Seq(Words) /\ Len(s) = 0
        BY <2>1
    <2> HIDE DEF s
    <2> QED
        BY <1>1, <2>2, Groups, SendsAre DEF s, Opening, Has
<1>2. CASE op = "MxRegisterPushNotifications"
    <2>1. s = <<"decode", "request">>
        BY <1>2 DEF OtherCalls, RegisterPushNotifications
    <2>2. s \in Seq(Words) /\ Len(s) = 2 /\ s[1] = "decode" /\ s[2] = "request"
        BY <2>1, <1>0
    <2> HIDE DEF s
    <2> QED
        BY <1>2, <2>2, Groups, SendsAre DEF s, Opening, Has, Ending
<1> QED
    BY <1>1, <1>2, Groups

LEMMA ExportsOpen ==
    ASSUME NEW op \in Calls
    PROVE  Opening(op, Exports[op]) /\ op # "none"
<1> DEFINE all == Senders \cup {LifeCalls, OtherCalls}
           its == CHOOSE some \in all : op \in DOMAIN some
<1>1. op \in UNION {DOMAIN some : some \in all} /\ Exports[op] = its[op]
    BY BridgeAssumption DEF Exports
<1>2. \E some \in all : op \in DOMAIN some
    BY <1>1
<1>3. its \in all /\ op \in DOMAIN its
    BY <1>2
<1> HIDE DEF its
<1>4. \/ its = MessageCalls \/ its = MediaCalls \/ its = ThreadCalls \/ its = SealedCalls
      \/ its = SealedMediaCalls \/ its = LifeCalls \/ its = OtherCalls
    BY <1>3, Zenon DEF Senders
<1>5. Opening(op, its[op])
    BY <1>3, <1>4, Zenon, MessagesOpen, MediaOpen, ThreadsOpen, SealedOpen, SealedMediaOpen, LifeOpens, OthersOpen
<1>6. op # "none"
    <2>1. "none" \notin DOMAIN its
        BY <1>4, Groups
    <2> QED
        BY <2>1, <1>3
<1> QED
    BY <1>1, <1>5, <1>6
-----------------------------------------------------------------------------
(* What a step makes of the call it is a step of.                             *)

Images == {"none", "zero", "some"}
Ways   == {"nothing", "thread", "nowhere", "sealed"}

CallStates == [op : Calls \cup {"none"}, todo : Seq(Words), tries : 0 .. MaxHTTPRetries,
               rounds : 0 .. MaxHTTPRetries, image : Images, left : Ways]

CallsWell == call \in [Threads -> CallStates]

\* The step x was made: what was delivered and uploaded by it.
Effect(c, d, x) ==
    /\ x = "task"   => d.left \in {"thread", "nowhere"} /\ (d.left = "nowhere" => c.op = "MxSendE2EEMessage")
    /\ x = "sealed" => d.left = "sealed"
    /\ x \notin {"task", "sealed"} => d.left = c.left
    /\ x = "upload" => d.image \in {"zero", "some"}
    /\ x \in Encrypting => d.image = "some"
    /\ x \notin Encrypting \cup {"upload"} => d.image = c.image
    /\ x = "photo" => c.image = "some"
    /\ x \notin {"dispatch", "fail"}

Passes(c, d) == c.todo # << >> /\ d.todo = Tail(c.todo) /\ Effect(c, d, Head(c.todo))

Turns(c, d) ==
    /\ d.left = c.left /\ d.image = c.image
    /\ \/ d.todo = Failed \/ d.todo = c.todo
       \/ c.todo # << >> /\ Head(c.todo) = "check" /\ d.todo = << >>
       \/ /\ c.todo # << >> /\ Head(c.todo) = "dispatch"
          /\ \/ d.todo = sendRegularMessage
             \/ c.op = "MxSendE2EEMessage" /\ d.todo = sendE2EEMessage

\* Of the calls, only that of k moves, by one step.
Moves(k) == /\ CallsWell' /\ \A j \in Threads \ {k} : call'[j] = call[j]
            /\ call'[k].op = call[k].op
            /\ Passes(call[k], call'[k]) \/ Turns(call[k], call'[k])

LEMMA Programs ==
    /\ Failed \in Seq(Words) /\ Len(Failed) = 1 /\ Failed[1] = "fail"
    /\ << >> \in Seq(Words) /\ Len(<< >>) = 0
    /\ sendRegularMessage \in Seq(Words) /\ Len(sendRegularMessage) = 2
    /\ sendRegularMessage[1] = "gate" /\ sendRegularMessage[2] = "task"
    /\ sendE2EEMessage \in Seq(Words) /\ Len(sendE2EEMessage) = 2
    /\ sendE2EEMessage[1] = "jid" /\ sendE2EEMessage[2] = "sealed"
    /\ Disconnect \in Seq(Words) /\ Len(Disconnect) = 4
    /\ Disconnect[1] = "cancel" /\ Disconnect[2] = "drop" /\ Disconnect[3] = "stop" /\ Disconnect[4] = "close"
    /\ Photo \in Seq(Words) /\ Len(Photo) = 4
    /\ Photo[1] = "decode" /\ Photo[2] = "upload" /\ Photo[3] = "photo" /\ Photo[4] = "task"
<1>1. {"fail", "gate", "task", "jid", "sealed", "decode", "upload", "photo"} \cup Ending \subseteq Words
    BY DEF Words, Delivering
<1>2. Failed \in Seq(Words) /\ Len(Failed) = 1 /\ Failed[1] = "fail"
    BY <1>1 DEF Failed
<1>3. /\ sendRegularMessage \in Seq(Words) /\ Len(sendRegularMessage) = 2
      /\ sendRegularMessage[1] = "gate" /\ sendRegularMessage[2] = "task"
    BY <1>1 DEF sendRegularMessage
<1>4. /\ sendE2EEMessage \in Seq(Words) /\ Len(sendE2EEMessage) = 2
      /\ sendE2EEMessage[1] = "jid" /\ sendE2EEMessage[2] = "sealed"
    BY <1>1 DEF sendE2EEMessage
<1>5. /\ Disconnect \in Seq(Words) /\ Len(Disconnect) = 4
      /\ Disconnect[1] = "cancel" /\ Disconnect[2] = "drop" /\ Disconnect[3] = "stop" /\ Disconnect[4] = "close"
    BY <1>1 DEF Disconnect, Ending
<1>6. /\ Photo \in Seq(Words) /\ Len(Photo) = 4
      /\ Photo[1] = "decode" /\ Photo[2] = "upload" /\ Photo[3] = "photo" /\ Photo[4] = "task"
    BY <1>1 DEF Photo
<1> QED
    BY <1>2, <1>3, <1>4, <1>5, <1>6

LEMMA TailOf ==
    ASSUME NEW s \in Seq(Words), s # << >>
    PROVE  /\ Tail(s) \in Seq(Words) /\ Len(s) \in Nat \ {0} /\ Len(Tail(s)) = Len(s) - 1
           /\ \A i \in 1 .. Len(Tail(s)) : Tail(s)[i] = s[i + 1]
           /\ Head(s) = s[1]
OBVIOUS

LEMMA PassingMoves ==
    ASSUME CallsWell, NEW k \in Threads, call[k].todo # << >>, GoesOn(k),
           Head(call[k].todo) \notin {"task", "sealed", "upload", "photo", "dispatch", "fail"} \cup Encrypting
    PROVE  Moves(k)
<1>1. call[k] \in CallStates /\ call[k].todo \in Seq(Words)
    BY DEF CallsWell, CallStates
<1>2. Tail(call[k].todo) \in Seq(Words)
    BY <1>1, TailOf
<1>3. CallsWell' /\ (\A j \in Threads \ {k} : call'[j] = call[j]) /\ call'[k] = [call[k] EXCEPT !.todo = Tail(@)]
    BY <1>1, <1>2 DEF CallsWell, CallStates, GoesOn
<1> QED
    BY <1>1, <1>3 DEF Moves, Passes, Effect, CallStates

LEMMA FailingMoves ==
    ASSUME CallsWell, NEW k \in Threads, Fails(k)
    PROVE  Moves(k)
<1>1. call[k] \in CallStates
    BY DEF CallsWell
<1>3. CallsWell' /\ (\A j \in Threads \ {k} : call'[j] = call[j]) /\ call'[k] = [call[k] EXCEPT !.todo = Failed]
    BY <1>1, Programs DEF CallsWell, CallStates, Fails
<1> QED
    BY <1>1, <1>3 DEF Moves, Turns, CallStates

LEMMA StayingMoves ==
    ASSUME CallsWell, NEW k \in Threads, UNCHANGED call
    PROVE  Moves(k)
BY DEF Moves, CallsWell, Turns

LEMMA RetryMoves ==
    ASSUME CallsWell, NEW k \in Threads, Retries(k)
    PROVE  Moves(k)
<1>1. call[k] \in CallStates
    BY DEF CallsWell
<1>2. call[k].tries + 1 \in 0 .. MaxHTTPRetries
    BY <1>1, BridgeAssumption DEF Retries, CallStates
<1>3. /\ CallsWell' /\ \A j \in Threads \ {k} : call'[j] = call[j]
      /\ call'[k] = [call[k] EXCEPT !.tries = @ + 1]
    BY <1>1, <1>2 DEF CallsWell, CallStates, Retries
<1> QED
    BY <1>1, <1>3 DEF Moves, Turns, CallStates

LEMMA DispatchMoves ==
    ASSUME CallsWell, NEW k \in Threads, Dispatch(k)
    PROVE  Moves(k)
<1>1. call[k] \in CallStates
    BY DEF CallsWell
<1>2. PICK p \in Seq(Words) :
         /\ p = sendRegularMessage \/ (call[k].op = "MxSendE2EEMessage" /\ p = sendE2EEMessage)
         /\ call' = [call EXCEPT ![k].todo = p]
    BY Programs DEF Dispatch
<1>3. CallsWell' /\ (\A j \in Threads \ {k} : call'[j] = call[j]) /\ call'[k] = [call[k] EXCEPT !.todo = p]
    BY <1>1, <1>2 DEF CallsWell, CallStates
<1>4. call[k].todo # << >> /\ Head(call[k].todo) = "dispatch"
    BY DEF Dispatch, At
<1> QED
    BY <1>1, <1>2, <1>3, <1>4 DEF Moves, Turns, CallStates

LEMMA ParseMoves ==
    ASSUME CallsWell, NEW k \in Threads, Parse(k)
    PROVE  Moves(k)
BY PassingMoves, FailingMoves DEF Parse, At, Encrypting

LEMMA GateMoves ==
    ASSUME CallsWell, NEW k \in Threads, Gate(k)
    PROVE  Moves(k)
BY PassingMoves, FailingMoves DEF Gate, At, Encrypting

LEMMA ExecuteMoves ==
    ASSUME CallsWell, NEW k \in Threads, Execute(k)
    PROVE  Moves(k)
<1>1. call[k] \in CallStates /\ call[k].todo # << >> /\ Head(call[k].todo) = "task"
    BY DEF CallsWell, Execute, At
<1>2. CASE Fails(k)
    BY <1>2, FailingMoves
<1>3. CASE call' = [call EXCEPT ![k].todo = Tail(@),
                      ![k].left = IF call[k].op = "MxSendE2EEMessage" THEN "nowhere" ELSE "thread"]
    <2> DEFINE l == IF call[k].op = "MxSendE2EEMessage" THEN "nowhere" ELSE "thread"
    <2>1. Tail(call[k].todo) \in Seq(Words)
        BY <1>1, TailOf DEF CallStates
    <2>2. l \in Ways /\ call[k].image \in Images /\ call[k].tries \in 0 .. MaxHTTPRetries
        BY <1>1 DEF Ways, CallStates
    <2>3. /\ CallsWell' /\ \A j \in Threads \ {k} : call'[j] = call[j]
          /\ call'[k] = [call[k] EXCEPT !.todo = Tail(@), !.left = l]
        BY <1>1, <2>1, <2>2, <1>3 DEF CallsWell, CallStates
    <2> HIDE DEF l
    <2>4. call'[k].op = call[k].op /\ call'[k].todo = Tail(call[k].todo) /\ call'[k].left = l /\ call'[k].image = call[k].image
        BY <1>1, <2>3 DEF CallStates
    <2>5. Effect(call[k], call'[k], "task")
        BY <2>4 DEF Effect, Encrypting, l
    <2> QED
        BY <1>1, <2>3, <2>4, <2>5 DEF Moves, Passes
<1> QED
    BY <1>2, <1>3 DEF Execute

LEMMA NeedsE2EEMoves ==
    ASSUME CallsWell, NEW k \in Threads, NeedsE2EE(k)
    PROVE  Moves(k)
BY PassingMoves, FailingMoves DEF NeedsE2EE, At, Encrypting

LEMMA SealMoves ==
    ASSUME CallsWell, NEW k \in Threads, Seal(k)
    PROVE  Moves(k)
<1>1. call[k] \in CallStates /\ call[k].todo # << >> /\ Head(call[k].todo) \in Encrypting
    BY DEF CallsWell, Seal, At, Encrypting
<1>2. CASE Fails(k)
    BY <1>2, FailingMoves
<1>3. CASE call' = [call EXCEPT ![k].todo = Tail(@), ![k].image = "some"]
    <2>1. Tail(call[k].todo) \in Seq(Words)
        BY <1>1, TailOf DEF CallStates
    <2>2. "some" \in Images /\ call[k].left \in Ways /\ call[k].tries \in 0 .. MaxHTTPRetries
        BY <1>1 DEF Images, CallStates
    <2>3. /\ CallsWell' /\ \A j \in Threads \ {k} : call'[j] = call[j]
          /\ call'[k] = [call[k] EXCEPT !.todo = Tail(@), !.image = "some"]
        BY <1>1, <2>1, <2>2, <1>3 DEF CallsWell, CallStates
    <2>4. call'[k].op = call[k].op /\ call'[k].todo = Tail(call[k].todo) /\ call'[k].left = call[k].left /\ call'[k].image = "some"
        BY <1>1, <2>3 DEF CallStates
    <2>5. Effect(call[k], call'[k], Head(call[k].todo))
        BY <1>1, <2>4 DEF Effect, Encrypting
    <2> QED
        BY <1>1, <2>3, <2>4, <2>5 DEF Moves, Passes
<1> QED
    BY <1>2, <1>3 DEF Seal

LEMMA SendSealedMoves ==
    ASSUME CallsWell, NEW k \in Threads, SendSealed(k)
    PROVE  Moves(k)
<1>1. call[k] \in CallStates /\ call[k].todo # << >> /\ Head(call[k].todo) = "sealed"
    BY DEF CallsWell, SendSealed, At
<1>2. CASE Fails(k)
    BY <1>2, FailingMoves
<1>3. CASE call' = [call EXCEPT ![k].todo = Tail(@), ![k].left = "sealed"]
    <2>1. Tail(call[k].todo) \in Seq(Words)
        BY <1>1, TailOf DEF CallStates
    <2>2. "sealed" \in Ways /\ call[k].image \in Images /\ call[k].tries \in 0 .. MaxHTTPRetries
        BY <1>1 DEF Ways, CallStates
    <2>3. /\ CallsWell' /\ \A j \in Threads \ {k} : call'[j] = call[j]
          /\ call'[k] = [call[k] EXCEPT !.todo = Tail(@), !.left = "sealed"]
        BY <1>1, <2>1, <2>2, <1>3 DEF CallsWell, CallStates
    <2>4. call'[k].op = call[k].op /\ call'[k].todo = Tail(call[k].todo) /\ call'[k].left = "sealed" /\ call'[k].image = call[k].image
        BY <1>1, <2>3 DEF CallStates
    <2>5. Effect(call[k], call'[k], "sealed")
        BY <2>4 DEF Effect, Encrypting
    <2> QED
        BY <1>1, <2>3, <2>4, <2>5 DEF Moves, Passes
<1> QED
    BY <1>2, <1>3 DEF SendSealed

LEMMA MakeRequestMoves ==
    ASSUME CallsWell, NEW k \in Threads, MakeRequest(k)
    PROVE  Moves(k)
<1>1. call[k] \in CallStates /\ call[k].todo # << >> /\ Head(call[k].todo) \in {"page", "request"}
    BY DEF CallsWell, MakeRequest, At
<1>2. CASE Fails(k)
    BY <1>2, FailingMoves
<1>3. CASE Retries(k)
    BY <1>3, RetryMoves
<1>4. CASE call' = [call EXCEPT ![k].todo = Tail(@), ![k].tries = 0]
    <2>1. Tail(call[k].todo) \in Seq(Words)
        BY <1>1, TailOf DEF CallStates
    <2>2. call[k].left \in Ways /\ call[k].image \in Images /\ 0 \in 0 .. MaxHTTPRetries
        BY <1>1, BridgeAssumption DEF CallStates
    <2>3. /\ CallsWell' /\ \A j \in Threads \ {k} : call'[j] = call[j]
          /\ call'[k] = [call[k] EXCEPT !.todo = Tail(@), !.tries = 0]
        BY <1>1, <2>1, <2>2, <1>4 DEF CallsWell, CallStates
    <2>4. call'[k].op = call[k].op /\ call'[k].todo = Tail(call[k].todo) /\ call'[k].left = call[k].left /\ call'[k].image = call[k].image
        BY <1>1, <2>3 DEF CallStates
    <2>5. Effect(call[k], call'[k], Head(call[k].todo))
        BY <1>1, <2>4 DEF Effect, Encrypting
    <2> QED
        BY <1>1, <2>3, <2>4, <2>5 DEF Moves, Passes
<1> QED
    BY <1>2, <1>3, <1>4 DEF MakeRequest

LEMMA UploadMoves ==
    ASSUME CallsWell, NEW k \in Threads, SendMercuryUploadRequest(k)
    PROVE  Moves(k)
<1>1. call[k] \in CallStates /\ call[k].todo # << >> /\ Head(call[k].todo) = "upload"
    BY DEF CallsWell, SendMercuryUploadRequest, At
<1>2. CASE Fails(k)
    BY <1>2, FailingMoves
<1>3. CASE Retries(k)
    BY <1>3, RetryMoves
<1>4. CASE UNCHANGED call
    BY <1>4, StayingMoves
<1>5. CASE call[k].rounds < MaxHTTPRetries /\ call' = [call EXCEPT ![k].rounds = @ + 1, ![k].tries = 0]
    <2>1. call[k].rounds + 1 \in 0 .. MaxHTTPRetries /\ 0 \in 0 .. MaxHTTPRetries
        BY <1>1, <1>5, BridgeAssumption DEF CallStates
    <2>2. /\ CallsWell' /\ \A j \in Threads \ {k} : call'[j] = call[j]
          /\ call'[k] = [call[k] EXCEPT !.rounds = @ + 1, !.tries = 0]
        BY <1>1, <1>5, <2>1 DEF CallsWell, CallStates
    <2> QED
        BY <1>1, <2>2 DEF Moves, Turns, CallStates
<1>6. ASSUME NEW id \in {"zero", "some"},
             call' = [call EXCEPT ![k].todo = Tail(@), ![k].tries = 0, ![k].image = id]
      PROVE  Moves(k)
    <2>1. Tail(call[k].todo) \in Seq(Words)
        BY <1>1, TailOf DEF CallStates
    <2>2. call[k].left \in Ways /\ id \in Images /\ 0 \in 0 .. MaxHTTPRetries
        BY <1>1, BridgeAssumption DEF CallStates, Images
    <2>3. /\ CallsWell' /\ \A j \in Threads \ {k} : call'[j] = call[j]
          /\ call'[k] = [call[k] EXCEPT !.todo = Tail(@), !.tries = 0, !.image = id]
        BY <1>1, <2>1, <2>2, <1>6 DEF CallsWell, CallStates
    <2>4. call'[k].op = call[k].op /\ call'[k].todo = Tail(call[k].todo) /\ call'[k].left = call[k].left /\ call'[k].image = id
        BY <1>1, <2>3 DEF CallStates
    <2>5. Effect(call[k], call'[k], "upload")
        BY <1>1, <2>4 DEF Effect, Encrypting
    <2> QED
        BY <1>1, <2>3, <2>4, <2>5 DEF Moves, Passes
<1> QED
    BY <1>2, <1>3, <1>4, <1>5, <1>6 DEF SendMercuryUploadRequest, ReadAnswer

LEMMA CheckImageMoves ==
    ASSUME CallsWell, NEW k \in Threads, CheckImage(k)
    PROVE  Moves(k)
<1>1. call[k] \in CallStates /\ call[k].todo # << >> /\ Head(call[k].todo) = "photo"
    BY DEF CallsWell, CheckImage, At
<1>2. CASE Fails(k)
    BY <1>2, FailingMoves
<1>3. CASE call[k].image = "some" /\ GoesOn(k)
    <2>1. Tail(call[k].todo) \in Seq(Words)
        BY <1>1, TailOf DEF CallStates
    <2>2. call[k].left \in Ways /\ "some" \in Images /\ call[k].tries \in 0 .. MaxHTTPRetries
        BY <1>1 DEF CallStates, Images
    <2>3. /\ CallsWell' /\ \A j \in Threads \ {k} : call'[j] = call[j]
          /\ call'[k] = [call[k] EXCEPT !.todo = Tail(@), !.image = "some"]
        BY <1>1, <2>1, <2>2, <1>3 DEF CallsWell, CallStates, GoesOn
    <2>4. call'[k].op = call[k].op /\ call'[k].todo = Tail(call[k].todo) /\ call'[k].left = call[k].left /\ call'[k].image = "some"
        BY <1>1, <2>3 DEF CallStates
    <2>5. Effect(call[k], call'[k], "photo")
        BY <1>3, <2>4 DEF Effect, Encrypting
    <2> QED
        BY <1>1, <2>3, <2>4, <2>5 DEF Moves, Passes
<1> QED
    BY <1>2, <1>3 DEF CheckImage

LEMMA ConnectingMoves ==
    ASSUME CallsWell, NEW k \in Threads,
           StartLoop(k) \/ CheckE2EE(k) \/ PrepareE2EE(k) \/ RegisterE2EE(k) \/ Raise(k)
    PROVE  Moves(k)
<1>1. CASE GoesOn(k)
    BY <1>1, PassingMoves DEF StartLoop, CheckE2EE, PrepareE2EE, RegisterE2EE, Raise, At, Encrypting
<1>2. CASE Fails(k)
    BY <1>2, FailingMoves
<1>3. CASE call[k].todo # << >> /\ Head(call[k].todo) = "check" /\ call' = [call EXCEPT ![k].todo = << >>]
    <2>1. call[k] \in CallStates
        BY DEF CallsWell
    <2>2. CallsWell' /\ (\A j \in Threads \ {k} : call'[j] = call[j]) /\ call'[k] = [call[k] EXCEPT !.todo = << >>]
        BY <1>3, <2>1, Programs DEF CallsWell, CallStates
    <2> QED
        BY <1>3, <2>1, <2>2 DEF Moves, Turns, CallStates
<1> QED
    BY <1>1, <1>2, <1>3 DEF StartLoop, CheckE2EE, PrepareE2EE, RegisterE2EE, Raise, At

LEMMA StepMoves ==
    ASSUME CallsWell, NEW k \in Threads, Step(k)
    PROVE  Moves(k)
BY DispatchMoves, ParseMoves, GateMoves, ExecuteMoves, NeedsE2EEMoves, SealMoves, SendSealedMoves,
   MakeRequestMoves, UploadMoves, CheckImageMoves, ConnectingMoves, Zenon DEF Step

LEMMA DisconnectMoves ==
    ASSUME CallsWell, NEW k \in Threads, DisconnectStep(k)
    PROVE  Moves(k) /\ call[k].todo # << >> /\ call'[k].todo = Tail(call[k].todo)
<1>1. call[k].todo # << >> /\ Head(call[k].todo) \in Ending /\ GoesOn(k)
    BY DEF DisconnectStep, Cancel, Drop, StopLoop, Close, At, Ending
<1>2. Moves(k)
    BY <1>1, PassingMoves DEF Ending, Encrypting
<1> QED
    BY <1>1, <1>2 DEF GoesOn, CallsWell, CallStates

LEMMA NoCallWell == NoCall \in CallStates /\ NoCall.todo = << >> /\ NoCall.op = "none" /\ NoCall.left = "nothing"
BY BridgeAssumption, Programs DEF NoCall, CallStates, Images, Ways

LEMMA EnterMoves ==
    ASSUME CallsWell, NEW k \in Threads, Enter(k)
    PROVE  \E op \in Calls :
              /\ CallsWell' /\ Opening(op, Exports[op])
              /\ \A j \in Threads \ {k} : call'[j] = call[j]
              /\ call'[k] = [NoCall EXCEPT !.op = op, !.todo = Exports[op]]
              /\ inMap' = (op # "MxDisconnect")
              /\ calm' = (inMap' \/ (~ stray /\ e2ee # "lost" /\ \A o \in Threads \ {k} : ~ Under(o)))
<1>1. PICK op \in Calls :
         /\ call' = [call EXCEPT ![k] = [NoCall EXCEPT !.op = op, !.todo = Exports[op]]]
         /\ inMap' = (op # "MxDisconnect")
         /\ calm' = (inMap' \/ (~ stray /\ e2ee # "lost" /\ \A o \in Threads \ {k} : ~ Under(o)))
    BY DEF Enter
<1>2. Opening(op, Exports[op])
    BY ExportsOpen
<1>3. [NoCall EXCEPT !.op = op, !.todo = Exports[op]] \in CallStates
    BY <1>2, NoCallWell DEF Opening, CallStates
<1>4. /\ CallsWell' /\ \A j \in Threads \ {k} : call'[j] = call[j]
      /\ call'[k] = [NoCall EXCEPT !.op = op, !.todo = Exports[op]]
    BY <1>1, <1>3 DEF CallsWell
<1> QED
    BY <1>1, <1>2, <1>4

LEMMA ReturnMoves ==
    ASSUME CallsWell, NEW k \in Threads, Return(k)
    PROVE  CallsWell' /\ (\A j \in Threads \ {k} : call'[j] = call[j]) /\ call'[k] = NoCall
BY NoCallWell DEF CallsWell, Return
-----------------------------------------------------------------------------
(* Sending.                                                                   *)

Honest(c) ==
    /\ c.op \in Sends =>
         /\ c.todo = Failed \/ c.left # "nothing" \/ Has(c.todo, Delivering)
         /\ ~ Has(c.todo, {"check"})
    /\ c.op \notin DOMAIN SealedCalls \cup DOMAIN SealedMediaCalls =>
         c.left # "sealed" /\ ~ Has(c.todo, {"sealed"})
    /\ c.left = "nowhere" => c.op = "MxSendE2EEMessage"
    /\ c.op \in DOMAIN MediaCalls \ {"MxSendSticker"} =>
         c.image # "none" \/ (c.left = "nothing" /\ Behind(c.todo, {"upload"}))
    /\ c.op \in DOMAIN SealedMediaCalls =>
         /\ ~ Has(c.todo, {"upload"})
         /\ c.image = "some" \/ (c.left = "nothing" /\ Behind(c.todo, Encrypting))
    /\ c.op = "MxSetGroupPhoto" =>
         /\ c.left = "nothing" \/ c.image = "some"
         /\ \/ c.todo = Failed
            \/ /\ EndOf(c.todo, Photo)
               /\ Len(c.todo) <= 1 => c.image = "some"
               /\ Len(c.todo) > 0 => c.left = "nothing"

SendInv == CallsWell /\ \A k \in Threads : Honest(call[k])

\* What may stand in the rest of a program stood in the program.
LEMMA RestHas ==
    ASSUME NEW s \in Seq(Words), s # << >>, NEW w, ~ Has(s, w)
    PROVE  ~ Has(Tail(s), w)
BY TailOf DEF Has

LEMMA RestHasStill ==
    ASSUME NEW s \in Seq(Words), s # << >>, NEW w, Has(s, w), Head(s) \notin w
    PROVE  Has(Tail(s), w)
<1>1. PICK i \in 1 .. Len(s) : s[i] \in w
    BY DEF Has
<1>2. i # 1
    BY <1>1, TailOf
<1>3. i - 1 \in 1 .. Len(Tail(s)) /\ Tail(s)[i - 1] = s[i]
    BY <1>1, <1>2, TailOf
<1> QED
    BY <1>1, <1>3 DEF Has

LEMMA RestIsBehind ==
    ASSUME NEW s \in Seq(Words), s # << >>, NEW w, Behind(s, w), Head(s) \notin w
    PROVE  Behind(Tail(s), w)
<1> SUFFICES ASSUME NEW j \in 1 .. Len(Tail(s)), Tail(s)[j] \in Delivering
             PROVE  \E i \in 1 .. j - 1 : Tail(s)[i] \in w
    BY DEF Behind
<1>1. j + 1 \in 1 .. Len(s) /\ s[j + 1] \in Delivering
    BY TailOf
<1>2. PICK i \in 1 .. j : s[i] \in w
    BY <1>1 DEF Behind
<1>3. i # 1
    BY <1>2, TailOf
<1>4. i - 1 \in 1 .. j - 1 /\ Tail(s)[i - 1] = s[i]
    BY <1>2, <1>3, TailOf
<1> QED
    BY <1>2, <1>4

LEMMA BehindBegins ==
    ASSUME NEW s \in Seq(Words), s # << >>, NEW w, Behind(s, w)
    PROVE  Head(s) \notin Delivering
BY TailOf DEF Behind

LEMMA RestIsEnd ==
    ASSUME NEW s \in Seq(Words), s # << >>, NEW p \in Seq(Words), EndOf(s, p)
    PROVE  EndOf(Tail(s), p) /\ Head(s) = p[Len(p) - Len(s) + 1]
<1>1. Len(p) \in Nat /\ Len(s) \in Nat /\ Len(s) <= Len(p) /\ Len(Tail(s)) = Len(s) - 1
    BY TailOf DEF EndOf
<1>2. \A i \in 1 .. Len(Tail(s)) : Tail(s)[i] = p[Len(p) - Len(Tail(s)) + i]
    <2> TAKE i \in 1 .. Len(Tail(s))
    <2>1. i + 1 \in 1 .. Len(s) /\ Tail(s)[i] = s[i + 1]
        BY <1>1, TailOf
    <2>2. s[i + 1] = p[Len(p) - Len(s) + (i + 1)]
        BY <2>1 DEF EndOf
    <2>3. Len(p) - Len(s) + (i + 1) = Len(p) - Len(Tail(s)) + i
        BY <1>1, <2>1, TailOf
    <2> QED
        BY <2>1, <2>2, <2>3
<1>3. Head(s) = p[Len(p) - Len(s) + 1]
    BY TailOf DEF EndOf
<1>4. Len(Tail(s)) <= Len(p)
    BY <1>1
<1> QED
    BY <1>2, <1>3, <1>4 DEF EndOf

LEMMA EndOfPhoto ==
    ASSUME NEW s \in Seq(Words), s # << >>, EndOf(s, Photo)
    PROVE  s[1] \in {"decode", "upload", "photo", "task"}
<1> DEFINE n == Len(s)
<1>1. n \in Nat /\ n > 0
    BY TailOf
<1>2. n <= 4 /\ s[1] = Photo[4 - n + 1]
    BY <1>1, Programs DEF EndOf
<1>3. 4 - n + 1 \in {1, 2, 3, 4}
    BY <1>1, <1>2
<1> QED
    BY <1>2, <1>3, Programs

LEMMA PassingIsHonest ==
    ASSUME NEW c \in CallStates, NEW d \in CallStates, Honest(c), d.op = c.op, Passes(c, d)
    PROVE  Honest(d)
<1> DEFINE x == Head(c.todo)
<1>0. /\ c.todo \in Seq(Words) /\ c.todo # << >> /\ d.todo = Tail(c.todo) /\ Effect(c, d, x)
      /\ c.image \in Images /\ c.left \in Ways
    BY DEF CallStates, Passes
<1>1. x = c.todo[1] /\ Len(c.todo) \in Nat \ {0} /\ Len(d.todo) = Len(c.todo) - 1
    BY <1>0, TailOf
<1> HIDE DEF x
<1>2. (\A w : ~ Has(c.todo, w) => x \notin w) /\ c.todo # Failed
    <2>1. x # "fail"
        BY <1>0 DEF Effect
    <2>2. \A w : ~ Has(c.todo, w) => x \notin w
        BY <1>1 DEF Has
    <2> QED
        BY <1>1, <2>1, <2>2, Programs
<1>3. x \in {"task", "sealed"} => d.left # "nothing"
    BY <1>0 DEF Effect
<1>4. d.op \in Sends => /\ d.todo = Failed \/ d.left # "nothing" \/ Has(d.todo, Delivering)
                        /\ ~ Has(d.todo, {"check"})
    <2> HAVE d.op \in Sends
    <2>1. (c.todo = Failed \/ c.left # "nothing" \/ Has(c.todo, Delivering)) /\ ~ Has(c.todo, {"check"})
        BY DEF Honest
    <2>2. CASE c.left # "nothing"
        <3>1. d.left # "nothing"
            BY <1>0, <1>3, <2>2 DEF Effect
        <3> QED
            BY <1>0, <2>1, <3>1, RestHas
    <2>3. CASE Has(c.todo, Delivering) /\ x \in Delivering
        <3>1. x \in {"task", "sealed"}
            BY <1>0, <2>3 DEF Effect, Delivering
        <3> QED
            BY <1>0, <1>3, <2>1, <3>1, RestHas
    <2>4. CASE Has(c.todo, Delivering) /\ x \notin Delivering
        <3>1. Has(d.todo, Delivering)
            BY <1>0, <2>4, RestHasStill DEF x
        <3> QED
            BY <1>0, <2>1, <3>1, RestHas
    <2> QED
        BY <1>2, <2>1, <2>2, <2>3, <2>4
<1>5. d.op \notin DOMAIN SealedCalls \cup DOMAIN SealedMediaCalls =>
         d.left # "sealed" /\ ~ Has(d.todo, {"sealed"})
    <2> HAVE d.op \notin DOMAIN SealedCalls \cup DOMAIN SealedMediaCalls
    <2>1. c.left # "sealed" /\ ~ Has(c.todo, {"sealed"})
        BY DEF Honest
    <2>2. x # "sealed"
        BY <1>2, <2>1
    <2>3. d.left # "sealed"
        BY <1>0, <2>1, <2>2 DEF Effect
    <2> QED
        BY <1>0, <2>1, <2>3, RestHas
<1>6. d.left = "nowhere" => d.op = "MxSendE2EEMessage"
    BY <1>0 DEF Honest, Effect
<1>7. d.op \in DOMAIN MediaCalls \ {"MxSendSticker"} =>
         d.image # "none" \/ (d.left = "nothing" /\ Behind(d.todo, {"upload"}))
    <2> HAVE d.op \in DOMAIN MediaCalls \ {"MxSendSticker"}
    <2>1. c.image # "none" \/ (c.left = "nothing" /\ Behind(c.todo, {"upload"}))
        BY DEF Honest
    <2>2. CASE c.image # "none" \/ x \in Encrypting \cup {"upload"}
        BY <1>0, <2>2 DEF Effect, Encrypting
    <2>3. CASE Behind(c.todo, {"upload"}) /\ c.left = "nothing" /\ x \notin Encrypting \cup {"upload"}
        <3>1. x \notin Delivering /\ Behind(d.todo, {"upload"})
            BY <1>0, <2>3, BehindBegins, RestIsBehind DEF x
        <3> QED
            BY <1>0, <2>3, <3>1 DEF Effect, Delivering
    <2> QED
        BY <2>1, <2>2, <2>3
<1>8. d.op \in DOMAIN SealedMediaCalls =>
         /\ ~ Has(d.todo, {"upload"})
         /\ d.image = "some" \/ (d.left = "nothing" /\ Behind(d.todo, Encrypting))
    <2> HAVE d.op \in DOMAIN SealedMediaCalls
    <2>1. /\ ~ Has(c.todo, {"upload"})
          /\ c.image = "some" \/ (c.left = "nothing" /\ Behind(c.todo, Encrypting))
        BY DEF Honest
    <2>2. x # "upload" /\ ~ Has(d.todo, {"upload"})
        BY <1>0, <1>2, <2>1, RestHas
    <2>3. CASE c.image = "some" \/ x \in Encrypting
        BY <1>0, <2>2, <2>3 DEF Effect
    <2>4. CASE Behind(c.todo, Encrypting) /\ c.left = "nothing" /\ x \notin Encrypting
        <3>1. x \notin Delivering /\ Behind(d.todo, Encrypting)
            BY <1>0, <2>4, BehindBegins, RestIsBehind DEF x
        <3> QED
            BY <1>0, <2>2, <2>4, <3>1 DEF Effect, Delivering
    <2> QED
        BY <2>1, <2>2, <2>3, <2>4
<1>9. d.op = "MxSetGroupPhoto" =>
         /\ d.left = "nothing" \/ d.image = "some"
         /\ \/ d.todo = Failed
            \/ /\ EndOf(d.todo, Photo)
               /\ Len(d.todo) <= 1 => d.image = "some"
               /\ Len(d.todo) > 0 => d.left = "nothing"
    <2> HAVE d.op = "MxSetGroupPhoto"
    <2>1. /\ EndOf(c.todo, Photo)
          /\ Len(c.todo) <= 1 => c.image = "some"
          /\ c.left = "nothing"
        <3>1. c.op = "MxSetGroupPhoto"
            OBVIOUS
        <3>2. \/ c.todo = Failed
              \/ /\ EndOf(c.todo, Photo)
                 /\ Len(c.todo) <= 1 => c.image = "some"
                 /\ Len(c.todo) > 0 => c.left = "nothing"
            BY <3>1, Zenon DEF Honest
        <3>3. Len(c.todo) > 0 /\ c.todo # Failed
            BY <1>1, <1>2
        <3> QED
            BY <3>2, <3>3
    <2>2. EndOf(d.todo, Photo) /\ x = Photo[4 - Len(c.todo) + 1] /\ Len(c.todo) <= 4
        <3>1. EndOf(Tail(c.todo), Photo) /\ Head(c.todo) = Photo[Len(Photo) - Len(c.todo) + 1]
            BY <1>0, <2>1, RestIsEnd, Programs
        <3>2. Len(c.todo) <= Len(Photo)
            BY <2>1 DEF EndOf
        <3> QED
            BY <1>0, <3>1, <3>2, Programs DEF x
    <2>3. CASE Len(c.todo) = 1
        <3>1. x = "task" /\ Len(d.todo) = 0 /\ d.image = c.image
            BY <1>0, <1>1, <2>2, <2>3, Programs DEF Effect, Encrypting
        <3> QED
            BY <2>1, <2>2, <2>3, <3>1
    <2>4. CASE Len(c.todo) = 2
        <3>1. x = "photo" /\ Len(d.todo) = 1 /\ d.image = "some" /\ d.left = c.left
            BY <1>0, <1>1, <2>2, <2>4, Programs DEF Effect, Encrypting
        <3> QED
            BY <2>1, <2>2, <2>4, <3>1
    <2>5. CASE Len(c.todo) = 3
        <3>1. x = "upload" /\ Len(d.todo) = 2
            BY <1>1, <2>2, <2>5, Programs
        <3>2. d.left = c.left
            BY <1>0, <3>1 DEF Effect
        <3> QED
            BY <2>1, <2>2, <3>1, <3>2
    <2>6. CASE Len(c.todo) = 4
        <3>1. x = "decode" /\ Len(d.todo) = 3
            BY <1>1, <2>2, <2>6, Programs
        <3>2. d.left = c.left
            BY <1>0, <3>1 DEF Effect
        <3> QED
            BY <2>1, <2>2, <3>1, <3>2
    <2>7. Len(c.todo) \in Nat /\ Len(c.todo) # 0 /\ Len(c.todo) <= 4
        BY <1>1, <2>2
    <2>8. Len(c.todo) = 1 \/ Len(c.todo) = 2 \/ Len(c.todo) = 3 \/ Len(c.todo) = 4
        <3>1. \A n \in Nat : n # 0 /\ n <= 4 => n = 1 \/ n = 2 \/ n = 3 \/ n = 4
            OBVIOUS
        <3> QED
            BY <2>7, <3>1, Zenon
    <2> QED
        BY <2>3, <2>4, <2>5, <2>6, <2>8, Zenon
<1> QED
    BY <1>4, <1>5, <1>6, <1>7, <1>8, <1>9 DEF Honest

LEMMA TurningIsHonest ==
    ASSUME NEW c \in CallStates, NEW d \in CallStates, Honest(c), d.op = c.op, Turns(c, d)
    PROVE  Honest(d)
<1>0. /\ c.todo \in Seq(Words) /\ d.left = c.left /\ d.image = c.image
    BY DEF CallStates, Turns
<1>1. CASE d.todo = c.todo
    BY <1>0, <1>1 DEF Honest
<1>2. CASE d.todo = Failed
    <2>1. \A w : w \in {{"check"}, {"sealed"}, {"upload"}} => ~ Has(d.todo, w)
        BY <1>2, Programs DEF Has
    <2>2. \A w : Behind(d.todo, w)
        BY <1>2, Programs DEF Behind, Delivering
    <2>3. c.op = "MxSetGroupPhoto" => c.left = "nothing" \/ c.image = "some"
        BY Zenon DEF Honest
    <2> QED
        BY <1>0, <1>2, <2>1, <2>2, <2>3 DEF Honest
<1>3. CASE c.todo # << >> /\ Head(c.todo) = "check" /\ d.todo = << >>
    <2>1. Has(c.todo, {"check"}) /\ Len(c.todo) \in Nat \ {0}
        BY <1>0, <1>3, TailOf DEF Has
    <2>2. c.op \notin Sends
        BY <2>1, Zenon DEF Honest
    <2>5. c.op # "MxSetGroupPhoto"
        BY <2>2, SendsAre, Groups
    <2>6. \A w : ~ Has(d.todo, w) /\ Behind(d.todo, w)
        BY <1>3, Programs DEF Has, Behind
    <2> QED
        BY <1>0, <2>2, <2>5, <2>6 DEF Honest
<1>4. CASE /\ c.todo # << >> /\ Head(c.todo) = "dispatch"
           /\ \/ d.todo = sendRegularMessage
              \/ c.op = "MxSendE2EEMessage" /\ d.todo = sendE2EEMessage
    <2>1. c.todo[1] = "dispatch" /\ Len(c.todo) \in Nat \ {0}
        BY <1>0, <1>4, TailOf
    <2>2. c.todo # Failed /\ \A w : ~ Behind(c.todo, w)
        <3>1. "dispatch" # "fail"
            OBVIOUS
        <3>2. ASSUME NEW w, Behind(c.todo, w) PROVE FALSE
            <4>1. 1 \in 1 .. Len(c.todo) /\ c.todo[1] \in Delivering
                BY <2>1 DEF Delivering
            <4>2. \E i \in 1 .. 1 - 1 : c.todo[i] \in w
                BY <3>2, <4>1 DEF Behind
            <4> QED
                BY <4>2
        <3> QED
            BY <2>1, <3>1, <3>2, Programs
    <2>3. c.op # "MxSetGroupPhoto"
        <3> SUFFICES ASSUME c.op = "MxSetGroupPhoto" PROVE FALSE
            OBVIOUS
        <3>1. EndOf(c.todo, Photo)
            BY <2>2, Zenon DEF Honest
        <3> QED
            BY <1>0, <1>4, <2>1, <3>1, EndOfPhoto
    <2>4. /\ d.todo[1] \in {"gate", "jid"} /\ d.todo[2] \in {"task", "sealed"} /\ Len(d.todo) = 2
          /\ d.todo[2] = "sealed" => c.op = "MxSendE2EEMessage"
        BY <1>4, Programs
    <2>5. Has(d.todo, Delivering) /\ ~ Has(d.todo, {"check"}) /\ ~ Has(d.todo, {"upload"})
        BY <2>4 DEF Has, Delivering
    <2>6. c.op \notin DOMAIN SealedCalls => ~ Has(d.todo, {"sealed"})
        BY <2>4, Groups DEF Has
    <2> QED
        BY <1>0, <2>2, <2>3, <2>5, <2>6 DEF Honest
<1> QED
    BY <1>1, <1>2, <1>3, <1>4 DEF Turns

LEMMA OpeningIsHonest ==
    ASSUME NEW op \in Calls, NEW c \in CallStates, Opening(op, c.todo), c.op = op,
           c.left = "nothing"
    PROVE  Honest(c)
<1>1. ASSUME op = "MxSetGroupPhoto"
      PROVE  EndOf(c.todo, Photo) /\ ~ (Len(c.todo) <= 1)
    <2>1. c.todo = Photo /\ Len(Photo) = 4
        BY <1>1, Programs DEF Opening
    <2>2. \A i \in 1 .. 4 : 4 - 4 + i = i
        OBVIOUS
    <2> QED
        BY <2>1, <2>2 DEF EndOf
<1> QED
    BY <1>1, Zenon DEF Opening, Honest

LEMMA NoCallIsHonest == Honest(NoCall)
<1>1. \A w : ~ Has(NoCall.todo, w)
    BY NoCallWell, Programs DEF Has
<1> QED
    BY <1>1, NoCallWell, Groups, SendsAre DEF Honest

LEMMA MovesAreHonest ==
    ASSUME SendInv, NEW k \in Threads, Moves(k)
    PROVE  SendInv'
<1>1. /\ call[k] \in CallStates /\ call'[k] \in CallStates /\ Honest(call[k])
      /\ call'[k].op = call[k].op /\ CallsWell'
    BY DEF SendInv, CallsWell, Moves
<1>2. Honest(call'[k])
    BY <1>1, PassingIsHonest, TurningIsHonest DEF Moves
<1>3. ASSUME NEW j \in Threads PROVE Honest(call'[j])
    BY <1>2, <1>3, Zenon DEF Moves, SendInv
<1> QED
    BY <1>1, <1>3 DEF SendInv

LEMMA SendInvariant == Spec => []SendInv
<1>1. Init => SendInv
    <2> SUFFICES ASSUME Init PROVE SendInv
        OBVIOUS
    <2>1. CallsWell /\ \A k \in Threads : call[k] = NoCall
        BY NoCallWell DEF Init, CallsWell
    <2> QED
        BY <2>1, NoCallIsHonest DEF SendInv
<1>2. SendInv /\ [Next]_bridgeVars => SendInv'
    <2> SUFFICES ASSUME SendInv, [Next]_bridgeVars PROVE SendInv'
        OBVIOUS
    <2>0. CallsWell
        BY DEF SendInv
    <2>1. ASSUME NEW k \in Threads, Enter(k) PROVE SendInv'
        <3>1. PICK op \in Calls :
                 /\ CallsWell' /\ Opening(op, Exports[op])
                 /\ \A j \in Threads \ {k} : call'[j] = call[j]
                 /\ call'[k] = [NoCall EXCEPT !.op = op, !.todo = Exports[op]]
            BY <2>0, <2>1, EnterMoves
        <3>2. /\ call'[k] \in CallStates /\ call'[k].op = op /\ call'[k].todo = Exports[op]
              /\ call'[k].left = "nothing"
            BY <3>1, NoCallWell DEF CallsWell, CallStates
        <3>3. Honest(call'[k])
            BY <3>1, <3>2, OpeningIsHonest
        <3>4. ASSUME NEW j \in Threads PROVE Honest(call'[j])
            BY <3>1, <3>3, Zenon DEF SendInv
        <3> QED
            BY <3>1, <3>4 DEF SendInv
    <2>2. ASSUME NEW k \in Threads, Return(k) PROVE SendInv'
        <3>1. CallsWell' /\ (\A j \in Threads \ {k} : call'[j] = call[j]) /\ call'[k] = NoCall
            BY <2>0, <2>2, ReturnMoves
        <3>2. ASSUME NEW j \in Threads PROVE Honest(call'[j])
            BY <3>1, NoCallIsHonest, Zenon DEF SendInv
        <3> QED
            BY <3>1, <3>2 DEF SendInv
    <2>3. ASSUME NEW k \in Threads, Step(k) \/ DisconnectStep(k) PROVE SendInv'
        BY <2>0, <2>3, StepMoves, DisconnectMoves, MovesAreHonest
    <2>4. CASE UNCHANGED call
        BY <2>4 DEF SendInv, CallsWell
    <2>5. CASE LoopRuns \/ LoopStops \/ E2EERuns \/ StrayRuns \/ UNCHANGED bridgeVars
        BY <2>4, <2>5 DEF LoopRuns, LoopStops, E2EERuns, StrayRuns, bridgeVars
    <2> QED
        BY <2>1, <2>2, <2>3, <2>5, Zenon DEF Next
<1> QED
    BY <1>1, <1>2, PTL DEF Spec

\* A call that ends well has sent what it was asked to, where it was asked to, and
\* after it uploaded it: whatever fails, is retried or disconnects in between
\* (the Send functions, SetGroupPhoto and SendMessage of bridge.Client).
THEOREM WhatIsOkWasSent == Spec => []OkMeansSent
<1>1. SendInv => OkMeansSent
    <2> SUFFICES ASSUME SendInv, NEW k \in Threads
                 PROVE  LET c == call[k]
                        IN /\ c.op \in Sends /\ c.todo = << >> => c.left # "nothing"
                           /\ c.left = "sealed" => c.op \in DOMAIN SealedCalls \cup DOMAIN SealedMediaCalls
                           /\ c.left = "nowhere" => c.op = "MxSendE2EEMessage"
                           /\ c.left # "nothing" /\ c.op \in DOMAIN MediaCalls \ {"MxSendSticker"} => c.image # "none"
                           /\ c.left # "nothing" /\ c.op \in DOMAIN SealedMediaCalls => c.image = "some"
                           /\ c.left # "nothing" /\ c.op = "MxSetGroupPhoto" => c.image = "some"
        BY Zenon DEF OkMeansSent
    <2>1. call[k] \in CallStates /\ Honest(call[k])
        BY DEF SendInv, CallsWell
    <2>2. call[k].todo = << >> => call[k].todo # Failed /\ ~ Has(call[k].todo, Delivering)
        <3> SUFFICES ASSUME call[k].todo = << >> PROVE call[k].todo # Failed /\ ~ Has(call[k].todo, Delivering)
            OBVIOUS
        <3>1. Len(call[k].todo) = 0
            BY Programs
        <3>2. Len(Failed) = 1
            BY Programs
        <3>3. ~ \E i \in 1 .. 0 : call[k].todo[i] \in Delivering
            OBVIOUS
        <3>4. ~ Has(call[k].todo, Delivering)
            BY <3>1, <3>3, Zenon DEF Has
        <3>5. call[k].todo # Failed
            BY <3>1, <3>2
        <3> QED
            BY <3>4, <3>5
    <2> QED
        BY <2>1, <2>2, Zenon DEF Honest
<1> QED
    BY <1>1, SendInvariant, PTL
-----------------------------------------------------------------------------
(* Disconnecting.                                                             *)

Disconnecting(k) == call[k].op = "MxDisconnect"
ToGo(k) == Len(call[k].todo)

Types == /\ inMap \in BOOLEAN /\ cancelled \in BOOLEAN /\ closed \in BOOLEAN
         /\ loop \in {"off", "on", "stopping"} /\ e2ee \in {"nil", "made", "up", "lost"}
         /\ stray \in BOOLEAN /\ calm \in BOOLEAN
         /\ panicked \in {"no", "emit", "close", "index"}

\* Only a Disconnect takes the steps that end the client, and there is one.
OneDisconnect ==
    /\ \A k \in Threads : IF Disconnecting(k) THEN EndOf(call[k].todo, Disconnect)
                          ELSE ~ Has(call[k].todo, Ending)
    /\ \A j, k \in Threads : Disconnecting(j) /\ Disconnecting(k) => j = k

\* What has been done to the client, and how far the Disconnect is.
HowFar ==
    /\ closed => cancelled
    /\ cancelled => ~ inMap /\ loop # "on"
    /\ inMap => calm
    /\ \A k \in Threads : Disconnecting(k) => /\ ~ inMap
                                              /\ ToGo(k) < 4 => cancelled
                                              /\ closed => ToGo(k) = 0

\* A Disconnect that found nothing in its way is alone, and what it has ended
\* stays ended.
Undisturbed ==
    calm /\ ~ inMap =>
      /\ \A k \in Threads : Under(k) => Disconnecting(k)
      /\ ~ stray /\ e2ee # "lost"
      /\ closed => loop = "off" /\ e2ee # "up"
      /\ \A k \in Threads : Disconnecting(k) => /\ ToGo(k) <= 2 => e2ee # "up"
                                                /\ ToGo(k) <= 1 => loop = "off"

LifeInv == CallsWell /\ Types /\ OneDisconnect /\ HowFar /\ Undisturbed /\ QuietDisconnectIsSafe

\* A step of a call is not one of those that end the client, and nothing but an
\* event on a closed channel or an empty list ends the process.
LEMMA StepLeaves ==
    ASSUME Types, NEW k \in Threads, Step(k)
    PROVE  /\ Types' /\ Under(k) /\ UNCHANGED <<inMap, cancelled, closed, calm>>
           /\ call[k].todo # << >> /\ Head(call[k].todo) \notin Ending
           /\ loop' = loop \/ ~ cancelled
           /\ panicked' \in {panicked, "index"} \/ (closed /\ panicked' = "emit")
<1>1. Under(k) /\ UNCHANGED <<inMap, cancelled, closed, calm>>
    BY DEF Step, clientVars
<1>2. /\ loop' \in {"off", "on", "stopping"} /\ e2ee' \in {"nil", "made", "up", "lost"}
      /\ stray' \in BOOLEAN
      /\ call[k].todo # << >> /\ Head(call[k].todo) \notin Ending
      /\ loop' = loop \/ ~ cancelled
      /\ panicked' \in {panicked, "index"} \/ (closed /\ panicked' = "emit")
    <2> USE DEF Types, At, Ending, connVars
    <2>1. CASE Dispatch(k)
        BY <2>1 DEF Dispatch
    <2>2. CASE Parse(k)
        BY <2>2 DEF Parse
    <2>3. CASE Gate(k)
        BY <2>3 DEF Gate
    <2>4. CASE Execute(k)
        BY <2>4 DEF Execute
    <2>5. CASE NeedsE2EE(k)
        BY <2>5 DEF NeedsE2EE
    <2>6. CASE Seal(k)
        BY <2>6 DEF Seal
    <2>7. CASE SendSealed(k)
        BY <2>7 DEF SendSealed, Emits
    <2>8. CASE MakeRequest(k)
        BY <2>8 DEF MakeRequest
    <2>9. CASE SendMercuryUploadRequest(k)
        BY <2>9 DEF SendMercuryUploadRequest, ReadAnswer
    <2>10. CASE CheckImage(k)
        BY <2>10 DEF CheckImage
    <2>11. CASE StartLoop(k)
        BY <2>11 DEF StartLoop
    <2>12. CASE CheckE2EE(k)
        BY <2>12 DEF CheckE2EE
    <2>13. CASE PrepareE2EE(k)
        BY <2>13 DEF PrepareE2EE
    <2>14. CASE RegisterE2EE(k)
        BY <2>14 DEF RegisterE2EE, Emits
    <2>15. CASE Raise(k)
        BY <2>15 DEF Raise
    <2> QED
        BY <2>1, <2>2, <2>3, <2>4, <2>5, <2>6, <2>7, <2>8, <2>9, <2>10, <2>11, <2>12, <2>13,
           <2>14, <2>15, Zenon DEF Step
<1> QED
    BY <1>1, <1>2 DEF Types

LEMMA TurnsNotEnding ==
    ASSUME NEW c \in CallStates, NEW d \in CallStates, ~ Has(c.todo, Ending), Passes(c, d) \/ Turns(c, d)
    PROVE  ~ Has(d.todo, Ending)
<1>1. c.todo \in Seq(Words)
    BY DEF CallStates
<1>2. CASE Passes(c, d)
    BY <1>1, <1>2, RestHas DEF Passes
<1>3. CASE Turns(c, d)
    <2>1. \/ d.todo = c.todo
          \/ d.todo \in {Failed, << >>, sendRegularMessage, sendE2EEMessage}
        BY <1>3 DEF Turns
    <2>2. ~ Has(Failed, Ending) /\ ~ Has(<< >>, Ending) /\ ~ Has(sendRegularMessage, Ending)
          /\ ~ Has(sendE2EEMessage, Ending)
        BY Programs DEF Has, Ending
    <2> QED
        BY <2>1, <2>2
<1> QED
    BY <1>2, <1>3

\* How far a Disconnect is tells which step is next.
LEMMA EndOfDisconnect ==
    ASSUME NEW s \in Seq(Words), s # << >>, EndOf(s, Disconnect)
    PROVE  /\ Head(s) \in Ending /\ Len(Tail(s)) = Len(s) - 1 /\ EndOf(Tail(s), Disconnect)
           /\ Head(s) = "cancel" => Len(s) = 4
           /\ Head(s) = "drop" => Len(s) = 3
           /\ Head(s) = "stop" => Len(s) = 2
           /\ Head(s) = "close" => Len(s) = 1
<1> DEFINE n == Len(s)
<1>1. n \in Nat /\ n > 0 /\ Len(Tail(s)) = n - 1
    BY TailOf
<1>2. n <= 4 /\ Head(s) = Disconnect[4 - n + 1] /\ EndOf(Tail(s), Disconnect)
    <2>1. Disconnect \in Seq(Words) /\ Len(Disconnect) = 4
        BY Programs
    <2>2. EndOf(Tail(s), Disconnect) /\ Head(s) = Disconnect[Len(Disconnect) - Len(s) + 1]
        BY <2>1, RestIsEnd
    <2>3. Len(s) <= Len(Disconnect)
        BY DEF EndOf
    <2> QED
        BY <2>1, <2>2, <2>3
<1>3. 4 - n + 1 \in {1, 2, 3, 4}
    BY <1>1, <1>2
<1>4. /\ 4 - n + 1 = 1 => n = 4
      /\ 4 - n + 1 = 2 => n = 3
      /\ 4 - n + 1 = 3 => n = 2
      /\ 4 - n + 1 = 4 => n = 1
    BY <1>1
<1> HIDE DEF n
<1> QED
    BY <1>1, <1>2, <1>3, <1>4, Programs DEF Ending, n

LEMMA StepLives ==
    ASSUME LifeInv, NEW k \in Threads, Step(k)
    PROVE  LifeInv'
<1>0. CallsWell /\ Types /\ OneDisconnect /\ HowFar /\ Undisturbed /\ QuietDisconnectIsSafe
    BY DEF LifeInv
<1>1. /\ Types' /\ Under(k) /\ UNCHANGED <<inMap, cancelled, closed, calm>>
      /\ call[k].todo # << >> /\ Head(call[k].todo) \notin Ending
      /\ loop' = loop \/ ~ cancelled
      /\ panicked' \in {panicked, "index"} \/ (closed /\ panicked' = "emit")
    BY <1>0, StepLeaves
<1>2. Moves(k)
    BY <1>0, StepMoves
<1>3. call[k] \in CallStates /\ call'[k] \in CallStates /\ call[k].todo \in Seq(Words) /\ CallsWell'
    BY <1>0, <1>2 DEF CallsWell, Moves, CallStates
<1>4. ~ Disconnecting(k)
    <2> SUFFICES ASSUME Disconnecting(k) PROVE FALSE
        OBVIOUS
    <2>1. EndOf(call[k].todo, Disconnect)
        BY <1>0 DEF OneDisconnect
    <2> QED
        BY <1>1, <1>3, <2>1, EndOfDisconnect
<1>5. \A j \in Threads : Disconnecting(j)' => Disconnecting(j) /\ call'[j] = call[j]
    BY <1>2, <1>4 DEF Moves, Disconnecting
<1>6. ~ (calm /\ ~ inMap)
    BY <1>0, <1>1, <1>4 DEF Undisturbed
<1>7. OneDisconnect'
    <2>1. ~ Has(call[k].todo, Ending)
        BY <1>0, <1>4 DEF OneDisconnect
    <2>2. ~ Has(call'[k].todo, Ending)
        BY <1>2, <1>3, <2>1, TurnsNotEnding DEF Moves
    <2>3. ~ Disconnecting(k)'
        BY <1>5, <1>4
    <2>4. ASSUME NEW j \in Threads
          PROVE  IF Disconnecting(j)' THEN EndOf(call'[j].todo, Disconnect) ELSE ~ Has(call'[j].todo, Ending)
        <3>1. CASE j = k
            BY <2>2, <2>3, <3>1
        <3>2. CASE j # k
            <4>1. call'[j] = call[j]
                BY <1>2, <3>2 DEF Moves
            <4> QED
                BY <1>0, <4>1 DEF OneDisconnect, Disconnecting
        <3> QED
            BY <3>1, <3>2
    <2>5. \A j, l \in Threads : Disconnecting(j)' /\ Disconnecting(l)' => j = l
        BY <1>0, <1>5 DEF OneDisconnect
    <2> QED
        BY <2>4, <2>5 DEF OneDisconnect
<1>8. HowFar'
    BY <1>0, <1>1, <1>5 DEF HowFar, ToGo
<1>9. Undisturbed'
    BY <1>1, <1>6 DEF Undisturbed
<1>10. QuietDisconnectIsSafe'
    BY <1>0, <1>1, <1>6 DEF QuietDisconnectIsSafe, HowFar
<1> QED
    BY <1>1, <1>3, <1>7, <1>8, <1>9, <1>10 DEF LifeInv

LEMMA EnterLives ==
    ASSUME LifeInv, NEW k \in Threads, Enter(k)
    PROVE  LifeInv'
<1>0. CallsWell /\ Types /\ OneDisconnect /\ HowFar /\ Undisturbed /\ QuietDisconnectIsSafe
    BY DEF LifeInv
<1>1. PICK op \in Calls :
         /\ CallsWell' /\ Opening(op, Exports[op])
         /\ \A j \in Threads \ {k} : call'[j] = call[j]
         /\ call'[k] = [NoCall EXCEPT !.op = op, !.todo = Exports[op]]
         /\ inMap' = (op # "MxDisconnect")
         /\ calm' = (inMap' \/ (~ stray /\ e2ee # "lost" /\ \A o \in Threads \ {k} : ~ Under(o)))
    BY <1>0, EnterMoves
<1>2. call'[k].op = op /\ call'[k].todo = Exports[op]
    BY <1>1, NoCallWell DEF CallStates
<1>3. inMap /\ UNCHANGED <<cancelled, closed, loop, e2ee, stray, panicked>>
    BY DEF Enter, connVars
<1>4. ~ closed /\ ~ cancelled /\ calm /\ \A j \in Threads : ~ Disconnecting(j)
    BY <1>0, <1>3 DEF HowFar
<1>5. Types'
    BY <1>0, <1>1, <1>3 DEF Types
<1>6. \A j \in Threads \ {k} : ~ Disconnecting(j)' /\ ~ Has(call'[j].todo, Ending)
    BY <1>0, <1>1, <1>4 DEF OneDisconnect, Disconnecting
<1>7. Disconnecting(k)' <=> op = "MxDisconnect"
    BY <1>2 DEF Disconnecting
<1>8. IF op = "MxDisconnect" THEN call'[k].todo = Disconnect ELSE ~ Has(call'[k].todo, Ending)
    BY <1>1, <1>2 DEF Opening
<1>9. EndOf(Disconnect, Disconnect) /\ Len(Disconnect) = 4
    <2>1. Len(Disconnect) = 4
        BY Programs
    <2>2. \A i \in 1 .. 4 : 4 - 4 + i = i
        OBVIOUS
    <2> QED
        BY <2>1, <2>2 DEF EndOf
<1>10. OneDisconnect'
    BY <1>6, <1>7, <1>8, <1>9 DEF OneDisconnect
<1>11. HowFar'
    <2>1. ASSUME NEW j \in Threads, Disconnecting(j)'
          PROVE  ~ inMap' /\ (ToGo(j)' < 4 => cancelled') /\ (closed' => ToGo(j)' = 0)
        <3>1. j = k /\ op = "MxDisconnect" /\ ToGo(j)' = 4
            BY <1>6, <1>7, <1>8, <1>9, <2>1 DEF ToGo
        <3>2. ~ inMap'
            BY <1>1, <3>1
        <3>3. ~ closed' /\ ToGo(j)' >= 4
            BY <1>3, <1>4, <3>1
        <3> QED
            BY <3>1, <3>2, <3>3
    <2>2. inMap' => calm'
        BY <1>1
    <2> QED
        BY <1>3, <1>4, <2>1, <2>2 DEF HowFar
<1>12. Undisturbed'
    <2> SUFFICES ASSUME calm', ~ inMap'
                 PROVE  /\ \A j \in Threads : Under(j)' => Disconnecting(j)'
                        /\ ~ stray' /\ e2ee' # "lost" /\ ~ closed'
                        /\ \A j \in Threads : Disconnecting(j)' => ~ (ToGo(j)' <= 2) /\ ~ (ToGo(j)' <= 1)
        BY DEF Undisturbed
    <2>1. op = "MxDisconnect" /\ ~ stray /\ e2ee # "lost" /\ \A o \in Threads \ {k} : ~ Under(o)
        BY <1>1
    <2>2. \A j \in Threads \ {k} : ~ Under(j)'
        BY <1>1, <2>1 DEF Under
    <2>3. ToGo(k)' = 4
        BY <1>8, <1>9, <2>1 DEF ToGo
    <2> QED
        BY <1>3, <1>4, <1>6, <1>7, <2>1, <2>2, <2>3
<1>13. QuietDisconnectIsSafe'
    BY <1>0, <1>3, <1>4 DEF QuietDisconnectIsSafe
<1> QED
    BY <1>1, <1>5, <1>10, <1>11, <1>12, <1>13 DEF LifeInv

LEMMA ReturnLives ==
    ASSUME LifeInv, NEW k \in Threads, Return(k)
    PROVE  LifeInv'
<1>0. CallsWell /\ Types /\ OneDisconnect /\ HowFar /\ Undisturbed /\ QuietDisconnectIsSafe
    BY DEF LifeInv
<1>1. CallsWell' /\ (\A j \in Threads \ {k} : call'[j] = call[j]) /\ call'[k] = NoCall
    BY <1>0, ReturnMoves
<1>2. UNCHANGED <<inMap, cancelled, closed, loop, e2ee, stray, calm, panicked>>
    BY DEF Return, clientVars, connVars
<1>3. ~ Disconnecting(k)' /\ ~ Under(k)' /\ ~ Has(call'[k].todo, Ending)
    BY <1>1, NoCallWell, Programs DEF Disconnecting, Under, Has
<1>4. \A j \in Threads : Disconnecting(j)' => j # k /\ Disconnecting(j) /\ call'[j] = call[j]
    BY <1>1, <1>3 DEF Disconnecting
<1>5. OneDisconnect'
    <2>1. ASSUME NEW j \in Threads
          PROVE  IF Disconnecting(j)' THEN EndOf(call'[j].todo, Disconnect) ELSE ~ Has(call'[j].todo, Ending)
        BY <1>0, <1>1, <1>3 DEF OneDisconnect, Disconnecting
    <2> QED
        BY <1>0, <1>4, <2>1 DEF OneDisconnect
<1>6. HowFar'
    BY <1>0, <1>2, <1>4 DEF HowFar, ToGo
<1>7. Undisturbed'
    <2> SUFFICES ASSUME calm', ~ inMap'
                 PROVE  /\ \A j \in Threads : Under(j)' => Disconnecting(j)'
                        /\ ~ stray' /\ e2ee' # "lost"
                        /\ closed' => loop' = "off" /\ e2ee' # "up"
                        /\ \A j \in Threads : Disconnecting(j)' => /\ ToGo(j)' <= 2 => e2ee' # "up"
                                                                   /\ ToGo(j)' <= 1 => loop' = "off"
        BY DEF Undisturbed
    <2>1. \A j \in Threads : Under(j)' => Disconnecting(j)'
        BY <1>0, <1>1, <1>2, <1>3 DEF Undisturbed, Under, Disconnecting
    <2> QED
        BY <1>0, <1>2, <1>4, <2>1 DEF Undisturbed, ToGo
<1>8. QuietDisconnectIsSafe'
    BY <1>0, <1>2 DEF QuietDisconnectIsSafe
<1>9. Types'
    BY <1>0, <1>2 DEF Types
<1> QED
    BY <1>1, <1>5, <1>6, <1>7, <1>8, <1>9 DEF LifeInv

\* What the four steps do.
LEMMA DisconnectDoes ==
    ASSUME LifeInv, NEW k \in Threads, DisconnectStep(k)
    PROVE  /\ Types' /\ Disconnecting(k) /\ UNCHANGED inMap
           /\ LET n == Len(call[k].todo)
              IN \/ /\ n = 4 /\ cancelled' /\ loop' = IF loop = "on" THEN "stopping" ELSE loop
                    /\ UNCHANGED <<closed, e2ee, stray, calm, panicked>>
                 \/ /\ n = 3 /\ UNCHANGED <<cancelled, closed, loop, panicked>>
                    /\ IF e2ee = "up" THEN e2ee' = "made" ELSE UNCHANGED e2ee
                    /\ UNCHANGED <<stray, calm>> \/ ~ calm'
                 \/ /\ n = 2 /\ calm' = (calm /\ loop = "off")
                    /\ UNCHANGED <<cancelled, closed, loop, e2ee, stray, panicked>>
                 \/ /\ n = 1 /\ closed' /\ UNCHANGED <<cancelled, loop, e2ee, stray, calm, panicked>>
<1>0. CallsWell /\ Types /\ OneDisconnect /\ HowFar
    BY DEF LifeInv
<1>1. call[k].todo \in Seq(Words) /\ call[k].todo # << >> /\ Head(call[k].todo) \in Ending
    BY <1>0 DEF CallsWell, CallStates, DisconnectStep, Cancel, Drop, StopLoop, Close, At, Ending
<1>2. Disconnecting(k) /\ EndOf(call[k].todo, Disconnect)
    <2>1. Has(call[k].todo, Ending)
        BY <1>1, TailOf DEF Has
    <2> QED
        BY <1>0, <2>1 DEF OneDisconnect
<1>3. /\ Head(call[k].todo) = "cancel" => Len(call[k].todo) = 4
      /\ Head(call[k].todo) = "drop" => Len(call[k].todo) = 3
      /\ Head(call[k].todo) = "stop" => Len(call[k].todo) = 2
      /\ Head(call[k].todo) = "close" => Len(call[k].todo) = 1
    BY <1>1, <1>2, EndOfDisconnect
<1>4. CASE Cancel(k)
    BY <1>0, <1>2, <1>3, <1>4 DEF Cancel, At, Types
<1>5. CASE Drop(k)
    BY <1>0, <1>2, <1>3, <1>5 DEF Drop, At, Types, clientVars
<1>6. CASE StopLoop(k)
    BY <1>0, <1>2, <1>3, <1>6 DEF StopLoop, At, Types, clientVars, connVars
<1>7. CASE Close(k)
    <2>1. Len(call[k].todo) = 1
        BY <1>3, <1>7 DEF Close, At
    <2>2. ~ closed
        BY <1>0, <1>2, <2>1 DEF HowFar, ToGo
    <2> QED
        BY <1>0, <1>2, <1>7, <2>1, <2>2 DEF Close, Types, connVars
<1> QED
    BY <1>4, <1>5, <1>6, <1>7, Zenon DEF DisconnectStep

LEMMA DisconnectLives ==
    ASSUME LifeInv, NEW k \in Threads, DisconnectStep(k)
    PROVE  LifeInv'
<1> DEFINE n == Len(call[k].todo)
<1>0. CallsWell /\ Types /\ OneDisconnect /\ HowFar /\ Undisturbed /\ QuietDisconnectIsSafe
    BY DEF LifeInv
<1>1. /\ Types' /\ Disconnecting(k) /\ UNCHANGED inMap
      /\ \/ /\ n = 4 /\ cancelled' /\ loop' = IF loop = "on" THEN "stopping" ELSE loop
            /\ UNCHANGED <<closed, e2ee, stray, calm, panicked>>
         \/ /\ n = 3 /\ UNCHANGED <<cancelled, closed, loop, panicked>>
            /\ IF e2ee = "up" THEN e2ee' = "made" ELSE UNCHANGED e2ee
            /\ UNCHANGED <<stray, calm>> \/ ~ calm'
         \/ /\ n = 2 /\ calm' = (calm /\ loop = "off")
            /\ UNCHANGED <<cancelled, closed, loop, e2ee, stray, panicked>>
         \/ /\ n = 1 /\ closed' /\ UNCHANGED <<cancelled, loop, e2ee, stray, calm, panicked>>
    BY DisconnectDoes
<1>2. Moves(k) /\ call[k].todo # << >> /\ call'[k].todo = Tail(call[k].todo)
    BY <1>0, DisconnectMoves
<1>3. call[k].todo \in Seq(Words) /\ CallsWell' /\ EndOf(call[k].todo, Disconnect)
    BY <1>0, <1>1, <1>2 DEF CallsWell, CallStates, Moves, OneDisconnect
<1>4. n \in Nat \ {0} /\ Len(call'[k].todo) = n - 1 /\ EndOf(call'[k].todo, Disconnect)
    BY <1>2, <1>3, EndOfDisconnect, TailOf
<1> HIDE DEF n
<1>5. \A j \in Threads : (Disconnecting(j)' <=> Disconnecting(j)) /\ (Disconnecting(j) <=> j = k)
    BY <1>0, <1>1, <1>2 DEF OneDisconnect, Moves, Disconnecting
<1>6. OneDisconnect'
    <2>1. ASSUME NEW j \in Threads
          PROVE  IF Disconnecting(j)' THEN EndOf(call'[j].todo, Disconnect) ELSE ~ Has(call'[j].todo, Ending)
        <3>1. CASE j = k
            BY <1>4, <1>5, <3>1
        <3>2. CASE j # k
            <4>1. call'[j] = call[j] /\ ~ Disconnecting(j)
                BY <1>2, <1>5, <3>2 DEF Moves
            <4> QED
                BY <1>0, <1>5, <4>1 DEF OneDisconnect
        <3> QED
            BY <3>1, <3>2
    <2> QED
        BY <1>5, <2>1 DEF OneDisconnect
<1>7. /\ ~ inMap /\ (n < 4 => cancelled) /\ ~ closed
      /\ closed => cancelled
      /\ cancelled => loop # "on"
    BY <1>0, <1>1, <1>4 DEF HowFar, ToGo, n
<1>8. cancelled' /\ loop' # "on" /\ (closed' => n - 1 = 0) /\ (panicked' = panicked) /\ ~ inMap'
    BY <1>0, <1>1, <1>4, <1>7 DEF Types
<1>9. HowFar'
    BY <1>4, <1>5, <1>8 DEF HowFar, ToGo
<1>10. Undisturbed'
    <2> SUFFICES ASSUME calm'
                 PROVE  /\ \A j \in Threads : Under(j)' => Disconnecting(j)'
                        /\ ~ stray' /\ e2ee' # "lost"
                        /\ closed' => loop' = "off" /\ e2ee' # "up"
                        /\ n - 1 <= 2 => e2ee' # "up"
                        /\ n - 1 <= 1 => loop' = "off"
        BY <1>4, <1>5 DEF Undisturbed, ToGo
    <2>1. calm
        BY <1>0, <1>1 DEF Types
    <2>2. /\ ~ stray /\ e2ee # "lost" /\ (n <= 2 => e2ee # "up") /\ (n <= 1 => loop = "off")
          /\ \A j \in Threads : Under(j) => Disconnecting(j)
        BY <1>0, <1>1, <1>7, <2>1 DEF Undisturbed, ToGo, n
    <2>3. ASSUME NEW j \in Threads, Under(j)' PROVE Disconnecting(j)'
        BY <1>2, <1>5, <2>2, <2>3 DEF Under, Moves
    <2>4. ~ stray' /\ e2ee' # "lost"
        <3>1. CASE n = 3 /\ (IF e2ee = "up" THEN e2ee' = "made" ELSE UNCHANGED e2ee)
                   /\ (UNCHANGED <<stray, calm>> \/ ~ calm')
            BY <2>2, <3>1
        <3>2. CASE UNCHANGED e2ee /\ UNCHANGED stray
            BY <2>2, <3>2
        <3> QED
            BY <1>1, <3>1, <3>2
    <2>5. closed' => n = 1
        BY <1>1, <1>7
    <2>6. /\ n <= 1 => loop' = "off"
          /\ n <= 2 => e2ee' # "up"
        <3> SUFFICES ASSUME n = 1 \/ n = 2 PROVE UNCHANGED loop /\ UNCHANGED e2ee
            BY <1>4, <2>2
        <3>1. n \notin {3, 4}
            OBVIOUS
        <3> QED
            BY <1>1, <3>1, Zenon
    <2>7. n = 2 => loop' = "off"
        <3> SUFFICES ASSUME n = 2 PROVE loop' = "off"
            OBVIOUS
        <3>1. n \notin {1, 3, 4}
            OBVIOUS
        <3> QED
            BY <1>1, <3>1, Zenon
    <2>8. n = 3 => e2ee' # "up"
        BY <1>1, <1>4
    <2>9. (n - 1 <= 2 => n <= 2 \/ n = 3) /\ (n - 1 <= 1 => n <= 1 \/ n = 2) /\ (n = 1 => n <= 1 /\ n <= 2)
        BY <1>4
    <2> QED
        BY <2>3, <2>4, <2>5, <2>6, <2>7, <2>8, <2>9, Zenon
<1>11. QuietDisconnectIsSafe'
    <2>1. panicked' = "emit" => ~ calm
        BY <1>0, <1>8 DEF QuietDisconnectIsSafe
    <2>2. calm' => calm
        BY <1>0, <1>1 DEF Types
    <2> QED
        BY <1>0, <1>8, <2>1, <2>2 DEF QuietDisconnectIsSafe
<1> QED
    BY <1>1, <1>3, <1>6, <1>9, <1>10, <1>11 DEF LifeInv

\* The connections stop of themselves and do not begin again.
LEMMA RunningLives ==
    ASSUME LifeInv, LoopRuns \/ LoopStops \/ E2EERuns \/ StrayRuns \/ UNCHANGED bridgeVars
    PROVE  LifeInv'
<1>0. CallsWell /\ Types /\ OneDisconnect /\ HowFar /\ Undisturbed /\ QuietDisconnectIsSafe
    BY DEF LifeInv
<1>1. UNCHANGED call /\ UNCHANGED <<inMap, cancelled, closed>>
    BY DEF LoopRuns, LoopStops, E2EERuns, StrayRuns, bridgeVars, clientVars
<1>2. CallsWell' /\ OneDisconnect'
    BY <1>0, <1>1 DEF CallsWell, OneDisconnect, Disconnecting
<1>3. /\ Types' /\ loop' \in {loop, "off"} /\ UNCHANGED stray
      /\ e2ee' = e2ee \/ e2ee \in {"up", "lost"}
      /\ calm' => calm /\ (e2ee' = e2ee \/ inMap \/ e2ee' = "up")
      /\ inMap => calm' = calm
      /\ \/ panicked' = panicked
         \/ /\ panicked' = "emit" /\ closed
            /\ loop # "off" \/ e2ee \in {"up", "lost"} \/ stray
    BY <1>0 DEF Types, LoopRuns, LoopStops, E2EERuns, StrayRuns, bridgeVars, clientVars, connVars, Emits
<1>4. HowFar'
    BY <1>0, <1>1, <1>3 DEF HowFar, Disconnecting, ToGo, Types
<1>5. Undisturbed'
    BY <1>0, <1>1, <1>3 DEF Undisturbed, Disconnecting, ToGo, Under
<1>6. QuietDisconnectIsSafe'
    BY <1>0, <1>3 DEF QuietDisconnectIsSafe, HowFar, Undisturbed
<1> QED
    BY <1>2, <1>3, <1>4, <1>5, <1>6 DEF LifeInv

LEMMA LifeInvariant == Spec => []LifeInv
<1>1. Init => LifeInv
    <2> SUFFICES ASSUME Init PROVE LifeInv
        OBVIOUS
    <2>1. CallsWell /\ \A k \in Threads : call[k] = NoCall
        BY NoCallWell DEF Init, CallsWell
    <2>2. \A k \in Threads : ~ Disconnecting(k) /\ ~ Has(call[k].todo, Ending)
        BY <2>1, NoCallWell, Programs DEF Disconnecting, Has
    <2> QED
        BY <2>1, <2>2 DEF Init, LifeInv, Types, OneDisconnect, HowFar, Undisturbed, QuietDisconnectIsSafe
<1>2. LifeInv /\ [Next]_bridgeVars => LifeInv'
    BY EnterLives, ReturnLives, StepLives, DisconnectLives, RunningLives, Zenon DEF Next
<1> QED
    BY <1>1, <1>2, PTL DEF Spec

\* A disconnect that nothing races is safe, whatever came before it, and the
\* channel is closed once whatever races it (MxDisconnect and Client.Disconnect).
THEOREM ADisconnectIsSafe == Spec => []BridgeInv
<1>1. LifeInv => BridgeInv
    <2> SUFFICES ASSUME LifeInv PROVE BridgeInv
        OBVIOUS
    <2>0. CallsWell /\ Types /\ OneDisconnect /\ HowFar /\ QuietDisconnectIsSafe
        BY DEF LifeInv
    <2>1. BridgeTypeOK
        BY <2>0 DEF CallsWell, CallStates, Types, BridgeTypeOK
    <2>2. Cardinality({k \in Threads : call[k].op = "MxDisconnect"}) =< 1
        <3> DEFINE D == {k \in Threads : call[k].op = "MxDisconnect"}
        <3>1. D = {} \/ \E k \in D : D = {k}
            BY <2>0 DEF OneDisconnect, Disconnecting
        <3>2. Cardinality(D) = 0 \/ Cardinality(D) = 1
            BY <3>1, FS_EmptySet, FS_Singleton
        <3> QED
            BY <3>2
    <2> QED
        BY <2>0, <2>1, <2>2 DEF BridgeInv, DisconnectInOrder, HowFar
<1> QED
    BY <1>1, LifeInvariant, PTL
=============================================================================
