------------------------------- MODULE Sealed -------------------------------
(***************************************************************************)
(* One end-to-end encrypted chat between people who each have several        *)
(* devices: the library of this repository (a bridge), the connector that    *)
(* the library's packages also make up (its messages come from, and go to,   *)
(* a Matrix room), and Messenger's own apps.  A message is sealed by the     *)
(* device that sends it and read by every other one, in any order and        *)
(* perhaps twice; that part is whatsmeow's.  Modelled is what each puts      *)
(* into a message and what it makes of one.                                  *)
(***************************************************************************)
EXTENDS Integers, Sequences, FiniteSets, SequencesExt

CONSTANTS Bridges, Connectors, Apps,  \* the devices
          UserOf,   \* whose they are
          NoUser,
          MaxAt,    \* bound on the time stamps of edits
          Bounded,  \* the bound Open and Room set to what is sent is kept
          MaxLog    \* by it, the messages of the chat

Devices == Bridges \cup Connectors \cup Apps
Readers == Bridges \cup Connectors
Users == {UserOf[d] : d \in Devices}

ASSUME SealedAssumption ==
    /\ UserOf \in [Devices -> Users] /\ \E a, b \in Users : a # b /\ Users = {a, b}
    /\ NoUser \notin Users /\ "group" \notin Users
    /\ Bridges \cap Connectors = {}
    /\ Bounded \in BOOLEAN /\ MaxLog \in Nat /\ MaxAt \in Nat \ {0}

VARIABLES chat,    \* "direct" or "group"
          log,     \* what was sent
          handed,  \* what each device was given to read
          known    \* the messages a connector's database has, by their ids

sealedVars == <<chat, log, handed, known>>

\* The chat, as a device names it: a group, or whom one talks to.
ChatOf(d) == IF chat = "group" THEN "group" ELSE CHOOSE u \in Users : u # UserOf[d]

NoQuote == [id |-> 0, participant |-> NoUser]
NoKey == [id |-> 0, fromMe |-> FALSE, participant |-> NoUser, remote |-> "none"]
NoCall == [action |-> "", native |-> ""]

\* A message: who sent it, what it holds, what it quotes and what it is about.  What was meant
\* by it is not part of it: as what, of which message, and with which words (history).
Blank == [by |-> "nobody", kind |-> "text", words |-> <<"">>, cta |-> NoCall, about |-> "none", sealedAs |-> "none",
          ptt |-> FALSE, quote |-> NoQuote, key |-> NoKey, at |-> 0, meant |-> "text", target |-> 0,
          said |-> ""]
Holding(kind, words) == [Blank EXCEPT !.kind = kind, !.words = words, !.meant = kind, !.said = words[1]]
Media(kind, as, caption) == [Holding(kind, <<caption>>) EXCEPT !.sealedAs = as]

Seen(d) == handed[d] \cup {i \in DOMAIN log : log[i].by = d}
Own(d) == {i \in DOMAIN log : log[i].by = d}
IsMessage(e) == e.kind \notin {"reaction", "edit", "revoke"}
MessagesIn(seen) == {i \in seen : IsMessage(log[i])}

Emojis == {"", "text"}     \* "" takes a reaction back
Stamps == 1 .. MaxAt
ReactionAbout(emoji, key, t) == [Holding("reaction", <<emoji>>) EXCEPT !.key = key, !.target = t]
EditAbout(at, key, t) == [Holding("edit", <<"text">>) EXCEPT !.key = key, !.target = t, !.at = at]
RemovalAbout(key, t) == [Holding("revoke", <<"">>) EXCEPT !.key = key, !.target = t]

ChatInit == /\ chat \in {"direct", "group"} /\ log = << >>
            /\ handed = [d \in Readers |-> {}]
            /\ known = [c \in Connectors |-> << >>]
-----------------------------------------------------------------------------
(* What a bridge sends. *)

SendText == {Holding("text", <<"text">>)}
SendE2EEImage == {Media("image", "image", caption) : caption \in {"", "text"}}
SendE2EEVideo == {Media("video", "video", caption) : caption \in {"", "text"}}
SendE2EEAudio == {[Media("audio", "audio", "") EXCEPT !.ptt = p, !.meant = IF p THEN "voice" ELSE "audio"] :
                     p \in BOOLEAN}
SendE2EEDocument == {[Media("document", "document", "") EXCEPT !.meant = "file"]}
SendE2EESticker == {Media("sticker", "image", "")}

FromBridge == SendText \cup SendE2EEImage \cup SendE2EEVideo \cup SendE2EEAudio
                \cup SendE2EEDocument \cup SendE2EESticker

\* Quoting a message takes its id; its sender may be left out.
QuotesOf(d) == {[id |-> t, participant |-> p] : t \in MessagesIn(Seen(d)), p \in Users}
BridgeQuotes(d) == {q \in QuotesOf(d) : q.participant = UserOf[log[q.id].by]}
                     \cup {[id |-> q.id, participant |-> NoUser] : q \in QuotesOf(d)}

\* BuildMessageKey, of whatsmeow: a message is one's own unless a sender says otherwise.
BuildMessageKey(d, sender, id) ==
    LET mine == sender \in {NoUser, UserOf[d]}
    IN [id |-> id, fromMe |-> mine, remote |-> ChatOf(d),
        participant |-> IF mine \/ chat = "direct" THEN NoUser ELSE sender]

SendE2EEReaction(d) ==
    {ReactionAbout(emoji, BuildMessageKey(d, UserOf[log[t].by], t), t) : emoji \in Emojis, t \in MessagesIn(Seen(d))}
EditE2EEMessage(d) == {EditAbout(at, BuildMessageKey(d, NoUser, t), t) : at \in Stamps, t \in MessagesIn(Own(d))}
UnsendE2EEMessage(d) == {RemovalAbout(BuildMessageKey(d, NoUser, t), t) : t \in MessagesIn(Own(d))}
-----------------------------------------------------------------------------
(* What a connector sends: an event of a Matrix room. *)

MatrixEvents == [type : {"text", "location"}, gif : {FALSE}, voice : {FALSE}, caption : {""}]
                  \cup [type : {"image"}, gif : BOOLEAN, voice : {FALSE}, caption : {"", "text"}]
                  \cup [type : {"audio"}, gif : {FALSE}, voice : BOOLEAN, caption : {"", "text"}]
                  \cup [type : {"video", "file", "sticker"}, gif : {FALSE}, voice : {FALSE}, caption : {"", "text"}]

\* Mutant: a sticker is left to the default.
StickersAsFiles(type) == CASE type = "image" -> "image" [] type \in {"video", "audio"} -> type
                           [] OTHER -> "document"

MsgToMediaType(type) == CASE type \in {"image", "sticker"} -> "image"
                          [] type \in {"video", "audio"} -> type
                          [] OTHER -> "document"

\* Where ffmpeg is installed a moving picture becomes a video before it is uploaded.
ReuploadMediaToWhatsApp(evt, ffmpeg) == IF evt.gif /\ ffmpeg THEN [evt EXCEPT !.type = "video"] ELSE evt

\* Only a picture and a video take their caption along.
WrapWhatsAppMedia(evt) ==
    CASE evt.type \in {"image", "video"} -> Media(evt.type, MsgToMediaType(evt.type), evt.caption)
      [] evt.type = "audio" -> [Media("audio", MsgToMediaType("audio"), "") EXCEPT !.ptt = evt.voice]
      [] evt.type = "sticker" -> Media("sticker", MsgToMediaType("sticker"), "")
      [] OTHER -> Media("document", MsgToMediaType("file"), "")

Meaning(evt) == CASE evt.gif -> "gif" [] evt.voice -> "voice" [] OTHER -> evt.type

\* A place goes as the bubble of a live location.
ToWhatsApp(evt, ffmpeg) ==
    CASE evt.type = "text" -> Holding("text", <<"text">>)
      [] evt.type = "location" ->
           [Holding("share", <<"", "title">>) EXCEPT
              !.cta = [action |-> "", native |-> "place"], !.about = "place", !.meant = "location"]
      [] OTHER -> [WrapWhatsAppMedia(ReuploadMediaToWhatsApp(evt, ffmpeg)) EXCEPT
                       !.meant = Meaning(evt), !.said = evt.caption]

FromConnector == {ToWhatsApp(evt, ffmpeg) : evt \in MatrixEvents, ffmpeg \in BOOLEAN}

\* The id a connector keeps a message under.
MakeWAMessageID(view, sender, id) == [chat |-> view, sender |-> sender, id |-> id]
IdOf(d, i) == MakeWAMessageID(ChatOf(d), UserOf[log[i].by], i)

ConnectorQuotes(d) == {[id |-> m.id, participant |-> m.sender] : m \in DOMAIN known[d]}

MessageIDToWAKey(d, m) ==
    [id |-> m.id, fromMe |-> m.sender = UserOf[d], remote |-> m.chat,
     participant |-> IF m.chat = "group" THEN m.sender ELSE NoUser]

HandleMatrixReaction(d) == {ReactionAbout("text", MessageIDToWAKey(d, m), m.id) : m \in DOMAIN known[d]}
HandleMatrixReactionRemove(d) == {ReactionAbout("", MessageIDToWAKey(d, m), m.id) : m \in DOMAIN known[d]}
Mine(d) == {m \in DOMAIN known[d] : m.sender = UserOf[d]}
HandleMatrixEdit(d) == {EditAbout(at, MessageIDToWAKey(d, m), m.id) : at \in Stamps, m \in Mine(d)}
HandleMatrixMessageRemove(d) == {RemovalAbout(MessageIDToWAKey(d, m), m.id) : m \in DOMAIN known[d]}
-----------------------------------------------------------------------------
(* What an app sends beside: of it the code only knows how to read it. *)

Links == {"", "text"} \X {"", "page"} \X {"", "page"}    \* the text, what of it matched, the page
Titles == {"", "text"} \X {"", "title"}
CallsToAct == [action : {"", "page", "redirect"}, native : {"", "page"}]

ExtendedTexts == {Holding("extended", words) : words \in Links}
SharedPosts == {[Holding("share", words) EXCEPT !.cta = cta] : words \in Titles, cta \in CallsToAct}
Searches == {[Holding("sear", <<"">>) EXCEPT !.cta.native = native] : native \in {"", "page"}}
Stills == {[Media("video", "video", "") EXCEPT !.about = "still", !.meant = "still"]}
ViewedOnce == {Media("viewOnce", as, "") : as \in {"image", "video"}}
OtherMessages == {Holding(kind, <<"">>) :
                    kind \in {"place", "livePlace", "contact", "storeSticker", "timer", "instagram"}}

FromApp == FromBridge \cup ExtendedTexts \cup SharedPosts \cup Searches \cup Stills \cup ViewedOnce
             \cup OtherMessages

BumpAbout(key, t) == [Holding("bump", <<"">>) EXCEPT !.key = key, !.target = t]
Bumps(d) == {BumpAbout(BuildMessageKey(d, UserOf[log[t].by], t), t) : t \in MessagesIn(DOMAIN log)}
AppQuotes == {[id |-> i, participant |-> UserOf[log[i].by]] : i \in MessagesIn(DOMAIN log)}
-----------------------------------------------------------------------------
(* What a bridge reads. *)

FirstOf(words) == LET given == {n \in DOMAIN words : words[n] # ""}
                  IN IF given = {} THEN "" ELSE words[CHOOSE n \in given : \A m \in given : n =< m]

\* The page behind a redirection.
ExtractURLFromLPHP(url) == IF url = "redirect" THEN "page" ELSE url
LinkOf(e) == FirstOf(<<ExtractURLFromLPHP(e.cta.action), e.cta.native>>)

ExtractE2EEText(e) ==
    CASE e.kind \in {"text", "extended", "image", "video"} -> FirstOf(e.words)
      [] e.kind = "share" -> FirstOf(e.words \o <<LinkOf(e)>>)
      [] e.kind = "sear" -> e.cta.native
      [] OTHER -> ""

Part(as, text, opens) == [as |-> as, text |-> text, opens |-> opens]
Worded(as, text) == IF text = "" THEN << >> ELSE <<Part(as, text, "none")>>
LinkPart(url) == Worded("link", url)

\* DownloadE2EEMedia: the kind of media, by the type of the attachment.
MediaTypeOf(type) == CASE type \in {"image", "video"} -> type
                       [] type \in {"audio", "voice"} -> "audio"
                       [] type = "sticker" -> "image"
                       [] OTHER -> "document"

ExtractE2EEImageAttachment == "image"
ExtractE2EEVideoAttachment == "video"
ExtractE2EEAudioAttachment(e) == IF e.ptt THEN "voice" ELSE "audio"
ExtractE2EEDocumentAttachment == "file"
ExtractE2EEStickerAttachment == "sticker"

Attachments(e) ==
    LET one(type) == <<Part(type, "", MediaTypeOf(type))>>
    IN CASE e.kind = "image" -> one(ExtractE2EEImageAttachment)
         [] e.kind = "video" -> one(ExtractE2EEVideoAttachment)
         [] e.kind = "audio" -> one(ExtractE2EEAudioAttachment(e))
         [] e.kind = "document" -> one(ExtractE2EEDocumentAttachment)
         [] e.kind \in {"sticker", "storeSticker"} -> one(ExtractE2EEStickerAttachment)
         [] e.kind = "place" -> <<Part("location", "", "none")>>
         [] e.kind = "extended" -> LinkPart(FirstOf(<<e.words[3], e.words[2]>>))
         [] e.kind = "share" -> LinkPart(LinkOf(e))
         [] e.kind = "sear" -> LinkPart(e.cta.native)
         [] OTHER -> << >>

NoReply == "none"
Report(type, target) == [type |-> type, text |-> "", parts |-> << >>, reply |-> NoReply, target |-> target]

\* The id and the sender, 0 when it is left out.
ExtractE2EEReplyTo(e) == IF e.quote = NoQuote THEN NoReply ELSE e.quote

ExtractE2EEReaction(e) == [Report("reaction", e.key.id) EXCEPT !.text = e.words[1]]
ExtractE2EEEditInfo(e) == [Report("edit", e.key.id) EXCEPT !.text = e.words[1]]
ExtractE2EERevokedMessage(e) == IF e.key.id = 0 THEN Report("nothing", 0) ELSE Report("remove", e.key.id)

\* handleE2EEEvent, for a message.  The bubble of a live location is passed over.
HandleE2EEEvent(e) ==
    CASE e.kind = "reaction" -> ExtractE2EEReaction(e)
      [] e.kind = "edit"     -> ExtractE2EEEditInfo(e)
      [] e.kind = "revoke"   -> ExtractE2EERevokedMessage(e)
      [] e.about = "place"   -> Report("nothing", 0)
      [] OTHER -> [Report("message", 0) EXCEPT !.text = ExtractE2EEText(e), !.parts = Attachments(e),
                                               !.reply = ExtractE2EEReplyTo(e)]
-----------------------------------------------------------------------------
(* What a connector reads. *)

\* Mutant: who wrote a message follows from who speaks of it.
SpeakerOf(d, e) == MakeWAMessageID(ChatOf(d), UserOf[e.by], e.key.id)

\* A key says whose a message is as seen by who sends the key.
WAKeyToMessageID(d, e) ==
    LET sender == IF e.key.fromMe THEN UserOf[e.by]
                  ELSE IF e.key.participant # NoUser THEN e.key.participant
                  ELSE IF UserOf[e.by] = UserOf[d] THEN ChatOf(d)
                  ELSE UserOf[d]
    IN IF ~e.key.fromMe /\ e.key.participant = NoUser /\ chat = "group" THEN NoReply
       ELSE MakeWAMessageID(IF e.key.remote = "group" THEN "group" ELSE ChatOf(d), sender, e.key.id)

\* A medium and its caption.  The medium is moved: downloaded, converted, uploaded again;
\* when one of these fails a notice stands in its place.
ConvertWhatsAppAttachment(media, caption, moved) ==
    <<IF moved THEN media ELSE Part("notice", "failed", "none")>> \o Worded("text", caption)

\* Every audio is taken for a voice message; some videos are pictures; a sticker
\* of the store stays there.
ConvertWhatsAppMedia(e, moved) ==
    LET kind == IF e.kind = "viewOnce" THEN e.sealedAs ELSE e.kind
        media == CASE kind = "image"    -> Part("image", "", "image")
                   [] kind = "sticker"  -> Part("sticker", "", "image")
                   [] kind = "document" -> Part("file", "", "document")
                   [] kind = "audio"    -> Part("voice", "", "audio")
                   [] OTHER -> Part(IF e.about = "still" THEN "image" ELSE "video", "", "video")
    IN IF e.kind = "storeSticker" THEN <<Part("notice", "unsupported", "none")>>
       ELSE ConvertWhatsAppAttachment(media, e.words[1], moved)

WAConsumerToMatrix(e, moved) ==
    CASE e.kind \in {"text", "extended"} -> <<Part("text", e.words[1], "none")>>
      [] e.kind \in {"place", "livePlace"} -> <<Part("location", "", "none")>>
      [] e.kind = "contact" -> <<Part("notice", "unsupported", "none")>>
      [] OTHER -> ConvertWhatsAppMedia(e, moved)

\* A place, or the words and the page they are about.
WAExtendedContentMessageToMatrix(e) ==
    IF e.cta.native = "place" THEN <<Part("location", "", "none")>>
    ELSE LET body == Worded("text", e.words[1]) \o Worded("text", e.cta.native)
         IN IF body = << >> THEN <<Part("notice", "unsupported", "none")>> ELSE body

WAArmadilloToMatrix(e) ==
    CASE e.kind = "share" -> WAExtendedContentMessageToMatrix(e)
      [] e.kind = "bump"  -> <<Part("text", "bumped", "none")>>
      [] OTHER -> <<Part("notice", "unsupported", "none")>>

\* The message a bump is about is replied to by the id of a quote it does not have.
ReplyOf(d, e) ==
    CASE e.quote # NoQuote -> MakeWAMessageID(ChatOf(d), e.quote.participant, e.quote.id)
      [] e.kind = "bump"   -> MakeWAMessageID(ChatOf(d), e.key.participant, 0)
      [] OTHER -> NoReply

WhatsAppToMatrix(d, e, moved) ==
    [Report("message", NoReply) EXCEPT
       !.parts = CASE e.kind \in {"share", "sear", "bump"} -> WAArmadilloToMatrix(e)
                   [] e.kind \in {"timer", "instagram"} -> <<Part("notice", e.kind, "none")>>
                   [] OTHER -> WAConsumerToMatrix(e, moved),
       !.reply = ReplyOf(d, e)]

EventType(e) == CASE e.kind = "reaction" -> IF e.words[1] = "" THEN "unreaction" ELSE "reaction"
                  [] e.kind = "edit" -> "edit"
                  [] e.kind = "revoke" -> "remove"
                  [] OTHER -> "message"

ReadEvent(d, e, moved) == IF EventType(e) = "message" THEN WhatsAppToMatrix(d, e, moved)
                          ELSE Report(EventType(e), WAKeyToMessageID(d, e))

\* A bridge names a medium, and moves none: that is a call of its user.
Reading(d, e, moved) == IF d \in Bridges THEN HandleE2EEEvent(e) ELSE ReadEvent(d, e, moved)

\* Mutant: the last edit read is taken for the newest.
LastEditWins(m, i) == [says |-> i, at |-> log[i].at]

\* An edit that is no newer than the last one is a duplicate.
ConvertEdit(m, i) == IF m.at >= log[i].at THEN m ELSE [says |-> i, at |-> log[i].at]

\* The messages of a connector after an event: a message that is known is not
\* stored again, and what is unknown is neither edited nor removed.
Remembered(d, i) ==
    LET e == log[i]
        m == IF IsMessage(e) THEN IdOf(d, i) ELSE WAKeyToMessageID(d, e)
        there == m \in DOMAIN known[d]
    IN CASE EventType(e) = "message" /\ ~there ->
              [k \in DOMAIN known[d] \cup {m} |-> IF k = m THEN [says |-> i, at |-> 0] ELSE known[d][k]]
         [] EventType(e) = "edit" /\ there -> [known[d] EXCEPT ![m] = ConvertEdit(@, i)]
         [] EventType(e) = "remove" /\ there -> [k \in DOMAIN known[d] \ {m} |-> known[d][k]]
         [] OTHER -> known[d]
-----------------------------------------------------------------------------
(* A bound: what is not plain text comes first, little follows it, and nothing  *)
(* follows but edits once there are two messages.                             *)
Rich(e) == IsMessage(e) /\ e.kind # "text"
Open == Len(log) < IF log # << >> /\ Rich(log[1]) THEN 2 ELSE MaxLog
Room(e) == /\ Rich(e) => log = << >> \/ e.kind = "bump"
           /\ Len(log) > 1 => e.kind = "edit"

Publish(d, messages) == \E e \in messages : /\ Bounded => Open /\ Room(e)
                                            /\ log' = Append(log, [e EXCEPT !.by = d])

Quoted(e, q) == [e EXCEPT !.quote = q, !.target = q.id]
Quoting(messages, quotes) == messages \cup {Quoted(e, q) : e \in messages, q \in quotes}

BridgeSends(d) == /\ \/ Publish(d, Quoting(FromBridge, BridgeQuotes(d)))
                     \/ Publish(d, SendE2EEReaction(d) \cup EditE2EEMessage(d) \cup UnsendE2EEMessage(d))
                  /\ UNCHANGED <<chat, handed, known>>

\* The connector keeps what it sent under the id it is answered with.
ConnectorSends(d) ==
    LET n == Len(log) + 1
    IN /\ \/ /\ Publish(d, Quoting(FromConnector, ConnectorQuotes(d)))
             /\ known' = [known EXCEPT ![d] =
                  [k \in DOMAIN @ \cup {MakeWAMessageID(ChatOf(d), UserOf[d], n)} |->
                     IF k.id = n THEN [says |-> n, at |-> 0] ELSE @[k]]]
          \/ Publish(d, HandleMatrixReaction(d) \cup HandleMatrixReactionRemove(d)) /\ UNCHANGED known
          \/ \E e \in HandleMatrixEdit(d) :
               /\ Publish(d, {e})
               /\ known' = [known EXCEPT ![d] =
                    [k \in DOMAIN @ |-> IF k.id = e.target THEN [says |-> n, at |-> e.at] ELSE @[k]]]
          \/ \E e \in HandleMatrixMessageRemove(d) :
               /\ Publish(d, {e})
               /\ known' = [known EXCEPT ![d] = [k \in {m \in DOMAIN @ : m.id # e.target} |-> @[k]]]
       /\ UNCHANGED <<chat, handed>>

AppSends(d) == Publish(d, Quoting(FromApp, AppQuotes) \cup Bumps(d)) /\ UNCHANGED <<chat, handed, known>>

\* Every device but the sender's gets a message, perhaps again.
Deliver(d, i) == /\ log[i].by # d
                 /\ handed' = [handed EXCEPT ![d] = @ \cup {i}]
                 /\ known' = IF d \in Connectors THEN [known EXCEPT ![d] = Remembered(d, i)] ELSE known
                 /\ UNCHANGED <<chat, log>>

ChatNext == \/ \E d \in Bridges : BridgeSends(d)
            \/ \E d \in Connectors : ConnectorSends(d)
            \/ \E d \in Apps : AppSends(d)
            \/ \E d \in Readers, i \in DOMAIN log : Deliver(d, i)
ChatSpec == ChatInit /\ [][ChatNext]_sealedVars
-----------------------------------------------------------------------------
(* Properties. *)

\* As what a medium may be shown.  The connector shows no audio but voice
\* messages; pictures in a video's clothes are up to the reader.
ShownAs == [image |-> {"image"}, gif |-> {"image", "video"}, still |-> {"image", "video"},
            video |-> {"video"}, voice |-> {"voice"}, audio |-> {"audio", "voice"},
            file |-> {"file"}, sticker |-> {"sticker"}, viewOnce |-> {"image", "video"}]

\* The media that have no caption: one that a connector's user writes to them stays behind
\* (ToWhatsApp makes it, wrapWhatsAppMedia passes it over).
Captionless == {"audio", "document", "sticker"}

\* How often a medium is shown as what it was sent as, and opens with the kind of key it
\* was sealed with; and how often it is said that there was one.
TimesShown(r, e) == Cardinality({n \in DOMAIN r.parts :
                       r.parts[n].as \in ShownAs[e.meant] /\ r.parts[n].opens = e.sealedAs})
TimesFailed(r) == Cardinality({n \in DOMAIN r.parts : r.parts[n] = Part("notice", "failed", "none")})

\* What one library sends the other reads: a medium as what it was sent as, once, or one
\* notice in its place where the connector could not move it; what was written with it,
\* moved or not, but to what is Captionless; the page of a link, never the redirection to it.
\* The bridge passes over a place sent by a connector, and shows nothing of what is to be
\* seen once.
ArrivesAsSent ==
    \A d \in Readers : \A i \in handed[d], moved \in BOOLEAN :
      LET e == log[i]
          r == Reading(d, e, moved)
          shows == moved \/ d \in Bridges
          words == {r.text} \cup {r.parts[n].text : n \in DOMAIN r.parts}
      IN IsMessage(e) =>
           /\ r.type = "message" \/ (d \in Bridges /\ e.meant = "location")
           /\ (e.sealedAs # "none" /\ ~(d \in Bridges /\ e.kind = "viewOnce")) =>
                /\ TimesShown(r, e) = IF shows THEN 1 ELSE 0
                /\ TimesFailed(r) = IF shows THEN 0 ELSE 1
           /\ (e.said # "" /\ r.type = "message" /\ e.kind \notin Captionless) => e.said \in words
           /\ d \in Connectors /\ e.meant = "location" => \E n \in DOMAIN r.parts : r.parts[n].as = "location"
           /\ "redirect" \notin words

\* A reaction, an edit, a removal and a reply are about the message their author
\* meant, under the id the reader has for it, whoever of the two wrote what and
\* from whichever device.  A reply whose sender was left out does not say whose
\* it is, and a connector does not find what is bumped.
RightTarget ==
    \A d \in Readers : \A i \in handed[d], moved \in BOOLEAN :
      LET e == log[i]
          r == Reading(d, e, moved)
          named(t) == IF d \in Bridges THEN t ELSE IdOf(d, t)
      IN /\ ~IsMessage(e) => r.target = named(e.target)
         /\ e.quote # NoQuote =>
              IF d \in Bridges
              THEN r.type = "message" => r.reply.id = e.target
              ELSE e.quote.participant # NoUser => r.reply = IdOf(d, e.target)

\* What a connector shows of a message never goes back to an older edit, and is
\* the newest of those it read since it knows the message, however edits overtake
\* one another, come twice, or come from one's own other device.  An edit that is
\* read before its message is lost.
NewestEditStands ==
    [][log' = log =>
         \A d \in Connectors : handed'[d] # handed[d] \/ known'[d] # known[d] =>
           \A m \in DOMAIN known[d] \cap DOMAIN known'[d] :
             LET was == known[d][m]
                 is  == known'[d][m]
                 edits(read) == {i \in read : log[i].kind = "edit" /\ log[i].target = m.id}
             IN /\ is.at >= was.at /\ (is.at = was.at => is = was)
                /\ \A i \in edits(handed'[d] \ handed[d]) : is.at >= log[i].at
                /\ is # was => is.says \in edits(handed'[d]) /\ log[is.says].at = is.at]_sealedVars
=============================================================================
