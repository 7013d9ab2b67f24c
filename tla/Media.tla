-------------------------------- MODULE Media --------------------------------
(***************************************************************************)
(* What the connector makes of a plain message (ToMatrix of                  *)
(* pkg/msgconv/from-meta.go), and how its media are had later when they are  *)
(* left where they are (pkg/connector/directmedia.go): each piece of the     *)
(* message gets an id, the link to a medium names the id of its piece, and   *)
(* who follows the link is given what stands in the database under that id.  *)
(* The addresses kept there expire; several downloads may renew them at once.*)
(***************************************************************************)
EXTENDS Lists, SequencesExt, FiniteSets

CONSTANTS
    Letters,        \* the messages, see LetterShape
    Downloads,      \* who follows a link to a medium
    MaxAge,         \* how often the addresses of media expire
    MaxMishaps,     \* what goes wrong in one history
    ChunkSize       \* 1 MiB in the code

(* Blobs and attachments have a file, perhaps an address and perhaps an id   *)
(* ("mark"); shares a kind, perhaps a title and a page to go to besides.     *)
Places(l) == ({"blob"} \X DOMAIN l.blobs) \cup ({"attachment"} \X DOMAIN l.legacies)
               \cup ({"share"} \X DOMAIN l.shares) \cup ({"sticker"} \X DOMAIN l.stickers)

FileAt(l, p) == CASE p[1] = "blob" -> l.blobs[p[2]].file
                  [] p[1] = "attachment" -> l.legacies[p[2]].file
                  [] p[1] = "share" -> l.shares[p[2]].file
                  [] p[1] = "sticker" -> l.stickers[p[2]].file

FilesOf(l) == {FileAt(l, p) : p \in Places(l)}

LetterShape(l) ==
    /\ l.blobs \in Seq([file : FilesOf(l), url : BOOLEAN, mark : BOOLEAN])
    /\ l.legacies \in Seq([file : FilesOf(l), url : BOOLEAN, mark : BOOLEAN, once : BOOLEAN])
    /\ l.shares \in Seq([file : FilesOf(l), url : BOOLEAN, title : BOOLEAN, page : BOOLEAN,
                         kind : {"preview", "poll", "place", "livePlace", "profile", "post", "carousel",
                                 "story", "linkedStory", "other"}])
    /\ l.stickers \in Seq([file : FilesOf(l), url : BOOLEAN])
    /\ <<l.text, l.snippet, l.admin, l.unsent>> \in BOOLEAN \X BOOLEAN \X BOOLEAN \X BOOLEAN
    /\ l.size \in Nat

(* Files are told apart by their names; a blob that comes twice, the same to *)
(* the byte, is the same file.                                               *)
FilesApart(l) ==
    /\ \A p, q \in Places(l) :
         FileAt(l, p) = FileAt(l, q) =>
             p = q \/ (/\ p[1] = "blob" /\ q[1] = "blob"
                      /\ l.blobs[p[2]] = l.blobs[q[2]] /\ l.blobs[p[2]].mark)
    /\ "text" \notin FilesOf(l)

MediaAssumption == /\ \A l \in Letters : LetterShape(l) /\ FilesApart(l)
                   /\ MaxAge \in Nat /\ MaxMishaps \in Nat /\ ChunkSize \in Nat \ {0}
ASSUME MediaAssumption

VARIABLES
    letter,     \* the message
    direct,     \* MsgConv.DirectMedia: media are not copied
    bad,        \* the files that cannot be transferred
    fetched,    \* the shares whose post or story Instagram gives
    pieces,     \* the parts of the message, and what the database keeps of them
    age,        \* how often the addresses have expired
    storyOver,  \* the story that was shared is gone, its author has others
    mishaps,    \* what has gone wrong so far
    asks,       \* [Downloads -> what each has come to]
    chunks      \* a video read in chunks: [off, held, got, over]

mediaVars == <<letter, direct, bad, fetched, pieces, age, storyOver, mishaps, asks, chunks>>

-----------------------------------------------------------------------------
(* ToMatrix. *)

Unnumbered == <<"none", 0>>
NoMeta == [url |-> <<"none", 0>>, by |-> "no medium", index |-> 0, expires |-> FALSE]
Renewable(url, by, index) == [url |-> url, by |-> by, index |-> index, expires |-> by = "messages"]

(* A piece: `of` is the file it is about, `place` the id it should have,     *)
(* `uri` the id its link names; `opens` where else it can be looked at.      *)
Piece(shows, of, place) == [shows |-> shows, of |-> of, place |-> place, id |-> Unnumbered,
                            uri |-> Unnumbered, meta |-> NoMeta, opens |-> "nowhere", caption |-> FALSE]

(* errorToNotice: it is marked as unsupported.                               *)
Notice(of, place) == [Piece("notice", of, place) EXCEPT !.opens = "thread"]

(* reuploadAttachment: with direct media nothing is transferred, and what is *)
(* needed to renew the address is kept.  Without an address, or when the     *)
(* transfer fails, a notice stands for it.                                   *)
Reuploaded(shows, a, place, by, index) ==
    IF ~ a.url \/ a.file \in bad THEN Notice(a.file, place)
    ELSE IF direct
         THEN [Piece(shows, a.file, place) EXCEPT !.id = place, !.uri = place,
                                                  !.meta = Renewable(<<a.file, 0>>, by, index)]
         ELSE Piece(shows, a.file, place)

(* A blob may come twice, the same to the byte, and is shown once; the next  *)
(* keep their numbers.                                                       *)
ShownBlobs(l) ==
    InOrder(Len(l.blobs),
            {i \in DOMAIN l.blobs : ~ l.blobs[i].mark \/ \A h \in 1 .. (i - 1) : l.blobs[h] # l.blobs[i]})

BlobPiece(l, i) == Reuploaded("media", l.blobs[i], <<"blob", i>>,
                         IF l.blobs[i].mark THEN "messages" ELSE "nothing", i)

(* What may be looked at only once is not shown (DisableViewOnce).           *)
LegacyPiece(l, i) ==
    LET a == l.legacies[i]
    IN  IF a.once THEN Piece("notice", a.file, <<"attachment", i>>)
        ELSE Reuploaded("media", a, <<"attachment", i>>, IF a.mark THEN "messages" ELSE "nothing", i)

StickerPiece(l, i) == Reuploaded("sticker", l.stickers[i], <<"sticker", i>>, "nothing", 0)

(* The thumb a Facebook user presses is shown as text, if it is all there is.*)
IsThumb(l) == Len(l.stickers) = 1 /\ l.stickers[1].file = "thumb"

(* fetchFullXMA, of what Instagram knows: the post, or of a carousel the     *)
(* picture that was shared; the story, from the list of its author's, only   *)
(* when it is among them; a story by its link.  What cannot be fetched is    *)
(* shown as the share itself has it.                                         *)
Fetchable == {"post", "carousel", "story", "linkedStory"}

FullShare(x, place) ==
    LET by == IF x.kind \in Fetchable /\ x.file \in fetched THEN x.kind ELSE "nothing"
    IN  [Reuploaded("media", x, place, by, 0) EXCEPT
            !.opens = IF @ = "nowhere" /\ x.kind \in Fetchable THEN "page" ELSE @]

(* xmaLocationToMatrix, xmaProfileShareToMatrix.                             *)
PlaceShare(x, place)   == Piece(IF x.kind = "place" THEN "location" ELSE "notice", x.file, place)
ProfileShare(x, place) == [Piece("text", x.file, place) EXCEPT !.opens = "page"]

(* A share without anything to show is its title.  Whatever is known of the  *)
(* page is told, if nothing better is.                                       *)
SharePiece(l, i) ==
    LET x == l.shares[i]
        place == <<"share", i>>
        shown == FullShare(x, place)
    IN  CASE x.kind \in {"place", "livePlace"} -> PlaceShare(x, place)
          [] x.kind = "profile" -> ProfileShare(x, place)
          [] x.kind \notin {"place", "livePlace", "profile"} /\ ~ x.url /\ x.title -> Piece("text", x.file, place)
          [] OTHER -> [shown EXCEPT !.opens = IF @ # "page" /\ x.page THEN "page" ELSE @]

(* Previews go with the text, polls are passed over.                         *)
ShownShares(l) == InOrder(Len(l.shares), {i \in DOMAIN l.shares : l.shares[i].kind \notin {"preview", "poll"}})
Previews(l) == {i \in DOMAIN l.shares : l.shares[i].kind = "preview"}

(* Where the pieces come from, in their order.                               *)
At(list, numbers) == [k \in DOMAIN numbers |-> <<list, numbers[k]>>]
Sources(l) ==
    At("blob", ShownBlobs(l)) \o At("attachment", InOrder(Len(l.legacies), Nat))
      \o At("share", ShownShares(l))
      \o IF IsThumb(l) THEN << >> ELSE At("sticker", InOrder(Len(l.stickers), Nat))

PieceOf(l, p) == CASE p[1] = "blob" -> BlobPiece(l, p[2])
                   [] p[1] = "attachment" -> LegacyPiece(l, p[2])
                   [] p[1] = "share" -> SharePiece(l, p[2])
                   [] p[1] = "sticker" -> StickerPiece(l, p[2])

Attached(l) == [k \in DOMAIN Sources(l) |-> PieceOf(l, Sources(l)[k])]

(* The text, with what it answers to; or the links of the previews.          *)
HasSnippet(l) == l.snippet /\ l.shares # << >> /\ Len(l.shares) # Cardinality(Previews(l))
TextPiece(l) ==
    IF l.text \/ IsThumb(l) \/ HasSnippet(l) \/ Previews(l) # {}
    THEN <<Piece(IF l.admin THEN "notice" ELSE "text", "text", Unnumbered)>>
    ELSE << >>

Unsupported == <<Notice("nothing", Unnumbered)>>

Numbered(ps) == [k \in DOMAIN ps |-> IF ps[k].id = Unnumbered THEN [ps[k] EXCEPT !.id = <<"part", k - 1>>]
                                     ELSE ps[k]]

(* MergeCaption of bridgev2: of two parts, a text becomes the caption of the *)
(* other, and the other takes the id of the text.                            *)
Captioned(ps) ==
    LET t == IF ps[2].shows = "text" THEN 2 ELSE 1
        o == 3 - t
    IN  IF Len(ps) = 2 /\ ps[t].shows = "text" /\ ps[o].shows \in {"media", "notice"}
        THEN <<[ps[o] EXCEPT !.id = ps[t].id, !.caption = TRUE]>>
        ELSE ps

(* A plausible slip: the merged part keeps the id of the text.               *)
WithCaptionOnly(ps) == IF Len(ps) = 2 THEN Captioned(ps) ELSE ps

(* The merged part gets the id of the first that was attached.               *)
WithCaption(ps) ==
    IF Len(ps) = 2 /\ Captioned(ps) # ps THEN <<[Captioned(ps)[1] EXCEPT !.id = ps[1].place]>> ELSE ps

ToMatrix(l) == LET ps == Attached(l) \o TextPiece(l)
               IN  IF l.unsent THEN << >>
                   ELSE WithCaption(Numbered(IF ps = << >> THEN Unsupported ELSE ps))

-----------------------------------------------------------------------------
(* Download. *)

Unasked(d) == asks[d].pc = "idle"
Come(d, pc) == asks' = [asks EXCEPT ![d].pc = pc]
Fail(d) == asks' = [asks EXCEPT ![d].pc = "done", ![d].said = "error"]
Give(d, file) == asks' = [asks EXCEPT ![d].pc = "done", ![d].said = "file", ![d].got = file]
Mishap == mishaps < MaxMishaps /\ mishaps' = mishaps + 1

Valid(url) == url[2] = age

stillVars == <<letter, direct, bad, fetched, chunks>>

(* A link is followed: its row is looked up by the id in it.                 *)
Look(d) ==
    /\ Unasked(d)
    /\ \E i \in DOMAIN pieces :
         /\ pieces[i].uri # Unnumbered
         /\ LET rows == {j \in DOMAIN pieces : pieces[j].id = pieces[i].uri /\ pieces[j].meta # NoMeta}
            IN  \/ /\ rows = {} /\ asks' = [asks EXCEPT ![d].pc = "done", ![d].said = "missing"]
                \/ \E j \in rows :
                     asks' = [asks EXCEPT ![d].pc = "get", ![d].row = j, ![d].of = pieces[i].of,
                                          ![d].info = pieces[j].meta, ![d].url = pieces[j].meta.url]
    /\ UNCHANGED <<stillVars, pieces, age, storyOver, mishaps>>

(* The address kept is tried first.  One that has expired is forbidden, and  *)
(* renewed; after another error it is renewed if it is known to expire now.  *)
Get(d) ==
    /\ asks[d].pc = "get"
    /\ \/ Valid(asks[d].url) /\ Give(d, asks[d].url[1]) /\ UNCHANGED mishaps
       \/ ~ Valid(asks[d].url) /\ Come(d, "renew") /\ UNCHANGED mishaps
       \/ /\ Mishap
          /\ \/ asks[d].info.expires /\ Come(d, "renew")
             \/ ~ asks[d].info.expires /\ Fail(d)
             \/ Valid(asks[d].url) /\ Fail(d)
    /\ UNCHANGED <<stillVars, pieces, age, storyOver>>

(* refreshMediaURL: with nothing to go by, when nobody is logged in, or when *)
(* the request fails, the first error stands; and also when the reel is      *)
(* empty, or the first item of the post has nothing to show by itself.       *)
Refuse(d) ==
    /\ asks[d].pc = "renew"
    /\ \/ asks[d].info.by \in {"nothing", "carousel"} /\ UNCHANGED mishaps
       \/ asks[d].info.by = "story" /\ storyOver /\ UNCHANGED mishaps
       \/ Mishap
    /\ Fail(d)
    /\ UNCHANGED <<stillVars, pieces, age, storyOver>>

(* refreshXMAMedia: the post is asked for again, and of a carousel whatever  *)
(* stands for the whole is taken; of the stories of an author the one that   *)
(* was shared, or else the first.                                            *)
Renewed(by, of) == CASE by = "carousel" -> {of, "another"}
                     [] by = "story" /\ storyOver -> {"another"}
                     [] OTHER -> {of}
Renew(d) ==
    /\ asks[d].pc = "renew" /\ asks[d].info.by \in Fetchable
    /\ \E file \in Renewed(asks[d].info.by, asks[d].of) :
         asks' = [asks EXCEPT ![d].pc = "again", ![d].url = <<file, age>>]
    /\ UNCHANGED <<stillVars, pieces, age, storyOver, mishaps>>

(* refreshBlobMedia fetches the messages of that time.  The blobs may come   *)
(* with a copy, or without the copy they had.                                *)
Resent(l) == LET once == [k \in DOMAIN ShownBlobs(l) |-> l.blobs[ShownBlobs(l)[k]]]
             IN  {l.blobs, once} \cup (IF once = << >> THEN {} ELSE {<<Head(once)>> \o once})
Refetch(d) ==
    /\ asks[d].pc = "renew" /\ asks[d].info.by = "messages"
    /\ \E blobs \in Resent(letter) :
         asks' = [asks EXCEPT ![d].pc = "rows", ![d].blobs = blobs, ![d].fresh = age]
    /\ UNCHANGED <<stillVars, pieces, age, storyOver, mishaps>>

ReadRows(d) == /\ asks[d].pc = "rows"
               /\ asks' = [asks EXCEPT ![d].pc = "update",
                                       ![d].rows = [i \in DOMAIN pieces |-> pieces[i].meta.url]]
               /\ UNCHANGED <<stillVars, pieces, age, storyOver, mishaps>>

(* The rows whose address has changed are updated.  If the one asked for is  *)
(* not among them, or could not be, the blob at its number is taken.         *)
Newer(d) == {i \in DOMAIN pieces : pieces[i].meta.by = "messages" /\ asks[d].rows[i][2] # asks[d].fresh}

UpdateRows(d) ==
    /\ asks[d].pc = "update"
    /\ \E updated \in {Newer(d), Newer(d) \ {asks[d].row}} :
         /\ IF updated = Newer(d) THEN UNCHANGED mishaps ELSE Mishap
         /\ pieces' = [i \in DOMAIN pieces |->
                         IF i \in updated THEN [pieces[i] EXCEPT !.meta.url = <<pieces[i].of, asks[d].fresh>>]
                         ELSE pieces[i]]
         /\ IF asks[d].row \in updated
            THEN asks' = [asks EXCEPT ![d].pc = "again", ![d].url = <<asks[d].of, asks[d].fresh>>]
            ELSE IF asks[d].info.index \in DOMAIN asks[d].blobs
            THEN asks' = [asks EXCEPT ![d].pc = "again",
                                      ![d].url = <<asks[d].blobs[asks[d].info.index].file, asks[d].fresh>>]
            ELSE Fail(d)
    /\ UNCHANGED <<stillVars, age, storyOver>>

GetAgain(d) ==
    /\ asks[d].pc = "again"
    /\ \/ Valid(asks[d].url) /\ Give(d, asks[d].url[1]) /\ UNCHANGED mishaps
       \/ ~ Valid(asks[d].url) /\ Fail(d) /\ UNCHANGED mishaps
       \/ Mishap /\ Fail(d)
    /\ UNCHANGED <<stillVars, pieces, age, storyOver>>

Expire == /\ age < MaxAge /\ age' = age + 1
          /\ UNCHANGED <<stillVars, pieces, storyOver, mishaps, asks>>
StoryEnds == /\ ~ storyOver /\ storyOver' = TRUE
             /\ UNCHANGED <<stillVars, pieces, age, mishaps, asks>>

-----------------------------------------------------------------------------
(* A video that is redirected to the server of large videos is read a chunk  *)
(* at a time (chunkedVideoDownloader).                                       *)

OpenChunk ==
    /\ chunks.held = << >> /\ ~ chunks.over /\ chunks.off < letter.size
    /\ LET last == chunks.off + ChunkSize - 1
           end  == IF last > letter.size THEN letter.size - 1 ELSE last
           here == IF end < letter.size THEN end ELSE letter.size - 1
       IN  chunks' = [chunks EXCEPT !.held = [k \in 1 .. (here + 1 - chunks.off) |-> chunks.off + k - 1],
                                    !.off = end + 1]
    /\ UNCHANGED <<letter, direct, bad, fetched, pieces, age, storyOver, mishaps, asks>>

(* At the end of a chunk the next is asked for, or the video is over.        *)
ReadChunk ==
    /\ chunks.held # << >>
    /\ chunks' = [chunks EXCEPT !.got = @ \o chunks.held, !.held = << >>,
                                !.over = chunks.off >= letter.size]
    /\ UNCHANGED <<letter, direct, bad, fetched, pieces, age, storyOver, mishaps, asks>>

-----------------------------------------------------------------------------
MediaInit ==
    /\ letter \in Letters /\ direct \in BOOLEAN
    /\ bad \in SUBSET FilesOf(letter)
    /\ fetched \in SUBSET {letter.shares[i].file : i \in DOMAIN letter.shares}
    /\ pieces = ToMatrix(letter)
    /\ age = 0 /\ storyOver = FALSE /\ mishaps = 0
    /\ asks = [d \in Downloads |-> [pc |-> "idle", said |-> "nothing", got |-> "none", row |-> 0, of |-> "none",
                                    info |-> NoMeta, url |-> <<"none", 0>>, blobs |-> << >>,
                                    fresh |-> 0, rows |-> << >>]]
    /\ chunks = [off |-> 0, held |-> << >>, got |-> << >>, over |-> letter.size = 0]

MediaNext ==
    \/ \E d \in Downloads : Look(d) \/ Get(d) \/ Refuse(d) \/ Renew(d) \/ Refetch(d) \/ ReadRows(d)
                            \/ UpdateRows(d) \/ GetAgain(d)
    \/ Expire \/ StoryEnds \/ OpenChunk \/ ReadChunk

MediaSpec == MediaInit /\ [][MediaNext]_mediaVars

-----------------------------------------------------------------------------
(* Of two parts the first, a share shown as text, becomes the caption.       *)
ShareIsCaption(l) == LET ps == Attached(l) \o TextPiece(l)
                     IN  Len(ps) = 2 /\ ps[1].shows = "text" /\ ps[2].shows \in {"media", "notice"}

(* Not shown on purpose, and without a word of where it could be seen.       *)
Withheld(l) == {l.legacies[i].file : i \in {h \in DOMAIN l.legacies : l.legacies[h].once}}
               \cup {l.shares[i].file : i \in {h \in DOMAIN l.shares : l.shares[h].kind = "livePlace"}}
               \cup {"text"}

(* Every piece of a message is there, once, under an id of its own, and what *)
(* could not be shown says where it can be looked at.  A link to a medium    *)
(* leads to its own row, but for that of a share which was given the text of *)
(* another share as its caption: it is stored under the id of that one       *)
(* (ToMatrix).                                                               *)
PiecesStand ==
    ~ letter.unsent =>
      /\ \A i, j \in DOMAIN pieces : pieces[i].id = pieces[j].id => i = j
      /\ \A k \in DOMAIN Attached(letter) :
           \/ Cardinality({i \in DOMAIN pieces : pieces[i].of = Attached(letter)[k].of}) = 1
           \/ Attached(letter)[k].shows = "text" /\ \E i \in DOMAIN pieces : pieces[i].caption
      /\ letter.text /\ ~ letter.admin =>
           \E i \in DOMAIN pieces : pieces[i].of = "text" \/ pieces[i].caption
      /\ \A i \in DOMAIN pieces :
           /\ pieces[i].shows = "notice" /\ pieces[i].of \notin Withheld(letter) => pieces[i].opens # "nowhere"
           /\ pieces[i].uri # Unnumbered =>
                \/ \E j \in DOMAIN pieces : pieces[j].id = pieces[i].uri /\ pieces[j].of = pieces[i].of
                \/ ShareIsCaption(letter)

(* The number of a blob or attachment does not lead to it in the messages    *)
(* fetched again: attachments are numbered apart from blobs, and copies of   *)
(* blobs come and go.  The number decides when another download has renewed  *)
(* the addresses of the message meanwhile.                                   *)
Misnumbered(d) == LET n == asks[d].info.index
                  IN  n \notin DOMAIN asks[d].blobs \/ asks[d].blobs[n].file # asks[d].of
Overtaken(d) == \E e \in Downloads \ {d} : asks[e].info.by = "messages" /\ asks[e].fresh >= asks[d].fresh

(* Who follows the link of a medium gets that medium.  Three exceptions: a   *)
(* picture of a carousel and a story that is over are renewed as another;    *)
(* and the number may be wrong where it decides.  Without a mishap, and      *)
(* unless the addresses expired once more meanwhile, what can be renewed is  *)
(* had, with the same exceptions (Download, refreshMediaURL).                *)
RightFile ==
    \A d \in Downloads :
      LET by == asks[d].info.by
          odd == \/ by = "carousel"
                 \/ by = "story" /\ storyOver
                 \/ by = "messages" /\ Misnumbered(d) /\ (Overtaken(d) \/ mishaps > 0)
      IN  /\ asks[d].said = "file" => asks[d].got = asks[d].of \/ odd
          /\ asks[d].said = "error" => odd \/ mishaps > 0 \/ age > 1 \/ by = "nothing"
          /\ asks[d].said = "missing" => ShareIsCaption(letter)

(* A video read in chunks is read from its start, without a gap or a repeat, *)
(* and is over when all of it was read.                                      *)
VideoWhole == /\ \A k \in DOMAIN chunks.got : chunks.got[k] = k - 1
              /\ chunks.over => Len(chunks.got) = letter.size

(* What was sent is shown, and can be had.                                   *)
MediaFound == PiecesStand /\ RightFile /\ VideoWhole
=============================================================================
