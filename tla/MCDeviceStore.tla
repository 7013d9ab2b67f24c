--------------------------- MODULE MCDeviceStore ---------------------------
(***************************************************************************)
(* What is stored and used again later, one thing at a time: the device of   *)
(* the bridge, with two saves under way at once, so that one can overtake or *)
(* cut off the other, two pre-keys, and crashes at every point; and the      *)
(* pieces of one message, whose addresses two downloads use and renew.       *)
(***************************************************************************)
EXTENDS DeviceStore, Media

CONSTANTS s1, s2, d1, d2

VARIABLE part       \* what this history is about; all else stays where it is

MCSavers == {s1, s2}

(* Messages without anything, with a text, with blobs, of which one may come *)
(* twice, attachments, shares of every kind, stickers, and a video.          *)
NoLetter == [blobs |-> << >>, legacies |-> << >>, shares |-> << >>, stickers |-> << >>,
             text |-> FALSE, snippet |-> FALSE, admin |-> FALSE, unsent |-> FALSE, size |-> 0]
ABlob(f)     == [file |-> f, url |-> TRUE, mark |-> TRUE]
ALegacy(f)   == [file |-> f, url |-> TRUE, mark |-> TRUE, once |-> FALSE]
AShare(f, k) == [file |-> f, url |-> TRUE, kind |-> k, title |-> TRUE, page |-> TRUE]
ATitle       == [file |-> "t", url |-> FALSE, kind |-> "other", title |-> TRUE, page |-> FALSE]

MCLetters ==
    {NoLetter,
     [NoLetter EXCEPT !.unsent = TRUE, !.blobs = <<ABlob("x")>>],
     [NoLetter EXCEPT !.admin = TRUE, !.text = TRUE],
     [NoLetter EXCEPT !.admin = TRUE, !.text = TRUE, !.shares = <<ATitle>>],
     [NoLetter EXCEPT !.stickers = <<[file |-> "thumb", url |-> TRUE]>>],
     [NoLetter EXCEPT !.blobs = <<ABlob("x")>>, !.text = TRUE],
     [NoLetter EXCEPT !.blobs = <<ABlob("x"), ABlob("x"), ABlob("y")>>],
     [NoLetter EXCEPT !.blobs = <<ABlob("x")>>, !.stickers = <<[file |-> "s", url |-> TRUE]>>],
     [NoLetter EXCEPT !.blobs = <<ABlob("x")>>, !.legacies = <<ALegacy("l")>>],
     [NoLetter EXCEPT !.legacies = <<[ALegacy("l") EXCEPT !.once = TRUE]>>, !.text = TRUE],
     [NoLetter EXCEPT !.shares = <<ATitle, AShare("p", "post")>>],
     [NoLetter EXCEPT !.shares = <<AShare("r", "profile"), AShare("c", "carousel")>>],
     [NoLetter EXCEPT !.shares = <<AShare("v", "preview"), AShare("q", "poll"), AShare("h", "story")>>,
                      !.text = TRUE],
     [NoLetter EXCEPT !.shares = <<AShare("k", "linkedStory")>>, !.snippet = TRUE],
     [NoLetter EXCEPT !.shares = <<AShare("g", "place"), AShare("o", "other"), AShare("i", "livePlace")>>],
     [NoLetter EXCEPT !.shares = <<AShare("v", "preview")>>]}
    \cup {[NoLetter EXCEPT !.size = n] : n \in 1 .. 7}

MCInit == /\ part \in {"device", "media"}
          /\ MediaInit /\ (part = "device" => letter = NoLetter /\ direct)
          /\ StoreInit

MCNext == /\ UNCHANGED part
          /\ \/ part = "device" /\ StoreNext /\ UNCHANGED mediaVars
             \/ part = "media" /\ MediaNext /\ UNCHANGED storeVars

MCSpec == MCInit /\ [][MCNext]_<<part, storeVars, mediaVars>>
=============================================================================
