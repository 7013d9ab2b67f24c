--------------------------- MODULE MCChatContext ---------------------------
(***************************************************************************)
(* Two messages to the bot in one thread, the first of them stamped late,   *)
(* and between or after them one that the AI does not answer from the       *)
(* context; and one message in another thread.  A prompt holds two          *)
(* messages, and the cache one thread, so that the threads push each other  *)
(* out.                                                                     *)
(***************************************************************************)
EXTENDS ChatContext, TLC

CONSTANTS t1, t2, m1, m2, m3, m4

MCThreads == {t1, t2}
MCMsgs    == {m1, m2, m3, m4}
MCKinds   == m1 :> {"chat"} @@ m2 :> {"chat"} @@ m3 :> {"other", "question"} @@ m4 :> {"chat"}
MCHome    == m1 :> t1 @@ m2 :> t1 @@ m3 :> t1 @@ m4 :> t2
MCStamp   == m1 :> 2 @@ m2 :> 1 @@ m3 :> 3 @@ m4 :> 4
=============================================================================
