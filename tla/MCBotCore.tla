----------------------------- MODULE MCBotCore -----------------------------
(***************************************************************************)
(* Three deliveries of two messages: d1 and d2 are one command by alice and *)
(* its redelivery, d3 is plain text by bob.  One handler at a time, so that *)
(* backpressure, redelivery and the lookups of both profiles meet.          *)
(***************************************************************************)
EXTENDS BotCore, TLC

CONSTANTS d1, d2, d3, m1, m2, alice, bob, bot

MCEvents   == {d1, d2, d3}
MCIds      == {m1, m2}
MCUsers    == {alice, bob}
MCIdOf     == d1 :> m1 @@ d2 :> m1 @@ d3 :> m2
MCSenderOf == d1 :> alice @@ d2 :> alice @@ d3 :> bob
MCMatches  == d1 :> {Command, Chat} @@ d2 :> {Command, Chat} @@ d3 :> {Chat}

\* Without the redelivery, for the violation that needs none.
PairEvents   == {d1, d3}
PairIdOf     == [e \in PairEvents |-> MCIdOf[e]]
PairSenderOf == [e \in PairEvents |-> MCSenderOf[e]]
PairMatches  == d1 :> {Command, Chat} @@ d3 :> {Chat}

\* One sender, who writes twice and sends a media link, for the run with database
\* faults; the cache then holds one id and wraps.
SoloUsers    == {alice}
SoloSenderOf == [e \in MCEvents |-> alice]
SoloMatches  == d1 :> {Chat} @@ d2 :> {Chat} @@ d3 :> {Media}
=============================================================================
