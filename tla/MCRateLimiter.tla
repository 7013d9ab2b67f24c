--------------------------- MODULE MCRateLimiter ---------------------------
(***************************************************************************)
(* Two parts of the bot without a process of their own, each run by itself. *)
(* The limiter: two handlers send through a bucket of two tokens that takes *)
(* one and a half ticks for a token, over several times the life of a       *)
(* bucket.  The ring: five ids in any order through a cache of three, which *)
(* evicts and wraps as long as the run goes on.                             *)
(***************************************************************************)
EXTENDS RateLimiter, DedupRing

CONSTANTS h1, h2, i1, i2, i3, i4, i5

VARIABLE part

TwoSenders == {h1, h2}
FiveIds    == {i1, i2, i3, i4, i5}

MCInit == LimiterInit /\ RingInit /\ part \in {"limiter", "ring"}

MCNext == /\ UNCHANGED part
          /\ \/ part = "limiter" /\ LimiterNext /\ UNCHANGED ringVars
             \/ part = "ring" /\ RingNext /\ UNCHANGED limiterVars

MCSpec == MCInit /\ [][MCNext]_<<part, limiterVars, ringVars>>
=============================================================================
