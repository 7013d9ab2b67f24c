---------------------------- MODULE RateLimiter ----------------------------
(***************************************************************************)
(* The token bucket in front of every rate-limited send (messenger.mjs,     *)
(* RateLimiter).  acquire() takes a token at once when the bucket holds one *)
(* and otherwise sleeps, once, for the time the missing fraction takes to   *)
(* come back.  Many handlers await the one bucket at the same time.         *)
(*                                                                         *)
(* Time advances in ticks.  Tokens are counted in fractions: a token is     *)
(* PerToken fractions, a tick brings Refill of them.  Timers run on the     *)
(* monotonic clock, the refill on Date.now(), which may be set back.        *)
(***************************************************************************)
EXTENDS Integers

CONSTANTS Senders,   \* handlers that send, each one message after another
          Everybody, \* all of them together, for the counts
          Burst,     \* ratePerSec, the size of the bucket in tokens
          PerToken,  \* fractions in a token
          Refill,    \* fractions per tick
          MaxTime,   \* bound: ticks of the monotonic clock
          MaxSkew    \* bound: how far the wall clock is ever set back

ASSUME LimiterAssumption == /\ Everybody \notin Senders
                            /\ Burst \in Nat \ {0} /\ PerToken \in Nat \ {0}
                            /\ Refill \in Nat \ {0} /\ MaxTime \in Nat /\ MaxSkew \in Nat

VARIABLES now,         \* the clock timers run on
          skew,        \* how far Date.now() is behind it
          tokens,      \* #tokens, in fractions
          lastRefill,  \* #lastRefill, a Date.now()
          wakeAt,      \* wakeAt[s]: when the timer of s fires, Awake for none
          crowded,     \* a sender has asked while another one slept (history)
          sent,        \* sent[k]: tokens handed out so far, each sender's and all (history)
          before       \* before[k][t]: those handed out before tick t began (history)

limiterVars == <<now, skew, tokens, lastRefill, wakeAt, crowded, sent, before>>

Awake == -1
Capacity == Burst * PerToken
Wall == now - skew

Counted == Senders \cup {Everybody}

Lower(a, b)   == IF a < b THEN a ELSE b
Higher(a, b)  == IF a > b THEN a ELSE b
CeilDiv(a, b) == (a + b - 1) \div b

LimiterInit ==
    /\ now = 0 /\ skew = 0
    /\ lastRefill = 0 /\ tokens = Capacity
    /\ wakeAt = [s \in Senders |-> Awake]
    /\ crowded = FALSE
    /\ sent = [k \in Counted |-> 0]
    /\ before = [k \in Counted |-> [t \in 0 .. MaxTime |-> 0]]

Tick == /\ now < MaxTime
        /\ now' = now + 1
        /\ before' = [k \in Counted |-> [before[k] EXCEPT ![now + 1] = sent[k]]]
        /\ UNCHANGED <<skew, tokens, lastRefill, wakeAt, crowded, sent>>

SetBack == /\ skew < MaxSkew
           /\ skew' = skew + 1
           /\ UNCHANGED <<now, tokens, lastRefill, wakeAt, crowded, sent, before>>

\* Mutant: what comes back is not capped at the size of the bucket.
RefilledUncapped == tokens + (Wall - lastRefill) * Refill

\* #refill.  A clock that went back takes tokens away.
Refilled == Lower(Capacity, tokens + (Wall - lastRefill) * Refill)

\* Mutant: the wait is for two tokens.
DelayForTwo == CeilDiv(2 * PerToken - Refilled, Refill)

\* waitMs: the time the missing fraction takes to come back.
Delay == CeilDiv(PerToken - Refilled, Refill)

Asks == crowded' = (crowded \/ \E r \in Senders : wakeAt[r] # Awake)

HandOut(s) == sent' = [sent EXCEPT ![s] = @ + 1, ![Everybody] = @ + 1]

\* acquire() with a token in the bucket.
Take(s) ==
    /\ wakeAt[s] = Awake
    /\ Refilled >= PerToken
    /\ lastRefill' = Wall
    /\ tokens' = Refilled - PerToken
    /\ HandOut(s) /\ Asks
    /\ UNCHANGED <<now, skew, wakeAt, before>>

\* acquire() without one: the caller computes its own delay from what is missing.
Sleep(s) ==
    /\ wakeAt[s] = Awake
    /\ Refilled < PerToken
    /\ lastRefill' = Wall
    /\ tokens' = Refilled
    /\ wakeAt' = [wakeAt EXCEPT ![s] = now + Delay]
    /\ Asks
    /\ UNCHANGED <<now, skew, sent, before>>

\* Mutant: the woken caller does not pay for what it takes.
WakeForFree(s) ==
    /\ wakeAt[s] # Awake /\ wakeAt[s] <= now
    /\ lastRefill' = Wall
    /\ tokens' = Higher(0, Refilled)
    /\ wakeAt' = [wakeAt EXCEPT ![s] = Awake]
    /\ HandOut(s)
    /\ UNCHANGED <<now, skew, crowded, before>>

\* The timer fired, at its time or late.  There is no second look at the bucket:
\* a missing token is forgiven by Math.max(0, ...).
Wake(s) ==
    /\ wakeAt[s] # Awake /\ wakeAt[s] <= now
    /\ lastRefill' = Wall
    /\ tokens' = Higher(0, Refilled - PerToken)
    /\ wakeAt' = [wakeAt EXCEPT ![s] = Awake]
    /\ HandOut(s)
    /\ UNCHANGED <<now, skew, crowded, before>>

LimiterNext == Tick \/ SetBack \/ \E s \in Senders : Take(s) \/ Sleep(s) \/ Wake(s)

LimiterSpec == LimiterInit /\ [][LimiterNext]_limiterVars
-----------------------------------------------------------------------------
\* Tokens k got in the ticks from a to b.
GotIn(k, a, b) == (IF b = now THEN sent[k] ELSE before[k][b + 1]) - before[k][a]

LimiterTypeOK == /\ now \in 0 .. MaxTime /\ skew \in 0 .. MaxSkew
                 /\ tokens \in Int /\ tokens <= Capacity
                 /\ lastRefill \in Int
                 /\ wakeAt \in [Senders -> {Awake} \cup Nat]
                 /\ crowded \in BOOLEAN
                 /\ sent \in [Counted -> Nat]
                 /\ before \in [Counted -> [0 .. MaxTime -> Nat]]

\* No stretch of time gives k more than a full bucket and what flows in meanwhile.
KeepsTheRate(k) ==
    \A a, b \in 0 .. now : a <= b => GotIn(k, a, b) * PerToken <= Capacity + (b - a) * Refill

\* The limiter keeps the rate for everybody together, late timers and a clock set back
\* included, until two handlers want a token at the same time; each of them may then find
\* the same token, and it keeps the rate of each handler taken alone, for ever
\* (messenger.mjs, "Token-bucket rate limiter", which promises the first for any number).
RateBound == /\ ~ crowded => KeepsTheRate(Everybody)
             /\ \A s \in Senders : KeepsTheRate(s)

\* Nobody waits longer than one token takes to come back, and a clock set back
\* costs a caller at most the time it went back.
WaitIsBounded ==
    \A s \in Senders : wakeAt[s] # Awake =>
        wakeAt[s] <= now + CeilDiv(PerToken, Refill) + skew
=============================================================================
