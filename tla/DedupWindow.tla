---------------------------- MODULE DedupWindow ----------------------------
(***************************************************************************)
(* What the bot's idempotency cache promises, with no ring buffer in sight: *)
(* the cap most recently admitted message ids, oldest first.  The ids in    *)
(* the window are refused, and only those; any other id is admitted and     *)
(* pushes the oldest one out once the window is full.                       *)
(***************************************************************************)
EXTENDS Naturals, Sequences

CONSTANTS Ids, \* message ids
          cap  \* config.idempotencyCacheSize

VARIABLES window,  \* the admitted ids that are remembered, oldest first
          refused  \* the ids a delivery would be refused for now

Members(w) == {w[i] : i \in 1 .. Len(w)}

Slide(id) == IF Len(window) < cap
             THEN Append(window, id)
             ELSE Append(Tail(window), id)

Init == window = <<>> /\ refused = {}

Admit(id) == /\ id \notin refused
             /\ window' = Slide(id)
             /\ refused' = Members(window')

Next == \E id \in Ids : Admit(id)

Spec == Init /\ [][Next]_<<window, refused>>
=============================================================================
