-------------------------------- MODULE Lists --------------------------------
(***************************************************************************)
(* Lists that a loop makes of another by passing over some of its members,   *)
(* what SelectSeq is for.  They are written with recursive functions, which  *)
(* the proofs can take apart.                                                *)
(***************************************************************************)
EXTENDS Naturals, Sequences

(* The numbers up to n that are in a set, in their order.                    *)
Adding(s, k, those) == IF k \in those THEN Append(s, k) ELSE s
InOrder(n, those) ==
    LET upto[k \in 0 .. n] == IF k = 0 THEN << >> ELSE Adding(upto[k - 1], k, those)
    IN  upto[n]

(* What a list has at some of its places.                                    *)
Chosen(s, those) == LET places == InOrder(Len(s), those)
                    IN  [k \in DOMAIN places |-> s[places[k]]]
=============================================================================
