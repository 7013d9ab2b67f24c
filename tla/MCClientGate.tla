---------------------------- MODULE MCClientGate ----------------------------
(***************************************************************************)
(* A few messages over connections that come, go and come back; the channel *)
(* is small enough to overflow in the one run, and large enough never to do *)
(* so in the other.                                                         *)
(***************************************************************************)
EXTENDS ClientGate
=============================================================================
