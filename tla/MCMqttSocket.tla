---------------------------- MODULE MCMqttSocket ----------------------------
(***************************************************************************)
(* The two sockets of a client, one at a time: that of its messages, with a  *)
(* caller and a small queue, and that of Instagram's typing notices.  What   *)
(* is not of interest stays as it is before anything was dialled, where none *)
(* of its steps is due.                                                      *)
(***************************************************************************)
EXTENDS MqttSocket, Gateway

VARIABLE part       \* what this history is about

MCInit == part \in {"socket", "gateway"} /\ Init /\ GatewayInit

MCNext == /\ UNCHANGED part
          /\ \/ part = "socket" /\ Next /\ UNCHANGED gatewayVars
             \/ part = "gateway" /\ GatewayNext /\ UNCHANGED socketVars

MCSpec == MCInit /\ [][MCNext]_<<part, socketVars, gatewayVars>> /\ SocketFairness /\ GatewayFairness
=============================================================================
