----------------------------- MODULE MCConnector ----------------------------
(***************************************************************************)
(* A login of the Matrix connector under seven budgets, or two handlers for  *)
(* a Matrix user.  The other part stays where it is.                         *)
(***************************************************************************)
EXTENDS Connector, Outgoing

VARIABLE part       \* what this history is about

Budget(e2ee, s, t, r, f) == [sealing |-> e2ee, refresh |-> r > 0, sends |-> s, starts |-> t, fulls |-> r, faults |-> f]

\* Three tables, or two and a fault; a table and a restart; a table and a periodic
\* reconnect, which without a table may also fail; with E2EE a fault, or a restart.
MCBudgets == {Budget(FALSE, 3, 1, 0, 0), Budget(FALSE, 2, 1, 0, 1), Budget(FALSE, 1, 2, 0, 1),
              Budget(FALSE, 1, 1, 1, 0), Budget(FALSE, 0, 1, 1, 1),
              Budget(TRUE, 0, 1, 0, 1), Budget(TRUE, 0, 2, 0, 0)}

MCWorks == {[c \in Calls |-> IF c = "c" THEN pair[1] ELSE pair[2]] : pair \in
    {<<"message", "message">>, <<"edit", "edit">>, <<"edit", "message">>, <<"sealedmessage", "sealededit">>,
     <<"react", "remove">>, <<"sealedreact", "sealedremove">>, <<"receipt", "typing">>,
     <<"delete", "sealeddelete">>, <<"rename", "avatar">>, <<"members", "sealedmembers">>}}

MCInit == /\ part \in {"login", "user"}
          /\ Init /\ OutgoingInit
          /\ part # "login" => left = Budget(FALSE, 3, 1, 0, 0)
          /\ part # "user" => ~online.plain /\ ~online.sealed /\ work = [c \in Calls |-> "message"]

MCNext == \/ part = "login" /\ ConnectorNext /\ UNCHANGED <<part, outgoingVars>>
          \/ part = "user" /\ OutgoingNext /\ UNCHANGED <<part, connectorVars>>

MCSpec == MCInit /\ [][MCNext]_<<part, connectorVars, outgoingVars>>
=============================================================================
