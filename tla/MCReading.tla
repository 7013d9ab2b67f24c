----------------------------- MODULE MCReading ------------------------------
(***************************************************************************)
(* What is made of what the server sends, one thing at a time: the tables of *)
(* MCTables, read by the bridge; an encrypted chat of Anna, who has a bridge *)
(* and a connector, with Ben, who has a connector and an app; the room of a  *)
(* chat; the history of a chat and the list of chats.                        *)
(***************************************************************************)
EXTENDS MCTables, Sealed, Incoming, Backfill

VARIABLE part       \* what this history is about; all else stays where it is

MCUserOf == [d \in Devices |-> IF d \in {"a", "c"} THEN "anna" ELSE "ben"]

(* What may happen to a chat: its messages; the people in it; its settings   *)
(* and its end; its end and its messages; its history.                       *)
Story(kinds, ops, faults) == [kinds |-> kinds, ops |-> ops, faults |-> faults]
MCStories == {Story({"say", "edit", "unsend", "react"}, 4, 1),
              Story({"members", "snapshot"}, 4, 1), Story({"members", "snapshot"}, 5, 0),
              Story({"set", "snapshot", "delete"}, 3, 1), Story({"say", "snapshot", "delete"}, 3, 1),
              Story({"say", "edit", "snapshot", "slice"}, 3, 1)}

MCKnowns == {{}, {3}}

MCInit == /\ part \in {"tables", "sealed", "room", "history", "chats"}
          /\ ChatInit /\ (part # "sealed" => chat = "direct")
          /\ IncomingInit /\ (part # "room" => aware /\ budget = Story({"members", "snapshot"}, 4, 1))
          /\ BackfillInit /\ (part # "history" => held = {}) /\ (part # "chats" => chats.more)
          /\ TablesInit

MCNext ==
    /\ UNCHANGED part
    /\ \/ part = "tables" /\ TablesNext /\ UNCHANGED <<sealedVars, incomingVars, backfillVars>>
       \/ part = "sealed" /\ ChatNext /\ UNCHANGED <<tableVars, incomingVars, backfillVars>>
       \/ part = "room" /\ IncomingNext /\ UNCHANGED <<tableVars, sealedVars, backfillVars>>
       \/ part = "history" /\ HistoryNext /\ UNCHANGED <<tableVars, sealedVars, incomingVars>>
       \/ part = "chats" /\ ChatsNext /\ UNCHANGED <<tableVars, sealedVars, incomingVars>>

MCSpec == MCInit /\ [][MCNext]_<<part, tableVars, sealedVars, incomingVars, backfillVars>>
=============================================================================
