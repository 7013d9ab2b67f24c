------------------------------- MODULE MCSync -------------------------------
\* Two databases: one with a cursor from the page, one without.
EXTENDS Sync

MCSends == [db \in {"inbox", "sealed"} |-> IF db = "inbox" THEN 2 ELSE 1]
=============================================================================
