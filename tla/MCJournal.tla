------------------------------ MODULE MCJournal -----------------------------
EXTENDS Journal

CONSTANTS n1, n2

MCGrants == {<<n1, n2>>}

\* The two identities exist already.
MCFirstOps == <<Note("BOOT"), [op |-> "NODE_CREATE", node |-> n1], [op |-> "NODE_CREATE", node |-> n2]>>

MCAsked == {Note("AUDIT")} \cup [op : {"NODE_RETIRE"}, node : {n2}]
=============================================================================
