------------------------------ MODULE MCReplica ------------------------------
(* Instances of Replica for TLC.                                            *)
EXTENDS Replica

\* No row changes but for its node's absence.
Once == [d \in Kind |-> 1]

\* Sources change; destinations, whose records take the same way, do not.
SourcesOnly == [d \in Kind |-> IF d = "SRC" THEN 2 ELSE 1]

\* Three versions of a source put two changes of it under way at once.
Thrice == [d \in Kind |-> CASE d = "NODE" -> 1 [] d = "SRC" -> 3 [] d = "DST" -> 2]

=============================================================================
