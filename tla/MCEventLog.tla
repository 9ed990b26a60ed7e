----------------------------- MODULE MCEventLog -----------------------------
(* Instances of EventLog for TLC.                                           *)
EXTENDS EventLog, TLC

CONSTANTS hand, shots, out, in, gone, null

\* The map has no slot for input "gone".
Slots == {out, in}

Streaming == [i \in {in, gone} |-> i]

\* One client works by hand, the other with a snapshot whose second route cannot
\* be done.
ByHand == (hand :> {<<out, in>>, <<out, Off>>}) @@ (shots :> {})

OneSnapshot == (hand :> {}) @@ (shots :> {<< <<out, in>>, <<out, gone>> >>})

=============================================================================
