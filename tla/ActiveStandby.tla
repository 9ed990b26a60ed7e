--------------------------- MODULE ActiveStandby ---------------------------
(***************************************************************************)
(* What a tethered pair of Drouter instances promises its operator: at     *)
(* most one of the instances is active, an instance becomes active only    *)
(* while no other is, and once active it stays so until it stops.          *)
(*                                                                         *)
(* Nothing of the protocol that gets there appears here; Tether implements *)
(* this specification when both of its links are dependable.               *)
(***************************************************************************)
CONSTANT Instance               \* the instances of the cluster

VARIABLES running,              \* the instances whose process is alive
          serving               \* the instances that act on commands

vars == <<running, serving>>

TypeOK ==
  /\ running \subseteq Instance
  /\ serving \subseteq running

Init ==
  /\ running = {}
  /\ serving = {}

Start(n) ==
  /\ n \notin running
  /\ running' = running \cup {n}
  /\ UNCHANGED serving

\* A process ends, by request or by a crash, and with it its turn as active.
Stop(n) ==
  /\ n \in running
  /\ running' = running \ {n}
  /\ serving' = serving \ {n}

TakeOver(n) ==
  /\ n \in running
  /\ serving = {}
  /\ serving' = {n}
  /\ UNCHANGED running

Next == \E n \in Instance : Start(n) \/ Stop(n) \/ TakeOver(n)

Spec == Init /\ [][Next]_vars

=============================================================================
