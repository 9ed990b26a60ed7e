------------------------------- MODULE MCPanel -------------------------------
(* Instances of Panel for TLC.                                               *)
EXTENDS Panel

AllKinds == {"output", "xy", "xpoint", "button", "armbutton"}

=============================================================================
