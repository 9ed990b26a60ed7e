------------------------------ MODULE MCMatrix ------------------------------
(* Instances of Matrix for TLC.                                             *)
EXTENDS Matrix

\* The first address after the device's own inputs stands for all other nodes.
Others == {Inputs + 1}

=============================================================================
