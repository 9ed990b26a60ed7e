----------------------------- MODULE MCSaSession -----------------------------
(* Instances of SaSession.                                                 *)
EXTENDS SaSession, TLC

CONSTANTS d1, d2, s1, s2

\* Two routers share the destination d1 and the stream s1; the second has a
\* map with no destination for its output 2.
SharedDestinations == {<<1, 1, d1>>, <<1, 2, d2>>, <<2, 1, d1>>}
SharedSources      == {<<1, 1, s1>>, <<1, 2, s2>>, <<2, 1, s2>>}

=============================================================================
