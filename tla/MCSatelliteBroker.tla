------------------------- MODULE MCSatelliteBroker --------------------------
(***************************************************************************)
(* TLC instances of SatelliteBroker.                                       *)
(***************************************************************************)
EXTENDS SatelliteBroker, TLC

\* Handlers and satellites are interchangeable.
Symmetry == Permutations(Handlers) \cup Permutations(Satellites)

\* Bound: a stop or crash is explored with one pairing request, the race of two
\* requests without one.
OneTrouble == stops + created <= 2
=============================================================================
