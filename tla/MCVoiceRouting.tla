--------------------------- MODULE MCVoiceRouting ----------------------------
(***************************************************************************)
(* TLC instances of VoiceRouting.                                          *)
(***************************************************************************)
EXTENDS VoiceRouting, TLC

\* Turns are interchangeable, and so are satellites.
VoiceSymmetry == Permutations(Turns) \cup Permutations(Satellites)
=============================================================================
