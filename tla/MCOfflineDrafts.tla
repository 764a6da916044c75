-------------------------- MODULE MCOfflineDrafts --------------------------
(***************************************************************************)
(* Instances of OfflineDrafts for TLC.                                     *)
(***************************************************************************)
EXTENDS OfflineDrafts, TLC

MCSymmetry == Permutations(Screen) \cup Permutations(Text)
                \cup Permutations(Capture) \cup Permutations(Upload)
=============================================================================
