---------------------------- MODULE MCPhotoStore ----------------------------
(* TLC instances of PhotoStore: a few registrations for one visit.          *)
EXTENDS PhotoStore, TLC

MCSymmetry == Permutations(Obj) \cup Permutations(Handler)
=============================================================================
