--------------------------- MODULE MCVisitServer ---------------------------
(* TLC instances of VisitServer: two starts for one stop of the route.      *)
EXTENDS VisitServer, TLC

CONSTANTS c1, c2, i1, t1

MCStartItem == (c1 :> i1) @@ (c2 :> i1)
MCTokenFor == t1 :> c1

MCSymmetry == Permutations(Req) \cup Permutations(Vid)
=============================================================================
