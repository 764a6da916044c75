---------------------------- MODULE MCRouteOrder ----------------------------
(* TLC instances of RouteOrder: three stops, two requests.                  *)
EXTENDS RouteOrder, TLC

MCSymmetry == Permutations(Item) \cup Permutations(Caller)
=============================================================================
