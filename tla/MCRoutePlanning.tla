--------------------------- MODULE MCRoutePlanning ---------------------------
(* TLC instances of RoutePlanning: two dates, the first copied onto the      *)
(* second, the second onto a date its month does not have.                  *)
EXTENDS RoutePlanning, TLC

MCShift == {(1 :> 2) @@ (2 :> None)}

MCSymmetry == Permutations(Plan) \cup Permutations(Template) \cup Permutations(Caller)
=============================================================================
