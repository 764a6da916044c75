---------------------------- MODULE MCFieldSync ----------------------------
(* TLC instances of FieldSync: one start of a planned stop, or two.         *)
EXTENDS FieldSync, TLC

CONSTANTS c1, i1

MCStartItem == [c \in CId |-> i1]
MCTokenFor == [t \in Token |-> c1]

MCSymmetry == Permutations(Req) \cup Permutations(Vid) \cup Permutations(Flow)
=============================================================================
