---------------------------- MODULE MCMembership ----------------------------
(* TLC instances of Membership.                                             *)
EXTENDS Membership, TLC

MCGrants == {{"admin"}}

MCSymmetry == Permutations(Email) \cup Permutations(Invite) \cup Permutations(Caller)
=============================================================================
