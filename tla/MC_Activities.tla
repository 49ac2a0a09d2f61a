---------------------------- MODULE MC_Activities ----------------------------
(* Instances of Activities for TLC.                                         *)
EXTENDS Activities, TLC

SymIds == Permutations(Proc) \cup Permutations(User \ Invitee)
=============================================================================
