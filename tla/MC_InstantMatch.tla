-------------------------- MODULE MC_InstantMatch --------------------------
(* Instances of InstantMatch for TLC.  Handlers are interchangeable, and so *)
(* are people.  The states explored are those of two scenes: a duo, which   *)
(* goes through the whole life of one match, and a race of everybody's      *)
(* searches.                                                                *)
EXTENDS InstantMatch, FiniteSetsExt, TLC

SymIds == Permutations(User) \cup Permutations(Proc)

(* Bounds of the duo: all but two people stay away, and there is one match. *)
Away(u) == joins[u] = 0 /\ eligible[u] /\ \A p \in Proc : proc[p].u # u

Duo == /\ \E u \in User : Away(u)
       /\ \A m \in Mid : m > 1 => sess[m] = NoSession

(* Bounds of the race: every queue entry stays live and its owner verified, *)
(* people come back to the queue once in all, and nobody accepts: a match   *)
(* ends declined or timed out.                                              *)
Race == /\ \A u \in User : eligible[u] /\ queue[u] # "stale"
        /\ MapThenSumSet(LAMBDA u : joins[u], User) <= Cardinality(User) + 1
        /\ \A m \in Mid : sess[m].yes = {}

Scenes == Duo \/ Race
=============================================================================
