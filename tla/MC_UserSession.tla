--------------------------- MODULE MC_UserSession ---------------------------
(* Instances of UserSession for TLC.  Ids and requests are interchangeable; *)
(* Last is the id used last.                                                *)
EXTENDS UserSession, TLC

CONSTANT Last

VARIABLE chain     \* which of the two instances runs; never changes

SymIds == Permutations(Sid \ {Last}) \cup Permutations(Req)

InOrder == Last \in minted' => minted' = Sid

(* ~chain: up to three rows in any families, a provider that may fail.      *)
(* chain: one login rotated until the ids run out, by a provider that       *)
(* answers; no row reaches expiresAt, no "sign out the others" (there are   *)
(* none).                                                                   *)
OneLogin == /\ Cardinality({s \in minted' : rows'[s].fam = s}) <= 1
            /\ \A s \in Sid : rows'[s].age = "expired" => rows'[s].st = "absent"
            /\ \A r \in Req : req'[r].pc \notin {"others", "undoRead"}

MCInit == Init /\ chain \in BOOLEAN

MCNext == /\ Next
          /\ InOrder
          /\ IF chain THEN OneLogin ELSE Cardinality(minted') <= 3
          /\ UNCHANGED chain

MCSpec == MCInit /\ [][MCNext]_<<vars, chain>>
=============================================================================
