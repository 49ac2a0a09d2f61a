------------------------------ MODULE MC_Rows ------------------------------
(***************************************************************************)
(* The components whose state is rows (or a copy of rows) and that share   *)
(* nothing but, for the college address, the one-time code.  A behaviour   *)
(* is one of the component `focus`, the others stand still; so the states  *)
(* are the sum of theirs and not the product.                              *)
(***************************************************************************)
EXTENDS CampusAffiliation, FiniteSets, TLC

CONSTANTS Email, Instance, Ttl, User, Person, Key, MaxClock

ASSUME RowsAssumption ==
    /\ Email # {} /\ IsFiniteSet(User)
    /\ Ttl \in Nat /\ MaxClock \in Nat

VARIABLES
    focus,         \* the component that runs; never changes
    auth, userEmail, held, change, broken, overlap,
    open, allowed, since, clearing, entry, look, late,
    private, owner, deleted, role, count, request, todo, purged, handed, repaired,
    kind, line, log, hidden, draft, doing, clock, latest, lapped

chat      == <<kind, line, log, hidden, draft, doing, clock, latest, lapped>>
email     == <<auth, userEmail, held, change, broken, overlap>>
guard     == <<open, allowed, since, clearing, entry, look, late>>
community == <<private, owner, deleted, role, count, request, todo, purged, handed, repaired>>

AddressChange == INSTANCE AccountEmail WITH user <- userEmail, taken <- held
Guard         == INSTANCE AccessGuard WITH Lookup <- Req
Community     == INSTANCE Communities WITH Handler <- Req
Chat          == INSTANCE Messages
                     WITH Handler <- Req, User <- Person, row <- line, todo <- doing

rows == <<focus, all, email, guard, community, chat>>

Some(S) == CHOOSE x \in S : TRUE

RowsInit ==
    /\ focus \in {"otp", "campus", "email", "guard", "community", "chat"}
    /\ Init /\ InitCampus
    /\ AddressChange!Init
    /\ Guard!Init
    /\ Community!Init
    /\ Chat!Init
    /\ focus # "guard" => ~open /\ \A r \in Req : look[r].at = Some(Instance)
    /\ focus # "community" => ~private
    /\ focus # "chat" => kind = "DM"

RowsNext ==
    /\ UNCHANGED focus
    /\ \/ /\ focus = "otp"
          /\ Next
          /\ UNCHANGED <<campus, email, guard, community, chat>>
       \/ /\ focus = "campus"
          /\ CampusNext
          /\ UNCHANGED <<email, guard, community, chat>>
       \/ /\ focus = "email"
          /\ AddressChange!Next
          /\ UNCHANGED <<all, guard, community, chat>>
       \/ /\ focus = "guard"
          /\ Guard!Next
          /\ UNCHANGED <<all, email, community, chat>>
       \/ /\ focus = "community"
          /\ Community!Next
          /\ UNCHANGED <<all, email, guard, chat>>
       \/ /\ focus = "chat"
          /\ Chat!Next
          /\ UNCHANGED <<all, email, guard, community>>

RowsSpec == RowsInit /\ [][RowsNext]_rows

SymIds == Permutations(Req) \cup Permutations(User) \cup Permutations(Person)

(* Bound: what a second guess at a code is worth is the question of `otp`.  *)
Bounds == focus = "campus" => row.attempts <= 1

-----------------------------------------------------------------------------
(* Type correctness of the components.                                      *)
RowsTypeOK == /\ TypeOK
              /\ focus = "campus" => CampusTypeOK
              /\ AddressChange!TypeOK /\ Guard!TypeOK /\ Community!TypeOK
              /\ Chat!TypeOK

(* The properties of the components, where they are stated and explained.   *)

(* The identity provider and the row have the same sign-in address.         *)
StoresAgree == AddressChange!StoresAgree

(* No kept answer outlives the change it contradicts by more than Ttl.      *)
StaleAtMostTtl == Guard!StaleAtMostTtl

(* memberCount is the number of member rows.                                *)
CountMatches == Community!CountMatches

(* Exactly the owner has the role of owner.                                 *)
OwnerRules == Community!OwnerRules

(* Who opens a conversation is not shown what was cleared from it.          *)
HiddenForGood == Chat!HiddenForGood
=============================================================================
