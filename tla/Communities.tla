---------------------------- MODULE Communities ----------------------------
(***************************************************************************)
(* One community: members, roles, join requests, memberCount               *)
(* (backend/src/communities/communities.service.ts), and what the purge of *)
(* an account does to it                                                   *)
(* (backend/src/account-deletion/account-deletion.purge.service.ts).       *)
(*                                                                         *)
(* A handler reads and checks, then writes in one transaction; anything    *)
(* may happen between the two.  Campus eligibility only refuses.           *)
(***************************************************************************)
EXTENDS Integers, FiniteSets

CONSTANTS
    User,
    Handler        \* requests under way

VARIABLES
    private,       \* Community.isPrivate; never changes here
    owner,         \* Community.ownerId: at most one user
    deleted,       \* Community.deletedAt is set
    role,          \* CommunityMember rows
    count,         \* Community.memberCount
    request,       \* CommunityJoinRequest rows
    todo,          \* the write each handler has still to do
    purged,        \* accounts that were purged
    handed,        \* history: the owner changed while a handler that had read
                   \* the old one was under way
    repaired       \* history: a boot created the owner's row

vars == <<private, owner, deleted, role, count, request, todo, purged, handed, repaired>>

-----------------------------------------------------------------------------
Role == {"none", "MEMBER", "MODERATOR", "OWNER"}

Writes == {"join", "ask", "accept", "decline", "leave", "remove", "delete"} \cup Role

Members == {u \in User : role[u] # "none"}

Nothing(u) == [write |-> "none", user |-> u]

Init == \E u \in User :
    /\ private \in BOOLEAN
    /\ owner = {u}
    /\ deleted = FALSE
    /\ role = [v \in User |-> IF v = u THEN "OWNER" ELSE "none"]
    /\ count = 1
    /\ request = [v \in User |-> "none"]
    /\ todo = [h \in Handler |-> Nothing(u)]
    /\ purged = {}
    /\ handed = FALSE /\ repaired = FALSE

Free(h) == todo[h].write = "none"
Has(h, w, u) == todo[h] = [write |-> w, user |-> u]
Finish(h) == todo' = [todo EXCEPT ![h].write = "none"]
Plan(h, w, u) ==
    /\ Free(h)
    /\ todo' = [todo EXCEPT ![h] = [write |-> w, user |-> u]]
    /\ UNCHANGED <<private, owner, deleted, role, count, request, purged, handed, repaired>>

-----------------------------------------------------------------------------
(* What each handler reads and checks.                                      *)

Join(h, u) ==
    /\ ~deleted
    /\ u \notin purged
    /\ IF private THEN u \notin Members /\ Plan(h, "ask", u) ELSE Plan(h, "join", u)

(* acceptJoinRequest and declineJoinRequest, by the owner or a moderator.   *)
Review(h, u) ==
    /\ owner \cup {v \in User : role[v] \in {"OWNER", "MODERATOR"}} # {}
    /\ request[u] = "PENDING"
    /\ Plan(h, "accept", u) \/ Plan(h, "decline", u)

Leave(h, u) ==
    /\ ~deleted
    /\ u \notin owner \cup purged
    /\ Plan(h, "leave", u)

(* removeMember: a moderator cannot remove a moderator, the owner can.      *)
Remove(h, u) ==
    /\ u \in Members \ owner
    /\ role[u] # "OWNER"
    /\ Plan(h, "remove", u)

(* updateMemberRole by the owner.                                           *)
MutGrantable == {"OWNER"}
Grantable == {"MODERATOR", "MEMBER"}

ChangeRole(h, u) ==
    /\ owner # {}
    /\ u \in Members \ owner
    /\ \E new \in Grantable : Plan(h, new, u)

Delete(h, u) ==
    /\ ~deleted
    /\ owner = {u}
    /\ Plan(h, "delete", u)

-----------------------------------------------------------------------------
(* The transactions.                                                        *)

Enter(u) == /\ role' = [role EXCEPT ![u] = "MEMBER"]
            /\ count' = count + 1
Exit(u)  == /\ role' = [role EXCEPT ![u] = "none"]
            /\ count' = count - 1

(* joinCommunity: create the row unless there is one.                       *)
JoinTx(h, u) ==
    /\ Has(h, "join", u)
    /\ IF u \in Members THEN UNCHANGED <<role, count>> ELSE Enter(u)
    /\ Finish(h)
    /\ UNCHANGED <<private, owner, deleted, request, purged, handed, repaired>>

(* The upsert of the request does not look at its status.                   *)
AskTx(h, u) ==
    /\ Has(h, "ask", u)
    /\ request' = [request EXCEPT ![u] = "PENDING"]
    /\ Finish(h)
    /\ UNCHANGED <<private, owner, deleted, role, count, purged, handed, repaired>>

MutJoins(u) == Enter(u)
Joins(u) == IF u \in Members THEN UNCHANGED <<role, count>> ELSE Enter(u)

Waiting(u) == request[u] = "PENDING"

AcceptTx(h, u) ==
    /\ Has(h, "accept", u)
    /\ IF Waiting(u)
       THEN request' = [request EXCEPT ![u] = "ACCEPTED"] /\ Joins(u)
       ELSE UNCHANGED <<request, role, count>>
    /\ Finish(h)
    /\ UNCHANGED <<private, owner, deleted, purged, handed, repaired>>

DeclineTx(h, u) ==
    /\ Has(h, "decline", u)
    /\ request' = IF Waiting(u) THEN [request EXCEPT ![u] = "DECLINED"] ELSE request
    /\ Finish(h)
    /\ UNCHANGED <<private, owner, deleted, role, count, purged, handed, repaired>>

(* leaveCommunity and removeMember; a row that is gone changes nothing.     *)
ExitTx(h, u) ==
    /\ Has(h, "leave", u) \/ Has(h, "remove", u)
    /\ IF u \in Members THEN Exit(u) ELSE UNCHANGED <<role, count>>
    /\ Finish(h)
    /\ UNCHANGED <<private, owner, deleted, request, purged, handed, repaired>>

RoleTx(h, u) ==
    /\ todo[h].write \in {"MODERATOR", "MEMBER", "OWNER"}
    /\ todo[h].user = u
    /\ role' = IF u \in Members THEN [role EXCEPT ![u] = todo[h].write] ELSE role
    /\ Finish(h)
    /\ UNCHANGED <<private, owner, deleted, count, request, purged, handed, repaired>>

WindUp == /\ deleted' = TRUE
          /\ role' = [u \in User |-> "none"]
          /\ request' = [u \in User |-> "none"]
          /\ count' = 0

DeleteTx(h, u) ==
    /\ Has(h, "delete", u)
    /\ WindUp
    /\ Finish(h)
    /\ UNCHANGED <<private, owner, purged, handed, repaired>>

-----------------------------------------------------------------------------
(* The purge of an account: its communities go to a member, moderators      *)
(* first, or are wound up; then its own rows go.                            *)

Successors(u) ==
    LET mods == {v \in Members \ {u} : role[v] \in {"OWNER", "MODERATOR"}}
    IN  IF mods # {} THEN mods ELSE Members \ {u}

Forgotten(u) == [v \in User |-> IF v = u THEN "none" ELSE request[v]]

Purge(u) ==
    /\ u \notin purged
    /\ purged' = purged \cup {u}
    /\ \/ /\ u \notin owner \/ deleted
          /\ role' = [role EXCEPT ![u] = "none"]
          /\ request' = Forgotten(u)
          /\ UNCHANGED <<owner, deleted, count, handed>>
       \/ \E v \in Successors(u) :
          /\ u \in owner /\ ~deleted
          /\ owner' = {v}
          /\ role' = [role EXCEPT ![v] = "OWNER", ![u] = "none"]
          /\ request' = Forgotten(u)
          /\ handed' = (handed \/ \E h \in Handler : ~Free(h))
          /\ UNCHANGED <<deleted, count>>
       \/ /\ u \in owner /\ ~deleted
          /\ Successors(u) = {}
          /\ owner' = {}
          /\ WindUp
          /\ UNCHANGED handed
    /\ UNCHANGED <<private, todo, repaired>>

(* onModuleInit: the owner gets the row and the role.                       *)
Boot ==
    /\ ~deleted
    /\ \E u \in owner :
          /\ role[u] # "OWNER"
          /\ role' = [role EXCEPT ![u] = "OWNER"]
          /\ repaired' = (repaired \/ role[u] = "none")
    /\ UNCHANGED <<private, owner, deleted, count, request, todo, purged, handed>>

-----------------------------------------------------------------------------
Checks(h, u) == Join(h, u) \/ Review(h, u) \/ Leave(h, u) \/ Remove(h, u)
                \/ ChangeRole(h, u) \/ Delete(h, u)

Transactions(h, u) == JoinTx(h, u) \/ AskTx(h, u) \/ AcceptTx(h, u) \/ DeclineTx(h, u)
                      \/ ExitTx(h, u) \/ RoleTx(h, u) \/ DeleteTx(h, u)

Next == \/ \E h \in Handler, u \in User : Checks(h, u) \/ Transactions(h, u)
        \/ \E u \in User : Purge(u)
        \/ Boot

Spec == Init /\ [][Next]_vars

-----------------------------------------------------------------------------
TypeOK ==
    /\ private \in BOOLEAN /\ deleted \in BOOLEAN
    /\ owner \subseteq User /\ Cardinality(owner) <= 1
    /\ role \in [User -> Role]
    /\ count \in Int
    /\ request \in [User -> {"none", "PENDING", "ACCEPTED", "DECLINED"}]
    /\ todo \in [Handler -> [write : Writes, user : User]]
    /\ purged \subseteq User

(* "The counter moves only when this call actually created the member row": *)
(* memberCount is the number of rows, however joins, accepts, leaves and    *)
(* removals race, until an account is purged (its row goes and the counter  *)
(* stays) or a boot creates the owner's row.                                *)
CountMatches == purged = {} /\ ~repaired => count = Cardinality(Members)

(* The owner, and nobody else, has the role of owner, so somebody can       *)
(* always run the community; only a hand-over in the middle of a handler    *)
(* that had read the old owner can break it.                                *)
OwnerRules ==
    ~handed /\ ~deleted => {u \in User : role[u] = "OWNER"} = owner

(* A request is answered once: what one moderator decided is not turned     *)
(* over by another who read it as pending, and nobody enters a private      *)
(* community but by an accepted request.                                    *)
AnsweredOnce ==
    [][\A u \in User :
         /\ request[u] = "ACCEPTED" => request'[u] # "DECLINED"
         /\ request[u] = "DECLINED" => request'[u] # "ACCEPTED"
         /\ private /\ role[u] = "none" /\ role'[u] # "none" /\ role'[u] # "OWNER"
               => request[u] = "PENDING" /\ request'[u] = "ACCEPTED"]_vars
=============================================================================
