-------------------------- MODULE CommunitiesProofs --------------------------
(***************************************************************************)
(* memberCount and the role of the owner, for any users and any number of  *)
(* requests under way.                                                     *)
(***************************************************************************)
EXTENDS Communities, FiniteSetTheorems, TLAPS

Plans    == [write : Writes, user : User]
Requests == {"none", "PENDING", "ACCEPTED", "DECLINED"}
Owners   == {u \in User : role[u] = "OWNER"}

Single == \A u, v \in owner : u = v

TypeInv ==
    /\ private \in BOOLEAN /\ deleted \in BOOLEAN
    /\ owner \subseteq User /\ Single
    /\ role \in [User -> Role]
    /\ count \in Int
    /\ request \in [User -> Requests]
    /\ todo \in [Handler -> Plans]
    /\ purged \subseteq User

(* A planned write was checked against the owner: it does not touch them,   *)
(* and it never makes an owner, unless the community was handed over since. *)
Sparing == {"leave", "remove", "MODERATOR", "MEMBER"}

PlanInv ==
    /\ \A h \in Handler : todo[h].write # "OWNER"
    /\ ~handed => \A h \in Handler : todo[h].write \in Sparing => todo[h].user \notin owner

IInv == TypeInv /\ CountMatches /\ PlanInv /\ OwnerRules


-----------------------------------------------------------------------------
(* Members come and go one by one.                                          *)
LEMMA MembersFinite ==
    ASSUME IsFiniteSet(User)
    PROVE  IsFiniteSet(Members) /\ Cardinality(Members) \in Nat
  BY FS_Subset, FS_CardinalityType, Members \subseteq User DEF Members

LEMMA EnterCounts ==
    ASSUME IsFiniteSet(User), role \in [User -> Role], NEW u \in User \ Members, Enter(u)
    PROVE  Members' = Members \cup {u} /\ Cardinality(Members') = Cardinality(Members) + 1
<1>1. Members' = Members \cup {u}
  BY DEF Enter, Members
<1> QED
  BY <1>1, MembersFinite, FS_AddElement

LEMMA ExitCounts ==
    ASSUME IsFiniteSet(User), role \in [User -> Role], NEW u \in Members, Exit(u)
    PROVE  Members' = Members \ {u} /\ Cardinality(Members') = Cardinality(Members) - 1
<1>1. Members' = Members \ {u}
  BY DEF Exit, Members
<1> QED
  BY <1>1, MembersFinite, FS_RemoveElement

-----------------------------------------------------------------------------
LEMMA PlanType ==
    ASSUME TypeInv, NEW h \in Handler, NEW u \in User, NEW w \in Writes, Plan(h, w, u)
    PROVE  /\ TypeInv' /\ Members' = Members /\ Owners' = Owners
           /\ todo'[h] = [write |-> w, user |-> u]
           /\ \A g \in Handler \ {h} : todo'[g] = todo[g]
           /\ UNCHANGED <<private, owner, deleted, role, count, request, purged, handed, repaired>>
<1>1. [write |-> w, user |-> u] \in Plans
  BY DEF Plans
<1>2. /\ todo' \in [Handler -> Plans]
      /\ todo'[h] = [write |-> w, user |-> u]
      /\ \A g \in Handler \ {h} : todo'[g] = todo[g]
  BY <1>1 DEF Plan, TypeInv
<1>3. UNCHANGED <<private, owner, deleted, role, count, request, purged, handed, repaired>>
  BY DEF Plan
<1>4. TypeInv'
  BY <1>2, <1>3 DEF TypeInv, Single
<1>5. Members' = Members /\ Owners' = Owners
  BY <1>3 DEF Members, Owners
<1> QED
  BY <1>2, <1>3, <1>4, <1>5

(* Checking changes nothing, and plans only what the invariant allows.      *)
LEMMA CheckStep ==
    ASSUME IInv, NEW h \in Handler, NEW u \in User, Checks(h, u)
    PROVE  IInv'
<1>1. PICK w \in Writes : /\ Plan(h, w, u)
                          /\ w # "OWNER"
                          /\ w \in Sparing => u \notin owner
  BY DEF Checks, Join, Review, Leave, Remove, ChangeRole, Delete, Grantable, Writes, Role,
         Sparing, Members
<1>2. TypeInv'
  BY <1>1, PlanType DEF IInv
<1>3. CountMatches' /\ OwnerRules'
  <2>1. Members' = Members /\ UNCHANGED <<owner, deleted, role, count, purged, handed, repaired>>
    BY <1>1, PlanType DEF IInv
  <2> QED
    BY <2>1 DEF IInv, CountMatches, OwnerRules
<1>4. PlanInv'
  <2>1. /\ todo'[h] = [write |-> w, user |-> u] /\ \A g \in Handler \ {h} : todo'[g] = todo[g]
        /\ handed' = handed /\ owner' = owner
    BY <1>1, PlanType DEF IInv
  <2> QED
    BY <1>1, <2>1 DEF IInv, PlanInv
<1> QED
  BY <1>2, <1>3, <1>4 DEF IInv

LEMMA FinishType ==
    ASSUME todo \in [Handler -> Plans], NEW h \in Handler, Finish(h)
    PROVE  /\ todo' \in [Handler -> Plans]
           /\ todo'[h].write = "none" /\ todo'[h].user = todo[h].user
           /\ \A g \in Handler \ {h} : todo'[g] = todo[g]
<1>1. [todo[h] EXCEPT !.write = "none"] \in Plans
  BY DEF Plans, Writes, Role
<1> QED
  BY <1>1 DEF Finish, Plans

-----------------------------------------------------------------------------
(* A transaction that writes one member row, and does not touch an owner.   *)
LEMMA RowStep ==
    ASSUME IsFiniteSet(User), IInv, NEW h \in Handler, NEW u \in User, Finish(h),
           request' \in [User -> Requests],
           UNCHANGED <<private, owner, deleted, purged, handed, repaired>>,
           \/ UNCHANGED <<role, count>>
           \/ u \notin Members /\ Enter(u)
           \/ u \in Members /\ (~handed => u \notin owner) /\ Exit(u)
           \/ /\ u \in Members /\ (~handed => u \notin owner) /\ count' = count
              /\ \E w \in {"MODERATOR", "MEMBER"} : role' = [role EXCEPT ![u] = w]
    PROVE  IInv'
<1>t. TypeInv /\ Members \subseteq User
  BY DEF IInv, Members
<1>p. PlanInv'
  BY FinishType DEF IInv, TypeInv, PlanInv, Sparing
<1>1. CASE UNCHANGED <<role, count>>
  <2>1. TypeInv'
    BY <1>t, <1>1, FinishType DEF TypeInv, Single
  <2>2. Members' = Members /\ Owners' = Owners
    BY <1>1 DEF Members, Owners
  <2> QED
    BY <1>1, <1>p, <2>1, <2>2 DEF IInv, CountMatches, OwnerRules, Owners
<1>2. CASE u \notin Members /\ Enter(u)
  <2>1. TypeInv'
    BY <1>t, <1>2, FinishType DEF TypeInv, Single, Enter, Role
  <2>2. Owners' = Owners
    BY <1>t, <1>2 DEF Owners, Enter, Members, TypeInv
  <2>3. CountMatches'
    BY <1>t, <1>2, EnterCounts DEF IInv, CountMatches, TypeInv, Enter
  <2> QED
    BY <1>p, <2>1, <2>2, <2>3 DEF IInv, OwnerRules, Owners
<1>3. CASE u \in Members /\ (~handed => u \notin owner) /\ Exit(u)
  <2>1. TypeInv'
    BY <1>t, <1>3, FinishType DEF TypeInv, Single, Exit, Role
  <2>2. ~handed /\ ~deleted => Owners' = Owners
    BY <1>t, <1>3 DEF Owners, Exit, TypeInv, IInv, OwnerRules
  <2>3. CountMatches'
    BY <1>t, <1>3, ExitCounts DEF IInv, CountMatches, TypeInv, Exit
  <2> QED
    BY <1>p, <2>1, <2>2, <2>3 DEF IInv, OwnerRules, Owners
<1>4. CASE /\ u \in Members /\ (~handed => u \notin owner) /\ count' = count
           /\ \E w \in {"MODERATOR", "MEMBER"} : role' = [role EXCEPT ![u] = w]
  <2>1. TypeInv'
    BY <1>t, <1>4, FinishType DEF TypeInv, Single, Role
  <2>2. ~handed /\ ~deleted => Owners' = Owners
    BY <1>t, <1>4 DEF Owners, TypeInv, IInv, OwnerRules
  <2>3. Members' = Members
    BY <1>t, <1>4 DEF Members, TypeInv
  <2> QED
    BY <1>4, <1>p, <2>1, <2>2, <2>3 DEF IInv, OwnerRules, CountMatches, Owners
<1> QED
  BY <1>1, <1>2, <1>3, <1>4

(* The community is wound up.                                               *)
LEMMA WindUpStep ==
    ASSUME IInv, WindUp, todo' \in [Handler -> Plans], purged' \in SUBSET User,
           \/ owner' = owner
           \/ owner' = {},
           \A h \in Handler : \/ todo'[h] = todo[h]
                              \/ todo'[h].write = "none",
           UNCHANGED <<private, handed, repaired>>
    PROVE  IInv'
<1>1. TypeInv'
  BY DEF IInv, TypeInv, Single, WindUp, Role, Requests
<1>2. Members' = {} /\ deleted'
  BY DEF WindUp, Members
<1>3. CountMatches'
  BY <1>2, FS_EmptySet DEF CountMatches, WindUp
<1>4. PlanInv'
  BY DEF IInv, PlanInv, Sparing
<1> QED
  BY <1>1, <1>2, <1>3, <1>4 DEF IInv, OwnerRules

LEMMA TxStep ==
    ASSUME IsFiniteSet(User), IInv, NEW h \in Handler, NEW u \in User, Transactions(h, u)
    PROVE  IInv'
<1>t. TypeInv /\ \A x \in Requests : [request EXCEPT ![u] = x] \in [User -> Requests]
  BY DEF IInv, TypeInv
<1>o. ~handed /\ todo[h].write \in Sparing => todo[h].user \notin owner
  BY DEF IInv, PlanInv
<1>1. CASE JoinTx(h, u)
  <2>1. UNCHANGED <<role, count>> \/ (u \notin Members /\ Enter(u))
    BY <1>1 DEF JoinTx
  <2>2. /\ Finish(h) /\ request' = request
        /\ UNCHANGED <<private, owner, deleted, purged, handed, repaired>>
    BY <1>1 DEF JoinTx
  <2> QED
    BY <1>t, <2>1, <2>2, RowStep DEF TypeInv
<1>2. CASE AskTx(h, u)
  <2>1. /\ Finish(h) /\ request' \in [User -> Requests] /\ UNCHANGED <<role, count>>
        /\ UNCHANGED <<private, owner, deleted, purged, handed, repaired>>
    BY <1>2, <1>t DEF AskTx, Requests
  <2> QED
    BY <2>1, RowStep
<1>3. CASE AcceptTx(h, u)
  <2>1. UNCHANGED <<role, count>> \/ (u \notin Members /\ Enter(u))
    BY <1>3 DEF AcceptTx, Joins
  <2>2. /\ Finish(h) /\ request' \in [User -> Requests]
        /\ UNCHANGED <<private, owner, deleted, purged, handed, repaired>>
    BY <1>3, <1>t DEF AcceptTx, Requests, TypeInv
  <2> QED
    BY <2>1, <2>2, RowStep
<1>4. CASE DeclineTx(h, u)
  <2>1. /\ Finish(h) /\ request' \in [User -> Requests] /\ UNCHANGED <<role, count>>
        /\ UNCHANGED <<private, owner, deleted, purged, handed, repaired>>
    BY <1>4, <1>t DEF DeclineTx, Requests, TypeInv
  <2> QED
    BY <2>1, RowStep
<1>5. CASE ExitTx(h, u)
  <2>1. ~handed => u \notin owner
    BY <1>5, <1>o DEF ExitTx, Has, Sparing
  <2>2. UNCHANGED <<role, count>> \/ (u \in Members /\ Exit(u))
    BY <1>5 DEF ExitTx
  <2>3. /\ Finish(h) /\ request' = request
        /\ UNCHANGED <<private, owner, deleted, purged, handed, repaired>>
    BY <1>5 DEF ExitTx
  <2> QED
    BY <1>t, <2>1, <2>2, <2>3, RowStep DEF TypeInv
<1>6. CASE RoleTx(h, u)
  <2>1. todo[h].write \in {"MODERATOR", "MEMBER"} /\ todo[h].user = u
    BY <1>6 DEF RoleTx, IInv, PlanInv
  <2>2. ~handed => u \notin owner
    BY <1>o, <2>1 DEF Sparing
  <2>3. \/ UNCHANGED <<role, count>>
        \/ /\ u \in Members /\ count' = count
           /\ \E w \in {"MODERATOR", "MEMBER"} : role' = [role EXCEPT ![u] = w]
    BY <1>6, <2>1 DEF RoleTx
  <2>4. /\ Finish(h) /\ request' = request
        /\ UNCHANGED <<private, owner, deleted, purged, handed, repaired>>
    BY <1>6 DEF RoleTx
  <2> QED
    BY <1>t, <2>2, <2>3, <2>4, RowStep DEF TypeInv
<1>7. CASE DeleteTx(h, u)
  <2>1. /\ WindUp /\ Finish(h)
        /\ UNCHANGED <<private, owner, purged, handed, repaired>>
    BY <1>7 DEF DeleteTx
  <2> QED
    BY <1>t, <2>1, FinishType, WindUpStep DEF TypeInv
<1> QED
  BY <1>1, <1>2, <1>3, <1>4, <1>5, <1>6, <1>7 DEF Transactions

-----------------------------------------------------------------------------
(* The purge of an account ends the promise of the counter, not the one of  *)
(* the owner, unless a handler is under way.                                *)
LEMMA PurgeStep ==
    ASSUME IInv, NEW u \in User, Purge(u)
    PROVE  IInv'
<1>t. TypeInv /\ Forgotten(u) \in [User -> Requests]
  BY DEF IInv, TypeInv, Forgotten, Requests
<1>1. /\ purged' = purged \cup {u} /\ UNCHANGED <<private, todo, repaired>>
      /\ purged' \in SUBSET User
  BY <1>t DEF Purge, TypeInv
<1>2. CountMatches'
  BY <1>1 DEF CountMatches
<1>3. CASE /\ u \notin owner \/ deleted
           /\ role' = [role EXCEPT ![u] = "none"]
           /\ request' = Forgotten(u)
           /\ UNCHANGED <<owner, deleted, count, handed>>
  <2>1. TypeInv'
    BY <1>t, <1>1, <1>3 DEF TypeInv, Single, Role
  <2>2. PlanInv'
    BY <1>1, <1>3 DEF IInv, PlanInv
  <2>3. OwnerRules'
    BY <1>t, <1>3 DEF IInv, OwnerRules, TypeInv
  <2> QED
    BY <1>2, <2>1, <2>2, <2>3 DEF IInv
<1>4. ASSUME NEW v \in Successors(u),
             u \in owner, ~deleted, owner' = {v},
             role' = [role EXCEPT ![v] = "OWNER", ![u] = "none"],
             request' = Forgotten(u),
             handed' = (handed \/ \E h \in Handler : ~Free(h)),
             UNCHANGED <<deleted, count>>
      PROVE  IInv'
  <2>1. v \in User /\ v # u
    BY <1>4 DEF Successors, Members
  <2>2. TypeInv'
    BY <1>t, <1>1, <1>4, <2>1 DEF TypeInv, Single, Role
  <2>3. PlanInv'
    BY <1>1, <1>4 DEF IInv, PlanInv, Free, Sparing
  <2>4. ~handed => {w \in User : role[w] = "OWNER"} = {u}
    BY <1>t, <1>4 DEF IInv, OwnerRules, TypeInv, Single
  <2>5. ASSUME ~handed' PROVE {w \in User : role'[w] = "OWNER"} = {v}
    <3>1. \A w \in User : role'[w] = CASE w = u -> "none" [] w = v -> "OWNER" [] OTHER -> role[w]
      BY <1>t, <1>4, <2>1 DEF TypeInv
    <3>2. ~handed
      BY <1>4, <2>5
    <3> QED
      BY <2>1, <2>4, <3>1, <3>2
  <2>6. OwnerRules'
    BY <1>4, <2>5 DEF OwnerRules
  <2> QED
    BY <1>2, <2>2, <2>3, <2>6 DEF IInv
<1>5. CASE /\ u \in owner /\ ~deleted
           /\ Successors(u) = {}
           /\ owner' = {}
           /\ WindUp
           /\ UNCHANGED handed
  BY <1>t, <1>1, <1>5, WindUpStep DEF TypeInv
<1> QED
  BY <1>3, <1>4, <1>5 DEF Purge

LEMMA BootStep ==
    ASSUME IInv, Boot
    PROVE  IInv'
<1>1. PICK u \in owner : /\ role[u] # "OWNER"
                         /\ role' = [role EXCEPT ![u] = "OWNER"]
                         /\ repaired' = (repaired \/ role[u] = "none")
  BY DEF Boot
<1>2. UNCHANGED <<private, owner, deleted, count, request, todo, purged, handed>>
  BY DEF Boot
<1>3. TypeInv /\ u \in User
  BY <1>1 DEF IInv, TypeInv
<1>4. TypeInv'
  BY <1>1, <1>2, <1>3 DEF TypeInv, Single, Role
<1>5. CountMatches'
  <2>1. role[u] # "none" => Members' = Members
    BY <1>1, <1>3 DEF Members, TypeInv
  <2> QED
    BY <1>1, <1>2, <2>1 DEF IInv, CountMatches
<1>6. OwnerRules'
  BY <1>1, <1>2, <1>3 DEF IInv, OwnerRules, TypeInv
<1>7. PlanInv'
  BY <1>2 DEF IInv, PlanInv
<1> QED
  BY <1>4, <1>5, <1>6, <1>7 DEF IInv

-----------------------------------------------------------------------------
LEMMA Inductive == ASSUME IsFiniteSet(User) PROVE Spec => []IInv
<1>1. Init => IInv
  <2> SUFFICES ASSUME Init PROVE IInv
    OBVIOUS
  <2>1. PICK u \in User :
          /\ private \in BOOLEAN /\ owner = {u} /\ deleted = FALSE
          /\ role = [v \in User |-> IF v = u THEN "OWNER" ELSE "none"]
          /\ count = 1
          /\ request = [v \in User |-> "none"]
          /\ todo = [h \in Handler |-> Nothing(u)]
          /\ purged = {} /\ handed = FALSE /\ repaired = FALSE
    BY DEF Init
  <2>2. Nothing(u) \in Plans /\ Nothing(u).write = "none"
    BY DEF Nothing, Plans, Writes, Role
  <2>3. TypeInv
    <3>1. role \in [User -> Role] /\ request \in [User -> Requests]
      BY <2>1 DEF Role, Requests
    <3>2. todo \in [Handler -> Plans]
      BY <2>1, <2>2
    <3>3. owner \subseteq User /\ Single /\ purged \subseteq User /\ count \in Int
      BY <2>1 DEF Single
    <3>4. private \in BOOLEAN /\ deleted \in BOOLEAN
      BY <2>1
    <3> QED
      BY <3>1, <3>2, <3>3, <3>4 DEF TypeInv
  <2>4. Members = {u}
    BY <2>1 DEF Members
  <2>5. CountMatches
    BY <2>1, <2>4, FS_Singleton DEF CountMatches
  <2>6. PlanInv
    BY <2>1, <2>2 DEF PlanInv, Sparing
  <2>7. OwnerRules
    BY <2>1 DEF OwnerRules
  <2> QED
    BY <2>3, <2>5, <2>6, <2>7 DEF IInv
<1>2. IInv /\ [Next]_vars => IInv'
  <2> SUFFICES ASSUME IInv, [Next]_vars PROVE IInv'
    OBVIOUS
  <2>1. CASE Next
    BY <2>1, CheckStep, TxStep, PurgeStep, BootStep DEF Next
  <2>2. CASE UNCHANGED vars
    <3>1. TypeInv' /\ PlanInv'
      BY <2>2 DEF vars, IInv, TypeInv, Single, PlanInv
    <3>2. CountMatches' /\ OwnerRules'
      BY <2>2 DEF vars, IInv, CountMatches, OwnerRules, Members
    <3> QED
      BY <3>1, <3>2 DEF IInv
  <2> QED
    BY <2>1, <2>2
<1> QED
  BY <1>1, <1>2, PTL DEF Spec

(* The rows of a community are well typed, and it has one owner at most.    *)
THEOREM TypeCorrect == ASSUME IsFiniteSet(User) PROVE Spec => []TypeOK
<1>1. IInv => TypeOK
  <2> SUFFICES ASSUME IInv PROVE TypeOK
    OBVIOUS
  <2>1. CASE owner = {}
    BY <2>1, FS_EmptySet DEF IInv, TypeInv, TypeOK, Plans, Requests
  <2>2. CASE owner # {}
    <3>1. PICK u \in owner : owner = {u}
      BY <2>2 DEF IInv, TypeInv, Single
    <3>2. Cardinality({u}) = 1
      BY FS_Singleton
    <3>3. Cardinality(owner) <= 1
      BY <3>1, <3>2
    <3> QED
      BY <3>3 DEF IInv, TypeInv, TypeOK, Plans, Requests
  <2> QED
    BY <2>1, <2>2
<1> QED
  BY <1>1, Inductive, PTL

(* memberCount counts the rows, until an account is purged or a boot        *)
(* creates a row: joinCommunity, acceptJoinRequest, leaveCommunity and      *)
(* removeMember count only the row they created or deleted.                 *)
THEOREM CounterCorrect == ASSUME IsFiniteSet(User) PROVE Spec => []CountMatches
<1>1. IInv => CountMatches
  BY DEF IInv
<1> QED
  BY <1>1, Inductive, PTL

(* The owner has the role of owner and nobody else has, through roles,      *)
(* removals, leaves, boots and purges, unless a hand-over overtakes a       *)
(* handler.                                                                 *)
THEOREM OwnerCorrect == ASSUME IsFiniteSet(User) PROVE Spec => []OwnerRules
<1>1. IInv => OwnerRules
  BY DEF IInv
<1> QED
  BY <1>1, Inductive, PTL

-----------------------------------------------------------------------------
(* Nobody is about to walk into a private community.                        *)
DoorInv == private => \A h \in Handler : todo[h].write # "join"

(* What AnsweredOnce says of one person and one step.                       *)
Answers(v) ==
    /\ request[v] = "ACCEPTED" => request'[v] # "DECLINED"
    /\ request[v] = "DECLINED" => request'[v] # "ACCEPTED"
    /\ private /\ role[v] = "none" /\ role'[v] # "none" /\ role'[v] # "OWNER"
          => request[v] = "PENDING" /\ request'[v] = "ACCEPTED"

LEMMA DoorStep ==
    ASSUME IInv, DoorInv, Next
    PROVE  DoorInv'
<1>1. private' = private
  BY DEF Next, Checks, Join, Review, Leave, Remove, ChangeRole, Delete, Plan, Transactions,
         JoinTx, AskTx, AcceptTx, DeclineTx, ExitTx, RoleTx, DeleteTx, Purge, Boot
<1>2. ASSUME NEW h \in Handler, NEW u \in User, Checks(h, u) PROVE DoorInv'
  <2>1. PICK w \in Writes : Plan(h, w, u) /\ (private => w # "join")
    BY <1>2 DEF Checks, Join, Review, Leave, Remove, ChangeRole, Delete, Grantable, Writes, Role
  <2>2. /\ todo'[h] = [write |-> w, user |-> u]
        /\ \A g \in Handler \ {h} : todo'[g] = todo[g]
    BY <2>1, PlanType DEF IInv
  <2>3. todo'[h].write = w
    BY <2>2
  <2>4. ASSUME private, NEW g \in Handler PROVE todo'[g].write # "join"
    BY <2>1, <2>2, <2>3, <2>4 DEF DoorInv
  <2> QED
    BY <1>1, <2>4 DEF DoorInv
<1>3. ASSUME NEW h \in Handler, NEW u \in User, Transactions(h, u) PROVE DoorInv'
  <2>1. Finish(h)
    BY <1>3 DEF Transactions, JoinTx, AskTx, AcceptTx, DeclineTx, ExitTx, RoleTx, DeleteTx
  <2> QED
    BY <1>1, <2>1, FinishType DEF IInv, TypeInv, DoorInv
<1>4. ASSUME todo' = todo PROVE DoorInv'
  BY <1>1, <1>4 DEF DoorInv
<1> QED
  BY <1>2, <1>3, <1>4 DEF Next, Purge, Boot

LEMMA AnswerStep ==
    ASSUME IInv, DoorInv, Next, NEW v \in User
    PROVE  Answers(v)
<1>t. role \in [User -> Role] /\ request \in [User -> Requests]
  BY DEF IInv, TypeInv
<1>1. ASSUME NEW h \in Handler, NEW u \in User, Checks(h, u) PROVE Answers(v)
  BY <1>1 DEF Checks, Join, Review, Leave, Remove, ChangeRole, Delete, Plan, Answers
<1>2. ASSUME NEW h \in Handler, NEW u \in User, Transactions(h, u) PROVE Answers(v)
  <2>1. CASE JoinTx(h, u)
    <3>1. ~private /\ request' = request
      BY <2>1 DEF JoinTx, Has, DoorInv
    <3> QED
      BY <3>1 DEF Answers
  <2>2. CASE AskTx(h, u)
    BY <1>t, <2>2 DEF AskTx, Answers
  <2>3. CASE AcceptTx(h, u)
    <3>1. CASE Waiting(u)
      <4>1. /\ request[u] = "PENDING" /\ request'[u] = "ACCEPTED"
            /\ v # u => request'[v] = request[v]
        BY <1>t, <2>3, <3>1 DEF AcceptTx, Waiting
      <4>2. v # u => role'[v] = role[v]
        BY <1>t, <2>3, <3>1 DEF AcceptTx, Joins, Enter
      <4> QED
        BY <4>1, <4>2 DEF Answers
    <3>2. CASE ~Waiting(u)
      BY <2>3, <3>2 DEF AcceptTx, Answers
    <3> QED
      BY <3>1, <3>2
  <2>4. CASE DeclineTx(h, u)
    BY <1>t, <2>4 DEF DeclineTx, Waiting, Answers
  <2>5. CASE ExitTx(h, u)
    BY <1>t, <2>5 DEF ExitTx, Exit, Answers
  <2>6. CASE RoleTx(h, u)
    BY <1>t, <2>6 DEF RoleTx, Members, Answers
  <2>7. CASE DeleteTx(h, u)
    BY <1>t, <2>7 DEF DeleteTx, WindUp, Answers
  <2> QED
    BY <1>2, <2>1, <2>2, <2>3, <2>4, <2>5, <2>6, <2>7 DEF Transactions
<1>3. ASSUME NEW u \in User, Purge(u) PROVE Answers(v)
  <2>1. request'[v] \in {"none", request[v]}
    BY <1>t, <1>3 DEF Purge, Forgotten, WindUp
  <2>2. role'[v] \in {"none", "OWNER", role[v]}
    BY <1>t, <1>3 DEF Purge, WindUp
  <2> QED
    BY <2>1, <2>2 DEF Answers
<1>4. CASE Boot
  BY <1>t, <1>4 DEF Boot, Answers
<1> QED
  BY <1>1, <1>2, <1>3, <1>4 DEF Next

(* acceptJoinRequest and declineJoinRequest look again at the status inside *)
(* their transaction: a request has one answer, and only an accepted one    *)
(* lets a person into a private community.                                  *)
THEOREM AnswerIsFinal == ASSUME IsFiniteSet(User) PROVE Spec => AnsweredOnce
<1>1. Init => DoorInv
  BY DEF Init, Nothing, DoorInv
<1>2. IInv /\ DoorInv /\ [Next]_vars => DoorInv'
  BY DoorStep DEF vars, DoorInv
<1>3. IInv /\ DoorInv /\ [Next]_vars => [\A v \in User : Answers(v)]_vars
  BY AnswerStep
<1>4. [\A v \in User : Answers(v)]_vars =>
      [\A u \in User :
         /\ request[u] = "ACCEPTED" => request'[u] # "DECLINED"
         /\ request[u] = "DECLINED" => request'[u] # "ACCEPTED"
         /\ private /\ role[u] = "none" /\ role'[u] # "none" /\ role'[u] # "OWNER"
               => request[u] = "PENDING" /\ request'[u] = "ACCEPTED"]_vars
  BY DEF Answers
<1> QED
  BY <1>1, <1>2, <1>3, <1>4, Inductive, PTL DEF Spec, AnsweredOnce
=============================================================================
