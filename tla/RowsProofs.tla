------------------------------ MODULE RowsProofs ------------------------------
(***************************************************************************)
(* Proofs about the components of MC_Rows, for any constants: the caches   *)
(* of the guard, the change of the sign-in address and the conversation,   *)
(* each with its inductive invariant, and the composition, in which each   *)
(* component is shown to behave as it does alone.  What is proved of the   *)
(* one-time codes and the college address (UserOtpProofs) and of the       *)
(* community (CommunitiesProofs) is cited.                                 *)
(***************************************************************************)
EXTENDS MC_Rows, UserOtpProofs

(* What is proved of the community, with its requests for handlers.         *)
CommunityProofs == INSTANCE CommunitiesProofs WITH Handler <- Req

-----------------------------------------------------------------------------
(* The caches of the guard.                                                 *)

CachedAnswer == [ok : BOOLEAN, left : 0..Ttl]
Lookup       == [pc : {"idle", "read", "store"}, at : Instance, ok : BOOLEAN, age : 0..Ttl]

(* An answer that lets a request in although the row no longer does is no   *)
(* older than the change, whether it is cached or still to be stored.       *)
AgeInv == ~allowed =>
    /\ \A i \in Instance : entry[i].ok => entry[i].left + since <= Ttl
    /\ \A r \in Req : look[r].pc = "store" /\ look[r].ok => since <= look[r].age

GuardInv == Guard!TypeOK /\ AgeInv /\ Guard!StaleAtMostTtl

LEMMA NoEntryType == ASSUME Ttl \in Nat PROVE Guard!NoEntry \in CachedAnswer
  BY DEF Guard!NoEntry, CachedAnswer

LEMMA IdleType == ASSUME Ttl \in Nat, NEW i \in Instance PROVE Guard!Idle(i) \in Lookup
  BY DEF Guard!Idle, Lookup

LEMMA GuardTypeStep == ASSUME Ttl \in Nat, Guard!TypeOK, Guard!Next PROVE Guard!TypeOK'
<1>a. entry \in [Instance -> CachedAnswer] /\ look \in [Req -> Lookup]
  BY DEF Guard!TypeOK, CachedAnswer, Lookup
<1>1. ASSUME NEW i \in Instance, Guard!Hit(i) \/ Guard!Change(i) PROVE Guard!TypeOK'
  <2>1. allowed' \in BOOLEAN /\ late' \subseteq {"kept", "read", "slow", "blind"}
    BY <1>1 DEF Guard!Hit, Guard!Change, Guard!LetIn, Guard!TypeOK
  <2> QED
    BY <1>1, <2>1 DEF Guard!Hit, Guard!Change, Guard!TypeOK
<1>2. ASSUME NEW i \in Instance, Guard!Evict(i) \/ Guard!Forget(i) PROVE Guard!TypeOK'
  <2>1. entry' \in [Instance -> CachedAnswer]
    BY <1>a, <1>2, NoEntryType DEF Guard!Evict, Guard!Forget, Guard!Forgotten
  <2> QED
    BY <1>2, <2>1 DEF Guard!Evict, Guard!Forget, Guard!TypeOK, CachedAnswer
<1>3. ASSUME NEW r \in Req, Guard!Miss(r) \/ Guard!ReadRow(r) \/ Guard!Fail(r) PROVE Guard!TypeOK'
  <2>1. /\ [look[r] EXCEPT !.pc = "read", !.age = 0] \in Lookup
        /\ [look[r] EXCEPT !.pc = "store", !.ok = allowed] \in Lookup
        /\ Guard!Idle(look[r].at) \in Lookup
    <3>1. \A x \in Lookup : /\ [x EXCEPT !.pc = "read"] \in Lookup
                             /\ [x EXCEPT !.pc = "store"] \in Lookup
                             /\ [x EXCEPT !.age = 0] \in Lookup
      BY DEF Lookup
    <3>2. \A x \in Lookup : [x EXCEPT !.ok = allowed] \in Lookup
      BY DEF Lookup, Guard!TypeOK
    <3>3. look[r] \in Lookup /\ look[r].at \in Instance
      BY <1>a DEF Lookup
    <3>4. [look[r] EXCEPT !.pc = "read", !.age = 0] \in Lookup
      BY <3>1, <3>3
    <3>5. [look[r] EXCEPT !.pc = "store", !.ok = allowed] \in Lookup
      BY <3>1, <3>2, <3>3
    <3> QED
      BY <3>3, <3>4, <3>5, IdleType
  <2>2. look' \in [Req -> Lookup]
    <3>1. CASE Guard!Miss(r)
      BY <1>a, <2>1, <3>1 DEF Guard!Miss
    <3>2. CASE Guard!ReadRow(r)
      BY <1>a, <2>1, <3>2 DEF Guard!ReadRow
    <3>3. CASE Guard!Fail(r)
      BY <1>a, <2>1, <3>3 DEF Guard!Fail
    <3> QED
      BY <1>3, <3>1, <3>2, <3>3
  <2>3. late' \subseteq {"kept", "read", "slow", "blind"}
    BY <1>3 DEF Guard!Miss, Guard!ReadRow, Guard!Fail, Guard!LetIn, Guard!TypeOK
  <2> QED
    BY <1>3, <2>2, <2>3 DEF Guard!Miss, Guard!ReadRow, Guard!Fail, Guard!TypeOK, Lookup
<1>4. ASSUME NEW r \in Req, Guard!Store(r) PROVE Guard!TypeOK'
  <2>1. /\ Guard!Idle(look[r].at) \in Lookup
        /\ [ok |-> look[r].ok, left |-> Guard!Left(look[r].age)] \in CachedAnswer
    BY <1>a, IdleType DEF Lookup, CachedAnswer, Guard!Left
  <2>2. look' \in [Req -> Lookup] /\ entry' \in [Instance -> CachedAnswer]
    BY <1>a, <1>4, <2>1 DEF Guard!Store
  <2>3. late' \subseteq {"kept", "read", "slow", "blind"}
    BY <1>4 DEF Guard!Store, Guard!LetIn, Guard!TypeOK
  <2> QED
    BY <1>4, <2>2, <2>3 DEF Guard!Store, Guard!TypeOK, Lookup, CachedAnswer
<1>5. CASE Guard!Tick
  <2>1. ASSUME NEW i \in Instance, entry[i].left > 1
        PROVE  [entry[i] EXCEPT !.left = @ - 1] \in CachedAnswer
    BY <1>a, <2>1 DEF CachedAnswer
  <2>2. ASSUME NEW r \in Req, look[r].age < Ttl
        PROVE  [look[r] EXCEPT !.age = @ + 1] \in Lookup
    BY <1>a, <2>2 DEF Lookup
  <2>3. entry' \in [Instance -> CachedAnswer]
    BY <1>a, <1>5, <2>1, NoEntryType DEF Guard!Tick
  <2>4. look' \in [Req -> Lookup]
    BY <1>a, <1>5, <2>2 DEF Guard!Tick
  <2>5. since' \in 0..Ttl
    BY <1>5 DEF Guard!Tick, Guard!TypeOK
  <2> QED
    BY <1>5, <2>3, <2>4, <2>5 DEF Guard!Tick, Guard!TypeOK, CachedAnswer, Lookup
<1> QED
  BY <1>1, <1>2, <1>3, <1>4, <1>5 DEF Guard!Next

LEMMA AgeStep == ASSUME Ttl \in Nat, Guard!TypeOK, AgeInv, Guard!Next PROVE AgeInv'
<1>1. ASSUME NEW i \in Instance, Guard!Hit(i) PROVE AgeInv'
  BY <1>1 DEF Guard!Hit, AgeInv
<1>2. ASSUME NEW i \in Instance, Guard!Evict(i) \/ Guard!Forget(i) PROVE AgeInv'
  BY <1>2 DEF Guard!Evict, Guard!Forget, Guard!Forgotten, Guard!NoEntry, AgeInv, Guard!TypeOK
<1>3. ASSUME NEW i \in Instance, Guard!Change(i) PROVE AgeInv'
  BY <1>3 DEF Guard!Change, AgeInv, Guard!TypeOK
<1>4. ASSUME NEW r \in Req, Guard!Miss(r) \/ Guard!Fail(r) PROVE AgeInv'
  BY <1>4 DEF Guard!Miss, Guard!Fail, Guard!Idle, AgeInv, Guard!TypeOK
<1>5. ASSUME NEW r \in Req, Guard!ReadRow(r) PROVE AgeInv'
  <2>1. look'[r].ok = allowed /\ \A q \in Req \ {r} : look'[q] = look[q]
    BY <1>5 DEF Guard!ReadRow, Guard!TypeOK
  <2> QED
    BY <1>5, <2>1 DEF Guard!ReadRow, AgeInv
<1>6. ASSUME NEW r \in Req, Guard!Store(r) PROVE AgeInv'
  <2>1. /\ look[r].at \in Instance /\ look[r].age \in 0..Ttl /\ look[r].pc = "store"
        /\ look'[r].pc = "idle" /\ \A q \in Req \ {r} : look'[q] = look[q]
    BY <1>6 DEF Guard!Store, Guard!Idle, Guard!TypeOK
  <2>2. /\ entry'[look[r].at] = [ok |-> look[r].ok, left |-> Ttl - look[r].age]
        /\ \A i \in Instance \ {look[r].at} : entry'[i] = entry[i]
    BY <1>6, <2>1 DEF Guard!Store, Guard!Left, Guard!TypeOK
  <2> QED
    BY <1>6, <2>1, <2>2 DEF Guard!Store, AgeInv, Guard!TypeOK
<1>7. CASE Guard!Tick
  <2>1. allowed' = allowed /\ since' = IF since < Ttl THEN since + 1 ELSE since
    BY <1>7 DEF Guard!Tick
  <2>2. ASSUME NEW i \in Instance, ~allowed, entry'[i].ok PROVE entry'[i].left + since' <= Ttl
    <3>1. /\ entry[i].left > 1 /\ entry[i].ok /\ entry'[i].left = entry[i].left - 1
      BY <1>7, <2>2 DEF Guard!Tick, Guard!NoEntry, Guard!TypeOK
    <3> QED
      BY <2>1, <2>2, <3>1 DEF AgeInv, Guard!TypeOK
  <2>3. ASSUME NEW r \in Req, ~allowed, look'[r].pc = "store", look'[r].ok
        PROVE  since' <= look'[r].age
    <3>1. /\ look[r].pc = "store" /\ look[r].ok
          /\ look'[r].age = IF look[r].age < Ttl THEN look[r].age + 1 ELSE look[r].age
      BY <1>7, <2>3 DEF Guard!Tick, Guard!TypeOK
    <3> QED
      BY <2>1, <2>3, <3>1 DEF AgeInv, Guard!TypeOK
  <2> QED
    BY <2>1, <2>2, <2>3 DEF AgeInv
<1> QED
  BY <1>1, <1>2, <1>3, <1>4, <1>5, <1>6, <1>7 DEF Guard!Next

LEMMA GuardInductive == ASSUME Ttl \in Nat PROVE Guard!Spec => []GuardInv
<1>1. Guard!Init => GuardInv
  <2> SUFFICES ASSUME Guard!Init PROVE GuardInv
    OBVIOUS
  <2>1. entry \in [Instance -> CachedAnswer]
    BY NoEntryType DEF Guard!Init
  <2>2. look \in [Req -> Lookup]
    BY IdleType DEF Guard!Init
  <2>3. since \in 0..Ttl /\ clearing \subseteq Instance
    BY DEF Guard!Init
  <2>4. open \in BOOLEAN /\ allowed = TRUE /\ late = {}
    BY DEF Guard!Init
  <2>5. Guard!TypeOK
    BY <2>1, <2>2, <2>3, <2>4 DEF Guard!TypeOK, CachedAnswer, Lookup
  <2> QED
    BY <2>4, <2>5 DEF GuardInv, AgeInv, Guard!StaleAtMostTtl
<1>2. GuardInv /\ [Guard!Next]_(Guard!vars) => GuardInv'
  <2> SUFFICES ASSUME GuardInv, [Guard!Next]_(Guard!vars) PROVE GuardInv'
    OBVIOUS
  <2>1. CASE Guard!Next
    <3>1. ASSUME NEW i \in Instance, Guard!Hit(i) PROVE late' = late
      BY <3>1 DEF Guard!Hit, Guard!LetIn, Guard!Overdue, GuardInv, AgeInv, Guard!TypeOK
    <3>2. ASSUME NEW r \in Req, Guard!Store(r) PROVE late' \subseteq late \cup {"slow"}
      <4>1. look[r].ok /\ Guard!Overdue => look[r].age = Ttl
        BY <3>2 DEF Guard!Store, Guard!Overdue, GuardInv, AgeInv, Guard!TypeOK
      <4> QED
        BY <3>2, <4>1 DEF Guard!Store, Guard!LetIn
    <3>3. ASSUME NEW r \in Req, Guard!Fail(r)
          PROVE  late' \subseteq late \cup IF open THEN {"blind"} ELSE {}
      BY <3>3 DEF Guard!Fail, Guard!LetIn
    <3>4. open' = open /\ Guard!StaleAtMostTtl'
      <4>1. open' = open
        BY <2>1 DEF Guard!Next, Guard!Hit, Guard!Evict, Guard!Change, Guard!Forget, Guard!Miss,
                    Guard!ReadRow, Guard!Store, Guard!Fail, Guard!Tick
      <4>2. \/ late' = late
            \/ late' \subseteq late \cup {"slow"}
            \/ late' \subseteq late \cup IF open THEN {"blind"} ELSE {}
        BY <2>1, <3>1, <3>2, <3>3 DEF Guard!Next, Guard!Evict, Guard!Change, Guard!Forget,
                                      Guard!Miss, Guard!ReadRow, Guard!Tick
      <4> QED
        BY <4>1, <4>2 DEF GuardInv, Guard!StaleAtMostTtl
    <3> QED
      BY <2>1, <3>4, GuardTypeStep, AgeStep DEF GuardInv
  <2>2. CASE UNCHANGED Guard!vars
    BY <2>2 DEF Guard!vars, GuardInv, Guard!TypeOK, AgeInv, Guard!StaleAtMostTtl
  <2> QED
    BY <2>1, <2>2
<1> QED
  BY <1>1, <1>2, PTL DEF Guard!Spec


-----------------------------------------------------------------------------
(* The change of the sign-in address.                                       *)

Changing == [pc : AddressChange!PC, addr : Email, old : Email]

Halfway == AddressChange!Halfway

(* A change under way has read the address the row still has; at most one   *)
(* has changed the provider and not yet the row, and it is to its address.  *)
HalfInv == ~broken /\ ~overlap =>
    /\ \A r \in Req : change[r].pc # "idle" => change[r].old = userEmail
    /\ \A r, q \in Halfway : r = q
    /\ \A r \in Halfway : auth = change[r].addr
    /\ Halfway = {} => auth = userEmail

EmailInv == AddressChange!TypeOK /\ HalfInv

LEMMA IdleChange == ASSUME Email # {} PROVE AddressChange!Idle \in Changing
  <1>1. AddressChange!Start \in Email
    BY DEF AddressChange!Start
  <1>2. QED
    BY <1>1 DEF AddressChange!Idle, AddressChange!PC, Changing

LEMMA EmailTypeStep ==
    ASSUME Email # {}, AddressChange!TypeOK, AddressChange!Next
    PROVE  AddressChange!TypeOK'
  <1>a. change \in [Req -> Changing] /\ AddressChange!Idle \in Changing
    BY IdleChange DEF AddressChange!TypeOK, Changing
  <1>b. \A x \in Changing, p \in AddressChange!PC : [x EXCEPT !.pc = p] \in Changing
    BY DEF Changing
  <1>c. ASSUME NEW r \in Req,
               \/ AddressChange!Finish(r)
               \/ \E p \in AddressChange!PC : AddressChange!To(r, p)
        PROVE  change' \in [Req -> Changing]
    BY <1>a, <1>b, <1>c DEF AddressChange!Finish, AddressChange!To
  <1>1. ASSUME NEW r \in Req, NEW a \in Email, AddressChange!Verify(r, a)
        PROVE  AddressChange!TypeOK'
    <2>1. [pc |-> "verified", addr |-> a, old |-> userEmail] \in Changing
      BY DEF Changing, AddressChange!PC, AddressChange!TypeOK
    <2>2. change' \in [Req -> Changing]
      BY <1>a, <1>1, <2>1 DEF AddressChange!Verify
    <2>3. QED
      BY <1>1, <2>2 DEF AddressChange!Verify, AddressChange!TypeOK, Changing
  <1>2. ASSUME NEW r \in Req,
               \/ AddressChange!CheckFree(r) \/ AddressChange!SetAuth(r) \/ AddressChange!SetRow(r)
               \/ AddressChange!RestoreAuth(r) \/ AddressChange!Die(r)
        PROVE  AddressChange!TypeOK'
    <2>1. change' \in [Req -> Changing]
      BY <1>2, <1>c DEF AddressChange!CheckFree, AddressChange!SetAuth, AddressChange!SetRow,
            AddressChange!RestoreAuth, AddressChange!Die, AddressChange!PC
    <2>2. change[r].addr \in Email /\ change[r].old \in Email
      BY <1>a DEF Changing
    <2>3. auth' \in Email /\ userEmail' \in Email /\ held' = held
      BY <1>2, <2>2 DEF AddressChange!CheckFree, AddressChange!SetAuth, AddressChange!SetRow,
            AddressChange!RestoreAuth, AddressChange!Die, AddressChange!Previous, AddressChange!TypeOK
    <2>4. broken' \in BOOLEAN /\ overlap' \in BOOLEAN
      BY <1>2 DEF AddressChange!CheckFree, AddressChange!SetAuth, AddressChange!SetRow,
            AddressChange!RestoreAuth, AddressChange!Die, AddressChange!TypeOK
    <2>5. QED
      BY <2>1, <2>3, <2>4 DEF AddressChange!TypeOK, Changing
  <1>3. ASSUME NEW a \in Email, AddressChange!Others(a) PROVE AddressChange!TypeOK'
    BY <1>3 DEF AddressChange!Others, AddressChange!TypeOK
  <1>4. QED
    BY <1>1, <1>2, <1>3 DEF AddressChange!Next

LEMMA HalfStep ==
    ASSUME AddressChange!TypeOK, HalfInv, AddressChange!Next
    PROVE  HalfInv'
  <1>a. \A q \in Req : q \in Halfway <=> change[q].pc \in {"row", "restore"}
    BY DEF Halfway, AddressChange!Halfway
  <1>b. \A q \in Req : q \in Halfway' <=> change'[q].pc \in {"row", "restore"}
    BY DEF Halfway, AddressChange!Halfway
  <1>h. Halfway \subseteq Req /\ Halfway' \subseteq Req
    BY DEF Halfway, AddressChange!Halfway
  <1>c. ASSUME NEW r \in Req, NEW p, AddressChange!To(r, p)
        PROVE  /\ change'[r].pc = p /\ change'[r].old = change[r].old
               /\ change'[r].addr = change[r].addr
               /\ \A q \in Req \ {r} : change'[q] = change[q]
    BY <1>c DEF AddressChange!To, AddressChange!TypeOK
  <1>d. ASSUME NEW r \in Req, AddressChange!Finish(r)
        PROVE  /\ change'[r].pc = "idle"
               /\ \A q \in Req \ {r} : change'[q] = change[q]
    BY <1>d DEF AddressChange!Finish, AddressChange!Idle, AddressChange!TypeOK
  (* A step of a request before or after its critical part.                 *)
  <1>q. ASSUME NEW r \in Req, r \notin Halfway, Halfway' = Halfway,
               UNCHANGED <<auth, userEmail, broken, overlap>>,
               ~broken /\ ~overlap /\ change'[r].pc # "idle" => change'[r].old = userEmail,
               \A q \in Req \ {r} : change'[q] = change[q]
        PROVE  HalfInv'
    <2>1. SUFFICES ASSUME ~broken, ~overlap PROVE HalfInv'
      BY <1>q DEF HalfInv
    <2>2. \A q \in Req : change'[q].pc # "idle" => change'[q].old = userEmail'
      BY <1>q, <2>1 DEF HalfInv
    <2>3. \A q \in Halfway : change'[q] = change[q]
      BY <1>q, <1>h
    <2>4. QED
      BY <1>q, <2>1, <2>2, <2>3 DEF HalfInv
  <1>1. ASSUME NEW r \in Req, NEW a \in Email, AddressChange!Verify(r, a) PROVE HalfInv'
    <2>1. /\ change'[r].pc = "verified" /\ change'[r].old = userEmail
          /\ \A q \in Req \ {r} : change'[q] = change[q]
          /\ change[r].pc = "idle" /\ UNCHANGED <<auth, userEmail, broken, overlap>>
      BY <1>1 DEF AddressChange!Verify, AddressChange!At, AddressChange!TypeOK
    <2>2. Halfway' = Halfway
      BY <1>a, <1>b, <1>h, <2>1
    <2>3. QED
      BY <1>a, <1>q, <2>1, <2>2
  <1>2. ASSUME NEW r \in Req, AddressChange!CheckFree(r) PROVE HalfInv'
    <2>1. /\ change[r].pc = "verified" /\ UNCHANGED <<auth, userEmail, broken, overlap>>
          /\ change'[r].pc \in {"idle", "provider"}
          /\ change'[r].pc # "idle" => change'[r].old = change[r].old
          /\ \A q \in Req \ {r} : change'[q] = change[q]
      BY <1>2, <1>c, <1>d DEF AddressChange!CheckFree, AddressChange!At
    <2>2. Halfway' = Halfway
      BY <1>a, <1>b, <1>h, <2>1
    <2>3. QED
      BY <1>a, <1>q, <2>1, <2>2 DEF HalfInv
  <1>3. ASSUME NEW r \in Req, AddressChange!SetAuth(r) PROVE HalfInv'
    <2>1. change[r].pc = "provider" /\ userEmail' = userEmail
      BY <1>3 DEF AddressChange!SetAuth, AddressChange!At
    <2>2. CASE AddressChange!Finish(r) /\ UNCHANGED <<auth, broken, overlap>>
      <3>1. Halfway' = Halfway
        BY <1>a, <1>b, <1>d, <1>h, <2>1, <2>2
      <3>2. QED
        BY <1>a, <1>d, <1>q, <2>1, <2>2, <3>1
    <2>3. CASE /\ auth' = change[r].addr /\ AddressChange!To(r, "row") /\ broken' = broken
               /\ overlap' = (overlap \/ Halfway # {})
      <3>1. SUFFICES ASSUME ~broken, ~overlap, Halfway = {} PROVE HalfInv'
        BY <2>3 DEF HalfInv
      <3>2. Halfway' = {r}
        BY <1>a, <1>b, <1>c, <1>h, <2>3, <3>1
      <3>3. QED
        BY <1>c, <2>1, <2>3, <3>1, <3>2 DEF HalfInv
    <2>4. CASE broken'
      BY <2>4 DEF HalfInv
    <2>5. QED
      BY <1>3, <2>2, <2>3, <2>4 DEF AddressChange!SetAuth, Halfway
  <1>4. ASSUME NEW r \in Req, AddressChange!SetRow(r) PROVE HalfInv'
    <2>1. change[r].pc = "row" /\ r \in Halfway /\ UNCHANGED <<auth, broken>>
      BY <1>4, <1>a DEF AddressChange!SetRow, AddressChange!At
    <2>2. CASE AddressChange!To(r, "restore") /\ UNCHANGED <<userEmail, overlap>>
      <3>1. Halfway' = Halfway
        BY <1>a, <1>b, <1>c, <1>h, <2>1, <2>2
      <3>2. QED
        BY <1>a, <1>c, <2>1, <2>2, <3>1 DEF HalfInv
    <2>3. CASE /\ userEmail' = change[r].addr /\ AddressChange!Finish(r)
               /\ overlap' = (overlap \/ \E q \in Req \ {r} : ~AddressChange!At(q, "idle"))
      <3>1. SUFFICES ASSUME ~broken, ~overlap,
                            \A q \in Req \ {r} : change[q].pc = "idle"
                     PROVE  HalfInv'
        BY <2>1, <2>3 DEF HalfInv, AddressChange!At
      <3>2. \A q \in Req : change'[q].pc = "idle"
        BY <1>d, <2>3, <3>1
      <3>3. Halfway' = {}
        BY <1>b, <1>h, <3>2
      <3>4. auth' = userEmail'
        BY <2>1, <2>3, <3>1 DEF HalfInv
      <3>5. QED
        BY <3>2, <3>3, <3>4 DEF HalfInv
    <2>4. QED
      BY <1>4, <2>2, <2>3 DEF AddressChange!SetRow
  <1>5. ASSUME NEW r \in Req, AddressChange!RestoreAuth(r) PROVE HalfInv'
    <2>1. /\ r \in Halfway /\ change[r].pc # "idle" /\ AddressChange!Finish(r)
          /\ UNCHANGED <<userEmail, overlap>>
          /\ broken' \/ (auth' = change[r].old /\ broken' = broken)
      BY <1>5, <1>a DEF AddressChange!RestoreAuth, AddressChange!At, AddressChange!Previous
    <2>2. SUFFICES ASSUME ~broken, ~overlap, auth' = change[r].old PROVE HalfInv'
      BY <2>1 DEF HalfInv
    <2>3. Halfway' = {}
      BY <1>a, <1>b, <1>d, <1>h, <2>1, <2>2 DEF HalfInv
    <2>4. auth' = userEmail'
      BY <2>1, <2>2 DEF HalfInv
    <2>5. QED
      BY <1>d, <2>1, <2>2, <2>3, <2>4 DEF HalfInv
  <1>6. ASSUME NEW r \in Req, AddressChange!Die(r) PROVE HalfInv'
    <2>1. /\ AddressChange!Finish(r) /\ UNCHANGED <<auth, userEmail, overlap>>
          /\ broken' = (broken \/ r \in Halfway)
      BY <1>6 DEF AddressChange!Die, Halfway
    <2>2. SUFFICES ASSUME ~broken, ~overlap, r \notin Halfway PROVE HalfInv'
      BY <2>1 DEF HalfInv
    <2>3. Halfway' = Halfway
      BY <1>a, <1>b, <1>d, <1>h, <2>1, <2>2
    <2>4. QED
      <3>1. broken' = broken
        BY <2>1, <2>2 DEF AddressChange!TypeOK
      <3>2. QED
        BY <1>d, <1>q, <2>1, <2>2, <2>3, <3>1
  <1>7. ASSUME NEW a \in Email, AddressChange!Others(a) PROVE HalfInv'
    BY <1>7 DEF AddressChange!Others, HalfInv, Halfway, AddressChange!Halfway
  <1>8. QED
    BY <1>1, <1>2, <1>3, <1>4, <1>5, <1>6, <1>7 DEF AddressChange!Next

LEMMA EmailInductive == ASSUME Email # {} PROVE AddressChange!Spec => []EmailInv
  <1>1. AddressChange!Init => EmailInv
    <2> SUFFICES ASSUME AddressChange!Init PROVE EmailInv
      OBVIOUS
    <2>1. AddressChange!Start \in Email
      BY DEF AddressChange!Start
    <2>2. change \in [Req -> Changing] /\ \A r \in Req : change[r].pc = "idle"
      BY IdleChange DEF AddressChange!Init, AddressChange!Idle
    <2>3. AddressChange!TypeOK
      BY <2>1, <2>2 DEF AddressChange!Init, AddressChange!TypeOK, Changing
    <2>4. Halfway = {}
      BY <2>2 DEF Halfway, AddressChange!Halfway
    <2>5. QED
      BY <2>2, <2>3, <2>4 DEF EmailInv, HalfInv, AddressChange!Init
  <1>2. EmailInv /\ [AddressChange!Next]_(AddressChange!vars) => EmailInv'
    <2> SUFFICES ASSUME EmailInv, [AddressChange!Next]_(AddressChange!vars) PROVE EmailInv'
      OBVIOUS
    <2>1. CASE AddressChange!Next
      BY <2>1, EmailTypeStep, HalfStep DEF EmailInv
    <2>2. CASE UNCHANGED AddressChange!vars
      BY <2>2 DEF EmailInv, AddressChange!vars, AddressChange!TypeOK, HalfInv, Halfway,
                  AddressChange!Halfway
    <2>3. QED
      BY <2>1, <2>2
  <1>3. QED
    BY <1>1, <1>2, PTL DEF AddressChange!Spec

-----------------------------------------------------------------------------
(* The conversation.                                                        *)

Clearing(u) == {h \in Req : Chat!Clears(h, u)}

(* Where no two clears of a user overlapped, the row has the latest time,   *)
(* and a clear under way has a later one.                                   *)
ClearedInv ==
    /\ \A u \in Person : latest[u] <= clock
    /\ \A u \in Person : \A h \in Clearing(u) : doing[h].at <= clock
    /\ \A u \in Person \ lapped :
          /\ line[u].cleared = latest[u]
          /\ \A h \in Clearing(u) : doing[h].at > latest[u]
          /\ \A g, h \in Clearing(u) : g = h

ChatInv == Chat!TypeOK /\ ClearedInv

Time    == 0..MaxClock
Line    == [left : Time, deleted : BOOLEAN, cleared : Time]
Message == [at : Time, key : Key, keyed : BOOLEAN]
Draft   == [by : Person, sent : {"not", "socket", "http"}]

(* What a handler may have to do, with the messages of M in the log.        *)
Doings(M) == {Chat!Nothing}
                \cup [op : {"look", "unified", "core"}, key : Key]
                \cup [op : {"clear", "delete"}, user : Person, at : Time]
                \cup [op : {"hide"}, user : Person, msg : M]
                \cup [op : {"leave", "enter"}, user : Person]

LEMMA ChatTyped ==
    Chat!TypeOK <=>
        /\ kind \in {"DM", "GROUP", "INSTANT_MATCH"}
        /\ line \in [Person -> Line]
        /\ log \subseteq Message
        /\ hidden \in [Person -> SUBSET log]
        /\ draft \in [Key -> Draft]
        /\ doing \in [Req -> Doings(log)]
        /\ clock \in Time
        /\ latest \in [Person -> Time]
        /\ lapped \subseteq Person
  BY DEF Chat!TypeOK, Time, Line, Message, Draft, Doings

(* A handler that starts or ends something.                                 *)
LEMMA DoingStep ==
    ASSUME doing \in [Req -> Doings(log)], NEW h \in Req,
           \/ Chat!Finish(h)
           \/ \E t \in Doings(log) : Chat!Plan(h, t)
    PROVE  doing' \in [Req -> Doings(log)]
  <1>1. Chat!Nothing \in Doings(log)
    BY DEF Doings
  <1>2. QED
    BY <1>1 DEF Chat!Finish, Chat!Plan

LEMMA ChatTypeStep ==
    ASSUME MaxClock \in Nat, Chat!TypeOK, Chat!Next
    PROVE  Chat!TypeOK'
  <1>t. /\ kind \in {"DM", "GROUP", "INSTANT_MATCH"}
        /\ line \in [Person -> Line]
        /\ log \subseteq Message
        /\ hidden \in [Person -> SUBSET log]
        /\ draft \in [Key -> Draft]
        /\ doing \in [Req -> Doings(log)]
        /\ clock \in Time
        /\ latest \in [Person -> Time]
        /\ lapped \subseteq Person
    BY ChatTyped
  <1>s. Chat!Stamp => clock' \in Time /\ clock + 1 \in Time
    BY <1>t DEF Chat!Stamp, Time
  (* A step that moves a handler and a line.                                *)
  <1>q. ASSUME doing' \in [Req -> Doings(log)], line' \in [Person -> Line],
               draft' \in [Key -> Draft], clock' \in Time, latest' \in [Person -> Time],
               lapped' \subseteq Person, hidden' \in [Person -> SUBSET log],
               UNCHANGED <<kind, log>>
        PROVE  Chat!TypeOK'
    BY <1>t, <1>q DEF Chat!TypeOK, Time, Line, Message, Draft, Doings
  <1>1. ASSUME NEW h \in Req, NEW k \in Key, Chat!SendSocket(h, k) \/ Chat!SendHttp(h, k)
        PROVE  Chat!TypeOK'
    <2>1. [op |-> "look", key |-> k] \in Doings(log) /\ [op |-> "core", key |-> k] \in Doings(log)
      BY DEF Doings
    <2>2. doing' \in [Req -> Doings(log)]
      BY <1>1, <1>t, <2>1, DoingStep DEF Chat!SendSocket, Chat!SendHttp
    <2>3. draft' \in [Key -> Draft]
      BY <1>1, <1>t DEF Chat!SendSocket, Chat!SendHttp, Draft
    <2>4. QED
      BY <1>1, <1>q, <1>t, <2>2, <2>3 DEF Chat!SendSocket, Chat!SendHttp
  <1>2. ASSUME NEW h \in Req, Chat!Look(h) PROVE Chat!TypeOK'
    <2>1. doing[h].op = "look" => [doing[h] EXCEPT !.op = "unified"] \in Doings(log)
      BY <1>t DEF Doings, Chat!Nothing
    <2>2. doing' \in [Req -> Doings(log)]
      BY <1>2, <1>t, <2>1, DoingStep DEF Chat!Look
    <2>3. QED
      BY <1>2, <1>q, <1>t, <2>2 DEF Chat!Look
  <1>3. ASSUME NEW h \in Req, Chat!WriteUnified(h) \/ Chat!WriteCore(h) PROVE Chat!TypeOK'
    <2>1. PICK keyed \in BOOLEAN : log' = log \cup {Chat!Message(doing[h].key, keyed)}
      BY <1>3 DEF Chat!WriteUnified, Chat!WriteCore
    <2>2. doing[h].key \in Key
      <3>1. doing[h] \in Doings(log) /\ doing[h].op \in {"unified", "core"}
        BY <1>3, <1>t DEF Chat!WriteUnified, Chat!WriteCore
      <3>2. QED
        BY <3>1 DEF Doings, Chat!Nothing
    <2>3. log' \subseteq Message /\ log \subseteq log'
      BY <1>3, <1>s, <1>t, <2>1, <2>2
         DEF Chat!WriteUnified, Chat!WriteCore, Chat!Message, Message
    <2>4. doing' \in [Req -> Doings(log)]
      BY <1>3, <1>t, DoingStep DEF Chat!WriteUnified, Chat!WriteCore
    <2>5. Doings(log) \subseteq Doings(log')
      BY <2>3 DEF Doings
    <2>6. doing' \in [Req -> Doings(log')]
      BY <2>4, <2>5
    <2>7. line' \in [Person -> Line]
      BY <1>3, <1>t DEF Chat!WriteUnified, Chat!WriteCore, Chat!Revived, Line
    <2>8. hidden' \in [Person -> SUBSET log']
      BY <1>3, <1>t, <2>3 DEF Chat!WriteUnified, Chat!WriteCore
    <2>9. clock' \in Time /\ UNCHANGED <<kind, draft, latest, lapped>>
      BY <1>3, <1>s DEF Chat!WriteUnified, Chat!WriteCore
    <2>10. QED
      BY <1>t, <2>3, <2>6, <2>7, <2>8, <2>9
         DEF Chat!TypeOK, Time, Line, Message, Draft, Doings
  <1>4. ASSUME NEW h \in Req, Chat!Refuse(h) PROVE Chat!TypeOK'
    BY <1>4, <1>q, <1>t, DoingStep DEF Chat!Refuse
  <1>5. ASSUME NEW h \in Req, NEW u \in Person, Chat!Clear(h, u) PROVE Chat!TypeOK'
    <2>1. \A op \in {"clear", "delete"} :
             [op |-> op, user |-> u, at |-> clock + 1] \in Doings(log)
      BY <1>5, <1>s DEF Chat!Clear, Doings
    <2>2. doing' \in [Req -> Doings(log)]
      BY <1>5, <1>t, <2>1, DoingStep DEF Chat!Clear
    <2>3. QED
      BY <1>5, <1>q, <1>s, <1>t, <2>2 DEF Chat!Clear
  <1>6. ASSUME NEW h \in Req, NEW u \in Person, Chat!ClearTx(h, u) PROVE Chat!TypeOK'
    <2>1. doing[h].at \in Time
      BY <1>6, <1>t DEF Chat!ClearTx, Chat!Clears, Doings, Chat!Nothing
    <2>2. line' \in [Person -> Line] /\ latest' \in [Person -> Time]
      BY <1>6, <1>t, <2>1 DEF Chat!ClearTx, Chat!DeletedAt, Line
    <2>3. doing' \in [Req -> Doings(log)]
      BY <1>6, <1>t, DoingStep DEF Chat!ClearTx
    <2>4. QED
      BY <1>6, <1>q, <1>t, <2>2, <2>3 DEF Chat!ClearTx
  <1>7. ASSUME NEW h \in Req, NEW u \in Person, Chat!Hide(h, u) PROVE Chat!TypeOK'
    <2>1. \A m \in log : [op |-> "hide", user |-> u, msg |-> m] \in Doings(log)
      BY DEF Doings
    <2>2. doing' \in [Req -> Doings(log)]
      BY <1>7, <1>t, <2>1, DoingStep DEF Chat!Hide
    <2>3. QED
      BY <1>7, <1>q, <1>t, <2>2 DEF Chat!Hide
  <1>8. ASSUME NEW h \in Req, NEW u \in Person, Chat!HideTx(h, u) PROVE Chat!TypeOK'
    <2>1. doing[h].msg \in log
      BY <1>8, <1>t DEF Chat!HideTx, Doings, Chat!Nothing
    <2>2. hidden' \in [Person -> SUBSET log]
      BY <1>8, <1>t, <2>1 DEF Chat!HideTx
    <2>3. QED
      BY <1>8, <1>q, <1>t, <2>2, DoingStep DEF Chat!HideTx
  <1>9. ASSUME NEW h \in Req, NEW u \in Person, Chat!Leave(h, u) \/ Chat!Enter(h, u)
        PROVE  Chat!TypeOK'
    <2>1. /\ [op |-> "leave", user |-> u] \in Doings(log)
          /\ [op |-> "enter", user |-> u] \in Doings(log)
      BY DEF Doings
    <2>2. doing' \in [Req -> Doings(log)]
      BY <1>9, <1>t, <2>1, DoingStep DEF Chat!Leave, Chat!Enter
    <2>3. QED
      BY <1>9, <1>q, <1>t, <2>2 DEF Chat!Leave, Chat!Enter
  <1>10. ASSUME NEW h \in Req, NEW u \in Person, Chat!LeaveTx(h, u) PROVE Chat!TypeOK'
    <2>1. line' \in [Person -> Line]
      BY <1>10, <1>s, <1>t DEF Chat!LeaveTx, Line
    <2>2. QED
      BY <1>10, <1>q, <1>s, <1>t, <2>1, DoingStep DEF Chat!LeaveTx
  <1>11. ASSUME NEW h \in Req, NEW u \in Person, Chat!EnterTx(h, u) \/ Chat!StartDM(u)
         PROVE  Chat!TypeOK'
    <2>1. \A x \in Line : /\ [x EXCEPT !.deleted = FALSE] \in Line
                          /\ Chat!Entered(x) \in Line
      <3>1. 0 \in Time
        BY DEF Time
      <3>2. \A x \in Line : /\ [x EXCEPT !.deleted = FALSE] \in Line
                            /\ [x EXCEPT !.left = 0] \in Line
        BY <3>1 DEF Line
      <3>3. QED
        BY <3>2 DEF Chat!Entered
    <2>2. line' \in [Person -> Line]
      <3>1. CASE Chat!EnterTx(h, u)
        BY <1>t, <2>1, <3>1 DEF Chat!EnterTx
      <3>2. CASE Chat!StartDM(u)
        BY <1>t, <2>1, <3>2 DEF Chat!StartDM
      <3>3. QED
        BY <1>11, <3>1, <3>2
    <2>3. doing' \in [Req -> Doings(log)]
      BY <1>11, <1>t, DoingStep DEF Chat!EnterTx, Chat!StartDM
    <2>4. QED
      BY <1>11, <1>q, <1>t, <2>2, <2>3 DEF Chat!EnterTx, Chat!StartDM
  <1>12. QED
    BY <1>1, <1>2, <1>3, <1>4, <1>5, <1>6, <1>7, <1>8, <1>9, <1>10, <1>11 DEF Chat!Next

LEMMA ClearedStep ==
    ASSUME MaxClock \in Nat, Chat!TypeOK, ClearedInv, Chat!Next
    PROVE  ClearedInv'
  <1>t. /\ line \in [Person -> Line] /\ doing \in [Req -> Doings(log)]
        /\ latest \in [Person -> Time] /\ clock \in Time /\ Time \subseteq Nat
    BY ChatTyped DEF Time
  <1>n. clock \in Nat /\ \A u \in Person : latest[u] \in Nat
    BY <1>t
  <1>c. \A u \in Person, h \in Req : h \in Clearing(u) <=> Chat!Clears(h, u)
    BY DEF Clearing
  <1>d. \A u \in Person : Clearing(u) \subseteq Req
    BY DEF Clearing
  <1>a. ASSUME NEW u \in Person, NEW g \in Clearing(u) PROVE doing[g].at \in Nat
    <2>1. doing[g] \in Doings(log) /\ doing[g].op \in {"clear", "delete"}
      BY <1>t, <1>a DEF Clearing, Chat!Clears
    <2>2. doing[g].at \in Time
      BY <2>1 DEF Doings, Chat!Nothing
    <2>3. QED
      BY <1>t, <2>2
  (* A step that begins no clear and ends none.                             *)
  <1>q. ASSUME NEW h \in Req,
               \A g \in Req \ {h} : doing'[g] = doing[g],
               doing'[h] = doing[h] \/ doing'[h].op \notin {"clear", "delete"},
               UNCHANGED <<latest, lapped>>,
               clock' = clock \/ Chat!Stamp,
               \A u \in Person : line'[u].cleared = line[u].cleared
        PROVE  ClearedInv'
    <2>1. clock' \in Nat /\ clock <= clock'
      BY <1>n, <1>q DEF Chat!Stamp
    <2>2. \A u \in Person : \A g \in Clearing(u)' : g \in Clearing(u) /\ doing'[g] = doing[g]
      BY <1>q DEF Clearing, Chat!Clears
    <2>3. \A u \in Person : latest'[u] <= clock'
      BY <1>n, <1>q, <2>1 DEF ClearedInv
    <2>4. \A u \in Person : \A g \in Clearing(u)' : doing'[g].at <= clock'
      BY <1>a, <1>n, <2>1, <2>2 DEF ClearedInv
    <2>5. \A u \in Person \ lapped' : \A g \in Clearing(u)' : doing'[g].at > latest'[u]
      BY <1>q, <2>2 DEF ClearedInv
    <2>6. \A u \in Person \ lapped' : /\ line'[u].cleared = latest'[u]
                                      /\ \A f, g \in Clearing(u)' : f = g
      BY <1>q, <2>2 DEF ClearedInv
    <2>7. QED
      BY <2>3, <2>4, <2>5, <2>6 DEF ClearedInv
  <1>f. ASSUME NEW h \in Req, Chat!Finish(h)
        PROVE  /\ doing'[h].op = "none" /\ \A g \in Req \ {h} : doing'[g] = doing[g]
    BY <1>f, <1>t DEF Chat!Finish, Chat!Nothing
  <1>p. ASSUME NEW h \in Req, NEW t, Chat!Plan(h, t)
        PROVE  /\ doing'[h] = t /\ \A g \in Req \ {h} : doing'[g] = doing[g]
    BY <1>p, <1>t DEF Chat!Plan
  <1>1. ASSUME NEW h \in Req, NEW k \in Key, Chat!SendSocket(h, k) \/ Chat!SendHttp(h, k)
        PROVE  ClearedInv'
    <2>1. PICK t : Chat!Plan(h, t) /\ t.op \in {"look", "core"}
      BY <1>1 DEF Chat!SendSocket, Chat!SendHttp
    <2>2. QED
      BY <1>1, <1>p, <1>q, <2>1 DEF Chat!SendSocket, Chat!SendHttp
  <1>2. ASSUME NEW h \in Req, Chat!Look(h) PROVE ClearedInv'
    <2>1. doing'[h].op \in {"none", "unified"} /\ \A g \in Req \ {h} : doing'[g] = doing[g]
      <3>1. CASE Chat!Finish(h)
        BY <1>f, <3>1
      <3>2. CASE doing' = [doing EXCEPT ![h].op = "unified"]
        <4>1. doing[h] \in [op : {"look", "unified", "core"}, key : Key]
          BY <1>2, <1>t DEF Chat!Look, Doings, Chat!Nothing
        <4>2. QED
          BY <1>t, <3>2, <4>1
      <3>3. QED
        BY <1>2, <3>1, <3>2 DEF Chat!Look
    <2>2. QED
      BY <1>2, <1>q, <2>1 DEF Chat!Look
  <1>3. ASSUME NEW h \in Req, Chat!WriteUnified(h) \/ Chat!WriteCore(h) \/ Chat!Refuse(h)
        PROVE  ClearedInv'
    <2>1. \A u \in Person : line'[u].cleared = line[u].cleared
      BY <1>3, <1>t DEF Chat!WriteUnified, Chat!WriteCore, Chat!Refuse, Chat!Revived, Line
    <2>2. Chat!Finish(h) /\ UNCHANGED <<latest, lapped>> /\ (clock' = clock \/ Chat!Stamp)
      BY <1>3 DEF Chat!WriteUnified, Chat!WriteCore, Chat!Refuse
    <2>3. QED
      BY <1>f, <1>q, <2>1, <2>2
  <1>4. ASSUME NEW h \in Req, NEW u \in Person, Chat!Clear(h, u) PROVE ClearedInv'
    <2>1. PICK op \in {"clear", "delete"} : Chat!Plan(h, [op |-> op, user |-> u, at |-> clock + 1])
      BY <1>4 DEF Chat!Clear
    <2>2. /\ doing'[h] = [op |-> op, user |-> u, at |-> clock + 1]
          /\ \A g \in Req \ {h} : doing'[g] = doing[g]
      BY <1>p, <2>1
    <2>3. /\ clock' = clock + 1 /\ UNCHANGED <<line, latest>>
          /\ lapped' = IF Clearing(u) = {} THEN lapped ELSE lapped \cup {u}
      BY <1>4 DEF Chat!Clear, Chat!Stamp, Clearing
    <2>4. /\ \A v \in Person \ {u} : Clearing(v)' = Clearing(v) \ {h}
          /\ Clearing(u)' = Clearing(u) \cup {h}
      BY <2>2 DEF Clearing, Chat!Clears
    <2>5. \A v \in Person : \A g \in Clearing(v) : doing[g].at \in Nat
      BY <1>a
    <2>6. \A v \in Person : latest'[v] <= clock' /\ latest'[v] < clock + 1
      BY <1>n, <2>3 DEF ClearedInv
    <2>7. \A v \in Person : \A g \in Clearing(v)' : doing'[g].at <= clock'
      <3>1. \A v \in Person : \A g \in Clearing(v)' \ {h} : g \in Clearing(v) /\ doing'[g] = doing[g]
        BY <1>d, <2>2, <2>4
      <3>2. QED
        BY <1>n, <2>2, <2>3, <2>5, <3>1 DEF ClearedInv
    <2>8. ASSUME NEW v \in Person \ lapped'
          PROVE  /\ line'[v].cleared = latest'[v]
                 /\ \A g \in Clearing(v)' : doing'[g].at > latest'[v]
                 /\ \A f, g \in Clearing(v)' : f = g
      <3>1. v \notin lapped /\ line'[v].cleared = latest'[v]
        BY <2>3, <2>8 DEF ClearedInv
      <3>2. CASE v = u
        <4>1. Clearing(v) = {} /\ Clearing(v)' = {h}
          BY <2>3, <2>4, <2>8, <3>2
        <4>2. QED
          BY <1>n, <2>2, <2>6, <3>1, <4>1
      <3>3. CASE v # u
        BY <1>d, <2>2, <2>3, <2>4, <3>1, <3>3 DEF ClearedInv
      <3>4. QED
        BY <3>2, <3>3
    <2>9. QED
      BY <2>6, <2>7, <2>8 DEF ClearedInv
  <1>5. ASSUME NEW h \in Req, NEW u \in Person, Chat!ClearTx(h, u) PROVE ClearedInv'
    <2> DEFINE t == doing[h].at
    <2>1. h \in Clearing(u) /\ t \in Nat
      BY <1>5, <1>t DEF Chat!ClearTx, Clearing, Chat!Clears, Doings, Chat!Nothing
    <2>2. /\ doing'[h].op = "none" /\ \A g \in Req \ {h} : doing'[g] = doing[g]
      BY <1>5, <1>f DEF Chat!ClearTx
    <2>3. /\ UNCHANGED <<clock, lapped>>
          /\ latest'[u] = (IF t > latest[u] THEN t ELSE latest[u])
          /\ \A v \in Person \ {u} : latest'[v] = latest[v] /\ line'[v] = line[v]
      BY <1>5, <1>t DEF Chat!ClearTx
    <2>4. line'[u].cleared = t
      BY <1>5, <1>t DEF Chat!ClearTx, Chat!DeletedAt, Line
    <2>5. \A v \in Person : Clearing(v)' = Clearing(v) \ {h}
      BY <2>2 DEF Clearing, Chat!Clears
    <2>6. t <= clock
      BY <2>1 DEF ClearedInv
    <2>7. \A v \in Person : latest'[v] <= clock'
      BY <1>n, <2>1, <2>3, <2>6 DEF ClearedInv
    <2>8. \A v \in Person : \A g \in Clearing(v)' : doing'[g].at <= clock'
      BY <1>d, <2>2, <2>3, <2>5 DEF ClearedInv
    <2>9. ASSUME NEW v \in Person \ lapped'
          PROVE  /\ line'[v].cleared = latest'[v]
                 /\ \A g \in Clearing(v)' : doing'[g].at > latest'[v]
                 /\ \A f, g \in Clearing(v)' : f = g
      <3>1. CASE v = u
        <4>1. t > latest[u] /\ Clearing(v)' = {}
          BY <2>1, <2>3, <2>5, <2>9, <3>1 DEF ClearedInv
        <4>2. QED
          BY <2>3, <2>4, <3>1, <4>1
      <3>2. CASE v # u
        BY <1>d, <2>2, <2>3, <2>5, <2>9, <3>2 DEF ClearedInv
      <3>3. QED
        BY <3>1, <3>2
    <2>10. QED
      BY <2>7, <2>8, <2>9 DEF ClearedInv
  <1>6. ASSUME NEW h \in Req, NEW u \in Person,
               Chat!Hide(h, u) \/ Chat!Leave(h, u) \/ Chat!Enter(h, u)
        PROVE  ClearedInv'
    <2>1. PICK t : Chat!Plan(h, t) /\ t.op \in {"hide", "leave", "enter"}
      <3>1. CASE Chat!Hide(h, u)
        BY <3>1 DEF Chat!Hide
      <3>2. CASE Chat!Leave(h, u)
        BY <3>2 DEF Chat!Leave
      <3>3. CASE Chat!Enter(h, u)
        BY <3>3 DEF Chat!Enter
      <3>4. QED
        BY <1>6, <3>1, <3>2, <3>3
    <2>2. QED
      BY <1>6, <1>p, <1>q, <2>1 DEF Chat!Hide, Chat!Leave, Chat!Enter
  <1>7. ASSUME NEW h \in Req, NEW u \in Person,
               Chat!HideTx(h, u) \/ Chat!LeaveTx(h, u) \/ Chat!EnterTx(h, u)
        PROVE  ClearedInv'
    <2>1. \A v \in Person : line'[v].cleared = line[v].cleared
      <3>1. CASE Chat!HideTx(h, u)
        BY <3>1 DEF Chat!HideTx
      <3>2. CASE Chat!LeaveTx(h, u)
        BY <1>t, <3>2 DEF Chat!LeaveTx, Line
      <3>3. CASE Chat!EnterTx(h, u)
        BY <1>t, <3>3 DEF Chat!EnterTx, Chat!Entered, Line
      <3>4. QED
        BY <1>7, <3>1, <3>2, <3>3
    <2>2. Chat!Finish(h) /\ UNCHANGED <<latest, lapped>> /\ (clock' = clock \/ Chat!Stamp)
      BY <1>7 DEF Chat!HideTx, Chat!LeaveTx, Chat!EnterTx
    <2>3. QED
      BY <1>f, <1>q, <2>1, <2>2
  <1>8. ASSUME NEW h \in Req, NEW u \in Person, Chat!StartDM(u) PROVE ClearedInv'
    <2>1. \A v \in Person : line'[v].cleared = line[v].cleared
      BY <1>8, <1>t DEF Chat!StartDM, Line
    <2>2. QED
      BY <1>8, <1>q, <2>1 DEF Chat!StartDM
  <1>9. QED
    BY <1>1, <1>2, <1>3, <1>4, <1>5, <1>6, <1>7, <1>8 DEF Chat!Next

LEMMA ChatInductive == ASSUME MaxClock \in Nat PROVE Chat!Spec => []ChatInv
  <1>1. Chat!Init => ChatInv
    <2> SUFFICES ASSUME Chat!Init PROVE ChatInv
      OBVIOUS
    <2>1. 0 \in Time
      BY DEF Time
    <2>2. line \in [Person -> Line] /\ latest \in [Person -> Time]
      BY <2>1 DEF Chat!Init, Line
    <2>3. draft \in [Key -> Draft]
      BY DEF Chat!Init, Draft
    <2>4. doing \in [Req -> Doings(log)]
      BY DEF Chat!Init, Doings
    <2>5. Chat!TypeOK
      BY <2>1, <2>2, <2>3, <2>4, ChatTyped DEF Chat!Init
    <2>6. \A u \in Person : Clearing(u) = {}
      BY DEF Chat!Init, Chat!Nothing, Clearing, Chat!Clears
    <2>7. QED
      BY <2>5, <2>6 DEF ChatInv, ClearedInv, Chat!Init
  <1>2. ChatInv /\ [Chat!Next]_(Chat!vars) => ChatInv'
    <2> SUFFICES ASSUME ChatInv, [Chat!Next]_(Chat!vars) PROVE ChatInv'
      OBVIOUS
    <2>1. CASE Chat!Next
      BY <2>1, ChatTypeStep, ClearedStep DEF ChatInv
    <2>2. CASE UNCHANGED Chat!vars
      BY <2>2 DEF ChatInv, Chat!vars, Chat!TypeOK, ClearedInv, Clearing, Chat!Clears
    <2>3. QED
      BY <2>1, <2>2
  <1>3. QED
    BY <1>1, <1>2, PTL DEF Chat!Spec

-----------------------------------------------------------------------------
(* The components stand beside each other: a step of one, and a step of     *)
(* another, is a step or a stutter of each.                                 *)

LEMMA RowsIsGuard == RowsSpec => Guard!Spec
  <1>1. RowsInit => Guard!Init
    BY DEF RowsInit
  <1>2. [RowsNext]_rows => [Guard!Next]_(Guard!vars)
    BY DEF RowsNext, rows, guard, Guard!vars
  <1>3. QED
    BY <1>1, <1>2, PTL DEF RowsSpec, Guard!Spec

LEMMA RowsIsEmail == RowsSpec => AddressChange!Spec
  <1>1. RowsInit => AddressChange!Init
    BY DEF RowsInit
  <1>2. [RowsNext]_rows => [AddressChange!Next]_(AddressChange!vars)
    BY DEF RowsNext, rows, email, AddressChange!vars
  <1>3. QED
    BY <1>1, <1>2, PTL DEF RowsSpec, AddressChange!Spec

LEMMA RowsIsChat == RowsSpec => Chat!Spec
  <1>1. RowsInit => Chat!Init
    BY DEF RowsInit
  <1>2. [RowsNext]_rows => [Chat!Next]_(Chat!vars)
    BY DEF RowsNext, rows, chat, Chat!vars
  <1>3. QED
    BY <1>1, <1>2, PTL DEF RowsSpec, Chat!Spec

(* The community that was proved about is the one of the composition.       *)
LEMMA SameCommunity ==
    /\ Community!Init => CommunityProofs!Init
    /\ Community!Next => CommunityProofs!Next
    /\ CommunityProofs!TypeOK => Community!TypeOK
    /\ CommunityProofs!CountMatches => Community!CountMatches
    /\ CommunityProofs!OwnerRules => Community!OwnerRules
    /\ IsFiniteSet(User) => CommunityProofs!IsFiniteSet(User)
  <1>1. Community!Init => CommunityProofs!Init
    BY Zenon DEF Community!Init, CommunityProofs!Init, Community!Nothing, CommunityProofs!Nothing
  <1>2. Community!Next => CommunityProofs!Next
    BY Zenon
       DEF Community!Next, CommunityProofs!Next, Community!Checks, CommunityProofs!Checks,
         Community!Transactions, CommunityProofs!Transactions, Community!Join, CommunityProofs!Join,
         Community!Plan, CommunityProofs!Plan, Community!Free, CommunityProofs!Free,
         Community!Members, CommunityProofs!Members, Community!Review, CommunityProofs!Review,
         Community!Leave, CommunityProofs!Leave, Community!Remove, CommunityProofs!Remove,
         Community!ChangeRole, CommunityProofs!ChangeRole, Community!Delete, CommunityProofs!Delete,
         Community!Grantable, CommunityProofs!Grantable, Community!JoinTx, CommunityProofs!JoinTx,
         Community!AskTx, CommunityProofs!AskTx, Community!AcceptTx, CommunityProofs!AcceptTx,
         Community!DeclineTx, CommunityProofs!DeclineTx, Community!ExitTx, CommunityProofs!ExitTx,
         Community!RoleTx, CommunityProofs!RoleTx, Community!DeleteTx, CommunityProofs!DeleteTx,
         Community!Has, CommunityProofs!Has, Community!Finish, CommunityProofs!Finish,
         Community!Enter, CommunityProofs!Enter, Community!Exit, CommunityProofs!Exit,
         Community!Joins, CommunityProofs!Joins, Community!Waiting, CommunityProofs!Waiting,
         Community!WindUp, CommunityProofs!WindUp, Community!Successors, CommunityProofs!Successors,
         Community!Forgotten, CommunityProofs!Forgotten, Community!Purge, CommunityProofs!Purge,
         Community!Boot, CommunityProofs!Boot
  <1>3. CommunityProofs!TypeOK => Community!TypeOK
    BY Zenon
       DEF Community!TypeOK, CommunityProofs!TypeOK, Community!Role, CommunityProofs!Role,
         Community!Writes, CommunityProofs!Writes,
         Community!Cardinality, CommunityProofs!Cardinality,
         Community!IsFiniteSet, CommunityProofs!IsFiniteSet
  <1>4. CommunityProofs!CountMatches => Community!CountMatches
    BY Zenon
       DEF Community!CountMatches, CommunityProofs!CountMatches,
         Community!Members, CommunityProofs!Members,
         Community!Cardinality, CommunityProofs!Cardinality,
         Community!IsFiniteSet, CommunityProofs!IsFiniteSet
  <1>5. CommunityProofs!OwnerRules => Community!OwnerRules
    BY Zenon DEF Community!OwnerRules, CommunityProofs!OwnerRules
  <1>6. IsFiniteSet(User) => CommunityProofs!IsFiniteSet(User)
    BY Zenon DEF IsFiniteSet, CommunityProofs!IsFiniteSet
  <1>7. QED
    BY <1>1, <1>2, <1>3, <1>4, <1>5, <1>6

LEMMA RowsIsCommunity == RowsSpec => CommunityProofs!Spec
  <1>1. RowsInit => CommunityProofs!Init
    BY SameCommunity DEF RowsInit
  <1>2. [RowsNext]_rows => [CommunityProofs!Next]_(CommunityProofs!vars)
    BY SameCommunity DEF RowsNext, rows, community, CommunityProofs!vars
  <1>3. QED
    BY <1>1, <1>2, PTL DEF RowsSpec, CommunityProofs!Spec

LEMMA CommunityKeeps ==
    RowsSpec => /\ []Community!TypeOK
                /\ []Community!CountMatches
                /\ []Community!OwnerRules
  <1>1. CommunityProofs!IsFiniteSet(User)
    BY SameCommunity, RowsAssumption
  <1>2. CommunityProofs!Spec => []CommunityProofs!TypeOK
    BY <1>1, CommunityProofs!TypeCorrect
  <1>3. CommunityProofs!Spec => []CommunityProofs!CountMatches
    BY <1>1, CommunityProofs!CounterCorrect
  <1>4. CommunityProofs!Spec => []CommunityProofs!OwnerRules
    BY <1>1, CommunityProofs!OwnerCorrect
  <1>5. /\ CommunityProofs!TypeOK => Community!TypeOK
        /\ CommunityProofs!CountMatches => Community!CountMatches
        /\ CommunityProofs!OwnerRules => Community!OwnerRules
    BY SameCommunity
  <1>6. QED
    BY <1>2, <1>3, <1>4, <1>5, RowsIsCommunity, PTL

(* The codes, whether or not the college address is what uses them.         *)
CodesInv == IInv /\ (focus = "campus" => CampusInv)

LEMMA RowsCodes == RowsSpec => []CodesInv /\ Spec
  <1>1. RowsInit => CodesInv /\ Init
    BY InitIInv, InitCampusInv DEF RowsInit, CodesInv, CampusInv, AffInv
  <1>2. CodesInv /\ [RowsNext]_rows => CodesInv' /\ [Next]_vars
    <2> SUFFICES ASSUME CodesInv, [RowsNext]_rows PROVE CodesInv' /\ [Next]_vars
      OBVIOUS
    <2>1. focus' = focus
      BY DEF RowsNext, rows
    <2>2. CASE focus = "campus"
      <3>1. [CampusNext]_all
        BY <2>2 DEF RowsNext, rows
      <3>2. QED
        BY <2>1, <2>2, <3>1, CampusStep DEF CodesInv
    <2>3. CASE focus # "campus"
      <3>1. [Next]_vars
        BY <2>3 DEF RowsNext, rows, all
      <3>2. QED
        BY <2>1, <2>3, <3>1, StepIInv DEF CodesInv
    <2>4. QED
      BY <2>2, <2>3
  <1>3. QED
    BY <1>1, <1>2, PTL DEF RowsSpec, Spec

-----------------------------------------------------------------------------
(* Every component keeps its types.                                         *)
THEOREM RowsTypeCorrect == RowsSpec => []RowsTypeOK
  <1>1. CodesInv => TypeOK /\ (focus = "campus" => CampusTypeOK)
    BY DEF CodesInv, IInv, CampusInv
  <1>2. EmailInv => AddressChange!TypeOK
    BY DEF EmailInv
  <1>3. GuardInv => Guard!TypeOK
    BY DEF GuardInv
  <1>4. ChatInv => Chat!TypeOK
    BY DEF ChatInv
  <1>5. /\ TypeOK /\ (focus = "campus" => CampusTypeOK)
        /\ AddressChange!TypeOK /\ Guard!TypeOK /\ Community!TypeOK /\ Chat!TypeOK
        => RowsTypeOK
    BY DEF RowsTypeOK
  <1>6. /\ AddressChange!Spec => []EmailInv
        /\ Guard!Spec => []GuardInv
        /\ Chat!Spec => []ChatInv
    BY RowsAssumption, EmailInductive, GuardInductive, ChatInductive
  <1>7. QED
    BY <1>1, <1>2, <1>3, <1>4, <1>5, <1>6, RowsCodes, RowsIsEmail, RowsIsGuard, RowsIsChat,
       CommunityKeeps, PTL

(* The identity provider and the row have the same sign-in address whenever *)
(* no change is half done, unless two changes overlapped, the provider      *)
(* failed ambiguously or a request died half way.                           *)
THEOREM StoresKept == RowsSpec => []StoresAgree
  <1>1. AddressChange!Spec => []EmailInv
    BY RowsAssumption, EmailInductive
  <1>2. EmailInv => StoresAgree
    BY DEF EmailInv, HalfInv, Halfway, StoresAgree, AddressChange!StoresAgree
  <1>3. QED
    BY <1>1, <1>2, RowsIsEmail, PTL

(* Ttl after a session was revoked or an account suspended no answer that   *)
(* JwtGuard kept lets a request in, on any instance, however slow the       *)
(* lookup that fills the entry; nor an answer a request read itself, unless *)
(* its own lookup took that long; nor a failed lookup, of a session.        *)
THEOREM RevocationReachesAll == RowsSpec => []StaleAtMostTtl
  <1>1. Guard!Spec => []GuardInv
    BY RowsAssumption, GuardInductive
  <1>2. GuardInv => StaleAtMostTtl
    BY DEF GuardInv, StaleAtMostTtl, Guard!StaleAtMostTtl
  <1>3. QED
    BY <1>1, <1>2, RowsIsGuard, PTL

(* memberCount is the number of member rows however joins, accepts, leaves  *)
(* and removals race, until an account is purged or a boot repairs the      *)
(* owner's row.                                                             *)
THEOREM CounterKept == RowsSpec => []CountMatches
  <1>1. Community!CountMatches => CountMatches
    BY DEF CountMatches
  <1>2. QED
    BY <1>1, CommunityKeeps, PTL

(* The owner and nobody else has the owner's role, unless the community was *)
(* handed over while a handler was under way.                               *)
THEOREM OwnerKept == RowsSpec => []OwnerRules
  <1>1. Community!OwnerRules => OwnerRules
    BY DEF OwnerRules
  <1>2. QED
    BY <1>1, CommunityKeeps, PTL

(* What a user cleared, or deleted with the conversation, is not shown when *)
(* that user opens the conversation, whoever revives it and whoever leaves  *)
(* and returns, unless two clears of the user overlapped.                   *)
THEOREM ClearedStaysHidden == RowsSpec => []HiddenForGood
  <1>1. Chat!Spec => []ChatInv
    BY RowsAssumption, ChatInductive
  <1>2. ChatInv => HiddenForGood
    BY DEF ChatInv, ClearedInv, HiddenForGood, Chat!HiddenForGood, Chat!History
  <1>3. QED
    BY <1>1, <1>2, RowsIsChat, PTL
=============================================================================
