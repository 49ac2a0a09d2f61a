---------------------------- MODULE AccessGuard ----------------------------
(***************************************************************************)
(* The caches of JwtGuard (backend/src/common/guards/jwt.guard.ts): is the *)
(* session live (resolveSession), is the account allowed in                *)
(* (resolveAccountStatus).  Both are an answer of the database, kept on    *)
(* each instance for 15 seconds from the moment the lookup began, and      *)
(* dropped on the instance that handled a change.  They differ in a lookup *)
(* that fails: no session refuses the request, no status lets it in.  One  *)
(* key of one of them; time goes in steps of which Ttl make 15 seconds.    *)
(***************************************************************************)
EXTENDS Naturals

CONSTANTS
    Instance,      \* instances of the backend
    Lookup,        \* requests that consult the cache
    Ttl            \* SESSION_STATE_TTL_MS, STATUS_TTL_MS

VARIABLES
    open,          \* the cache: TRUE the statuses, FALSE the sessions; never changes
    allowed,       \* the row: a live session, an account that is ACTIVE
    since,         \* time since it was last revoked or suspended, up to Ttl
    clearing,      \* instances between the update and dropping their entry
    entry,         \* per instance, the answer and the time it stays
    look,          \* lookups under way
    late           \* history: how requests were let in Ttl after the revocation

vars == <<open, allowed, since, clearing, entry, look, late>>

-----------------------------------------------------------------------------
NoEntry == [ok |-> FALSE, left |-> 0]

Idle(i) == [pc |-> "idle", at |-> i, ok |-> FALSE, age |-> 0]

Init == /\ open \in BOOLEAN
        /\ allowed = TRUE
        /\ since = 0
        /\ clearing = {}
        /\ entry = [i \in Instance |-> NoEntry]
        /\ look \in [Lookup -> {Idle(i) : i \in Instance}]
        /\ late = {}

Overdue == ~allowed /\ since = Ttl

(* History: a request that was let in when ok, in this way.                 *)
LetIn(ok, way) == late' = IF ok /\ Overdue THEN late \cup {way} ELSE late

-----------------------------------------------------------------------------
(* A request with an entry that is still good.                              *)
Hit(i) ==
    /\ entry[i].left > 0
    /\ LetIn(entry[i].ok, "kept")
    /\ UNCHANGED <<open, allowed, since, clearing, entry, look>>

(* Without one: "now" is taken, then the row is read.                       *)
Miss(r) ==
    /\ look[r].pc = "idle"
    /\ entry[look[r].at].left = 0
    /\ look' = [look EXCEPT ![r].pc = "read", ![r].age = 0]
    /\ UNCHANGED <<open, allowed, since, clearing, entry, late>>

ReadRow(r) ==
    /\ look[r].pc = "read"
    /\ look' = [look EXCEPT ![r].pc = "store", ![r].ok = allowed]
    /\ UNCHANGED <<open, allowed, since, clearing, entry, late>>

MutLeft(age) == Ttl
MutLeftOver(age) == Ttl + 1 - age
Left(age) == Ttl - age

(* expiresAt: now + TTL, with the now of before the read.  The request      *)
(* itself goes by what was read, however long that took.                    *)
Store(r) ==
    /\ look[r].pc = "store"
    /\ entry' = [entry EXCEPT ![look[r].at] =
                    [ok |-> look[r].ok, left |-> Left(look[r].age)]]
    /\ look' = [look EXCEPT ![r] = Idle(look[r].at)]
    /\ LetIn(look[r].ok, IF look[r].age = Ttl THEN "slow" ELSE "read")
    /\ UNCHANGED <<open, allowed, since, clearing>>

(* The query fails: nothing is kept, and the account status lets in.        *)
Fail(r) ==
    /\ look[r].pc = "read"
    /\ look' = [look EXCEPT ![r] = Idle(look[r].at)]
    /\ LetIn(open, "blind")
    /\ UNCHANGED <<open, allowed, since, clearing, entry>>

(* The map has grown past its limit.                                        *)
Evict(i) ==
    /\ entry[i] # NoEntry
    /\ entry' = [entry EXCEPT ![i] = NoEntry]
    /\ UNCHANGED <<open, allowed, since, clearing, look, late>>

-----------------------------------------------------------------------------
(* A revocation or suspension, or the opposite, handled by an instance; the *)
(* entry is dropped once the update has been awaited.                       *)

Change(i) ==
    /\ i \notin clearing
    /\ allowed' = ~allowed
    /\ since' = 0
    /\ clearing' = clearing \cup {i}
    /\ UNCHANGED <<open, entry, look, late>>

Forgotten(i) == [entry EXCEPT ![i] = NoEntry]

(* forgetSession, clearAccountStatus                                        *)
Forget(i) ==
    /\ i \in clearing
    /\ clearing' = clearing \ {i}
    /\ entry' = Forgotten(i)
    /\ UNCHANGED <<open, allowed, since, look, late>>

Tick ==
    /\ since' = IF since < Ttl THEN since + 1 ELSE since
    /\ entry' = [i \in Instance |->
                    IF entry[i].left > 1 THEN [entry[i] EXCEPT !.left = @ - 1] ELSE NoEntry]
    /\ look' = [r \in Lookup |-> IF look[r].pc # "idle" /\ look[r].age < Ttl
                                 THEN [look[r] EXCEPT !.age = @ + 1] ELSE look[r]]
    /\ UNCHANGED <<open, allowed, clearing, late>>

-----------------------------------------------------------------------------
Next == \/ \E i \in Instance : Hit(i) \/ Evict(i) \/ Change(i) \/ Forget(i)
        \/ \E r \in Lookup : Miss(r) \/ ReadRow(r) \/ Store(r) \/ Fail(r)
        \/ Tick

Spec == Init /\ [][Next]_vars

-----------------------------------------------------------------------------
TypeOK ==
    /\ open \in BOOLEAN /\ allowed \in BOOLEAN
    /\ late \subseteq {"kept", "read", "slow", "blind"}
    /\ since \in 0..Ttl
    /\ clearing \subseteq Instance
    /\ entry \in [Instance -> [ok : BOOLEAN, left : 0..Ttl]]
    /\ look \in [Lookup -> [pc : {"idle", "read", "store"}, at : Instance,
                            ok : BOOLEAN, age : 0..Ttl]]

(* "a session revoked now keeps working for at most SESSION_STATE_TTL_MS",  *)
(* on every instance: of the requests that are let in later than that, none *)
(* is let in by an answer that was kept, and none by one it read itself,    *)
(* except when its own lookup, begun before the change, has taken that long *)
(* ("slow").  The account status lets in as well when its lookup fails      *)
(* ("blind": "the gate is a restriction, and a database blip must not lock  *)
(* everyone out").                                                          *)
StaleAtMostTtl == late \subseteq IF open THEN {"slow", "blind"} ELSE {"slow"}
=============================================================================
