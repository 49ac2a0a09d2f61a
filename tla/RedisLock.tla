------------------------------ MODULE RedisLock ------------------------------
(***************************************************************************)
(* RedisService.withLock (backend/src/redis/redis.service.ts) for one key: *)
(* a promise chain inside each instance, then SET NX PX with polling, and  *)
(* the function without the lock when the poll has lasted half the ttl.    *)
(*                                                                         *)
(* Time goes in steps of the 50 ms between two polls.  A statement sent to *)
(* Redis may take any time; a function and its release end within MaxRun,  *)
(* unless this is a slow day.                                              *)
(***************************************************************************)
EXTENDS Naturals

CONSTANTS
    Call,          \* calls of withLock
    Home,          \* the instance each call runs on
    Ttl,           \* ttlMs in steps
    MaxRun,        \* the longest a function runs on a good day
    None

ASSUME TtlAssumption  == Ttl \in Nat \ {0}
ASSUME RunAssumption  == MaxRun \in Nat
ASSUME NoneAssumption == None \notin Call

VARIABLES
    tail,          \* inProcessLocks: per instance, the last call of the chain
    prev,          \* the call each call chained itself to
    call,          \* state of each call: pc, steps waited, steps run
    key,           \* the Redis key: owner and remaining time
    degraded,      \* history: a call ran without the lock or outlived it
    lost,          \* history: a release failed, or an instance died with the key
    slow,          \* functions may run for ever so long; never changes
    client         \* the instances have a connection to Redis; never changes

vars == <<tail, prev, call, key, degraded, lost, slow, client>>

-----------------------------------------------------------------------------
MaxWait == Ttl \div 2

Free == [owner |-> None, left |-> 0]

PC == {"idle", "queued", "try", "sleep", "awake", "locked", "bare", "release", "done"}

Instance == {Home[c] : c \in Call}

Init == /\ tail = [i \in Instance |-> None]
        /\ prev = [c \in Call |-> None]
        /\ call = [c \in Call |-> [pc |-> "idle", waited |-> 0, ran |-> 0]]
        /\ key = Free
        /\ degraded = FALSE
        /\ lost = FALSE
        /\ slow \in BOOLEAN
        /\ client \in BOOLEAN

At(c, s)   == call[c].pc = s
Goto(c, s) == call' = [call EXCEPT ![c].pc = s]

-----------------------------------------------------------------------------
(* withInProcessLock: chain behind the tail; run when the previous call has *)
(* released its slot; forget the chain when nobody came after.              *)

Enter(c) ==
    /\ At(c, "idle")
    /\ prev' = [prev EXCEPT ![c] = tail[Home[c]]]
    /\ tail' = [tail EXCEPT ![Home[c]] = c]
    /\ Goto(c, "queued")
    /\ UNCHANGED <<key, degraded, lost, slow, client>>

MutNoChain(c) == TRUE
MutTurn(c) == prev[c] = None
Turn(c) == prev[c] \in {None} \cup {d \in Call : At(d, "done")}

Start(c) ==
    /\ At(c, "queued")
    /\ Turn(c)
    /\ Goto(c, "try")
    /\ UNCHANGED <<tail, prev, key, degraded, lost, slow, client>>

Pruned(c) == IF tail[Home[c]] = c THEN [tail EXCEPT ![Home[c]] = None] ELSE tail

-----------------------------------------------------------------------------
(* withRedisLock.                                                           *)

TrySet(c) ==
    /\ At(c, "try")
    /\ client
    /\ IF key = Free
       THEN key' = [owner |-> c, left |-> Ttl] /\ Goto(c, "locked")
       ELSE Goto(c, "sleep") /\ UNCHANGED key
    /\ UNCHANGED <<tail, prev, degraded, lost, slow, client>>

(* The statement throws, and withLock with it: the function does not run.   *)
SetFails(c) ==
    /\ At(c, "try")
    /\ client
    /\ Goto(c, "done")
    /\ tail' = Pruned(c)
    /\ UNCHANGED <<prev, key, degraded, lost, slow, client>>

(* Without a client the chain of the instance is all there is.              *)
NoClient(c) ==
    /\ At(c, "try")
    /\ ~client
    /\ Goto(c, "bare")
    /\ degraded' = TRUE
    /\ UNCHANGED <<tail, prev, key, lost, slow, client>>

(* After the sleep: poll again, or go on without the lock.                  *)
GivesUp(w) == w > MaxWait

Wake(c) ==
    /\ At(c, "awake")
    /\ IF GivesUp(call[c].waited)
       THEN Goto(c, "bare") /\ degraded' = TRUE
       ELSE Goto(c, "try") /\ UNCHANGED degraded
    /\ UNCHANGED <<tail, prev, key, lost, slow, client>>

(* The function returns or throws; both lead to the finally block.          *)
Return(c) ==
    /\ At(c, "locked")
    /\ Goto(c, "release")
    /\ UNCHANGED <<tail, prev, key, degraded, lost, slow, client>>

ReturnBare(c) ==
    /\ At(c, "bare")
    /\ Goto(c, "done")
    /\ tail' = Pruned(c)
    /\ UNCHANGED <<prev, key, degraded, lost, slow, client>>

(* RELEASE_LOCK_SCRIPT compares and deletes.                                *)
Released(c) == IF key.owner = c THEN Free ELSE key

Release(c) ==
    /\ At(c, "release")
    /\ key' = Released(c)
    /\ Goto(c, "done")
    /\ tail' = Pruned(c)
    /\ UNCHANGED <<prev, degraded, lost, slow, client>>

(* A release that fails is ignored: the key stays until its ttl.            *)
ReleaseFails(c) ==
    /\ At(c, "release")
    /\ Goto(c, "done")
    /\ tail' = Pruned(c)
    /\ lost' = TRUE
    /\ UNCHANGED <<prev, key, degraded, slow, client>>

-----------------------------------------------------------------------------
(* One step of time: sleepers wake, functions grow older, the key expires.  *)

Running(c) == call[c].pc \in {"locked", "bare", "release"}

Aged(c) ==
    CASE At(c, "sleep") -> [call[c] EXCEPT !.waited = @ + 1, !.pc = "awake"]
      [] Running(c)     -> [call[c] EXCEPT !.ran = IF slow THEN @ ELSE @ + 1]
      [] OTHER          -> call[c]

Tick ==
    /\ slow \/ \A c \in Call : Running(c) => call[c].ran < MaxRun
    /\ call' = [c \in Call |-> Aged(c)]
    /\ key' = IF key.left <= 1 THEN Free ELSE [key EXCEPT !.left = @ - 1]
    /\ degraded' = (degraded \/ (key.left = 1 /\ Running(key.owner)))
    /\ UNCHANGED <<tail, prev, lost, slow, client>>

(* A process dies with everything it was doing; the key stays.              *)
Dies(i) ==
    /\ \E c \in Call : Home[c] = i /\ call[c].pc \notin {"idle", "done"}
    /\ call' = [c \in Call |-> IF Home[c] = i /\ ~At(c, "idle")
                               THEN [call[c] EXCEPT !.pc = "done"] ELSE call[c]]
    /\ tail' = [tail EXCEPT ![i] = None]
    /\ lost' = (lost \/ (key # Free /\ Home[key.owner] = i))
    /\ UNCHANGED <<prev, key, degraded, slow, client>>

-----------------------------------------------------------------------------
Run(c) == \/ Start(c) \/ TrySet(c) \/ SetFails(c) \/ NoClient(c) \/ Wake(c)
          \/ Return(c) \/ ReturnBare(c) \/ Release(c) \/ ReleaseFails(c)

Next == \/ \E c \in Call : Enter(c) \/ Run(c)
        \/ \E i \in Instance : Dies(i)
        \/ Tick

Spec == Init /\ [][Next]_vars

(* Calls and clocks go on; no call is made that need be.                    *)
Fairness == (\A c \in Call : WF_vars(Run(c))) /\ WF_vars(Tick)

FairSpec == Spec /\ Fairness

-----------------------------------------------------------------------------
(* Type correctness.                                                        *)
TypeOK ==
    /\ tail \in [Instance -> Call \cup {None}]
    /\ prev \in [Call -> Call \cup {None}]
    /\ call \in [Call -> [pc : PC, waited : Nat, ran : Nat]]
    /\ key \in {Free} \cup [owner : Call, left : 1..Ttl]
    /\ degraded \in BOOLEAN /\ lost \in BOOLEAN /\ slow \in BOOLEAN /\ client \in BOOLEAN

(* The lock keeps the promise of UserLock: one call at a time, and, once a  *)
(* call has gone without the lock or outlived it, one on each instance.     *)
Promise == INSTANCE UserLock WITH running <- {c \in Call : Running(c)}

KeepsPromise == Promise!Spec

(* Every call is served or refused, also behind a key nobody will release.  *)
CallsServed == \A c \in Call : At(c, "queued") ~> At(c, "done")
=============================================================================
