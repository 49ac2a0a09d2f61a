------------------------------ MODULE UserLock ------------------------------
(***************************************************************************)
(* What the users of RedisService.withLock may rely on.  Calls run one at  *)
(* a time; once the lock is degraded, one at a time on each instance.      *)
(***************************************************************************)
CONSTANTS Call, Home

VARIABLES
    running,       \* the calls whose function runs
    degraded       \* some call ran without the lock, or longer than it

Init == running = {} /\ degraded = FALSE

Enter(c) == /\ c \notin running
            /\ degraded' \in {degraded, TRUE}
            /\ \A d \in running : degraded' /\ Home[c] # Home[d]
            /\ running' = running \cup {c}

(* One call ends, or all calls of an instance that dies.                    *)
Exit(calls) == /\ running' = running \ calls
               /\ UNCHANGED degraded

Degrade == degraded' = TRUE /\ UNCHANGED running

Next == \/ \E c \in Call : Enter(c)
        \/ \E calls \in SUBSET running : Exit(calls)
        \/ Degrade

Spec == Init /\ [][Next]_<<running, degraded>>
=============================================================================
