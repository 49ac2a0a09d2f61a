---------------------------- MODULE FirstContact ----------------------------
(***************************************************************************)
(* Two people who write to each other for the first time: startDM          *)
(* (backend/src/messages/dm/dm.service.ts) and startConversation           *)
(* (backend/src/messages/messages.service.ts) look for their direct        *)
(* conversation and create it when there is none, under the lock of the    *)
(* pair.  Nothing in the schema makes a pair unique.                       *)
(*                                                                         *)
(* The function the lock runs may throw wherever it asks something else    *)
(* (blocks, verification, limits): that is the lock's Return.              *)
(***************************************************************************)
EXTENDS RedisLock

VARIABLE
    contact        \* per call: what it has done about the conversation

all == <<vars, contact>>

ContactInit == Init /\ contact = [c \in Call |-> "new"]

-----------------------------------------------------------------------------
(* The calls whose conversation row exists.                                 *)
Made == {c \in Call : contact[c] = "made"}

(* withDmCreateLock runs `fn` under the lock or, late, without it.          *)
Serving(c) == call[c].pc \in {"locked", "bare"}

MutMissing == TRUE
Missing == Made = {}

(* conversation.findFirst.  A call that finds the conversation returns it.  *)
Look(c) ==
    /\ Serving(c)
    /\ contact[c] = "new"
    /\ Missing
    /\ contact' = [contact EXCEPT ![c] = "missing"]
    /\ UNCHANGED vars

(* conversation.create, whatever has become of the lock since the look.     *)
Create(c) ==
    /\ Serving(c)
    /\ contact[c] = "missing"
    /\ contact' = [contact EXCEPT ![c] = "made"]
    /\ UNCHANGED vars

LockStep == Next /\ UNCHANGED contact

ContactNext == LockStep \/ \E c \in Call : Look(c) \/ Create(c)

ContactSpec == ContactInit /\ [][ContactNext]_all

-----------------------------------------------------------------------------
(* Type correctness.                                                        *)
ContactTypeOK == TypeOK /\ contact \in [Call -> {"new", "missing", "made"}]

(* Two simultaneous first contacts do not each create a conversation ("the  *)
(* second caller then finds the first one's conversation instead of         *)
(* creating a duplicate"): only calls of different instances can, and only  *)
(* when one of them ran without the lock or outlived it.                    *)
OneDmPerPair ==
    \A c, d \in Made : c # d => degraded /\ Home[c] # Home[d]
=============================================================================
