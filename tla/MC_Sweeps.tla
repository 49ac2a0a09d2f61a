----------------------------- MODULE MC_Sweeps -----------------------------
(***************************************************************************)
(* What a sweep must bring to an end: the deletion of an account and a     *)
(* match.  A behaviour is one of the component `focus`; the other stands   *)
(* still in an initial state in which nothing of it is due, so its         *)
(* fairness asks for nothing.                                              *)
(***************************************************************************)
EXTENDS AccountDeletion, TLC

CONSTANTS
    Person, Handler, MaxSessions, MaxJoins, None, Failures     \* of InstantMatch

VARIABLES
    focus,         \* the component that runs; never changes
    queue, sess, created, eligible, lock, handler, joins, opened

match      == <<queue, sess, created, eligible, lock, handler, joins, opened>>
components == <<focus, vars, match>>

Match == INSTANCE InstantMatch WITH User <- Person, Proc <- Handler, proc <- handler

(* What administrators do in a behaviour.                                   *)
Choices == {{}, {"purgeNow", "softDelete"}, {"suspend", "restore", "softDelete"}}

SweepsInit ==
    /\ focus \in {"deletion", "match"}
    /\ Init
    /\ Match!Init
    /\ focus # "deletion" => admin = {}

SweepsNext ==
    /\ UNCHANGED focus
    /\ \/ focus = "deletion" /\ Next /\ UNCHANGED match
       \/ focus = "match" /\ Match!Next /\ UNCHANGED vars

SweepsSpec ==
    /\ SweepsInit /\ [][SweepsNext]_components
    /\ \/ focus = "deletion" /\ Fairness
       \/ focus = "match" /\ Match!Fairness

-----------------------------------------------------------------------------
(* The properties of a match, where they are stated and explained.          *)

(* No pair is stranded: a match ends declined, timed out or with a chat.    *)
MatchResolved == Match!MatchResolved

(* An active chat is torn down in the end.                                  *)
ChatTornDown == Match!ChatTornDown

(* Every match keeps to the life of a match.                                *)
KeepsToLife == Match!KeepsToLife
=============================================================================
