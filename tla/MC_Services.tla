---------------------------- MODULE MC_Services ----------------------------
(***************************************************************************)
(* The components that promise something in the end: the lock (with the    *)
(* first contact it serialises), presence and the invitations of an        *)
(* activity.  A behaviour is one of the component `focus`; the others      *)
(* stand still in an initial state in which nothing of theirs is due, so   *)
(* their fairness asks for nothing.  The instances are interchangeable, so *)
(* one of the sockets is on the first; so are the two calls on one         *)
(* instance, so a1 is the one that comes first.                            *)
(***************************************************************************)
EXTENDS FirstContact, FiniteSets, TLC

CONSTANTS Socket, User, Proc, Ops, MaxMembers,
          a1, a2, b1,    \* two calls on one instance, one on another
          ia, ib         \* the instances

ASSUME ServicesAssumption ==
    /\ MaxMembers \in Nat \ {0}
    /\ IsFiniteSet(User) /\ IsFiniteSet(Proc) /\ Proc # {}

VARIABLES
    focus,         \* the component that runs; never changes
    home, conn, used, rec, timer, op, firing, told, overtaken, missed,
    act, members, inv, note, jobs, proc, barred, widest

presence   == <<home, conn, used, rec, timer, op, firing, told, overtaken, missed>>
activity   == <<act, members, inv, note, jobs, proc, barred, widest>>
components == <<focus, all, presence, activity>>

Connections == INSTANCE Presence
Invitations == INSTANCE Activities WITH Invitee <- User

Calls == {a1, a2, b1}
Homes == [c \in Calls |-> IF c = b1 THEN ib ELSE ia]

ServicesInit ==
    /\ focus \in {"lock", "presence", "activity"}
    /\ ContactInit
    /\ Connections!Init
    /\ Invitations!Init
    /\ focus # "lock" => ~slow /\ client
    /\ home[CHOOSE s \in Socket : TRUE] = ia
    /\ focus # "presence" => \A s \in Socket : home[s] = ia
    /\ act.visibility = "PUBLIC"

ServicesNext ==
    /\ UNCHANGED focus
    /\ \/ /\ focus = "lock" /\ ContactNext /\ UNCHANGED <<presence, activity>>
          /\ call'[a2].pc # "idle" => call'[a1].pc # "idle"
       \/ focus = "presence" /\ Connections!Next /\ UNCHANGED <<all, activity>>
       \/ focus = "activity" /\ Invitations!Next /\ UNCHANGED <<all, presence>>

ServicesSpec ==
    /\ ServicesInit /\ [][ServicesNext]_components
    /\ Fairness /\ Connections!Fairness /\ Invitations!Fairness

-----------------------------------------------------------------------------
(* Type correctness of the components.                                      *)
ServicesTypeOK == ContactTypeOK /\ Connections!TypeOK /\ Invitations!TypeOK

(* The properties of the components, where they are stated and explained.   *)

(* Whoever stays connected is on record as online in the end.               *)
ConnectedIsOnline == Connections!ConnectedIsOnline

(* Whoever is gone is shown offline in the end.                             *)
GoneShowsOffline == Connections!GoneShowsOffline

(* An invitation nobody answered is settled once the activity has begun.    *)
UnansweredExpires == Invitations!UnansweredExpires
=============================================================================
