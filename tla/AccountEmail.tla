---------------------------- MODULE AccountEmail ----------------------------
(***************************************************************************)
(* The change of the sign-in address                                       *)
(* (backend/src/account-email/account-email.service.ts, verify): the       *)
(* identity provider first, then the row, and a compensation.  The codes   *)
(* are those of UserOtp; here a request has an accepted code for an        *)
(* address.                                                                *)
(***************************************************************************)
CONSTANTS
    Req,           \* concurrent verify requests
    Email          \* normalized addresses

VARIABLES
    auth,          \* the address at the identity provider
    user,          \* User.email
    taken,         \* addresses other accounts sign in with
    change,        \* what each request does, the address, and the one it read
    broken,        \* history: the provider or a dying request left it half done
    overlap        \* history: two changes met in their critical part

vars == <<auth, user, taken, change, broken, overlap>>

-----------------------------------------------------------------------------
Start == CHOOSE e \in Email : TRUE

Idle == [pc |-> "idle", addr |-> Start, old |-> Start]

PC == {"idle", "verified", "provider", "row", "restore"}

Init == /\ auth = Start /\ user = Start
        /\ taken = {}
        /\ change = [r \in Req |-> Idle]
        /\ broken = FALSE /\ overlap = FALSE

At(r, pc) == change[r].pc = pc
To(r, pc) == change' = [change EXCEPT ![r].pc = pc]
Finish(r) == change' = [change EXCEPT ![r] = Idle]

(* Changes whose provider half is done.                                     *)
Halfway == {r \in Req : change[r].pc \in {"row", "restore"}}

-----------------------------------------------------------------------------
(* The current address is read, then the password and the code are checked. *)
Verify(r, a) ==
    /\ At(r, "idle")
    /\ change' = [change EXCEPT ![r] = [pc |-> "verified", addr |-> a, old |-> user]]
    /\ UNCHANGED <<auth, user, taken, broken, overlap>>

(* isEmailHeldByAnother, and nothing to do for the same address.            *)
CheckFree(r) ==
    /\ At(r, "verified")
    /\ IF change[r].addr \in taken \cup {change[r].old} THEN Finish(r) ELSE To(r, "provider")
    /\ UNCHANGED <<auth, user, taken, broken, overlap>>

(* updateUserById: refused, done, or done although it answers an error.     *)
SetAuth(r) ==
    /\ At(r, "provider")
    /\ \/ /\ Finish(r)
          /\ UNCHANGED <<auth, broken, overlap>>
       \/ /\ change[r].addr \notin taken
          /\ auth' = change[r].addr
          /\ \/ /\ To(r, "row")
                /\ UNCHANGED broken
             \/ /\ Finish(r)
                /\ broken' = TRUE
          /\ overlap' = (overlap \/ Halfway # {})
    /\ UNCHANGED <<user, taken>>

(* The row; whatever makes its update fail, the provider is put back.       *)
SetRow(r) ==
    /\ At(r, "row")
    /\ \/ /\ change[r].addr \notin taken
          /\ user' = change[r].addr
          /\ overlap' = (overlap \/ \E q \in Req \ {r} : ~At(q, "idle"))
          /\ Finish(r)
       \/ /\ To(r, "restore")
          /\ UNCHANGED <<user, overlap>>
    /\ UNCHANGED <<auth, taken, broken>>

MutPrevious(r) == auth
Previous(r) == change[r].old

(* restoreAuthEmail, with the address captured before any write.            *)
RestoreAuth(r) ==
    /\ At(r, "restore")
    /\ \/ auth' = Previous(r) /\ UNCHANGED broken
       \/ broken' = TRUE /\ UNCHANGED auth
    /\ Finish(r)
    /\ UNCHANGED <<user, taken, overlap>>

Die(r) ==
    /\ ~At(r, "idle")
    /\ Finish(r)
    /\ broken' = (broken \/ r \in Halfway)
    /\ UNCHANGED <<auth, user, taken, overlap>>

(* Another account signs up with an address.                                *)
Others(a) ==
    /\ a \notin taken \cup {auth, user}
    /\ taken' = taken \cup {a}
    /\ UNCHANGED <<auth, user, change, broken, overlap>>

-----------------------------------------------------------------------------
Next == \/ \E r \in Req : \/ \E a \in Email : Verify(r, a)
                          \/ CheckFree(r) \/ SetAuth(r) \/ SetRow(r)
                          \/ RestoreAuth(r) \/ Die(r)
        \/ \E a \in Email : Others(a)

Spec == Init /\ [][Next]_vars

-----------------------------------------------------------------------------
TypeOK ==
    /\ auth \in Email /\ user \in Email /\ taken \subseteq Email
    /\ change \in [Req -> [pc : PC, addr : Email, old : Email]]
    /\ broken \in BOOLEAN /\ overlap \in BOOLEAN

(* "If the database write fails the auth email is put back, so the two      *)
(* never disagree": true between changes, unless two of them overlapped, or *)
(* the provider failed ambiguously or the process died half way.            *)
StoresAgree == Halfway = {} /\ ~broken /\ ~overlap => auth = user
=============================================================================
