----------------------- MODULE AccountDeletionProofs -----------------------
(***************************************************************************)
(* Theorems about AccountDeletion, for any number of processes, any number *)
(* of attempts and any choice of what administrators do.                   *)
(***************************************************************************)
EXTENDS AccountDeletion, TLAPS

(* A step of one process.                                                   *)
Step(p) == Run(p) \/ Ask(p) \/ FindEligible(p) \/ PurgeFails(p) \/ Crash(p)

LEMMA StepCases ==
    ASSUME Next
    PROVE  /\ admin' = admin
           /\ (\E p \in Proc : Step(p)) \/ SoftDelete \/ DeadlinePasses \/ LeaseEnds
  BY DEF Next, Step

-----------------------------------------------------------------------------
(* Type correctness.                                                        *)

LEMMA NewUserType == NewUser \in User /\ Idle \in ProcState
  BY AttemptsAssumption DEF NewUser, User, Status, Idle, ProcState, PC

(* Each field takes any value of its own.                                   *)
LEMMA FieldType ==
    ASSUME NEW u \in User
    PROVE  /\ \A x \in Status : [u EXCEPT !.status = x] \in User
           /\ \A x \in BOOLEAN : [u EXCEPT !.deletedAt = x] \in User
           /\ \A x \in {"null", "future", "due"} : [u EXCEPT !.sched = x] \in User
           /\ \A x \in {"null", "fresh", "stale"} : [u EXCEPT !.claim = x] \in User
           /\ \A x \in 0..MaxAttempts : [u EXCEPT !.attempts = x] \in User
           /\ \A x \in BOOLEAN : [u EXCEPT !.completed = x] \in User
  BY DEF User

LEMMA GotoType ==
    ASSUME proc \in [Proc -> ProcState], NEW p \in Proc, NEW c \in PC
    PROVE  /\ Goto(p, c) => proc' \in [Proc -> ProcState]
           /\ Finish(p) => proc' \in [Proc -> ProcState]
<1>1. [proc[p] EXCEPT !.pc = c] \in ProcState
  BY DEF ProcState
<1> QED
  BY <1>1, NewUserType DEF Goto, Finish

LEMMA TypeStep ==
    ASSUME TypeOK, NEW p \in Proc, Step(p)
    PROVE  user' \in User /\ proc' \in [Proc -> ProcState]
<1> USE AttemptsAssumption DEF TypeOK
<1>0. /\ {"recover", "claim", "read", "erase", "release", "takeNow", "suspend", "unsuspend",
           "restore"} \subseteq PC
      /\ \A c \in PC : Goto(p, c) \/ Finish(p) => proc' \in [Proc -> ProcState]
  BY GotoType DEF PC
<1>1. CASE AskDeletion(p)
  <2>1. [pc |-> "schedule", saw |-> user.status, sweep |-> FALSE] \in ProcState
    BY DEF User, ProcState, PC
  <2> QED
    BY <1>1, <2>1 DEF AskDeletion
<1>2. CASE \/ AskRecovery(p) \/ FindEligible(p) \/ AskPurgeNow(p) \/ AskSuspend(p)
           \/ AskRestore(p) \/ Crash(p) \/ RevokeSessions(p) \/ PurgeFails(p)
  BY <1>0, <1>2 DEF AskRecovery, FindEligible, AskPurgeNow, AskSuspend, AskRestore, Crash,
                    RevokeSessions, PurgeFails
<1>3. CASE Schedule(p)
  <2>1. Scheduled \in User
    <3>1. [NewUser EXCEPT !.status = "PENDING_DELETION"] \in User
      BY NewUserType, FieldType DEF Status
    <3>2. [NewUser EXCEPT !.status = "PENDING_DELETION", !.deletedAt = TRUE] \in User
      BY <3>1, FieldType
    <3> QED
      BY <3>2, FieldType DEF Scheduled
  <2> QED
    BY <1>0, <1>3, <2>1 DEF Schedule
<1>4. CASE Recover(p) \/ Restore(p) \/ Suspend(p) \/ Unsuspend(p) \/ ReleaseFailedClaim(p)
  <2>1. [user EXCEPT !.status = "ACTIVE", !.deletedAt = FALSE, !.sched = "null",
                     !.attempts = 0] \in User
    <3>1. [user EXCEPT !.status = "ACTIVE"] \in User
      BY FieldType DEF Status
    <3>2. [user EXCEPT !.status = "ACTIVE", !.deletedAt = FALSE] \in User
      BY <3>1, FieldType
    <3>3. [user EXCEPT !.status = "ACTIVE", !.deletedAt = FALSE, !.sched = "null"] \in User
      BY <3>2, FieldType
    <3> QED
      BY <3>3, FieldType, 0 \in 0..MaxAttempts
  <2>2. /\ [user EXCEPT !.status = "ACTIVE"] \in User
        /\ [user EXCEPT !.status = "SUSPENDED"] \in User
        /\ [user EXCEPT !.claim = "null"] \in User
    BY FieldType DEF Status
  <2>3. user' \in User
    BY <1>4, <2>1, <2>2 DEF Recover, Restore, Suspend, Unsuspend, ReleaseFailedClaim
  <2> QED
    BY <1>0, <1>4, <2>3 DEF Recover, Restore, Suspend, Unsuspend, ReleaseFailedClaim
<1>5. CASE Claim(p)
  <2>1. CASE Claimable
    <3>1. [user EXCEPT !.claim = "fresh", !.attempts = @ + 1] \in User
      <4>1. user.attempts + 1 \in 0..MaxAttempts
        BY <2>1 DEF Claimable, Eligible, User
      <4>2. [user EXCEPT !.claim = "fresh"] \in User
        BY FieldType
      <4>3. [[user EXCEPT !.claim = "fresh"] EXCEPT !.attempts = user.attempts + 1] \in User
        BY <4>1, <4>2, FieldType
      <4> QED
        BY <4>3 DEF User
    <3>2. [proc[p] EXCEPT !.pc = "read", !.sweep = TRUE] \in ProcState
      BY DEF ProcState, PC
    <3> QED
      BY <1>5, <2>1, <3>1, <3>2 DEF Claim
  <2>2. CASE ~Claimable
    BY <1>0, <1>5, <2>2 DEF Claim
  <2> QED
    BY <2>1, <2>2
<1>6. CASE ReadUser(p)
  <2>1. [proc[p] EXCEPT !.pc = "revoke", !.saw = user.status] \in ProcState
    BY DEF ProcState, PC, User
  <2> QED
    BY <1>0, <1>6, <2>1 DEF ReadUser
<1>7. CASE Erase(p)
  <2>1. user' \in User
    BY <1>7 DEF Erase, User, Status
  <2> QED
    BY <1>0, <1>7, <2>1 DEF Erase
<1>8. CASE TakeNow(p)
  <2>1. user' \in User
    <3>1. [user EXCEPT !.attempts = 0] \in User
      BY FieldType, 0 \in 0..MaxAttempts
    <3>2. [user EXCEPT !.attempts = 0, !.claim = "fresh"] \in User
      BY <3>1, FieldType
    <3> QED
      BY <1>8, <3>2 DEF TakeNow
  <2> QED
    BY <1>0, <1>8, <2>1 DEF TakeNow
<1> QED
  BY <1>1, <1>2, <1>3, <1>4, <1>5, <1>6, <1>7, <1>8 DEF Step, Run, Ask

(* The row and the processes are well typed.                                *)
THEOREM TypeCorrect == Spec => []TypeOK
<1>1. Init => TypeOK
  BY NewUserType DEF Init, TypeOK
<1>2. TypeOK /\ [Next]_vars => TypeOK'
  <2> SUFFICES ASSUME TypeOK, [Next]_vars PROVE TypeOK'
    OBVIOUS
  <2>1. CASE Next
    <3>1. admin' = admin
      BY <2>1, StepCases
    <3>2. ASSUME NEW p \in Proc, Step(p) PROVE TypeOK'
      BY <3>1, <3>2, TypeStep DEF TypeOK
    <3>3. CASE SoftDelete \/ DeadlinePasses \/ LeaseEnds
      BY <3>1, <3>3 DEF TypeOK, SoftDelete, DeadlinePasses, LeaseEnds, User, Status
    <3> QED
      BY <2>1, <3>2, <3>3, StepCases
  <2>2. CASE UNCHANGED vars
    BY <2>2 DEF vars, work, TypeOK
  <2> QED
    BY <2>1, <2>2
<1> QED
  BY <1>1, <1>2, PTL DEF Spec

-----------------------------------------------------------------------------
(* What the four properties rest on.                                        *)

(* A process is in a route of an administrator only where the route is      *)
(* used, and a request for deletion has seen an account that was not        *)
(* deleted.                                                                 *)
RouteInv == \A p \in Proc :
    /\ At(p, "takeNow") => "purgeNow" \in admin
    /\ At(p, "suspend") \/ At(p, "unsuspend") => "suspend" \in admin
    /\ At(p, "restore") => "restore" \in admin
    /\ At(p, "schedule") => proc[p].saw \in {"ACTIVE", "SUSPENDED"}

(* The workers that have claimed the account, and the recoveries under way. *)
Holders    == {p \in Proc : proc[p].pc \in {"read", "revoke", "erase", "release"}}
Recovering == {p \in Proc : proc[p].pc = "recover"}

Due == user.status = "PENDING_DELETION" /\ user.sched = "due"

(* Without administrators the account a worker holds is due until it is     *)
(* purged; and while a recovery is under way there is one holder at most    *)
(* and its claim is fresh, as a lease does not end during a request.        *)
SweepInv == admin = {} =>
    /\ Holders # {} => user.completed \/ Due
    /\ Recovering # {} /\ Holders # {} /\ ~user.completed
           => user.claim = "fresh" /\ \A p, r \in Holders : r = p

IInv == TypeOK /\ RouteInv /\ NoPurgedShell /\ WindowIsRecoverable /\ SweepInv

LEMMA RouteStep ==
    ASSUME TypeOK, RouteInv, Next
    PROVE  RouteInv'
<1> USE DEF TypeOK, RouteInv, At, Goto, Finish
<1>0. admin' = admin
  BY StepCases
<1>1. ASSUME NEW p \in Proc, Step(p) PROVE RouteInv'
  <2>1. \A q \in Proc \ {p} : proc'[q] = proc[q]
    BY <1>1 DEF Step, Run, Ask, Schedule, Recover, Claim, ReadUser, RevokeSessions, Erase,
       ReleaseFailedClaim, TakeNow, Suspend, Unsuspend, Restore, AskDeletion, AskRecovery,
       AskPurgeNow, AskSuspend, AskRestore, FindEligible, PurgeFails, Crash
  <2>2. /\ proc'[p].pc = "takeNow" => "purgeNow" \in admin
        /\ proc'[p].pc \in {"suspend", "unsuspend"} => "suspend" \in admin
        /\ proc'[p].pc = "restore" => "restore" \in admin
        /\ proc'[p].pc = "schedule" => proc'[p].saw \in {"ACTIVE", "SUSPENDED"}
    BY <1>1 DEF Step, Run, Ask, Schedule, Recover, Claim, ReadUser, RevokeSessions, Erase,
       ReleaseFailedClaim, TakeNow, Suspend, Unsuspend, Restore, AskDeletion, AskRecovery,
       AskPurgeNow, AskSuspend, AskRestore, FindEligible, PurgeFails, Crash, Idle, ProcState
  <2> QED
    BY <1>0, <2>1, <2>2
<1>2. CASE SoftDelete \/ DeadlinePasses \/ LeaseEnds
  BY <1>0, <1>2 DEF SoftDelete, DeadlinePasses, LeaseEnds
<1> QED
  BY <1>1, <1>2, StepCases

LEMMA ShellStep ==
    ASSUME TypeOK, RouteInv, NoPurgedShell, Next
    PROVE  NoPurgedShell'
<1> USE DEF TypeOK, User, NoPurgedShell
<1>0. admin' = admin
  BY StepCases
<1>1. ASSUME NEW p \in Proc, Step(p) PROVE NoPurgedShell'
  <2>1. CASE user' = user
    BY <1>0, <2>1
  <2>2. CASE Schedule(p)
    BY <1>0, <2>2 DEF Schedule, Scheduled, NewUser
  <2>3. CASE Recover(p)
    BY <1>0, <2>3 DEF Recover, Recoverable
  <2>4. CASE Claim(p) \/ Erase(p) \/ ReleaseFailedClaim(p) \/ TakeNow(p)
    BY <1>0, <2>4 DEF Claim, Erase, ReleaseFailedClaim, TakeNow
  <2>5. CASE Suspend(p) \/ Unsuspend(p) \/ Restore(p)
    BY <1>0, <2>5 DEF Suspend, Unsuspend, Restore, RouteInv
  <2> QED
    BY <1>1, <2>1, <2>2, <2>3, <2>4, <2>5 DEF Step, Run, Ask, ReadUser, RevokeSessions,
       AskDeletion, AskRecovery, AskPurgeNow, AskSuspend, AskRestore, FindEligible,
       PurgeFails, Crash
<1>2. CASE SoftDelete \/ DeadlinePasses \/ LeaseEnds
  BY <1>0, <1>2 DEF SoftDelete, DeadlinePasses, LeaseEnds
<1> QED
  BY <1>1, <1>2, StepCases

LEMMA WindowStep ==
    ASSUME TypeOK, RouteInv, WindowIsRecoverable, Next
    PROVE  WindowIsRecoverable'
<1> USE DEF TypeOK, User, WindowIsRecoverable
<1>0. admin' = admin
  BY StepCases
<1>1. ASSUME NEW p \in Proc, Step(p) PROVE WindowIsRecoverable'
  <2>1. CASE user' = user
    BY <1>0, <2>1
  <2>2. CASE Schedule(p)
    BY <1>0, <2>2 DEF Schedule, Scheduled, NewUser
  <2>3. CASE Claim(p)
    BY <1>0, <2>3 DEF Claim, Claimable, Eligible
  <2>4. CASE ReleaseFailedClaim(p)
    BY <1>0, <2>4 DEF ReleaseFailedClaim
  <2>5. CASE TakeNow(p)
    BY <1>0, <2>5 DEF TakeNow, RouteInv
  <2>6. CASE Recover(p) \/ Erase(p) \/ Suspend(p) \/ Unsuspend(p) \/ Restore(p)
    BY <1>0, <2>6 DEF Recover, Erase, Suspend, Unsuspend, Restore
  <2> QED
    BY <1>1, <2>1, <2>2, <2>3, <2>4, <2>5, <2>6 DEF Step, Run, Ask, ReadUser, RevokeSessions,
       AskDeletion, AskRecovery, AskPurgeNow, AskSuspend, AskRestore, FindEligible,
       PurgeFails, Crash
<1>2. CASE SoftDelete \/ DeadlinePasses \/ LeaseEnds
  BY <1>0, <1>2 DEF SoftDelete, DeadlinePasses, LeaseEnds
<1> QED
  BY <1>1, <1>2, StepCases
-----------------------------------------------------------------------------
(* The argument between the owner and the sweep.  A claim is never taken    *)
(* over from a holder while a recovery is under way, so that the recovery,  *)
(* which needs the claim to be null, finds a holder only after it failed.   *)

(* A step that makes nobody a holder or the bearer of a recovery keeps the  *)
(* invariant on an unchanged row.                                           *)
LEMMA SweepKept ==
    ASSUME SweepInv, user' = user, admin' = admin,
           Holders' \subseteq Holders, Recovering' \subseteq Recovering
    PROVE  SweepInv'
  BY DEF SweepInv, Due

LEMMA SweepStep ==
    ASSUME TypeOK, RouteInv, NoPurgedShell, SweepInv, Next
    PROVE  SweepInv'
<1>0. admin' = admin
  BY StepCases
<1> SUFFICES ASSUME admin = {} PROVE SweepInv'
  BY <1>0 DEF SweepInv
<1>a. /\ Holders # {} => user.completed \/ Due
      /\ Recovering # {} /\ Holders # {} /\ ~user.completed
             => user.claim = "fresh" /\ \A p, r \in Holders : r = p
      /\ user.completed => user.status = "DELETED"
  BY DEF SweepInv, NoPurgedShell
<1>1. ASSUME NEW p \in Proc, AskDeletion(p) \/ FindEligible(p) \/ AskPurgeNow(p) \/ ReadUser(p)
             \/ RevokeSessions(p) \/ PurgeFails(p) \/ Crash(p)
      PROVE  SweepInv'
  <2>1. user' = user /\ \A q \in Proc \ {p} : proc'[q] = proc[q]
    BY <1>1 DEF AskDeletion, FindEligible, AskPurgeNow, ReadUser, RevokeSessions, PurgeFails,
                Crash, Goto, Finish, TypeOK
  <2>2. /\ p \in Holders' => p \in Holders
        /\ p \in Recovering' => p \in Recovering
    BY <1>1 DEF AskDeletion, FindEligible, AskPurgeNow, ReadUser, RevokeSessions, PurgeFails,
                Crash, Goto, Finish, Idle, TypeOK, ProcState, At, Holders, Recovering
  <2>3. Holders' \subseteq Holders /\ Recovering' \subseteq Recovering
    BY <2>1, <2>2 DEF Holders, Recovering
  <2> QED
    BY <1>0, <2>1, <2>3, SweepKept
<1>2. ASSUME NEW p \in Proc, AskRecovery(p) PROVE SweepInv'
  <2>1. user' = user /\ Holders' \subseteq Holders
    BY <1>2 DEF AskRecovery, Goto, Holders, TypeOK
  <2>2. Holders # {} => user.completed
    BY <1>2, <1>a DEF AskRecovery, Due
  <2> QED
    BY <1>a, <2>1, <2>2 DEF SweepInv
<1>3. ASSUME NEW p \in Proc, Schedule(p) PROVE SweepInv'
  <2>1. Holders' \subseteq Holders /\ Recovering' \subseteq Recovering
    BY <1>3 DEF Schedule, Finish, Idle, Holders, Recovering, TypeOK
  <2>2. CASE user.status = proc[p].saw /\ ~user.deletedAt
    <3>1. Holders = {}
      BY <1>3, <1>a, <2>2 DEF Schedule, RouteInv, Due
    <3> QED
      BY <2>1, <3>1 DEF SweepInv
  <2>3. CASE ~(user.status = proc[p].saw /\ ~user.deletedAt)
    BY <1>0, <1>3, <2>1, <2>3, SweepKept DEF Schedule
  <2> QED
    BY <2>2, <2>3
<1>4. ASSUME NEW p \in Proc, Recover(p) PROVE SweepInv'
  <2>1. Holders' \subseteq Holders /\ Recovering' \subseteq Recovering
    BY <1>4 DEF Recover, Finish, Idle, Holders, Recovering, TypeOK
  <2>2. CASE Recoverable
    <3>1. p \in Recovering
      BY <1>4 DEF Recover, At, Recovering
    <3>2. Holders = {}
      BY <1>a, <2>2, <3>1 DEF Recoverable
    <3> QED
      BY <2>1, <3>2 DEF SweepInv
  <2>3. CASE ~Recoverable
    BY <1>0, <1>4, <2>1, <2>3, SweepKept DEF Recover
  <2> QED
    BY <2>2, <2>3
<1>5. ASSUME NEW p \in Proc, Claim(p) PROVE SweepInv'
  <2>1. CASE Claimable
    <3>1. /\ Due /\ user.claim # "fresh"
          /\ Due' /\ user'.completed = user.completed /\ user'.claim = "fresh"
      BY <1>5, <2>1 DEF Claim, Claimable, Eligible, Lapsed, Due, TypeOK, User
    <3>2. Holders' \subseteq Holders \cup {p} /\ Recovering' \subseteq Recovering
      BY <1>5, <2>1 DEF Claim, Holders, Recovering, TypeOK, ProcState
    <3>3. Recovering # {} /\ ~user.completed => Holders = {}
      BY <1>a, <3>1
    <3> QED
      BY <3>1, <3>2, <3>3 DEF SweepInv
  <2>2. CASE ~Claimable
    <3>1. Holders' \subseteq Holders /\ Recovering' \subseteq Recovering
      BY <1>5, <2>2 DEF Claim, Finish, Idle, Holders, Recovering, TypeOK
    <3> QED
      BY <1>0, <1>5, <2>2, <3>1, SweepKept DEF Claim
  <2> QED
    BY <2>1, <2>2
<1>6. ASSUME NEW p \in Proc, Erase(p) PROVE SweepInv'
  <2>1. user'.completed
    BY <1>6 DEF Erase, TypeOK, User
  <2> QED
    BY <2>1 DEF SweepInv
<1>7. ASSUME NEW p \in Proc, ReleaseFailedClaim(p) PROVE SweepInv'
  <2>1. p \in Holders /\ Holders' \subseteq Holders \ {p} /\ Recovering' \subseteq Recovering
    BY <1>7 DEF ReleaseFailedClaim, Finish, Idle, Holders, Recovering, At, TypeOK
  <2>2. user'.completed = user.completed /\ (Due => Due')
    BY <1>7 DEF ReleaseFailedClaim, Due, TypeOK, User
  <2>3. Recovering' # {} /\ ~user'.completed => Holders' = {}
    BY <1>a, <2>1, <2>2
  <2> QED
    BY <1>a, <2>1, <2>2, <2>3 DEF SweepInv
<1>8. /\ ~SoftDelete
      /\ \A p \in Proc : ~(TakeNow(p) \/ Suspend(p) \/ Unsuspend(p) \/ Restore(p)
                            \/ AskSuspend(p) \/ AskRestore(p))
  BY DEF RouteInv, TakeNow, Suspend, Unsuspend, Restore, AskSuspend, AskRestore, SoftDelete
<1>9. CASE DeadlinePasses
  <2>1. /\ proc' = proc /\ (Due => Due') /\ user'.completed = user.completed
        /\ user'.claim = user.claim
    BY <1>9 DEF DeadlinePasses, Due, TypeOK, User
  <2>2. Holders' = Holders /\ Recovering' = Recovering
    BY <2>1 DEF Holders, Recovering
  <2> QED
    BY <1>a, <2>1, <2>2 DEF SweepInv
<1>10. CASE LeaseEnds
  <2>1. /\ proc' = proc /\ (Due => Due') /\ user'.completed = user.completed
        /\ Recovering = {}
    BY <1>10 DEF LeaseEnds, Due, TypeOK, User, Recovering
  <2>2. Holders' = Holders /\ Recovering' = Recovering
    BY <2>1 DEF Holders, Recovering
  <2> QED
    BY <1>a, <2>1, <2>2 DEF SweepInv
<1> QED
  <2>1. ASSUME NEW p \in Proc, Step(p) PROVE SweepInv'
    BY <1>1, <1>2, <1>3, <1>4, <1>5, <1>6, <1>7, <1>8, <2>1 DEF Step, Run, Ask
  <2> QED
    BY <1>8, <1>9, <1>10, <2>1, StepCases

-----------------------------------------------------------------------------
(* The invariant holds from the start and is kept by every step.            *)
LEMMA Inductive == Spec => []IInv
<1>1. Init => IInv
  <2> SUFFICES ASSUME Init PROVE IInv
    OBVIOUS
  <2>1. TypeOK
    BY NewUserType DEF Init, TypeOK
  <2>2. user = NewUser /\ \A p \in Proc : proc[p] = Idle
    BY DEF Init
  <2> QED
    BY <2>1, <2>2 DEF IInv, RouteInv, NoPurgedShell, WindowIsRecoverable, SweepInv, Holders, At,
                      NewUser, Idle
<1>2. IInv /\ TypeOK' /\ [Next]_vars => IInv'
  <2> SUFFICES ASSUME IInv, TypeOK', [Next]_vars PROVE IInv'
    OBVIOUS
  <2>1. CASE Next
    BY <2>1, RouteStep, ShellStep, WindowStep, SweepStep DEF IInv
  <2>2. CASE UNCHANGED vars
    BY <2>2 DEF vars, work, IInv, TypeOK, RouteInv, NoPurgedShell, WindowIsRecoverable,
                SweepInv, Holders, Recovering, Due, At
  <2> QED
    BY <2>1, <2>2
<1> QED
  BY <1>1, <1>2, TypeCorrect, PTL DEF Spec

(* A purged account stays deleted, where no administrator restores or       *)
(* suspends: recoverAccount and requestDeletion never revive the shell.     *)
THEOREM PurgedStaysDeleted == Spec => []NoPurgedShell
<1>1. IInv => NoPurgedShell
  BY DEF IInv
<1> QED
  BY <1>1, Inductive, PTL

(* In the window the row carries no claim and no failure of an earlier      *)
(* deletion: recoverAccount's condition holds for the whole 30 days.        *)
THEOREM WindowStaysOpen == Spec => []WindowIsRecoverable
<1>1. IInv => WindowIsRecoverable
  BY DEF IInv
<1> QED
  BY <1>1, Inductive, PTL

(* The sweep erases only an account that is PENDING_DELETION and due,       *)
(* although purgeUser writes the row by id: a recovery in between is kept   *)
(* out by the claim, for any number of sweeps, requests and crashes.        *)
THEOREM SweepErasesOnlyDue == Spec => SweepKeepsWindow
<1>1. IInv /\ [Next]_vars => [admin = {} => ErasesOnlyDue]_vars
  <2> SUFFICES ASSUME IInv, Next, admin = {}, user'.completed, ~user.completed
               PROVE  user.status = "PENDING_DELETION" /\ user.sched = "due"
    BY DEF ErasesOnlyDue
  <2>1. PICK p \in Proc : Erase(p)
    <3>1. ASSUME NEW p \in Proc, Step(p), ~Erase(p) PROVE user'.completed => user.completed
      BY <3>1 DEF IInv, TypeOK, User, Step, Run, Ask, Schedule, Scheduled, NewUser, Recover, Claim,
           ReadUser, RevokeSessions, ReleaseFailedClaim, TakeNow, Suspend, Unsuspend, Restore,
           AskDeletion, AskRecovery, AskPurgeNow, AskSuspend, AskRestore, FindEligible,
           PurgeFails, Crash
    <3>2. DeadlinePasses \/ LeaseEnds \/ SoftDelete => user'.completed = user.completed
      BY DEF IInv, TypeOK, User, DeadlinePasses, LeaseEnds, SoftDelete
    <3> QED
      BY <3>1, <3>2, StepCases
  <2>2. p \in Holders
    BY <2>1 DEF Erase, Holders, At
  <2> QED
    BY <2>2 DEF IInv, SweepInv, Due
<1> QED
  BY <1>1, Inductive, PTL DEF Spec, SweepKeepsWindow
=============================================================================
