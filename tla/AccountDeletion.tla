--------------------------- MODULE AccountDeletion ---------------------------
(***************************************************************************)
(* The deletion lifecycle of one account                                   *)
(* (backend/src/account-deletion/account-deletion.service.ts and           *)
(* account-deletion.purge.service.ts, and the administrator's routes in    *)
(* admin/account-deletion and admin/users).                                *)
(*                                                                         *)
(* The owner asks for deletion and may recover for 30 days; a sweep claims *)
(* accounts that are due and purges them.  Requests and sweeps are         *)
(* processes; every awaited statement is one action.  The one-time codes   *)
(* in front of the two requests are module UserOtp.                        *)
(***************************************************************************)
EXTENDS Naturals

CONSTANTS
    Proc,          \* requests and sweeps that run at the same time
    MaxAttempts,   \* PURGE_MAX_ATTEMPTS
    Staff          \* sets of "purgeNow", "suspend", "restore", "softDelete": see admin

ASSUME AttemptsAssumption == MaxAttempts \in Nat \ {0}

VARIABLES
    user,          \* the row of the User table
    proc,
    admin          \* the routes administrators use in this behaviour; never changes

work == <<user, proc>>
vars == <<user, proc, admin>>

-----------------------------------------------------------------------------
(* "sched" is scheduledPurgeAt against the clock, "claim" purgeStartedAt:   *)
(* null, within PURGE_LEASE_MS, or older.  "completed" is purgeCompletedAt  *)
(* # null: the row is anonymized and the data gone.                         *)
Status == {"ACTIVE", "SUSPENDED", "PENDING_DELETION", "DELETED"}

User == [status : Status, deletedAt : BOOLEAN,
         sched : {"null", "future", "due"}, claim : {"null", "fresh", "stale"},
         attempts : 0..MaxAttempts, completed : BOOLEAN]

NewUser == [status |-> "ACTIVE", deletedAt |-> FALSE, sched |-> "null",
            claim |-> "null", attempts |-> 0, completed |-> FALSE]

PC == {"idle", "schedule", "recover", "claim", "read", "revoke", "erase", "release",
       "takeNow", "suspend", "unsuspend", "restore"}

(* saw: the status requestDeletion or purgeUser read.  sweep: the purge     *)
(* belongs to a sweep, which releases its claim when it fails.              *)
Idle == [pc |-> "idle", saw |-> "ACTIVE", sweep |-> FALSE]

ProcState == [pc : PC, saw : Status, sweep : BOOLEAN]

At(p, c)   == proc[p].pc = c
Goto(p, c) == proc' = [proc EXCEPT ![p].pc = c]
Finish(p)  == proc' = [proc EXCEPT ![p] = Idle]

Init == /\ user = NewUser
        /\ proc = [p \in Proc |-> Idle]
        /\ admin \in Staff

-----------------------------------------------------------------------------
(* requestDeletion.  JwtGuard let the owner in when the account was ACTIVE; *)
(* a suspension may have come since.                                        *)

AskDeletion(p) ==
    /\ At(p, "idle")
    /\ user.status \in {"ACTIVE", "SUSPENDED"}
    /\ ~user.deletedAt
    /\ proc' = [proc EXCEPT ![p] = [pc |-> "schedule", saw |-> user.status, sweep |-> FALSE]]
    /\ UNCHANGED user

(* A new window starts without the claim and the failures of an old one.    *)
MutScheduled == [user EXCEPT !.status = "PENDING_DELETION", !.deletedAt = TRUE,
                             !.sched = "future", !.completed = FALSE, !.attempts = 0]
Scheduled == [NewUser EXCEPT !.status = "PENDING_DELETION", !.deletedAt = TRUE,
                             !.sched = "future"]

Schedule(p) ==
    /\ At(p, "schedule")
    /\ user' = IF user.status = proc[p].saw /\ ~user.deletedAt THEN Scheduled ELSE user
    /\ Finish(p)

(* recoverAccount, for the owner and for an administrator: the time is      *)
(* taken first, the conditional update comes later.                         *)
AskRecovery(p) ==
    /\ At(p, "idle")
    /\ user.sched = "future"
    /\ Goto(p, "recover")
    /\ UNCHANGED user

MutRecoverable == user.status = "PENDING_DELETION" /\ user.sched # "null"
MutRecoverAny == user.sched # "null"
Recoverable == /\ user.status = "PENDING_DELETION"
               /\ user.sched # "null"
               /\ user.claim = "null"

Recover(p) ==
    /\ At(p, "recover")
    /\ user' = IF Recoverable
               THEN [user EXCEPT !.status = "ACTIVE", !.deletedAt = FALSE, !.sched = "null",
                                 !.attempts = 0]
               ELSE user
    /\ Finish(p)

-----------------------------------------------------------------------------
(* runSweep: findEligible, claim, purgeUser, releaseFailedClaim.            *)

MutLapsed == user.claim = "null"
Lapsed == user.claim # "fresh"

Eligible == /\ user.status = "PENDING_DELETION"
            /\ user.sched = "due"
            /\ user.attempts < MaxAttempts
            /\ Lapsed

FindEligible(p) ==
    /\ At(p, "idle")
    /\ Eligible
    /\ Goto(p, "claim")
    /\ UNCHANGED user

MutClaimMore == user.status = "PENDING_DELETION" /\ user.sched = "due" /\ Lapsed
Claimable == Eligible

Claim(p) ==
    /\ At(p, "claim")
    /\ \/ /\ Claimable
          /\ user' = [user EXCEPT !.claim = "fresh", !.attempts = @ + 1]
          /\ proc' = [proc EXCEPT ![p].pc = "read", ![p].sweep = TRUE]
       \/ /\ ~Claimable
          /\ Finish(p)
          /\ UNCHANGED user

(* purgeUser: a purge that is complete is not repeated; any other status    *)
(* goes on.                                                                 *)
ReadUser(p) ==
    /\ At(p, "read")
    /\ IF user.status = "DELETED" /\ user.completed
       THEN Finish(p)
       ELSE proc' = [proc EXCEPT ![p].pc = "revoke", ![p].saw = user.status]
    /\ UNCHANGED user

(* revokeAllForUser ends the sessions; see module UserSession.              *)
RevokeSessions(p) ==
    /\ At(p, "revoke")
    /\ Goto(p, "erase")
    /\ UNCHANGED user

(* The transaction; the row is updated by id, whatever it says by now.      *)
Erase(p) ==
    /\ At(p, "erase")
    /\ user' = [user EXCEPT !.status = "DELETED", !.completed = TRUE,
                            !.deletedAt = @ \/ proc[p].saw # "DELETED"]
    /\ Finish(p)

PurgeFails(p) ==
    /\ proc[p].pc \in {"read", "revoke", "erase"}
    /\ IF proc[p].sweep THEN Goto(p, "release") ELSE Finish(p)
    /\ UNCHANGED user

ReleaseFailedClaim(p) ==
    /\ At(p, "release")
    /\ user' = IF user.status = "PENDING_DELETION" THEN [user EXCEPT !.claim = "null"] ELSE user
    /\ Finish(p)

-----------------------------------------------------------------------------
(* The administrator: purgeNow, suspendUser and unsuspendUser, restoreUser, *)
(* softDeleteUser.  The last four write by id what they decided from a read.*)

AskPurgeNow(p) ==
    /\ "purgeNow" \in admin
    /\ At(p, "idle")
    /\ user.status = "PENDING_DELETION"
    /\ user.sched = "due"
    /\ Goto(p, "takeNow")
    /\ UNCHANGED user

TakeNow(p) ==
    /\ At(p, "takeNow")
    /\ user' = IF user.status = "PENDING_DELETION"
               THEN [user EXCEPT !.attempts = 0, !.claim = "fresh"] ELSE user
    /\ Goto(p, "read")

AskSuspend(p) ==
    /\ "suspend" \in admin
    /\ At(p, "idle")
    /\ \/ user.status = "ACTIVE" /\ Goto(p, "suspend")
       \/ user.status = "SUSPENDED" /\ ~user.completed /\ Goto(p, "unsuspend")
    /\ UNCHANGED user

Suspend(p) ==
    /\ At(p, "suspend")
    /\ user' = [user EXCEPT !.status = "SUSPENDED"]
    /\ Finish(p)

Unsuspend(p) ==
    /\ At(p, "unsuspend")
    /\ user' = [user EXCEPT !.status = "ACTIVE"]
    /\ Finish(p)

AskRestore(p) ==
    /\ "restore" \in admin
    /\ At(p, "idle")
    /\ ~user.completed
    /\ user.status \in {"DELETED", "PENDING_DELETION"}
    /\ Goto(p, "restore")
    /\ UNCHANGED user

Restore(p) ==
    /\ At(p, "restore")
    /\ user' = [user EXCEPT !.status = "ACTIVE", !.deletedAt = FALSE, !.sched = "null",
                            !.attempts = 0]
    /\ Finish(p)

SoftDelete ==
    /\ "softDelete" \in admin
    /\ user' = [user EXCEPT !.status = "DELETED", !.deletedAt = TRUE]
    /\ UNCHANGED proc

-----------------------------------------------------------------------------
(* Time and crashes.  A request does not live for the 30 days of the window *)
(* nor for the 30 minutes of the lease; a sweep may outlive the lease, as   *)
(* it stamps up to PURGE_BATCH_SIZE claims with the time of its start.      *)

DeadlinePasses ==
    /\ user.sched = "future"
    /\ \A p \in Proc : proc[p].pc \notin {"claim", "takeNow"}
    /\ user' = [user EXCEPT !.sched = "due"]
    /\ UNCHANGED proc

LeaseEnds ==
    /\ user.claim = "fresh"
    /\ \A p \in Proc : proc[p].pc \notin {"schedule", "recover", "takeNow"}
    /\ user' = [user EXCEPT !.claim = "stale"]
    /\ UNCHANGED proc

Crash(p) ==
    /\ ~At(p, "idle")
    /\ Finish(p)
    /\ UNCHANGED user

-----------------------------------------------------------------------------
Run(p) == \/ Schedule(p) \/ Recover(p)
          \/ Claim(p) \/ ReadUser(p) \/ RevokeSessions(p) \/ Erase(p) \/ ReleaseFailedClaim(p)
          \/ TakeNow(p) \/ Suspend(p) \/ Unsuspend(p) \/ Restore(p)

Ask(p) == \/ AskDeletion(p) \/ AskRecovery(p)
          \/ AskPurgeNow(p) \/ AskSuspend(p) \/ AskRestore(p)

Next == /\ \/ \E p \in Proc : Run(p) \/ Ask(p) \/ FindEligible(p) \/ PurgeFails(p) \/ Crash(p)
           \/ SoftDelete
           \/ DeadlinePasses
           \/ LeaseEnds
        /\ UNCHANGED admin

Spec == Init /\ [][Next]_vars

(* Processes keep running, time passes, and the sweep is a repeatable job   *)
(* of its own queue: requests do not keep it from the row for ever, and it  *)
(* does not die before its claim every time.  It may die after it.          *)
Fairness ==
    /\ \A p \in Proc : WF_work(Run(p))
    /\ WF_work(LeaseEnds)
    /\ SF_work(\E p \in Proc : FindEligible(p))
    /\ SF_work(\E p \in Proc : Claim(p) /\ Claimable)

FairSpec == Spec /\ Fairness

-----------------------------------------------------------------------------
(* Type correctness of the User row and the processes.                      *)
TypeOK == user \in User /\ proc \in [Proc -> ProcState] /\ admin \in Staff

ErasesOnlyDue == user'.completed /\ ~user.completed
                    => user.status = "PENDING_DELETION" /\ user.sched = "due"

(* The promise of the recovery window: only an account that is still        *)
(* PENDING_DELETION and whose 30 days are over is erased.                   *)
PurgeOnlyAfterWindow == [][ErasesOnlyDue]_vars

(* The same between the owner and the sweep: a recovery that commits at the *)
(* last moment and the worker's claim cannot both win.                      *)
SweepKeepsWindow == [][admin = {} => ErasesOnlyDue]_vars

(* A purged account stays deleted as long as no administrator suspends or   *)
(* restores it: recovery, a new request, a soft deletion and a purge by     *)
(* hand respect "flipping the status back would produce an empty shell that *)
(* looks alive"; the routes of suspension and restoration do not look at    *)
(* purgeCompletedAt and bring the status back.                              *)
NoPurgedShell == admin \cap {"suspend", "restore"} = {} /\ user.completed
                    => user.status = "DELETED"

(* An owner inside the 30 days can always recover: no claim and no failure  *)
(* of an earlier deletion, cancelled by an administrator while a worker had *)
(* it, is left on the row.                                                  *)
WindowIsRecoverable ==
    /\ "purgeNow" \notin admin
    /\ user.status = "PENDING_DELETION"
    /\ user.sched = "future"
    => user.claim = "null" /\ user.attempts = 0

(* An account that is due is purged, or is parked for a human: a worker     *)
(* that fails or dies does not leave it behind, nor does an administrator   *)
(* who restores or suspends it.  (One who purges by hand again and again    *)
(* keeps the claim fresh, and the sweep away.)                              *)
PurgedOrParked ==
    ("purgeNow" \notin admin /\ user.status = "PENDING_DELETION" /\ user.sched = "due")
        ~> (user.status # "PENDING_DELETION" \/ user.attempts = MaxAttempts)
=============================================================================
