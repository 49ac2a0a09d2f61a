----------------------------- MODULE Activities -----------------------------
(***************************************************************************)
(* One activity of Meetifyy: who takes part, who is invited, and how it    *)
(* closes (backend/src/activities/activities.service.ts with               *)
(* activity-authorization.service.ts, and the invite notification of       *)
(* backend/src/notifications/notifications.service.ts).                    *)
(*                                                                         *)
(* Requests and the minute sweeps are processes; every awaited statement   *)
(* that reads or writes what is kept here is one action.  The statement    *)
(* that inserts a member has two: at READ COMMITTED it counts in the       *)
(* snapshot of its beginning and its row is seen at its end.               *)
(*                                                                         *)
(* COLLEGE_ONLY is PUBLIC for the host's college and PRIVATE for others.   *)
(* Blocks only refuse and are left out.  The host is a member for ever and *)
(* is not in User.                                                         *)
(***************************************************************************)
EXTENDS Naturals, FiniteSets, FiniteSetsExt

CONSTANTS
    User,          \* everybody but the host
    Invitee,       \* those the host invites
    Proc,          \* requests and sweeps that run at the same time
    Ops,           \* what is done: of "join", "answer", "invite", "revoke", "show", "close", "list"
    MaxMembers     \* maxMembers of the activity, the host included

ASSUME InviteeAssumption == Invitee \subseteq User
ASSUME SeatsAssumption   == MaxMembers \in Nat \ {0}
ASSUME FiniteAssumption  == IsFiniteSet(User) /\ IsFiniteSet(Proc) /\ Proc # {}

VARIABLES
    act,           \* the CrewActivity row, and the clock against its dates
    members,       \* who has a CrewActivityMember row, the host apart
    inv,           \* the ActivityInvitation rows, by invitee
    note,          \* lifecycleStatus of the invite notification, by recipient
    jobs,          \* invite notifications queued and not yet written
    proc,
    barred,        \* history: revoked while out, with no request under way, and PRIVATE since
    widest         \* history: the most inserting statements that ever overlapped

table == <<act, members, inv, note, jobs>>
vars  == <<table, proc, barred, widest>>

-----------------------------------------------------------------------------
(* phase: before startDate, after it, after the end (endDate or 3 hours).   *)
Activity == [status : {"OPEN", "ENDED", "CANCELLED"},
             phase : {"ahead", "started", "over"},
             visibility : {"PUBLIC", "PRIVATE"}]

InvStatus == {"none", "PENDING", "ACCEPTED", "DECLINED", "EXPIRED", "CANCELLED"}

(* cooling: declined less than four hours ago.                              *)
Invitation == [status : InvStatus, revoked : BOOLEAN, cooling : BOOLEAN]
NoInvitation == [status |-> "none", revoked |-> FALSE, cooling |-> FALSE]

PC == {"idle", "answerable", "expireOne", "join", "count", "insert", "record", "decline",
       "invite", "create", "notify", "judge", "repair", "close", "closeAct", "closeInv",
       "endAct", "endRead", "endInv", "startInv", "settle", "swap"}

(* who: the user of the request, or the invitees a sweep or the host read   *)
(* as PENDING.  to: the answer, the status invitations are settled with, or *)
(* what a list read in the notification and then what it makes of it.       *)
(* stale: notifications of who that changed since they were read.           *)
Idle == [pc |-> "idle", who |-> {}, to |-> "none", stale |-> {}]
ProcState == [pc : PC, who : SUBSET User, to : InvStatus, stale : SUBSET User]

At(p, c)   == proc[p].pc = c
Goto(p, c) == proc' = [proc EXCEPT ![p].pc = c]
Finish(p)  == proc' = [proc EXCEPT ![p] = Idle]
Begin(p, c, who, to) ==
    proc' = [proc EXCEPT ![p] = [pc |-> c, who |-> who, to |-> to, stale |-> {}]]

(* settleInviteNotifications: nothing to do for nobody.                     *)
Settle(p, who) == Begin(p, IF who = {} THEN "idle" ELSE "settle", who, proc[p].to)

Pending == {u \in Invitee : inv[u].status = "PENDING"}

Init == /\ act \in [status : {"OPEN"}, phase : {"ahead"}, visibility : {"PUBLIC", "PRIVATE"}]
        /\ members = {}
        /\ inv = [u \in User |-> NoInvitation]
        /\ note = [u \in User |-> "none"]
        /\ jobs = {}
        /\ proc = [p \in Proc |-> Idle]
        /\ barred = {}
        /\ widest = 1

-----------------------------------------------------------------------------
(* Authorization: isValidInvitation, canView and canJoin.                   *)

MutValidInvitation(u) == inv[u].status \notin {"none", "DECLINED", "EXPIRED"}
ValidInvitation(u) == inv[u].status \in {"PENDING", "ACCEPTED"} /\ ~inv[u].revoked

MayView(u) == act.visibility = "PUBLIC" \/ u \in members \/ ValidInvitation(u)

MayJoin(u) == /\ MayView(u)
              /\ act.status = "OPEN"
              /\ Cardinality(members) + 1 < MaxMembers

-----------------------------------------------------------------------------
(* joinActivity: the three reads and the decision on them, then the         *)
(* statement that counts and inserts.  It looks at the count again, but not *)
(* at the status, the start, the visibility or the invitation.  A member is *)
(* answered with success.                                                   *)

AskJoin(p, u) ==
    /\ "join" \in Ops
    /\ At(p, "idle")
    /\ u \notin members
    /\ act.phase = "ahead"
    /\ MayJoin(u)
    /\ Begin(p, "count", {u}, "none")
    /\ UNCHANGED <<table, barred, widest>>

(* The same read on behalf of acceptInvitation.                             *)
Join(p) ==
    /\ At(p, "join")
    /\ \E u \in proc[p].who :
          \/ u \in members /\ Goto(p, "record")
          \/ u \notin members /\ act.phase = "ahead" /\ MayJoin(u) /\ Goto(p, "count")
          \/ u \notin members /\ ~(act.phase = "ahead" /\ MayJoin(u)) /\ Finish(p)
    /\ UNCHANGED <<table, barred, widest>>

Inserting == {p \in Proc : At(p, "insert")}

MutHasRoom(p) == TRUE
HasRoom(p) == Cardinality(members) + 1 < MaxMembers \/ proc[p].who \subseteq members

Count(p) ==
    /\ At(p, "count")
    /\ IF HasRoom(p) THEN Goto(p, "insert") ELSE Finish(p)
    /\ widest' = Max({widest, Cardinality(Inserting')})
    /\ UNCHANGED <<table, barred>>

Insert(p) ==
    /\ At(p, "insert")
    /\ members' = members \cup proc[p].who
    /\ IF proc[p].to = "ACCEPTED" THEN Goto(p, "record") ELSE Finish(p)
    /\ UNCHANGED <<act, inv, note, jobs, barred, widest>>

Leave(u) ==
    /\ "join" \in Ops
    /\ u \in members
    /\ members' = members \ {u}
    /\ UNCHANGED <<act, inv, note, jobs, proc, barred, widest>>

-----------------------------------------------------------------------------
(* acceptInvitation and declineInvitation.                                  *)

AskAccept(p, u) ==
    /\ "answer" \in Ops
    /\ At(p, "idle")
    /\ ValidInvitation(u)
    /\ IF inv[u].status = "ACCEPTED" /\ u \in members
       THEN Begin(p, "settle", {u}, "ACCEPTED")
       ELSE Begin(p, "answerable", {u}, "ACCEPTED")
    /\ UNCHANGED <<table, barred, widest>>

AskDecline(p, u) ==
    /\ "answer" \in Ops
    /\ At(p, "idle")
    /\ inv[u].status = "PENDING"
    /\ Begin(p, "answerable", {u}, "DECLINED")
    /\ UNCHANGED <<table, barred, widest>>

(* assertInvitationStillAnswerable                                          *)
Answerable(p) ==
    /\ At(p, "answerable")
    /\ IF act.phase # "ahead" THEN Begin(p, "expireOne", proc[p].who, "EXPIRED")
       ELSE Goto(p, IF proc[p].to = "ACCEPTED" THEN "join" ELSE "decline")
    /\ UNCHANGED <<table, barred, widest>>

(* updateMany where { status in from }.                                     *)
Settled(who, from, to) ==
    [u \in User |-> IF u \in who /\ inv[u].status \in from
                    THEN [inv[u] EXCEPT !.status = to, !.cooling = (to = "DECLINED")]
                    ELSE inv[u]]

ExpireOne(p) ==
    /\ At(p, "expireOne")
    /\ inv' = Settled(proc[p].who, {"PENDING"}, "EXPIRED")
    /\ Settle(p, proc[p].who)
    /\ UNCHANGED <<act, members, note, jobs, barred, widest>>

(* A cancellation or expiry that came meanwhile wins; the membership and    *)
(* the notification are not told.                                           *)
MutAnswered == {"PENDING", "ACCEPTED", "CANCELLED"}
Answered == {"PENDING", "ACCEPTED"}

Record(p) ==
    /\ At(p, "record")
    /\ inv' = Settled(proc[p].who, Answered, "ACCEPTED")
    /\ Settle(p, proc[p].who)
    /\ UNCHANGED <<act, members, note, jobs, barred, widest>>

Decline(p) ==
    /\ At(p, "decline")
    /\ inv' = Settled(proc[p].who, {"PENDING"}, "DECLINED")
    /\ IF proc[p].who \subseteq Pending THEN Settle(p, proc[p].who) ELSE Finish(p)
    /\ UNCHANGED <<act, members, note, jobs, barred, widest>>

-----------------------------------------------------------------------------
(* The host: inviteFriends, revokeInvitation, updateActivityVisibility,     *)
(* cancelCrewActivity and endCrewActivity.                                  *)

(* inviteFriends reads the activity and its members, and then the           *)
(* invitations.                                                             *)
AskInvite(p, u) ==
    /\ "invite" \in Ops
    /\ At(p, "idle")
    /\ act.status = "OPEN"
    /\ act.phase = "ahead"
    /\ u \notin members
    /\ Begin(p, "invite", {u}, "none")
    /\ UNCHANGED <<table, barred, widest>>

ConsiderInvite(p) ==
    /\ At(p, "invite")
    /\ \E u \in proc[p].who :
          IF inv[u].status \in {"PENDING", "ACCEPTED"} \/ inv[u].cooling
          THEN Finish(p) ELSE Goto(p, "create")
    /\ UNCHANGED <<table, barred, widest>>

(* createMany with skipDuplicates: an old row stays as it is.               *)
Create(p) ==
    /\ At(p, "create")
    /\ inv' = Settled(proc[p].who, {"none"}, "PENDING")
    /\ Goto(p, "notify")
    /\ UNCHANGED <<act, members, note, jobs, barred, widest>>

Notify(p) ==
    /\ At(p, "notify")
    /\ jobs' = jobs \cup proc[p].who
    /\ Finish(p)
    /\ UNCHANGED <<act, members, inv, note, barred, widest>>

Revoke(p, u) ==
    /\ "revoke" \in Ops
    /\ At(p, "idle")
    /\ inv[u].status # "none"
    /\ ~inv[u].revoked
    /\ inv' = [inv EXCEPT ![u] = [status |-> "CANCELLED", revoked |-> TRUE, cooling |-> FALSE]]
    /\ Begin(p, "settle", {u}, "CANCELLED")
    /\ barred' = IF /\ act.visibility = "PRIVATE"
                    /\ u \notin members
                    /\ \A q \in Proc : u \notin proc[q].who
                 THEN barred \cup {u} ELSE barred
    /\ UNCHANGED <<act, members, note, jobs, widest>>

SetVisibility(v) ==
    /\ "show" \in Ops
    /\ act.visibility # v
    /\ act' = [act EXCEPT !.visibility = v]
    /\ barred' = {}
    /\ UNCHANGED <<members, inv, note, jobs, proc, widest>>

(* What an unanswered invitation becomes when the activity is closed.       *)
MutInvitationStatus(terminal) == terminal
InvitationStatus(terminal) == IF terminal = "CANCELLED" THEN "CANCELLED" ELSE "EXPIRED"

AskClose(p, terminal) ==
    /\ "close" \in Ops
    /\ At(p, "idle")
    /\ Begin(p, "close", Pending, InvitationStatus(terminal))
    /\ UNCHANGED <<table, barred, widest>>

(* The two updates of closeCrewActivity run in parallel.                    *)
CloseActivity(p) ==
    /\ proc[p].pc \in {"close", "closeAct"}
    /\ act' = [act EXCEPT !.status = IF proc[p].to = "CANCELLED" THEN "CANCELLED" ELSE "ENDED"]
    /\ IF At(p, "close") THEN Goto(p, "closeInv") ELSE Settle(p, proc[p].who)
    /\ UNCHANGED <<members, inv, note, jobs, barred, widest>>

CloseInvitations(p) ==
    /\ proc[p].pc \in {"close", "closeInv"}
    /\ inv' = Settled(Invitee, {"PENDING"}, proc[p].to)
    /\ IF At(p, "close") THEN Goto(p, "closeAct") ELSE Settle(p, proc[p].who)
    /\ UNCHANGED <<act, members, note, jobs, barred, widest>>

-----------------------------------------------------------------------------
(* The sweeps: autoExpireActivities and expireStartedInvitations.           *)

FindOver(p) ==
    /\ At(p, "idle")
    /\ act.status = "OPEN"
    /\ act.phase = "over"
    /\ Begin(p, "endAct", {}, "EXPIRED")
    /\ UNCHANGED <<table, barred, widest>>

(* By id, whatever the host did since.                                      *)
EndActivity(p) ==
    /\ At(p, "endAct")
    /\ act' = [act EXCEPT !.status = "ENDED"]
    /\ Goto(p, "endRead")
    /\ UNCHANGED <<members, inv, note, jobs, barred, widest>>

EndRead(p) ==
    /\ At(p, "endRead")
    /\ Begin(p, "endInv", Pending, "EXPIRED")
    /\ UNCHANGED <<table, barred, widest>>

EndInvitations(p) ==
    /\ At(p, "endInv")
    /\ inv' = Settled(Invitee, {"PENDING"}, "EXPIRED")
    /\ Settle(p, proc[p].who)
    /\ UNCHANGED <<act, members, note, jobs, barred, widest>>

MutStarted == act.phase = "started"
Started == act.phase # "ahead"

FindStarted(p) ==
    /\ At(p, "idle")
    /\ Started
    /\ Pending # {}
    /\ Begin(p, "startInv", Pending, "EXPIRED")
    /\ UNCHANGED <<table, barred, widest>>

(* By id, whatever the invitee answered since.                              *)
ExpireStarted(p) ==
    /\ At(p, "startInv")
    /\ inv' = Settled(proc[p].who, InvStatus, "EXPIRED")
    /\ Settle(p, proc[p].who)
    /\ UNCHANGED <<act, members, note, jobs, barred, widest>>

-----------------------------------------------------------------------------
(* updateNotificationLifecycleStatus: read the notifications that are still *)
(* PENDING, then a compare-and-swap on updatedAt for each.  A failure is    *)
(* logged and swallowed.                                                    *)

SettleRead(p) ==
    /\ At(p, "settle")
    /\ LET seen == {u \in proc[p].who : note[u] = "PENDING"}
       IN  Begin(p, IF seen = {} THEN "idle" ELSE "swap", seen, proc[p].to)
    /\ UNCHANGED <<table, barred, widest>>

(* A write to the notification of u, seen by those that had read it.        *)
Write(p, u, who) ==
    proc' = [q \in Proc |-> IF q = p
                            THEN IF who = {} THEN Idle ELSE [proc[q] EXCEPT !.who = who]
                            ELSE IF At(q, "swap") /\ u \in proc[q].who
                                 THEN [proc[q] EXCEPT !.stale = @ \cup {u}] ELSE proc[q]]

MutUnchanged(p, u) == TRUE
Unchanged(p, u) == u \notin proc[p].stale

Swap(p) ==
    /\ At(p, "swap")
    /\ \E u \in proc[p].who :
          LET rest == proc[p].who \ {u}
          IN  IF Unchanged(p, u)
              THEN note' = [note EXCEPT ![u] = proc[p].to] /\ Write(p, u, rest)
              ELSE /\ IF rest = {} THEN Finish(p) ELSE proc' = [proc EXCEPT ![p].who = rest]
                   /\ UNCHANGED note
    /\ UNCHANGED <<act, members, inv, jobs, barred, widest>>

SettleFails(p) ==
    /\ proc[p].pc \in {"settle", "swap"}
    /\ Finish(p)
    /\ UNCHANGED <<table, barred, widest>>

(* createActivityInviteNotifications, from the queue (which may run a job   *)
(* again) or inline: an upsert that puts the row back to PENDING.           *)
RunJob(u) ==
    /\ u \in jobs
    /\ jobs' \in {jobs, jobs \ {u}}
    /\ note' = [note EXCEPT ![u] = "PENDING"]
    /\ proc' = [q \in Proc |-> IF At(q, "swap") /\ u \in proc[q].who
                               THEN [proc[q] EXCEPT !.stale = @ \cup {u}] ELSE proc[q]]
    /\ UNCHANGED <<act, members, inv, barred, widest>>

-----------------------------------------------------------------------------
(* getNotifications: the notification is read, then the invitation with its *)
(* activity, and one that says something else than the invitation is        *)
(* written by id, in the background and whatever was written to it since.   *)

AskList(p, u) ==
    /\ "list" \in Ops
    /\ At(p, "idle")
    /\ note[u] # "none"
    /\ Begin(p, "judge", {u}, note[u])
    /\ UNCHANGED <<table, barred, widest>>

(* resolveInviteLifecycle: an invitation that is not answered is judged by  *)
(* its activity, for the time before the sweep.                             *)
InviteLifecycle(u) ==
    IF inv[u].status # "PENDING" THEN inv[u].status
    ELSE IF inv[u].revoked \/ act.status = "CANCELLED" THEN "CANCELLED"
    ELSE IF act.status = "ENDED" \/ act.phase # "ahead" THEN "EXPIRED"
    ELSE "PENDING"

Judge(p) ==
    /\ At(p, "judge")
    /\ \E u \in proc[p].who :
          LET truth == InviteLifecycle(u)
          IN  IF truth \in {"none", proc[p].to} THEN Finish(p)
              ELSE Begin(p, "repair", {u}, truth)
    /\ UNCHANGED <<table, barred, widest>>

Repair(p) ==
    /\ At(p, "repair")
    /\ \E u \in proc[p].who : note' = [note EXCEPT ![u] = proc[p].to] /\ Write(p, u, {})
    /\ UNCHANGED <<act, members, inv, jobs, barred, widest>>

-----------------------------------------------------------------------------
(* Time, and processes that die.                                            *)

Tick ==
    /\ act.phase # "over"
    /\ act' = [act EXCEPT !.phase = IF @ = "ahead" THEN "started" ELSE "over"]
    /\ UNCHANGED <<members, inv, note, jobs, proc, barred, widest>>

CooldownEnds(u) ==
    /\ inv[u].cooling
    /\ inv' = [inv EXCEPT ![u].cooling = FALSE]
    /\ UNCHANGED <<act, members, note, jobs, proc, barred, widest>>

Crash(p) ==
    /\ ~At(p, "idle")
    /\ Finish(p)
    /\ UNCHANGED <<table, barred, widest>>

-----------------------------------------------------------------------------
Run(p) == \/ Join(p) \/ Count(p) \/ Insert(p)
          \/ Answerable(p) \/ ExpireOne(p) \/ Record(p) \/ Decline(p)
          \/ ConsiderInvite(p) \/ Create(p) \/ Notify(p)
          \/ Judge(p) \/ Repair(p) \/ CloseActivity(p) \/ CloseInvitations(p)
          \/ EndActivity(p) \/ EndRead(p) \/ EndInvitations(p) \/ ExpireStarted(p)
          \/ SettleRead(p) \/ Swap(p) \/ SettleFails(p)

Ask(p) == \/ \E u \in User : AskJoin(p, u)
          \/ \E u \in Invitee : \/ AskAccept(p, u) \/ AskDecline(p, u)
                                \/ AskInvite(p, u) \/ Revoke(p, u) \/ AskList(p, u)
          \/ \E terminal \in {"CANCELLED", "ENDED"} : AskClose(p, terminal)

Next == \/ \E p \in Proc : Run(p) \/ Ask(p) \/ FindOver(p) \/ FindStarted(p) \/ Crash(p)
        \/ \E u \in User : Leave(u) \/ RunJob(u) \/ CooldownEnds(u)
        \/ \E v \in {"PUBLIC", "PRIVATE"} : SetVisibility(v)
        \/ Tick

Spec == Init /\ [][Next]_vars

(* Handlers keep running; the sweep runs every minute on a timer of its     *)
(* own, beside the requests, and does not die in the same place every time. *)
Fairness ==
    /\ \A p \in Proc : WF_vars(Run(p))
    /\ SF_vars(\E p \in Proc : FindStarted(p))
    /\ SF_vars(\E p \in Proc : ExpireStarted(p))

FairSpec == Spec /\ Fairness

-----------------------------------------------------------------------------
(* Type correctness.                                                        *)
TypeOK ==
    /\ act \in Activity
    /\ members \subseteq User
    /\ inv \in [User -> Invitation]
    /\ note \in [User -> InvStatus]
    /\ jobs \subseteq User
    /\ proc \in [Proc -> ProcState]
    /\ barred \subseteq User
    /\ widest \in 1..Cardinality(Proc)

(* What the comment of joinActivity promises of the inserting statement:    *)
(* "preventing over-subscription".                                          *)
NeverOversubscribed == Cardinality(members) + 1 <= MaxMembers

(* What the code keeps: the people too many are those whose statements      *)
(* counted together.  While no two statements overlap nobody is too many,   *)
(* however long ago each request read the activity.                         *)
OversubscriptionBounded ==
    LET incoming == UNION {proc[p].who : p \in Inserting}
    IN  Cardinality(members \cup incoming) + 1 <= MaxMembers - 1 + widest

(* An invitation that was declined, revoked, cancelled or has expired is    *)
(* never accepted, however late the acceptance that had read it before.     *)
ClosedStaysClosed ==
    [][\A u \in User : inv[u].status \in {"DECLINED", "EXPIRED", "CANCELLED"}
                          => inv'[u].status # "ACCEPTED"]_vars

(* A notification that tells an outcome is not turned into another outcome  *)
(* by an event that came second: a new invitation resets it, and otherwise  *)
(* only the repair of the list writes over it, by id and with what the list *)
(* made of the invitation.  "An activity ending must not turn an ACCEPTED   *)
(* row back into EXPIRED" is thus kept by the event and not by the list: an *)
(* invitation that was accepted can still be revoked, or expired by the     *)
(* sweep that had read it before, and the next list says so.                *)
OutcomeKept ==
    [][\A u \in User : note[u] \notin {"none", "PENDING"}
          => \/ note'[u] \in {note[u], "PENDING"}
             \/ \E p \in Proc : At(p, "repair") /\ proc[p].who = {u} /\ note'[u] = proc[p].to]_vars

(* "Revocation is immediate and total": a person revoked while not a member *)
(* does not get into a PRIVATE activity by a later request, whatever the    *)
(* host invites again and however the two answers of the person race.       *)
RevokedStaysOut == barred \cap members = {}

(* An invitation nobody answered is settled once the activity has begun,    *)
(* also one that was created while the activity was being closed.           *)
UnansweredExpires ==
    \A u \in User : (act.phase # "ahead" /\ inv[u].status = "PENDING")
                        ~> inv[u].status # "PENDING"
=============================================================================
