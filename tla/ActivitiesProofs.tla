-------------------------- MODULE ActivitiesProofs --------------------------
(***************************************************************************)
(* Theorems about Activities, for any number of people, processes and      *)
(* seats.                                                                  *)
(***************************************************************************)
EXTENDS Activities, FiniteSetTheorems, TLAPS

(* A step of one process.                                                   *)
Step(p) == Run(p) \/ Ask(p) \/ FindOver(p) \/ FindStarted(p) \/ Crash(p)

(* A step of nobody's process.                                              *)
Event == \/ \E u \in User : Leave(u) \/ RunJob(u) \/ CooldownEnds(u)
         \/ \E v \in {"PUBLIC", "PRIVATE"} : SetVisibility(v)
         \/ Tick

LEMMA NextCases == ASSUME Next PROVE (\E p \in Proc : Step(p)) \/ Event
  BY DEF Next, Step, Event

-----------------------------------------------------------------------------
(* Type correctness.                                                        *)

LEMMA PendingType == Pending \in SUBSET User
  BY InviteeAssumption DEF Pending

LEMMA IdleType == Idle \in ProcState
  BY DEF Idle, ProcState, PC, InvStatus

LEMMA SettledType ==
    ASSUME inv \in [User -> Invitation], NEW who, NEW from, NEW to \in InvStatus
    PROVE  Settled(who, from, to) \in [User -> Invitation]
<1>1. ASSUME NEW u \in User
      PROVE  [inv[u] EXCEPT !.status = to, !.cooling = (to = "DECLINED")] \in Invitation
  BY DEF Invitation
<1> QED
  BY <1>1 DEF Settled

(* The ways in which one process moves on.                                  *)
LEMMA MoveType ==
    ASSUME proc \in [Proc -> ProcState], NEW p \in Proc
    PROVE  /\ \A c \in PC : Goto(p, c) => proc' \in [Proc -> ProcState]
           /\ Finish(p) => proc' \in [Proc -> ProcState]
           /\ \A c \in PC, who \in SUBSET User, to \in InvStatus :
                 Begin(p, c, who, to) => proc' \in [Proc -> ProcState]
           /\ \A who \in SUBSET User : Settle(p, who) => proc' \in [Proc -> ProcState]
<1>1. ASSUME NEW c \in PC PROVE [proc[p] EXCEPT !.pc = c] \in ProcState
  BY DEF ProcState
<1>2. ASSUME NEW c \in PC, NEW who \in SUBSET User, NEW to \in InvStatus
      PROVE  [pc |-> c, who |-> who, to |-> to, stale |-> {}] \in ProcState
  BY DEF ProcState
<1>3. proc[p].to \in InvStatus /\ {"idle", "settle"} \subseteq PC
  BY DEF ProcState, PC
<1>4. \A c \in PC : Goto(p, c) => proc' \in [Proc -> ProcState]
  BY <1>1 DEF Goto
<1>5. Finish(p) => proc' \in [Proc -> ProcState]
  BY IdleType DEF Finish
<1>6. \A c \in PC, who \in SUBSET User, to \in InvStatus :
         Begin(p, c, who, to) => proc' \in [Proc -> ProcState]
  BY <1>2 DEF Begin
<1>7. \A who \in SUBSET User : Settle(p, who) => proc' \in [Proc -> ProcState]
  BY <1>3, <1>6 DEF Settle
<1> QED
  BY <1>4, <1>5, <1>6, <1>7

LEMMA SwapType ==
    ASSUME TypeOK, NEW p \in Proc, Swap(p)
    PROVE  note' \in [User -> InvStatus] /\ proc' \in [Proc -> ProcState]
<1>1. PICK u \in proc[p].who :
          LET rest == proc[p].who \ {u}
          IN  IF Unchanged(p, u)
              THEN note' = [note EXCEPT ![u] = proc[p].to] /\ Write(p, u, rest)
              ELSE /\ IF rest = {} THEN Finish(p) ELSE proc' = [proc EXCEPT ![p].who = rest]
                   /\ UNCHANGED note
  BY DEF Swap
<1>2. proc[p] \in ProcState /\ u \in User /\ proc[p].to \in InvStatus
  BY DEF TypeOK, ProcState
<1>3. ASSUME NEW q \in Proc
      PROVE  /\ [proc[q] EXCEPT !.stale = @ \cup {u}] \in ProcState
             /\ [proc[p] EXCEPT !.who = proc[p].who \ {u}] \in ProcState
  BY <1>2 DEF TypeOK, ProcState
<1>4. CASE Unchanged(p, u)
  <2>1. note' = [note EXCEPT ![u] = proc[p].to] /\ Write(p, u, proc[p].who \ {u})
    BY <1>1, <1>4
  <2>2. note' \in [User -> InvStatus]
    BY <1>2, <2>1 DEF TypeOK
  <2>3. \A q \in Proc : proc'[q] \in ProcState
    BY <1>3, <2>1, IdleType DEF Write, TypeOK
  <2>4. proc' = [q \in Proc |-> proc'[q]]
    BY <2>1 DEF Write
  <2> QED
    BY <2>2, <2>3, <2>4
<1>5. CASE ~Unchanged(p, u)
  BY <1>1, <1>2, <1>3, <1>5, IdleType DEF Finish, TypeOK
<1> QED
  BY <1>4, <1>5

LEMMA RepairType ==
    ASSUME TypeOK, NEW p \in Proc, Repair(p)
    PROVE  note' \in [User -> InvStatus] /\ proc' \in [Proc -> ProcState]
<1>1. PICK u \in proc[p].who : note' = [note EXCEPT ![u] = proc[p].to] /\ Write(p, u, {})
  BY DEF Repair
<1>2. u \in User /\ proc[p].to \in InvStatus
  BY DEF TypeOK, ProcState
<1>3. \A q \in Proc : [proc[q] EXCEPT !.stale = @ \cup {u}] \in ProcState
  BY <1>2 DEF TypeOK, ProcState
<1> QED
  BY <1>1, <1>2, <1>3, IdleType DEF Write, TypeOK

LEMMA LifecycleType ==
    ASSUME TypeOK, NEW u \in User
    PROVE  InviteLifecycle(u) \in InvStatus
  BY DEF InviteLifecycle, TypeOK, Invitation, InvStatus

LEMMA ProcTypeStep ==
    ASSUME TypeOK, NEW p \in Proc, Step(p)
    PROVE  proc' \in [Proc -> ProcState]
<1> USE MoveType DEF TypeOK
<1>0. /\ PC = {"idle", "answerable", "expireOne", "join", "count", "insert", "record", "decline",
               "invite", "create", "notify", "judge", "repair", "close", "closeAct", "closeInv",
               "endAct", "endRead", "endInv", "startInv", "settle", "swap"}
      /\ InvStatus = {"none", "PENDING", "ACCEPTED", "DECLINED", "EXPIRED", "CANCELLED"}
      /\ proc[p].who \in SUBSET User /\ proc[p].to \in InvStatus
      /\ Invitee \subseteq User
  BY InviteeAssumption DEF PC, InvStatus, ProcState
<1>1. CASE Join(p) \/ Count(p) \/ Insert(p)
  BY <1>0, <1>1 DEF Join, Count, Insert
<1>2. CASE Answerable(p)
  BY <1>0, <1>2 DEF Answerable
<1>3. CASE ExpireOne(p) \/ Record(p) \/ Decline(p)
  BY <1>0, <1>3 DEF ExpireOne, Record, Decline
<1>4. CASE ConsiderInvite(p) \/ Create(p) \/ Notify(p) \/ CloseActivity(p) \/ CloseInvitations(p)
  BY <1>0, <1>4 DEF ConsiderInvite, Create, Notify, CloseActivity, CloseInvitations
<1>5. CASE EndActivity(p) \/ EndRead(p) \/ EndInvitations(p) \/ ExpireStarted(p)
  BY <1>0, <1>5, PendingType DEF EndActivity, EndRead, EndInvitations, ExpireStarted
<1>6. CASE SettleRead(p)
  <2>1. {u \in proc[p].who : note[u] = "PENDING"} \in SUBSET User
    BY <1>0
  <2> QED
    BY <1>0, <1>6, <2>1 DEF SettleRead
<1>7. CASE Swap(p) \/ Repair(p)
  BY <1>7, SwapType, RepairType
<1>8. CASE SettleFails(p) \/ Crash(p)
  BY <1>8 DEF SettleFails, Crash
<1>9. CASE FindOver(p) \/ FindStarted(p)
  BY <1>0, <1>9, PendingType DEF FindOver, FindStarted
<1>10. ASSUME NEW u \in User, AskJoin(p, u) PROVE proc' \in [Proc -> ProcState]
  BY <1>0, <1>10 DEF AskJoin
<1>11. ASSUME NEW u \in Invitee, AskAccept(p, u) \/ AskDecline(p, u)
       PROVE  proc' \in [Proc -> ProcState]
  BY <1>0, <1>11 DEF AskAccept, AskDecline
<1>12. ASSUME NEW u \in Invitee, AskInvite(p, u) \/ Revoke(p, u)
       PROVE  proc' \in [Proc -> ProcState]
  BY <1>0, <1>12 DEF AskInvite, Revoke
<1>13. ASSUME NEW t \in {"CANCELLED", "ENDED"}, AskClose(p, t)
       PROVE  proc' \in [Proc -> ProcState]
  BY <1>0, <1>13, PendingType DEF AskClose, InvitationStatus
<1>14. CASE Judge(p)
  <2>1. PICK u \in proc[p].who :
           IF InviteLifecycle(u) \in {"none", proc[p].to} THEN Finish(p)
           ELSE Begin(p, "repair", {u}, InviteLifecycle(u))
    BY <1>14 DEF Judge
  <2>2. u \in User /\ InviteLifecycle(u) \in InvStatus
    BY <1>0, LifecycleType
  <2> QED
    BY <1>0, <2>1, <2>2
<1>15. ASSUME NEW u \in Invitee, AskList(p, u) PROVE proc' \in [Proc -> ProcState]
  BY <1>0, <1>15 DEF AskList
<1> QED
  BY <1>1, <1>2, <1>3, <1>4, <1>5, <1>6, <1>7, <1>8, <1>9, <1>10, <1>11, <1>12, <1>13,
     <1>14, <1>15
     DEF Step, Run, Ask

(* Everything but the processes and the count of what overlaps.             *)
TableType == /\ act \in Activity
             /\ members \subseteq User
             /\ inv \in [User -> Invitation]
             /\ note \in [User -> InvStatus]
             /\ jobs \subseteq User
             /\ barred \subseteq User

LEMMA TableTypeStep ==
    ASSUME TypeOK, NEW p \in Proc, Step(p)
    PROVE  TableType'
<1> USE DEF TableType, TypeOK
<1>0. /\ InvStatus = {"none", "PENDING", "ACCEPTED", "DECLINED", "EXPIRED", "CANCELLED"}
      /\ proc[p].who \in SUBSET User /\ proc[p].to \in InvStatus
      /\ Invitee \subseteq User
  BY InviteeAssumption DEF InvStatus, ProcState
<1>1. CASE Join(p) \/ Count(p) \/ Insert(p)
  BY <1>0, <1>1 DEF Join, Count, Insert, table
<1>2. CASE Answerable(p) \/ SettleRead(p) \/ EndRead(p) \/ ConsiderInvite(p) \/ Judge(p)
  BY <1>2 DEF Answerable, SettleRead, EndRead, ConsiderInvite, Judge, table
<1>3. CASE ExpireOne(p) \/ Record(p) \/ Decline(p) \/ Create(p)
  BY <1>0, <1>3, SettledType DEF ExpireOne, Record, Decline, Create
<1>4. CASE CloseInvitations(p) \/ EndInvitations(p) \/ ExpireStarted(p)
  BY <1>0, <1>4, SettledType DEF CloseInvitations, EndInvitations, ExpireStarted
<1>5. CASE CloseActivity(p) \/ EndActivity(p)
  BY <1>5 DEF CloseActivity, EndActivity, Activity
<1>6. CASE Notify(p)
  BY <1>0, <1>6 DEF Notify
<1>7. CASE Swap(p) \/ Repair(p)
  BY <1>7, SwapType, RepairType DEF Swap, Repair
<1>8. CASE SettleFails(p) \/ Crash(p) \/ FindOver(p) \/ FindStarted(p)
  BY <1>8 DEF SettleFails, Crash, FindOver, FindStarted, table
<1>9. ASSUME NEW u \in User, AskJoin(p, u) PROVE TableType'
  BY <1>9 DEF AskJoin, table
<1>10. ASSUME NEW u \in Invitee,
              AskAccept(p, u) \/ AskDecline(p, u) \/ AskInvite(p, u) \/ AskList(p, u)
       PROVE  TableType'
  BY <1>10 DEF AskAccept, AskDecline, AskInvite, AskList, table
<1>11. ASSUME NEW u \in Invitee, Revoke(p, u) PROVE TableType'
  <2>1. [status |-> "CANCELLED", revoked |-> TRUE, cooling |-> FALSE] \in Invitation
    BY <1>0 DEF Invitation
  <2> QED
    BY <1>0, <1>11, <2>1 DEF Revoke
<1>12. ASSUME NEW t \in {"CANCELLED", "ENDED"}, AskClose(p, t) PROVE TableType'
  BY <1>12 DEF AskClose, table
<1> QED
  BY <1>1, <1>2, <1>3, <1>4, <1>5, <1>6, <1>7, <1>8, <1>9, <1>10, <1>11, <1>12
     DEF Step, Run, Ask

LEMMA CountProc == Cardinality(Proc) \in Nat \ {0}
  BY FiniteAssumption, FS_CardinalityType, FS_EmptySet

(* A new overlap is as wide as the statements that insert.                  *)
LEMMA WidestStep ==
    ASSUME TypeOK, NEW p \in Proc, Count(p)
    PROVE  /\ widest' \in 1..Cardinality(Proc)
           /\ widest' >= widest /\ widest' >= Cardinality(Inserting')
<1> DEFINE n == Cardinality(Inserting')
           m == Cardinality(Proc)
<1>1. n \in Nat /\ n <= m
  <2>1. Inserting' \in SUBSET Proc
    BY DEF Inserting
  <2> QED
    BY <2>1, FiniteAssumption, FS_Subset, FS_CardinalityType
<1>2. m \in Nat \ {0} /\ widest \in 1..m
  BY CountProc DEF TypeOK
<1>3. widest' = Max({widest, n})
  BY DEF Count
<1> HIDE DEF n, m
<1>4. \E x \in {widest, n} : \A y \in {widest, n} : x >= y
  BY <1>1, <1>2
<1>5. widest' \in {widest, n} /\ widest' >= widest /\ widest' >= n
  BY <1>3, <1>4 DEF Max
<1> QED
  BY <1>1, <1>2, <1>5 DEF n, m

LEMMA OthersKeepWidest ==
    ASSUME NEW p \in Proc, Step(p), ~Count(p)
    PROVE  widest' = widest
<1>1. CASE Run(p)
  BY <1>1 DEF Run, Join, Insert, Answerable, ExpireOne, Record, Decline, ConsiderInvite,
     Create, Notify, Judge, Repair, CloseActivity, CloseInvitations, EndActivity, EndRead,
     EndInvitations, ExpireStarted, SettleRead, Swap, SettleFails
<1>2. CASE Ask(p)
  BY <1>2 DEF Ask, AskJoin, AskAccept, AskDecline, AskInvite, AskList, Revoke, AskClose
<1>3. CASE FindOver(p) \/ FindStarted(p) \/ Crash(p)
  BY <1>3 DEF FindOver, FindStarted, Crash
<1> QED
  BY <1>1, <1>2, <1>3 DEF Step

LEMMA EventType == ASSUME TypeOK, Event PROVE TypeOK'
<1> USE DEF TypeOK
<1>1. ASSUME NEW u \in User, Leave(u) PROVE TypeOK'
  BY <1>1 DEF Leave
<1>2. ASSUME NEW u \in User, RunJob(u) PROVE TypeOK'
  <2>1. \A q \in Proc : [proc[q] EXCEPT !.stale = @ \cup {u}] \in ProcState
    BY DEF ProcState
  <2>2. proc' \in [Proc -> ProcState]
    BY <1>2, <2>1 DEF RunJob
  <2> QED
    BY <1>2, <2>2 DEF RunJob, InvStatus
<1>3. ASSUME NEW u \in User, CooldownEnds(u) PROVE TypeOK'
  BY <1>3 DEF CooldownEnds, Invitation
<1>4. ASSUME NEW v \in {"PUBLIC", "PRIVATE"}, SetVisibility(v) PROVE TypeOK'
  BY <1>4 DEF SetVisibility, Activity
<1>5. CASE Tick
  BY <1>5 DEF Tick, Activity
<1> QED
  BY <1>1, <1>2, <1>3, <1>4, <1>5 DEF Event

LEMMA TypeStep == ASSUME TypeOK, [Next]_vars PROVE TypeOK'
<1>1. ASSUME NEW p \in Proc, Step(p) PROVE TypeOK'
  <2>1. widest' \in 1..Cardinality(Proc)
    BY <1>1, WidestStep, OthersKeepWidest DEF TypeOK
  <2> QED
    BY <1>1, <2>1, TableTypeStep, ProcTypeStep DEF TypeOK, TableType
<1>2. CASE Event
  BY <1>2, EventType
<1>3. CASE UNCHANGED vars
  BY <1>3 DEF vars, table, TypeOK
<1> QED
  BY <1>1, <1>2, <1>3, NextCases

LEMMA InitType == ASSUME Init PROVE TypeOK
<1>1. NoInvitation \in Invitation /\ "none" \in InvStatus
  BY DEF NoInvitation, Invitation, InvStatus
<1>2. widest \in 1..Cardinality(Proc)
  BY CountProc DEF Init
<1> QED
  BY <1>1, <1>2, IdleType DEF Init, TypeOK, Activity

(* Everything the activity keeps has its type.                              *)
THEOREM TypeCorrect == Spec => []TypeOK
  BY InitType, TypeStep, PTL DEF Spec

-----------------------------------------------------------------------------
(* What the properties rest on.                                             *)

(* Requests that join, and lists, are for one person.                       *)
ForOne == {"answerable", "join", "count", "insert", "judge", "repair"}

SingleInv == \A p \in Proc : proc[p].pc \in ForOne => \E u \in User : proc[p].who = {u}

(* What a settlement is about to write was read as PENDING, and nobody      *)
(* wrote it since.                                                          *)
NoteInv == \A p \in Proc : At(p, "swap") =>
               \A u \in proc[p].who \ proc[p].stale : note[u] = "PENDING"

RevokedInv == \A u \in User : inv[u].revoked => inv[u].status \in {"CANCELLED", "EXPIRED"}

(* Somebody who is barred has a revoked invitation to a PRIVATE activity,   *)
(* and no request under way that could still let them in.                   *)
Harmless == {"invite", "create", "notify", "judge", "repair", "settle", "swap"}

BarInv ==
    /\ barred # {} => act.visibility = "PRIVATE"
    /\ \A u \in barred : inv[u].revoked /\ u \notin members
    /\ \A p \in Proc : proc[p].pc \notin Harmless => barred \cap proc[p].who = {}

IInv == TypeOK /\ SingleInv /\ NoteInv /\ RevokedInv /\ BarInv /\ OversubscriptionBounded

-----------------------------------------------------------------------------
(* A step of a process leaves the other processes where they are.           *)
LEMMA OthersStay ==
    ASSUME TypeOK, NEW p \in Proc, Step(p), NEW q \in Proc \ {p}
    PROVE  proc'[q].pc = proc[q].pc /\ proc'[q].who = proc[q].who
<1> USE DEF TypeOK, Goto, Finish, Begin, Settle
<1>1. CASE Run(p) /\ ~Swap(p) /\ ~Repair(p)
  BY <1>1 DEF Run, Join, Count, Insert, Answerable, ExpireOne, Record, Decline, ConsiderInvite,
     Create, Notify, Judge, CloseActivity, CloseInvitations, EndActivity, EndRead, EndInvitations, ExpireStarted,
     SettleRead, SettleFails
<1>2. CASE Swap(p)
  <2>1. PICK u \in proc[p].who :
            LET rest == proc[p].who \ {u}
            IN  IF Unchanged(p, u)
                THEN note' = [note EXCEPT ![u] = proc[p].to] /\ Write(p, u, rest)
                ELSE /\ IF rest = {} THEN Finish(p) ELSE proc' = [proc EXCEPT ![p].who = rest]
                     /\ UNCHANGED note
    BY <1>2 DEF Swap
  <2> QED
    BY <2>1 DEF Write, ProcState
<1>3. CASE Ask(p)
  BY <1>3 DEF Ask, AskJoin, AskAccept, AskDecline, AskInvite, AskList, Revoke, AskClose
<1>4. CASE FindOver(p) \/ FindStarted(p) \/ Crash(p)
  BY <1>4 DEF FindOver, FindStarted, Crash
<1>5. CASE Repair(p)
  <2>1. PICK u \in proc[p].who : Write(p, u, {})
    BY <1>5 DEF Repair
  <2> QED
    BY <2>1 DEF Write, ProcState
<1> QED
  BY <1>1, <1>2, <1>3, <1>4, <1>5 DEF Step

(* A write to a notification changes no more than what is stale.            *)
LEMMA JobStay ==
    ASSUME TypeOK, NEW u \in User, RunJob(u), NEW q \in Proc
    PROVE  proc'[q].pc = proc[q].pc /\ proc'[q].who = proc[q].who
<1>1. proc[q] \in ProcState
  BY DEF TypeOK
<1>2. proc'[q] \in {proc[q], [proc[q] EXCEPT !.stale = @ \cup {u}]}
  BY DEF RunJob
<1> QED
  BY <1>1, <1>2 DEF ProcState

LEMMA EventStay ==
    ASSUME TypeOK, Event, NEW q \in Proc
    PROVE  proc'[q].pc = proc[q].pc /\ proc'[q].who = proc[q].who
  BY JobStay DEF Event, Leave, CooldownEnds, SetVisibility, Tick

(* The person of such a request stays the person of that request.           *)
LEMMA ForOneStep ==
    ASSUME TypeOK, NEW p \in Proc, Step(p), proc'[p].pc \in ForOne
    PROVE  \/ proc[p].pc \in ForOne /\ proc'[p].who = proc[p].who
           \/ \E u \in User : proc'[p].who = {u}
<1> USE DEF TypeOK, ProcState, Goto, Finish, Begin, Settle, At, Idle, ForOne
<1>1. CASE Join(p) \/ Count(p) \/ Insert(p) \/ Answerable(p)
  BY <1>1 DEF Join, Count, Insert, Answerable
<1>2. CASE \/ ExpireOne(p) \/ Record(p) \/ Decline(p) \/ ConsiderInvite(p) \/ Create(p) \/ Notify(p)
           \/ CloseActivity(p) \/ CloseInvitations(p) \/ EndActivity(p) \/ EndRead(p)
           \/ EndInvitations(p) \/ ExpireStarted(p) \/ SettleRead(p) \/ SettleFails(p)
  BY <1>2 DEF ExpireOne, Record, Decline, ConsiderInvite, Create, Notify, CloseActivity,
     CloseInvitations, EndActivity, EndRead, EndInvitations, ExpireStarted, SettleRead, SettleFails
<1>3. CASE Swap(p)
  <2>1. proc[p].pc = "swap"
    BY <1>3 DEF Swap
  <2>2. proc'[p].pc \in {"swap", "idle"}
    BY <1>3, <2>1 DEF Swap, Write
  <2> QED
    BY <2>2
<1>4. CASE Ask(p)
  BY <1>4, InviteeAssumption DEF Ask, AskJoin, AskAccept, AskDecline, AskInvite, AskList, Revoke, AskClose
<1>5. CASE FindOver(p) \/ FindStarted(p) \/ Crash(p)
  BY <1>5 DEF FindOver, FindStarted, Crash
<1>6. CASE Judge(p)
  BY <1>6 DEF Judge
<1>7. CASE Repair(p)
  <2>1. proc'[p] = Idle
    BY <1>7 DEF Repair, Write
  <2> QED
    BY <2>1
<1> QED
  BY <1>1, <1>2, <1>3, <1>4, <1>5, <1>6, <1>7 DEF Step, Run

LEMMA SingleStep == ASSUME TypeOK, SingleInv, Next PROVE SingleInv'
<1>1. ASSUME NEW p \in Proc, Step(p) PROVE SingleInv'
  BY <1>1, OthersStay, ForOneStep DEF SingleInv
<1>2. CASE Event
  BY <1>2, EventStay DEF SingleInv
<1> QED
  BY <1>1, <1>2, NextCases

-----------------------------------------------------------------------------
(* Notifications.                                                           *)

(* What a write of the settlement does.                                     *)
LEMMA SwapCases ==
    ASSUME TypeOK, NEW p \in Proc, Swap(p)
    PROVE  \E u \in proc[p].who :
             /\ \/ /\ u \notin proc[p].stale
                   /\ note' = [note EXCEPT ![u] = proc[p].to]
                   /\ \A q \in Proc \ {p} :
                         /\ proc'[q].pc = proc[q].pc /\ proc'[q].who = proc[q].who
                         /\ At(q, "swap") /\ u \in proc[q].who
                               => proc'[q].stale = proc[q].stale \cup {u}
                         /\ ~(At(q, "swap") /\ u \in proc[q].who) => proc'[q] = proc[q]
                \/ /\ note' = note
                   /\ \A q \in Proc \ {p} : proc'[q] = proc[q]
             /\ \/ proc'[p] = Idle
                \/ /\ proc'[p].who = proc[p].who \ {u}
                   /\ proc'[p].stale = proc[p].stale
<1>1. PICK u \in proc[p].who :
          LET rest == proc[p].who \ {u}
          IN  IF Unchanged(p, u)
              THEN note' = [note EXCEPT ![u] = proc[p].to] /\ Write(p, u, rest)
              ELSE /\ IF rest = {} THEN Finish(p) ELSE proc' = [proc EXCEPT ![p].who = rest]
                   /\ UNCHANGED note
  BY DEF Swap
<1>2. \A q \in Proc : proc[q] \in ProcState
  BY DEF TypeOK
<1>3. CASE Unchanged(p, u)
  <2>1. \A q \in Proc \ {p} :
           /\ proc'[q].pc = proc[q].pc /\ proc'[q].who = proc[q].who
           /\ At(q, "swap") /\ u \in proc[q].who => proc'[q].stale = proc[q].stale \cup {u}
           /\ ~(At(q, "swap") /\ u \in proc[q].who) => proc'[q] = proc[q]
    BY <1>1, <1>2, <1>3 DEF Write, ProcState
  <2>2. \/ proc'[p] = Idle
        \/ /\ proc'[p].who = proc[p].who \ {u}
           /\ proc'[p].stale = proc[p].stale
    BY <1>1, <1>2, <1>3 DEF Write, ProcState
  <2> QED
    BY <1>1, <1>3, <2>1, <2>2 DEF Unchanged
<1>4. CASE ~Unchanged(p, u)
  <2>1. \A q \in Proc \ {p} : proc'[q] = proc[q]
    BY <1>1, <1>4 DEF Finish, TypeOK
  <2>2. \/ proc'[p] = Idle
        \/ /\ proc'[p].who = proc[p].who \ {u}
           /\ proc'[p].stale = proc[p].stale
    BY <1>1, <1>2, <1>4 DEF Finish, TypeOK, ProcState
  <2> QED
    BY <1>1, <1>4, <2>1, <2>2
<1> QED
  BY <1>3, <1>4

(* What the repair of the list does.                                        *)
LEMMA RepairCases ==
    ASSUME TypeOK, NEW p \in Proc, Repair(p)
    PROVE  \E u \in proc[p].who :
             /\ note' = [note EXCEPT ![u] = proc[p].to]
             /\ proc'[p] = Idle
             /\ \A q \in Proc \ {p} :
                   /\ proc'[q].pc = proc[q].pc /\ proc'[q].who = proc[q].who
                   /\ At(q, "swap") /\ u \in proc[q].who
                         => proc'[q].stale = proc[q].stale \cup {u}
                   /\ ~(At(q, "swap") /\ u \in proc[q].who) => proc'[q] = proc[q]
<1>1. PICK u \in proc[p].who : note' = [note EXCEPT ![u] = proc[p].to] /\ Write(p, u, {})
  BY DEF Repair
<1>2. \A q \in Proc : proc[q] \in ProcState
  BY DEF TypeOK
<1>3. proc'[p] = Idle
  BY <1>1 DEF Write
<1>4. \A q \in Proc \ {p} :
         /\ proc'[q].pc = proc[q].pc /\ proc'[q].who = proc[q].who
         /\ At(q, "swap") /\ u \in proc[q].who => proc'[q].stale = proc[q].stale \cup {u}
         /\ ~(At(q, "swap") /\ u \in proc[q].who) => proc'[q] = proc[q]
  BY <1>1, <1>2 DEF Write, ProcState
<1> QED
  BY <1>1, <1>3, <1>4

LEMMA RepairNote == ASSUME TypeOK, NoteInv, NEW p \in Proc, Repair(p) PROVE NoteInv'
<1>1. PICK u \in proc[p].who :
        /\ note' = [note EXCEPT ![u] = proc[p].to]
        /\ proc'[p] = Idle
        /\ \A q \in Proc \ {p} :
              /\ proc'[q].pc = proc[q].pc /\ proc'[q].who = proc[q].who
              /\ At(q, "swap") /\ u \in proc[q].who
                    => proc'[q].stale = proc[q].stale \cup {u}
              /\ ~(At(q, "swap") /\ u \in proc[q].who) => proc'[q] = proc[q]
  BY RepairCases
<1>2. \A q \in Proc : proc[q].who \subseteq User
  BY DEF TypeOK, ProcState
<1>3. \A x \in User : x # u => note'[x] = note[x]
  BY <1>1, <1>2 DEF TypeOK
<1>4. proc'[p].pc # "swap"
  BY <1>1 DEF Idle
<1>5. ASSUME NEW q \in Proc \ {p}, At(q, "swap")', NEW x \in proc'[q].who \ proc'[q].stale
      PROVE  note'[x] = "PENDING"
  BY <1>1, <1>2, <1>3, <1>5 DEF NoteInv, At
<1> QED
  BY <1>4, <1>5 DEF NoteInv, At

LEMMA SwapNote == ASSUME TypeOK, NoteInv, NEW p \in Proc, Swap(p) PROVE NoteInv'
<1>1. PICK u \in proc[p].who :
        /\ \/ /\ u \notin proc[p].stale
              /\ note' = [note EXCEPT ![u] = proc[p].to]
              /\ \A q \in Proc \ {p} :
                    /\ proc'[q].pc = proc[q].pc /\ proc'[q].who = proc[q].who
                    /\ At(q, "swap") /\ u \in proc[q].who
                          => proc'[q].stale = proc[q].stale \cup {u}
                    /\ ~(At(q, "swap") /\ u \in proc[q].who) => proc'[q] = proc[q]
           \/ /\ note' = note
              /\ \A q \in Proc \ {p} : proc'[q] = proc[q]
        /\ \/ proc'[p] = Idle
           \/ /\ proc'[p].who = proc[p].who \ {u}
              /\ proc'[p].stale = proc[p].stale
  BY SwapCases
<1>2. proc[p].who \subseteq User /\ note \in [User -> InvStatus]
  BY DEF TypeOK, ProcState
<1>3. \A q \in Proc : proc[q].who \subseteq User
  BY DEF TypeOK, ProcState
<1>4. \A x \in User : x # u => note'[x] = note[x]
  BY <1>1, <1>2
<1>5. proc[p].pc = "swap"
  BY DEF Swap, At
<1>6. ASSUME At(p, "swap")', NEW x \in proc'[p].who \ proc'[p].stale PROVE note'[x] = "PENDING"
  <2>1. proc'[p].who = proc[p].who \ {u} /\ proc'[p].stale = proc[p].stale
    BY <1>1, <1>6 DEF At, Idle
  <2> QED
    BY <1>2, <1>4, <1>5, <1>6, <2>1 DEF NoteInv, At
<1>7. ASSUME NEW q \in Proc \ {p}, At(q, "swap")', NEW x \in proc'[q].who \ proc'[q].stale
      PROVE  note'[x] = "PENDING"
  <2>1. CASE note' = note /\ proc'[q] = proc[q]
    BY <1>7, <2>1 DEF NoteInv, At
  <2>2. CASE /\ proc'[q].pc = proc[q].pc /\ proc'[q].who = proc[q].who
             /\ At(q, "swap") /\ u \in proc[q].who
                   => proc'[q].stale = proc[q].stale \cup {u}
             /\ ~(At(q, "swap") /\ u \in proc[q].who) => proc'[q] = proc[q]
    BY <1>3, <1>4, <1>7, <2>2 DEF NoteInv, At
  <2> QED
    BY <1>1, <1>7, <2>1, <2>2
<1> QED
  BY <1>6, <1>7 DEF NoteInv

(* A step that writes no notification.                                      *)
LEMMA OthersNote ==
    ASSUME TypeOK, NEW p \in Proc, Step(p), ~Swap(p), ~Repair(p)
    PROVE  /\ note' = note
           /\ \A q \in Proc \ {p} : proc'[q] = proc[q]
           /\ proc'[p].pc = "swap" => \A u \in proc'[p].who : note[u] = "PENDING"
<1> USE DEF TypeOK, ProcState, Goto, Finish, Begin, Settle, At, Idle
<1>1. CASE Run(p) /\ ~SettleRead(p)
  BY <1>1 DEF Run, Join, Count, Insert, Answerable, ExpireOne, Record, Decline, ConsiderInvite,
     Create, Notify, Judge, CloseActivity, CloseInvitations, EndActivity, EndRead,
     EndInvitations, ExpireStarted, SettleFails, table
<1>2. CASE SettleRead(p)
  BY <1>2 DEF SettleRead, table
<1>3. CASE Ask(p)
  BY <1>3 DEF Ask, AskJoin, AskAccept, AskDecline, AskInvite, AskList, Revoke, AskClose, table
<1>4. CASE FindOver(p) \/ FindStarted(p) \/ Crash(p)
  BY <1>4 DEF FindOver, FindStarted, Crash, table
<1> QED
  BY <1>1, <1>2, <1>3, <1>4 DEF Step

LEMMA NoteStep == ASSUME TypeOK, NoteInv, Next PROVE NoteInv'
<1>1. ASSUME NEW p \in Proc, Step(p), ~Swap(p), ~Repair(p) PROVE NoteInv'
  BY <1>1, OthersNote DEF NoteInv, At
<1>2. ASSUME NEW p \in Proc, Swap(p) \/ Repair(p) PROVE NoteInv'
  BY <1>2, SwapNote, RepairNote
<1>3. ASSUME NEW u \in User, RunJob(u) PROVE NoteInv'
  <2>1. \A q \in Proc : proc[q].who \subseteq User /\ proc[q] \in ProcState
    BY DEF TypeOK, ProcState
  <2>2. \A q \in Proc : proc[q].stale \subseteq proc'[q].stale
    BY <1>3, <2>1 DEF RunJob, ProcState
  <2>3. \A x \in User : note[x] = "PENDING" => note'[x] = "PENDING"
    BY <1>3 DEF RunJob, TypeOK
  <2> QED
    BY <1>3, <2>1, <2>2, <2>3, JobStay DEF NoteInv, At
<1>4. CASE Event /\ ~\E u \in User : RunJob(u)
  BY <1>4 DEF Event, Leave, CooldownEnds, SetVisibility, Tick, NoteInv, At
<1> QED
  BY <1>1, <1>2, <1>3, <1>4, NextCases DEF Event

(* A settlement tells an outcome to those that were not told before, the    *)
(* job puts the notification back to PENDING, and the list's repair writes  *)
(* what it judged.                                                          *)
Repaired(u) == \E p \in Proc : At(p, "repair") /\ proc[p].who = {u} /\ note'[u] = proc[p].to

LEMMA NoteWrite ==
    ASSUME TypeOK, SingleInv, NoteInv, [Next]_vars,
           NEW u \in User, note[u] \notin {"none", "PENDING"}
    PROVE  note'[u] \in {note[u], "PENDING"} \/ Repaired(u)
<1>1. ASSUME NEW p \in Proc, Swap(p) PROVE note'[u] = note[u]
  <2>1. PICK x \in proc[p].who :
           \/ x \notin proc[p].stale /\ note' = [note EXCEPT ![x] = proc[p].to]
           \/ note' = note
    BY <1>1, SwapCases
  <2>2. CASE x \notin proc[p].stale /\ note' = [note EXCEPT ![x] = proc[p].to]
    <3>1. note[x] = "PENDING"
      BY <1>1, <2>2 DEF NoteInv, Swap
    <3> QED
      BY <2>2, <3>1 DEF TypeOK
  <2> QED
    BY <2>1, <2>2
<1>2. ASSUME NEW p \in Proc, Step(p), ~Swap(p), ~Repair(p) PROVE note' = note
  BY <1>2, OthersNote
<1>3. ASSUME NEW x \in User, RunJob(x) PROVE note'[u] \in {note[u], "PENDING"}
  BY <1>3 DEF RunJob, TypeOK
<1>4. CASE Event /\ ~\E x \in User : RunJob(x)
  BY <1>4 DEF Event, Leave, CooldownEnds, SetVisibility, Tick
<1>5. CASE UNCHANGED vars
  BY <1>5 DEF vars, table
<1>6. ASSUME NEW p \in Proc, Repair(p) PROVE note'[u] = note[u] \/ Repaired(u)
  <2>1. PICK x \in proc[p].who : note' = [note EXCEPT ![x] = proc[p].to]
    BY <1>6, RepairCases
  <2>2. At(p, "repair") /\ proc[p].who = {x} /\ x \in User
    BY <1>6, <2>1 DEF Repair, At, SingleInv, ForOne, TypeOK, ProcState
  <2> QED
    BY <2>1, <2>2 DEF TypeOK, Repaired
<1> QED
  BY <1>1, <1>2, <1>3, <1>4, <1>5, <1>6, NextCases DEF Event

-----------------------------------------------------------------------------
(* Invitations.                                                             *)

LEMMA SettledValue ==
    ASSUME TypeOK, NEW who, NEW from, NEW to \in InvStatus, NEW u \in User,
           inv' = Settled(who, from, to)
    PROVE  /\ inv'[u].revoked = inv[u].revoked
           /\ \/ inv'[u].status = inv[u].status
              \/ u \in who /\ inv[u].status \in from /\ inv'[u].status = to
<1>1. inv[u] \in Invitation
  BY DEF TypeOK
<1>2. \/ inv'[u] = inv[u]
      \/ /\ u \in who /\ inv[u].status \in from
         /\ inv'[u] = [inv[u] EXCEPT !.status = to, !.cooling = (to = "DECLINED")]
  BY DEF Settled
<1> QED
  BY <1>1, <1>2 DEF Invitation

(* What can become of an invitation.                                        *)
LEMMA InvMoves ==
    ASSUME TypeOK, [Next]_vars, NEW u \in User
    PROVE  \/ /\ inv'[u].revoked = inv[u].revoked
              /\ \/ inv'[u].status = inv[u].status
                 \/ inv[u].status \in {"none", "PENDING"}
                 \/ inv[u].status = "ACCEPTED" /\ inv'[u].status = "ACCEPTED"
                 \/ inv'[u].status = "EXPIRED"
           \/ inv'[u].status = "CANCELLED" /\ inv'[u].revoked
<1>0. /\ {"none", "PENDING", "ACCEPTED", "DECLINED", "EXPIRED", "CANCELLED"} = InvStatus
      /\ inv \in [User -> Invitation]
      /\ \A p \in Proc : proc[p].to \in InvStatus
  BY DEF InvStatus, TypeOK, ProcState
<1>1. ASSUME NEW p \in Proc, ExpireOne(p) \/ Record(p) \/ Decline(p) \/ Create(p)
      PROVE  \E from, who, to : /\ inv' = Settled(who, from, to) /\ to \in InvStatus
                                /\ from \in {{"none"}, {"PENDING"}, Answered}
                                /\ from = Answered => to = "ACCEPTED"
  BY <1>0, <1>1 DEF ExpireOne, Record, Decline, Create, Answered
<1>2. ASSUME NEW p \in Proc, CloseInvitations(p) \/ EndInvitations(p)
      PROVE  \E who, to : inv' = Settled(who, {"PENDING"}, to) /\ to \in InvStatus
  BY <1>0, <1>2 DEF CloseInvitations, EndInvitations
<1>3. ASSUME NEW p \in Proc, ExpireStarted(p)
      PROVE  \E who : inv' = Settled(who, InvStatus, "EXPIRED")
  BY <1>3 DEF ExpireStarted
<1>4. ASSUME NEW p \in Proc, NEW x \in Invitee, Revoke(p, x)
      PROVE  inv'[u] = inv[u] \/ (inv'[u].status = "CANCELLED" /\ inv'[u].revoked)
  BY <1>0, <1>4 DEF Revoke
<1>5. ASSUME NEW x \in User, CooldownEnds(x)
      PROVE  inv'[u].status = inv[u].status /\ inv'[u].revoked = inv[u].revoked
  BY <1>0, <1>5 DEF CooldownEnds, Invitation
<1>6. ASSUME NEW p \in Proc, Run(p), ~ExpireOne(p), ~Record(p), ~Decline(p), ~Create(p),
             ~CloseInvitations(p), ~EndInvitations(p), ~ExpireStarted(p)
      PROVE  inv' = inv
  BY <1>6 DEF Run, Join, Count, Insert, Answerable, ConsiderInvite, Notify, Judge, Repair,
     CloseActivity, EndActivity, EndRead, SettleRead, Swap, SettleFails, table
<1>7. ASSUME NEW p \in Proc, Ask(p), ~\E x \in Invitee : Revoke(p, x)
      PROVE  inv' = inv
  BY <1>7 DEF Ask, AskJoin, AskAccept, AskDecline, AskInvite, AskList, AskClose, table
<1>8. ASSUME NEW p \in Proc, FindOver(p) \/ FindStarted(p) \/ Crash(p)
      PROVE  inv' = inv
  BY <1>8 DEF FindOver, FindStarted, Crash, table
<1>9. CASE Event /\ ~\E x \in User : CooldownEnds(x)
  BY <1>9 DEF Event, Leave, RunJob, SetVisibility, Tick
<1>10. CASE UNCHANGED vars
  BY <1>10 DEF vars, table
<1>11. ASSUME NEW p \in Proc, ExpireOne(p) \/ Record(p) \/ Decline(p) \/ Create(p)
       PROVE  /\ inv'[u].revoked = inv[u].revoked
              /\ \/ inv'[u].status = inv[u].status
                 \/ inv[u].status \in {"none", "PENDING"}
                 \/ inv[u].status = "ACCEPTED" /\ inv'[u].status = "ACCEPTED"
  <2>1. PICK from, who, to : /\ inv' = Settled(who, from, to) /\ to \in InvStatus
                             /\ from \in {{"none"}, {"PENDING"}, Answered}
                             /\ from = Answered => to = "ACCEPTED"
    BY <1>1, <1>11
  <2>2. /\ inv'[u].revoked = inv[u].revoked
        /\ \/ inv'[u].status = inv[u].status
           \/ u \in who /\ inv[u].status \in from /\ inv'[u].status = to
    BY <2>1, SettledValue
  <2> QED
    BY <2>1, <2>2 DEF Answered
<1>12. ASSUME NEW p \in Proc, CloseInvitations(p) \/ EndInvitations(p)
       PROVE  /\ inv'[u].revoked = inv[u].revoked
              /\ inv'[u].status = inv[u].status \/ inv[u].status = "PENDING"
  <2>1. PICK who, to : inv' = Settled(who, {"PENDING"}, to) /\ to \in InvStatus
    BY <1>2, <1>12
  <2> QED
    BY <2>1, SettledValue
<1>13. ASSUME NEW p \in Proc, ExpireStarted(p)
       PROVE  /\ inv'[u].revoked = inv[u].revoked
              /\ inv'[u].status = inv[u].status \/ inv'[u].status = "EXPIRED"
  BY <1>0, <1>3, <1>13, SettledValue
<1>14. ASSUME NEW p \in Proc, Step(p)
       PROVE  \/ /\ inv'[u].revoked = inv[u].revoked
                 /\ \/ inv'[u].status = inv[u].status
                    \/ inv[u].status \in {"none", "PENDING"}
                    \/ inv[u].status = "ACCEPTED" /\ inv'[u].status = "ACCEPTED"
                    \/ inv'[u].status = "EXPIRED"
              \/ inv'[u].status = "CANCELLED" /\ inv'[u].revoked
  BY <1>4, <1>6, <1>7, <1>8, <1>11, <1>12, <1>13, <1>14 DEF Step
<1> QED
  BY <1>5, <1>9, <1>10, <1>14, NextCases DEF Event

LEMMA RevokedStep == ASSUME TypeOK, RevokedInv, [Next]_vars PROVE RevokedInv'
<1> SUFFICES ASSUME NEW u \in User, inv'[u].revoked
             PROVE  inv'[u].status \in {"CANCELLED", "EXPIRED"}
  BY DEF RevokedInv
<1> QED
  BY InvMoves DEF RevokedInv

(* What is revoked stays revoked.                                           *)
LEMMA StaysRevoked ==
    ASSUME TypeOK, [Next]_vars, NEW u \in User, inv[u].revoked
    PROVE  inv'[u].revoked
  BY InvMoves

-----------------------------------------------------------------------------
(* Who is barred.                                                           *)

LEMMA BarredOut ==
    ASSUME RevokedInv, BarInv, TypeOK, NEW u \in barred
    PROVE  ~MayView(u) /\ ~ValidInvitation(u) /\ inv[u].status # "PENDING"
<1>1. u \in User /\ inv[u].revoked /\ u \notin members /\ act.visibility = "PRIVATE"
  BY DEF BarInv, TypeOK
<1>2. inv[u].status \in {"CANCELLED", "EXPIRED"}
  BY <1>1 DEF RevokedInv
<1> QED
  BY <1>1, <1>2 DEF MayView, ValidInvitation

(* Nobody who is barred comes under way.                                    *)
LEMMA HarmlessStep ==
    ASSUME TypeOK, RevokedInv, BarInv, NEW p \in Proc, Step(p), proc'[p].pc \notin Harmless
    PROVE  barred \cap proc'[p].who = {}
<1> USE DEF TypeOK, ProcState, Goto, Finish, Begin, Settle, At, Idle, Harmless
<1>0. /\ \A u \in barred : ~MayView(u) /\ ~ValidInvitation(u) /\ inv[u].status # "PENDING"
      /\ barred \cap Pending = {}
  BY BarredOut DEF Pending
<1>1. proc[p].pc \notin Harmless => barred \cap proc[p].who = {}
  BY DEF BarInv
<1>2. CASE Run(p) /\ ~Swap(p) /\ ~Repair(p) /\ ~EndRead(p) /\ ~SettleRead(p)
  BY <1>1, <1>2 DEF Run, Join, Count, Insert, Answerable, ExpireOne, Record, Decline,
     ConsiderInvite, Create, Notify, Judge, CloseActivity, CloseInvitations, EndActivity, EndInvitations, ExpireStarted,
     SettleFails
<1>3. CASE EndRead(p) \/ SettleRead(p)
  BY <1>0, <1>3 DEF EndRead, SettleRead
<1>4. CASE Swap(p)
  <2>1. proc'[p].pc = "swap" \/ proc'[p].who = {}
    BY <1>4 DEF Swap, Write
  <2> QED
    BY <2>1
<1>5. ASSUME NEW u \in User, AskJoin(p, u) PROVE barred \cap proc'[p].who = {}
  BY <1>0, <1>5 DEF AskJoin, MayJoin
<1>6. ASSUME NEW u \in Invitee, AskAccept(p, u) \/ AskDecline(p, u)
      PROVE  barred \cap proc'[p].who = {}
  BY <1>0, <1>6 DEF AskAccept, AskDecline
<1>7. ASSUME NEW u \in Invitee, AskInvite(p, u) \/ AskList(p, u) \/ Revoke(p, u) PROVE FALSE
  BY <1>7 DEF AskInvite, AskList, Revoke
<1>8. ASSUME NEW t \in {"CANCELLED", "ENDED"}, AskClose(p, t)
      PROVE  barred \cap proc'[p].who = {}
  BY <1>0, <1>8 DEF AskClose
<1>9. CASE FindOver(p) \/ FindStarted(p) \/ Crash(p)
  BY <1>0, <1>9 DEF FindOver, FindStarted, Crash
<1>10. CASE Repair(p)
  <2>1. proc'[p].who = {}
    BY <1>10 DEF Repair, Write
  <2> QED
    BY <2>1
<1> QED
  BY <1>2, <1>3, <1>4, <1>5, <1>6, <1>7, <1>8, <1>9, <1>10 DEF Step, Run, Ask

(* What a step of a process does to the rest.                               *)
LEMMA OthersMembers ==
    ASSUME TypeOK, NEW p \in Proc, Step(p)
    PROVE  /\ act'.visibility = act.visibility
           /\ members' = members \/ (Insert(p) /\ members' = members \cup proc[p].who)
           /\ barred' = barred \/ \E u \in Invitee : Revoke(p, u)
<1> USE DEF TypeOK, Activity
<1>1. CASE Run(p)
  BY <1>1 DEF Run, Join, Count, Insert, Answerable, ExpireOne, Record, Decline, ConsiderInvite,
     Create, Notify, Judge, Repair, CloseActivity, CloseInvitations, EndActivity, EndRead,
     EndInvitations, ExpireStarted, SettleRead, Swap, SettleFails, table
<1>2. CASE Ask(p)
  BY <1>2 DEF Ask, AskJoin, AskAccept, AskDecline, AskInvite, AskList, Revoke, AskClose, table
<1>3. CASE FindOver(p) \/ FindStarted(p) \/ Crash(p)
  BY <1>3 DEF FindOver, FindStarted, Crash, table
<1> QED
  BY <1>1, <1>2, <1>3 DEF Step

LEMMA BarStep == ASSUME TypeOK, RevokedInv, BarInv, Next PROVE BarInv'
<1>0. \A u \in barred : inv'[u].revoked
  BY StaysRevoked DEF BarInv, TypeOK
<1>1. ASSUME NEW p \in Proc, Step(p), barred' = barred PROVE BarInv'
  <2>1. \A u \in barred : u \notin members'
    BY <1>1, OthersMembers DEF BarInv, Insert, At, Harmless
  <2>2. \A q \in Proc : proc'[q].pc \notin Harmless => barred \cap proc'[q].who = {}
    BY <1>1, HarmlessStep, OthersStay DEF BarInv
  <2> QED
    BY <1>0, <1>1, <2>1, <2>2, OthersMembers DEF BarInv
<1>2. ASSUME NEW p \in Proc, NEW u \in Invitee, Revoke(p, u) PROVE BarInv'
  <2>1. Step(p) /\ u \in User
    BY <1>2, InviteeAssumption DEF Step, Ask
  <2>2. /\ act' = act /\ members' = members
        /\ \/ barred' = barred
           \/ /\ barred' = barred \cup {u}
              /\ act.visibility = "PRIVATE" /\ u \notin members
              /\ \A q \in Proc : u \notin proc[q].who
    BY <1>2 DEF Revoke
  <2>3. inv'[u].revoked
    BY <1>2, <2>1 DEF Revoke, TypeOK
  <2>4. proc'[p].pc \in Harmless
    BY <1>2 DEF Revoke, Begin, TypeOK, Harmless
  <2>5. \A q \in Proc : proc'[q].pc \notin Harmless => barred' \cap proc'[q].who = {}
    BY <2>1, <2>2, <2>4, OthersStay DEF BarInv
  <2> QED
    BY <1>0, <2>2, <2>3, <2>5 DEF BarInv
<1>3. CASE Event
  <2>1. \A q \in Proc : proc'[q].pc = proc[q].pc /\ proc'[q].who = proc[q].who
    BY <1>3, EventStay
  <2>2. \/ barred' = {}
        \/ barred' = barred /\ act'.visibility = act.visibility /\ members' \subseteq members
    BY <1>3 DEF Event, Leave, RunJob, CooldownEnds, SetVisibility, Tick, TypeOK, Activity
  <2> QED
    BY <1>0, <2>1, <2>2 DEF BarInv
<1> QED
  BY <1>1, <1>2, <1>3, NextCases, OthersMembers

-----------------------------------------------------------------------------
(* How many there are.                                                      *)

Incoming == UNION {proc[p].who : p \in Inserting}

(* As many people as requests, when each request is for one person.         *)
LEMMA OneEach ==
    ASSUME NEW S, IsFiniteSet(S), NEW f, \A p \in S : \E u : f[p].who = {u}
    PROVE  /\ IsFiniteSet(UNION {f[p].who : p \in S})
           /\ Cardinality(UNION {f[p].who : p \in S}) <= Cardinality(S)
<1> DEFINE T == UNION {f[p].who : p \in S}
           g == [p \in S |-> CHOOSE u : f[p].who = {u}]
<1>1. \A p \in S : f[p].who = {g[p]}
  OBVIOUS
<1>2. g \in [S -> T]
  BY <1>1
<1>3. \A t \in T : \E p \in S : g[p] = t
  BY <1>1
<1>4. g \in Surjection(S, T)
  BY <1>2, <1>3 DEF Surjection
<1> HIDE DEF T, g
<1>5. IsFiniteSet(T) /\ Cardinality(T) <= Cardinality(S)
  BY <1>4, FS_Surjection
<1> QED
  BY <1>5 DEF T

(* Nobody more, and no less wide.                                           *)
LEMMA NoMore ==
    ASSUME TypeOK, TypeOK', OversubscriptionBounded,
           members' \cup Incoming' \subseteq members \cup Incoming, widest' >= widest
    PROVE  OversubscriptionBounded'
<1> DEFINE old == members \cup Incoming
           new == members' \cup Incoming'
<1>1. old \in SUBSET User
  BY DEF TypeOK, Incoming, Inserting, ProcState
<1>2. IsFiniteSet(old) /\ new \in SUBSET old
  BY <1>1, FiniteAssumption, FS_Subset
<1>3. Cardinality(new) <= Cardinality(old) /\ IsFiniteSet(new)
  BY <1>2, FS_Subset
<1>4. Cardinality(new) \in Nat /\ Cardinality(old) \in Nat
  BY <1>2, <1>3, FS_CardinalityType
<1>5. widest \in Nat /\ widest' \in Nat /\ MaxMembers \in Nat
  BY SeatsAssumption, CountProc DEF TypeOK
<1>6. Cardinality(old) + 1 <= MaxMembers - 1 + widest
  BY DEF OversubscriptionBounded, Incoming
<1> HIDE DEF old, new
<1>7. Cardinality(new) + 1 <= MaxMembers - 1 + widest'
  BY <1>3, <1>4, <1>5, <1>6
<1> QED
  BY <1>7 DEF new, OversubscriptionBounded, Incoming

LEMMA NotToInsert ==
    ASSUME TypeOK, NEW p \in Proc, Step(p), ~Count(p)
    PROVE  proc'[p].pc # "insert"
<1> USE DEF TypeOK, ProcState, Goto, Finish, Begin, Settle, At, Idle
<1>1. CASE Run(p)
  BY <1>1 DEF Run, Join, Insert, Answerable, ExpireOne, Record, Decline, ConsiderInvite,
     Create, Notify, Judge, Repair, CloseActivity, CloseInvitations, EndActivity, EndRead,
     EndInvitations, ExpireStarted, SettleRead, Swap, Write, SettleFails
<1>2. CASE Ask(p)
  BY <1>2 DEF Ask, AskJoin, AskAccept, AskDecline, AskInvite, AskList, Revoke, AskClose
<1>3. CASE FindOver(p) \/ FindStarted(p) \/ Crash(p)
  BY <1>3 DEF FindOver, FindStarted, Crash
<1> QED
  BY <1>1, <1>2, <1>3 DEF Step

(* The statement counts the members and may be joined by those that it does *)
(* not see; these are the others that insert.                               *)
LEMMA CountStep ==
    ASSUME TypeOK, TypeOK', SingleInv', OversubscriptionBounded, NEW p \in Proc, Count(p)
    PROVE  OversubscriptionBounded'
<1>1. members' = members /\ proc[p].pc = "count" /\ Step(p)
  BY DEF Count, At, Step, Run, table
<1>2. widest' >= widest /\ widest' >= Cardinality(Inserting') /\ widest' \in 1..Cardinality(Proc)
  BY WidestStep
<1>3. proc'[p].pc = "insert" => proc'[p].who = proc[p].who
  BY DEF Count, Goto, Finish, Idle, TypeOK, ProcState
<1>4. \A q \in Proc \ {p} : proc'[q].pc = proc[q].pc /\ proc'[q].who = proc[q].who
  BY <1>1, OthersStay
<1>5. CASE proc'[p].pc = "insert" => proc[p].who \subseteq members
  <2>1. Incoming' \subseteq members \cup Incoming
    BY <1>3, <1>4, <1>5 DEF Incoming, Inserting, At
  <2> QED
    BY <1>1, <1>2, <2>1, NoMore
<1>6. CASE Cardinality(members) + 1 < MaxMembers
  <2> DEFINE S == Inserting'
             T == Incoming'
  <2>1. IsFiniteSet(S)
    <3>1. S \in SUBSET Proc
      BY DEF Inserting
    <3> QED
      BY <3>1, FiniteAssumption, FS_Subset
  <2>2. \A q \in S : \E u : proc'[q].who = {u}
    BY DEF SingleInv, Inserting, At, ForOne
  <2>3. IsFiniteSet(T) /\ Cardinality(T) <= Cardinality(S)
    <3>1. T = UNION {proc'[q].who : q \in S}
      BY DEF Incoming
    <3> HIDE DEF S, T
    <3>2. /\ IsFiniteSet(UNION {proc'[q].who : q \in S})
          /\ Cardinality(UNION {proc'[q].who : q \in S}) <= Cardinality(S)
      BY <2>1, <2>2, OneEach, Zenon
    <3> QED
      BY <3>1, <3>2
  <2>4. IsFiniteSet(members)
    BY FiniteAssumption, FS_Subset DEF TypeOK
  <2>5. Cardinality(members \cup T) <= Cardinality(members) + Cardinality(T)
    <3> HIDE DEF S, T
    <3>1. Cardinality(members \cup T)
             = Cardinality(members) + Cardinality(T) - Cardinality(members \cap T)
      BY <2>3, <2>4, FS_Union
    <3>2. Cardinality(members \cap T) \in Nat
      BY <2>4, FS_Subset, FS_CardinalityType
    <3>3. Cardinality(members) \in Nat /\ Cardinality(T) \in Nat
      BY <2>3, <2>4, FS_CardinalityType
    <3> QED
      BY <3>1, <3>2, <3>3
  <2>6. /\ Cardinality(members) \in Nat /\ Cardinality(T) \in Nat /\ Cardinality(S) \in Nat
        /\ Cardinality(members \cup T) \in Nat
    BY <2>1, <2>3, <2>4, FS_Union, FS_CardinalityType
  <2> HIDE DEF S, T
  <2>7. Cardinality(members \cup T) + 1 <= MaxMembers - 1 + widest'
    BY <1>2, <1>6, <2>3, <2>5, <2>6, CountProc, SeatsAssumption DEF S
  <2> QED
    BY <1>1, <2>7 DEF T, OversubscriptionBounded, Incoming
<1> QED
  BY <1>1, <1>5, <1>6 DEF Count, HasRoom, Finish, Idle, TypeOK

LEMMA BoundStep ==
    ASSUME TypeOK, TypeOK', SingleInv', OversubscriptionBounded, Next
    PROVE  OversubscriptionBounded'
<1>1. ASSUME NEW p \in Proc, Step(p), ~Count(p) PROVE OversubscriptionBounded'
  <2>1. \A q \in Proc \ {p} : proc'[q].pc = proc[q].pc /\ proc'[q].who = proc[q].who
    BY <1>1, OthersStay
  <2>2. Incoming' \subseteq Incoming
    BY <1>1, <2>1, NotToInsert DEF Incoming, Inserting, At
  <2>3. members' \subseteq members \cup Incoming
    BY <1>1, OthersMembers DEF Insert, Incoming, Inserting
  <2>4. widest' >= widest
    BY <1>1, OthersKeepWidest, CountProc DEF TypeOK
  <2> QED
    BY <2>2, <2>3, <2>4, NoMore
<1>2. ASSUME NEW p \in Proc, Count(p) PROVE OversubscriptionBounded'
  BY <1>2, CountStep
<1>3. CASE Event
  <2>1. members' \subseteq members /\ widest' = widest
    BY <1>3 DEF Event, Leave, RunJob, CooldownEnds, SetVisibility, Tick
  <2>2. Incoming' \subseteq Incoming
    BY <1>3, EventStay DEF Incoming, Inserting, At
  <2> QED
    BY <2>1, <2>2, NoMore, CountProc DEF TypeOK
<1> QED
  BY <1>1, <1>2, <1>3, NextCases

-----------------------------------------------------------------------------
LEMMA Inductive == Spec => []IInv
<1>1. Init => IInv
  <2> SUFFICES ASSUME Init PROVE IInv
    OBVIOUS
  <2>1. \A p \in Proc : proc[p].pc = "idle" /\ proc[p].who = {}
    BY DEF Init, Idle
  <2>2. SingleInv /\ NoteInv
    BY <2>1 DEF SingleInv, NoteInv, ForOne, At
  <2>3. RevokedInv
    BY DEF Init, RevokedInv, NoInvitation
  <2>4. BarInv
    BY <2>1 DEF Init, BarInv
  <2>5. members \cup Incoming = {}
    BY <2>1 DEF Init, Incoming, Inserting, At
  <2>6. OversubscriptionBounded
    <3>1. Cardinality(members \cup Incoming) = 0
      BY <2>5, FS_EmptySet
    <3>2. Cardinality(members \cup Incoming) + 1 <= MaxMembers - 1 + widest
      BY <3>1, SeatsAssumption DEF Init
    <3> QED
      BY <3>2 DEF OversubscriptionBounded, Incoming
  <2> QED
    BY <2>2, <2>3, <2>4, <2>6, InitType DEF IInv
<1>2. IInv /\ [Next]_vars => IInv'
  <2>1. CASE IInv /\ Next
    BY <2>1, TypeStep, SingleStep, NoteStep, RevokedStep, BarStep, BoundStep DEF IInv
  <2>2. CASE IInv /\ UNCHANGED vars
    <3>1. TypeOK'
      BY <2>2, TypeStep DEF IInv
    <3>2. SingleInv' /\ NoteInv' /\ RevokedInv' /\ BarInv'
      BY <2>2 DEF IInv, vars, table, SingleInv, NoteInv, RevokedInv, BarInv, At
    <3>3. OversubscriptionBounded'
      BY <2>2 DEF IInv, vars, table, OversubscriptionBounded, Inserting, At
    <3> QED
      BY <3>1, <3>2, <3>3 DEF IInv
  <2> QED
    BY <2>1, <2>2
<1> QED
  BY <1>1, <1>2, PTL DEF Spec

(* An activity has no more people too many than inserting statements ever   *)
(* overlapped, less one, for any number of seats, people and requests.      *)
THEOREM SeatsAreBounded == Spec => []OversubscriptionBounded
<1>1. IInv => OversubscriptionBounded
  BY DEF IInv
<1> QED
  BY <1>1, Inductive, PTL

(* "Revocation is immediate and total", unless the host opens the activity  *)
(* or a request of the person was under way.                                *)
THEOREM RevocationIsTotal == Spec => []RevokedStaysOut
<1>1. IInv => RevokedStaysOut
  BY DEF IInv, BarInv, RevokedStaysOut
<1> QED
  BY <1>1, Inductive, PTL

(* No answer, however late, turns a closed invitation into an accepted one. *)
THEOREM ClosedIsFinal == Spec => ClosedStaysClosed
<1>1. ASSUME TypeOK, [Next]_vars
      PROVE  \A u \in User : inv[u].status \in {"DECLINED", "EXPIRED", "CANCELLED"}
                                => inv'[u].status # "ACCEPTED"
  BY <1>1, InvMoves
<1> QED
  BY <1>1, TypeCorrect, PTL DEF Spec, ClosedStaysClosed

(* No event that came second changes the outcome a notification tells: what *)
(* is told is left only for a new invitation, or for what the repair of a   *)
(* list made of the invitation.                                             *)
THEOREM OutcomeIsFinal == Spec => OutcomeKept
<1>1. ASSUME IInv, [Next]_vars
      PROVE  \A u \in User : note[u] \notin {"none", "PENDING"}
                => \/ note'[u] \in {note[u], "PENDING"}
                   \/ \E p \in Proc : At(p, "repair") /\ proc[p].who = {u} /\ note'[u] = proc[p].to
  BY <1>1, NoteWrite DEF IInv, Repaired
<1> QED
  BY <1>1, Inductive, PTL DEF Spec, OutcomeKept
=============================================================================
