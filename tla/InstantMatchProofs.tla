------------------------- MODULE InstantMatchProofs -------------------------
(***************************************************************************)
(* Theorems about InstantMatch, for any number of people, handlers and     *)
(* sessions, and whatever fails.                                           *)
(***************************************************************************)
EXTENDS InstantMatch, FiniteSetTheorems, WellFoundedInduction, TLAPS

-----------------------------------------------------------------------------
(* What the properties rest on.                                             *)

(* Where a handler works for one user, and where for one session.           *)
UserPC == {"lock", "eligible", "pending", "chat", "upsert", "cancel", "try", "pair",
           "flag", "decline"}
MatchPC == {"flag", "reread", "vouch", "liveElsewhere", "refuse", "claim", "open", "rollback",
            "publish", "decline", "expire", "endClaim", "readEnded", "close"}

(* Where a handler has seen both flags set.                                 *)
AgreedPC == {"vouch", "liveElsewhere", "claim", "open", "rollback", "publish"}

(* Where an accept owns the session it has claimed.                         *)
OwnerPC == {"open", "rollback", "publish"}

Agreed(m) == {sess[m].a, sess[m].b} \subseteq sess[m].yes

Owned(m) == sess[m].st = "ACCEPTED" /\ sess[m].conv = "none"

(* What a handler remembers agrees with the tables.                         *)
HandlerOK(p) ==
    /\ proc[p].pc \in UserPC \/ proc[p].why = "lazy" => proc[p].u \in User
    /\ proc[p].pc \in MatchPC => proc[p].m \in Mid /\ sess[proc[p].m].st # "none"
    /\ proc[p].pc \in AgreedPC => Agreed(proc[p].m)
    /\ proc[p].pc = "close" => sess[proc[p].m].conv # "none"
    /\ proc[p].pc \in OwnerPC =>
         /\ Owned(proc[p].m)
         /\ opened[proc[p].m] = IF proc[p].pc = "publish" THEN 1 ELSE 0

HandlerInv == \A p \in Proc : HandlerOK(p)

(* No two accepts own one session.                                          *)
OwnerInv == \A p, q \in Proc :
    proc[p].pc \in OwnerPC /\ proc[q].pc \in OwnerPC /\ proc[p].m = proc[q].m => p = q

(* The sessions created are the first ones; one that is accepted was agreed *)
(* on; one that has a conversation was given it once.                       *)
RowOK(m) ==
    /\ m > created => sess[m] = NoSession
    /\ m <= created => sess[m].st # "none" /\ sess[m].a \in User /\ sess[m].b \in User
    /\ sess[m].st = "ACCEPTED" => Agreed(m)
    /\ opened[m] > 0 => opened[m] = 1 /\ sess[m].st = "ACCEPTED"
    /\ sess[m].conv # "none" => opened[m] = 1

RowInv == \A m \in Mid : RowOK(m)

IInv == TypeOK /\ HandlerInv /\ OwnerInv /\ RowInv

-----------------------------------------------------------------------------
(* The steps of a handler that write no session.                            *)
Reads(p) ==
    \/ \E u \in User : \/ Join(p, u) \/ Cancel(p, u) \/ PairLost(p, u)
                       \/ \E m \in Mid : Respond(p, u, m) \/ Leave(p, u, m)
    \/ \E m \in Mid : SweepSession(p, m) \/ SweepChat(p, m)
    \/ AcquireLock(p) \/ RemoveEntry(p) \/ CheckEligible(p) \/ CheckPending(p) \/ CheckChat(p)
    \/ Upsert(p) \/ FindCandidates(p) \/ Reread(p) \/ Vouch(p) \/ LiveElsewhere(p)
    \/ ReadEnded(p) \/ StatementFails(p) \/ Crash(p)

(* The steps that write one.                                                *)
Writes(p) ==
    \/ \E c \in User : Pair(p, c)
    \/ Decline(p) \/ Expire(p) \/ SetFlag(p) \/ Refuse(p) \/ ClaimAccept(p)
    \/ Rollback(p) \/ Publish(p) \/ EndClaim(p) \/ CloseConversation(p)

(* The steps of no handler.                                                 *)
Event == SweepQueue \/ Clock \/ \E u \in User : LoseEligibility(u)

LEMMA NextCases ==
    ASSUME Next
    PROVE  (\E p \in Proc : Reads(p) \/ Writes(p) \/ OpenConversation(p)) \/ Event
  BY DEF Next, Run, Sweep, Ask, Reads, Writes, Event

(* What a step of p leaves alone of the handlers.                           *)
Alone(p) == proc' \in [Proc -> ProcState] /\ \A q \in Proc \ {p} : proc'[q] = proc[q]

-----------------------------------------------------------------------------
(* The session getActiveChatSession picks is one of those it looked at.     *)
LEMMA LatestIn ==
    ASSUME NEW M \in SUBSET Mid, M # {}
    PROVE  Latest(M) \in M
<1> USE SessionsAssumption DEF Mid
<1> DEFINE T == {MaxSessions - m : m \in M}
<1>1. T \subseteq Nat /\ T # {}
  <2>1. \A m \in M : m \in Nat /\ MaxSessions - m \in Nat
    OBVIOUS
  <2> QED
    BY <2>1
<1>2. PICK x \in T : \A y \in T : <<y, x>> \notin OpToRel(<, Nat)
  BY <1>1, NatLessThanWellFounded, WFMin
<1>3. \A y \in T : ~(y < x)
  BY <1>1, <1>2 DEF OpToRel
<1>4. PICK m \in M : x = MaxSessions - m
  OBVIOUS
<1>5. \A n \in M : n <= m
  <2> TAKE n \in M
  <2>1. MaxSessions - n \in T
    OBVIOUS
  <2>2. n \in Nat /\ m \in Nat
    OBVIOUS
  <2>3. ~(MaxSessions - n < MaxSessions - m)
    BY <1>3, <1>4, <2>1
  <2> QED
    BY <2>2, <2>3
<1> QED
  BY <1>5 DEF Latest

(* The users that are left to requeue.                                      *)
Todo == {<<>>} \cup {<<x>> : x \in User} \cup (User \X User)

LEMMA StateType ==
    /\ ProcState = [pc : PC, u : User \cup {None}, m : 0..MaxSessions, todo : Todo,
                    cand : SUBSET User, why : Why]
    /\ <<>> \in Todo
    /\ 0 \in 0..MaxSessions
  BY SessionsAssumption DEF ProcState, Todo

(* A handler that moves on, or turns to the next user of its list.          *)
LEMMA MoveType ==
    ASSUME TypeOK, NEW p \in Proc
    PROVE  /\ \A c \in PC : Goto(p, c) =>
                  Alone(p) /\ proc'[p] = [proc[p] EXCEPT !.pc = c]
           /\ \A s \in ProcState : proc' = [proc EXCEPT ![p] = s] =>
                  Alone(p) /\ proc'[p] = s
<1>1. proc \in [Proc -> ProcState]
  BY DEF TypeOK
<1>2. ASSUME NEW c \in PC PROVE [proc[p] EXCEPT !.pc = c] \in ProcState
  BY <1>1 DEF ProcState
<1>3. ASSUME NEW c \in PC, Goto(p, c)
      PROVE  Alone(p) /\ proc'[p] = [proc[p] EXCEPT !.pc = c]
  BY <1>1, <1>2, <1>3 DEF Goto, Alone
<1>4. ASSUME NEW s \in ProcState, proc' = [proc EXCEPT ![p] = s]
      PROVE  Alone(p) /\ proc'[p] = s
  BY <1>1, <1>4 DEF Alone
<1> QED
  BY <1>3, <1>4

LEMMA IdleType == Idle \in ProcState /\ Idle.pc = "idle" /\ Idle.why = "join"
  BY SessionsAssumption DEF Idle, ProcState, PC, Why

LEMMA RequeueType ==
    ASSUME TypeOK, NEW p \in Proc,
           NEW todo \in {<<x>> : x \in User} \cup (User \X User), Requeue(p, todo)
    PROVE  Alone(p) /\ proc'[p].pc = "lock" /\ proc'[p].why = "requeue" /\ proc'[p].u \in User
<1> DEFINE s == [Idle EXCEPT !.pc = "lock", !.u = Head(todo), !.todo = Tail(todo),
                             !.why = "requeue"]
<1>1. Head(todo) \in User /\ Tail(todo) \in {<<>>} \cup {<<x>> : x \in User}
  <2>1. CASE todo \in {<<x>> : x \in User}
    <3>1. PICK x \in User : todo = <<x>>
      BY <2>1
    <3>2. Head(todo) = x /\ Tail(todo) = <<>>
      BY <3>1
    <3> QED
      BY <3>2
  <2>2. CASE todo \in User \X User
    <3>1. PICK x \in User, y \in User : todo = <<x, y>>
      BY <2>2
    <3>2. Head(todo) = x /\ Tail(todo) = <<y>>
      BY <3>1
    <3> QED
      BY <3>2
  <2> QED
    BY <2>1, <2>2
<1>2. s \in ProcState
  <2>1. Tail(todo) \in Todo
    BY <1>1 DEF Todo
  <2>2. "lock" \in PC /\ "requeue" \in Why
    BY DEF PC, Why
  <2> QED
    BY <1>1, <2>1, <2>2, StateType, IdleType
<1>3. proc' = [proc EXCEPT ![p] = s]
  BY DEF Requeue, Become
<1>4. s.pc = "lock" /\ s.why = "requeue" /\ s.u = Head(todo)
  BY DEF Idle
<1> HIDE DEF s
<1>5. Alone(p) /\ proc'[p] = s
  BY <1>2, <1>3, MoveType
<1> QED
  BY <1>1, <1>4, <1>5

LEMMA ContinueType ==
    ASSUME TypeOK, NEW p \in Proc, Continue(p)
    PROVE  /\ Alone(p)
           /\ \/ proc'[p] = Idle
              \/ proc'[p].pc = "lock" /\ proc'[p].why = "requeue" /\ proc'[p].u \in User
<1>1. CASE proc[p].todo = <<>>
  BY <1>1, IdleType, MoveType DEF Continue, Become
<1>2. CASE proc[p].todo # <<>>
  <2>1. proc[p].todo \in {<<x>> : x \in User} \cup (User \X User)
    BY <1>2 DEF TypeOK, ProcState
  <2>2. Requeue(p, proc[p].todo)
    BY <1>2 DEF Continue, Requeue, Become
  <2> QED
    BY <2>1, <2>2, RequeueType
<1> QED
  BY <1>1, <1>2

-----------------------------------------------------------------------------
(* What a step does to a row that others rely on.                           *)
Kept(n) ==
    /\ sess[n].st # "none" =>
         /\ sess'[n].st # "none" /\ sess'[n].a = sess[n].a /\ sess'[n].b = sess[n].b
         /\ sess[n].yes \subseteq sess'[n].yes
    /\ sess[n].conv # "none" => sess'[n].conv # "none"

(* Most steps leave their handler where the tables agree with it, and       *)
(* owning nothing.                                                          *)
Clean(p) == Alone(p) /\ proc'[p].pc \notin OwnerPC /\ HandlerOK(p)'

LEMMA StateClean ==
    ASSUME TypeOK, NEW p \in Proc, \A n \in Mid : Kept(n), NEW s \in ProcState, Become(p, s),
           s.pc \notin AgreedPC \cup {"close"},
           s.pc \in UserPC \/ s.why = "lazy" => s.u \in User,
           s.pc \in MatchPC => s.m \in Mid /\ sess[s.m].st # "none"
    PROVE  Clean(p)
<1>1. Alone(p) /\ proc'[p] = s
  BY MoveType DEF Become
<1> QED
  BY <1>1 DEF Clean, HandlerOK, AgreedPC, OwnerPC, Kept

LEMMA ContinueClean ==
    ASSUME TypeOK, NEW p \in Proc, \A n \in Mid : Kept(n), Continue(p)
    PROVE  Clean(p)
  BY ContinueType, IdleType DEF Clean, HandlerOK, UserPC, MatchPC, AgreedPC, OwnerPC

(* Of the steps that only start something.                                  *)
LEMMA AskClean ==
    ASSUME TypeOK, RowInv, NEW p \in Proc, \A n \in Mid : Kept(n),
           \/ \E u \in User : \/ Join(p, u) \/ Cancel(p, u)
                              \/ \E m \in Mid : Respond(p, u, m) \/ Leave(p, u, m)
           \/ \E m \in Mid : SweepSession(p, m) \/ SweepChat(p, m)
           \/ Crash(p) \/ RemoveEntry(p)
    PROVE  Clean(p)
<1>0. /\ Mid \subseteq 0..MaxSessions
      /\ {"lock", "expire", "flag", "decline", "endClaim"} \subseteq PC
      /\ {"cancel", "ENDED_BY_USER", "EXPIRED"} \subseteq Why
  BY SessionsAssumption DEF Mid, PC, Why
<1> USE <1>0, IdleType, StateType DEF UserPC, MatchPC, AgreedPC
<1>1. ASSUME NEW u \in User, Join(p, u) PROVE Clean(p)
  <2> DEFINE s == [Idle EXCEPT !.pc = "lock", !.u = u]
  <2>1. Become(p, s) /\ s \in ProcState /\ s.pc = "lock" /\ s.u = u
    BY <1>1 DEF Join
  <2> HIDE DEF s
  <2> QED
    BY <2>1, StateClean
<1>2. ASSUME NEW u \in User, Cancel(p, u) PROVE Clean(p)
  <2> DEFINE s == [Idle EXCEPT !.pc = "lock", !.u = u, !.why = "cancel"]
  <2>1. Become(p, s) /\ s \in ProcState /\ s.pc = "lock" /\ s.u = u
    BY <1>2 DEF Cancel
  <2> HIDE DEF s
  <2> QED
    BY <2>1, StateClean
<1>3. ASSUME NEW u \in User, NEW m \in Mid, Respond(p, u, m) PROVE Clean(p)
  <2>1. PICK c \in {"expire", "flag", "decline"} :
             Become(p, [Idle EXCEPT !.pc = c, !.u = u, !.m = m]) /\ sess[m].st = "PENDING"
    BY <1>3 DEF Respond
  <2> DEFINE s == [Idle EXCEPT !.pc = c, !.u = u, !.m = m]
  <2>2. Become(p, s) /\ s \in ProcState /\ s.pc = c /\ s.u = u /\ s.m = m /\ s.why = "join"
    BY <2>1
  <2> HIDE DEF s
  <2> QED
    BY <2>1, <2>2, StateClean
<1>4. ASSUME NEW u \in User, NEW m \in Mid, Leave(p, u, m) PROVE Clean(p)
  <2> DEFINE s == [Idle EXCEPT !.pc = "endClaim", !.u = u, !.m = m, !.why = "ENDED_BY_USER"]
  <2>1. /\ Become(p, s) /\ s \in ProcState /\ sess[m].st # "none"
        /\ s.pc = "endClaim" /\ s.m = m /\ s.u = u
    BY <1>4 DEF Leave
  <2> HIDE DEF s
  <2> QED
    BY <2>1, StateClean
<1>5. ASSUME NEW m \in Mid, SweepSession(p, m) PROVE Clean(p)
  <2> DEFINE s == [Idle EXCEPT !.pc = "expire", !.m = m]
  <2>1. /\ Become(p, s) /\ s \in ProcState /\ sess[m].st # "none"
        /\ s.pc = "expire" /\ s.m = m /\ s.why = "join"
    BY <1>5 DEF SweepSession, Overdue
  <2> HIDE DEF s
  <2> QED
    BY <2>1, StateClean
<1>6. ASSUME NEW m \in Mid, SweepChat(p, m) PROVE Clean(p)
  <2> DEFINE s == [Idle EXCEPT !.pc = "endClaim", !.m = m, !.why = "EXPIRED"]
  <2>1. sess[m].st # "none"
    <3>1. sess[m] # NoSession
      <4>1. NoSession.window = "null"
        BY DEF NoSession
      <4> QED
        BY <1>6, <4>1 DEF SweepChat
    <3>2. ~(m > created)
      <4>1. RowOK(m)
        BY DEF RowInv
      <4> QED
        BY <3>1, <4>1 DEF RowOK
    <3>3. created \in Nat /\ m \in Nat
      BY SessionsAssumption DEF TypeOK, Mid
    <3> QED
      BY <3>2, <3>3 DEF RowInv, RowOK
  <2>2. Become(p, s) /\ s \in ProcState /\ s.pc = "endClaim" /\ s.m = m /\ s.why = "EXPIRED"
    BY <1>6 DEF SweepChat
  <2> HIDE DEF s
  <2> QED
    BY <2>1, <2>2, StateClean
<1>7. CASE Crash(p) \/ RemoveEntry(p)
  <2>1. Become(p, Idle) /\ Idle.pc = "idle"
    BY <1>7 DEF Crash, RemoveEntry
  <2> QED
    BY <2>1, IdleType, StateClean
<1> QED
  BY <1>1, <1>2, <1>3, <1>4, <1>5, <1>6, <1>7

LEMMA GotoClean ==
    ASSUME TypeOK, HandlerInv, NEW p \in Proc, \A n \in Mid : Kept(n),
           NEW c \in PC \ OwnerPC, Goto(p, c),
           c \in UserPC => proc[p].u \in User,
           c \in MatchPC => proc[p].m \in Mid /\ sess[proc[p].m].st # "none",
           c \in AgreedPC => Agreed(proc[p].m),
           c = "close" => sess[proc[p].m].conv # "none"
    PROVE  Clean(p)
<1>1. Alone(p) /\ proc'[p] = [proc[p] EXCEPT !.pc = c]
  BY MoveType
<1>2. /\ proc'[p].pc = c /\ proc'[p].u = proc[p].u /\ proc'[p].m = proc[p].m
      /\ proc'[p].why = proc[p].why
  BY <1>1 DEF TypeOK, ProcState
<1> QED
  BY <1>1, <1>2 DEF Clean, HandlerInv, HandlerOK, Agreed, Kept, AgreedPC, MatchPC

(* Of the steps of the locked sections and of the search.                   *)
LEMMA QueueClean ==
    ASSUME IInv, NEW p \in Proc, \A n \in Mid : Kept(n),
           \/ AcquireLock(p) \/ CheckEligible(p) \/ CheckPending(p) \/ CheckChat(p) \/ Upsert(p)
           \/ FindCandidates(p) \/ StatementFails(p)
           \/ \E u \in User : PairLost(p, u)
    PROVE  Clean(p)
<1> USE DEF IInv
<1>0. /\ {"cancel", "eligible", "pending", "chat", "upsert", "try"} \subseteq PC
      /\ UserPC \cap OwnerPC = {} /\ {"cancel", "eligible", "pending", "chat", "upsert", "try"} \subseteq UserPC
      /\ {"cancel", "eligible", "pending", "chat", "upsert", "try"} \cap (MatchPC \cup AgreedPC \cup {"close"}) = {}
  BY DEF PC, UserPC, OwnerPC, MatchPC, AgreedPC
<1>1. ASSUME NEW c \in {"cancel", "eligible", "pending", "chat", "upsert", "try"}, Goto(p, c),
             proc[p].pc \in UserPC
      PROVE  Clean(p)
  BY <1>0, <1>1, GotoClean DEF HandlerInv, HandlerOK
<1>2. CASE AcquireLock(p) \/ CheckEligible(p) \/ CheckPending(p) \/ Upsert(p) \/ StatementFails(p)
  <2>1. CASE Continue(p)
    BY <2>1, ContinueClean
  <2>2. CASE Become(p, Idle)
    BY <2>2, IdleType, StateClean DEF UserPC, MatchPC, AgreedPC
  <2> QED
    BY <1>1, <1>2, <2>1, <2>2 DEF AcquireLock, CheckEligible, CheckPending, Upsert, StatementFails, UserPC
<1>3. CASE CheckChat(p)
  <2> DEFINE chats == ActiveChats(proc[p].u)
             s == [proc[p] EXCEPT !.pc = "endClaim", !.m = Latest(chats), !.why = "lazy"]
  <2>1. CASE Continue(p)
    BY <2>1, ContinueClean
  <2>2. CASE Goto(p, "upsert")
    BY <1>1, <1>3, <2>2 DEF CheckChat, UserPC
  <2>3. CASE chats # {} /\ Become(p, s)
    <3>1. Latest(chats) \in Mid /\ sess[Latest(chats)].st = "ACCEPTED"
      BY <2>3, LatestIn DEF ActiveChats
    <3>2. proc[p].u \in User
      BY <1>3 DEF CheckChat, HandlerInv, HandlerOK, UserPC
    <3>3. /\ s \in ProcState /\ s.pc = "endClaim" /\ s.m = Latest(chats) /\ s.u = proc[p].u
      <4>1. proc[p] \in ProcState /\ "endClaim" \in PC /\ "lazy" \in Why /\ Mid \subseteq 0..MaxSessions
        BY SessionsAssumption DEF TypeOK, PC, Why, Mid
      <4> HIDE DEF chats
      <4> QED
        BY <3>1, <4>1, StateType
    <3> HIDE DEF s, chats
    <3> QED
      BY <2>3, <3>1, <3>2, <3>3, StateClean DEF AgreedPC, UserPC
  <2> QED
    BY <1>3, <2>1, <2>2, <2>3 DEF CheckChat, Become
<1>4. CASE FindCandidates(p) \/ \E u \in User : PairLost(p, u)
  <2>1. CASE Continue(p)
    BY <2>1, ContinueClean
  <2>2. CASE \E C \in SUBSET User : proc' = [proc EXCEPT ![p].pc = "pair", ![p].cand = C]
    <3>1. PICK C \in SUBSET User : proc' = [proc EXCEPT ![p].pc = "pair", ![p].cand = C]
      BY <2>2
    <3> DEFINE s == [proc[p] EXCEPT !.pc = "pair", !.cand = C]
    <3>2. proc[p] \in ProcState /\ "pair" \in PC
      BY DEF TypeOK, PC
    <3>3. s \in ProcState /\ s.pc = "pair" /\ s.u = proc[p].u
      BY <3>2, StateType
    <3>4. Become(p, s)
      BY <3>1, <3>2, StateType DEF Become, TypeOK
    <3>5. proc[p].u \in User
      BY <1>4 DEF FindCandidates, PairLost, HandlerInv, HandlerOK, UserPC
    <3> HIDE DEF s
    <3> QED
      BY <3>3, <3>4, <3>5, StateClean DEF AgreedPC, MatchPC
  <2>3. CASE FindCandidates(p)
    <3>1. ASSUME ~Continue(p)
          PROVE  \E C \in SUBSET {c \in User \ {proc[p].u} : queue[c] = "live" /\ eligible[c]} :
                     proc' = [proc EXCEPT ![p].pc = "pair", ![p].cand = C]
      BY <2>3, <3>1 DEF FindCandidates
    <3> QED
      BY <2>1, <2>2, <3>1
  <2>4. ASSUME NEW u \in User, PairLost(p, u) PROVE Clean(p)
    <3> DEFINE s == [proc[p] EXCEPT !.cand = @ \ {u}]
    <3>1. proc[p] \in ProcState /\ proc[p].pc = "pair" /\ proc[p].u \in User
      BY <2>4 DEF TypeOK, PairLost, HandlerInv, HandlerOK, UserPC
    <3>2. s \in ProcState /\ s.pc = "pair" /\ s.u = proc[p].u
      BY <3>1, StateType
    <3>3. Continue(p) \/ Become(p, s)
      BY <2>4 DEF PairLost, Become
    <3> HIDE DEF s
    <3> QED
      BY <2>1, <3>1, <3>2, <3>3, StateClean DEF AgreedPC, MatchPC
  <2> QED
    BY <1>4, <2>3, <2>4
<1> QED
  BY <1>2, <1>3, <1>4

(* Of an accept before its claim, and of the end of a chat.                 *)
LEMMA MatchClean ==
    ASSUME IInv, NEW p \in Proc, \A n \in Mid : Kept(n),
           Reread(p) \/ Vouch(p) \/ LiveElsewhere(p) \/ ReadEnded(p)
    PROVE  Clean(p)
<1> USE DEF IInv
<1> DEFINE C == {"vouch", "liveElsewhere", "refuse", "claim", "close", "upsert"}
<1>0. \A c \in C : c \in PC \ OwnerPC /\ (c \in UserPC => c = "upsert")
  BY DEF PC, OwnerPC, UserPC
<1>1. /\ proc[p].m \in Mid /\ sess[proc[p].m].st # "none"
      /\ proc[p].pc \in {"vouch", "liveElsewhere"} => Agreed(proc[p].m)
      /\ proc[p].why = "lazy" => proc[p].u \in User
  BY DEF HandlerInv, HandlerOK, Reread, Vouch, LiveElsewhere, ReadEnded, MatchPC, AgreedPC
<1>2. CASE Become(p, Idle)
  BY <1>2, IdleType, StateClean DEF UserPC, MatchPC, AgreedPC
<1>3. CASE Goto(p, "refuse") \/ (Goto(p, "upsert") /\ proc[p].why = "lazy")
  BY <1>0, <1>1, <1>3, GotoClean DEF AgreedPC, MatchPC
<1>4. CASE Goto(p, "close") /\ HasConversation(proc[p].m)
  <2>1. "close" \notin AgreedPC /\ sess[proc[p].m].conv # "none"
    BY <1>4 DEF AgreedPC, HasConversation
  <2>2. Goto(p, "close")
    BY <1>4
  <2>3. "close" \in PC \ OwnerPC /\ "close" \notin UserPC
    BY <1>0
  <2> QED
    BY <1>1, <2>1, <2>2, <2>3, GotoClean
<1>5. CASE Agreed(proc[p].m) /\ (Goto(p, "vouch") \/ Goto(p, "liveElsewhere") \/ Goto(p, "claim"))
  <2>1. PICK c \in {"vouch", "liveElsewhere", "claim"} : Goto(p, c)
    BY <1>5
  <2>2. c \in PC \ OwnerPC /\ c \notin UserPC /\ c # "close"
    BY <1>0
  <2> QED
    BY <1>1, <1>5, <2>1, <2>2, GotoClean
<1>6. CASE Reread(p)
  BY <1>2, <1>5, <1>6 DEF Reread, BothAccepted, Agreed
<1>7. CASE Vouch(p)
  <2>1. Goto(p, "liveElsewhere") \/ Goto(p, "refuse")
    BY <1>7 DEF Vouch, Goto
  <2>2. Agreed(proc[p].m)
    BY <1>1, <1>7 DEF Vouch
  <2> QED
    BY <1>3, <1>5, <2>1, <2>2
<1>8. CASE LiveElsewhere(p)
  <2>1. Goto(p, "claim") \/ Goto(p, "refuse")
    BY <1>8 DEF LiveElsewhere, Goto
  <2>2. Agreed(proc[p].m)
    BY <1>1, <1>8 DEF LiveElsewhere
  <2> QED
    BY <1>3, <1>5, <2>1, <2>2
<1>9. CASE ReadEnded(p)
  BY <1>2, <1>3, <1>4, <1>9 DEF ReadEnded, EndStep
<1> QED
  BY <1>6, <1>7, <1>8, <1>9

LEMMA ReadsSame ==
    ASSUME NEW p \in Proc, Reads(p)
    PROVE  UNCHANGED <<sess, created, opened>>
  BY DEF Reads, Join, Cancel, PairLost, Respond, Leave, SweepSession, SweepChat, AcquireLock,
         RemoveEntry, CheckEligible, CheckPending, CheckChat, Upsert, FindCandidates, Reread,
         Vouch, LiveElsewhere, ReadEnded, StatementFails, Crash

LEMMA ReadsClean == ASSUME IInv, NEW p \in Proc, Reads(p) PROVE Clean(p)
<1>1. \A n \in Mid : Kept(n)
  BY ReadsSame DEF Kept
<1> QED
  BY <1>1, AskClean, QueueClean, MatchClean DEF Reads, IInv

-----------------------------------------------------------------------------
(* The steps that write a session.                                          *)

RowsType == sess \in [Mid -> Session] /\ created \in 0..MaxSessions /\ opened \in [Mid -> Nat]

RowsFine == RowsType' /\ RowInv' /\ \A n \in Mid : Kept(n)

(* A step of p leaves the sessions the others own.                          *)
OthersOwn(p) ==
    \A q \in Proc \ {p}, n \in Mid : proc[q].pc \in OwnerPC /\ proc[q].m = n =>
        Owned(n)' /\ opened'[n] = opened[n]

(* A row that is changed in one of the ways the code has.                   *)
LEMMA RowStep ==
    ASSUME IInv, NEW m \in Mid, NEW r \in Session, sess' = [sess EXCEPT ![m] = r],
           UNCHANGED <<created, opened>>,
           sess[m].st # "none", r.st # "none", r.a = sess[m].a, r.b = sess[m].b,
           sess[m].yes \subseteq r.yes,
           sess[m].conv # "none" => r.conv # "none",
           r.st = "ACCEPTED" => {r.a, r.b} \subseteq r.yes,
           opened[m] > 0 => r.st = "ACCEPTED",
           r.conv # "none" => opened[m] = 1
    PROVE  RowsFine
<1> USE SessionsAssumption DEF IInv
<1>1. /\ sess' \in [Mid -> Session] /\ sess'[m] = r
      /\ \A n \in Mid \ {m} : sess'[n] = sess[n]
  BY DEF TypeOK
<1>2. RowsType'
  BY <1>1 DEF TypeOK, RowsType
<1>3. \A n \in Mid : Kept(n)
  BY <1>1 DEF Kept
<1>4. ~(m > created) /\ m <= created
  <2>1. NoSession.st = "none"
    BY DEF NoSession
  <2>2. RowOK(m)
    BY DEF RowInv
  <2>3. ~(m > created)
    BY <2>1, <2>2 DEF RowOK
  <2> QED
    BY <2>3 DEF TypeOK, Mid
<1>5. RowOK(m) => RowOK(m)'
  BY <1>1, <1>4 DEF RowOK, Agreed
<1>6. \A n \in Mid \ {m} : RowOK(n) => RowOK(n)'
  BY <1>1 DEF RowOK, Agreed
<1> QED
  BY <1>2, <1>3, <1>5, <1>6 DEF RowInv, RowsFine

LEMMA RowsStay ==
    ASSUME TypeOK, RowInv, UNCHANGED <<sess, created, opened>>
    PROVE  RowsFine
  BY DEF RowsFine, RowsType, TypeOK, RowInv, RowOK, Kept, Agreed

LEMMA OwnersStay ==
    ASSUME IInv, NEW p \in Proc, NEW m \in Mid, NEW r, sess' = [sess EXCEPT ![m] = r],
           UNCHANGED opened,
           \/ sess[m].st = "PENDING"
           \/ sess[m].conv # "none"
           \/ r.st = sess[m].st /\ r.conv = sess[m].conv
           \/ proc[p].pc \in OwnerPC /\ proc[p].m = m
    PROVE  OthersOwn(p)
<1> SUFFICES ASSUME NEW q \in Proc \ {p}, NEW n \in Mid, proc[q].pc \in OwnerPC, proc[q].m = n
             PROVE  Owned(n)'
  BY DEF OthersOwn
<1>1. Owned(n)
  BY DEF IInv, HandlerInv, HandlerOK
<1>2. n # m \/ (r.st = sess[m].st /\ r.conv = sess[m].conv)
  BY <1>1 DEF Owned, IInv, OwnerInv
<1>3. sess'[n] = IF n = m THEN r ELSE sess[n]
  BY DEF IInv, TypeOK
<1> QED
  BY <1>1, <1>2, <1>3 DEF Owned

(* What a step of p has to keep of IInv.                                    *)
Good(p) ==
    /\ Alone(p) /\ HandlerOK(p)' /\ RowsFine /\ OthersOwn(p)
    /\ proc'[p].pc \in OwnerPC =>
          \A q \in Proc \ {p} : ~(proc[q].pc \in OwnerPC /\ proc[q].m = proc'[p].m)

LEMMA CleanGood ==
    ASSUME NEW p \in Proc, Clean(p), RowsFine, OthersOwn(p)
    PROVE  Good(p)
  BY DEF Clean, Good

LEMMA SameGood ==
    ASSUME IInv, NEW p \in Proc, UNCHANGED <<sess, created, opened>>
    PROVE  RowsFine /\ OthersOwn(p)
<1>1. RowsFine
  BY RowsStay DEF IInv
<1>2. OthersOwn(p)
  BY DEF OthersOwn, Owned, IInv, HandlerInv, HandlerOK
<1> QED
  BY <1>1, <1>2

LEMMA ReadsGood == ASSUME IInv, NEW p \in Proc, Reads(p) PROVE Good(p)
  BY ReadsSame, ReadsClean, SameGood, CleanGood

(* A handler that gives up changes nothing.                                 *)
LEMMA IdleGood ==
    ASSUME IInv, NEW p \in Proc, RowsFine, OthersOwn(p), Become(p, Idle)
    PROVE  Good(p)
<1>1. Clean(p)
  BY IdleType, StateClean DEF IInv, RowsFine, UserPC, MatchPC, AgreedPC
<1> QED
  BY <1>1, CleanGood

LEMMA RequeueGood ==
    ASSUME IInv, NEW p \in Proc, RowsFine, OthersOwn(p),
           NEW todo \in {<<x>> : x \in User} \cup (User \X User), Requeue(p, todo)
    PROVE  Good(p)
<1>1. Clean(p)
  BY RequeueType DEF IInv, Clean, HandlerOK, UserPC, MatchPC, AgreedPC, OwnerPC
<1> QED
  BY <1>1, CleanGood

(* The session a handler works on.                                          *)
LEMMA MatchRow ==
    ASSUME IInv, NEW p \in Proc, proc[p].pc \in MatchPC
    PROVE  LET m == proc[p].m
           IN  /\ m \in Mid /\ sess[m] \in Session /\ sess[m].st # "none"
               /\ sess[m].a \in User /\ sess[m].b \in User /\ RowOK(m)
<1> DEFINE m == proc[p].m
<1>1. m \in Mid /\ sess[m].st # "none" /\ RowOK(m) /\ sess[m] \in Session
  BY DEF IInv, HandlerInv, HandlerOK, RowInv, TypeOK
<1>2. ~(m > created)
  <2>1. NoSession.st = "none"
    BY DEF NoSession
  <2> QED
    BY <1>1, <2>1 DEF RowOK
<1>3. m <= created
  BY <1>1, <1>2, SessionsAssumption DEF IInv, TypeOK, Mid
<1> QED
  BY <1>1, <1>3 DEF RowOK

LEMMA ResolveGood ==
    ASSUME IInv, NEW p \in Proc, Decline(p) \/ Expire(p) \/ Refuse(p)
    PROVE  Good(p)
<1> DEFINE m == proc[p].m
<1>1. /\ m \in Mid /\ sess[m] \in Session /\ sess[m].st # "none"
      /\ sess[m].a \in User /\ sess[m].b \in User /\ RowOK(m)
      /\ UNCHANGED <<created, opened>>
  BY MatchRow DEF Decline, Expire, Refuse, MatchPC
<1>2. CASE sess' = sess /\ Become(p, Idle)
  BY <1>1, <1>2, SameGood, IdleGood
<1>3. ASSUME NEW st \in {"DECLINED", "EXPIRED"}, sess' = [sess EXCEPT ![m].st = st],
             sess[m].st = "PENDING"
      PROVE  RowsFine /\ OthersOwn(p)
  <2> DEFINE r == [sess[m] EXCEPT !.st = st]
  <2>1. /\ r \in Session /\ r.st = st /\ r.a = sess[m].a /\ r.b = sess[m].b
        /\ r.yes = sess[m].yes /\ r.conv = sess[m].conv
    BY <1>1 DEF Session
  <2>2. sess' = [sess EXCEPT ![m] = r]
    BY <1>3
  <2>3. opened[m] \in Nat /\ ~(opened[m] > 0) /\ r.conv = "none"
    BY <1>1, <1>3, <2>1 DEF RowOK, IInv, TypeOK
  <2> HIDE DEF m, r
  <2> QED
    BY <1>1, <1>3, <2>1, <2>2, <2>3, RowStep, OwnersStay
<1>4. CASE Decline(p)
  <2>1. Other(proc[p].u, m) \in User
    BY <1>1 DEF Other
  <2> QED
    BY <1>2, <1>3, <1>4, <2>1, RequeueGood DEF Decline, IsStill
<1>5. CASE Expire(p)
  BY <1>1, <1>2, <1>3, <1>5, RequeueGood DEF Expire, IsStill
<1>6. CASE Refuse(p)
  BY <1>2, <1>3, <1>6, IdleGood DEF Refuse, IsStill
<1> QED
  BY <1>4, <1>5, <1>6

LEMMA FlagGood == ASSUME IInv, NEW p \in Proc, SetFlag(p) PROVE Good(p)
<1> DEFINE m == proc[p].m
           r == [sess[m] EXCEPT !.yes = @ \cup {proc[p].u}]
<1>1. /\ m \in Mid /\ sess[m] \in Session /\ sess[m].st # "none" /\ RowOK(m)
      /\ UNCHANGED <<created, opened>> /\ Goto(p, "reread") /\ proc[p].u \in User
  BY MatchRow DEF SetFlag, MatchPC, UserPC, IInv, HandlerInv, HandlerOK
<1>2. RowsFine /\ OthersOwn(p)
  <2>1. CASE sess' = sess
    BY <1>1, <2>1, SameGood
  <2>2. CASE sess' = [sess EXCEPT ![m] = r]
    <3>1. /\ r \in Session /\ r.st = sess[m].st /\ r.a = sess[m].a /\ r.b = sess[m].b
          /\ sess[m].yes \subseteq r.yes /\ r.conv = sess[m].conv
      BY <1>1 DEF Session
    <3>2. /\ r.st = "ACCEPTED" => {r.a, r.b} \subseteq r.yes
          /\ opened[m] > 0 => r.st = "ACCEPTED"
          /\ r.conv # "none" => opened[m] = 1
      BY <1>1, <3>1 DEF RowOK, Agreed
    <3> HIDE DEF m, r
    <3> QED
      BY <1>1, <2>2, <3>1, <3>2, RowStep, OwnersStay
  <2> QED
    BY <1>1, <2>1, <2>2 DEF SetFlag, IInv, TypeOK
<1>3. Clean(p)
  <2>1. "reread" \in PC \ OwnerPC /\ "reread" \notin UserPC \cup AgreedPC \cup {"close"}
    BY DEF PC, OwnerPC, UserPC, AgreedPC
  <2> QED
    BY <1>1, <1>2, <2>1, GotoClean DEF IInv, RowsFine
<1> QED
  BY <1>2, <1>3, CleanGood

(* A claim needs a PENDING session, which nobody owns, and has seen both    *)
(* flags.                                                                   *)
LEMMA ClaimGood == ASSUME IInv, NEW p \in Proc, ClaimAccept(p) PROVE Good(p)
<1>0. proc[p].m \in Mid
  BY MatchRow DEF ClaimAccept, MatchPC
<1>a. PICK m \in Mid : m = proc[p].m
  BY <1>0
<1> DEFINE r == [sess[m] EXCEPT !.st = "ACCEPTED"]
<1>1. /\ m \in Mid /\ sess[m] \in Session /\ sess[m].st # "none" /\ RowOK(m) /\ Agreed(m)
      /\ UNCHANGED <<created, opened>> /\ opened[m] \in Nat
  BY <1>a, MatchRow DEF ClaimAccept, MatchPC, AgreedPC, IInv, HandlerInv, HandlerOK, TypeOK
<1>2. CASE sess' = sess /\ Become(p, Idle)
  BY <1>1, <1>2, SameGood, IdleGood
<1>3. CASE sess[m].st = "PENDING" /\ sess' = [sess EXCEPT ![m] = r] /\ Goto(p, "open")
  <2>1. /\ r \in Session /\ r.st = "ACCEPTED" /\ r.a = sess[m].a /\ r.b = sess[m].b
        /\ r.yes = sess[m].yes /\ r.conv = sess[m].conv
    BY <1>1 DEF Session
  <2>2. opened[m] = 0 /\ sess[m].conv = "none"
    BY <1>1, <1>3 DEF RowOK
  <2>3. {r.a, r.b} \subseteq r.yes
    BY <1>1, <2>1 DEF Agreed
  <2>4. RowsFine /\ OthersOwn(p)
    <3> HIDE DEF r
    <3> QED
      BY <1>a, <1>1, <1>3, <2>1, <2>2, <2>3, RowStep, OwnersStay
  <2>5. Alone(p) /\ proc'[p] = [proc[p] EXCEPT !.pc = "open"] /\ proc[p] \in ProcState
    BY <1>3, MoveType DEF PC, IInv, TypeOK
  <2>6. /\ proc'[p].pc = "open" /\ proc'[p].m = m /\ proc'[p].u = proc[p].u
        /\ proc'[p].why = proc[p].why
    BY <1>a, <2>5, StateType
  <2>7. sess'[m] = r
    BY <1>1, <1>3 DEF IInv, TypeOK
  <2> HIDE DEF r
  <2>8. HandlerOK(p)'
    <3>1. proc[p].why = "lazy" => proc[p].u \in User
      BY DEF IInv, HandlerInv, HandlerOK
    <3>2. /\ "open" \notin UserPC /\ proc'[p].m = m /\ opened'[m] = 0
          /\ Agreed(m)' /\ Owned(m)'
      BY <1>1, <2>1, <2>2, <2>3, <2>6, <2>7 DEF UserPC, Agreed, Owned
    <3> QED
      BY <1>1, <2>1, <2>6, <2>7, <3>1, <3>2 DEF HandlerOK, Agreed, Owned
  <2>9. \A q \in Proc : ~(proc[q].pc \in OwnerPC /\ proc[q].m = m)
    BY <1>3 DEF IInv, HandlerInv, HandlerOK, Owned
  <2> QED
    BY <2>4, <2>5, <2>6, <2>8, <2>9 DEF Good
<1> QED
  BY <1>a, <1>2, <1>3 DEF ClaimAccept, IsStill

(* What the owner of a session does with it.                                *)
LEMMA OwnedRow ==
    ASSUME IInv, NEW p \in Proc, proc[p].pc \in OwnerPC
    PROVE  LET m == proc[p].m
           IN  /\ m \in Mid /\ sess[m] \in Session /\ Owned(m) /\ RowOK(m) /\ Agreed(m)
               /\ opened[m] = IF proc[p].pc = "publish" THEN 1 ELSE 0
  BY DEF IInv, HandlerInv, HandlerOK, RowInv, TypeOK, OwnerPC, AgreedPC, MatchPC

LEMMA RollbackGood == ASSUME IInv, NEW p \in Proc, Rollback(p) PROVE Good(p)
<1> DEFINE m == proc[p].m
           r == [sess[m] EXCEPT !.st = "PENDING"]
<1>1. /\ m \in Mid /\ sess[m] \in Session /\ Owned(m) /\ RowOK(m) /\ opened[m] = 0
      /\ UNCHANGED <<created, opened>> /\ Become(p, Idle) /\ sess' = [sess EXCEPT ![m] = r]
      /\ proc[p].pc \in OwnerPC
  BY OwnedRow DEF Rollback, OwnerPC, IsStill, Owned
<1>2. /\ r \in Session /\ r.st = "PENDING" /\ r.a = sess[m].a /\ r.b = sess[m].b
      /\ r.yes = sess[m].yes /\ r.conv = sess[m].conv
  BY <1>1 DEF Session
<1>3. RowsFine /\ OthersOwn(p)
  <2>1. sess[m].st # "none" /\ r.conv = "none" /\ ~(opened[m] > 0) /\ sess[m].yes \subseteq r.yes
    BY <1>1, <1>2 DEF Owned
  <2> HIDE DEF m, r
  <2>2. RowsFine
    BY <1>1, <1>2, <2>1, RowStep
  <2>3. OthersOwn(p)
    BY <1>1, OwnersStay DEF m
  <2> QED
    BY <2>2, <2>3
<1> QED
  BY <1>1, <1>3, IdleGood

LEMMA PublishGood == ASSUME IInv, NEW p \in Proc, Publish(p) PROVE Good(p)
<1> DEFINE m == proc[p].m
           r == [sess[m] EXCEPT !.conv = "open", !.chat = "ACTIVE", !.window = "open"]
<1>1. /\ m \in Mid /\ sess[m] \in Session /\ Owned(m) /\ Agreed(m) /\ opened[m] = 1
      /\ UNCHANGED <<created, opened>> /\ Become(p, Idle) /\ proc[p].pc \in OwnerPC
  BY OwnedRow DEF Publish, OwnerPC
<1>2. CASE sess' = sess
  BY <1>1, <1>2, SameGood, IdleGood
<1>3. CASE sess' # sess
  <2>1. sess' = [sess EXCEPT ![m] = r]
    <3>1. sess \in [Mid -> Session] /\ m \in Mid
      BY <1>1 DEF IInv, TypeOK
    <3>2. sess' = [sess EXCEPT ![m].conv = "open", ![m].chat = "ACTIVE", ![m].window = "open"]
      BY <1>3 DEF Publish
    <3> HIDE DEF m
    <3> QED
      BY <3>1, <3>2
  <2>2. /\ r \in Session /\ r.st = sess[m].st /\ r.a = sess[m].a /\ r.b = sess[m].b
        /\ r.yes = sess[m].yes /\ r.conv = "open"
    BY <1>1 DEF Session
  <2>3. RowsFine /\ OthersOwn(p)
    <3>1. /\ sess[m].st = "ACCEPTED" /\ {r.a, r.b} \subseteq r.yes /\ sess[m].yes \subseteq r.yes
          /\ r.st # "none" /\ r.conv # "none"
      BY <1>1, <2>2 DEF Owned, Agreed
    <3> HIDE DEF m, r
    <3>2. RowsFine
      BY <1>1, <2>1, <2>2, <3>1, RowStep
    <3>3. OthersOwn(p)
      BY <1>1, <2>1, OwnersStay DEF m
    <3> QED
      BY <3>2, <3>3
  <2> QED
    BY <1>1, <2>3, IdleGood
<1> QED
  BY <1>2, <1>3

(* The end of a chat.                                                       *)
LEMMA EndGood ==
    ASSUME IInv, NEW p \in Proc, EndClaim(p) \/ CloseConversation(p)
    PROVE  Good(p)
<1>0. proc[p].m \in Mid
  BY MatchRow DEF EndClaim, CloseConversation, MatchPC
<1>a. PICK m \in Mid : m = proc[p].m
  BY <1>0
<1>1. /\ sess[m] \in Session /\ sess[m].st # "none" /\ RowOK(m)
      /\ UNCHANGED <<created, opened>> /\ opened[m] \in Nat
      /\ proc[p].why = "lazy" => proc[p].u \in User
      /\ sess \in [Mid -> Session]
      /\ proc[p].pc = "close" => sess[m].conv # "none"
  BY <1>a, MatchRow DEF EndClaim, CloseConversation, MatchPC, IInv, HandlerInv, HandlerOK, TypeOK
<1>2. ASSUME EndStep(p), RowsFine PROVE Clean(p)
  <2>1. CASE Become(p, Idle)
    BY <1>2, <2>1, IdleType, StateClean DEF IInv, RowsFine, UserPC, MatchPC, AgreedPC
  <2>2. CASE Goto(p, "upsert") /\ proc[p].why = "lazy"
    <3>1. "upsert" \in PC \ OwnerPC /\ "upsert" \notin MatchPC \cup AgreedPC \cup {"close"}
      BY DEF PC, OwnerPC, MatchPC, AgreedPC
    <3> QED
      BY <1>1, <1>2, <2>2, <3>1, GotoClean DEF IInv, RowsFine
  <2> QED
    BY <1>2, <2>1, <2>2 DEF EndStep
<1>3. CASE UNCHANGED sess /\ EndStep(p)
  BY <1>1, <1>2, <1>3, SameGood, CleanGood
<1>4. CASE EndClaim(p) /\ StillActive(m)
  <2> DEFINE r == [sess[m] EXCEPT !.chat = EndStatus(proc[p].why)]
  <2>1. sess' = [sess EXCEPT ![m] = r] /\ Goto(p, "readEnded")
    BY <1>a, <1>4 DEF EndClaim
  <2>2. EndStatus(proc[p].why) \in {"ENDED_BY_USER", "EXPIRED"}
    BY DEF EndStatus
  <2>3. /\ r \in Session /\ r.st = sess[m].st /\ r.a = sess[m].a /\ r.b = sess[m].b
        /\ r.yes = sess[m].yes /\ r.conv = sess[m].conv
    BY <1>1, <2>2 DEF Session
  <2> HIDE DEF r
  <2>4. RowsFine
    BY <1>1, <2>1, <2>3, RowStep DEF RowOK, Agreed
  <2>5. OthersOwn(p)
    BY <1>1, <2>1, <2>3, OwnersStay
  <2>6. Clean(p)
    <3>1. "readEnded" \in PC \ OwnerPC /\ "readEnded" \notin UserPC \cup AgreedPC \cup {"close"}
      BY DEF PC, OwnerPC, UserPC, AgreedPC
    <3> QED
      BY <1>a, <1>1, <2>1, <2>4, <3>1, GotoClean DEF IInv, RowsFine
  <2> QED
    BY <2>4, <2>5, <2>6, CleanGood
<1>5. CASE CloseConversation(p) /\ sess' # sess
  <2> DEFINE r == [sess[m] EXCEPT !.conv = "closed"]
  <2>1. sess' = [sess EXCEPT ![m] = r] /\ EndStep(p) /\ sess[m].conv # "none"
    BY <1>a, <1>1, <1>5 DEF CloseConversation
  <2>2. /\ r \in Session /\ r.st = sess[m].st /\ r.a = sess[m].a /\ r.b = sess[m].b
        /\ r.yes = sess[m].yes /\ r.conv = "closed"
    BY <1>1 DEF Session
  <2> HIDE DEF r
  <2>3. RowsFine
    BY <1>1, <2>1, <2>2, RowStep DEF RowOK, Agreed
  <2>4. OthersOwn(p)
    BY <1>1, <2>1, <2>2, OwnersStay
  <2> QED
    BY <1>2, <2>1, <2>3, <2>4, CleanGood
<1> QED
  BY <1>a, <1>3, <1>4, <1>5 DEF EndClaim, CloseConversation

(* A new conversation, or none.                                             *)
LEMMA OpenGood == ASSUME IInv, NEW p \in Proc, OpenConversation(p) PROVE Good(p)
<1>0. proc[p].m \in Mid /\ proc[p].pc = "open" /\ proc[p].pc \in OwnerPC
  BY MatchRow DEF OpenConversation, MatchPC, OwnerPC
<1>a. PICK m \in Mid : m = proc[p].m
  BY <1>0
<1>1. /\ sess[m] \in Session /\ Owned(m) /\ RowOK(m) /\ Agreed(m) /\ opened[m] = 0
      /\ UNCHANGED <<created, sess>> /\ opened \in [Mid -> Nat]
      /\ proc[p].why = "lazy" => proc[p].u \in User
  BY <1>0, <1>a, OwnedRow DEF OpenConversation, IInv, TypeOK, HandlerInv, HandlerOK
<1>2. PICK c \in {"publish", "rollback"} :
          /\ Goto(p, c)
          /\ opened' = [opened EXCEPT ![m] = IF c = "publish" THEN 1 ELSE 0]
  <2>1. CASE Goto(p, "publish") /\ opened' = [opened EXCEPT ![m] = @ + 1]
    BY <1>1, <2>1
  <2>2. CASE Goto(p, "rollback") /\ opened' = opened
    BY <1>1, <2>2
  <2> QED
    BY <1>a, <2>1, <2>2 DEF OpenConversation
<1>3. /\ opened' \in [Mid -> Nat] /\ opened'[m] = IF c = "publish" THEN 1 ELSE 0
      /\ \A n \in Mid \ {m} : opened'[n] = opened[n]
  BY <1>1, <1>2
<1>4. RowsFine
  <2>1. RowOK(m)'
    BY <1>1, <1>3 DEF RowOK, Owned, Agreed
  <2>2. \A n \in Mid \ {m} : RowOK(n)'
    BY <1>1, <1>3 DEF RowOK, Agreed, IInv, RowInv
  <2> QED
    BY <1>1, <1>3, <2>1, <2>2 DEF RowsFine, RowsType, IInv, TypeOK, RowInv, Kept
<1>5. \A q \in Proc \ {p} : ~(proc[q].pc \in OwnerPC /\ proc[q].m = m)
  BY <1>0, <1>a DEF IInv, OwnerInv
<1>6. OthersOwn(p)
  BY <1>1, <1>3, <1>5 DEF OthersOwn, Owned, IInv, HandlerInv, HandlerOK
<1>7. Alone(p) /\ proc'[p] = [proc[p] EXCEPT !.pc = c] /\ proc[p] \in ProcState
  BY <1>2, MoveType DEF PC, IInv, TypeOK
<1>8. proc'[p].pc = c /\ proc'[p].m = m /\ proc'[p].u = proc[p].u /\ proc'[p].why = proc[p].why
  BY <1>a, <1>7, StateType
<1>9. HandlerOK(p)'
  <2>1. Agreed(m)' /\ Owned(m)' /\ sess'[m].st # "none" /\ c \notin UserPC
    BY <1>1, <1>2 DEF Agreed, Owned, UserPC
  <2> QED
    BY <1>1, <1>2, <1>3, <1>8, <2>1 DEF HandlerOK, Agreed, Owned
<1> QED
  BY <1>4, <1>5, <1>6, <1>7, <1>8, <1>9 DEF Good

(* A pair takes the first row that is free, to which nothing refers.        *)
LEMMA FreshRow ==
    ASSUME IInv, created < MaxSessions
    PROVE  created + 1 \in Mid /\ sess[created + 1] = NoSession /\ opened[created + 1] = 0
<1>1. created + 1 \in Mid /\ created + 1 > created
  BY SessionsAssumption DEF IInv, TypeOK, Mid
<1>2. sess[created + 1] = NoSession /\ opened[created + 1] \in Nat
  BY <1>1 DEF IInv, RowInv, RowOK, TypeOK
<1>3. NoSession.st = "none"
  BY DEF NoSession
<1>4. ~(opened[created + 1] > 0)
  BY <1>1, <1>2, <1>3 DEF IInv, RowInv, RowOK
<1> QED
  BY <1>1, <1>2, <1>4

LEMMA PairGood == ASSUME IInv, NEW p \in Proc, NEW c \in User, Pair(p, c) PROVE Good(p)
<1>a. PICK k \in Mid : k = created + 1
  BY FreshRow DEF Pair
<1> DEFINE r == [NoSession EXCEPT !.st = "PENDING", !.a = proc[p].u, !.b = c]
<1>1. /\ k \in Mid /\ sess[k] = NoSession /\ opened[k] = 0 /\ created \in Nat
      /\ created' = k /\ sess' = [sess EXCEPT ![k] = r] /\ opened' = opened /\ Continue(p)
      /\ k \in 0..MaxSessions
  BY <1>a, FreshRow, SessionsAssumption DEF Pair, IInv, TypeOK, Mid
<1>2. proc[p].u \in User
  BY DEF Pair, IInv, HandlerInv, HandlerOK, UserPC
<1>3. /\ r \in Session /\ r.st = "PENDING" /\ r.a = proc[p].u /\ r.b = c /\ r.conv = "none"
      /\ NoSession.st = "none" /\ NoSession.conv = "none"
  BY <1>2 DEF NoSession, Session
<1> HIDE DEF r
<1>4. /\ sess' \in [Mid -> Session] /\ sess'[k] = r
      /\ \A n \in Mid \ {k} : sess'[n] = sess[n]
  BY <1>1, <1>3 DEF IInv, TypeOK
<1>5. RowOK(k)'
  BY <1>1, <1>2, <1>3, <1>4 DEF RowOK
<1>6. ASSUME NEW n \in Mid \ {k} PROVE RowOK(n)'
  <2>1. RowOK(n) /\ n \in Nat
    BY SessionsAssumption DEF IInv, RowInv, Mid
  <2>2. (n > k => n > created) /\ (n <= k => n <= created)
    BY <1>a, <1>1, <2>1
  <2> QED
    BY <1>1, <1>4, <2>1, <2>2 DEF RowOK, Agreed
<1>7. RowsFine
  <2>1. \A n \in Mid : Kept(n)
    BY <1>1, <1>3, <1>4 DEF Kept
  <2>2. RowsType'
    BY <1>1, <1>4 DEF RowsType, IInv, TypeOK
  <2> QED
    BY <1>5, <1>6, <2>1, <2>2 DEF RowsFine, RowInv
<1>8. OthersOwn(p)
  <2>1. ~Owned(k)
    BY <1>1, <1>3 DEF Owned
  <2> QED
    BY <1>1, <1>4, <2>1 DEF OthersOwn, Owned, IInv, HandlerInv, HandlerOK
<1>9. Clean(p)
  BY <1>1, <1>7, ContinueClean DEF IInv, RowsFine
<1> QED
  BY <1>7, <1>8, <1>9, CleanGood

LEMMA WritesGood == ASSUME IInv, NEW p \in Proc, Writes(p) PROVE Good(p)
  BY ResolveGood, FlagGood, ClaimGood, RollbackGood, PublishGood, EndGood, PairGood DEF Writes

-----------------------------------------------------------------------------
(* The steps of no handler: the clock turns rows, and nothing that others   *)
(* rely on.                                                                 *)
LEMMA EventRows ==
    ASSUME IInv, Event
    PROVE  /\ RowsFine /\ UNCHANGED <<proc, opened>>
           /\ \A n \in Mid : Owned(n) => Owned(n)'
<1>1. CASE UNCHANGED <<sess, created, opened>>
  BY <1>1, RowsStay DEF IInv, Event, SweepQueue, Clock, EntryExpires, DeadlinePasses, WindowCloses,
                        LoseEligibility, Owned
<1>2. ASSUME NEW m \in Mid, DeadlinePasses(m) \/ WindowCloses(m)
      PROVE  /\ RowsFine /\ UNCHANGED <<proc, opened>>
             /\ \A n \in Mid : Owned(n) => Owned(n)'
  <2>1. UNCHANGED <<created, proc, opened>> /\ RowOK(m) /\ sess[m] \in Session
    BY <1>2 DEF DeadlinePasses, WindowCloses, IInv, RowInv, TypeOK
  <2>2. sess[m].st # "none"
    <3>1. CASE DeadlinePasses(m)
      BY <3>1 DEF DeadlinePasses
    <3>2. CASE WindowCloses(m)
      <4>1. sess[m] # NoSession
        <5>1. NoSession.window = "null"
          BY DEF NoSession
        <5> QED
          BY <3>2, <5>1 DEF WindowCloses
      <4>2. ~(m > created)
        BY <2>1, <4>1 DEF RowOK
      <4>3. m <= created
        BY <4>2, SessionsAssumption DEF IInv, TypeOK, Mid
      <4> QED
        BY <2>1, <4>3 DEF RowOK
    <3> QED
      BY <1>2, <3>1, <3>2
  <2>3. PICK r \in Session : /\ sess' = [sess EXCEPT ![m] = r] /\ r.st = sess[m].st
                             /\ r.a = sess[m].a /\ r.b = sess[m].b /\ r.yes = sess[m].yes
                             /\ r.conv = sess[m].conv
    <3>1. /\ [sess[m] EXCEPT !.late = TRUE] \in Session
          /\ [sess[m] EXCEPT !.window = "past"] \in Session
      BY <2>1 DEF Session
    <3>2. CASE DeadlinePasses(m)
      <4> DEFINE r == [sess[m] EXCEPT !.late = TRUE]
      <4>1. /\ sess' = [sess EXCEPT ![m] = r] /\ r.st = sess[m].st /\ r.a = sess[m].a
            /\ r.b = sess[m].b /\ r.yes = sess[m].yes /\ r.conv = sess[m].conv
        BY <2>1, <3>2 DEF DeadlinePasses, Session
      <4> QED
        BY <3>1, <4>1
    <3>3. CASE WindowCloses(m)
      <4> DEFINE r == [sess[m] EXCEPT !.window = "past"]
      <4>1. /\ sess' = [sess EXCEPT ![m] = r] /\ r.st = sess[m].st /\ r.a = sess[m].a
            /\ r.b = sess[m].b /\ r.yes = sess[m].yes /\ r.conv = sess[m].conv
        BY <2>1, <3>3 DEF WindowCloses, Session
      <4> QED
        BY <3>1, <4>1
    <3> QED
      BY <1>2, <3>2, <3>3
  <2>4. RowsFine
    BY <2>1, <2>2, <2>3, RowStep DEF RowOK, Agreed
  <2>5. \A n \in Mid : Owned(n) => Owned(n)'
    BY <2>3 DEF Owned, IInv, TypeOK
  <2> QED
    BY <2>1, <2>4, <2>5
<1> QED
  BY <1>1, <1>2 DEF Event, Clock, SweepQueue, EntryExpires, LoseEligibility

-----------------------------------------------------------------------------
(* The invariant is inductive.                                              *)

LEMMA InitIInv == ASSUME Init PROVE IInv
<1>1. Idle \in ProcState /\ Idle.pc = "idle" /\ Idle.why = "join"
  BY IdleType
<1>2. NoSession \in Session /\ NoSession.st = "none" /\ NoSession.conv = "none"
  BY DEF NoSession, Session
<1>3. TypeOK
  BY <1>1, <1>2, SessionsAssumption, JoinsAssumption DEF Init, TypeOK
<1>4. HandlerInv /\ OwnerInv
  BY <1>1 DEF Init, HandlerInv, HandlerOK, OwnerInv, UserPC, MatchPC, AgreedPC, OwnerPC
<1>5. RowInv
  BY <1>2, SessionsAssumption DEF Init, RowInv, RowOK, Mid
<1> QED
  BY <1>3, <1>4, <1>5 DEF IInv

LEMMA HandlersStep ==
    ASSUME IInv, NEW p \in Proc, Good(p)
    PROVE  HandlerInv' /\ OwnerInv'
<1> USE DEF IInv
<1>1. ASSUME NEW q \in Proc \ {p} PROVE HandlerOK(q)'
  <2>1. proc'[q] = proc[q] /\ HandlerOK(q)
    BY DEF Good, Alone, HandlerInv
  <2>2. \A n \in Mid : Kept(n)
    BY DEF Good, RowsFine
  <2>3. \A n \in Mid : proc[q].pc \in OwnerPC /\ proc[q].m = n =>
            Owned(n)' /\ opened'[n] = opened[n]
    BY DEF Good, OthersOwn
  <2>4. proc[q].pc \in AgreedPC \cup OwnerPC \cup {"close"} => proc[q].pc \in MatchPC
    BY DEF AgreedPC, MatchPC, OwnerPC
  <2> QED
    BY <2>1, <2>2, <2>3, <2>4 DEF HandlerOK, Kept, Agreed, Owned
<1>2. HandlerInv'
  BY <1>1 DEF Good, HandlerInv
<1>3. OwnerInv'
  BY DEF OwnerInv, Good, Alone
<1> QED
  BY <1>2, <1>3

LEMMA HandlersStay ==
    ASSUME IInv, RowsFine, UNCHANGED <<proc, opened>>, \A n \in Mid : Owned(n) => Owned(n)'
    PROVE  HandlerInv' /\ OwnerInv'
<1>1. ASSUME NEW q \in Proc PROVE HandlerOK(q)'
  <2>1. HandlerOK(q) /\ \A n \in Mid : Kept(n)
    BY DEF IInv, HandlerInv, RowsFine
  <2>2. proc[q].pc \in AgreedPC \cup OwnerPC \cup {"close"} => proc[q].pc \in MatchPC
    BY DEF AgreedPC, MatchPC, OwnerPC
  <2> QED
    BY <2>1, <2>2 DEF HandlerOK, Kept, Agreed, Owned
<1> QED
  BY <1>1 DEF HandlerInv, OwnerInv, IInv

(* The tables beside the sessions.                                          *)
LEMMA TablesStep ==
    ASSUME TypeOK, Next
    PROVE  /\ queue' \in [User -> {"none", "live", "stale"}]
           /\ eligible' \in [User -> BOOLEAN]
           /\ lock' \in [User -> Proc \cup {None}]
           /\ joins' \in [User -> 0..MaxJoins]
<1>0. /\ queue \in [User -> {"none", "live", "stale"}]
      /\ eligible \in [User -> BOOLEAN]
      /\ lock \in [User -> Proc \cup {None}]
      /\ joins \in [User -> 0..MaxJoins]
  BY ZenonT(30) DEF TypeOK
<1>1. ASSUME NEW p \in Proc, Reads(p) PROVE queue' \in [User -> {"none", "live", "stale"}]
  <2>1. CASE RemoveEntry(p) \/ Upsert(p)
    <3>1. \E q \in {"none", "live"} : queue' = [queue EXCEPT ![proc[p].u] = q]
      BY <2>1 DEF RemoveEntry, Upsert
    <3> QED
      BY <1>0, <3>1
  <2>2. CASE ~RemoveEntry(p) /\ ~Upsert(p)
    BY <1>0, <1>1, <2>2, ZenonT(30) DEF Reads, Join, Cancel, PairLost, Respond, Leave, SweepSession,
         SweepChat, AcquireLock, CheckEligible, CheckPending, CheckChat, FindCandidates, Reread,
         Vouch, LiveElsewhere, ReadEnded, StatementFails, Crash
  <2> QED
    BY <2>1, <2>2
<1>2. ASSUME NEW p \in Proc, Reads(p) PROVE lock' \in [User -> Proc \cup {None}]
  BY <1>0, <1>2 DEF Reads, Join, Cancel, PairLost, Respond, Leave, SweepSession, SweepChat, AcquireLock,
         RemoveEntry, CheckEligible, CheckPending, CheckChat, Upsert, FindCandidates, Reread,
         Vouch, LiveElsewhere, ReadEnded, StatementFails, Crash, Unlock
<1>3. ASSUME NEW p \in Proc, Reads(p)
      PROVE  eligible' \in [User -> BOOLEAN] /\ joins' \in [User -> 0..MaxJoins]
  <2>1. CASE Upsert(p)
    <3>1. /\ UNCHANGED eligible /\ joins[proc[p].u] < MaxJoins
          /\ joins' = [joins EXCEPT ![proc[p].u] = joins[proc[p].u] + 1]
      BY <2>1 DEF Upsert
    <3>2. ASSUME proc[p].u \in User
          PROVE  joins[proc[p].u] + 1 \in 0..MaxJoins
      BY <1>0, <3>1, <3>2, JoinsAssumption
    <3>3. joins' \in [User -> 0..MaxJoins]
      BY <1>0, <3>1, <3>2
    <3> QED
      BY <1>0, <3>1, <3>3
  <2>2. CASE ~Upsert(p)
    BY <1>0, <1>3, <2>2, ZenonT(30) DEF Reads, Join, Cancel, PairLost, Respond, Leave, SweepSession, SweepChat,
         AcquireLock, RemoveEntry, CheckEligible, CheckPending, CheckChat, FindCandidates, Reread,
         Vouch, LiveElsewhere, ReadEnded, StatementFails, Crash
  <2> QED
    BY <2>1, <2>2
<1>4. ASSUME NEW p \in Proc, Writes(p) \/ OpenConversation(p)
      PROVE  /\ queue' \in [User -> {"none", "live", "stale"}]
             /\ UNCHANGED <<eligible, lock, joins>>
  BY <1>0, <1>4 DEF Writes, Pair, Decline, Expire, SetFlag, Refuse, ClaimAccept, Rollback, Publish,
         EndClaim, CloseConversation, OpenConversation
<1>5. CASE Event
  BY <1>0, <1>5 DEF Event, SweepQueue, Clock, EntryExpires, DeadlinePasses, WindowCloses, LoseEligibility
<1> QED
  BY <1>0, <1>1, <1>2, <1>3, <1>4, <1>5, NextCases

LEMMA StepIInv == ASSUME IInv, [Next]_vars PROVE IInv'
<1>1. CASE UNCHANGED vars
  <2>1. TypeOK'
    BY <1>1 DEF IInv, vars, TypeOK
  <2>2. RowsFine /\ \A n \in Mid : Owned(n) => Owned(n)'
    BY <1>1, RowsStay DEF IInv, vars, Owned
  <2> QED
    BY <1>1, <2>1, <2>2, HandlersStay DEF IInv, RowsFine, vars
<1>2. CASE Next
  <2>1. RowsFine /\ HandlerInv' /\ OwnerInv' /\ proc' \in [Proc -> ProcState]
    <3>1. ASSUME NEW p \in Proc, Good(p)
          PROVE  RowsFine /\ HandlerInv' /\ OwnerInv' /\ proc' \in [Proc -> ProcState]
      BY <3>1, HandlersStep DEF Good, Alone
    <3>2. CASE Event
      BY <3>2, EventRows, HandlersStay DEF IInv, TypeOK
    <3> QED
      BY <1>2, <3>1, <3>2, NextCases, ReadsGood, WritesGood, OpenGood
  <2>2. TypeOK'
    BY <1>2, <2>1, TablesStep DEF IInv, TypeOK, RowsFine, RowsType
  <2> QED
    BY <2>1, <2>2 DEF IInv, RowsFine
<1> QED
  BY <1>1, <1>2

LEMMA Invariance == Spec => []IInv
  BY InitIInv, StepIInv, PTL DEF Spec

(* The tables, the locks and the handlers stay what they are, for any       *)
(* number of them.                                                          *)
THEOREM TypeCorrect == Spec => []TypeOK
<1>1. IInv => TypeOK
  BY DEF IInv
<1> QED
  BY <1>1, Invariance, PTL

(* acceptSession: however accepts, their retries, declines and sweeps       *)
(* interleave, a session gets one conversation, after both agreed.          *)
THEOREM AgreedOnce == Spec => []OneAgreedConversation
<1>1. IInv => OneAgreedConversation
  BY DEF IInv, RowInv, RowOK, Agreed, OneAgreedConversation
<1> QED
  BY <1>1, Invariance, PTL

-----------------------------------------------------------------------------
(* What a step may never do to a session.                                   *)

Resolved(m) == sess[m].st \in {"DECLINED", "EXPIRED"}
EndedChat(m) == sess[m].conv # "none" /\ sess[m].chat # "ACTIVE"

(* A step leaves the outcome of m, and the ending of its chat.              *)
Final(m) ==
    /\ Resolved(m) => sess'[m].st = sess[m].st
    /\ EndedChat(m) => sess'[m].chat = sess[m].chat

LEMMA RowFinal ==
    ASSUME IInv, NEW m \in Mid, NEW k \in Mid, NEW r, sess' = [sess EXCEPT ![k] = r],
           k = m /\ Resolved(m) => r.st = sess[m].st,
           k = m /\ EndedChat(m) => r.chat = sess[m].chat
    PROVE  Final(m)
<1>1. sess'[m] = IF k = m THEN r ELSE sess[m]
  BY DEF IInv, TypeOK
<1> QED
  BY <1>1 DEF Final

LEMMA WriteFinal == ASSUME IInv, NEW p \in Proc, Writes(p), NEW m \in Mid PROVE Final(m)
<1> DEFINE k == proc[p].m
<1>0. CASE sess' = sess
  BY <1>0 DEF Final
<1>1. ASSUME NEW c \in User, Pair(p, c) PROVE Final(m)
  <2>1. created + 1 \in Mid /\ sess[created + 1] = NoSession
    BY <1>1, FreshRow DEF Pair
  <2>2. NoSession.st = "none" /\ NoSession.conv = "none"
    BY DEF NoSession
  <2>3. Resolved(m) \/ EndedChat(m) => m # created + 1
    BY <2>1, <2>2 DEF Resolved, EndedChat
  <2> QED
    BY <1>1, <2>1, <2>3, RowFinal DEF Pair
<1>2. ASSUME proc[p].pc \in MatchPC PROVE k \in Mid /\ sess[k] \in Session
  BY <1>2, MatchRow
<1>3. ASSUME NEW st, sess' = [sess EXCEPT ![k].st = st], sess[k].st \in {"PENDING", "ACCEPTED"},
             proc[p].pc \in MatchPC
      PROVE  Final(m)
  <2> DEFINE r == [sess[k] EXCEPT !.st = st]
  <2>1. sess' = [sess EXCEPT ![k] = r] /\ r.chat = sess[k].chat
    BY <1>2, <1>3 DEF Session
  <2> HIDE DEF r
  <2> QED
    BY <1>2, <1>3, <2>1, RowFinal DEF Resolved
<1>4. CASE Decline(p) \/ Expire(p) \/ Refuse(p) \/ ClaimAccept(p) \/ Rollback(p)
  <2>1. proc[p].pc \in MatchPC
    BY <1>4 DEF Decline, Expire, Refuse, ClaimAccept, Rollback, MatchPC
  <2>2. \/ sess' = sess
        \/ /\ sess[k].st \in {"PENDING", "ACCEPTED"}
           /\ \E st \in {"DECLINED", "EXPIRED", "ACCEPTED", "PENDING"} :
                 sess' = [sess EXCEPT ![k].st = st]
    BY <1>4 DEF Decline, Expire, Refuse, ClaimAccept, Rollback, IsStill
  <2> QED
    BY <1>0, <1>3, <2>1, <2>2
<1>5. CASE SetFlag(p)
  <2> DEFINE r == [sess[k] EXCEPT !.yes = @ \cup {proc[p].u}]
  <2>1. k \in Mid /\ sess[k] \in Session
    BY <1>2, <1>5 DEF SetFlag, MatchPC
  <2>2. r.st = sess[k].st /\ r.chat = sess[k].chat
    BY <2>1 DEF Session
  <2>3. sess' = sess \/ sess' = [sess EXCEPT ![k] = r]
    BY <1>5 DEF SetFlag
  <2> HIDE DEF r
  <2> QED
    BY <1>0, <2>1, <2>2, <2>3, RowFinal
<1>6. CASE Publish(p)
  <2> DEFINE r == [sess[k] EXCEPT !.conv = "open", !.chat = "ACTIVE", !.window = "open"]
  <2>1. Owned(k) /\ k \in Mid /\ sess[k] \in Session
    BY <1>6, OwnedRow DEF Publish, OwnerPC
  <2>2. k = m => ~Resolved(m) /\ ~EndedChat(m)
    BY <2>1 DEF Owned, EndedChat, Resolved
  <2>3. sess \in [Mid -> Session] /\ k \in Mid
    BY <2>1 DEF IInv, TypeOK
  <2>4. \/ sess' = sess
        \/ sess' = [sess EXCEPT ![k].conv = "open", ![k].chat = "ACTIVE", ![k].window = "open"]
    BY <1>6 DEF Publish
  <2>5. sess' = sess \/ sess' = [sess EXCEPT ![k] = r]
    <3> HIDE DEF k
    <3> QED
      BY <2>3, <2>4
  <2> HIDE DEF r
  <2> QED
    BY <1>0, <2>1, <2>2, <2>5, RowFinal
<1>7. CASE EndClaim(p)
  <2> DEFINE r == [sess[k] EXCEPT !.chat = EndStatus(proc[p].why)]
  <2>1. k \in Mid /\ sess[k] \in Session
    BY <1>2, <1>7 DEF EndClaim, MatchPC
  <2>2. r.st = sess[k].st
    BY <2>1 DEF Session
  <2>3. \/ sess' = sess
        \/ sess[k].chat = "ACTIVE" /\ sess' = [sess EXCEPT ![k] = r]
    BY <1>7 DEF EndClaim, StillActive
  <2> HIDE DEF r
  <2> QED
    BY <1>0, <2>1, <2>2, <2>3, RowFinal DEF EndedChat
<1>8. CASE CloseConversation(p)
  <2> DEFINE r == [sess[k] EXCEPT !.conv = "closed"]
  <2>1. k \in Mid /\ sess[k] \in Session
    BY <1>2, <1>8 DEF CloseConversation, MatchPC
  <2>2. r.st = sess[k].st /\ r.chat = sess[k].chat
    BY <2>1 DEF Session
  <2>3. sess' = sess \/ sess' = [sess EXCEPT ![k] = r]
    BY <1>8 DEF CloseConversation
  <2> HIDE DEF r
  <2> QED
    BY <1>0, <2>1, <2>2, <2>3, RowFinal
<1> QED
  BY <1>1, <1>4, <1>5, <1>6, <1>7, <1>8 DEF Writes

LEMMA EventFinal == ASSUME IInv, Event, NEW m \in Mid PROVE Final(m)
<1>1. CASE sess' = sess
  BY <1>1 DEF Final
<1>2. ASSUME NEW n \in Mid, DeadlinePasses(n) \/ WindowCloses(n) PROVE Final(m)
  <2>1. sess[n] \in Session
    BY DEF IInv, TypeOK
  <2>2. CASE sess' = [sess EXCEPT ![n].late = TRUE]
    <3> DEFINE r == [sess[n] EXCEPT !.late = TRUE]
    <3>1. sess' = [sess EXCEPT ![n] = r] /\ r.st = sess[n].st /\ r.chat = sess[n].chat
      BY <2>1, <2>2 DEF Session
    <3> HIDE DEF r
    <3> QED
      BY <3>1, RowFinal
  <2>3. CASE sess' = [sess EXCEPT ![n].window = "past"]
    <3> DEFINE r == [sess[n] EXCEPT !.window = "past"]
    <3>1. sess' = [sess EXCEPT ![n] = r] /\ r.st = sess[n].st /\ r.chat = sess[n].chat
      BY <2>1, <2>3 DEF Session
    <3> HIDE DEF r
    <3> QED
      BY <3>1, RowFinal
  <2> QED
    BY <1>2, <2>2, <2>3 DEF DeadlinePasses, WindowCloses
<1> QED
  BY <1>1, <1>2 DEF Event, Clock, SweepQueue, EntryExpires, LoseEligibility

LEMMA FinalStep == ASSUME IInv, Next, NEW m \in Mid PROVE Final(m)
<1>1. ASSUME NEW p \in Proc, Reads(p) \/ OpenConversation(p) PROVE Final(m)
  BY <1>1, ReadsSame DEF OpenConversation, Final
<1> QED
  BY <1>1, WriteFinal, EventFinal, NextCases

(* A match that was declined or timed out is so for good: neither a late    *)
(* accept nor the rollback of one revives it.                               *)
THEOREM ResolutionIsFinal == Spec => ResolvedIsFinal
<1>1. IInv /\ [Next]_vars =>
          [\A m \in Mid : sess[m].st \in {"DECLINED", "EXPIRED"} => sess'[m].st = sess[m].st]_vars
  BY FinalStep DEF Final, Resolved
<1> QED
  BY <1>1, Invariance, PTL DEF Spec, ResolvedIsFinal

(* leaveChatSession, the sweep and the lazy checks: a chat that ended keeps *)
(* the ending it had.                                                       *)
THEOREM EndingIsFinal == Spec => EndedChatStaysEnded
<1>1. IInv /\ [Next]_vars =>
          [\A m \in Mid : sess[m].conv # "none" /\ sess[m].chat # "ACTIVE"
              => sess'[m].chat = sess[m].chat]_vars
  BY FinalStep DEF Final, EndedChat
<1> QED
  BY <1>1, Invariance, PTL DEF Spec, EndedChatStaysEnded

-----------------------------------------------------------------------------
(* A queue entry is paired once.                                            *)

Matches(u) == {m \in Mid : sess[m].st # "none" /\ In(u, m)}
Waiting(u) == IF queue[u] = "none" THEN 0 ELSE 1

LEMMA MatchesFinite ==
    ASSUME NEW u
    PROVE  IsFiniteSet(Matches(u)) /\ Cardinality(Matches(u)) \in Nat
<1>1. IsFiniteSet(Mid)
  BY SessionsAssumption, FS_Interval DEF Mid
<1> QED
  BY <1>1, FS_Subset, FS_CardinalityType DEF Matches

(* Only a pair gives somebody a match.                                      *)
LEMMA MatchesStay ==
    ASSUME IInv, RowsFine, UNCHANGED created, NEW u
    PROVE  Matches(u)' = Matches(u)
<1>1. ASSUME NEW m \in Mid
      PROVE  (sess'[m].st # "none" /\ u \in {sess'[m].a, sess'[m].b})
                 <=> (sess[m].st # "none" /\ u \in {sess[m].a, sess[m].b})
  <2>1. CASE sess[m].st # "none"
    BY <2>1 DEF RowsFine, Kept
  <2>2. CASE sess[m].st = "none"
    <3>1. m > created
      <4>1. ~(m <= created)
        BY <2>2 DEF IInv, RowInv, RowOK
      <4> QED
        BY <4>1, SessionsAssumption DEF IInv, TypeOK, Mid
    <3>2. sess'[m] = NoSession
      BY <3>1 DEF RowsFine, RowInv, RowOK
    <3>3. NoSession.st = "none"
      BY DEF NoSession
    <3> QED
      BY <2>2, <3>2, <3>3
  <2> QED
    BY <2>1, <2>2
<1> QED
  BY <1>1 DEF Matches, In

(* Every other step leaves the entries, drops some, or writes one more.     *)
LEMMA EntryStep ==
    ASSUME TypeOK, Next, ~\E p \in Proc, c \in User : Pair(p, c), NEW u \in User
    PROVE  \/ joins'[u] = joins[u] /\ (queue[u] = "none" => queue'[u] = "none")
           \/ joins'[u] = joins[u] + 1
<1>0. queue \in [User -> {"none", "live", "stale"}] /\ joins \in [User -> 0..MaxJoins]
  BY ZenonT(30) DEF TypeOK
<1>1. ASSUME NEW p \in Proc, Reads(p), ~Upsert(p), ~RemoveEntry(p)
      PROVE  UNCHANGED <<queue, joins>>
  BY <1>1 DEF Reads, Join, Cancel, PairLost, Respond, Leave, SweepSession, SweepChat, AcquireLock,
         CheckEligible, CheckPending, CheckChat, FindCandidates, Reread, Vouch, LiveElsewhere,
         ReadEnded, StatementFails, Crash
<1>2. ASSUME NEW p \in Proc, RemoveEntry(p)
      PROVE  joins'[u] = joins[u] /\ (queue[u] = "none" => queue'[u] = "none")
  BY <1>0, <1>2 DEF RemoveEntry
<1>3. ASSUME NEW p \in Proc, Upsert(p)
      PROVE  \/ joins'[u] = joins[u] /\ (queue[u] = "none" => queue'[u] = "none")
             \/ joins'[u] = joins[u] + 1
  <2>1. joins' = [joins EXCEPT ![proc[p].u] = joins[proc[p].u] + 1]
    BY <1>3 DEF Upsert
  <2>2. queue' = [queue EXCEPT ![proc[p].u] = "live"]
    BY <1>3 DEF Upsert
  <2>3. CASE u = proc[p].u
    <3>1. joins' = [joins EXCEPT ![u] = joins[u] + 1]
      BY <2>1, <2>3
    <3> QED
      BY <1>0, <3>1
  <2>4. CASE u # proc[p].u
    BY <1>0, <2>1, <2>2, <2>4
  <2> QED
    BY <2>3, <2>4
<1>4. ASSUME NEW p \in Proc, Writes(p) \/ OpenConversation(p), ~\E c \in User : Pair(p, c)
      PROVE  UNCHANGED <<queue, joins>>
  BY <1>4 DEF Writes, Decline, Expire, SetFlag, Refuse, ClaimAccept, Rollback, Publish,
         EndClaim, CloseConversation, OpenConversation
<1>5. CASE Event
  BY <1>0, <1>5 DEF Event, SweepQueue, Clock, EntryExpires, DeadlinePasses, WindowCloses, LoseEligibility
<1> QED
  BY <1>1, <1>2, <1>3, <1>4, <1>5, NextCases

UsedInv == \A u \in User : Cardinality(Matches(u)) + Waiting(u) <= joins[u]

LEMMA UsedStep == ASSUME IInv, UsedInv, Next, NEW u \in User
                  PROVE  Cardinality(Matches(u)') + Waiting(u)' <= joins'[u]
<1>0. /\ joins[u] \in Nat /\ joins'[u] \in Nat
      /\ Cardinality(Matches(u)) + Waiting(u) <= joins[u]
      /\ Cardinality(Matches(u)) \in Nat /\ Waiting(u) \in {0, 1} /\ Waiting(u)' \in {0, 1}
  BY MatchesFinite, TablesStep, JoinsAssumption DEF IInv, TypeOK, UsedInv, Waiting
<1>1. CASE \E p \in Proc, c \in User : Pair(p, c)
  <2>1. PICK p \in Proc, c \in User : Pair(p, c)
    BY <1>1
  <2>a. PICK k \in Mid : k = created + 1
    BY <2>1, FreshRow DEF Pair
  <2> DEFINE v == proc[p].u
             r == [NoSession EXCEPT !.st = "PENDING", !.a = v, !.b = c]
  <2>2. /\ sess[k].st = "none" /\ sess' = [sess EXCEPT ![k] = r]
        /\ r.st = "PENDING" /\ r.a = v /\ r.b = c
    BY <2>1, <2>a, FreshRow DEF Pair, NoSession
  <2> HIDE DEF r
  <2>3. sess'[k] = r /\ \A m \in Mid \ {k} : sess'[m] = sess[m]
    BY <2>2 DEF IInv, TypeOK
  <2>4. UNCHANGED joins /\ queue[v] # "none" /\ queue[c] # "none"
        /\ queue' = [queue EXCEPT ![v] = "none", ![c] = "none"]
    BY <2>1 DEF Pair, BothQueued
  <2> HIDE DEF v
  <2>5. CASE u \in {v, c}
    <3>1. Matches(u)' = Matches(u) \cup {k}
      <4>1. \A m \in Mid : (sess'[m].st # "none" /\ u \in {sess'[m].a, sess'[m].b})
                <=> m = k \/ (sess[m].st # "none" /\ u \in {sess[m].a, sess[m].b})
        BY <2>2, <2>3, <2>5
      <4> QED
        BY <4>1 DEF Matches, In
    <3>2. /\ Cardinality(Matches(u)') \in Nat
          /\ Cardinality(Matches(u)') <= Cardinality(Matches(u)) + 1
      <4> DEFINE M == Matches(u)
      <4>1. IsFiniteSet(M) /\ Cardinality(M) \in Nat
        BY MatchesFinite
      <4> HIDE DEF M
      <4>2. Cardinality(M \cup {k}) = IF k \in M THEN Cardinality(M) ELSE Cardinality(M) + 1
        BY <4>1, FS_AddElement
      <4>3. Matches(u)' = M \cup {k}
        BY <3>1 DEF M
      <4>4. Cardinality(M \cup {k}) \in Nat /\ Cardinality(M \cup {k}) <= Cardinality(M) + 1
        BY <4>1, <4>2
      <4> QED
        BY <4>3, <4>4 DEF M
    <3>3. Waiting(u) = 1 /\ Waiting(u)' = 0
      <4>1. queue'[u] = "none" /\ queue[u] # "none"
        BY <2>4, <2>5 DEF IInv, TypeOK
      <4> QED
        BY <4>1 DEF Waiting
    <3> QED
      BY <1>0, <2>4, <3>2, <3>3
  <2>6. CASE u \notin {v, c}
    <3>1. Matches(u)' = Matches(u)
      BY <2>2, <2>3, <2>6 DEF Matches, In
    <3>2. Waiting(u)' = Waiting(u)
      BY <2>4, <2>6 DEF Waiting, IInv, TypeOK
    <3> QED
      BY <1>0, <2>4, <3>1, <3>2
  <2> QED
    BY <2>5, <2>6
<1>2. CASE ~\E p \in Proc, c \in User : Pair(p, c)
  <2>1. RowsFine
    BY NextCases, ReadsGood, WritesGood, OpenGood, EventRows DEF Good
  <2>2. UNCHANGED created
    <3>1. ASSUME NEW p \in Proc, Reads(p) \/ OpenConversation(p) PROVE UNCHANGED created
      BY <3>1, ReadsSame, ZenonT(30) DEF OpenConversation
    <3>2. ASSUME NEW p \in Proc, Writes(p), ~\E c \in User : Pair(p, c) PROVE UNCHANGED created
      BY <3>2 DEF Writes, Decline, Expire, SetFlag, Refuse, ClaimAccept, Rollback, Publish,
                  EndClaim, CloseConversation
    <3>3. CASE Event
      BY <3>3 DEF Event, SweepQueue, Clock, EntryExpires, DeadlinePasses, WindowCloses, LoseEligibility
    <3> QED
      BY <1>2, <3>1, <3>2, <3>3, NextCases
  <2>3. Matches(u)' = Matches(u)
    BY <2>1, <2>2, MatchesStay
  <2>4. \/ joins'[u] = joins[u] /\ (queue[u] = "none" => queue'[u] = "none")
        \/ joins'[u] = joins[u] + 1
    BY <1>2, EntryStep DEF IInv
  <2>5. Waiting(u)' <= Waiting(u) + (joins'[u] - joins[u])
    BY <1>0, <2>4 DEF Waiting
  <2> QED
    BY <1>0, <2>3, <2>5
<1> QED
  BY <1>1, <1>2

(* claimPair: a queue entry is paired at most once, however many searches   *)
(* see it.                                                                  *)
THEOREM EntryPairedOnce == Spec => []EntryUsedOnce
<1>1. UsedInv <=> EntryUsedOnce
  BY DEF UsedInv, EntryUsedOnce, Matches, Waiting
<1>2. Init => UsedInv
  <2> SUFFICES ASSUME Init, NEW u \in User PROVE Cardinality(Matches(u)) + Waiting(u) <= joins[u]
    BY DEF UsedInv
  <2>1. NoSession.st = "none"
    BY DEF NoSession
  <2>2. Matches(u) = {}
    BY <2>1 DEF Init, Matches
  <2>3. Cardinality(Matches(u)) = 0
    BY <2>2, FS_EmptySet
  <2> QED
    BY <2>3 DEF Init, Waiting
<1>3. IInv /\ UsedInv /\ [Next]_vars => UsedInv'
  <2>1. CASE UNCHANGED vars
    BY <2>1 DEF vars, UsedInv, Matches, Waiting, In
  <2>2. ASSUME IInv, UsedInv, Next PROVE UsedInv'
    BY <2>2, UsedStep DEF UsedInv
  <2> QED
    BY <2>1, <2>2
<1> QED
  BY <1>1, <1>2, <1>3, Invariance, PTL DEF Spec

-----------------------------------------------------------------------------
(* Every match keeps to its life.                                           *)

(* A search looks for somebody else, and only the two people are asked.     *)
Started(p) == /\ proc[p].pc = "pair" => proc[p].u \notin proc[p].cand
              /\ proc[p].pc = "flag" => In(proc[p].u, proc[p].m)

PairInv == \A p \in Proc : Started(p)

Elsewhere(p) == proc'[p].pc \notin {"pair", "flag"}

LEMMA MovesElsewhere ==
    ASSUME TypeOK, NEW p \in Proc,
           \/ Become(p, Idle) \/ Continue(p)
           \/ \E c \in PC \ {"pair", "flag"} : Goto(p, c)
           \/ \E todo \in {<<x>> : x \in User} \cup (User \X User) : Requeue(p, todo)
    PROVE  Elsewhere(p)
<1>1. ASSUME NEW c \in PC \ {"pair", "flag"}, Goto(p, c) PROVE Elsewhere(p)
  <2>1. proc'[p] = [proc[p] EXCEPT !.pc = c]
    BY <1>1, MoveType
  <2> QED
    BY <2>1 DEF TypeOK, ProcState, Elsewhere
<1>2. CASE Become(p, Idle)
  BY <1>2, IdleType, MoveType DEF Become, Elsewhere
<1>3. CASE Continue(p)
  BY <1>3, ContinueType, IdleType DEF Elsewhere
<1>4. ASSUME NEW todo \in {<<x>> : x \in User} \cup (User \X User), Requeue(p, todo)
      PROVE  Elsewhere(p)
  BY <1>4, RequeueType DEF Elsewhere
<1> QED
  BY <1>1, <1>2, <1>3, <1>4

LEMMA BecomeElsewhere ==
    ASSUME TypeOK, NEW p \in Proc, NEW s, Become(p, s), s.pc \notin {"pair", "flag"}
    PROVE  Elsewhere(p)
  BY DEF TypeOK, Become, Elsewhere

LEMMA AskElsewhere ==
    ASSUME TypeOK, NEW p \in Proc,
           \/ \E u \in User : \/ Join(p, u) \/ Cancel(p, u) \/ \E m \in Mid : Leave(p, u, m)
           \/ \E m \in Mid : SweepSession(p, m) \/ SweepChat(p, m)
           \/ Crash(p) \/ RemoveEntry(p)
    PROVE  Elsewhere(p)
<1> USE DEF Idle
<1>1. ASSUME NEW u \in User, Join(p, u) PROVE Elsewhere(p)
  BY <1>1, BecomeElsewhere DEF Join
<1>2. ASSUME NEW u \in User, Cancel(p, u) PROVE Elsewhere(p)
  BY <1>2, BecomeElsewhere DEF Cancel
<1>3. ASSUME NEW u \in User, NEW m \in Mid, Leave(p, u, m) PROVE Elsewhere(p)
  BY <1>3, BecomeElsewhere DEF Leave
<1>4. ASSUME NEW m \in Mid, SweepSession(p, m) PROVE Elsewhere(p)
  BY <1>4, BecomeElsewhere DEF SweepSession
<1>5. ASSUME NEW m \in Mid, SweepChat(p, m) PROVE Elsewhere(p)
  BY <1>5, BecomeElsewhere DEF SweepChat
<1>6. CASE Crash(p) \/ RemoveEntry(p)
  BY <1>6, BecomeElsewhere DEF Crash, RemoveEntry
<1> QED
  BY <1>1, <1>2, <1>3, <1>4, <1>5, <1>6

LEMMA ReadElsewhere ==
    ASSUME IInv, NEW p \in Proc,
           \/ AcquireLock(p) \/ CheckEligible(p) \/ CheckPending(p) \/ CheckChat(p) \/ Upsert(p)
           \/ StatementFails(p)
           \/ Reread(p) \/ Vouch(p) \/ LiveElsewhere(p) \/ ReadEnded(p)
    PROVE  Elsewhere(p)
<1> DEFINE C == {"cancel", "eligible", "pending", "chat", "upsert", "try", "vouch",
                 "liveElsewhere", "refuse", "claim", "close"}
<1>0. C \subseteq PC \ {"pair", "flag"} /\ TypeOK
  BY DEF PC, IInv
<1>1. CASE Become(p, Idle) \/ Continue(p) \/ \E c \in C : Goto(p, c)
  BY <1>0, <1>1, MovesElsewhere
<1>2. CASE CheckChat(p)
  <2> DEFINE s == [proc[p] EXCEPT !.pc = "endClaim", !.m = Latest(ActiveChats(proc[p].u)),
                                  !.why = "lazy"]
  <2>1. \/ Continue(p) \/ Goto(p, "upsert")
        \/ proc' = [proc EXCEPT ![p].pc = "endClaim", ![p].m = Latest(ActiveChats(proc[p].u)),
                                ![p].why = "lazy"]
    BY <1>2 DEF CheckChat
  <2>2. proc[p] \in ProcState
    BY <1>0 DEF TypeOK
  <2>3. s.pc = "endClaim"
    BY <2>2 DEF ProcState
  <2>4. CASE Become(p, s)
    BY <1>0, <2>3, <2>4, BecomeElsewhere
  <2> QED
    BY <1>1, <2>1, <2>4 DEF Become
<1>3. CASE AcquireLock(p) \/ CheckEligible(p) \/ CheckPending(p) \/ Upsert(p) \/ StatementFails(p)
  BY <1>1, <1>3 DEF AcquireLock, CheckEligible, CheckPending, Upsert, StatementFails
<1>4. CASE Reread(p) \/ ReadEnded(p)
  BY <1>1, <1>4 DEF Reread, ReadEnded, EndStep
<1>5. CASE Vouch(p)
  <2>1. Goto(p, "liveElsewhere") \/ Goto(p, "refuse")
    BY <1>5 DEF Vouch, Goto
  <2> QED
    BY <1>1, <2>1
<1>6. CASE LiveElsewhere(p)
  <2>1. Goto(p, "claim") \/ Goto(p, "refuse")
    BY <1>6 DEF LiveElsewhere, Goto
  <2> QED
    BY <1>1, <2>1
<1> QED
  BY <1>2, <1>3, <1>4, <1>5, <1>6

LEMMA WriteElsewhere ==
    ASSUME IInv, NEW p \in Proc, Writes(p) \/ OpenConversation(p)
    PROVE  Elsewhere(p)
<1>0. {"reread", "open", "publish", "rollback", "readEnded", "upsert"} \subseteq PC \ {"pair", "flag"}
      /\ TypeOK
  BY DEF PC, IInv
<1>1. CASE Become(p, Idle) \/ Continue(p)
           \/ \E c \in {"reread", "open", "publish", "rollback", "readEnded", "upsert"} : Goto(p, c)
  BY <1>0, <1>1, MovesElsewhere
<1>2. CASE Decline(p) \/ Expire(p)
  <2>1. /\ sess[proc[p].m].a \in User /\ sess[proc[p].m].b \in User
    BY <1>2, MatchRow DEF Decline, Expire, MatchPC
  <2>2. Other(proc[p].u, proc[p].m) \in User
    BY <2>1 DEF Other
  <2>3. \/ Become(p, Idle)
        \/ \E todo \in {<<x>> : x \in User} \cup (User \X User) : Requeue(p, todo)
    BY <1>2, <2>1, <2>2 DEF Decline, Expire
  <2> QED
    BY <1>0, <2>3, MovesElsewhere
<1>3. CASE OpenConversation(p)
  BY <1>1, <1>3 DEF OpenConversation
<1>4. CASE EndClaim(p) \/ CloseConversation(p)
  BY <1>1, <1>4 DEF EndClaim, CloseConversation, EndStep
<1>5. CASE SetFlag(p) \/ Refuse(p) \/ ClaimAccept(p) \/ Rollback(p) \/ Publish(p)
           \/ \E c \in User : Pair(p, c)
  BY <1>1, <1>5 DEF SetFlag, Refuse, ClaimAccept, Rollback, Publish, Pair
<1> QED
  BY <1>2, <1>3, <1>4, <1>5 DEF Writes

(* A search and an answer begin in the way PairInv says.                    *)
LEMMA StartsRight ==
    ASSUME IInv, PairInv, NEW p \in Proc,
           \/ FindCandidates(p)
           \/ \E u \in User : PairLost(p, u) \/ \E m \in Mid : Respond(p, u, m)
    PROVE  Started(p)'
<1>0. /\ proc \in [Proc -> ProcState] /\ proc[p] \in ProcState /\ TypeOK
      /\ sess' = sess
  BY DEF IInv, TypeOK, FindCandidates, PairLost, Respond
<1>1. CASE Continue(p)
  BY <1>0, <1>1, MovesElsewhere DEF Elsewhere, Started
<1>2. ASSUME NEW u \in User, NEW m \in Mid, Respond(p, u, m)
      PROVE  Started(p)'
  <2>1. PICK c \in {"expire", "flag", "decline"} :
             proc' = [proc EXCEPT ![p] = [Idle EXCEPT !.pc = c, !.u = u, !.m = m]] /\ In(u, m)
    BY <1>2 DEF Respond, Become
  <2>2. proc'[p].pc = c /\ proc'[p].u = u /\ proc'[p].m = m
    BY <1>0, <2>1 DEF Idle
  <2> QED
    BY <1>0, <2>1, <2>2 DEF Started, In
<1>3. ASSUME NEW C, proc[p].u \notin C, proc[p].pc = "pair" \/ FindCandidates(p),
             proc' = [proc EXCEPT ![p] = [proc[p] EXCEPT !.pc = "pair", !.cand = C]]
      PROVE  Started(p)'
  BY <1>0, <1>3 DEF ProcState, Started
<1>4. CASE FindCandidates(p)
  <2>1. CASE ~Continue(p)
    <3>1. PICK C \in SUBSET {c \in User \ {proc[p].u} : queue[c] = "live" /\ eligible[c]} :
                proc' = [proc EXCEPT ![p].pc = "pair", ![p].cand = C]
      BY <1>4, <2>1 DEF FindCandidates
    <3>2. proc' = [proc EXCEPT ![p] = [proc[p] EXCEPT !.pc = "pair", !.cand = C]]
      BY <1>0, <3>1
    <3> QED
      BY <1>3, <1>4, <3>1, <3>2
  <2> QED
    BY <1>1, <2>1
<1>5. ASSUME NEW u \in User, PairLost(p, u)
      PROVE  Started(p)'
  <2>1. proc[p].pc = "pair" /\ proc[p].u \notin proc[p].cand
    BY <1>5 DEF PairLost, PairInv, Started
  <2>2. CASE proc' = [proc EXCEPT ![p].cand = @ \ {u}]
    BY <1>0, <2>1, <2>2 DEF ProcState, Started
  <2> QED
    BY <1>1, <1>5, <2>2 DEF PairLost
<1> QED
  BY <1>2, <1>4, <1>5

LEMMA PairStep == ASSUME IInv, PairInv, Next PROVE PairInv'
<1>1. RowsFine
  BY NextCases, ReadsGood, WritesGood, OpenGood, EventRows DEF Good
<1>2. ASSUME NEW q \in Proc, proc'[q] = proc[q]
      PROVE  Started(q)'
  <2>1. /\ proc[q].pc = "flag" => proc[q].m \in Mid /\ sess[proc[q].m].st # "none"
        /\ Started(q)
    BY DEF IInv, HandlerInv, HandlerOK, MatchPC, PairInv
  <2> QED
    BY <1>1, <1>2, <2>1 DEF Started, RowsFine, Kept, In
<1>3. ASSUME NEW p \in Proc, Reads(p) \/ Writes(p) \/ OpenConversation(p) PROVE PairInv'
  <2>1. \A q \in Proc \ {p} : proc'[q] = proc[q]
    BY <1>3, ReadsGood, WritesGood, OpenGood DEF Good, Alone
  <2>2. CASE Elsewhere(p)
    <3>1. Started(p)'
      BY <2>2 DEF Elsewhere, Started
    <3> QED
      BY <1>2, <2>1, <3>1 DEF PairInv
  <2>3. CASE FindCandidates(p) \/ \E u \in User : PairLost(p, u) \/ \E m \in Mid : Respond(p, u, m)
    BY <1>2, <2>1, <2>3, StartsRight DEF PairInv
  <2> QED
    BY <1>3, <2>2, <2>3, AskElsewhere, ReadElsewhere, WriteElsewhere DEF Reads, IInv
<1>4. CASE Event
  <2>1. proc' = proc
    BY <1>4 DEF Event, SweepQueue, Clock, EntryExpires, DeadlinePasses, WindowCloses, LoseEligibility
  <2> QED
    BY <1>2, <2>1 DEF PairInv
<1> QED
  BY <1>3, <1>4, NextCases

Lives == [m \in Mid |-> LifeOf(m)]

(* PhaseOf and LifeOf, of a row.                                            *)
RowPhase(r) ==
    IF r.st # "ACCEPTED" THEN r.st
    ELSE CASE r.conv = "none"   -> "agreed"
           [] r.conv = "open"   -> IF r.chat = "ACTIVE" THEN "talking" ELSE "over"
           [] r.conv = "closed" -> "closed"

RowLife(r) == [phase |-> RowPhase(r),
               pair  |-> IF r.st = "none" THEN {} ELSE {r.a, r.b},
               yes   |-> r.yes]

LEMMA LifeOfRow == \A m \in Mid : LifeOf(m) = RowLife(sess[m]) /\ LifeOf(m)' = RowLife(sess'[m])
  BY DEF LifeOf, PhaseOf, RowLife, RowPhase

(* A step that changes one row changes one life.                            *)
LEMMA LifeChange ==
    ASSUME TypeOK, NEW m \in Mid, NEW r, sess' = [sess EXCEPT ![m] = r]
    PROVE  /\ Lives' = [Lives EXCEPT ![m] = RowLife(r)]
           /\ Lives[m] = RowLife(sess[m])
<1>1. sess'[m] = r /\ \A n \in Mid \ {m} : sess'[n] = sess[n]
  BY DEF TypeOK
<1>2. Lives = [n \in Mid |-> RowLife(sess[n])] /\ Lives' = [n \in Mid |-> RowLife(sess'[n])]
  BY LifeOfRow DEF Lives
<1> QED
  BY <1>1, <1>2

LEMMA LifeStays ==
    ASSUME TypeOK, NEW m \in Mid, NEW r, sess' = [sess EXCEPT ![m] = r],
           RowLife(r) = RowLife(sess[m])
    PROVE  UNCHANGED Lives
<1>1. Lives' = [Lives EXCEPT ![m] = Lives[m]]
  BY LifeChange
<1> QED
  BY <1>1 DEF Lives

LEMMA SetPhase ==
    ASSUME NEW f, NEW g, NEW m, NEW ph, g = [f EXCEPT ![m] = [f[m] EXCEPT !.phase = ph]]
    PROVE  g = [f EXCEPT ![m].phase = ph]
  OBVIOUS

LEMMA LifeTurns ==
    ASSUME TypeOK, NEW m \in Mid, NEW r, sess' = [sess EXCEPT ![m] = r], NEW ph,
           RowLife(r) = [RowLife(sess[m]) EXCEPT !.phase = ph]
    PROVE  Life!Turn(m, ph) /\ Life!Phase(m) = RowPhase(sess[m])
<1>1. Lives' = [Lives EXCEPT ![m] = [Lives[m] EXCEPT !.phase = ph]]
  BY LifeChange
<1>2. Lives' = [Lives EXCEPT ![m].phase = ph]
  BY <1>1, SetPhase
<1>3. Lives[m].phase = RowPhase(sess[m])
  <2>1. Lives[m] = RowLife(sess[m])
    BY LifeChange
  <2>2. RowLife(sess[m]).phase = RowPhase(sess[m])
    BY DEF RowLife
  <2> QED
    BY <2>1, <2>2
<1>4. Life!Turn(m, ph)
  BY <1>2 DEF Life!Turn, Lives
<1>5. Life!Phase(m) = RowPhase(sess[m])
  BY <1>3 DEF Life!Phase, Lives
<1> QED
  BY <1>4, <1>5

(* Every step is a step of the life of one match, or of none.               *)
LEMMA WriteLife == ASSUME IInv, PairInv, NEW p \in Proc, Writes(p)
                   PROVE  Life!Next \/ UNCHANGED Lives
<1> DEFINE k == proc[p].m
<1>0. TypeOK
  BY DEF IInv
<1>1. CASE sess' = sess
  BY <1>1, LifeOfRow DEF Lives
<1>2. ASSUME NEW c \in User, Pair(p, c) PROVE Life!Next
  <2>a. PICK n \in Mid : n = created + 1
    BY <1>2, FreshRow DEF Pair
  <2> DEFINE v == proc[p].u
             r == [NoSession EXCEPT !.st = "PENDING", !.a = v, !.b = c]
  <2>1. sess' = [sess EXCEPT ![n] = r] /\ sess[n] = NoSession /\ v # c /\ v \in User
    BY <1>2, <2>a, FreshRow DEF Pair, PairInv, Started, IInv, HandlerInv, HandlerOK, UserPC
  <2>2. RowLife(r) = [phase |-> "PENDING", pair |-> {v, c}, yes |-> {}]
    BY DEF RowLife, RowPhase, NoSession
  <2>3. RowLife(NoSession).phase = "none"
    BY DEF RowLife, RowPhase, NoSession
  <2> HIDE DEF r, v
  <2>4. Lives' = [Lives EXCEPT ![n] = RowLife(r)] /\ Lives[n] = RowLife(NoSession)
    BY <1>0, <2>1, LifeChange
  <2>5. Life!Propose(n, v, c)
    BY <2>1, <2>2, <2>3, <2>4 DEF Life!Propose, Life!Phase, Lives
  <2> QED
    BY <2>1, <2>5 DEF Life!Next
<1>3. ASSUME proc[p].pc \in MatchPC
      PROVE  /\ k \in Mid /\ sess[k] \in Session /\ sess[k].st # "none"
             /\ sess[k].st \in {"PENDING", "DECLINED", "EXPIRED"} => sess[k].conv = "none"
             /\ sess[k].conv # "none" => sess[k].st = "ACCEPTED"
  BY <1>3, MatchRow DEF RowOK, Session
<1>4. ASSUME NEW st, sess' = [sess EXCEPT ![k].st = st], sess[k] \in Session, k \in Mid,
             sess[k].st # "none", st # "none", sess[k].conv = "none", NEW ph,
             ph = IF st = "ACCEPTED" THEN "agreed" ELSE st
      PROVE  /\ Life!Turn(k, ph)
             /\ Life!Phase(k) = IF sess[k].st = "ACCEPTED" THEN "agreed" ELSE sess[k].st
             /\ Lives[k] = RowLife(sess[k])
  <2> DEFINE r == [sess[k] EXCEPT !.st = st]
  <2>1. sess' = [sess EXCEPT ![k] = r]
    BY <1>4
  <2>2. RowLife(r) = [RowLife(sess[k]) EXCEPT !.phase = ph]
    BY <1>4 DEF RowLife, RowPhase, Session
  <2>3. RowPhase(sess[k]) = IF sess[k].st = "ACCEPTED" THEN "agreed" ELSE sess[k].st
    BY <1>4 DEF RowPhase, Session
  <2>4. k \in Mid
    BY <1>4
  <2> HIDE DEF r, k
  <2>5. Life!Turn(k, ph) /\ Life!Phase(k) = RowPhase(sess[k])
    BY <1>0, <2>1, <2>2, <2>4, LifeTurns
  <2>6. Lives[k] = RowLife(sess[k])
    BY <1>0, <2>1, <2>4, LifeChange
  <2> QED
    BY <2>3, <2>5, <2>6
<1>5. CASE Decline(p) \/ Expire(p) \/ Refuse(p)
  <2>1. proc[p].pc \in MatchPC
    BY <1>5 DEF Decline, Expire, Refuse, MatchPC
  <2>2. \/ sess' = sess
        \/ /\ sess[k].st = "PENDING"
           /\ \E st \in {"DECLINED", "EXPIRED"} : sess' = [sess EXCEPT ![k].st = st]
    BY <1>5 DEF Decline, Expire, Refuse, IsStill
  <2>3. ASSUME NEW st \in {"DECLINED", "EXPIRED"}, sess' = [sess EXCEPT ![k].st = st],
               sess[k].st = "PENDING"
        PROVE  Life!Next
    <3>1. Life!Turn(k, st) /\ Life!Phase(k) = "PENDING"
      BY <1>3, <1>4, <2>1, <2>3
    <3> QED
      BY <1>3, <2>1, <3>1 DEF Life!Next, Life!Resolve
  <2> QED
    BY <1>1, <2>2, <2>3
<1>6. CASE ClaimAccept(p)
  <2>1. proc[p].pc \in MatchPC /\ Agreed(k)
    BY <1>6 DEF ClaimAccept, MatchPC, AgreedPC, IInv, HandlerInv, HandlerOK
  <2>2. sess' = sess \/ (sess[k].st = "PENDING" /\ sess' = [sess EXCEPT ![k].st = "ACCEPTED"])
    BY <1>6 DEF ClaimAccept, IsStill
  <2>3. CASE sess[k].st = "PENDING" /\ sess' = [sess EXCEPT ![k].st = "ACCEPTED"]
    <3>1. /\ Life!Turn(k, "agreed") /\ Life!Phase(k) = "PENDING"
          /\ Lives[k] = RowLife(sess[k])
      BY <1>3, <1>4, <2>1, <2>3
    <3>2. RowLife(sess[k]).pair \subseteq RowLife(sess[k]).yes
      BY <2>1, <2>3 DEF RowLife, Agreed
    <3>3. Life!Agree(k)
      BY <3>1, <3>2 DEF Life!Agree, Lives
    <3> QED
      BY <1>3, <2>1, <3>3 DEF Life!Next
  <2> QED
    BY <1>1, <2>2, <2>3
<1>7. CASE Rollback(p)
  <2>1. proc[p].pc \in MatchPC /\ Owned(k)
    BY <1>7, OwnedRow DEF Rollback, MatchPC, OwnerPC
  <2>2. sess' = [sess EXCEPT ![k].st = "PENDING"]
    BY <1>7, <2>1 DEF Rollback, IsStill, Owned
  <2>3. Life!Turn(k, "PENDING") /\ Life!Phase(k) = "agreed"
    BY <1>3, <1>4, <2>1, <2>2 DEF Owned
  <2> QED
    BY <1>3, <2>1, <2>3 DEF Life!Next, Life!Retract
<1>8. CASE SetFlag(p)
  <2> DEFINE r == [sess[k] EXCEPT !.yes = @ \cup {proc[p].u}]
  <2>1. /\ k \in Mid /\ sess[k] \in Session /\ proc[p].u \in User /\ In(proc[p].u, k)
    BY <1>3, <1>8 DEF SetFlag, MatchPC, UserPC, IInv, HandlerInv, HandlerOK, PairInv, Started
  <2>2. \/ sess' = sess
        \/ sess[k].st = "PENDING" /\ sess' = [sess EXCEPT ![k].yes = @ \cup {proc[p].u}]
    BY <1>8 DEF SetFlag, IsStill
  <2>3. CASE sess[k].st = "PENDING" /\ sess' = [sess EXCEPT ![k].yes = @ \cup {proc[p].u}]
    <3>1. sess' = [sess EXCEPT ![k] = r]
      BY <2>3
    <3>2. /\ RowLife(r) = [RowLife(sess[k]) EXCEPT !.yes = @ \cup {proc[p].u}]
          /\ RowLife(sess[k]).phase = "PENDING"
          /\ proc[p].u \in RowLife(sess[k]).pair
      <4> DEFINE q == sess[k]
                 u == proc[p].u
      <4>1. q \in Session /\ q.st = "PENDING" /\ u \in {q.a, q.b}
        BY <2>1, <2>3 DEF In
      <4> HIDE DEF q, u
      <4>2. /\ RowLife([q EXCEPT !.yes = @ \cup {u}]) = [RowLife(q) EXCEPT !.yes = @ \cup {u}]
            /\ RowLife(q).phase = "PENDING"
            /\ u \in RowLife(q).pair
        BY <4>1 DEF RowLife, RowPhase, Session
      <4> QED
        BY <4>2 DEF q, u
    <3> HIDE DEF r, k
    <3>3. Lives' = [Lives EXCEPT ![k] = RowLife(r)] /\ Lives[k] = RowLife(sess[k])
      BY <1>0, <2>1, <3>1, LifeChange
    <3>4. Life!SayYes(k, proc[p].u)
      BY <3>2, <3>3 DEF Life!SayYes, Life!Phase, Lives
    <3> QED
      BY <2>1, <3>4 DEF Life!Next
  <2> QED
    BY <1>1, <2>2, <2>3
<1>9. CASE Publish(p)
  <2> DEFINE r == [sess[k] EXCEPT !.conv = "open", !.chat = "ACTIVE", !.window = "open"]
  <2>1. Owned(k) /\ k \in Mid /\ sess[k] \in Session
    BY <1>9, OwnedRow DEF Publish, OwnerPC
  <2>2. \/ sess' = sess
        \/ sess' = [sess EXCEPT ![k].conv = "open", ![k].chat = "ACTIVE", ![k].window = "open"]
    BY <1>9 DEF Publish
  <2>3. sess' = sess \/ sess' = [sess EXCEPT ![k] = r]
    <3>1. sess \in [Mid -> Session]
      BY <1>0 DEF TypeOK
    <3> HIDE DEF k
    <3> QED
      BY <2>1, <2>2, <3>1
  <2>4. /\ RowLife(r) = [RowLife(sess[k]) EXCEPT !.phase = "talking"]
        /\ RowPhase(sess[k]) = "agreed"
    BY <2>1 DEF RowLife, RowPhase, Session, Owned
  <2> HIDE DEF r, k
  <2>5. CASE sess' = [sess EXCEPT ![k] = r]
    <3>1. Life!Turn(k, "talking") /\ Life!Phase(k) = "agreed"
      BY <1>0, <2>1, <2>4, <2>5, LifeTurns
    <3> QED
      BY <2>1, <3>1 DEF Life!Next, Life!Talk
  <2> QED
    BY <1>1, <2>3, <2>5
<1>10. CASE EndClaim(p)
  <2> DEFINE r == [sess[k] EXCEPT !.chat = EndStatus(proc[p].why)]
  <2>1. k \in Mid /\ sess[k] \in Session
    BY <1>3, <1>10 DEF EndClaim, MatchPC
  <2>2. sess' = sess \/ (sess[k].chat = "ACTIVE" /\ sess' = [sess EXCEPT ![k] = r])
    BY <1>10 DEF EndClaim, StillActive
  <2>3. r.st = sess[k].st /\ r.conv = sess[k].conv /\ r.chat # "ACTIVE"
        /\ r.a = sess[k].a /\ r.b = sess[k].b /\ r.yes = sess[k].yes
    BY <2>1 DEF Session, EndStatus
  <2> HIDE DEF r, k
  <2>4. CASE sess[k].chat = "ACTIVE" /\ sess' = [sess EXCEPT ![k] = r]
    <3>1. CASE sess[k].st = "ACCEPTED" /\ sess[k].conv = "open"
      <4>1. /\ RowLife(r) = [RowLife(sess[k]) EXCEPT !.phase = "over"]
            /\ RowPhase(sess[k]) = "talking"
        BY <2>3, <2>4, <3>1 DEF RowLife, RowPhase
      <4>2. Life!Turn(k, "over") /\ Life!Phase(k) = "talking"
        BY <1>0, <2>1, <2>4, <4>1, LifeTurns
      <4> QED
        BY <2>1, <4>2 DEF Life!Next, Life!End
    <3>2. CASE sess[k].st # "ACCEPTED" \/ sess[k].conv \in {"none", "closed"}
      <4>1. RowLife(r) = RowLife(sess[k])
        BY <2>3, <3>2 DEF RowLife, RowPhase
      <4> QED
        BY <1>0, <2>1, <2>4, <4>1, LifeStays
    <3> QED
      BY <2>1, <3>1, <3>2 DEF Session
  <2> QED
    BY <1>1, <2>2, <2>4
<1>11. CASE CloseConversation(p)
  <2> DEFINE r == [sess[k] EXCEPT !.conv = "closed"]
  <2>1. k \in Mid /\ sess[k] \in Session /\ sess[k].st = "ACCEPTED" /\ sess[k].conv # "none"
    BY <1>3, <1>11 DEF CloseConversation, MatchPC, IInv, HandlerInv, HandlerOK
  <2>2. sess' = sess \/ sess' = [sess EXCEPT ![k] = r]
    BY <1>11 DEF CloseConversation
  <2>3. RowLife(r) = [RowLife(sess[k]) EXCEPT !.phase = "closed"]
    BY <2>1 DEF RowLife, RowPhase, Session
  <2>4. /\ RowPhase(sess[k]) \in {"talking", "over", "closed"}
        /\ RowPhase(sess[k]) = "closed" => RowLife(r) = RowLife(sess[k])
    BY <2>1 DEF RowLife, RowPhase, Session
  <2> HIDE DEF r, k
  <2>5. CASE sess' = [sess EXCEPT ![k] = r]
    <3>1. Life!Turn(k, "closed") /\ Life!Phase(k) = RowPhase(sess[k])
      BY <1>0, <2>1, <2>3, <2>5, LifeTurns
    <3>2. CASE RowPhase(sess[k]) = "closed"
      BY <1>0, <2>1, <2>4, <2>5, <3>2, LifeStays
    <3>3. CASE RowPhase(sess[k]) # "closed"
      BY <2>1, <2>4, <3>1, <3>3 DEF Life!Next, Life!Close
    <3> QED
      BY <3>2, <3>3
  <2> QED
    BY <1>1, <2>2, <2>5
<1> QED
  BY <1>2, <1>5, <1>6, <1>7, <1>8, <1>9, <1>10, <1>11 DEF Writes

LEMMA EventLife == ASSUME IInv, Event PROVE UNCHANGED Lives
<1>0. TypeOK
  BY DEF IInv
<1>1. CASE sess' = sess
  BY <1>1, LifeOfRow DEF Lives
<1>2. ASSUME NEW n \in Mid, NEW r, sess' = [sess EXCEPT ![n] = r],
             r = [sess[n] EXCEPT !.late = TRUE] \/ r = [sess[n] EXCEPT !.window = "past"]
      PROVE  UNCHANGED Lives
  <2>1. sess[n] \in Session
    BY <1>0 DEF TypeOK
  <2>2. RowLife(r) = RowLife(sess[n])
    BY <1>2, <2>1 DEF RowLife, RowPhase, Session
  <2> QED
    BY <1>0, <1>2, <2>2, LifeStays
<1>3. ASSUME NEW n \in Mid, DeadlinePasses(n) \/ WindowCloses(n) PROVE UNCHANGED Lives
  <2>1. \/ sess' = [sess EXCEPT ![n] = [sess[n] EXCEPT !.late = TRUE]]
        \/ sess' = [sess EXCEPT ![n] = [sess[n] EXCEPT !.window = "past"]]
    BY <1>3 DEF DeadlinePasses, WindowCloses
  <2> QED
    BY <1>2, <2>1
<1> QED
  BY <1>1, <1>3 DEF Event, Clock, SweepQueue, EntryExpires, LoseEligibility

(* The life of a match, as MatchLife tells it, is what searches, answers,   *)
(* retries, the sweeps and crashes of the code come to.                     *)
THEOREM LifeKept == Spec => KeepsToLife
<1>1. Init => Life!Init /\ PairInv
  <2> SUFFICES ASSUME Init PROVE Life!Init /\ PairInv
    OBVIOUS
  <2>1. PairInv
    BY DEF Init, PairInv, Started, Idle
  <2>2. \A m \in Mid : LifeOf(m) = Life!Unmatched
    BY DEF Init, LifeOf, PhaseOf, NoSession, Life!Unmatched
  <2> QED
    BY <2>1, <2>2 DEF Life!Init
<1>2. IInv /\ PairInv /\ [Next]_vars => PairInv' /\ [Life!Next]_[m \in Mid |-> LifeOf(m)]
  <2> SUFFICES ASSUME IInv, PairInv, [Next]_vars PROVE PairInv' /\ (Life!Next \/ UNCHANGED Lives)
    BY DEF Lives
  <2>1. CASE UNCHANGED vars
    BY <2>1, LifeOfRow DEF vars, PairInv, Started, In, Lives
  <2>2. ASSUME NEW p \in Proc, Reads(p) \/ OpenConversation(p) PROVE UNCHANGED Lives
    <3>1. sess' = sess
      BY <2>2, ReadsSame DEF OpenConversation
    <3> QED
      BY <3>1, LifeOfRow DEF Lives
  <2>3. CASE Next
    BY <2>2, <2>3, PairStep, WriteLife, EventLife, NextCases
  <2> QED
    BY <2>1, <2>3
<1> QED
  BY <1>1, <1>2, Invariance, PTL DEF Spec, KeepsToLife, Life!Spec, Lives
=============================================================================
