----------------------------- MODULE InstantMatch -----------------------------
(***************************************************************************)
(* Instant Match of Meetifyy: the queue, pairing, the accept handshake and *)
(* the 24h chat (backend/src/instant-match/instant-match.service.ts).      *)
(*                                                                         *)
(* The two tables are MatchQueueEntry and MatchSession.  Socket handlers   *)
(* and the sweep are processes; every awaited statement is one action, a   *)
(* $transaction is one action.  A user's queue changes run under           *)
(* withUserLock; pairing, responding and ending a chat take no lock and    *)
(* rely on conditional updates.                                            *)
(***************************************************************************)
EXTENDS Naturals, Sequences, FiniteSets

CONSTANTS
    User,
    Proc,          \* handlers and sweeps that run at the same time
    MaxSessions,   \* bound: match sessions ever created
    MaxJoins,      \* bound: queue entries ever created for one user
    None,
    Failures       \* which of "conversation", "publish", "close", "queue", "crash" happen

ASSUME SessionsAssumption == MaxSessions \in Nat
ASSUME JoinsAssumption    == MaxJoins \in Nat
ASSUME NullAssumption     == None \notin User /\ None \notin Proc /\ None \notin Nat

VARIABLES
    queue,         \* MatchQueueEntry: one row per user
    sess,          \* MatchSession, numbered in order of creation
    created,       \* how many sessions were created
    eligible,      \* VerificationAccessService.isUserEligible
    lock,          \* holder of withUserLock, per user
    proc,
    joins,         \* history: queue entries ever written per user
    opened         \* history: conversations ever created per session

vars == <<queue, sess, created, eligible, lock, proc, joins, opened>>

Mid == 1..MaxSessions

-----------------------------------------------------------------------------
(* "late": past expiresAt, the accept deadline.  "conv" is the conversation *)
(* behind conversationId, "window" the chat's own deadline chatExpiresAt.   *)
(* chatStatus is ACTIVE from the moment the row is created.                 *)
Session == [st : {"none", "PENDING", "ACCEPTED", "DECLINED", "EXPIRED"},
            a : User \cup {None}, b : User \cup {None},
            yes : SUBSET User, late : BOOLEAN,
            chat : {"ACTIVE", "ENDED_BY_USER", "EXPIRED"},
            conv : {"none", "open", "closed"}, window : {"null", "open", "past"}]

NoSession == [st |-> "none", a |-> None, b |-> None, yes |-> {}, late |-> FALSE,
              chat |-> "ACTIVE", conv |-> "none", window |-> "null"]

PC == {"idle", "lock", "eligible", "pending", "chat", "upsert", "cancel", "try", "pair",
       "flag", "reread", "vouch", "liveElsewhere", "refuse", "claim", "open", "rollback",
       "publish", "decline", "expire", "endClaim", "readEnded", "close"}

(* u: the user a step is about; m: the session; todo: users to requeue      *)
(* next; cand: candidates of tryMatch; why: what the locked section or the  *)
(* ending of a chat is for.                                                 *)
Idle == [pc |-> "idle", u |-> None, m |-> 0, todo |-> <<>>, cand |-> {}, why |-> "join"]

Why == {"join", "requeue", "cancel", "ENDED_BY_USER", "EXPIRED", "lazy"}

ProcState == [pc : PC, u : User \cup {None}, m : 0..MaxSessions,
              todo : {<<>>} \cup {<<x>> : x \in User} \cup (User \X User),
              cand : SUBSET User, why : Why]

In(u, m)    == u \in {sess[m].a, sess[m].b}
Other(u, m) == IF sess[m].a = u THEN sess[m].b ELSE sess[m].a

(* findPendingSessionFor                                                    *)
HasPending(u) == \E m \in Mid : sess[m].st = "PENDING" /\ ~sess[m].late /\ In(u, m)

(* The rows getActiveChatSession selects, whatever their window.            *)
ActiveChats(u) == {m \in Mid : /\ sess[m].st = "ACCEPTED" /\ sess[m].chat = "ACTIVE"
                               /\ sess[m].conv # "none" /\ In(u, m)}
Latest(M) == CHOOSE m \in M : \A n \in M : n <= m

(* A chat in which both people can write now.                               *)
LiveChat(m) == /\ sess[m].st = "ACCEPTED" /\ sess[m].chat = "ACTIVE"
               /\ sess[m].conv # "none" /\ sess[m].window = "open"

Goto(p, c)    == proc' = [proc EXCEPT ![p].pc = c]
Become(p, s)  == proc' = [proc EXCEPT ![p] = s]
Unlock(u)     == lock' = [lock EXCEPT ![u] = None]

(* The next user of expireSession's loop, or the end of the handler.        *)
Continue(p) ==
    Become(p, IF proc[p].todo = <<>> THEN Idle
              ELSE [Idle EXCEPT !.pc = "lock", !.u = Head(proc[p].todo),
                                !.todo = Tail(proc[p].todo), !.why = "requeue"])

Requeue(p, todo) ==
    Become(p, [Idle EXCEPT !.pc = "lock", !.u = Head(todo), !.todo = Tail(todo), !.why = "requeue"])

-----------------------------------------------------------------------------
Init == /\ queue = [u \in User |-> "none"]
        /\ sess = [m \in Mid |-> NoSession]
        /\ created = 0
        /\ eligible = [u \in User |-> TRUE]
        /\ lock = [u \in User |-> None]
        /\ proc = [p \in Proc |-> Idle]
        /\ joins = [u \in User |-> 0]
        /\ opened = [m \in Mid |-> 0]

-----------------------------------------------------------------------------
(* joinQueue, cancelQueue and requeue: the locked sections.                 *)

Join(p, u) ==
    /\ proc[p].pc = "idle"
    /\ eligible[u]
    /\ joins[u] < MaxJoins
    /\ Become(p, [Idle EXCEPT !.pc = "lock", !.u = u])
    /\ UNCHANGED <<queue, sess, created, eligible, lock, joins, opened>>

Cancel(p, u) ==
    /\ proc[p].pc = "idle"
    /\ queue[u] # "none"
    /\ Become(p, [Idle EXCEPT !.pc = "lock", !.u = u, !.why = "cancel"])
    /\ UNCHANGED <<queue, sess, created, eligible, lock, joins, opened>>

AcquireLock(p) ==
    /\ proc[p].pc = "lock"
    /\ lock[proc[p].u] = None
    /\ lock' = [lock EXCEPT ![proc[p].u] = p]
    /\ Goto(p, CASE proc[p].why = "cancel"  -> "cancel"
                 [] proc[p].why = "requeue" -> "eligible"
                 [] OTHER                   -> "pending")
    /\ UNCHANGED <<queue, sess, created, eligible, joins, opened>>

RemoveEntry(p) ==
    /\ proc[p].pc = "cancel"
    /\ queue' = [queue EXCEPT ![proc[p].u] = "none"]
    /\ Unlock(proc[p].u)
    /\ Become(p, Idle)
    /\ UNCHANGED <<sess, created, eligible, joins, opened>>

(* requeue re-checks eligibility inside the lock.                           *)
CheckEligible(p) ==
    /\ proc[p].pc = "eligible"
    /\ \/ /\ eligible[proc[p].u]
          /\ Goto(p, "pending")
          /\ lock' = lock
       \/ /\ ~eligible[proc[p].u]
          /\ Continue(p)
          /\ Unlock(proc[p].u)
    /\ UNCHANGED <<queue, sess, created, eligible, joins, opened>>

CheckPending(p) ==
    /\ proc[p].pc = "pending"
    /\ \/ /\ ~HasPending(proc[p].u)
          /\ Goto(p, "chat")
          /\ lock' = lock
       \/ /\ HasPending(proc[p].u)
          /\ Continue(p)
          /\ Unlock(proc[p].u)
    /\ UNCHANGED <<queue, sess, created, eligible, joins, opened>>

(* getActiveChatSession, which expires a chat whose window has closed.      *)
CheckChat(p) ==
    /\ proc[p].pc = "chat"
    /\ LET chats == ActiveChats(proc[p].u)
       IN \/ /\ chats = {}
             /\ Goto(p, "upsert")
             /\ lock' = lock
          \/ /\ chats # {}
             /\ sess[Latest(chats)].window = "past"
             /\ proc' = [proc EXCEPT ![p].pc = "endClaim", ![p].m = Latest(chats), ![p].why = "lazy"]
             /\ lock' = lock
          \/ /\ chats # {}
             /\ sess[Latest(chats)].window # "past"
             /\ Continue(p)
             /\ Unlock(proc[p].u)
    /\ UNCHANGED <<queue, sess, created, eligible, joins, opened>>

Upsert(p) ==
    /\ proc[p].pc = "upsert"
    /\ joins[proc[p].u] < MaxJoins
    /\ queue' = [queue EXCEPT ![proc[p].u] = "live"]
    /\ joins' = [joins EXCEPT ![proc[p].u] = @ + 1]
    /\ Unlock(proc[p].u)
    /\ Goto(p, "try")
    /\ UNCHANGED <<sess, created, eligible, opened>>

-----------------------------------------------------------------------------
(* tryMatch and claimPair.                                                  *)

(* Blocks, the rematch cooldown, hard skips and the scan limit can remove   *)
(* any candidate: what is left is any set of live entries of other eligible *)
(* users.                                                                   *)
FindCandidates(p) ==
    /\ proc[p].pc = "try"
    /\ LET u == proc[p].u
           waiting == {c \in User \ {u} : queue[c] = "live" /\ eligible[c]}
       IN \/ \E cand \in SUBSET waiting :
                /\ queue[u] = "live"
                /\ cand # {}
                /\ proc' = [proc EXCEPT ![p].pc = "pair", ![p].cand = cand]
          \/ Continue(p)
    /\ UNCHANGED <<queue, sess, created, eligible, lock, joins, opened>>

(* claimPair's gate: both rows are there and both are deleted.              *)
MutBothQueued(u, c) == queue[c] # "none"
BothQueued(u, c) == queue[u] # "none" /\ queue[c] # "none"

Pair(p, c) ==
    /\ proc[p].pc = "pair"
    /\ c \in proc[p].cand
    /\ created < MaxSessions
    /\ BothQueued(proc[p].u, c)
    /\ queue' = [queue EXCEPT ![proc[p].u] = "none", ![c] = "none"]
    /\ created' = created + 1
    /\ sess' = [sess EXCEPT ![created + 1] = [NoSession EXCEPT !.st = "PENDING",
                                                 !.a = proc[p].u, !.b = c]]
    /\ Continue(p)
    /\ UNCHANGED <<eligible, lock, joins, opened>>

(* Lost the race for this candidate: try the next.                          *)
PairLost(p, c) ==
    /\ proc[p].pc = "pair"
    /\ c \in proc[p].cand
    /\ ~BothQueued(proc[p].u, c)
    /\ IF proc[p].cand = {c}
       THEN Continue(p)
       ELSE proc' = [proc EXCEPT ![p].cand = @ \ {c}]
    /\ UNCHANGED <<queue, sess, created, eligible, lock, joins, opened>>

-----------------------------------------------------------------------------
(* respondToMatch.                                                          *)

Respond(p, u, m) ==
    /\ proc[p].pc = "idle"
    /\ sess[m].st = "PENDING"
    /\ In(u, m)
    /\ \E c \in IF sess[m].late THEN {"expire"} ELSE {"flag", "decline"} :
          Become(p, [Idle EXCEPT !.pc = c, !.u = u, !.m = m])
    /\ UNCHANGED <<queue, sess, created, eligible, lock, joins, opened>>

(* updateMany where { id, status }: the claim of a transition.              *)
MutIsStill(m, st) == sess[m].st # "none"
IsStill(m, st) == sess[m].st = st

Decline(p) ==
    /\ proc[p].pc = "decline"
    /\ LET m == proc[p].m
       IN \/ /\ IsStill(m, "PENDING")
             /\ sess' = [sess EXCEPT ![m].st = "DECLINED"]
             /\ Requeue(p, <<Other(proc[p].u, m)>>)
          \/ /\ ~IsStill(m, "PENDING")
             /\ sess' = sess
             /\ Become(p, Idle)
    /\ UNCHANGED <<queue, created, eligible, lock, joins, opened>>

(* expireSession: both sides go back to the queue.                          *)
Expire(p) ==
    /\ proc[p].pc = "expire"
    /\ LET m == proc[p].m
       IN \/ /\ IsStill(m, "PENDING")
             /\ sess' = [sess EXCEPT ![m].st = "EXPIRED"]
             /\ Requeue(p, <<sess[m].a, sess[m].b>>)
          \/ /\ ~IsStill(m, "PENDING")
             /\ sess' = sess
             /\ Become(p, Idle)
    /\ UNCHANGED <<queue, created, eligible, lock, joins, opened>>

(* acceptSession.                                                           *)
SetFlag(p) ==
    /\ proc[p].pc = "flag"
    /\ LET m == proc[p].m
       IN sess' = IF IsStill(m, "PENDING")
                  THEN [sess EXCEPT ![m].yes = @ \cup {proc[p].u}] ELSE sess
    /\ Goto(p, "reread")
    /\ UNCHANGED <<queue, created, eligible, lock, joins, opened>>

MutBothAccepted(m) == sess[m].yes # {}
BothAccepted(m) == {sess[m].a, sess[m].b} \subseteq sess[m].yes

Reread(p) ==
    /\ proc[p].pc = "reread"
    /\ LET m == proc[p].m
       IN IF sess[m].st = "PENDING" /\ BothAccepted(m)
          THEN Goto(p, "vouch") ELSE Become(p, Idle)
    /\ UNCHANGED <<queue, sess, created, eligible, lock, joins, opened>>

(* getEligibilityMap over both people.                                      *)
Vouch(p) ==
    /\ proc[p].pc = "vouch"
    /\ LET m == proc[p].m
       IN Goto(p, IF eligible[sess[m].a] /\ eligible[sess[m].b] THEN "liveElsewhere" ELSE "refuse")
    /\ UNCHANGED <<queue, sess, created, eligible, lock, joins, opened>>

LiveElsewhere(p) ==
    /\ proc[p].pc = "liveElsewhere"
    /\ LET m == proc[p].m
       IN Goto(p, IF \E n \in Mid \ {m} : LiveChat(n) /\ (In(sess[m].a, n) \/ In(sess[m].b, n))
                  THEN "refuse" ELSE "claim")
    /\ UNCHANGED <<queue, sess, created, eligible, lock, joins, opened>>

(* Both refusals expire the session and requeue nobody.                     *)
Refuse(p) ==
    /\ proc[p].pc = "refuse"
    /\ sess' = IF IsStill(proc[p].m, "PENDING")
               THEN [sess EXCEPT ![proc[p].m].st = "EXPIRED"] ELSE sess
    /\ Become(p, Idle)
    /\ UNCHANGED <<queue, created, eligible, lock, joins, opened>>

ClaimAccept(p) ==
    /\ proc[p].pc = "claim"
    /\ LET m == proc[p].m
       IN \/ /\ IsStill(m, "PENDING")
             /\ sess' = [sess EXCEPT ![m].st = "ACCEPTED"]
             /\ Goto(p, "open")
          \/ /\ ~IsStill(m, "PENDING")
             /\ sess' = sess
             /\ Become(p, Idle)
    /\ UNCHANGED <<queue, created, eligible, lock, joins, opened>>

(* createInstantMatchConversation: a new conversation, or an error.         *)
OpenConversation(p) ==
    /\ proc[p].pc = "open"
    /\ \/ /\ opened' = [opened EXCEPT ![proc[p].m] = @ + 1]
          /\ Goto(p, "publish")
       \/ /\ "conversation" \in Failures
          /\ opened' = opened
          /\ Goto(p, "rollback")
    /\ UNCHANGED <<queue, sess, created, eligible, lock, joins>>

Rollback(p) ==
    /\ proc[p].pc = "rollback"
    /\ sess' = IF IsStill(proc[p].m, "ACCEPTED")
               THEN [sess EXCEPT ![proc[p].m].st = "PENDING"] ELSE sess
    /\ Become(p, Idle)
    /\ UNCHANGED <<queue, created, eligible, lock, joins, opened>>

(* update where { id }: unconditional, and it writes chatStatus.            *)
Publish(p) ==
    /\ proc[p].pc = "publish"
    /\ \/ sess' = [sess EXCEPT ![proc[p].m].conv = "open", ![proc[p].m].chat = "ACTIVE",
                               ![proc[p].m].window = "open"]
       \/ /\ "publish" \in Failures
          /\ sess' = sess
    /\ Become(p, Idle)
    /\ UNCHANGED <<queue, created, eligible, lock, joins, opened>>

-----------------------------------------------------------------------------
(* leaveChatSession and expireChatSession.  A match id names any session of *)
(* the caller: chatStatus is ACTIVE also before there is a chat.            *)

MutStillActive(m) == sess[m].st = "ACCEPTED"
StillActive(m) == sess[m].chat = "ACTIVE"

Leave(p, u, m) ==
    /\ proc[p].pc = "idle"
    /\ sess[m].st # "none"
    /\ In(u, m)
    /\ StillActive(m)
    /\ Become(p, [Idle EXCEPT !.pc = "endClaim", !.u = u, !.m = m, !.why = "ENDED_BY_USER"])
    /\ UNCHANGED <<queue, sess, created, eligible, lock, joins, opened>>

SweepChat(p, m) ==
    /\ proc[p].pc = "idle"
    /\ StillActive(m)
    /\ sess[m].window = "past"
    /\ Become(p, [Idle EXCEPT !.pc = "endClaim", !.m = m, !.why = "EXPIRED"])
    /\ UNCHANGED <<queue, sess, created, eligible, lock, joins, opened>>

EndStep(p) == IF proc[p].why = "lazy" THEN Goto(p, "upsert") ELSE Become(p, Idle)

MutEndStatus(why) == why
EndStatus(why) == IF why = "ENDED_BY_USER" THEN why ELSE "EXPIRED"

EndClaim(p) ==
    /\ proc[p].pc = "endClaim"
    /\ LET m == proc[p].m
       IN \/ /\ StillActive(m)
             /\ sess' = [sess EXCEPT ![m].chat = EndStatus(proc[p].why)]
             /\ Goto(p, "readEnded")
          \/ /\ ~StillActive(m)
             /\ sess' = sess
             /\ EndStep(p)
    /\ UNCHANGED <<queue, created, eligible, lock, joins, opened>>

MutHasConversation(m) == sess[m].conv # "none" /\ sess[m].chat = "ENDED_BY_USER"
HasConversation(m) == sess[m].conv # "none"

(* The row is read again for its conversationId.                            *)
ReadEnded(p) ==
    /\ proc[p].pc = "readEnded"
    /\ IF HasConversation(proc[p].m) THEN Goto(p, "close") ELSE EndStep(p)
    /\ UNCHANGED <<queue, sess, created, eligible, lock, joins, opened>>

(* closeConversation: a transaction whose failure is logged and swallowed.  *)
CloseConversation(p) ==
    /\ proc[p].pc = "close"
    /\ \/ sess' = [sess EXCEPT ![proc[p].m].conv = "closed"]
       \/ /\ "close" \in Failures
          /\ sess' = sess
    /\ EndStep(p)
    /\ UNCHANGED <<queue, created, eligible, lock, joins, opened>>

-----------------------------------------------------------------------------
(* expireStale (the sweep), the clock, verification, and crashes.           *)

MutOverdue(m) == sess[m].st = "PENDING" /\ sess[m].late /\ ~BothAccepted(m)
Overdue(m) == sess[m].st = "PENDING" /\ sess[m].late

SweepSession(p, m) ==
    /\ proc[p].pc = "idle"
    /\ Overdue(m)
    /\ Become(p, [Idle EXCEPT !.pc = "expire", !.m = m])
    /\ UNCHANGED <<queue, sess, created, eligible, lock, joins, opened>>

SweepQueue ==
    /\ \E u \in User : queue[u] = "stale"
    /\ queue' = [u \in User |-> IF queue[u] = "stale" THEN "none" ELSE queue[u]]
    /\ UNCHANGED <<sess, created, eligible, lock, proc, joins, opened>>

EntryExpires(u) ==
    /\ queue[u] = "live"
    /\ queue' = [queue EXCEPT ![u] = "stale"]
    /\ UNCHANGED <<sess, created, eligible, lock, proc, joins, opened>>

(* Only a session that is PENDING, or may be again, looks at its deadline.  *)
DeadlinePasses(m) ==
    /\ sess[m].st = "PENDING" \/ (sess[m].st = "ACCEPTED" /\ sess[m].conv = "none")
    /\ ~sess[m].late
    /\ sess' = [sess EXCEPT ![m].late = TRUE]
    /\ UNCHANGED <<queue, created, eligible, lock, proc, joins, opened>>

WindowCloses(m) ==
    /\ sess[m].window = "open"
    /\ sess' = [sess EXCEPT ![m].window = "past"]
    /\ UNCHANGED <<queue, created, eligible, lock, proc, joins, opened>>

LoseEligibility(u) ==
    /\ eligible[u]
    /\ eligible' = [eligible EXCEPT ![u] = FALSE]
    /\ UNCHANGED <<queue, sess, created, lock, proc, joins, opened>>

(* The handler dies where it is; a lock it held is released by its finally, *)
(* or runs out.                                                             *)
Crash(p) ==
    /\ "crash" \in Failures
    /\ proc[p].pc # "idle"
    /\ lock' = [u \in User |-> IF lock[u] = p THEN None ELSE lock[u]]
    /\ Become(p, Idle)
    /\ UNCHANGED <<queue, sess, created, eligible, joins, opened>>

-----------------------------------------------------------------------------
(* The model's own bounds look like such a failure, so that they never leave *)
(* a handler waiting.                                                       *)
AtBound(p) == \/ proc[p].pc = "upsert" /\ joins[proc[p].u] = MaxJoins
              \/ proc[p].pc = "pair" /\ created = MaxSessions

(* A statement of the queue fails.  Inside the locked section the user just *)
(* is not queued; a failing tryMatch also ends the expireSession around it. *)
StatementFails(p) ==
    /\ "queue" \in Failures \/ AtBound(p)
    /\ \/ /\ proc[p].pc = "upsert"
          /\ Unlock(proc[p].u)
          /\ Continue(p)
       \/ /\ proc[p].pc \in {"try", "pair"}
          /\ lock' = lock
          /\ Become(p, Idle)
    /\ UNCHANGED <<queue, sess, created, eligible, joins, opened>>

-----------------------------------------------------------------------------
(* One step of a handler that is running.                                   *)
Run(p) ==
    \/ AcquireLock(p) \/ RemoveEntry(p) \/ CheckEligible(p) \/ CheckPending(p)
    \/ CheckChat(p) \/ Upsert(p)
    \/ FindCandidates(p)
    \/ \E c \in User : Pair(p, c) \/ PairLost(p, c)
    \/ Decline(p) \/ Expire(p)
    \/ SetFlag(p) \/ Reread(p) \/ Vouch(p) \/ LiveElsewhere(p) \/ Refuse(p)
    \/ ClaimAccept(p) \/ OpenConversation(p) \/ Rollback(p) \/ Publish(p)
    \/ EndClaim(p) \/ ReadEnded(p) \/ CloseConversation(p)

Sweep(p) == \E m \in Mid : SweepSession(p, m) \/ SweepChat(p, m)

Ask(p) ==
    \E u \in User : \/ Join(p, u) \/ Cancel(p, u)
                    \/ \E m \in Mid : Respond(p, u, m) \/ Leave(p, u, m)

Clock == \/ \E u \in User : EntryExpires(u)
         \/ \E m \in Mid : DeadlinePasses(m) \/ WindowCloses(m)

Next == \/ \E p \in Proc : Run(p) \/ Sweep(p) \/ Ask(p) \/ StatementFails(p) \/ Crash(p)
        \/ SweepQueue
        \/ Clock
        \/ \E u \in User : LoseEligibility(u)

Spec == Init /\ [][Next]_vars

(* Handlers keep running, time passes, and the sweep runs on a timer of its *)
(* own: no amount of traffic keeps it from a row for ever.                  *)
Fairness ==
    /\ \A p \in Proc : WF_vars(Run(p))
    /\ \A m \in Mid : /\ WF_vars(DeadlinePasses(m))
                      /\ WF_vars(WindowCloses(m))
                      /\ SF_vars(\E p \in Proc : SweepSession(p, m))
                      /\ SF_vars(\E p \in Proc : SweepChat(p, m))

FairSpec == Spec /\ Fairness

-----------------------------------------------------------------------------
(* Every variable has its type (InstantMatch: tables, locks and handlers).  *)
TypeOK ==
    /\ queue \in [User -> {"none", "live", "stale"}]
    /\ sess \in [Mid -> Session]
    /\ created \in 0..MaxSessions
    /\ eligible \in [User -> BOOLEAN]
    /\ lock \in [User -> Proc \cup {None}]
    /\ proc \in [Proc -> ProcState]
    /\ joins \in [User -> 0..MaxJoins]
    /\ opened \in [Mid -> Nat]

(* claimPair's promise: a queue entry is paired at most once, however many  *)
(* searches see it ("rolls back rather than creating a second session for   *)
(* someone who is already matched").  A user has no more sessions than the  *)
(* entries written for them, less the one that is still waiting.            *)
EntryUsedOnce ==
    \A u \in User :
        Cardinality({m \in Mid : sess[m].st # "none" /\ In(u, m)})
            + (IF queue[u] = "none" THEN 0 ELSE 1) <= joins[u]

(* acceptSession's claim: however the two accepts, retries after a failure, *)
(* declines and the sweep interleave, a session gets one conversation, only *)
(* after both people accepted, and one that has it stays ACCEPTED.          *)
OneAgreedConversation ==
    \A m \in Mid : opened[m] > 0 =>
        /\ opened[m] = 1
        /\ {sess[m].a, sess[m].b} \subseteq sess[m].yes
        /\ sess[m].st = "ACCEPTED"

(* A match that was declined or timed out never comes back: a late accept   *)
(* or the rollback of one cannot revive it.                                 *)
ResolvedIsFinal ==
    [][\A m \in Mid : sess[m].st \in {"DECLINED", "EXPIRED"} => sess'[m].st = sess[m].st]_vars

(* Where a match is in its life, for MatchLife: one that is ACCEPTED may    *)
(* wait for its conversation, have it, or have had it.                      *)
PhaseOf(m) ==
    IF sess[m].st # "ACCEPTED" THEN sess[m].st
    ELSE CASE sess[m].conv = "none"   -> "agreed"
           [] sess[m].conv = "open"   -> IF sess[m].chat = "ACTIVE" THEN "talking" ELSE "over"
           [] sess[m].conv = "closed" -> "closed"

LifeOf(m) == [phase |-> PhaseOf(m),
              pair  |-> IF sess[m].st = "none" THEN {} ELSE {sess[m].a, sess[m].b},
              yes   |-> sess[m].yes]

Life == INSTANCE MatchLife WITH Match <- Mid, life <- [m \in Mid |-> LifeOf(m)]

(* Searches, answers, retries, the sweeps and crashes together keep every   *)
(* match to its life: two people, who both said yes before they talk, no    *)
(* way back from an outcome and none from the end of the talk.              *)
KeepsToLife == Life!Spec

(* A chat that both people could write in and that ended keeps the ending   *)
(* it had: leaving, the sweep and the lazy checks do not overwrite it.      *)
EndedChatStaysEnded ==
    [][\A m \in Mid : sess[m].conv # "none" /\ sess[m].chat # "ACTIVE"
            => sess'[m].chat = sess[m].chat]_vars

(* No pair is stranded: a match ends declined, timed out or with a chat     *)
(* ("so the pair is not stranded in ACCEPTED with no conversation to open").*)
MatchResolved ==
    \A m \in Mid : (sess[m].st = "PENDING") ~>
                       (sess[m].st \in {"DECLINED", "EXPIRED"} \/ sess[m].conv # "none")

(* A chat is not for ever: its conversation is torn down, as long as no     *)
(* closing fails.  "Either the session's chat is fully torn down or nothing *)
(* changed and the sweep will retry" is not so when the closing of the      *)
(* conversation fails, or the process dies, after the chat was claimed: the *)
(* sweep looks for active chats, and this one is none any more.             *)
ChatTornDown ==
    \A m \in Mid : (sess[m].conv = "open") ~> (sess[m].conv = "closed")
=============================================================================
