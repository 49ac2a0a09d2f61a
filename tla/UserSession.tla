----------------------------- MODULE UserSession -----------------------------
(***************************************************************************)
(* Refresh-token rotation of Meetifyy's user sessions                      *)
(* (backend/src/auth/session/user-session.service.ts, driven by            *)
(* POST session/refresh, session/logout and sessions/revoke-all of         *)
(* auth.controller.ts).                                                    *)
(*                                                                         *)
(* One account.  A row of the UserSession table is the server's half of a  *)
(* refresh token: the token of row s is written s.  A login starts a       *)
(* family; every refresh retires the presented row and mints a successor   *)
(* in the same family.  The service takes no lock and opens no             *)
(* transaction, so a request is a process that is interrupted at each      *)
(* database round trip: one action per awaited statement.                  *)
(***************************************************************************)
EXTENDS Naturals, FiniteSets

CONSTANTS
    Sid,        \* row ids: crypto.randomUUID / @default(uuid()), never reused
    Req,        \* concurrent HTTP requests
    None,       \* SQL NULL
    Outages     \* TRUE: the identity provider may fail transiently

ASSUME NoneAssumption   == None \notin Sid
ASSUME OutageAssumption == Outages \in BOOLEAN

VARIABLES
    rows,       \* the UserSession table
    minted,     \* ids that were ever given to a row
    known,      \* rows whose refresh token reached a client
    req,        \* what each request is doing, and what it read
    ended,      \* families signed out as a whole (history)
    raced,      \* of those, the ones whose last sign-out met an open window (history)
    undone      \* families in which undoRotation gave a token back (history)

vars == <<rows, minted, known, req, ended, raced, undone>>

-----------------------------------------------------------------------------
(* The table.  A family is named by the id of its first row.  "reason" says *)
(* that revokedReason is not null: a rotation retires a row without one,    *)
(* every sign-out sets one.  Time is the row's age: "young" is at most      *)
(* REFRESH_REUSE_GRACE_MS old, "expired" past expiresAt.  "used" is         *)
(* lastActiveAt # createdAt, the mark JwtGuard leaves on first use.         *)

Row == [st : {"absent", "live", "revoked"}, fam : Sid \cup {None},
        repl : Sid \cup {None}, reason : BOOLEAN,
        age : {"young", "old", "expired"}, used : BOOLEAN]

MutNoRow == [st |-> "deleted", fam |-> None, repl |-> None, reason |-> FALSE,
             age |-> "expired", used |-> FALSE]
NoRow == [st |-> "absent", fam |-> None, repl |-> None, reason |-> FALSE,
          age |-> "expired", used |-> FALSE]

NewRow(f) == [st |-> "live", fam |-> f, repl |-> None, reason |-> FALSE,
              age |-> "young", used |-> FALSE]

PC == {"idle", "create", "claim", "drop", "judge", "reuse", "retire", "remint",
       "link", "burn", "provider", "undoRead", "restore", "undoDrop", "others"}

Idle == [pc |-> "idle", tok |-> None, fam |-> None, succ |-> None, next |-> None]

ReqState == [pc : PC, tok : Sid \cup {None}, fam : Sid \cup {None},
             succ : Sid \cup {None}, next : Sid \cup {None}]

Live(s) == rows[s].st = "live"
Fresh   == Sid \ minted

Goto(r, p) == req' = [req EXCEPT ![r].pc = p]
Begin(r, p, t, s) ==
    req' = [req EXCEPT ![r] = [pc |-> p, tok |-> t, fam |-> rows[t].fam,
                               succ |-> s, next |-> None]]
Finish(r)  == req' = [req EXCEPT ![r] = Idle]

(* UPDATE ... WHERE revoked = false, over the rows of S: what every         *)
(* sign-out does.                                                           *)
Revoked(S) == [s \in Sid |-> IF s \in S /\ Live(s)
                             THEN [rows[s] EXCEPT !.st = "revoked", !.reason = TRUE]
                             ELSE rows[s]]

InFamily(f) == {s \in Sid : rows[s].st # "absent" /\ rows[s].fam = f}
Families    == {f \in Sid : InFamily(f) # {}}

(* The windows in which a request has already decided that its family may   *)
(* have a live row: a recovery between retiring the lost successor and      *)
(* creating the next row, an undo between reading the successor and         *)
(* restoring the presented row.                                             *)
OpenWindow(f) == \E r \in Req : req[r].pc \in {"remint", "restore"} /\ req[r].fam = f

(* History only: the families of F are signed out now.                      *)
NoteEnd(F) == /\ ended' = ended \cup F
              /\ raced' = (raced \ F) \cup {f \in F : OpenWindow(f)}

-----------------------------------------------------------------------------
Init == /\ rows = [s \in Sid |-> NoRow]
        /\ minted = {}
        /\ known = {}
        /\ req = [r \in Req |-> Idle]
        /\ ended = {}
        /\ raced = {}
        /\ undone = {}

(* issue: one login on one device starts a family.                          *)
Login(s) ==
    /\ s \in Fresh
    /\ rows' = [rows EXCEPT ![s] = NewRow(s)]
    /\ minted' = minted \cup {s}
    /\ known' = known \cup {s}
    /\ UNCHANGED <<req, ended, raced, undone>>

-----------------------------------------------------------------------------
(* rotate.                                                                  *)

(* The read by hash, and what it decides.  A refused presentation changes   *)
(* nothing.                                                                 *)
Present(r, t) ==
    /\ req[r].pc = "idle"
    /\ t \in known
    /\ rows[t].st # "absent"
    /\ \/ /\ rows[t].repl # None
          /\ Begin(r, "reuse", t, rows[t].repl)
       \/ /\ rows[t].repl = None
          /\ Live(t)
          /\ rows[t].age # "expired"
          /\ Begin(r, "create", t, None)
    /\ UNCHANGED <<rows, minted, known, ended, raced, undone>>

(* The successor is created before the presented row is claimed.            *)
CreateSuccessor(r, s) ==
    /\ req[r].pc = "create"
    /\ s \in Fresh
    /\ rows' = [rows EXCEPT ![s] = NewRow(req[r].fam)]
    /\ minted' = minted \cup {s}
    /\ req' = [req EXCEPT ![r].pc = "claim", ![r].next = s]
    /\ UNCHANGED <<known, ended, raced, undone>>

(* updateMany where { id, replacedById: null, revoked: false }              *)
MutClaimable(t) == rows[t].st # "absent" /\ rows[t].repl = None
Claimable(t) == Live(t) /\ rows[t].repl = None

Claim(r) ==
    /\ req[r].pc = "claim"
    /\ LET t == req[r].tok
       IN \/ /\ Claimable(t)
             /\ rows' = [rows EXCEPT ![t].st = "revoked", ![t].repl = req[r].next,
                                     ![t].used = TRUE]
             /\ Goto(r, "provider")
          \/ /\ ~Claimable(t)
             /\ rows' = rows
             /\ Goto(r, "drop")
    /\ UNCHANGED <<minted, known, ended, raced, undone>>

(* Somebody claimed it first: our successor was never handed out and is     *)
(* deleted, best effort (.catch).                                           *)
DropSuccessor(r) ==
    /\ req[r].pc = "drop"
    /\ \/ rows' = [rows EXCEPT ![req[r].next] = NoRow]
       \/ rows' = rows
    /\ Goto(r, "judge")
    /\ UNCHANGED <<minted, known, ended, raced, undone>>

(* The re-read that tells a lost race (reuse) from a sign-out (refuse).     *)
Judge(r) ==
    /\ req[r].pc = "judge"
    /\ LET winner == rows[req[r].tok].repl
       IN \/ /\ winner = None
             /\ Finish(r)
          \/ /\ winner # None
             /\ req' = [req EXCEPT ![r].pc = "reuse", ![r].succ = winner, ![r].next = None]
    /\ UNCHANGED <<rows, minted, known, ended, raced, undone>>

-----------------------------------------------------------------------------
(* onReuse and recoverLostRotation.                                         *)

(* The successor never reached anyone, as far as the table can tell.        *)
LooksLost(s) == /\ Live(s)
                /\ rows[s].repl = None
                /\ ~rows[s].used
                /\ rows[s].age = "young"

InspectSuccessor(r) ==
    /\ req[r].pc = "reuse"
    /\ IF rows[req[r].tok].age # "expired" /\ LooksLost(req[r].succ)
       THEN Goto(r, "retire")
       ELSE Goto(r, "burn")
    /\ UNCHANGED <<rows, minted, known, ended, raced, undone>>

(* updateMany where { id, revoked: false, replacedById: null, lastActiveAt } *)
MutRetirable(s) == rows[s].st # "absent" /\ ~rows[s].used
Retirable(s) == Live(s) /\ rows[s].repl = None /\ ~rows[s].used

RetireSuccessor(r) ==
    /\ req[r].pc = "retire"
    /\ LET s == req[r].succ
       IN \/ /\ Retirable(s)
             /\ rows' = [rows EXCEPT ![s].st = "revoked"]
             /\ Goto(r, "remint")
          \/ /\ ~Retirable(s)
             /\ rows' = rows
             /\ Goto(r, "burn")
    /\ UNCHANGED <<minted, known, ended, raced, undone>>

Remint(r, s) ==
    /\ req[r].pc = "remint"
    /\ s \in Fresh
    /\ rows' = [rows EXCEPT ![s] = NewRow(req[r].fam)]
    /\ minted' = minted \cup {s}
    /\ req' = [req EXCEPT ![r].pc = "link", ![r].next = s]
    /\ UNCHANGED <<known, ended, raced, undone>>

(* update where { id }: unconditional, and it throws when the row is gone.  *)
Link(r) ==
    /\ req[r].pc = "link"
    /\ LET t == req[r].tok
       IN \/ /\ rows[t].st # "absent"
             /\ rows' = [rows EXCEPT ![t].repl = req[r].next]
             /\ Goto(r, "provider")
          \/ /\ rows[t].st = "absent"
             /\ rows' = rows
             /\ Finish(r)
    /\ UNCHANGED <<minted, known, ended, raced, undone>>

(* revokeFamily(REFRESH_REPLAY)                                             *)
Burn(r) ==
    /\ req[r].pc = "burn"
    /\ rows' = Revoked(InFamily(req[r].fam))
    /\ NoteEnd({req[r].fam})
    /\ Finish(r)
    /\ UNCHANGED <<minted, known, undone>>

-----------------------------------------------------------------------------
(* refreshSession: the provider half, and undoRotation.                     *)

(* The provider renewed: the response carries the new token, and may be     *)
(* lost on its way.                                                         *)
Respond(r) ==
    /\ req[r].pc = "provider"
    /\ \/ known' = known \cup {req[r].next}
       \/ known' = known
    /\ Finish(r)
    /\ UNCHANGED <<rows, minted, ended, raced, undone>>

(* ProviderRefreshUnavailableError                                          *)
ProviderUnavailable(r) ==
    /\ Outages
    /\ req[r].pc = "provider"
    /\ Goto(r, "undoRead")
    /\ UNCHANGED <<rows, minted, known, ended, raced, undone>>

UndoRead(r) ==
    /\ req[r].pc = "undoRead"
    /\ IF rows[req[r].next].st = "revoked" THEN Finish(r) ELSE Goto(r, "restore")
    /\ UNCHANGED <<rows, minted, known, ended, raced, undone>>

(* updateMany where { id, replacedById: successor, revokedReason: null }    *)
MutRestorable(t, n) == rows[t].st # "absent" /\ rows[t].repl = n
Restorable(t, n) == /\ rows[t].st # "absent"
                    /\ rows[t].repl = n
                    /\ ~rows[t].reason

Restore(r) ==
    /\ req[r].pc = "restore"
    /\ LET t == req[r].tok
       IN \/ /\ Restorable(t, req[r].next)
             /\ rows' = [rows EXCEPT ![t].st = "live", ![t].repl = None]
             /\ undone' = undone \cup {req[r].fam}
             /\ Goto(r, "undoDrop")
          \/ /\ ~Restorable(t, req[r].next)
             /\ UNCHANGED <<rows, undone>>
             /\ Finish(r)
    /\ UNCHANGED <<minted, known, ended, raced>>

(* deleteMany where { id: successor, revoked: false }, best effort          *)
UndoDrop(r) ==
    /\ req[r].pc = "undoDrop"
    /\ \/ rows' = IF Live(req[r].next) THEN [rows EXCEPT ![req[r].next] = NoRow] ELSE rows
       \/ rows' = rows
    /\ Finish(r)
    /\ UNCHANGED <<minted, known, ended, raced, undone>>

(* A process restart, a database error or a permanent provider refusal:     *)
(* the request stops where it is and nothing is rolled back.                *)
Abort(r) ==
    /\ req[r].pc # "idle"
    /\ Finish(r)
    /\ UNCHANGED <<rows, minted, known, ended, raced, undone>>

-----------------------------------------------------------------------------
(* Sign-outs.                                                               *)

(* revokeByRefreshHash: logout ends the family of the presented token, also *)
(* when that token was rotated a moment ago.                                *)
Logout(t) ==
    /\ t \in known
    /\ rows[t].st # "absent"
    /\ rows' = Revoked(InFamily(rows[t].fam))
    /\ NoteEnd({rows[t].fam})
    /\ UNCHANGED <<minted, known, req, undone>>

(* revokeAllForUser without an exception: password reset, sign out          *)
(* everywhere, suspension by an admin, purge of the account.  It succeeds   *)
(* also when it finds no live row.                                          *)
SignOutEverywhere ==
    /\ rows' = Revoked(Sid)
    /\ NoteEnd(Families)
    /\ UNCHANGED <<minted, known, req, undone>>

(* revokeAllForUser(exceptSessionId): JwtGuard has found the caller's own   *)
(* session live; the handler runs after it.                                 *)
AskSignOutOthers(r, s) ==
    /\ req[r].pc = "idle"
    /\ s \in known
    /\ Live(s)
    /\ Begin(r, "others", s, None)
    /\ UNCHANGED <<rows, minted, known, ended, raced, undone>>

SignOutOthers(r) ==
    /\ req[r].pc = "others"
    /\ rows' = Revoked(Sid \ {req[r].tok})
    /\ NoteEnd(Families \ {req[r].fam})
    /\ Finish(r)
    /\ UNCHANGED <<minted, known, undone>>

(* revokeOwnedByUser: one row of the device list; matches only live rows.   *)
RevokeDevice(s) ==
    /\ Live(s)
    /\ rows' = Revoked({s})
    /\ UNCHANGED <<minted, known, req, ended, raced, undone>>

-----------------------------------------------------------------------------
(* JwtGuard.markSessionUsed, the passing of time, and the retention sweep.  *)
(* A row lives REFRESH_TOKEN_TTL_MS (30 days), a request does not: no row   *)
(* expires under the request that created it.                               *)

MarkUsed(s) ==
    /\ s \in known
    /\ Live(s)
    /\ ~rows[s].used
    /\ rows' = [rows EXCEPT ![s].used = TRUE]
    /\ UNCHANGED <<minted, known, req, ended, raced, undone>>

Age(s) ==
    /\ rows[s].st # "absent"
    /\ rows[s].age # "expired"
    /\ rows[s].age = "old" => \A r \in Req : req[r].next # s
    /\ rows' = [rows EXCEPT ![s].age = IF @ = "young" THEN "old" ELSE "expired"]
    /\ UNCHANGED <<minted, known, req, ended, raced, undone>>

PurgeExpired ==
    /\ \E s \in Sid : rows[s].st # "absent" /\ rows[s].age = "expired"
    /\ rows' = [s \in Sid |-> IF rows[s].age = "expired" THEN NoRow ELSE rows[s]]
    /\ UNCHANGED <<minted, known, req, ended, raced, undone>>

-----------------------------------------------------------------------------
Refresh(r) ==
    \/ \E t \in Sid : Present(r, t)
    \/ \E s \in Sid : CreateSuccessor(r, s)
    \/ Claim(r)
    \/ DropSuccessor(r)
    \/ Judge(r)
    \/ InspectSuccessor(r)
    \/ RetireSuccessor(r)
    \/ \E s \in Sid : Remint(r, s)
    \/ Link(r)
    \/ Burn(r)
    \/ Respond(r)
    \/ ProviderUnavailable(r)
    \/ UndoRead(r)
    \/ Restore(r)
    \/ UndoDrop(r)
    \/ Abort(r)

Next ==
    \/ \E r \in Req : Refresh(r)
    \/ \E r \in Req : SignOutOthers(r)
    \/ \E r \in Req, s \in Sid : AskSignOutOthers(r, s)
    \/ \E s \in Sid : Login(s) \/ Logout(s) \/ RevokeDevice(s) \/ MarkUsed(s) \/ Age(s)
    \/ SignOutEverywhere
    \/ PurgeExpired

Spec == Init /\ [][Next]_vars

(* The behaviours of Spec in which devices are signed out only all at once. *)
AllAtOnce == \/ \E r \in Req : Refresh(r)
             \/ \E s \in Sid : Login(s) \/ MarkUsed(s) \/ Age(s)
             \/ SignOutEverywhere

AllAtOnceSpec == Init /\ [][AllAtOnce]_vars

-----------------------------------------------------------------------------
(* Type correctness of the UserSession table, the requests and the history. *)
TypeOK ==
    /\ rows \in [Sid -> Row]
    /\ minted \subseteq Sid
    /\ known \subseteq Sid
    /\ req \in [Req -> ReqState]
    /\ ended \subseteq Sid
    /\ raced \subseteq Sid
    /\ undone \subseteq Sid

(* A family that was signed out while no recovery and no undo stood in its  *)
(* window has no usable token left, whatever the requests that were already *)
(* running do afterwards: rotate's claim is conditional on revoked = false, *)
(* and both recovery and undo begin with a check of the row they rely on.   *)
SignOutHolds ==
    \A f \in ended \ raced : \A s \in known : Live(s) => rows[s].fam # f

(* A family in which no rotation was undone never has two usable tokens: of *)
(* all concurrent presentations of one token at most one wins, lost races   *)
(* and recoveries included.  An undo gives the old token back, and fails to *)
(* delete the new row when it dies in between (.catch).                     *)
OneLiveToken ==
    \A s, t \in known : /\ Live(s) /\ Live(t)
                        /\ rows[s].fam = rows[t].fam
                        /\ rows[s].fam \notin undone
                        => s = t

(* A row that a person or the replay check ended (revokedReason set) is     *)
(* never live again: undoRotation restores only rows a rotation retired.    *)
ReasonIsFinal ==
    [][\A s \in Sid : rows[s].reason => rows'[s].st # "live"]_vars

(* revokeAllForUser "Signs out every device": no token of a family that was *)
(* signed out is usable afterwards.                                         *)
SignedOutMeansOut ==
    \A f \in ended : \A s \in known : Live(s) => rows[s].fam # f
=============================================================================
