-------------------------- MODULE UserSessionProofs --------------------------
(***************************************************************************)
(* Type correctness, SignOutHolds, ReasonIsFinal and OneLiveToken of       *)
(* UserSession, for every set of ids, every number of concurrent requests  *)
(* and a provider that may fail.                                           *)
(***************************************************************************)
EXTENDS UserSession, TLAPS

HasRow(s) == rows[s].st # "absent"

(* Ids are handed out once, and everything that is remembered was minted.   *)
MintedInv ==
    /\ known \subseteq minted
    /\ ended \subseteq minted
    /\ \A s \in Sid : /\ HasRow(s) => s \in minted /\ rows[s].fam \in minted
                      /\ ~HasRow(s) => rows[s].repl = None
                      /\ rows[s].repl # None => rows[s].repl \in minted

(* A row and the row it names belong to one family.                         *)
PointerInv ==
    \A s, t \in Sid : rows[s].repl = t /\ HasRow(t) => rows[t].fam = rows[s].fam

(* What a request remembers of the rows it read or created.                 *)
HasNext == {"claim", "drop", "link", "provider", "undoRead", "restore", "undoDrop"}
KeepsNext == {"claim", "link", "provider", "undoRead", "restore"}

ReqOK(r) ==
        /\ req[r].pc = "idle" => req[r] = Idle
        /\ req[r].pc # "idle" => req[r].tok \in known /\ req[r].fam \in minted
        /\ req[r].tok # None => (HasRow(req[r].tok) => rows[req[r].tok].fam = req[r].fam)
        /\ req[r].succ # None => /\ req[r].succ \in minted
                                 /\ HasRow(req[r].succ) => rows[req[r].succ].fam = req[r].fam
        /\ req[r].next # None => /\ req[r].next \in minted
                                 /\ HasRow(req[r].next) => /\ rows[req[r].next].fam = req[r].fam
                                                             /\ rows[req[r].next].age # "expired"
        /\ req[r].pc \in {"reuse", "retire"} => req[r].succ # None
        /\ req[r].pc \in HasNext => req[r].next # None
        /\ req[r].pc \in KeepsNext => HasRow(req[r].next)

ReqInv == \A r \in Req : ReqOK(r)

OwnNext ==
    \A q, r \in Req : q # r /\ req[q].next # None => req[q].next # req[r].next

(* After a clean sign-out of a family, the only live rows it can have are   *)
(* successors that a losing rotation created and nobody else has heard of.  *)
WindowShut(f) ==
    \A r \in Req : req[r].fam = f => req[r].pc \notin {"remint", "restore"}

OrphansOnly(f) ==
    \A s \in Sid : rows[s].st = "live" /\ rows[s].fam = f =>
        /\ s \notin known
        /\ \A t \in Sid : rows[t].repl # s
        /\ \A r \in Req : /\ req[r].succ # s
                          /\ req[r].next = s => req[r].pc \in {"claim", "drop", "judge"}

ClosedInv ==
    \A f \in Sid : f \in ended \ raced => WindowShut(f) /\ OrphansOnly(f)

IInv == TypeOK /\ MintedInv /\ PointerInv /\ ReqInv /\ OwnNext /\ ClosedInv

-----------------------------------------------------------------------------
(* A created row is a row.                                                  *)
LEMMA NewRowType == ASSUME NEW f \in Sid \cup {None} PROVE NewRow(f) \in Row
  BY DEF NewRow, Row

(* A deleted row is a row.                                                  *)
LEMMA NoRowType == NoRow \in Row
  BY DEF NoRow, Row

(* A finished request is a request.                                         *)
LEMMA IdleType == Idle \in ReqState
  BY DEF Idle, ReqState, PC

(* A sign-out keeps the type of the table.                                  *)
LEMMA RevokedType ==
    ASSUME rows \in [Sid -> Row], NEW S \in SUBSET Sid
    PROVE  Revoked(S) \in [Sid -> Row]
  BY DEF Revoked, Row

(* Recording a sign-out keeps the types of the history.                     *)
LEMMA NoteEndType ==
    ASSUME TypeOK, NEW F \in SUBSET Sid, NoteEnd(F)
    PROVE  ended' \subseteq Sid /\ raced' \subseteq Sid
  BY DEF TypeOK, NoteEnd

(* Every step keeps the types; the families that a replay burns and the     *)
(* rows that a response hands out are known to be ids by the invariant.     *)
LEMMA TypeStep == IInv /\ [Next]_vars => TypeOK'
<1> SUFFICES ASSUME TypeOK, MintedInv, ReqInv, [Next]_vars PROVE TypeOK'
  BY DEF IInv
<1> USE NewRowType, NoRowType, IdleType DEF TypeOK
<1>1. ASSUME NEW s \in Sid, Login(s) PROVE TypeOK'
  <2>1. rows' \in [Sid -> Row]
    BY <1>1 DEF Login, Row, ReqState, Live, Fresh
  <2>2. req' \in [Req -> ReqState]
    BY <1>1 DEF Login, ReqState, PC, Goto, Finish
  <2>3. minted' \subseteq Sid /\ known' \subseteq Sid
    BY <1>1 DEF Login, ReqState, Fresh
  <2>4. ended' \subseteq Sid /\ raced' \subseteq Sid /\ undone' \subseteq Sid
    BY <1>1 DEF Login, NoteEnd, Row, ReqState, Live
  <2> QED
    BY <2>1, <2>2, <2>3, <2>4
<1>2. ASSUME NEW r \in Req, NEW t \in Sid, Present(r, t) PROVE TypeOK'
  BY <1>2 DEF Present, Row, ReqState, PC, Goto, Begin, Finish, Live, Fresh
<1>3. ASSUME NEW r \in Req, NEW s \in Sid, CreateSuccessor(r, s) PROVE TypeOK'
  <2>1. rows' \in [Sid -> Row]
    BY <1>3 DEF CreateSuccessor, Row, ReqState, Live, Fresh
  <2>2. req' \in [Req -> ReqState]
    <3>1. [req[r] EXCEPT !.pc = "claim", !.next = s] \in ReqState
      BY DEF ReqState, PC
    <3> QED
      BY <1>3, <3>1 DEF CreateSuccessor
  <2>3. minted' \subseteq Sid /\ known' \subseteq Sid
    BY <1>3 DEF CreateSuccessor, ReqState, Fresh
  <2>4. ended' \subseteq Sid /\ raced' \subseteq Sid /\ undone' \subseteq Sid
    BY <1>3 DEF CreateSuccessor, NoteEnd, Row, ReqState, Live
  <2> QED
    BY <2>1, <2>2, <2>3, <2>4
<1>4. ASSUME NEW r \in Req, Claim(r) PROVE TypeOK'
  <2>1. CASE Claimable(req[r].tok)
    <3>1. req[r].tok \in Sid
      BY <1>4, <2>1 DEF Claim, Claimable, ReqInv, ReqOK, MintedInv
    <3>2. rows' \in [Sid -> Row]
      BY SMTT(40), <1>4, <2>1, <3>1 DEF Claim, Row, ReqState
    <3> QED
      BY <1>4, <2>1, <3>2 DEF Claim, Goto, ReqState, PC
  <2>2. CASE ~Claimable(req[r].tok)
    BY <1>4, <2>2 DEF Claim, Goto, Finish, ReqState, PC
  <2> QED
    BY <2>1, <2>2
<1>5. ASSUME NEW r \in Req, DropSuccessor(r) PROVE TypeOK'
  <2>1. rows' \in [Sid -> Row]
    BY <1>5 DEF DropSuccessor, Row, ReqState, Live, Fresh
  <2>2. req' \in [Req -> ReqState]
    BY <1>5 DEF DropSuccessor, ReqState, PC, Goto, Finish
  <2>3. minted' \subseteq Sid /\ known' \subseteq Sid
    BY <1>5 DEF DropSuccessor, ReqState, Fresh
  <2>4. ended' \subseteq Sid /\ raced' \subseteq Sid /\ undone' \subseteq Sid
    BY <1>5 DEF DropSuccessor, NoteEnd, Row, ReqState, Live
  <2> QED
    BY <2>1, <2>2, <2>3, <2>4
<1>6. ASSUME NEW r \in Req, Judge(r) PROVE TypeOK'
  BY <1>6 DEF Judge, Row, ReqState, PC, Goto, Begin, Finish, Live, Fresh
<1>7. ASSUME NEW r \in Req, InspectSuccessor(r) PROVE TypeOK'
  BY <1>7 DEF InspectSuccessor, LooksLost, Row, ReqState, PC, Goto, Begin, Finish,
       Live, Fresh
<1>8. ASSUME NEW r \in Req, RetireSuccessor(r) PROVE TypeOK'
  BY SMTT(40), <1>8 DEF RetireSuccessor, Retirable, Row, ReqState, PC, Goto, Begin, Finish, Live,
       Fresh
<1>9. ASSUME NEW r \in Req, NEW s \in Sid, Remint(r, s) PROVE TypeOK'
  <2>1. rows' \in [Sid -> Row]
    BY <1>9 DEF Remint, Row, ReqState, Live, Fresh
  <2>2. req' \in [Req -> ReqState]
    <3>1. [req[r] EXCEPT !.pc = "link", !.next = s] \in ReqState
      BY DEF ReqState, PC
    <3> QED
      BY <1>9, <3>1 DEF Remint
  <2>3. minted' \subseteq Sid /\ known' \subseteq Sid
    BY <1>9 DEF Remint, ReqState, Fresh
  <2>4. ended' \subseteq Sid /\ raced' \subseteq Sid /\ undone' \subseteq Sid
    BY <1>9 DEF Remint, NoteEnd, Row, ReqState, Live
  <2> QED
    BY <2>1, <2>2, <2>3, <2>4
<1>10. ASSUME NEW r \in Req, Link(r) PROVE TypeOK'
  <2>1. rows' \in [Sid -> Row]
    BY <1>10 DEF Link, Row, ReqState
  <2>2. req' \in [Req -> ReqState]
    BY <1>10 DEF Link, Goto, Finish, ReqState, PC
  <2> QED
    BY <1>10, <2>1, <2>2 DEF Link
<1>11. ASSUME NEW r \in Req, Burn(r) PROVE TypeOK'
  <2>1. rows' \in [Sid -> Row]
    BY <1>11, RevokedType DEF Burn, InFamily, NoteEnd, Row, ReqState, Live, Fresh
  <2>2. req' \in [Req -> ReqState]
    BY <1>11 DEF Burn, ReqState, PC, Goto, Finish
  <2>3. minted' \subseteq Sid /\ known' \subseteq Sid
    BY <1>11 DEF Burn, ReqState, Fresh
  <2>5. {req[r].fam} \subseteq Sid
    BY <1>11 DEF Burn, MintedInv, ReqInv, ReqOK, Families, PC
  <2>4. ended' \subseteq Sid /\ raced' \subseteq Sid /\ undone' \subseteq Sid
    BY <1>11, <2>5, NoteEndType DEF Burn
  <2> QED
    BY <2>1, <2>2, <2>3, <2>4
<1>12. ASSUME NEW r \in Req, Respond(r) PROVE TypeOK'
  <2>1. rows' \in [Sid -> Row]
    BY <1>12 DEF Respond, Row, ReqState, Live, Fresh
  <2>2. req' \in [Req -> ReqState]
    BY <1>12 DEF Respond, ReqState, PC, Goto, Finish
  <2>3. minted' \subseteq Sid /\ known' \subseteq Sid
    BY <1>12 DEF Respond, ReqInv, ReqOK, MintedInv, HasNext
  <2>4. ended' \subseteq Sid /\ raced' \subseteq Sid /\ undone' \subseteq Sid
    BY <1>12 DEF Respond, NoteEnd, Row, ReqState, Live
  <2> QED
    BY <2>1, <2>2, <2>3, <2>4
<1>13. ASSUME NEW r \in Req, ProviderUnavailable(r) PROVE TypeOK'
  BY <1>13 DEF ProviderUnavailable, Row, ReqState, PC, Goto, Begin, Finish, Live, Fresh
<1>14. ASSUME NEW r \in Req, UndoRead(r) PROVE TypeOK'
  BY <1>14 DEF UndoRead, Row, ReqState, PC, Goto, Begin, Finish, Live, Fresh
<1>15. ASSUME NEW r \in Req, Restore(r) PROVE TypeOK'
  <2>1. CASE Restorable(req[r].tok, req[r].next)
    <3>1. req[r].tok \in Sid
      BY <1>15, <2>1 DEF Restore, Restorable, ReqInv, ReqOK, MintedInv
    <3>2. rows' \in [Sid -> Row]
      BY <1>15, <2>1, <3>1 DEF Restore, Row, ReqState
    <3>3. req[r].fam \in Sid
      BY <1>15 DEF Restore, ReqInv, ReqOK, MintedInv
    <3> QED
      BY <1>15, <2>1, <3>2, <3>3 DEF Restore, Goto, ReqState, PC
  <2>2. CASE ~Restorable(req[r].tok, req[r].next)
    BY <1>15, <2>2 DEF Restore, Goto, Finish, ReqState, PC
  <2> QED
    BY <2>1, <2>2
<1>16. ASSUME NEW r \in Req, UndoDrop(r) PROVE TypeOK'
  <2>1. rows' \in [Sid -> Row]
    BY <1>16 DEF UndoDrop, Row, ReqState, Live, Fresh
  <2>2. req' \in [Req -> ReqState]
    BY <1>16 DEF UndoDrop, ReqState, PC, Goto, Finish
  <2>3. minted' \subseteq Sid /\ known' \subseteq Sid
    BY <1>16 DEF UndoDrop, ReqState, Fresh
  <2>4. ended' \subseteq Sid /\ raced' \subseteq Sid /\ undone' \subseteq Sid
    BY <1>16 DEF UndoDrop, NoteEnd, Row, ReqState, Live
  <2> QED
    BY <2>1, <2>2, <2>3, <2>4
<1>17. ASSUME NEW r \in Req, Abort(r) PROVE TypeOK'
  BY <1>17 DEF Abort, Row, ReqState, PC, Goto, Begin, Finish, Live, Fresh
<1>18. ASSUME NEW t \in Sid, Logout(t) PROVE TypeOK'
  <2>1. rows' \in [Sid -> Row]
    BY <1>18, RevokedType DEF Logout, InFamily, NoteEnd, Row, ReqState, Live, Fresh
  <2>2. req' \in [Req -> ReqState]
    BY <1>18 DEF Logout, ReqState, PC, Goto, Finish
  <2>3. minted' \subseteq Sid /\ known' \subseteq Sid
    BY <1>18 DEF Logout, ReqState, Fresh
  <2>5. {rows[t].fam} \subseteq Sid
    BY <1>18 DEF Logout, MintedInv, HasRow
  <2>4. ended' \subseteq Sid /\ raced' \subseteq Sid /\ undone' \subseteq Sid
    BY <1>18, <2>5, NoteEndType DEF Logout
  <2> QED
    BY <2>1, <2>2, <2>3, <2>4
<1>19. CASE SignOutEverywhere
  <2>1. rows' \in [Sid -> Row]
    BY <1>19, RevokedType DEF SignOutEverywhere, NoteEnd, Row, ReqState, Live, Fresh,
         InFamily
  <2>2. req' \in [Req -> ReqState]
    BY <1>19 DEF SignOutEverywhere, ReqState, PC, Goto, Finish
  <2>3. minted' \subseteq Sid /\ known' \subseteq Sid
    BY <1>19 DEF SignOutEverywhere, ReqState, Fresh
  <2>5. Families \subseteq Sid
    BY <1>19 DEF SignOutEverywhere, MintedInv, ReqInv, ReqOK, Families, PC
  <2>4. ended' \subseteq Sid /\ raced' \subseteq Sid /\ undone' \subseteq Sid
    BY <1>19, <2>5, NoteEndType DEF SignOutEverywhere
  <2> QED
    BY <2>1, <2>2, <2>3, <2>4
<1>20. ASSUME NEW r \in Req, NEW s \in Sid, AskSignOutOthers(r, s) PROVE TypeOK'
  BY <1>20 DEF AskSignOutOthers, Row, ReqState, PC, Goto, Begin, Finish, Live, Fresh
<1>21. ASSUME NEW r \in Req, SignOutOthers(r) PROVE TypeOK'
  <2>1. rows' \in [Sid -> Row]
    BY <1>21, RevokedType DEF SignOutOthers, NoteEnd, Row, ReqState, Live, Fresh, InFamily
  <2>2. req' \in [Req -> ReqState]
    BY <1>21 DEF SignOutOthers, ReqState, PC, Goto, Finish
  <2>3. minted' \subseteq Sid /\ known' \subseteq Sid
    BY <1>21 DEF SignOutOthers, ReqState, Fresh
  <2>5. Families \ {req[r].fam} \subseteq Sid
    BY <1>21 DEF SignOutOthers, MintedInv, ReqInv, ReqOK, Families, PC
  <2>4. ended' \subseteq Sid /\ raced' \subseteq Sid /\ undone' \subseteq Sid
    BY <1>21, <2>5, NoteEndType DEF SignOutOthers
  <2> QED
    BY <2>1, <2>2, <2>3, <2>4
<1>22. ASSUME NEW s \in Sid, RevokeDevice(s) PROVE TypeOK'
  <2>1. rows' \in [Sid -> Row]
    BY <1>22, RevokedType DEF RevokeDevice, Row, ReqState, Live, Fresh, InFamily
  <2>2. req' \in [Req -> ReqState]
    BY <1>22 DEF RevokeDevice, ReqState, PC, Goto, Finish
  <2>3. minted' \subseteq Sid /\ known' \subseteq Sid
    BY <1>22 DEF RevokeDevice, ReqState, Fresh
  <2>4. ended' \subseteq Sid /\ raced' \subseteq Sid /\ undone' \subseteq Sid
    BY <1>22 DEF RevokeDevice, NoteEnd, Row, ReqState, Live
  <2> QED
    BY <2>1, <2>2, <2>3, <2>4
<1>23. ASSUME NEW s \in Sid, MarkUsed(s) PROVE TypeOK'
  <2>1. rows' \in [Sid -> Row]
    <3>1. [rows[s] EXCEPT !.used = TRUE] \in Row
      BY DEF Row
    <3> QED
      BY <1>23, <3>1 DEF MarkUsed
  <2>2. req' \in [Req -> ReqState]
    BY <1>23 DEF MarkUsed, ReqState, PC, Goto, Finish
  <2>3. minted' \subseteq Sid /\ known' \subseteq Sid
    BY <1>23 DEF MarkUsed, ReqState, Fresh
  <2>4. ended' \subseteq Sid /\ raced' \subseteq Sid /\ undone' \subseteq Sid
    BY <1>23 DEF MarkUsed, NoteEnd, Row, ReqState, Live
  <2> QED
    BY <2>1, <2>2, <2>3, <2>4
<1>24. ASSUME NEW s \in Sid, Age(s) PROVE TypeOK'
  BY <1>24 DEF Age, Row, ReqState, PC, Goto, Begin, Finish, Live, Fresh
<1>25. CASE PurgeExpired
  BY <1>25 DEF PurgeExpired, Row, ReqState, PC, Goto, Begin, Finish, Live, Fresh
<1>26. CASE UNCHANGED vars
  BY <1>26 DEF vars
<1> QED
  BY <1>1, <1>2, <1>3, <1>4, <1>5, <1>6, <1>7, <1>8, <1>9, <1>10, <1>11, <1>12, <1>13,
       <1>14, <1>15, <1>16, <1>17, <1>18, <1>19, <1>20, <1>21, <1>22, <1>23, <1>24,
            <1>25, <1>26 DEF Next, Refresh

-----------------------------------------------------------------------------
(* What no step does to the rows and the requests it is not about: rows     *)
(* keep their family, ids do not come back, and the successor of a request  *)
(* that does not move is neither deleted nor expired.                       *)
Frame ==
    /\ minted \subseteq minted' /\ known \subseteq known' /\ ended \subseteq ended'
    /\ \A s \in Sid : /\ HasRow(s) /\ HasRow(s)' => rows'[s].fam = rows[s].fam
                      /\ HasRow(s)' /\ ~HasRow(s) => s \notin minted
    /\ \A q \in Req : req'[q] = req[q] /\ req[q].next # None /\ HasRow(req[q].next)
          => HasRow(req[q].next)' /\ rows'[req[q].next].age # "expired"

(* Most steps change neither which rows there are nor family or age.        *)
SameShape ==
    \A s \in Sid : /\ rows'[s].st = "absent" <=> rows[s].st = "absent"
                   /\ rows'[s].fam = rows[s].fam
                   /\ rows'[s].age = rows[s].age

(* A step that keeps the shape of the table has the frame property.         *)
LEMMA SameShapeFrame ==
    ASSUME IInv, SameShape,
           minted \subseteq minted', known \subseteq known', ended \subseteq ended'
    PROVE  Frame
  BY DEF IInv, Frame, SameShape, ReqInv, ReqOK, HasRow, TypeOK, ReqState

(* A sign-out keeps the shape of the table.                                 *)
LEMMA RevokedShape ==
    ASSUME TypeOK, NEW S \in SUBSET Sid, rows' = Revoked(S)
    PROVE  SameShape
  BY DEF TypeOK, Row, Revoked, SameShape, HasRow, Live

(* A sign-out changes neither family nor replacement of any row, and leaves *)
(* no row of S live.                                                        *)
SameLinks ==
    \A s \in Sid : /\ rows'[s].st = "absent" <=> rows[s].st = "absent"
                   /\ rows'[s].fam = rows[s].fam
                   /\ rows'[s].repl = rows[s].repl

(* What a sign-out changes: the rows of S, which it leaves not live.        *)
LEMMA RevokedEffect ==
    ASSUME TypeOK, NEW S \in SUBSET Sid, rows' = Revoked(S)
    PROVE  /\ SameLinks
           /\ \A s \in Sid : rows'[s].st = "live" <=> rows[s].st = "live" /\ s \notin S
  BY DEF TypeOK, Row, Revoked, SameLinks, Live

(* Steps that keep the links keep PointerInv.                               *)
LEMMA SameLinksPointer == IInv /\ SameLinks => PointerInv'
<1> SUFFICES ASSUME IInv, SameLinks, NEW x \in Sid, NEW y \in Sid,
                    rows'[x].repl = y, rows'[y].st # "absent"
             PROVE  rows'[y].fam = rows'[x].fam
  BY DEF PointerInv, HasRow
<1> QED
  BY DEF IInv, PointerInv, SameLinks, HasRow

(* Steps that keep the links and end minted families keep MintedInv.        *)
LEMMA SameLinksMinted ==
    ASSUME IInv, SameLinks, NEW F \in SUBSET minted,
           minted' = minted, known' = known, ended' = ended \cup F
    PROVE  MintedInv'
<1> SUFFICES ASSUME NEW x \in Sid
             PROVE  /\ rows'[x].st # "absent" => x \in minted /\ rows'[x].fam \in minted
                    /\ rows'[x].st = "absent" => rows'[x].repl = None
                    /\ rows'[x].repl # None => rows'[x].repl \in minted
  BY DEF IInv, MintedInv, HasRow
<1> QED
  BY DEF IInv, MintedInv, SameLinks, HasRow

(* The frame of every step.                                                 *)
LEMMA FrameStep == IInv /\ [Next]_vars => Frame
<1> SUFFICES ASSUME IInv, [Next]_vars PROVE Frame
  OBVIOUS
<1> USE NoneAssumption DEF IInv
<1>1. ASSUME NEW s \in Sid, Login(s) PROVE Frame
  BY <1>1 DEF Login, NewRow, Fresh, Frame, TypeOK, Row, ReqState, MintedInv, HasRow,
       ReqInv, ReqOK, OwnNext, Live
<1>2. ASSUME NEW r \in Req, NEW t \in Sid, Present(r, t) PROVE Frame
  BY <1>2 DEF Present, Begin, Frame, TypeOK, Row, ReqState, MintedInv, HasRow, ReqInv,
       ReqOK, OwnNext, Live
<1>3. ASSUME NEW r \in Req, NEW s \in Sid, CreateSuccessor(r, s) PROVE Frame
  BY <1>3 DEF CreateSuccessor, NewRow, Fresh, Frame, TypeOK, Row, ReqState, MintedInv,
       HasRow, ReqInv, ReqOK, OwnNext, Live
<1>4. ASSUME NEW r \in Req, Claim(r) PROVE Frame
  <2>1. SameShape
    BY <1>4 DEF Claim, Claimable, SameShape, HasRow, TypeOK, Row, ReqState, Live
  <2>2. minted \subseteq minted' /\ known \subseteq known' /\ ended \subseteq ended'
    BY <1>4 DEF Claim
  <2> QED
    BY <2>1, <2>2, SameShapeFrame DEF IInv
<1>5. ASSUME NEW r \in Req, DropSuccessor(r) PROVE Frame
  <2>1. /\ \A s \in Sid : rows'[s] = rows[s] \/ (rows'[s] = NoRow /\ s = req[r].next)
        /\ req'[r] # req[r]
    BY <1>5 DEF DropSuccessor, Goto, TypeOK, ReqState
  <2>2. /\ minted' = minted /\ known' = known /\ ended' = ended
        /\ req[r].next # None
    BY <1>5 DEF DropSuccessor, ReqInv, ReqOK, HasNext
  <2>3. \A q \in Req \ {r} : req[q].next # None => req[q].next # req[r].next
    BY DEF OwnNext
  <2>4. \A q \in Req : req[q].next # None => req[q].next \in Sid
    BY DEF TypeOK, ReqState
  <2> QED
    BY <2>1, <2>2, <2>3, <2>4 DEF Frame, HasRow, NoRow, ReqInv, ReqOK
<1>6. ASSUME NEW r \in Req, Judge(r) PROVE Frame
  BY <1>6 DEF Judge, Finish, Idle, Frame, TypeOK, Row, ReqState, MintedInv, HasRow,
       ReqInv, ReqOK, OwnNext, Live
<1>7. ASSUME NEW r \in Req, InspectSuccessor(r) PROVE Frame
  BY <1>7 DEF InspectSuccessor, LooksLost, Goto, Frame, TypeOK, Row, ReqState,
       MintedInv, HasRow, ReqInv, ReqOK, OwnNext, Live
<1>8. ASSUME NEW r \in Req, RetireSuccessor(r) PROVE Frame
  <2>1. SameShape
    BY <1>8 DEF RetireSuccessor, Retirable, SameShape, HasRow, TypeOK, Row, ReqState, Live
  <2>2. minted \subseteq minted' /\ known \subseteq known' /\ ended \subseteq ended'
    BY <1>8 DEF RetireSuccessor
  <2> QED
    BY <2>1, <2>2, SameShapeFrame DEF IInv
<1>9. ASSUME NEW r \in Req, NEW s \in Sid, Remint(r, s) PROVE Frame
  BY <1>9 DEF Remint, NewRow, Fresh, Frame, TypeOK, Row, ReqState, MintedInv, HasRow,
       ReqInv, ReqOK, OwnNext, Live
<1>10. ASSUME NEW r \in Req, Link(r) PROVE Frame
  <2>1. SameShape
    BY <1>10 DEF Link, SameShape, HasRow, TypeOK, Row, ReqState, Live
  <2>2. minted \subseteq minted' /\ known \subseteq known' /\ ended \subseteq ended'
    BY <1>10 DEF Link
  <2> QED
    BY <2>1, <2>2, SameShapeFrame DEF IInv
<1>11. ASSUME NEW r \in Req, Burn(r) PROVE Frame
  <2>1. SameShape
    BY <1>11, RevokedShape, InFamily(req[r].fam) \in SUBSET Sid DEF Burn, InFamily
  <2>2. minted \subseteq minted' /\ known \subseteq known' /\ ended \subseteq ended'
    BY <1>11 DEF Burn, NoteEnd
  <2> QED
    BY <2>1, <2>2, SameShapeFrame DEF IInv
<1>12. ASSUME NEW r \in Req, Respond(r) PROVE Frame
  BY <1>12 DEF Respond, Finish, Idle, Frame, TypeOK, Row, ReqState, MintedInv, HasRow,
       ReqInv, ReqOK, OwnNext, Live
<1>13. ASSUME NEW r \in Req, ProviderUnavailable(r) PROVE Frame
  BY <1>13 DEF ProviderUnavailable, Goto, Frame, TypeOK, Row, ReqState, MintedInv,
       HasRow, ReqInv, ReqOK, OwnNext, Live
<1>14. ASSUME NEW r \in Req, UndoRead(r) PROVE Frame
  BY <1>14 DEF UndoRead, Goto, Finish, Idle, Frame, TypeOK, Row, ReqState, MintedInv,
       HasRow, ReqInv, ReqOK, OwnNext, Live
<1>15. ASSUME NEW r \in Req, Restore(r) PROVE Frame
  <2>1. SameShape
    BY <1>15 DEF Restore, Restorable, SameShape, HasRow, TypeOK, Row, ReqState, Live
  <2>2. minted \subseteq minted' /\ known \subseteq known' /\ ended \subseteq ended'
    BY <1>15 DEF Restore
  <2> QED
    BY <2>1, <2>2, SameShapeFrame DEF IInv
<1>16. ASSUME NEW r \in Req, UndoDrop(r) PROVE Frame
  <2>1. CASE rows' = rows
    <3>1. SameShape
      BY <2>1 DEF SameShape, HasRow
    <3> QED
      BY <1>16, <3>1, SameShapeFrame DEF UndoDrop, IInv
  <2>2. CASE rows' = [rows EXCEPT ![req[r].next] = NoRow]
    <3>1. \A s \in Sid : s # req[r].next => rows'[s] = rows[s]
      BY <2>2 DEF TypeOK
    <3>3. req[r].next # None /\ req'[r] # req[r]
      BY <1>16 DEF UndoDrop, ReqInv, ReqOK, HasNext, TypeOK, Finish, Idle
    <3>2. req[r].next \in Sid /\ rows'[req[r].next].st = "absent"
      BY <2>2, <3>3 DEF TypeOK, ReqState, NoRow
    <3>4. \A q \in Req : req'[q] = req[q] => req[q].next # req[r].next
      BY <3>3 DEF OwnNext
    <3> QED
      BY <1>16, <3>1, <3>2, <3>4 DEF UndoDrop, Frame, HasRow, ReqInv, ReqOK, MintedInv,
           TypeOK, ReqState
  <2> QED
    BY <1>16, <2>1, <2>2 DEF UndoDrop
<1>17. ASSUME NEW r \in Req, Abort(r) PROVE Frame
  BY <1>17 DEF Abort, Finish, Idle, Frame, TypeOK, Row, ReqState, MintedInv, HasRow,
       ReqInv, ReqOK, OwnNext, Live
<1>18. ASSUME NEW t \in Sid, Logout(t) PROVE Frame
  <2>1. SameShape
    BY <1>18, RevokedShape, InFamily(rows[t].fam) \in SUBSET Sid DEF Logout, InFamily
  <2>2. minted \subseteq minted' /\ known \subseteq known' /\ ended \subseteq ended'
    BY <1>18 DEF Logout, NoteEnd
  <2> QED
    BY <2>1, <2>2, SameShapeFrame DEF IInv
<1>19. CASE SignOutEverywhere
  <2>1. SameShape
    BY <1>19, RevokedShape, Sid \in SUBSET Sid DEF SignOutEverywhere, InFamily
  <2>2. minted \subseteq minted' /\ known \subseteq known' /\ ended \subseteq ended'
    BY <1>19 DEF SignOutEverywhere, NoteEnd
  <2> QED
    BY <2>1, <2>2, SameShapeFrame DEF IInv
<1>20. ASSUME NEW r \in Req, NEW s \in Sid, AskSignOutOthers(r, s) PROVE Frame
  BY <1>20 DEF AskSignOutOthers, Begin, Frame, TypeOK, Row, ReqState, MintedInv,
       HasRow, ReqInv, ReqOK, OwnNext, Live
<1>21. ASSUME NEW r \in Req, SignOutOthers(r) PROVE Frame
  <2>1. SameShape
    BY <1>21, RevokedShape, Sid \ {req[r].tok} \in SUBSET Sid DEF SignOutOthers, InFamily
  <2>2. minted \subseteq minted' /\ known \subseteq known' /\ ended \subseteq ended'
    BY <1>21 DEF SignOutOthers, NoteEnd
  <2> QED
    BY <2>1, <2>2, SameShapeFrame DEF IInv
<1>22. ASSUME NEW s \in Sid, RevokeDevice(s) PROVE Frame
  <2>1. SameShape
    BY <1>22, RevokedShape, {s} \in SUBSET Sid DEF RevokeDevice, InFamily
  <2>2. minted \subseteq minted' /\ known \subseteq known' /\ ended \subseteq ended'
    BY <1>22 DEF RevokeDevice
  <2> QED
    BY <2>1, <2>2, SameShapeFrame DEF IInv
<1>23. ASSUME NEW s \in Sid, MarkUsed(s) PROVE Frame
  BY <1>23 DEF MarkUsed, Frame, TypeOK, Row, ReqState, MintedInv, HasRow, ReqInv,
       ReqOK, OwnNext, Live
<1>24. ASSUME NEW s \in Sid, Age(s) PROVE Frame
  BY <1>24 DEF Age, Frame, TypeOK, Row, ReqState, MintedInv, HasRow, ReqInv, ReqOK,
       OwnNext, Live
<1>25. CASE PurgeExpired
  BY <1>25 DEF PurgeExpired, NoRow, Frame, TypeOK, Row, ReqState, MintedInv, HasRow,
       ReqInv, ReqOK, OwnNext, Live
<1>26. CASE UNCHANGED vars
  BY <1>26 DEF vars, Frame, TypeOK, Row, ReqState, MintedInv, HasRow, ReqInv, ReqOK,
       OwnNext, Live
<1> QED
  BY <1>1, <1>2, <1>3, <1>4, <1>5, <1>6, <1>7, <1>8, <1>9, <1>10, <1>11, <1>12, <1>13,
       <1>14, <1>15, <1>16, <1>17, <1>18, <1>19, <1>20, <1>21, <1>22, <1>23, <1>24,
            <1>25, <1>26 DEF Next, Refresh

(* Ids are handed out once.                                                  *)
LEMMA MintedStep == IInv /\ [Next]_vars => MintedInv'
<1> SUFFICES ASSUME IInv, [Next]_vars PROVE MintedInv'
  OBVIOUS
<1> USE NoneAssumption DEF IInv
<1>0. TypeOK'
  BY TypeStep
<1>f. Frame
  BY FrameStep
<1>1. ASSUME NEW s \in Sid, Login(s) PROVE MintedInv'
  BY <1>1, <1>0 DEF Login, NewRow, Fresh, TypeOK, Row, ReqState, MintedInv, HasRow,
       ReqInv, ReqOK, HasNext, Live
<1>2. ASSUME NEW r \in Req, NEW t \in Sid, Present(r, t) PROVE MintedInv'
  BY <1>2, <1>0 DEF Present, Begin, TypeOK, Row, ReqState, MintedInv, HasRow, ReqInv,
       ReqOK, HasNext, Live
<1>3. ASSUME NEW r \in Req, NEW s \in Sid, CreateSuccessor(r, s) PROVE MintedInv'
  BY <1>3, <1>0 DEF CreateSuccessor, NewRow, Fresh, TypeOK, Row, ReqState, MintedInv,
       HasRow, ReqInv, ReqOK, HasNext, Live
<1>4. ASSUME NEW r \in Req, Claim(r) PROVE MintedInv'
  BY <1>4, <1>0 DEF Claim, Claimable, Goto, TypeOK, Row, ReqState, MintedInv, HasRow,
       ReqInv, ReqOK, HasNext, Live
<1>5. ASSUME NEW r \in Req, DropSuccessor(r) PROVE MintedInv'
  BY <1>5, <1>0 DEF DropSuccessor, NoRow, Goto, TypeOK, Row, ReqState, MintedInv,
       HasRow, ReqInv, ReqOK, HasNext, Live
<1>6. ASSUME NEW r \in Req, Judge(r) PROVE MintedInv'
  BY <1>6, <1>0 DEF Judge, Finish, Idle, TypeOK, Row, ReqState, MintedInv, HasRow,
       ReqInv, ReqOK, HasNext, Live
<1>7. ASSUME NEW r \in Req, InspectSuccessor(r) PROVE MintedInv'
  BY <1>7, <1>0 DEF InspectSuccessor, LooksLost, Goto, TypeOK, Row, ReqState,
       MintedInv, HasRow, ReqInv, ReqOK, HasNext, Live
<1>8. ASSUME NEW r \in Req, RetireSuccessor(r) PROVE MintedInv'
  BY <1>8, <1>0 DEF RetireSuccessor, Retirable, Goto, TypeOK, Row, ReqState, MintedInv,
       HasRow, ReqInv, ReqOK, HasNext, Live
<1>9. ASSUME NEW r \in Req, NEW s \in Sid, Remint(r, s) PROVE MintedInv'
  BY <1>9, <1>0 DEF Remint, NewRow, Fresh, TypeOK, Row, ReqState, MintedInv, HasRow,
       ReqInv, ReqOK, HasNext, Live
<1>10. ASSUME NEW r \in Req, Link(r) PROVE MintedInv'
  BY SMTT(40), <1>10, <1>0 DEF Link, Goto, Finish, Idle, TypeOK, Row, ReqState, MintedInv,
       HasRow, ReqInv, ReqOK, HasNext, Live
<1>11. ASSUME NEW r \in Req, Burn(r) PROVE MintedInv'
  <2>1. SameLinks
    BY <1>11, RevokedEffect, InFamily(req[r].fam) \in SUBSET Sid DEF Burn, InFamily
  <2>2. {req[r].fam} \in SUBSET minted
    BY <1>11 DEF Burn, Families, InFamily, MintedInv, ReqInv, ReqOK, HasRow, TypeOK
  <2>3. minted' = minted /\ known' = known /\ ended' = ended \cup ({req[r].fam})
    BY <1>11 DEF Burn, NoteEnd
  <2> QED
    BY <2>1, <2>2, <2>3, SameLinksMinted
<1>12. ASSUME NEW r \in Req, Respond(r) PROVE MintedInv'
  BY <1>12, <1>0 DEF Respond, Finish, Idle, TypeOK, Row, ReqState, MintedInv, HasRow,
       ReqInv, ReqOK, HasNext, Live
<1>13. ASSUME NEW r \in Req, ProviderUnavailable(r) PROVE MintedInv'
  BY <1>13, <1>0 DEF ProviderUnavailable, Goto, TypeOK, Row, ReqState, MintedInv,
       HasRow, ReqInv, ReqOK, HasNext, Live
<1>14. ASSUME NEW r \in Req, UndoRead(r) PROVE MintedInv'
  <2>1. UNCHANGED <<rows, minted, known, ended>>
    BY <1>14 DEF UndoRead
  <2> QED
    BY <2>1 DEF MintedInv, HasRow
<1>15. ASSUME NEW r \in Req, Restore(r) PROVE MintedInv'
  <2>1. UNCHANGED <<minted, known, ended>>
    BY <1>15 DEF Restore
  <2>2. \A s \in Sid : \/ rows'[s] = rows[s]
                      \/ /\ HasRow(s) /\ HasRow(s)'
                         /\ rows'[s].fam = rows[s].fam /\ rows'[s].repl = None
    BY <1>15 DEF Restore, Restorable, HasRow, TypeOK, Row
  <2> QED
    BY <2>1, <2>2 DEF MintedInv, HasRow
<1>16. ASSUME NEW r \in Req, UndoDrop(r) PROVE MintedInv'
  BY SMTT(40), <1>16, <1>0 DEF UndoDrop, NoRow, Finish, Idle, TypeOK, Row, ReqState, MintedInv,
       HasRow, ReqInv, ReqOK, HasNext, Live
<1>17. ASSUME NEW r \in Req, Abort(r) PROVE MintedInv'
  BY <1>17, <1>0 DEF Abort, Finish, Idle, TypeOK, Row, ReqState, MintedInv, HasRow,
       ReqInv, ReqOK, HasNext, Live
<1>18. ASSUME NEW t \in Sid, Logout(t) PROVE MintedInv'
  <2>1. SameLinks
    BY <1>18, RevokedEffect, InFamily(rows[t].fam) \in SUBSET Sid DEF Logout, InFamily
  <2>2. {rows[t].fam} \in SUBSET minted
    BY <1>18 DEF Logout, Families, InFamily, MintedInv, ReqInv, ReqOK, HasRow, TypeOK
  <2>3. minted' = minted /\ known' = known /\ ended' = ended \cup ({rows[t].fam})
    BY <1>18 DEF Logout, NoteEnd
  <2> QED
    BY <2>1, <2>2, <2>3, SameLinksMinted
<1>19. CASE SignOutEverywhere
  <2>1. SameLinks
    BY <1>19, RevokedEffect, Sid \in SUBSET Sid DEF SignOutEverywhere, InFamily
  <2>2. Families \in SUBSET minted
    BY <1>19 DEF SignOutEverywhere, Families, InFamily, MintedInv, ReqInv, ReqOK,
         HasRow, TypeOK
  <2>3. minted' = minted /\ known' = known /\ ended' = ended \cup (Families)
    BY <1>19 DEF SignOutEverywhere, NoteEnd
  <2> QED
    BY <2>1, <2>2, <2>3, SameLinksMinted
<1>20. ASSUME NEW r \in Req, NEW s \in Sid, AskSignOutOthers(r, s) PROVE MintedInv'
  BY <1>20, <1>0 DEF AskSignOutOthers, Begin, TypeOK, Row, ReqState, MintedInv, HasRow,
       ReqInv, ReqOK, HasNext, Live
<1>21. ASSUME NEW r \in Req, SignOutOthers(r) PROVE MintedInv'
  <2>1. SameLinks
    BY <1>21, RevokedEffect, Sid \ {req[r].tok} \in SUBSET Sid DEF SignOutOthers, InFamily
  <2>2. Families \ {req[r].fam} \in SUBSET minted
    BY <1>21 DEF SignOutOthers, Families, InFamily, MintedInv, ReqInv, ReqOK, HasRow, TypeOK
  <2>3. minted' = minted /\ known' = known /\ ended' = ended \cup (Families \ {req[r].fam})
    BY <1>21 DEF SignOutOthers, NoteEnd
  <2> QED
    BY <2>1, <2>2, <2>3, SameLinksMinted
<1>22. ASSUME NEW s \in Sid, RevokeDevice(s) PROVE MintedInv'
  <2>1. SameLinks
    BY <1>22, RevokedEffect, {s} \in SUBSET Sid DEF RevokeDevice, InFamily
  <2>2. minted' = minted /\ known' = known /\ ended' = ended \cup {}
    BY <1>22 DEF RevokeDevice
  <2> QED
    BY <2>1, <2>2, SameLinksMinted, {} \in SUBSET minted
<1>23. ASSUME NEW s \in Sid, MarkUsed(s) PROVE MintedInv'
  BY <1>23, <1>0 DEF MarkUsed, TypeOK, Row, ReqState, MintedInv, HasRow, ReqInv, ReqOK,
       HasNext, Live
<1>24. ASSUME NEW s \in Sid, Age(s) PROVE MintedInv'
  BY <1>24, <1>0 DEF Age, TypeOK, Row, ReqState, MintedInv, HasRow, ReqInv, ReqOK,
       HasNext, Live
<1>25. CASE PurgeExpired
  BY <1>25, <1>0 DEF PurgeExpired, NoRow, TypeOK, Row, ReqState, MintedInv, HasRow,
       ReqInv, ReqOK, HasNext, Live
<1>26. CASE UNCHANGED vars
  BY <1>26, <1>0 DEF vars, TypeOK, Row, ReqState, MintedInv, HasRow, ReqInv, ReqOK,
       HasNext, Live
<1> QED
  BY <1>1, <1>2, <1>3, <1>4, <1>5, <1>6, <1>7, <1>8, <1>9, <1>10, <1>11, <1>12, <1>13,
       <1>14, <1>15, <1>16, <1>17, <1>18, <1>19, <1>20, <1>21, <1>22, <1>23, <1>24,
            <1>25, <1>26 DEF Next, Refresh

(* A row and its replacement stay in one family.                             *)
LEMMA PointerStep == IInv /\ [Next]_vars => PointerInv'
<1> SUFFICES ASSUME IInv, [Next]_vars PROVE PointerInv'
  OBVIOUS
<1> USE NoneAssumption DEF IInv
<1>0. TypeOK'
  BY TypeStep
<1>f. Frame
  BY FrameStep
<1>1. ASSUME NEW s \in Sid, Login(s) PROVE PointerInv'
  BY <1>1, <1>f DEF Login, NewRow, Fresh, Frame, TypeOK, Row, PointerInv, MintedInv,
       HasRow, ReqInv, ReqOK, HasNext, Live
<1>2. ASSUME NEW r \in Req, NEW t \in Sid, Present(r, t) PROVE PointerInv'
  BY <1>2, <1>f DEF Present, Begin, Frame, TypeOK, Row, PointerInv, MintedInv, HasRow,
       ReqInv, ReqOK, HasNext, Live
<1>3. ASSUME NEW r \in Req, NEW s \in Sid, CreateSuccessor(r, s) PROVE PointerInv'
  BY <1>3, <1>f DEF CreateSuccessor, NewRow, Fresh, Frame, TypeOK, Row, PointerInv,
       MintedInv, HasRow, ReqInv, ReqOK, HasNext, Live
<1>4. ASSUME NEW r \in Req, Claim(r) PROVE PointerInv'
  BY <1>4, <1>f DEF Claim, Claimable, Goto, Frame, TypeOK, Row, PointerInv, MintedInv,
       HasRow, ReqInv, ReqOK, HasNext, Live
<1>5. ASSUME NEW r \in Req, DropSuccessor(r) PROVE PointerInv'
  BY SMTT(40), <1>5, <1>f DEF DropSuccessor, NoRow, Goto, Frame, TypeOK, Row, PointerInv,
       MintedInv, HasRow, ReqInv, ReqOK, HasNext, Live
<1>6. ASSUME NEW r \in Req, Judge(r) PROVE PointerInv'
  BY <1>6, <1>f DEF Judge, Finish, Idle, Frame, TypeOK, Row, PointerInv, MintedInv,
       HasRow, ReqInv, ReqOK, HasNext, Live
<1>7. ASSUME NEW r \in Req, InspectSuccessor(r) PROVE PointerInv'
  BY <1>7, <1>f DEF InspectSuccessor, LooksLost, Goto, Frame, TypeOK, Row, PointerInv,
       MintedInv, HasRow, ReqInv, ReqOK, HasNext, Live
<1>8. ASSUME NEW r \in Req, RetireSuccessor(r) PROVE PointerInv'
  BY <1>8, <1>f DEF RetireSuccessor, Retirable, Goto, Frame, TypeOK, Row, PointerInv,
       MintedInv, HasRow, ReqInv, ReqOK, HasNext, Live
<1>9. ASSUME NEW r \in Req, NEW s \in Sid, Remint(r, s) PROVE PointerInv'
  BY <1>9, <1>f DEF Remint, NewRow, Fresh, Frame, TypeOK, Row, PointerInv, MintedInv,
       HasRow, ReqInv, ReqOK, HasNext, Live
<1>10. ASSUME NEW r \in Req, Link(r) PROVE PointerInv'
  BY <1>10, <1>f DEF Link, Goto, Finish, Idle, Frame, TypeOK, Row, PointerInv,
       MintedInv, HasRow, ReqInv, ReqOK, HasNext, Live
<1>11. ASSUME NEW r \in Req, Burn(r) PROVE PointerInv'
  <2>1. SameLinks
    BY <1>11, RevokedEffect, InFamily(req[r].fam) \in SUBSET Sid DEF Burn, InFamily
  <2> QED
    BY <2>1, SameLinksPointer
<1>12. ASSUME NEW r \in Req, Respond(r) PROVE PointerInv'
  BY <1>12, <1>f DEF Respond, Finish, Idle, Frame, TypeOK, Row, PointerInv, MintedInv,
       HasRow, ReqInv, ReqOK, HasNext, Live
<1>13. ASSUME NEW r \in Req, ProviderUnavailable(r) PROVE PointerInv'
  BY <1>13, <1>f DEF ProviderUnavailable, Goto, Frame, TypeOK, Row, PointerInv,
       MintedInv, HasRow, ReqInv, ReqOK, HasNext, Live
<1>14. ASSUME NEW r \in Req, UndoRead(r) PROVE PointerInv'
  BY <1>14, <1>f DEF UndoRead, Goto, Finish, Idle, Frame, TypeOK, Row, PointerInv,
       MintedInv, HasRow, ReqInv, ReqOK, HasNext, Live
<1>15. ASSUME NEW r \in Req, Restore(r) PROVE PointerInv'
  BY <1>15, <1>f DEF Restore, Restorable, Goto, Finish, Idle, Frame, TypeOK, Row,
       PointerInv, MintedInv, HasRow, ReqInv, ReqOK, HasNext, Live
<1>16. ASSUME NEW r \in Req, UndoDrop(r) PROVE PointerInv'
  BY <1>16, <1>f DEF UndoDrop, NoRow, Finish, Idle, Frame, TypeOK, Row, PointerInv,
       MintedInv, HasRow, ReqInv, ReqOK, HasNext, Live
<1>17. ASSUME NEW r \in Req, Abort(r) PROVE PointerInv'
  BY <1>17, <1>f DEF Abort, Finish, Idle, Frame, TypeOK, Row, PointerInv, MintedInv,
       HasRow, ReqInv, ReqOK, HasNext, Live
<1>18. ASSUME NEW t \in Sid, Logout(t) PROVE PointerInv'
  <2>1. SameLinks
    BY <1>18, RevokedEffect, InFamily(rows[t].fam) \in SUBSET Sid DEF Logout, InFamily
  <2> QED
    BY <2>1, SameLinksPointer
<1>19. CASE SignOutEverywhere
  <2>1. SameLinks
    BY <1>19, RevokedEffect, Sid \in SUBSET Sid DEF SignOutEverywhere, InFamily
  <2> QED
    BY <2>1, SameLinksPointer
<1>20. ASSUME NEW r \in Req, NEW s \in Sid, AskSignOutOthers(r, s) PROVE PointerInv'
  BY <1>20, <1>f DEF AskSignOutOthers, Begin, Frame, TypeOK, Row, PointerInv,
       MintedInv, HasRow, ReqInv, ReqOK, HasNext, Live
<1>21. ASSUME NEW r \in Req, SignOutOthers(r) PROVE PointerInv'
  <2>1. SameLinks
    BY <1>21, RevokedEffect, Sid \ {req[r].tok} \in SUBSET Sid DEF SignOutOthers, InFamily
  <2> QED
    BY <2>1, SameLinksPointer
<1>22. ASSUME NEW s \in Sid, RevokeDevice(s) PROVE PointerInv'
  <2>1. SameLinks
    BY <1>22, RevokedEffect, {s} \in SUBSET Sid DEF RevokeDevice, InFamily
  <2> QED
    BY <2>1, SameLinksPointer
<1>23. ASSUME NEW s \in Sid, MarkUsed(s) PROVE PointerInv'
  BY <1>23, <1>f DEF MarkUsed, Frame, TypeOK, Row, PointerInv, MintedInv, HasRow,
       ReqInv, ReqOK, HasNext, Live
<1>24. ASSUME NEW s \in Sid, Age(s) PROVE PointerInv'
  BY <1>24, <1>f DEF Age, Frame, TypeOK, Row, PointerInv, MintedInv, HasRow, ReqInv,
       ReqOK, HasNext, Live
<1>25. CASE PurgeExpired
  BY <1>25, <1>f DEF PurgeExpired, NoRow, Frame, TypeOK, Row, PointerInv, MintedInv,
       HasRow, ReqInv, ReqOK, HasNext, Live
<1>26. CASE UNCHANGED vars
  BY <1>26, <1>f DEF vars, Frame, TypeOK, Row, PointerInv, MintedInv, HasRow, ReqInv,
       ReqOK, HasNext, Live
<1> QED
  BY <1>1, <1>2, <1>3, <1>4, <1>5, <1>6, <1>7, <1>8, <1>9, <1>10, <1>11, <1>12, <1>13,
       <1>14, <1>15, <1>16, <1>17, <1>18, <1>19, <1>20, <1>21, <1>22, <1>23, <1>24,
            <1>25, <1>26 DEF Next, Refresh

(* No two requests created the same row.                                     *)
LEMMA OwnNextStep == IInv /\ [Next]_vars => OwnNext'
<1> SUFFICES ASSUME IInv, [Next]_vars PROVE OwnNext'
  OBVIOUS
<1> USE NoneAssumption DEF IInv
<1>0. TypeOK'
  BY TypeStep
<1>f. Frame
  BY FrameStep
<1>1. ASSUME NEW s \in Sid, Login(s) PROVE OwnNext'
  BY <1>1 DEF Login, NewRow, Fresh, TypeOK, ReqState, MintedInv, ReqInv, ReqOK, OwnNext
<1>2. ASSUME NEW r \in Req, NEW t \in Sid, Present(r, t) PROVE OwnNext'
  BY <1>2 DEF Present, Begin, TypeOK, ReqState, MintedInv, ReqInv, ReqOK, OwnNext
<1>3. ASSUME NEW r \in Req, NEW s \in Sid, CreateSuccessor(r, s) PROVE OwnNext'
  BY <1>3 DEF CreateSuccessor, NewRow, Fresh, TypeOK, ReqState, MintedInv, ReqInv,
       ReqOK, OwnNext
<1>4. ASSUME NEW r \in Req, Claim(r) PROVE OwnNext'
  BY <1>4 DEF Claim, Claimable, Goto, TypeOK, ReqState, MintedInv, ReqInv, ReqOK, OwnNext
<1>5. ASSUME NEW r \in Req, DropSuccessor(r) PROVE OwnNext'
  BY <1>5 DEF DropSuccessor, NoRow, Goto, TypeOK, ReqState, MintedInv, ReqInv, ReqOK,
       OwnNext
<1>6. ASSUME NEW r \in Req, Judge(r) PROVE OwnNext'
  BY <1>6 DEF Judge, Finish, Idle, TypeOK, ReqState, MintedInv, ReqInv, ReqOK, OwnNext
<1>7. ASSUME NEW r \in Req, InspectSuccessor(r) PROVE OwnNext'
  BY <1>7 DEF InspectSuccessor, LooksLost, Goto, TypeOK, ReqState, MintedInv, ReqInv,
       ReqOK, OwnNext
<1>8. ASSUME NEW r \in Req, RetireSuccessor(r) PROVE OwnNext'
  BY <1>8 DEF RetireSuccessor, Retirable, Goto, TypeOK, ReqState, MintedInv, ReqInv,
       ReqOK, OwnNext
<1>9. ASSUME NEW r \in Req, NEW s \in Sid, Remint(r, s) PROVE OwnNext'
  BY <1>9 DEF Remint, NewRow, Fresh, TypeOK, ReqState, MintedInv, ReqInv, ReqOK, OwnNext
<1>10. ASSUME NEW r \in Req, Link(r) PROVE OwnNext'
  BY <1>10 DEF Link, Goto, Finish, Idle, TypeOK, ReqState, MintedInv, ReqInv, ReqOK, OwnNext
<1>11. ASSUME NEW r \in Req, Burn(r) PROVE OwnNext'
  BY <1>11 DEF Burn, Revoked, InFamily, Finish, Idle, NoteEnd, TypeOK, ReqState,
       MintedInv, ReqInv, ReqOK, OwnNext
<1>12. ASSUME NEW r \in Req, Respond(r) PROVE OwnNext'
  BY <1>12 DEF Respond, Finish, Idle, TypeOK, ReqState, MintedInv, ReqInv, ReqOK, OwnNext
<1>13. ASSUME NEW r \in Req, ProviderUnavailable(r) PROVE OwnNext'
  BY <1>13 DEF ProviderUnavailable, Goto, TypeOK, ReqState, MintedInv, ReqInv, ReqOK,
       OwnNext
<1>14. ASSUME NEW r \in Req, UndoRead(r) PROVE OwnNext'
  BY <1>14 DEF UndoRead, Goto, Finish, Idle, TypeOK, ReqState, MintedInv, ReqInv,
       ReqOK, OwnNext
<1>15. ASSUME NEW r \in Req, Restore(r) PROVE OwnNext'
  BY <1>15 DEF Restore, Restorable, Goto, Finish, Idle, TypeOK, ReqState, MintedInv,
       ReqInv, ReqOK, OwnNext
<1>16. ASSUME NEW r \in Req, UndoDrop(r) PROVE OwnNext'
  BY <1>16 DEF UndoDrop, NoRow, Finish, Idle, TypeOK, ReqState, MintedInv, ReqInv,
       ReqOK, OwnNext
<1>17. ASSUME NEW r \in Req, Abort(r) PROVE OwnNext'
  BY <1>17 DEF Abort, Finish, Idle, TypeOK, ReqState, MintedInv, ReqInv, ReqOK, OwnNext
<1>18. ASSUME NEW t \in Sid, Logout(t) PROVE OwnNext'
  BY <1>18 DEF Logout, Revoked, InFamily, NoteEnd, TypeOK, ReqState, MintedInv, ReqInv,
       ReqOK, OwnNext
<1>19. CASE SignOutEverywhere
  BY <1>19 DEF SignOutEverywhere, Revoked, NoteEnd, Families, InFamily, TypeOK,
       ReqState, MintedInv, ReqInv, ReqOK, OwnNext
<1>20. ASSUME NEW r \in Req, NEW s \in Sid, AskSignOutOthers(r, s) PROVE OwnNext'
  BY <1>20 DEF AskSignOutOthers, Begin, TypeOK, ReqState, MintedInv, ReqInv, ReqOK, OwnNext
<1>21. ASSUME NEW r \in Req, SignOutOthers(r) PROVE OwnNext'
  BY <1>21 DEF SignOutOthers, Revoked, Finish, Idle, NoteEnd, Families, InFamily,
       TypeOK, ReqState, MintedInv, ReqInv, ReqOK, OwnNext
<1>22. ASSUME NEW s \in Sid, RevokeDevice(s) PROVE OwnNext'
  BY <1>22 DEF RevokeDevice, Revoked, TypeOK, ReqState, MintedInv, ReqInv, ReqOK, OwnNext
<1>23. ASSUME NEW s \in Sid, MarkUsed(s) PROVE OwnNext'
  BY <1>23 DEF MarkUsed, TypeOK, ReqState, MintedInv, ReqInv, ReqOK, OwnNext
<1>24. ASSUME NEW s \in Sid, Age(s) PROVE OwnNext'
  BY <1>24 DEF Age, TypeOK, ReqState, MintedInv, ReqInv, ReqOK, OwnNext
<1>25. CASE PurgeExpired
  BY <1>25 DEF PurgeExpired, NoRow, TypeOK, ReqState, MintedInv, ReqInv, ReqOK, OwnNext
<1>26. CASE UNCHANGED vars
  BY <1>26 DEF vars, TypeOK, ReqState, MintedInv, ReqInv, ReqOK, OwnNext
<1> QED
  BY <1>1, <1>2, <1>3, <1>4, <1>5, <1>6, <1>7, <1>8, <1>9, <1>10, <1>11, <1>12, <1>13,
       <1>14, <1>15, <1>16, <1>17, <1>18, <1>19, <1>20, <1>21, <1>22, <1>23, <1>24,
            <1>25, <1>26 DEF Next, Refresh

(* A request that does not move keeps its invariant.                         *)
LEMMA ReqFrame ==
    ASSUME IInv, TypeOK', Frame, NEW q \in Req, req'[q] = req[q]
    PROVE  ReqOK(q)'
<1> USE DEF IInv, TypeOK, ReqState, Frame, MintedInv, ReqInv
<1>1. ReqOK(q) /\ req[q] \in ReqState
  OBVIOUS
<1>2. /\ req[q].pc = "idle" => req[q] = Idle
      /\ req[q].pc # "idle" => req[q].tok \in known' /\ req[q].fam \in minted'
  BY <1>1 DEF ReqOK
<1>3. req[q].tok # None =>
        (rows'[req[q].tok].st # "absent" => rows'[req[q].tok].fam = req[q].fam)
  BY <1>1 DEF ReqOK, Idle, HasRow
<1>4. req[q].succ # None => /\ req[q].succ \in minted'
                            /\ rows'[req[q].succ].st # "absent" => rows'[req[q].succ].fam = req[q].fam
  BY <1>1 DEF ReqOK, HasRow
<1>5. req[q].next # None => /\ req[q].next \in minted'
                            /\ rows'[req[q].next].st # "absent" => /\ rows'[req[q].next].fam = req[q].fam
                                                                    /\ rows'[req[q].next].age # "expired"
  BY <1>1 DEF ReqOK, HasRow
<1>6. /\ req[q].pc \in {"reuse", "retire"} => req[q].succ # None
      /\ req[q].pc \in HasNext => req[q].next # None
      /\ req[q].pc \in KeepsNext => rows'[req[q].next].st # "absent"
  BY <1>1 DEF ReqOK, HasRow, KeepsNext, HasNext
<1> QED
  BY <1>2, <1>3, <1>4, <1>5, <1>6 DEF ReqOK, HasRow, Idle

(* A request that finished remembers nothing.                               *)
LEMMA ReqIdle ==
    ASSUME NEW r \in Req, req'[r] = Idle
    PROVE  ReqOK(r)'
  BY NoneAssumption DEF ReqOK, Idle, HasNext, KeepsNext

(* A request that only moves on, in a table that keeps its shape.           *)
LEMMA ReqMoves ==
    ASSUME IInv, SameShape, minted' = minted, known' = known,
           NEW r \in Req, req[r].pc # "idle", NEW p \in PC \ {"idle"},
           req' = [req EXCEPT ![r].pc = p],
           p \in {"reuse", "retire"} => req[r].pc \in {"reuse", "retire"},
           p \in HasNext => req[r].pc \in HasNext,
           p \in KeepsNext => req[r].pc \in KeepsNext
    PROVE  ReqOK(r)'
<1> USE DEF IInv, TypeOK, ReqState
<1>1. ReqOK(r) /\ MintedInv
  BY DEF ReqInv
<1>2. /\ req'[r].pc = p /\ req'[r].tok = req[r].tok /\ req'[r].fam = req[r].fam
      /\ req'[r].succ = req[r].succ /\ req'[r].next = req[r].next
  OBVIOUS
<1>3. req[r].tok \in known /\ req[r].fam \in minted
  BY <1>1 DEF ReqOK
<1>4. req[r].tok # None =>
        (rows'[req[r].tok].st # "absent" => rows'[req[r].tok].fam = req[r].fam)
  BY <1>1 DEF ReqOK, HasRow, SameShape
<1>5. req[r].succ # None => /\ req[r].succ \in minted
                            /\ rows'[req[r].succ].st # "absent" => rows'[req[r].succ].fam = req[r].fam
  BY <1>1 DEF ReqOK, HasRow, SameShape
<1>6. req[r].next # None => /\ req[r].next \in minted
                            /\ rows'[req[r].next].st # "absent" => /\ rows'[req[r].next].fam = req[r].fam
                                                                    /\ rows'[req[r].next].age # "expired"
  BY <1>1 DEF ReqOK, HasRow, SameShape
<1>7. /\ p \in {"reuse", "retire"} => req[r].succ # None
      /\ p \in HasNext => req[r].next # None
  BY <1>1 DEF ReqOK
<1>8. p \in KeepsNext => rows'[req[r].next].st # "absent"
  <2> SUFFICES ASSUME p \in KeepsNext PROVE rows'[req[r].next].st # "absent"
    OBVIOUS
  <2>1. HasRow(req[r].next) /\ req[r].next # None
    BY <1>1 DEF ReqOK, KeepsNext, HasNext
  <2> QED
    BY <2>1 DEF HasRow, SameShape
<1> QED
  BY <1>2, <1>3, <1>4, <1>5, <1>6, <1>7, <1>8 DEF ReqOK, HasRow

(* What a request remembers stays true.                                     *)
LEMMA ReqStep == IInv /\ [Next]_vars => ReqInv'
<1> SUFFICES ASSUME IInv, [Next]_vars PROVE ReqInv'
  OBVIOUS
<1> USE NoneAssumption DEF IInv
<1>0. TypeOK' /\ MintedInv'
  BY TypeStep, MintedStep
<1>f. Frame
  BY FrameStep
<1>g. ASSUME NEW r \in Req, ReqOK(r)', \A q \in Req : q # r => req'[q] = req[q] PROVE ReqInv'
  BY <1>0, <1>f, <1>g, ReqFrame DEF ReqInv
<1>h. ASSUME req' = req PROVE ReqInv'
  BY <1>0, <1>f, <1>h, ReqFrame DEF ReqInv
<1>1. ASSUME NEW s \in Sid, Login(s) PROVE ReqInv'
  BY <1>1, <1>h DEF Login
<1>2. ASSUME NEW r \in Req, NEW t \in Sid, Present(r, t) PROVE ReqInv'
  <2>1. ReqOK(r)'
    BY <1>2, <1>0, <1>f DEF Present, Begin, TypeOK, Row, ReqState, ReqInv, ReqOK,
         MintedInv, PointerInv, HasRow, HasNext, KeepsNext, Live, Frame
  <2>2. \A q \in Req : q # r => req'[q] = req[q]
    BY <1>2 DEF Present, TypeOK, Begin
  <2> QED
    BY <2>1, <2>2, <1>g
<1>3. ASSUME NEW r \in Req, NEW s \in Sid, CreateSuccessor(r, s) PROVE ReqInv'
  <2>1. ReqOK(r)'
    BY <1>3, <1>0, <1>f DEF CreateSuccessor, NewRow, Fresh, TypeOK, Row, ReqState,
         ReqInv, ReqOK, MintedInv, PointerInv, HasRow, HasNext, KeepsNext, Live, Frame
  <2>2. \A q \in Req : q # r => req'[q] = req[q]
    BY <1>3 DEF CreateSuccessor, TypeOK
  <2> QED
    BY <2>1, <2>2, <1>g
<1>4. ASSUME NEW r \in Req, Claim(r) PROVE ReqInv'
  <2>1. ReqOK(r)'
    <3>1. SameShape /\ minted' = minted /\ known' = known /\ req[r].pc # "idle"
      BY <1>4 DEF Claim, Claimable, SameShape, TypeOK, Row, ReqState, Live
    <3>2. CASE Claimable(req[r].tok)
      <4>1. req' = [req EXCEPT ![r].pc = "provider"]
        BY <1>4, <3>2 DEF Claim, Goto
      <4> QED
        BY <1>4, <3>1, <4>1, ReqMoves DEF Claim, PC, HasNext, KeepsNext
    <3>3. CASE ~(Claimable(req[r].tok))
      <4>1. req' = [req EXCEPT ![r].pc = "drop"]
        BY <1>4, <3>3 DEF Claim, Goto
      <4> QED
        BY <1>4, <3>1, <4>1, ReqMoves DEF Claim, PC, HasNext, KeepsNext
    <3> QED
      BY <3>2, <3>3
  <2>2. \A q \in Req : q # r => req'[q] = req[q]
    BY <1>4 DEF Claim, TypeOK, Goto
  <2> QED
    BY <2>1, <2>2, <1>g
<1>5. ASSUME NEW r \in Req, DropSuccessor(r) PROVE ReqInv'
  <2>1. ReqOK(r)'
    BY <1>5, <1>0, <1>f DEF DropSuccessor, NoRow, Goto, TypeOK, Row, ReqState, ReqInv,
         ReqOK, MintedInv, PointerInv, HasRow, HasNext, KeepsNext, Live, Frame
  <2>2. \A q \in Req : q # r => req'[q] = req[q]
    BY <1>5 DEF DropSuccessor, TypeOK, Goto
  <2> QED
    BY <2>1, <2>2, <1>g
<1>6. ASSUME NEW r \in Req, Judge(r) PROVE ReqInv'
  <2>1. ReqOK(r)'
    BY <1>6, <1>0, <1>f DEF Judge, Finish, Idle, TypeOK, Row, ReqState, ReqInv, ReqOK,
         MintedInv, PointerInv, HasRow, HasNext, KeepsNext, Live, Frame
  <2>2. \A q \in Req : q # r => req'[q] = req[q]
    BY <1>6 DEF Judge, TypeOK, Finish
  <2> QED
    BY <2>1, <2>2, <1>g
<1>7. ASSUME NEW r \in Req, InspectSuccessor(r) PROVE ReqInv'
  <2>1. ReqOK(r)'
    <3>1. SameShape /\ minted' = minted /\ known' = known /\ req[r].pc # "idle"
      BY <1>7 DEF InspectSuccessor, LooksLost, SameShape, TypeOK, Row, ReqState, Live
    <3>2. CASE rows[req[r].tok].age # "expired" /\ LooksLost(req[r].succ)
      <4>1. req' = [req EXCEPT ![r].pc = "retire"]
        BY <1>7, <3>2 DEF InspectSuccessor, Goto
      <4> QED
        BY <1>7, <3>1, <4>1, ReqMoves DEF InspectSuccessor, PC, HasNext, KeepsNext
    <3>3. CASE ~(rows[req[r].tok].age # "expired" /\ LooksLost(req[r].succ))
      <4>1. req' = [req EXCEPT ![r].pc = "burn"]
        BY <1>7, <3>3 DEF InspectSuccessor, Goto
      <4> QED
        BY <1>7, <3>1, <4>1, ReqMoves DEF InspectSuccessor, PC, HasNext, KeepsNext
    <3> QED
      BY <3>2, <3>3
  <2>2. \A q \in Req : q # r => req'[q] = req[q]
    BY <1>7 DEF InspectSuccessor, TypeOK, Goto
  <2> QED
    BY <2>1, <2>2, <1>g
<1>8. ASSUME NEW r \in Req, RetireSuccessor(r) PROVE ReqInv'
  <2>1. ReqOK(r)'
    <3>1. SameShape /\ minted' = minted /\ known' = known /\ req[r].pc # "idle"
      BY <1>8 DEF RetireSuccessor, Retirable, SameShape, TypeOK, Row, ReqState, Live
    <3>2. CASE Retirable(req[r].succ)
      <4>1. req' = [req EXCEPT ![r].pc = "remint"]
        BY <1>8, <3>2 DEF RetireSuccessor, Goto
      <4> QED
        BY <1>8, <3>1, <4>1, ReqMoves DEF RetireSuccessor, PC, HasNext, KeepsNext
    <3>3. CASE ~(Retirable(req[r].succ))
      <4>1. req' = [req EXCEPT ![r].pc = "burn"]
        BY <1>8, <3>3 DEF RetireSuccessor, Goto
      <4> QED
        BY <1>8, <3>1, <4>1, ReqMoves DEF RetireSuccessor, PC, HasNext, KeepsNext
    <3> QED
      BY <3>2, <3>3
  <2>2. \A q \in Req : q # r => req'[q] = req[q]
    BY <1>8 DEF RetireSuccessor, TypeOK, Goto
  <2> QED
    BY <2>1, <2>2, <1>g
<1>9. ASSUME NEW r \in Req, NEW s \in Sid, Remint(r, s) PROVE ReqInv'
  <2>1. ReqOK(r)'
    BY <1>9, <1>0, <1>f DEF Remint, NewRow, Fresh, TypeOK, Row, ReqState, ReqInv,
         ReqOK, MintedInv, PointerInv, HasRow, HasNext, KeepsNext, Live, Frame
  <2>2. \A q \in Req : q # r => req'[q] = req[q]
    BY <1>9 DEF Remint, TypeOK
  <2> QED
    BY <2>1, <2>2, <1>g
<1>10. ASSUME NEW r \in Req, Link(r) PROVE ReqInv'
  <2>1. ReqOK(r)'
    <3>1. CASE req'[r] = Idle
      BY <3>1 DEF Idle, ReqOK, HasNext, KeepsNext
    <3>2. CASE req'[r] # Idle
      <4>1. /\ req' = [req EXCEPT ![r].pc = "provider"]
            /\ known' = known /\ minted' = minted
        BY <1>10, <3>2 DEF Link, Goto, Finish, TypeOK
      <4>2. /\ req'[r].pc = "provider"
            /\ req'[r].tok = req[r].tok /\ req'[r].fam = req[r].fam
            /\ req'[r].succ = req[r].succ /\ req'[r].next = req[r].next
        BY <4>1 DEF TypeOK, ReqState
      <4>3. \A s \in Sid : /\ HasRow(s)' <=> HasRow(s)
                          /\ rows'[s].fam = rows[s].fam /\ rows'[s].age = rows[s].age
        BY <1>10 DEF Link, HasRow, TypeOK, Row
      <4>4. req[r].pc = "link" /\ ReqOK(r)
        BY <1>10 DEF Link, ReqInv
      <4>5. /\ req[r].tok \in Sid \cup {None} /\ req[r].succ \in Sid \cup {None}
            /\ req[r].next \in Sid \cup {None}
        BY DEF TypeOK, ReqState
      <4> QED
        BY <4>1, <4>2, <4>3, <4>4, <4>5 DEF ReqOK, HasNext, KeepsNext, HasRow
    <3> QED
      BY <3>1, <3>2
  <2>2. \A q \in Req : q # r => req'[q] = req[q]
    BY <1>10 DEF Link, TypeOK, Goto, Finish
  <2> QED
    BY <2>1, <2>2, <1>g
<1>11. ASSUME NEW r \in Req, Burn(r) PROVE ReqInv'
  <2>1. ReqOK(r)'
    BY <1>11, ReqIdle DEF Burn, Finish, TypeOK
  <2>2. \A q \in Req : q # r => req'[q] = req[q]
    BY <1>11 DEF Burn, TypeOK, Finish
  <2> QED
    BY <2>1, <2>2, <1>g
<1>12. ASSUME NEW r \in Req, Respond(r) PROVE ReqInv'
  <2>1. ReqOK(r)'
    BY <1>12, <1>0, <1>f DEF Respond, Finish, Idle, TypeOK, Row, ReqState, ReqInv,
         ReqOK, MintedInv, PointerInv, HasRow, HasNext, KeepsNext, Live, Frame
  <2>2. \A q \in Req : q # r => req'[q] = req[q]
    BY <1>12 DEF Respond, TypeOK, Finish
  <2> QED
    BY <2>1, <2>2, <1>g
<1>13. ASSUME NEW r \in Req, ProviderUnavailable(r) PROVE ReqInv'
  <2>1. ReqOK(r)'
    BY <1>13, <1>0, <1>f DEF ProviderUnavailable, Goto, TypeOK, Row, ReqState, ReqInv,
         ReqOK, MintedInv, PointerInv, HasRow, HasNext, KeepsNext, Live, Frame
  <2>2. \A q \in Req : q # r => req'[q] = req[q]
    BY <1>13 DEF ProviderUnavailable, TypeOK, Goto
  <2> QED
    BY <2>1, <2>2, <1>g
<1>14. ASSUME NEW r \in Req, UndoRead(r) PROVE ReqInv'
  <2>1. ReqOK(r)'
    BY <1>14, <1>0, <1>f DEF UndoRead, Goto, Finish, Idle, TypeOK, Row, ReqState,
         ReqInv, ReqOK, MintedInv, PointerInv, HasRow, HasNext, KeepsNext, Live, Frame
  <2>2. \A q \in Req : q # r => req'[q] = req[q]
    BY <1>14 DEF UndoRead, TypeOK, Goto, Finish
  <2> QED
    BY <2>1, <2>2, <1>g
<1>15. ASSUME NEW r \in Req, Restore(r) PROVE ReqInv'
  <2>1. ReqOK(r)'
    <3>1. SameShape /\ minted' = minted /\ known' = known /\ req[r].pc # "idle"
      BY <1>15 DEF Restore, Restorable, SameShape, TypeOK, Row, ReqState, Live
    <3>2. CASE Restorable(req[r].tok, req[r].next)
      <4>1. req' = [req EXCEPT ![r].pc = "undoDrop"]
        BY <1>15, <3>2 DEF Restore, Goto
      <4> QED
        BY <1>15, <3>1, <4>1, ReqMoves DEF Restore, PC, HasNext, KeepsNext
    <3>3. CASE ~(Restorable(req[r].tok, req[r].next))
      BY <1>15, <3>3, ReqIdle DEF Restore, Finish, TypeOK
    <3> QED
      BY <3>2, <3>3
  <2>2. \A q \in Req : q # r => req'[q] = req[q]
    BY <1>15 DEF Restore, TypeOK, Goto, Finish
  <2> QED
    BY <2>1, <2>2, <1>g
<1>16. ASSUME NEW r \in Req, UndoDrop(r) PROVE ReqInv'
  <2>1. ReqOK(r)'
    BY <1>16, <1>0, <1>f DEF UndoDrop, NoRow, Finish, Idle, TypeOK, Row, ReqState,
         ReqInv, ReqOK, MintedInv, PointerInv, HasRow, HasNext, KeepsNext, Live, Frame
  <2>2. \A q \in Req : q # r => req'[q] = req[q]
    BY <1>16 DEF UndoDrop, TypeOK, Finish
  <2> QED
    BY <2>1, <2>2, <1>g
<1>17. ASSUME NEW r \in Req, Abort(r) PROVE ReqInv'
  <2>1. ReqOK(r)'
    BY <1>17, <1>0, <1>f DEF Abort, Finish, Idle, TypeOK, Row, ReqState, ReqInv, ReqOK,
         MintedInv, PointerInv, HasRow, HasNext, KeepsNext, Live, Frame
  <2>2. \A q \in Req : q # r => req'[q] = req[q]
    BY <1>17 DEF Abort, TypeOK, Finish
  <2> QED
    BY <2>1, <2>2, <1>g
<1>18. ASSUME NEW t \in Sid, Logout(t) PROVE ReqInv'
  BY <1>18, <1>h DEF Logout
<1>19. CASE SignOutEverywhere
  BY <1>19, <1>h DEF SignOutEverywhere
<1>20. ASSUME NEW r \in Req, NEW s \in Sid, AskSignOutOthers(r, s) PROVE ReqInv'
  <2>1. ReqOK(r)'
    BY <1>20, <1>0, <1>f DEF AskSignOutOthers, Begin, TypeOK, Row, ReqState, ReqInv,
         ReqOK, MintedInv, PointerInv, HasRow, HasNext, KeepsNext, Live, Frame
  <2>2. \A q \in Req : q # r => req'[q] = req[q]
    BY <1>20 DEF AskSignOutOthers, TypeOK, Begin
  <2> QED
    BY <2>1, <2>2, <1>g
<1>21. ASSUME NEW r \in Req, SignOutOthers(r) PROVE ReqInv'
  <2>1. ReqOK(r)'
    BY <1>21, ReqIdle DEF SignOutOthers, Finish, TypeOK
  <2>2. \A q \in Req : q # r => req'[q] = req[q]
    BY <1>21 DEF SignOutOthers, TypeOK, Finish
  <2> QED
    BY <2>1, <2>2, <1>g
<1>22. ASSUME NEW s \in Sid, RevokeDevice(s) PROVE ReqInv'
  BY <1>22, <1>h DEF RevokeDevice
<1>23. ASSUME NEW s \in Sid, MarkUsed(s) PROVE ReqInv'
  BY <1>23, <1>h DEF MarkUsed
<1>24. ASSUME NEW s \in Sid, Age(s) PROVE ReqInv'
  BY <1>24, <1>h DEF Age
<1>25. CASE PurgeExpired
  BY <1>25, <1>h DEF PurgeExpired
<1>26. CASE UNCHANGED vars
  BY <1>26, <1>h DEF vars
<1> QED
  BY <1>1, <1>2, <1>3, <1>4, <1>5, <1>6, <1>7, <1>8, <1>9, <1>10, <1>11, <1>12, <1>13,
       <1>14, <1>15, <1>16, <1>17, <1>18, <1>19, <1>20, <1>21, <1>22, <1>23, <1>24,
            <1>25, <1>26 DEF Next, Refresh

(* Nothing is live in a family that was not signed out before this step, so *)
(* no row of it can be an orphan somebody else refers to.                   *)
LEMMA EndShuts ==
    ASSUME IInv, TypeOK', NEW F \in SUBSET Sid, NEW S \in SUBSET Sid,
           NoteEnd(F), rows' = Revoked(S), known' = known,
           \A s \in Sid : rows[s].st = "live" /\ rows[s].fam \in F => s \in S,
           \A r \in Req : \/ req'[r] = req[r]
                          \/ req'[r] = Idle
    PROVE  ClosedInv'
<1> USE NoneAssumption DEF IInv
<1>1. /\ SameLinks
      /\ \A s \in Sid : rows'[s].st = "live" <=> rows[s].st = "live" /\ s \notin S
  BY RevokedEffect
<1> SUFFICES ASSUME NEW f \in Sid, f \in ended' \ raced'
             PROVE  WindowShut(f)' /\ OrphansOnly(f)'
  BY DEF ClosedInv
<1>2. CASE f \in F
  <2>1. ~OpenWindow(f)
    BY <1>2 DEF NoteEnd
  <2>2. WindowShut(f)'
    BY <2>1 DEF WindowShut, OpenWindow, Idle
  <2>3. \A s \in Sid : rows'[s].st = "live" => rows'[s].fam # f
    BY <1>1, <1>2 DEF SameLinks
  <2> QED
    BY <2>2, <2>3 DEF OrphansOnly
<1>3. CASE f \notin F
  <2>1. WindowShut(f) /\ OrphansOnly(f)
    BY <1>3 DEF NoteEnd, ClosedInv
  <2>2. WindowShut(f)'
    BY <2>1 DEF WindowShut, Idle
  <2>3. OrphansOnly(f)'
    BY <1>1, <2>1 DEF OrphansOnly, SameLinks, Idle
  <2> QED
    BY <2>2, <2>3
<1> QED
  BY <1>2, <1>3

(* A signed-out family stays shut: no step opens a window for it, and no     *)
(* step makes one of its rows live that anybody else can reach.             *)
LEMMA ClosedStep == IInv /\ [Next]_vars => ClosedInv'
<1> SUFFICES ASSUME IInv, [Next]_vars PROVE ClosedInv'
  OBVIOUS
<1> USE NoneAssumption DEF IInv
<1>0. TypeOK'
  BY TypeStep
<1>f. Frame
  BY FrameStep
<1>k. ASSUME ended' = ended, raced' = raced,
             \A f \in Sid : f \in ended \ raced /\ WindowShut(f) /\ OrphansOnly(f)
                           => WindowShut(f)' /\ OrphansOnly(f)'
      PROVE  ClosedInv'
  BY <1>k DEF ClosedInv
<1>1. ASSUME NEW s \in Sid, Login(s) PROVE ClosedInv'
  <2>1. ASSUME NEW f \in Sid, f \in ended \ raced, WindowShut(f),
       OrphansOnly(f) PROVE WindowShut(f)'
    BY <1>1, <2>1 DEF Login, NewRow, Fresh, TypeOK, ReqState, Row, Live, WindowShut,
         OrphansOnly, ReqInv, ReqOK, MintedInv, HasRow, KeepsNext, HasNext
  <2>2. ASSUME NEW f \in Sid, f \in ended \ raced, WindowShut(f),
       OrphansOnly(f) PROVE OrphansOnly(f)'
    BY <1>1, <2>2 DEF Login, NewRow, Fresh, TypeOK, ReqState, Row, Live, WindowShut,
         OrphansOnly, ReqInv, ReqOK, MintedInv, HasRow, KeepsNext, HasNext
  <2> QED
    BY <1>1, <2>1, <2>2, <1>k DEF Login
<1>2. ASSUME NEW r \in Req, NEW t \in Sid, Present(r, t) PROVE ClosedInv'
  <2>1. ASSUME NEW f \in Sid, f \in ended \ raced, WindowShut(f),
       OrphansOnly(f) PROVE WindowShut(f)'
    BY <1>2, <2>1 DEF Present, Begin, TypeOK, WindowShut
  <2>2. ASSUME NEW f \in Sid, f \in ended \ raced, WindowShut(f),
       OrphansOnly(f) PROVE OrphansOnly(f)'
    BY SMTT(40), <1>2, <2>2 DEF Present, Begin, TypeOK, ReqState, Row, Live, WindowShut,
         OrphansOnly, ReqInv, ReqOK, MintedInv, HasRow, KeepsNext, HasNext
  <2> QED
    BY <1>2, <2>1, <2>2, <1>k DEF Present
<1>3. ASSUME NEW r \in Req, NEW s \in Sid, CreateSuccessor(r, s) PROVE ClosedInv'
  <2>1. ASSUME NEW f \in Sid, f \in ended \ raced, WindowShut(f),
       OrphansOnly(f) PROVE WindowShut(f)'
    BY <1>3, <2>1 DEF CreateSuccessor, NewRow, Fresh, TypeOK, ReqState, Row, Live,
         WindowShut, OrphansOnly, ReqInv, ReqOK, MintedInv, HasRow, KeepsNext, HasNext
  <2>2. ASSUME NEW f \in Sid, f \in ended \ raced, WindowShut(f),
       OrphansOnly(f) PROVE OrphansOnly(f)'
    BY <1>3, <2>2 DEF CreateSuccessor, NewRow, Fresh, TypeOK, ReqState, Row, Live,
         WindowShut, OrphansOnly, ReqInv, ReqOK, MintedInv, HasRow, KeepsNext, HasNext
  <2> QED
    BY <1>3, <2>1, <2>2, <1>k DEF CreateSuccessor
<1>4. ASSUME NEW r \in Req, Claim(r) PROVE ClosedInv'
  <2>1. ASSUME NEW f \in Sid, f \in ended \ raced, WindowShut(f),
       OrphansOnly(f) PROVE WindowShut(f)'
    BY <1>4, <2>1 DEF Claim, Goto, TypeOK, ReqState, WindowShut
  <2>2. ASSUME NEW f \in Sid, f \in ended \ raced, WindowShut(f),
       OrphansOnly(f) PROVE OrphansOnly(f)'
    <3>1. req[r].pc = "claim" /\ ReqOK(r) /\ req[r].tok \in known /\ req[r].tok \in Sid
          /\ req[r].next # None /\ req[r].next \in Sid /\ HasRow(req[r].next)
      BY <1>4 DEF Claim, ReqInv, ReqOK, MintedInv, TypeOK, KeepsNext, HasNext
    <3>2. req'[r].pc \in {"provider", "drop"} /\ \A q \in Req : q # r => req'[q] = req[q]
      BY <1>4 DEF Claim, Goto, TypeOK, ReqState
    <3>3. req'[r].succ = req[r].succ /\ req'[r].next = req[r].next
      BY <1>4 DEF Claim, Goto, TypeOK, ReqState
    <3>4. CASE Claimable(req[r].tok)
      <4>1. req[r].fam # f /\ rows[req[r].next].fam # f
        BY <2>2, <3>1, <3>4 DEF Claimable, Live, OrphansOnly, ReqOK, HasRow
      <4>2. \A s \in Sid : /\ rows'[s].st = "live" => rows[s].st = "live"
                           /\ rows'[s].fam = rows[s].fam
                           /\ rows'[s].repl \in {rows[s].repl, req[r].next}
        BY <1>4, <3>4 DEF Claim, TypeOK, Row
      <4> QED
        BY <1>4, <2>2, <3>2, <3>3, <4>1, <4>2 DEF Claim, OrphansOnly
    <3>5. CASE ~Claimable(req[r].tok)
      <4>1. rows' = rows /\ req'[r].pc = "drop" /\ known' = known
        BY <1>4, <3>5 DEF Claim, Goto, TypeOK, ReqState
      <4> QED
        BY <2>2, <3>1, <3>2, <3>3, <4>1 DEF OrphansOnly
    <3> QED
      BY <3>4, <3>5
  <2> QED
    BY <1>4, <2>1, <2>2, <1>k DEF Claim
<1>5. ASSUME NEW r \in Req, DropSuccessor(r) PROVE ClosedInv'
  <2>1. ASSUME NEW f \in Sid, f \in ended \ raced, WindowShut(f),
       OrphansOnly(f) PROVE WindowShut(f)'
    <3>1. req'[r].pc = "judge" /\ \A q \in Req : q # r => req'[q] = req[q]
      BY <1>5 DEF DropSuccessor, Goto, TypeOK, ReqState
    <3> QED
      BY <2>1, <3>1 DEF WindowShut
  <2>2. ASSUME NEW f \in Sid, f \in ended \ raced, WindowShut(f),
       OrphansOnly(f) PROVE OrphansOnly(f)'
    <3>1. /\ req'[r].pc = "judge" /\ req'[r].succ = req[r].succ /\ req'[r].next = req[r].next
          /\ \A q \in Req : q # r => req'[q] = req[q]
          /\ known' = known
      BY <1>5 DEF DropSuccessor, Goto, TypeOK, ReqState
    <3>2. \A s \in Sid : \/ rows'[s] = rows[s]
                         \/ rows'[s] = NoRow
      BY <1>5 DEF DropSuccessor, TypeOK
    <3> QED
      BY <2>2, <3>1, <3>2 DEF OrphansOnly, NoRow
  <2> QED
    BY <1>5, <2>1, <2>2, <1>k DEF DropSuccessor
<1>6. ASSUME NEW r \in Req, Judge(r) PROVE ClosedInv'
  <2>1. ASSUME NEW f \in Sid, f \in ended \ raced, WindowShut(f),
       OrphansOnly(f) PROVE WindowShut(f)'
    <3>1. req'[r].pc \notin {"remint", "restore"} /\ \A q \in Req : q # r => req'[q] = req[q]
      BY <1>6 DEF Judge, Finish, Idle, TypeOK, ReqState
    <3> QED
      BY <2>1, <3>1 DEF WindowShut
  <2>2. ASSUME NEW f \in Sid, f \in ended \ raced, WindowShut(f),
       OrphansOnly(f) PROVE OrphansOnly(f)'
    BY <1>6, <2>2 DEF Judge, Finish, Idle, TypeOK, ReqState, Row, Live, WindowShut,
         OrphansOnly, ReqInv, ReqOK, MintedInv, HasRow, KeepsNext, HasNext
  <2> QED
    BY <1>6, <2>1, <2>2, <1>k DEF Judge
<1>7. ASSUME NEW r \in Req, InspectSuccessor(r) PROVE ClosedInv'
  <2>1. ASSUME NEW f \in Sid, f \in ended \ raced, WindowShut(f),
       OrphansOnly(f) PROVE WindowShut(f)'
    <3>1. req'[r].pc \notin {"remint", "restore"} /\ \A q \in Req : q # r => req'[q] = req[q]
      BY <1>7 DEF InspectSuccessor, Goto, TypeOK, ReqState
    <3> QED
      BY <2>1, <3>1 DEF WindowShut
  <2>2. ASSUME NEW f \in Sid, f \in ended \ raced, WindowShut(f),
       OrphansOnly(f) PROVE OrphansOnly(f)'
    <3>1. /\ req[r].pc = "reuse" /\ ReqOK(r) /\ rows' = rows /\ known' = known
          /\ req'[r].succ = req[r].succ /\ req'[r].next = req[r].next
          /\ \A q \in Req : q # r => req'[q] = req[q]
      BY <1>7 DEF InspectSuccessor, Goto, TypeOK, ReqState, ReqInv
    <3>2. \A s \in Sid : req[r].next = s => ~(rows[s].st = "live" /\ rows[s].fam = f)
      BY <2>2, <3>1 DEF OrphansOnly
    <3> QED
      BY <2>2, <3>1, <3>2 DEF OrphansOnly
  <2> QED
    BY <1>7, <2>1, <2>2, <1>k DEF InspectSuccessor
<1>8. ASSUME NEW r \in Req, RetireSuccessor(r) PROVE ClosedInv'
  <2>1. ASSUME NEW f \in Sid, f \in ended \ raced, WindowShut(f),
       OrphansOnly(f) PROVE WindowShut(f)'
    <3>1. req[r].succ # None /\ ReqOK(r) /\ req[r].succ \in Sid
      BY <1>8 DEF RetireSuccessor, ReqInv, ReqOK, MintedInv, TypeOK
    <3>2. Retirable(req[r].succ) => req[r].fam # f
      BY <2>1, <3>1 DEF Retirable, Live, OrphansOnly, ReqOK, HasRow
    <3> QED
      BY <1>8, <2>1, <3>2 DEF RetireSuccessor, Goto, TypeOK, ReqState, WindowShut
  <2>2. ASSUME NEW f \in Sid, f \in ended \ raced, WindowShut(f),
       OrphansOnly(f) PROVE OrphansOnly(f)'
    <3>1. /\ req[r].pc = "retire" /\ req'[r].succ = req[r].succ /\ req'[r].next = req[r].next
          /\ \A q \in Req : q # r => req'[q] = req[q]
          /\ known' = known
      BY <1>8 DEF RetireSuccessor, Goto, TypeOK, ReqState
    <3>2. \A s \in Sid : /\ rows'[s].st = "live" => rows[s].st = "live"
                         /\ rows'[s].fam = rows[s].fam
                         /\ rows'[s].repl = rows[s].repl
      BY <1>8 DEF RetireSuccessor, TypeOK, Row
    <3> QED
      BY <2>2, <3>1, <3>2 DEF OrphansOnly
  <2> QED
    BY <1>8, <2>1, <2>2, <1>k DEF RetireSuccessor
<1>9. ASSUME NEW r \in Req, NEW s \in Sid, Remint(r, s) PROVE ClosedInv'
  <2>1. ASSUME NEW f \in Sid, f \in ended \ raced, WindowShut(f),
       OrphansOnly(f) PROVE WindowShut(f)'
    BY <1>9, <2>1 DEF Remint, NewRow, Fresh, TypeOK, ReqState, Row, Live, WindowShut,
         OrphansOnly, ReqInv, ReqOK, MintedInv, HasRow, KeepsNext, HasNext
  <2>2. ASSUME NEW f \in Sid, f \in ended \ raced, WindowShut(f),
       OrphansOnly(f) PROVE OrphansOnly(f)'
    BY <1>9, <2>2 DEF Remint, NewRow, Fresh, TypeOK, ReqState, Row, Live, WindowShut,
         OrphansOnly, ReqInv, ReqOK, MintedInv, HasRow, KeepsNext, HasNext
  <2> QED
    BY <1>9, <2>1, <2>2, <1>k DEF Remint
<1>10. ASSUME NEW r \in Req, Link(r) PROVE ClosedInv'
  <2>1. ASSUME NEW f \in Sid, f \in ended \ raced, WindowShut(f),
       OrphansOnly(f) PROVE WindowShut(f)'
    BY <1>10, <2>1 DEF Link, Goto, Finish, Idle, TypeOK, ReqState, WindowShut
  <2>2. ASSUME NEW f \in Sid, f \in ended \ raced, WindowShut(f),
       OrphansOnly(f) PROVE OrphansOnly(f)'
    <3>1. /\ req[r].pc = "link"
          /\ \/ req'[r] = Idle
             \/ (req'[r].succ = req[r].succ /\ req'[r].next = req[r].next)
          /\ \A q \in Req : q # r => req'[q] = req[q]
          /\ known' = known
      <4>1. req[r].pc = "link" /\ known' = known
        BY <1>10 DEF Link, WindowShut
      <4>2. \/ req' = [req EXCEPT ![r] = Idle]
            \/ \E p \in PC : req' = [req EXCEPT ![r].pc = p]
        BY <1>10 DEF Link, Goto, Finish, PC
      <4> QED
        BY <4>1, <4>2 DEF TypeOK, ReqState
    <3>2. \A s \in Sid : /\ rows'[s].st = "live" => rows[s].st = "live"
                         /\ rows'[s].fam = rows[s].fam
                         /\ rows'[s].repl \in {rows[s].repl, req[r].next}
      BY <1>10 DEF Link, TypeOK, Row
    <3> QED
      BY <2>2, <3>1, <3>2 DEF OrphansOnly, Idle
  <2> QED
    BY <1>10, <2>1, <2>2, <1>k DEF Link
<1>11. ASSUME NEW r \in Req, Burn(r) PROVE ClosedInv'
  <2>1. {req[r].fam} \in SUBSET Sid /\ InFamily(req[r].fam) \in SUBSET Sid
    BY <1>11 DEF Burn, Families, InFamily, MintedInv, ReqInv, ReqOK, HasRow, TypeOK
  <2>2. NoteEnd({req[r].fam}) /\ rows' = Revoked(InFamily(req[r].fam)) /\ known' = known
    BY <1>11 DEF Burn
  <2>3. \A x \in Sid : rows[x].st = "live" /\ rows[x].fam \in {req[r].fam} => x \in InFamily(req[r].fam)
    BY <1>11 DEF Burn, InFamily, ReqInv, ReqOK, HasRow, TypeOK
  <2>4. \A q \in Req : req'[q] = req[q] \/ req'[q] = Idle
    BY <1>11 DEF Burn, Finish, TypeOK
  <2> QED
    BY <1>0, <2>1, <2>2, <2>3, <2>4, EndShuts
<1>12. ASSUME NEW r \in Req, Respond(r) PROVE ClosedInv'
  <2>1. ASSUME NEW f \in Sid, f \in ended \ raced, WindowShut(f),
       OrphansOnly(f) PROVE WindowShut(f)'
    BY <1>12, <2>1 DEF Respond, Finish, Idle, TypeOK, ReqState, Row, Live, WindowShut,
         OrphansOnly, ReqInv, ReqOK, MintedInv, HasRow, KeepsNext, HasNext
  <2>2. ASSUME NEW f \in Sid, f \in ended \ raced, WindowShut(f),
       OrphansOnly(f) PROVE OrphansOnly(f)'
    BY <1>12, <2>2 DEF Respond, Finish, Idle, TypeOK, ReqState, Row, Live, WindowShut,
         OrphansOnly, ReqInv, ReqOK, MintedInv, HasRow, KeepsNext, HasNext
  <2> QED
    BY <1>12, <2>1, <2>2, <1>k DEF Respond
<1>13. ASSUME NEW r \in Req, ProviderUnavailable(r) PROVE ClosedInv'
  <2>1. ASSUME NEW f \in Sid, f \in ended \ raced, WindowShut(f),
       OrphansOnly(f) PROVE WindowShut(f)'
    BY <1>13, <2>1 DEF ProviderUnavailable, Goto, TypeOK, ReqState, Row, Live,
         WindowShut, OrphansOnly, ReqInv, ReqOK, MintedInv, HasRow, KeepsNext, HasNext
  <2>2. ASSUME NEW f \in Sid, f \in ended \ raced, WindowShut(f),
       OrphansOnly(f) PROVE OrphansOnly(f)'
    BY <1>13, <2>2 DEF ProviderUnavailable, Goto, TypeOK, ReqState, Row, Live,
         WindowShut, OrphansOnly, ReqInv, ReqOK, MintedInv, HasRow, KeepsNext, HasNext
  <2> QED
    BY <1>13, <2>1, <2>2, <1>k DEF ProviderUnavailable
<1>14. ASSUME NEW r \in Req, UndoRead(r) PROVE ClosedInv'
  <2>1. ASSUME NEW f \in Sid, f \in ended \ raced, WindowShut(f),
       OrphansOnly(f) PROVE WindowShut(f)'
    <3>1. req[r].pc = "undoRead" /\ ReqOK(r)
      BY <1>14 DEF UndoRead, ReqInv
    <3>2. req[r].next # None /\ req[r].next \in Sid /\ HasRow(req[r].next)
      BY <3>1 DEF ReqOK, MintedInv, TypeOK, KeepsNext, HasNext
    <3>3. rows[req[r].next].st # "revoked" => req[r].fam # f
      BY <2>1, <3>1, <3>2 DEF OrphansOnly, ReqOK, HasRow, TypeOK, Row
    <3> QED
      BY <1>14, <2>1, <3>3 DEF UndoRead, Goto, Finish, Idle, TypeOK, ReqState, WindowShut
  <2>2. ASSUME NEW f \in Sid, f \in ended \ raced, WindowShut(f),
       OrphansOnly(f) PROVE OrphansOnly(f)'
    BY SMTT(40), <1>14, <2>2 DEF UndoRead, Goto, Finish, Idle, TypeOK, ReqState, Row, Live,
         WindowShut, OrphansOnly, ReqInv, ReqOK, MintedInv, HasRow, KeepsNext, HasNext
  <2> QED
    BY <1>14, <2>1, <2>2, <1>k DEF UndoRead
<1>15. ASSUME NEW r \in Req, Restore(r) PROVE ClosedInv'
  <2>1. ASSUME NEW f \in Sid, f \in ended \ raced, WindowShut(f),
       OrphansOnly(f) PROVE WindowShut(f)'
    BY SMTT(40), <1>15, <2>1 DEF Restore, Restorable, Goto, Finish, Idle, TypeOK, ReqState, Row,
         Live, WindowShut, OrphansOnly, ReqInv, ReqOK, MintedInv, HasRow, KeepsNext, HasNext
  <2>2. ASSUME NEW f \in Sid, f \in ended \ raced, WindowShut(f),
       OrphansOnly(f) PROVE OrphansOnly(f)'
    <3>1. /\ req[r].pc = "restore" /\ req[r].fam # f
          /\ \/ req'[r] = Idle
             \/ (req'[r].succ = req[r].succ /\ req'[r].next = req[r].next)
          /\ \A q \in Req : q # r => req'[q] = req[q]
          /\ known' = known
      <4>1. req[r].pc = "restore" /\ req[r].fam # f /\ known' = known
        BY <1>15, <2>2 DEF Restore, WindowShut
      <4>2. \/ req' = [req EXCEPT ![r] = Idle]
            \/ \E p \in PC : req' = [req EXCEPT ![r].pc = p]
        BY <1>15 DEF Restore, Goto, Finish, PC
      <4> QED
        BY <4>1, <4>2 DEF TypeOK, ReqState
    <3>2. \A s \in Sid : /\ rows'[s].st = "live" => rows[s].st = "live" \/ s = req[r].tok
                         /\ rows'[s].fam = rows[s].fam
                         /\ rows'[s].repl \in {rows[s].repl, None}
      BY <1>15 DEF Restore, TypeOK, Row
    <3>3. req[r].tok \in Sid /\ rows'[req[r].tok].st = "live" => rows[req[r].tok].fam # f
      BY <1>15, <3>1, <3>2 DEF Restore, Restorable, ReqInv, ReqOK, MintedInv, HasRow, TypeOK
    <3> QED
      BY <2>2, <3>1, <3>2, <3>3 DEF OrphansOnly, Idle
  <2> QED
    BY <1>15, <2>1, <2>2, <1>k DEF Restore
<1>16. ASSUME NEW r \in Req, UndoDrop(r) PROVE ClosedInv'
  <2>1. ASSUME NEW f \in Sid, f \in ended \ raced, WindowShut(f),
       OrphansOnly(f) PROVE WindowShut(f)'
    BY <1>16, <2>1 DEF UndoDrop, NoRow, Finish, Idle, TypeOK, ReqState, Row, Live,
         WindowShut, OrphansOnly, ReqInv, ReqOK, MintedInv, HasRow, KeepsNext, HasNext
  <2>2. ASSUME NEW f \in Sid, f \in ended \ raced, WindowShut(f),
       OrphansOnly(f) PROVE OrphansOnly(f)'
    BY SMTT(40), <1>16, <2>2 DEF UndoDrop, NoRow, Finish, Idle, TypeOK, ReqState, Row, Live,
         WindowShut, OrphansOnly, ReqInv, ReqOK, MintedInv, HasRow, KeepsNext, HasNext
  <2> QED
    BY <1>16, <2>1, <2>2, <1>k DEF UndoDrop
<1>17. ASSUME NEW r \in Req, Abort(r) PROVE ClosedInv'
  <2>1. ASSUME NEW f \in Sid, f \in ended \ raced, WindowShut(f),
       OrphansOnly(f) PROVE WindowShut(f)'
    BY <1>17, <2>1 DEF Abort, Finish, Idle, TypeOK, ReqState, Row, Live, WindowShut,
         OrphansOnly, ReqInv, ReqOK, MintedInv, HasRow, KeepsNext, HasNext
  <2>2. ASSUME NEW f \in Sid, f \in ended \ raced, WindowShut(f),
       OrphansOnly(f) PROVE OrphansOnly(f)'
    BY <1>17, <2>2 DEF Abort, Finish, Idle, TypeOK, ReqState, Row, Live, WindowShut,
         OrphansOnly, ReqInv, ReqOK, MintedInv, HasRow, KeepsNext, HasNext
  <2> QED
    BY <1>17, <2>1, <2>2, <1>k DEF Abort
<1>18. ASSUME NEW t \in Sid, Logout(t) PROVE ClosedInv'
  <2>1. {rows[t].fam} \in SUBSET Sid /\ InFamily(rows[t].fam) \in SUBSET Sid
    BY <1>18 DEF Logout, Families, InFamily, MintedInv, ReqInv, ReqOK, HasRow, TypeOK
  <2>2. NoteEnd({rows[t].fam}) /\ rows' = Revoked(InFamily(rows[t].fam)) /\ known' = known
    BY <1>18 DEF Logout
  <2>3. \A x \in Sid : rows[x].st = "live" /\ rows[x].fam \in {rows[t].fam} => x \in InFamily(rows[t].fam)
    BY <1>18 DEF Logout, InFamily, ReqInv, ReqOK, HasRow, TypeOK
  <2>4. \A q \in Req : req'[q] = req[q] \/ req'[q] = Idle
    BY <1>18 DEF Logout, Finish, TypeOK
  <2> QED
    BY <1>0, <2>1, <2>2, <2>3, <2>4, EndShuts
<1>19. CASE SignOutEverywhere
  <2>1. Families \in SUBSET Sid /\ Sid \in SUBSET Sid
    BY <1>19 DEF SignOutEverywhere, Families, InFamily, MintedInv, ReqInv, ReqOK,
         HasRow, TypeOK
  <2>2. NoteEnd(Families) /\ rows' = Revoked(Sid) /\ known' = known
    BY <1>19 DEF SignOutEverywhere
  <2>3. \A x \in Sid : rows[x].st = "live" /\ rows[x].fam \in Families => x \in Sid
    BY <1>19 DEF SignOutEverywhere, InFamily, ReqInv, ReqOK, HasRow, TypeOK
  <2>4. \A q \in Req : req'[q] = req[q] \/ req'[q] = Idle
    BY <1>19 DEF SignOutEverywhere, Finish, TypeOK
  <2> QED
    BY <1>0, <2>1, <2>2, <2>3, <2>4, EndShuts
<1>20. ASSUME NEW r \in Req, NEW s \in Sid, AskSignOutOthers(r, s) PROVE ClosedInv'
  <2>1. ASSUME NEW f \in Sid, f \in ended \ raced, WindowShut(f),
       OrphansOnly(f) PROVE WindowShut(f)'
    BY <1>20, <2>1 DEF AskSignOutOthers, Begin, TypeOK, ReqState, Row, Live,
         WindowShut, OrphansOnly, ReqInv, ReqOK, MintedInv, HasRow, KeepsNext, HasNext
  <2>2. ASSUME NEW f \in Sid, f \in ended \ raced, WindowShut(f),
       OrphansOnly(f) PROVE OrphansOnly(f)'
    BY <1>20, <2>2 DEF AskSignOutOthers, Begin, TypeOK, ReqState, Row, Live,
         WindowShut, OrphansOnly, ReqInv, ReqOK, MintedInv, HasRow, KeepsNext, HasNext
  <2> QED
    BY <1>20, <2>1, <2>2, <1>k DEF AskSignOutOthers
<1>21. ASSUME NEW r \in Req, SignOutOthers(r) PROVE ClosedInv'
  <2>1. (Families \ {req[r].fam}) \in SUBSET Sid /\ (Sid \ {req[r].tok}) \in SUBSET Sid
    BY <1>21 DEF SignOutOthers, Families, InFamily, MintedInv, ReqInv, ReqOK, HasRow, TypeOK
  <2>2. NoteEnd((Families \ {req[r].fam})) /\ rows' = Revoked((Sid \ {req[r].tok})) /\ known' = known
    BY <1>21 DEF SignOutOthers
  <2>3. \A x \in Sid : rows[x].st = "live" /\ rows[x].fam \in (Families \ {req[r].fam}) => x \in (Sid \ {req[r].tok})
    BY <1>21 DEF SignOutOthers, InFamily, ReqInv, ReqOK, HasRow, TypeOK
  <2>4. \A q \in Req : req'[q] = req[q] \/ req'[q] = Idle
    BY <1>21 DEF SignOutOthers, Finish, TypeOK
  <2> QED
    BY <1>0, <2>1, <2>2, <2>3, <2>4, EndShuts
<1>22. ASSUME NEW s \in Sid, RevokeDevice(s) PROVE ClosedInv'
  <2>1. ASSUME NEW f \in Sid, f \in ended \ raced, WindowShut(f),
       OrphansOnly(f) PROVE WindowShut(f)'
    BY <1>22, <2>1 DEF RevokeDevice, Revoked, TypeOK, ReqState, Row, Live, WindowShut,
         OrphansOnly, ReqInv, ReqOK, MintedInv, HasRow, KeepsNext, HasNext
  <2>2. ASSUME NEW f \in Sid, f \in ended \ raced, WindowShut(f),
       OrphansOnly(f) PROVE OrphansOnly(f)'
    <3>1. /\ SameLinks
          /\ \A x \in Sid : rows'[x].st = "live" => rows[x].st = "live"
      BY <1>22, RevokedEffect, {s} \in SUBSET Sid DEF RevokeDevice
    <3>2. req' = req /\ known' = known
      BY <1>22 DEF RevokeDevice
    <3> QED
      BY <2>2, <3>1, <3>2 DEF OrphansOnly, SameLinks
  <2> QED
    BY <1>22, <2>1, <2>2, <1>k DEF RevokeDevice
<1>23. ASSUME NEW s \in Sid, MarkUsed(s) PROVE ClosedInv'
  <2>1. ASSUME NEW f \in Sid, f \in ended \ raced, WindowShut(f),
       OrphansOnly(f) PROVE WindowShut(f)'
    BY <1>23, <2>1 DEF MarkUsed, TypeOK, ReqState, Row, Live, WindowShut, OrphansOnly,
         ReqInv, ReqOK, MintedInv, HasRow, KeepsNext, HasNext
  <2>2. ASSUME NEW f \in Sid, f \in ended \ raced, WindowShut(f),
       OrphansOnly(f) PROVE OrphansOnly(f)'
    BY <1>23, <2>2 DEF MarkUsed, TypeOK, ReqState, Row, Live, WindowShut, OrphansOnly,
         ReqInv, ReqOK, MintedInv, HasRow, KeepsNext, HasNext
  <2> QED
    BY <1>23, <2>1, <2>2, <1>k DEF MarkUsed
<1>24. ASSUME NEW s \in Sid, Age(s) PROVE ClosedInv'
  <2>1. ASSUME NEW f \in Sid, f \in ended \ raced, WindowShut(f),
       OrphansOnly(f) PROVE WindowShut(f)'
    BY <1>24, <2>1 DEF Age, TypeOK, ReqState, Row, Live, WindowShut, OrphansOnly,
         ReqInv, ReqOK, MintedInv, HasRow, KeepsNext, HasNext
  <2>2. ASSUME NEW f \in Sid, f \in ended \ raced, WindowShut(f),
       OrphansOnly(f) PROVE OrphansOnly(f)'
    BY <1>24, <2>2 DEF Age, TypeOK, ReqState, Row, Live, WindowShut, OrphansOnly,
         ReqInv, ReqOK, MintedInv, HasRow, KeepsNext, HasNext
  <2> QED
    BY <1>24, <2>1, <2>2, <1>k DEF Age
<1>25. CASE PurgeExpired
  <2>1. ASSUME NEW f \in Sid, f \in ended \ raced, WindowShut(f),
       OrphansOnly(f) PROVE WindowShut(f)'
    BY <1>25, <2>1 DEF PurgeExpired, NoRow, TypeOK, ReqState, Row, Live, WindowShut,
         OrphansOnly, ReqInv, ReqOK, MintedInv, HasRow, KeepsNext, HasNext
  <2>2. ASSUME NEW f \in Sid, f \in ended \ raced, WindowShut(f),
       OrphansOnly(f) PROVE OrphansOnly(f)'
    BY <1>25, <2>2 DEF PurgeExpired, NoRow, TypeOK, ReqState, Row, Live, WindowShut,
         OrphansOnly, ReqInv, ReqOK, MintedInv, HasRow, KeepsNext, HasNext
  <2> QED
    BY <1>25, <2>1, <2>2, <1>k DEF PurgeExpired
<1>26. CASE UNCHANGED vars
  BY <1>26 DEF vars, ClosedInv, WindowShut, OrphansOnly
<1> QED
  BY <1>1, <1>2, <1>3, <1>4, <1>5, <1>6, <1>7, <1>8, <1>9, <1>10, <1>11, <1>12, <1>13,
       <1>14, <1>15, <1>16, <1>17, <1>18, <1>19, <1>20, <1>21, <1>22, <1>23, <1>24,
            <1>25, <1>26 DEF Next, Refresh

-----------------------------------------------------------------------------
(* The empty table satisfies the invariant.                                 *)
LEMMA InitInv == Init => IInv
  BY NoneAssumption
     DEF Init, IInv, TypeOK, Row, NoRow, ReqState, PC, Idle, MintedInv, HasRow, PointerInv,
         ReqInv, ReqOK, HasNext, KeepsNext, OwnNext, ClosedInv

(* Every step keeps the invariant.                                          *)
LEMMA InvStep == IInv /\ [Next]_vars => IInv'
  BY TypeStep, MintedStep, PointerStep, ReqStep, OwnNextStep, ClosedStep DEF IInv

(* The invariant holds in every state of every behaviour.                   *)
LEMMA InvAlways == Spec => []IInv
  BY InitInv, InvStep, PTL DEF Spec

(* The table, the requests and the history keep their types.                *)
THEOREM TypeCorrect == Spec => []TypeOK
<1>1. IInv => TypeOK
  BY DEF IInv
<1> QED
  BY <1>1, InvAlways, PTL

(* A family that is signed out while no recovery and no undo of it stands   *)
(* between its check and its write has no usable token ever after, whatever *)
(* the requests in flight do.                                               *)
THEOREM SignOutIsFinal == Spec => []SignOutHolds
<1>1. IInv => SignOutHolds
  BY DEF IInv, TypeOK, MintedInv, ClosedInv, OrphansOnly, SignOutHolds, Live
<1> QED
  BY <1>1, InvAlways, PTL

-----------------------------------------------------------------------------
(* Only a row that is revoked has a reason.                                 *)
ReasonInv == \A s \in Sid : rows[s].reason => rows[s].st = "revoked"

(* What a step may do with the reason of a row.                             *)
ReasonStays(s) ==
    /\ rows'[s].reason => rows'[s].st = "revoked"
    /\ rows[s].reason => rows'[s].st # "live"

(* A created row takes an id that was never used, so that it overwrites no  *)
(* reason.                                                                  *)
LEMMA FreshHasNoReason ==
    ASSUME IInv, ReasonInv, NEW s \in Fresh
    PROVE  ~rows[s].reason
  BY DEF IInv, MintedInv, HasRow, ReasonInv, Fresh

(* A sign-out gives reasons, and only to rows it revokes.                   *)
LEMMA RevokedReason ==
    ASSUME TypeOK, ReasonInv, NEW S \in SUBSET Sid, rows' = Revoked(S), NEW s \in Sid
    PROVE  ReasonStays(s)
  BY DEF TypeOK, Row, Revoked, Live, ReasonInv, ReasonStays

(* Of the steps that write a row "live", three create it and the fourth,    *)
(* the restore of an undo, matches only rows without a reason.              *)
LEMMA ReasonStep ==
    ASSUME IInv, ReasonInv, [Next]_vars, NEW s \in Sid
    PROVE  ReasonStays(s)
<1> USE DEF ReasonStays
<1>t. /\ TypeOK
      /\ rows[s].reason => rows[s].st = "revoked"
  BY DEF IInv, ReasonInv
<1>s. ASSUME rows' = rows PROVE ReasonStays(s)
  BY <1>t, <1>s
<1>1. ASSUME NEW n \in Fresh, NEW f, rows' = [rows EXCEPT ![n] = NewRow(f)]
      PROVE  ReasonStays(s)
  BY <1>t, <1>1, FreshHasNoReason DEF NewRow, TypeOK, Fresh
<1>2. ASSUME NEW S \in SUBSET Sid, rows' = Revoked(S) PROVE ReasonStays(s)
  BY <1>t, <1>2, RevokedReason
<1>3. ASSUME NEW n, rows' = [rows EXCEPT ![n] = NoRow] PROVE ReasonStays(s)
  BY <1>t, <1>3 DEF NoRow, TypeOK
<1>4. ASSUME NEW r \in Req, Refresh(r) PROVE ReasonStays(s)
  <2>1. CASE \E n \in Sid : CreateSuccessor(r, n) \/ Remint(r, n)
    BY <2>1, <1>1 DEF CreateSuccessor, Remint
  <2>2. CASE Claim(r)
    BY <2>2, <1>t, <1>s DEF Claim, Claimable, Live, TypeOK, Row
  <2>3. CASE DropSuccessor(r) \/ UndoDrop(r)
    BY <2>3, <1>s, <1>3 DEF DropSuccessor, UndoDrop
  <2>4. CASE RetireSuccessor(r)
    BY <2>4, <1>t, <1>s DEF RetireSuccessor, Retirable, Live, TypeOK, Row
  <2>5. CASE Link(r)
    BY <2>5, <1>t, <1>s DEF Link, TypeOK, Row
  <2>6. CASE Burn(r)
    BY <2>6, <1>2, InFamily(req[r].fam) \in SUBSET Sid DEF Burn, InFamily
  <2>7. CASE Restore(r)
    BY <2>7, <1>t, <1>s DEF Restore, Restorable, TypeOK, Row
  <2>8. CASE \/ \E t \in Sid : Present(r, t)
             \/ Judge(r) \/ InspectSuccessor(r) \/ Respond(r)
             \/ ProviderUnavailable(r) \/ UndoRead(r) \/ Abort(r)
    BY <2>8, <1>s DEF Present, Judge, InspectSuccessor, Respond, ProviderUnavailable,
                      UndoRead, Abort
  <2> QED
    BY <1>4, <2>1, <2>2, <2>3, <2>4, <2>5, <2>6, <2>7, <2>8 DEF Refresh
<1>5. CASE \/ SignOutEverywhere
           \/ \E r \in Req : SignOutOthers(r)
           \/ \E t \in Sid : Logout(t) \/ RevokeDevice(t)
  <2>1. \E S \in SUBSET Sid : rows' = Revoked(S)
    BY <1>5, \A f : InFamily(f) \in SUBSET Sid
       DEF SignOutEverywhere, SignOutOthers, Logout, RevokeDevice, InFamily
  <2> QED
    BY <2>1, <1>2
<1>6. ASSUME NEW n \in Sid, Login(n) PROVE ReasonStays(s)
  BY <1>6, <1>1 DEF Login
<1>7. ASSUME NEW n \in Sid, MarkUsed(n) \/ Age(n) PROVE ReasonStays(s)
  <2>1. rows'[s].st = rows[s].st /\ rows'[s].reason = rows[s].reason
    BY <1>7, <1>t DEF MarkUsed, Age, TypeOK, Row
  <2> QED
    BY <2>1, <1>t
<1>8. CASE PurgeExpired
  BY <1>8, <1>t DEF PurgeExpired, NoRow
<1>9. CASE \/ \E r \in Req, t \in Sid : AskSignOutOthers(r, t)
           \/ UNCHANGED vars
  BY <1>9, <1>s DEF AskSignOutOthers, vars
<1> QED
  BY <1>4, <1>5, <1>6, <1>7, <1>8, <1>9 DEF Next

(* A row that a person or the replay check ended stays ended: no undo, no   *)
(* recovery and no late response makes its token usable again.              *)
THEOREM RevocationIsFinal == Spec => ReasonIsFinal
<1>1. Init => ReasonInv
  BY DEF Init, ReasonInv, NoRow
<1>2. IInv /\ ReasonInv /\ [Next]_vars => ReasonInv'
  BY ReasonStep DEF ReasonInv, ReasonStays
<1>3. IInv /\ ReasonInv /\ [Next]_vars
        => [\A s \in Sid : rows[s].reason => rows'[s].st # "live"]_vars
  BY ReasonStep DEF ReasonStays
<1> QED
  BY <1>1, <1>2, <1>3, InvAlways, PTL DEF Spec, ReasonIsFinal

-----------------------------------------------------------------------------
(* A row that is or may come to be in a client's hands, beside the orphans  *)
(* of lost races.                                                           *)
Handed(s) ==
    \/ s \in known
    \/ \E t \in Sid : rows[t].repl = s
    \/ \E r \in Req : \/ req[r].succ = s
                      \/ req[r].next = s /\ req[r].pc \in {"link", "provider"}

Tip(s) == Live(s) /\ rows[s].fam \notin undone /\ Handed(s)

(* A family without an undo has one tip, or one request that has retired it *)
(* and will create the next, and not both.                                  *)
TipInv ==
    /\ \A s, t \in Sid : Tip(s) /\ Tip(t) /\ rows[s].fam = rows[t].fam => s = t
    /\ \A s \in Sid, r \in Req : Tip(s) /\ req[r].pc = "remint" => rows[s].fam # req[r].fam
    /\ \A q, r \in Req : /\ req[q].pc = "remint" /\ req[r].pc = "remint"
                         /\ req[q].fam = req[r].fam /\ req[q].fam \notin undone
                         => q = r

(* Most steps make no new tip.                                              *)
NoNewTip ==
    /\ \A s \in Sid : Tip(s)' => Tip(s) /\ rows'[s].fam = rows[s].fam
    /\ \A r \in Req : req'[r].pc = "remint" /\ req'[r].fam \notin undone'
                      => req[r].pc = "remint" /\ req'[r].fam = req[r].fam
    /\ undone \subseteq undone'

(* Such a step keeps the invariant.                                         *)
LEMMA NoNewTipStep == TipInv /\ NoNewTip => TipInv'
<1>1. \A s \in Sid : Tip(s)' => rows'[s].fam \notin undone'
  BY DEF Tip
<1> QED
  BY <1>1 DEF TipInv, NoNewTip

(* A sign-out makes no new tip.                                             *)
LEMMA RevokedTip ==
    ASSUME TypeOK, NEW S \in SUBSET Sid, rows' = Revoked(S), known' = known, undone' = undone,
           NEW s \in Sid, Tip(s)',
           \A r \in Req : req'[r] = req[r] \/ req'[r] = Idle
    PROVE  Tip(s) /\ rows'[s].fam = rows[s].fam
<1>1. Live(s) /\ rows'[s].fam = rows[s].fam
  BY RevokedEffect DEF Tip, Live, SameLinks
<1>2. \A t \in Sid : rows'[t].repl = rows[t].repl
  BY RevokedEffect DEF SameLinks
<1>3. Handed(s)
  BY <1>2, NoneAssumption DEF Tip, Handed, Idle
<1> QED
  BY <1>1, <1>3 DEF Tip

(* The steps that make no new tip.                                          *)
LEMMA QuietTip ==
    ASSUME IInv, TipInv, NEW r \in Req, Refresh(r),
           \A t \in Sid : ~Remint(r, t),
           Claim(r) => ~Claimable(req[r].tok),
           RetireSuccessor(r) => ~Retirable(req[r].succ)
    PROVE  NoNewTip
<1> USE NoneAssumption DEF Tip, Handed, Live
<1>t. TypeOK /\ MintedInv /\ ReqInv
  BY DEF IInv
<1>1. ASSUME NEW t \in Sid, Present(r, t) PROVE NoNewTip
  BY SMTT(40), <1>1, <1>t DEF Present, Begin, NoNewTip, TypeOK, ReqState, Row
<1>2. ASSUME NEW n \in Sid, CreateSuccessor(r, n) PROVE NoNewTip
  <2>1. /\ n \notin known
        /\ \A t \in Sid : rows[t].repl # n
        /\ \A q \in Req : req[q].succ # n /\ req[q].next # n
    BY <1>2, <1>t DEF CreateSuccessor, Fresh, MintedInv, ReqInv, ReqOK
  <2>2. /\ \A t \in Sid : t # n => rows'[t] = rows[t]
        /\ rows'[n].repl = None
    BY <1>2, <1>t DEF CreateSuccessor, NewRow, TypeOK
  <2>3. /\ known' = known /\ undone' = undone
        /\ \A q \in Req : q # r => req'[q] = req[q]
        /\ req'[r].succ = req[r].succ /\ req'[r].pc = "claim"
    BY <1>2, <1>t DEF CreateSuccessor, TypeOK, ReqState
  <2>4. \A s \in Sid : Handed(s)' => Handed(s) /\ s # n
    BY <2>1, <2>2, <2>3
  <2> QED
    BY <2>2, <2>3, <2>4 DEF NoNewTip
<1>3. CASE Claim(r)
  BY <1>3, <1>t DEF Claim, Goto, NoNewTip, TypeOK, ReqState
<1>4. CASE DropSuccessor(r)
  <2>1. /\ known' = known /\ undone' = undone
        /\ \A s \in Sid : rows'[s] = rows[s] \/ rows'[s] = NoRow
    BY <1>4, <1>t DEF DropSuccessor, TypeOK
  <2>2. /\ \A q \in Req : req'[q].succ = req[q].succ /\ req'[q].next = req[q].next
        /\ \A q \in Req \ {r} : req'[q] = req[q]
        /\ req'[r].pc = "judge"
    BY <1>4, <1>t DEF DropSuccessor, Goto, TypeOK, ReqState
  <2>3. \A s \in Sid : Handed(s)' => Handed(s)
    BY <2>1, <2>2 DEF NoRow
  <2>4. \A s \in Sid : Live(s)' => Live(s) /\ rows'[s] = rows[s]
    BY <2>1 DEF NoRow
  <2> QED
    BY <2>1, <2>2, <2>3, <2>4 DEF NoNewTip
<1>5. CASE Judge(r)
  <2>1. rows' = rows /\ known' = known /\ undone' = undone
    BY <1>5 DEF Judge
  <2>2. \A q \in Req \ {r} : req'[q] = req[q]
    BY <1>5, <1>t DEF Judge, Finish, TypeOK
  <2>3. \/ req'[r] = Idle
        \/ /\ req'[r].next = None /\ req'[r].pc = "reuse"
           /\ req'[r].succ = rows[req[r].tok].repl /\ req[r].tok \in Sid
    BY <1>5, <1>t DEF Judge, Finish, TypeOK, ReqState, ReqInv, ReqOK, MintedInv
  <2>4. \A s \in Sid : Handed(s)' => Handed(s)
    BY <2>1, <2>2, <2>3 DEF Idle
  <2> QED
    BY <2>1, <2>2, <2>3, <2>4 DEF NoNewTip, Idle
<1>6. CASE InspectSuccessor(r)
  BY <1>6, <1>t DEF InspectSuccessor, Goto, NoNewTip, TypeOK, ReqState
<1>7. CASE RetireSuccessor(r)
  <2>1. rows' = rows /\ known' = known /\ undone' = undone
    BY <1>7 DEF RetireSuccessor
  <2>2. /\ \A q \in Req : req'[q].succ = req[q].succ /\ req'[q].next = req[q].next
        /\ \A q \in Req \ {r} : req'[q] = req[q]
        /\ req'[r].pc = "burn"
    BY <1>7, <1>t DEF RetireSuccessor, Goto, TypeOK, ReqState
  <2> QED
    BY <2>1, <2>2 DEF NoNewTip
<1>8. CASE Link(r)
  <2>1. CASE rows[req[r].tok].st # "absent"
    <3>1. req[r].next \in Sid /\ req[r].pc = "link"
      BY <1>8, <1>t DEF Link, ReqInv, ReqOK, HasNext, TypeOK, ReqState
    <3>2. /\ known' = known /\ undone' = undone
          /\ \A s \in Sid : rows'[s].fam = rows[s].fam /\ rows'[s].st = rows[s].st
          /\ \A s \in Sid : rows'[s].repl \in {rows[s].repl, req[r].next}
      BY <1>8, <1>t, <2>1 DEF Link, TypeOK, Row
    <3>3. /\ \A q \in Req : req'[q].succ = req[q].succ /\ req'[q].next = req[q].next
          /\ \A q \in Req \ {r} : req'[q] = req[q]
          /\ req'[r].pc = "provider"
      BY <1>8, <1>t, <2>1 DEF Link, Goto, TypeOK, ReqState
    <3>4. \A s \in Sid : Handed(s)' => Handed(s)
      BY <3>1, <3>2, <3>3
    <3> QED
      BY <3>2, <3>3, <3>4 DEF NoNewTip
  <2>2. CASE rows[req[r].tok].st = "absent"
    BY <1>8, <1>t, <2>2 DEF Link, Finish, Idle, NoNewTip, TypeOK, ReqState
  <2> QED
    BY <2>1, <2>2
<1>9. CASE Burn(r)
  <2>1. \A q \in Req : req'[q] = req[q] \/ req'[q] = Idle
    BY <1>9, <1>t DEF Burn, Finish, TypeOK
  <2>2. rows' = Revoked(InFamily(req[r].fam)) /\ known' = known /\ undone' = undone
        /\ InFamily(req[r].fam) \in SUBSET Sid
    BY <1>9 DEF Burn, InFamily
  <2>3. \A s \in Sid : Tip(s)' => Tip(s) /\ rows'[s].fam = rows[s].fam
    BY <1>t, <2>1, <2>2, RevokedTip
  <2> QED
    BY <2>1, <2>2, <2>3 DEF NoNewTip, Idle
<1>10. CASE Respond(r)
  BY <1>10, <1>t DEF Respond, Finish, Idle, NoNewTip, TypeOK, ReqState
<1>11. CASE Abort(r)
  BY <1>11, <1>t DEF Abort, Finish, Idle, NoNewTip, TypeOK, ReqState
<1>12. CASE ProviderUnavailable(r)
  BY <1>12, <1>t DEF ProviderUnavailable, Goto, NoNewTip, TypeOK, ReqState
<1>13. CASE UndoRead(r)
  BY <1>13, <1>t DEF UndoRead, Goto, Finish, Idle, NoNewTip, TypeOK, ReqState
<1>14. CASE Restore(r)
  <2>1. CASE Restorable(req[r].tok, req[r].next)
    <3> DEFINE t == req[r].tok
    <3>1. t \in Sid /\ rows[t].fam = req[r].fam
      BY <1>14, <1>t, <2>1 DEF Restore, Restorable, ReqInv, ReqOK, HasRow, MintedInv, TypeOK
    <3>2. /\ \A s \in Sid \ {t} : rows'[s] = rows[s]
          /\ rows'[t].fam = req[r].fam /\ rows'[t].repl = None
          /\ known' = known /\ undone' = undone \cup {req[r].fam}
      BY <1>14, <1>t, <2>1, <3>1 DEF Restore, Restorable, TypeOK, Row
    <3>3. /\ \A q \in Req : req'[q].succ = req[q].succ /\ req'[q].next = req[q].next
          /\ \A q \in Req \ {r} : req'[q] = req[q]
          /\ req'[r].pc = "undoDrop"
      BY <1>14, <1>t, <2>1 DEF Restore, Restorable, Goto, TypeOK, ReqState
    <3>4. \A s \in Sid : Handed(s)' => Handed(s)
      BY <3>2, <3>3
    <3>5. \A s \in Sid : Tip(s)' => s # t
      BY <3>2
    <3> QED
      BY <3>2, <3>3, <3>4, <3>5 DEF NoNewTip
  <2>2. CASE ~Restorable(req[r].tok, req[r].next)
    BY <1>14, <1>t, <2>2 DEF Restore, Finish, Idle, NoNewTip, TypeOK, ReqState
  <2> QED
    BY <2>1, <2>2
<1>15. CASE UndoDrop(r)
  <2>1. /\ known' = known /\ undone' = undone
        /\ \A s \in Sid : rows'[s] = rows[s] \/ rows'[s] = NoRow
    BY <1>15, <1>t DEF UndoDrop, TypeOK
  <2>2. req'[r] = Idle /\ \A q \in Req \ {r} : req'[q] = req[q]
    BY <1>15, <1>t DEF UndoDrop, Finish, TypeOK
  <2>3. \A s \in Sid : Handed(s)' => Handed(s)
    BY <2>1, <2>2 DEF NoRow, Idle
  <2>4. \A s \in Sid : Live(s)' => Live(s) /\ rows'[s] = rows[s]
    BY <2>1 DEF NoRow
  <2> QED
    BY <2>1, <2>2, <2>3, <2>4 DEF NoNewTip, Idle
<1> QED
  BY <1>1, <1>2, <1>3, <1>4, <1>5, <1>6, <1>7, <1>8, <1>9, <1>10, <1>11, <1>12, <1>13, <1>14,
     <1>15 DEF Refresh

(* Nor does a rotation or a recovery of a family with an undo.              *)
LEMMA UndoneTip ==
    ASSUME IInv, NEW r \in Req, req[r].fam \in undone
    PROVE  Claim(r) \/ RetireSuccessor(r) \/ (\E n \in Sid : Remint(r, n)) => NoNewTip
<1> DEFINE f == req[r].fam
<1>t. TypeOK /\ MintedInv /\ ReqInv
  BY DEF IInv
<1>1. CASE Claim(r)
  <2> DEFINE t == req[r].tok
             n == req[r].next
  <2>1. CASE Claimable(t)
    <3>1. t \in Sid /\ n \in Sid /\ rows[t].fam = f /\ rows[n].fam = f
      BY <1>1, <1>t, <2>1, NoneAssumption
         DEF Claim, Claimable, Live, ReqInv, ReqOK, HasNext, KeepsNext, HasRow,
             TypeOK, ReqState
    <3>2. /\ known' = known /\ undone' = undone
          /\ \A s \in Sid : rows'[s].fam = rows[s].fam
          /\ \A s \in Sid \ {t} : rows'[s] = rows[s]
          /\ rows'[t].repl = n
      BY <1>1, <1>t, <2>1, <3>1 DEF Claim, Claimable, TypeOK, Row
    <3>3. /\ \A q \in Req : req'[q].succ = req[q].succ /\ req'[q].next = req[q].next
          /\ \A q \in Req \ {r} : req'[q] = req[q]
          /\ req'[r].pc = "provider"
      <4>1. req' = [req EXCEPT ![r].pc = "provider"]
        BY <1>1, <2>1 DEF Claim, Goto
      <4> QED
        BY <4>1, <1>t DEF TypeOK, ReqState
    <3>4. \A s \in Sid : Tip(s)' => s # t /\ s # n
      BY <3>1, <3>2 DEF Tip
    <3>5. \A s \in Sid : Handed(s)' => Handed(s) \/ s = n
      BY <3>2, <3>3 DEF Handed
    <3> QED
      BY <3>2, <3>3, <3>4, <3>5 DEF NoNewTip, Tip, Live
  <2>2. CASE ~Claimable(t)
    BY <1>1, <1>t, <2>2 DEF Claim, Goto, NoNewTip, Tip, Handed, Live, TypeOK, ReqState
  <2> QED
    BY <2>1, <2>2
<1>2. CASE RetireSuccessor(r)
  <2>1. /\ known' = known /\ undone' = undone
        /\ \A s \in Sid : /\ rows'[s].fam = rows[s].fam /\ rows'[s].repl = rows[s].repl
                          /\ rows'[s].st = "live" => rows[s].st = "live"
    BY <1>2, <1>t DEF RetireSuccessor, TypeOK, Row
  <2>2. /\ \A q \in Req : req'[q].succ = req[q].succ /\ req'[q].next = req[q].next
        /\ \A q \in Req \ {r} : req'[q] = req[q]
        /\ req'[r].pc \in {"remint", "burn"} /\ req'[r].fam = f
    BY <1>2, <1>t DEF RetireSuccessor, Goto, TypeOK, ReqState
  <2>3. \A s \in Sid : Handed(s)' => Handed(s)
    BY <2>1, <2>2 DEF Handed
  <2> QED
    BY <2>1, <2>2, <2>3 DEF NoNewTip, Tip, Live
<1>3. ASSUME NEW n \in Sid, Remint(r, n) PROVE NoNewTip
  <2>1. /\ known' = known /\ undone' = undone
        /\ \A s \in Sid \ {n} : rows'[s] = rows[s]
        /\ rows'[n].fam = f /\ rows'[n].repl = None
    BY <1>3, <1>t DEF Remint, NewRow, TypeOK
  <2>2. /\ \A q \in Req \ {r} : req'[q] = req[q]
        /\ req'[r].succ = req[r].succ /\ req'[r].next = n /\ req'[r].pc = "link"
    BY <1>3, <1>t DEF Remint, TypeOK, ReqState
  <2>3. \A s \in Sid : Handed(s)' => Handed(s) \/ s = n
    BY <2>1, <2>2, NoneAssumption DEF Handed
  <2>4. \A s \in Sid : Tip(s)' => s # n
    BY <2>1 DEF Tip
  <2> QED
    BY <2>1, <2>2, <2>3, <2>4 DEF NoNewTip, Tip, Live
<1> QED
  BY <1>1, <1>2, <1>3

(* The claim of a rotation hands the tip of the family on to the successor. *)
LEMMA ClaimTip ==
    ASSUME IInv, TipInv, NEW r \in Req, Claim(r), Claimable(req[r].tok),
           req[r].fam \notin undone
    PROVE  TipInv'
<1> DEFINE t == req[r].tok
           n == req[r].next
           f == req[r].fam
<1>t. TypeOK /\ MintedInv /\ ReqInv
  BY DEF IInv
<1>1. /\ t \in Sid /\ n \in Sid /\ t \in known
      /\ Tip(t) /\ rows[t].fam = f
      /\ rows[n].fam = f
  BY <1>t, NoneAssumption
     DEF Claim, Claimable, Live, Tip, Handed, ReqInv, ReqOK, HasNext, KeepsNext, HasRow,
         TypeOK, ReqState
<1>2. /\ known' = known /\ undone' = undone
      /\ rows' = [rows EXCEPT ![t].st = "revoked", ![t].repl = n, ![t].used = TRUE]
      /\ req' = [req EXCEPT ![r].pc = "provider"]
  BY DEF Claim, Goto
<1>3. /\ \A s \in Sid : rows'[s].fam = rows[s].fam
      /\ \A s \in Sid \ {t} : rows'[s] = rows[s]
      /\ rows'[t].st = "revoked" /\ rows'[t].repl = n
      /\ undone' = undone
  BY <1>1, <1>2, <1>t DEF TypeOK, Row
<1>4. /\ \A q \in Req : /\ req'[q].succ = req[q].succ /\ req'[q].next = req[q].next
                        /\ req'[q].fam = req[q].fam
      /\ \A q \in Req \ {r} : req'[q].pc = req[q].pc
      /\ req'[r].pc = "provider"
  BY <1>2, <1>t DEF TypeOK, ReqState
<1>5. \A s \in Sid : Tip(s)' => s # t /\ (s = n \/ Tip(s))
  <2> SUFFICES ASSUME NEW s \in Sid, Tip(s)' PROVE s # t /\ (s = n \/ Tip(s))
    OBVIOUS
  <2>1. s # t /\ Live(s)
    BY <1>3 DEF Tip, Live
  <2>2. s # n => Handed(s)
    <3> SUFFICES ASSUME s # n PROVE Handed(s)
      OBVIOUS
    <3>1. CASE s \in known'
      BY <3>1, <1>2 DEF Handed
    <3>2. CASE \E u \in Sid : rows'[u].repl = s
      BY <3>2, <1>3 DEF Handed
    <3>3. CASE \E q \in Req : \/ req'[q].succ = s
                              \/ req'[q].next = s /\ req'[q].pc \in {"link", "provider"}
      BY <3>3, <1>4 DEF Handed
    <3> QED
      BY <3>1, <3>2, <3>3 DEF Tip, Handed
  <2>3. rows[s].fam \notin undone
    BY <1>3 DEF Tip
  <2> QED
    BY <2>1, <2>2, <2>3 DEF Tip
<1>6. \A s \in Sid : Tip(s)' /\ rows'[s].fam = f => s = n
  BY <1>1, <1>3, <1>5 DEF TipInv
<1>7. \A q \in Req : req'[q].pc = "remint" => req[q].pc = "remint" /\ req[q].fam # f
  BY <1>1, <1>4 DEF TipInv
<1>8. \A s \in Sid : Tip(s)' => rows'[s].fam = f \/ Tip(s)
  BY <1>1, <1>3, <1>5
<1>9. \A s, u \in Sid : Tip(s)' /\ Tip(u)' /\ rows'[s].fam = rows'[u].fam => s = u
  BY <1>3, <1>6, <1>8 DEF TipInv
<1>10. \A s \in Sid, q \in Req : Tip(s)' /\ req'[q].pc = "remint" => rows'[s].fam # req'[q].fam
  BY <1>3, <1>4, <1>7, <1>8 DEF TipInv
<1>11. \A p, q \in Req : /\ req'[p].pc = "remint" /\ req'[q].pc = "remint"
                         /\ req'[p].fam = req'[q].fam /\ req'[p].fam \notin undone'
                         => p = q
  BY <1>2, <1>4, <1>7 DEF TipInv
<1> QED
  BY <1>9, <1>10, <1>11 DEF TipInv

(* A recovery retires the tip of the family before it creates the next.     *)
LEMMA RetireTip ==
    ASSUME IInv, TipInv, NEW r \in Req, RetireSuccessor(r), Retirable(req[r].succ),
           req[r].fam \notin undone
    PROVE  TipInv'
<1> DEFINE n == req[r].succ
           f == req[r].fam
<1>t. TypeOK /\ MintedInv /\ ReqInv
  BY DEF IInv
<1>1. n \in Sid /\ Tip(n) /\ rows[n].fam = f
  BY <1>t, NoneAssumption
     DEF RetireSuccessor, Retirable, Live, Tip, Handed, ReqInv, ReqOK, HasRow, TypeOK, ReqState
<1>2. /\ known' = known /\ undone' = undone
      /\ \A s \in Sid : rows'[s].fam = rows[s].fam /\ rows'[s].repl = rows[s].repl
      /\ \A s \in Sid \ {n} : rows'[s] = rows[s]
      /\ rows'[n].st = "revoked"
  BY <1>1, <1>t DEF RetireSuccessor, TypeOK, Row
<1>3. /\ \A q \in Req : /\ req'[q].succ = req[q].succ /\ req'[q].next = req[q].next
                        /\ req'[q].fam = req[q].fam
      /\ \A q \in Req \ {r} : req'[q].pc = req[q].pc
      /\ req'[r].pc = "remint"
  BY <1>t DEF RetireSuccessor, Goto, TypeOK, ReqState
<1>4. \A s \in Sid : Tip(s)' => s # n /\ Tip(s)
  BY <1>2, <1>3 DEF Tip, Live, Handed
<1>5. \A s \in Sid : Tip(s) /\ s # n => rows[s].fam # f
  BY <1>1 DEF TipInv
<1>6. \A q \in Req : req[q].pc = "remint" => req[q].fam # f
  BY <1>1 DEF TipInv
<1>7. \A s, u \in Sid : Tip(s)' /\ Tip(u)' /\ rows'[s].fam = rows'[u].fam => s = u
  BY <1>2, <1>4 DEF TipInv
<1>8. \A s \in Sid, q \in Req : Tip(s)' /\ req'[q].pc = "remint" => rows'[s].fam # req'[q].fam
  BY <1>2, <1>3, <1>4, <1>5 DEF TipInv
<1>9. \A p, q \in Req : /\ req'[p].pc = "remint" /\ req'[q].pc = "remint"
                         /\ req'[p].fam = req'[q].fam /\ req'[p].fam \notin undone'
                         => p = q
  BY <1>2, <1>3, <1>6 DEF TipInv
<1> QED
  BY <1>7, <1>8, <1>9 DEF TipInv

(* The row a recovery creates is the tip it promised.                       *)
LEMMA RemintTip ==
    ASSUME IInv, TipInv, NEW r \in Req, NEW n \in Sid, Remint(r, n),
           req[r].fam \notin undone
    PROVE  TipInv'
<1> DEFINE f == req[r].fam
<1>t. TypeOK /\ MintedInv /\ ReqInv
  BY DEF IInv
<1>1. req[r].pc = "remint" /\ n \notin minted /\ known' = known /\ undone' = undone
  BY DEF Remint, Fresh
<1>2. /\ \A s \in Sid \ {n} : rows'[s] = rows[s]
      /\ rows'[n].fam = f /\ rows'[n].repl = None
  BY <1>t DEF Remint, NewRow, TypeOK
<1>3. /\ \A q \in Req \ {r} : req'[q] = req[q]
      /\ req'[r].succ = req[r].succ /\ req'[r].fam = f
      /\ req'[r].pc = "link" /\ req'[r].next = n
  BY <1>t DEF Remint, TypeOK, ReqState
<1>4. \A s \in Sid : Tip(s)' => s = n \/ (Tip(s) /\ rows'[s] = rows[s])
  <2> SUFFICES ASSUME NEW s \in Sid, s # n, Tip(s)' PROVE Tip(s) /\ rows'[s] = rows[s]
    OBVIOUS
  <2>1. rows'[s] = rows[s] /\ Live(s)
    BY <1>2 DEF Tip, Live
  <2>2. CASE s \in known'
    BY <1>1, <2>1, <2>2 DEF Tip, Handed
  <2>3. CASE \E t \in Sid : rows'[t].repl = s
    <3>1. PICK t \in Sid : rows'[t].repl = s
      BY <2>3
    <3>2. t # n
      BY <1>2, <3>1, NoneAssumption
    <3> QED
      BY <1>1, <1>2, <2>1, <3>1, <3>2 DEF Tip, Handed
  <2>4. CASE \E q \in Req : \/ req'[q].succ = s
                            \/ req'[q].next = s /\ req'[q].pc \in {"link", "provider"}
    BY <1>1, <1>3, <2>1, <2>4 DEF Tip, Handed
  <2> QED
    BY <2>2, <2>3, <2>4 DEF Tip, Handed
<1>5. \A s \in Sid : Tip(s) => rows[s].fam # f
  BY <1>1 DEF TipInv
<1>6. \A q \in Req : req'[q].pc = "remint" => q # r /\ req[q].pc = "remint" /\ req'[q].fam # f
  BY <1>1, <1>3 DEF TipInv
<1>7. \A s, u \in Sid : Tip(s)' /\ Tip(u)' /\ rows'[s].fam = rows'[u].fam => s = u
  BY <1>2, <1>4, <1>5 DEF TipInv
<1>8. \A s \in Sid, q \in Req : Tip(s)' /\ req'[q].pc = "remint" => rows'[s].fam # req'[q].fam
  BY <1>2, <1>3, <1>4, <1>6 DEF TipInv
<1>9. \A p, q \in Req : /\ req'[p].pc = "remint" /\ req'[q].pc = "remint"
                         /\ req'[p].fam = req'[q].fam /\ req'[p].fam \notin undone'
                         => p = q
  BY <1>1, <1>3, <1>6 DEF TipInv
<1> QED
  BY <1>7, <1>8, <1>9 DEF TipInv

(* A login is the tip of a family of its own.                               *)
LEMMA LoginTip ==
    ASSUME IInv, TipInv, NEW n \in Sid, Login(n)
    PROVE  TipInv'
<1>t. TypeOK /\ MintedInv /\ ReqInv
  BY DEF IInv
<1>1. n \notin minted /\ known' = known \cup {n} /\ req' = req /\ undone' = undone
  BY DEF Login, Fresh
<1>2. /\ \A s \in Sid \ {n} : rows'[s] = rows[s]
      /\ rows'[n].fam = n /\ rows'[n].repl = None
  BY <1>t DEF Login, NewRow, TypeOK
<1>3. \A s \in Sid : Tip(s)' => s = n \/ (Tip(s) /\ rows'[s] = rows[s])
  <2> SUFFICES ASSUME NEW s \in Sid, s # n, Tip(s)' PROVE Tip(s) /\ rows'[s] = rows[s]
    OBVIOUS
  <2>1. rows'[s] = rows[s] /\ Live(s)
    BY <1>2 DEF Tip, Live
  <2>2. CASE s \in known'
    BY <1>1, <2>1, <2>2 DEF Tip, Handed
  <2>3. CASE \E t \in Sid : rows'[t].repl = s
    <3>1. PICK t \in Sid : rows'[t].repl = s
      BY <2>3
    <3>2. t # n
      BY <1>2, <3>1, NoneAssumption
    <3> QED
      BY <1>1, <1>2, <2>1, <3>1, <3>2 DEF Tip, Handed
  <2>4. CASE \E q \in Req : \/ req'[q].succ = s
                            \/ req'[q].next = s /\ req'[q].pc \in {"link", "provider"}
    BY <1>1, <2>1, <2>4 DEF Tip, Handed
  <2> QED
    BY <2>2, <2>3, <2>4 DEF Tip, Handed
<1>4. \A s \in Sid : Tip(s) => rows[s].fam # n
  BY <1>t, <1>1 DEF MintedInv, HasRow, Tip, Live
<1>5. \A q \in Req : req[q].pc = "remint" => req[q].fam # n
  BY <1>t, <1>1 DEF ReqInv, ReqOK
<1>6. \A s, u \in Sid : Tip(s)' /\ Tip(u)' /\ rows'[s].fam = rows'[u].fam => s = u
  BY <1>2, <1>3, <1>4 DEF TipInv
<1>7. \A s \in Sid, q \in Req : Tip(s)' /\ req'[q].pc = "remint" => rows'[s].fam # req'[q].fam
  BY <1>1, <1>2, <1>3, <1>5 DEF TipInv
<1> QED
  BY <1>1, <1>6, <1>7 DEF TipInv

(* Every step keeps one tip per family without an undo.                     *)
LEMMA TipStep ==
    ASSUME IInv, TipInv, [Next]_vars
    PROVE  TipInv'
<1> USE NoneAssumption
<1>t. TypeOK
  BY DEF IInv
<1>1. ASSUME NEW r \in Req, Refresh(r) PROVE TipInv'
  <2>1. CASE req[r].fam \in undone
    BY <1>1, <2>1, UndoneTip, QuietTip, NoNewTipStep
  <2>2. CASE req[r].fam \notin undone
    BY <1>1, <2>2, ClaimTip, RetireTip, RemintTip, QuietTip, NoNewTipStep
  <2> QED
    BY <2>1, <2>2
<1>2. ASSUME NEW n \in Sid, Login(n) PROVE TipInv'
  BY <1>2, LoginTip
<1>3. CASE \/ SignOutEverywhere
           \/ \E r \in Req : SignOutOthers(r)
           \/ \E t \in Sid : Logout(t) \/ RevokeDevice(t)
  <2>1. \E S \in SUBSET Sid : rows' = Revoked(S)
    BY <1>3, \A f : InFamily(f) \in SUBSET Sid
       DEF SignOutEverywhere, SignOutOthers, Logout, RevokeDevice, InFamily
  <2>2. known' = known /\ undone' = undone /\ \A q \in Req : req'[q] = req[q] \/ req'[q] = Idle
    BY <1>3, <1>t DEF SignOutEverywhere, SignOutOthers, Logout, RevokeDevice, Finish, TypeOK
  <2>3. \A s \in Sid : Tip(s)' => Tip(s) /\ rows'[s].fam = rows[s].fam
    BY <1>t, <2>1, <2>2, RevokedTip
  <2> QED
    BY <2>2, <2>3, NoNewTipStep DEF NoNewTip, Idle
<1>4. ASSUME NEW r \in Req, NEW t \in Sid, AskSignOutOthers(r, t) PROVE TipInv'
  <2>1. NoNewTip
    BY <1>4, <1>t DEF AskSignOutOthers, Begin, NoNewTip, Tip, Live, Handed, TypeOK, ReqState
  <2> QED
    BY <2>1, NoNewTipStep
<1>5. ASSUME NEW n \in Sid, MarkUsed(n) \/ Age(n) PROVE TipInv'
  <2>1. /\ known' = known /\ undone' = undone /\ req' = req
        /\ \A s \in Sid : /\ rows'[s].st = rows[s].st /\ rows'[s].repl = rows[s].repl
                          /\ rows'[s].fam = rows[s].fam
    BY <1>5, <1>t DEF MarkUsed, Age, TypeOK, Row
  <2> QED
    BY <2>1, NoNewTipStep DEF NoNewTip, Tip, Live, Handed
<1>6. CASE PurgeExpired
  <2>1. /\ known' = known /\ undone' = undone /\ req' = req
        /\ \A s \in Sid : rows'[s] = rows[s] \/ rows'[s] = NoRow
    BY <1>6 DEF PurgeExpired
  <2>2. \A s \in Sid : Tip(s)' => Tip(s) /\ rows'[s] = rows[s]
    BY <2>1 DEF NoRow, Tip, Live, Handed
  <2> QED
    BY <2>1, <2>2, NoNewTipStep DEF NoNewTip
<1>7. CASE UNCHANGED vars
  BY <1>7 DEF vars, TipInv, Tip, Live, Handed
<1> QED
  BY <1>1, <1>2, <1>3, <1>4, <1>5, <1>6, <1>7 DEF Next

(* Of all concurrent presentations of a token, retries of lost responses    *)
(* included, at most one ends with a usable one, in every family in which   *)
(* no rotation was undone.                                                  *)
THEOREM OneTokenWins == Spec => []OneLiveToken
<1>1. Init => TipInv
  BY DEF Init, TipInv, Tip, Live, NoRow, Idle
<1>2. IInv /\ TipInv /\ [Next]_vars => TipInv'
  BY TipStep
<1>3. IInv /\ TipInv => OneLiveToken
  BY DEF IInv, TypeOK, TipInv, Tip, Handed, OneLiveToken
<1> QED
  BY <1>1, <1>2, <1>3, InvAlways, PTL DEF Spec
=============================================================================
