---------------------------- MODULE UserOtpProofs ----------------------------
(***************************************************************************)
(* Proofs about UserOtp and the college address that rests on its codes    *)
(* (CampusAffiliation), for every number of requests, of codes and of      *)
(* attempts per code.                                                      *)
(*                                                                         *)
(* TypeOK, GuessBudget and OneAcceptancePerIssue are made inductive by     *)
(* counting what the row still allows: the attempts it has left            *)
(* (BudgetInv), the one acceptance it has left (UseInv).  IdInv relates    *)
(* the numbers of codes and rows to the withdrawn ones: a row that exists, *)
(* and a record that a request has read, hold codes not older than the     *)
(* row itself.                                                             *)
(*                                                                         *)
(* College verification is shown to implement UserOtp, so what is proved   *)
(* of the codes holds of its codes too.  CampusInv follows an address from *)
(* the code it was sent to, through the request that redeems it, to the    *)
(* row.                                                                    *)
(***************************************************************************)
EXTENDS CampusAffiliation, TLAPS

AttemptsLeft == IF Exists THEN MaxAttempts - row.attempts ELSE 0
UsesLeft     == IF Exists /\ ~row.consumed THEN 1 ELSE 0

BudgetInv == compared + AttemptsLeft <= MaxAttempts * issued
UseInv    == Len(accepted) + UsesLeft <= issued
IdInv     == /\ withdrawn <= issued
             /\ Exists => /\ withdrawn < row.id
                          /\ row.id <= row.code
                          /\ row.code <= issued
             /\ \A r \in Req : req[r].id <= req[r].code

IInv == TypeOK /\ BudgetInv /\ UseInv /\ IdInv

-----------------------------------------------------------------------------
(* One more code is worth MaxAttempts more comparisons.                     *)
LEMMA OneMoreCode ==
    ASSUME NEW n \in Nat
    PROVE  /\ MaxAttempts * n \in Nat
           /\ MaxAttempts * (n + 1) = MaxAttempts * n + MaxAttempts
  BY AttemptsAssumption

(* The changes that a step of UserOtp makes to req keep its type and IdInv. *)
LEMMA ReqStep ==
    ASSUME TypeOK, IdInv, NEW r \in Req, NEW v \in ReqState, v.id <= v.code,
           req' = [req EXCEPT ![r] = v]
    PROVE  /\ req' \in [Req -> ReqState]
           /\ \A q \in Req : req'[q].id <= req'[q].code
  BY DEF TypeOK, IdInv, ReqState

LEMMA FinishStep ==
    ASSUME TypeOK, IdInv, NEW r \in Req, Finish(r)
    PROVE  /\ req' \in [Req -> ReqState]
           /\ \A q \in Req : req'[q].id <= req'[q].code
  <1>1. Idle \in ReqState /\ Idle.id <= Idle.code
    BY DEF Idle, ReqState, PC
  <1>2. req' = [req EXCEPT ![r] = Idle]
    BY DEF Finish
  <1>3. QED
    BY <1>1, <1>2, ReqStep

LEMMA GotoStep ==
    ASSUME TypeOK, IdInv, NEW r \in Req, NEW p \in PC, Goto(r, p)
    PROVE  /\ req' \in [Req -> ReqState]
           /\ \A q \in Req : req'[q].id <= req'[q].code
  BY DEF Goto, TypeOK, IdInv, ReqState

-----------------------------------------------------------------------------
LEMMA InitIInv == Init => IInv
  <1> SUFFICES ASSUME Init PROVE IInv
    OBVIOUS
  <1>1. TypeOK
    BY AttemptsAssumption DEF Init, TypeOK, Row, NoRow, ReqState, Idle, PC
  <1>2. BudgetInv
    BY OneMoreCode DEF Init, BudgetInv, AttemptsLeft, Exists, NoRow
  <1>3. UseInv
    BY DEF Init, UseInv, UsesLeft, Exists, NoRow
  <1>4. IdInv
    BY DEF Init, IdInv, Exists, NoRow, Idle
  <1>5. QED
    BY <1>1, <1>2, <1>3, <1>4 DEF IInv

LEMMA StepIInv == IInv /\ [Next]_vars => IInv'
  <1> SUFFICES ASSUME IInv, [Next]_vars PROVE IInv'
    OBVIOUS
  <1> USE DEF IInv
  <1>n. MaxAttempts \in Nat /\ MaxAttempts * issued \in Nat
    BY AttemptsAssumption, OneMoreCode DEF TypeOK
  (* A step that leaves the row and the counters alone.                     *)
  <1>q. ASSUME UNCHANGED <<row, issued, compared, accepted, withdrawn>>,
               req' \in [Req -> ReqState],
               \A q \in Req : req'[q].id <= req'[q].code
        PROVE  IInv'
    BY <1>q DEF TypeOK, BudgetInv, AttemptsLeft, UseInv, UsesLeft, IdInv, Exists
  (* A step that deletes the row.                                           *)
  <1>d. ASSUME DeleteRow, UNCHANGED <<issued, compared, accepted>>,
               req' \in [Req -> ReqState],
               \A q \in Req : req'[q].id <= req'[q].code
        PROVE  IInv'
    <2>1. TypeOK'
      BY <1>d, <1>n DEF DeleteRow, TypeOK, Row, NoRow
    <2>2. ~Exists'
      BY <1>d DEF DeleteRow, Exists, NoRow
    <2>3. compared <= MaxAttempts * issued /\ Len(accepted) <= issued
      BY <1>n DEF TypeOK, Row, BudgetInv, AttemptsLeft, UseInv, UsesLeft
    <2>4. BudgetInv' /\ UseInv'
      BY <1>d, <1>n, <2>2, <2>3 DEF BudgetInv, AttemptsLeft, UseInv, UsesLeft, TypeOK
    <2>5. IdInv'
      BY <1>d, <2>2 DEF DeleteRow, IdInv, TypeOK
    <2>6. QED
      BY <2>1, <2>4, <2>5
  <1>1. ASSUME NEW r \in Req, AskForCode(r) PROVE IInv'
    BY <1>1, <1>q, GotoStep DEF AskForCode, PC
  <1>2. ASSUME NEW r \in Req, Issue(r) PROVE IInv'
    <2>1. /\ req' \in [Req -> ReqState]
          /\ \A q \in Req : req'[q].id <= req'[q].code
      BY <1>2, GotoStep DEF Issue, PC
    <2>2. /\ issued' = issued + 1
          /\ compared' = compared /\ accepted' = accepted /\ withdrawn' = withdrawn
          /\ row'.id = (IF Exists THEN row.id ELSE issued + 1)
          /\ row'.code = issued + 1 /\ row'.attempts = 0 /\ row'.consumed = FALSE
          /\ row' \in Row
      <3>1. row' = [id |-> IF Exists THEN row.id ELSE issued + 1, code |-> issued + 1,
                    attempts |-> 0, consumed |-> FALSE, expired |-> FALSE, cooling |-> TRUE]
        BY <1>2 DEF Issue, NoRow
      <3>2. row.id \in Nat /\ issued \in Nat
        BY DEF TypeOK, Row
      <3>3. row' \in Row
        BY <1>n, <3>1, <3>2 DEF Row
      <3>4. /\ row'.id = (IF Exists THEN row.id ELSE issued + 1)
            /\ row'.code = issued + 1 /\ row'.attempts = 0 /\ row'.consumed = FALSE
        BY <3>1
      <3>5. issued' = issued + 1 /\ UNCHANGED <<compared, accepted, withdrawn>>
        BY <1>2 DEF Issue
      <3>6. QED
        BY <3>3, <3>4, <3>5
    <2>3. TypeOK'
      BY <2>1, <2>2 DEF TypeOK
    <2>4. compared <= MaxAttempts * issued /\ Len(accepted) <= issued
      BY <1>n DEF TypeOK, Row, BudgetInv, AttemptsLeft, UseInv, UsesLeft
    <2>5. BudgetInv'
      <3>1. MaxAttempts * (issued + 1) = MaxAttempts * issued + MaxAttempts
        BY OneMoreCode DEF TypeOK
      <3>2. compared + MaxAttempts <= MaxAttempts * issued + MaxAttempts
        BY <1>n, <2>4 DEF TypeOK
      <3>3. AttemptsLeft' <= MaxAttempts /\ AttemptsLeft' \in Nat
        BY <1>n, <2>2 DEF AttemptsLeft
      <3>4. compared \in Nat
        BY DEF TypeOK
      <3>5. compared + AttemptsLeft' <= MaxAttempts * issued + MaxAttempts
        <4> DEFINE left == AttemptsLeft'
                   worth == MaxAttempts * issued
        <4>1. /\ left \in Nat /\ left <= MaxAttempts
              /\ worth \in Nat /\ compared + MaxAttempts <= worth + MaxAttempts
          BY <1>n, <3>2, <3>3
        <4> HIDE DEF left, worth
        <4>2. compared + left <= worth + MaxAttempts
          BY <1>n, <3>4, <4>1
        <4>3. QED
          BY <4>2 DEF left, worth
      <3>6. QED
        BY <2>2, <3>1, <3>5 DEF BudgetInv
    <2>6. UseInv'
      BY <2>2, <2>4 DEF UseInv, UsesLeft, TypeOK
    <2>7. IdInv'
      BY <2>1, <2>2 DEF IdInv, Exists, TypeOK, Row
    <2>8. QED
      BY <2>3, <2>5, <2>6, <2>7
  <1>3. ASSUME NEW r \in Req, Mail(r) PROVE IInv'
    BY <1>3, <1>q, GotoStep, FinishStep DEF Mail, PC
  <1>4. ASSUME NEW r \in Req, Discard(r) PROVE IInv'
    BY <1>4, <1>d, FinishStep DEF Discard
  <1>5. ASSUME NEW r \in Req, NEW guess \in 0..issued, Submit(r, guess) PROVE IInv'
    <2> DEFINE v == [pc |-> "attempt", guess |-> guess, id |-> row.id, code |-> row.code]
    <2>1. v \in ReqState /\ v.id <= v.code
      BY <1>5 DEF Submit, ReqState, PC, TypeOK, Row, IdInv
    <2>2. req' = [req EXCEPT ![r] = v]
      BY <1>5 DEF Submit
    <2> HIDE DEF v
    <2>3. QED
      BY <1>5, <1>q, <2>1, <2>2, ReqStep DEF Submit
  <1>6. ASSUME NEW r \in Req, Attempt(r) PROVE IInv'
    <2>1. /\ req' \in [Req -> ReqState]
          /\ \A q \in Req : req'[q].id <= req'[q].code
      BY <1>6, GotoStep, FinishStep DEF Attempt, PC
    <2>2. CASE UNCHANGED <<row, compared>>
      BY <1>6, <1>q, <2>1, <2>2 DEF Attempt
    <2>3. CASE MayAttempt(r) /\ row' = [row EXCEPT !.attempts = @ + 1] /\ compared' = compared + 1
      <3>1. /\ row' \in Row
            /\ row'.id = row.id /\ row'.code = row.code /\ row'.consumed = row.consumed
            /\ row'.attempts = row.attempts + 1
            /\ Exists
        <4>1. row \in Row /\ Exists /\ row.attempts < MaxAttempts
          BY <2>3 DEF MayAttempt, SameRow, TypeOK
        <4>2. row.attempts + 1 \in 0..MaxAttempts
          BY <4>1, <1>n DEF Row
        <4>3. row' = [row EXCEPT !.attempts = row.attempts + 1]
          BY <2>3
        <4>4. QED
          BY <4>1, <4>2, <4>3 DEF Row
      <3>2. UNCHANGED <<issued, accepted, withdrawn>>
        BY <1>6 DEF Attempt
      <3>3. TypeOK'
        BY <2>1, <2>3, <3>1, <3>2 DEF TypeOK
      <3>4. BudgetInv'
        BY <1>n, <2>3, <3>1, <3>2 DEF BudgetInv, AttemptsLeft, Exists, TypeOK, Row
      <3>5. UseInv' /\ IdInv'
        BY <2>1, <3>1, <3>2 DEF UseInv, UsesLeft, IdInv, Exists
      <3>6. QED
        BY <3>3, <3>4, <3>5
    <2>4. QED
      BY <1>6, <2>2, <2>3 DEF Attempt
  <1>7. ASSUME NEW r \in Req, Consume(r) PROVE IInv'
    <2>1. /\ req' \in [Req -> ReqState]
          /\ \A q \in Req : req'[q].id <= req'[q].code
      BY <1>7, FinishStep DEF Consume
    <2>2. CASE UNCHANGED <<row, accepted>>
      BY <1>7, <1>q, <2>1, <2>2 DEF Consume
    <2>3. CASE /\ Consumable(r)
               /\ row' = [row EXCEPT !.consumed = TRUE]
               /\ accepted' = Append(accepted, req[r].code)
      <3>1. /\ row' \in Row
            /\ row'.id = row.id /\ row'.code = row.code /\ row'.attempts = row.attempts
            /\ row'.consumed = TRUE
            /\ Exists /\ ~row.consumed
        BY <2>3 DEF Consumable, SameRow, TypeOK, Row
      <3>2. UNCHANGED <<issued, compared, withdrawn>>
        BY <1>7 DEF Consume
      <3>3. accepted' \in Seq(Nat) /\ Len(accepted') = Len(accepted) + 1
        BY <2>3 DEF TypeOK, ReqState
      <3>4. TypeOK'
        BY <2>1, <3>1, <3>2, <3>3 DEF TypeOK
      <3>5. BudgetInv' /\ IdInv'
        BY <2>1, <3>1, <3>2 DEF BudgetInv, AttemptsLeft, IdInv, Exists
      <3>6. UseInv'
        BY <3>1, <3>2, <3>3 DEF UseInv, UsesLeft, Exists, TypeOK
      <3>7. QED
        BY <3>4, <3>5, <3>6
    <2>4. QED
      BY <1>7, <2>2, <2>3 DEF Consume
  <1>8. ASSUME NEW r \in Req, Abort(r) PROVE IInv'
    BY <1>8, <1>q, FinishStep DEF Abort
  <1>9. ASSUME Invalidate PROVE IInv'
    BY <1>9, <1>d DEF Invalidate, TypeOK, IdInv
  <1>10. ASSUME CooldownEnds \/ Expires PROVE IInv'
    <2>1. /\ row' \in Row
          /\ row'.id = row.id /\ row'.code = row.code /\ row'.attempts = row.attempts
          /\ row'.consumed = row.consumed
          /\ UNCHANGED <<issued, req, compared, accepted, withdrawn>>
      BY <1>10 DEF CooldownEnds, Expires, TypeOK, Row
    <2>2. TypeOK'
      BY <2>1 DEF TypeOK
    <2>3. BudgetInv' /\ UseInv' /\ IdInv'
      BY <2>1 DEF BudgetInv, AttemptsLeft, UseInv, UsesLeft, IdInv, Exists
    <2>4. QED
      BY <2>2, <2>3
  <1>11. ASSUME UNCHANGED vars PROVE IInv'
    BY <1>11, <1>q DEF vars, TypeOK, IdInv
  <1>12. QED
    BY <1>1, <1>2, <1>3, <1>4, <1>5, <1>6, <1>7, <1>8, <1>9, <1>10, <1>11 DEF Next

THEOREM Inductive == Spec => []IInv
  BY InitIInv, StepIInv, PTL DEF Spec

-----------------------------------------------------------------------------
(* The row, the requests and the history of UserOtp keep their types.       *)
THEOREM TypeCorrect == Spec => []TypeOK
  <1>1. IInv => TypeOK
    BY DEF IInv
  <1>2. QED
    BY <1>1, Inductive, PTL

(* The database compares at most MaxAttempts guesses per issued code.       *)
THEOREM GuessesAreBounded == Spec => []GuessBudget
  <1>1. IInv => GuessBudget
    BY AttemptsAssumption, OneMoreCode
       DEF IInv, TypeOK, Row, BudgetInv, AttemptsLeft, GuessBudget
  <1>2. QED
    BY <1>1, Inductive, PTL

(* No interleaving accepts more codes than were issued.                     *)
THEOREM AcceptancesAreBounded == Spec => []OneAcceptancePerIssue
  <1>1. IInv => OneAcceptancePerIssue
    BY DEF IInv, TypeOK, UseInv, UsesLeft, OneAcceptancePerIssue
  <1>2. QED
    BY <1>1, Inductive, PTL

(* A code that was invalidated is not accepted afterwards.                  *)
THEOREM InvalidateIsFinal == Spec => WithdrawnStaysOut
  <1>1. IInv /\ [Next]_vars
          => [accepted' # accepted => accepted'[Len(accepted')] > withdrawn]_vars
    <2> SUFFICES ASSUME IInv, Next, accepted' # accepted
                 PROVE  accepted'[Len(accepted')] > withdrawn
      BY DEF vars
    <2>1. PICK r \in Req : Consume(r)
      BY DEF Next, AskForCode, Issue, Mail, Discard, Submit, Attempt, Abort, Invalidate,
             CooldownEnds, Expires
    <2>2. Consumable(r) /\ accepted' = Append(accepted, req[r].code)
      BY <2>1 DEF Consume
    <2>3. accepted'[Len(accepted')] = req[r].code
      BY <2>2 DEF IInv, TypeOK, ReqState
    <2>4. withdrawn < row.id /\ row.id = req[r].id /\ req[r].id <= req[r].code
      BY <2>2 DEF Consumable, SameRow, IInv, IdInv
    <2>5. QED
      BY <2>3, <2>4 DEF IInv, TypeOK, Row, ReqState
  <1>2. QED
    BY <1>1, Inductive, PTL DEF Spec, WithdrawnStaysOut

-----------------------------------------------------------------------------
(* The college address.                                                     *)

(* A request that rests has nothing left of its last record.                *)
RestInv == \A r \in Req : req[r].pc = "idle" => req[r] = Idle

(* Every number of a code a request may still redeem, or that was accepted, *)
(* is the number of an issued code.                                         *)
CodeInv ==
    /\ Exists => row.code \in 1..issued
    /\ \A r \in Req : req[r].pc \in {"attempt", "consume"} => req[r].code \in 1..issued
    /\ \A i \in DOMAIN accepted : accepted[i] \in 1..issued

Proven(a) == \E i \in DOMAIN accepted : target[accepted[i]] = a

(* A request that checks or writes an address redeemed a code sent to it;   *)
(* one that issues a code has an address to send it to.                     *)
BoundInv ==
    /\ \A r \in Req : job[r].pc \in {"check", "write"} => Proven(job[r].addr)
    /\ \A r \in Req : job[r].pc \in {"ask", "check", "write"} => job[r].addr \in Addr

(* Since the revocation no request stands between its check and its write.  *)
BarInv ==
    barred /\ ~crossed => \A r \in Req : job[r].pc \notin {"write", "delete"}

(* A removal that has still to clear the mirror left no row.                *)
ClearInv == ~torn => \A r \in Req : Unlocked(r) => aff = NoAff

CampusInv ==
    /\ CampusTypeOK /\ RestInv /\ CodeInv /\ BoundInv /\ BarInv /\ ClearInv
    /\ OnlyProvenAddress /\ RevocationHolds /\ MirrorAgrees

Jobs == [pc : JobPC, addr : Addr \cup {NoAddr}]

AffInv ==
    /\ CampusTypeOK /\ BoundInv /\ BarInv /\ ClearInv
    /\ OnlyProvenAddress /\ RevocationHolds /\ MirrorAgrees

-----------------------------------------------------------------------------
(* Every step of the college address is a step of its codes, or none.       *)
LEMMA CampusIsOtp ==
    ASSUME IInv, RestInv, CampusNext
    PROVE  [Next]_vars
  <1>1. ASSUME NEW r \in Req, Die(r) PROVE [Next]_vars
    <2>1. CASE req[r].pc = "idle"
      <3>1. req' = req
        BY <1>1, <2>1 DEF Die, RestInv, IInv, TypeOK
      <3>2. QED
        BY <1>1, <3>1 DEF Die, vars
    <2>2. CASE req[r].pc # "idle"
      BY <1>1, <2>2 DEF Die, Abort, Finish, Next
    <2>3. QED
      BY <2>1, <2>2
  <1>2. ASSUME NEW r \in Req, NEW guess \in 1..issued, Guess(r, guess) PROVE [Next]_vars
    <2>1. guess \in 0..issued
      BY DEF IInv, TypeOK
    <2>2. QED
      BY <1>2, <2>1 DEF Guess, Next
  <1>3. ASSUME NEW r \in Req, \/ \E a \in Addr : Ask(r, a)
                              \/ IssueFor(r) \/ Send(r) \/ Compare(r) \/ Redeem(r)
        PROVE  [Next]_vars
    BY <1>3 DEF Ask, IssueFor, Send, Compare, Redeem, Next
  <1>4. ASSUME NEW r \in Req, DropCode(r) PROVE [Next]_vars
    BY <1>4 DEF DropCode, Next
  <1>5. ASSUME NEW r \in Req, Check(r) \/ Write(r) \/ Remove(r) \/ Delete(r) \/ Clear(r)
                              \/ Release(r) \/ Unmirror(r)
        PROVE  [Next]_vars
    BY <1>5 DEF Check, Write, Remove, Delete, Clear, Release, Unmirror
  <1>6. ASSUME Revoke \/ \E a \in Addr : Others(a) PROVE [Next]_vars
    BY <1>6 DEF Revoke, Others
  <1>7. QED
    BY <1>1, <1>2, <1>3, <1>4, <1>5, <1>6 DEF CampusNext, Next

LEMMA RestStep ==
    ASSUME TypeOK, RestInv, [Next]_vars
    PROVE  RestInv'
  <1>1. ASSUME NEW r \in Req, NEW p, p # "idle", Goto(r, p) PROVE RestInv'
    BY <1>1 DEF Goto, RestInv, TypeOK, ReqState
  <1>2. ASSUME NEW r \in Req, Finish(r) PROVE RestInv'
    BY <1>2 DEF Finish, RestInv, TypeOK
  <1>3. ASSUME NEW r \in Req, NEW guess, Submit(r, guess) PROVE RestInv'
    BY <1>3 DEF Submit, RestInv, TypeOK
  <1>4. ASSUME UNCHANGED req PROVE RestInv'
    BY <1>4 DEF RestInv
  <1>5. ASSUME NEW r \in Req, AskForCode(r) \/ Issue(r) \/ Mail(r) \/ Discard(r)
                              \/ Attempt(r) \/ Consume(r) \/ Abort(r)
        PROVE  RestInv'
    BY <1>1, <1>2, <1>5 DEF AskForCode, Issue, Mail, Discard, Attempt, Consume, Abort
  <1>6. QED
    BY <1>3, <1>4, <1>5 DEF Next, vars, Invalidate, CooldownEnds, Expires

(* A sequence and one more element.                                         *)
LEMMA Appended ==
    ASSUME NEW S, NEW s \in Seq(S), NEW x \in S
    PROVE  /\ DOMAIN Append(s, x) = DOMAIN s \cup {Len(s) + 1}
           /\ \A i \in DOMAIN s : Append(s, x)[i] = s[i]
           /\ Append(s, x)[Len(s) + 1] = x
  OBVIOUS

(* A request that goes on, and is not new, holds the code it held.          *)
Carried == \A q \in Req : req'[q].pc \in {"attempt", "consume"}
              => req'[q].code = req[q].code /\ req[q].pc \in {"attempt", "consume"}

LEMMA CarriedOn ==
    ASSUME TypeOK, NEW r \in Req,
           \/ \E p \in PC : Goto(r, p) /\ (p = "consume" => req[r].pc = "attempt")
                                       /\ p # "attempt"
           \/ Finish(r)
    PROVE  Carried
  <1>1. CASE Finish(r)
    BY <1>1 DEF Finish, Idle, TypeOK, Carried
  <1>2. ASSUME NEW p \in PC, Goto(r, p), p = "consume" => req[r].pc = "attempt", p # "attempt"
        PROVE  Carried
    BY <1>2 DEF Goto, TypeOK, ReqState, Carried
  <1>3. QED
    BY <1>1, <1>2

(* What is accepted is the code of a request that had read an issued one.   *)
LEMMA CodeStep ==
    ASSUME IInv, CodeInv, [Next]_vars
    PROVE  CodeInv'
  <1> USE DEF IInv
  <1>n. issued \in Nat /\ (Exists => row.id # 0 /\ row.code \in Nat)
    BY DEF TypeOK, Row, Exists
  <1>1. ASSUME UNCHANGED <<row, issued, accepted>>, NEW r \in Req,
               \/ \E p \in PC : Goto(r, p) /\ (p = "consume" => req[r].pc = "attempt")
                                           /\ p # "attempt"
               \/ Finish(r)
        PROVE  CodeInv'
    <2>1. Carried
      BY <1>1, CarriedOn
    <2>2. QED
      BY <1>1, <2>1 DEF CodeInv, Carried, Exists
  <1>2. ASSUME DeleteRow, UNCHANGED <<issued, accepted>>,
               UNCHANGED req \/ \E r \in Req : Finish(r)
        PROVE  CodeInv'
    <2>1. \A q \in Req : req'[q].pc \in {"attempt", "consume"} => req'[q] = req[q]
      BY <1>2 DEF Finish, Idle, TypeOK, ReqState
    <2>2. ~Exists'
      BY <1>2 DEF DeleteRow, NoRow, Exists
    <2>3. QED
      BY <1>2, <2>1, <2>2 DEF CodeInv
  <1>3. ASSUME NEW r \in Req, Issue(r) PROVE CodeInv'
    <2>1. issued' = issued + 1 /\ row'.code = issued + 1 /\ accepted' = accepted
      BY <1>3 DEF Issue, NoRow
    <2>2. \A q \in Req : req'[q].pc \in {"attempt", "consume"} => req'[q] = req[q]
      BY <1>3 DEF Issue, Goto, TypeOK, ReqState
    <2>3. 1..issued \subseteq 1..issued' /\ issued' \in 1..issued'
      BY <1>n, <2>1
    <2>4. QED
      BY <2>1, <2>2, <2>3 DEF CodeInv
  <1>4. ASSUME NEW r \in Req, NEW guess, Submit(r, guess) PROVE CodeInv'
    <2>1. row.code \in 1..issued
      BY <1>4 DEF Submit, CodeInv
    <2>2. /\ req'[r].code = row.code
          /\ \A q \in Req \ {r} : req'[q] = req[q]
      BY <1>4 DEF Submit, TypeOK
    <2>3. UNCHANGED <<row, issued, accepted>>
      BY <1>4 DEF Submit
    <2>4. QED
      BY <2>1, <2>2, <2>3 DEF CodeInv, Exists
  <1>5. ASSUME NEW r \in Req, Attempt(r) PROVE CodeInv'
    <2>1. Carried
      BY <1>5, CarriedOn DEF Attempt, PC
    <2>2. row'.id = row.id /\ row'.code = row.code /\ UNCHANGED <<issued, accepted>>
      <3>1. UNCHANGED <<issued, accepted>>
        BY <1>5 DEF Attempt
      <3>2. row' = row \/ row' = [row EXCEPT !.attempts = @ + 1]
        BY <1>5 DEF Attempt
      <3>3. QED
        BY <3>1, <3>2 DEF TypeOK, Row
    <2>3. QED
      BY <2>1, <2>2 DEF CodeInv, Carried, Exists
  <1>6. ASSUME NEW r \in Req, Consume(r) PROVE CodeInv'
    <2>1. \A q \in Req : req'[q].pc \in {"attempt", "consume"} => req'[q] = req[q]
      BY <1>6 DEF Consume, Finish, Idle, TypeOK, ReqState
    <2>2. row'.id = row.id /\ row'.code = row.code /\ issued' = issued
      BY <1>6 DEF Consume, TypeOK, Row
    <2>3. req[r].code \in 1..issued
      BY <1>6 DEF Consume, CodeInv
    <2>4. \A i \in DOMAIN accepted' : accepted'[i] \in 1..issued
      <3>1. CASE accepted' = Append(accepted, req[r].code)
        <4>1. accepted \in Seq(Nat) /\ req[r].code \in Nat
          BY DEF TypeOK, ReqState
        <4>2. /\ DOMAIN accepted' = DOMAIN accepted \cup {Len(accepted) + 1}
              /\ \A i \in DOMAIN accepted : accepted'[i] = accepted[i]
              /\ accepted'[Len(accepted) + 1] = req[r].code
          BY <3>1, <4>1, Appended
        <4>3. QED
          BY <2>3, <4>2 DEF CodeInv
      <3>2. QED
        BY <1>6, <3>1 DEF Consume, CodeInv
    <2>5. QED
      BY <2>1, <2>2, <2>4 DEF CodeInv, Exists
  <1>7. ASSUME CooldownEnds \/ Expires PROVE CodeInv'
    <2>1. row'.id = row.id /\ row'.code = row.code /\ UNCHANGED <<issued, req, accepted>>
      BY <1>7 DEF CooldownEnds, Expires, TypeOK, Row
    <2>2. QED
      BY <2>1 DEF CodeInv, Exists
  <1>8. ASSUME NEW r \in Req, AskForCode(r) \/ Mail(r) \/ Abort(r) PROVE CodeInv'
    BY <1>1, <1>8 DEF AskForCode, Mail, Abort, PC
  <1>9. ASSUME UNCHANGED vars PROVE CodeInv'
    BY <1>9 DEF vars, CodeInv, Exists
  <1>10. QED
    BY <1>2, <1>3, <1>4, <1>5, <1>6, <1>7, <1>8, <1>9 DEF Next, Discard, Invalidate

(* An address that was proven stays proven: codes and acceptances are only  *)
(* added.                                                                   *)
LEMMA ProvenStays ==
    ASSUME TypeOK, CodeInv, CampusTypeOK, NEW a, Proven(a),
           \/ UNCHANGED accepted
           \/ \E c \in Nat : accepted' = Append(accepted, c),
           \/ UNCHANGED target
           \/ \E b \in Addr : target' = Append(target, b)
    PROVE  Proven(a)'
  <1>1. PICK i \in DOMAIN accepted : target[accepted[i]] = a
    BY DEF Proven
  <1>2. i \in DOMAIN accepted' /\ accepted'[i] = accepted[i]
    BY Appended DEF TypeOK
  <1>3. accepted[i] \in DOMAIN target
    BY DEF CodeInv, CampusTypeOK
  <1>4. target'[accepted[i]] = target[accepted[i]]
    BY <1>3, Appended DEF CampusTypeOK
  <1>5. QED
    BY <1>1, <1>2, <1>4 DEF Proven

(* A step that moves one request from one statement to the next.            *)
LEMMA JobStep ==
    ASSUME AffInv, NEW r \in Req, NEW j \in Jobs, job' = [job EXCEPT ![r] = j],
           UNCHANGED <<aff, mirror, taken, target, issued, accepted, barred, crossed, torn>>,
           j.pc \in {"check", "write"} => Proven(j.addr),
           j.pc \in {"ask", "check", "write"} => j.addr \in Addr,
           j.pc \in {"write", "delete"} => ~(barred /\ ~crossed),
           j.pc \in {"clear", "unmirror"} => torn \/ aff = NoAff
    PROVE  AffInv'
  <1>1. /\ job' \in [Req -> Jobs] /\ job'[r] = j
        /\ \A q \in Req \ {r} : job'[q] = job[q]
    BY DEF AffInv, CampusTypeOK, Jobs
  <1>2. CampusTypeOK'
    BY <1>1 DEF AffInv, CampusTypeOK, Jobs
  <1>3. BoundInv' /\ BarInv' /\ ClearInv'
    BY <1>1 DEF AffInv, BoundInv, Proven, BarInv, ClearInv, Unlocked
  <1>4. OnlyProvenAddress' /\ RevocationHolds' /\ MirrorAgrees'
    BY DEF AffInv, OnlyProvenAddress, RevocationHolds, MirrorAgrees
  <1>5. QED
    BY <1>2, <1>3, <1>4 DEF AffInv

LEMMA QuietStep ==
    ASSUME AffInv, UNCHANGED <<campus, issued, accepted>>
    PROVE  AffInv'
  BY DEF campus, AffInv, CampusTypeOK, BoundInv, Proven, BarInv, ClearInv, Unlocked,
         OnlyProvenAddress, RevocationHolds, MirrorAgrees

LEMMA NoJobStep ==
    ASSUME AffInv, NEW r \in Req, Done(r),
           UNCHANGED <<aff, mirror, taken, target, issued, accepted, barred, crossed, torn>>
    PROVE  AffInv'
  <1>1. NoJob \in Jobs /\ NoJob.pc = "none"
    BY DEF NoJob, Jobs, JobPC
  <1>2. QED
    BY <1>1, JobStep DEF Done

LEMMA MoveStep ==
    ASSUME AffInv, NEW r \in Req, NEW p \in JobPC, To(r, p),
           UNCHANGED <<aff, mirror, taken, target, issued, accepted, barred, crossed, torn>>,
           p \in {"none", "write", "delete", "clear", "drop", "unmirror"},
           p = "write" => job[r].pc = "check",
           p \in {"write", "delete"} => ~(barred /\ ~crossed),
           p \in {"clear", "unmirror"} => torn \/ aff = NoAff
    PROVE  AffInv'
  <1> DEFINE j == [job[r] EXCEPT !.pc = p]
  <1>1. j \in Jobs /\ j.pc = p /\ j.addr = job[r].addr
    BY DEF AffInv, CampusTypeOK, Jobs
  <1>2. p = "write" => Proven(j.addr) /\ j.addr \in Addr
    BY <1>1 DEF AffInv, BoundInv
  <1>3. job' = [job EXCEPT ![r] = j]
    BY DEF To
  <1> HIDE DEF j
  <1>4. QED
    BY <1>1, <1>2, <1>3, JobStep

-----------------------------------------------------------------------------
LEMMA AffStep ==
    ASSUME IInv, CodeInv, AffInv, CampusNext
    PROVE  AffInv'
  <1> USE DEF IInv
  <1>t. /\ TypeOK /\ CampusTypeOK /\ RevocationHolds
        /\ job \in [Req -> Jobs]
    BY DEF AffInv, CampusTypeOK, Jobs
  <1>1. ASSUME NEW r \in Req, NEW a \in Addr, Ask(r, a) PROVE AffInv'
    <2> DEFINE j == [pc |-> "ask", addr |-> a]
    <2>1. j \in Jobs /\ j.pc = "ask" /\ j.addr \in Addr
      BY DEF Jobs, JobPC
    <2>2. job' = [job EXCEPT ![r] = j]
      BY <1>1 DEF Ask
    <2> HIDE DEF j
    <2>3. QED
      BY <1>1, <2>1, <2>2, JobStep DEF Ask, AskForCode
  <1>2. ASSUME NEW r \in Req, IssueFor(r) PROVE AffInv'
    <2>1. /\ job[r].addr \in Addr /\ target' = Append(target, job[r].addr)
          /\ issued' = issued + 1 /\ UNCHANGED <<aff, mirror, taken, accepted, barred, crossed, torn>>
      BY <1>2 DEF IssueFor, Issue, At, AffInv, BoundInv
    <2>2. /\ job' \in [Req -> Jobs] /\ job'[r].pc = "none"
          /\ \A q \in Req \ {r} : job'[q] = job[q]
      BY <1>2, <1>t DEF IssueFor, Done, NoJob, Jobs, JobPC
    <2>3. \A b : Proven(b) => Proven(b)'
      BY <1>t, <2>1, ProvenStays
    <2>4. CampusTypeOK'
      BY <2>1, <2>2 DEF AffInv, CampusTypeOK, Jobs
    <2>5. BoundInv' /\ BarInv' /\ ClearInv'
      BY <2>1, <2>2, <2>3 DEF AffInv, BoundInv, BarInv, ClearInv, Unlocked
    <2>6. aff # NoAff => Proven(aff.addr)
      BY DEF AffInv, OnlyProvenAddress, Proven
    <2>7. OnlyProvenAddress'
      BY <2>1, <2>3, <2>6 DEF OnlyProvenAddress, Proven
    <2>8. RevocationHolds' /\ MirrorAgrees'
      BY <2>1 DEF AffInv, RevocationHolds, MirrorAgrees
    <2>9. QED
      BY <2>4, <2>5, <2>7, <2>8 DEF AffInv
  <1>3. ASSUME NEW r \in Req,
               Send(r) \/ Compare(r) \/ \E guess \in 1..issued : Guess(r, guess)
        PROVE  AffInv'
    BY <1>3, QuietStep DEF Send, Mail, Compare, Attempt, Guess, Submit
  <1>4. ASSUME NEW r \in Req, Redeem(r) PROVE AffInv'
    <2>1. /\ req[r].pc = "consume" /\ req[r].code \in 1..issued /\ req[r].code \in Nat
          /\ UNCHANGED <<aff, mirror, taken, target, barred, crossed, torn, issued>>
      BY <1>4, <1>t DEF Redeem, Consume, CodeInv
    <2>2. CASE accepted' = accepted
      BY <1>4, <2>1, <2>2, QuietStep DEF Redeem, campus
    <2>3. CASE accepted' # accepted
      <3> DEFINE j == [pc |-> "check", addr |-> Bound(r)]
      <3>1. accepted' = Append(accepted, req[r].code)
        BY <1>4, <2>3 DEF Redeem, Consume
      <3>2. Bound(r) \in Addr
        BY <2>1 DEF Bound, AffInv, CampusTypeOK
      <3>3. ASSUME NEW b, b = Bound(r) PROVE Proven(b)'
        <4>1. /\ Len(accepted) + 1 \in DOMAIN accepted'
              /\ accepted'[Len(accepted) + 1] = req[r].code
          BY <1>t, <2>1, <3>1, Appended DEF TypeOK
        <4>2. target'[accepted'[Len(accepted) + 1]] = b
          BY <2>1, <3>3, <4>1 DEF Bound
        <4>3. QED
          BY <4>1, <4>2 DEF Proven
      <3>4. \A b : Proven(b) => Proven(b)'
        BY <1>t, <2>1, <3>1, ProvenStays
      <3>5. j \in Jobs /\ j.pc = "check" /\ j.addr = Bound(r)
        BY <3>2 DEF Jobs, JobPC
      <3>6. job' = [job EXCEPT ![r] = j]
        BY <1>4, <2>3 DEF Redeem
      <3> HIDE DEF j
      <3>7. /\ job' \in [Req -> Jobs] /\ job'[r].pc = "check" /\ job'[r].addr = Bound(r)
            /\ \A q \in Req \ {r} : job'[q] = job[q]
        BY <1>t, <3>5, <3>6
      <3>8. CampusTypeOK'
        BY <2>1, <3>7 DEF AffInv, CampusTypeOK, Jobs
      <3>9. BoundInv'
        BY <3>2, <3>3, <3>4, <3>7 DEF AffInv, BoundInv
      <3>10. BarInv' /\ ClearInv'
        BY <2>1, <3>7 DEF AffInv, BarInv, ClearInv, Unlocked
      <3>11. aff # NoAff => Proven(aff.addr)
        BY DEF AffInv, OnlyProvenAddress, Proven
      <3>12. OnlyProvenAddress'
        BY <2>1, <3>4, <3>11 DEF OnlyProvenAddress, Proven
      <3>13. RevocationHolds' /\ MirrorAgrees'
        BY <2>1 DEF AffInv, RevocationHolds, MirrorAgrees
      <3>14. QED
        BY <3>8, <3>9, <3>10, <3>12, <3>13 DEF AffInv
    <2>4. QED
      BY <2>2, <2>3
  <1>5. ASSUME NEW r \in Req, Check(r) PROVE AffInv'
    <2>1. CASE MayApply(job[r].addr) /\ To(r, "write")
      <3>1. job[r].pc = "check" /\ ~(barred /\ ~crossed)
        BY <1>5, <1>t, <2>1 DEF Check, At, MayApply, RevocationHolds
      <3>2. QED
        BY <1>5, <2>1, <3>1, MoveStep DEF Check, JobPC, vars
    <2>2. CASE Done(r)
      BY <1>5, <2>2, NoJobStep DEF Check, vars
    <2>3. QED
      BY <1>5, <2>1, <2>2 DEF Check
  <1>6. ASSUME NEW r \in Req, Write(r) PROVE AffInv'
    <2>1. CASE job[r].addr \in taken
      BY <1>6, <2>1, NoJobStep DEF Write, vars
    <2>2. CASE job[r].addr \notin taken
      <3>1. /\ job[r].addr \in Addr /\ Proven(job[r].addr) /\ ~(barred /\ ~crossed)
            /\ aff' = [addr |-> job[r].addr, revoked |-> FALSE] /\ mirror' = job[r].addr
            /\ torn' = (torn \/ \E q \in Req : Unlocked(q))
            /\ UNCHANGED <<taken, target, issued, accepted, barred, crossed>>
        BY <1>6, <2>2 DEF Write, At, AffInv, BoundInv, BarInv, vars
      <3>2. /\ job' \in [Req -> Jobs] /\ job'[r].pc = "none"
            /\ \A q \in Req \ {r} : job'[q] = job[q]
        BY <1>6, <1>t DEF Write, Done, NoJob, Jobs, JobPC
      <3>3. CampusTypeOK'
        BY <2>2, <3>1, <3>2 DEF AffInv, CampusTypeOK, Jobs
      <3>4. BoundInv' /\ BarInv'
        BY <3>1, <3>2 DEF AffInv, BoundInv, Proven, BarInv
      <3>5. ClearInv'
        BY <3>1, <3>2 DEF ClearInv, Unlocked
      <3>6. OnlyProvenAddress' /\ RevocationHolds' /\ MirrorAgrees'
        BY <3>1 DEF OnlyProvenAddress, Proven, RevocationHolds, MirrorAgrees
      <3>7. QED
        BY <3>3, <3>4, <3>5, <3>6 DEF AffInv
    <2>3. QED
      BY <2>1, <2>2
  <1>7. ASSUME NEW r \in Req, Remove(r) PROVE AffInv'
    <2>1. ~(barred /\ ~crossed)
      BY <1>7, <1>t DEF Remove, RevocationHolds
    <2>2. QED
      BY <1>7, <2>1, MoveStep DEF Remove, JobPC, vars
  <1>8. ASSUME NEW r \in Req, Delete(r) PROVE AffInv'
    <2>1. /\ aff' = NoAff /\ ~(barred /\ ~crossed)
          /\ UNCHANGED <<taken, target, issued, accepted, barred, crossed, torn>>
      BY <1>8 DEF Delete, At, AffInv, BarInv, vars
    <2>2. /\ job' \in [Req -> Jobs] /\ job'[r].pc \in {"drop", "clear"}
          /\ \A q \in Req \ {r} : job'[q] = job[q]
      BY <1>8, <1>t DEF Delete, To, Jobs, JobPC
    <2>3. torn' \/ mirror' = NoAddr
      BY <1>8, <2>1 DEF Delete, AffInv, MirrorAgrees, NoAff
    <2>4. CampusTypeOK'
      <3>1. mirror' \in Addr \cup {NoAddr}
        BY <1>8, <1>t DEF Delete, CampusTypeOK
      <3>2. NoAff \in [addr : Addr \cup {NoAddr}, revoked : BOOLEAN] /\ NoAff.addr = NoAddr
        BY DEF NoAff
      <3>3. taken' \subseteq Addr \ {NoAddr}
        BY <1>t, <2>1, NoAddrAssumption DEF CampusTypeOK
      <3>4. QED
        BY <1>t, <2>1, <2>2, <3>1, <3>2, <3>3 DEF CampusTypeOK, Jobs
    <2>5. BoundInv' /\ BarInv' /\ ClearInv'
      BY <2>1, <2>2 DEF AffInv, BoundInv, Proven, BarInv, ClearInv, Unlocked
    <2>6. OnlyProvenAddress' /\ RevocationHolds' /\ MirrorAgrees'
      BY <2>1, <2>3 DEF OnlyProvenAddress, RevocationHolds, MirrorAgrees, NoAff
    <2>7. QED
      BY <2>4, <2>5, <2>6 DEF AffInv
  <1>9. ASSUME NEW r \in Req, Clear(r) PROVE AffInv'
    <2>1. /\ mirror' = NoAddr
          /\ UNCHANGED <<aff, taken, target, issued, accepted, barred, crossed, torn>>
      BY <1>9 DEF Clear, vars
    <2>2. /\ job' \in [Req -> Jobs] /\ job'[r].pc = "drop"
          /\ \A q \in Req \ {r} : job'[q] = job[q]
      BY <1>9, <1>t DEF Clear, To, Jobs, JobPC
    <2>3. torn \/ aff = NoAff
      BY <1>9 DEF Clear, At, AffInv, ClearInv, Unlocked
    <2>4. CampusTypeOK'
      BY <1>t, <2>1, <2>2 DEF CampusTypeOK, Jobs
    <2>5. BoundInv' /\ BarInv' /\ ClearInv'
      BY <2>1, <2>2 DEF AffInv, BoundInv, Proven, BarInv, ClearInv, Unlocked
    <2>6. OnlyProvenAddress' /\ RevocationHolds'
      BY <2>1 DEF AffInv, OnlyProvenAddress, RevocationHolds
    <2>7. MirrorAgrees'
      BY <2>1, <2>3 DEF MirrorAgrees, NoAff
    <2>8. QED
      BY <2>4, <2>5, <2>6, <2>7 DEF AffInv
  <1>10. ASSUME NEW r \in Req, DropCode(r) PROVE AffInv'
    BY <1>10, NoJobStep DEF DropCode, Invalidate, vars
  <1>11. ASSUME NEW r \in Req, Die(r) PROVE AffInv'
    BY <1>11, NoJobStep DEF Die
  <1>12. ASSUME NEW r \in Req, Release(r) PROVE AffInv'
    <2>1. CASE aff = NoAff
      <3>1. /\ To(r, "unmirror")
            /\ UNCHANGED <<aff, mirror, taken, target, issued, accepted, barred, crossed, torn>>
        BY <1>12, <2>1 DEF Release, vars
      <3>2. QED
        BY <2>1, <3>1, MoveStep DEF JobPC
    <2>2. CASE aff # NoAff
      <3>1. /\ aff' = NoAff /\ mirror' = NoAddr /\ ~barred'
            /\ UNCHANGED <<taken, target, issued, accepted, job, torn>>
        BY <1>12, <2>2 DEF Release, vars
      <3>2. CampusTypeOK'
        BY <1>t, <3>1, NoAddrAssumption DEF CampusTypeOK, NoAff
      <3>3. BoundInv' /\ BarInv' /\ ClearInv'
        BY <3>1 DEF AffInv, BoundInv, Proven, BarInv, ClearInv, Unlocked
      <3>4. OnlyProvenAddress' /\ RevocationHolds' /\ MirrorAgrees'
        BY <3>1 DEF OnlyProvenAddress, RevocationHolds, MirrorAgrees, NoAff
      <3>5. QED
        BY <3>2, <3>3, <3>4 DEF AffInv
    <2>3. QED
      BY <2>1, <2>2
  <1>13. CASE Revoke
    <2>1. /\ aff # NoAff /\ aff'.revoked /\ aff'.addr = aff.addr
          /\ aff' \in [addr : Addr \cup {NoAddr}, revoked : BOOLEAN]
          /\ mirror' = NoAddr
          /\ crossed' = \E r \in Req : job[r].pc \in {"write", "delete"}
          /\ UNCHANGED <<taken, target, issued, accepted, job, torn>>
      BY <1>13, <1>t DEF Revoke, Cleared, CampusTypeOK, vars
    <2>2. CampusTypeOK'
      BY <1>t, <2>1 DEF CampusTypeOK
    <2>3. BoundInv' /\ BarInv' /\ ClearInv'
      BY <2>1 DEF AffInv, BoundInv, Proven, BarInv, ClearInv, Unlocked
    <2>4. OnlyProvenAddress' /\ RevocationHolds' /\ MirrorAgrees'
      BY <2>1 DEF AffInv, OnlyProvenAddress, RevocationHolds, MirrorAgrees
    <2>5. QED
      BY <2>2, <2>3, <2>4 DEF AffInv
  <1>14. ASSUME NEW r \in Req, Unmirror(r) PROVE AffInv'
    <2>1. /\ mirror' = NoAddr
          /\ UNCHANGED <<aff, taken, target, issued, accepted, barred, crossed, torn>>
      BY <1>14 DEF Unmirror, vars
    <2>2. /\ job' \in [Req -> Jobs] /\ job'[r].pc = "none"
          /\ \A q \in Req \ {r} : job'[q] = job[q]
      BY <1>14, <1>t DEF Unmirror, Done, NoJob, Jobs, JobPC
    <2>3. torn \/ aff = NoAff
      BY <1>14 DEF Unmirror, At, AffInv, ClearInv, Unlocked
    <2>4. CampusTypeOK'
      BY <1>t, <2>1, <2>2 DEF CampusTypeOK, Jobs
    <2>5. BoundInv' /\ BarInv' /\ ClearInv'
      BY <2>1, <2>2 DEF AffInv, BoundInv, Proven, BarInv, ClearInv, Unlocked
    <2>6. OnlyProvenAddress' /\ RevocationHolds'
      BY <2>1 DEF AffInv, OnlyProvenAddress, RevocationHolds
    <2>7. MirrorAgrees'
      BY <2>1, <2>3 DEF MirrorAgrees, NoAff
    <2>8. QED
      BY <2>4, <2>5, <2>6, <2>7 DEF AffInv
  <1>15. ASSUME NEW a \in Addr, Others(a) PROVE AffInv'
    <2>1. /\ taken' \subseteq Addr \ {aff.addr}
          /\ UNCHANGED <<aff, mirror, target, issued, accepted, job, barred, crossed, torn>>
      BY <1>15, <1>t DEF Others, CampusTypeOK, vars
    <2>2. CampusTypeOK'
      BY <1>t, <2>1 DEF CampusTypeOK
    <2>3. QED
      BY <2>1, <2>2 DEF AffInv, BoundInv, Proven, BarInv, ClearInv, Unlocked,
                        OnlyProvenAddress, RevocationHolds, MirrorAgrees
  <1>16. CASE (CooldownEnds \/ Expires) /\ UNCHANGED campus
    BY <1>16, QuietStep DEF CooldownEnds, Expires
  <1>17. QED
    BY <1>1, <1>2, <1>3, <1>4, <1>5, <1>6, <1>7, <1>8, <1>9, <1>10, <1>11, <1>12,
       <1>13, <1>14, <1>15, <1>16 DEF CampusNext

-----------------------------------------------------------------------------
LEMMA InitCampusInv == Init /\ InitCampus => RestInv /\ CodeInv /\ AffInv
  <1> SUFFICES ASSUME Init, InitCampus PROVE RestInv /\ CodeInv /\ AffInv
    OBVIOUS
  <1>1. RestInv /\ CodeInv
    BY DEF Init, RestInv, CodeInv, Exists, NoRow, Idle
  <1>2. CampusTypeOK
    BY DEF Init, InitCampus, CampusTypeOK, NoAff, NoJob, JobPC
  <1>3. BoundInv /\ BarInv /\ ClearInv
    BY DEF InitCampus, NoJob, BoundInv, BarInv, ClearInv, Unlocked
  <1>4. OnlyProvenAddress /\ RevocationHolds /\ MirrorAgrees
    BY DEF InitCampus, NoAff, OnlyProvenAddress, RevocationHolds, MirrorAgrees
  <1>5. QED
    BY <1>1, <1>2, <1>3, <1>4 DEF AffInv

LEMMA CampusStep ==
    IInv /\ CampusInv /\ [CampusNext]_all => IInv' /\ CampusInv' /\ [Next]_vars
  <1> SUFFICES ASSUME IInv, CampusInv, [CampusNext]_all
               PROVE  IInv' /\ CampusInv' /\ [Next]_vars
    OBVIOUS
  <1>1. RestInv /\ CodeInv /\ AffInv /\ TypeOK
    BY DEF CampusInv, AffInv, IInv
  <1>2. [Next]_vars
    BY <1>1, CampusIsOtp DEF all
  <1>3. IInv' /\ RestInv' /\ CodeInv'
    BY <1>1, <1>2, StepIInv, RestStep, CodeStep
  <1>4. AffInv'
    <2>1. CASE CampusNext
      BY <1>1, <2>1, AffStep
    <2>2. CASE UNCHANGED all
      BY <1>1, <2>2, QuietStep DEF all, vars
    <2>3. QED
      BY <2>1, <2>2
  <1>5. QED
    BY <1>2, <1>3, <1>4 DEF CampusInv, AffInv

LEMMA CampusInductive == CampusSpec => [](IInv /\ CampusInv)
  <1>1. Init /\ InitCampus => IInv /\ CampusInv
    BY InitIInv, InitCampusInv DEF CampusInv, AffInv
  <1>2. QED
    BY <1>1, CampusStep, PTL DEF CampusSpec

(* College verification issues, compares and consumes its codes only as     *)
(* UserOtp does, a request that dies included; so the bounds on guesses and *)
(* acceptances hold of it.                                                  *)
THEOREM CampusImplementsOtp == CampusSpec => Spec
  BY CampusInductive, CampusStep, PTL DEF CampusSpec, Spec

(* The affiliation, its mirror and the requests keep their types.           *)
THEOREM CampusTypeCorrect == CampusSpec => []CampusTypeOK
  <1>1. CampusInv => CampusTypeOK
    BY DEF CampusInv
  <1>2. QED
    BY <1>1, CampusInductive, PTL

(* Only an address to which a redeemed code was sent is ever stored, also   *)
(* when codes for two addresses are issued and compared at the same time.   *)
THEOREM AddressWasProven == CampusSpec => []OnlyProvenAddress
  <1>1. CampusInv => OnlyProvenAddress
    BY DEF CampusInv
  <1>2. QED
    BY <1>1, CampusInductive, PTL

(* A revocation is undone neither by verifying again nor by removing the    *)
(* affiliation, except by a request that had passed its check before.       *)
THEOREM RevocationStays == CampusSpec => []RevocationHolds
  <1>1. CampusInv => RevocationHolds
    BY DEF CampusInv
  <1>2. QED
    BY <1>1, CampusInductive, PTL

(* The affiliation and User.collegeEmail disagree only after a removal, by  *)
(* the owner or by an administrator, that found no row and met the creation *)
(* of one between its two statements.                                       *)
THEOREM MirrorKept == CampusSpec => []MirrorAgrees
  <1>1. CampusInv => MirrorAgrees
    BY DEF CampusInv
  <1>2. QED
    BY <1>1, CampusInductive, PTL
=============================================================================
