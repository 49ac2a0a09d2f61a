------------------------------- MODULE UserOtp -------------------------------
(***************************************************************************)
(* One-time codes of Meetifyy (backend/src/otp/user-otp.service.ts), as    *)
(* account deletion and recovery, college verification and the change of   *)
(* the sign-in address use them.                                           *)
(*                                                                         *)
(* One user and one purpose, so at most one row of UserOtp.  Requests run  *)
(* concurrently; each awaited statement is one action.  Codes are random   *)
(* and never repeat here: the n-th code issued is n, and 0 is a guess that *)
(* matches no code.                                                        *)
(***************************************************************************)
EXTENDS Naturals, Sequences

CONSTANTS
    Req,           \* concurrent HTTP requests
    MaxAttempts,   \* OTP_MAX_ATTEMPTS
    MaxIssues      \* bound: codes ever issued

ASSUME AttemptsAssumption == MaxAttempts \in Nat \ {0}
ASSUME IssuesAssumption   == MaxIssues \in Nat

VARIABLES
    row,           \* the UserOtp row; id 0 when there is none
    issued,        \* codes issued so far (the last one is this number)
    req,           \* what each request is doing, and the record it read
    compared,      \* history: how many guesses were compared with a code
    accepted,      \* history: the codes that were accepted, in order
    withdrawn      \* history: every code up to this one was deleted or replaced before a delete

vars == <<row, issued, req, compared, accepted, withdrawn>>

-----------------------------------------------------------------------------
(* The row is created by the first issue after a delete and gets a new id   *)
(* then (here: the number of that code); a later issue rewrites it.         *)
(* "cooling": createdAt is less than OTP_RESEND_COOLDOWN_MS ago.            *)
Row == [id : Nat, code : Nat, attempts : 0..MaxAttempts,
        consumed : BOOLEAN, expired : BOOLEAN, cooling : BOOLEAN]

NoRow == [id |-> 0, code |-> 0, attempts |-> 0,
          consumed |-> FALSE, expired |-> FALSE, cooling |-> FALSE]

Exists == row.id # 0

PC == {"idle", "upsert", "mail", "discard", "attempt", "consume"}

Idle == [pc |-> "idle", guess |-> 0, id |-> 0, code |-> 0]

ReqState == [pc : PC, guess : Nat, id : Nat, code : Nat]

Goto(r, p) == req' = [req EXCEPT ![r].pc = p]
Finish(r)  == req' = [req EXCEPT ![r] = Idle]

Init == /\ row = NoRow
        /\ issued = 0
        /\ req = [r \in Req |-> Idle]
        /\ compared = 0
        /\ accepted = <<>>
        /\ withdrawn = 0

-----------------------------------------------------------------------------
(* issue.                                                                   *)

(* assertCanSend: the cooldown is read from the row.  The hourly limit can  *)
(* refuse too; a refusal changes nothing.                                   *)
AskForCode(r) ==
    /\ req[r].pc = "idle"
    /\ ~row.cooling
    /\ Goto(r, "upsert")
    /\ UNCHANGED <<row, issued, compared, accepted, withdrawn>>

(* The upsert on (userId, purpose).                                         *)
Issue(r) ==
    /\ req[r].pc = "upsert"
    /\ issued < MaxIssues
    /\ issued' = issued + 1
    /\ row' = [NoRow EXCEPT !.id = IF Exists THEN row.id ELSE issued + 1,
                            !.code = issued + 1,
                            !.cooling = TRUE]
    /\ Goto(r, "mail")
    /\ UNCHANGED <<compared, accepted, withdrawn>>

(* The callers send the code by mail; when that fails the deletion flow     *)
(* drops the code and the others leave it.                                  *)
Mail(r) ==
    /\ req[r].pc = "mail"
    /\ Finish(r) \/ Goto(r, "discard")
    /\ UNCHANGED <<row, issued, compared, accepted, withdrawn>>

DeleteRow == /\ row' = NoRow
             /\ withdrawn' = IF Exists THEN issued ELSE withdrawn

(* discardUnsentCode                                                        *)
Discard(r) ==
    /\ req[r].pc = "discard"
    /\ DeleteRow
    /\ Finish(r)
    /\ UNCHANGED <<issued, compared, accepted>>

(* invalidate and invalidateAll: the affiliation is removed, the account is *)
(* purged.                                                                  *)
Invalidate ==
    /\ Exists
    /\ DeleteRow
    /\ UNCHANGED <<issued, req, compared, accepted>>

-----------------------------------------------------------------------------
(* consume.                                                                 *)

(* The read and the three checks on what it returned.                       *)
Submit(r, guess) ==
    /\ req[r].pc = "idle"
    /\ Exists
    /\ ~row.consumed
    /\ ~row.expired
    /\ row.attempts < MaxAttempts
    /\ req' = [req EXCEPT ![r] = [pc |-> "attempt", guess |-> guess,
                                  id |-> row.id, code |-> row.code]]
    /\ UNCHANGED <<row, issued, compared, accepted, withdrawn>>

(* where: { id: record.id }: the row that was read, not the one that a      *)
(* later issue created for the same user and purpose.                       *)
MutSameRow(r) == Exists
SameRow(r) == Exists /\ row.id = req[r].id

MutMayAttempt(r) == SameRow(r) /\ ~row.consumed
MayAttempt(r) == SameRow(r) /\ ~row.consumed /\ row.attempts < MaxAttempts

(* The conditional increment, then the comparison with the hash that was    *)
(* read.  expiresAt is compared with the time of the read, which it passed. *)
Attempt(r) ==
    /\ req[r].pc = "attempt"
    /\ \/ /\ MayAttempt(r)
          /\ row' = [row EXCEPT !.attempts = @ + 1]
          /\ compared' = compared + 1
          /\ IF req[r].guess = req[r].code THEN Goto(r, "consume") ELSE Finish(r)
       \/ /\ ~MayAttempt(r)
          /\ Finish(r)
          /\ UNCHANGED <<row, compared>>
    /\ UNCHANGED <<issued, accepted, withdrawn>>

(* updateMany where { id, consumedAt: null }                                *)
MutConsumable(r) == SameRow(r)
Consumable(r) == SameRow(r) /\ ~row.consumed

Consume(r) ==
    /\ req[r].pc = "consume"
    /\ \/ /\ Consumable(r)
          /\ row' = [row EXCEPT !.consumed = TRUE]
          /\ accepted' = Append(accepted, req[r].code)
       \/ /\ ~Consumable(r)
          /\ UNCHANGED <<row, accepted>>
    /\ Finish(r)
    /\ UNCHANGED <<issued, compared, withdrawn>>

-----------------------------------------------------------------------------
(* Time, and requests that die.                                             *)

CooldownEnds ==
    /\ row.cooling
    /\ row' = [row EXCEPT !.cooling = FALSE]
    /\ UNCHANGED <<issued, req, compared, accepted, withdrawn>>

(* OTP_TTL_MS is longer than the cooldown.                                  *)
Expires ==
    /\ Exists
    /\ ~row.cooling
    /\ ~row.expired
    /\ row' = [row EXCEPT !.expired = TRUE]
    /\ UNCHANGED <<issued, req, compared, accepted, withdrawn>>

Abort(r) ==
    /\ req[r].pc # "idle"
    /\ Finish(r)
    /\ UNCHANGED <<row, issued, compared, accepted, withdrawn>>

-----------------------------------------------------------------------------
Next ==
    \/ \E r \in Req : \/ AskForCode(r) \/ Issue(r) \/ Mail(r) \/ Discard(r)
                      \/ \E guess \in 0..issued : Submit(r, guess)
                      \/ Attempt(r) \/ Consume(r)
                      \/ Abort(r)
    \/ Invalidate
    \/ CooldownEnds
    \/ Expires

Spec == Init /\ [][Next]_vars

-----------------------------------------------------------------------------
(* Type correctness of the UserOtp row, the requests and the history.       *)
TypeOK ==
    /\ row \in Row
    /\ issued \in Nat
    /\ req \in [Req -> ReqState]
    /\ compared \in Nat
    /\ accepted \in Seq(Nat)
    /\ withdrawn \in Nat

(* "The database increments the counter for at most OTP_MAX_ATTEMPTS        *)
(* requests in total, however they interleave": parallel guesses, reissues  *)
(* and deletes buy no more comparisons than the issued codes are worth.     *)
GuessBudget == compared <= MaxAttempts * issued

(* Every issue is worth at most one acceptance: concurrent submissions of a *)
(* correct code, before or after a reissue, cannot both be accepted unless  *)
(* another code was issued for the second.                                  *)
OneAcceptancePerIssue == Len(accepted) <= issued

(* invalidate is final: a code that was deleted (the affiliation removed,   *)
(* the account purged, the mail not sent), or replaced before that, is not  *)
(* accepted by a request that read it earlier.                              *)
WithdrawnStaysOut ==
    [][accepted' # accepted => accepted'[Len(accepted')] > withdrawn]_vars
=============================================================================
