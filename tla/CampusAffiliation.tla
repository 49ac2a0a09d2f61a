------------------------- MODULE CampusAffiliation -------------------------
(***************************************************************************)
(* The verified college address of one user                                *)
(* (backend/src/campus-affiliation/campus-affiliation.service.ts), over    *)
(* the one-time codes of UserOtp, purpose COLLEGE_EMAIL.                   *)
(*                                                                         *)
(* The requests are those of UserOtp.  The transactions run at READ        *)
(* COMMITTED: a read and the write that depends on it are two actions, and *)
(* the statements after the first row lock are one.                        *)
(***************************************************************************)
EXTENDS UserOtp

CONSTANTS
    Addr,          \* normalized college addresses
    NoAddr         \* SQL NULL

ASSUME NoAddrAssumption == NoAddr \notin Addr

VARIABLES
    aff,           \* the CollegeAffiliation row of the user
    mirror,        \* User.collegeEmail
    taken,         \* addresses reserved by other users
    target,        \* the address each issued code is bound to
    job,           \* what each request does beside UserOtp, and its address
    barred,        \* history: revoked, and not released by an administrator
    crossed,       \* history: the revocation met a request between check and write
    torn           \* history: an affiliation was stored inside a removal

campus == <<aff, mirror, taken, target, job, barred, crossed, torn>>
all    == <<vars, campus>>

-----------------------------------------------------------------------------
NoAff == [addr |-> NoAddr, revoked |-> FALSE]

NoJob == [pc |-> "none", addr |-> NoAddr]

JobPC == {"none", "ask", "check", "write", "delete", "clear", "drop", "unmirror"}

InitCampus ==
    /\ aff = NoAff
    /\ mirror = NoAddr
    /\ taken = {}
    /\ target = <<>>
    /\ job = [r \in Req |-> NoJob]
    /\ barred = FALSE
    /\ crossed = FALSE
    /\ torn = FALSE

At(r, pc) == job[r].pc = pc
To(r, pc) == job' = [job EXCEPT ![r].pc = pc]
Done(r)   == job' = [job EXCEPT ![r] = NoJob]
Unused(r) == req[r].pc = "idle" /\ At(r, "none")

(* Inside a removal that found no row, before its update of the mirror.     *)
Unlocked(r) == job[r].pc \in {"clear", "unmirror"}

-----------------------------------------------------------------------------
(* requestOtp: the checks, then UserOtp.issue with the address as target.   *)

Ask(r, a) ==
    /\ At(r, "none")
    /\ ~aff.revoked
    /\ a \notin taken
    /\ a # aff.addr
    /\ AskForCode(r)
    /\ job' = [job EXCEPT ![r] = [pc |-> "ask", addr |-> a]]
    /\ UNCHANGED <<aff, mirror, taken, target, barred, crossed, torn>>

IssueFor(r) ==
    /\ At(r, "ask")
    /\ Issue(r)
    /\ target' = Append(target, job[r].addr)
    /\ Done(r)
    /\ UNCHANGED <<aff, mirror, taken, barred, crossed, torn>>

(* A mail that fails leaves the code.                                       *)
Send(r) == Mail(r) /\ req'[r] = Idle /\ UNCHANGED campus

-----------------------------------------------------------------------------
(* verify: verifyBound returns the target of the record that was read.      *)

Guess(r, guess) == At(r, "none") /\ Submit(r, guess) /\ UNCHANGED campus

Compare(r) == Attempt(r) /\ UNCHANGED campus

MutBound(r) == target[row.code]
Bound(r) == target[req[r].code]

Redeem(r) ==
    /\ Consume(r)
    /\ job' = IF accepted' # accepted
              THEN [job EXCEPT ![r] = [pc |-> "check", addr |-> Bound(r)]]
              ELSE job
    /\ UNCHANGED <<aff, mirror, taken, target, barred, crossed, torn>>

(* The reads of the transaction.  A college or domain that was disabled     *)
(* refuses as well.                                                         *)
MutMayApply(a) == a \notin taken
MayApply(a) == ~aff.revoked /\ a \notin taken

Check(r) ==
    /\ At(r, "check")
    /\ \/ MayApply(job[r].addr) /\ To(r, "write")
       \/ Done(r)
    /\ UNCHANGED <<vars, aff, mirror, taken, target, barred, crossed, torn>>

(* The upsert and the mirror, or the unique index rolls both back.          *)
Write(r) ==
    /\ At(r, "write")
    /\ IF job[r].addr \in taken
       THEN UNCHANGED <<aff, mirror, torn>>
       ELSE /\ aff' = [addr |-> job[r].addr, revoked |-> FALSE]
            /\ mirror' = job[r].addr
            /\ torn' = (torn \/ \E q \in Req : Unlocked(q))
    /\ Done(r)
    /\ UNCHANGED <<vars, taken, target, barred, crossed>>

-----------------------------------------------------------------------------
(* remove by the owner.                                                     *)

Remove(r) ==
    /\ Unused(r)
    /\ ~aff.revoked
    /\ To(r, "delete")
    /\ UNCHANGED <<vars, aff, mirror, taken, target, barred, crossed, torn>>

(* With a row to delete its lock covers the update of the mirror; without   *)
(* one nothing does.                                                        *)
Delete(r) ==
    /\ At(r, "delete")
    /\ aff' = NoAff
    /\ IF aff # NoAff
       THEN mirror' = NoAddr /\ To(r, "drop")
       ELSE UNCHANGED mirror /\ To(r, "clear")
    /\ UNCHANGED <<vars, taken, target, barred, crossed, torn>>

Clear(r) ==
    /\ At(r, "clear")
    /\ mirror' = NoAddr
    /\ To(r, "drop")
    /\ UNCHANGED <<vars, aff, taken, target, barred, crossed, torn>>

DropCode(r) ==
    /\ At(r, "drop")
    /\ Invalidate \/ (~Exists /\ UNCHANGED vars)
    /\ Done(r)
    /\ UNCHANGED <<aff, mirror, taken, target, barred, crossed, torn>>

(* adminRelease, the administrator's reset: the same two statements without *)
(* the check, without dropping the code, and whether there is a row or not. *)
Release(r) ==
    /\ Unused(r)
    /\ aff' = NoAff
    /\ IF aff # NoAff
       THEN /\ mirror' = NoAddr
            /\ barred' = FALSE
            /\ crossed' = FALSE
            /\ UNCHANGED job
       ELSE To(r, "unmirror") /\ UNCHANGED <<mirror, barred, crossed>>
    /\ UNCHANGED <<vars, taken, target, torn>>

Unmirror(r) ==
    /\ At(r, "unmirror")
    /\ mirror' = NoAddr
    /\ Done(r)
    /\ UNCHANGED <<vars, aff, taken, target, barred, crossed, torn>>

-----------------------------------------------------------------------------
MutCleared == mirror
Cleared == NoAddr

(* revoke by an administrator.                                              *)
Revoke ==
    /\ aff # NoAff
    /\ aff' = [aff EXCEPT !.revoked = TRUE]
    /\ mirror' = Cleared
    /\ barred' = TRUE
    /\ crossed' = \E r \in Req : job[r].pc \in {"write", "delete"}
    /\ UNCHANGED <<vars, taken, target, job, torn>>

(* Other users reserve and release addresses.                               *)
Others(a) ==
    /\ \/ a # aff.addr /\ taken' = taken \cup {a}
       \/ taken' = taken \ {a}
    /\ UNCHANGED <<vars, aff, mirror, target, job, barred, crossed, torn>>

(* A request dies; a transaction that was open is rolled back.              *)
Die(r) ==
    /\ ~Unused(r)
    /\ req' = [req EXCEPT ![r] = Idle]
    /\ Done(r)
    /\ UNCHANGED <<row, issued, compared, accepted, withdrawn,
                   aff, mirror, taken, target, barred, crossed, torn>>

-----------------------------------------------------------------------------
CampusNext ==
    \/ \E r \in Req : \/ \E a \in Addr : Ask(r, a)
                      \/ IssueFor(r) \/ Send(r)
                      \/ \E guess \in 1..issued : Guess(r, guess)
                      \/ Compare(r) \/ Redeem(r) \/ Check(r) \/ Write(r)
                      \/ Remove(r) \/ Delete(r) \/ Clear(r) \/ DropCode(r)
                      \/ Release(r) \/ Unmirror(r) \/ Die(r)
    \/ Revoke
    \/ \E a \in Addr : Others(a)
    \/ (CooldownEnds \/ Expires) /\ UNCHANGED campus

CampusSpec == Init /\ InitCampus /\ [][CampusNext]_all

-----------------------------------------------------------------------------
(* Type correctness of the affiliation, its mirror and the requests.        *)
CampusTypeOK ==
    /\ aff \in [addr : Addr \cup {NoAddr}, revoked : BOOLEAN]
    /\ mirror \in Addr \cup {NoAddr}
    /\ taken \in SUBSET (Addr \ {aff.addr})
    /\ target \in Seq(Addr) /\ Len(target) = issued
    /\ job \in [Req -> [pc : JobPC, addr : Addr \cup {NoAddr}]]

(* "a code sent to one address cannot be redeemed to apply another", also   *)
(* when a code for a second address is issued while the first is compared.  *)
OnlyProvenAddress ==
    aff # NoAff => \E i \in DOMAIN accepted : target[accepted[i]] = aff.addr

(* "An admin revocation is not undone by verifying again", nor by removing  *)
(* the affiliation, unless the request had passed its check already.        *)
RevocationHolds == barred /\ ~crossed => aff.revoked

(* "so the two can never disagree": row and mirror agree, unless a row was  *)
(* stored between the two statements of a removal, the owner's or the       *)
(* administrator's, that found none.                                        *)
MirrorAgrees ==
    torn \/ mirror = IF aff.revoked THEN NoAddr ELSE aff.addr
=============================================================================
