------------------------------ MODULE Presence ------------------------------
(***************************************************************************)
(* Presence of one user (backend/src/presence/presence.service.ts, called  *)
(* from the socket handlers of backend/src/realtime/realtime.gateway.ts).  *)
(*                                                                         *)
(* The record in Redis is read, changed and written back without a lock by *)
(* the sockets of every instance; an instance only knows which of its own  *)
(* sockets are connected.  The in-memory fallback is the same with one     *)
(* instance and nothing between read and write.                            *)
(***************************************************************************)
EXTENDS FiniteSets

CONSTANTS
    Socket,        \* connections of this user, each made once
    Instance       \* instances of the backend

VARIABLES
    home,          \* the instance that holds each socket; never changes
    conn,          \* sockets that are connected
    used,          \* sockets that have been connected
    rec,           \* the Redis record; status "none" when there is none
    timer,         \* instances whose disconnect timer is armed
    op,            \* what each socket's handlers are doing, and what they read
    firing,        \* timers that have read the record
    told,          \* the status last broadcast
    overtaken,     \* history: a disconnect was handled inside the connect it ends
    missed         \* history: since setOnline last stored a record, a call to Redis
                   \* failed or an instance died

vars == <<home, conn, used, rec, timer, op, firing, told, overtaken, missed>>

-----------------------------------------------------------------------------
Record   == [status : {"none", "online", "offline"}, ids : SUBSET Socket]
NoRecord == [status |-> "none", ids |-> {}]
Offline  == [status |-> "offline", ids |-> {}]

(* coming: setOnline between its read and its write, and what it read.      *)
(* going: setOffline still has to be called, or has read and must write.    *)
Quiet == [coming |-> "no", saw |-> NoRecord, going |-> "no", left |-> NoRecord]
Op == [coming : {"no", "read", "write"}, saw : Record,
       going : {"no", "read", "write"}, left : Record]

Init == /\ home \in [Socket -> Instance]
        /\ conn = {} /\ used = {}
        /\ rec = NoRecord
        /\ timer = {}
        /\ op = [s \in Socket |-> Quiet]
        /\ firing = [i \in Instance |-> "no"]
        /\ told = "offline"
        /\ overtaken = FALSE
        /\ missed = FALSE

(* cleanPresence: ids this instance cannot vouch for are dropped.           *)
MutClean(r, i) == r
Clean(r, i) ==
    LET ids == {s \in r.ids : home[s] = i /\ s \in conn}
    IN  IF r = NoRecord THEN NoRecord
        ELSE [status |-> IF ids = {} THEN "offline" ELSE r.status, ids |-> ids]

MutOnline(r, s) == [status |-> IF r = NoRecord THEN "online" ELSE r.status,
                    ids |-> r.ids \cup {s}]
Online(r, s) == [status |-> "online", ids |-> r.ids \cup {s}]

-----------------------------------------------------------------------------
(* handleConnection and the heartbeat: setOnline cancels the timer of its   *)
(* instance, reads, and writes.                                             *)

BeginOnline(s) ==
    /\ timer' = timer \ {home[s]}
    /\ op' = [op EXCEPT ![s].coming = "read"]
    /\ UNCHANGED <<home, rec, firing, told, overtaken, missed>>

Connect(s) ==
    /\ s \notin used
    /\ conn' = conn \cup {s}
    /\ used' = used \cup {s}
    /\ BeginOnline(s)

Heartbeat(s) ==
    /\ s \in conn
    /\ op[s].coming = "no"
    /\ UNCHANGED <<conn, used>>
    /\ BeginOnline(s)

ReadOnline(s) ==
    /\ op[s].coming = "read"
    /\ op' = [op EXCEPT ![s].coming = "write", ![s].saw = Clean(rec, home[s])]
    /\ UNCHANGED <<home, conn, used, rec, timer, firing, told, overtaken, missed>>

WriteOnline(s) ==
    /\ op[s].coming = "write"
    /\ rec' = Online(op[s].saw, s)
    /\ told' = IF op[s].saw.status # "online" THEN "online" ELSE told
    /\ op' = [op EXCEPT ![s].coming = "no", ![s].saw = NoRecord]
    /\ missed' = FALSE
    /\ UNCHANGED <<home, conn, used, timer, firing, overtaken>>

(* A call to Redis fails and the error is swallowed; a write may still have *)
(* been stored.                                                             *)
FailOnline(s) ==
    /\ op[s].coming # "no"
    /\ \/ rec' = rec
       \/ op[s].coming = "write" /\ rec' = Online(op[s].saw, s)
    /\ op' = [op EXCEPT ![s].coming = "no", ![s].saw = NoRecord]
    /\ missed' = TRUE
    /\ UNCHANGED <<home, conn, used, timer, firing, told, overtaken>>

-----------------------------------------------------------------------------
(* handleDisconnect: setOffline without the socket.  If others of this      *)
(* instance remain the record is written, else the timer is armed.          *)

Disconnect(s) ==
    /\ s \in conn
    /\ conn' = conn \ {s}
    /\ op' = [op EXCEPT ![s].going = "read"]
    /\ UNCHANGED <<home, used, rec, timer, firing, told, overtaken, missed>>

ReadOffline(s) ==
    /\ op[s].going = "read"
    /\ LET r == Clean([rec EXCEPT !.ids = @ \ {s}], home[s])
       IN  IF r.ids = {}
           THEN /\ op' = [op EXCEPT ![s].going = "no"]
                /\ timer' = IF r = NoRecord THEN timer ELSE timer \cup {home[s]}
           ELSE /\ op' = [op EXCEPT ![s].going = "write", ![s].left = r]
                /\ UNCHANGED timer
    /\ overtaken' = (overtaken \/ op[s].coming # "no")
    /\ UNCHANGED <<home, conn, used, rec, firing, told, missed>>

WriteOffline(s) ==
    /\ op[s].going = "write"
    /\ rec' = op[s].left
    /\ op' = [op EXCEPT ![s].going = "no", ![s].left = NoRecord]
    /\ UNCHANGED <<home, conn, used, timer, firing, told, overtaken, missed>>

(* The swallowed error: without the read no timer is armed.                 *)
FailOffline(s) ==
    /\ op[s].going # "no"
    /\ \/ rec' = rec
       \/ op[s].going = "write" /\ rec' = op[s].left
    /\ op' = [op EXCEPT ![s].going = "no", ![s].left = NoRecord]
    /\ missed' = (missed \/ op[s].going = "read")
    /\ overtaken' = (overtaken \/ (op[s].going = "read" /\ op[s].coming # "no"))
    /\ UNCHANGED <<home, conn, used, timer, firing, told>>

-----------------------------------------------------------------------------
(* Two seconds later: read again; nobody left means offline.                *)

Fire(i) ==
    /\ i \in timer
    /\ firing[i] = "no"
    /\ timer' = timer \ {i}
    /\ firing' = [firing EXCEPT ![i] = IF Clean(rec, i).ids = {} THEN "write" ELSE "no"]
    /\ UNCHANGED <<home, conn, used, rec, op, told, overtaken, missed>>

WriteGone(i) ==
    /\ firing[i] = "write"
    /\ rec' = Offline
    /\ told' = "offline"
    /\ firing' = [firing EXCEPT ![i] = "no"]
    /\ UNCHANGED <<home, conn, used, timer, op, overtaken, missed>>

(* The timer is gone from the map before it reads; its error is swallowed.  *)
FailTimer(i) ==
    /\ \/ i \in timer /\ firing[i] = "no" /\ timer' = timer \ {i} /\ rec' = rec
       \/ firing[i] = "write" /\ timer' = timer /\ rec' \in {rec, Offline}
    /\ firing' = [firing EXCEPT ![i] = "no"]
    /\ missed' = TRUE
    /\ UNCHANGED <<home, conn, used, op, told, overtaken>>

(* An instance stops: its sockets are cut, its handlers and timers gone.    *)
On(i) == {s \in Socket : home[s] = i}

Busy(i) == \/ i \in timer \/ firing[i] # "no"
           \/ \E s \in On(i) : s \in conn \/ op[s] # Quiet

Dies(i) ==
    /\ Busy(i)
    /\ conn' = conn \ On(i)
    /\ op' = [s \in Socket |-> IF s \in On(i) THEN Quiet ELSE op[s]]
    /\ timer' = timer \ {i}
    /\ firing' = [firing EXCEPT ![i] = "no"]
    /\ missed' = TRUE
    /\ UNCHANGED <<home, used, rec, told, overtaken>>

(* The record lives for 90 seconds; a connected client refreshes it every   *)
(* 25, unless that fails, and a handler does not take that long.            *)
Expire ==
    /\ rec # NoRecord
    /\ missed \/ (conn = {} /\ \A s \in Socket : op[s] = Quiet)
    /\ rec' = NoRecord
    /\ UNCHANGED <<home, conn, used, timer, op, firing, told, overtaken, missed>>

-----------------------------------------------------------------------------
Handle(s) == ReadOnline(s) \/ WriteOnline(s) \/ ReadOffline(s) \/ WriteOffline(s)

TimerRuns(i) == Fire(i) \/ WriteGone(i)

Next == \/ \E s \in Socket : \/ Connect(s) \/ Heartbeat(s) \/ Disconnect(s) \/ Handle(s)
                            \/ FailOnline(s) \/ FailOffline(s)
        \/ \E i \in Instance : TimerRuns(i) \/ FailTimer(i) \/ Dies(i)
        \/ Expire

Spec == Init /\ [][Next]_vars

(* Handlers and timers run, to their end or to an error; a connected client *)
(* sends its heartbeat.                                                     *)
Fairness == /\ \A s \in Socket : WF_vars(Handle(s)) /\ WF_vars(Heartbeat(s))
            /\ \A i \in Instance : WF_vars(TimerRuns(i))

FairSpec == Spec /\ Fairness

-----------------------------------------------------------------------------
(* Type correctness.                                                        *)
TypeOK ==
    /\ home \in [Socket -> Instance]
    /\ conn \subseteq used /\ used \subseteq Socket
    /\ rec \in Record
    /\ timer \subseteq Instance
    /\ op \in [Socket -> Op]
    /\ firing \in [Instance -> {"no", "write"}]
    /\ told \in {"online", "offline"}
    /\ overtaken \in BOOLEAN /\ missed \in BOOLEAN

(* Whoever stays connected is on record as online in the end, once calls to *)
(* Redis no longer fail: what a lost update, another instance, a late timer *)
(* or an error did is repaired by the next heartbeat that is stored.        *)
ConnectedIsOnline ==
    \A s \in Socket : <>[](s \in conn /\ ~missed) => <>[](rec.status = "online")

(* While nobody is connected and the user is still shown online, something   *)
(* is under way that will correct it: a handler that has not finished, an   *)
(* armed timer or one that has read the record.  No order of connects,      *)
(* beats, disconnects and timers loses the last of these, unless a          *)
(* disconnect overtook its own connect.  Only an error of Redis or the end  *)
(* of an instance does, after the last record setOnline stored: what they   *)
(* lose nothing finds again.  This is the half of the next property that    *)
(* does not need fairness.                                                  *)
GoneIsNoticed ==
    (~overtaken /\ ~missed /\ conn = {} /\ told = "online") =>
        \/ \E s \in Socket : op[s].coming # "no" \/ op[s].going = "read"
        \/ timer # {}
        \/ \E i \in Instance : firing[i] = "write"

(* Whoever is gone is shown offline in the end, however connects, beats and *)
(* disconnects of two sockets overlap, with two exceptions: a disconnect    *)
(* that overtook its own connect, when nothing arms the timer, and an error *)
(* of Redis or the end of an instance, when the status is corrected by no   *)
(* one until the user comes back.                                           *)
GoneShowsOffline ==
    (used # {} /\ conn = {}) ~> (told = "offline" \/ conn # {} \/ overtaken \/ missed)
=============================================================================
