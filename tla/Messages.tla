------------------------------ MODULE Messages ------------------------------
(***************************************************************************)
(* One conversation: its messages, what each participant's row says of     *)
(* them, and the two implementations of sendMessage                        *)
(* (backend/src/messages/messages.service.ts,                              *)
(* backend/src/messages/core/messaging-core.service.ts).                   *)
(*                                                                         *)
(* A client sends over the socket, and over HTTP when the socket is down   *)
(* or its acknowledgement takes longer than five seconds.  Blocks, limits, *)
(* unavailable people and verification only refuse; roles in a group, read *)
(* marks and unread counters are left out.  Every stamp of the clock is a  *)
(* time of its own.                                                        *)
(***************************************************************************)
EXTENDS Naturals

CONSTANTS
    User,          \* the participants
    Handler,       \* requests under way
    Key,           \* the messages people write; each has its clientId
    MaxClock       \* bound: stamps taken

VARIABLES
    kind,          \* Conversation.type; never changes
    row,           \* ConversationParticipant: leftAt, deletedAt, clearedAt; 0 is null
    log,           \* Message rows
    hidden,        \* DeletedMessage rows
    draft,         \* at the clients: who writes each message, how it was sent last
    todo,          \* what each handler has still to do
    clock,
    latest,        \* history: the latest time each user's history was cleared at
    lapped         \* history: users two of whose clears overlapped

vars == <<kind, row, log, hidden, draft, todo, clock, latest, lapped>>

-----------------------------------------------------------------------------
Nothing == [op |-> "none"]

Init == /\ kind \in {"DM", "GROUP", "INSTANT_MATCH"}
        /\ row = [u \in User |-> [left |-> 0, deleted |-> FALSE, cleared |-> 0]]
        /\ log = {}
        /\ hidden = [u \in User |-> {}]
        /\ draft \in [Key -> [by : User, sent : {"not"}]]
        /\ todo = [h \in Handler |-> Nothing]
        /\ clock = 0
        /\ latest = [u \in User |-> 0]
        /\ lapped = {}

Active(u) == row[u].left = 0 /\ ~row[u].deleted

Free(h)    == todo[h].op = "none"
Plan(h, t) == Free(h) /\ todo' = [todo EXCEPT ![h] = t]
Finish(h)  == todo' = [todo EXCEPT ![h] = Nothing]

Stamp == clock < MaxClock /\ clock' = clock + 1

-----------------------------------------------------------------------------
(* Sending.  MessagesService serves the socket, and HTTP for Instant Match; *)
(* HTTP of direct and group chats is MessagingCoreService.                  *)

(* handleSendMessage: `deletedAt` and `leftAt` are filtered.                *)
SendSocket(h, k) ==
    /\ draft[k].sent = "not"
    /\ Active(draft[k].by)
    /\ draft' = [draft EXCEPT ![k].sent = "socket"]
    /\ Plan(h, [op |-> "look", key |-> k])
    /\ UNCHANGED <<kind, row, log, hidden, clock, latest, lapped>>

SendHttp(h, k) ==
    /\ draft[k].sent \in {"not", "socket"}
    /\ draft' = [draft EXCEPT ![k].sent = "http"]
    /\ \/ /\ kind = "INSTANT_MATCH"
          /\ Active(draft[k].by)
          /\ Plan(h, [op |-> "look", key |-> k])
       \/ /\ kind # "INSTANT_MATCH"
          /\ row[draft[k].by].left = 0
          /\ Plan(h, [op |-> "core", key |-> k])
    /\ UNCHANGED <<kind, row, log, hidden, clock, latest, lapped>>

(* The idempotency check.                                                   *)
Stored(k) == \E m \in log : m.key = k /\ m.keyed

Look(h) ==
    /\ todo[h].op = "look"
    /\ IF Stored(todo[h].key)
       THEN Finish(h)
       ELSE todo' = [todo EXCEPT ![h].op = "unified"]
    /\ UNCHANGED <<kind, row, log, hidden, draft, clock, latest, lapped>>

Message(k, keyed) == [at |-> clock + 1, key |-> k, keyed |-> keyed]

WriteUnified(h) ==
    /\ todo[h].op = "unified"
    /\ Stamp
    /\ log' = log \cup {Message(todo[h].key, TRUE)}
    /\ Finish(h)
    /\ UNCHANGED <<kind, row, hidden, draft, latest, lapped>>

(* New activity revives the conversation for whoever had deleted it.        *)
Revived == [u \in User |-> IF row[u].left = 0 THEN [row[u] EXCEPT !.deleted = FALSE]
                                              ELSE row[u]]

WriteCore(h) ==
    /\ todo[h].op = "core"
    /\ Stamp
    /\ log' = log \cup {Message(todo[h].key, FALSE)}
    /\ row' = Revived
    /\ Finish(h)
    /\ UNCHANGED <<kind, hidden, draft, latest, lapped>>

-----------------------------------------------------------------------------
(* clearChatForUser and deleteConversationForUser take the time, then write *)
(* it whatever the row says.                                                *)

Clears(h, u) == todo[h].op \in {"clear", "delete"} /\ todo[h].user = u

Clear(h, u) ==
    /\ Stamp
    /\ \E op \in {"clear", "delete"} : Plan(h, [op |-> op, user |-> u, at |-> clock + 1])
    /\ lapped' = IF \E g \in Handler : Clears(g, u) THEN lapped \cup {u} ELSE lapped
    /\ UNCHANGED <<kind, row, log, hidden, draft, latest>>

MutDeletedAt(r, t) == [r EXCEPT !.deleted = TRUE]
DeletedAt(r, t) == [r EXCEPT !.deleted = TRUE, !.cleared = t]

ClearTx(h, u) ==
    /\ Clears(h, u)
    /\ LET t == todo[h].at
       IN  /\ row' = [row EXCEPT ![u] = IF todo[h].op = "clear"
                                        THEN [@ EXCEPT !.cleared = t] ELSE DeletedAt(@, t)]
           /\ latest' = [latest EXCEPT ![u] = IF t > @ THEN t ELSE @]
    /\ Finish(h)
    /\ UNCHANGED <<kind, log, hidden, draft, clock, lapped>>

(* deleteMessageForMe.                                                      *)
Hide(h, u) ==
    /\ Active(u)
    /\ \E m \in log : Plan(h, [op |-> "hide", user |-> u, msg |-> m])
    /\ UNCHANGED <<kind, row, log, hidden, draft, clock, latest, lapped>>

HideTx(h, u) ==
    /\ todo[h].op = "hide" /\ todo[h].user = u
    /\ hidden' = [hidden EXCEPT ![u] = @ \cup {todo[h].msg}]
    /\ Finish(h)
    /\ UNCHANGED <<kind, row, log, draft, clock, latest, lapped>>

-----------------------------------------------------------------------------
(* Coming and going.  startDM revives the caller's own row.                 *)

StartDM(u) ==
    /\ kind = "DM"
    /\ row' = [row EXCEPT ![u].deleted = FALSE]
    /\ UNCHANGED <<kind, log, hidden, draft, todo, clock, latest, lapped>>

(* leaveGroup by the member, removeGroupMember by an admin.                 *)
Leave(h, u) ==
    /\ kind = "GROUP"
    /\ Active(u)
    /\ Plan(h, [op |-> "leave", user |-> u])
    /\ UNCHANGED <<kind, row, log, hidden, draft, clock, latest, lapped>>

LeaveTx(h, u) ==
    /\ todo[h].op = "leave" /\ todo[h].user = u
    /\ Stamp
    /\ row' = [row EXCEPT ![u].left = clock + 1]
    /\ Finish(h)
    /\ UNCHANGED <<kind, log, hidden, draft, latest, lapped>>

(* addGroupMember, joinGroupByInvite, acceptGroupJoinRequest; the last has  *)
(* a request of the user and does not look at the row.                      *)
Enter(h, u) ==
    /\ kind = "GROUP"
    /\ Plan(h, [op |-> "enter", user |-> u])
    /\ UNCHANGED <<kind, row, log, hidden, draft, clock, latest, lapped>>

Entered(r) == [r EXCEPT !.left = 0, !.deleted = FALSE]

EnterTx(h, u) ==
    /\ todo[h].op = "enter" /\ todo[h].user = u
    /\ row' = [row EXCEPT ![u] = Entered(@)]
    /\ Finish(h)
    /\ UNCHANGED <<kind, log, hidden, draft, clock, latest, lapped>>

(* Anything a handler asks on its way may refuse or fail.                   *)
Refuse(h) ==
    /\ ~Free(h)
    /\ Finish(h)
    /\ UNCHANGED <<kind, row, log, hidden, draft, clock, latest, lapped>>

-----------------------------------------------------------------------------
Next == \E h \in Handler :
    \/ \E k \in Key : SendSocket(h, k) \/ SendHttp(h, k)
    \/ Look(h) \/ WriteUnified(h) \/ WriteCore(h) \/ Refuse(h)
    \/ \E u \in User : \/ Clear(h, u) \/ ClearTx(h, u) \/ Hide(h, u) \/ HideTx(h, u)
                       \/ Leave(h, u) \/ LeaveTx(h, u) \/ Enter(h, u) \/ EnterTx(h, u)
                       \/ StartDM(u)

Spec == Init /\ [][Next]_vars

-----------------------------------------------------------------------------
(* Type correctness.                                                        *)
TypeOK ==
    LET Time    == 0..MaxClock
        Row     == [at : Time, key : Key, keyed : BOOLEAN]
    IN  /\ kind \in {"DM", "GROUP", "INSTANT_MATCH"}
        /\ row \in [User -> [left : Time, deleted : BOOLEAN, cleared : Time]]
        /\ log \subseteq Row
        /\ hidden \in [User -> SUBSET log]
        /\ draft \in [Key -> [by : User, sent : {"not", "socket", "http"}]]
        /\ todo \in [Handler -> {Nothing}
                      \cup [op : {"look", "unified", "core"}, key : Key]
                      \cup [op : {"clear", "delete"}, user : User, at : Time]
                      \cup [op : {"hide"}, user : User, msg : log]
                      \cup [op : {"leave", "enter"}, user : User]]
        /\ clock \in Time
        /\ latest \in [User -> Time]
        /\ lapped \subseteq User

(* getConversationHistory: what a participant is shown who opens the        *)
(* conversation, up to the time of leaving, after the time of clearing.     *)
History(u) ==
    {m \in log \ hidden[u] : /\ ~row[u].deleted
                             /\ row[u].left = 0 \/ m.at <= row[u].left
                             /\ m.at > row[u].cleared}

(* getCatchupMessages: what a client is sent that reconnects and names a    *)
(* time, the one of its last connection.                                    *)
Catchup(u, since) ==
    {m \in log \ hidden[u] : Active(u) /\ m.at > since}

(* Who opens the conversation is never shown again what was cleared or      *)
(* deleted with it, whoever revives the conversation and however often one  *)
(* leaves and returns - unless two clears of one user overlap, when the     *)
(* earlier time may be written last.  Of the other read, Catchup, this is   *)
(* not true.                                                                *)
HiddenForGood ==
    \A u \in User \ lapped : \A m \in History(u) : m.at > latest[u]

(* "Every read path that serves message content for a user ... filters on   *)
(* clearedAt, so the clear survives new messages arriving", the read of a   *)
(* client that reconnects included.                                         *)
CatchupHidesCleared ==
    \A u \in User \ lapped, since \in 0..clock :
        \A m \in Catchup(u, since) : m.at > latest[u]

(* A message sent again by its client is not stored twice: "a retried send  *)
(* returns the existing message instead of writing a second one".           *)
RetryOnce == \A m, n \in log : m.key = n.key => m = n
=============================================================================
