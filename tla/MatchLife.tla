------------------------------ MODULE MatchLife ------------------------------
(***************************************************************************)
(* What two people who were matched may rely on, whatever else runs: the   *)
(* life of a match as the schema and the clients think of it               *)
(* (backend/prisma/schema.prisma, MatchStatus and InstantMatchChatStatus). *)
(* A pair is proposed for good; it is asked once, agrees only when both    *)
(* said yes, and a talk that is over does not begin again.                 *)
(***************************************************************************)
CONSTANTS User, Match

VARIABLE life      \* of each match: its phase, the two people, who said yes

Unmatched == [phase |-> "none", pair |-> {}, yes |-> {}]

Phase(m)     == life[m].phase
Turn(m, ph)  == life' = [life EXCEPT ![m].phase = ph]

Init == life = [m \in Match |-> Unmatched]

Propose(m, u, v) ==
    /\ Phase(m) = "none"
    /\ u # v
    /\ life' = [life EXCEPT ![m] = [phase |-> "PENDING", pair |-> {u, v}, yes |-> {}]]

SayYes(m, u) ==
    /\ Phase(m) = "PENDING"
    /\ u \in life[m].pair
    /\ life' = [life EXCEPT ![m].yes = @ \cup {u}]

(* Somebody passed, time ran out, or one of them may not talk now.          *)
Resolve(m) == /\ Phase(m) = "PENDING"
              /\ \E outcome \in {"DECLINED", "EXPIRED"} : Turn(m, outcome)

Agree(m) == /\ Phase(m) = "PENDING"
            /\ life[m].pair \subseteq life[m].yes
            /\ Turn(m, "agreed")

(* The conversation could not be created: both keep their answer.           *)
Retract(m) == Phase(m) = "agreed" /\ Turn(m, "PENDING")

Talk(m) == Phase(m) = "agreed" /\ Turn(m, "talking")

End(m) == Phase(m) = "talking" /\ Turn(m, "over")

(* Also while they talk: an ending from before the talk may arrive late.    *)
Close(m) == Phase(m) \in {"talking", "over"} /\ Turn(m, "closed")

Next == \E m \in Match :
    \/ \E u, v \in User : Propose(m, u, v)
    \/ \E u \in User : SayYes(m, u)
    \/ Resolve(m) \/ Agree(m) \/ Retract(m) \/ Talk(m) \/ End(m) \/ Close(m)

Spec == Init /\ [][Next]_life
=============================================================================
