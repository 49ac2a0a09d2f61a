--------------------------- MODULE ServicesProofs ---------------------------
(***************************************************************************)
(* RedisLock implements UserLock, for any calls on any instances, any ttl  *)
(* and any time a function takes, and FirstContact gets from it what it    *)
(* promises.  Presence forgets nobody who left.  The same of MC_Services,  *)
(* in which each component is shown to behave as it does alone; what is    *)
(* proved of the activity (ActivitiesProofs) is cited.                     *)
(***************************************************************************)
EXTENDS MC_Services, TLAPS

(* What is proved of the activity, which invites everybody.                 *)
InvitationProofs == INSTANCE ActivitiesProofs WITH Invitee <- User

(* A call that has entered the chain and not left it; one whose turn came.  *)
Pending == {c \in Call : call[c].pc \notin {"idle", "done"}}
Active  == {c \in Call : call[c].pc \notin {"idle", "queued", "done"}}
Holding == {c \in Call : call[c].pc \in {"locked", "bare", "release"}}
Done    == {c \in Call : call[c].pc = "done"}

(* A step of a call that ends it.                                           *)
Ends(c) == ReturnBare(c) \/ Release(c) \/ ReleaseFails(c) \/ SetFails(c)

-----------------------------------------------------------------------------
(* Type correctness.                                                        *)

CallState == [pc : PC, waited : Nat, ran : Nat]

LEMMA GotoType ==
    ASSUME TypeOK, NEW c \in Call, NEW s \in PC, Goto(c, s)
    PROVE  call' \in [Call -> CallState]
<1>1. [call[c] EXCEPT !.pc = s] \in CallState
  BY DEF TypeOK, CallState
<1> QED
  BY <1>1 DEF Goto, TypeOK, CallState

LEMMA PrunedType ==
    ASSUME TypeOK, NEW c \in Call
    PROVE  Pruned(c) \in [Instance -> Call \cup {None}]
  BY DEF Pruned, TypeOK

LEMMA TypeStep == TypeOK /\ [Next]_vars => TypeOK'
<1> SUFFICES ASSUME TypeOK, [Next]_vars PROVE TypeOK'
  OBVIOUS
<1> USE TtlAssumption
<1>p. {"queued", "try", "sleep", "locked", "bare", "release", "done"} \subseteq PC
  BY DEF PC
<1>1. ASSUME NEW c \in Call, Enter(c) PROVE TypeOK'
  <2>1. call' \in [Call -> CallState]
    BY <1>p, <1>1, GotoType DEF Enter
  <2> QED
    BY <1>1, <2>1 DEF Enter, TypeOK, CallState, Instance
<1>2. ASSUME NEW c \in Call, Start(c) \/ Return(c) PROVE TypeOK'
  <2>1. call' \in [Call -> CallState]
    BY <1>p, <1>2, GotoType DEF Start, Return
  <2> QED
    BY <1>2, <2>1 DEF Start, Return, TypeOK, CallState
<1>3. ASSUME NEW c \in Call, TrySet(c) PROVE TypeOK'
  <2>1. call' \in [Call -> CallState]
    BY <1>p, <1>3, GotoType DEF TrySet
  <2>2. key' \in {Free} \cup [owner : Call, left : 1..Ttl]
    BY <1>3 DEF TrySet, TypeOK
  <2> QED
    BY <1>3, <2>1, <2>2 DEF TrySet, TypeOK, CallState
<1>4. ASSUME NEW c \in Call, Wake(c) \/ NoClient(c) PROVE TypeOK'
  <2>1. call' \in [Call -> CallState]
    BY <1>p, <1>4, GotoType DEF Wake, NoClient
  <2> QED
    BY <1>4, <2>1 DEF Wake, NoClient, TypeOK, CallState
<1>5. ASSUME NEW c \in Call, Ends(c) PROVE TypeOK'
  <2>1. call' \in [Call -> CallState]
    BY <1>p, <1>5, GotoType DEF Ends, ReturnBare, Release, ReleaseFails, SetFails
  <2>2. tail' \in [Instance -> Call \cup {None}]
    BY <1>5, PrunedType DEF Ends, ReturnBare, Release, ReleaseFails, SetFails
  <2>3. key' \in {Free} \cup [owner : Call, left : 1..Ttl]
    BY <1>5 DEF Ends, ReturnBare, Release, ReleaseFails, SetFails, Released, TypeOK
  <2>4. prev' \in [Call -> Call \cup {None}] /\ degraded' \in BOOLEAN /\ slow' \in BOOLEAN /\ client' \in BOOLEAN
    BY <1>5 DEF Ends, ReturnBare, Release, ReleaseFails, SetFails, TypeOK
  <2>5. lost' \in BOOLEAN
    BY <1>5 DEF Ends, ReturnBare, Release, ReleaseFails, SetFails, TypeOK
  <2> QED
    BY <2>1, <2>2, <2>3, <2>4, <2>5 DEF TypeOK, CallState, Instance
<1>6. CASE Tick
  <2>1. ASSUME NEW c \in Call PROVE Aged(c) \in CallState
    <3>1. call[c] \in CallState
      BY DEF TypeOK, CallState
    <3>2. /\ [call[c] EXCEPT !.waited = @ + 1] \in CallState
          /\ [call[c] EXCEPT !.ran = @] \in CallState
          /\ [call[c] EXCEPT !.ran = @ + 1] \in CallState
          /\ \A x \in CallState : [x EXCEPT !.pc = "awake"] \in CallState
      BY <3>1 DEF CallState, PC
    <3> QED
      BY <3>1, <3>2 DEF Aged
  <2>2. key' \in {Free} \cup [owner : Call, left : 1..Ttl]
    BY <1>6 DEF Tick, TypeOK, Free
  <2>3. degraded' \in BOOLEAN
    BY <1>6 DEF Tick, TypeOK
  <2> QED
    BY <1>6, <2>1, <2>2, <2>3 DEF Tick, TypeOK, CallState
<1>7. ASSUME NEW i \in Instance, Dies(i) PROVE TypeOK'
  <2>1. \A c \in Call : [call[c] EXCEPT !.pc = "done"] \in CallState
    BY <1>p DEF TypeOK, CallState
  <2>2. call' \in [Call -> CallState]
    BY <1>7, <2>1 DEF Dies, TypeOK, CallState
  <2>3. lost' \in BOOLEAN
    BY <1>7 DEF Dies, TypeOK
  <2> QED
    BY <1>7, <2>2, <2>3 DEF Dies, TypeOK, CallState
<1>8. CASE UNCHANGED vars
  BY <1>8 DEF vars, TypeOK
<1> QED
  <2>1. ASSUME NEW c \in Call, Run(c) PROVE TypeOK'
    BY <1>2, <1>3, <1>4, <1>5, <2>1 DEF Run, Ends
  <2> QED
    BY <1>1, <1>6, <1>7, <1>8, <2>1 DEF Next

(* The chain, the calls and the key are well typed.                         *)
THEOREM TypeCorrect == Spec => []TypeOK
<1>1. Init => TypeOK
  <2> SUFFICES ASSUME Init PROVE TypeOK
    OBVIOUS
  <2>1. [pc |-> "idle", waited |-> 0, ran |-> 0] \in CallState
    BY DEF CallState, PC
  <2> QED
    BY <2>1 DEF Init, TypeOK, CallState
<1> QED
  BY <1>1, TypeStep, PTL DEF Spec

-----------------------------------------------------------------------------
(* The chain of one instance.  The pending calls stand in a line: there is  *)
(* a numbering in which each follows the call it waits for, the first has   *)
(* nobody to wait for, and the tail is the last.                            *)

Head(c) == prev[c] = None \/ prev[c] \in Done

Ordered(ord) ==
    /\ \A c, d \in Pending : Home[c] = Home[d] /\ ord[c] = ord[d] => c = d
    /\ \A c \in Pending :
          \/ /\ Head(c)
             /\ \A d \in Pending : Home[c] = Home[d] => ord[c] <= ord[d]
          \/ /\ prev[c] \in Pending
             /\ Home[prev[c]] = Home[c]
             /\ ord[c] = ord[prev[c]] + 1
    /\ \A i \in Instance :
          \/ /\ tail[i] \in Pending
             /\ Home[tail[i]] = i
             /\ \A d \in Pending : Home[d] = i => ord[d] <= ord[tail[i]]
          \/ tail[i] = None /\ \A d \in Pending : Home[d] # i

(* Only a call whose turn has come is active.                               *)
ChainInv ==
    /\ \A c \in Active : Head(c)
    /\ \E ord \in [Call -> Nat] : Ordered(ord)

(* Until the lock is degraded, a call whose function runs owns the key.     *)
KeyInv == ~degraded => \A c \in Holding : ~At(c, "bare") /\ key.owner = c

IInv == TypeOK /\ ChainInv /\ KeyInv

(* The line has one head.                                                   *)
LEMMA OneActive ==
    ASSUME TypeOK, ChainInv, NEW c \in Active, NEW d \in Active, Home[c] = Home[d]
    PROVE  c = d
<1>1. PICK ord \in [Call -> Nat] : Ordered(ord)
  BY DEF ChainInv
<1>2. c \in Pending /\ d \in Pending /\ Head(c) /\ Head(d)
  BY DEF ChainInv, Active, Pending
<1>3. \A e \in Call : e \in Done => e \notin Pending
  BY DEF Done, Pending
<1>4. None \notin Pending
  BY NoneAssumption DEF Pending
<1>5. ord[c] <= ord[d] /\ ord[d] <= ord[c]
  BY <1>1, <1>2, <1>3, <1>4 DEF Ordered, Head, Done
<1>6. ord[c] = ord[d]
  BY <1>5 DEF Active
<1> QED
  BY <1>1, <1>2, <1>6 DEF Ordered

(* A step that moves a call along, in its turn, keeps the line.             *)
LEMMA LineKept ==
    ASSUME ChainInv, tail' = tail, prev' = prev, Pending' = Pending, Done' = Done,
           \A c \in Active' : c \in Active \/ Head(c)
    PROVE  ChainInv'
<1>1. PICK ord \in [Call -> Nat] : Ordered(ord)
  BY DEF ChainInv
<1>2. Ordered(ord)'
  BY <1>1 DEF Ordered, Head
<1>3. \A c \in Active' : Head(c)'
  BY DEF ChainInv, Head
<1> QED
  BY <1>2, <1>3 DEF ChainInv

(* The call that enters stands behind the tail.                             *)
LEMMA LineGrows ==
    ASSUME TypeOK, ChainInv, NEW c \in Call, Enter(c)
    PROVE  ChainInv'
<1>1. PICK ord \in [Call -> Nat] : Ordered(ord)
  BY DEF ChainInv
<1>2. /\ c \notin Pending /\ c \notin Done
      /\ Pending' = Pending \cup {c} /\ Done' = Done /\ Active' = Active
      /\ c \notin Active
  BY DEF Enter, At, Goto, Pending, Done, Active, TypeOK
<1>3. /\ prev'[c] = tail[Home[c]] /\ \A d \in Call \ {c} : prev'[d] = prev[d]
      /\ tail'[Home[c]] = c /\ \A i \in Instance \ {Home[c]} : tail'[i] = tail[i]
      /\ Home[c] \in Instance
  BY DEF Enter, TypeOK, Instance
<1>4. Pending \subseteq Call /\ Active \subseteq Call
  BY DEF Pending, Active
<1>5. \A d \in Active' : Head(d)'
  BY <1>2, <1>3, <1>4 DEF ChainInv, Head
<1>6. CASE tail[Home[c]] = None
  <2>1. \A d \in Pending : Home[d] # Home[c]
    BY <1>1, <1>3, <1>4, <1>6, NoneAssumption DEF Ordered
  <2>2. Ordered(ord)'
    BY <1>1, <1>2, <1>3, <1>4, <1>6, <2>1 DEF Ordered, Head, Instance
  <2> QED
    BY <1>5, <2>2 DEF ChainInv
<1>7. CASE tail[Home[c]] # None
  <2> DEFINE t  == tail[Home[c]]
             oo == [ord EXCEPT ![c] = ord[t] + 1]
  <2>1. /\ t \in Pending /\ Home[t] = Home[c]
        /\ \A d \in Pending : Home[d] = Home[c] => ord[d] <= ord[t]
    BY <1>1, <1>3, <1>7 DEF Ordered
  <2>2. /\ oo \in [Call -> Nat] /\ oo[c] = ord[t] + 1
        /\ \A d \in Pending : oo[d] = ord[d]
    BY <1>2, <1>4, <2>1
  <2> HIDE DEF t, oo
  <2>3. prev'[c] = t
    BY <1>3 DEF t
  <2>4. \A d, e \in Pending' : Home[d] = Home[e] /\ oo[d] = oo[e] => d = e
    BY <1>1, <1>2, <1>4, <2>1, <2>2 DEF Ordered
  <2>5. ASSUME NEW d \in Pending'
        PROVE  \/ /\ Head(d)'
                  /\ \A e \in Pending' : Home[d] = Home[e] => oo[d] <= oo[e]
               \/ /\ prev'[d] \in Pending'
                  /\ Home[prev'[d]] = Home[d]
                  /\ oo[d] = oo[prev'[d]] + 1
    <3>1. CASE d = c
      BY <1>2, <2>1, <2>2, <2>3, <3>1
    <3>2. CASE d \in Pending
      BY <1>1, <1>2, <1>3, <1>4, <2>1, <2>2, <3>2 DEF Ordered, Head
    <3> QED
      BY <1>2, <3>1, <3>2
  <2>6. ASSUME NEW i \in Instance
        PROVE  \/ /\ tail'[i] \in Pending'
                  /\ Home[tail'[i]] = i
                  /\ \A d \in Pending' : Home[d] = i => oo[d] <= oo[tail'[i]]
               \/ tail'[i] = None /\ \A d \in Pending' : Home[d] # i
    BY <1>1, <1>2, <1>3, <1>4, <2>1, <2>2 DEF Ordered
  <2> QED
    BY <1>5, <2>2, <2>4, <2>5, <2>6 DEF ChainInv, Ordered, Instance
<1> QED
  BY <1>6, <1>7

(* The call that ends was the head; its successor is the next.              *)
LEMMA LineShrinks ==
    ASSUME TypeOK, ChainInv, NEW c \in Active, Goto(c, "done"), tail' = Pruned(c), prev' = prev
    PROVE  ChainInv'
<1>1. PICK ord \in [Call -> Nat] : Ordered(ord)
  BY DEF ChainInv
<1>2. /\ c \in Pending /\ c \notin Done
      /\ Pending' = Pending \ {c} /\ Done' = Done \cup {c} /\ Active' = Active \ {c}
      /\ Pending \cap Done = {} /\ None \notin Pending
  BY NoneAssumption DEF Goto, Pending, Done, Active, TypeOK
<1>3. Pending \subseteq Call /\ Active \subseteq Pending
  BY DEF Pending, Active
<1>4. /\ Head(c)
      /\ \A d \in Pending : Home[d] = Home[c] => ord[c] <= ord[d]
      /\ \A d \in Pending \ {c} : Home[d] = Home[c] => ord[c] < ord[d]
  BY <1>1, <1>2, <1>3 DEF ChainInv, Ordered, Head
<1>5. \A d \in Active' : Head(d)'
  BY <1>2, <1>3 DEF ChainInv, Head
<1>6. ASSUME NEW d \in Pending'
      PROVE  \/ /\ Head(d)'
                /\ \A e \in Pending' : Home[d] = Home[e] => ord[d] <= ord[e]
             \/ /\ prev'[d] \in Pending'
                /\ Home[prev'[d]] = Home[d]
                /\ ord[d] = ord[prev'[d]] + 1
  <2>1. CASE Head(d)
    BY <1>1, <1>2, <1>3, <2>1 DEF Ordered, Head
  <2>2. CASE prev[d] = c
    BY <1>1, <1>2, <1>3, <1>4, <2>2 DEF Ordered, Head
  <2>3. CASE ~Head(d) /\ prev[d] # c
    BY <1>1, <1>2, <1>3, <2>3 DEF Ordered
  <2> QED
    BY <2>1, <2>2, <2>3
<1>7. ASSUME NEW i \in Instance
      PROVE  \/ /\ tail'[i] \in Pending'
                /\ Home[tail'[i]] = i
                /\ \A d \in Pending' : Home[d] = i => ord[d] <= ord[tail'[i]]
             \/ tail'[i] = None /\ \A d \in Pending' : Home[d] # i
  <2>1. Home[c] \in Instance
    BY <1>2, <1>3 DEF Instance
  <2>2. CASE tail[Home[c]] = c
    <3>1. \A d \in Pending' : Home[d] # Home[c]
      BY <1>1, <1>2, <1>3, <1>4, <2>1, <2>2 DEF Ordered
    <3>2. tail'[Home[c]] = None /\ \A j \in Instance \ {Home[c]} : tail'[j] = tail[j]
      BY <2>1, <2>2 DEF Pruned, TypeOK
    <3> QED
      BY <1>1, <1>2, <3>1, <3>2 DEF Ordered
  <2>3. CASE tail[Home[c]] # c
    BY <1>1, <1>2, <2>3 DEF Ordered, Pruned
  <2> QED
    BY <2>2, <2>3
<1>8. \A d, e \in Pending' : Home[d] = Home[e] /\ ord[d] = ord[e] => d = e
  BY <1>1, <1>2 DEF Ordered
<1> QED
  BY <1>1, <1>5, <1>6, <1>7, <1>8 DEF ChainInv, Ordered, Instance

(* An instance that dies leaves no line behind.                             *)
LEMMA LineGone ==
    ASSUME TypeOK, ChainInv, NEW i \in Instance, Dies(i)
    PROVE  ChainInv'
<1>1. PICK ord \in [Call -> Nat] : Ordered(ord)
  BY DEF ChainInv
<1>2. /\ Pending' = {c \in Pending : Home[c] # i}
      /\ Active' = {c \in Active : Home[c] # i}
      /\ \A c \in Call : Home[c] # i => (c \in Done' <=> c \in Done)
      /\ Done \subseteq Done'
  BY DEF Dies, At, Pending, Active, Done, TypeOK
<1>3. prev' = prev /\ tail'[i] = None /\ \A j \in Instance \ {i} : tail'[j] = tail[j]
  BY DEF Dies, TypeOK
<1>4. \A c \in Active' : Head(c)'
  BY <1>2, <1>3 DEF ChainInv, Head
<1>5. Ordered(ord)'
  BY <1>1, <1>2, <1>3 DEF Ordered, Head, Instance
<1> QED
  BY <1>4, <1>5 DEF ChainInv

-----------------------------------------------------------------------------
(* The invariant is inductive.                                              *)

(* Time wakes sleepers and moves no other call.                             *)
LEMMA AgedKeeps ==
    ASSUME TypeOK, NEW c \in Call
    PROVE  \/ Aged(c).pc = call[c].pc
           \/ (call[c].pc = "sleep" /\ Aged(c).pc = "awake")
<1>1. call[c] \in CallState
  BY DEF TypeOK, CallState
<1>2. CASE call[c].pc = "sleep"
  <2>1. [call[c] EXCEPT !.waited = @ + 1, !.pc = "awake"].pc = "awake"
    BY <1>1 DEF CallState
  <2> QED
    BY <1>2, <2>1 DEF Aged, At
<1>3. CASE call[c].pc # "sleep"
  <2>1. \A n : [call[c] EXCEPT !.ran = n].pc = call[c].pc
    BY <1>1 DEF CallState
  <2> QED
    BY <1>3, <2>1 DEF Aged, At
<1> QED
  BY <1>2, <1>3

LEMMA ChainStep ==
    ASSUME TypeOK, ChainInv, Next
    PROVE  ChainInv'
<1>1. ASSUME NEW c \in Call, Start(c) \/ TrySet(c) \/ NoClient(c) \/ Wake(c) \/ Return(c) PROVE ChainInv'
  <2>1. tail' = tail /\ prev' = prev
    BY <1>1 DEF Start, TrySet, NoClient, Wake, Return
  <2>2. Pending' = Pending /\ Done' = Done /\ Active' \subseteq Active \cup {c}
    BY <1>1 DEF Start, TrySet, NoClient, Wake, Return, At, Goto, Pending, Done, Active, TypeOK
  <2>3. c \in Active \/ Head(c)
    BY <1>1 DEF Start, TrySet, NoClient, Wake, Return, At, Active, Turn, Head, Done
  <2> QED
    BY <2>1, <2>2, <2>3, LineKept
<1>2. ASSUME NEW c \in Call, Ends(c) PROVE ChainInv'
  <2>1. c \in Active /\ Goto(c, "done") /\ tail' = Pruned(c) /\ prev' = prev
    BY <1>2 DEF Ends, ReturnBare, Release, ReleaseFails, SetFails, At, Active
  <2> QED
    BY <2>1, LineShrinks
<1>3. CASE Tick
  <2>1. \A c \in Call : \/ call'[c].pc = call[c].pc
                        \/ (call[c].pc = "sleep" /\ call'[c].pc = "awake")
    BY <1>3, AgedKeeps DEF Tick
  <2>2. Pending' = Pending /\ Done' = Done /\ Active' = Active
    BY <2>1 DEF Pending, Done, Active
  <2> QED
    BY <1>3, <2>2, LineKept DEF Tick
<1> QED
  <2>1. ASSUME NEW c \in Call, Run(c) PROVE ChainInv'
    BY <1>1, <1>2, <2>1 DEF Run, Ends
  <2> QED
    BY <1>3, <2>1, LineGrows, LineGone DEF Next

(* While nobody has gone without the lock, the key is free only when no     *)
(* function runs.                                                           *)
LEMMA KeyStep ==
    ASSUME TypeOK, KeyInv, Next
    PROVE  KeyInv'
<1>1. ASSUME NEW c \in Call, Enter(c) \/ Start(c) \/ Return(c) PROVE KeyInv'
  <2>1. key' = key /\ degraded' = degraded
    BY <1>1 DEF Enter, Start, Return
  <2>2. Holding' \subseteq Holding /\ \A d \in Holding' : At(d, "bare")' => At(d, "bare")
    BY <1>1 DEF Enter, Start, Return, At, Goto, Holding, TypeOK
  <2> QED
    BY <2>1, <2>2 DEF KeyInv, At
<1>2. ASSUME NEW c \in Call, TrySet(c) PROVE KeyInv'
  <2>1. CASE key = Free
    <3>1. degraded \/ Holding = {}
      BY <2>1, NoneAssumption DEF KeyInv, Free, Holding
    <3>2. Holding' = Holding \cup {c} /\ call'[c].pc = "locked"
      BY <1>2, <2>1 DEF TrySet, Goto, Holding, TypeOK
    <3> QED
      BY <1>2, <2>1, <3>1, <3>2 DEF TrySet, KeyInv, At
  <2>2. CASE key # Free
    <3>1. Holding' = Holding \ {c} /\ \A d \in Call \ {c} : call'[d] = call[d]
      BY <1>2, <2>2 DEF TrySet, Goto, At, Holding, TypeOK
    <3> QED
      BY <1>2, <2>2, <3>1 DEF TrySet, KeyInv, At, Holding
  <2> QED
    BY <2>1, <2>2
<1>3. ASSUME NEW c \in Call, Wake(c) PROVE KeyInv'
  <2>1. CASE GivesUp(call[c].waited)
    BY <1>3, <2>1 DEF Wake, KeyInv
  <2>2. CASE ~GivesUp(call[c].waited)
    <3>1. Holding' = Holding \ {c} /\ \A d \in Call \ {c} : call'[d] = call[d]
      BY <1>3, <2>2 DEF Wake, Goto, At, Holding, TypeOK
    <3> QED
      BY <1>3, <2>2, <3>1 DEF Wake, KeyInv, At, Holding
  <2> QED
    BY <2>1, <2>2
<1>4. ASSUME NEW c \in Call, Ends(c) PROVE KeyInv'
  <2>1. /\ Holding' = Holding \ {c} /\ degraded' = degraded
        /\ \A d \in Call \ {c} : call'[d] = call[d]
    BY <1>4 DEF Ends, ReturnBare, Release, ReleaseFails, SetFails, At, Goto, Holding, TypeOK
  <2>2. key' = key \/ key.owner = c
    BY <1>4 DEF Ends, ReturnBare, Release, ReleaseFails, SetFails, Released
  <2> QED
    BY <2>1, <2>2 DEF KeyInv, At, Holding
<1>5. CASE Tick
  <2>1. \A c \in Call : \/ call'[c].pc = call[c].pc
                        \/ (call[c].pc = "sleep" /\ call'[c].pc = "awake")
    BY <1>5, AgedKeeps DEF Tick
  <2>2. Holding' = Holding /\ \A c \in Holding : At(c, "bare")' => At(c, "bare")
    BY <2>1 DEF Holding, At
  <2>3. ~degraded' => ~degraded /\ (Holding # {} => key'.owner = key.owner)
    <3>1. ASSUME ~degraded', NEW c \in Holding PROVE ~degraded /\ key'.owner = key.owner
      <4>1. ~degraded /\ ~(key.left = 1 /\ Running(key.owner))
        BY <1>5, <3>1 DEF Tick, TypeOK
      <4>2. key.owner = c /\ c \in Call
        BY <3>1, <4>1 DEF KeyInv, Holding
      <4>3. key.left # 1 /\ key \in [owner : Call, left : 1..Ttl]
        BY <4>1, <4>2, NoneAssumption DEF Holding, Running, TypeOK, Free
      <4> QED
        BY <1>5, <4>1, <4>3, TtlAssumption DEF Tick
    <3> QED
      BY <1>5, <3>1 DEF Tick, TypeOK
  <2> QED
    BY <2>2, <2>3 DEF KeyInv
<1>6. ASSUME NEW i \in Instance, Dies(i) PROVE KeyInv'
  <2>1. key' = key /\ degraded' = degraded
    BY <1>6 DEF Dies
  <2>2. Holding' \subseteq Holding /\ \A c \in Holding' : call'[c] = call[c]
    BY <1>6 DEF Dies, At, Holding, TypeOK
  <2> QED
    BY <2>1, <2>2 DEF KeyInv, At
<1>7. ASSUME NEW c \in Call, NoClient(c) PROVE KeyInv'
  BY <1>7 DEF NoClient, KeyInv
<1> QED
  <2>1. ASSUME NEW c \in Call, Run(c) PROVE KeyInv'
    BY <1>1, <1>2, <1>3, <1>4, <1>7, <2>1 DEF Run, Ends
  <2> QED
    BY <1>1, <1>5, <1>6, <2>1 DEF Next

LEMMA InductiveInit == Init => IInv
<1> SUFFICES ASSUME Init PROVE IInv
  OBVIOUS
<1>1. TypeOK
  <2>1. [pc |-> "idle", waited |-> 0, ran |-> 0] \in CallState
    BY DEF CallState, PC
  <2> QED
    BY <2>1 DEF Init, TypeOK, CallState
<1>2. Pending = {} /\ Active = {} /\ Holding = {}
  BY DEF Init, Pending, Active, Holding
<1>3. Ordered([c \in Call |-> 0])
  BY <1>2 DEF Init, Ordered
<1> QED
  BY <1>1, <1>2, <1>3, [c \in Call |-> 0] \in [Call -> Nat] DEF IInv, ChainInv, KeyInv

LEMMA InductiveStep == IInv /\ [Next]_vars => IInv'
<1> SUFFICES ASSUME IInv, [Next]_vars PROVE IInv'
  OBVIOUS
<1>1. TypeOK'
  BY TypeStep DEF IInv
<1>2. CASE Next
  BY <1>1, <1>2, ChainStep, KeyStep DEF IInv
<1>3. CASE UNCHANGED vars
  <2>1. tail' = tail /\ prev' = prev /\ key' = key /\ degraded' = degraded
    BY <1>3 DEF vars
  <2>2. Pending' = Pending /\ Active' = Active /\ Done' = Done /\ Holding' = Holding
        /\ call' = call
    BY <1>3 DEF vars, Pending, Active, Done, Holding
  <2>3. ChainInv'
    BY <2>1, <2>2, LineKept DEF IInv
  <2>4. KeyInv'
    BY <2>1, <2>2 DEF IInv, KeyInv, At
  <2> QED
    BY <1>1, <2>3, <2>4 DEF IInv
<1> QED
  BY <1>2, <1>3

LEMMA Inductive == Spec => []IInv
  BY InductiveInit, InductiveStep, PTL DEF Spec

-----------------------------------------------------------------------------
(* The refinement.                                                          *)

LEMMA RunningIsHolding == {c \in Call : Running(c)} = Holding
  BY DEF Running, Holding

(* Every step of the lock is a step of its promise, or changes nothing that *)
(* the promise speaks of.                                                   *)
LEMMA PromiseStep ==
    ASSUME IInv, [Next]_vars
    PROVE  [Promise!Next]_<<{c \in Call : Running(c)}, degraded>>
<1> USE RunningIsHolding
<1>r. {c \in Call : Running(c)}' = Holding'
  BY DEF Running, Holding
<1>1. ASSUME NEW c \in Call, Holding' = Holding \cup {c}, c \in Active \ Holding,
             degraded' \in {degraded, TRUE}, degraded' \/ Holding = {}
      PROVE  Promise!Next
  <2>1. ASSUME NEW d \in Holding PROVE degraded' /\ Home[c] # Home[d]
    BY <1>1, <2>1, OneActive DEF IInv, Holding, Active
  <2>2. Promise!Enter(c)
    BY <1>r, <1>1, <2>1 DEF Promise!Enter
  <2> QED
    BY <2>2 DEF Promise!Next
<1>2. ASSUME NEW S \in SUBSET Holding, Holding' = Holding \ S, degraded' = degraded
      PROVE  Promise!Next
  BY <1>r, <1>2 DEF Promise!Next, Promise!Exit
<1>3. ASSUME Holding' = Holding, degraded' \in {degraded, TRUE}
      PROVE  [Promise!Next]_<<{c \in Call : Running(c)}, degraded>>
  BY <1>r, <1>3 DEF Promise!Next, Promise!Degrade
<1>4. ASSUME NEW c \in Call, Enter(c) \/ Start(c) \/ Return(c)
      PROVE  Holding' = Holding /\ degraded' = degraded
  BY <1>4 DEF Enter, Start, Return, Goto, At, Holding, IInv, TypeOK
<1>5. ASSUME NEW c \in Call, TrySet(c)
      PROVE  [Promise!Next]_<<{d \in Call : Running(d)}, degraded>>
  <2>1. CASE key = Free
    <3>1. degraded \/ Holding = {}
      BY <2>1, NoneAssumption DEF IInv, KeyInv, Free, Holding
    <3>2. Holding' = Holding \cup {c} /\ c \in Active \ Holding /\ degraded' = degraded
      BY <1>5, <2>1 DEF TrySet, Goto, At, Holding, Active, IInv, TypeOK
    <3> QED
      BY <1>1, <3>1, <3>2
  <2>2. CASE key # Free
    <3>1. Holding' = Holding /\ degraded' = degraded
      BY <1>5, <2>2 DEF TrySet, Goto, At, Holding, IInv, TypeOK
    <3> QED
      BY <1>3, <3>1
  <2> QED
    BY <2>1, <2>2
<1>6. ASSUME NEW c \in Call, Wake(c)
      PROVE  [Promise!Next]_<<{d \in Call : Running(d)}, degraded>>
  <2>1. CASE GivesUp(call[c].waited)
    <3>1. Holding' = Holding \cup {c} /\ c \in Active \ Holding /\ degraded' = TRUE
      BY <1>6, <2>1 DEF Wake, Goto, At, Holding, Active, IInv, TypeOK
    <3> QED
      BY <1>1, <3>1
  <2>2. CASE ~GivesUp(call[c].waited)
    <3>1. Holding' = Holding /\ degraded' = degraded
      BY <1>6, <2>2 DEF Wake, Goto, At, Holding, IInv, TypeOK
    <3> QED
      BY <1>3, <3>1
  <2> QED
    BY <2>1, <2>2
<1>7. ASSUME NEW c \in Call, Ends(c) PROVE Promise!Next
  <2>1. Holding' = Holding \ (Holding \cap {c}) /\ degraded' = degraded
    BY <1>7 DEF Ends, ReturnBare, Release, ReleaseFails, SetFails, Goto, At, Holding, IInv, TypeOK
  <2>2. Holding \cap {c} \in SUBSET Holding
    OBVIOUS
  <2> QED
    BY <1>2, <2>1, <2>2
<1>8. ASSUME NEW i \in Instance, Dies(i) PROVE Promise!Next
  <2>1. /\ Holding' = Holding \ {c \in Holding : Home[c] = i}
        /\ degraded' = degraded
    BY <1>8 DEF Dies, At, Holding, IInv, TypeOK
  <2> QED
    BY <1>2, <2>1, {c \in Holding : Home[c] = i} \in SUBSET Holding
<1>9. CASE Tick
  <2>1. \A c \in Call : \/ call'[c].pc = call[c].pc
                        \/ (call[c].pc = "sleep" /\ call'[c].pc = "awake")
    BY <1>9, AgedKeeps DEF Tick, IInv
  <2>2. Holding' = Holding
    BY <2>1 DEF Holding
  <2>3. degraded' \in {degraded, TRUE}
    BY <1>9 DEF Tick, IInv, TypeOK
  <2> QED
    BY <1>3, <2>2, <2>3
<1>10. CASE UNCHANGED vars
  BY <1>3, <1>10 DEF vars, Holding
<1>11. ASSUME NEW c \in Call, NoClient(c) PROVE Promise!Next
  <2>1. Holding' = Holding \cup {c} /\ c \in Active \ Holding /\ degraded' = TRUE
    BY <1>11 DEF NoClient, Goto, At, Holding, Active, IInv, TypeOK
  <2> QED
    BY <1>1, <2>1
<1> QED
  <2>1. ASSUME NEW c \in Call, Enter(c) \/ Run(c)
        PROVE  [Promise!Next]_<<{d \in Call : Running(d)}, degraded>>
    BY <1>3, <1>4, <1>5, <1>6, <1>7, <1>11, <2>1 DEF Run, Ends
  <2> QED
    BY <1>8, <1>9, <1>10, <2>1 DEF Next

(* RedisService.withLock implements UserLock: at most one function runs,    *)
(* and never two on one instance, whatever dies, fails or is slow.          *)
THEOREM LockKeepsPromise == Spec => KeepsPromise
<1>1. Init => Promise!Init
  BY DEF Init, Promise!Init, Running
<1> QED
  BY <1>1, PromiseStep, Inductive, PTL DEF Spec, KeepsPromise, Promise!Spec

-----------------------------------------------------------------------------
(* First contact.                                                           *)

(* Two calls that run at once are on two instances, and the lock degraded.  *)
LEMMA Apart ==
    ASSUME IInv, NEW c \in Holding, NEW d \in Holding, c # d
    PROVE  degraded /\ Home[c] # Home[d]
<1>1. c \in Active /\ d \in Active
  BY DEF Holding, Active
<1>2. Home[c] # Home[d]
  BY <1>1, OneActive DEF IInv
<1>3. degraded
  BY DEF IInv, KeyInv, Holding
<1> QED
  BY <1>2, <1>3

(* A call that ran or is done stays so, one that is done does not run again,*)
(* and a lock that was degraded stays it.                                   *)
LEMMA LockMoves ==
    ASSUME IInv, Next
    PROVE  /\ Holding \cup Done \subseteq Holding' \cup Done'
           /\ Done \subseteq Done'
           /\ degraded => degraded'
<1>1. ASSUME NEW c \in Call, Enter(c) \/ Start(c) \/ TrySet(c) \/ NoClient(c) \/ Wake(c) \/ Return(c)
      PROVE  /\ Holding \subseteq Holding' /\ Done' = Done
             /\ degraded => degraded'
  BY <1>1 DEF Enter, Start, TrySet, NoClient, Wake, Return, Goto, At, Holding, Done, IInv, TypeOK
<1>2. ASSUME NEW c \in Call, Ends(c)
      PROVE  /\ Holding \subseteq Holding' \cup {c} /\ Done' = Done \cup {c}
             /\ degraded => degraded'
  BY <1>2 DEF Ends, ReturnBare, Release, ReleaseFails, SetFails, Goto, At, Holding, Done, IInv, TypeOK
<1>3. ASSUME NEW i \in Instance, Dies(i)
      PROVE  /\ Holding \subseteq Holding' \cup Done' /\ Done \subseteq Done'
             /\ degraded => degraded'
  BY <1>3 DEF Dies, At, Holding, Done, IInv, TypeOK
<1>4. CASE Tick
  <2>1. \A c \in Call : \/ call'[c].pc = call[c].pc
                        \/ (call[c].pc = "sleep" /\ call'[c].pc = "awake")
    BY <1>4, AgedKeeps DEF Tick, IInv
  <2>2. Holding' = Holding /\ Done' = Done
    BY <2>1 DEF Holding, Done
  <2> QED
    BY <1>4, <2>2 DEF Tick
<1> QED
  BY <1>1, <1>2, <1>3, <1>4 DEF Next, Run, Ends

(* Who looked runs or has ended; who runs and found nothing is apart from   *)
(* everybody who created the conversation.                                  *)
ContactInv ==
    /\ \A c \in Call : contact[c] # "new" => c \in Holding \cup Done
    /\ \A c \in Holding : contact[c] = "missing" =>
          \A d \in Made : degraded /\ Home[c] # Home[d]
    /\ OneDmPerPair

ContactIInv == IInv /\ ContactTypeOK /\ ContactInv

LEMMA ContactLockStep ==
    ASSUME ContactIInv, LockStep
    PROVE  ContactIInv'
<1>1. IInv'
  BY InductiveStep DEF ContactIInv, LockStep
<1>2. contact' = contact /\ Made' = Made
  BY DEF LockStep, Made
<1>3. /\ Holding \cup Done \subseteq Holding' \cup Done'
      /\ Done \subseteq Done'
      /\ degraded => degraded'
  BY LockMoves DEF ContactIInv, LockStep
<1>4. \A c \in Call : contact'[c] # "new" => c \in Holding' \cup Done'
  BY <1>2, <1>3 DEF ContactIInv, ContactInv
<1>5. ASSUME NEW c \in Holding', contact'[c] = "missing", NEW d \in Made'
      PROVE  degraded' /\ Home[c] # Home[d]
  <2>1. c \in Call /\ c \notin Done'
    BY <1>5 DEF Holding, Done
  <2>2. c \in Holding
    BY <1>2, <1>3, <1>5, <2>1 DEF ContactIInv, ContactInv
  <2> QED
    BY <1>2, <1>3, <1>5, <2>2 DEF ContactIInv, ContactInv
<1>6. OneDmPerPair'
  BY <1>2, <1>3 DEF ContactIInv, ContactInv, OneDmPerPair
<1> QED
  BY <1>1, <1>2, <1>4, <1>5, <1>6 DEF ContactIInv, ContactInv, ContactTypeOK, IInv

LEMMA ContactStep ==
    ASSUME ContactIInv, NEW c \in Call, Look(c) \/ Create(c)
    PROVE  ContactIInv'
<1>1. /\ IInv' /\ degraded' = degraded
      /\ Holding' = Holding /\ Done' = Done /\ c \in Holding
  <2>1. UNCHANGED vars /\ Serving(c)
    BY DEF Look, Create
  <2>2. call' = call /\ degraded' = degraded /\ Holding' = Holding /\ Done' = Done
    BY <2>1 DEF vars, Holding, Done
  <2> QED
    BY <2>1, <2>2, InductiveStep DEF ContactIInv, Serving, Holding
<1>2. ContactTypeOK'
  BY <1>1 DEF Look, Create, ContactIInv, ContactTypeOK, IInv
<1>3. \A d \in Call \ {c} : contact'[d] = contact[d]
  BY DEF Look, Create, ContactIInv, ContactTypeOK
<1>4. \A d \in Call : contact'[d] # "new" => d \in Holding' \cup Done'
  BY <1>1, <1>3 DEF ContactIInv, ContactInv
<1>5. CASE Look(c)
  <2>1. Made' = {}
    BY <1>3, <1>5 DEF Look, Missing, Made, ContactIInv, ContactTypeOK
  <2> QED
    BY <1>1, <1>2, <1>4, <2>1 DEF ContactIInv, ContactInv, OneDmPerPair
<1>6. CASE Create(c)
  <2>1. Made' = Made \cup {c} /\ contact[c] = "missing" /\ contact'[c] = "made"
    BY <1>3, <1>6 DEF Create, Made, ContactIInv, ContactTypeOK
  <2>2. \A d \in Made : degraded /\ Home[c] # Home[d]
    BY <1>1, <2>1 DEF ContactIInv, ContactInv
  <2>3. OneDmPerPair'
    BY <1>1, <2>1, <2>2 DEF ContactIInv, ContactInv, OneDmPerPair
  <2>4. ASSUME NEW d \in Holding', contact'[d] = "missing", NEW e \in Made'
        PROVE  degraded' /\ Home[d] # Home[e]
    <3>1. d # c /\ d \in Call /\ d \in Holding /\ contact[d] = "missing"
      BY <1>1, <1>3, <2>1, <2>4 DEF Holding
    <3>2. CASE e = c
      BY <1>1, <3>1, <3>2, Apart DEF ContactIInv
    <3>3. CASE e # c
      BY <1>1, <2>1, <2>4, <3>1, <3>3 DEF ContactIInv, ContactInv
    <3> QED
      BY <3>2, <3>3
  <2> QED
    BY <1>1, <1>2, <1>4, <2>3, <2>4 DEF ContactIInv, ContactInv
<1> QED
  BY <1>5, <1>6

LEMMA ContactInductive == ContactSpec => []ContactIInv
<1>1. ContactInit => ContactIInv
  <2> SUFFICES ASSUME ContactInit PROVE ContactIInv
    OBVIOUS
  <2>1. IInv
    BY InductiveInit DEF ContactInit
  <2>2. Made = {} /\ \A c \in Call : contact[c] = "new"
    BY DEF ContactInit, Made
  <2> QED
    BY <2>1, <2>2 DEF ContactIInv, ContactInv, ContactTypeOK, ContactInit, IInv, OneDmPerPair
<1>2. ContactIInv /\ [ContactNext]_all => ContactIInv'
  <2> SUFFICES ASSUME ContactIInv, [ContactNext]_all PROVE ContactIInv'
    OBVIOUS
  <2>1. CASE UNCHANGED all
    <3>1. /\ IInv' /\ degraded' = degraded /\ contact' = contact
          /\ Holding' = Holding /\ Done' = Done /\ Made' = Made
      BY <2>1, InductiveStep DEF ContactIInv, all, vars, Holding, Done, Made
    <3> QED
      BY <3>1 DEF ContactIInv, ContactInv, ContactTypeOK, IInv, OneDmPerPair
  <2> QED
    BY <2>1, ContactLockStep, ContactStep DEF ContactNext
<1> QED
  BY <1>1, <1>2, PTL DEF ContactSpec

(* Two first contacts create two conversations only when the lock degraded  *)
(* and they were served by two instances.                                   *)
THEOREM OneConversation == ContactSpec => []OneDmPerPair
<1>1. ContactIInv => OneDmPerPair
  BY DEF ContactIInv, ContactInv
<1> QED
  BY <1>1, ContactInductive, PTL

-----------------------------------------------------------------------------
(* Presence.                                                                *)

LEMMA CleanType ==
    ASSUME NEW r \in Connections!Record, NEW i
    PROVE  Connections!Clean(r, i) \in Connections!Record
  BY DEF Connections!Clean, Connections!Record, Connections!NoRecord

LEMMA PresenceTypeStep ==
    ASSUME Connections!TypeOK, [Connections!Next]_(Connections!vars)
    PROVE  Connections!TypeOK'
<1> USE DEF Connections!TypeOK
<1>r. Connections!NoRecord \in Connections!Record /\ Connections!Offline \in Connections!Record
  BY DEF Connections!NoRecord, Connections!Offline, Connections!Record
<1>1. ASSUME NEW s \in Socket, Connections!Connect(s) \/ Connections!Heartbeat(s)
      PROVE  Connections!TypeOK'
  <2>1. [op[s] EXCEPT !.coming = "read"] \in Connections!Op
    BY DEF Connections!Op
  <2>2. op' \in [Socket -> Connections!Op]
    BY <1>1, <2>1 DEF Connections!Connect, Connections!Heartbeat, Connections!BeginOnline
  <2> QED
    BY <1>1, <2>2 DEF Connections!Connect, Connections!Heartbeat, Connections!BeginOnline
<1>2. ASSUME NEW s \in Socket, Connections!ReadOnline(s) PROVE Connections!TypeOK'
  <2>1. [op[s] EXCEPT !.coming = "write", !.saw = Connections!Clean(rec, home[s])]
          \in Connections!Op
    BY CleanType DEF Connections!Op
  <2> QED
    BY <1>2, <2>1 DEF Connections!ReadOnline
<1>3. ASSUME NEW s \in Socket, Connections!WriteOnline(s) PROVE Connections!TypeOK'
  <2>1. [op[s] EXCEPT !.coming = "no", !.saw = Connections!NoRecord] \in Connections!Op
    BY <1>r DEF Connections!Op
  <2>2. Connections!Online(op[s].saw, s) \in Connections!Record
    BY DEF Connections!Online, Connections!Op, Connections!Record
  <2> QED
    BY <1>3, <2>1, <2>2 DEF Connections!WriteOnline
<1>4. ASSUME NEW s \in Socket, Connections!Disconnect(s) PROVE Connections!TypeOK'
  <2>1. [op[s] EXCEPT !.going = "read"] \in Connections!Op
    BY DEF Connections!Op
  <2> QED
    BY <1>4, <2>1 DEF Connections!Disconnect
<1>5. ASSUME NEW s \in Socket, Connections!ReadOffline(s) PROVE Connections!TypeOK'
  <2> DEFINE left == Connections!Clean([rec EXCEPT !.ids = @ \ {s}], home[s])
  <2>1. left \in Connections!Record
    <3>1. [rec EXCEPT !.ids = @ \ {s}] \in Connections!Record
      BY DEF Connections!Record
    <3> QED
      BY <3>1, CleanType
  <2>2. /\ [op[s] EXCEPT !.going = "no"] \in Connections!Op
        /\ [op[s] EXCEPT !.going = "write", !.left = left] \in Connections!Op
    BY <2>1 DEF Connections!Op
  <2>3. op' \in {[op EXCEPT ![s].going = "no"], [op EXCEPT ![s].going = "write", ![s].left = left]}
    BY <1>5 DEF Connections!ReadOffline
  <2>4. op' \in [Socket -> Connections!Op]
    BY <2>2, <2>3
  <2>5. timer' \subseteq Instance /\ overtaken' \in BOOLEAN
    BY <1>5 DEF Connections!ReadOffline
  <2> QED
    BY <1>5, <2>4, <2>5 DEF Connections!ReadOffline
<1>6. ASSUME NEW s \in Socket, Connections!WriteOffline(s) PROVE Connections!TypeOK'
  <2>1. [op[s] EXCEPT !.going = "no", !.left = Connections!NoRecord] \in Connections!Op
    BY <1>r DEF Connections!Op
  <2>2. op[s].left \in Connections!Record
    BY DEF Connections!Op
  <2> QED
    BY <1>6, <2>1, <2>2 DEF Connections!WriteOffline
<1>7. ASSUME NEW i \in Instance, Connections!TimerRuns(i) PROVE Connections!TypeOK'
  BY <1>7, <1>r DEF Connections!TimerRuns, Connections!Fire, Connections!WriteGone
<1>8. CASE Connections!Expire
  BY <1>8, <1>r DEF Connections!Expire
<1>9. ASSUME NEW s \in Socket, Connections!FailOnline(s) PROVE Connections!TypeOK'
  <2>1. [op[s] EXCEPT !.coming = "no", !.saw = Connections!NoRecord] \in Connections!Op
    BY <1>r DEF Connections!Op
  <2>2. Connections!Online(op[s].saw, s) \in Connections!Record
    BY DEF Connections!Online, Connections!Op, Connections!Record
  <2> QED
    BY <1>9, <2>1, <2>2 DEF Connections!FailOnline
<1>10. ASSUME NEW s \in Socket, Connections!FailOffline(s) PROVE Connections!TypeOK'
  <2>1. [op[s] EXCEPT !.going = "no", !.left = Connections!NoRecord] \in Connections!Op
    BY <1>r DEF Connections!Op
  <2>2. op[s].left \in Connections!Record
    BY DEF Connections!Op
  <2> QED
    BY <1>10, <2>1, <2>2 DEF Connections!FailOffline
<1>11. ASSUME NEW i \in Instance, Connections!FailTimer(i) PROVE Connections!TypeOK'
  BY <1>11, <1>r DEF Connections!FailTimer
<1>12. ASSUME NEW i \in Instance, Connections!Dies(i) PROVE Connections!TypeOK'
  <2>1. Connections!Quiet \in Connections!Op
    BY <1>r DEF Connections!Quiet, Connections!Op
  <2> QED
    BY <1>12, <2>1 DEF Connections!Dies
<1>13. CASE UNCHANGED Connections!vars
  BY <1>13 DEF Connections!vars
<1> QED
  BY <1>1, <1>2, <1>3, <1>4, <1>5, <1>6, <1>7, <1>8, <1>9, <1>10, <1>11, <1>12, <1>13
     DEF Connections!Next, Connections!Handle

(* Everything that is read from the presence record and written back to it  *)
(* is a record.                                                             *)
LEMMA PresenceTypeCorrect == Connections!Spec => []Connections!TypeOK
<1>1. Connections!Init => Connections!TypeOK
  <2> SUFFICES ASSUME Connections!Init PROVE Connections!TypeOK
    OBVIOUS
  <2>1. Connections!NoRecord \in Connections!Record
    BY DEF Connections!NoRecord, Connections!Record
  <2>2. Connections!Quiet \in Connections!Op
    BY <2>1 DEF Connections!Quiet, Connections!Op
  <2> QED
    BY <2>1, <2>2 DEF Connections!Init, Connections!TypeOK
<1> QED
  BY <1>1, PresenceTypeStep, PTL DEF Connections!Spec

-----------------------------------------------------------------------------
(* Nobody leaves unnoticed.  A connect is only unfinished for a socket that *)
(* is there or whose leaving is still to be read; without a record, and     *)
(* while nothing was missed, every socket that is there has its connect     *)
(* unfinished; and nobody writes back an absent record.                     *)

LateConnect ==
    ~overtaken => \A s \in Socket :
        (s \notin conn /\ op[s].going # "read") => op[s].coming = "no"

NoneYet ==
    rec.status = "none" =>
        /\ rec.ids = {}
        /\ ~missed => \A s \in Socket : (s \in conn \/ op[s].going = "read") => op[s].coming # "no"

LeavesRecord == \A s \in Socket : op[s].going = "write" => op[s].left.status # "none"

PresenceIInv == /\ Connections!TypeOK
                /\ LateConnect /\ NoneYet /\ LeavesRecord
                /\ Connections!GoneIsNoticed

LEMMA CleanKnows ==
    ASSUME NEW r \in Connections!Record, NEW i
    PROVE  /\ Connections!Clean(r, i).ids \subseteq conn
           /\ r.status # "none" => Connections!Clean(r, i).status # "none"
           /\ (r.status = "none" /\ r.ids = {}) => Connections!Clean(r, i).ids = {}
  BY DEF Connections!Clean, Connections!Record, Connections!NoRecord

LEMMA PresenceStep ==
    ASSUME PresenceIInv, [Connections!Next]_(Connections!vars)
    PROVE  PresenceIInv'
<1> USE DEF PresenceIInv
<1>t. Connections!TypeOK /\ Connections!TypeOK'
  BY PresenceTypeStep
<1>q. /\ op \in [Socket -> Connections!Op] /\ op' \in [Socket -> Connections!Op]
      /\ rec \in Connections!Record
  BY <1>t DEF Connections!TypeOK
<1>1. ASSUME NEW s \in Socket, Connections!Connect(s) \/ Connections!Heartbeat(s)
      PROVE  PresenceIInv'
  <2>1. /\ s \in conn' /\ conn \subseteq conn' /\ conn' \subseteq conn \cup {s}
        /\ op' = [op EXCEPT ![s].coming = "read"]
        /\ UNCHANGED <<rec, overtaken, missed>>
    BY <1>1 DEF Connections!Connect, Connections!Heartbeat, Connections!BeginOnline
  <2>2. op'[s].coming = "read" /\ \A t \in Socket : op'[t].going = op[t].going /\ op'[t].left = op[t].left
    BY <2>1, <1>q DEF Connections!Op
  <2>3. \A t \in Socket \ {s} : op'[t] = op[t]
    BY <2>1, <1>q
  <2>4. LateConnect' /\ NoneYet' /\ LeavesRecord'
    BY <2>1, <2>2, <2>3 DEF LateConnect, NoneYet, LeavesRecord
  <2> QED
    BY <1>t, <2>1, <2>4 DEF Connections!GoneIsNoticed
<1>2. ASSUME NEW s \in Socket, Connections!ReadOnline(s) PROVE PresenceIInv'
  <2>1. /\ op[s].coming = "read" /\ op'[s].coming = "write"
        /\ \A t \in Socket : op'[t].going = op[t].going /\ op'[t].left = op[t].left
        /\ \A t \in Socket \ {s} : op'[t] = op[t]
    BY <1>2, <1>q DEF Connections!ReadOnline, Connections!Op
  <2>2. UNCHANGED <<conn, rec, timer, firing, told, overtaken, missed>>
    BY <1>2 DEF Connections!ReadOnline
  <2>3. LateConnect' /\ NoneYet' /\ LeavesRecord'
    BY <2>1, <2>2 DEF LateConnect, NoneYet, LeavesRecord
  <2> QED
    BY <1>t, <2>1, <2>2, <2>3 DEF Connections!GoneIsNoticed
<1>3. ASSUME NEW s \in Socket, Connections!WriteOnline(s) PROVE PresenceIInv'
  <2>1. /\ op[s].coming = "write" /\ op'[s].coming = "no"
        /\ \A t \in Socket : op'[t].going = op[t].going /\ op'[t].left = op[t].left
        /\ \A t \in Socket \ {s} : op'[t] = op[t]
    BY <1>3, <1>q DEF Connections!WriteOnline, Connections!Op
  <2>2. UNCHANGED <<conn, timer, firing, overtaken>> /\ rec'.status = "online"
    BY <1>3 DEF Connections!WriteOnline, Connections!Online
  <2>3. LateConnect' /\ NoneYet' /\ LeavesRecord'
    BY <2>1, <2>2 DEF LateConnect, NoneYet, LeavesRecord
  <2>4. (~overtaken /\ conn = {}) => op'[s].going = "read"
    BY <2>1 DEF LateConnect
  <2> QED
    BY <1>t, <2>2, <2>3, <2>4 DEF Connections!GoneIsNoticed
<1>4. ASSUME NEW s \in Socket, Connections!Disconnect(s) PROVE PresenceIInv'
  <2>1. /\ s \in conn /\ op'[s].going = "read"
        /\ \A t \in Socket : op'[t].coming = op[t].coming /\ op'[t].left = op[t].left
        /\ \A t \in Socket \ {s} : op'[t] = op[t]
    BY <1>4, <1>q DEF Connections!Disconnect, Connections!Op
  <2>2. conn' = conn \ {s} /\ UNCHANGED <<rec, overtaken, missed>>
    BY <1>4 DEF Connections!Disconnect
  <2>3. LateConnect' /\ NoneYet' /\ LeavesRecord'
    BY <2>1, <2>2 DEF LateConnect, NoneYet, LeavesRecord
  <2> QED
    BY <1>t, <2>1, <2>3 DEF Connections!GoneIsNoticed
<1>5. ASSUME NEW s \in Socket, Connections!ReadOffline(s) PROVE PresenceIInv'
  <2> DEFINE without == [rec EXCEPT !.ids = @ \ {s}]
             left == Connections!Clean(without, home[s])
  <2>1. /\ op[s].going = "read" /\ op'[s].coming = op[s].coming
        /\ \A t \in Socket \ {s} : op'[t] = op[t]
        /\ op'[s].going \in {"no", "write"}
    BY <1>5, <1>q DEF Connections!ReadOffline, Connections!Op
  <2>2. UNCHANGED <<conn, rec, told, firing, missed>> /\ overtaken' = (overtaken \/ op[s].coming # "no")
    BY <1>5 DEF Connections!ReadOffline
  <2>3. without \in Connections!Record /\ without.status = rec.status
    BY <1>q DEF Connections!Record
  <2>4. /\ left.ids \subseteq conn
        /\ rec.status # "none" => left.status # "none"
        /\ (rec.status = "none" /\ rec.ids = {}) => left.ids = {}
    BY <2>3, CleanKnows, <1>q DEF Connections!Record
  <2>5. LateConnect'
    BY <2>1, <2>2 DEF LateConnect
  <2>6. NoneYet'
    BY <2>1, <2>2 DEF NoneYet
  <2>7. op'[s].going = "write" => left.ids # {} /\ op'[s].left = left
    <3>1. CASE left.ids = {}
      <4>1. op' = [op EXCEPT ![s].going = "no"]
        BY <1>5, <3>1 DEF Connections!ReadOffline
      <4> HIDE DEF left
      <4> QED
        BY <4>1, <1>q DEF Connections!Op
    <3>2. CASE left.ids # {}
      <4>1. op' = [op EXCEPT ![s].going = "write", ![s].left = left]
        BY <1>5, <3>2 DEF Connections!ReadOffline
      <4> HIDE DEF left
      <4> QED
        BY <4>1, <3>2, <1>q DEF Connections!Op
    <3> QED
      BY <3>1, <3>2
  <2>8. LeavesRecord'
    BY <2>1, <2>4, <2>7 DEF LeavesRecord, NoneYet
  <2>9. ASSUME ~overtaken', ~missed, conn = {} PROVE timer' # {}
    <3>1. left.ids = {} /\ rec.status # "none"
      BY <2>1, <2>2, <2>4, <2>9 DEF NoneYet
    <3>2. left # Connections!NoRecord
      BY <2>4, <3>1 DEF Connections!NoRecord
    <3> QED
      BY <1>5, <3>1, <3>2 DEF Connections!ReadOffline
  <2> QED
    BY <1>t, <2>2, <2>5, <2>6, <2>8, <2>9 DEF Connections!GoneIsNoticed
<1>6. ASSUME NEW s \in Socket, Connections!WriteOffline(s) PROVE PresenceIInv'
  <2>1. /\ op[s].going = "write" /\ op'[s].going = "no"
        /\ \A t \in Socket : op'[t].coming = op[t].coming
        /\ \A t \in Socket \ {s} : op'[t] = op[t]
    BY <1>6, <1>q DEF Connections!WriteOffline, Connections!Op
  <2>2. UNCHANGED <<conn, timer, firing, told, overtaken, missed>> /\ rec' = op[s].left
    BY <1>6 DEF Connections!WriteOffline
  <2>3. rec'.status # "none"
    BY <2>1, <2>2 DEF LeavesRecord
  <2>4. LateConnect' /\ NoneYet' /\ LeavesRecord'
    BY <2>1, <2>2, <2>3 DEF LateConnect, NoneYet, LeavesRecord
  <2> QED
    BY <1>t, <2>1, <2>2, <2>4 DEF Connections!GoneIsNoticed
<1>7. ASSUME NEW i \in Instance, Connections!Fire(i) PROVE PresenceIInv'
  <2>1. UNCHANGED <<conn, rec, op, told, overtaken, missed>>
    BY <1>7 DEF Connections!Fire
  <2>2. LateConnect' /\ NoneYet' /\ LeavesRecord'
    BY <2>1 DEF LateConnect, NoneYet, LeavesRecord
  <2>3. conn = {} => firing'[i] = "write"
    BY <1>7, <1>q, <1>t, CleanKnows DEF Connections!Fire, Connections!TypeOK
  <2> QED
    BY <1>t, <2>1, <2>2, <2>3 DEF Connections!GoneIsNoticed
<1>8. ASSUME NEW i \in Instance, Connections!WriteGone(i) PROVE PresenceIInv'
  <2>1. UNCHANGED <<conn, op, overtaken>> /\ rec'.status = "offline" /\ told' = "offline"
    BY <1>8 DEF Connections!WriteGone, Connections!Offline
  <2>2. LateConnect' /\ NoneYet' /\ LeavesRecord'
    BY <2>1 DEF LateConnect, NoneYet, LeavesRecord
  <2> QED
    BY <1>t, <2>1, <2>2 DEF Connections!GoneIsNoticed
<1>9. CASE Connections!Expire
  <2>1. /\ UNCHANGED <<conn, timer, op, firing, told, overtaken, missed>> /\ rec'.ids = {}
        /\ missed \/ (conn = {} /\ \A s \in Socket : op[s].going = "no")
    BY <1>9 DEF Connections!Expire, Connections!NoRecord, Connections!Quiet
  <2>2. LateConnect' /\ NoneYet' /\ LeavesRecord'
    BY <2>1 DEF LateConnect, NoneYet, LeavesRecord
  <2> QED
    BY <1>t, <2>1, <2>2 DEF Connections!GoneIsNoticed
<1>10. ASSUME NEW s \in Socket, Connections!FailOnline(s) PROVE PresenceIInv'
  <2>1. /\ op'[s].coming = "no"
        /\ \A t \in Socket : op'[t].going = op[t].going /\ op'[t].left = op[t].left
        /\ \A t \in Socket \ {s} : op'[t] = op[t]
    BY <1>10, <1>q DEF Connections!FailOnline, Connections!Op
  <2>2. UNCHANGED <<conn, overtaken>> /\ missed' /\ (rec' = rec \/ rec'.status = "online")
    BY <1>10 DEF Connections!FailOnline, Connections!Online
  <2>3. LateConnect' /\ NoneYet' /\ LeavesRecord'
    BY <2>1, <2>2 DEF LateConnect, NoneYet, LeavesRecord
  <2> QED
    BY <1>t, <2>2, <2>3 DEF Connections!GoneIsNoticed
<1>11. ASSUME NEW s \in Socket, Connections!FailOffline(s) PROVE PresenceIInv'
  <2>1. /\ op[s].going # "no" /\ op'[s].going = "no"
        /\ \A t \in Socket : op'[t].coming = op[t].coming
        /\ \A t \in Socket \ {s} : op'[t] = op[t]
    BY <1>11, <1>q DEF Connections!FailOffline, Connections!Op
  <2>2. /\ UNCHANGED <<conn, timer, firing, told>>
        /\ rec' = rec \/ (op[s].going = "write" /\ rec' = op[s].left)
        /\ missed' = (missed \/ op[s].going = "read")
        /\ overtaken' = (overtaken \/ (op[s].going = "read" /\ op[s].coming # "no"))
    BY <1>11 DEF Connections!FailOffline
  <2>3. rec' = rec \/ rec'.status # "none"
    BY <2>2 DEF LeavesRecord
  <2>4. LateConnect'
    BY <2>1, <2>2 DEF LateConnect
  <2>5. NoneYet' /\ LeavesRecord'
    BY <2>1, <2>2, <2>3 DEF NoneYet, LeavesRecord
  <2> QED
    BY <1>t, <2>1, <2>2, <2>4, <2>5 DEF Connections!GoneIsNoticed
<1>12. ASSUME NEW i \in Instance, Connections!FailTimer(i) PROVE PresenceIInv'
  <2>1. /\ UNCHANGED <<conn, op, overtaken>> /\ missed'
        /\ rec' = rec \/ rec'.status = "offline"
    BY <1>12 DEF Connections!FailTimer, Connections!Offline
  <2>2. LateConnect' /\ NoneYet' /\ LeavesRecord'
    BY <2>1 DEF LateConnect, NoneYet, LeavesRecord
  <2> QED
    BY <1>t, <2>1, <2>2 DEF Connections!GoneIsNoticed
<1>13. ASSUME NEW i \in Instance, Connections!Dies(i) PROVE PresenceIInv'
  <2>1. /\ \A s \in Socket : \/ op'[s] = op[s] /\ (s \in conn' <=> s \in conn)
                            \/ op'[s] = Connections!Quiet
        /\ UNCHANGED <<rec, overtaken>> /\ missed'
    BY <1>13, <1>t DEF Connections!Dies, Connections!On, Connections!TypeOK
  <2>2. LateConnect' /\ NoneYet' /\ LeavesRecord'
    BY <2>1 DEF LateConnect, NoneYet, LeavesRecord, Connections!Quiet
  <2> QED
    BY <1>t, <2>1, <2>2 DEF Connections!GoneIsNoticed
<1>14. CASE UNCHANGED Connections!vars
  BY <1>14, <1>t DEF Connections!vars, LateConnect, NoneYet, LeavesRecord,
                     Connections!GoneIsNoticed
<1> QED
  BY <1>1, <1>2, <1>3, <1>4, <1>5, <1>6, <1>7, <1>8, <1>9, <1>10, <1>11, <1>12, <1>13, <1>14
     DEF Connections!Next, Connections!Handle, Connections!TimerRuns

LEMMA PresenceInductive == Connections!Spec => []PresenceIInv
<1>1. Connections!Spec => Connections!Init /\ Connections!TypeOK
  BY PresenceTypeCorrect, PTL DEF Connections!Spec
<1>2. Connections!Init /\ Connections!TypeOK => PresenceIInv
  BY DEF Connections!Init, Connections!Quiet, Connections!NoRecord, PresenceIInv,
         LateConnect, NoneYet, LeavesRecord, Connections!GoneIsNoticed
<1> QED
  BY <1>1, <1>2, PresenceStep, PTL DEF Connections!Spec

-----------------------------------------------------------------------------
(* The composition.  A step of one component is a stutter of the others.    *)

LEMMA ServicesIsContact == ServicesSpec => ContactSpec
<1>1. ServicesInit => ContactInit
  BY DEF ServicesInit
<1>2. [ServicesNext]_components => [ContactNext]_all
  BY DEF ServicesNext, components
<1> QED
  BY <1>1, <1>2, PTL DEF ServicesSpec, ContactSpec

LEMMA ContactIsLock == ContactSpec => Spec
<1>1. ContactInit => Init
  BY DEF ContactInit
<1>2. [ContactNext]_all => [Next]_vars
  BY DEF ContactNext, LockStep, Look, Create, all
<1> QED
  BY <1>1, <1>2, PTL DEF ContactSpec, Spec

LEMMA ServicesIsPresence == ServicesSpec => Connections!Spec
<1>1. ServicesInit => Connections!Init
  BY DEF ServicesInit
<1>2. [ServicesNext]_components => [Connections!Next]_(Connections!vars)
  BY DEF ServicesNext, components, presence, Connections!vars
<1> QED
  BY <1>1, <1>2, PTL DEF ServicesSpec, Connections!Spec

(* The activity that was proved about is the one of the composition.        *)
LEMMA SameInvitations ==
    /\ Invitations!Init => InvitationProofs!Init
    /\ Invitations!Next => InvitationProofs!Next
    /\ InvitationProofs!TypeOK => Invitations!TypeOK
    /\ IsFiniteSet(User) => InvitationProofs!IsFiniteSet(User)
    /\ IsFiniteSet(Proc) => InvitationProofs!IsFiniteSet(Proc)
<1>1. Invitations!Init => InvitationProofs!Init
  BY Zenon DEF Invitations!Init, InvitationProofs!Init, Invitations!NoInvitation,
       InvitationProofs!NoInvitation, Invitations!Idle, InvitationProofs!Idle
<1>2. Invitations!Next => InvitationProofs!Next
  BY Zenon
     DEF Invitations!Next, InvitationProofs!Next, Invitations!table,
       InvitationProofs!table, Invitations!At, InvitationProofs!At, Invitations!Goto,
       InvitationProofs!Goto, Invitations!Begin, InvitationProofs!Begin,
       Invitations!Finish, InvitationProofs!Finish, Invitations!Settle,
       InvitationProofs!Settle, Invitations!Pending, InvitationProofs!Pending,
       Invitations!Idle, InvitationProofs!Idle, Invitations!InvStatus,
       InvitationProofs!InvStatus, Invitations!ValidInvitation,
       InvitationProofs!ValidInvitation, Invitations!MayView, InvitationProofs!MayView,
       Invitations!MayJoin, InvitationProofs!MayJoin, Invitations!AskJoin,
       InvitationProofs!AskJoin, Invitations!Join, InvitationProofs!Join,
       Invitations!Inserting, InvitationProofs!Inserting, Invitations!HasRoom,
       InvitationProofs!HasRoom, Invitations!Count, InvitationProofs!Count,
       Invitations!Insert, InvitationProofs!Insert, Invitations!Leave,
       InvitationProofs!Leave, Invitations!AskAccept, InvitationProofs!AskAccept,
       Invitations!AskDecline, InvitationProofs!AskDecline, Invitations!Answerable,
       InvitationProofs!Answerable, Invitations!Settled, InvitationProofs!Settled,
       Invitations!ExpireOne, InvitationProofs!ExpireOne, Invitations!Answered,
       InvitationProofs!Answered, Invitations!Record, InvitationProofs!Record,
       Invitations!Decline, InvitationProofs!Decline, Invitations!AskInvite,
       InvitationProofs!AskInvite, Invitations!ConsiderInvite,
       InvitationProofs!ConsiderInvite, Invitations!AskList, InvitationProofs!AskList,
       Invitations!InviteLifecycle, InvitationProofs!InviteLifecycle, Invitations!Judge,
       InvitationProofs!Judge, Invitations!Repair, InvitationProofs!Repair,
       Invitations!Create, InvitationProofs!Create,
       Invitations!Notify, InvitationProofs!Notify, Invitations!Revoke,
       InvitationProofs!Revoke, Invitations!SetVisibility,
       InvitationProofs!SetVisibility, Invitations!InvitationStatus,
       InvitationProofs!InvitationStatus, Invitations!AskClose,
       InvitationProofs!AskClose, Invitations!CloseActivity,
       InvitationProofs!CloseActivity, Invitations!CloseInvitations,
       InvitationProofs!CloseInvitations, Invitations!FindOver,
       InvitationProofs!FindOver, Invitations!EndActivity, InvitationProofs!EndActivity,
       Invitations!EndRead, InvitationProofs!EndRead, Invitations!EndInvitations,
       InvitationProofs!EndInvitations, Invitations!Started, InvitationProofs!Started,
       Invitations!FindStarted, InvitationProofs!FindStarted, Invitations!ExpireStarted,
       InvitationProofs!ExpireStarted, Invitations!SettleRead,
       InvitationProofs!SettleRead, Invitations!Write, InvitationProofs!Write,
       Invitations!Unchanged, InvitationProofs!Unchanged, Invitations!Swap,
       InvitationProofs!Swap, Invitations!SettleFails, InvitationProofs!SettleFails,
       Invitations!RunJob, InvitationProofs!RunJob, Invitations!Tick,
       InvitationProofs!Tick, Invitations!CooldownEnds, InvitationProofs!CooldownEnds,
       Invitations!Crash, InvitationProofs!Crash, Invitations!Run, InvitationProofs!Run,
       Invitations!Ask, InvitationProofs!Ask, Invitations!Cardinality,
       InvitationProofs!Cardinality, Invitations!IsFiniteSet,
       InvitationProofs!IsFiniteSet, Invitations!Max, InvitationProofs!Max
<1>3. InvitationProofs!TypeOK => Invitations!TypeOK
  BY Zenon DEF Invitations!TypeOK, InvitationProofs!TypeOK,
       Invitations!Activity, InvitationProofs!Activity,
       Invitations!Invitation, InvitationProofs!Invitation,
       Invitations!InvStatus, InvitationProofs!InvStatus,
       Invitations!ProcState, InvitationProofs!ProcState, Invitations!PC, InvitationProofs!PC,
       Invitations!Cardinality, InvitationProofs!Cardinality,
       Invitations!IsFiniteSet, InvitationProofs!IsFiniteSet
<1>4. /\ IsFiniteSet(User) => InvitationProofs!IsFiniteSet(User)
      /\ IsFiniteSet(Proc) => InvitationProofs!IsFiniteSet(Proc)
  BY Zenon DEF IsFiniteSet, InvitationProofs!IsFiniteSet
<1> QED
  BY <1>1, <1>2, <1>3, <1>4

LEMMA ServicesIsActivity == ServicesSpec => InvitationProofs!Spec
<1>1. ServicesInit => InvitationProofs!Init
  BY SameInvitations DEF ServicesInit
<1>2. [ServicesNext]_components => [InvitationProofs!Next]_(InvitationProofs!vars)
  BY SameInvitations
     DEF ServicesNext, components, activity, InvitationProofs!vars, InvitationProofs!table
<1> QED
  BY <1>1, <1>2, PTL DEF ServicesSpec, InvitationProofs!Spec

(* What the lock, presence and the activity of the composition keep is of   *)
(* the types of the code's records.                                         *)
THEOREM ServicesTypeCorrect == ServicesSpec => []ServicesTypeOK
<1>1. ContactIInv => ContactTypeOK
  BY DEF ContactIInv
<1>2. InvitationProofs!Spec => []InvitationProofs!TypeOK
  <2>1. InvitationProofs!IsFiniteSet(User) /\ InvitationProofs!IsFiniteSet(Proc)
    BY SameInvitations, ServicesAssumption
  <2> QED
    BY <2>1, ServicesAssumption, InvitationProofs!TypeCorrect
<1>3. InvitationProofs!TypeOK => Invitations!TypeOK
  BY SameInvitations
<1>4. ContactTypeOK /\ Connections!TypeOK /\ Invitations!TypeOK => ServicesTypeOK
  BY DEF ServicesTypeOK
<1> QED
  BY <1>1, <1>2, <1>3, <1>4, ContactInductive, PresenceTypeCorrect,
     ServicesIsContact, ServicesIsPresence, ServicesIsActivity, PTL

(* Beside presence and the activity too, the lock keeps the promise its     *)
(* users rely on, and two first contacts create one conversation.           *)
THEOREM ServicesKeepPromise == ServicesSpec => KeepsPromise /\ []OneDmPerPair
  BY ServicesIsContact, ContactIsLock, LockKeepsPromise, OneConversation, PTL

(* Whoever is gone and still shown online is being dealt with: a handler, a *)
(* timer or its last write is pending, for any sockets on any instances and *)
(* whatever order their connects, beats and disconnects come in - unless a  *)
(* disconnect overtook its own connect, or a call to Redis failed or an     *)
(* instance died since setOnline last stored the record.                    *)
THEOREM GoneNoticed == ServicesSpec => []Connections!GoneIsNoticed
<1>1. PresenceIInv => Connections!GoneIsNoticed
  BY DEF PresenceIInv
<1> QED
  BY <1>1, PresenceInductive, ServicesIsPresence, PTL
=============================================================================
