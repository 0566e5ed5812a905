------------------------ MODULE RolloverDrain_proofs ------------------------
(***************************************************************************)
(* What RolloverDrain guarantees for any number of messages, pushes, jobs  *)
(* and any lengths of its waits.                                           *)
(***************************************************************************)
EXTENDS RolloverDrain, TLAPS, WellFoundedInduction

(* Removing members of the backlog keeps its part of the state well typed. *)
LEMMA KeepType ==
  ASSUME TypeOK, NEW S, Keep(S)
  PROVE  /\ backlog' \subseteq Messages
         /\ ahead' \in [Messages -> SUBSET Messages]
         /\ keyTtl' \in Nat
BY DEF TypeOK, Keep

(* A job that throws stays well typed, whether it is retried or has failed. *)
LEMMA ThrowType ==
  ASSUME TypeOK, NEW j \in Jobs, Throw(j)
  PROVE  JobsOK' /\ gaveUp' \in BOOLEAN
<1> USE ConstantsAssumption
<1>1. Attempts \in Nat /\ Batch \in Nat /\ 0 < Batch /\ fails[j] \in 0..(Attempts - 1)
  BY DEF TypeOK, JobsOK
<1>2. CASE fails[j] + 1 < Attempts
  <2>1. /\ BackoffSpent[fails[j]] \in Nat /\ BackoffSpent[fails[j] + 1] \in Nat
        /\ BackoffSpent[fails[j]] <= BackoffSpent[fails[j] + 1]
    BY <1>1, <1>2, BackoffAssumption
  <2>2. BackoffSpent[fails[j] + 1] - BackoffSpent[fails[j]] \in Nat
    BY <2>1
  <2>3. dpc' = [dpc EXCEPT ![j] = "queued"] /\ gaveUp' = gaveUp
    BY <1>2 DEF Throw, Goto
  <2>4. fails' \in [Jobs -> 0..(Attempts - 1)]
    BY <1>1, <1>2 DEF TypeOK, JobsOK, Throw
  <2>5. delay' \in [Jobs -> Nat]
    BY <1>2, <2>2 DEF TypeOK, JobsOK, Throw
  <2>6. /\ batch' = [batch EXCEPT ![j] = 0] /\ msg' = [msg EXCEPT ![j] = 0]
        /\ wait' = [wait EXCEPT ![j] = 0]
    BY DEF Throw
  <2>7. QED
    BY <1>1, <2>3, <2>4, <2>5, <2>6 DEF TypeOK, JobsOK, Owning, Sending
<1>3. CASE ~(fails[j] + 1 < Attempts)
  <2>1. dpc' = [dpc EXCEPT ![j] = "unclaim"] /\ gaveUp' \in BOOLEAN /\ UNCHANGED <<fails, delay>>
    BY <1>3 DEF Throw, Goto
  <2>2. QED
    BY <1>1, <2>1 DEF TypeOK, JobsOK, Throw, Owning, Sending
<1>4. QED
  BY <1>2, <1>3

(* A job that is over leaves its slot well typed. *)
LEMMA VanishType ==
  ASSUME TypeOK, NEW j \in Jobs, Vanish(j)
  PROVE  JobsOK'
<1>1. Attempts \in Nat \ {0} /\ Batch \in Nat /\ 0 < Batch
  BY ConstantsAssumption
<1>2. QED
  BY <1>1 DEF TypeOK, JobsOK, Vanish, Goto, Sending

(* What the environment has used of its bounds stays a natural number. *)
LEMMA SpendType ==
  ASSUME TypeOK, NEW k \in {"mishaps", "faults", "crashes"}, NEW b, Spend(k, b)
  PROVE  spent' \in [{"mishaps", "faults", "crashes"} -> Nat]
BY DEF TypeOK, Spend

(* The bot's view of a push stays well typed when an answer arrives. *)
LEMMA AnswerType ==
  ASSUME TypeOK, NEW r \in Requests, NEW a \in {"idle", "waiting", "retry", "accepted", "dropped"}, Answer(r, a)
  PROVE  push' \in [Messages -> {"idle", "waiting", "retry", "accepted", "dropped"}]
BY DEF TypeOK, Answer, Requests

(* A non-empty set of naturals has a smallest member. *)
LEMMA SmallestMember ==
  ASSUME NEW T, T \subseteq Nat, T # {}
  PROVE  \E x \in T : \A y \in T : x <= y
<1> DEFINE R == {ss \in Nat \X Nat : ss[1] < ss[2]}
<1>1. IsWellFoundedOn(R, Nat)
  <2>1. OpToRel(<, Nat) = R
    BY DEF OpToRel
  <2>2. QED
    BY <2>1, NatLessThanWellFounded
<1>2. \A n, m \in Nat : <<n, m>> \in R <=> n < m
  OBVIOUS
<1> HIDE DEF R
<1>3. PICK x \in T : \A y \in T : <<y, x>> \notin R
  BY <1>1, WFMin
<1>4. \A y \in T : x <= y
  <2>1. TAKE y \in T
  <2>2. x \in Nat /\ y \in Nat
    BY <1>3
  <2>3. ~(y < x)
    BY <1>2, <1>3, <2>2
  <2>4. QED
    BY <2>2, <2>3
<1>5. QED
  BY <1>3, <1>4

(* The message a drain reads from a non-empty backlog is one of its oldest. *)
LEMMA OldestType ==
  ASSUME TypeOK, backlog # {}
  PROVE  Oldest \in backlog /\ \A k \in backlog : Oldest <= k
<1>1. backlog \subseteq Nat
  BY DEF TypeOK, Messages
<1>2. \E m \in backlog : \A k \in backlog : m <= k
  BY <1>1, SmallestMember
<1>3. QED
  BY <1>2 DEF Oldest

(* Every state is well typed. *)
THEOREM TypeCorrect == Spec => []TypeOK
<1> USE ConstantsAssumption DEF redisVars, jobVars, httpVars, botVars, discordVars, outsideJob
<1>1. Init => TypeOK
  <2>1. /\ 0 \in 0..(Attempts - 1) /\ 0 \in 0..Batch /\ 0 \in 0..NumMessages
        /\ 0 \in 0..MaxPushes /\ 0 \in Messages \cup {0} /\ MaxAge + 1 \in Nat
    OBVIOUS
  <2>2. Init => /\ blocked \in BOOLEAN /\ up \in BOOLEAN
                /\ shed \in BOOLEAN /\ gaveUp \in BOOLEAN
    BY DEF Init
  <2>3. QED
    BY <2>1, <2>2 DEF Init, TypeOK, JobsOK, Sending
<1>2. TypeOK /\ [Next]_vars => TypeOK'
  <2> SUFFICES ASSUME TypeOK, [Next]_vars PROVE TypeOK'
    OBVIOUS
  <2>1. ASSUME NEW p \in {0, Preview}, PostMessage(p) PROVE TypeOK'
    <3>1. posted' \in 0..NumMessages
      BY <2>1 DEF TypeOK, JobsOK, PostMessage
    <3>2. p \in Nat
      OBVIOUS
    <3>3. settle' \in [Messages -> Nat]
      BY <2>1, <3>2 DEF TypeOK, JobsOK, PostMessage
    <3>4. QED
      BY <2>1, <3>1, <3>3 DEF TypeOK, JobsOK, PostMessage
  <2>2. ASSUME NEW m \in Messages, PushMessage(m) PROVE TypeOK'
    <3>1. tries[m] + 1 \in 1..MaxPushes /\ tries' \in [Messages -> 0..MaxPushes]
      BY <2>2 DEF TypeOK, JobsOK, PushMessage, MayPush
    <3>2. push' \in [Messages -> {"idle", "waiting", "retry", "accepted", "dropped"}]
      BY <2>2 DEF TypeOK, JobsOK, PushMessage
    <3>3. hpc' \in [Requests -> {"none", "hold", "claim", "add", "unclaim"}]
      BY <2>2 DEF TypeOK, JobsOK, PushMessage
    <3>4. hwait' \in [Requests -> Nat]
      <4>1. CASE hwait' = hwait
        BY <4>1 DEF TypeOK
      <4>2. CASE hwait' # hwait
        <5>1. PICK w \in {0} \cup (IF blocked THEN {} ELSE {lock}) :
                hwait' = [hwait EXCEPT ![<<m, tries[m] + 1>>] = w]
          BY <2>2, <4>2 DEF PushMessage
        <5>2. w \in Nat
          BY DEF TypeOK
        <5>3. QED
          BY <5>1, <5>2 DEF TypeOK
      <4>3. QED
        BY <4>1, <4>2
    <3>5. QED
      BY <2>2, <3>1, <3>2, <3>3, <3>4 DEF TypeOK, JobsOK, PushMessage
  <2>3. ASSUME NEW m \in Messages, PushTimesOut(m) PROVE TypeOK'
    BY <2>3, SpendType DEF TypeOK, JobsOK, PushTimesOut
  <2>4. ASSUME NEW m \in Messages, DeleteMessage(m) PROVE TypeOK'
    BY <2>4, SpendType DEF TypeOK, JobsOK, DeleteMessage
  <2>5. ASSUME NEW m \in Messages, CancelMessage(m) PROVE TypeOK'
    BY <2>5, KeepType DEF TypeOK, JobsOK, CancelMessage
  <2>6. ASSUME NEW r \in Requests, HoldMessage(r) PROVE TypeOK'
    <3>1. r[1] \in Messages
      BY DEF Requests
    <3>2. push' \in [Messages -> {"idle", "waiting", "retry", "accepted", "dropped"}]
      BY <2>6, AnswerType DEF TypeOK, JobsOK, HoldMessage, Finish
    <3>3. QED
      BY <2>6, <3>1, <3>2 DEF TypeOK, JobsOK, HoldMessage, Finish, AddHeld
  <2>7. ASSUME NEW r \in Requests, ClaimForPush(r) PROVE TypeOK'
    <3>1. push' \in [Messages -> {"idle", "waiting", "retry", "accepted", "dropped"}]
      BY <2>7, AnswerType DEF TypeOK, JobsOK, ClaimForPush, Finish
    <3>2. gaveUp' \in BOOLEAN
      BY <2>7 DEF TypeOK, JobsOK, ClaimForPush, ClaimDrain
    <3>3. QED
      BY <2>7, <3>1, <3>2 DEF TypeOK, JobsOK, ClaimForPush, Finish, ClaimDrain
  <2>8. ASSUME NEW r \in Requests, AddForPush(r) PROVE TypeOK'
    BY <2>8, AnswerType DEF TypeOK, JobsOK, Sending, AddForPush, Finish, Owning
  <2>9. ASSUME NEW r \in Requests, UnclaimForPush(r) PROVE TypeOK'
    BY <2>9, AnswerType DEF TypeOK, JobsOK, UnclaimForPush, Finish
  <2>10. ASSUME NEW r \in Requests, PushFault(r) PROVE TypeOK'
    BY <2>10, AnswerType, SpendType DEF TypeOK, JobsOK, PushFault, Finish
  <2>11. ASSUME NEW j \in Jobs, StartDrain(j) PROVE TypeOK'
    BY <2>11 DEF TypeOK, JobsOK, Sending, StartDrain, WaitFor, Goto, Owning
  <2>12. ASSUME NEW j \in Jobs, DropExpired(j) PROVE TypeOK'
    BY <2>12, KeepType DEF TypeOK, JobsOK, Sending, DropExpired, Goto, Owning
  <2>13. ASSUME NEW j \in Jobs, ReadOldest(j) PROVE TypeOK'
    <3>1. CASE backlog = {}
      BY <2>13, <3>1 DEF TypeOK, JobsOK, Sending, ReadOldest, Goto, Owning
    <3>2. CASE backlog # {}
      <4>1. Oldest \in Messages
        BY <3>2, OldestType DEF TypeOK
      <4>2. Oldest # 0 /\ settle[Oldest] \in Nat
        BY <4>1 DEF TypeOK, Messages
      <4>3. QED
        BY <2>13, <3>2, <4>1, <4>2 DEF TypeOK, JobsOK, Sending, ReadOldest, WaitFor, Goto, Owning
    <3>3. QED
      BY <3>1, <3>2
  <2>14. ASSUME NEW j \in Jobs, DiscordTakes(j) PROVE TypeOK'
    <3>1. msg[j] \in Messages /\ sent' \subseteq Messages
      BY <2>14 DEF TypeOK, JobsOK, DiscordTakes, Sending
    <3>2. JobsOK'
      <4>1. PICK p \in {"skip", "remove"} : dpc' = [dpc EXCEPT ![j] = p]
        BY <2>14 DEF DiscordTakes, Goto
      <4>2. QED
        BY <2>14, <4>1 DEF TypeOK, JobsOK, DiscordTakes, Owning, Sending
    <3>3. QED
      BY <2>14, <3>1, <3>2 DEF TypeOK, DiscordTakes
  <2>15. ASSUME NEW j \in Jobs, DiscordRefuses(j) PROVE TypeOK'
    <3>1. JobsOK'
      BY <2>15 DEF TypeOK, JobsOK, DiscordRefuses, WaitFor, Goto, Owning, Sending
    <3>2. QED
      BY <2>15, <3>1, SpendType DEF TypeOK, DiscordRefuses
  <2>16. ASSUME NEW j \in Jobs, DiscordFails(j) PROVE TypeOK'
    <3>1. msg[j] \in Messages /\ sent' \subseteq Messages
      BY <2>16 DEF TypeOK, JobsOK, DiscordFails, Sending
    <3>2. QED
      BY <2>16, <3>1, SpendType, ThrowType DEF TypeOK, DiscordFails
  <2>17. ASSUME NEW j \in Jobs, RemoveSent(j) PROVE TypeOK'
    <3>1. Batch \in Nat /\ batch[j] \in 0..Batch /\ batch[j] < Batch
      BY <2>17 DEF TypeOK, JobsOK, RemoveSent
    <3>2. PICK n : /\ n \in 0..Batch /\ batch' = [batch EXCEPT ![j] = n]
                   /\ \/ n < Batch /\ dpc' = [dpc EXCEPT ![j] = "oldest"] /\ wait' = wait
                      \/ dpc' = [dpc EXCEPT ![j] = "extend"] /\ wait' = [wait EXCEPT ![j] = 0]
      <4> DEFINE n == IF dpc[j] = "remove" THEN batch[j] + 1 ELSE batch[j]
      <4>1. n \in 0..Batch
        BY <3>1
      <4>2. batch' = [batch EXCEPT ![j] = n]
        BY <2>17 DEF RemoveSent
      <4>3. \/ n < Batch /\ dpc' = [dpc EXCEPT ![j] = "oldest"] /\ wait' = wait
            \/ dpc' = [dpc EXCEPT ![j] = "extend"] /\ wait' = [wait EXCEPT ![j] = 0]
        BY <2>17 DEF RemoveSent, WaitFor, Goto
      <4>4. QED
        BY <4>1, <4>2, <4>3
    <3>3. JobsOK'
      BY <2>17, <3>2 DEF TypeOK, JobsOK, RemoveSent, Owning, Sending
    <3>4. QED
      BY <2>17, <3>3, KeepType DEF TypeOK, RemoveSent
  <2>18. ASSUME NEW j \in Jobs, SetLock(j) PROVE TypeOK'
    BY <2>18 DEF TypeOK, JobsOK, Sending, SetLock, Goto, Owning
  <2>19. ASSUME NEW j \in Jobs, SetBlocked(j) PROVE TypeOK'
    BY <2>19 DEF TypeOK, JobsOK, Sending, SetBlocked, Goto, Owning
  <2>20. ASSUME NEW j \in Jobs, ClearBacklog(j) PROVE TypeOK'
    BY <2>20, KeepType DEF TypeOK, JobsOK, Sending, ClearBacklog, Goto, Owning
  <2>21. ASSUME NEW j \in Jobs, ExtendClaim(j) PROVE TypeOK'
    BY <2>21 DEF TypeOK, JobsOK, Sending, ExtendClaim, ExtendDrain, Goto, Owning
  <2>22. ASSUME NEW j \in Jobs, MoveToDelayed(j) PROVE TypeOK'
    BY <2>22 DEF TypeOK, JobsOK, Sending, MoveToDelayed, Goto, Owning
  <2>23. ASSUME NEW j \in Jobs, FinishDrain(j) PROVE TypeOK'
    BY <2>23 DEF TypeOK, JobsOK, Sending, FinishDrain, Goto, Closing
  <2>24. ASSUME NEW j \in Jobs, ClaimNext(j) PROVE TypeOK'
    <3>1. gaveUp' \in BOOLEAN
      BY <2>24 DEF TypeOK, ClaimNext, ClaimDrain
    <3>2. QED
      BY <2>24, <3>1 DEF TypeOK, JobsOK, Sending, ClaimNext, ClaimDrain, Goto, Closing
  <2>25. ASSUME NEW j \in Jobs, AddNext(j) PROVE TypeOK'
    BY <2>25 DEF TypeOK, JobsOK, Sending, AddNext, Goto, Closing, Owning
  <2>26. ASSUME NEW j \in Jobs, CompleteDrain(j) PROVE TypeOK'
    BY <2>26, VanishType DEF TypeOK, CompleteDrain
  <2>27. ASSUME NEW j \in Jobs, Unclaim(j) PROVE TypeOK'
    BY <2>27, VanishType, ThrowType DEF TypeOK, Unclaim
  <2>28. ASSUME NEW j \in Jobs, DrainFault(j) PROVE TypeOK'
    <3>1. spent' \in [{"mishaps", "faults", "crashes"} -> Nat]
      BY <2>28, SpendType DEF DrainFault
    <3>2. CASE Throw(j)
      BY <2>28, <3>1, <3>2, ThrowType DEF TypeOK, DrainFault
    <3>3. CASE Vanish(j) /\ UNCHANGED gaveUp
      BY <2>28, <3>1, <3>3, VanishType DEF TypeOK, DrainFault
    <3>4. CASE ~Throw(j) /\ ~(Vanish(j) /\ UNCHANGED gaveUp)
      BY <2>28, <3>1, <3>4 DEF TypeOK, JobsOK, DrainFault, Goto, Owning, Closing, Sending
    <3>5. QED
      BY <3>2, <3>3, <3>4
  <2>29. CASE BackendClear
    BY <2>29, KeepType DEF TypeOK, JobsOK, BackendClear
  <2>30. CASE Unblock
    BY <2>30 DEF TypeOK, JobsOK, Unblock
  <2>31. CASE Shed \/ Unshed
    BY <2>31, SpendType DEF TypeOK, JobsOK, Shed, Unshed
  <2>32. CASE Crash
    <3>1. spent' \in [{"mishaps", "faults", "crashes"} -> Nat]
      BY <2>32, SpendType DEF Crash
    <3>2. push' \in [Messages -> {"idle", "waiting", "retry", "accepted", "dropped"}]
      BY <2>32 DEF TypeOK, Crash
    <3>3. dpc' \in [Jobs -> {"none"} \cup Owning \cup Closing]
      BY <2>32 DEF TypeOK, JobsOK, Crash, Owning
    <3>4. JobsOK'
      BY <2>32, <3>3 DEF TypeOK, JobsOK, Crash, Sending
    <3>5. up' \in BOOLEAN
      BY <2>32 DEF Crash
    <3>6. QED
      BY <2>32, <3>1, <3>2, <3>3, <3>4, <3>5 DEF TypeOK, Crash
  <2>33. CASE Restart
    BY <2>33 DEF TypeOK, JobsOK, Restart
  <2>34. CASE Tick
    BY <2>34, KeepType DEF TypeOK, JobsOK, Tick, Before
  <2>35. CASE UNCHANGED vars
    BY <2>35 DEF TypeOK, JobsOK, vars
  <2>36. QED
    BY <2>1, <2>2, <2>3, <2>4, <2>5, <2>6, <2>7, <2>8, <2>9, <2>10, <2>11, <2>12, <2>13,
       <2>14, <2>15, <2>16, <2>17, <2>18, <2>19, <2>20, <2>21, <2>22, <2>23, <2>24, <2>25,
       <2>26, <2>27, <2>28, <2>29, <2>30, <2>31, <2>32, <2>33, <2>34, <2>35
       DEF Next, DrainStep, RequestStep
<1>3. QED
  BY <1>1, <1>2, PTL DEF Spec

(***************************************************************************)
(* Post order.  What a drain is about to publish was the oldest member     *)
(* when it read the backlog; since then what was ahead of it can only have *)
(* left.                                                                   *)
(***************************************************************************)
OrderInv ==
  /\ \A m \in Messages : m \notin ahead[m] /\ ahead[m] \subseteq backlog
  /\ \A j \in Jobs : dpc[j] = "post" => \A k \in ahead[msg[j]] : msg[j] < k

(* A step that puts nothing ahead of a message and starts no post. *)
Calm ==
  /\ \A m \in Messages : ahead'[m] \subseteq ahead[m] /\ ahead'[m] \subseteq backlog'
  /\ \A j \in Jobs : dpc'[j] = "post" => dpc[j] = "post" /\ msg'[j] = msg[j]

(* A calm step keeps the order invariant. *)
LEMMA CalmKeepsOrder ==
  ASSUME TypeOK, TypeOK', OrderInv, Calm
  PROVE  OrderInv'
<1>1. \A m \in Messages : m \notin ahead'[m] /\ ahead'[m] \subseteq backlog'
  BY DEF OrderInv, Calm
<1>2. ASSUME NEW j \in Jobs, dpc'[j] = "post", NEW k \in ahead'[msg'[j]]
      PROVE  msg'[j] < k
  <2>1. dpc[j] = "post" /\ msg'[j] = msg[j]
    BY <1>2 DEF Calm
  <2>2. msg[j] \in Messages
    BY <2>1 DEF TypeOK, JobsOK, Sending
  <2>3. k \in ahead[msg[j]]
    BY <1>2, <2>1, <2>2 DEF Calm
  <2>4. QED
    BY <2>1, <2>3 DEF OrderInv
<1>3. QED
  BY <1>1, <1>2 DEF OrderInv

(* Removing members of the backlog only takes away from what is ahead. *)
LEMMA KeepShrinks ==
  ASSUME TypeOK, OrderInv, NEW S, Keep(S)
  PROVE  \A m \in Messages : ahead'[m] \subseteq ahead[m] /\ ahead'[m] \subseteq backlog'
BY DEF TypeOK, OrderInv, Keep

(* A job that moves on without starting to send leaves every sender as it was. *)
LEMMA MovesOnly ==
  ASSUME TypeOK, NEW j \in Jobs, NEW place, place # "post",
         dpc' = [dpc EXCEPT ![j] = place],
         \A i \in Jobs \ {j} : msg'[i] = msg[i]
  PROVE  \A i \in Jobs : dpc'[i] = "post" => dpc[i] = "post" /\ msg'[i] = msg[i]
BY DEF TypeOK, JobsOK

(* A job that throws starts no post. *)
LEMMA ThrowMoves ==
  ASSUME TypeOK, NEW j \in Jobs, Throw(j)
  PROVE  \A i \in Jobs : dpc'[i] = "post" => dpc[i] = "post" /\ msg'[i] = msg[i]
<1>1. PICK place \in {"queued", "unclaim"} : dpc' = [dpc EXCEPT ![j] = place]
  BY DEF Throw, Goto
<1>2. \A i \in Jobs \ {j} : msg'[i] = msg[i]
  BY DEF Throw, TypeOK, JobsOK
<1>3. QED
  BY <1>1, <1>2, MovesOnly

(* A job that is over starts no post. *)
LEMMA VanishMoves ==
  ASSUME TypeOK, NEW j \in Jobs, Vanish(j)
  PROVE  \A i \in Jobs : dpc'[i] = "post" => dpc[i] = "post" /\ msg'[i] = msg[i]
<1>1. dpc' = [dpc EXCEPT ![j] = "none"]
  BY DEF Vanish, Goto
<1>2. \A i \in Jobs \ {j} : msg'[i] = msg[i]
  BY DEF Vanish, TypeOK, JobsOK
<1>3. QED
  BY <1>1, <1>2, MovesOnly

(* Every step keeps the order invariant. *)
LEMMA OrderStep ==
  ASSUME TypeOK, TypeOK', OrderInv, [Next]_vars
  PROVE  OrderInv'
<1> USE DEF redisVars, jobVars, httpVars, botVars, discordVars, outsideJob
<1>1. CASE UNCHANGED <<backlog, ahead, dpc, msg>>
  BY <1>1 DEF OrderInv
<1>2. CASE UNCHANGED <<dpc, msg>> /\ \E S : Keep(S)
  BY <1>2, KeepShrinks, CalmKeepsOrder DEF Calm
<1>3. ASSUME NEW r \in Requests, HoldMessage(r) PROVE OrderInv'
  <2> DEFINE m == r[1]
  <2>1. m \in Messages
    BY DEF Requests
  <2>2. CASE ahead' = ahead
    <3>1. backlog \subseteq backlog'
      BY <1>3 DEF HoldMessage, AddHeld
    <3>2. Calm
      BY <1>3, <2>2, <3>1 DEF Calm, HoldMessage, OrderInv
    <3>3. QED
      BY <3>2, CalmKeepsOrder
  <2>3. CASE ahead' # ahead
    <3>1. /\ m \notin backlog /\ ahead' = [ahead EXCEPT ![m] = backlog]
          /\ ~ \E j \in Jobs : dpc[j] = "post" /\ msg[j] = m
      BY <1>3, <2>3 DEF HoldMessage, AddHeld
    <3>2. \A k \in Messages : k \notin ahead'[k] /\ ahead'[k] \subseteq backlog'
      BY <1>3, <2>1, <3>1 DEF OrderInv, TypeOK, HoldMessage, AddHeld
    <3>3. \A j \in Jobs : dpc[j] = "post" => ahead'[msg[j]] = ahead[msg[j]]
      BY <2>1, <3>1 DEF TypeOK
    <3>4. QED
      BY <1>3, <3>2, <3>3 DEF OrderInv, HoldMessage
  <2>4. QED
    BY <2>2, <2>3
<1>4. ASSUME NEW r \in Requests, AddForPush(r) PROVE OrderInv'
  <2>1. PICK k \in Jobs : dpc' = [dpc EXCEPT ![k] = "queued"]
    BY <1>4 DEF AddForPush
  <2>2. UNCHANGED <<backlog, ahead, msg>>
    BY <1>4 DEF AddForPush
  <2>3. Calm
    BY <2>1, <2>2, MovesOnly DEF Calm, OrderInv
  <2>4. QED
    BY <2>3, CalmKeepsOrder
<1>5. ASSUME NEW j \in Jobs, DrainStep(j), ~ReadOldest(j) PROVE OrderInv'
  <2>1. \A m \in Messages : ahead'[m] \subseteq ahead[m] /\ ahead'[m] \subseteq backlog'
    <3>1. CASE UNCHANGED <<backlog, ahead>>
      BY <3>1 DEF OrderInv
    <3>2. CASE \E S : Keep(S)
      BY <3>2, KeepShrinks
    <3>3. (\E S : Keep(S)) \/ UNCHANGED <<backlog, ahead>>
      BY <1>5 DEF DrainStep, StartDrain, DropExpired, DiscordTakes, RemoveSent, SetLock,
                  SetBlocked, ClearBacklog, ExtendClaim, MoveToDelayed, FinishDrain,
                  ClaimNext, AddNext, CompleteDrain, Unclaim
    <3>4. QED
      BY <3>1, <3>2, <3>3
  <2>2. \A i \in Jobs : dpc'[i] = "post" => dpc[i] = "post" /\ msg'[i] = msg[i]
    <3>1. CASE Throw(j) \/ Vanish(j)
      BY <3>1, ThrowMoves, VanishMoves
    <3>2. CASE AddNext(j)
      BY <3>2 DEF AddNext, TypeOK, JobsOK
    <3>3. CASE ~(Throw(j) \/ Vanish(j) \/ AddNext(j))
      <4>1. \A i \in Jobs \ {j} : msg'[i] = msg[i]
        BY <1>5, <3>3
           DEF TypeOK, JobsOK, DrainStep, StartDrain, DropExpired, DiscordTakes, RemoveSent,
               SetLock, SetBlocked, ClearBacklog, ExtendClaim, MoveToDelayed, FinishDrain,
               ClaimNext, CompleteDrain, Unclaim
      <4>2. \E place : place # "post" /\ dpc' = [dpc EXCEPT ![j] = place]
        BY <1>5, <3>3
           DEF DrainStep, StartDrain, DropExpired, DiscordTakes, RemoveSent,
               SetLock, SetBlocked, ClearBacklog, ExtendClaim, MoveToDelayed, FinishDrain,
               ClaimNext, CompleteDrain, Unclaim, WaitFor, Goto
      <4>3. QED
        BY <4>1, <4>2, MovesOnly
    <3>4. QED
      BY <3>1, <3>2, <3>3
  <2>3. QED
    BY <2>1, <2>2, CalmKeepsOrder DEF Calm
<1>6. ASSUME NEW j \in Jobs, ReadOldest(j) PROVE OrderInv'
  <2>1. UNCHANGED <<backlog, ahead>> /\ \A i \in Jobs \ {j} : dpc'[i] = dpc[i] /\ msg'[i] = msg[i]
    BY <1>6 DEF ReadOldest, WaitFor, Goto, TypeOK, JobsOK
  <2>2. CASE dpc'[j] # "post"
    <3>1. Calm
      BY <2>1, <2>2 DEF Calm, OrderInv
    <3>2. QED
      BY <3>1, CalmKeepsOrder
  <2>3. CASE dpc'[j] = "post"
    <3>1. backlog # {} /\ msg'[j] = Oldest
      BY <1>6, <2>3 DEF ReadOldest, WaitFor, Goto, TypeOK, JobsOK
    <3>2. Oldest \in Messages /\ \A k \in backlog : Oldest <= k
      BY <3>1, OldestType DEF TypeOK
    <3>3. \A k \in ahead[Oldest] : Oldest < k
      <4>1. TAKE k \in ahead[Oldest]
      <4>2. k \in backlog /\ k # Oldest /\ Oldest <= k
        BY <3>2 DEF OrderInv
      <4>3. k \in Nat /\ Oldest \in Nat
        BY <3>2, <4>2 DEF TypeOK, Messages
      <4>4. QED
        BY <4>2, <4>3
    <3>4. QED
      BY <2>1, <3>1, <3>3 DEF OrderInv
  <2>4. QED
    BY <2>2, <2>3
<1>7. ASSUME NEW j \in Jobs, DiscordRefuses(j) \/ DiscordFails(j) \/ DrainFault(j) PROVE OrderInv'
  <2>1. UNCHANGED <<backlog, ahead>>
    BY <1>7 DEF DiscordRefuses, DiscordFails, DrainFault
  <2>2. \A i \in Jobs : dpc'[i] = "post" => dpc[i] = "post" /\ msg'[i] = msg[i]
    <3>1. CASE Throw(j) \/ Vanish(j)
      BY <3>1, ThrowMoves, VanishMoves
    <3>2. CASE ~(Throw(j) \/ Vanish(j))
      <4>1. UNCHANGED msg
        BY <1>7, <3>2 DEF DiscordRefuses, DiscordFails, DrainFault
      <4>2. \E place : place # "post" /\ dpc' = [dpc EXCEPT ![j] = place]
        BY <1>7, <3>2 DEF DiscordRefuses, DiscordFails, DrainFault, WaitFor, Goto
      <4>3. QED
        BY <4>1, <4>2, MovesOnly
    <3>3. QED
      BY <3>1, <3>2
  <2>3. Calm
    BY <2>1, <2>2 DEF Calm, OrderInv
  <2>4. QED
    BY <2>3, CalmKeepsOrder
<1>8. CASE Crash
  <2>1. UNCHANGED <<backlog, ahead>> /\ \A i \in Jobs : dpc'[i] # "post"
    BY <1>8 DEF Crash, TypeOK, JobsOK
  <2>2. Calm
    BY <2>1 DEF Calm, OrderInv
  <2>3. QED
    BY <2>2, CalmKeepsOrder
<1>9. ASSUME NEW m \in Messages, PushMessage(m) \/ PushTimesOut(m) \/ DeleteMessage(m) \/ CancelMessage(m)
      PROVE OrderInv'
  <2>1. UNCHANGED <<dpc, msg>> /\ (UNCHANGED <<backlog, ahead>> \/ \E S : Keep(S))
    BY <1>9 DEF PushMessage, PushTimesOut, DeleteMessage, CancelMessage
  <2>2. QED
    BY <2>1, <1>1, <1>2
<1>10. ASSUME NEW r \in Requests, ClaimForPush(r) \/ UnclaimForPush(r) \/ PushFault(r) PROVE OrderInv'
  <2>1. UNCHANGED <<dpc, msg, backlog, ahead>>
    BY <1>10 DEF ClaimForPush, UnclaimForPush, PushFault
  <2>2. QED
    BY <2>1, <1>1
<1>11. CASE \/ \E p \in {0, Preview} : PostMessage(p)
            \/ BackendClear \/ Unblock \/ Shed \/ Unshed \/ Restart \/ Tick \/ UNCHANGED vars
  <2>1. UNCHANGED <<dpc, msg>> /\ (UNCHANGED <<backlog, ahead>> \/ \E S : Keep(S))
    BY <1>11 DEF PostMessage, BackendClear, Unblock, Shed, Unshed, Restart, Tick, vars
  <2>2. QED
    BY <2>1, <1>1, <1>2
<1>12. QED
  BY <1>3, <1>4, <1>5, <1>6, <1>7, <1>8, <1>9, <1>10, <1>11
     DEF Next, RequestStep, DrainStep

(* Post order: a message is never published while an older one waits that  *)
(* was held before it.                                                     *)
THEOREM InPostOrder == Spec => PostOrder
<1>1. Init => OrderInv
  BY DEF Init, OrderInv
<1>2. TypeOK /\ TypeOK' /\ OrderInv /\ [Next]_vars => OrderInv'
  BY OrderStep
<1>3. TypeOK /\ OrderInv /\ [Next]_vars
        => [\A m \in sent' \ sent : \A k \in backlog \cap ahead[m] : m < k]_vars
  <2> SUFFICES ASSUME TypeOK, OrderInv, Next, NEW m \in sent' \ sent, NEW k \in backlog \cap ahead[m]
               PROVE  m < k
    OBVIOUS
  <2>1. PICK j \in Jobs : DiscordTakes(j) \/ DiscordFails(j)
    BY DEF Next, DrainStep, RequestStep, redisVars, jobVars, httpVars, botVars, discordVars,
           outsideJob, PostMessage, PushMessage, PushTimesOut, DeleteMessage, CancelMessage,
           HoldMessage, ClaimForPush, AddForPush, UnclaimForPush, PushFault, StartDrain,
           DropExpired, ReadOldest, RemoveSent, SetLock, SetBlocked, ClearBacklog, ExtendClaim,
           MoveToDelayed, FinishDrain, ClaimNext, AddNext, CompleteDrain, Unclaim,
           DiscordRefuses, DrainFault, BackendClear, Unblock, Shed, Unshed, Crash, Restart, Tick
  <2>2. dpc[j] = "post" /\ m = msg[j]
    BY <2>1 DEF DiscordTakes, DiscordFails
  <2>3. QED
    BY <2>2 DEF OrderInv
<1>4. QED
  BY <1>1, <1>2, <1>3, TypeCorrect, PTL DEF Spec, PostOrder

----------------------------------------------------------------------------
(* The lifetime of the backlog's key.                                       *)

(* Only posted messages are held or asked for, none has longer to live than *)
(* a fresh one, and the key outlives every member.                          *)
LifeInv ==
  /\ \A m \in backlog : m <= posted
  /\ \A r \in Requests : hpc[r] # "none" => r[1] <= posted
  /\ \A m \in Messages : life[m] <= MaxAge + 1
  /\ KeyOutlivesMembers

(* A step that adds nothing to the backlog and leaves the clock alone.      *)
LEMMA LifeKept ==
  ASSUME TypeOK, TypeOK', LifeInv, posted' >= posted, UNCHANGED life,
         UNCHANGED <<backlog, keyTtl>> \/ (\E S : Keep(S)),
         \A r \in Requests : hpc'[r] # "none" => hpc[r] # "none" \/ r[1] <= posted
  PROVE  LifeInv'
<1>1. posted \in Int /\ posted' \in Int /\ backlog \subseteq Messages
  BY DEF TypeOK
<1>2. backlog' \subseteq backlog /\ (keyTtl' = keyTtl \/ backlog' = {})
  BY DEF Keep
<1>3. (\A m \in Messages : m \in Int) /\ \A r \in Requests : r[1] \in Int
  BY DEF Messages, Requests
<1>4. /\ \A m \in backlog' : m <= posted'
      /\ \A r \in Requests : hpc'[r] # "none" => r[1] <= posted'
  BY <1>1, <1>2, <1>3 DEF LifeInv
<1> QED BY <1>2, <1>4 DEF LifeInv, KeyOutlivesMembers

LEMMA LifeStep == TypeOK /\ TypeOK' /\ LifeInv /\ [Next]_vars => LifeInv'
<1> SUFFICES ASSUME TypeOK, TypeOK', LifeInv, [Next]_vars PROVE LifeInv'
  OBVIOUS
<1> USE DEF redisVars, jobVars, httpVars, botVars, discordVars, outsideJob
<1>0. posted \in Int /\ posted <= posted
  BY DEF TypeOK
<1>1. ASSUME UNCHANGED <<posted, life, hpc>>, UNCHANGED <<backlog, keyTtl>> \/ (\E S : Keep(S))
      PROVE  LifeInv'
  BY <1>0, <1>1, LifeKept
<1>2. ASSUME NEW p \in {0, Preview}, PostMessage(p) PROVE LifeInv'
  <2>1. posted' >= posted
    BY <1>2 DEF PostMessage, TypeOK
  <2> QED BY <1>2, <2>1, LifeKept DEF PostMessage
<1>3. ASSUME NEW m \in Messages, PushMessage(m) PROVE LifeInv'
  <2>1. \A r \in Requests : hpc'[r] # "none" => hpc[r] # "none" \/ r[1] <= posted
    BY <1>3 DEF PushMessage, MayPush, TypeOK
  <2>2. UNCHANGED <<posted, life, backlog, keyTtl>>
    BY <1>3 DEF PushMessage
  <2> QED BY <1>0, <2>1, <2>2, LifeKept
<1>4. ASSUME NEW m \in Messages, PushTimesOut(m) \/ DeleteMessage(m) \/ CancelMessage(m)
      PROVE  LifeInv'
  BY <1>1, <1>4 DEF PushTimesOut, DeleteMessage, CancelMessage
<1>5. ASSUME NEW r \in Requests, RequestStep(r) \/ PushFault(r) PROVE LifeInv'
  <2>1. \A q \in Requests : hpc'[q] # "none" => hpc[q] # "none" \/ q[1] <= posted
    BY <1>5 DEF RequestStep, HoldMessage, ClaimForPush, AddForPush, UnclaimForPush, PushFault,
                Finish, TypeOK
  <2>2. UNCHANGED <<posted, life>>
    BY <1>5 DEF RequestStep, HoldMessage, ClaimForPush, AddForPush, UnclaimForPush, PushFault
  <2>3. CASE UNCHANGED <<backlog, keyTtl>>
    BY <1>0, <2>1, <2>2, <2>3, LifeKept
  <2>4. CASE HoldMessage(r) /\ AddHeld(r[1])
    <3>1. backlog' = backlog \cup {r[1]} /\ keyTtl' = MaxAge
      BY <2>4 DEF AddHeld
    <3>2. r[1] <= posted /\ r[1] \in Messages
      BY <2>4 DEF HoldMessage, LifeInv, Requests
    <3>3. backlog' \subseteq Messages
      BY DEF TypeOK
    <3> QED BY <2>1, <2>2, <3>1, <3>2, <3>3 DEF LifeInv, KeyOutlivesMembers
  <2> QED BY <1>5, <2>3, <2>4
          DEF RequestStep, HoldMessage, ClaimForPush, AddForPush, UnclaimForPush, PushFault
<1>6. ASSUME NEW j \in Jobs,
             DrainStep(j) \/ DiscordRefuses(j) \/ DiscordFails(j) \/ DrainFault(j)
      PROVE  LifeInv'
  BY <1>1, <1>6
  DEF DrainStep, StartDrain, DropExpired, ReadOldest, DiscordTakes, RemoveSent, SetLock,
      SetBlocked, ClearBacklog, ExtendClaim, MoveToDelayed, FinishDrain, ClaimNext, AddNext,
      CompleteDrain, Unclaim, DiscordRefuses, DiscordFails, DrainFault
<1>7. CASE BackendClear \/ Unblock \/ Shed \/ Unshed \/ Restart \/ UNCHANGED vars
  BY <1>1, <1>7 DEF BackendClear, Unblock, Shed, Unshed, Restart, vars
<1>8. CASE Crash
  <2>1. \A r \in Requests : hpc'[r] = "none"
    BY <1>8 DEF Crash
  <2> QED BY <1>0, <1>8, <2>1, LifeKept DEF Crash
<1>9. CASE Tick
  <2>1. CASE ~Ageing
    BY <1>1, <1>9, <2>1 DEF Tick
  <2>2. CASE Ageing
    <3>1. \A m \in Messages : life'[m] = IF m <= posted THEN Before(life[m]) ELSE life[m]
      BY <1>9, <2>2 DEF Tick
    <3>2. \A m \in Messages : life[m] \in Nat /\ MaxAge \in Nat
      BY ConstantsAssumption DEF TypeOK
    <3>3. \A m \in Messages : life'[m] <= MaxAge + 1
      BY <3>1, <3>2 DEF LifeInv, Before
    <3>4. hpc' = hpc /\ posted' = posted
      BY <1>9 DEF Tick
    <3>5. CASE keyTtl = 1
      <4>1. backlog' = {}
        BY <1>9, <2>2, <3>5 DEF Tick, Keep
      <4> QED BY <3>3, <3>4, <4>1 DEF LifeInv, KeyOutlivesMembers
    <3>6. CASE keyTtl # 1
      <4>1. backlog' = backlog /\ keyTtl' = Before(keyTtl) /\ keyTtl \in Nat
        BY <1>9, <2>2, <3>6 DEF Tick, TypeOK
      <4>2. \A m \in backlog : m \in Messages /\ m <= posted /\ life[m] <= keyTtl + 1
        BY DEF LifeInv, KeyOutlivesMembers, TypeOK
      <4>3. \A m \in backlog : life'[m] <= keyTtl' + 1
        BY <3>1, <3>2, <4>1, <4>2 DEF Before
      <4> QED BY <3>3, <3>4, <4>1, <4>2, <4>3 DEF LifeInv, KeyOutlivesMembers
    <3> QED BY <3>5, <3>6
  <2> QED BY <2>1, <2>2
<1> QED BY <1>2, <1>3, <1>4, <1>5, <1>6, <1>7, <1>8, <1>9 DEF Next

(* The key's lifetime, refreshed per add, never takes a held message that is *)
(* still young enough to be published (rollover.ts: PEXPIRE beside ZADD).   *)
THEOREM KeyOutlives == Spec => []KeyOutlivesMembers
<1>1. Init => LifeInv
  <2> SUFFICES ASSUME Init PROVE LifeInv
    OBVIOUS
  <2>1. \A m \in Messages : life[m] = MaxAge + 1
    BY DEF Init
  <2>2. MaxAge + 1 <= MaxAge + 1
    BY ConstantsAssumption
  <2> QED BY <2>1, <2>2 DEF Init, LifeInv, KeyOutlivesMembers
<1>2. LifeInv => KeyOutlivesMembers
  BY DEF LifeInv
<1> QED BY <1>1, <1>2, LifeStep, TypeCorrect, PTL DEF Spec

----------------------------------------------------------------------------
(* RolloverDrain implements OrderedOutbox, for every value of its constants: *)
(* each step of the code's model is one step of the outbox or none.  What is *)
(* taken is what the posting jobs have in hand.                             *)
Posting == {i \in Jobs : dpc[i] = "post"}
InHand  == {msg[j] : j \in Posting}

(* What a job has in hand is a message.                                     *)
LEMMA InHandType ==
  ASSUME TypeOK
  PROVE  InHand \subseteq Messages
BY DEF TypeOK, JobsOK, InHand, Posting, Sending

(* Whoever only stops posting lets go of messages.                          *)
LEMMA LettingGo ==
  ASSUME TypeOK, UNCHANGED <<backlog, sent>>,
         \A i \in Jobs : dpc'[i] = "post" => dpc[i] = "post" /\ msg'[i] = msg[i]
  PROVE  Outbox!Next
<1>1. InHand' \subseteq InHand
  BY DEF InHand, Posting
<1>2. PICK S \in SUBSET Messages : S = InHand \ InHand'
  BY InHandType
<1>3. InHand' = InHand \ S
  BY <1>1, <1>2
<1>4. Outbox!LetGo(S)
  BY <1>3 DEF Outbox!LetGo, InHand, Posting
<1>5. QED
  BY <1>4 DEF Outbox!Next, Outbox!Message, Messages

(* Whoever touches no posting job leaves what is in hand alone.             *)
LEMMA SameInHand ==
  ASSUME \A i \in Jobs : (dpc'[i] = "post" <=> dpc[i] = "post")
                         /\ (dpc[i] = "post" => msg'[i] = msg[i])
  PROVE  InHand' = InHand
BY DEF InHand, Posting

(* A job that moves between two awaits that are not the post.               *)
LEMMA OtherMove ==
  ASSUME TypeOK, NEW j \in Jobs, NEW place, dpc[j] # "post", place # "post",
         dpc' = [dpc EXCEPT ![j] = place],
         \A i \in Jobs \ {j} : msg'[i] = msg[i]
  PROVE  InHand' = InHand
<1>1. \A i \in Jobs : (dpc'[i] = "post" <=> dpc[i] = "post")
                      /\ (dpc[i] = "post" => msg'[i] = msg[i])
  BY DEF TypeOK, JobsOK
<1>2. QED
  BY <1>1, SameInHand

(* Losing messages that wait is a step of the outbox.                       *)
LEMMA Discarding ==
  ASSUME TypeOK, NEW S, Keep(S), InHand' = InHand, UNCHANGED sent
  PROVE  Outbox!Next
<1>1. backlog' = backlog \ (backlog \ S) /\ backlog \ S \in SUBSET Messages
  BY DEF Keep, TypeOK
<1>2. Outbox!Discard(backlog \ S)
  BY <1>1 DEF Outbox!Discard, InHand, Posting
<1>3. QED
  BY <1>1, <1>2 DEF Outbox!Next, Outbox!Message, Messages

(* A job that stops posting its message lets go of that message or, when    *)
(* another job posts it too, of nothing.                                    *)
LEMMA OneLetsGo ==
  ASSUME TypeOK, NEW j \in Jobs, dpc[j] = "post",
         dpc'[j] # "post",
         \A i \in Jobs \ {j} : dpc'[i] = dpc[i] /\ msg'[i] = msg[i]
  PROVE  InHand' \in {InHand, InHand \ {msg[j]}}
<1>1. InHand = InHand' \cup {msg[j]}
  BY DEF InHand, Posting
<1>2. QED
  BY <1>1

(* Each step of the path is a step of the outbox or leaves it as it is.     *)
LEMMA OutboxStep ==
  ASSUME TypeOK, [Next]_vars
  PROVE  [Outbox!Next]_(Outbox!vars)
<1> USE DEF redisVars, jobVars, httpVars, botVars, discordVars, outsideJob
<1>0. ASSUME UNCHANGED <<backlog, sent>>, InHand' = InHand
      PROVE  [Outbox!Next]_(Outbox!vars)
  BY <1>0 DEF Outbox!vars, InHand, Posting
<1>1. CASE UNCHANGED <<dpc, msg>> /\ UNCHANGED sent
           /\ (UNCHANGED backlog \/ \E S : Keep(S))
  <2>1. InHand' = InHand
    BY <1>1, SameInHand
  <2>2. CASE UNCHANGED backlog
    BY <1>1, <2>1, <2>2, <1>0
  <2>3. CASE \E S : Keep(S)
    BY <1>1, <2>1, <2>3, Discarding
  <2>4. QED
    BY <1>1, <2>2, <2>3
<1>2. ASSUME NEW r \in Requests, HoldMessage(r) PROVE [Outbox!Next]_(Outbox!vars)
  <2>1. r[1] \in Messages
    BY DEF Requests
  <2>2. InHand' = InHand /\ UNCHANGED sent
    BY <1>2, SameInHand DEF HoldMessage
  <2>3. CASE UNCHANGED backlog
    BY <2>2, <2>3, <1>0
  <2>4. CASE AddHeld(r[1])
    <3>1. Outbox!Hold(r[1])
      BY <2>2, <2>4 DEF AddHeld, Outbox!Hold, InHand, Posting
    <3>2. QED
      BY <2>1, <3>1 DEF Outbox!Next, Outbox!Message, Messages
  <2>5. QED
    BY <1>2, <2>3, <2>4 DEF HoldMessage
<1>3. ASSUME NEW r \in Requests, AddForPush(r) PROVE [Outbox!Next]_(Outbox!vars)
  <2>1. PICK k \in Jobs : dpc[k] = "none" /\ dpc' = [dpc EXCEPT ![k] = "queued"]
    BY <1>3 DEF AddForPush
  <2>2. UNCHANGED <<backlog, sent, msg>>
    BY <1>3 DEF AddForPush
  <2>3. InHand' = InHand
    BY <2>1, <2>2, OtherMove
  <2>4. QED
    BY <2>2, <2>3, <1>0
<1>4. ASSUME NEW r \in Requests, ClaimForPush(r) \/ UnclaimForPush(r) \/ PushFault(r)
      PROVE [Outbox!Next]_(Outbox!vars)
  <2>1. UNCHANGED <<dpc, msg, sent, backlog>>
    BY <1>4 DEF ClaimForPush, UnclaimForPush, PushFault
  <2>2. QED
    BY <2>1, <1>1
<1>5. ASSUME NEW j \in Jobs, ReadOldest(j) PROVE [Outbox!Next]_(Outbox!vars)
  <2>1. /\ UNCHANGED <<backlog, sent>>
        /\ \A i \in Jobs \ {j} : dpc'[i] = dpc[i] /\ msg'[i] = msg[i]
        /\ dpc[j] = "oldest"
    BY <1>5 DEF ReadOldest, WaitFor, Goto, TypeOK, JobsOK
  <2>2. CASE dpc'[j] # "post"
    <3>1. InHand' = InHand
      BY <2>1, <2>2, SameInHand
    <3>2. QED
      BY <2>1, <3>1, <1>0
  <2>3. CASE dpc'[j] = "post"
    <3>1. backlog # {} /\ msg'[j] = Oldest
      BY <1>5, <2>3 DEF ReadOldest, WaitFor, Goto, TypeOK, JobsOK
    <3>2. Oldest \in backlog /\ \A k \in backlog : Oldest <= k
      BY <3>1, OldestType DEF TypeOK
    <3>3. InHand' = InHand \cup {Oldest}
      BY <2>1, <2>3, <3>1 DEF InHand, Posting
    <3>4. PICK m \in Messages : m = Oldest
      BY <3>2 DEF TypeOK
    <3>5. Outbox!Take(m)
      BY <2>1, <3>2, <3>3, <3>4 DEF Outbox!Take, InHand, Posting
    <3>6. QED
      BY <3>5 DEF Outbox!Next, Outbox!Message, Messages
  <2>4. QED
    BY <2>2, <2>3
<1>6. ASSUME NEW j \in Jobs, DiscordTakes(j) \/ DiscordFails(j) PROVE [Outbox!Next]_(Outbox!vars)
  <2>1. /\ UNCHANGED backlog /\ dpc[j] = "post" /\ dpc'[j] # "post"
        /\ \A i \in Jobs \ {j} : dpc'[i] = dpc[i] /\ msg'[i] = msg[i]
    BY <1>6 DEF DiscordTakes, DiscordFails, Throw, Goto, TypeOK, JobsOK
  <2>2. CASE UNCHANGED sent
    BY <2>1, <2>2, LettingGo
  <2>3. CASE sent' # sent
    <3>1. sent' = sent \cup {msg[j]} /\ msg[j] \notin sent
      BY <1>6, <2>3 DEF DiscordTakes, DiscordFails
    <3>2. msg[j] \in InHand /\ msg[j] \in Messages
      BY <2>1, InHandType DEF InHand, Posting
    <3>3. InHand' \in {InHand, InHand \ {msg[j]}}
      BY <2>1, OneLetsGo
    <3>4. PICK m \in Messages : m = msg[j]
      BY <3>2
    <3>5. Outbox!Publish(m)
      BY <2>1, <3>1, <3>2, <3>3, <3>4 DEF Outbox!Publish, InHand, Posting
    <3>6. QED
      BY <3>5 DEF Outbox!Next, Outbox!Message, Messages
  <2>4. QED
    BY <2>2, <2>3
<1>7. ASSUME NEW j \in Jobs, DiscordRefuses(j) PROVE [Outbox!Next]_(Outbox!vars)
  <2>1. /\ UNCHANGED <<backlog, sent>>
        /\ \A i \in Jobs : dpc'[i] = "post" => dpc[i] = "post" /\ msg'[i] = msg[i]
    BY <1>7 DEF DiscordRefuses, WaitFor, Goto, TypeOK, JobsOK
  <2>2. QED
    BY <2>1, LettingGo
<1>8. ASSUME NEW j \in Jobs, DropExpired(j) \/ RemoveSent(j) \/ ClearBacklog(j)
      PROVE [Outbox!Next]_(Outbox!vars)
  <2>1. PICK S : Keep(S)
    BY <1>8 DEF DropExpired, RemoveSent, ClearBacklog
  <2>2. UNCHANGED sent /\ dpc[j] # "post" /\ \A i \in Jobs \ {j} : msg'[i] = msg[i]
    BY <1>8 DEF DropExpired, RemoveSent, ClearBacklog, TypeOK, JobsOK
  <2>3. PICK place : place # "post" /\ dpc' = [dpc EXCEPT ![j] = place]
    BY <1>8 DEF DropExpired, RemoveSent, ClearBacklog, WaitFor, Goto
  <2>4. InHand' = InHand
    BY <2>2, <2>3, OtherMove
  <2>5. QED
    BY <2>1, <2>2, <2>4, Discarding
<1>9. ASSUME NEW j \in Jobs,
             \/ StartDrain(j) \/ SetLock(j) \/ SetBlocked(j) \/ ExtendClaim(j) \/ MoveToDelayed(j)
             \/ FinishDrain(j) \/ ClaimNext(j) \/ CompleteDrain(j) \/ Unclaim(j) \/ DrainFault(j)
      PROVE [Outbox!Next]_(Outbox!vars)
  <2>1. UNCHANGED <<backlog, sent>> /\ dpc[j] # "post"
    BY <1>9 DEF StartDrain, SetLock, SetBlocked, ExtendClaim, MoveToDelayed, FinishDrain,
                ClaimNext, CompleteDrain, Unclaim, DrainFault
  <2>2. \A i \in Jobs \ {j} : msg'[i] = msg[i]
    BY <1>9 DEF StartDrain, SetLock, SetBlocked, ExtendClaim, MoveToDelayed, FinishDrain,
                ClaimNext, CompleteDrain, Unclaim, DrainFault, Throw, Vanish, TypeOK, JobsOK
  <2>3. \E place : place # "post" /\ dpc' = [dpc EXCEPT ![j] = place]
    <3>1. CASE Throw(j) \/ Vanish(j)
      BY <3>1 DEF Throw, Vanish, Goto
    <3>2. CASE ~(Throw(j) \/ Vanish(j))
      BY <1>9, <3>2
         DEF StartDrain, SetLock, SetBlocked, ExtendClaim, MoveToDelayed, FinishDrain,
             ClaimNext, CompleteDrain, Unclaim, DrainFault, WaitFor, Goto
    <3>3. QED
      BY <3>1, <3>2
  <2>4. QED
    BY <2>1, <2>2, <2>3, OtherMove, <1>0
<1>10. ASSUME NEW j \in Jobs, AddNext(j) PROVE [Outbox!Next]_(Outbox!vars)
  <2>1. UNCHANGED <<backlog, sent, msg>>
    BY <1>10 DEF AddNext
  <2>2. \A i \in Jobs : dpc'[i] = "post" <=> dpc[i] = "post"
    BY <1>10 DEF AddNext, TypeOK, JobsOK
  <2>3. InHand' = InHand
    BY <2>1, <2>2, SameInHand
  <2>4. QED
    BY <2>1, <2>3, <1>0
<1>11. ASSUME NEW m \in Messages, PushMessage(m) \/ PushTimesOut(m) \/ DeleteMessage(m) \/ CancelMessage(m)
       PROVE [Outbox!Next]_(Outbox!vars)
  <2>1. UNCHANGED <<dpc, msg, sent>> /\ (UNCHANGED backlog \/ \E S : Keep(S))
    BY <1>11 DEF PushMessage, PushTimesOut, DeleteMessage, CancelMessage
  <2>2. QED
    BY <2>1, <1>1
<1>12. CASE \/ \E p \in {0, Preview} : PostMessage(p)
            \/ BackendClear \/ Unblock \/ Shed \/ Unshed \/ Restart \/ Tick \/ UNCHANGED vars
  <2>1. UNCHANGED <<dpc, msg, sent>> /\ (UNCHANGED backlog \/ \E S : Keep(S))
    BY <1>12 DEF PostMessage, BackendClear, Unblock, Shed, Unshed, Restart, Tick, vars
  <2>2. QED
    BY <2>1, <1>1
<1>13. CASE Crash
  <2>1. /\ UNCHANGED <<backlog, sent>>
        /\ \A i \in Jobs : dpc'[i] = "post" => dpc[i] = "post" /\ msg'[i] = msg[i]
    BY <1>13 DEF Crash, TypeOK, JobsOK
  <2>2. QED
    BY <2>1, LettingGo
<1>14. QED
  BY <1>2, <1>3, <1>4, <1>5, <1>6, <1>7, <1>8, <1>9, <1>10, <1>11, <1>12, <1>13
     DEF Next, RequestStep, DrainStep

(* The rollover path keeps the promise of the outbox: whatever crashes,     *)
(* fails or runs twice, a message is published only from a drain that read  *)
(* it as the oldest one waiting and has not let go of it since.             *)
THEOREM ImplementsOutbox == Spec => KeepsOutbox
<1>1. Init => Outbox!Init
  BY DEF Init, Outbox!Init
<1>2. TypeOK /\ [Next]_vars => [Outbox!Next]_(Outbox!vars)
  BY OutboxStep
<1>3. QED
  BY <1>1, <1>2, TypeCorrect, PTL DEF Spec, KeepsOutbox, Outbox!Spec
=============================================================================
