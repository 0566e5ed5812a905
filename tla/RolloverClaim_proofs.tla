------------------------ MODULE RolloverClaim_proofs ------------------------
(***************************************************************************)
(* The drain claim does what the code wants of it (one sender, no stranded *)
(* message) as long as the proxy does not crash, Redis does not fail and   *)
(* no drain spends the claim's slack on the backoffs of its retries.       *)
(***************************************************************************)
EXTENDS RolloverDrain_proofs

(* No command of Redis has failed, the proxy has not crashed, and no drain *)
(* has failed so often that its backoffs add up to the claim's slack.  The *)
(* code's own numbers allow eight failures of a drain, not the ninth.      *)
Undisturbed ==
  /\ spent["faults"] = 0 /\ spent["crashes"] = 0
  /\ \A j \in Jobs : BackoffSpent[fails[j]] < Slack

(* Where the claim of the channel is held: by the job that drains, or by   *)
(* the handler that has just claimed and is about to queue the job.        *)
Holding == Owning \cup {"add"}

(* The wait that lies before a job, and that its claim has to outlive. *)
Pending(j) == IF dpc[j] = "queued" THEN delay[j]
              ELSE IF dpc[j] = "delay" THEN wait[j] ELSE 0

OneHolder ==
  /\ \A i, j \in Jobs : dpc[i] \in Holding /\ dpc[j] \in Holding => i = j
  /\ \A q, r \in Requests : hpc[q] = "add" /\ hpc[r] = "add" => q = r
  /\ \A j \in Jobs, r \in Requests : ~(dpc[j] \in Holding /\ hpc[r] = "add")

(* The retry backoffs are the only waits a claim is not extended for. *)
ClaimOutlives ==
  /\ \A j \in Jobs : dpc[j] \in Owning =>
       claim + BackoffSpent[fails[j]] >= Slack + Pending(j)
  /\ \A j \in Jobs : dpc[j] = "add" => claim >= Slack
  /\ \A r \in Requests : hpc[r] = "add" => claim >= hwait[r] + Slack

Slots ==   \* a free slot is as it was at first, and only a queued job has a delay
  \A j \in Jobs : /\ dpc[j] = "none" => fails[j] = 0
                  /\ dpc[j] # "queued" => delay[j] = 0

NoFaults ==
  /\ up = TRUE
  /\ \A r \in Requests : hpc[r] # "unclaim"
  /\ \A j \in Jobs : dpc[j] # "unadd"

ClaimInv == OneHolder /\ ClaimOutlives /\ Slots /\ NoFaults

(* Types as the arithmetic needs them. *)
LEMMA Numbers ==
  ASSUME TypeOK, Undisturbed, NEW j \in Jobs
  PROVE  /\ Slack \in Nat /\ 0 < Slack /\ claim \in Nat /\ delay[j] \in Nat /\ wait[j] \in Nat
         /\ fails[j] \in 0..(Attempts - 1) /\ Attempts \in Nat
         /\ BackoffSpent[fails[j]] \in Nat /\ BackoffSpent[fails[j]] < Slack
         /\ Pending(j) \in Nat
<1>1. Slack \in Nat /\ 0 < Slack /\ Attempts \in Nat /\ Attempts > 0
  BY ConstantsAssumption
<1>2. claim \in Nat /\ delay[j] \in Nat /\ wait[j] \in Nat /\ fails[j] \in 0..(Attempts - 1)
  BY DEF TypeOK, JobsOK
<1>3. BackoffSpent[fails[j]] \in Nat
  BY <1>1, <1>2, BackoffAssumption
<1>4. QED
  BY <1>1, <1>2, <1>3 DEF Undisturbed, Pending

(* A job that owns the claim does: it is there. *)
LEMMA HolderHasClaim ==
  ASSUME TypeOK, ClaimInv, Undisturbed
  PROVE  /\ \A j \in Jobs : dpc[j] \in Holding => claim > 0
         /\ \A r \in Requests : hpc[r] = "add" => claim > 0
<1>1. ASSUME NEW j \in Jobs, dpc[j] \in Holding PROVE claim > 0
  BY <1>1, Numbers DEF Holding, ClaimInv, ClaimOutlives
<1>2. ASSUME NEW r \in Requests, hpc[r] = "add" PROVE claim > 0
  BY <1>2, ConstantsAssumption DEF ClaimInv, ClaimOutlives, TypeOK
<1>3. QED
  BY <1>1, <1>2

(* A step of the drain that keeps its claim. *)
LEMMA OwnedMove ==
  ASSUME TypeOK, ClaimInv,
         NEW j \in Jobs, NEW place \in Owning, dpc[j] \in Owning,
         dpc' = [dpc EXCEPT ![j] = place],
         UNCHANGED <<hpc, hwait, up>>,
         \A i \in Jobs \ {j} : fails'[i] = fails[i] /\ delay'[i] = delay[i],
         place # "queued" => delay'[j] = 0,
         claim' + BackoffSpent[fails'[j]] >= Slack + Pending(j)'
  PROVE  ClaimInv'
<1> USE DEF ClaimInv
<1>1. dpc'[j] = place /\ \A i \in Jobs \ {j} : dpc'[i] = dpc[i] /\ dpc[i] \notin Holding
  BY DEF TypeOK, JobsOK, OneHolder, Holding
<1>2. \A r \in Requests : hpc[r] # "add"
  BY DEF OneHolder, Holding
<1>3. OneHolder'
  BY <1>1, <1>2 DEF OneHolder
<1>4. ClaimOutlives'
  <2>1. place # "add"
    BY DEF Owning
  <2>2. QED
    BY <1>1, <1>2, <2>1 DEF ClaimOutlives, Holding
<1>5. Slots'
  <2>1. place # "none"
    BY DEF Owning
  <2>2. QED
    BY <1>1, <2>1 DEF Slots
<1>6. NoFaults'
  <2>1. place # "unadd"
    BY DEF Owning
  <2>2. QED
    BY <1>1, <2>1 DEF NoFaults
<1>7. QED
  BY <1>3, <1>4, <1>5, <1>6

(* A step that leaves jobs, requests and the claim alone. *)
LEMMA ClaimStutter ==
  ASSUME TypeOK, ClaimInv, UNCHANGED <<dpc, hpc, hwait, fails, delay, wait, claim, up>>
  PROVE  ClaimInv'
BY DEF ClaimInv, OneHolder, ClaimOutlives, Slots, NoFaults, Pending

(* The same for one job between places that do not hold the claim. *)
LEMMA LooseMove ==
  ASSUME TypeOK, ClaimInv, NEW j \in Jobs, NEW place \in {"none", "claim", "done"},
         dpc[j] \in Holding \cup {"claim", "done"},
         dpc[j] # "queued",
         dpc' = [dpc EXCEPT ![j] = place],
         fails' = IF place = "none" THEN [fails EXCEPT ![j] = 0] ELSE fails,
         UNCHANGED <<hpc, hwait, delay, up>>,
         \A i \in Jobs : wait'[i] = wait[i] \/ i = j,
         claim' = claim \/ dpc[j] \in Holding
  PROVE  ClaimInv'
<1> USE DEF ClaimInv
<1>1. dpc'[j] = place /\ (\A i \in Jobs \ {j} : dpc'[i] = dpc[i] /\ fails'[i] = fails[i])
  BY DEF TypeOK, JobsOK
<1>2. place \notin Holding
  BY DEF Holding, Owning
<1>3. OneHolder'
  BY <1>1, <1>2 DEF OneHolder
<1>4. ClaimOutlives'
  <2>1. CASE claim' = claim
    BY <1>1, <1>2, <2>1 DEF ClaimOutlives, Pending, Holding
  <2>2. CASE dpc[j] \in Holding
    <3>1. \A i \in Jobs : dpc'[i] \notin Holding
      BY <1>1, <1>2, <2>2 DEF OneHolder
    <3>2. \A r \in Requests : hpc[r] # "add"
      BY <2>2 DEF OneHolder
    <3>3. QED
      BY <3>1, <3>2 DEF ClaimOutlives, Holding
  <2>3. QED
    BY <2>1, <2>2
<1>5. Slots'
  BY <1>1 DEF Slots, TypeOK, JobsOK
<1>6. NoFaults'
  BY <1>1 DEF NoFaults
<1>7. QED
  BY <1>3, <1>4, <1>5, <1>6

(* No request and no job of another holder: a fresh claim has one holder. *)
LEMMA NobodyHolds ==
  ASSUME TypeOK, ClaimInv, Undisturbed, claim = 0
  PROVE  /\ \A i \in Jobs : dpc[i] \notin Holding
         /\ \A r \in Requests : hpc[r] # "add"
BY HolderHasClaim

(* Requests that finish, or move on without a claim. *)
LEMMA RequestMove ==
  ASSUME TypeOK, ClaimInv, NEW r \in Requests, NEW place \in {"none", "hold", "claim"},
         hpc[r] # "add",
         hpc' = [hpc EXCEPT ![r] = place],
         \A q \in Requests \ {r} : hwait'[q] = hwait[q],
         UNCHANGED <<jobVars, claim, up>>
  PROVE  ClaimInv'
<1> USE DEF ClaimInv, jobVars
<1>1. hpc'[r] = place /\ \A q \in Requests \ {r} : hpc'[q] = hpc[q]
  BY DEF TypeOK
<1>2. OneHolder' /\ ClaimOutlives'
  BY <1>1 DEF OneHolder, ClaimOutlives, Pending
<1>3. Slots' /\ NoFaults'
  BY <1>1 DEF Slots, NoFaults
<1>4. QED
  BY <1>2, <1>3

(* A push's claim attempt keeps the claim invariant. *)
LEMMA PushClaim ==
  ASSUME TypeOK, ClaimInv, Undisturbed, NEW r \in Requests, ClaimForPush(r)
  PROVE  ClaimInv'
<1> USE DEF redisVars, jobVars, httpVars, botVars, discordVars, outsideJob, ClaimInv
<1>1. CASE ClaimDrain(hwait[r]) /\ hpc' = [hpc EXCEPT ![r] = "add"] /\ UNCHANGED hwait
  <2>1. claim = 0 /\ claim' = hwait[r] + Slack
    BY <1>1 DEF ClaimDrain
  <2>2. /\ \A i \in Jobs : dpc'[i] = dpc[i] /\ dpc[i] \notin Holding
        /\ hpc'[r] = "add" /\ \A q \in Requests \ {r} : hpc'[q] = hpc[q] /\ hpc[q] # "add"
        /\ hwait' = hwait
    BY <1>1, <2>1, NobodyHolds DEF ClaimForPush, TypeOK
  <2>3. OneHolder'
    BY <2>2 DEF OneHolder
  <2>4. ClaimOutlives'
    BY <2>1, <2>2, ConstantsAssumption DEF ClaimOutlives, Holding, TypeOK
  <2>5. Slots' /\ NoFaults'
    BY <2>2 DEF ClaimForPush, Slots, NoFaults
  <2>6. QED
    BY <2>3, <2>4, <2>5
<1>2. CASE claim > 0 /\ Finish(r, "accepted") /\ UNCHANGED claim
  <2>1. /\ hpc' = [hpc EXCEPT ![r] = "none"] /\ hpc[r] # "add"
        /\ \A q \in Requests \ {r} : hwait'[q] = hwait[q]
        /\ UNCHANGED <<jobVars, claim, up>>
    BY <1>2 DEF ClaimForPush, Finish, TypeOK
  <2>2. QED
    BY <2>1, RequestMove
<1>3. QED
  BY <1>1, <1>2 DEF ClaimForPush

(* Queueing the drain a push has claimed keeps the claim invariant. *)
LEMMA PushAdd ==
  ASSUME TypeOK, ClaimInv, Undisturbed, NEW r \in Requests, AddForPush(r)
  PROVE  ClaimInv'
<1> USE DEF redisVars, jobVars, httpVars, botVars, discordVars, outsideJob, ClaimInv
<1>1. PICK k \in Jobs : /\ dpc[k] = "none" /\ dpc' = [dpc EXCEPT ![k] = "queued"]
                        /\ delay' = [delay EXCEPT ![k] = hwait[r]]
  BY DEF AddForPush
<1>2. /\ dpc'[k] = "queued" /\ delay'[k] = hwait[r] /\ hwait[r] \in Nat
      /\ \A i \in Jobs \ {k} : dpc'[i] = dpc[i] /\ delay'[i] = delay[i] /\ dpc[i] \notin Holding
      /\ dpc[k] \notin Holding
  BY <1>1 DEF AddForPush, OneHolder, TypeOK, JobsOK
<1>3. \A q \in Requests : hpc'[q] # "add"
  BY DEF AddForPush, Finish, OneHolder, TypeOK
<1>4. UNCHANGED <<claim, fails, wait, up>>
  BY DEF AddForPush
<1>5. OneHolder'
  BY <1>2, <1>3 DEF OneHolder
<1>6. ClaimOutlives'
  <2>1. claim >= hwait[r] + Slack /\ fails[k] = 0
    BY <1>1 DEF AddForPush, ClaimOutlives, Slots
  <2>2. claim' + BackoffSpent[fails'[k]] >= Slack + Pending(k)'
    <3>1. Pending(k)' = hwait[r]
      BY <1>2 DEF Pending
    <3>2. BackoffSpent[fails'[k]] = 0
      BY <2>1, <1>4, BackoffAssumption
    <3>3. claim \in Nat /\ hwait[r] \in Nat /\ Slack \in Nat
      BY ConstantsAssumption DEF TypeOK
    <3>4. QED
      BY <2>1, <3>1, <3>2, <3>3, <1>4
  <2>3. \A i \in Jobs : dpc'[i] # "add" /\ (dpc'[i] \in Owning => i = k)
    BY <1>2 DEF Holding
  <2>4. QED
    BY <1>3, <2>2, <2>3 DEF ClaimOutlives
<1>7. Slots'
  BY <1>1, <1>2, <1>4 DEF Slots
<1>8. NoFaults'
  <2>1. \A q \in Requests : hpc'[q] # "unclaim"
    BY DEF AddForPush, Finish, NoFaults, TypeOK
  <2>2. QED
    BY <1>2, <1>4, <2>1 DEF NoFaults
<1>9. QED
  BY <1>5, <1>6, <1>7, <1>8

(* The job's steps that keep the claim and spend no attempt. *)
LEMMA PlainDrainStep ==
  ASSUME TypeOK, ClaimInv, Undisturbed, NEW j \in Jobs,
         \/ StartDrain(j) \/ DropExpired(j) \/ ReadOldest(j) \/ DiscordTakes(j)
         \/ RemoveSent(j) \/ SetLock(j) \/ SetBlocked(j) \/ ClearBacklog(j)
  PROVE  ClaimInv'
<1> USE DEF redisVars, jobVars, httpVars, botVars, discordVars, outsideJob
<1>1. PICK place \in Owning : place \notin {"queued", "delay"} /\ dpc' = [dpc EXCEPT ![j] = place]
  BY DEF StartDrain, DropExpired, ReadOldest, DiscordTakes, RemoveSent, SetLock, SetBlocked,
         ClearBacklog, WaitFor, Goto, Owning
<1>2. /\ UNCHANGED <<hpc, hwait, up, fails, delay, claim>>
      /\ dpc[j] \in Owning /\ (dpc[j] = "queued" => delay[j] = 0) /\ dpc[j] # "delay"
  BY DEF StartDrain, DropExpired, ReadOldest, DiscordTakes, RemoveSent, SetLock, SetBlocked,
         ClearBacklog, Owning
<1>3. delay[j] = 0
  BY <1>2 DEF ClaimInv, Slots
<1>4. Pending(j) = 0 /\ Pending(j)' = 0
  BY <1>1, <1>2, <1>3 DEF Pending, TypeOK, JobsOK
<1>5. claim' + BackoffSpent[fails'[j]] >= Slack + Pending(j)'
  BY <1>2, <1>4 DEF ClaimInv, ClaimOutlives
<1>6. \A i \in Jobs \ {j} : fails'[i] = fails[i] /\ delay'[i] = delay[i]
  BY <1>2
<1>7. QED
  BY <1>1, <1>2, <1>3, <1>5, <1>6, OwnedMove

(* A refusal by Discord keeps the claim invariant. *)
LEMMA RefusalStep ==
  ASSUME TypeOK, ClaimInv, Undisturbed, NEW j \in Jobs, DiscordRefuses(j)
  PROVE  ClaimInv'
<1> USE DEF redisVars, jobVars, httpVars, botVars, discordVars, outsideJob
<1>1. PICK place \in Owning : place \notin {"queued", "delay"} /\ dpc' = [dpc EXCEPT ![j] = place]
  BY DEF DiscordRefuses, WaitFor, Goto, Owning
<1>2. UNCHANGED <<hpc, hwait, up, fails, delay, claim>> /\ dpc[j] = "post"
  BY DEF DiscordRefuses
<1>3. delay[j] = 0
  BY <1>2 DEF ClaimInv, Slots
<1>4. Pending(j) = 0 /\ Pending(j)' = 0
  BY <1>1, <1>2 DEF Pending, TypeOK, JobsOK
<1>5. dpc[j] \in Owning /\ claim' + BackoffSpent[fails'[j]] >= Slack + Pending(j)'
  BY <1>2, <1>4 DEF ClaimInv, ClaimOutlives, Owning
<1>6. \A i \in Jobs \ {j} : fails'[i] = fails[i] /\ delay'[i] = delay[i]
  BY <1>2
<1>7. QED
  BY <1>1, <1>2, <1>3, <1>5, <1>6, OwnedMove

(* A failed attempt: what the claim loses to the backoff is in BackoffSpent. *)
LEMMA FailureStep ==
  ASSUME TypeOK, ClaimInv, Undisturbed, NEW j \in Jobs, DiscordFails(j)
  PROVE  ClaimInv'
<1> USE DEF redisVars, jobVars, httpVars, botVars, discordVars, outsideJob
<1>1. UNCHANGED <<hpc, hwait, up, claim>> /\ dpc[j] = "post" /\ dpc[j] \in Owning /\ Throw(j)
  BY DEF DiscordFails, Owning
<1>3. /\ Slack \in Nat /\ claim \in Nat /\ fails[j] \in 0..(Attempts - 1) /\ Attempts \in Nat
      /\ BackoffSpent[fails[j]] \in Nat
  BY Numbers DEF ClaimInv
<1>4. delay[j] = 0
  BY <1>1 DEF ClaimInv, Slots
<1>5. claim + BackoffSpent[fails[j]] >= Slack
  <2>1. Pending(j) = 0
    BY <1>1 DEF Pending
  <2>2. QED
    BY <1>1, <1>3, <2>1 DEF ClaimInv, ClaimOutlives
<1>6. CASE fails[j] + 1 < Attempts
  <2>1. /\ dpc' = [dpc EXCEPT ![j] = "queued"]
        /\ fails' = [fails EXCEPT ![j] = fails[j] + 1]
        /\ delay' = [delay EXCEPT ![j] = BackoffSpent[fails[j] + 1] - BackoffSpent[fails[j]]]
    BY <1>1, <1>6 DEF Throw, Goto
  <2>2. /\ fails'[j] = fails[j] + 1
        /\ delay'[j] = BackoffSpent[fails[j] + 1] - BackoffSpent[fails[j]]
        /\ \A i \in Jobs \ {j} : fails'[i] = fails[i] /\ delay'[i] = delay[i]
        /\ Pending(j)' = BackoffSpent[fails[j] + 1] - BackoffSpent[fails[j]]
    BY <2>1 DEF TypeOK, JobsOK, Pending
  <2>3. BackoffSpent[fails[j] + 1] \in Nat
    BY <1>3, <1>6, BackoffAssumption
  <2>4. claim' + BackoffSpent[fails'[j]] >= Slack + Pending(j)'
    BY <1>1, <1>3, <1>5, <2>2, <2>3
  <2>5. "queued" \in Owning
    BY DEF Owning
  <2>6. QED
    BY <1>1, <2>1, <2>2, <2>4, <2>5, OwnedMove
<1>7. CASE ~(fails[j] + 1 < Attempts)
  <2>1. dpc' = [dpc EXCEPT ![j] = "unclaim"] /\ UNCHANGED <<fails, delay>>
    BY <1>1, <1>7 DEF Throw, Goto
  <2>2. Pending(j)' = 0
    BY <2>1 DEF TypeOK, JobsOK, Pending
  <2>3. claim' + BackoffSpent[fails'[j]] >= Slack + Pending(j)'
    BY <1>1, <1>3, <1>5, <2>1, <2>2
  <2>4. "unclaim" \in Owning /\ "unclaim" # "queued"
    BY DEF Owning
  <2>5. QED
    BY <1>1, <1>4, <2>1, <2>3, <2>4, OwnedMove
<1>8. QED
  BY <1>6, <1>7

(* delayDrain makes the claim outlive the wait, then the job waits. *)
LEMMA WaitStep ==
  ASSUME TypeOK, ClaimInv, Undisturbed, NEW j \in Jobs, ExtendClaim(j) \/ MoveToDelayed(j)
  PROVE  ClaimInv'
<1> USE DEF redisVars, jobVars, httpVars, botVars, discordVars, outsideJob
<1>1. /\ Slack \in Nat /\ claim \in Nat /\ wait[j] \in Nat /\ BackoffSpent[fails[j]] \in Nat
      /\ fails[j] \in Nat
  BY Numbers DEF ClaimInv
<1>2. /\ UNCHANGED <<hpc, hwait, up, fails>>
      /\ dpc[j] \in Owning /\ dpc[j] # "queued" /\ delay[j] = 0
      /\ \A i \in Jobs \ {j} : fails'[i] = fails[i] /\ delay'[i] = delay[i]
  BY DEF ExtendClaim, MoveToDelayed, Owning, ClaimInv, Slots, TypeOK, JobsOK
<1>4. fails'[j] = fails[j]
  BY <1>2
<1>5. CASE ExtendClaim(j)
  <2>1. claim > 0
    BY <1>2, HolderHasClaim DEF Holding
  <2>2. claim' = wait[j] + Slack /\ dpc' = [dpc EXCEPT ![j] = "delay"] /\ UNCHANGED <<wait, delay>>
    BY <1>5, <2>1 DEF ExtendClaim, ExtendDrain, Goto
  <2>3. Pending(j)' = wait[j]
    BY <2>2 DEF Pending, TypeOK, JobsOK
  <2>4. claim' + BackoffSpent[fails'[j]] >= Slack + Pending(j)'
    BY <1>1, <1>4, <2>2, <2>3
  <2>5. "delay" \in Owning
    BY DEF Owning
  <2>6. QED
    BY <1>2, <1>4, <2>2, <2>4, <2>5, OwnedMove
<1>6. CASE MoveToDelayed(j)
  <2>1. /\ dpc[j] = "delay" /\ claim' = claim
        /\ dpc' = [dpc EXCEPT ![j] = "queued"] /\ delay' = [delay EXCEPT ![j] = wait[j]]
    BY <1>6 DEF MoveToDelayed, Goto
  <2>2. Pending(j)' = wait[j] /\ Pending(j) = wait[j]
    BY <2>1 DEF Pending, TypeOK, JobsOK
  <2>3. claim' + BackoffSpent[fails'[j]] >= Slack + Pending(j)'
    BY <1>2, <1>4, <2>1, <2>2 DEF ClaimInv, ClaimOutlives
  <2>4. "queued" \in Owning
    BY DEF Owning
  <2>5. QED
    BY <1>2, <1>4, <2>1, <2>3, <2>4, OwnedMove
<1>7. QED
  BY <1>5, <1>6

(* A job that gives its claim back, or is past that, keeps the invariant. *)
LEMMA ClosingStep ==
  ASSUME TypeOK, ClaimInv, Undisturbed, NEW j \in Jobs,
         \/ FinishDrain(j) \/ CompleteDrain(j) \/ Unclaim(j)
         \/ ClaimNext(j) /\ ~ClaimDrain(0)
  PROVE  ClaimInv'
<1> USE DEF redisVars, jobVars, httpVars, botVars, discordVars, outsideJob
<1>1. dpc[j] # "unadd"
  BY DEF ClaimInv, NoFaults
<1>2. /\ UNCHANGED <<hpc, hwait, up, delay>>
      /\ dpc[j] \in Holding \cup {"claim", "done"} /\ dpc[j] # "queued"
      /\ \A i \in Jobs : wait'[i] = wait[i] \/ i = j
      /\ claim' = claim \/ dpc[j] \in Holding
  BY <1>1 DEF FinishDrain, CompleteDrain, Unclaim, ClaimNext, Vanish, Holding, Owning, TypeOK, JobsOK
<1>3. PICK place \in {"none", "claim", "done"} :
        /\ dpc' = [dpc EXCEPT ![j] = place]
        /\ fails' = IF place = "none" THEN [fails EXCEPT ![j] = 0] ELSE fails
  BY <1>1 DEF FinishDrain, CompleteDrain, Unclaim, ClaimNext, Vanish, Goto
<1>4. QED
  BY <1>2, <1>3, LooseMove

(* A finished drain that starts the next one keeps the claim invariant. *)
LEMMA NextDrainStep ==
  ASSUME TypeOK, ClaimInv, Undisturbed, NEW j \in Jobs,
         AddNext(j) \/ (ClaimNext(j) /\ ClaimDrain(0))
  PROVE  ClaimInv'
<1> USE DEF redisVars, jobVars, httpVars, botVars, discordVars, outsideJob, ClaimInv
<1>1. CASE ClaimNext(j) /\ ClaimDrain(0)
  <2>1. claim = 0 /\ claim' = Slack
    BY <1>1, ConstantsAssumption DEF ClaimDrain
  <2>2. /\ dpc[j] = "claim" /\ dpc' = [dpc EXCEPT ![j] = "add"]
        /\ UNCHANGED <<delay, fails, wait, hpc, hwait, up>>
    BY <1>1, <2>1 DEF ClaimNext, Goto
  <2>3. /\ dpc'[j] = "add" /\ (\A i \in Jobs \ {j} : dpc'[i] = dpc[i] /\ dpc[i] \notin Holding)
        /\ \A r \in Requests : hpc[r] # "add"
    BY <2>1, <2>2, NobodyHolds DEF TypeOK, JobsOK
  <2>4. OneHolder'
    BY <2>2, <2>3 DEF OneHolder
  <2>5. ClaimOutlives'
    BY <2>1, <2>2, <2>3, ConstantsAssumption DEF ClaimOutlives, Holding, Owning
  <2>6. Slots' /\ NoFaults'
    BY <2>2, <2>3 DEF Slots, NoFaults
  <2>7. QED
    BY <2>4, <2>5, <2>6
<1>2. CASE AddNext(j)
  <2>1. PICK k \in Jobs : dpc[k] = "none" /\ dpc' = [dpc EXCEPT ![j] = "done", ![k] = "queued"]
    BY <1>2 DEF AddNext
  <2>2. dpc[j] = "add" /\ UNCHANGED <<delay, fails, wait, claim, hpc, hwait, up>>
    BY <1>2 DEF AddNext
  <2>3. /\ dpc'[j] = "done" /\ dpc'[k] = "queued" /\ j # k
        /\ \A i \in Jobs \ {j, k} : dpc'[i] = dpc[i] /\ dpc[i] \notin Holding
        /\ \A r \in Requests : hpc[r] # "add"
    BY <2>1, <2>2 DEF TypeOK, JobsOK, OneHolder, Holding
  <2>4. "done" \notin Holding /\ "queued" \in Owning
    BY DEF Holding, Owning
  <2>5. OneHolder'
    BY <2>2, <2>3, <2>4 DEF OneHolder
  <2>6. ClaimOutlives'
    <3>1. claim >= Slack /\ fails[k] = 0 /\ delay[k] = 0
      BY <2>1, <2>2 DEF ClaimOutlives, Slots
    <3>2. Pending(k)' = 0 /\ BackoffSpent[fails'[k]] = 0
      BY <2>2, <2>3, <3>1, BackoffAssumption DEF Pending
    <3>3. claim \in Nat /\ Slack \in Nat
      BY ConstantsAssumption DEF TypeOK
    <3>4. claim' + BackoffSpent[fails'[k]] >= Slack + Pending(k)'
      BY <2>2, <3>1, <3>2, <3>3
    <3>5. \A i \in Jobs : dpc'[i] # "add" /\ (dpc'[i] \in Owning => i = k)
      BY <2>3, <2>4 DEF Holding
    <3>6. QED
      BY <2>2, <2>3, <3>4, <3>5 DEF ClaimOutlives
  <2>7. Slots' /\ NoFaults'
    BY <2>1, <2>2, <2>3 DEF Slots, NoFaults
  <2>8. QED
    BY <2>5, <2>6, <2>7
<1>3. QED
  BY <1>1, <1>2

(* A tick: nobody is between claiming and queueing, and the claim outlives *)
(* whatever its job waits for.                                             *)
LEMMA TickStep ==
  ASSUME TypeOK, ClaimInv, Undisturbed, Tick
  PROVE  ClaimInv'
<1> USE DEF redisVars, jobVars, httpVars, botVars, discordVars, outsideJob, ClaimInv
<1>1. /\ \A r \in Requests : hpc[r] = "none"
      /\ \A j \in Jobs : dpc[j] = "none" \/ (dpc[j] = "queued" /\ delay[j] > 0)
  BY DEF Tick, NoFaults, Quiet
<1>2. /\ UNCHANGED <<hpc, hwait, dpc, fails, wait, up>>
      /\ claim' = Before(claim) /\ \A j \in Jobs : delay'[j] = Before(delay[j])
  BY DEF Tick
<1>3. OneHolder' /\ NoFaults'
  BY <1>2 DEF OneHolder, NoFaults
<1>4. Slots'
  BY <1>2 DEF Slots, Before
<1>5. ClaimOutlives'
  <2>1. ASSUME NEW j \in Jobs, dpc[j] \in Owning
        PROVE  claim' + BackoffSpent[fails'[j]] >= Slack + Pending(j)'
    <3>1. dpc[j] = "queued" /\ delay[j] > 0
      BY <1>1, <2>1 DEF Owning
    <3>2. Pending(j) = delay[j] /\ Pending(j)' = delay[j] - 1
      BY <1>2, <3>1 DEF Pending, Before
    <3>3. /\ Slack \in Nat /\ claim \in Nat /\ delay[j] \in Nat
          /\ BackoffSpent[fails[j]] \in Nat /\ BackoffSpent[fails[j]] < Slack
      BY Numbers
    <3>4. claim + BackoffSpent[fails[j]] >= Slack + delay[j]
      BY <2>1, <3>2 DEF ClaimOutlives
    <3>5. claim > 0 /\ claim' = claim - 1
      BY <1>2, <3>3, <3>4 DEF Before
    <3>6. QED
      BY <1>2, <3>1, <3>2, <3>3, <3>4, <3>5
  <2>2. \A j \in Jobs : dpc[j] # "add"
    BY <1>1
  <2>3. QED
    BY <1>1, <1>2, <2>1, <2>2 DEF ClaimOutlives
<1>6. QED
  BY <1>3, <1>4, <1>5

(* Every step keeps the claim invariant. *)
LEMMA ClaimStep ==
  ASSUME TypeOK, ClaimInv, Undisturbed, Undisturbed', [Next]_vars
  PROVE  ClaimInv'
<1> USE DEF redisVars, jobVars, httpVars, botVars, discordVars, outsideJob
<1>1. ASSUME NEW j \in Jobs, DrainStep(j) PROVE ClaimInv'
  BY <1>1, PlainDrainStep, WaitStep, ClosingStep, NextDrainStep DEF DrainStep
<1>2. ASSUME NEW j \in Jobs, DiscordRefuses(j) \/ DiscordFails(j) PROVE ClaimInv'
  BY <1>2, RefusalStep, FailureStep
<1>3. ASSUME NEW k \in {"faults", "crashes"}, NEW b PROVE ~Spend(k, b)
  BY DEF Spend, TypeOK, Undisturbed
<1>4. ASSUME NEW j \in Jobs, DrainFault(j) PROVE ClaimInv'
  BY <1>3, <1>4 DEF DrainFault
<1>5. ASSUME NEW r \in Requests, PushFault(r) PROVE ClaimInv'
  BY <1>3, <1>5 DEF PushFault
<1>6. CASE Crash
  BY <1>3, <1>6 DEF Crash
<1>7. CASE Restart
  BY <1>7 DEF Restart, ClaimInv, NoFaults
<1>8. ASSUME NEW r \in Requests, RequestStep(r) PROVE ClaimInv'
  <2>1. CASE HoldMessage(r)
    <3>1. /\ hpc[r] = "hold" /\ \A q \in Requests \ {r} : hwait'[q] = hwait[q]
          /\ UNCHANGED <<jobVars, claim, up>>
      BY <2>1 DEF HoldMessage, Finish, TypeOK
    <3>2. \E place \in {"none", "claim"} : hpc' = [hpc EXCEPT ![r] = place]
      BY <2>1 DEF HoldMessage, Finish
    <3>3. QED
      BY <3>1, <3>2, RequestMove
  <2>2. CASE UnclaimForPush(r)
    BY <2>2 DEF UnclaimForPush, ClaimInv, NoFaults
  <2>3. QED
    BY <1>8, <2>1, <2>2, PushClaim, PushAdd DEF RequestStep
<1>9. ASSUME NEW m \in Messages, PushMessage(m) PROVE ClaimInv'
  <2> DEFINE r == <<m, tries[m] + 1>>
  <2>1. UNCHANGED <<jobVars, claim, up>>
    BY <1>9 DEF PushMessage
  <2>2. CASE UNCHANGED httpVars
    BY <2>1, <2>2, ClaimStutter
  <2>3. CASE ~UNCHANGED httpVars
    <3>1. /\ hpc' = [hpc EXCEPT ![r] = "hold"]
          /\ \E w : hwait' = [hwait EXCEPT ![r] = w]
      BY <1>9, <2>3 DEF PushMessage
    <3>2. \A q \in Requests \ {r} : hpc'[q] = hpc[q] /\ hwait'[q] = hwait[q]
      BY <3>1 DEF TypeOK
    <3>3. \A q \in Requests : hpc'[q] = hpc[q] \/ hpc'[q] = "hold"
      BY <3>1 DEF TypeOK
    <3>4. OneHolder' /\ ClaimOutlives'
      BY <2>1, <3>1, <3>2, <3>3 DEF ClaimInv, OneHolder, ClaimOutlives, Pending, TypeOK
    <3>5. Slots' /\ NoFaults'
      BY <2>1, <3>3 DEF ClaimInv, Slots, NoFaults
    <3>6. QED
      BY <3>4, <3>5 DEF ClaimInv
  <2>4. QED
    BY <2>2, <2>3
<1>10. ASSUME NEW m \in Messages, PushTimesOut(m) \/ DeleteMessage(m) \/ CancelMessage(m) PROVE ClaimInv'
  BY <1>10, ClaimStutter DEF PushTimesOut, DeleteMessage, CancelMessage
<1>11. CASE (\E p \in {0, Preview} : PostMessage(p)) \/ BackendClear \/ Unblock \/ Shed \/ Unshed
            \/ UNCHANGED vars
  BY <1>11, ClaimStutter DEF PostMessage, BackendClear, Unblock, Shed, Unshed, vars
<1>12. CASE Tick
  BY <1>12, TickStep
<1>13. QED
  BY <1>1, <1>2, <1>4, <1>5, <1>6, <1>7, <1>8, <1>9, <1>10, <1>11, <1>12 DEF Next

(* As long as it stays undisturbed the claim invariant holds.              *)
LEMMA ClaimAlways == Spec /\ []Undisturbed => []ClaimInv
<1>1. Init => ClaimInv
  <2> SUFFICES ASSUME Init PROVE ClaimInv
    OBVIOUS
  <2>1. OneHolder /\ ClaimOutlives
    BY DEF Init, OneHolder, ClaimOutlives, Holding, Owning
  <2>2. Slots /\ NoFaults
    BY DEF Init, Slots, NoFaults
  <2>3. QED
    BY <2>1, <2>2 DEF ClaimInv
<1>2. TypeOK /\ ClaimInv /\ Undisturbed /\ Undisturbed' /\ [Next]_vars => ClaimInv'
  BY ClaimStep
<1>3. QED
  BY <1>1, <1>2, TypeCorrect, PTL DEF Spec

(* The channel has one sender, whatever pushes, refusals, waits, retries   *)
(* and backend clears interleave, until something crashes, Redis fails or  *)
(* a drain has failed until its backoffs reach the slack.  (Spec lets any  *)
(* behaviour stop, so this is about every undisturbed prefix.)             *)
THEOREM DrainsOneAtATime == Spec /\ []Undisturbed => []OneSender
<1>1. ClaimInv => OneSender
  BY DEF ClaimInv, OneHolder, OneSender, Sending, Holding, Owning
<1>2. QED
  BY <1>1, ClaimAlways, PTL

(***************************************************************************)
(* No stranded message.  A claim on the key always has somebody behind it, *)
(* so a handler that finds the key taken may leave the backlog to them.    *)
(***************************************************************************)
Attended ==
  claim > 0 => \/ \E j \in Jobs : dpc[j] \in Holding
               \/ \E r \in Requests : hpc[r] = "add"

(* A drain about to give up for good has already said so. *)
GivesUpOpenly == \A j \in Jobs : dpc[j] = "unclaim" => gaveUp = TRUE

CoverInv == Attended /\ GivesUpOpenly /\ NoStranded

(* A request under way has been made: the next one has a place of its own. *)
RequestsMade == \A m \in Messages, n \in 1..MaxPushes : n > tries[m] => hpc[<<m, n>>] = "none"

(* Every step keeps it that a request under way was made by a push. *)
LEMMA MadeStep ==
  ASSUME TypeOK, RequestsMade, [Next]_vars
  PROVE  RequestsMade'
<1> USE DEF redisVars, jobVars, httpVars, botVars, discordVars, outsideJob
<1>1. CASE UNCHANGED <<hpc, tries>>
  BY <1>1 DEF RequestsMade
<1>2. ASSUME NEW r \in Requests, RequestStep(r) \/ PushFault(r) PROVE RequestsMade'
  <2>1. UNCHANGED tries /\ hpc[r] # "none" /\ \A q \in Requests \ {r} : hpc'[q] = hpc[q]
    BY <1>2 DEF RequestStep, HoldMessage, ClaimForPush, AddForPush, UnclaimForPush, PushFault,
                Finish, TypeOK
  <2>2. QED
    BY <2>1 DEF RequestsMade, Requests
<1>3. ASSUME NEW m \in Messages, PushMessage(m) PROVE RequestsMade'
  <2>1. /\ tries' = [tries EXCEPT ![m] = tries[m] + 1] /\ tries[m] \in Nat
        /\ hpc' = hpc \/ hpc' = [hpc EXCEPT ![<<m, tries[m] + 1>>] = "hold"]
    BY <1>3 DEF PushMessage, TypeOK
  <2>2. ASSUME NEW k \in Messages, NEW n \in 1..MaxPushes, n > tries'[k] PROVE hpc'[<<k, n>>] = "none"
    <3>1. n > tries[k] /\ <<k, n>> # <<m, tries[m] + 1>> /\ tries[k] \in Nat
      BY <2>1, <2>2 DEF TypeOK
    <3>2. hpc'[<<k, n>>] = hpc[<<k, n>>]
      BY <2>1, <3>1 DEF TypeOK, Requests
    <3>3. QED
      BY <3>1, <3>2 DEF RequestsMade
  <2>3. QED
    BY <2>2 DEF RequestsMade
<1>4. CASE Crash
  BY <1>4 DEF Crash, RequestsMade, Requests
<1>5. ASSUME NEW m \in Messages, PushTimesOut(m) \/ DeleteMessage(m) \/ CancelMessage(m)
      PROVE  RequestsMade'
  BY <1>5, <1>1 DEF PushTimesOut, DeleteMessage, CancelMessage
<1>6. ASSUME NEW j \in Jobs, DrainStep(j) \/ DiscordRefuses(j) \/ DiscordFails(j) \/ DrainFault(j)
      PROVE  RequestsMade'
  <2>1. UNCHANGED <<hpc, tries>>
    BY <1>6 DEF DrainStep, StartDrain, DropExpired, ReadOldest, DiscordTakes, RemoveSent, SetLock,
                SetBlocked, ClearBacklog, ExtendClaim, MoveToDelayed, FinishDrain, ClaimNext,
                AddNext, CompleteDrain, Unclaim, DiscordRefuses, DiscordFails, DrainFault
  <2>2. QED
    BY <1>1, <2>1
<1>7. CASE \/ \E p \in {0, Preview} : PostMessage(p)
           \/ BackendClear \/ Unblock \/ Shed \/ Unshed \/ Restart \/ Tick \/ UNCHANGED vars
  BY <1>1, <1>7 DEF PostMessage, BackendClear, Unblock, Shed, Unshed, Restart, Tick, vars
<1>8. QED
  BY <1>2, <1>3, <1>4, <1>5, <1>6, <1>7 DEF Next

(* A step after which a job drains or is about to keeps the backlog covered. *)
LEMMA CoveringJob ==
  ASSUME TypeOK, CoverInv, NEW j \in Jobs, dpc'[j] \in Holding \ {"unclaim"},
         \/ gaveUp' = gaveUp /\ \A i \in Jobs : dpc'[i] = "unclaim" => dpc[i] = "unclaim"
         \/ \A i \in Jobs : dpc'[i] # "unclaim"
  PROVE  CoverInv'
<1>1. Attended'
  BY DEF Attended
<1>2. GivesUpOpenly'
  BY DEF CoverInv, GivesUpOpenly
<1>3. Covered'
  BY DEF Covered, Holding, Owning
<1>4. QED
  BY <1>1, <1>2, <1>3 DEF CoverInv, NoStranded

(* So does a step of somebody who neither drains nor claims. *)
LEMMA CoverSame ==
  ASSUME TypeOK, CoverInv,
         UNCHANGED <<dpc, gaveUp>>, claim' > 0 => claim > 0,
         \A r \in Requests : hpc[r] \in {"claim", "add"} => hpc'[r] = hpc[r],
         backlog' = {} \/ backlog # {}
  PROVE  CoverInv'
<1>1. Attended'
  BY DEF CoverInv, Attended
<1>2. GivesUpOpenly'
  BY DEF CoverInv, GivesUpOpenly
<1>3. Covered => Covered'
  BY DEF Covered
<1>4. QED
  BY <1>1, <1>2, <1>3 DEF CoverInv, NoStranded

(* Every step of an enqueue request keeps the backlog covered. *)
LEMMA CoverOfRequest ==
  ASSUME TypeOK, ClaimInv, CoverInv, Undisturbed, NEW r \in Requests, RequestStep(r)
  PROVE  CoverInv'
<1> USE DEF redisVars, jobVars, httpVars, botVars, discordVars, outsideJob
<1>1. CASE HoldMessage(r)
  <2>1. /\ UNCHANGED <<dpc, gaveUp, claim>> /\ hpc[r] = "hold"
        /\ \A q \in Requests \ {r} : hpc'[q] = hpc[q]
    BY <1>1 DEF HoldMessage, Finish, TypeOK
  <2>2. CASE backlog' = {} \/ backlog # {}
    BY <2>1, <2>2, CoverSame
  <2>3. CASE backlog = {} /\ backlog' # {}
    <3>1. hpc'[r] = "claim"
      BY <1>1, <2>3 DEF HoldMessage, TypeOK
    <3>2. Attended'
      BY <2>1 DEF CoverInv, Attended
    <3>3. GivesUpOpenly' /\ Covered'
      BY <2>1, <3>1 DEF CoverInv, GivesUpOpenly, Covered
    <3>4. QED
      BY <3>2, <3>3 DEF CoverInv, NoStranded
  <2>4. QED
    BY <2>2, <2>3
<1>2. CASE ClaimForPush(r)
  <2>1. CASE ClaimDrain(hwait[r]) /\ hpc' = [hpc EXCEPT ![r] = "add"]
    <3>1. UNCHANGED dpc /\ claim = 0 /\ hpc'[r] = "add"
      BY <1>2, <2>1 DEF ClaimForPush, ClaimDrain, TypeOK
    <3>2. \A i \in Jobs : dpc'[i] # "unclaim"
      BY <3>1, NobodyHolds DEF Holding, Owning
    <3>3. Attended' /\ GivesUpOpenly' /\ Covered'
      BY <3>1, <3>2 DEF Attended, GivesUpOpenly, Covered
    <3>4. QED
      BY <3>3 DEF CoverInv, NoStranded
  <2>2. CASE claim > 0 /\ Finish(r, "accepted") /\ UNCHANGED <<claim, gaveUp>>
    <3>1. /\ UNCHANGED <<dpc, gaveUp, claim, backlog>> /\ hpc[r] = "claim"
          /\ \A q \in Requests \ {r} : hpc'[q] = hpc[q]
      BY <1>2, <2>2 DEF ClaimForPush, Finish, TypeOK
    <3>2. Attended' /\ GivesUpOpenly'
      BY <3>1 DEF CoverInv, Attended, GivesUpOpenly
    <3>3. ~gaveUp => Covered'
      BY <2>2, <3>1 DEF CoverInv, Attended, GivesUpOpenly, Covered, Holding, Owning
    <3>4. QED
      BY <3>1, <3>2, <3>3 DEF CoverInv, NoStranded
  <2>3. QED
    BY <1>2, <2>1, <2>2 DEF ClaimForPush
<1>3. CASE AddForPush(r)
  <2>1. PICK k \in Jobs : dpc' = [dpc EXCEPT ![k] = "queued"]
    BY <1>3 DEF AddForPush
  <2>2. dpc'[k] \in Holding \ {"unclaim"} /\ gaveUp' = gaveUp
        /\ \A i \in Jobs : dpc'[i] = "unclaim" => dpc[i] = "unclaim"
    BY <1>3, <2>1 DEF AddForPush, Holding, Owning, TypeOK, JobsOK
  <2>3. QED
    BY <2>2, CoveringJob
<1>4. CASE UnclaimForPush(r)
  BY <1>4 DEF UnclaimForPush, ClaimInv, NoFaults
<1>5. QED
  BY <1>1, <1>2, <1>3, <1>4 DEF RequestStep

(* Every step of a drain job keeps the backlog covered. *)
LEMMA CoverOfJob ==
  ASSUME TypeOK, ClaimInv, CoverInv, Undisturbed, NEW j \in Jobs,
         DrainStep(j) \/ DiscordRefuses(j) \/ DiscordFails(j)
  PROVE  CoverInv'
<1> USE DEF redisVars, jobVars, httpVars, botVars, discordVars, outsideJob
<1>1. CASE \/ StartDrain(j) \/ DropExpired(j) \/ ReadOldest(j) \/ DiscordTakes(j)
           \/ RemoveSent(j) \/ SetLock(j) \/ SetBlocked(j) \/ ClearBacklog(j)
           \/ ExtendClaim(j) \/ MoveToDelayed(j) \/ DiscordRefuses(j)
  <2>1. PICK place \in Holding \ {"unclaim"} : dpc' = [dpc EXCEPT ![j] = place]
    BY <1>1 DEF StartDrain, DropExpired, ReadOldest, DiscordTakes, RemoveSent, SetLock,
                SetBlocked, ClearBacklog, ExtendClaim, MoveToDelayed, DiscordRefuses,
                WaitFor, Goto, Holding, Owning
  <2>2. gaveUp' = gaveUp
    BY <1>1 DEF StartDrain, DropExpired, ReadOldest, DiscordTakes, RemoveSent, SetLock,
                SetBlocked, ClearBacklog, ExtendClaim, MoveToDelayed, DiscordRefuses
  <2>3. /\ dpc'[j] \in Holding \ {"unclaim"}
        /\ \A i \in Jobs : dpc'[i] = "unclaim" => dpc[i] = "unclaim"
    BY <2>1 DEF TypeOK, JobsOK
  <2>4. QED
    BY <2>2, <2>3, CoveringJob
<1>2. CASE DiscordFails(j)
  <2>1. Throw(j) /\ UNCHANGED hpc
    BY <1>2 DEF DiscordFails
  <2>2. CASE fails[j] + 1 < Attempts
    <3>1. dpc' = [dpc EXCEPT ![j] = "queued"] /\ gaveUp' = gaveUp
      BY <2>1, <2>2 DEF Throw, Goto
    <3>2. /\ dpc'[j] \in Holding \ {"unclaim"}
          /\ \A i \in Jobs : dpc'[i] = "unclaim" => dpc[i] = "unclaim"
      BY <3>1 DEF TypeOK, JobsOK, Holding, Owning
    <3>3. QED
      BY <3>1, <3>2, CoveringJob
  <2>3. CASE ~(fails[j] + 1 < Attempts)
    <3>1. dpc' = [dpc EXCEPT ![j] = "unclaim"] /\ gaveUp' = TRUE
      BY <2>1, <2>3 DEF Throw, Goto
    <3>2. dpc'[j] \in Holding
      BY <3>1 DEF TypeOK, JobsOK, Holding, Owning
    <3>3. Attended' /\ GivesUpOpenly' /\ NoStranded'
      BY <3>1, <3>2 DEF Attended, GivesUpOpenly, NoStranded
    <3>4. QED
      BY <3>3 DEF CoverInv
  <2>4. QED
    BY <2>2, <2>3
<1>3. CASE FinishDrain(j)
  <2>1. /\ claim' = 0 /\ UNCHANGED <<backlog, gaveUp, hpc>>
        /\ dpc' = [dpc EXCEPT ![j] = IF backlog = {} THEN "done" ELSE "claim"]
    BY <1>3 DEF FinishDrain, Goto
  <2>2. Attended'
    BY <2>1 DEF Attended
  <2>3. GivesUpOpenly'
    BY <2>1 DEF CoverInv, GivesUpOpenly, TypeOK, JobsOK
  <2>4. NoStranded'
    BY <2>1 DEF NoStranded, Covered, TypeOK, JobsOK
  <2>5. QED
    BY <2>2, <2>3, <2>4 DEF CoverInv
<1>4. CASE ClaimNext(j) /\ ClaimDrain(0)
  <2>1. claim = 0 /\ dpc' = [dpc EXCEPT ![j] = "add"]
    BY <1>4 DEF ClaimNext, ClaimDrain, Goto
  <2>2. dpc'[j] \in Holding \ {"unclaim"} /\ \A i \in Jobs : dpc'[i] # "unclaim"
    BY <2>1, NobodyHolds DEF TypeOK, JobsOK, Holding, Owning
  <2>3. QED
    BY <2>2, CoveringJob
<1>5. CASE ClaimNext(j) /\ claim > 0
  <2>1. /\ dpc[j] = "claim" /\ dpc' = [dpc EXCEPT ![j] = "done"]
        /\ UNCHANGED <<claim, gaveUp, hpc, backlog>>
    BY <1>5 DEF ClaimNext, ClaimDrain, Goto
  <2>2. \A i \in Jobs \ {j} : dpc'[i] = dpc[i]
    BY <2>1 DEF TypeOK, JobsOK
  <2>3. "claim" \notin Holding
    BY DEF Holding, Owning
  <2>4. Attended'
    BY <2>1, <2>2, <2>3 DEF CoverInv, Attended
  <2>5. GivesUpOpenly'
    BY <2>1 DEF CoverInv, GivesUpOpenly, TypeOK, JobsOK
  <2>6. ~gaveUp => Covered'
    BY <1>5, <2>1, <2>2, <2>3 DEF CoverInv, Attended, GivesUpOpenly, Covered, Holding, Owning
  <2>7. QED
    BY <2>1, <2>4, <2>5, <2>6 DEF CoverInv, NoStranded
<1>6. CASE AddNext(j)
  <2>1. PICK k \in Jobs : dpc[k] = "none" /\ dpc' = [dpc EXCEPT ![j] = "done", ![k] = "queued"]
    BY <1>6 DEF AddNext
  <2>2. gaveUp' = gaveUp /\ dpc[j] = "add"
    BY <1>6 DEF AddNext
  <2>3. /\ dpc'[k] \in Holding \ {"unclaim"}
        /\ \A i \in Jobs : dpc'[i] = "unclaim" => dpc[i] = "unclaim"
    BY <2>1, <2>2 DEF TypeOK, JobsOK, Holding, Owning
  <2>4. QED
    BY <2>2, <2>3, CoveringJob
<1>7. CASE CompleteDrain(j) \/ Unclaim(j)
  <2>1. /\ dpc[j] \in {"done", "unclaim"} /\ dpc' = [dpc EXCEPT ![j] = "none"]
        /\ UNCHANGED <<gaveUp, hpc, backlog>>
        /\ claim' = 0 \/ (claim' = claim /\ dpc[j] = "done")
    BY <1>7 DEF CompleteDrain, Unclaim, Vanish, Goto, ClaimInv, NoFaults
  <2>2. dpc'[j] = "none" /\ \A i \in Jobs \ {j} : dpc'[i] = dpc[i]
    BY <2>1 DEF TypeOK, JobsOK
  <2>3. "done" \notin Holding
    BY DEF Holding, Owning
  <2>4. Attended'
    BY <2>1, <2>2, <2>3 DEF CoverInv, Attended
  <2>5. GivesUpOpenly'
    BY <2>1, <2>2 DEF CoverInv, GivesUpOpenly
  <2>6. Covered => Covered'
    BY <2>1, <2>2 DEF Covered
  <2>7. QED
    BY <2>1, <2>4, <2>5, <2>6 DEF CoverInv, NoStranded
<1>8. QED
  BY <1>1, <1>2, <1>3, <1>4, <1>5, <1>6, <1>7 DEF DrainStep, ClaimNext

(* Every step keeps the backlog covered. *)
LEMMA CoverStep ==
  ASSUME TypeOK, ClaimInv, RequestsMade, CoverInv, Undisturbed, Undisturbed', [Next]_vars
  PROVE  CoverInv'
<1> USE DEF redisVars, jobVars, httpVars, botVars, discordVars, outsideJob
<1>1. ASSUME NEW k \in {"faults", "crashes"}, NEW b PROVE ~Spend(k, b)
  BY DEF Spend, TypeOK, Undisturbed
<1>2. ASSUME NEW j \in Jobs, DrainFault(j) PROVE CoverInv'
  BY <1>1, <1>2 DEF DrainFault
<1>3. ASSUME NEW r \in Requests, PushFault(r) PROVE CoverInv'
  BY <1>1, <1>3 DEF PushFault
<1>4. CASE Crash
  BY <1>1, <1>4 DEF Crash
<1>5. ASSUME NEW m \in Messages,
             PushMessage(m) \/ PushTimesOut(m) \/ DeleteMessage(m) \/ CancelMessage(m)
      PROVE  CoverInv'
  <2>1. UNCHANGED <<dpc, gaveUp, claim>> /\ (backlog' = {} \/ backlog # {})
    BY <1>5 DEF PushMessage, PushTimesOut, DeleteMessage, CancelMessage, Keep
  <2>2. \A r \in Requests : hpc[r] \in {"claim", "add"} => hpc'[r] = hpc[r]
    <3>1. CASE UNCHANGED hpc
      BY <3>1
    <3>2. CASE PushMessage(m)
      <4>1. CASE hpc' = [hpc EXCEPT ![<<m, tries[m] + 1>>] = "hold"]
        <5>1. tries[m] + 1 \in 1..MaxPushes /\ tries[m] + 1 > tries[m]
          <6>1. tries[m] \in Nat
            BY DEF TypeOK
          <6>2. tries[m] < MaxPushes
            BY <3>2 DEF PushMessage, MayPush
          <6>3. QED
            BY <6>1, <6>2, ConstantsAssumption
        <5>2. hpc[<<m, tries[m] + 1>>] = "none"
          BY <5>1 DEF RequestsMade
        <5>3. QED
          BY <4>1, <5>2 DEF TypeOK
      <4>2. QED
        BY <3>1, <3>2, <4>1 DEF PushMessage
    <3>3. QED
      BY <1>5, <3>1, <3>2 DEF PushTimesOut, DeleteMessage, CancelMessage
  <2>3. QED
    BY <2>1, <2>2, CoverSame
<1>6. CASE \/ \E p \in {0, Preview} : PostMessage(p)
           \/ BackendClear \/ Unblock \/ Shed \/ Unshed \/ Restart \/ UNCHANGED vars
  <2>1. UNCHANGED <<dpc, gaveUp, claim, hpc>> /\ (backlog' = {} \/ backlog # {})
    BY <1>6 DEF PostMessage, BackendClear, Unblock, Shed, Unshed, Restart, vars, Keep
  <2>2. QED
    BY <2>1, CoverSame
<1>7. CASE Tick
  <2>1. UNCHANGED <<dpc, gaveUp, hpc>> /\ (backlog' = {} \/ backlog # {})
    BY <1>7 DEF Tick, Keep
  <2>2. claim' > 0 => claim > 0
    BY <1>7 DEF Tick, Before, TypeOK
  <2>3. QED
    BY <2>1, <2>2, CoverSame
<1>8. QED
  BY <1>2, <1>3, <1>4, <1>5, <1>6, <1>7, CoverOfRequest, CoverOfJob DEF Next

(* A held message always has a drain that will read it, except after a     *)
(* drain failed for good: the handlers that claim, extend and give back    *)
(* the claim leave no gap between them, as long as it stays undisturbed.   *)
THEOREM NeverStranded == Spec /\ []Undisturbed => []NoStranded
<1>1. Init => RequestsMade /\ CoverInv
  BY DEF Init, RequestsMade, Requests, CoverInv, Attended, GivesUpOpenly, NoStranded
<1>2. TypeOK /\ ClaimInv /\ Undisturbed /\ Undisturbed' /\ RequestsMade /\ CoverInv /\ [Next]_vars
        => RequestsMade' /\ CoverInv'
  BY MadeStep, CoverStep
<1>3. CoverInv => NoStranded
  BY DEF CoverInv
<1>4. QED
  BY <1>1, <1>2, <1>3, ClaimAlways, TypeCorrect, PTL DEF Spec
=============================================================================
