--------------------------- MODULE RolloverDrain ---------------------------
(***************************************************************************)
(* The rollover path of one announcement channel: the bot pushes messages  *)
(* to the proxy, the proxy holds them in the channel's backlog (a Redis    *)
(* sorted set) and one drain job publishes them oldest first, waiting out  *)
(* Discord's sublimit locks (apps/proxy/src/crosspost/queue.ts and         *)
(* rollover.ts, apps/bot/src/services/crosspost.ts).  Every key, job and   *)
(* request of the path belongs to one channel, so one channel is enough;   *)
(* what other channels do reaches it only as a refused gate.               *)
(*                                                                         *)
(* Each await of a handler ends one of its actions: other handlers, other  *)
(* jobs and the environment step in between.  Time is a tick; every        *)
(* deadline of the code is a countdown that Tick takes down by one.  The   *)
(* handlers are fast beside a tick (Quiet), except when the proxy is down. *)
(***************************************************************************)
EXTENDS Naturals, FiniteSets

CONSTANTS
  NumMessages,   (* messages of the channel, numbered in post order          *)
  Jobs,          (* slots for the BullMQ drain jobs of the channel           *)
  MaxPushes,     (* MAX_PUSH_ATTEMPTS                                        *)
  Batch,         (* DRAIN_BATCH                                              *)
  Attempts,      (* the queue's attempts                                     *)
  BackoffSpent,  (* [n]: what the first n retry backoffs add up to           *)
  Slack,         (* DRAIN_CLAIM_SLACK_MS                                     *)
  MaxAge,        (* ROLLOVER_MAX_AGE_MS                                      *)
  Ageing,        (* FALSE: the instance looks at less than a MaxAge          *)
  Preview,       (* PREVIEW_WAIT_MS                                          *)
  RetryAfters,   (* what Discord may answer as retry_after                   *)
  ShedWait,      (* INVALID_REQUESTS_DELAY_MS                                *)
  MaxMishaps,    (* bound: refusals, sheds, deletions and timed-out pushes    *)
  MaxFaults,     (* bound: failing Redis commands                            *)
  MaxCrashes,    (* bound: crashes of the proxy                              *)
  MaxStalled     (* bound: jobs that a crash leaves to run again             *)

Messages == 1..NumMessages
Requests == Messages \X (1..MaxPushes)   \* the n-th push of a message

ASSUME ConstantsAssumption ==
  /\ NumMessages \in Nat /\ MaxPushes \in Nat /\ Batch \in Nat \ {0}
  /\ Attempts \in Nat \ {0} /\ Slack \in Nat \ {0} /\ MaxAge \in Nat
  /\ Preview \in Nat /\ RetryAfters \subseteq Nat \ {0} /\ ShedWait \in Nat
  /\ Ageing \in BOOLEAN
  /\ MaxMishaps \in Nat
  /\ MaxFaults \in Nat /\ MaxCrashes \in Nat /\ MaxStalled \in Nat

ASSUME BackoffAssumption ==
  /\ BackoffSpent \in [0..Attempts -> Nat]
  /\ BackoffSpent[0] = 0
  /\ \A m, n \in 0..Attempts : m <= n => BackoffSpent[m] <= BackoffSpent[n]

VARIABLES
  (* Redis *)
  backlog,       (* members of rollover:{channel}                            *)
  keyTtl,        (* that key's remaining lifetime                            *)
  claim,         (* remaining lifetime of rollover_drain:{channel}, 0 = none *)
  lock,          (* remaining lifetime of sublimit_lock:{channel}, 0 = none  *)
  blocked,       (* blocked:{channel}                                        *)
  (* proxy *)
  up,            (* the process runs                                         *)
  shed,          (* the invalid-request tracker is over its threshold        *)
  hpc, hwait,    (* each enqueue request: where it stands, its waitMs        *)
  dpc,           (* each drain job: where it stands                          *)
  delay,         (* ... its remaining delay while it is queued               *)
  fails,         (* ... its failed attempts (attemptsMade)                   *)
  batch,         (* ... messages published by this run                       *)
  msg,           (* ... the message it is sending                            *)
  wait,          (* ... the wait it is about to start                        *)
  (* bot *)
  posted,        (* messages posted so far                                   *)
  push,          (* each message: how its push stands                        *)
  tries,         (* ... and how many requests it took                        *)
  (* Discord *)
  life,          (* each message: ticks until it is over the maximum age     *)
  settle,        (* ... ticks until its link preview has loaded              *)
  sent,          (* published messages                                       *)
  deleted,       (* messages their author deleted                            *)
  cancels,       (* ... whose cancel request is still under way              *)
  (* history *)
  ahead,         (* [m]: what was waiting when m was held                    *)
  gaveUp,        (* a drain used up its attempts; no drain was claimed since *)
  spent          (* what the environment's bounds have been used for         *)

redisVars  == <<backlog, ahead, keyTtl, claim, lock, blocked>>
jobVars    == <<dpc, delay, fails, batch, msg, wait>>
httpVars   == <<hpc, hwait>>
botVars    == <<push, tries, cancels>>
discordVars == <<posted, settle, sent, deleted>>
vars == <<redisVars, jobVars, httpVars, botVars, discordVars, life,
          up, shed, gaveUp, spent>>

----------------------------------------------------------------------------
(* Where a drain job can stand.  "none": no such job.  "queued": waiting or *)
(* delayed in BullMQ.  The others are the awaits of processDrain; at the    *)
(* Closing ones the job has given its own claim back.                       *)
Owning  == {"queued", "drop", "oldest", "post", "remove", "skip", "lock",
            "block", "clear", "extend", "delay", "finish", "unclaim"}
Closing == {"claim", "add", "unadd", "done"}
Sending == {"post", "remove", "skip"}   \* between reading a message and removing it

Before(n)  == IF n = 0 THEN 0 ELSE n - 1

JobsOK ==
  /\ dpc \in [Jobs -> {"none"} \cup Owning \cup Closing]
  /\ delay \in [Jobs -> Nat] /\ wait \in [Jobs -> Nat]
  /\ fails \in [Jobs -> 0..(Attempts - 1)]
  /\ batch \in [Jobs -> 0..Batch] /\ msg \in [Jobs -> Messages \cup {0}]
  /\ \A j \in Jobs : dpc[j] \in Sending => msg[j] # 0
  /\ \A j \in Jobs : dpc[j] \notin {"extend", "delay"} => batch[j] < Batch

TypeOK ==
  /\ backlog \subseteq Messages /\ ahead \in [Messages -> SUBSET Messages]
  /\ keyTtl \in Nat /\ claim \in Nat /\ lock \in Nat
  /\ blocked \in BOOLEAN /\ up \in BOOLEAN /\ shed \in BOOLEAN /\ gaveUp \in BOOLEAN
  /\ hpc \in [Requests -> {"none", "hold", "claim", "add", "unclaim"}]
  /\ hwait \in [Requests -> Nat]
  /\ JobsOK
  /\ posted \in 0..NumMessages
  /\ push \in [Messages -> {"idle", "waiting", "retry", "accepted", "dropped"}]
  /\ tries \in [Messages -> 0..MaxPushes]
  /\ life \in [Messages -> Nat] /\ settle \in [Messages -> Nat]
  /\ sent \subseteq Messages /\ deleted \subseteq Messages
  /\ cancels \subseteq deleted
  /\ spent \in [{"mishaps", "faults", "crashes"} -> Nat]

Init ==
  /\ backlog = {} /\ ahead = [m \in Messages |-> {}]
  /\ keyTtl = 0 /\ claim = 0 /\ lock = 0 /\ blocked = FALSE
  /\ up = TRUE /\ shed = FALSE /\ gaveUp = FALSE
  /\ hpc = [r \in Requests |-> "none"] /\ hwait = [r \in Requests |-> 0]
  /\ dpc = [j \in Jobs |-> "none"]
  /\ delay = [j \in Jobs |-> 0] /\ wait = [j \in Jobs |-> 0]
  /\ fails = [j \in Jobs |-> 0] /\ batch = [j \in Jobs |-> 0]
  /\ msg = [j \in Jobs |-> 0]
  /\ posted = 0 /\ push = [m \in Messages |-> "idle"]
  /\ tries = [m \in Messages |-> 0]
  /\ life = [m \in Messages |-> MaxAge + 1]
  /\ settle = [m \in Messages |-> 0]
  /\ sent = {} /\ deleted = {} /\ cancels = {}
  /\ spent = [k \in {"mishaps", "faults", "crashes"} |-> 0]

(* What the environment may still do to the system. *)
Spend(kind, bound) ==
  /\ spent[kind] < bound
  /\ spent' = [spent EXCEPT ![kind] = @ + 1]

----------------------------------------------------------------------------
(* rollover.ts: the Redis commands on the backlog and the drain claim *)

(* What stays when only S may: ZREM, ZREMRANGEBYSCORE and DEL; Redis drops an empty key. *)
Keep(S) ==
  /\ backlog' = backlog \cap S
  /\ ahead' = [m \in Messages |-> IF m \in S THEN ahead[m] \cap S ELSE {}]
  /\ keyTtl' = IF backlog \cap S = {} THEN 0 ELSE keyTtl

Expired(m, waitTicks) == life[m] <= waitTicks

AddHeldNoRefresh(m) ==   \* fault: PEXPIRE only for a new key
  /\ backlog' = backlog \cup {m}
  /\ ahead' = IF m \in backlog \/ \E j \in Jobs : dpc[j] = "post" /\ msg[j] = m
              THEN ahead
              ELSE [ahead EXCEPT ![m] = backlog]
  /\ keyTtl' = IF backlog = {} THEN MaxAge ELSE keyTtl

(* MULTI ZADD NX, PEXPIRE.  What waits ahead of m is history; a message that *)
(* is already being sent has nothing ahead of it.                            *)
AddHeld(m) ==
  /\ backlog' = backlog \cup {m}
  /\ ahead' = IF m \in backlog \/ \E j \in Jobs : dpc[j] = "post" /\ msg[j] = m
              THEN ahead
              ELSE [ahead EXCEPT ![m] = backlog]
  /\ keyTtl' = MaxAge

(* The member with the lowest score: scores are post times. *)
NewestHeld == CHOOSE m \in backlog : \A k \in backlog : k <= m   \* fault: ZREVRANGE
Oldest == CHOOSE m \in backlog : \A k \in backlog : m <= k

ClaimDrainNoNX(waitTicks) ==   \* fault: SET PX without NX
  /\ claim' = waitTicks + Slack
  /\ gaveUp' = FALSE

ClaimDrain(waitTicks) ==   \* SET PX NX, when the key is not there
  /\ claim = 0
  /\ claim' = waitTicks + Slack
  /\ gaveUp' = FALSE

ExtendDrain(waitTicks) ==   \* PEXPIRE: nothing to extend once the key is gone
  claim' = IF claim > 0 THEN waitTicks + Slack ELSE 0

----------------------------------------------------------------------------
(* The bot's push and the proxy's enqueue route *)

Answer(r, status) ==   \* the bot hears only about the request it is waiting for
  push' = IF push[r[1]] = "waiting" /\ tries[r[1]] = r[2]
          THEN [push EXCEPT ![r[1]] = status] ELSE push

PostMessage(preview) ==
  /\ posted < NumMessages
  /\ posted' = posted + 1
  /\ settle' = [settle EXCEPT ![posted + 1] = preview]
  /\ UNCHANGED <<redisVars, jobVars, httpVars, botVars, sent, deleted, life,
                 up, shed, gaveUp, spent>>

MayPush(m) ==
  /\ m <= posted
  /\ push[m] \in {"idle", "retry"}
  /\ tries[m] < MaxPushes

(* The request reaches the proxy and its gate.  The gate fails open when its *)
(* Redis read times out: then neither the block nor the lock is seen.        *)
PushMessage(m) ==
  LET r == <<m, tries[m] + 1>> IN
  /\ MayPush(m)
  /\ tries' = [tries EXCEPT ![m] = @ + 1]
  /\ \/ /\ ~up \/ shed   \* connection refused, or 503
        /\ push' = [push EXCEPT ![m] = "retry"]
        /\ UNCHANGED httpVars
     \/ /\ up /\ ~shed /\ blocked
        /\ push' = [push EXCEPT ![m] = "dropped"]
        /\ UNCHANGED httpVars
     \/ /\ up /\ ~shed
        /\ push' = [push EXCEPT ![m] = "waiting"]
        /\ hpc' = [hpc EXCEPT ![r] = "hold"]
        /\ hwait' \in {[hwait EXCEPT ![r] = w] : w \in {0} \cup (IF blocked THEN {} ELSE {lock})}
  /\ UNCHANGED <<redisVars, jobVars, cancels, discordVars, life,
                 up, shed, gaveUp, spent>>

(* No answer within the bot's request timeout; the request itself goes on. *)
PushTimesOut(m) ==
  /\ push[m] = "waiting" /\ tries[m] < MaxPushes
  /\ Spend("mishaps", MaxMishaps)
  /\ push' = [push EXCEPT ![m] = "retry"]
  /\ UNCHANGED <<redisVars, jobVars, httpVars, tries, cancels, discordVars, life,
                 up, shed, gaveUp>>

Finish(r, status) ==
  /\ hpc' = [hpc EXCEPT ![r] = "none"]
  /\ hwait' = [hwait EXCEPT ![r] = 0]
  /\ Answer(r, status)

HoldMessage(r) ==
  LET m == r[1] IN
  /\ hpc[r] = "hold"
  /\ \/ /\ Expired(m, hwait[r])
        /\ Finish(r, "dropped")
        /\ UNCHANGED <<backlog, ahead, keyTtl>>
     \/ /\ ~Expired(m, hwait[r])
        /\ AddHeld(m)
        /\ IF m \in backlog
           THEN Finish(r, "accepted")   \* 'duplicate': no drain of its own
           ELSE /\ hpc' = [hpc EXCEPT ![r] = "claim"]
                /\ UNCHANGED <<hwait, push>>
  /\ UNCHANGED <<claim, lock, blocked, jobVars, tries, cancels, discordVars, life,
                 up, shed, gaveUp, spent>>

ClaimForPush(r) ==
  /\ hpc[r] = "claim"
  /\ \/ /\ ClaimDrain(hwait[r])
        /\ hpc' = [hpc EXCEPT ![r] = "add"]
        /\ UNCHANGED <<hwait, push>>
     \/ /\ claim > 0
        /\ Finish(r, "accepted")
        /\ UNCHANGED <<claim, gaveUp>>
  /\ UNCHANGED <<backlog, ahead, keyTtl, lock, blocked, jobVars, tries, cancels,
                 discordVars, life, up, shed, spent>>

AddForPush(r) ==
  /\ hpc[r] = "add"
  /\ \E k \in Jobs :
       /\ dpc[k] = "none"
       /\ dpc' = [dpc EXCEPT ![k] = "queued"]
       /\ delay' = [delay EXCEPT ![k] = hwait[r]]
  /\ Finish(r, "accepted")
  /\ UNCHANGED <<redisVars, fails, batch, msg, wait, tries, cancels,
                 discordVars, life, up, shed, gaveUp, spent>>

(* A Redis command of the request fails: 500, which the bot does not retry. *)
(* A failing queue.add gives the claim back first.                          *)
PushFault(r) ==
  /\ Spend("faults", MaxFaults)
  /\ \/ /\ hpc[r] \in {"hold", "claim", "unclaim"}
        /\ Finish(r, "dropped")
     \/ /\ hpc[r] = "add"
        /\ hpc' = [hpc EXCEPT ![r] = "unclaim"]
        /\ UNCHANGED <<hwait, push>>
  /\ UNCHANGED <<redisVars, jobVars, tries, cancels, discordVars, life,
                 up, shed, gaveUp>>

UnclaimForPush(r) ==
  /\ hpc[r] = "unclaim"
  /\ claim' = 0
  /\ Finish(r, "dropped")
  /\ UNCHANGED <<backlog, ahead, keyTtl, lock, blocked, jobVars, tries, cancels,
                 discordVars, life, up, shed, gaveUp, spent>>

----------------------------------------------------------------------------
(* The drain job: processDrain, one action per await *)

Goto(j, place) == dpc' = [dpc EXCEPT ![j] = place]

WaitFor(j, ticks) ==   \* delayDrain: first the claim, then the job
  /\ Goto(j, "extend")
  /\ wait' = [wait EXCEPT ![j] = ticks]

(* The job throws: BullMQ queues it again after a backoff, or it has failed *)
(* for good and the 'failed' handler gives its claim back.                  *)
Throw(j) ==
  /\ IF fails[j] + 1 < Attempts
     THEN /\ Goto(j, "queued")
          /\ fails' = [fails EXCEPT ![j] = @ + 1]
          /\ delay' = [delay EXCEPT
                         ![j] = BackoffSpent[fails[j] + 1] - BackoffSpent[fails[j]]]
          /\ UNCHANGED gaveUp
     ELSE /\ Goto(j, "unclaim")
          /\ gaveUp' = TRUE
          /\ UNCHANGED <<fails, delay>>
  /\ batch' = [batch EXCEPT ![j] = 0]
  /\ msg' = [msg EXCEPT ![j] = 0]
  /\ wait' = [wait EXCEPT ![j] = 0]

Vanish(j) ==   \* the job is over: its slot is as it was at first
  /\ Goto(j, "none")
  /\ fails' = [fails EXCEPT ![j] = 0]
  /\ batch' = [batch EXCEPT ![j] = 0]
  /\ msg' = [msg EXCEPT ![j] = 0]
  /\ wait' = [wait EXCEPT ![j] = 0]
  /\ UNCHANGED delay

outsideJob == <<httpVars, botVars, discordVars, life, up, shed>>

(* The worker takes a due job up and evaluates the gate. *)
StartDrain(j) ==
  /\ up /\ dpc[j] = "queued" /\ delay[j] = 0
  /\ \/ shed /\ WaitFor(j, ShedWait)
     \/ ~shed /\ blocked /\ Goto(j, "clear") /\ UNCHANGED wait
     \/ ~shed /\ ~blocked /\ lock > 0 /\ WaitFor(j, lock)
     \/ ~shed /\ Goto(j, "drop") /\ UNCHANGED wait   \* no gate, or it failed open
  /\ UNCHANGED <<redisVars, delay, fails, batch, msg, outsideJob, gaveUp, spent>>

DropExpired(j) ==
  /\ dpc[j] = "drop"
  /\ Keep({m \in Messages : life[m] > 0})
  /\ Goto(j, "oldest")
  /\ UNCHANGED <<claim, lock, blocked, delay, fails, batch, msg, wait, outsideJob,
                 gaveUp, spent>>

ReadOldest(j) ==
  /\ dpc[j] = "oldest"
  /\ IF backlog = {}
     THEN Goto(j, "finish") /\ UNCHANGED <<msg, wait>>
     ELSE LET m == Oldest IN
          IF settle[m] > 0
          THEN WaitFor(j, settle[m]) /\ UNCHANGED msg
          ELSE Goto(j, "post") /\ msg' = [msg EXCEPT ![j] = m] /\ UNCHANGED wait
  /\ UNCHANGED <<redisVars, delay, fails, batch, outsideJob, gaveUp, spent>>

(* Discord publishes the message, or says that it is deleted or published already. *)
DiscordTakes(j) ==
  /\ dpc[j] = "post"
  /\ IF msg[j] \in sent \cup deleted
     THEN Goto(j, "skip") /\ UNCHANGED sent
     ELSE Goto(j, "remove") /\ sent' = sent \cup {msg[j]}
  /\ UNCHANGED <<redisVars, delay, fails, batch, msg, wait, httpVars, botVars,
                 posted, settle, deleted, life, up, shed, gaveUp, spent>>

(* Discord refuses: a shared 429 (sublimit), another 429, 401/403, another  *)
(* 4xx.                                                                     *)
DiscordRefuses(j) ==
  /\ dpc[j] = "post"
  /\ Spend("mishaps", MaxMishaps)
  /\ \/ \E w \in RetryAfters : Goto(j, "lock") /\ wait' = [wait EXCEPT ![j] = w]
     \/ \E w \in RetryAfters : WaitFor(j, w)
     \/ Goto(j, "block") /\ UNCHANGED wait
     \/ Goto(j, "skip") /\ UNCHANGED wait
  /\ UNCHANGED <<redisVars, delay, fails, batch, msg, outsideJob, gaveUp>>

(* 5xx, or no answer at all: the message may have been published all the same. *)
DiscordFails(j) ==
  /\ dpc[j] = "post"
  /\ Spend("mishaps", MaxMishaps)
  /\ sent' \in {sent, sent \cup ({msg[j]} \ deleted)}
  /\ Throw(j)
  /\ UNCHANGED <<redisVars, httpVars, botVars, posted, settle, deleted, life, up, shed>>

RemoveSentPastBatch(j) ==   \* fault: one message more than the batch
  /\ dpc[j] \in {"remove", "skip"}
  /\ Keep(Messages \ {msg[j]})
  /\ msg' = [msg EXCEPT ![j] = 0]
  /\ LET n == IF dpc[j] = "remove" THEN batch[j] + 1 ELSE batch[j] IN
     /\ batch' = [batch EXCEPT ![j] = n]
     /\ IF n <= Batch THEN Goto(j, "oldest") /\ UNCHANGED wait ELSE WaitFor(j, 0)
  /\ UNCHANGED <<claim, lock, blocked, delay, fails, outsideJob, gaveUp, spent>>

RemoveSentSnapshot(j) ==   \* fault: the batch was read at once, the next one is posted from it
  /\ dpc[j] \in {"remove", "skip"}
  /\ Keep(Messages \ {msg[j]})
  /\ LET n == IF dpc[j] = "remove" THEN batch[j] + 1 ELSE batch[j] IN
     /\ batch' = [batch EXCEPT ![j] = n]
     /\ IF n < Batch /\ msg[j] < NumMessages
        THEN Goto(j, "post") /\ msg' = [msg EXCEPT ![j] = @ + 1] /\ UNCHANGED wait
        ELSE WaitFor(j, 0) /\ msg' = [msg EXCEPT ![j] = 0]
  /\ UNCHANGED <<claim, lock, blocked, delay, fails, outsideJob, gaveUp, spent>>

RemoveSentKeepSkipped(j) ==   \* fault: only a published message is removed
  /\ dpc[j] \in {"remove", "skip"}
  /\ Keep(IF dpc[j] = "remove" THEN Messages \ {msg[j]} ELSE Messages)
  /\ msg' = [msg EXCEPT ![j] = 0]
  /\ LET n == IF dpc[j] = "remove" THEN batch[j] + 1 ELSE batch[j] IN
     /\ batch' = [batch EXCEPT ![j] = n]
     /\ IF n < Batch THEN Goto(j, "oldest") /\ UNCHANGED wait ELSE WaitFor(j, 0)
  /\ UNCHANGED <<claim, lock, blocked, delay, fails, outsideJob, gaveUp, spent>>

(* The message goes; only a published one counts towards the batch. *)
RemoveSent(j) ==
  /\ dpc[j] \in {"remove", "skip"}
  /\ Keep(Messages \ {msg[j]})
  /\ msg' = [msg EXCEPT ![j] = 0]
  /\ LET n == IF dpc[j] = "remove" THEN batch[j] + 1 ELSE batch[j] IN
     /\ batch' = [batch EXCEPT ![j] = n]
     /\ IF n < Batch THEN Goto(j, "oldest") /\ UNCHANGED wait ELSE WaitFor(j, 0)
  /\ UNCHANGED <<claim, lock, blocked, delay, fails, outsideJob, gaveUp, spent>>

SetLock(j) ==
  /\ dpc[j] = "lock"
  /\ lock' = wait[j]
  /\ Goto(j, "extend")
  /\ UNCHANGED <<backlog, ahead, keyTtl, claim, blocked, delay, fails, batch, msg, wait,
                 outsideJob, gaveUp, spent>>

SetBlocked(j) ==
  /\ dpc[j] = "block"
  /\ blocked' = TRUE
  /\ Goto(j, "clear")
  /\ UNCHANGED <<backlog, ahead, keyTtl, claim, lock, delay, fails, batch, msg, wait,
                 outsideJob, gaveUp, spent>>

ClearBacklog(j) ==
  /\ dpc[j] = "clear"
  /\ Keep({})
  /\ Goto(j, "finish")
  /\ UNCHANGED <<claim, lock, blocked, delay, fails, batch, msg, wait, outsideJob,
                 gaveUp, spent>>

ExtendClaim(j) ==
  /\ dpc[j] = "extend"
  /\ ExtendDrain(wait[j])
  /\ Goto(j, "delay")
  /\ UNCHANGED <<backlog, ahead, keyTtl, lock, blocked, delay, fails, batch, msg, wait,
                 outsideJob, gaveUp, spent>>

MoveToDelayed(j) ==   \* no attempt is spent
  /\ dpc[j] = "delay"
  /\ Goto(j, "queued")
  /\ delay' = [delay EXCEPT ![j] = wait[j]]
  /\ batch' = [batch EXCEPT ![j] = 0]
  /\ msg' = [msg EXCEPT ![j] = 0]
  /\ wait' = [wait EXCEPT ![j] = 0]
  /\ UNCHANGED <<redisVars, fails, outsideJob, gaveUp, spent>>

FinishDrainBlind(j) ==   \* fault: the claim goes, the backlog is not counted
  /\ dpc[j] = "finish"
  /\ claim' = 0
  /\ Goto(j, "done")
  /\ UNCHANGED <<backlog, ahead, keyTtl, lock, blocked, delay, fails, batch, msg, wait,
                 outsideJob, gaveUp, spent>>

FinishDrain(j) ==   \* MULTI DEL claim, ZCARD
  /\ dpc[j] = "finish"
  /\ claim' = 0
  /\ Goto(j, IF backlog = {} THEN "done" ELSE "claim")
  /\ UNCHANGED <<backlog, ahead, keyTtl, lock, blocked, delay, fails, batch, msg, wait,
                 outsideJob, gaveUp, spent>>

ClaimNext(j) ==
  /\ dpc[j] = "claim"
  /\ \/ ClaimDrain(0) /\ Goto(j, "add")
     \/ claim > 0 /\ Goto(j, "done") /\ UNCHANGED <<claim, gaveUp>>
  /\ UNCHANGED <<backlog, ahead, keyTtl, lock, blocked, delay, fails, batch, msg, wait,
                 outsideJob, spent>>

AddNext(j) ==
  /\ dpc[j] = "add"
  /\ \E k \in Jobs : /\ dpc[k] = "none"
                     /\ dpc' = [dpc EXCEPT ![j] = "done", ![k] = "queued"]
  /\ UNCHANGED <<redisVars, delay, fails, batch, msg, wait, outsideJob, gaveUp, spent>>

CompleteDrain(j) ==
  /\ dpc[j] = "done"
  /\ Vanish(j)
  /\ UNCHANGED <<redisVars, outsideJob, gaveUp, spent>>

(* The 'failed' handler's DEL, or the one that follows a failing queue.add. *)
Unclaim(j) ==
  /\ dpc[j] \in {"unclaim", "unadd"}
  /\ claim' = 0
  /\ IF dpc[j] = "unclaim" THEN Vanish(j) /\ UNCHANGED gaveUp ELSE Throw(j)
  /\ UNCHANGED <<backlog, ahead, keyTtl, lock, blocked, outsideJob, spent>>

(* A Redis command of the job fails.  GatedChannels.lock and block swallow   *)
(* it, the 'failed' handler logs it; elsewhere the job throws.               *)
DrainFault(j) ==
  /\ Spend("faults", MaxFaults)
  /\ \/ dpc[j] = "lock"    /\ Goto(j, "extend") /\ UNCHANGED <<delay, fails, batch, msg, wait, gaveUp>>
     \/ dpc[j] = "block"   /\ Goto(j, "clear")  /\ UNCHANGED <<delay, fails, batch, msg, wait, gaveUp>>
     \/ dpc[j] = "add"     /\ Goto(j, "unadd")  /\ UNCHANGED <<delay, fails, batch, msg, wait, gaveUp>>
     \/ dpc[j] = "unclaim" /\ Vanish(j) /\ UNCHANGED gaveUp
     \/ /\ dpc[j] \in {"drop", "oldest", "remove", "skip", "clear", "extend", "delay",
                       "finish", "claim", "unadd"}
        /\ Throw(j)
  /\ UNCHANGED <<redisVars, outsideJob>>

----------------------------------------------------------------------------
(* Everything else that touches the path *)

DeleteMessage(m) ==   \* the author deletes it; the bot sends a cancel, once
  /\ m <= posted /\ m \notin deleted
  /\ Spend("mishaps", MaxMishaps)
  /\ deleted' = deleted \cup {m}
  /\ cancels' = cancels \cup {m}
  /\ UNCHANGED <<redisVars, jobVars, httpVars, push, tries, posted, settle, sent, life,
                 up, shed, gaveUp>>

CancelMessage(m) ==   \* DELETE /internal/crosspost, or its loss
  /\ m \in cancels
  /\ cancels' = cancels \ {m}
  /\ \/ up /\ Keep(Messages \ {m})
     \/ UNCHANGED <<backlog, ahead, keyTtl>>
  /\ UNCHANGED <<claim, lock, blocked, jobVars, httpVars, push, tries, discordVars, life,
                 up, shed, gaveUp, spent>>

(* The backend DELs the backlog: the channel stops serving, or the guild    *)
(* loses Premium or turns Rollover off.                                     *)
BackendClear ==
  /\ backlog # {}
  /\ Keep({})
  /\ UNCHANGED <<claim, lock, blocked, jobVars, httpVars, botVars, discordVars, life,
                 up, shed, gaveUp, spent>>

(* DELETE /internal/blocked, or the key's hour is over. *)
Unblock ==
  /\ blocked
  /\ blocked' = FALSE
  /\ UNCHANGED <<backlog, ahead, keyTtl, claim, lock, jobVars, httpVars, botVars,
                 discordVars, life, up, shed, gaveUp, spent>>

Shed ==   \* the invalid-request window: over the threshold, then over
  /\ ~shed
  /\ Spend("mishaps", MaxMishaps)
  /\ shed' = TRUE
  /\ UNCHANGED <<redisVars, jobVars, httpVars, botVars, discordVars, life, up, gaveUp>>

Unshed ==
  /\ shed
  /\ shed' = FALSE
  /\ UNCHANGED <<redisVars, jobVars, httpVars, botVars, discordVars, life, up,
                 gaveUp, spent>>

(* The process dies: its requests are gone and the bot sees the connection   *)
(* drop; Redis keeps keys and jobs, and BullMQ runs a stalled job again.     *)
Crash ==
  /\ up
  /\ Cardinality({j \in Jobs : dpc[j] # "none"}) <= MaxStalled
  /\ Spend("crashes", MaxCrashes)
  /\ up' = FALSE
  /\ hpc' = [r \in Requests |-> "none"] /\ hwait' = [r \in Requests |-> 0]
  /\ push' = [m \in Messages |-> IF push[m] = "waiting" THEN "retry" ELSE push[m]]
  /\ dpc' = [j \in Jobs |-> IF dpc[j] \in {"none", "unclaim"} THEN "none" ELSE "queued"]
  /\ fails' = [j \in Jobs |-> IF dpc[j] = "unclaim" THEN 0 ELSE fails[j]]
  /\ batch' = [j \in Jobs |-> 0] /\ msg' = [j \in Jobs |-> 0]
  /\ wait' = [j \in Jobs |-> 0]
  /\ UNCHANGED <<redisVars, delay, tries, cancels, discordVars, life, shed, gaveUp>>

Restart ==
  /\ ~up
  /\ up' = TRUE
  /\ UNCHANGED <<redisVars, jobVars, httpVars, botVars, discordVars, life, shed,
                 gaveUp, spent>>

(* Nothing the running proxy could do at once is left to do. *)
Quiet ==
  /\ \A r \in Requests : hpc[r] = "none"
  /\ \A j \in Jobs : dpc[j] = "none" \/ (dpc[j] = "queued" /\ delay[j] > 0)

Tick ==
  /\ up => Quiet
  /\ claim' = Before(claim) /\ lock' = Before(lock)
  /\ delay' = [j \in Jobs |-> Before(delay[j])]
  /\ settle' = [m \in Messages |-> Before(settle[m])]
  /\ IF Ageing
     THEN /\ life' = [m \in Messages |-> IF m <= posted THEN Before(life[m]) ELSE life[m]]
          /\ IF keyTtl = 1 THEN Keep({})
             ELSE keyTtl' = Before(keyTtl) /\ UNCHANGED <<backlog, ahead>>
     ELSE UNCHANGED <<life, keyTtl, backlog, ahead>>
  /\ UNCHANGED <<blocked, dpc, fails, batch, msg, wait, httpVars, botVars,
                 posted, sent, deleted, up, shed, gaveUp, spent>>

DrainStep(j) ==
  \/ StartDrain(j) \/ DropExpired(j) \/ ReadOldest(j)
  \/ DiscordTakes(j) \/ RemoveSent(j)
  \/ SetLock(j) \/ SetBlocked(j) \/ ClearBacklog(j) \/ ExtendClaim(j) \/ MoveToDelayed(j)
  \/ FinishDrain(j) \/ ClaimNext(j) \/ AddNext(j) \/ CompleteDrain(j) \/ Unclaim(j)

RequestStep(r) == HoldMessage(r) \/ ClaimForPush(r) \/ AddForPush(r) \/ UnclaimForPush(r)

Next ==
  \/ \E preview \in {0, Preview} : PostMessage(preview)
  \/ \E m \in Messages : PushMessage(m) \/ PushTimesOut(m) \/ DeleteMessage(m) \/ CancelMessage(m)
  \/ \E r \in Requests : RequestStep(r) \/ PushFault(r)
  \/ \E j \in Jobs : DrainStep(j) \/ DiscordRefuses(j) \/ DiscordFails(j) \/ DrainFault(j)
  \/ BackendClear \/ Unblock \/ Shed \/ Unshed \/ Crash \/ Restart \/ Tick

Spec == Init /\ [][Next]_vars

(* The worker, the routes and the clock go on; nothing else is certain.     *)
Fairness ==
  /\ \A j \in Jobs : WF_vars(DrainStep(j))
  /\ \A r \in Requests : WF_vars(RequestStep(r))
  /\ WF_vars(Tick) /\ WF_vars(Unshed) /\ WF_vars(Restart)

FairSpec == Spec /\ Fairness

----------------------------------------------------------------------------
(* Properties *)

(* Somebody will still look after the backlog: a drain job that has not read *)
(* it for the last time, or a handler about to start one.                    *)
Covered ==
  \/ \E j \in Jobs : dpc[j] \notin {"none", "done", "unclaim"}
  \/ \E r \in Requests : hpc[r] \in {"claim", "add"}

(* The channel has one sender: two drain jobs are never between reading a   *)
(* message and removing it ("drained oldest first by one drain job per      *)
(* channel ... The drain claim is what makes that job unique").             *)
OneSender ==
  \A i, j \in Jobs : dpc[i] \in Sending /\ dpc[j] \in Sending => i = j

(* A held message is never left without a drain, except after a drain has   *)
(* failed all its attempts and until the next claim ("strands its backlog   *)
(* until the channel's next held message starts a new drain").  This is     *)
(* what finishDrain's MULTI is for: "never neither".                        *)
NoStranded == backlog # {} /\ ~gaveUp => Covered

(* The key's lifetime, refreshed per add, never takes a message that is     *)
(* still young enough ("a key untouched that long is all expired").         *)
KeyOutlivesMembers == \A m \in backlog : life[m] <= keyTtl + 1

(* Post order: a message is never published while an older one waits that   *)
(* was held before it, however the drains, pushes and crashes interleave.   *)
PostOrder ==
  [][\A m \in sent' \ sent : \A k \in backlog \cap ahead[m] : m < k]_vars

(* Every held message leaves the backlog, provided no drain gives up on it. *)
HeldSettles == \A m \in Messages : m \in backlog ~> (m \notin backlog \/ gaveUp)

(* The path keeps the promise of an outbox, crashes, faults and concurrent  *)
(* drains included: a drain posts only what it read as the oldest waiting   *)
(* message, and nothing is published but from a drain that read it so and   *)
(* has not let go of it since (rollover.ts:24-27, "drained oldest first").  *)
Outbox == INSTANCE OrderedOutbox
            WITH waiting <- backlog, published <- sent,
                 taken <- {msg[j] : j \in {i \in Jobs : dpc[i] = "post"}}

KeepsOutbox == Outbox!Spec
=============================================================================
