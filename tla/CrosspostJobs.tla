---------------------------- MODULE CrosspostJobs ----------------------------
(***************************************************************************)
(* Publishing without Rollover: the bot pushes each message to the proxy   *)
(* (bot services/crosspost.ts), which queues one job for it behind a gate  *)
(* and drops it at a locked or blocked channel (proxy crosspost/queue.ts,  *)
(* gate.ts, caches.ts).  Answers that Discord counts towards a ban fill a  *)
(* window, and a full window sheds (gateway/invalidRequests.ts).           *)
(*                                                                         *)
(* Which messages are pushed, and when a deleted one is cancelled, is left *)
(* open: a job of a deleted message gets one of the fatal answers.         *)
(***************************************************************************)
EXTENDS Integers, FiniteSets

CONSTANTS
  Feeds,         (* announcement channels                                    *)
  Posts,         (* <<feed, number>>                                         *)
  PushAttempts,  (* MAX_PUSH_ATTEMPTS                                        *)
  JobAttempts,   (* BullMQ's attempts                                        *)
  HighWater,     (* QUEUE_HIGH_WATER                                         *)
  Concurrency,   (* of the worker                                            *)
  Threshold,     (* of the invalid-request window                            *)
  MaxOther,      (* bound: invalid answers to other traffic, past Threshold  *)
  MaxMishaps     (* bound: lost calls and Redis timeouts                     *)

ASSUME CrosspostAssumption ==
  /\ IsFiniteSet(Posts) /\ \A p \in Posts : p[1] \in Feeds
  /\ PushAttempts \in Nat \ {0} /\ JobAttempts \in Nat \ {0}
  /\ HighWater \in Nat \ {0} /\ Concurrency \in Nat \ {0} /\ Threshold \in Nat \ {0}
  /\ MaxOther \in Nat /\ MaxMishaps \in Nat

VARIABLES
  push,          (* the bot's push of each message: [at, n]                  *)
  queued,        (* the message's job: [at, tries]                           *)
  locked, blocked, (* gate keys, by channel                                  *)
  window,        (* Date.now() < expiresAt                                   *)
  count,         (* of the window                                            *)
  ours,          (* (for the properties) those of the window that ended a    *)
                 (* crosspost's send                                         *)
  mishaps

queue == <<push, queued>>
gate == <<locked, blocked, window, count, ours>>
jobVars == <<queue, gate, mishaps>>

Unpushed == [at |-> "none", n |-> 1]
NoQueued == [at |-> "none", tries |-> 0]
InState(at) == {p \in Posts : queued[p].at = at}
Active == InState("active")

JobsInit ==
  /\ push = [p \in Posts |-> Unpushed] /\ queued = [p \in Posts |-> NoQueued]
  /\ locked = {} /\ blocked = {}
  /\ window = FALSE /\ count = 0 /\ ours = 0 /\ mishaps = 0

Mishap == mishaps < MaxMishaps /\ mishaps' = mishaps + 1

-----------------------------------------------------------------------------
(* The gate.                                                               *)

IsOverThreshold == window /\ count >= Threshold

(* evaluate; a Redis read that times out fails open.                       *)
Verdict(p, open) ==
  CASE IsOverThreshold -> "invalid_requests"
    [] ~IsOverThreshold /\ ~open /\ p[1] \in blocked -> "blocked"
    [] ~IsOverThreshold /\ ~open /\ p[1] \in locked \ blocked -> "sublimit"
    [] OTHER -> "allow"

Gated(p, verdict) ==
  \/ verdict = Verdict(p, FALSE) /\ UNCHANGED mishaps
  \/ Mishap /\ verdict = Verdict(p, TRUE)

(* increment: a window begins with the first answer after the last one.    *)
Increment(mine) ==
  /\ window' = TRUE /\ count' = count + 1
  /\ ours' = ours + (IF mine THEN 1 ELSE 0)

(* isWindowExpired: the count of a window that is over is 0.               *)
WindowEnds ==
  /\ window /\ window' = FALSE /\ count' = 0 /\ ours' = 0
  /\ UNCHANGED <<queue, locked, blocked, mishaps>>

Others == count < Threshold + MaxOther /\ Increment(FALSE)

(* The other traffic of the proxy is counted and never shed.               *)
Passthrough == Others /\ UNCHANGED <<queue, locked, blocked, mishaps>>

(* Lifetimes of the keys, and the bot's clearBlocked.                      *)
Opens(f) ==
  /\ f \in locked \cup blocked
  /\ \/ locked' = locked \ {f} /\ UNCHANGED blocked
     \/ blocked' = blocked \ {f} /\ UNCHANGED locked
  /\ UNCHANGED <<queue, window, count, ours, mishaps>>

-----------------------------------------------------------------------------
(* The push.                                                               *)

(* push: another attempt, or none left.                                    *)
Again(p) ==
  push' = [push EXCEPT ![p] = IF @.n < PushAttempts THEN [at |-> "wait", n |-> @.n + 1]
                              ELSE [@ EXCEPT !.at = "over"]]

Settled(p) == push' = [push EXCEPT ![p].at = "over"]

Handle(p) ==
  /\ push[p].at \in {"none", "wait"} /\ push' = [push EXCEPT ![p].at = "call"]
  /\ UNCHANGED <<queued, gate, mishaps>>

PushLost(p) ==
  /\ push[p].at = "call" /\ Mishap /\ Again(p)
  /\ UNCHANGED <<queued, gate>>

(* The job id is the message's, so that a repeated push adds no second job *)
(* while the first one, or its record, is there.                           *)
Enqueue(p, at) ==
  queued' = IF queued[p].at = "none" THEN [queued EXCEPT ![p].at = at] ELSE queued

(* POST /crosspost without rollover=1.                                     *)
PushArrives(p) ==
  /\ push[p].at = "call"
  /\ \E verdict \in {"invalid_requests", "blocked", "sublimit", "allow"} :
       /\ Gated(p, verdict)
       /\ \/ verdict = "invalid_requests" /\ Again(p) /\ UNCHANGED queued
          \/ verdict \in {"blocked", "sublimit"} /\ Settled(p) /\ UNCHANGED queued
          \/ /\ verdict = "allow" /\ Cardinality(InState("waiting")) >= HighWater
             /\ Again(p) /\ UNCHANGED queued
          \/ /\ verdict = "allow" /\ Cardinality(InState("waiting")) < HighWater
             /\ \E at \in {"waiting", "delayed"} : Enqueue(p, at)
             /\ Settled(p) \/ Again(p)
  /\ UNCHANGED gate

-----------------------------------------------------------------------------
(* The worker: processCrosspost.                                           *)

Moved(p, at) == queued' = [queued EXCEPT ![p].at = at]

(* A mutation: a job is let through on what the push was told.             *)
TakeUngated(p) ==
  /\ queued[p].at = "waiting" /\ Cardinality(Active) < Concurrency
  /\ Moved(p, "active")
  /\ UNCHANGED <<push, gate, mishaps>>

Take(p) ==
  /\ queued[p].at = "waiting" /\ Cardinality(Active) < Concurrency
  /\ \E verdict \in {"invalid_requests", "blocked", "sublimit", "allow"} :
       /\ Gated(p, verdict)
       /\ Moved(p, CASE verdict = "invalid_requests" -> "delayed"
                     [] verdict \in {"blocked", "sublimit"} -> "kept"
                     [] verdict = "allow" -> "active")
  /\ UNCHANGED <<push, gate>>

(* recordOutcome and what the job does of it.  A 401, a 403 and a 429 that *)
(* is not of the shared scope count towards the ban.                       *)
Answered(p) ==
  /\ queued[p].at = "active"
  /\ \/ Moved(p, "kept") /\ UNCHANGED gate                  (* done, fatal    *)
     \/ /\ Moved(p, "kept") /\ Increment(TRUE)              (* 401, 403       *)
        /\ blocked' = blocked \cup {p[1]} /\ UNCHANGED locked
     \/ /\ Moved(p, "kept") /\ locked' = locked \cup {p[1]} (* sublimit       *)
        /\ Increment(TRUE) \/ UNCHANGED <<window, count, ours>>
        /\ UNCHANGED blocked
     \/ /\ Moved(p, "delayed")                              (* another limit  *)
        /\ Increment(TRUE) \/ UNCHANGED <<window, count, ours>>
        /\ UNCHANGED <<locked, blocked>>
     \/ /\ queued' = [queued EXCEPT ![p] =                  (* 5xx            *)
             [at |-> IF @.tries + 1 < JobAttempts THEN "delayed" ELSE "kept",
              tries |-> @.tries + 1]]
        /\ UNCHANGED gate
  /\ UNCHANGED <<push, mishaps>>

(* A short limit of the route, which discord.js waits out within the send. *)
WaitedOut(p) ==
  /\ queued[p].at = "active" /\ Others
  /\ UNCHANGED <<queue, locked, blocked, mishaps>>

DelayEnds(p) ==
  /\ queued[p].at = "delayed" /\ Moved(p, "waiting")
  /\ UNCHANGED <<push, gate, mishaps>>

(* DELETE /internal/crosspost: a job that is sending stays; and BullMQ     *)
(* drops its oldest records.                                               *)
RemoveJob(p) ==
  /\ queued[p].at \in {"waiting", "delayed", "kept"}
  /\ queued' = [queued EXCEPT ![p] = NoQueued]
  /\ UNCHANGED <<push, gate, mishaps>>

JobsNext ==
  \/ \E p \in Posts :
       \/ Handle(p) \/ PushLost(p) \/ PushArrives(p)
       \/ Take(p) \/ Answered(p) \/ WaitedOut(p) \/ DelayEnds(p) \/ RemoveJob(p)
  \/ (\E f \in Feeds : Opens(f)) \/ WindowEnds \/ Passthrough

JobsSpec == JobsInit /\ [][JobsNext]_jobVars

JobsTypeOK ==
  /\ push \in [Posts -> [at : {"none", "call", "wait", "over"}, n : Nat]]
  /\ queued \in [Posts -> [at : {"none", "waiting", "delayed", "active", "kept"}, tries : Nat]]
  /\ locked \subseteq Feeds /\ blocked \subseteq Feeds
  /\ window \in BOOLEAN /\ count \in Nat /\ ours \in Nat
  /\ mishaps \in Nat

(* The shed bounds what crossposts add to the ban's count: in one window,  *)
(* the invalid answers that end a crosspost stay below the threshold, save *)
(* for the jobs that had passed the gate when it was reached, whatever     *)
(* other traffic, Redis timeouts and repeated pushes do.  isOverThreshold. *)
ShedBounds == ours <= Threshold - 1 + Concurrency
=============================================================================
