-------------------------- MODULE SubscriptionSync --------------------------
(***************************************************************************)
(* One guild's subscription row, the backend's copy of what Paddle says    *)
(* (apps/backend/src/services/subscriptions.ts, routes/api/webhooks.ts,    *)
(* cron/subscriptionReconcile.ts, the last step of services/withdrawal.ts).*)
(* Paddle sends an event for every version of a subscription, in any order *)
(* and again until it is answered 200; the backend also reads Paddle every *)
(* night.  A handler's awaits on Postgres, Redis and Paddle each end an    *)
(* action, so handlers and the nightly pass interleave at all of them.     *)
(***************************************************************************)
EXTENDS Naturals, Sequences

CONSTANTS
  Subs,          (* Paddle subscriptions bought for the guild                *)
  None,          (* no subscription                                          *)
  Handlers,      (* webhook and withdrawal requests handled at once          *)
  Night,         (* the nightly pass                                         *)
  Nights,        (* FALSE: an instance shorter than a day                    *)
  Withdrawals,   (* TRUE: the subscriber may withdraw                        *)
  MaxChanges,    (* bound: changes of subscriptions at Paddle                *)
  MaxRefunds,    (* bound: refunds and chargebacks                           *)
  MaxFaults,     (* bound: failing awaits, answers that do not arrive        *)
  MaxCrashes     (* bound: crashes of the backend                            *)

ASSUME SyncConstants ==
  /\ None \notin Subs /\ Night \notin Handlers
  /\ Nights \in BOOLEAN /\ Withdrawals \in BOOLEAN
  /\ MaxChanges \in Nat /\ MaxRefunds \in Nat
  /\ MaxFaults \in Nat /\ MaxCrashes \in Nat

VARIABLES
  (* Paddle *)
  versions,      (* per subscription: its status at each updated_at          *)
  carts,         (* subscriptions whose checkout is open                     *)
  refunds,       (* approved refunds so far; a refund's number is its time   *)
  pending,       (* events Paddle has not been answered 200 for              *)
  (* backend *)
  row,           (* the subscription row                                     *)
  marked,        (* paddle_event: keys                                       *)
  served,        (* TRUE: the guild's channels have their Premium shape      *)
  job,           (* what each handler and the pass is about to do            *)
  page,          (* what the pass has listed and not applied                 *)
  revoke,        (* the pass's toRevoke has the guild                        *)
  withdrawn,     (* subscriptions withdrawn from                             *)
  spent          (* what the bounds have been used for                       *)

paddleVars == <<versions, carts, refunds>>
passVars   == <<page, revoke>>
vars == <<paddleVars, pending, row, marked, served, job, passVars, withdrawn, spent>>

----------------------------------------------------------------------------
(* active stands for every status that entitles; canceled is final.         *)
Statuses == {"active", "paused", "canceled"}
Processes == Handlers \cup {Night}

Event   == [kind : {"state", "refund"}, sub : Subs, n : Nat]
NoEvent == [kind |-> "none", sub |-> None, n |-> 0]
State(s, n)  == [kind |-> "state", sub |-> s, n |-> n]
Refund(s, n) == [kind |-> "refund", sub |-> s, n |-> n]

(* sub = None: there is no row.  at is lastEventAt, refund lastRefundAt (0:  *)
(* none).                                                                   *)
Row   == [sub : Subs \cup {None}, status : Statuses, at : Nat, refund : Nat]
NoRow == [sub |-> None, status |-> "canceled", at |-> 0, refund |-> 0]
HasRow  == row.sub # None
Premium == row.status = "active"

(* was: the entitlement of the row the handler found; plan: the one its      *)
(* reconcileChannelServing has read.                                        *)
Job == [op : {"none", "hook", "end", "pass"}, e : Event \cup {NoEvent},
        at : {"idle", "byId", "update", "byGuild", "replace", "insert", "plan",
              "serve", "target", "stamp", "mark", "cancel", "list"},
        was : BOOLEAN, plan : BOOLEAN]
NoJob == [op |-> "none", e |-> NoEvent, at |-> "idle", was |-> FALSE, plan |-> FALSE]

Latest(s)   == Len(versions[s])
Started     == {s \in Subs : versions[s] # <<>>}
Now(s)      == versions[s][Latest(s)]
StatusOf(e) == versions[e.sub][e.n]
Entitled(e) == StatusOf(e) = "active"

Init ==
  /\ versions = [s \in Subs |-> <<>>] /\ carts = {} /\ refunds = 0 /\ pending = {}
  /\ row = NoRow /\ marked = {} /\ served = FALSE
  /\ job = [x \in Processes |-> NoJob] /\ page = {} /\ revoke = FALSE
  /\ withdrawn = {} /\ spent = [changes |-> 0, faults |-> 0, crashes |-> 0]

----------------------------------------------------------------------------
(* Moving a process on.                                                     *)
At(x, at)   == job[x].at = at
To(x, j)    == job' = [job EXCEPT ![x] = j]
Goto(x, at) == To(x, [job[x] EXCEPT !.at = at])
Done(x)     == To(x, NoJob)

(* Over with the event: a webhook marks it, the pass takes its next one.     *)
Over(x) ==
  IF job[x].op = "hook" THEN Goto(x, "mark")
  ELSE IF job[x].op = "pass" /\ job[x].e # NoEvent
  THEN To(x, [NoJob EXCEPT !.op = "pass", !.at = "list"])
  ELSE Done(x)

(* enforceTransition; the pass applies grants and collects revocations.      *)
Enforce(x, was, is) ==
  IF x = Night /\ was /\ ~is
  THEN revoke' = TRUE /\ Over(x)
  ELSE /\ UNCHANGED revoke
       /\ IF was = is THEN Over(x) ELSE Goto(x, "plan")

----------------------------------------------------------------------------
(* Paddle and the subscriber.                                               *)
OpenCheckout(s) ==
  /\ ~Premium /\ s \notin carts /\ s \notin Started
  /\ carts' = carts \cup {s}
  /\ UNCHANGED <<versions, refunds, pending, row, marked, served, job, passVars,
                 withdrawn, spent>>

NewVersion(s, st) ==
  /\ versions' = [versions EXCEPT ![s] = Append(@, st)]
  /\ pending' = pending \cup {State(s, Latest(s) + 1)}

Pay(s) ==
  /\ s \in carts
  /\ carts' = carts \ {s} /\ NewVersion(s, "active")
  /\ UNCHANGED <<refunds, row, marked, served, job, passVars, withdrawn, spent>>

Change(s, st) ==
  /\ s \in Started /\ Now(s) # "canceled" /\ spent.changes < MaxChanges
  /\ NewVersion(s, st) /\ spent' = [spent EXCEPT !.changes = @ + 1]
  /\ UNCHANGED <<carts, refunds, row, marked, served, job, passVars, withdrawn>>

(* adjustment.updated, approved, full.                                      *)
PaddleRefunds(s) ==
  /\ s \in Started /\ refunds < MaxRefunds
  /\ refunds' = refunds + 1
  /\ pending' = pending \cup {Refund(s, refunds + 1)}
  /\ UNCHANGED <<versions, carts, row, marked, served, job, passVars, withdrawn, spent>>

----------------------------------------------------------------------------
(* Something fails: an await rejects, or Paddle does not get an answer.      *)
Fault == spent.faults < MaxFaults /\ spent' = [spent EXCEPT !.faults = @ + 1]

(* POST /webhooks/paddle.  A delivery repeats until it is answered 200, also *)
(* while another delivery of the same event is being handled.               *)
Deliver(x, e) ==
  /\ At(x, "idle") /\ e \in pending
  /\ IF e \in marked
     THEN pending' = pending \ {e} /\ UNCHANGED job
     ELSE /\ To(x, [NoJob EXCEPT !.op = "hook", !.e = e,
                      !.at = IF e.kind = "state" THEN "byId" ELSE "target"])
          /\ UNCHANGED pending
  /\ UNCHANGED <<paddleVars, row, marked, served, passVars, withdrawn, spent>>

MarkProcessed(x) ==
  /\ At(x, "mark")
  /\ marked' = marked \cup {job[x].e} /\ Done(x)
  /\ \/ pending' = pending \ {job[x].e} /\ UNCHANGED spent
     \/ UNCHANGED pending /\ Fault
  /\ UNCHANGED <<paddleVars, row, served, passVars, withdrawn>>

(* The key lives a day, Paddle goes on retrying for three.                   *)
MarkExpires(e) ==
  /\ e \in marked \cap pending
  /\ marked' = marked \ {e}
  /\ UNCHANGED <<paddleVars, pending, row, served, job, passVars, withdrawn, spent>>

----------------------------------------------------------------------------
(* applyPaddleSubscription.                                                 *)
GetByPaddleSubscriptionId(x) ==
  /\ At(x, "byId")
  /\ IF row.sub # job[x].e.sub THEN Goto(x, "byGuild")
     ELSE IF job[x].e.n < row.at THEN Over(x)
     ELSE To(x, [job[x] EXCEPT !.at = "update", !.was = Premium])
  /\ UNCHANGED <<paddleVars, pending, row, marked, served, passVars, withdrawn, spent>>

(* Mutant of Write: the status is re-read, the time kept from the event.    *)
WriteRefetched(e) ==
  row' = [row EXCEPT !.sub = e.sub, !.status = Now(e.sub), !.at = e.n]

(* Mutant of Write: an upsert of the whole row.                             *)
WriteWholeRow(e) ==
  row' = [NoRow EXCEPT !.sub = e.sub, !.status = StatusOf(e), !.at = e.n]

Write(e) ==
  row' = [row EXCEPT !.sub = e.sub, !.status = StatusOf(e), !.at = e.n]

Update(x) ==
  /\ At(x, "update")
  /\ IF row.sub = job[x].e.sub
     THEN Write(job[x].e) /\ Enforce(x, job[x].was, Entitled(job[x].e))
     ELSE Over(x) /\ UNCHANGED <<row, revoke>>
  /\ UNCHANGED <<paddleVars, pending, marked, served, page, withdrawn, spent>>

(* Mutant of GetByGuildId: no duplicate guard and no stale guard.           *)
GetByGuildIdUnguarded(x) ==
  /\ At(x, "byGuild")
  /\ Goto(x, IF HasRow THEN "replace" ELSE "insert")
  /\ UNCHANGED <<paddleVars, pending, row, marked, served, passVars, withdrawn, spent>>

(* An entitled row is kept, whether the event is of a duplicate or stale.    *)
GetByGuildId(x) ==
  /\ At(x, "byGuild")
  /\ IF ~HasRow THEN Goto(x, "insert")
     ELSE IF Premium THEN Over(x)
     ELSE Goto(x, "replace")
  /\ UNCHANGED <<paddleVars, pending, row, marked, served, passVars, withdrawn, spent>>

Replace(x) ==
  /\ At(x, "replace")
  /\ Write(job[x].e) /\ Enforce(x, FALSE, Entitled(job[x].e))
  /\ UNCHANGED <<paddleVars, pending, marked, served, page, withdrawn, spent>>

(* guild_id and paddle_subscription_id are unique: a second insert throws.   *)
Insert(x) ==
  /\ At(x, "insert")
  /\ IF HasRow
     THEN Done(x) /\ UNCHANGED <<row, revoke>>
     ELSE Write(job[x].e) /\ Enforce(x, FALSE, Entitled(job[x].e))
  /\ UNCHANGED <<paddleVars, pending, marked, served, page, withdrawn, spent>>

(* Entitlements.apply: reconcileChannelServing reads the plan, then moves    *)
(* the channels.                                                            *)
ReadPlan(x) ==
  /\ At(x, "plan")
  /\ To(x, [job[x] EXCEPT !.at = "serve", !.plan = Premium])
  /\ UNCHANGED <<paddleVars, pending, row, marked, served, passVars, withdrawn, spent>>

Serve(x) ==
  /\ At(x, "serve")
  /\ served' = job[x].plan /\ Over(x)
  /\ UNCHANGED <<paddleVars, pending, row, marked, passVars, withdrawn, spent>>

----------------------------------------------------------------------------
(* recordRefund: the row of the refunded subscription, if it is still there. *)
FindRefunded(x) ==
  /\ At(x, "target")
  /\ Goto(x, IF row.sub = job[x].e.sub THEN "stamp" ELSE "mark")
  /\ UNCHANGED <<paddleVars, pending, row, marked, served, passVars, withdrawn, spent>>

Stamp(x) ==
  /\ At(x, "stamp")
  /\ row' = IF row.refund < job[x].e.n THEN [row EXCEPT !.refund = job[x].e.n] ELSE row
  /\ Goto(x, "mark")
  /\ UNCHANGED <<paddleVars, pending, marked, served, passVars, withdrawn, spent>>

----------------------------------------------------------------------------
(* The end of a withdrawal: endContract cancels at Paddle and applies the    *)
(* answer.  withdrawn is the withdrawal table's unique index.               *)
Withdraw(x) ==
  /\ Withdrawals /\ At(x, "idle")
  /\ HasRow /\ row.sub \notin withdrawn
  /\ withdrawn' = withdrawn \cup {row.sub}
  /\ To(x, [NoJob EXCEPT !.op = "end", !.e = State(row.sub, row.at), !.at = "cancel"])
  /\ UNCHANGED <<paddleVars, pending, row, marked, served, passVars, spent>>

Cancel(x) ==
  /\ At(x, "cancel")
  /\ LET s == job[x].e.sub IN
     IF Now(s) = "canceled"
     THEN /\ To(x, [job[x] EXCEPT !.at = "byId", !.e = State(s, Latest(s))])
          /\ UNCHANGED <<versions, pending>>
     ELSE /\ To(x, [job[x] EXCEPT !.at = "byId", !.e = State(s, Latest(s) + 1)])
          /\ NewVersion(s, "canceled")
  /\ UNCHANGED <<carts, refunds, row, marked, served, passVars, withdrawn, spent>>

----------------------------------------------------------------------------
(* runSubscriptionReconcile: after start-up and every night, one at a time.  *)
StartPass ==
  /\ Nights /\ At(Night, "idle")
  /\ page' = {State(s, Latest(s)) : s \in Started} /\ revoke' = FALSE
  /\ To(Night, [NoJob EXCEPT !.op = "pass", !.at = "list"])
  /\ UNCHANGED <<paddleVars, pending, row, marked, served, withdrawn, spent>>

(* Paddle's order of the list is not known.                                 *)
TakeListed ==
  /\ At(Night, "list")
  /\ \E e \in page :
       page' = page \ {e} /\ To(Night, [job[Night] EXCEPT !.at = "byId", !.e = e])
  /\ UNCHANGED <<paddleVars, pending, row, marked, served, revoke, withdrawn, spent>>

(* Mutant of Backstop: only the transitions seen, no query of the rows.     *)
BackstopCollectedOnly ==
  /\ At(Night, "list") /\ page = {}
  /\ IF revoke THEN Goto(Night, "plan") ELSE Done(Night)
  /\ UNCHANGED <<paddleVars, pending, row, marked, served, passVars, withdrawn, spent>>

(* Listing over: getRevokedWithBotPresent, then the collected revocations.   *)
Backstop ==
  /\ At(Night, "list") /\ page = {}
  /\ IF revoke \/ (HasRow /\ ~Premium) THEN Goto(Night, "plan") ELSE Done(Night)
  /\ UNCHANGED <<paddleVars, pending, row, marked, served, passVars, withdrawn, spent>>

----------------------------------------------------------------------------
(* An await rejects: a webhook answers 500, endContract logs, the pass ends. *)
Fail(x) ==
  /\ ~At(x, "idle") /\ Fault /\ Done(x)
  /\ UNCHANGED <<paddleVars, pending, row, marked, served, passVars, withdrawn>>

Crash ==
  /\ spent.crashes < MaxCrashes
  /\ spent' = [spent EXCEPT !.crashes = @ + 1]
  /\ job' = [x \in Processes |-> NoJob]
  /\ UNCHANGED <<paddleVars, pending, row, marked, served, passVars, withdrawn>>

----------------------------------------------------------------------------
ApplyStep(x) ==
  \/ GetByPaddleSubscriptionId(x) \/ Update(x) \/ GetByGuildId(x) \/ Replace(x)
  \/ Insert(x) \/ ReadPlan(x) \/ Serve(x)

RequestStep(x) ==
  \/ ApplyStep(x) \/ FindRefunded(x) \/ Stamp(x) \/ MarkProcessed(x) \/ Cancel(x)

PassStep == ApplyStep(Night) \/ TakeListed \/ Backstop

PaddleStep ==
  \E s \in Subs : \/ OpenCheckout(s) \/ Pay(s) \/ PaddleRefunds(s)
                  \/ \E st \in Statuses : Change(s, st)

Deliveries == \E x \in Handlers : \E e \in pending : Deliver(x, e)

Next ==
  \/ PaddleStep \/ Deliveries \/ StartPass \/ PassStep \/ Crash
  \/ \E x \in Handlers : RequestStep(x) \/ Withdraw(x)
  \/ \E x \in Processes : Fail(x)
  \/ \E e \in marked : MarkExpires(e)

Spec == Init /\ [][Next]_vars

(* Paddle retries what is not answered 200, awaits return, the pass runs     *)
(* every night.                                                             *)
FairSpec ==
  /\ Spec
  /\ WF_vars(Deliveries) /\ \A x \in Handlers : WF_vars(RequestStep(x))
  /\ WF_vars(StartPass) /\ WF_vars(PassStep)

----------------------------------------------------------------------------
EventsOK(S) == S \subseteq Event
RowOK == row \in Row /\ (~HasRow => row = NoRow)

(* Every variable holds what its declaration says, and nothing is written    *)
(* where there is no row.                                                   *)
TypeOK ==
  /\ versions \in [Subs -> Seq(Statuses)] /\ carts \subseteq Subs /\ refunds \in Nat
  /\ EventsOK(pending) /\ EventsOK(marked) /\ EventsOK(page)
  /\ RowOK /\ served \in BOOLEAN /\ revoke \in BOOLEAN
  /\ job \in [Processes -> Job] /\ withdrawn \subseteq Subs
  /\ spent \in [changes : Nat, faults : Nat, crashes : Nat]

(* The row is a version of the subscription that Paddle really had, of its   *)
(* status and its time at once: handlers that write from stale reads never   *)
(* leave the status of one event beside the time or the id of another.       *)
(* applyPaddleSubscription, PaddleSubscriptionValues.                        *)
RowIsTrue ==
  HasRow => /\ row.sub \in Subs /\ row.at \in 1..Latest(row.sub)
            /\ row.status = versions[row.sub][row.at]

(* The guild's refund history survives a re-subscribe and every late or      *)
(* repeated event, and a late refund does not replace a newer one.           *)
(* PaddleSubscriptionValues, recordRefund.                                   *)
RefundSurvives == [][HasRow => HasRow' /\ row'.refund >= row.refund]_vars

(* The row comes to agree with Paddle, however events were lost, late or     *)
(* raced: if some subscription runs the row is its newest version, and       *)
(* otherwise the row entitles to nothing.  The nightly pass as backstop.     *)
Agrees ==
  LET running == {s \in Started : Now(s) = "active"} IN
  IF running = {} THEN ~Premium
  ELSE row.sub \in running /\ row.at = Latest(row.sub) /\ Premium
Converges == <>[]Agrees

(* A guild whose row does not entitle it comes down to the free shape, also  *)
(* when the webhook that ended it crashed before the trim.                   *)
(* getRevokedWithBotPresent.                                                 *)
DowngradeEnforced == (~Premium /\ served) ~> (Premium \/ ~served)

(* The other direction: a guild that pays gets its channels back.  "a grant  *)
(* is the only thing that un-pauses the channels a downgrade paused".        *)
GrantEnforced == (Premium /\ ~served) ~> (~Premium \/ served)
=============================================================================
