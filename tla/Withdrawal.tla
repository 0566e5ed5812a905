----------------------------- MODULE Withdrawal -----------------------------
(****************************************************************************)
(* The statutory withdrawal from a contract, from the dashboard's dialog to *)
(* the last retention period: the route that records it and applies its     *)
(* three effects (acknowledge, refund, end the contract), the retry of      *)
(* acknowledgements every ten minutes, and the nightly run whose last part  *)
(* erases and deletes (apps/backend/src/services/withdrawal.ts,             *)
(* retention.ts, app/routes/api/guild.ts, cron/withdrawalAcknowledge.ts,    *)
(* cron/reconcileRunner.ts, apps/web/.../withdrawal-panel.tsx).             *)
(*                                                                          *)
(* Each contract belongs to a guild of its own; what a re-subscribe does to *)
(* the guild's row is SubscriptionSync's.  Each await of the route ends an  *)
(* action.  Time is a tick, and a request and a job are short beside it     *)
(* (Quiet); the nightly run, which has nothing to do with contracts of its  *)
(* own day, meets the retries but no request.                               *)
(****************************************************************************)
EXTENDS Integers, FiniteSets

CONSTANTS
  Contracts,   (* subscriptions, one guild each                             *)
  Tabs,        (* browser tabs of the subscribers                           *)
  Window,      (* WINDOW_DAYS: ticks a withdrawal may be submitted in       *)
  EraseAge,    (* SUBSCRIBER_ID_RETENTION_MONTHS                            *)
  DeleteAge,   (* ACCOUNTING_RETENTION_YEARS                                *)
  Cap,         (* the mass-action cap: rows one batch may touch             *)
  Horizon,     (* bound: ticks                                              *)
  MaxSubmits,  (* bound: submissions                                        *)
  MaxFaults,   (* bound: awaits that fail, and crashes of the backend       *)
  MaxBlips     (* bound: nightly runs that fail in a row                    *)

ASSUME WithdrawalAssumption ==
  /\ IsFiniteSet(Contracts)
  /\ Window \in Nat /\ EraseAge \in Nat /\ DeleteAge \in Nat
  /\ Window <= DeleteAge /\ EraseAge <= DeleteAge   \* 14 days, 24 months, 11 years
  /\ Cap \in Nat /\ Horizon \in Nat
  /\ MaxSubmits \in Nat /\ MaxFaults \in Nat /\ MaxBlips \in Nat

VARIABLES
  now,         (* ticks since the contracts were concluded                   *)
  up,          (* the backend runs                                           *)
  (* Postgres *)
  rows,        (* contracts with a subscription row                          *)
  ended,       (* ... whose row says canceled                                *)
  endedAt,     (* ... since when                                             *)
  named,       (* ... that still has the subscriber's id                     *)
  recorded,    (* contracts with a withdrawal row                            *)
  submittedAt, (* ... submitted (and confirmed) then                         *)
  acked,       (* ... with acknowledgedAt                                    *)
  addressed,   (* ... with the address and the subscriber's id               *)
  outcome,     (* ... refundOutcome                                          *)
  (* Paddle and the mail server *)
  running,     (* contracts that Paddle still bills                          *)
  refunds,     (* refunds raised                                             *)
  mails,       (* acknowledgements accepted by the mail server               *)
  (* the processes *)
  tab,         (* each tab's dialog and, while it is busy, its request       *)
  sweep,       (* the acknowledgement retry: what it has left, what it has   *)
               (* mailed and not marked                                      *)
  night,       (* the nightly run: where it stands, and whether it is a rerun*)
  timer,       (* its rerun is due                                           *)
  ran,         (* the cron of this tick has started it                       *)
  (* history *)
  told,        (* contracts somebody was alerted to end by hand              *)
  blips,       (* failed nightly runs since the last good one                *)
  alarms,      (* the least number of them an alert was sent after           *)
  spent        (* what the bounds have been used for                         *)

db == <<rows, ended, endedAt, named, recorded, submittedAt, acked, addressed, outcome>>
outside == <<running, refunds, mails>>
crons == <<sweep, night, timer, ran, blips, alarms>>
vars == <<now, up, db, outside, tab, crons, told, spent>>

Closed == [at |-> "closed", of |-> {}]
Idle   == [at |-> "idle", left |-> {}, sent |-> {}]
Asleep == [at |-> "idle", rerun |-> FALSE]

(* Where a tab can stand: its dialog, or the await its request is at. *)
Dialog == {"closed", "offered"}
Effects == {"send", "mark", "lookup", "raise", "note", "fail", "cancel", "apply"}
InRoute == {"require", "find", "record"} \cup Effects

Phases == {"reconcile", "ids", "rows", "addresses", "records"}

TypeOK ==
  /\ now \in 0..Horizon /\ up \in BOOLEAN /\ timer \in BOOLEAN /\ ran \in BOOLEAN
  /\ rows \subseteq Contracts /\ ended \subseteq Contracts /\ named \subseteq rows
  /\ recorded \subseteq Contracts /\ acked \subseteq recorded /\ addressed \subseteq recorded
  /\ endedAt \in [Contracts -> 0..Horizon] /\ submittedAt \in [Contracts -> 0..Horizon]
  /\ outcome \in [Contracts -> {"none", "no_captured_payment", "raised", "failed"}]
  /\ running \subseteq Contracts
  /\ refunds \in [Contracts -> Nat] /\ mails \in [Contracts -> Nat]
  /\ tab \in [Tabs -> [at : Dialog \cup InRoute, of : {{}} \cup {{c} : c \in Contracts}]]
  /\ \A t \in Tabs : (tab[t].at = "closed") <=> (tab[t].of = {})
  /\ sweep \in [at : {"idle", "find", "send", "mark"}, left : SUBSET Contracts,
                sent : SUBSET Contracts]
  /\ night \in [at : {"idle"} \cup Phases, rerun : BOOLEAN]
  /\ told \subseteq Contracts /\ blips \in Nat /\ alarms \in Nat
  /\ spent \in [{"submits", "faults"} -> Nat]

Init ==
  /\ now = 0 /\ up = TRUE /\ timer = FALSE /\ ran = FALSE
  /\ rows = Contracts /\ ended = {} /\ endedAt = [c \in Contracts |-> 0]
  /\ named = Contracts /\ recorded = {}
  /\ submittedAt = [c \in Contracts |-> 0] /\ acked = {} /\ addressed = {}
  /\ outcome = [c \in Contracts |-> "none"]
  /\ running = Contracts
  /\ refunds = [c \in Contracts |-> 0] /\ mails = [c \in Contracts |-> 0]
  /\ tab = [t \in Tabs |-> Closed] /\ sweep = Idle /\ night = Asleep
  /\ told = {} /\ blips = 0 /\ alarms = 2
  /\ spent = [k \in {"submits", "faults"} |-> 0]

Spend(kind, bound) ==
  /\ spent[kind] < bound
  /\ spent' = [spent EXCEPT ![kind] = @ + 1]

----------------------------------------------------------------------------
(* The dialog *)

IsWithinWindow == now < Window

Goto(t, at) == tab' = [tab EXCEPT ![t].at = at]
About(t, c) == tab[t].of = {c}

(* The dashboard loads: the control is there within the window until the    *)
(* contract is withdrawn from, for the subscriber only.                     *)
OpenDialog(t, c) ==
  /\ up /\ tab[t].at = "closed"
  /\ c \in rows \cap named /\ c \notin recorded /\ IsWithinWindow
  /\ tab' = [tab EXCEPT ![t] = [at |-> "offered", of |-> {c}]]
  /\ UNCHANGED <<now, up, db, outside, crons, told, spent>>

CloseDialog(t) ==
  /\ tab[t].at = "offered"
  /\ tab' = [tab EXCEPT ![t] = Closed]
  /\ UNCHANGED <<now, up, db, outside, crons, told, spent>>

(* One request; its button is disabled meanwhile.  After an error the dialog *)
(* is offered again.                                                         *)
Submit(t) ==
  /\ tab[t].at = "offered" /\ night.at = "idle"
  /\ Spend("submits", MaxSubmits)
  /\ IF up THEN Goto(t, "require") ELSE UNCHANGED tab
  /\ UNCHANGED <<now, up, db, outside, crons, told>>

Refuse(t) == tab' = [tab EXCEPT ![t].at = "offered"]

----------------------------------------------------------------------------
(* The route *)

Require(t, c) ==   \* the row exists and the caller is its subscriber
  /\ tab[t].at = "require" /\ About(t, c)
  /\ IF c \in rows \cap named THEN Goto(t, "find") ELSE Refuse(t)
  /\ UNCHANGED <<now, up, db, outside, crons, told, spent>>

FindLatest(t, c) ==   \* the guild's name is read too, and may be missing
  /\ tab[t].at = "find" /\ About(t, c)
  /\ IF c \in recorded \/ ~IsWithinWindow THEN Refuse(t) ELSE Goto(t, "record")
  /\ UNCHANGED <<now, up, db, outside, crons, told, spent>>

Insert(c) ==
  /\ recorded' = recorded \cup {c}
  /\ submittedAt' = [submittedAt EXCEPT ![c] = now]
  /\ addressed' = addressed \cup {c}
  /\ UNCHANGED <<rows, ended, endedAt, named, acked, outcome>>

RecordUnguarded(t, c) ==   \* fault: the returned row is not looked at
  /\ tab[t].at = "record" /\ About(t, c)
  /\ Goto(t, "send")
  /\ IF c \in recorded THEN UNCHANGED db ELSE Insert(c)
  /\ UNCHANGED <<now, up, outside, crons, told, spent>>

(* INSERT ON CONFLICT DO NOTHING: the loser of a race owns no effects. *)
Record(t, c) ==
  /\ tab[t].at = "record" /\ About(t, c)
  /\ IF c \in recorded
     THEN Refuse(t) /\ UNCHANGED db
     ELSE Goto(t, "send") /\ Insert(c)
  /\ UNCHANGED <<now, up, outside, crons, told, spent>>

SendMail(t, c) ==   \* accepted by the mail server
  /\ tab[t].at = "send" /\ About(t, c)
  /\ mails' = [mails EXCEPT ![c] = IF @ = 2 THEN 2 ELSE @ + 1]   \* 2: more than once
  /\ Goto(t, "mark")
  /\ UNCHANGED <<now, up, db, running, refunds, crons, told, spent>>

MarkAcknowledged(t, c) ==
  /\ tab[t].at = "mark" /\ About(t, c)
  /\ acked' = acked \cup ({c} \cap recorded)
  /\ Goto(t, "lookup")
  /\ UNCHANGED <<now, up, rows, ended, endedAt, named, recorded, submittedAt, addressed,
                 outcome, outside, crons, told, spent>>

(* Paddle has a captured payment, or none (the contract is in its trial) and *)
(* that is written at once.                                                  *)
FindRefundable(t, c) ==
  /\ tab[t].at = "lookup" /\ About(t, c)
  /\ \/ Goto(t, "raise") /\ UNCHANGED outcome
     \/ Goto(t, "cancel") /\ outcome' = [outcome EXCEPT ![c] = "no_captured_payment"]
  /\ UNCHANGED <<now, up, rows, ended, endedAt, named, recorded, submittedAt, acked,
                 addressed, outside, crons, told, spent>>

RefundTransaction(t, c) ==
  /\ tab[t].at = "raise" /\ About(t, c)
  /\ refunds' = [refunds EXCEPT ![c] = @ + 1]
  /\ Goto(t, "note")
  /\ UNCHANGED <<now, up, db, running, mails, crons, told, spent>>

RecordRefundOutcome(t, c) ==   \* with the adjustment's id, or with the failure
  /\ tab[t].at \in {"note", "fail"} /\ About(t, c)
  /\ outcome' = [outcome EXCEPT ![c] = IF tab[t].at = "note" THEN "raised" ELSE "failed"]
  /\ Goto(t, "cancel")
  /\ UNCHANGED <<now, up, rows, ended, endedAt, named, recorded, submittedAt, acked,
                 addressed, outside, crons, told, spent>>

CancelImmediately(t, c) ==   \* already canceled is a success
  /\ tab[t].at = "cancel" /\ About(t, c)
  /\ running' = running \ {c}
  /\ Goto(t, "apply")
  /\ UNCHANGED <<now, up, db, refunds, mails, crons, told, spent>>

EndRow(c) ==
  /\ ended' = ended \cup ({c} \cap rows)
  /\ endedAt' = IF c \in rows \ ended THEN [endedAt EXCEPT ![c] = now] ELSE endedAt
  /\ UNCHANGED <<rows, named, recorded, submittedAt, acked, addressed, outcome>>

(* applyPaddleSubscription and enforceTransition, then the answer; the page  *)
(* is reloaded after the receipt.                                            *)
ApplyEnd(t, c) ==
  /\ tab[t].at = "apply" /\ About(t, c)
  /\ EndRow(c)
  /\ tab' = [tab EXCEPT ![t] = Closed]
  /\ UNCHANGED <<now, up, outside, crons, told, spent>>

(* An await of the route rejects.  A write or a call to Paddle may have been *)
(* done all the same.  Each effect catches its own failure, except that the  *)
(* refund's catch writes once more, and that write may fail too.             *)
RouteFault(t, c) ==
  /\ About(t, c) /\ Spend("faults", MaxFaults)
  /\ \/ tab[t].at \in {"require", "find"} /\ Refuse(t) /\ UNCHANGED <<db, outside, told>>
     \/ tab[t].at = "record" /\ Refuse(t)
        /\ (UNCHANGED db \/ (c \notin recorded /\ Insert(c))) /\ UNCHANGED <<outside, told>>
     \/ tab[t].at \in {"send", "mark"} /\ Goto(t, "lookup") /\ UNCHANGED <<db, outside, told>>
     \/ tab[t].at \in {"lookup", "note"} /\ Goto(t, "fail") /\ UNCHANGED <<db, outside, told>>
     \/ tab[t].at = "raise" /\ Goto(t, "fail")
        /\ \E n \in {0, 1} : refunds' = [refunds EXCEPT ![c] = @ + n]
        /\ UNCHANGED <<db, running, mails, told>>
     \/ tab[t].at = "fail" /\ Refuse(t) /\ UNCHANGED <<db, outside, told>>
     \/ tab[t].at \in {"cancel", "apply"} /\ tab' = [tab EXCEPT ![t] = Closed] /\ told' = told \cup {c}
        /\ UNCHANGED <<db, outside>>
  /\ UNCHANGED <<now, up, crons>>

----------------------------------------------------------------------------
(* The acknowledgement retry, every ten minutes, one at a time *)

StartSweep ==   \* one that finds nothing does nothing
  /\ up /\ sweep.at = "idle" /\ ~(recorded \subseteq acked)
  /\ sweep' = [sweep EXCEPT !.at = "find"]
  /\ UNCHANGED <<now, up, db, outside, tab, night, timer, ran, blips, alarms, told, spent>>

(* On to a pending record, or done. *)
Onward(left) ==
  sweep' = IF left = {} THEN Idle ELSE [at |-> "send", left |-> left, sent |-> {}]

FindOfToday ==   \* fault: a sweep that looks back for one tick only
  /\ sweep.at = "find"
  /\ Onward({c \in recorded \ acked : submittedAt[c] = now})
  /\ UNCHANGED <<now, up, db, outside, tab, night, timer, ran, blips, alarms, told, spent>>

FindUnacknowledged ==
  /\ sweep.at = "find"
  /\ Onward(recorded \ acked)
  /\ UNCHANGED <<now, up, db, outside, tab, night, timer, ran, blips, alarms, told, spent>>

Newest(S) == {c \in S : \A k \in S : submittedAt[k] <= submittedAt[c]}

ResendMail(c) ==   \* from the row that was listed; its address is in there
  /\ sweep.at = "send" /\ c \in Newest(sweep.left)
  /\ mails' = [mails EXCEPT ![c] = IF @ = 2 THEN 2 ELSE @ + 1]
  /\ sweep' = [at |-> "mark", left |-> sweep.left \ {c}, sent |-> {c}]
  /\ UNCHANGED <<now, up, db, running, refunds, tab, night, timer, ran, blips, alarms,
                 told, spent>>

RemarkUnsent(c) ==   \* fault: stamped although the send failed
  /\ \/ sweep.at = "send" /\ c \in Newest(sweep.left)
     \/ sweep.at = "mark" /\ c \in sweep.sent
  /\ acked' = acked \cup ({c} \cap recorded)
  /\ Onward(sweep.left \ {c})
  /\ UNCHANGED <<now, up, rows, ended, endedAt, named, recorded, submittedAt, addressed,
                 outcome, outside, tab, night, timer, ran, blips, alarms, told, spent>>

MarkResent(c) ==
  /\ sweep.at = "mark" /\ c \in sweep.sent
  /\ acked' = acked \cup ({c} \cap recorded)
  /\ Onward(sweep.left)
  /\ UNCHANGED <<now, up, rows, ended, endedAt, named, recorded, submittedAt, addressed,
                 outcome, outside, tab, night, timer, ran, blips, alarms, told, spent>>

SweepFault ==   \* the query fails, a send or a mark does: alerted, on to the next
  /\ Spend("faults", MaxFaults)
  /\ \/ sweep.at = "find" /\ sweep' = Idle
     \/ sweep.at = "send" /\ \E c \in Newest(sweep.left) : Onward(sweep.left \ {c})
     \/ sweep.at = "mark" /\ Onward(sweep.left)
  /\ UNCHANGED <<now, up, db, outside, tab, night, timer, ran, blips, alarms, told>>

----------------------------------------------------------------------------
(* The nightly run and its retention *)

Begin(rerun) ==
  /\ night' = [at |-> "reconcile", rerun |-> rerun]
  /\ timer' = FALSE

NoRequest == \A t \in Tabs : tab[t].at \in Dialog

StartNight ==   \* the cron's tick; nothing while a run is in flight
  /\ up /\ night.at = "idle" /\ NoRequest
  /\ ~ran \/ now = Horizon
  /\ Begin(FALSE)
  /\ ran' = TRUE
  /\ UNCHANGED <<now, up, db, outside, tab, sweep, blips, alarms, told, spent>>

Rerun ==   \* half an hour later
  /\ up /\ timer /\ night.at = "idle" /\ NoRequest
  /\ Begin(TRUE)
  /\ UNCHANGED <<now, up, db, outside, tab, sweep, ran, blips, alarms, told, spent>>

(* SubscriptionSync has what it reconciles; here its rows learn that the     *)
(* contract is over.                                                         *)
Reconcile ==
  /\ night.at = "reconcile"
  /\ night' = [night EXCEPT !.at = "ids"]
  /\ blips' = 0
  /\ ended' = ended \cup (rows \ running)
  /\ endedAt' = [c \in Contracts |-> IF c \in rows \ (running \cup ended) THEN now
                                     ELSE endedAt[c]]
  /\ UNCHANGED <<now, up, rows, named, recorded, submittedAt, acked, addressed, outcome,
                 outside, tab, sweep, timer, ran, alarms, told, spent>>

Least(a, b) == IF a < b THEN a ELSE b

ReconcileFailsLoudly ==   \* fault: the alert does not wait for the rerun
  /\ night.at = "reconcile"
  /\ blips < MaxBlips
  /\ night' = Asleep
  /\ blips' = blips + 1
  /\ timer' = ~night.rerun
  /\ alarms' = Least(alarms, blips + 1)
  /\ UNCHANGED <<now, up, db, outside, tab, sweep, ran, told, spent>>

ReconcileFails ==   \* the first failure asks for a rerun, a rerun's alerts
  /\ night.at = "reconcile"
  /\ blips < MaxBlips
  /\ night' = Asleep
  /\ blips' = blips + 1
  /\ IF night.rerun
     THEN alarms' = Least(alarms, blips + 1) /\ UNCHANGED timer
     ELSE timer' = TRUE /\ UNCHANGED alarms
  /\ UNCHANGED <<now, up, db, outside, tab, sweep, ran, told, spent>>

(* guardMassAction: a batch over the cap is refused as a whole. *)
Batch(due) == IF Cardinality(due) <= Cap THEN due ELSE {}

Past(age, at) == {c \in Contracts : at[c] + age <= now}

Over == rows \cap ended   \* TERMINAL_STATUS

EraseSubscriberIds ==
  /\ night.at = "ids"
  /\ night' = [night EXCEPT !.at = "rows"]
  /\ named' = named \ Batch(named \cap Over \cap Past(EraseAge, endedAt))
  /\ UNCHANGED <<now, up, rows, ended, endedAt, recorded, submittedAt, acked, addressed,
                 outcome, outside, tab, sweep, timer, ran, blips, alarms, told, spent>>

DeleteAccountingRows ==
  /\ night.at = "rows"
  /\ night' = [night EXCEPT !.at = "addresses"]
  /\ LET gone == Batch(Over \cap Past(DeleteAge, endedAt)) IN
     /\ rows' = rows \ gone
     /\ named' = named \ gone
     /\ ended' = ended \ gone
  /\ UNCHANGED <<now, up, endedAt, recorded, submittedAt, acked, addressed, outcome,
                 outside, tab, sweep, timer, ran, blips, alarms, told, spent>>

EraseIdentifiersOwed ==   \* fault: acknowledgedAt is not asked for
  /\ night.at = "addresses"
  /\ night' = [night EXCEPT !.at = "records"]
  /\ addressed' = addressed \ Batch(addressed \cap Past(EraseAge, submittedAt))
  /\ UNCHANGED <<now, up, rows, ended, endedAt, named, recorded, submittedAt, acked,
                 outcome, outside, tab, sweep, timer, ran, blips, alarms, told, spent>>

EraseIdentifiersSkipped ==   \* fault: the step does not run
  /\ night.at = "addresses"
  /\ night' = [night EXCEPT !.at = "records"]
  /\ UNCHANGED <<now, up, db, outside, tab, sweep, timer, ran, blips, alarms, told, spent>>

EraseIdentifiers ==
  /\ night.at = "addresses"
  /\ night' = [night EXCEPT !.at = "records"]
  /\ addressed' = addressed \ Batch(acked \cap addressed \cap Past(EraseAge, submittedAt))
  /\ UNCHANGED <<now, up, rows, ended, endedAt, named, recorded, submittedAt, acked,
                 outcome, outside, tab, sweep, timer, ran, blips, alarms, told, spent>>

DeleteWithdrawals ==
  /\ night.at = "records"
  /\ night' = Asleep
  /\ LET gone == Batch(recorded \cap Past(DeleteAge, submittedAt)) IN
     /\ recorded' = recorded \ gone
     /\ acked' = acked \ gone
     /\ addressed' = addressed \ gone
  /\ UNCHANGED <<now, up, rows, ended, endedAt, named, submittedAt, outcome, outside, tab,
                 sweep, timer, ran, blips, alarms, told, spent>>

RetentionFault ==   \* a step that fails is logged; the next one runs
  /\ Spend("faults", MaxFaults)
  /\ night' = CASE night.at = "ids"       -> [night EXCEPT !.at = "rows"]
                [] night.at = "rows"      -> [night EXCEPT !.at = "addresses"]
                [] night.at = "addresses" -> [night EXCEPT !.at = "records"]
                [] night.at = "records"   -> Asleep
                [] OTHER                  -> night
  /\ night.at \in {"ids", "rows", "addresses", "records"}
  /\ UNCHANGED <<now, up, db, outside, tab, sweep, timer, ran, blips, alarms, told>>

----------------------------------------------------------------------------
(* Paddle, the clock, crashes *)

EndsInPaddle(c) ==   \* cancelled in the portal, or unpaid
  /\ c \in running
  /\ running' = running \ {c}
  /\ UNCHANGED <<now, up, db, refunds, mails, tab, crons, told, spent>>

Quiet ==
  /\ NoRequest
  /\ sweep.at = "idle" /\ night.at = "idle"

Tick ==
  /\ Quiet /\ now < Horizon
  /\ now' = now + 1
  /\ ran' = FALSE
  /\ UNCHANGED <<up, db, outside, tab, sweep, night, timer, blips, alarms, told, spent>>

Crash ==
  /\ up
  /\ Spend("faults", MaxFaults)
  /\ up' = FALSE
  /\ tab' = [t \in Tabs |-> IF tab[t].at \in InRoute
                            THEN [tab[t] EXCEPT !.at = "offered"]
                            ELSE tab[t]]
  /\ sweep' = Idle /\ night' = Asleep /\ timer' = FALSE
  /\ UNCHANGED <<now, db, outside, ran, blips, alarms, told>>

Restart ==   \* the start-up runs the reconciles
  /\ ~up
  /\ up' = TRUE
  /\ Begin(FALSE)
  /\ UNCHANGED <<now, db, outside, tab, sweep, ran, blips, alarms, told, spent>>

RouteStep(t) ==
  \/ \E c \in Contracts :
       \/ Require(t, c) \/ FindLatest(t, c) \/ Record(t, c)
       \/ SendMail(t, c) \/ MarkAcknowledged(t, c)
       \/ FindRefundable(t, c) \/ RefundTransaction(t, c) \/ RecordRefundOutcome(t, c)
       \/ CancelImmediately(t, c) \/ ApplyEnd(t, c)

SweepStep == FindUnacknowledged \/ \E c \in Contracts : ResendMail(c) \/ MarkResent(c)

Retain == EraseSubscriberIds \/ DeleteAccountingRows \/ EraseIdentifiers \/ DeleteWithdrawals

Next ==
  \/ \E t \in Tabs : CloseDialog(t) \/ Submit(t) \/ RouteStep(t)
  \/ \E t \in Tabs, c \in Contracts : OpenDialog(t, c) \/ RouteFault(t, c)
  \/ StartSweep \/ SweepStep \/ SweepFault
  \/ StartNight \/ Rerun \/ Reconcile \/ ReconcileFails \/ Retain \/ RetentionFault
  \/ \E c \in Contracts : EndsInPaddle(c)
  \/ Tick \/ Crash \/ Restart

Spec == Init /\ [][Next]_vars

(* Awaits return, the crons run and go on, days pass, a dead process comes   *)
(* back.  Nothing is assumed of subscribers and of Paddle.                   *)
Fairness ==
  /\ \A t \in Tabs : WF_vars(RouteStep(t))
  /\ WF_vars(StartSweep) /\ WF_vars(SweepStep)
  /\ WF_vars(StartNight) /\ WF_vars(Reconcile) /\ WF_vars(Retain)
  /\ SF_vars(Tick) /\ WF_vars(Restart)

FairSpec == Spec /\ Fairness

----------------------------------------------------------------------------
(* Properties *)

(* Whatever is submitted twice, answered late or retried: one refund at most *)
(* is raised for a contract, and none without a recorded withdrawal ("the    *)
(* winner owns the effects, so this request must not raise a second refund"). *)
RefundedOnce ==
  \A c \in Contracts :
    refunds[c] <= 1 /\ (refunds[c] = 1 => c \in recorded \/ now >= DeleteAge)

(* acknowledgedAt is a proof: "a row claiming a statutory confirmation went  *)
(* out when it did not is worse than no row".                                *)
AckedWasMailed == \A c \in acked : mails[c] > 0

(* What an outstanding acknowledgement needs is not erased, however old it   *)
(* is ("erasing the address would make it undischargeable forever").         *)
DutyKeepsAddress == recorded \ acked \subseteq addressed

(* One blip never alerts: an alert means that two nightly runs failed with   *)
(* none succeeding in between.                                               *)
TwoBlipsAlert == alarms >= 2

(* Every recorded withdrawal is acknowledged in the end, or its eleven years *)
(* are over.                                                                 *)
Acknowledged ==
  \A c \in Contracts :
    c \in recorded ~> (c \in acked \/ now >= submittedAt[c] + DeleteAge)

(* An acknowledged withdrawal loses its address when its time has come.      *)
AddressErased == \A c \in Contracts : c \in acked ~> c \notin addressed

(* A recorded withdrawal ends the contract, or somebody is told to end it    *)
(* ("Never throws -- the nightly reconcile is the backstop").                *)
WithdrawnEnds == \A c \in Contracts : c \in recorded ~> (c \notin running \/ c \in told)
=============================================================================
