------------------------- MODULE Withdrawal_proofs -------------------------
(* What holds of every withdrawal, whatever the number of subscribers, tabs, *)
(* submissions, faults and days: the types, one refund, no acknowledgement   *)
(* claimed that was not sent, no address erased that is still owed one, and  *)
(* no alert for a single failed night.                                       *)
EXTENDS Withdrawal, TLAPS

----------------------------------------------------------------------------
(* Types                                                                    *)

TabState == [at : Dialog \cup InRoute, of : {{}} \cup {{c} : c \in Contracts}]

(* Moving a dialog or a request on keeps what it is about.                  *)
LEMMA GotoTab ==
  ASSUME TypeOK, NEW t \in Tabs, NEW at, Goto(t, at)
  PROVE  /\ tab'[t].at = at /\ tab'[t].of = tab[t].of
         /\ \A u \in Tabs : u # t => tab'[u] = tab[u]
<1>1. tab \in [Tabs -> TabState]
  BY DEF TypeOK, TabState
<1>2. tab[t] \in TabState
  BY <1>1
<1>3. /\ [tab[t] EXCEPT !.at = at].at = at
      /\ [tab[t] EXCEPT !.at = at].of = tab[t].of
  BY <1>2 DEF TabState
<1> QED BY <1>1, <1>3 DEF Goto

LEMMA GotoTypes ==
  ASSUME TypeOK, NEW t \in Tabs, tab[t].at # "closed",
         NEW at \in (Dialog \cup InRoute) \ {"closed"}, Goto(t, at)
  PROVE  /\ tab' \in [Tabs -> TabState]
         /\ \A u \in Tabs : (tab'[u].at = "closed") <=> (tab'[u].of = {})
<1>1. tab \in [Tabs -> TabState]
  BY DEF TypeOK, TabState
<1>2. [tab[t] EXCEPT !.at = at] \in TabState
  BY <1>1 DEF TabState
<1>3. tab' \in [Tabs -> TabState]
  BY <1>1, <1>2 DEF Goto
<1>4. \A u \in Tabs : (tab[u].at = "closed") <=> (tab[u].of = {})
  BY DEF TypeOK
<1>5. ASSUME NEW u \in Tabs PROVE (tab'[u].at = "closed") <=> (tab'[u].of = {})
  BY <1>4, GotoTab
<1> QED BY <1>3, <1>5

LEMMA CloseTypes ==
  ASSUME TypeOK, NEW t \in Tabs, tab' = [tab EXCEPT ![t] = Closed]
  PROVE  /\ tab' \in [Tabs -> TabState]
         /\ \A u \in Tabs : (tab'[u].at = "closed") <=> (tab'[u].of = {})
<1>1. tab \in [Tabs -> TabState]
  BY DEF TypeOK, TabState
<1>2. Closed \in TabState /\ Closed.at = "closed" /\ Closed.of = {}
  BY DEF Closed, TabState, Dialog
<1>3. tab' \in [Tabs -> TabState]
  BY <1>1, <1>2 DEF Closed
<1>4. ASSUME NEW u \in Tabs PROVE (tab'[u].at = "closed") <=> (tab'[u].of = {})
  BY <1>1, <1>2 DEF TypeOK
<1> QED BY <1>3, <1>4

LEMMA SpendTypes ==
  ASSUME TypeOK, NEW kind \in {"submits", "faults"}, NEW bound, Spend(kind, bound)
  PROVE  spent' \in [{"submits", "faults"} -> Nat]
  BY DEF TypeOK, Spend

(* A mail more, capped; a batch is a part of what is due.                    *)
LEMMA MailMore ==
  ASSUME TypeOK, NEW c \in Contracts,
         mails' = [mails EXCEPT ![c] = IF @ = 2 THEN 2 ELSE @ + 1]
  PROVE  /\ mails' \in [Contracts -> Nat] /\ mails'[c] # 0
         /\ \A k \in Contracts : mails[k] # 0 => mails'[k] # 0
  BY DEF TypeOK

LEMMA BatchPart == \A due : Batch(due) \subseteq due
  BY DEF Batch

LEMMA OnwardTypes ==
  ASSUME NEW left \in SUBSET Contracts, Onward(left)
  PROVE  /\ sweep' \in [at : {"idle", "find", "send", "mark"}, left : SUBSET Contracts,
                         sent : SUBSET Contracts]
         /\ sweep'.sent = {}
  BY DEF Onward, Idle

(* The dialog keeps the types.                                              *)
LEMMA DialogTypes ==
  ASSUME TypeOK, NEW t \in Tabs,
         CloseDialog(t) \/ Submit(t) \/ \E c \in Contracts : OpenDialog(t, c)
  PROVE  TypeOK'
<1>1. CASE CloseDialog(t)
  BY <1>1, CloseTypes DEF CloseDialog, TypeOK, TabState, db, outside, crons
<1>2. CASE Submit(t)
  <2>1. spent' \in [{"submits", "faults"} -> Nat]
    BY <1>2, SpendTypes DEF Submit
  <2>2. CASE Goto(t, "require")
    BY <1>2, <2>1, <2>2, GotoTypes DEF Submit, TypeOK, TabState, InRoute, Dialog, db, outside, crons
  <2>3. CASE UNCHANGED tab
    BY <1>2, <2>1, <2>3 DEF Submit, TypeOK, db, outside, crons
  <2> QED BY <1>2, <2>2, <2>3 DEF Submit
<1>3. ASSUME NEW c \in Contracts, OpenDialog(t, c) PROVE TypeOK'
  <2> DEFINE new == [at |-> "offered", of |-> {c}]
  <2>1. new \in TabState /\ new.at # "closed" /\ new.of # {}
    BY DEF TabState, Dialog
  <2> HIDE DEF new
  <2>2. tab' = [tab EXCEPT ![t] = new]
    BY <1>3 DEF OpenDialog, new
  <2>3. tab' \in [Tabs -> TabState]
    BY <2>1, <2>2 DEF TypeOK, TabState
  <2>4. \A u \in Tabs : (tab'[u].at = "closed") <=> (tab'[u].of = {})
    BY <2>1, <2>2 DEF TypeOK
  <2> QED BY <1>3, <2>3, <2>4 DEF OpenDialog, TypeOK, TabState, db, outside, crons
<1> QED BY <1>1, <1>2, <1>3

(* So do the steps of the route.                                            *)
LEMMA RouteTypes ==
  ASSUME TypeOK, NEW t \in Tabs, RouteStep(t)
  PROVE  TypeOK'
<1> DEFINE Moved == /\ tab' \in [Tabs -> TabState]
                    /\ \A u \in Tabs : (tab'[u].at = "closed") <=> (tab'[u].of = {})
<1>1. ASSUME NEW at \in (Dialog \cup InRoute) \ {"closed"}, Goto(t, at), tab[t].at # "closed"
      PROVE  Moved
  BY <1>1, GotoTypes
<1>2. ASSUME Refuse(t), tab[t].at # "closed" PROVE Moved
  <2>1. Goto(t, "offered") /\ "offered" \in (Dialog \cup InRoute) \ {"closed"}
    BY <1>2 DEF Refuse, Goto, Dialog
  <2> QED BY <1>2, <2>1, GotoTypes
<1>3. {"find", "record", "send", "mark", "lookup", "raise", "note", "cancel", "apply"}
        \subseteq (Dialog \cup InRoute) \ {"closed"}
  BY DEF Dialog, InRoute, Effects
<1> HIDE DEF Moved
<1>4. ASSUME Moved, UNCHANGED <<now, up, db, outside, crons, told, spent>> PROVE TypeOK'
  BY <1>4 DEF Moved, TypeOK, TabState, db, outside, crons
<1> SUFFICES ASSUME NEW c \in Contracts,
               \/ Require(t, c) \/ FindLatest(t, c) \/ Record(t, c)
               \/ SendMail(t, c) \/ MarkAcknowledged(t, c)
               \/ FindRefundable(t, c) \/ RefundTransaction(t, c) \/ RecordRefundOutcome(t, c)
               \/ CancelImmediately(t, c) \/ ApplyEnd(t, c)
    PROVE TypeOK'
  BY DEF RouteStep
<1>5. CASE Require(t, c)
  BY <1>1, <1>2, <1>3, <1>4, <1>5 DEF Require
<1>6. CASE FindLatest(t, c)
  BY <1>1, <1>2, <1>3, <1>4, <1>6 DEF FindLatest
<1>7. CASE Record(t, c)
  <2>1. Moved
    BY <1>1, <1>2, <1>3, <1>7 DEF Record
  <2>2. CASE UNCHANGED db
    BY <1>7, <1>4, <2>1, <2>2 DEF Record
  <2>3. CASE Insert(c)
    BY <1>7, <2>1, <2>3 DEF Record, Insert, Moved, TypeOK, TabState, outside, crons
  <2> QED BY <1>7, <2>2, <2>3 DEF Record
<1>8. CASE SendMail(t, c)
  BY <1>1, <1>3, <1>8, MailMore DEF SendMail, Moved, TypeOK, TabState, db, crons
<1>9. CASE MarkAcknowledged(t, c)
  BY <1>1, <1>3, <1>9 DEF MarkAcknowledged, Moved, TypeOK, TabState, outside, crons
<1>10. CASE FindRefundable(t, c)
  BY <1>1, <1>3, <1>10 DEF FindRefundable, Moved, TypeOK, TabState, outside, crons
<1>11. CASE RefundTransaction(t, c)
  <2>1. refunds' \in [Contracts -> Nat]
    BY <1>11 DEF RefundTransaction, TypeOK
  <2>2. Moved
    BY <1>1, <1>3, <1>11 DEF RefundTransaction
  <2> QED BY <1>11, <2>1, <2>2 DEF RefundTransaction, Moved, TypeOK, TabState, db, crons
<1>12. CASE RecordRefundOutcome(t, c)
  BY <1>1, <1>3, <1>12 DEF RecordRefundOutcome, Moved, TypeOK, TabState, outside, crons
<1>13. CASE CancelImmediately(t, c)
  BY <1>1, <1>3, <1>13 DEF CancelImmediately, Moved, TypeOK, TabState, db, crons
<1>14. CASE ApplyEnd(t, c)
  <2>1. Moved
    BY <1>14, CloseTypes DEF ApplyEnd, Moved
  <2> QED BY <1>14, <2>1 DEF ApplyEnd, EndRow, Moved, TypeOK, TabState, outside, crons
<1> QED BY <1>5, <1>6, <1>7, <1>8, <1>9, <1>10, <1>11, <1>12, <1>13, <1>14

(* So does a failure of one of its awaits.                                  *)
LEMMA FaultTypes ==
  ASSUME TypeOK, NEW t \in Tabs, NEW c \in Contracts, RouteFault(t, c)
  PROVE  TypeOK'
<1> DEFINE Moved == /\ tab' \in [Tabs -> TabState]
                    /\ \A u \in Tabs : (tab'[u].at = "closed") <=> (tab'[u].of = {})
<1>1. tab[t].at # "closed"
  BY DEF RouteFault, About, TypeOK
<1>2. {"offered", "lookup", "fail"} \subseteq (Dialog \cup InRoute) \ {"closed"}
  BY DEF Dialog, InRoute, Effects
<1>3. ASSUME Refuse(t) \/ Goto(t, "lookup") \/ Goto(t, "fail") \/ tab' = [tab EXCEPT ![t] = Closed]
      PROVE  Moved
  <2>1. Refuse(t) => Goto(t, "offered")
    BY DEF Refuse, Goto
  <2> QED BY <1>1, <1>2, <1>3, <2>1, GotoTypes, CloseTypes
<1>4. Moved
  BY <1>3 DEF RouteFault
<1>5. spent' \in [{"submits", "faults"} -> Nat] /\ UNCHANGED <<now, up, crons>>
  BY SpendTypes DEF RouteFault
<1>6. UNCHANGED db \/ Insert(c)
  BY DEF RouteFault
<1>7. /\ running' = running /\ mails' = mails
      /\ refunds' = refunds \/ \E n \in {0, 1} : refunds' = [refunds EXCEPT ![c] = @ + n]
      /\ told' \in {told, told \cup {c}}
  BY DEF RouteFault, outside
<1>8. refunds' \in [Contracts -> Nat]
  BY <1>7 DEF TypeOK
<1>9. told' \subseteq Contracts
  BY <1>7 DEF TypeOK
<1>10. CASE UNCHANGED db
  BY <1>4, <1>5, <1>7, <1>8, <1>9, <1>10 DEF Moved, TypeOK, TabState, db, crons
<1>11. CASE Insert(c)
  BY <1>4, <1>5, <1>7, <1>8, <1>9, <1>11 DEF Insert, Moved, TypeOK, TabState, crons
<1> QED BY <1>6, <1>10, <1>11

(* The retry of acknowledgements keeps the types.                           *)
LEMMA SweepTypes ==
  ASSUME TypeOK, StartSweep \/ SweepStep \/ SweepFault
  PROVE  TypeOK'
<1> DEFINE Sweeping == [at : {"idle", "find", "send", "mark"}, left : SUBSET Contracts,
                        sent : SUBSET Contracts]
<1>1. sweep \in Sweeping /\ Idle \in Sweeping
  BY DEF TypeOK, Idle
<1>2. ASSUME NEW left \in SUBSET Contracts, Onward(left) PROVE sweep' \in Sweeping
  BY <1>2, OnwardTypes
<1>3. CASE StartSweep
  BY <1>3 DEF StartSweep, TypeOK, db, outside
<1>4. CASE FindUnacknowledged
  <2>1. sweep' \in Sweeping
    BY <1>2, <1>4 DEF FindUnacknowledged, TypeOK
  <2> QED BY <1>4, <2>1 DEF FindUnacknowledged, TypeOK, db, outside
<1>5. ASSUME NEW c \in Contracts, ResendMail(c) PROVE TypeOK'
  <2>1. sweep' \in Sweeping
    BY <1>1, <1>5 DEF ResendMail
  <2> QED BY <1>5, <2>1, MailMore DEF ResendMail, TypeOK, db
<1>6. ASSUME NEW c \in Contracts, MarkResent(c) PROVE TypeOK'
  <2>1. sweep' \in Sweeping
    BY <1>1, <1>2, <1>6 DEF MarkResent
  <2> QED BY <1>6, <2>1 DEF MarkResent, TypeOK, outside
<1>7. CASE SweepFault
  <2>1. spent' \in [{"submits", "faults"} -> Nat]
    BY <1>7, SpendTypes DEF SweepFault
  <2>2. sweep.left \in SUBSET Contracts /\ \A c : sweep.left \ {c} \in SUBSET Contracts
    BY <1>1
  <2>3. sweep' \in Sweeping
    BY <1>1, <1>2, <1>7, <2>2 DEF SweepFault
  <2> QED BY <1>7, <2>1, <2>3 DEF SweepFault, TypeOK, db, outside
<1> QED BY <1>3, <1>4, <1>5, <1>6, <1>7 DEF SweepStep

(* So do the nightly run, its reruns and its retention.                      *)
LEMMA NightTypes ==
  ASSUME TypeOK,
         StartNight \/ Rerun \/ Reconcile \/ ReconcileFails \/ Retain \/ RetentionFault
  PROVE  TypeOK'
<1> DEFINE Stage == [at : {"idle"} \cup Phases, rerun : BOOLEAN]
<1>1. night \in Stage /\ Asleep \in Stage
  BY DEF TypeOK, Asleep
<1>2. ASSUME NEW rerun \in BOOLEAN, Begin(rerun) PROVE night' \in Stage /\ timer' \in BOOLEAN
  BY <1>2 DEF Begin, Phases
<1>3. \A at \in Phases : [night EXCEPT !.at = at] \in Stage
  BY <1>1
<1>4. CASE StartNight
  BY <1>2, <1>4 DEF StartNight, TypeOK, db, outside
<1>5. CASE Rerun
  BY <1>2, <1>5 DEF Rerun, TypeOK, db, outside
<1>6. CASE Reconcile
  <2>1. night' \in Stage
    BY <1>3, <1>6 DEF Reconcile, Phases
  <2>2. endedAt' \in [Contracts -> 0..Horizon]
    BY <1>6 DEF Reconcile, TypeOK
  <2> QED BY <1>6, <2>1, <2>2 DEF Reconcile, TypeOK, outside
<1>7. CASE ReconcileFails
  <2>1. Least(alarms, blips + 1) \in Nat /\ blips + 1 \in Nat
    BY DEF Least, TypeOK
  <2> QED BY <1>1, <1>7, <2>1 DEF ReconcileFails, TypeOK, db, outside
<1>8. CASE EraseSubscriberIds
  <2>1. night' \in Stage
    BY <1>3, <1>8 DEF EraseSubscriberIds, Phases
  <2> QED BY <1>8, <2>1 DEF EraseSubscriberIds, TypeOK, outside
<1>9. CASE DeleteAccountingRows
  <2>1. night' \in Stage
    BY <1>3, <1>9 DEF DeleteAccountingRows, Phases
  <2> QED BY <1>9, <2>1 DEF DeleteAccountingRows, TypeOK, outside
<1>10. CASE EraseIdentifiers
  <2>1. night' \in Stage
    BY <1>3, <1>10 DEF EraseIdentifiers, Phases
  <2> QED BY <1>10, <2>1 DEF EraseIdentifiers, TypeOK, outside
<1>11. CASE DeleteWithdrawals
  BY <1>1, <1>11 DEF DeleteWithdrawals, TypeOK, outside
<1>12. CASE RetentionFault
  <2>1. spent' \in [{"submits", "faults"} -> Nat]
    BY <1>12, SpendTypes DEF RetentionFault
  <2>2. night' \in Stage
    BY <1>1, <1>3, <1>12 DEF RetentionFault, Phases
  <2> QED BY <1>12, <2>1, <2>2 DEF RetentionFault, TypeOK, db, outside
<1> QED BY <1>4, <1>5, <1>6, <1>7, <1>8, <1>9, <1>10, <1>11, <1>12 DEF Retain

(* So do Paddle, the days and the process.                                  *)
LEMMA WorldTypes ==
  ASSUME TypeOK, (\E c \in Contracts : EndsInPaddle(c)) \/ Tick \/ Crash \/ Restart
  PROVE  TypeOK'
<1>1. ASSUME NEW c \in Contracts, EndsInPaddle(c) PROVE TypeOK'
  BY <1>1 DEF EndsInPaddle, TypeOK, db, crons
<1>2. CASE Tick
  <2>1. now' \in 0..Horizon
    BY <1>2, WithdrawalAssumption DEF Tick, TypeOK
  <2> QED BY <1>2, <2>1 DEF Tick, TypeOK, db, outside
<1>3. CASE Crash
  <2>1. spent' \in [{"submits", "faults"} -> Nat]
    BY <1>3, SpendTypes DEF Crash
  <2>2. tab \in [Tabs -> TabState] /\ "offered" \in Dialog /\ "closed" \notin InRoute
    BY DEF TypeOK, TabState, Dialog, InRoute, Effects
  <2>3. tab' = [t \in Tabs |-> IF tab[t].at \in InRoute
                               THEN [tab[t] EXCEPT !.at = "offered"] ELSE tab[t]]
    BY <1>3 DEF Crash
  <2>4. tab' \in [Tabs -> TabState]
    BY <2>2, <2>3 DEF TabState
  <2>5. ASSUME NEW t \in Tabs PROVE (tab'[t].at = "closed") <=> (tab'[t].of = {})
    <3>1. (tab[t].at = "closed") <=> (tab[t].of = {})
      BY DEF TypeOK
    <3>2. CASE tab[t].at \in InRoute
      <4>1. tab'[t].at = "offered" /\ tab'[t].of = tab[t].of
        BY <2>2, <2>3, <3>2 DEF TabState
      <4> QED BY <2>2, <3>1, <3>2, <4>1
    <3>3. CASE tab[t].at \notin InRoute
      BY <2>3, <3>1, <3>3
    <3> QED BY <3>2, <3>3
  <2> QED BY <1>3, <2>1, <2>4, <2>5 DEF Crash, TypeOK, TabState, Idle, Asleep, db, outside
<1>4. CASE Restart
  BY <1>4 DEF Restart, Begin, Phases, TypeOK, db, outside
<1> QED BY <1>1, <1>2, <1>3, <1>4

LEMMA InitTypes == Init => TypeOK
<1> SUFFICES ASSUME Init PROVE TypeOK
  OBVIOUS
<1>1. Closed \in TabState /\ Closed.at = "closed" /\ Closed.of = {}
  BY DEF Closed, TabState, Dialog
<1>2. tab \in [Tabs -> TabState] /\ \A t \in Tabs : (tab[t].at = "closed") <=> (tab[t].of = {})
  BY <1>1 DEF Init
<1>3. Horizon \in Nat
  BY WithdrawalAssumption
<1>4. /\ sweep \in [at : {"idle", "find", "send", "mark"}, left : SUBSET Contracts,
                     sent : SUBSET Contracts]
      /\ night \in [at : {"idle"} \cup Phases, rerun : BOOLEAN]
  BY DEF Init, Idle, Asleep
<1>5. /\ endedAt \in [Contracts -> 0..Horizon] /\ submittedAt \in [Contracts -> 0..Horizon]
      /\ refunds \in [Contracts -> Nat] /\ mails \in [Contracts -> Nat]
      /\ spent \in [{"submits", "faults"} -> Nat]
      /\ outcome \in [Contracts -> {"none", "no_captured_payment", "raised", "failed"}]
  BY <1>3 DEF Init
<1>6. now \in 0..Horizon /\ blips \in Nat /\ alarms \in Nat
  BY <1>3 DEF Init
<1>7. up \in BOOLEAN /\ timer \in BOOLEAN /\ ran \in BOOLEAN
  BY DEF Init
<1>8. /\ rows \subseteq Contracts /\ ended \subseteq Contracts /\ named \subseteq rows
      /\ recorded \subseteq Contracts /\ acked \subseteq recorded /\ addressed \subseteq recorded
      /\ running \subseteq Contracts /\ told \subseteq Contracts
  BY DEF Init
<1> QED BY <1>2, <1>4, <1>5, <1>6, <1>7, <1>8, Zenon DEF TypeOK, TabState

LEMMA TypeStep == TypeOK /\ [Next]_vars => TypeOK'
<1> SUFFICES ASSUME TypeOK, [Next]_vars PROVE TypeOK'
  OBVIOUS
<1>1. CASE UNCHANGED vars
  BY <1>1 DEF vars, TypeOK, db, outside, crons
<1>2. CASE Next
  BY <1>2, DialogTypes, RouteTypes, FaultTypes, SweepTypes, NightTypes, WorldTypes DEF Next
<1> QED BY <1>1, <1>2

(* Every state of the withdrawals, the crons and the retention is well      *)
(* formed: withdrawal.ts's rows, the dialog's states and the runner's flags. *)
THEOREM WithdrawalTypeCorrect == Spec => []TypeOK
  BY InitTypes, TypeStep, PTL DEF Spec

----------------------------------------------------------------------------
(* The inductive invariant                                                  *)

(* Tab t has recorded the withdrawal of c: the three effects are t's to apply. *)
Owns(t, c) == tab[t].at \in Effects /\ tab[t].of = {c}

(* A request runs in a live backend and beside no nightly run, and what it may *)
(* still record is within the window.                                       *)
TabsInv ==
  \A t \in Tabs :
    /\ tab[t].at \in InRoute => up /\ night.at = "idle"
    /\ tab[t].at = "record" => now < Window

(* The contract a tab applies the effects of is recorded, no other tab applies *)
(* them, and nothing is refunded before that tab has raised the refund.     *)
OwnersInv ==
  /\ \A t \in Tabs, c \in Contracts :
       Owns(t, c) =>
         /\ c \in recorded
         /\ tab[t].at \in {"send", "mark", "lookup", "raise"} => refunds[c] = 0
  /\ \A t, u \in Tabs, c \in Contracts : Owns(t, c) /\ Owns(u, c) => t = u

(* At most one refund, and a refunded contract that has no record any more is  *)
(* past the eleven years.                                                   *)
RefundsInv ==
  \A c \in Contracts :
    refunds[c] <= 1 /\ (refunds[c] # 0 => c \in recorded \/ now >= DeleteAge)

(* Whoever is about to stamp an acknowledgement has had its mail accepted.   *)
MailsInv ==
  /\ \A t \in Tabs, c \in Contracts :
       tab[t].at = "mark" /\ tab[t].of = {c} => mails[c] # 0
  /\ \A c \in sweep.sent : mails[c] # 0
  /\ \A c \in acked : mails[c] # 0

(* A rerun, due or begun, has a failed run before it with no good one between. *)
NightInv ==
  /\ night.at # "idle" => ~timer
  /\ timer => blips >= 1
  /\ night.at = "reconcile" /\ night.rerun => blips >= 1
  /\ alarms >= 2

IInv == TabsInv /\ OwnersInv /\ RefundsInv /\ MailsInv /\ DutyKeepsAddress /\ NightInv

TabAction(t) ==
  CloseDialog(t) \/ Submit(t) \/ RouteStep(t)
    \/ \E c \in Contracts : OpenDialog(t, c) \/ RouteFault(t, c)

CronAction ==
  \/ StartSweep \/ SweepStep \/ SweepFault
  \/ StartNight \/ Rerun \/ Reconcile \/ ReconcileFails \/ Retain \/ RetentionFault

WorldAction == (\E c \in Contracts : EndsInPaddle(c)) \/ Tick \/ Crash \/ Restart

(* A tab's action moves that tab only, forward along the route or out of it. *)
LEMMA TabMoves ==
  ASSUME TypeOK, NEW t \in Tabs, TabAction(t)
  PROVE  /\ UNCHANGED <<now, up, crons>>
         /\ \A u \in Tabs : u # t => tab'[u] = tab[u]
         /\ tab'[t].at \in InRoute =>
              /\ tab'[t].of = tab[t].of
              /\ tab[t].at \in InRoute \/ (up /\ night.at = "idle")
         /\ tab'[t].at = "record" => now < Window
         /\ tab'[t].at \in Effects =>
              tab[t].at \in Effects \/ (tab[t].at = "record" /\ tab'[t].at = "send")
<1> DEFINE Moved ==
      /\ \A u \in Tabs : u # t => tab'[u] = tab[u]
      /\ tab'[t].at \in InRoute => /\ tab'[t].of = tab[t].of
                                   /\ tab[t].at \in InRoute \/ (up /\ night.at = "idle")
      /\ tab'[t].at = "record" => now < Window
      /\ tab'[t].at \in Effects =>
           tab[t].at \in Effects \/ (tab[t].at = "record" /\ tab'[t].at = "send")
<1>1. ASSUME NEW at, Goto(t, at),
             at \notin InRoute \/ tab[t].at \in InRoute \/ (up /\ night.at = "idle"),
             at = "record" => now < Window,
             at \in Effects => tab[t].at \in Effects \/ (tab[t].at = "record" /\ at = "send")
      PROVE  Moved
  BY <1>1, GotoTab
<1>2. ASSUME NEW new, tab' = [tab EXCEPT ![t] = new], new.at \in Dialog PROVE Moved
  <2>1. tab'[t] = new /\ \A u \in Tabs : u # t => tab'[u] = tab[u]
    BY <1>2 DEF TypeOK
  <2> QED BY <1>2, <2>1 DEF Dialog, InRoute, Effects
<1>3. Refuse(t) => Moved
  <2>1. Refuse(t) => Goto(t, "offered")
    BY DEF Refuse, Goto
  <2> QED BY <1>1, <2>1 DEF InRoute, Effects
<1>4. tab' = [tab EXCEPT ![t] = Closed] => Moved
  BY <1>2 DEF Closed, Dialog
<1>5. UNCHANGED tab /\ tab[t].at = "offered" => Moved
  BY DEF InRoute, Effects
<1> HIDE DEF Moved
<1>6. CASE CloseDialog(t)
  BY <1>4, <1>6 DEF CloseDialog, Moved, crons
<1>7. CASE Submit(t)
  <2>1. Moved
    BY <1>1, <1>5, <1>7 DEF Submit, InRoute, Effects
  <2> QED BY <1>7, <2>1 DEF Submit, Moved, crons
<1>8. ASSUME NEW c \in Contracts, OpenDialog(t, c) PROVE Moved /\ UNCHANGED <<now, up, crons>>
  BY <1>2, <1>8 DEF OpenDialog, Dialog
<1>9. ASSUME NEW c \in Contracts, RouteFault(t, c) PROVE Moved /\ UNCHANGED <<now, up, crons>>
  <2>1. tab[t].at \in Effects /\ Goto(t, "lookup") => Moved
    BY <1>1 DEF InRoute, Effects
  <2>2. tab[t].at \in Effects /\ Goto(t, "fail") => Moved
    BY <1>1 DEF InRoute, Effects
  <2> QED BY <1>3, <1>4, <1>9, <2>1, <2>2 DEF RouteFault, Effects
<1>10. CASE RouteStep(t)
  <2> SUFFICES ASSUME NEW c \in Contracts,
                 \/ Require(t, c) \/ FindLatest(t, c) \/ Record(t, c)
                 \/ SendMail(t, c) \/ MarkAcknowledged(t, c)
                 \/ FindRefundable(t, c) \/ RefundTransaction(t, c) \/ RecordRefundOutcome(t, c)
                 \/ CancelImmediately(t, c) \/ ApplyEnd(t, c)
      PROVE Moved /\ UNCHANGED <<now, up, crons>>
    BY <1>10 DEF RouteStep, Moved
  <2>1. CASE Require(t, c)
    BY <1>1, <1>3, <2>1 DEF Require, InRoute, Effects
  <2>2. CASE FindLatest(t, c)
    BY <1>1, <1>3, <2>2 DEF FindLatest, IsWithinWindow, InRoute, Effects
  <2>3. CASE Record(t, c)
    BY <1>1, <1>3, <2>3 DEF Record, InRoute, Effects
  <2>4. CASE SendMail(t, c)
    BY <1>1, <2>4 DEF SendMail, InRoute, Effects
  <2>5. CASE MarkAcknowledged(t, c)
    BY <1>1, <2>5 DEF MarkAcknowledged, InRoute, Effects
  <2>6. CASE FindRefundable(t, c)
    BY <1>1, <2>6 DEF FindRefundable, InRoute, Effects
  <2>7. CASE RefundTransaction(t, c)
    BY <1>1, <2>7 DEF RefundTransaction, InRoute, Effects
  <2>8. CASE RecordRefundOutcome(t, c)
    BY <1>1, <2>8 DEF RecordRefundOutcome, InRoute, Effects
  <2>9. CASE CancelImmediately(t, c)
    BY <1>1, <2>9 DEF CancelImmediately, InRoute, Effects
  <2>10. CASE ApplyEnd(t, c)
    BY <1>4, <2>10 DEF ApplyEnd
  <2> QED BY <2>1, <2>2, <2>3, <2>4, <2>5, <2>6, <2>7, <2>8, <2>9, <2>10
<1> QED BY <1>6, <1>7, <1>8, <1>9, <1>10 DEF TabAction, Moved

(* The crons leave the tabs alone, and the nightly run starts beside none that *)
(* is busy.                                                                 *)
LEMMA CronsAlone ==
  ASSUME TypeOK, CronAction
  PROVE  /\ UNCHANGED <<now, up, tab, refunds>>
         /\ night.at = "idle" => night'.at = "idle" \/ NoRequest
  BY DEF CronAction, SweepStep, Retain, StartSweep, FindUnacknowledged, ResendMail, MarkResent,
         SweepFault, StartNight, Rerun, Reconcile, ReconcileFails, EraseSubscriberIds,
         DeleteAccountingRows, EraseIdentifiers, DeleteWithdrawals, RetentionFault, outside

LEMMA TabsStep ==
  ASSUME TypeOK, TabsInv, Next
  PROVE  TabsInv'
<1>1. ASSUME NEW t \in Tabs, TabAction(t) PROVE TabsInv'
  BY <1>1, TabMoves DEF TabsInv, crons
<1>2. CASE CronAction
  <2>1. NoRequest => \A t \in Tabs : tab[t].at \notin InRoute
    BY DEF NoRequest, Dialog, InRoute, Effects
  <2> QED BY <1>2, <2>1, CronsAlone DEF TabsInv, InRoute
<1>3. ASSUME NEW c \in Contracts, EndsInPaddle(c) PROVE TabsInv'
  BY <1>3 DEF EndsInPaddle, TabsInv, crons
<1>4. CASE Tick
  BY <1>4 DEF Tick, Quiet, NoRequest, TabsInv, Dialog, InRoute, Effects
<1>5. CASE Crash
  <2>1. \A t \in Tabs : tab'[t].at \notin InRoute
    <3> TAKE t \in Tabs
    <3>1. tab[t] \in TabState
      BY DEF TypeOK, TabState
    <3>2. tab'[t] = IF tab[t].at \in InRoute THEN [tab[t] EXCEPT !.at = "offered"] ELSE tab[t]
      BY <1>5 DEF Crash
    <3>3. "offered" \notin InRoute
      BY DEF InRoute, Effects
    <3> QED BY <3>1, <3>2, <3>3 DEF TabState
  <2> QED BY <2>1 DEF TabsInv, InRoute
<1>6. CASE Restart
  BY <1>6 DEF Restart, TabsInv, InRoute
<1> QED BY <1>1, <1>2, <1>3, <1>4, <1>5, <1>6 DEF Next, TabAction, CronAction

(* One owner, and one refund: a tab's action.                               *)
LEMMA TabRefunds ==
  ASSUME TypeOK, TabsInv, OwnersInv, RefundsInv, NEW t \in Tabs, TabAction(t)
  PROVE  OwnersInv' /\ RefundsInv'
<1> DEFINE Unraised == {"send", "mark", "lookup", "raise"}
<1>1. /\ \A u \in Tabs : u # t => tab'[u] = tab[u]
      /\ tab'[t].at \in Effects => tab'[t].of = tab[t].of
      /\ tab'[t].at \in Effects =>
           tab[t].at \in Effects \/ (tab[t].at = "record" /\ tab'[t].at = "send")
      /\ now' = now
  BY TabMoves DEF InRoute
<1>2. ASSUME NEW c \in Contracts, c \notin recorded
      PROVE  /\ now < Window => refunds[c] = 0
             /\ \A u \in Tabs : ~Owns(u, c)
  <2>1. now \in Int /\ Window <= DeleteAge /\ Window \in Nat /\ DeleteAge \in Nat
    BY WithdrawalAssumption DEF TypeOK
  <2> QED BY <1>2, <2>1 DEF OwnersInv, RefundsInv
<1>3. ASSUME UNCHANGED <<recorded, refunds>>,
             tab'[t].at \in Effects =>
               /\ tab[t].at \in Effects
               /\ tab'[t].at \in Unraised => tab[t].at \in Unraised
      PROVE  OwnersInv' /\ RefundsInv'
  <2>1. RefundsInv'
    BY <1>1, <1>3 DEF RefundsInv
  <2>2. \A u \in Tabs, c \in Contracts :
          Owns(u, c)' => /\ Owns(u, c)
                         /\ tab'[u].at \in Unraised => tab[u].at \in Unraised
    BY <1>1, <1>3 DEF Owns
  <2> QED BY <1>3, <2>1, <2>2 DEF OwnersInv
<1>4. ASSUME NEW c \in Contracts, tab[t].of = {c}, tab[t].at = "record", tab'[t].at = "send",
             c \notin recorded, recorded' = recorded \cup {c}, refunds' = refunds
      PROVE  OwnersInv' /\ RefundsInv'
  <2>1. refunds[c] = 0 /\ \A u \in Tabs : ~Owns(u, c)
    BY <1>2, <1>4 DEF TabsInv
  <2>2. \A u \in Tabs, k \in Contracts :
          Owns(u, k)' => (Owns(u, k) /\ tab'[u] = tab[u]) \/ (u = t /\ k = c)
    BY <1>1, <1>4 DEF Owns
  <2> QED BY <1>1, <1>4, <2>1, <2>2 DEF OwnersInv, RefundsInv
<1>5. ASSUME NEW c \in Contracts, tab[t].of = {c}, tab[t].at \in Effects,
             tab[t].at = "raise" \/ refunds' = refunds,
             tab'[t].at \in Effects => tab'[t].at \notin Unraised,
             recorded' = recorded,
             NEW n \in {0, 1}, refunds' = [refunds EXCEPT ![c] = @ + n]
      PROVE  OwnersInv' /\ RefundsInv'
  <2>1. Owns(t, c)
    BY <1>5 DEF Owns
  <2>2. \A u \in Tabs, k \in Contracts :
          Owns(u, k)' => Owns(u, k) /\ (u = t \/ tab'[u] = tab[u])
    BY <1>1, <1>5 DEF Owns, Effects
  <2>3. c \in recorded /\ (tab[t].at = "raise" => refunds[c] = 0)
    BY <2>1 DEF OwnersInv
  <2>4. /\ refunds \in [Contracts -> Nat]
        /\ \A k \in Contracts : k # c => refunds'[k] = refunds[k]
        /\ refunds'[c] = refunds[c] \/ (tab[t].at = "raise" /\ refunds'[c] = refunds[c] + n)
    BY <1>5 DEF TypeOK
  <2>5. RefundsInv'
    BY <1>1, <1>5, <2>3, <2>4 DEF RefundsInv
  <2>6. \A u \in Tabs, k \in Contracts : Owns(u, k) /\ k = c => u = t
    BY <2>1 DEF OwnersInv
  <2>7. \A u \in Tabs, k \in Contracts :
          Owns(u, k)' => /\ k \in recorded'
                         /\ tab'[u].at \in Unraised => refunds'[k] = 0
    BY <1>5, <2>1, <2>2, <2>4, <2>6 DEF OwnersInv, Owns
  <2> QED BY <1>1, <2>2, <2>5, <2>7 DEF OwnersInv
<1> HIDE DEF Unraised
<1>6. CASE CloseDialog(t)
  <2>1. tab'[t].at \notin Effects
    BY <1>6 DEF CloseDialog, Closed, Effects, TypeOK
  <2> QED BY <1>3, <1>6, <2>1 DEF CloseDialog, db, outside
<1>7. CASE Submit(t)
  <2>1. tab'[t].at \notin Effects
    BY <1>1, <1>7 DEF Submit, Effects
  <2> QED BY <1>3, <1>7, <2>1 DEF Submit, db, outside
<1>8. ASSUME NEW c \in Contracts, OpenDialog(t, c) PROVE OwnersInv' /\ RefundsInv'
  <2>1. tab'[t].at \notin Effects
    BY <1>1, <1>8 DEF OpenDialog, Effects
  <2> QED BY <1>3, <1>8, <2>1 DEF OpenDialog, db, outside
<1>9. ASSUME NEW c \in Contracts, RouteFault(t, c) PROVE OwnersInv' /\ RefundsInv'
  <2>1. tab[t].of = {c}
    BY <1>9 DEF RouteFault, About
  <2>2. \A at : Goto(t, at) => tab'[t].at = at
    BY GotoTab
  <2>3. Refuse(t) => tab'[t].at = "offered"
    BY GotoTab DEF Refuse, Goto
  <2>4. tab' = [tab EXCEPT ![t] = Closed] => tab'[t].at = "closed"
    BY DEF TypeOK, Closed
  <2>5. CASE tab[t].at \in {"require", "find"}
    BY <1>3, <1>9, <2>3, <2>5 DEF RouteFault, Effects, db, outside
  <2>6. CASE tab[t].at = "record"
    <3>1. tab'[t].at = "offered" /\ refunds' = refunds
      BY <1>9, <2>3, <2>6 DEF RouteFault, outside
    <3>2. recorded' = recorded \/ (c \notin recorded /\ recorded' = recorded \cup {c})
      BY <1>9, <2>6 DEF RouteFault, Insert, db
    <3>3. CASE recorded' = recorded
      BY <1>3, <3>1, <3>3 DEF Effects
    <3>4. CASE c \notin recorded /\ recorded' = recorded \cup {c}
      <4>1. \A u \in Tabs, k \in Contracts : Owns(u, k)' => Owns(u, k) /\ tab'[u] = tab[u]
        BY <1>1, <3>1 DEF Owns, Effects
      <4> QED BY <1>1, <3>1, <3>4, <4>1 DEF OwnersInv, RefundsInv
    <3> QED BY <3>2, <3>3, <3>4
  <2>7. CASE tab[t].at \in {"send", "mark", "lookup", "note"}
    BY <1>3, <1>9, <2>2, <2>7 DEF RouteFault, Effects, Unraised, db, outside
  <2>8. CASE tab[t].at = "raise"
    <3>1. PICK n \in {0, 1} : refunds' = [refunds EXCEPT ![c] = @ + n]
      BY <1>9, <2>8 DEF RouteFault
    <3>2. recorded' = recorded /\ tab'[t].at = "fail"
      BY <1>9, <2>2, <2>8 DEF RouteFault, db
    <3> QED BY <1>5, <2>1, <2>8, <3>1, <3>2 DEF Effects, Unraised
  <2>9. CASE tab[t].at \in {"fail", "cancel", "apply"}
    BY <1>3, <1>9, <2>3, <2>4, <2>9 DEF RouteFault, Effects, db, outside
  <2> QED BY <1>9, <2>5, <2>6, <2>7, <2>8, <2>9 DEF RouteFault
<1>10. CASE RouteStep(t)
  <2> SUFFICES ASSUME NEW c \in Contracts,
                 \/ Require(t, c) \/ FindLatest(t, c) \/ Record(t, c)
                 \/ SendMail(t, c) \/ MarkAcknowledged(t, c)
                 \/ FindRefundable(t, c) \/ RefundTransaction(t, c) \/ RecordRefundOutcome(t, c)
                 \/ CancelImmediately(t, c) \/ ApplyEnd(t, c)
      PROVE OwnersInv' /\ RefundsInv'
    BY <1>10 DEF RouteStep
  <2>1. \A at : Goto(t, at) => tab'[t].at = at
    BY GotoTab
  <2>2. Refuse(t) => tab'[t].at = "offered"
    BY GotoTab DEF Refuse, Goto
  <2>3. CASE Require(t, c)
    BY <1>3, <2>1, <2>2, <2>3 DEF Require, Effects, db, outside
  <2>4. CASE FindLatest(t, c)
    BY <1>3, <2>1, <2>2, <2>4 DEF FindLatest, Effects, db, outside
  <2>5. CASE Record(t, c)
    <3>1. CASE c \in recorded
      BY <1>3, <2>2, <2>5, <3>1 DEF Record, Effects, db, outside
    <3>2. CASE c \notin recorded
      BY <1>4, <2>1, <2>5, <3>2 DEF Record, Insert, About, outside
    <3> QED BY <3>1, <3>2
  <2>6. CASE SendMail(t, c)
    BY <1>3, <2>1, <2>6 DEF SendMail, Effects, Unraised, db
  <2>7. CASE MarkAcknowledged(t, c)
    BY <1>3, <2>1, <2>7 DEF MarkAcknowledged, Effects, Unraised, outside
  <2>8. CASE FindRefundable(t, c)
    BY <1>3, <2>1, <2>8 DEF FindRefundable, Effects, Unraised, outside
  <2>9. CASE RefundTransaction(t, c)
    <3>1. tab'[t].at = "note" /\ recorded' = recorded /\ tab[t].of = {c} /\ tab[t].at = "raise"
      BY <2>1, <2>9 DEF RefundTransaction, About, db
    <3>2. refunds' = [refunds EXCEPT ![c] = @ + 1]
      BY <2>9 DEF RefundTransaction
    <3> QED BY <1>5, <3>1, <3>2 DEF Effects, Unraised
  <2>10. CASE RecordRefundOutcome(t, c)
    BY <1>3, <2>1, <2>10 DEF RecordRefundOutcome, Effects, Unraised, outside
  <2>11. CASE CancelImmediately(t, c)
    BY <1>3, <2>1, <2>11 DEF CancelImmediately, Effects, Unraised, db
  <2>12. CASE ApplyEnd(t, c)
    <3>1. tab'[t].at = "closed"
      BY <2>12 DEF ApplyEnd, Closed, TypeOK
    <3> QED BY <1>3, <2>12, <3>1 DEF ApplyEnd, EndRow, Effects, outside
  <2> QED BY <2>3, <2>4, <2>5, <2>6, <2>7, <2>8, <2>9, <2>10, <2>11, <2>12
<1> QED BY <1>6, <1>7, <1>8, <1>9, <1>10 DEF TabAction

(* ... and everything else.                                                 *)
LEMMA RefundsStep ==
  ASSUME TypeOK, TabsInv, OwnersInv, RefundsInv, Next
  PROVE  OwnersInv' /\ RefundsInv'
<1>1. ASSUME UNCHANGED <<tab, refunds, recorded>>, now' >= now PROVE OwnersInv' /\ RefundsInv'
  <2>1. now \in Int /\ now' \in Int /\ DeleteAge \in Int
    BY TypeStep, WithdrawalAssumption DEF TypeOK
  <2> QED BY <1>1, <2>1 DEF OwnersInv, RefundsInv, Owns
<1>2. now >= now
  BY DEF TypeOK
<1>3. ASSUME NEW t \in Tabs, TabAction(t) PROVE OwnersInv' /\ RefundsInv'
  BY <1>3, TabRefunds
<1>4. CASE DeleteWithdrawals
  <2>1. \A t \in Tabs, c \in Contracts : ~Owns(t, c) /\ ~Owns(t, c)'
    BY <1>4 DEF DeleteWithdrawals, TabsInv, Owns, InRoute
  <2>2. \A c \in recorded \ recorded' : submittedAt[c] + DeleteAge <= now
    BY <1>4, BatchPart DEF DeleteWithdrawals, Past
  <2>3. submittedAt \in [Contracts -> Nat] /\ now \in Int /\ DeleteAge \in Nat
    BY WithdrawalAssumption DEF TypeOK
  <2>4. \A c \in recorded \ recorded' : now >= DeleteAge
    BY <2>2, <2>3 DEF TypeOK
  <2>5. UNCHANGED <<now, refunds>>
    BY <1>4 DEF DeleteWithdrawals, outside
  <2> QED BY <2>1, <2>4, <2>5 DEF OwnersInv, RefundsInv
<1>5. ASSUME CronAction, ~DeleteWithdrawals PROVE recorded' = recorded
  BY <1>5
  DEF CronAction, SweepStep, Retain, StartSweep, FindUnacknowledged, ResendMail, MarkResent,
      SweepFault, StartNight, Rerun, Reconcile, ReconcileFails, EraseSubscriberIds,
      DeleteAccountingRows, EraseIdentifiers, RetentionFault, db
<1>6. CASE CronAction
  BY <1>1, <1>2, <1>4, <1>5, <1>6, CronsAlone
<1>7. ASSUME NEW c \in Contracts, EndsInPaddle(c) PROVE OwnersInv' /\ RefundsInv'
  BY <1>1, <1>2, <1>7 DEF EndsInPaddle, db
<1>8. CASE Tick
  <2>1. now' >= now
    BY <1>8 DEF Tick, TypeOK
  <2> QED BY <1>1, <1>8, <2>1 DEF Tick, db, outside
<1>9. CASE Crash
  <2>1. \A t \in Tabs : tab'[t].at \notin Effects
    <3> TAKE t \in Tabs
    <3>1. tab[t] \in TabState
      BY DEF TypeOK, TabState
    <3>2. tab'[t] = IF tab[t].at \in InRoute THEN [tab[t] EXCEPT !.at = "offered"] ELSE tab[t]
      BY <1>9 DEF Crash
    <3> QED BY <3>1, <3>2 DEF TabState, InRoute, Effects
  <2>2. \A t \in Tabs, c \in Contracts : ~Owns(t, c)'
    BY <2>1 DEF Owns
  <2> QED BY <1>9, <2>2 DEF Crash, OwnersInv, RefundsInv, db, outside
<1>10. CASE Restart
  BY <1>1, <1>2, <1>10 DEF Restart, db, outside
<1> QED BY <1>3, <1>6, <1>7, <1>8, <1>9, <1>10 DEF Next, TabAction, CronAction

(* A stamp follows its mail: a tab's action, then everything else.           *)
LEMMA TabMails ==
  ASSUME TypeOK, MailsInv, NEW t \in Tabs, TabAction(t)
  PROVE  MailsInv'
<1>1. /\ \A u \in Tabs : u # t => tab'[u] = tab[u]
      /\ tab'[t].at \in InRoute => tab'[t].of = tab[t].of
      /\ sweep' = sweep
  BY TabMoves DEF crons
<1>2. ASSUME tab'[t].at # "mark", mails' = mails,
             \A k \in acked' \ acked : tab[t].at = "mark" /\ tab[t].of = {k}
      PROVE  MailsInv'
  <2>1. acked' \subseteq Contracts
    BY TypeStep DEF TypeOK, Next, TabAction
  <2> QED BY <1>1, <1>2, <2>1 DEF MailsInv
<1>3. CASE CloseDialog(t)
  <2>1. tab'[t].at = "closed"
    BY <1>3 DEF CloseDialog, Closed, TypeOK
  <2> QED BY <1>2, <1>3, <2>1 DEF CloseDialog, db, outside
<1>4. CASE Submit(t)
  <2>1. tab'[t].at \in {"require", "offered"}
    BY <1>4, GotoTab DEF Submit
  <2> QED BY <1>2, <1>4, <2>1 DEF Submit, db, outside
<1>5. ASSUME NEW c \in Contracts, OpenDialog(t, c) PROVE MailsInv'
  <2>1. tab'[t].at = "offered"
    BY <1>5 DEF OpenDialog, TypeOK
  <2> QED BY <1>2, <1>5, <2>1 DEF OpenDialog, db, outside
<1>6. \A at : Goto(t, at) => tab'[t].at = at
  BY GotoTab
<1>7. Refuse(t) => tab'[t].at = "offered"
  BY GotoTab DEF Refuse, Goto
<1>8. tab' = [tab EXCEPT ![t] = Closed] => tab'[t].at = "closed"
  BY DEF TypeOK, Closed
<1>9. ASSUME NEW c \in Contracts, RouteFault(t, c) PROVE MailsInv'
  <2>1. tab'[t].at # "mark"
    BY <1>6, <1>7, <1>8, <1>9 DEF RouteFault
  <2>2. mails' = mails /\ acked' = acked
    BY <1>9 DEF RouteFault, Insert, db, outside
  <2> QED BY <1>2, <2>1, <2>2
<1>10. CASE RouteStep(t)
  <2> SUFFICES ASSUME NEW c \in Contracts,
                 \/ Require(t, c) \/ FindLatest(t, c) \/ Record(t, c)
                 \/ SendMail(t, c) \/ MarkAcknowledged(t, c)
                 \/ FindRefundable(t, c) \/ RefundTransaction(t, c) \/ RecordRefundOutcome(t, c)
                 \/ CancelImmediately(t, c) \/ ApplyEnd(t, c)
      PROVE MailsInv'
    BY <1>10 DEF RouteStep
  <2>1. CASE Require(t, c)
    BY <1>2, <1>6, <1>7, <2>1 DEF Require, db, outside
  <2>2. CASE FindLatest(t, c)
    BY <1>2, <1>6, <1>7, <2>2 DEF FindLatest, db, outside
  <2>3. CASE Record(t, c)
    BY <1>2, <1>6, <1>7, <2>3 DEF Record, Insert, db, outside
  <2>4. CASE SendMail(t, c)
    <3>1. acked' = acked /\ tab[t].of = {c}
      BY <2>4 DEF SendMail, About, db
    <3>2. mails'[c] # 0 /\ \A k \in Contracts : mails[k] # 0 => mails'[k] # 0
      BY <2>4, MailMore DEF SendMail
    <3>3. tab'[t].of = {c}
      BY <2>4, <3>1, GotoTab DEF SendMail
    <3>4. acked \subseteq Contracts /\ sweep.sent \subseteq Contracts
      BY DEF TypeOK
    <3> QED BY <1>1, <3>1, <3>2, <3>3, <3>4 DEF MailsInv
  <2>5. CASE MarkAcknowledged(t, c)
    BY <1>2, <1>6, <2>5 DEF MarkAcknowledged, About, outside
  <2>6. CASE FindRefundable(t, c)
    BY <1>2, <1>6, <2>6 DEF FindRefundable, outside
  <2>7. CASE RefundTransaction(t, c)
    BY <1>2, <1>6, <2>7 DEF RefundTransaction, db
  <2>8. CASE RecordRefundOutcome(t, c)
    BY <1>2, <1>6, <2>8 DEF RecordRefundOutcome, outside
  <2>9. CASE CancelImmediately(t, c)
    BY <1>2, <1>6, <2>9 DEF CancelImmediately, db
  <2>10. CASE ApplyEnd(t, c)
    BY <1>2, <1>8, <2>10 DEF ApplyEnd, EndRow, outside
  <2> QED BY <2>1, <2>2, <2>3, <2>4, <2>5, <2>6, <2>7, <2>8, <2>9, <2>10
<1> QED BY <1>3, <1>4, <1>5, <1>9, <1>10 DEF TabAction

LEMMA MailsStep ==
  ASSUME TypeOK, MailsInv, Next
  PROVE  MailsInv'
<1>1. ASSUME UNCHANGED <<tab, mails>>, sweep'.sent \in {{}, sweep.sent},
             acked' \subseteq acked \cup sweep.sent
      PROVE  MailsInv'
  BY <1>1 DEF MailsInv
<1>2. \A left : Onward(left) => sweep'.sent = {}
  BY DEF Onward, Idle
<1>3. ASSUME NEW t \in Tabs, TabAction(t) PROVE MailsInv'
  BY <1>3, TabMails
<1>4. CASE StartSweep
  BY <1>1, <1>4 DEF StartSweep, TypeOK, db, outside
<1>5. CASE FindUnacknowledged
  BY <1>1, <1>2, <1>5 DEF FindUnacknowledged, db, outside
<1>6. ASSUME NEW c \in Contracts, ResendMail(c) PROVE MailsInv'
  <2>1. mails'[c] # 0 /\ \A k \in Contracts : mails[k] # 0 => mails'[k] # 0
    BY <1>6, MailMore DEF ResendMail
  <2>2. sweep'.sent = {c} /\ acked' = acked /\ tab' = tab /\ acked \subseteq Contracts
    BY <1>6 DEF ResendMail, TypeOK, db
  <2> QED BY <2>1, <2>2 DEF MailsInv
<1>7. ASSUME NEW c \in Contracts, MarkResent(c) PROVE MailsInv'
  BY <1>1, <1>2, <1>7 DEF MarkResent, outside
<1>8. CASE SweepFault
  <2>1. sweep' = Idle => sweep'.sent = {}
    BY DEF Idle
  <2>2. sweep'.sent = {}
    BY <1>2, <1>8, <2>1 DEF SweepFault
  <2>3. tab' = tab /\ mails' = mails /\ acked' = acked
    BY <1>8 DEF SweepFault, db, outside
  <2> QED BY <1>1, <2>2, <2>3
<1>9. CASE StartNight \/ Rerun \/ ReconcileFails \/ RetentionFault
  BY <1>1, <1>9 DEF StartNight, Rerun, ReconcileFails, RetentionFault, db, outside
<1>10. CASE Reconcile \/ Retain
  BY <1>1, <1>10
  DEF Reconcile, Retain, EraseSubscriberIds, DeleteAccountingRows, EraseIdentifiers,
      DeleteWithdrawals, outside
<1>11. ASSUME NEW c \in Contracts, EndsInPaddle(c) PROVE MailsInv'
  BY <1>1, <1>11 DEF EndsInPaddle, db, crons
<1>12. CASE Tick \/ Restart
  BY <1>1, <1>12 DEF Tick, Restart, db, outside
<1>13. CASE Crash
  <2>1. \A t \in Tabs : tab'[t].at # "mark"
    <3> TAKE t \in Tabs
    <3>1. tab[t] \in TabState
      BY DEF TypeOK, TabState
    <3>2. tab'[t] = IF tab[t].at \in InRoute THEN [tab[t] EXCEPT !.at = "offered"] ELSE tab[t]
      BY <1>13 DEF Crash
    <3> QED BY <3>1, <3>2 DEF TabState, InRoute, Effects
  <2>2. sweep'.sent = {} /\ acked' = acked /\ mails' = mails
    BY <1>13 DEF Crash, Idle, db, outside
  <2> QED BY <2>1, <2>2 DEF MailsInv
<1> QED BY <1>3, <1>4, <1>5, <1>6, <1>7, <1>8, <1>9, <1>10, <1>11, <1>12, <1>13
        DEF Next, TabAction, SweepStep

(* An owed acknowledgement keeps its address.                               *)
LEMMA DutyStep ==
  ASSUME TypeOK, DutyKeepsAddress, Next
  PROVE  DutyKeepsAddress'
<1>1. ASSUME UNCHANGED <<recorded, addressed>>, acked \subseteq acked' PROVE DutyKeepsAddress'
  BY <1>1 DEF DutyKeepsAddress
<1>2. \A c : Insert(c) => DutyKeepsAddress'
  BY DEF Insert, DutyKeepsAddress
<1>3. UNCHANGED db => DutyKeepsAddress'
  BY <1>1 DEF db
<1>4. ASSUME NEW t \in Tabs, TabAction(t) PROVE DutyKeepsAddress'
  <2>1. CASE RouteStep(t)
    BY <1>1, <1>2, <1>3, <2>1
    DEF RouteStep, Require, FindLatest, Record, SendMail, MarkAcknowledged, FindRefundable,
        RefundTransaction, RecordRefundOutcome, CancelImmediately, ApplyEnd, EndRow
  <2>2. CASE CloseDialog(t) \/ Submit(t) \/ \E c \in Contracts : OpenDialog(t, c) \/ RouteFault(t, c)
    BY <1>2, <1>3, <2>2 DEF CloseDialog, Submit, OpenDialog, RouteFault
  <2> QED BY <1>4, <2>1, <2>2 DEF TabAction
<1>5. CASE StartSweep \/ SweepStep \/ SweepFault
  BY <1>1, <1>3, <1>5
  DEF StartSweep, SweepStep, SweepFault, FindUnacknowledged, ResendMail, MarkResent
<1>6. CASE StartNight \/ Rerun \/ Reconcile \/ ReconcileFails \/ RetentionFault
  BY <1>1, <1>3, <1>6 DEF StartNight, Rerun, Reconcile, ReconcileFails, RetentionFault
<1>7. CASE EraseSubscriberIds \/ DeleteAccountingRows
  BY <1>1, <1>7 DEF EraseSubscriberIds, DeleteAccountingRows
<1>8. CASE EraseIdentifiers
  <2>1. addressed \ addressed' \subseteq acked /\ recorded' = recorded /\ acked' = acked
    BY <1>8, BatchPart DEF EraseIdentifiers
  <2> QED BY <2>1 DEF DutyKeepsAddress
<1>9. CASE DeleteWithdrawals
  BY <1>9 DEF DeleteWithdrawals, DutyKeepsAddress
<1>10. CASE WorldAction
  BY <1>3, <1>10 DEF WorldAction, EndsInPaddle, Tick, Crash, Restart
<1> QED BY <1>4, <1>5, <1>6, <1>7, <1>8, <1>9, <1>10 DEF Next, TabAction, WorldAction, Retain

(* The rerun and its alert.                                                 *)
LEMMA NightStep ==
  ASSUME TypeOK, NightInv, Next
  PROVE  NightInv'
<1>1. UNCHANGED <<night, timer, blips, alarms>> => NightInv'
  BY DEF NightInv
<1>2. ASSUME NEW t \in Tabs, TabAction(t) PROVE NightInv'
  BY <1>1, <1>2, TabMoves DEF crons
<1>3. CASE StartSweep \/ SweepStep \/ SweepFault
  BY <1>1, <1>3
  DEF StartSweep, SweepStep, SweepFault, FindUnacknowledged, ResendMail, MarkResent
<1>4. CASE StartNight
  BY <1>4 DEF StartNight, Begin, NightInv
<1>5. CASE Rerun
  BY <1>5 DEF Rerun, Begin, NightInv
<1>6. CASE Reconcile
  BY <1>6 DEF Reconcile, NightInv, TypeOK
<1>7. CASE ReconcileFails
  BY <1>7 DEF ReconcileFails, Least, Asleep, NightInv, TypeOK
<1>8. CASE Retain
  BY <1>8
  DEF Retain, EraseSubscriberIds, DeleteAccountingRows, EraseIdentifiers, DeleteWithdrawals,
      Asleep, NightInv, TypeOK
<1>9. CASE RetentionFault
  BY <1>9 DEF RetentionFault, Asleep, NightInv, TypeOK
<1>10. ASSUME NEW c \in Contracts, EndsInPaddle(c) PROVE NightInv'
  BY <1>1, <1>10 DEF EndsInPaddle, crons
<1>11. CASE Tick
  BY <1>1, <1>11 DEF Tick
<1>12. CASE Crash
  BY <1>12 DEF Crash, Asleep, NightInv
<1>13. CASE Restart
  BY <1>13 DEF Restart, Begin, NightInv
<1> QED BY <1>2, <1>3, <1>4, <1>5, <1>6, <1>7, <1>8, <1>9, <1>10, <1>11, <1>12, <1>13
        DEF Next, TabAction

LEMMA InductiveInvariant == Spec => [](TypeOK /\ IInv)
<1>1. Init => IInv
  <2> SUFFICES ASSUME Init PROVE IInv
    OBVIOUS
  <2>1. \A t \in Tabs : tab[t].at = "closed"
    BY DEF Init, Closed
  <2>2. \A c \in Contracts : refunds[c] = 0
    BY DEF Init
  <2>3. TabsInv /\ OwnersInv /\ RefundsInv
    BY <2>1, <2>2 DEF TabsInv, OwnersInv, RefundsInv, Owns, InRoute, Effects
  <2>4. MailsInv /\ DutyKeepsAddress
    BY <2>1 DEF Init, MailsInv, DutyKeepsAddress, Idle
  <2>5. NightInv
    BY DEF Init, NightInv, Asleep
  <2> QED BY <2>3, <2>4, <2>5 DEF IInv
<1>2. TypeOK /\ IInv /\ [Next]_vars => IInv'
  <2> SUFFICES ASSUME TypeOK, IInv, [Next]_vars PROVE IInv'
    OBVIOUS
  <2>1. CASE Next
    BY <2>1, TabsStep, RefundsStep, MailsStep, DutyStep, NightStep DEF IInv
  <2>2. CASE UNCHANGED vars
    BY <2>2 DEF IInv, TabsInv, OwnersInv, RefundsInv, MailsInv, DutyKeepsAddress, NightInv,
                Owns, vars, db, outside, crons
  <2> QED BY <2>1, <2>2
<1> QED BY <1>1, <1>2, WithdrawalTypeCorrect, PTL DEF Spec

----------------------------------------------------------------------------
(* Two tabs, a retry, an answer that is lost, a crash: a contract is refunded *)
(* once at most, and only with a recorded withdrawal (withdrawal.ts: record's *)
(* ON CONFLICT DO NOTHING and applyEffects).                                 *)
THEOREM RefundsOnce == Spec => []RefundedOnce
<1>1. TypeOK /\ IInv => RefundedOnce
  BY DEF IInv, RefundsInv, RefundedOnce
<1> QED BY <1>1, InductiveInvariant, PTL

(* acknowledgedAt is only ever stamped on a withdrawal whose mail was accepted *)
(* (withdrawal.ts: acknowledge), by the route and by the retry alike.        *)
THEOREM AckedAreMailed == Spec => []AckedWasMailed
<1>1. TypeOK /\ IInv => AckedWasMailed
  BY DEF IInv, MailsInv, AckedWasMailed, TypeOK
<1> QED BY <1>1, InductiveInvariant, PTL

(* The retention never erases an address that an acknowledgement still needs *)
(* (retention.ts: eraseExpiredWithdrawalIdentifiers).                        *)
THEOREM OwedKeepAddress == Spec => []DutyKeepsAddress
  BY InductiveInvariant, PTL DEF IInv

(* Whatever the cron, the rerun's timer and a restart do, an alert means two *)
(* failed nightly runs in a row (reconcileRunner.ts).                        *)
THEOREM BlipsStaySilent == Spec => []TwoBlipsAlert
<1>1. IInv => TwoBlipsAlert
  BY DEF IInv, NightInv, TwoBlipsAlert
<1> QED BY <1>1, InductiveInvariant, PTL
=============================================================================
