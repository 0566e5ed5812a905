---------------------- MODULE SubscriptionSync_proofs ----------------------
(***************************************************************************)
(* What holds of SubscriptionSync for every value of its constants, so for  *)
(* any number of subscriptions, handlers, faults and crashes: its types,    *)
(* that the row is always a version Paddle had, and that the refund history *)
(* survives.                                                               *)
(*                                                                         *)
(* RowIsTrue is not inductive: a write copies the version named by an event *)
(* that some handler read long ago.  SInv adds that every event on its way  *)
(* - unanswered, marked, listed by the pass, in a handler's hands - names a *)
(* version that exists.  Paddle only appends versions (Grown), so what was  *)
(* real stays real.                                                        *)
(***************************************************************************)
EXTENDS SubscriptionSync, TLAPS

Applies == {"byId", "update", "byGuild", "replace", "insert", "cancel"}

(* The event names a version in vs.                                         *)
Real(e, vs) == e.kind = "state" => e.n \in 1..Len(vs[e.sub])

(* What a job may carry at each await; has: there is a row.                 *)
JobReal(j, vs, has) ==
  /\ j.op = "hook" => j.e \in Event
  /\ j.at \in {"target", "stamp", "mark"} => j.op = "hook"
  /\ j.at = "stamp" => has
  /\ j.at \in Applies => j.e \in Event /\ j.e.kind = "state"
  /\ j.e \in Event => Real(j.e, vs)

EventsReal == \A e \in pending \cup marked \cup page : Real(e, versions)
PageOK == \A e \in page : e.kind = "state"
JobsReal   == \A x \in Processes : JobReal(job[x], versions, HasRow)

SInv == TypeOK /\ RowIsTrue /\ EventsReal /\ PageOK /\ JobsReal

(* Paddle appends.                                                          *)
Grown ==
  \A s \in Subs : /\ Len(versions[s]) <= Len(versions'[s])
                  /\ \A i \in 1..Len(versions[s]) : versions'[s][i] = versions[s][i]

RowKept == HasRow => HasRow' /\ row'.refund >= row.refund
Spent == [changes : Nat, faults : Nat, crashes : Nat]

(* What a step leaves of the jobs: it keeps a job or gives it a real one.    *)
JobsStep ==
  /\ job' \in [Processes -> Job]
  /\ \A x \in Processes : job'[x] = job[x] \/ JobReal(job'[x], versions', HasRow')

RowStep == RowOK' /\ RowIsTrue' /\ RowKept

----------------------------------------------------------------------------
(* Versions. *)

(* Appending a version keeps the earlier ones. *)
LEMMA VersionsGrow ==
  ASSUME TypeOK, NEW s \in Subs, NEW st \in Statuses, NewVersion(s, st)
  PROVE  /\ versions' \in [Subs -> Seq(Statuses)]
         /\ Grown
         /\ Len(versions'[s]) = Len(versions[s]) + 1
         /\ pending' = pending \cup {State(s, Len(versions[s]) + 1)}
<1>1. versions \in [Subs -> Seq(Statuses)]
  BY DEF TypeOK
<1>2. versions' = [versions EXCEPT ![s] = Append(versions[s], st)]
  BY DEF NewVersion
<1>3. \A t \in Subs : versions'[t] = IF t = s THEN Append(versions[s], st) ELSE versions[t]
  BY <1>1, <1>2
<1>4. versions' \in [Subs -> Seq(Statuses)]
  BY <1>1, <1>2
<1>5. /\ Len(Append(versions[s], st)) = Len(versions[s]) + 1
      /\ \A i \in 1..Len(versions[s]) : Append(versions[s], st)[i] = versions[s][i]
  BY <1>1
<1>6. \A t \in Subs : Len(versions[t]) \in Nat
  BY <1>1
<1>7. ASSUME NEW t \in Subs
      PROVE  /\ Len(versions[t]) <= Len(versions'[t])
             /\ \A i \in 1..Len(versions[t]) : versions'[t][i] = versions[t][i]
  <2>1. CASE t = s
    <3>1. versions'[t] = Append(versions[s], st)
      BY <1>3, <2>1
    <3>2. QED
      BY <3>1, <1>5, <1>6, <2>1
  <2>2. CASE t # s
    BY <1>3, <1>6, <2>2
  <2>3. QED
    BY <2>1, <2>2
<1>8. Grown
  BY <1>7 DEF Grown
<1>9. QED
  BY <1>3, <1>4, <1>5, <1>8 DEF NewVersion, Latest

(* Nothing appended is growth too. *)
LEMMA SameGrown ==
  ASSUME TypeOK, versions' = versions
  PROVE  Grown
BY DEF TypeOK, Grown

(* A version that exists goes on existing. *)
LEMMA RealKept ==
  ASSUME TypeOK, Grown, NEW e, e \in Event, Real(e, versions)
  PROVE  Real(e, versions')
<1>1. e.sub \in Subs /\ e.n \in Nat
  BY DEF Event
<1>2. Len(versions[e.sub]) \in Nat /\ Len(versions[e.sub]) <= Len(versions'[e.sub])
  BY <1>1 DEF TypeOK, Grown
<1>3. CASE e.kind = "state"
  <2>1. e.n >= 1 /\ e.n <= Len(versions[e.sub])
    BY <1>1, <1>2, <1>3 DEF Real
  <2>2. QED
    BY <2>1, <1>1, <1>2 DEF Real
<1>4. CASE e.kind # "state"
  BY <1>4 DEF Real
<1>5. QED
  BY <1>3, <1>4

----------------------------------------------------------------------------
(* Jobs and the row. *)

(* A kept job stays real while versions are only appended and a row stays. *)
LEMMA JobsKept ==
  ASSUME SInv, Grown, JobsStep, HasRow => HasRow'
  PROVE  JobsReal'
<1>1. SUFFICES ASSUME NEW x \in Processes
              PROVE  JobReal(job'[x], versions', HasRow')
  BY DEF JobsReal
<1>2. CASE job'[x] = job[x]
  <2>1. JobReal(job[x], versions, HasRow) /\ TypeOK
    BY DEF SInv, JobsReal
  <2>2. job[x].e \in Event => Real(job[x].e, versions')
    BY <2>1, RealKept DEF JobReal
  <2>3. JobReal(job[x], versions', HasRow')
    BY <2>1, <2>2 DEF JobReal
  <2>4. QED
    BY <2>3, <1>2
<1>3. QED
  BY <1>2 DEF JobsStep

(* An untouched row stays a real version. *)
LEMMA RowUntouched ==
  ASSUME SInv, Grown, row' = row
  PROVE  RowStep
<1>1. RowOK' /\ RowKept
  BY DEF SInv, TypeOK, RowOK, RowKept, HasRow, Row
<1>2. ASSUME HasRow
      PROVE  /\ row.sub \in Subs /\ row.at \in 1..Len(versions'[row.sub])
             /\ row.status = versions'[row.sub][row.at]
  <2>1. /\ row.sub \in Subs /\ row.at \in 1..Len(versions[row.sub])
        /\ row.status = versions[row.sub][row.at]
    BY <1>2 DEF SInv, RowIsTrue, Latest
  <2>2. Len(versions[row.sub]) \in Nat
    BY <2>1 DEF SInv, TypeOK
  <2>3. /\ Len(versions[row.sub]) <= Len(versions'[row.sub])
        /\ versions'[row.sub][row.at] = versions[row.sub][row.at]
    BY <2>1 DEF Grown
  <2>4. QED
    BY <2>1, <2>2, <2>3
<1>3. RowIsTrue'
  BY <1>2 DEF RowIsTrue, HasRow, Latest
<1>4. QED
  BY <1>1, <1>3 DEF RowStep

(* Writing the version of a handler's event leaves a real version. *)
LEMMA WriteReal ==
  ASSUME SInv, versions' = versions, NEW x \in Processes, job[x].at \in Applies,
         Write(job[x].e)
  PROVE  RowStep /\ HasRow'
<1>1. JobReal(job[x], versions, HasRow) /\ TypeOK
  BY DEF SInv, JobsReal
<1>2. PICK e \in Event : e = job[x].e
  BY <1>1 DEF JobReal
<1>3. e.kind = "state" /\ e.n \in 1..Len(versions[e.sub]) /\ e.sub \in Subs /\ e.n \in Nat
  BY <1>1, <1>2 DEF JobReal, Real, Event
<1>4. versions[e.sub] \in Seq(Statuses)
  BY <1>1, <1>3 DEF TypeOK
<1>5. versions[e.sub][e.n] \in Statuses
  BY <1>3, <1>4
<1>6. row \in Row
  BY <1>1 DEF TypeOK, RowOK
<1>7. row' = [row EXCEPT !.sub = e.sub, !.status = versions[e.sub][e.n], !.at = e.n]
  BY <1>2 DEF Write, StatusOf
<1>8. /\ row'.sub = e.sub /\ row'.at = e.n /\ row'.status = versions[e.sub][e.n]
      /\ row'.refund = row.refund /\ row' \in Row /\ row.refund \in Nat
  BY <1>3, <1>5, <1>6, <1>7 DEF Row
<1>9. row'.sub # None
  BY <1>3, <1>8, SyncConstants
<1>10. HasRow' /\ RowOK'
  BY <1>8, <1>9 DEF HasRow, RowOK
<1>11. RowKept
  BY <1>8, <1>10 DEF RowKept
<1>12. RowIsTrue'
  BY <1>3, <1>8 DEF RowIsTrue, Latest
<1>13. QED
  BY <1>10, <1>11, <1>12 DEF RowStep

(* A job that is given one handler's next await is a job again. *)
LEMMA GivenJob ==
  ASSUME TypeOK, NEW x \in Processes, NEW j \in Job, To(x, j),
         JobReal(j, versions', HasRow')
  PROVE  JobsStep
<1>1. job \in [Processes -> Job] /\ job' = [job EXCEPT ![x] = j]
  BY DEF TypeOK, To
<1>2. job' \in [Processes -> Job]
  BY <1>1
<1>3. \A y \in Processes : job'[y] = IF y = x THEN j ELSE job[y]
  BY <1>1
<1>4. QED
  BY <1>2, <1>3 DEF JobsStep

(* No job is a job, and carries nothing. *)
LEMMA IdleJob ==
  /\ NoJob \in Job
  /\ \A vs, has : JobReal(NoJob, vs, has)
<1>1. NoEvent \notin Event
  BY DEF NoEvent, Event
<1>2. NoJob \in Job
  BY DEF NoJob, Job
<1>3. QED
  BY <1>1, <1>2 DEF NoJob, JobReal, Applies

(* So is the pass's job between two events. *)
LEMMA PassJob ==
  LET j == [NoJob EXCEPT !.op = "pass", !.at = "list"]
  IN  j \in Job /\ \A vs, has : JobReal(j, vs, has)
<1>1. NoEvent \notin Event
  BY DEF NoEvent, Event
<1>2. [NoJob EXCEPT !.op = "pass", !.at = "list"] \in Job
  BY DEF NoJob, Job
<1>3. QED
  BY <1>1, <1>2 DEF NoJob, JobReal, Applies

(* Ending a handler. *)
LEMMA DoneReal ==
  ASSUME TypeOK, NEW x \in Processes, Done(x)
  PROVE  JobsStep
BY IdleJob, GivenJob DEF Done

(* Moving a handler on with the event it has. *)
LEMMA GotoReal ==
  ASSUME SInv, Grown, HasRow => HasRow',
         NEW x \in Processes,
         NEW at \in {"byGuild", "replace", "insert", "plan", "stamp", "mark"},
         job[x].at \in Applies \cup {"target", "stamp", "serve", "plan"}
           \/ (x = Night /\ at = "plan"),
         at \in Applies => job[x].at \in Applies,
         at \in {"stamp", "mark"} => job[x].op = "hook",
         at = "stamp" => HasRow,
         Goto(x, at)
  PROVE  JobsStep
<1>1. TypeOK /\ JobReal(job[x], versions, HasRow) /\ job[x] \in Job
  BY DEF SInv, TypeOK, JobsReal
<1>2. PICK i \in Job : i = job[x]
  BY <1>1
<1>3. PICK j : j = [i EXCEPT !.at = at]
  OBVIOUS
<1>4. j \in Job /\ j.op = i.op /\ j.e = i.e /\ j.at = at
  BY <1>2, <1>3 DEF Job
<1>5. i.e \in Event => Real(i.e, versions')
  BY <1>1, <1>2, RealKept DEF JobReal
<1>6. JobReal(j, versions', HasRow')
  BY <1>1, <1>2, <1>4, <1>5 DEF JobReal, Applies
<1>7. To(x, j)
  BY <1>2, <1>3 DEF Goto
<1>8. QED
  BY <1>1, <1>4, <1>6, <1>7, GivenJob

(* Being over with an event. *)
LEMMA OverReal ==
  ASSUME SInv, Grown, HasRow => HasRow', NEW x \in Processes,
         job[x].at \in Applies \cup {"serve"}, Over(x)
  PROVE  JobsStep
<1>1. TypeOK
  BY DEF SInv
<1>2. CASE job[x].op = "hook"
  <2>1. Goto(x, "mark")
    BY <1>2 DEF Over
  <2>2. QED
    BY <2>1, <1>2, GotoReal DEF Applies
<1>3. CASE job[x].op # "hook" /\ job[x].op = "pass" /\ job[x].e # NoEvent
  <2>1. To(x, [NoJob EXCEPT !.op = "pass", !.at = "list"])
    BY <1>3 DEF Over
  <2>2. QED
    BY <1>1, <2>1, PassJob, GivenJob
<1>4. CASE job[x].op # "hook" /\ ~(job[x].op = "pass" /\ job[x].e # NoEvent)
  <2>1. Done(x)
    BY <1>4 DEF Over
  <2>2. QED
    BY <1>1, <2>1, DoneReal
<1>5. QED
  BY <1>2, <1>3, <1>4

(* Enforcing a transition. *)
LEMMA EnforceReal ==
  ASSUME SInv, Grown, HasRow => HasRow', NEW x \in Processes,
         job[x].at \in Applies, NEW was, NEW is, Enforce(x, was, is)
  PROVE  JobsStep /\ revoke' \in BOOLEAN
<1>1. revoke \in BOOLEAN
  BY DEF SInv, TypeOK
<1>2. CASE x = Night /\ was /\ ~is
  <2>1. revoke' = TRUE /\ Over(x)
    BY <1>2 DEF Enforce
  <2>2. QED
    BY <2>1, OverReal
<1>3. CASE ~(x = Night /\ was /\ ~is)
  <2>1. revoke' = revoke /\ (Over(x) \/ Goto(x, "plan"))
    BY <1>3 DEF Enforce
  <2>2. CASE Over(x)
    BY <2>1, <2>2, <1>1, OverReal
  <2>3. CASE Goto(x, "plan")
    <3>1. JobsStep
      BY <2>3, GotoReal DEF Applies
    <3>2. QED
      BY <3>1, <2>1, <1>1
  <2>4. QED
    BY <2>1, <2>2, <2>3
<1>4. QED
  BY <1>2, <1>3

----------------------------------------------------------------------------
(* What every step owes: the invariant again and a row that is kept. *)

(* The invariant after a step, from what the step did to each variable. *)
LEMMA Assemble ==
  ASSUME SInv, Grown, versions' \in [Subs -> Seq(Statuses)],
         carts' \subseteq Subs, refunds' \in Nat, JobsStep, RowStep,
         \A e \in pending' \cup marked' \cup page' :
           e \in pending \cup marked \cup page \/ (e \in Event /\ Real(e, versions')),
         \A e \in page' : e \in page \/ e.kind = "state",
         served' \in BOOLEAN, revoke' \in BOOLEAN, withdrawn' \subseteq Subs, spent' \in Spent
  PROVE  SInv' /\ RowKept
<1>1. TypeOK /\ EventsReal /\ PageOK
  BY DEF SInv
<1>2. pending \cup marked \cup page \subseteq Event
  BY <1>1 DEF TypeOK, EventsOK
<1>3. \A e \in pending' \cup marked' \cup page' : e \in Event /\ Real(e, versions')
  BY <1>1, <1>2, RealKept DEF EventsReal
<1>4. EventsOK(pending)' /\ EventsOK(marked)' /\ EventsOK(page)'
  BY <1>3 DEF EventsOK
<1>5. TypeOK'
  BY <1>4 DEF TypeOK, JobsStep, RowStep, Spent
<1>6. EventsReal'
  BY <1>3 DEF EventsReal
<1>7. PageOK'
  BY <1>1 DEF PageOK
<1>8. JobsReal'
  BY JobsKept DEF RowStep, RowKept
<1>9. QED
  BY <1>5, <1>6, <1>7, <1>8 DEF SInv, RowStep

(* A step that touches only the jobs, the pass's variables and what is      *)
(* answered or marked.                                                      *)
LEMMA Quiet ==
  ASSUME SInv, UNCHANGED paddleVars, row' = row, served' \in BOOLEAN, JobsStep,
         pending' \subseteq pending, marked' \subseteq marked, page' \subseteq page,
         revoke' \in BOOLEAN, withdrawn' \subseteq Subs, spent' \in Spent
  PROVE  SInv' /\ RowKept
<1>1. TypeOK /\ Grown
  BY SameGrown DEF SInv, paddleVars
<1>2. RowStep
  BY <1>1, RowUntouched
<1>3. QED
  BY <1>1, <1>2, Assemble DEF TypeOK, paddleVars

(* Every variable's type, in one place. *)
LEMMA Types ==
  ASSUME SInv
  PROVE  /\ TypeOK /\ served \in BOOLEAN /\ revoke \in BOOLEAN /\ withdrawn \subseteq Subs
         /\ spent \in Spent /\ job \in [Processes -> Job]
         /\ \A x \in Processes : job[x] \in Job /\ JobReal(job[x], versions, HasRow)
         /\ Handlers \subseteq Processes /\ Night \in Processes
BY DEF SInv, TypeOK, Spent, JobsReal, Processes

(* A step that writes the row of a handler's event. *)
LEMMA Writes ==
  ASSUME SInv, NEW x \in Processes, job[x].at \in Applies, UNCHANGED paddleVars,
         UNCHANGED <<pending, marked, served, page, withdrawn, spent>>,
         NEW was, NEW is, Write(job[x].e), Enforce(x, was, is)
  PROVE  SInv' /\ RowKept
<1>1. /\ TypeOK /\ served \in BOOLEAN /\ withdrawn \subseteq Subs /\ spent \in Spent
  BY Types
<1>2. Grown
  BY <1>1, SameGrown DEF paddleVars
<1>3. RowStep /\ HasRow'
  BY WriteReal DEF paddleVars
<1>4. JobsStep /\ revoke' \in BOOLEAN
  BY <1>2, <1>3, EnforceReal
<1>5. QED
  BY <1>1, <1>2, <1>3, <1>4, Assemble DEF TypeOK, paddleVars

(* A fault only spends. *)
LEMMA FaultSpends ==
  ASSUME spent \in Spent, Fault
  PROVE  spent' \in Spent
BY DEF Spent, Fault

----------------------------------------------------------------------------
(* Paddle and the subscriber. *)

(* What Paddle does appends at most one version and announces it. *)
LEMMA PaddleKeeps ==
  ASSUME SInv, NEW s \in Subs, NEW st \in Statuses,
         UNCHANGED <<row, marked, served, job, passVars, withdrawn>>,
         carts' \subseteq Subs, refunds' \in Nat, spent' \in Spent,
         \/ NewVersion(s, st)
         \/ versions' = versions /\ pending' \subseteq pending \cup {Refund(s, refunds')}
  PROVE  SInv' /\ RowKept
<1>1. /\ TypeOK /\ served \in BOOLEAN /\ revoke \in BOOLEAN /\ withdrawn \subseteq Subs
      /\ job \in [Processes -> Job]
  BY Types
<1>2. /\ row' = row /\ marked' = marked /\ served' = served /\ job' = job
      /\ page' = page /\ revoke' = revoke /\ withdrawn' = withdrawn
  BY DEF passVars
<1>3. JobsStep
  BY <1>1, <1>2 DEF JobsStep
<1>4. CASE NewVersion(s, st)
  <2>1. /\ versions' \in [Subs -> Seq(Statuses)] /\ Grown
        /\ Len(versions'[s]) = Len(versions[s]) + 1
        /\ pending' = pending \cup {State(s, Len(versions[s]) + 1)}
    BY <1>1, <1>4, VersionsGrow
  <2>2. Len(versions[s]) \in Nat
    BY <1>1 DEF TypeOK
  <2>3. PICK e : e = State(s, Len(versions[s]) + 1)
    OBVIOUS
  <2>4. e \in Event /\ Real(e, versions')
    BY <2>1, <2>2, <2>3 DEF State, Event, Real
  <2>5. RowStep
    BY <1>2, <2>1, RowUntouched
  <2>6. QED
    BY <1>1, <1>2, <1>3, <2>1, <2>3, <2>4, <2>5, Assemble
<1>5. CASE versions' = versions /\ pending' \subseteq pending \cup {Refund(s, refunds')}
  <2>1. versions' \in [Subs -> Seq(Statuses)] /\ Grown
    BY <1>1, <1>5, SameGrown DEF TypeOK
  <2>2. PICK e : e = Refund(s, refunds')
    OBVIOUS
  <2>3. e \in Event /\ Real(e, versions')
    BY <2>2 DEF Refund, Event, Real
  <2>4. RowStep
    BY <1>2, <2>1, RowUntouched
  <2>5. QED
    BY <1>1, <1>2, <1>3, <1>5, <2>1, <2>2, <2>3, <2>4, Assemble
<1>6. QED
  BY <1>4, <1>5

(* A step of Paddle or of the subscriber keeps the invariant. *)
LEMMA PaddleOK ==
  ASSUME SInv, PaddleStep
  PROVE  SInv' /\ RowKept
<1>1. /\ carts \subseteq Subs /\ refunds \in Nat /\ spent \in Spent
  BY DEF SInv, TypeOK, Spent
<1>2. PICK s \in Subs : \/ OpenCheckout(s) \/ Pay(s) \/ PaddleRefunds(s)
                        \/ \E st \in Statuses : Change(s, st)
  BY DEF PaddleStep
<1>3. "active" \in Statuses
  BY DEF Statuses
<1>4. CASE OpenCheckout(s)
  BY <1>1, <1>3, <1>4, PaddleKeeps DEF OpenCheckout
<1>5. CASE Pay(s)
  BY <1>1, <1>3, <1>5, PaddleKeeps DEF Pay
<1>6. CASE PaddleRefunds(s)
  BY <1>1, <1>3, <1>6, PaddleKeeps DEF PaddleRefunds
<1>7. ASSUME NEW st \in Statuses, Change(s, st)
      PROVE  SInv' /\ RowKept
  <2>1. spent' \in Spent
    BY <1>1, <1>7 DEF Change, Spent
  <2>2. QED
    BY <1>1, <1>7, <2>1, PaddleKeeps DEF Change
<1>8. QED
  BY <1>2, <1>4, <1>5, <1>6, <1>7

----------------------------------------------------------------------------
(* applyPaddleSubscription. *)

(* Each step of applying a version keeps the invariant. *)
LEMMA ApplyOK ==
  ASSUME SInv, NEW x \in Processes, ApplyStep(x)
  PROVE  SInv' /\ RowKept
<1>1. /\ TypeOK /\ served \in BOOLEAN /\ revoke \in BOOLEAN /\ withdrawn \subseteq Subs
      /\ spent \in Spent /\ job[x] \in Job /\ JobReal(job[x], versions, HasRow)
  BY Types
<1>2. versions' = versions => Grown
  BY <1>1, SameGrown
<1>3. CASE GetByPaddleSubscriptionId(x)
  <2>1. job[x].at = "byId" /\ row' = row /\ versions' = versions
    BY <1>3 DEF GetByPaddleSubscriptionId, At, paddleVars
  <2>2. HasRow' = HasRow
    BY <2>1 DEF HasRow
  <2>3. \/ Goto(x, "byGuild") \/ Over(x)
        \/ To(x, [job[x] EXCEPT !.at = "update", !.was = Premium])
    BY <1>3 DEF GetByPaddleSubscriptionId
  <2>4. CASE Goto(x, "byGuild")
    <3>1. JobsStep
      BY <1>2, <2>1, <2>2, <2>4, GotoReal DEF Applies
    <3>2. QED
      BY <1>1, <1>3, <3>1, Quiet DEF GetByPaddleSubscriptionId, passVars
  <2>5. CASE Over(x)
    <3>1. JobsStep
      BY <1>2, <2>1, <2>2, <2>5, OverReal DEF Applies
    <3>2. QED
      BY <1>1, <1>3, <3>1, Quiet DEF GetByPaddleSubscriptionId, passVars
  <2>6. CASE To(x, [job[x] EXCEPT !.at = "update", !.was = Premium])
    <3>1. PICK i \in Job : i = job[x]
      BY <1>1
    <3>2. PICK w \in BOOLEAN : w = Premium
      BY DEF Premium
    <3>3. PICK j : j = [i EXCEPT !.at = "update", !.was = w]
      OBVIOUS
    <3>4. j \in Job /\ j.op = i.op /\ j.e = i.e /\ j.at = "update"
      BY <3>1, <3>3 DEF Job
    <3>5. JobReal(j, versions', HasRow')
      BY <1>1, <2>1, <3>1, <3>4 DEF JobReal, Applies
    <3>6. To(x, j)
      BY <2>6, <3>1, <3>2, <3>3
    <3>7. JobsStep
      BY <1>1, <3>4, <3>5, <3>6, GivenJob
    <3>8. QED
      BY <1>1, <1>3, <3>7, Quiet DEF GetByPaddleSubscriptionId, passVars
  <2>7. QED
    BY <2>3, <2>4, <2>5, <2>6
<1>4. CASE Update(x)
  <2>1. job[x].at \in Applies
    BY <1>4 DEF Update, At, Applies
  <2>2. CASE row.sub = job[x].e.sub
    BY <1>4, <2>1, <2>2, Writes DEF Update
  <2>3. CASE row.sub # job[x].e.sub
    <3>1. Over(x) /\ row' = row /\ revoke' = revoke /\ versions' = versions
      BY <1>4, <2>3 DEF Update, paddleVars
    <3>2. HasRow' = HasRow
      BY <3>1 DEF HasRow
    <3>3. JobsStep
      BY <1>2, <2>1, <3>1, <3>2, OverReal
    <3>4. QED
      BY <1>1, <1>4, <3>1, <3>3, Quiet DEF Update
  <2>4. QED
    BY <2>2, <2>3
<1>5. CASE GetByGuildId(x)
  <2>1. job[x].at = "byGuild" /\ row' = row /\ versions' = versions
    BY <1>5 DEF GetByGuildId, At, paddleVars
  <2>2. HasRow' = HasRow
    BY <2>1 DEF HasRow
  <2>3. Goto(x, "insert") \/ Over(x) \/ Goto(x, "replace")
    BY <1>5 DEF GetByGuildId
  <2>4. JobsStep
    BY <1>2, <2>1, <2>2, <2>3, GotoReal, OverReal DEF Applies
  <2>5. QED
    BY <1>1, <1>5, <2>4, Quiet DEF GetByGuildId, passVars
<1>6. CASE Replace(x)
  <2>1. job[x].at \in Applies
    BY <1>6 DEF Replace, At, Applies
  <2>2. QED
    BY <1>6, <2>1, Writes DEF Replace
<1>7. CASE Insert(x)
  <2>1. job[x].at \in Applies
    BY <1>7 DEF Insert, At, Applies
  <2>2. CASE HasRow
    <3>1. Done(x) /\ row' = row /\ revoke' = revoke
      BY <1>7, <2>2 DEF Insert
    <3>2. JobsStep
      BY <1>1, <3>1, DoneReal
    <3>3. QED
      BY <1>1, <1>7, <3>1, <3>2, Quiet DEF Insert
  <2>3. CASE ~HasRow
    BY <1>7, <2>1, <2>3, Writes DEF Insert
  <2>4. QED
    BY <2>2, <2>3
<1>8. CASE ReadPlan(x)
  <2>1. To(x, [job[x] EXCEPT !.at = "serve", !.plan = Premium])
    BY <1>8 DEF ReadPlan
  <2>2. row' = row /\ versions' = versions
    BY <1>8 DEF ReadPlan, paddleVars
  <2>3. PICK i \in Job : i = job[x]
    BY <1>1
  <2>4. PICK w \in BOOLEAN : w = Premium
    BY DEF Premium
  <2>5. PICK j : j = [i EXCEPT !.at = "serve", !.plan = w]
    OBVIOUS
  <2>6. j \in Job /\ j.op = i.op /\ j.e = i.e /\ j.at = "serve"
    BY <2>3, <2>5 DEF Job
  <2>7. JobReal(j, versions', HasRow')
    BY <1>1, <2>2, <2>3, <2>6 DEF JobReal, Applies
  <2>8. To(x, j)
    BY <2>1, <2>3, <2>4, <2>5
  <2>9. JobsStep
    BY <1>1, <2>6, <2>7, <2>8, GivenJob
  <2>10. QED
    BY <1>1, <1>8, <2>9, Quiet DEF ReadPlan, passVars
<1>9. CASE Serve(x)
  <2>1. /\ job[x].at = "serve" /\ row' = row /\ versions' = versions
        /\ served' = job[x].plan /\ Over(x)
    BY <1>9 DEF Serve, At, paddleVars
  <2>2. served' \in BOOLEAN
    BY <1>1, <2>1 DEF Job
  <2>3. HasRow' = HasRow
    BY <2>1 DEF HasRow
  <2>4. JobsStep
    BY <1>2, <2>1, <2>3, OverReal
  <2>5. QED
    BY <1>1, <1>9, <2>2, <2>4, Quiet DEF Serve, passVars
<1>10. QED
  BY <1>3, <1>4, <1>5, <1>6, <1>7, <1>8, <1>9 DEF ApplyStep

----------------------------------------------------------------------------
(* Webhooks and withdrawals. *)

(* Each of a request's own steps keeps the invariant. *)
LEMMA RequestOK ==
  ASSUME SInv, NEW x \in Handlers, RequestStep(x)
  PROVE  SInv' /\ RowKept
<1>1. /\ TypeOK /\ served \in BOOLEAN /\ revoke \in BOOLEAN /\ withdrawn \subseteq Subs
      /\ spent \in Spent /\ x \in Processes
      /\ job[x] \in Job /\ JobReal(job[x], versions, HasRow)
  BY Types
<1>2. versions' = versions => Grown
  BY <1>1, SameGrown
<1>3. CASE ApplyStep(x)
  BY <1>1, <1>3, ApplyOK
<1>4. CASE FindRefunded(x)
  <2>1. job[x].at = "target" /\ row' = row /\ versions' = versions
    BY <1>4 DEF FindRefunded, At, paddleVars
  <2>2. job[x].op = "hook" /\ job[x].e \in Event /\ HasRow' = HasRow
    BY <1>1, <2>1 DEF JobReal, HasRow
  <2>3. (row.sub = job[x].e.sub /\ Goto(x, "stamp")) \/ Goto(x, "mark")
    BY <1>4 DEF FindRefunded
  <2>4. row.sub = job[x].e.sub => HasRow
    <3>1. PICK e \in Event : e = job[x].e
      BY <2>2
    <3>2. QED
      BY <3>1, SyncConstants DEF Event, HasRow
  <2>5. JobsStep
    BY <1>1, <1>2, <2>1, <2>2, <2>3, <2>4, GotoReal DEF Applies
  <2>6. QED
    BY <1>1, <1>4, <2>5, Quiet DEF FindRefunded, passVars
<1>5. CASE Stamp(x)
  <2>1. /\ job[x].at = "stamp" /\ Goto(x, "mark")
        /\ row' = IF row.refund < job[x].e.n THEN [row EXCEPT !.refund = job[x].e.n] ELSE row
        /\ versions' = versions
    BY <1>5 DEF Stamp, At, paddleVars
  <2>2. HasRow /\ job[x].op = "hook" /\ job[x].e \in Event
    BY <1>1, <2>1 DEF JobReal
  <2>3. PICK n \in Nat : n = job[x].e.n
    <3>1. PICK e \in Event : e = job[x].e
      BY <2>2
    <3>2. QED
      BY <3>1 DEF Event
  <2>4. row \in Row /\ RowIsTrue /\ row.sub # None
    BY <1>1, <2>2 DEF SInv, TypeOK, RowOK, HasRow
  <2>5. /\ row' \in Row /\ row'.sub = row.sub /\ row'.status = row.status /\ row'.at = row.at
        /\ row'.refund >= row.refund
    BY <2>1, <2>3, <2>4 DEF Row
  <2>6. HasRow' /\ RowOK' /\ RowKept
    BY <2>4, <2>5 DEF HasRow, RowOK, RowKept
  <2>7. RowIsTrue'
    BY <2>1, <2>2, <2>4, <2>5 DEF RowIsTrue, Latest
  <2>8. RowStep
    BY <2>6, <2>7 DEF RowStep
  <2>9. JobsStep
    <3>1. Grown /\ (HasRow => HasRow')
      BY <1>2, <2>1, <2>6
    <3>2. QED
      BY <1>1, <2>1, <2>2, <3>1, GotoReal DEF Applies
  <2>10. QED
    BY <1>1, <1>2, <1>5, <2>1, <2>8, <2>9, Assemble DEF Stamp, TypeOK, paddleVars, passVars
<1>6. CASE MarkProcessed(x)
  <2>1. /\ job[x].at = "mark" /\ Done(x) /\ marked' = marked \cup {job[x].e}
        /\ pending' \subseteq pending /\ row' = row /\ versions' = versions
        /\ (spent' = spent \/ Fault)
    BY <1>6 DEF MarkProcessed, At, paddleVars
  <2>2. job[x].e \in Event /\ Real(job[x].e, versions)
    BY <1>1, <2>1 DEF JobReal
  <2>3. JobsStep
    BY <1>1, <2>1, DoneReal
  <2>4. spent' \in Spent
    BY <1>1, <2>1, FaultSpends
  <2>5. RowStep
    BY <1>2, <2>1, RowUntouched
  <2>6. QED
    BY <1>1, <1>2, <1>6, <2>1, <2>2, <2>3, <2>4, <2>5, Assemble
    DEF MarkProcessed, TypeOK, paddleVars, passVars
<1>7. CASE Cancel(x)
  <2>1. PICK i \in Job : i = job[x]
    BY <1>1
  <2>2. i.at = "cancel" /\ i.e \in Event /\ i.e.kind = "state"
    BY <1>1, <1>7, <2>1 DEF Cancel, At, JobReal, Applies
  <2>3. PICK s \in Subs : s = i.e.sub
    BY <2>2 DEF Event
  <2>4. Len(versions[s]) \in Nat /\ Len(versions[s]) >= 1
    <3>1. i.e.n \in 1..Len(versions[s])
      BY <1>1, <2>1, <2>2, <2>3 DEF JobReal, Real
    <3>2. Len(versions[s]) \in Nat
      BY <1>1, <2>3 DEF TypeOK
    <3>3. QED
      BY <3>1, <3>2
  <2>5. /\ row' = row /\ marked' = marked /\ page' = page /\ carts' = carts
        /\ refunds' = refunds /\ served' = served /\ revoke' = revoke
        /\ withdrawn' = withdrawn /\ spent' = spent
    BY <1>7 DEF Cancel, passVars
  <2>6. HasRow' = HasRow
    BY <2>5 DEF HasRow
  <2>7. ASSUME NEW n \in Nat, n >= 1, n <= Len(versions'[s]), Len(versions'[s]) \in Nat,
               To(x, [job[x] EXCEPT !.at = "byId", !.e = State(s, n)])
        PROVE  JobsStep
    <3>1. PICK e : e = State(s, n)
      OBVIOUS
    <3>2. e \in Event /\ e.kind = "state" /\ Real(e, versions')
      BY <2>7, <3>1 DEF State, Event, Real
    <3>3. PICK j : j = [i EXCEPT !.at = "byId", !.e = e]
      OBVIOUS
    <3>4. j \in Job /\ j.op = i.op /\ j.e = e /\ j.at = "byId"
      BY <3>2, <3>3 DEF Job
    <3>5. JobReal(j, versions', HasRow')
      BY <3>2, <3>4 DEF JobReal
    <3>6. To(x, j)
      BY <2>1, <2>7, <3>1, <3>3
    <3>7. QED
      BY <1>1, <3>4, <3>5, <3>6, GivenJob
  <2>8. CASE versions[s][Len(versions[s])] = "canceled"
    <3>1. /\ To(x, [job[x] EXCEPT !.at = "byId", !.e = State(s, Len(versions[s]))])
          /\ versions' = versions /\ pending' = pending
      BY <1>7, <2>1, <2>3, <2>8 DEF Cancel, Now, Latest
    <3>2. JobsStep
      <4>1. PICK n \in Nat : n = Len(versions[s])
        BY <2>4
      <4>2. n >= 1 /\ n <= Len(versions'[s]) /\ Len(versions'[s]) \in Nat
        BY <2>4, <3>1, <4>1
      <4>3. QED
        BY <2>7, <3>1, <4>1, <4>2
    <3>3. QED
      BY <1>1, <2>5, <3>1, <3>2, Quiet DEF paddleVars
  <2>9. CASE versions[s][Len(versions[s])] # "canceled"
    <3>1. /\ To(x, [job[x] EXCEPT !.at = "byId", !.e = State(s, Len(versions[s]) + 1)])
          /\ NewVersion(s, "canceled")
      BY <1>7, <2>1, <2>3, <2>9 DEF Cancel, Now, Latest
    <3>2. /\ versions' \in [Subs -> Seq(Statuses)] /\ Grown
          /\ Len(versions'[s]) = Len(versions[s]) + 1
          /\ pending' = pending \cup {State(s, Len(versions[s]) + 1)}
      BY <1>1, <3>1, VersionsGrow DEF Statuses
    <3>3. JobsStep
      <4>1. PICK n \in Nat : n = Len(versions[s]) + 1
        BY <2>4
      <4>2. n >= 1 /\ n <= Len(versions'[s]) /\ Len(versions'[s]) \in Nat
        BY <2>4, <3>2, <4>1
      <4>3. QED
        BY <2>7, <3>1, <4>1, <4>2
    <3>4. PICK e : e = State(s, Len(versions[s]) + 1)
      OBVIOUS
    <3>5. e \in Event /\ Real(e, versions')
      BY <2>4, <3>2, <3>4 DEF State, Event, Real
    <3>6. RowStep
      BY <2>5, <3>2, RowUntouched
    <3>7. QED
      BY <1>1, <2>5, <3>2, <3>3, <3>4, <3>5, <3>6, Assemble DEF TypeOK
  <2>10. QED
    BY <2>8, <2>9
<1>8. QED
  BY <1>3, <1>4, <1>5, <1>6, <1>7 DEF RequestStep

(* A request comes in. *)
LEMMA ArrivalOK ==
  ASSUME SInv, NEW x \in Handlers,
         (\E e \in pending : Deliver(x, e)) \/ Withdraw(x)
  PROVE  SInv' /\ RowKept
<1>1. /\ TypeOK /\ served \in BOOLEAN /\ revoke \in BOOLEAN /\ withdrawn \subseteq Subs
      /\ spent \in Spent /\ job \in [Processes -> Job] /\ x \in Processes
  BY Types
<1>2. versions' = versions
  BY DEF Deliver, Withdraw, paddleVars
<1>3. ASSUME NEW e \in pending, Deliver(x, e)
      PROVE  SInv' /\ RowKept
  <2>1. e \in Event /\ Real(e, versions)
    BY <1>1 DEF SInv, TypeOK, EventsOK, EventsReal
  <2>2. CASE e \in marked
    <3>1. JobsStep
      BY <1>1, <1>3, <2>2 DEF Deliver, JobsStep
    <3>2. QED
      BY <1>1, <1>3, <2>2, <3>1, Quiet DEF Deliver, passVars
  <2>3. CASE e \notin marked
    <3>1. PICK at \in {"byId", "target"} : at = IF e.kind = "state" THEN "byId" ELSE "target"
      OBVIOUS
    <3>2. PICK j : j = [NoJob EXCEPT !.op = "hook", !.e = e, !.at = at]
      OBVIOUS
    <3>3. j \in Job /\ j.op = "hook" /\ j.e = e /\ j.at = at
      BY <2>1, <3>2 DEF NoJob, Job
    <3>4. JobReal(j, versions', HasRow')
      BY <1>2, <2>1, <3>1, <3>3 DEF JobReal, Applies
    <3>5. To(x, j)
      BY <1>3, <2>3, <3>1, <3>2 DEF Deliver
    <3>6. JobsStep
      BY <1>1, <3>3, <3>4, <3>5, GivenJob
    <3>7. QED
      BY <1>1, <1>3, <2>3, <3>6, Quiet DEF Deliver, passVars
  <2>4. QED
    BY <2>2, <2>3
<1>4. CASE Withdraw(x)
  <2>1. /\ HasRow /\ row \in Row /\ RowIsTrue
    BY <1>1, <1>4 DEF Withdraw, SInv, TypeOK, RowOK
  <2>2. PICK s \in Subs, n \in Nat : s = row.sub /\ n = row.at
    BY <2>1 DEF HasRow, Row
  <2>3. n \in 1..Len(versions[s])
    BY <2>1, <2>2 DEF RowIsTrue, Latest
  <2>4. PICK e : e = State(s, n)
    OBVIOUS
  <2>5. e \in Event /\ e.kind = "state" /\ Real(e, versions)
    BY <2>3, <2>4 DEF State, Event, Real
  <2>6. PICK j : j = [NoJob EXCEPT !.op = "end", !.e = e, !.at = "cancel"]
    OBVIOUS
  <2>7. j \in Job /\ j.op = "end" /\ j.e = e /\ j.at = "cancel"
    BY <2>5, <2>6 DEF NoJob, Job
  <2>8. JobReal(j, versions', HasRow')
    BY <1>2, <2>5, <2>7 DEF JobReal
  <2>9. To(x, j)
    BY <1>4, <2>2, <2>4, <2>6 DEF Withdraw
  <2>10. JobsStep
    BY <1>1, <2>7, <2>8, <2>9, GivenJob
  <2>11. withdrawn' \subseteq Subs
    BY <1>1, <1>4, <2>2 DEF Withdraw
  <2>12. QED
    BY <1>1, <1>4, <2>10, <2>11, Quiet DEF Withdraw, passVars
<1>5. QED
  BY <1>3, <1>4

----------------------------------------------------------------------------
(* The nightly pass. *)

(* Each step of the pass keeps the invariant. *)
LEMMA PassOK ==
  ASSUME SInv, StartPass \/ PassStep
  PROVE  SInv' /\ RowKept
<1>1. /\ TypeOK /\ served \in BOOLEAN /\ revoke \in BOOLEAN /\ withdrawn \subseteq Subs
      /\ spent \in Spent /\ Night \in Processes
      /\ job[Night] \in Job /\ JobReal(job[Night], versions, HasRow)
  BY Types
<1>2. versions' = versions => Grown
  BY <1>1, SameGrown
<1>3. CASE StartPass
  <2>1. /\ page' = {State(s, Latest(s)) : s \in Started} /\ revoke' = FALSE
        /\ To(Night, [NoJob EXCEPT !.op = "pass", !.at = "list"])
        /\ row' = row /\ versions' = versions
    BY <1>3 DEF StartPass, paddleVars
  <2>2. JobsStep
    BY <1>1, <2>1, PassJob, GivenJob
  <2>3. ASSUME NEW e \in page'
        PROVE  e \in Event /\ e.kind = "state" /\ Real(e, versions')
    <3>1. PICK s \in Subs : versions[s] # <<>> /\ e = State(s, Len(versions[s]))
      BY <2>1 DEF Started, Latest
    <3>2. versions[s] \in Seq(Statuses) /\ versions[s] # <<>>
      BY <1>1, <3>1 DEF TypeOK
    <3>3. Len(versions[s]) \in Nat /\ Len(versions[s]) >= 1
      BY <3>2
    <3>4. PICK n \in Nat : n = Len(versions[s])
      BY <3>3
    <3>5. e.sub = s /\ e.n = n /\ e.kind = "state" /\ e \in Event
      BY <3>1, <3>4 DEF State, Event
    <3>6. QED
      BY <2>1, <3>3, <3>4, <3>5 DEF Real
  <2>4. RowStep
    BY <1>2, <2>1, RowUntouched
  <2>5. QED
    BY <1>1, <1>2, <1>3, <2>1, <2>2, <2>3, <2>4, Assemble DEF StartPass, TypeOK, paddleVars
<1>4. CASE ApplyStep(Night)
  BY <1>1, <1>4, ApplyOK
<1>5. CASE TakeListed
  <2>1. PICK e \in page :
          page' = page \ {e} /\ To(Night, [job[Night] EXCEPT !.at = "byId", !.e = e])
    BY <1>5 DEF TakeListed
  <2>2. e \in Event /\ e.kind = "state" /\ Real(e, versions)
    BY <1>1 DEF SInv, TypeOK, EventsOK, EventsReal, PageOK
  <2>3. PICK i \in Job : i = job[Night]
    BY <1>1
  <2>4. PICK j : j = [i EXCEPT !.at = "byId", !.e = e]
    OBVIOUS
  <2>5. j \in Job /\ j.op = i.op /\ j.e = e /\ j.at = "byId"
    BY <2>2, <2>3, <2>4 DEF Job
  <2>6. versions' = versions
    BY <1>5 DEF TakeListed, paddleVars
  <2>7. JobReal(j, versions', HasRow')
    BY <2>2, <2>5, <2>6 DEF JobReal
  <2>8. To(Night, j)
    BY <2>1, <2>3, <2>4
  <2>9. JobsStep
    BY <1>1, <2>5, <2>7, <2>8, GivenJob
  <2>10. QED
    BY <1>1, <1>5, <2>1, <2>9, Quiet DEF TakeListed
<1>6. CASE Backstop
  <2>1. (Goto(Night, "plan") \/ Done(Night)) /\ versions' = versions /\ row' = row
    BY <1>6 DEF Backstop, paddleVars
  <2>2. HasRow' = HasRow
    BY <2>1 DEF HasRow
  <2>3. CASE Goto(Night, "plan")
    <3>1. JobsStep
      BY <1>1, <1>2, <2>1, <2>2, <2>3, GotoReal DEF Applies
    <3>2. QED
      BY <1>1, <1>6, <3>1, Quiet DEF Backstop, passVars
  <2>4. CASE Done(Night)
    <3>1. JobsStep
      BY <1>1, <2>4, DoneReal
    <3>2. QED
      BY <1>1, <1>6, <3>1, Quiet DEF Backstop, passVars
  <2>5. QED
    BY <2>1, <2>3, <2>4
<1>7. QED
  BY <1>3, <1>4, <1>5, <1>6 DEF PassStep

----------------------------------------------------------------------------
(* The invariant and what follows from it. *)

(* It holds at the start. *)
LEMMA SyncInit ==
  ASSUME Init
  PROVE  SInv
<1>1. versions \in [Subs -> Seq(Statuses)]
  BY DEF Init
<1>2. row = NoRow /\ NoRow \in Row /\ ~HasRow
  BY DEF Init, NoRow, Row, Statuses, HasRow
<1>3. job \in [Processes -> Job] /\ \A x \in Processes : job[x] = NoJob
  BY IdleJob DEF Init
<1>4. TypeOK
  BY <1>1, <1>2, <1>3 DEF Init, TypeOK, RowOK, EventsOK
<1>5. JobsReal
  BY <1>3, IdleJob DEF JobsReal
<1>6. QED
  BY <1>2, <1>4, <1>5 DEF SInv, RowIsTrue, EventsReal, PageOK, Init

(* Every step keeps it, and keeps the row and its refund. *)
LEMMA SyncNext ==
  ASSUME SInv, [Next]_vars
  PROVE  SInv' /\ RowKept
<1>1. /\ TypeOK /\ served \in BOOLEAN /\ revoke \in BOOLEAN /\ withdrawn \subseteq Subs
      /\ spent \in Spent /\ job \in [Processes -> Job] /\ Handlers \subseteq Processes
  BY Types
<1>2. CASE PaddleStep
  BY <1>2, PaddleOK
<1>3. CASE Deliveries
  BY <1>3, ArrivalOK DEF Deliveries
<1>4. CASE StartPass \/ PassStep
  BY <1>4, PassOK
<1>5. CASE Crash
  <2>1. job' = [x \in Processes |-> NoJob] /\ spent' \in Spent
    BY <1>1, <1>5 DEF Crash, Spent
  <2>2. JobsStep
    BY <2>1, IdleJob DEF JobsStep
  <2>3. QED
    BY <1>1, <1>5, <2>1, <2>2, Quiet DEF Crash, passVars
<1>6. ASSUME NEW x \in Handlers, RequestStep(x) \/ Withdraw(x)
      PROVE  SInv' /\ RowKept
  BY <1>6, RequestOK, ArrivalOK
<1>7. ASSUME NEW x \in Processes, Fail(x)
      PROVE  SInv' /\ RowKept
  <2>1. Done(x) /\ spent' \in Spent
    BY <1>1, <1>7, FaultSpends DEF Fail
  <2>2. JobsStep
    BY <1>1, <2>1, DoneReal
  <2>3. QED
    BY <1>1, <1>7, <2>1, <2>2, Quiet DEF Fail, passVars
<1>8. ASSUME NEW e \in marked, MarkExpires(e)
      PROVE  SInv' /\ RowKept
  <2>1. JobsStep
    BY <1>1, <1>8 DEF MarkExpires, JobsStep
  <2>2. QED
    BY <1>1, <1>8, <2>1, Quiet DEF MarkExpires, passVars
<1>9. CASE UNCHANGED vars
  <2>1. JobsStep
    BY <1>1, <1>9 DEF vars, JobsStep
  <2>2. QED
    BY <1>1, <1>9, <2>1, Quiet DEF vars, passVars
<1>10. QED
  BY <1>2, <1>3, <1>4, <1>5, <1>6, <1>7, <1>8, <1>9 DEF Next

(* SInv is an invariant. *)
LEMMA SyncInvariant == Spec => []SInv
BY SyncInit, SyncNext, PTL DEF Spec

(* Types hold, and nothing is ever written where there is no row. *)
THEOREM SyncTypeCorrect == Spec => []TypeOK
<1>1. SInv => TypeOK
  BY DEF SInv
<1>2. QED
  BY <1>1, SyncInvariant, PTL

(* The row is always the status and the time of one version that Paddle     *)
(* really had, for any number of handlers, repeats, faults and crashes.     *)
THEOREM TrueRow == Spec => []RowIsTrue
<1>1. SInv => RowIsTrue
  BY DEF SInv
<1>2. QED
  BY <1>1, SyncInvariant, PTL

(* No write of any handler loses the row or turns its refund date back.     *)
THEOREM RefundHistory == Spec => RefundSurvives
<1>1. SInv /\ [Next]_vars => [HasRow => HasRow' /\ row'.refund >= row.refund]_vars
  BY SyncNext DEF RowKept
<1>2. QED
  BY <1>1, SyncInvariant, PTL DEF Spec, RefundSurvives
=============================================================================
