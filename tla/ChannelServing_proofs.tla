----------------------- MODULE ChannelServing_proofs -----------------------
(***************************************************************************)
(* What ChannelServing guarantees for any set of channels, any number of   *)
(* concurrent handlers and any cap: its state stays well typed, and as     *)
(* long as nothing fails a channel off the allowlist keeps no backlog.     *)
(* And what it guarantees for one handler at a time: the allowlist matches *)
(* the rows, and the guild has what its plan gives it.                     *)
(***************************************************************************)
EXTENDS ChannelServing, TLAPS

Typed == JobsOK /\ DataOK

----------------------------------------------------------------------------
(* Partial functions over the channels.                                     *)

(* A function on some of the channels is a partial function. *)
LEMMA IntoPartial ==
  ASSUME NEW S, NEW D \in SUBSET Channels, NEW f \in [D -> S]
  PROVE  f \in Partial(S)
BY DEF Partial

(* What it means to be a partial function. *)
LEMMA FromPartial ==
  ASSUME NEW S, NEW f \in Partial(S)
  PROVE  /\ DOMAIN f \in SUBSET Channels
         /\ f \in [DOMAIN f -> S]
<1>1. PICK D \in SUBSET Channels : f \in [D -> S]
  BY DEF Partial
<1>2. QED
  BY <1>1

(* Writing keys into a partial function leaves one, and loses no key. *)
LEMMA PutType ==
  ASSUME NEW S, NEW f \in Partial(S), NEW g \in Partial(S)
  PROVE  /\ Put(f, g) \in Partial(S)
         /\ DOMAIN Put(f, g) = DOMAIN f \cup DOMAIN g
<1>1. /\ DOMAIN f \in SUBSET Channels /\ f \in [DOMAIN f -> S]
      /\ DOMAIN g \in SUBSET Channels /\ g \in [DOMAIN g -> S]
  BY FromPartial
<1>2. Put(f, g) \in [DOMAIN f \cup DOMAIN g -> S]
  BY <1>1 DEF Put
<1>3. QED
  BY <1>1, <1>2, IntoPartial DEF Put

(* Deleting keys from a partial function leaves one. *)
LEMMA WithoutType ==
  ASSUME NEW S, NEW f \in Partial(S), NEW D
  PROVE  /\ Without(f, D) \in Partial(S)
         /\ DOMAIN Without(f, D) = DOMAIN f \ D
<1>1. DOMAIN f \in SUBSET Channels /\ f \in [DOMAIN f -> S]
  BY FromPartial
<1>2. Without(f, D) \in [DOMAIN f \ D -> S]
  BY <1>1 DEF Without
<1>3. QED
  BY <1>1, <1>2, IntoPartial DEF Without

(* A partial function into a set is one into a larger set. *)
LEMMA PartialWithin ==
  ASSUME NEW S, NEW T, S \subseteq T, NEW f \in Partial(S)
  PROVE  f \in Partial(T)
<1>1. DOMAIN f \in SUBSET Channels /\ f \in [DOMAIN f -> S]
  BY FromPartial
<1>2. f \in [DOMAIN f -> T]
  BY <1>1
<1>3. QED
  BY <1>1, <1>2, IntoPartial

(* One key alone is a partial function. *)
LEMMA OneType ==
  ASSUME NEW S, NEW c \in Channels, NEW s \in S
  PROVE  [d \in {c} |-> s] \in Partial(S)
BY IntoPartial

(* The rules of some of the rows. *)
LEMMA RulesOfType ==
  ASSUME NEW r \in Partial(Row), NEW D, D \subseteq DOMAIN r
  PROVE  RulesOf(r, D) \in Partial(Rule)
<1>1. DOMAIN r \in SUBSET Channels /\ r \in [DOMAIN r -> Row]
  BY FromPartial
<1>2. RulesOf(r, D) \in [D -> Rule]
  BY <1>1 DEF RulesOf, Row
<1>3. QED
  BY <1>1, <1>2, IntoPartial

(* Pausing and reactivating keep the rows rows. *)
LEMMA SetPausedType ==
  ASSUME NEW r \in Partial(Row), NEW D, NEW p \in BOOLEAN
  PROVE  SetPaused(r, D, p) \in Partial(Row)
<1>1. DOMAIN r \in SUBSET Channels /\ r \in [DOMAIN r -> Row]
  BY FromPartial
<1>2. SetPaused(r, D, p) \in [DOMAIN r -> Row]
  BY <1>1 DEF SetPaused, Row
<1>3. QED
  BY <1>1, <1>2, IntoPartial

(* The columns an edit writes give a rule again. *)
LEMMA WriteRuleType ==
  ASSUME rows \in Partial(Row), NEW op, NEW new \in Partial(Rule), WriteRule(op, new)
  PROVE  rows' \in Partial(Row)
<1>1. /\ DOMAIN rows \in SUBSET Channels /\ rows \in [DOMAIN rows -> Row]
      /\ new \in [DOMAIN new -> Rule]
  BY FromPartial
<1>2. \A c \in DOMAIN rows \cap DOMAIN new :
        [rows[c] EXCEPT !.rule = Columns(op, rows[c].rule, new[c])] \in Row
  BY <1>1 DEF Row, Rule, Columns
<1>3. rows' \in [DOMAIN rows -> Row]
  BY <1>1, <1>2 DEF WriteRule
<1>4. QED
  BY <1>1, <1>3, IntoPartial

----------------------------------------------------------------------------
(* Handlers.                                                                *)

(* The new row's rule and an idle handler are well typed. *)
LEMMA Defaults ==
  NewRule \in Rule /\ NoRules \in Partial(Rule) /\ NoJob \in Job
<1>1. NewRule \in Rule
  BY ServingConstants DEF NewRule, Rule
<1>2. NoRules \in [{} -> Rule]
  BY DEF NoRules
<1>3. NoRules \in Partial(Rule)
  BY <1>2, IntoPartial
<1>4. NoJob \in Job
  BY <1>3 DEF NoJob, Job
<1>5. QED
  BY <1>1, <1>3, <1>4

(* A handler that is given a well-typed job leaves all jobs well typed. *)
LEMMA ToType ==
  ASSUME JobsOK, NEW x \in Handlers, NEW j \in Job, To(x, j)
  PROVE  JobsOK'
BY DEF JobsOK, To

(* Ending, going on to another await, and the shared steps' continuation. *)
LEMMA MoveType ==
  ASSUME JobsOK, NEW x \in Handlers,
         Done(x) \/ Step(x)
           \/ \E at \in {"unpause", "put", "undo", "snapshot", "clear", "plan", "all",
                         "paused", "excess", "del", "check"} : Goto(x, at)
  PROVE  JobsOK'
<1>1. job[x] \in Job
  BY DEF JobsOK
<1>2. NoJob \in Job
  BY Defaults
<1>3. \A at \in {"unpause", "put", "undo", "snapshot", "clear", "plan", "all",
                 "paused", "excess", "del", "check"} : [job[x] EXCEPT !.at = at] \in Job
  BY <1>1 DEF Job
<1>4. job[x].next # "idle" => [job[x] EXCEPT !.at = job[x].next, !.next = "idle"] \in Job
  BY <1>1 DEF Job
<1>5. QED
  BY <1>2, <1>3, <1>4, ToType DEF Done, Step, Goto

----------------------------------------------------------------------------
(* Messages.                                                                *)

(* A message that was on its way to a backlog that is dropped is late: the  *)
(* others are as they were, and of other channels. *)
LEMMA DroppedPosts ==
  ASSUME posts \subseteq Post, NEW S, Dropped(S)
  PROVE  /\ posts' \subseteq Post
         /\ \A q \in posts' : ~q.late => q \in posts /\ q.of \notin S
<1> DEFINE F(p) == IF p.of \in S THEN [p EXCEPT !.held = FALSE, !.late = @ \/ p.at # "done"]
                   ELSE p
<1>1. \A q \in posts' : \E p \in posts : q = F(p) /\ (q.held \/ q.at # "done")
  BY DEF Dropped, Followed
<1>2. ASSUME NEW q \in posts' PROVE q \in Post /\ (~q.late => q \in posts /\ q.of \notin S)
  <2>1. PICK p \in posts : q = F(p) /\ (q.held \/ q.at # "done")
    BY <1>1
  <2>2. p \in Post
    OBVIOUS
  <2>3. CASE p.of \in S
    <3>1. /\ q.id = p.id /\ q.of = p.of /\ q.at = p.at /\ q.held = FALSE
          /\ q.late = (p.late \/ p.at # "done") /\ q \in Post
      BY <2>1, <2>2, <2>3 DEF Post
    <3>2. QED
      BY <2>1, <3>1
  <2>4. CASE p.of \notin S
    BY <2>1, <2>2, <2>4
  <2>5. QED
    BY <2>3, <2>4
<1>3. QED
  BY <1>2

(* When the flag is taken every message on its way is late. *)
LEMMA OvertakenPosts ==
  ASSUME posts \subseteq Post, Overtaken
  PROVE  /\ posts' \subseteq Post
         /\ \A q \in posts' : ~q.late => q \in posts /\ q.at = "done"
<1>1. ASSUME NEW q \in posts' PROVE q \in Post /\ (~q.late => q \in posts /\ q.at = "done")
  <2>1. PICK p \in posts : q = [p EXCEPT !.late = @ \/ p.at # "done"]
    BY DEF Overtaken
  <2>2. p \in Post
    OBVIOUS
  <2>3. /\ q.at = p.at /\ q.late = (p.late \/ p.at # "done") /\ q \in Post
    BY <2>1, <2>2 DEF Post
  <2>4. p.late = FALSE /\ p.at = "done" => q = p
    BY <2>1, <2>2 DEF Post
  <2>5. QED
    BY <2>2, <2>3, <2>4 DEF Post
<1>2. QED
  BY <1>1

Underway(p) == p.held \/ p.at = "push"

(* What a message becomes was a message before, of the same channel, that    *)
(* had been let through already or is let through by the allowlist. *)
LEMMA MovedPosts ==
  ASSUME posts \subseteq Post, NEW p \in posts, GetRule(p) \/ Hold(p) \/ GiveUp(p) \/ Drain(p)
  PROVE  /\ posts' \subseteq Post
         /\ \A q \in posts' : ~q.late =>
              \/ q \in posts
              \/ /\ ~p.late /\ p.of = q.of /\ p.at # "done"
                 /\ Underway(p) \/ q.of \in DOMAIN cache
<1>1. p \in Post
  OBVIOUS
<1>2. ASSUME NEW S \in SUBSET Post, Becomes(p, S)
      PROVE  /\ posts' \subseteq Post
             /\ \A q \in posts' : (q \in posts \/ q \in S) /\ (q.held \/ q.at # "done")
  BY <1>2 DEF Becomes, Followed
<1>3. CASE GetRule(p)
  <2>1. CASE Becomes(p, {})
    BY <1>2, <2>1
  <2>2. CASE p.of \in DOMAIN cache /\ Becomes(p, {[p EXCEPT !.at = "push"]})
    <3>1. LET q == [p EXCEPT !.at = "push"] IN q \in Post /\ q.of = p.of /\ q.late = p.late
      BY <1>1 DEF Post
    <3>2. p.at # "done"
      BY <1>3 DEF GetRule
    <3>3. /\ posts' \subseteq Post
          /\ \A q \in posts' : q \in posts \/ q = [p EXCEPT !.at = "push"]
      BY <1>2, <2>2, <3>1
    <3>4. QED
      BY <2>2, <3>1, <3>2, <3>3
  <2>3. QED
    BY <1>3, <2>1, <2>2 DEF GetRule
<1>4. ASSUME NEW r \in Post, r.of = p.of, r.late = p.late, Becomes(p, {r}), Underway(p),
             p.at = "done" => ~r.held /\ r.at = "done"
      PROVE  /\ posts' \subseteq Post
             /\ \A q \in posts' : ~q.late =>
                  q \in posts \/ (~p.late /\ p.of = q.of /\ p.at # "done" /\ Underway(p))
  BY <1>2, <1>4
<1>5. CASE Hold(p)
  <2>1. PICK at \in {"push", "done"} : Becomes(p, {[p EXCEPT !.at = at, !.held = TRUE]})
    BY <1>5 DEF Hold
  <2>2. LET r == [p EXCEPT !.at = at, !.held = TRUE]
        IN  r \in Post /\ r.of = p.of /\ r.late = p.late
    BY <1>1 DEF Post
  <2>3. Underway(p) /\ p.at # "done"
    BY <1>5 DEF Hold, Underway
  <2>4. QED
    BY <1>4, <2>1, <2>2, <2>3
<1>6. CASE GiveUp(p)
  <2>1. LET r == [p EXCEPT !.at = "done"] IN r \in Post /\ r.of = p.of /\ r.late = p.late
    BY <1>1 DEF Post
  <2>2. Underway(p) /\ p.at # "done" /\ Becomes(p, {[p EXCEPT !.at = "done"]})
    BY <1>6 DEF GiveUp, Underway
  <2>3. QED
    BY <1>4, <2>1, <2>2
<1>7. CASE Drain(p)
  <2>1. LET r == [p EXCEPT !.held = FALSE]
        IN  r \in Post /\ r.of = p.of /\ r.late = p.late /\ r.at = p.at /\ ~r.held
    BY <1>1 DEF Post
  <2>2. Underway(p) /\ Becomes(p, {[p EXCEPT !.held = FALSE]})
    BY <1>7 DEF Drain, Underway
  <2>3. QED
    BY <1>4, <2>1, <2>2
<1>8. QED
  BY <1>3, <1>5, <1>6, <1>7

(* A message the bot begins to look at is not held. *)
LEMMA NewPosts ==
  ASSUME posts \subseteq Post, NEW c \in Channels, GetFlags(c)
  PROVE  /\ posts' \subseteq Post
         /\ \A q \in posts' : q \in posts \/ (flag /\ ~Underway(q))
<1>1. PICK m \in Messages :
        posts' = posts \cup {[id |-> m, of |-> c, at |-> "rule", held |-> FALSE, late |-> FALSE]}
  BY DEF GetFlags
<1>2. [id |-> m, of |-> c, at |-> "rule", held |-> FALSE, late |-> FALSE] \in Post
  BY DEF Post
<1>3. flag
  BY DEF GetFlags
<1>4. ~Underway([id |-> m, of |-> c, at |-> "rule", held |-> FALSE, late |-> FALSE])
  BY DEF Underway
<1>5. QED
  BY <1>1, <1>2, <1>3, <1>4

----------------------------------------------------------------------------
(* Typed is inductive: first the steps of add and get.                      *)

(* The steps of add keep the state well typed. *)
LEMMA AddTyped ==
  ASSUME Typed, NEW x \in Handlers, AddSteps(x) \/ GetFind(x)
  PROVE  Typed'
<1> USE DEF Typed
<1>1. /\ job[x] \in Job /\ rows \in Partial(Row) /\ DOMAIN rows \in SUBSET Channels
      /\ rows \in [DOMAIN rows -> Row] /\ job[x].on \subseteq Channels
      /\ Serving(rows) \subseteq DOMAIN rows
  BY FromPartial DEF JobsOK, DataOK, Job, Serving
<1>2. CASE AddCount(x)
  <2>1. \A b \in BOOLEAN : [job[x] EXCEPT !.at = "find", !.ok = b] \in Job
    BY <1>1 DEF Job
  <2>2. (job[x].ok \/ Cardinality(Serving(rows)) < Cap) \in BOOLEAN
    OBVIOUS
  <2>3. To(x, [job[x] EXCEPT !.at = "find", !.ok = (job[x].ok \/ Cardinality(Serving(rows)) < Cap)])
    BY <1>2 DEF AddCount
  <2>4. JobsOK'
    BY <2>1, <2>2, <2>3, ToType
  <2>5. QED
    BY <1>2, <2>4 DEF AddCount, Reads, dbVars, cacheVars, DataOK
<1>3. CASE AddFind(x)
  <2>1. PICK c \in job[x].on :
          \/ Done(x)
          \/ To(x, [job[x] EXCEPT !.op = "insert", !.at = "insert",
                                  !.rules = [d \in {c} |-> NewRule]])
          \/ /\ c \in DOMAIN rows
             /\ To(x, [[job[x] EXCEPT !.op = "unpause", !.rules = RulesOf(rows, {c})]
                        EXCEPT !.at = IF rows[c].rule.conds > 0 THEN "plan" ELSE "unpause"])
    BY <1>3 DEF AddFind
  <2>2. [d \in {c} |-> NewRule] \in Partial(Rule)
    BY <1>1, Defaults, OneType
  <2>3. [job[x] EXCEPT !.op = "insert", !.at = "insert", !.rules = [d \in {c} |-> NewRule]] \in Job
    BY <1>1, <2>2 DEF Job
  <2>4. ASSUME c \in DOMAIN rows
        PROVE  \A at \in {"plan", "unpause"} :
                 [[job[x] EXCEPT !.op = "unpause", !.rules = RulesOf(rows, {c})]
                    EXCEPT !.at = at] \in Job
    <3>1. RulesOf(rows, {c}) \in Partial(Rule)
      BY <1>1, <2>4, RulesOfType
    <3>2. QED
      BY <1>1, <3>1 DEF Job
  <2>5. JobsOK'
    BY <2>1, <2>3, <2>4, ToType, MoveType
  <2>6. QED
    BY <1>3, <2>5 DEF AddFind, Reads, dbVars, cacheVars, DataOK
<1>4. CASE AddPlan(x)
  <2>1. /\ DOMAIN job[x].rules \in SUBSET Channels
        /\ job[x].rules \in [DOMAIN job[x].rules -> Rule]
    BY <1>1, FromPartial DEF Job
  <2>2. \A c \in DOMAIN job[x].rules : [job[x].rules[c] EXCEPT !.conds = 0] \in Rule
    BY <2>1, ServingConstants DEF Rule
  <2> DEFINE dropped == [c \in DOMAIN job[x].rules |-> [job[x].rules[c] EXCEPT !.conds = 0]]
  <2>3. dropped \in Partial(Rule)
    <3>1. dropped \in [DOMAIN job[x].rules -> Rule]
      BY <2>2
    <3>2. QED
      BY <2>1, <3>1, IntoPartial
  <2>4. \/ Goto(x, "unpause") \/ Done(x)
        \/ To(x, [job[x] EXCEPT !.at = "unpause", !.ok = FALSE, !.rules = dropped])
    BY <1>4 DEF AddPlan
  <2> HIDE DEF dropped
  <2>5. [job[x] EXCEPT !.at = "unpause", !.ok = FALSE, !.rules = dropped] \in Job
    BY <1>1, <2>3 DEF Job
  <2>6. JobsOK'
    BY <2>4, <2>5, ToType, MoveType
  <2>7. QED
    BY <1>4, <2>6 DEF AddPlan, Reads, dbVars, cacheVars, DataOK
<1>5. CASE Unpause(x)
  <2>1. JobsOK'
    BY <1>5, MoveType DEF Unpause
  <2>2. \A c \in DOMAIN rows :
          /\ [paused |-> FALSE, rule |-> rows[c].rule] \in Row
          /\ [paused |-> FALSE, rule |-> [rows[c].rule EXCEPT !.conds = 0]] \in Row
    BY <1>1, ServingConstants DEF Row, Rule
  <2>3. rows' \in [DOMAIN rows -> Row]
    BY <1>1, <1>5, <2>2 DEF Unpause
  <2>4. rows' \in Partial(Row)
    BY <1>1, <2>3, IntoPartial
  <2>5. QED
    BY <1>5, <2>1, <2>4 DEF Unpause, cacheVars, DataOK
<1>6. CASE Insert(x)
  <2>1. CASE Done(x) /\ UNCHANGED <<rows, older>>
    BY <1>6, <2>1, MoveType DEF Insert, cacheVars, DataOK
  <2>2. CASE \E c \in job[x].on \ DOMAIN rows :
               /\ rows' = Put(rows, [d \in {c} |-> [paused |-> FALSE, rule |-> NewRule]])
               /\ To(x, [job[x] EXCEPT !.at = "put", !.next = "mark"])
    <3>1. PICK c \in job[x].on :
               /\ rows' = Put(rows, [d \in {c} |-> [paused |-> FALSE, rule |-> NewRule]])
               /\ To(x, [job[x] EXCEPT !.at = "put", !.next = "mark"])
      BY <2>2
    <3>2. [paused |-> FALSE, rule |-> NewRule] \in Row
      BY Defaults DEF Row
    <3>3. rows' \in Partial(Row)
      BY <1>1, <3>1, <3>2, OneType, PutType
    <3>4. [job[x] EXCEPT !.at = "put", !.next = "mark"] \in Job
      BY <1>1 DEF Job
    <3>5. JobsOK'
      BY <3>1, <3>4, ToType
    <3>6. QED
      BY <1>6, <3>3, <3>5 DEF Insert, cacheVars, DataOK
  <2>3. QED
    BY <1>6, <2>1, <2>2 DEF Insert
<1>7. CASE Mark(x)
  BY <1>7, MoveType DEF Mark, Reads, dbVars, cacheVars, DataOK
<1>8. CASE InsertUndo(x)
  <2>1. PICK c \in job[x].on : rows' = Without(rows, {c})
    BY <1>8 DEF InsertUndo
  <2>2. rows' \in Partial(Row)
    BY <1>1, <2>1, WithoutType
  <2>3. QED
    BY <1>8, <2>2, MoveType DEF InsertUndo, cacheVars, DataOK
<1>9. CASE GetFind(x)
  <2>1. CASE job[x].on \subseteq Serving(rows)
             /\ To(x, [job[x] EXCEPT !.at = "put", !.rules = RulesOf(rows, job[x].on)])
    <3>1. RulesOf(rows, job[x].on) \in Partial(Rule)
      BY <1>1, <2>1, RulesOfType
    <3>2. [job[x] EXCEPT !.at = "put", !.rules = RulesOf(rows, job[x].on)] \in Job
      BY <1>1, <3>1 DEF Job
    <3>3. JobsOK'
      BY <2>1, <3>2, ToType
    <3>4. QED
      BY <1>9, <3>3 DEF GetFind, Reads, dbVars, cacheVars, DataOK
  <2>2. CASE Done(x)
    BY <1>9, <2>2, MoveType DEF GetFind, Reads, dbVars, cacheVars, DataOK
  <2>3. QED
    BY <1>9, <2>1, <2>2 DEF GetFind
<1>10. QED
  BY <1>2, <1>3, <1>4, <1>5, <1>6, <1>7, <1>8, <1>9 DEF AddSteps

(* An edit makes a rule of a rule. *)
LEMMA EditsType ==
  ASSUME NEW op, NEW r \in Rule
  PROVE  Edits(op, r) \subseteq Rule
<1>1. /\ r.conds \in 0..MaxGrown
      /\ \A n \in 0..MaxGrown : [r EXCEPT !.conds = n] \in Rule
      /\ \A m \in Modes : [r EXCEPT !.mode = m] \in Rule
      /\ {r.conds - 1} \cap Nat \subseteq 0..MaxGrown
      /\ [conds : 0..MaxConds, mode : Modes] \subseteq Rule
  BY ServingConstants DEF Rule
<1>2. QED
  BY <1>1 DEF Edits

(* The filter edits keep the state well typed. *)
LEMMA EditTyped ==
  ASSUME Typed, NEW x \in Handlers, EditSteps(x)
  PROVE  Typed'
<1> USE DEF Typed
<1>1. /\ job[x] \in Job /\ rows \in Partial(Row) /\ DOMAIN rows \in SUBSET Channels
      /\ rows \in [DOMAIN rows -> Row] /\ job[x].on \subseteq Channels
      /\ job[x].rules \in Partial(Rule) /\ job[x].old \in Partial(Rule)
  BY FromPartial DEF JobsOK, DataOK, Job
<1>2. CASE EditServing(x) \/ EditCheck(x)
  BY <1>2, MoveType DEF EditServing, EditCheck, Reads, dbVars, cacheVars, DataOK
<1>3. CASE EditSnapshot(x)
  <2>1. CASE Done(x)
    BY <1>3, <2>1, MoveType DEF EditSnapshot, Reads, dbVars, cacheVars, DataOK
  <2>2. CASE ~Done(x)
    <3>0. PICK c \in job[x].on \cap DOMAIN rows : \E n \in Edits(job[x].op, rows[c].rule) :
            To(x, [job[x] EXCEPT !.at = "write", !.rules = [d \in {c} |-> n],
                                 !.old = RulesOf(rows, {c})])
      BY <1>3, <2>2 DEF EditSnapshot
    <3>1. PICK n \in Edits(job[x].op, rows[c].rule) :
            To(x, [job[x] EXCEPT !.at = "write", !.rules = [d \in {c} |-> n],
                                 !.old = RulesOf(rows, {c})])
      BY <3>0
    <3>r. rows[c].rule \in Rule /\ n \in Rule
      BY <1>1, EditsType DEF Row
    <3>2. /\ [d \in {c} |-> n] \in Partial(Rule)
          /\ RulesOf(rows, {c}) \in Partial(Rule)
      BY <1>1, <3>r, OneType, RulesOfType
    <3>3. [job[x] EXCEPT !.at = "write", !.rules = [d \in {c} |-> n],
                         !.old = RulesOf(rows, {c})] \in Job
      BY <1>1, <3>2 DEF Job
    <3>4. JobsOK'
      BY <3>1, <3>3, ToType
    <3>5. QED
      BY <1>3, <3>4 DEF EditSnapshot, Reads, dbVars, cacheVars, DataOK
  <2>3. QED
    BY <2>1, <2>2
<1>4. CASE EditWrite(x)
  <2>1. rows' \in Partial(Row)
    BY <1>1, <1>4, WriteRuleType DEF EditWrite
  <2>2. strayed' \subseteq Channels
    BY <1>1, <1>4 DEF EditWrite, DataOK
  <2>3. JobsOK'
    BY <1>4, MoveType DEF EditWrite
  <2>4. QED
    BY <1>4, <2>1, <2>2, <2>3 DEF EditWrite, cacheVars, DataOK
<1>5. CASE EditUndo(x)
  <2>1. rows' \in Partial(Row)
    BY <1>1, <1>5, WriteRuleType DEF EditUndo
  <2>2. QED
    BY <1>5, <2>1, MoveType DEF EditUndo, cacheVars, DataOK
<1>6. QED
  BY <1>2, <1>3, <1>4, <1>5 DEF EditSteps

(* The steps of the plan and of the setting keep the state well typed. *)
LEMMA PlanTyped ==
  ASSUME Typed, NEW x \in Handlers, PlanSteps(x)
  PROVE  Typed'
<1> USE DEF Typed
<1>1. /\ job[x] \in Job /\ rows \in Partial(Row) /\ DOMAIN rows \in SUBSET Channels
      /\ job[x].arg \in BOOLEAN /\ job[x].on \subseteq Channels
      /\ Serving(rows) \subseteq DOMAIN rows /\ Serving(rows) \subseteq Channels
      /\ Filtered(rows) \subseteq Channels
  BY FromPartial DEF JobsOK, DataOK, Job, Serving, Filtered
<1>2. CASE ReadPlan(x)
  <2>1. entitled \in BOOLEAN /\ RolloverInEffect \in BOOLEAN
    BY DEF DataOK, RolloverInEffect
  <2>2. [job[x] EXCEPT !.at = "flag", !.ok = entitled, !.arg = RolloverInEffect] \in Job
    BY <1>1, <2>1 DEF Job
  <2>3. JobsOK'
    BY <1>2, <2>2, ToType DEF ReadPlan
  <2>4. QED
    BY <1>2, <2>3 DEF ReadPlan, Reads, dbVars, cacheVars, DataOK
<1>3. CASE SetFlag(x)
  <2>1. [job[x] EXCEPT !.at = "all", !.next = "filtered"] \in Job
    BY <1>1 DEF Job
  <2>2. \/ Done(x) \/ Goto(x, "all") \/ Goto(x, "paused")
        \/ To(x, [job[x] EXCEPT !.at = "all", !.next = "filtered"])
    BY <1>3 DEF SetFlag
  <2>3. JobsOK'
    BY <2>1, <2>2, ToType, MoveType
  <2>4. posts' \subseteq Post
    BY <1>3, OvertakenPosts DEF SetFlag, DataOK
  <2>5. QED
    BY <1>1, <1>3, <2>3, <2>4 DEF SetFlag, dbVars, DataOK
<1>4. CASE ListPaused(x)
  <2>1. RulesOf(rows, DOMAIN rows \ Serving(rows)) \in Partial(Rule)
    BY <1>1, RulesOfType
  <2>2. [job[x] EXCEPT !.at = "reactivate",
                       !.rules = RulesOf(rows, DOMAIN rows \ Serving(rows))] \in Job
    BY <1>1, <2>1 DEF Job
  <2>3. JobsOK'
    BY <1>4, <2>2, ToType, MoveType DEF ListPaused
  <2>4. QED
    BY <1>4, <2>3 DEF ListPaused, Reads, dbVars, cacheVars, DataOK
<1>5. CASE Reactivate(x)
  <2>1. rows' \in Partial(Row)
    BY <1>1, <1>5, SetPausedType DEF Reactivate
  <2>2. QED
    BY <1>5, <2>1, MoveType DEF Reactivate, cacheVars, DataOK
<1>6. CASE ListAll(x)
  <2>1. [job[x] EXCEPT !.at = "drop", !.on = DOMAIN rows] \in Job
    BY <1>1 DEF Job
  <2>2. JobsOK'
    BY <1>6, <2>1, ToType DEF ListAll
  <2>3. QED
    BY <1>6, <2>2 DEF ListAll, Reads, dbVars, cacheVars, DataOK
<1>7. CASE DropHeld(x)
  <2>1. posts' \subseteq Post
    BY <1>7, DroppedPosts DEF DropHeld, DataOK
  <2>2. QED
    BY <1>7, <2>1, MoveType DEF DropHeld, dbVars, DataOK
<1>8. CASE ListFiltered(x)
  <2>1. [job[x] EXCEPT !.at = "pause", !.next = "excess", !.on = Filtered(rows)] \in Job
    BY <1>1 DEF Job
  <2>2. JobsOK'
    BY <1>8, <2>1, ToType, MoveType DEF ListFiltered
  <2>3. QED
    BY <1>8, <2>2 DEF ListFiltered, Reads, dbVars, cacheVars, DataOK
<1>9. CASE ListExcess(x)
  <2>1. Excess(Cap) \subseteq Channels
    BY <1>1 DEF Excess
  <2>2. [job[x] EXCEPT !.at = "pause", !.next = "idle", !.on = Excess(Cap)] \in Job
    BY <1>1, <2>1 DEF Job
  <2>3. JobsOK'
    BY <1>9, <2>2, ToType, MoveType DEF ListExcess
  <2>4. QED
    BY <1>9, <2>3 DEF ListExcess, Reads, dbVars, cacheVars, DataOK
<1>10. CASE Pause(x)
  <2>1. rows' \in Partial(Row)
    BY <1>1, <1>10, SetPausedType DEF Pause
  <2>2. QED
    BY <1>10, <2>1, MoveType DEF Pause, cacheVars, DataOK
<1>11. CASE WriteSetting(x)
  BY <1>1, <1>11, MoveType DEF WriteSetting, cacheVars, DataOK
<1>12. QED
  BY <1>2, <1>3, <1>4, <1>5, <1>6, <1>7, <1>8, <1>9, <1>10, <1>11 DEF PlanSteps

(* A request that only starts a handler keeps the state well typed. *)
LEMMA AsksTyped ==
  ASSUME Typed, NEW x \in Handlers, NEW j \in Job, Asks, To(x, j)
  PROVE  Typed'
<1>1. JobsOK'
  BY ToType DEF Typed
<1>2. spent' \in [ops : 0..MaxOps, faults : 0..MaxFaults, crashes : 0..MaxCrashes]
  BY ServingConstants DEF Typed, DataOK, Asks, Request
<1>3. QED
  BY <1>1, <1>2 DEF Typed, DataOK, Asks, dbVars, cacheVars

(* Requests, webhooks and the nightly run keep the state well typed. *)
LEMMA RequestTyped ==
  ASSUME Typed, NEW x \in Handlers, Requests(x) \/ Webhook(x) \/ Nightly(x)
  PROVE  Typed'
<1>1. NoJob \in Job /\ NoRules \in Partial(Rule)
  BY Defaults
<1>2. /\ rows \in Partial(Row) /\ entitled \in BOOLEAN
      /\ (Request => spent' \in [ops : 0..MaxOps, faults : 0..MaxFaults, crashes : 0..MaxCrashes])
  BY ServingConstants DEF Typed, DataOK, Request
<1>3. ASSUME NEW on \in BOOLEAN, AskRollover(x, on) PROVE Typed'
  <2>1. [NoJob EXCEPT !.op = "setting", !.at = "write", !.arg = on] \in Job
    BY <1>1 DEF NoJob, Job
  <2>2. QED
    BY <1>3, <2>1, AsksTyped DEF AskRollover
<1>4. ASSUME NEW c \in Channels, NEW clear \in BOOLEAN, Add(x, c, clear) PROVE Typed'
  <2>1. [NoJob EXCEPT !.at = "count", !.on = {c}, !.ok = entitled, !.arg = clear] \in Job
    BY <1>1, <1>2 DEF NoJob, Job
  <2>2. QED
    BY <1>4, <2>1, AsksTyped DEF Add
<1>5. ASSUME NEW c \in Channels, Remove(x, c) PROVE Typed'
  <2>1. [NoJob EXCEPT !.op = "remove", !.at = "del", !.on = {c}] \in Job
    BY <1>1 DEF NoJob, Job
  <2>2. JobsOK'
    BY <1>5, <2>1, ToType DEF Remove, Typed
  <2>3. rows' \in Partial(Row)
    BY <1>2, <1>5, WithoutType DEF Remove
  <2>4. QED
    BY <1>2, <1>5, <2>2, <2>3 DEF Remove, Typed, DataOK, cacheVars
<1>6. ASSUME NEW c \in Channels, Get(x, c) PROVE Typed'
  <2>1. [NoJob EXCEPT !.op = "get", !.at = "find", !.on = {c}] \in Job
    BY <1>1 DEF NoJob, Job
  <2>2. QED
    BY <1>6, <2>1, AsksTyped DEF Get
<1>7. ASSUME NEW c \in Channels, EditFromDashboard(x, c) PROVE Typed'
  <2>1. [NoJob EXCEPT !.op = "rule", !.at = "serving", !.on = {c}] \in Job
    BY <1>1 DEF NoJob, Job, EditOps
  <2>2. QED
    BY <1>7, <2>1, AsksTyped DEF EditFromDashboard
<1>8. ASSUME NEW c \in Channels, NEW op \in EditOps \ {"rule"}, EditFromPanel(x, c, op)
      PROVE  Typed'
  <2>1. \A at \in {"check", "snapshot"} : [NoJob EXCEPT !.op = op, !.on = {c}, !.at = at] \in Job
    BY <1>1 DEF NoJob, Job
  <2>2. \E at \in {"check", "snapshot"} :
          Asks /\ To(x, [NoJob EXCEPT !.op = op, !.on = {c}, !.at = at])
    BY <1>8 DEF EditFromPanel
  <2>3. QED
    BY <2>1, <2>2, AsksTyped
<1>9. [NoJob EXCEPT !.op = "reconcile", !.at = "plan"] \in Job
  BY <1>1 DEF NoJob, Job
<1>10. CASE Webhook(x)
  <2>1. JobsOK'
    BY <1>9, <1>10, ToType DEF Webhook, ToPlan, Typed
  <2>2. QED
    BY <1>2, <1>10, <2>1 DEF Webhook, Typed, DataOK, cacheVars
<1>11. CASE Nightly(x)
  <2>1. JobsOK'
    BY <1>9, <1>11, ToType DEF Nightly, ToPlan, Typed
  <2>2. QED
    BY <1>11, <2>1 DEF Nightly, Reads, Typed, DataOK, dbVars, cacheVars
<1>12. QED
  BY <1>3, <1>4, <1>5, <1>6, <1>7, <1>8, <1>10, <1>11 DEF Requests

(* The shared cache steps, a failing one, and the bot's, the proxy's and the *)
(* environment's steps keep the state well typed. *)
LEMMA CacheTyped ==
  ASSUME Typed, NEW x \in Handlers, CacheSteps(x) \/ Fail(x)
  PROVE  Typed'
<1>1. /\ job[x] \in Job /\ cache \in Partial(Rule) /\ job[x].rules \in Partial(Rule)
  BY DEF Typed, JobsOK, DataOK, Job
<1>2. CASE CachePut(x)
  <2>1. cache' \in Partial(Rule)
    BY <1>1, <1>2, PutType DEF CachePut
  <2>2. QED
    BY <1>2, <2>1, MoveType DEF CachePut, Typed, DataOK, dbVars
<1>3. CASE DelEnabled(x)
  <2>1. cache' \in Partial(Rule)
    BY <1>1, <1>3, WithoutType DEF DelEnabled
  <2>2. QED
    BY <1>3, <2>1, MoveType DEF DelEnabled, Typed, DataOK, dbVars
<1>4. CASE ClearHeld(x)
  <2>1. posts' \subseteq Post
    BY <1>4, DroppedPosts DEF ClearHeld, Typed, DataOK
  <2>2. QED
    BY <1>4, <2>1, MoveType DEF ClearHeld, Typed, DataOK, dbVars
<1>5. CASE Fail(x)
  <2>1. [job[x] EXCEPT !.op = "removeAgain", !.at = "del"] \in Job
    BY <1>1 DEF Job
  <2>2. \/ Goto(x, "undo") \/ Done(x)
        \/ To(x, [job[x] EXCEPT !.op = "removeAgain", !.at = "del"])
    BY <1>5 DEF Fail
  <2>3. JobsOK'
    BY <2>1, <2>2, ToType, MoveType DEF Typed
  <2>4. spent' \in [ops : 0..MaxOps, faults : 0..MaxFaults, crashes : 0..MaxCrashes]
    BY <1>5, ServingConstants DEF Fail, Typed, DataOK
  <2>5. QED
    BY <1>5, <2>3, <2>4 DEF Fail, Typed, DataOK, dbVars, cacheVars
<1>6. QED
  BY <1>2, <1>3, <1>4, <1>5 DEF CacheSteps

(* So do the panels, the messages, a crash and a restart. *)
LEMMA WorldTyped ==
  ASSUME Typed,
         \/ Crash \/ Restart
         \/ \E c \in Channels : OpenPanel(c) \/ ClosePanel(c) \/ GetFlags(c)
         \/ \E p \in posts : GetRule(p) \/ Hold(p) \/ GiveUp(p) \/ Drain(p)
  PROVE  Typed'
<1>1. ASSUME NEW c \in Channels, OpenPanel(c) PROVE Typed'
  BY <1>1 DEF OpenPanel, Typed, DataOK, JobsOK, dbVars, cacheVars
<1>2. ASSUME NEW c \in Channels, ClosePanel(c) PROVE Typed'
  BY <1>2 DEF ClosePanel, Typed, DataOK, JobsOK, dbVars, cacheVars
<1>3. ASSUME NEW c \in Channels, GetFlags(c) PROVE Typed'
  <2>1. posts' \subseteq Post
    BY <1>3, NewPosts DEF Typed, DataOK
  <2>2. QED
    BY <1>3, <2>1 DEF GetFlags, World, Typed, DataOK, JobsOK, dbVars
<1>4. ASSUME NEW p \in posts, GetRule(p) \/ Hold(p) \/ GiveUp(p) \/ Drain(p) PROVE Typed'
  <2>1. posts' \subseteq Post
    BY <1>4, MovedPosts DEF Typed, DataOK
  <2>2. QED
    BY <1>4, <2>1 DEF GetRule, Hold, GiveUp, Drain, World, Typed, DataOK, JobsOK, dbVars
<1>5. CASE Crash
  <2>1. JobsOK'
    BY <1>5, Defaults DEF Crash, JobsOK
  <2>2. spent' \in [ops : 0..MaxOps, faults : 0..MaxFaults, crashes : 0..MaxCrashes]
    BY <1>5, ServingConstants DEF Crash, Typed, DataOK
  <2>3. QED
    BY <1>5, <2>1, <2>2 DEF Crash, Typed, DataOK, dbVars, cacheVars
<1>6. CASE Restart
  <2>1. rows \in Partial(Row) /\ Serving(rows) \subseteq DOMAIN rows
    BY DEF Typed, DataOK, Serving
  <2>2. Allowlist(rows) \in Partial(Rule)
    BY <2>1, RulesOfType DEF Allowlist
  <2>3. RolloverInEffect \in BOOLEAN
    BY DEF RolloverInEffect, Typed, DataOK
  <2>4. posts' \subseteq Post
    BY <1>6, DroppedPosts DEF Restart, Typed, DataOK
  <2>5. QED
    BY <1>6, <2>2, <2>3, <2>4 DEF Restart, Typed, DataOK, JobsOK, dbVars
<1>7. QED
  BY <1>1, <1>2, <1>3, <1>4, <1>5, <1>6

----------------------------------------------------------------------------
(* The order of the rows.                                                   *)

(* A new row is the youngest, and rows that go leave the rest in order. *)
LEMMA OrderChanges ==
  ASSUME NEW r, NEW D, Ordered(r, D)
  PROVE  /\ \A c : c \notin D => Ordered(r \cup (D \X {c}), D \cup {c})
         /\ \A c : Ordered(r \cap ((D \ {c}) \X (D \ {c})), D \ {c})
<1>1. ASSUME NEW c, c \notin D PROVE Ordered(r \cup (D \X {c}), D \cup {c})
  <2> DEFINE s == r \cup (D \X {c})
  <2>1. \A a, b : <<a, b>> \in s <=> (<<a, b>> \in r \/ (a \in D /\ b = c))
    OBVIOUS
  <2>2. \A a, b : <<a, b>> \in r => a \in D /\ b \in D
    BY DEF Ordered
  <2>3. s \subseteq (D \cup {c}) \X (D \cup {c})
    BY <2>2 DEF Ordered
  <2>4. \A a \in D \cup {c} : <<a, a>> \notin s
    BY <1>1, <2>1, <2>2 DEF Ordered
  <2>5. \A a, b \in D \cup {c} : a # b => (<<a, b>> \in s <=> <<b, a>> \notin s)
    BY <1>1, <2>1, <2>2 DEF Ordered
  <2>6. \A a, b, d \in D \cup {c} : <<a, b>> \in s /\ <<b, d>> \in s => <<a, d>> \in s
    BY <1>1, <2>1, <2>2 DEF Ordered
  <2> HIDE DEF s
  <2>7. Ordered(s, D \cup {c})
    BY <2>3, <2>4, <2>5, <2>6 DEF Ordered
  <2>8. QED
    BY <2>7 DEF s
<1>2. ASSUME NEW c PROVE Ordered(r \cap ((D \ {c}) \X (D \ {c})), D \ {c})
  <2> DEFINE s == r \cap ((D \ {c}) \X (D \ {c}))
  <2>1. \A a, b \in D \ {c} : <<a, b>> \in s <=> <<a, b>> \in r
    OBVIOUS
  <2>2. s \subseteq (D \ {c}) \X (D \ {c})
    OBVIOUS
  <2> HIDE DEF s
  <2>3. Ordered(s, D \ {c})
    BY <2>1, <2>2 DEF Ordered
  <2>4. QED
    BY <2>3 DEF s
<1>3. QED
  BY <1>1, <1>2

(* Rows are ordered in every reachable state: only the insert and the two   *)
(* deletions touch the order or the set of rows. *)
LEMMA OrderKept ==
  ASSUME Typed, OrderOK, [Next]_vars
  PROVE  OrderOK'
<1>1. rows \in Partial(Row) /\ rows \in [DOMAIN rows -> Row]
  BY FromPartial DEF Typed, DataOK
<1>2. CASE DOMAIN rows' = DOMAIN rows /\ older' = older
  BY <1>2 DEF OrderOK
<1>3. ASSUME NEW c, rows' = Without(rows, {c}), Forget(c) PROVE OrderOK'
  <2>1. DOMAIN rows' = DOMAIN rows \ {c}
    BY <1>1, <1>3, WithoutType
  <2>2. older' = older \cap ((DOMAIN rows \ {c}) \X (DOMAIN rows \ {c}))
    BY <1>3 DEF Forget
  <2>3. Ordered(older, DOMAIN rows)
    BY DEF OrderOK
  <2>4. Ordered(older \cap ((DOMAIN rows \ {c}) \X (DOMAIN rows \ {c})), DOMAIN rows \ {c})
    BY <2>3, OrderChanges
  <2>5. QED
    BY <2>1, <2>2, <2>4 DEF OrderOK
<1>4. ASSUME NEW x \in Handlers, Insert(x) PROVE OrderOK'
  <2>1. CASE UNCHANGED <<rows, older>>
    BY <1>2, <2>1
  <2>2. CASE ~UNCHANGED <<rows, older>>
    <3>1. PICK c \in job[x].on \ DOMAIN rows :
            /\ rows' = Put(rows, [d \in {c} |-> [paused |-> FALSE, rule |-> NewRule]])
            /\ older' = older \cup ((DOMAIN rows) \X {c})
      BY <1>4, <2>2 DEF Insert
    <3>2. DOMAIN rows' = DOMAIN rows \cup {c}
      BY <3>1 DEF Put
    <3>3. QED
      BY <3>1, <3>2, OrderChanges DEF OrderOK
  <2>3. QED
    BY <2>1, <2>2
<1>5. ASSUME NEW x \in Handlers, AddSteps(x) \/ GetFind(x) PROVE OrderOK'
  <2>1. CASE AddCount(x) \/ AddFind(x) \/ AddPlan(x) \/ Mark(x) \/ GetFind(x)
    BY <1>2, <2>1 DEF AddCount, AddFind, AddPlan, Mark, GetFind, Reads, dbVars
  <2>2. CASE Unpause(x)
    BY <1>2, <2>2 DEF Unpause
  <2>3. CASE InsertUndo(x)
    BY <1>3, <2>3 DEF InsertUndo
  <2>4. QED
    BY <1>4, <1>5, <2>1, <2>2, <2>3 DEF AddSteps
<1>6. ASSUME NEW x \in Handlers, EditSteps(x) PROVE OrderOK'
  BY <1>2, <1>6 DEF EditSteps, EditServing, EditCheck, EditSnapshot, EditWrite, EditUndo, WriteRule,
                    Reads, dbVars
<1>7. ASSUME NEW x \in Handlers, PlanSteps(x) PROVE OrderOK'
  <2>1. CASE Reactivate(x) \/ Pause(x)
    BY <1>2, <2>1 DEF Reactivate, Pause, SetPaused
  <2>2. CASE ~(Reactivate(x) \/ Pause(x))
    BY <1>2, <1>7, <2>2 DEF PlanSteps, ReadPlan, SetFlag, ListPaused, ListAll, DropHeld,
      ListFiltered, ListExcess, WriteSetting, Reads, dbVars
  <2>3. QED
    BY <2>1, <2>2
<1>8. ASSUME NEW x \in Handlers, CacheSteps(x) \/ Fail(x) PROVE OrderOK'
  BY <1>2, <1>8 DEF CacheSteps, CachePut, DelEnabled, ClearHeld, Fail, dbVars
<1>9. ASSUME NEW x \in Handlers, Requests(x) \/ Webhook(x) \/ Nightly(x) PROVE OrderOK'
  <2>1. ASSUME NEW c \in Channels, Remove(x, c) PROVE OrderOK'
    BY <1>3, <2>1 DEF Remove
  <2>2. CASE Webhook(x) \/ Nightly(x)
    BY <1>2, <2>2 DEF Webhook, Nightly, Reads, dbVars
  <2>3. CASE Asks
    BY <1>2, <2>3 DEF Asks, dbVars
  <2>4. QED
    BY <1>9, <2>1, <2>2, <2>3 DEF Requests, AskRollover, Add, Get, EditFromDashboard,
                                  EditFromPanel
<1>10. CASE \/ Crash \/ Restart \/ UNCHANGED vars
            \/ \E c \in Channels : OpenPanel(c) \/ ClosePanel(c) \/ GetFlags(c)
            \/ \E p \in posts : GetRule(p) \/ Hold(p) \/ GiveUp(p) \/ Drain(p)
  BY <1>2, <1>10 DEF Crash, Restart, OpenPanel, ClosePanel, GetFlags, GetRule, Hold, GiveUp,
                     Drain, World, vars, dbVars
<1>11. QED
  BY <1>5, <1>6, <1>7, <1>8, <1>9, <1>10 DEF Next, Continue

(* The state of a guild's serving is well typed, and its rows are ordered by *)
(* their age, in every reachable state. *)
THEOREM ServingTypeCorrect == Spec => []TypeOK
<1>1. Init => TypeOK
  <2> SUFFICES ASSUME Init PROVE TypeOK
    OBVIOUS
  <2>1. Serving(rows) \subseteq DOMAIN rows
    BY DEF Serving
  <2>r. rows \in Partial(Row)
    <3>1. [paused : BOOLEAN, rule : [conds : 0..MaxConds, mode : {DefaultMode}]] \subseteq Row
      BY ServingConstants DEF Row, Rule
    <3>2. QED
      BY <3>1, PartialWithin DEF Init
  <2>2. cache \in Partial(Rule)
    BY <2>1, <2>r, RulesOfType DEF Init, Allowlist
  <2>3. JobsOK
    BY Defaults DEF Init, JobsOK
  <2>4. RolloverInEffect \in BOOLEAN
    BY DEF Init, RolloverInEffect
  <2>5. spent \in [ops : 0..MaxOps, faults : 0..MaxFaults, crashes : 0..MaxCrashes]
    BY ServingConstants DEF Init
  <2>6. DataOK
    BY <2>2, <2>4, <2>5, <2>r DEF Init, DataOK
  <2>7. QED
    BY <2>3, <2>6 DEF Init, TypeOK
<1>2. TypeOK /\ [Next]_vars => TypeOK'
  <2> SUFFICES ASSUME TypeOK, [Next]_vars PROVE TypeOK'
    OBVIOUS
  <2>1. Typed
    BY DEF TypeOK, Typed
  <2>2. Typed'
    <3>1. CASE UNCHANGED vars
      BY <2>1, <3>1 DEF vars, dbVars, cacheVars, Typed, DataOK, JobsOK
    <3>2. CASE Next
      BY <2>1, <3>2, AddTyped, EditTyped, PlanTyped, CacheTyped, RequestTyped, WorldTyped
         DEF Next, Continue, CacheSteps
    <3>3. QED
      BY <3>1, <3>2
  <2>3. QED
    BY <2>1, <2>2, OrderKept DEF TypeOK, Typed
<1>3. QED
  BY <1>1, <1>2, PTL DEF Spec

----------------------------------------------------------------------------
(* No backlog off the allowlist.  A key leaves the allowlist in DelEnabled  *)
(* only, which leaves its handler at "clear" with that channel; only the    *)
(* handler's own ClearHeld takes it from there, as long as nothing fails.   *)
(* A message is let through by the allowlist only, and while it is being    *)
(* pushed it can be held at any moment: so the invariant speaks of it from  *)
(* there on, until the DEL of its backlog makes it late.                    *)
HeldInv ==
  /\ spent.crashes = 0 => up
  /\ Undisturbed =>
       \A p \in posts : (~p.late /\ Underway(p)) =>
         \/ p.of \in DOMAIN cache
         \/ \E x \in Handlers : job[x].at = "clear" /\ p.of \in job[x].on

(* A step of a handler that is not at "clear" keeps the invariant, if it    *)
(* takes no key off the allowlist and moves no message that is not late. *)
LEMMA HandlerKeepsHeld ==
  ASSUME JobsOK, HeldInv, NEW x \in Handlers, NEW j, To(x, j), job[x].at # "clear",
         DOMAIN cache \subseteq DOMAIN cache', up' = up,
         \A q \in posts' : ~q.late => q \in posts,
         Undisturbed' => Undisturbed, spent'.crashes = spent.crashes
  PROVE  HeldInv'
<1>1. ASSUME Undisturbed', NEW p \in posts', ~p.late, Underway(p)
      PROVE  \/ p.of \in DOMAIN cache'
             \/ \E y \in Handlers : job'[y].at = "clear" /\ p.of \in job'[y].on
  <2>1. CASE p.of \in DOMAIN cache
    BY <2>1
  <2>2. CASE p.of \notin DOMAIN cache
    <3>1. PICK y \in Handlers : job[y].at = "clear" /\ p.of \in job[y].on
      BY <1>1, <2>2 DEF HeldInv
    <3>2. job'[y] = job[y]
      BY <3>1 DEF To, JobsOK
    <3>3. QED
      BY <3>1, <3>2
  <2>3. QED
    BY <2>1, <2>2
<1>2. (spent'.crashes = 0 => up')
  BY DEF HeldInv
<1>3. QED
  BY <1>1, <1>2 DEF HeldInv

(* A step that leaves handlers, allowlist and counts alone keeps it too, if *)
(* what it lets through is allowlisted or was let through before. *)
LEMMA WorldKeepsHeld ==
  ASSUME HeldInv, UNCHANGED <<job, cache, up, spent>>,
         \A q \in posts' : (~q.late /\ Underway(q)) =>
           \/ q.of \in DOMAIN cache
           \/ \E p \in posts : ~p.late /\ Underway(p) /\ p.of = q.of
  PROVE  HeldInv'
BY DEF HeldInv, Undisturbed, NoFault

(* Every way a handler moves on is a step To some job. *)
LEMMA Moves ==
  ASSUME NEW x \in Handlers,
         Done(x) \/ Step(x) \/ ToPlan(x) \/ (\E j : To(x, j)) \/ \E at : Goto(x, at)
  PROVE  \E j : To(x, j)
<1>1. CASE Done(x) \/ ToPlan(x) \/ \E j : To(x, j)
  BY <1>1 DEF Done, ToPlan
<1>2. CASE Step(x)
  BY <1>2 DEF Step, Done
<1>3. CASE \E at : Goto(x, at)
  BY <1>3 DEF Goto
<1>4. QED
  BY <1>1, <1>2, <1>3

(* The steps of a handler keep the invariant. *)
LEMMA ContinueKeepsHeld ==
  ASSUME Typed, HeldInv, NEW x \in Handlers, Continue(x)
  PROVE  HeldInv'
<1>1. /\ JobsOK /\ cache \in Partial(Rule) /\ job[x].rules \in Partial(Rule)
      /\ posts \subseteq Post
  BY DEF Typed, JobsOK, DataOK, Job
<1>2. CASE AddSteps(x) \/ GetFind(x) \/ EditSteps(x) \/ PlanSteps(x)
  <2>1. /\ job[x].at # "clear" /\ UNCHANGED <<cache, up, spent>>
        /\ (UNCHANGED posts \/ Overtaken \/ Dropped(job[x].on))
    BY <1>2 DEF AddSteps, EditSteps, PlanSteps, AddCount, AddFind, AddPlan, Unpause, Insert,
      Mark, InsertUndo, GetFind, EditServing, EditCheck, EditSnapshot, EditWrite, EditUndo,
      ReadPlan, SetFlag, ListPaused, Reactivate, ListAll, DropHeld, ListFiltered, ListExcess,
      Pause, WriteSetting, At, Reads, cacheVars
  <2>p. \A q \in posts' : ~q.late => q \in posts
    BY <1>1, <2>1, OvertakenPosts, DroppedPosts
  <2>2. \E j : To(x, j)
    <3>1. CASE AddSteps(x) \/ GetFind(x)
      BY <3>1, Moves DEF AddSteps, AddCount, AddFind, AddPlan, Unpause, Insert, Mark,
        InsertUndo, GetFind
    <3>2. CASE EditSteps(x)
      BY <3>2, Moves DEF EditSteps, EditServing, EditCheck, EditSnapshot, EditWrite, EditUndo
    <3>3. CASE PlanSteps(x)
      BY <3>3, Moves DEF PlanSteps, ReadPlan, SetFlag, ListPaused, Reactivate, ListAll,
        DropHeld, ListFiltered, ListExcess, Pause, WriteSetting
    <3>4. QED
      BY <1>2, <3>1, <3>2, <3>3
  <2>3. Undisturbed' => Undisturbed
    BY <2>1 DEF Undisturbed, NoFault
  <2>4. QED
    BY <1>1, <2>1, <2>2, <2>3, <2>p, HandlerKeepsHeld
<1>3. CASE CachePut(x)
  <2>1. DOMAIN cache \subseteq DOMAIN cache'
    <3>1. DOMAIN Put(cache, job[x].rules) = DOMAIN cache \cup DOMAIN job[x].rules
      BY DEF Put
    <3>2. cache' = Put(cache, job[x].rules)
      BY <1>3 DEF CachePut
    <3>3. QED
      BY <3>1, <3>2
  <2>2. \E j : To(x, j)
    BY <1>3, Moves DEF CachePut
  <2>3. job[x].at # "clear" /\ posts' = posts /\ up' = up /\ spent' = spent
    BY <1>3 DEF CachePut, At
  <2>4. Undisturbed' => Undisturbed
    BY <2>3 DEF Undisturbed, NoFault
  <2>5. QED
    BY <1>1, <2>1, <2>2, <2>3, <2>4, HandlerKeepsHeld
<1>4. CASE DelEnabled(x)
  <2>1. /\ DOMAIN cache' = DOMAIN cache \ job[x].on
        /\ UNCHANGED <<posts, up, spent>>
    BY <1>1, <1>4, WithoutType DEF DelEnabled
  <2>2. /\ job'[x].at = "clear" /\ job'[x].on = job[x].on
        /\ \A y \in Handlers : y # x => job'[y] = job[y]
    BY <1>1, <1>4 DEF DelEnabled, Goto, To, JobsOK, Job
  <2>3. job[x].at # "clear"
    BY <1>4 DEF DelEnabled, At
  <2>4. QED
    BY <2>1, <2>2, <2>3 DEF HeldInv, Undisturbed, NoFault
<1>5. CASE ClearHeld(x)
  <2>1. /\ \A q \in posts' : ~q.late => q \in posts /\ q.of \notin job[x].on
        /\ UNCHANGED <<cache, up, spent>>
    BY <1>1, <1>5, DroppedPosts DEF ClearHeld
  <2>2. \E j : To(x, j)
    BY <1>5, Moves DEF ClearHeld
  <2>3. \A y \in Handlers : y # x => job'[y] = job[y]
    BY <1>1, <2>2 DEF To, JobsOK
  <2>4. QED
    BY <2>1, <2>3 DEF HeldInv, Undisturbed, NoFault
<1>6. QED
  BY <1>2, <1>3, <1>4, <1>5 DEF Continue, CacheSteps

(* Every step keeps the invariant. *)
LEMMA HeldKept ==
  ASSUME TypeOK, HeldInv, [Next]_vars
  PROVE  HeldInv'
<1>1. Typed /\ JobsOK /\ posts \subseteq Post
  BY DEF TypeOK, Typed, DataOK
<1>2. /\ spent \in [ops : 0..MaxOps, faults : 0..MaxFaults, crashes : 0..MaxCrashes]
      /\ MaxFaults \in Nat /\ MaxCrashes \in Nat
  BY ServingConstants DEF TypeOK, DataOK
<1>3. ASSUME NEW x \in Handlers, Requests(x) \/ Webhook(x) \/ Nightly(x) PROVE HeldInv'
  <2>1. /\ job[x].at # "clear" /\ UNCHANGED <<cache, up, posts>>
        /\ spent'.faults = spent.faults /\ spent'.crashes = spent.crashes
    BY <1>2, <1>3 DEF Requests, AskRollover, Add, Remove, Get, EditFromDashboard,
      EditFromPanel, Webhook, Nightly, Idle, Asks, Request, Reads, cacheVars
  <2>2. \E j : To(x, j)
    BY <1>3, Moves DEF Requests, AskRollover, Add, Remove, Get, EditFromDashboard,
      EditFromPanel, Webhook, Nightly
  <2>3. Undisturbed' => Undisturbed
    BY <2>1 DEF Undisturbed, NoFault
  <2>4. QED
    BY <1>1, <2>1, <2>2, <2>3, HandlerKeepsHeld
<1>4. ASSUME NEW x \in Handlers, Fail(x) PROVE HeldInv'
  <2>1. spent'.faults = spent.faults + 1 /\ spent'.crashes = spent.crashes /\ up' = up
    BY <1>2, <1>4 DEF Fail
  <2>2. ~Undisturbed'
    BY <1>2, <2>1 DEF Undisturbed, NoFault
  <2>3. QED
    BY <2>1, <2>2 DEF HeldInv
<1>5. CASE Crash
  <2>1. spent'.crashes = spent.crashes + 1
    BY <1>2, <1>5 DEF Crash
  <2>2. spent'.crashes # 0
    BY <1>2, <2>1
  <2>3. QED
    BY <2>2 DEF HeldInv, Undisturbed
<1>6. CASE Restart
  <2>1. spent.crashes # 0 /\ spent' = spent
    BY <1>6 DEF Restart, HeldInv
  <2>2. QED
    BY <2>1 DEF HeldInv, Undisturbed
<1>7. ASSUME NEW c \in Channels, OpenPanel(c) \/ ClosePanel(c) \/ GetFlags(c)
      PROVE  HeldInv'
  <2>1. UNCHANGED <<job, cache, up, spent>>
    BY <1>7 DEF OpenPanel, ClosePanel, GetFlags, World, cacheVars
  <2>2. \A q \in posts' : q \in posts \/ ~Underway(q)
    BY <1>1, <1>7, NewPosts DEF OpenPanel, ClosePanel, cacheVars
  <2>3. QED
    BY <2>1, <2>2, WorldKeepsHeld
<1>m. ASSUME NEW p \in posts, GetRule(p) \/ Hold(p) \/ GiveUp(p) \/ Drain(p)
      PROVE  HeldInv'
  <2>1. UNCHANGED <<job, cache, up, spent>>
    BY <1>m DEF GetRule, Hold, GiveUp, Drain, World
  <2>2. \A q \in posts' : ~q.late =>
          \/ q \in posts
          \/ ~p.late /\ p.of = q.of /\ (Underway(p) \/ q.of \in DOMAIN cache)
    BY <1>1, <1>m, MovedPosts
  <2>3. QED
    BY <2>1, <2>2, WorldKeepsHeld
<1>8. CASE UNCHANGED vars
  BY <1>8, WorldKeepsHeld DEF vars, cacheVars
<1>9. QED
  BY <1>1, <1>3, <1>4, <1>5, <1>6, <1>7, <1>8, <1>m, ContinueKeepsHeld DEF Next

(* Held messages belong to a channel on the allowlist, or are about to be   *)
(* dropped, as long as nothing has crashed or failed: however many requests, *)
(* webhooks and crons run at once, however long the bot and the proxy take  *)
(* over a message, and whatever the interleaving of their awaits            *)
(* (data/channels/cache.ts:9-21); but for a message already on its way at   *)
(* the DEL of its backlog. *)
THEOREM NoBacklogOffTheAllowlist == Spec => []HeldIsServed
<1>1. Init => HeldInv
  BY DEF Init, HeldInv
<1>2. TypeOK /\ HeldInv /\ [Next]_vars => HeldInv'
  BY HeldKept
<1>3. HeldInv => HeldIsServed
  BY DEF HeldInv, HeldIsServed, Held, Underway
<1>4. QED
  BY <1>1, <1>2, <1>3, ServingTypeCorrect, PTL DEF Spec

----------------------------------------------------------------------------
(* One handler alone.  The theorems below are about an operation that runs  *)
(* by itself: Handlers has one element.  j is that handler's job.           *)

(* At these awaits the flag, or the plan, may be older than the rows.       *)
Rereading(j) == j.op \in {"reconcile", "setting"} /\ j.at \in {"plan", "flag"}

(* A reconciliation that found the guild without Premium.                   *)
Trimming(j) ==
  /\ j.op = "reconcile"
  /\ j.at \in {"all", "drop", "filtered", "pause", "del", "clear", "excess"}

(* Which operation can be at which await, and where it goes from there.     *)
Course(j) ==
  /\ j.at # "undo"
  /\ j.next = "mark" => j.at = "put"
  /\ j.next \in {"filtered", "excess"} =>
       j.op = "reconcile" /\ j.at \in {"all", "drop", "pause", "del", "clear"}
  /\ j.op = "reconcile" /\ j.at \in {"all", "drop"} => j.next = "filtered"
  /\ j.at \in {"filtered", "pause", "excess", "paused", "reactivate"} => j.op = "reconcile"
  /\ j.at \in {"serving", "check", "snapshot"} => j.op \in EditOps
  /\ j.at = "count" => j.op = "none"
  /\ j.at = "find" => j.op \in {"none", "get"}
  /\ j.at \in {"plan", "unpause"} => j.op \notin EditOps
  /\ j.at = "unpause" => j.op = "unpause"
  /\ j.at \in {"all", "drop", "flag"} => j.op \in {"reconcile", "setting"}

(* What the locals of a handler say of the rows it is about to write.       *)
Locals(j) ==
  /\ (\/ j.at \in {"count", "serving", "check", "snapshot"}
      \/ j.at = "find" /\ j.op = "none") => \E c \in Channels : j.on = {c}
  /\ j.op = "unpause" /\ j.at \in {"plan", "unpause"} =>
       \E c \in DOMAIN rows :
         /\ j.on = {c}
         /\ j.at = "plan" => j.ok
         /\ j.rules = [d \in {c} |-> IF j.ok THEN rows[c].rule
                                     ELSE [rows[c].rule EXCEPT !.conds = 0]]
  /\ j.at = "insert" => \E c \in Channels : j.on = {c} /\ j.rules = [d \in {c} |-> NewRule]
  /\ j.at = "write" /\ j.op \in EditOps =>
       \E c \in DOMAIN rows : \E n \in Rule :
          /\ j.on = {c}
          /\ j.rules = [d \in {c} |-> n]
          /\ Columns(j.op, rows[c].rule, n) = n
  /\ j.at = "reactivate" => j.rules = RulesOf(rows, DOMAIN rows \ Serving(rows))
  /\ j.at = "del" /\ j.op # "reconcile" => j.on \cap DOMAIN rows = {}

(* What the guild's plan is while a handler is at an await: nobody else can *)
(* change it.                                                               *)
PlanKnown(j) ==
  /\ Trimming(j) => ~entitled
  /\ j.at \in {"paused", "reactivate"} => entitled
  /\ j.at = "flag" => j.ok = entitled /\ j.arg = RolloverInEffect
  /\ j.at = "unpause" /\ j.ok => entitled \/ \A c \in DOMAIN j.rules : j.rules[c].conds = 0

(* The allowlist m is right for the rows r, but for the channels S.         *)
Agree(m, r, S) ==
  \A c \in Channels \ S :
    IF c \in Serving(r) THEN c \in DOMAIN m /\ m[c] = r[c].rule ELSE c \notin DOMAIN m

(* The allowlist is right, or the handler is about to make it right, but for *)
(* what panels left open have written; those channels still have their rows. *)
AllowlistDue(j) ==
  /\ j.at \notin {"put", "del"} => Agree(cache, rows, strayed)
  /\ j.at = "put" => Agree(Put(cache, j.rules), rows, strayed)
  /\ j.at = "del" => Agree(Without(cache, j.on), rows, strayed \ j.on)
  /\ strayed \ (IF j.at = "del" THEN j.on ELSE {}) \subseteq DOMAIN rows

AloneInv(x) ==
  NoFault => /\ ~up => job[x] = NoJob
             /\ Course(job[x]) /\ Locals(job[x]) /\ PlanKnown(job[x])
             /\ up => AllowlistDue(job[x])

----------------------------------------------------------------------------
(* A job, field by field. *)
LEMMA JobShape ==
  ASSUME NEW j \in Job
  PROVE  j = [op |-> j.op, at |-> j.at, next |-> j.next, on |-> j.on, rules |-> j.rules,
              old |-> j.old, ok |-> j.ok, arg |-> j.arg]
BY DEF Job

Keeps(j, k) ==
  /\ k.op = j.op /\ k.next = j.next /\ k.on = j.on /\ k.rules = j.rules
  /\ k.ok = j.ok /\ k.arg = j.arg

(* The fields of a handler after each way of moving on. *)
LEMMA Fields ==
  ASSUME JobsOK, NEW x \in Handlers
  PROVE  /\ job[x] \in Job
         /\ \A j : To(x, j) => job'[x] = j
         /\ Done(x) => job'[x] = NoJob
         /\ \A at : Goto(x, at) => job'[x].at = at /\ Keeps(job[x], job'[x])
         /\ Step(x) => \/ job'[x] = NoJob
                       \/ /\ job[x].next # "idle" /\ job'[x].at = job[x].next
                          /\ job'[x].op = job[x].op /\ job'[x].next = "idle"
<1>1. job[x] \in Job
  BY DEF JobsOK
<1>2. \A j : To(x, j) => job'[x] = j
  BY DEF JobsOK, To
<1>3. ASSUME NEW at, Goto(x, at) PROVE job'[x].at = at /\ Keeps(job[x], job'[x])
  <2>1. job'[x] = [job[x] EXCEPT !.at = at]
    BY <1>2, <1>3 DEF Goto
  <2>2. QED
    BY <1>1, <2>1, JobShape DEF Keeps
<1>4. Step(x) => \/ job'[x] = NoJob
                 \/ /\ job[x].next # "idle" /\ job'[x].at = job[x].next
                    /\ job'[x].op = job[x].op /\ job'[x].next = "idle"
  <2>1. CASE job[x].next = "idle"
    BY <1>2, <2>1 DEF Step, Done
  <2>2. CASE job[x].next # "idle" /\ Step(x)
    <3>1. job'[x] = [job[x] EXCEPT !.at = job[x].next, !.next = "idle"]
      BY <1>2, <2>2 DEF Step
    <3>2. QED
      BY <1>1, <2>2, <3>1, JobShape
  <2>3. QED
    BY <2>1, <2>2
<1>5. QED
  BY <1>1, <1>2, <1>3, <1>4 DEF Done

(* From one await straight to another, and the end of an operation.         *)
Hop(j, k, from, to) == j.at = from /\ k.at = to /\ Keeps(j, k)
End(j, k, from) == j.at = from /\ k = NoJob

(* The end of the shared steps: on to where the operation goes from there.  *)
Onward(j, k, from) ==
  /\ j.at = from
  /\ \/ k = NoJob
     \/ j.next # "idle" /\ k.at = j.next /\ k.op = j.op /\ k.next = "idle"

CountMove(j, k) ==
  j.at = "count" /\ k.at = "find" /\ k.op = j.op /\ k.next = j.next /\ k.on = j.on

FindMove(j, k) ==
  /\ j.at = "find" /\ j.op = "none"
  /\ \/ k = NoJob
     \/ \E c \in j.on :
          /\ k.next = j.next /\ k.on = j.on
          /\ \/ /\ k.at = "insert" /\ k.op = "insert"
                /\ k.rules = [d \in {c} |-> NewRule]
             \/ /\ c \in DOMAIN rows /\ k.at \in {"plan", "unpause"}
                /\ k.op = "unpause" /\ k.ok /\ k.rules = RulesOf(rows, {c})
                /\ k.at = "unpause" => ~(rows[c].rule.conds > 0)

PlanMove(j, k) ==
  /\ j.at = "plan" /\ j.op = "unpause"
  /\ \/ k = NoJob
     \/ /\ k.at = "unpause" /\ k.op = j.op /\ k.next = j.next /\ k.on = j.on
        /\ \/ entitled /\ k.ok = j.ok /\ k.rules = j.rules
           \/ /\ k.ok = FALSE
              /\ k.rules = [c \in DOMAIN j.rules |-> [j.rules[c] EXCEPT !.conds = 0]]

InsertMove(j, k) ==
  /\ j.at = "insert"
  /\ \/ k = NoJob /\ rows' = rows
     \/ /\ k.at = "put" /\ k.next = "mark"
        /\ k.op = j.op /\ k.on = j.on /\ k.rules = j.rules
        /\ \E c \in j.on \ DOMAIN rows :
             rows' = Put(rows, [d \in {c} |-> [paused |-> FALSE, rule |-> NewRule]])

GetMove(j, k) ==
  /\ j.at = "find" /\ j.op = "get"
  /\ \/ k = NoJob
     \/ /\ k.at = "put" /\ k.op = j.op /\ k.next = j.next /\ k.on = j.on
        /\ k.rules = RulesOf(rows, j.on) /\ j.on \subseteq Serving(rows)

(* The moves of add and get. *)
LEMMA AddMoves ==
  ASSUME JobsOK, NEW x \in Handlers
  PROVE  /\ AddCount(x) => CountMove(job[x], job'[x])
         /\ AddFind(x) => FindMove(job[x], job'[x])
         /\ AddPlan(x) => PlanMove(job[x], job'[x])
         /\ Unpause(x) => Hop(job[x], job'[x], "unpause", "put")
         /\ Insert(x) => InsertMove(job[x], job'[x])
         /\ Mark(x) => End(job[x], job'[x], "mark")
         /\ InsertUndo(x) => End(job[x], job'[x], "undo")
         /\ GetFind(x) => GetMove(job[x], job'[x])
<1> DEFINE j == job[x]
           k == job'[x]
<1>1. j = [op |-> j.op, at |-> j.at, next |-> j.next, on |-> j.on, rules |-> j.rules,
           old |-> j.old, ok |-> j.ok, arg |-> j.arg]
  BY Fields, JobShape
<1>2. ASSUME AddCount(x)
      PROVE  j.at = "count" /\ k.at = "find" /\ k.op = j.op /\ k.next = j.next /\ k.on = j.on
  <2> DEFINE free == j.ok \/ Cardinality(Serving(rows)) < Cap
  <2>1. To(x, [j EXCEPT !.at = "find", !.ok = free])
    BY <1>2 DEF AddCount
  <2>2. j.at = "count"
    BY <1>2 DEF AddCount, At
  <2> HIDE DEF free
  <2>3. k = [j EXCEPT !.at = "find", !.ok = free]
    BY <2>1, Fields
  <2>4. k.at = "find" /\ k.op = j.op /\ k.next = j.next /\ k.on = j.on
    BY <1>1, <2>3
  <2>5. QED
    BY <2>2, <2>4
<1>3. ASSUME AddFind(x)
      PROVE  /\ j.at = "find" /\ j.op = "none"
             /\ \/ k = NoJob
                \/ \E c \in j.on :
                     /\ k.next = j.next /\ k.on = j.on
                     /\ \/ /\ k.at = "insert" /\ k.op = "insert"
                           /\ k.rules = [d \in {c} |-> NewRule]
                        \/ /\ c \in DOMAIN rows /\ k.at \in {"plan", "unpause"}
                           /\ k.op = "unpause" /\ k.ok /\ k.rules = RulesOf(rows, {c})
                           /\ k.at = "unpause" => ~(rows[c].rule.conds > 0)
  <2>1. PICK c \in j.on :
          \/ Done(x)
          \/ To(x, [j EXCEPT !.op = "insert", !.at = "insert", !.rules = [d \in {c} |-> NewRule]])
          \/ /\ c \in DOMAIN rows /\ j.ok
             /\ To(x, [[j EXCEPT !.op = "unpause", !.rules = RulesOf(rows, {c})]
                        EXCEPT !.at = IF rows[c].rule.conds > 0 THEN "plan" ELSE "unpause"])
    <3>1. PICK c \in j.on :
            \/ Done(x)
            \/ /\ j.ok
               /\ To(x, [j EXCEPT !.op = "insert", !.at = "insert",
                                  !.rules = [d \in {c} |-> NewRule]])
            \/ /\ j.ok /\ c \in DOMAIN rows
               /\ To(x, [[j EXCEPT !.op = "unpause", !.rules = RulesOf(rows, {c})]
                          EXCEPT !.at = IF rows[c].rule.conds > 0 THEN "plan" ELSE "unpause"])
      BY <1>3, Zenon DEF AddFind
    <3>2. QED
      BY <3>1, Zenon
  <2>2. j.at = "find" /\ j.op = "none"
    BY <1>3 DEF AddFind, At
  <2>3. CASE Done(x)
    BY <2>2, <2>3, Fields
  <2>4. CASE To(x, [j EXCEPT !.op = "insert", !.at = "insert", !.rules = [d \in {c} |-> NewRule]])
    <3>1. k = [j EXCEPT !.op = "insert", !.at = "insert", !.rules = [d \in {c} |-> NewRule]]
      BY <2>4, Fields
    <3>2. k.at = "insert" /\ k.op = "insert" /\ k.rules = [d \in {c} |-> NewRule]
          /\ k.next = j.next /\ k.on = j.on
      BY <1>1, <3>1
    <3>3. QED
      BY <2>2, <3>2
  <2>5. CASE /\ c \in DOMAIN rows /\ j.ok
             /\ To(x, [[j EXCEPT !.op = "unpause", !.rules = RulesOf(rows, {c})]
                        EXCEPT !.at = IF rows[c].rule.conds > 0 THEN "plan" ELSE "unpause"])
    <3>1. k = [[j EXCEPT !.op = "unpause", !.rules = RulesOf(rows, {c})]
                        EXCEPT !.at = IF rows[c].rule.conds > 0 THEN "plan" ELSE "unpause"]
      BY <2>5, Fields
    <3>2. /\ k.at = IF rows[c].rule.conds > 0 THEN "plan" ELSE "unpause"
          /\ k.op = "unpause" /\ k.rules = RulesOf(rows, {c})
          /\ k.next = j.next /\ k.on = j.on /\ k.ok = j.ok
      BY <1>1, <3>1
    <3>3. QED
      BY <2>2, <2>5, <3>2
  <2>6. QED
    BY <2>1, <2>3, <2>4, <2>5
<1>4. ASSUME AddPlan(x)
      PROVE  /\ j.at = "plan" /\ j.op = "unpause"
             /\ \/ k = NoJob
                \/ /\ k.at = "unpause" /\ k.op = j.op /\ k.next = j.next /\ k.on = j.on
                   /\ \/ entitled /\ k.ok = j.ok /\ k.rules = j.rules
                      \/ /\ k.ok = FALSE
                         /\ k.rules = [c \in DOMAIN j.rules |-> [j.rules[c] EXCEPT !.conds = 0]]
  <2>1. CASE entitled /\ Goto(x, "unpause")
    BY <1>4, <2>1, Fields DEF AddPlan, At, Keeps
  <2>2. CASE Done(x)
    BY <1>4, <2>2, Fields DEF AddPlan, At
  <2> DEFINE dropped == [c \in DOMAIN j.rules |-> [j.rules[c] EXCEPT !.conds = 0]]
  <2>3. CASE To(x, [j EXCEPT !.at = "unpause", !.ok = FALSE, !.rules = dropped])
    <3> HIDE DEF dropped
    <3>1. k = [j EXCEPT !.at = "unpause", !.ok = FALSE, !.rules = dropped]
      BY <2>3, Fields
    <3>2. k.at = "unpause" /\ k.op = j.op /\ k.next = j.next /\ k.on = j.on
          /\ k.ok = FALSE /\ k.rules = dropped
      BY <1>1, <3>1
    <3>3. j.at = "plan" /\ j.op = "unpause"
      BY <1>4 DEF AddPlan, At
    <3> USE DEF dropped
    <3>4. QED
      BY <3>2, <3>3
  <2>4. QED
    BY <1>4, <2>1, <2>2, <2>3 DEF AddPlan
<1>5. Unpause(x) => j.at = "unpause" /\ k.at = "put" /\ Keeps(j, k)
  BY Fields DEF Unpause, At
<1>6. ASSUME Insert(x)
      PROVE  /\ j.at = "insert"
             /\ \/ k = NoJob /\ rows' = rows
                \/ /\ k.at = "put" /\ k.next = "mark"
                   /\ k.op = j.op /\ k.on = j.on /\ k.rules = j.rules
                   /\ \E c \in j.on \ DOMAIN rows :
                        rows' = Put(rows, [d \in {c} |-> [paused |-> FALSE, rule |-> NewRule]])
  <2>1. CASE Done(x) /\ UNCHANGED <<rows, older>>
    BY <1>6, <2>1, Fields DEF Insert, At
  <2>2. CASE ~(Done(x) /\ UNCHANGED <<rows, older>>)
    <3>1. PICK c \in j.on \ DOMAIN rows :
            /\ rows' = Put(rows, [d \in {c} |-> [paused |-> FALSE, rule |-> NewRule]])
            /\ To(x, [j EXCEPT !.at = "put", !.next = "mark"])
      BY <1>6, <2>2 DEF Insert
    <3>2. k = [j EXCEPT !.at = "put", !.next = "mark"]
      BY <3>1, Fields
    <3>3. k.at = "put" /\ k.next = "mark" /\ k.op = j.op /\ k.on = j.on /\ k.rules = j.rules
      BY <1>1, <3>2
    <3>4. j.at = "insert"
      BY <1>6 DEF Insert, At
    <3>5. QED
      BY <3>1, <3>3, <3>4
  <2>3. QED
    BY <2>1, <2>2
<1>7. /\ Mark(x) => j.at = "mark" /\ k = NoJob
      /\ InsertUndo(x) => j.at = "undo" /\ k = NoJob
  BY Fields DEF Mark, InsertUndo, At
<1>8. ASSUME GetFind(x)
      PROVE  /\ j.at = "find" /\ j.op = "get"
             /\ \/ k = NoJob
                \/ /\ k.at = "put" /\ k.op = j.op /\ k.next = j.next /\ k.on = j.on
                   /\ k.rules = RulesOf(rows, j.on) /\ j.on \subseteq Serving(rows)
  <2>1. CASE Done(x)
    BY <1>8, <2>1, Fields DEF GetFind, At
  <2>2. CASE /\ j.on \subseteq Serving(rows)
             /\ To(x, [j EXCEPT !.at = "put", !.rules = RulesOf(rows, j.on)])
    <3>1. k = [j EXCEPT !.at = "put", !.rules = RulesOf(rows, j.on)]
      BY <2>2, Fields
    <3>2. k.at = "put" /\ k.op = j.op /\ k.next = j.next /\ k.on = j.on
          /\ k.rules = RulesOf(rows, j.on)
      BY <1>1, <3>1
    <3>3. QED
      BY <1>8, <2>2, <3>2 DEF GetFind, At
  <2>3. QED
    BY <1>8, <2>1, <2>2 DEF GetFind
<1> USE DEF Hop, End
<1>9. AddCount(x) => CountMove(j, k)
  BY <1>2 DEF CountMove
<1>10. AddFind(x) => FindMove(j, k)
  BY <1>3, Zenon DEF FindMove
<1>11. AddPlan(x) => PlanMove(j, k)
  BY <1>4, Zenon DEF PlanMove
<1>12. Insert(x) => InsertMove(j, k)
  BY <1>6, Zenon DEF InsertMove
<1>13. GetFind(x) => GetMove(j, k)
  BY <1>8 DEF GetMove
<1>14. QED
  BY <1>5, <1>7, <1>9, <1>10, <1>11, <1>12, <1>13

ServingMove(j, k) ==
  j.at = "serving" /\ (k = NoJob \/ (k.at = "check" /\ Keeps(j, k)))

CheckMove(j, k) ==
  j.at = "check" /\ (k = NoJob \/ (k.at = "snapshot" /\ Keeps(j, k)))

SnapshotMove(j, k) ==
  /\ j.at = "snapshot"
  /\ \/ k = NoJob
     \/ /\ k.at = "write" /\ k.op = j.op /\ k.next = j.next /\ k.on = j.on
        /\ \E c \in j.on \cap DOMAIN rows : \E n \in Edits(j.op, rows[c].rule) :
             k.rules = [d \in {c} |-> n]

(* The moves of the filter edits. *)
LEMMA EditMoves ==
  ASSUME JobsOK, NEW x \in Handlers
  PROVE  /\ EditServing(x) => ServingMove(job[x], job'[x])
         /\ EditCheck(x) => CheckMove(job[x], job'[x])
         /\ EditSnapshot(x) => SnapshotMove(job[x], job'[x])
         /\ EditWrite(x) => Hop(job[x], job'[x], "write", "put") /\ job[x].op \in EditOps
         /\ EditUndo(x) => End(job[x], job'[x], "undo")
<1> DEFINE j == job[x]
           k == job'[x]
<1>1. j = [op |-> j.op, at |-> j.at, next |-> j.next, on |-> j.on, rules |-> j.rules,
           old |-> j.old, ok |-> j.ok, arg |-> j.arg]
  BY Fields, JobShape
<1>2. /\ EditServing(x) => j.at = "serving" /\ (k = NoJob \/ (k.at = "check" /\ Keeps(j, k)))
      /\ EditCheck(x) => j.at = "check" /\ (k = NoJob \/ (k.at = "snapshot" /\ Keeps(j, k)))
  BY Fields DEF EditServing, EditCheck, At
<1>3. ASSUME EditSnapshot(x), k # NoJob
      PROVE  /\ k.at = "write" /\ k.op = j.op /\ k.next = j.next /\ k.on = j.on
             /\ \E c \in j.on \cap DOMAIN rows : \E n \in Edits(j.op, rows[c].rule) :
                  k.rules = [d \in {c} |-> n]
  <2>1. PICK c \in j.on \cap DOMAIN rows : \E n \in Edits(j.op, rows[c].rule) :
          To(x, [j EXCEPT !.at = "write", !.rules = [d \in {c} |-> n], !.old = RulesOf(rows, {c})])
    BY <1>3, Fields DEF EditSnapshot
  <2>2. PICK n \in Edits(j.op, rows[c].rule) :
          To(x, [j EXCEPT !.at = "write", !.rules = [d \in {c} |-> n], !.old = RulesOf(rows, {c})])
    BY <2>1
  <2>3. k = [j EXCEPT !.at = "write", !.rules = [d \in {c} |-> n], !.old = RulesOf(rows, {c})]
    BY <2>2, Fields
  <2>4. /\ k.at = "write" /\ k.op = j.op /\ k.next = j.next /\ k.on = j.on
        /\ k.rules = [d \in {c} |-> n]
    BY <1>1, <2>3
  <2>5. QED
    BY <2>4
<1>4. EditSnapshot(x) => j.at = "snapshot"
  BY DEF EditSnapshot, At
<1>5. EditWrite(x) => j.at = "write" /\ j.op \in EditOps /\ k.at = "put" /\ Keeps(j, k)
  BY Fields DEF EditWrite, At, EditOps
<1>6. EditUndo(x) => j.at = "undo" /\ k = NoJob
  BY Fields DEF EditUndo, At
<1>7. QED
  BY <1>2, <1>3, <1>4, <1>5, <1>6, Zenon DEF ServingMove, CheckMove, SnapshotMove, Hop, End

ReadPlanMove(j, k) ==
  /\ j.at = "plan" /\ j.op \in {"reconcile", "setting"}
  /\ k.at = "flag" /\ k.op = j.op /\ k.next = j.next
  /\ k.ok = entitled /\ k.arg = RolloverInEffect

FlagMove(j, k) ==
  /\ j.at = "flag"
  /\ \/ j.op = "setting" /\ j.arg /\ k = NoJob
     \/ j.op = "setting" /\ ~j.arg /\ k.at = "all" /\ Keeps(j, k)
     \/ j.op # "setting" /\ j.ok /\ k.at = "paused" /\ Keeps(j, k)
     \/ /\ j.op # "setting" /\ ~j.ok
        /\ k.at = "all" /\ k.op = j.op /\ k.next = "filtered"

PausedMove(j, k) ==
  /\ j.at = "paused"
  /\ \/ k = NoJob
     \/ /\ k.at = "reactivate" /\ k.op = j.op /\ k.next = j.next
        /\ k.rules = RulesOf(rows, DOMAIN rows \ Serving(rows))

AllMove(j, k) ==
  /\ j.at = "all" /\ k.at = "drop" /\ k.op = j.op /\ k.next = j.next
  /\ k.on = DOMAIN rows

FilteredMove(j, k) ==
  /\ j.at = "filtered" /\ k.op = j.op
  /\ \/ k.at = "excess" /\ Filtered(rows) = {} /\ Keeps(j, k)
     \/ k.at = "pause" /\ k.next = "excess" /\ k.on = Filtered(rows)

ExcessMove(j, k) ==
  /\ j.at = "excess"
  /\ k = NoJob \/ (k.at = "pause" /\ k.op = j.op /\ k.next = "idle")

(* The moves of the plan, of the setting and of the shared cache steps. *)
LEMMA PlanMoves ==
  ASSUME JobsOK, NEW x \in Handlers
  PROVE  /\ ReadPlan(x) => ReadPlanMove(job[x], job'[x])
         /\ SetFlag(x) => FlagMove(job[x], job'[x])
         /\ ListPaused(x) => PausedMove(job[x], job'[x])
         /\ Reactivate(x) => Hop(job[x], job'[x], "reactivate", "put")
         /\ ListAll(x) => AllMove(job[x], job'[x])
         /\ DropHeld(x) => Onward(job[x], job'[x], "drop")
         /\ ListFiltered(x) => FilteredMove(job[x], job'[x])
         /\ ListExcess(x) => ExcessMove(job[x], job'[x])
         /\ Pause(x) => Hop(job[x], job'[x], "pause", "del")
         /\ WriteSetting(x) => Hop(job[x], job'[x], "write", "plan") /\ job[x].op = "setting"
         /\ CachePut(x) => Onward(job[x], job'[x], "put")
         /\ DelEnabled(x) => Hop(job[x], job'[x], "del", "clear")
         /\ ClearHeld(x) => Onward(job[x], job'[x], "clear")
<1> DEFINE j == job[x]
           k == job'[x]
<1>1. j = [op |-> j.op, at |-> j.at, next |-> j.next, on |-> j.on, rules |-> j.rules,
           old |-> j.old, ok |-> j.ok, arg |-> j.arg]
  BY Fields, JobShape
<1>2. ASSUME ReadPlan(x)
      PROVE  /\ j.at = "plan" /\ j.op \in {"reconcile", "setting"}
             /\ k.at = "flag" /\ k.op = j.op /\ k.next = j.next
             /\ k.ok = entitled /\ k.arg = RolloverInEffect
  <2>1. k = [j EXCEPT !.at = "flag", !.ok = entitled, !.arg = RolloverInEffect]
    BY <1>2, Fields DEF ReadPlan
  <2>2. /\ k.at = "flag" /\ k.op = j.op /\ k.next = j.next
        /\ k.ok = entitled /\ k.arg = RolloverInEffect
    BY <1>1, <2>1
  <2>3. j.at = "plan" /\ j.op \in {"reconcile", "setting"}
    BY <1>2 DEF ReadPlan, At
  <2>4. QED
    BY <2>2, <2>3
<1>3. ASSUME SetFlag(x)
      PROVE  /\ j.at = "flag"
             /\ \/ j.op = "setting" /\ j.arg /\ k = NoJob
                \/ j.op = "setting" /\ ~j.arg /\ k.at = "all" /\ Keeps(j, k)
                \/ j.op # "setting" /\ j.ok /\ k.at = "paused" /\ Keeps(j, k)
                \/ /\ j.op # "setting" /\ ~j.ok
                   /\ k.at = "all" /\ k.op = j.op /\ k.next = "filtered"
  <2>1. j.at = "flag"
    BY <1>3 DEF SetFlag, At
  <2>2. CASE j.op = "setting" \/ j.ok
    BY <1>3, <2>1, <2>2, Fields DEF SetFlag
  <2>3. CASE ~(j.op = "setting" \/ j.ok)
    <3>1. k = [j EXCEPT !.at = "all", !.next = "filtered"]
      BY <1>3, <2>3, Fields DEF SetFlag
    <3>2. k.at = "all" /\ k.op = j.op /\ k.next = "filtered"
      BY <1>1, <3>1
    <3>3. QED
      BY <2>1, <2>3, <3>2
  <2>4. QED
    BY <2>2, <2>3
<1>4. ASSUME ListPaused(x), k # NoJob
      PROVE  /\ k.at = "reactivate" /\ k.op = j.op /\ k.next = j.next
             /\ k.rules = RulesOf(rows, DOMAIN rows \ Serving(rows))
  <2>1. k = [j EXCEPT !.at = "reactivate", !.rules = RulesOf(rows, DOMAIN rows \ Serving(rows))]
    BY <1>4, Fields DEF ListPaused
  <2>2. QED
    BY <1>1, <2>1
<1>5. ASSUME ListAll(x)
      PROVE  /\ j.at = "all" /\ k.at = "drop" /\ k.op = j.op /\ k.next = j.next
             /\ k.on = DOMAIN rows
  <2>1. k = [j EXCEPT !.at = "drop", !.on = DOMAIN rows]
    BY <1>5, Fields DEF ListAll
  <2>2. k.at = "drop" /\ k.op = j.op /\ k.next = j.next /\ k.on = DOMAIN rows
    BY <1>1, <2>1
  <2>3. j.at = "all"
    BY <1>5 DEF ListAll, At
  <2>4. QED
    BY <2>2, <2>3
<1>6. ASSUME ListFiltered(x)
      PROVE  /\ j.at = "filtered" /\ k.op = j.op
             /\ \/ k.at = "excess" /\ Filtered(rows) = {} /\ Keeps(j, k)
                \/ k.at = "pause" /\ k.next = "excess" /\ k.on = Filtered(rows)
  <2>1. j.at = "filtered"
    BY <1>6 DEF ListFiltered, At
  <2>2. CASE Filtered(rows) = {}
    BY <1>6, <2>1, <2>2, Fields DEF ListFiltered, Keeps
  <2>3. CASE Filtered(rows) # {}
    <3>1. k = [j EXCEPT !.at = "pause", !.next = "excess", !.on = Filtered(rows)]
      BY <1>6, <2>3, Fields DEF ListFiltered
    <3>2. k.at = "pause" /\ k.op = j.op /\ k.next = "excess" /\ k.on = Filtered(rows)
      BY <1>1, <3>1
    <3>3. QED
      BY <2>1, <3>2
  <2>4. QED
    BY <2>2, <2>3
<1>7. ASSUME ListExcess(x), k # NoJob
      PROVE  k.at = "pause" /\ k.op = j.op /\ k.next = "idle"
  <2>1. k = [j EXCEPT !.at = "pause", !.next = "idle", !.on = Excess(Cap)]
    BY <1>7, Fields DEF ListExcess
  <2>2. QED
    BY <1>1, <2>1
<1>8. /\ ListPaused(x) => j.at = "paused"
      /\ ListExcess(x) => j.at = "excess"
  BY DEF ListPaused, ListExcess, At
<1>9. /\ Reactivate(x) => j.at = "reactivate" /\ k.at = "put" /\ Keeps(j, k)
      /\ Pause(x) => j.at = "pause" /\ k.at = "del" /\ Keeps(j, k)
      /\ WriteSetting(x) =>
           j.at = "write" /\ j.op = "setting" /\ k.at = "plan" /\ Keeps(j, k)
      /\ DelEnabled(x) => j.at = "del" /\ k.at = "clear" /\ Keeps(j, k)
  BY Fields DEF Reactivate, Pause, WriteSetting, DelEnabled, At
<1>10. ASSUME DropHeld(x) \/ CachePut(x) \/ ClearHeld(x)
       PROVE  \/ k = NoJob
              \/ j.next # "idle" /\ k.at = j.next /\ k.op = j.op /\ k.next = "idle"
  BY <1>10, Fields DEF DropHeld, CachePut, ClearHeld
<1>11. /\ DropHeld(x) => j.at = "drop"
       /\ CachePut(x) => j.at = "put"
       /\ ClearHeld(x) => j.at = "clear"
  BY DEF DropHeld, CachePut, ClearHeld, At
<1>12. QED
  BY <1>2, <1>3, <1>4, <1>5, <1>6, <1>7, <1>8, <1>9, <1>10, <1>11, Zenon
     DEF ReadPlanMove, FlagMove, PausedMove, AllMove, FilteredMove, ExcessMove, Hop, Onward

(* The jobs that requests, webhooks and crons begin with. *)
LEMMA RequestMoves ==
  ASSUME JobsOK, NEW x \in Handlers, Requests(x) \/ Webhook(x) \/ Nightly(x)
  PROVE  LET j == job[x]
             k == job'[x]
         IN
         /\ j.at = "idle" /\ k.next = "idle" /\ up /\ up' /\ UNCHANGED <<cacheVars, strayed>>
         /\ \/ k.op = "setting" /\ k.at = "write" /\ UNCHANGED dbVars
            \/ /\ \E c \in Channels : k.on = {c}
               /\ k.op = "none" /\ k.at = "count" /\ UNCHANGED dbVars
            \/ /\ k.op = "remove" /\ k.at = "del" /\ rows' = Without(rows, k.on)
               /\ UNCHANGED <<entitled, rolloverOn>>
            \/ k.op = "get" /\ k.at = "find" /\ UNCHANGED dbVars
            \/ /\ \E c \in Channels : k.on = {c}
               /\ k.op = "rule" /\ k.at = "serving" /\ UNCHANGED dbVars
            \/ /\ \E c \in Channels : k.on = {c}
               /\ k.op \in EditOps /\ k.at \in {"check", "snapshot"} /\ UNCHANGED dbVars
            \/ /\ k.op = "reconcile" /\ k.at = "plan" /\ rows' = rows
               /\ entitled' = ~entitled \/ (~entitled /\ entitled' = entitled)
               /\ rolloverOn' = rolloverOn
<1>1. \A j : To(x, j) => job'[x] = j
  BY Fields
<1>2. \A on \in BOOLEAN : AskRollover(x, on) =>
        /\ job'[x] = [NoJob EXCEPT !.op = "setting", !.at = "write", !.arg = on]
        /\ job[x].at = "idle" /\ up /\ up' = up /\ UNCHANGED <<dbVars, cacheVars, strayed>>
  BY <1>1 DEF AskRollover, Idle, Asks
<1>3. \A c \in Channels : \A clear \in BOOLEAN : Add(x, c, clear) =>
        /\ job'[x] = [NoJob EXCEPT !.at = "count", !.on = {c}, !.ok = entitled, !.arg = clear]
        /\ job[x].at = "idle" /\ up /\ up' = up /\ UNCHANGED <<dbVars, cacheVars, strayed>>
  BY <1>1 DEF Add, Idle, Asks
<1>4. \A c \in Channels : Remove(x, c) =>
        /\ job'[x] = [NoJob EXCEPT !.op = "remove", !.at = "del", !.on = {c}]
        /\ job[x].at = "idle" /\ up /\ up' = up /\ rows' = Without(rows, {c})
        /\ UNCHANGED <<cacheVars, strayed, entitled, rolloverOn>>
  BY <1>1 DEF Remove, Idle
<1>5. \A c \in Channels : Get(x, c) =>
        /\ job'[x] = [NoJob EXCEPT !.op = "get", !.at = "find", !.on = {c}]
        /\ job[x].at = "idle" /\ up /\ up' = up /\ UNCHANGED <<dbVars, cacheVars, strayed>>
  BY <1>1 DEF Get, Idle, Asks
<1>6. \A c \in Channels : EditFromDashboard(x, c) =>
        /\ job'[x] = [NoJob EXCEPT !.op = "rule", !.at = "serving", !.on = {c}]
        /\ job[x].at = "idle" /\ up /\ up' = up /\ UNCHANGED <<dbVars, cacheVars, strayed>>
  BY <1>1 DEF EditFromDashboard, Idle, Asks
<1>7. \A c \in Channels : \A op : EditFromPanel(x, c, op) =>
        /\ \E at \in {"check", "snapshot"} :
             job'[x] = [NoJob EXCEPT !.op = op, !.on = {c}, !.at = at]
        /\ job[x].at = "idle" /\ up /\ up' = up /\ UNCHANGED <<dbVars, cacheVars, strayed>>
  BY <1>1 DEF EditFromPanel, Idle, Asks
<1>8. Webhook(x) \/ Nightly(x) =>
        /\ job'[x] = [NoJob EXCEPT !.op = "reconcile", !.at = "plan"]
        /\ rows' = rows /\ rolloverOn' = rolloverOn
        /\ job[x].at = "idle" /\ up /\ up' = up /\ UNCHANGED <<cacheVars, strayed>>
        /\ entitled' = ~entitled \/ (~entitled /\ entitled' = entitled)
  BY <1>1 DEF Webhook, Nightly, ToPlan, Idle, Reads, dbVars
<1>9. CASE Webhook(x) \/ Nightly(x)
  <2>1. job'[x].op = "reconcile" /\ job'[x].at = "plan" /\ job'[x].next = "idle"
    BY <1>8, <1>9 DEF NoJob
  <2>2. /\ rows' = rows /\ rolloverOn' = rolloverOn
        /\ job[x].at = "idle" /\ up /\ up' = up /\ UNCHANGED <<cacheVars, strayed>>
        /\ entitled' = ~entitled \/ (~entitled /\ entitled' = entitled)
    BY <1>8, <1>9
  <2>3. QED
    BY <2>1, <2>2, Zenon
<1>10. CASE \E on \in BOOLEAN : AskRollover(x, on)
  <2>1. PICK on \in BOOLEAN : AskRollover(x, on)
    BY <1>10
  <2>2. job'[x].op = "setting" /\ job'[x].at = "write" /\ job'[x].next = "idle"
    BY <1>2, <2>1 DEF NoJob
  <2>3. /\ job[x].at = "idle" /\ up /\ up' = up /\ UNCHANGED <<cacheVars, strayed>>
        /\ UNCHANGED dbVars
    BY <1>2, <2>1
  <2>4. QED
    BY <2>2, <2>3, Zenon
<1>11. CASE \E c \in Channels : \E clear \in BOOLEAN : Add(x, c, clear)
  <2>1. PICK c \in Channels, clear \in BOOLEAN : Add(x, c, clear)
    BY <1>11
  <2>2. job'[x] = [NoJob EXCEPT !.at = "count", !.on = {c}, !.ok = entitled, !.arg = clear]
    BY <1>3, <2>1
  <2>3. job'[x].op = "none" /\ job'[x].at = "count" /\ job'[x].on = {c} /\ job'[x].next = "idle"
    BY <2>2 DEF NoJob
  <2>4. /\ job[x].at = "idle" /\ up /\ up' = up /\ UNCHANGED <<cacheVars, strayed>>
        /\ UNCHANGED dbVars
    BY <1>3, <2>1
  <2>5. QED
    BY <2>3, <2>4, Zenon
<1>12. CASE \E c \in Channels : Remove(x, c)
  <2>1. PICK c \in Channels : Remove(x, c)
    BY <1>12
  <2>2. /\ job'[x].op = "remove" /\ job'[x].at = "del" /\ job'[x].on = {c}
        /\ job'[x].next = "idle"
    BY <1>4, <2>1 DEF NoJob
  <2>3. /\ job[x].at = "idle" /\ up /\ up' = up /\ rows' = Without(rows, {c})
        /\ UNCHANGED <<cacheVars, strayed>> /\ UNCHANGED <<entitled, rolloverOn>>
    BY <1>4, <2>1
  <2>4. rows' = Without(rows, job'[x].on)
    BY <2>2, <2>3
  <2>5. QED
    BY <2>2, <2>3, <2>4, Zenon
<1>13. CASE \E c \in Channels : Get(x, c)
  <2>1. PICK c \in Channels : Get(x, c)
    BY <1>13
  <2>2. job'[x].op = "get" /\ job'[x].at = "find" /\ job'[x].next = "idle"
    BY <1>5, <2>1 DEF NoJob
  <2>3. /\ job[x].at = "idle" /\ up /\ up' = up /\ UNCHANGED <<cacheVars, strayed>>
        /\ UNCHANGED dbVars
    BY <1>5, <2>1
  <2>4. QED
    BY <2>2, <2>3, Zenon
<1>14. CASE \E c \in Channels : EditFromDashboard(x, c)
  <2>1. PICK c \in Channels : EditFromDashboard(x, c)
    BY <1>14
  <2>2. /\ job'[x].op = "rule" /\ job'[x].at = "serving" /\ job'[x].next = "idle"
        /\ job'[x].on = {c}
    BY <1>6, <2>1 DEF NoJob
  <2>3. /\ job[x].at = "idle" /\ up /\ up' = up /\ UNCHANGED <<cacheVars, strayed>>
        /\ UNCHANGED dbVars
    BY <1>6, <2>1
  <2>4. QED
    BY <2>2, <2>3, Zenon
<1>15. CASE \E c \in Channels : \E op \in EditOps \ {"rule"} : EditFromPanel(x, c, op)
  <2>1. PICK c \in Channels, op \in EditOps \ {"rule"} : EditFromPanel(x, c, op)
    BY <1>15
  <2>2. PICK at \in {"check", "snapshot"} : job'[x] = [NoJob EXCEPT !.op = op, !.on = {c}, !.at = at]
    BY <1>7, <2>1
  <2>3. job'[x].op = op /\ job'[x].at = at /\ job'[x].on = {c} /\ job'[x].next = "idle"
    BY <2>2 DEF NoJob
  <2>4. /\ job[x].at = "idle" /\ up /\ up' = up /\ UNCHANGED <<cacheVars, strayed>>
        /\ UNCHANGED dbVars
    BY <1>7, <2>1
  <2>5. job'[x].op \in EditOps /\ job'[x].at \in {"check", "snapshot"}
    BY <2>3
  <2>6. QED
    BY <2>3, <2>4, <2>5, Zenon
<1>16. QED
  BY <1>9, <1>10, <1>11, <1>12, <1>13, <1>14, <1>15 DEF Requests

----------------------------------------------------------------------------
(* Rows and the allowlist.                                                  *)

(* Writing the rules of the rows that have begun to serve, or changed their *)
(* rule, makes an allowlist that was right before right again. *)
LEMMA PutAgrees ==
  ASSUME NEW m, NEW r, NEW s, NEW D, NEW S, NEW T, Agree(m, r, S), S \subseteq T \cup D,
         DOMAIN s = DOMAIN r \cup D,
         \A c \in D \ T : ~s[c].paused,
         \A c \in DOMAIN r \ D : s[c].paused = r[c].paused /\ s[c].rule = r[c].rule
  PROVE  Agree(Put(m, RulesOf(s, D)), s, T)
<1>1. /\ DOMAIN RulesOf(s, D) = D /\ \A c \in D : RulesOf(s, D)[c] = s[c].rule
  BY DEF RulesOf
<1> DEFINE g == RulesOf(s, D)
           n == Put(m, g)
<1>2. /\ DOMAIN n = DOMAIN m \cup D
      /\ \A c \in D : n[c] = s[c].rule
      /\ \A c \in DOMAIN m \ D : n[c] = m[c]
  BY <1>1 DEF Put
<1> HIDE DEF n, g
<1>3. ASSUME NEW c \in Channels \ T
      PROVE  IF c \in Serving(s) THEN c \in DOMAIN n /\ n[c] = s[c].rule ELSE c \notin DOMAIN n
  <2>1. CASE c \in D
    BY <1>2, <1>3, <2>1 DEF Serving
  <2>2. CASE c \notin D
    <3>1. c \in Serving(s) <=> c \in Serving(r)
      BY <2>2 DEF Serving
    <3>2. c \in Serving(r) => s[c].rule = r[c].rule
      BY <2>2 DEF Serving
    <3>3. IF c \in Serving(r) THEN c \in DOMAIN m /\ m[c] = r[c].rule ELSE c \notin DOMAIN m
      BY <1>3, <2>2 DEF Agree
    <3>4. QED
      BY <1>2, <2>2, <3>1, <3>2, <3>3
  <2>3. QED
    BY <2>1, <2>2
<1>4. Agree(n, s, T)
  BY <1>3 DEF Agree
<1>5. QED
  BY <1>4 DEF n, g

(* Deleting the keys of the rows that went or were paused does, too. *)
LEMMA DeleteAgrees ==
  ASSUME NEW m, NEW r, NEW s, NEW D, NEW S, Agree(m, r, S),
         DOMAIN s \subseteq DOMAIN r, DOMAIN r \ D \subseteq DOMAIN s,
         \A c \in DOMAIN s \cap D : s[c].paused,
         \A c \in DOMAIN r \ D : s[c] = r[c]
  PROVE  Agree(Without(m, D), s, S \ D)
<1> DEFINE n == Without(m, D)
<1>1. DOMAIN n = DOMAIN m \ D /\ \A c \in DOMAIN m \ D : n[c] = m[c]
  BY DEF Without
<1> HIDE DEF n
<1>2. ASSUME NEW c \in Channels \ (S \ D)
      PROVE  IF c \in Serving(s) THEN c \in DOMAIN n /\ n[c] = s[c].rule ELSE c \notin DOMAIN n
  <2>1. CASE c \in D
    BY <1>1, <2>1 DEF Serving
  <2>2. CASE c \notin D
    <3>1. (c \in Serving(s) <=> c \in Serving(r)) /\ (c \in Serving(r) => s[c] = r[c])
      BY <2>2 DEF Serving
    <3>2. IF c \in Serving(r) THEN c \in DOMAIN m /\ m[c] = r[c].rule ELSE c \notin DOMAIN m
      BY <1>2, <2>2 DEF Agree
    <3>3. QED
      BY <1>1, <2>2, <3>1, <3>2
  <2>3. QED
    BY <2>1, <2>2
<1>3. Agree(n, s, S \ D)
  BY <1>2 DEF Agree
<1>4. QED
  BY <1>3 DEF n

----------------------------------------------------------------------------
(* A step of a handler keeps its course. *)
LEMMA CourseKept ==
  ASSUME Typed, NEW x \in Handlers, Course(job[x]),
         Continue(x) \/ Requests(x) \/ Webhook(x) \/ Nightly(x)
  PROVE  Course(job'[x])
<1>1. /\ JobsOK /\ Course(NoJob)
      /\ job[x].next \in {"idle", "mark", "filtered", "excess"}
  BY Fields DEF Typed, Course, NoJob, EditOps, Job
<1>2. CASE AddSteps(x) \/ GetFind(x)
  <2>1. CASE AddCount(x)
    BY <1>1, <2>1, AddMoves DEF CountMove, Course, Keeps, EditOps
  <2>2. CASE AddFind(x)
    <3>1. /\ job[x].at = "find" /\ job[x].op = "none"
          /\ \/ job'[x] = NoJob
             \/ /\ job'[x].next = job[x].next
                /\ \/ job'[x].at = "insert" /\ job'[x].op = "insert"
                   \/ job'[x].at \in {"plan", "unpause"} /\ job'[x].op = "unpause"
      BY <1>1, <2>2, AddMoves, Zenon DEF FindMove
    <3>2. QED
      BY <1>1, <3>1 DEF Course, EditOps
  <2>3. CASE AddPlan(x)
    <3>1. /\ job[x].at = "plan" /\ job[x].op = "unpause"
          /\ \/ job'[x] = NoJob
             \/ job'[x].at = "unpause" /\ job'[x].op = "unpause" /\ job'[x].next = job[x].next
      BY <1>1, <2>3, AddMoves, Zenon DEF PlanMove
    <3>2. QED
      BY <1>1, <3>1 DEF Course, EditOps
  <2>4. CASE Unpause(x)
    BY <1>1, <2>4, AddMoves DEF Hop, Course, Keeps, EditOps
  <2>5. CASE Insert(x)
    BY <1>1, <2>5, AddMoves DEF InsertMove, Course, Keeps, EditOps
  <2>6. CASE Mark(x)
    BY <1>1, <2>6, AddMoves DEF End, Course
  <2>7. CASE InsertUndo(x)
    BY <1>1, <2>7, AddMoves DEF End, Course
  <2>8. CASE GetFind(x)
    BY <1>1, <2>8, AddMoves DEF GetMove, Course, Keeps, EditOps
  <2>9. QED
    BY <1>2, <2>1, <2>2, <2>3, <2>4, <2>5, <2>6, <2>7, <2>8 DEF AddSteps
<1>3. CASE EditSteps(x)
  <2>1. CASE EditServing(x) \/ EditCheck(x)
    BY <1>1, <2>1, EditMoves DEF ServingMove, CheckMove, Course, Keeps, EditOps
  <2>2. CASE EditSnapshot(x)
    BY <1>1, <2>2, EditMoves DEF SnapshotMove, Course, Keeps, EditOps
  <2>3. CASE EditWrite(x)
    BY <1>1, <2>3, EditMoves DEF Hop, Course, Keeps, EditOps
  <2>4. CASE EditUndo(x)
    BY <1>1, <2>4, EditMoves DEF End, Course
  <2>5. QED
    BY <1>3, <2>1, <2>2, <2>3, <2>4 DEF EditSteps
<1>4. CASE PlanSteps(x)
  <2>1. CASE ReadPlan(x)
    BY <1>1, <2>1, PlanMoves DEF ReadPlanMove, Course, Keeps, EditOps
  <2>2. CASE SetFlag(x)
    BY <1>1, <2>2, PlanMoves DEF FlagMove, Course, Keeps, EditOps
  <2>3. CASE ListPaused(x)
    BY <1>1, <2>3, PlanMoves DEF PausedMove, Course, Keeps, EditOps
  <2>4. CASE Reactivate(x)
    BY <1>1, <2>4, PlanMoves DEF Hop, Course, Keeps, EditOps
  <2>5. CASE ListAll(x)
    BY <1>1, <2>5, PlanMoves DEF AllMove, Course, Keeps, EditOps
  <2>6. CASE DropHeld(x)
    BY <1>1, <2>6, PlanMoves DEF Onward, Course, Keeps, EditOps
  <2>7. CASE ListFiltered(x)
    BY <1>1, <2>7, PlanMoves DEF FilteredMove, Course, Keeps, EditOps
  <2>8. CASE ListExcess(x)
    BY <1>1, <2>8, PlanMoves DEF ExcessMove, Course, Keeps, EditOps
  <2>9. CASE Pause(x)
    BY <1>1, <2>9, PlanMoves DEF Hop, Course, Keeps, EditOps
  <2>10. CASE WriteSetting(x)
    BY <1>1, <2>10, PlanMoves DEF Hop, Course, Keeps, EditOps
  <2>11. QED
    BY <1>4, <2>1, <2>2, <2>3, <2>4, <2>5, <2>6, <2>7, <2>8, <2>9, <2>10 DEF PlanSteps
<1>5. CASE CacheSteps(x)
  <2>1. CASE CachePut(x)
    BY <1>1, <2>1, PlanMoves DEF Onward, Course, Keeps, EditOps
  <2>2. CASE DelEnabled(x)
    BY <1>1, <2>2, PlanMoves DEF Hop, Course, Keeps, EditOps
  <2>3. CASE ClearHeld(x)
    BY <1>1, <2>3, PlanMoves DEF Onward, Course, Keeps, EditOps
  <2>4. QED
    BY <1>5, <2>1, <2>2, <2>3 DEF CacheSteps
<1>6. CASE Requests(x) \/ Webhook(x) \/ Nightly(x)
  BY <1>1, <1>6, RequestMoves DEF Course, EditOps
<1>7. QED
  BY <1>2, <1>3, <1>4, <1>5, <1>6 DEF Continue

(* While one handler is at work the plan stays as it found it. *)
LEMMA PlanKept ==
  ASSUME Typed, NEW x \in Handlers, Course(job[x]), Locals(job[x]), PlanKnown(job[x]),
         Continue(x) \/ Requests(x) \/ Webhook(x) \/ Nightly(x)
  PROVE  PlanKnown(job[x])'
<1>1. /\ JobsOK /\ NoJob.at = "idle" /\ NoJob.op = "none" /\ EditOps = {"append", "erase", "replace", "mode", "rule"}
      /\ job[x].next \in {"idle", "mark", "filtered", "excess"}
  BY Fields DEF Typed, NoJob, EditOps, Job
<1>2. Continue(x) => entitled' = entitled
  BY DEF Continue, AddSteps, EditSteps, PlanSteps, CacheSteps, AddCount, AddFind, AddPlan,
    Unpause, Insert, Mark, InsertUndo, GetFind, EditServing, EditCheck, EditSnapshot, EditWrite,
    EditUndo, ReadPlan, SetFlag, ListPaused, Reactivate, ListAll, DropHeld, ListFiltered,
    ListExcess, Pause, WriteSetting, CachePut, DelEnabled, ClearHeld, Reads, dbVars
<1>3. ReadPlan(x) => rolloverOn' = rolloverOn
  BY DEF ReadPlan, Reads, dbVars
<1>4. CASE AddSteps(x) \/ GetFind(x)
  <2>1. entitled' = entitled
    BY <1>4, <1>2 DEF Continue
  <2>2. CASE AddCount(x)
    BY <1>1, <1>3, <2>1, <2>2, AddMoves DEF CountMove, PlanKnown, Course, Trimming, Keeps
  <2>3. CASE AddFind(x)
    <3>1. CASE job'[x] = NoJob
      BY <1>1, <3>1 DEF PlanKnown, Trimming
    <3>2. CASE job'[x].at \in {"insert", "plan"} /\ job'[x].op \in {"insert", "unpause"}
      BY <1>1, <3>2 DEF PlanKnown, Trimming
    <3>3. CASE \E c \in DOMAIN rows :
                 /\ job'[x].at = "unpause" /\ job'[x].op = "unpause"
                 /\ job'[x].rules = RulesOf(rows, {c}) /\ ~(rows[c].rule.conds > 0)
      <4>1. PICK c \in DOMAIN rows :
                 /\ job'[x].at = "unpause" /\ job'[x].op = "unpause"
                 /\ job'[x].rules = RulesOf(rows, {c}) /\ ~(rows[c].rule.conds > 0)
        BY <3>3
      <4>2. rows[c].rule.conds \in 0..MaxGrown
        <5>1. rows \in [DOMAIN rows -> Row]
          BY FromPartial DEF Typed, DataOK
        <5>2. QED
          BY <5>1 DEF Row, Rule
      <4>3. rows[c].rule.conds = 0
        BY <4>1, <4>2, ServingConstants
      <4>4. \A d \in DOMAIN job'[x].rules : job'[x].rules[d].conds = 0
        BY <4>1, <4>3 DEF RulesOf
      <4>5. QED
        BY <1>1, <4>1, <4>4 DEF PlanKnown, Trimming
    <3>4. FindMove(job[x], job'[x])
      BY <1>1, <2>3, AddMoves
    <3>5. QED
      BY <3>1, <3>2, <3>3, <3>4 DEF FindMove
  <2>4. CASE AddPlan(x)
    BY <1>1, <1>3, <2>1, <2>4, AddMoves DEF PlanMove, PlanKnown, Course, Trimming, Keeps
  <2>5. CASE Unpause(x)
    BY <1>1, <1>3, <2>1, <2>5, AddMoves DEF Hop, PlanKnown, Course, Trimming, Keeps
  <2>6. CASE Insert(x)
    BY <1>1, <1>3, <2>1, <2>6, AddMoves DEF InsertMove, PlanKnown, Course, Trimming, Keeps
  <2>7. CASE Mark(x)
    BY <1>1, <1>3, <2>1, <2>7, AddMoves DEF End, PlanKnown, Course, Trimming, Keeps
  <2>8. CASE InsertUndo(x)
    BY <1>1, <1>3, <2>1, <2>8, AddMoves DEF End, PlanKnown, Course, Trimming, Keeps
  <2>9. CASE GetFind(x)
    BY <1>1, <1>3, <2>1, <2>9, AddMoves DEF GetMove, PlanKnown, Course, Trimming, Keeps
  <2>10. QED
    BY <1>4, <2>2, <2>3, <2>4, <2>5, <2>6, <2>7, <2>8, <2>9 DEF AddSteps
<1>5. CASE EditSteps(x)
  <2>1. entitled' = entitled
    BY <1>5, <1>2 DEF Continue
  <2>2. CASE EditServing(x) \/ EditCheck(x)
    BY <1>1, <1>3, <2>1, <2>2, EditMoves
       DEF ServingMove, CheckMove, PlanKnown, Course, Trimming, Keeps
  <2>3. CASE EditSnapshot(x)
    BY <1>1, <1>3, <2>1, <2>3, EditMoves DEF SnapshotMove, PlanKnown, Course, Trimming, Keeps
  <2>4. CASE EditWrite(x)
    BY <1>1, <1>3, <2>1, <2>4, EditMoves DEF Hop, PlanKnown, Course, Trimming, Keeps
  <2>5. CASE EditUndo(x)
    BY <1>1, <1>3, <2>1, <2>5, EditMoves DEF End, PlanKnown, Course, Trimming, Keeps
  <2>6. QED
    BY <1>5, <2>2, <2>3, <2>4, <2>5 DEF EditSteps
<1>6. CASE PlanSteps(x)
  <2>1. entitled' = entitled
    BY <1>6, <1>2 DEF Continue
  <2>2. CASE ReadPlan(x)
    <3>1. entitled' = entitled /\ RolloverInEffect' = RolloverInEffect
      BY <1>3, <2>1, <2>2 DEF RolloverInEffect
    <3>2. ReadPlanMove(job[x], job'[x])
      BY <1>1, <2>2, PlanMoves
    <3>3. job'[x].ok = entitled' /\ job'[x].arg = RolloverInEffect'
      BY <3>1, <3>2 DEF ReadPlanMove
    <3>4. QED
      BY <1>1, <3>2, <3>3 DEF ReadPlanMove, PlanKnown, Trimming
  <2>3. CASE SetFlag(x)
    BY <1>1, <1>3, <2>1, <2>3, PlanMoves DEF FlagMove, PlanKnown, Course, Trimming, Keeps
  <2>4. CASE ListPaused(x)
    BY <1>1, <1>3, <2>1, <2>4, PlanMoves DEF PausedMove, PlanKnown, Course, Trimming, Keeps
  <2>5. CASE Reactivate(x)
    BY <1>1, <1>3, <2>1, <2>5, PlanMoves DEF Hop, PlanKnown, Course, Trimming, Keeps
  <2>6. CASE ListAll(x)
    BY <1>1, <1>3, <2>1, <2>6, PlanMoves DEF AllMove, PlanKnown, Course, Trimming, Keeps
  <2>7. CASE DropHeld(x)
    BY <1>1, <1>3, <2>1, <2>7, PlanMoves DEF Onward, PlanKnown, Course, Trimming, Keeps
  <2>8. CASE ListFiltered(x)
    BY <1>1, <1>3, <2>1, <2>8, PlanMoves DEF FilteredMove, PlanKnown, Course, Trimming, Keeps
  <2>9. CASE ListExcess(x)
    BY <1>1, <1>3, <2>1, <2>9, PlanMoves DEF ExcessMove, PlanKnown, Course, Trimming, Keeps
  <2>10. CASE Pause(x)
    BY <1>1, <1>3, <2>1, <2>10, PlanMoves DEF Hop, PlanKnown, Course, Trimming, Keeps
  <2>11. CASE WriteSetting(x)
    BY <1>1, <1>3, <2>1, <2>11, PlanMoves DEF Hop, PlanKnown, Course, Trimming, Keeps
  <2>12. QED
    BY <1>6, <2>2, <2>3, <2>4, <2>5, <2>6, <2>7, <2>8, <2>9, <2>10, <2>11 DEF PlanSteps
<1>7. CASE CacheSteps(x)
  <2>1. entitled' = entitled
    BY <1>7, <1>2 DEF Continue
  <2>2. CASE CachePut(x)
    BY <1>1, <1>3, <2>1, <2>2, PlanMoves DEF Onward, PlanKnown, Course, Trimming, Keeps
  <2>3. CASE DelEnabled(x)
    BY <1>1, <1>3, <2>1, <2>3, PlanMoves DEF Hop, PlanKnown, Course, Trimming, Keeps
  <2>4. CASE ClearHeld(x)
    BY <1>1, <1>3, <2>1, <2>4, PlanMoves DEF Onward, PlanKnown, Course, Trimming, Keeps
  <2>5. QED
    BY <1>7, <2>2, <2>3, <2>4 DEF CacheSteps
<1>8. CASE Requests(x) \/ Webhook(x) \/ Nightly(x)
  BY <1>1, <1>8, RequestMoves DEF PlanKnown, Trimming, dbVars
<1>9. QED
  BY <1>4, <1>5, <1>6, <1>7, <1>8 DEF Continue

(* The columns an edit does not write are those of the rule it has read. *)
LEMMA EditsKeep ==
  ASSUME NEW op \in EditOps, NEW r \in Rule, NEW n \in Edits(op, r)
  PROVE  n \in Rule /\ Columns(op, r, n) = n
<1>1. n \in Rule
  BY EditsType
<1>2. op \notin {"mode", "rule"} => n.mode = r.mode
  BY DEF Edits, EditOps, Rule
<1>3. op = "mode" => n.conds = r.conds
  BY DEF Edits, Rule
<1>4. n = [conds |-> n.conds, mode |-> n.mode]
  BY <1>1 DEF Rule
<1>5. QED
  BY <1>1, <1>2, <1>3, <1>4 DEF Columns

(* What a handler has read of the rows it writes stays true: nobody else    *)
(* writes them. *)
LEMMA LocalsKept ==
  ASSUME Typed, NEW x \in Handlers, Course(job[x]), Locals(job[x]),
         Continue(x) \/ Requests(x) \/ Webhook(x) \/ Nightly(x)
  PROVE  Locals(job[x])'
<1>1. /\ JobsOK /\ NoJob.at = "idle" /\ NoJob.op = "none" /\ EditOps = {"append", "erase", "replace", "mode", "rule"}
      /\ job[x].next \in {"idle", "mark", "filtered", "excess"} /\ job[x].on \subseteq Channels
  BY Fields DEF Typed, NoJob, EditOps, Job
<1>2. rows \in [DOMAIN rows -> Row] /\ DOMAIN rows \subseteq Channels
  BY FromPartial DEF Typed, DataOK
<1>3. \/ job'[x].at \notin {"count", "find", "plan", "unpause", "insert", "serving", "check",
                           "snapshot", "write", "reactivate", "del"}
      \/ job'[x].at = "del" /\ job'[x].op = "reconcile"
      \/ job'[x].at = "find" /\ job'[x].op = "get"
      \/ job'[x].at = "plan" /\ job'[x].op # "unpause"
      \/ job'[x].at = "write" /\ job'[x].op = "setting"
      => Locals(job[x])'
  BY <1>1 DEF Locals
<1>4. CASE AddSteps(x) \/ GetFind(x)
  <2>1. CASE AddCount(x)
    BY <1>1, <2>1, AddMoves DEF CountMove, Locals, Course
  <2>2. CASE AddFind(x)
    <3>1. rows' = rows /\ FindMove(job[x], job'[x])
      BY <1>1, <2>2, AddMoves DEF AddFind, Reads, dbVars
    <3>2. CASE job'[x] = NoJob
      BY <1>1, <1>3, <3>2
    <3>3. CASE job'[x] # NoJob
      <4>1. PICK c \in job[x].on :
              /\ job'[x].on = job[x].on
              /\ \/ /\ job'[x].at = "insert" /\ job'[x].op = "insert"
                    /\ job'[x].rules = [d \in {c} |-> NewRule]
                 \/ /\ c \in DOMAIN rows /\ job'[x].at \in {"plan", "unpause"}
                    /\ job'[x].op = "unpause" /\ job'[x].ok
                    /\ job'[x].rules = RulesOf(rows, {c})
        BY <3>1, <3>3 DEF FindMove
      <4>2. job[x].on = {c} /\ c \in Channels
        BY <1>1, <3>1, <4>1 DEF FindMove, Locals
      <4>3. CASE job'[x].at = "insert"
        BY <4>1, <4>2, <4>3 DEF Locals
      <4>4. CASE job'[x].at # "insert"
        <5>1. job'[x].rules = [d \in {c} |-> rows[c].rule]
          BY <4>1, <4>4 DEF RulesOf
        <5>2. job'[x].rules = [d \in {c} |-> IF job'[x].ok THEN rows'[c].rule
                                            ELSE [rows'[c].rule EXCEPT !.conds = 0]]
          BY <3>1, <4>1, <4>4, <5>1
        <5>3. QED
          BY <3>1, <4>1, <4>2, <4>4, <5>2 DEF Locals
      <4>5. QED
        BY <4>3, <4>4
    <3>4. QED
      BY <3>2, <3>3
  <2>3. CASE AddPlan(x)
    <3>1. rows' = rows /\ PlanMove(job[x], job'[x])
      BY <1>1, <2>3, AddMoves DEF AddPlan, Reads, dbVars
    <3>2. CASE job'[x] = NoJob
      BY <1>1, <1>3, <3>2
    <3>3. CASE job'[x] # NoJob
      <4>1. PICK c \in DOMAIN rows :
              job[x].on = {c} /\ job[x].ok /\ job[x].rules = [d \in {c} |-> rows[c].rule]
        <5>1. PICK c \in DOMAIN rows :
              /\ job[x].on = {c} /\ job[x].ok
              /\ job[x].rules = [d \in {c} |-> IF job[x].ok THEN rows[c].rule
                                              ELSE [rows[c].rule EXCEPT !.conds = 0]]
          BY <3>1 DEF PlanMove, Locals
        <5>2. QED
          BY <5>1
      <4>2. /\ job'[x].at = "unpause" /\ job'[x].op = "unpause" /\ job'[x].on = {c}
            /\ \/ job'[x].ok /\ job'[x].rules = job[x].rules
               \/ /\ ~job'[x].ok
                  /\ job'[x].rules = [d \in DOMAIN job[x].rules |->
                                        [job[x].rules[d] EXCEPT !.conds = 0]]
        BY <3>1, <3>3, <4>1 DEF PlanMove
      <4>3. job'[x].rules = [d \in {c} |-> IF job'[x].ok THEN rows'[c].rule
                                          ELSE [rows'[c].rule EXCEPT !.conds = 0]]
        BY <3>1, <4>1, <4>2
      <4>4. QED
        BY <3>1, <4>2, <4>3 DEF Locals
    <3>4. QED
      BY <3>2, <3>3
  <2>4. CASE Unpause(x)
    BY <1>1, <1>3, <2>4, AddMoves DEF Hop, Course, Keeps
  <2>5. CASE Insert(x)
    BY <1>1, <1>3, <2>5, AddMoves DEF InsertMove, Course, Keeps
  <2>6. CASE Mark(x)
    BY <1>1, <1>3, <2>6, AddMoves DEF End, Course, Keeps
  <2>7. CASE InsertUndo(x)
    BY <1>1, <1>3, <2>7, AddMoves DEF End, Course, Keeps
  <2>8. CASE GetFind(x)
    BY <1>1, <1>3, <2>8, AddMoves DEF GetMove, Course, Keeps
  <2>9. QED
    BY <1>4, <2>1, <2>2, <2>3, <2>4, <2>5, <2>6, <2>7, <2>8 DEF AddSteps
<1>5. CASE EditSteps(x)
  <2>1. CASE EditServing(x) \/ EditCheck(x)
    <3>1. /\ job[x].at \in {"serving", "check"}
          /\ \/ job'[x] = NoJob
             \/ job'[x].at \in {"check", "snapshot"} /\ Keeps(job[x], job'[x])
      BY <1>1, <2>1, EditMoves DEF ServingMove, CheckMove
    <3>2. CASE job'[x] = NoJob
      BY <1>1, <1>3, <3>2
    <3>3. CASE job'[x] # NoJob
      BY <3>1, <3>3 DEF Keeps, Locals
    <3>4. QED
      BY <3>2, <3>3
  <2>2. CASE EditSnapshot(x)
    <3>1. rows' = rows /\ SnapshotMove(job[x], job'[x])
      BY <1>1, <2>2, EditMoves DEF EditSnapshot, Reads, dbVars
    <3>2. CASE job'[x] = NoJob
      BY <1>1, <1>3, <3>2
    <3>3. CASE job'[x] # NoJob
      <4>1. PICK c \in job[x].on \cap DOMAIN rows : \E n \in Edits(job[x].op, rows[c].rule) :
              job'[x].rules = [d \in {c} |-> n]
        BY <3>1, <3>3 DEF SnapshotMove
      <4>2. PICK n \in Edits(job[x].op, rows[c].rule) : job'[x].rules = [d \in {c} |-> n]
        BY <4>1
      <4>3. /\ job'[x].at = "write" /\ job'[x].op = job[x].op /\ job'[x].on = job[x].on
            /\ job[x].at = "snapshot"
        BY <3>1, <3>3 DEF SnapshotMove
      <4>4. job[x].op \in EditOps /\ job[x].on = {c}
        BY <4>1, <4>3 DEF Course, Locals
      <4>5. n \in Rule /\ Columns(job[x].op, rows[c].rule, n) = n
        <5>1. rows[c].rule \in Rule
          BY <1>2 DEF Row
        <5>2. QED
          BY <4>2, <4>4, <5>1, EditsKeep
      <4>6. c \in DOMAIN rows' /\ Columns(job'[x].op, rows'[c].rule, n) = n /\ job'[x].on = {c}
        BY <3>1, <4>3, <4>4, <4>5
      <4>7. QED
        BY <4>2, <4>3, <4>5, <4>6 DEF Locals
    <3>4. QED
      BY <3>2, <3>3
  <2>3. CASE EditWrite(x)
    BY <1>1, <1>3, <2>3, EditMoves DEF Hop, Course, Keeps
  <2>4. CASE EditUndo(x)
    BY <1>1, <1>3, <2>4, EditMoves DEF End, Course, Keeps
  <2>5. QED
    BY <1>5, <2>1, <2>2, <2>3, <2>4 DEF EditSteps
<1>6. CASE PlanSteps(x)
  <2>1. CASE ReadPlan(x)
    BY <1>1, <1>3, <2>1, PlanMoves DEF ReadPlanMove, Course, Keeps
  <2>2. CASE SetFlag(x)
    BY <1>1, <1>3, <2>2, PlanMoves DEF FlagMove, Course, Keeps
  <2>3. CASE ListPaused(x)
    <3>1. rows' = rows /\ PausedMove(job[x], job'[x])
      BY <1>1, <2>3, PlanMoves DEF ListPaused, Reads, dbVars
    <3>2. CASE job'[x] = NoJob
      BY <1>1, <1>3, <3>2
    <3>3. CASE job'[x] # NoJob
      <4>1. job'[x].at = "reactivate" /\ job'[x].rules = RulesOf(rows, DOMAIN rows \ Serving(rows))
        BY <3>1, <3>3 DEF PausedMove
      <4>2. job'[x].rules = RulesOf(rows', DOMAIN rows' \ Serving(rows'))
        BY <3>1, <4>1
      <4>3. QED
        BY <4>1, <4>2 DEF Locals
    <3>4. QED
      BY <3>2, <3>3
  <2>4. CASE Reactivate(x)
    BY <1>1, <1>3, <2>4, PlanMoves DEF Hop, Course, Keeps
  <2>5. CASE ListAll(x)
    BY <1>1, <1>3, <2>5, PlanMoves DEF AllMove, Course, Keeps
  <2>6. CASE DropHeld(x)
    BY <1>1, <1>3, <2>6, PlanMoves DEF Onward, Course, Keeps
  <2>7. CASE ListFiltered(x)
    BY <1>1, <1>3, <2>7, PlanMoves DEF FilteredMove, Course, Keeps
  <2>8. CASE ListExcess(x)
    BY <1>1, <1>3, <2>8, PlanMoves DEF ExcessMove, Course, Keeps
  <2>9. CASE Pause(x)
    BY <1>1, <1>3, <2>9, PlanMoves DEF Hop, Course, Keeps
  <2>10. CASE WriteSetting(x)
    BY <1>1, <1>3, <2>10, PlanMoves DEF Hop, Course, Keeps
  <2>11. QED
    BY <1>6, <2>1, <2>2, <2>3, <2>4, <2>5, <2>6, <2>7, <2>8, <2>9, <2>10 DEF PlanSteps
<1>7. CASE CacheSteps(x)
  <2>1. CASE CachePut(x)
    BY <1>1, <1>3, <2>1, PlanMoves DEF Onward, Course, Keeps
  <2>2. CASE DelEnabled(x)
    BY <1>1, <1>3, <2>2, PlanMoves DEF Hop, Course, Keeps
  <2>3. CASE ClearHeld(x)
    BY <1>1, <1>3, <2>3, PlanMoves DEF Onward, Course, Keeps
  <2>4. QED
    BY <1>7, <2>1, <2>2, <2>3 DEF CacheSteps
<1>8. CASE Requests(x) \/ Webhook(x) \/ Nightly(x)
  <2>1. CASE job'[x].at \in {"count", "serving", "check", "snapshot"}
    <3>1. \E c \in Channels : job'[x].on = {c}
      BY <1>1, <1>8, <2>1, RequestMoves
    <3>2. QED
      BY <2>1, <3>1 DEF Locals
  <2>3. CASE job'[x].at = "del"
    <3>1. rows' = Without(rows, job'[x].on)
      BY <1>1, <1>8, <2>3, RequestMoves
    <3>2. job'[x].on \cap DOMAIN rows' = {}
      BY <3>1 DEF Without
    <3>3. QED
      BY <2>3, <3>2 DEF Locals
  <2>4. CASE job'[x].at \notin {"count", "serving", "check", "snapshot", "del"}
    BY <1>1, <1>3, <1>8, <2>4, RequestMoves
  <2>5. QED
    BY <2>1, <2>3, <2>4
<1>9. QED
  BY <1>4, <1>5, <1>6, <1>7, <1>8 DEF Continue

(* The allowlist is right except between a write to the rows and the        *)
(* command that follows it, and where a panel left open has written. *)
LEMMA AllowlistKept ==
  ASSUME Typed, NEW x \in Handlers, Course(job[x]), Locals(job[x]), AllowlistDue(job[x]),
         Continue(x) \/ Requests(x) \/ Webhook(x) \/ Nightly(x)
  PROVE  AllowlistDue(job[x])'
<1>1. /\ JobsOK /\ NoJob.at = "idle" /\ job[x].next \in {"idle", "mark", "filtered", "excess"}
      /\ job[x].on \subseteq Channels
  BY Fields DEF Typed, NoJob, Job
<1>2. rows \in [DOMAIN rows -> Row] /\ DOMAIN rows \subseteq Channels
  BY FromPartial DEF Typed, DataOK
<1>3. /\ job[x].at \notin {"put", "del"} => Agree(cache, rows, strayed)
      /\ job[x].at # "del" => strayed \subseteq DOMAIN rows
  BY DEF AllowlistDue
<1>4. ASSUME rows' = rows, cache' = cache, strayed' = strayed, job[x].at \notin {"put", "del"},
             job'[x].at \notin {"put", "del"}
      PROVE  AllowlistDue(job[x])'
  <2>1. Agree(cache', rows', strayed') /\ strayed' \subseteq DOMAIN rows'
    BY <1>3, <1>4
  <2>2. QED
    BY <1>4, <2>1 DEF AllowlistDue
<1>p. ASSUME job'[x].at = "put", Agree(Put(cache', job'[x].rules), rows', strayed'),
             strayed' \subseteq DOMAIN rows'
      PROVE  AllowlistDue(job[x])'
  BY <1>p DEF AllowlistDue
<1>5. CASE AddSteps(x) \/ GetFind(x)
  <2>1. CASE AddCount(x)
    <3>1. rows' = rows /\ cache' = cache /\ strayed' = strayed
      BY <2>1 DEF AddCount, Reads, dbVars, cacheVars
    <3>2. QED
      BY <1>1, <1>4, <2>1, <3>1, AddMoves DEF CountMove, Course, Keeps
  <2>2. CASE AddFind(x)
    <3>1. rows' = rows /\ cache' = cache /\ strayed' = strayed
      BY <2>2 DEF AddFind, Reads, dbVars, cacheVars
    <3>2. QED
      BY <1>1, <1>4, <2>2, <3>1, AddMoves DEF FindMove, Course, Keeps
  <2>3. CASE AddPlan(x)
    <3>1. rows' = rows /\ cache' = cache /\ strayed' = strayed
      BY <2>3 DEF AddPlan, Reads, dbVars, cacheVars
    <3>2. QED
      BY <1>1, <1>4, <2>3, <3>1, AddMoves DEF PlanMove, Course, Keeps
  <2>4. CASE Unpause(x)
    <3>1. /\ Hop(job[x], job'[x], "unpause", "put") /\ job[x].op = "unpause"
          /\ cache' = cache /\ Agree(cache, rows, strayed) /\ strayed \subseteq DOMAIN rows
          /\ strayed' = strayed \ job[x].on
      BY <1>1, <1>3, <2>4, AddMoves DEF Unpause, cacheVars, Course, Hop
    <3>2. PICK c \in DOMAIN rows :
            /\ job[x].on = {c}
            /\ job[x].rules = [d \in {c} |-> IF job[x].ok THEN rows[c].rule
                                            ELSE [rows[c].rule EXCEPT !.conds = 0]]
      BY <3>1 DEF Hop, Locals
    <3>3. /\ DOMAIN rows' = DOMAIN rows
          /\ ~rows'[c].paused
          /\ rows'[c].rule = IF job[x].ok THEN rows[c].rule ELSE [rows[c].rule EXCEPT !.conds = 0]
          /\ \A d \in DOMAIN rows \ {c} : rows'[d] = rows[d]
      BY <2>4, <3>2 DEF Unpause
    <3>4. job[x].rules = RulesOf(rows', {c})
      BY <3>2, <3>3 DEF RulesOf
    <3>5. Agree(Put(cache, RulesOf(rows', {c})), rows', strayed')
      <4>1. strayed \subseteq strayed' \cup {c} /\ DOMAIN rows' = DOMAIN rows \cup {c}
        BY <3>1, <3>2, <3>3
      <4>2. QED
        BY <3>1, <3>3, <4>1, PutAgrees
    <3>6. /\ job'[x].at = "put" /\ Agree(Put(cache', job'[x].rules), rows', strayed')
          /\ strayed' \subseteq DOMAIN rows'
      BY <3>1, <3>3, <3>4, <3>5 DEF Hop, Keeps
    <3>7. QED
      BY <1>p, <3>6
  <2>5. CASE Insert(x)
    <3>1. /\ InsertMove(job[x], job'[x]) /\ cache' = cache /\ strayed' = strayed
          /\ Agree(cache, rows, strayed) /\ strayed \subseteq DOMAIN rows
          /\ job[x].at = "insert"
      BY <1>1, <1>3, <2>5, AddMoves DEF Insert, InsertMove, cacheVars
    <3>2. CASE job'[x] = NoJob /\ rows' = rows
      BY <1>1, <1>4, <3>1, <3>2
    <3>3. CASE ~(job'[x] = NoJob /\ rows' = rows)
      <4>1. PICK c \in job[x].on \ DOMAIN rows :
              rows' = Put(rows, [d \in {c} |-> [paused |-> FALSE, rule |-> NewRule]])
        BY <3>1, <3>3 DEF InsertMove
      <4>2. job[x].rules = [d \in {c} |-> NewRule]
        BY <3>1, <4>1 DEF Locals
      <4>3. /\ DOMAIN rows' = DOMAIN rows \cup {c}
            /\ ~rows'[c].paused /\ rows'[c].rule = NewRule
            /\ \A d \in DOMAIN rows \ {c} : rows'[d] = rows[d]
        BY <4>1 DEF Put
      <4>4. job[x].rules = RulesOf(rows', {c})
        BY <4>2, <4>3 DEF RulesOf
      <4>5. Agree(Put(cache, RulesOf(rows', {c})), rows', strayed')
        <5>1. \A d \in DOMAIN rows \ {c} :
                rows'[d].paused = rows[d].paused /\ rows'[d].rule = rows[d].rule
          BY <4>3
        <5>2. strayed \subseteq strayed' \cup {c}
          BY <3>1
        <5>3. QED
          BY <3>1, <4>3, <5>1, <5>2, PutAgrees
      <4>6. /\ job'[x].at = "put" /\ Agree(Put(cache', job'[x].rules), rows', strayed')
            /\ strayed' \subseteq DOMAIN rows'
        BY <3>1, <3>3, <4>3, <4>4, <4>5 DEF InsertMove
      <4>7. QED
        BY <1>p, <4>6
    <3>4. QED
      BY <3>2, <3>3
  <2>6. CASE Mark(x)
    <3>1. rows' = rows /\ cache' = cache /\ strayed' = strayed
      BY <2>6 DEF Mark, Reads, dbVars, cacheVars
    <3>2. QED
      BY <1>1, <1>4, <2>6, <3>1, AddMoves DEF End, Course, Keeps
  <2>7. CASE InsertUndo(x)
    BY <1>1, <2>7, AddMoves DEF End, Course
  <2>8. CASE GetFind(x)
    <3>1. /\ GetMove(job[x], job'[x]) /\ rows' = rows /\ cache' = cache /\ strayed' = strayed
          /\ job[x].at = "find" /\ Agree(cache, rows, strayed) /\ strayed \subseteq DOMAIN rows
      BY <1>1, <1>3, <2>8, AddMoves DEF GetFind, GetMove, Reads, dbVars, cacheVars
    <3>2. CASE job'[x] = NoJob
      BY <1>1, <1>4, <3>1, <3>2
    <3>3. CASE job'[x] # NoJob
      <4>1. /\ job'[x].at = "put" /\ job'[x].rules = RulesOf(rows, job[x].on)
            /\ job[x].on \subseteq Serving(rows)
        BY <3>1, <3>3 DEF GetMove
      <4>2. Agree(Put(cache, RulesOf(rows, job[x].on)), rows, strayed)
        <5>1. /\ DOMAIN rows = DOMAIN rows \cup job[x].on
              /\ \A c \in job[x].on \ strayed : ~rows[c].paused
          BY <4>1 DEF Serving
        <5>2. QED
          BY <3>1, <5>1, PutAgrees
      <4>3. Agree(Put(cache', job'[x].rules), rows', strayed')
        BY <3>1, <4>1, <4>2
      <4>4. QED
        BY <1>p, <3>1, <4>1, <4>3
    <3>4. QED
      BY <3>2, <3>3
  <2>9. QED
    BY <1>5, <2>1, <2>2, <2>3, <2>4, <2>5, <2>6, <2>7, <2>8 DEF AddSteps
<1>6. CASE EditSteps(x)
  <2>1. CASE EditServing(x) \/ EditCheck(x)
    <3>1. rows' = rows /\ cache' = cache /\ strayed' = strayed
      BY <2>1 DEF EditServing, EditCheck, Reads, dbVars, cacheVars
    <3>2. QED
      BY <1>1, <1>4, <2>1, <3>1, EditMoves DEF ServingMove, CheckMove, Course, Keeps
  <2>2. CASE EditSnapshot(x)
    <3>1. rows' = rows /\ cache' = cache /\ strayed' = strayed
      BY <2>2 DEF EditSnapshot, Reads, dbVars, cacheVars
    <3>2. QED
      BY <1>1, <1>4, <2>2, <3>1, EditMoves DEF SnapshotMove, Course, Keeps
  <2>3. CASE EditWrite(x)
    <3>1. /\ Hop(job[x], job'[x], "write", "put") /\ job[x].op \in EditOps /\ cache' = cache
          /\ Agree(cache, rows, strayed) /\ strayed \subseteq DOMAIN rows
          /\ strayed' = strayed \cup {d \in job[x].on : d \notin Serving(rows) \/ ~entitled}
      BY <1>1, <1>3, <2>3, EditMoves DEF EditWrite, cacheVars, Hop
    <3>2. PICK c \in DOMAIN rows, n \in Rule :
            /\ job[x].on = {c} /\ job[x].rules = [d \in {c} |-> n]
            /\ Columns(job[x].op, rows[c].rule, n) = n
      BY <3>1 DEF Hop, Locals
    <3>3. WriteRule(job[x].op, job[x].rules)
      BY <2>3 DEF EditWrite
    <3>4. /\ DOMAIN rows' = DOMAIN rows
          /\ rows'[c] = [rows[c] EXCEPT !.rule = n]
          /\ \A d \in DOMAIN rows \ {c} : rows'[d] = rows[d]
      BY <3>2, <3>3 DEF WriteRule
    <3>5. rows'[c].paused = rows[c].paused /\ rows'[c].rule = n
      <4>1. rows[c] \in [paused : BOOLEAN, rule : Rule]
        BY <1>2 DEF Row
      <4>2. QED
        BY <3>4, <4>1
    <3>6. job[x].rules = RulesOf(rows', {c})
      BY <3>2, <3>5 DEF RulesOf
    <3>7. Agree(Put(cache, RulesOf(rows', {c})), rows', strayed')
      <4>1. DOMAIN rows' = DOMAIN rows \cup {c} /\ strayed \subseteq strayed' \cup {c}
        BY <3>1, <3>4
      <4>2. c \notin strayed' => c \in Serving(rows)
        BY <3>1, <3>2
      <4>3. \A d \in {c} \ strayed' : ~rows'[d].paused
        BY <3>5, <4>2 DEF Serving
      <4>4. \A d \in DOMAIN rows \ {c} :
              rows'[d].paused = rows[d].paused /\ rows'[d].rule = rows[d].rule
        BY <3>4
      <4>5. QED
        BY <3>1, <4>1, <4>3, <4>4, PutAgrees
    <3>8. job'[x].at = "put" /\ Agree(Put(cache', job'[x].rules), rows', strayed')
      BY <3>1, <3>6, <3>7 DEF Hop, Keeps
    <3>9. strayed' \subseteq DOMAIN rows'
      BY <3>1, <3>2, <3>4
    <3>10. QED
      BY <1>p, <3>8, <3>9
  <2>4. CASE EditUndo(x)
    BY <1>1, <2>4, EditMoves DEF End, Course
  <2>5. QED
    BY <1>6, <2>1, <2>2, <2>3, <2>4 DEF EditSteps
<1>7. CASE PlanSteps(x)
  <2>1. CASE ReadPlan(x)
    <3>1. rows' = rows /\ cache' = cache /\ strayed' = strayed
      BY <2>1 DEF ReadPlan, Reads, dbVars, cacheVars
    <3>2. QED
      BY <1>1, <1>4, <2>1, <3>1, PlanMoves DEF ReadPlanMove, Course, Keeps
  <2>2. CASE SetFlag(x)
    <3>1. rows' = rows /\ cache' = cache /\ strayed' = strayed
      BY <2>2 DEF SetFlag, Reads, dbVars, cacheVars
    <3>2. QED
      BY <1>1, <1>4, <2>2, <3>1, PlanMoves DEF FlagMove, Course, Keeps
  <2>3. CASE ListPaused(x)
    <3>1. rows' = rows /\ cache' = cache /\ strayed' = strayed
      BY <2>3 DEF ListPaused, Reads, dbVars, cacheVars
    <3>2. QED
      BY <1>1, <1>4, <2>3, <3>1, PlanMoves DEF PausedMove, Course, Keeps
  <2>4. CASE Reactivate(x)
    <3>1. /\ Hop(job[x], job'[x], "reactivate", "put") /\ cache' = cache
          /\ Agree(cache, rows, strayed) /\ strayed \subseteq DOMAIN rows
          /\ strayed' = strayed \ DOMAIN job[x].rules
      BY <1>1, <1>3, <2>4, PlanMoves DEF Reactivate, cacheVars, Hop
    <3> DEFINE D == DOMAIN rows \ Serving(rows)
    <3>2. job[x].rules = RulesOf(rows, D)
      BY <3>1 DEF Hop, Locals
    <3>3. \A c \in DOMAIN rows : [rows[c] EXCEPT !.paused = FALSE].rule = rows[c].rule
                             /\ [rows[c] EXCEPT !.paused = FALSE].paused = FALSE
      BY <1>2 DEF Row
    <3>4. rows' = [c \in DOMAIN rows |-> [rows[c] EXCEPT !.paused = FALSE]]
      BY <2>4 DEF Reactivate, SetPaused
    <3>5. /\ DOMAIN rows' = DOMAIN rows \cup D
          /\ \A c \in DOMAIN rows : ~rows'[c].paused /\ rows'[c].rule = rows[c].rule
      BY <3>3, <3>4
    <3>6. \A c \in DOMAIN rows \ D : rows'[c].paused = rows[c].paused
      <4>1. ASSUME NEW c \in DOMAIN rows \ D PROVE rows'[c].paused = rows[c].paused
        <5>1. ~rows[c].paused /\ rows[c].paused \in BOOLEAN
          BY <1>2 DEF Serving, Row
        <5>2. rows'[c].paused = FALSE
          BY <3>3, <3>4
        <5>3. QED
          BY <5>1, <5>2
      <4>2. QED
        BY <4>1
    <3>7. job[x].rules = RulesOf(rows', D) /\ DOMAIN job[x].rules = D
      BY <3>2, <3>5 DEF RulesOf
    <3> HIDE DEF D
    <3>8. Agree(Put(cache, RulesOf(rows', D)), rows', strayed')
      <4>1. D \subseteq DOMAIN rows
        BY DEF D
      <4>2. strayed \subseteq strayed' \cup D
        BY <3>1, <3>7
      <4>3. \A c \in D \ strayed' : ~rows'[c].paused
        BY <3>5, <4>1
      <4>4. QED
        BY <3>1, <3>5, <3>6, <4>2, <4>3, PutAgrees
    <3>9. /\ job'[x].at = "put" /\ Agree(Put(cache', job'[x].rules), rows', strayed')
          /\ strayed' \subseteq DOMAIN rows'
      BY <3>1, <3>5, <3>7, <3>8 DEF Hop, Keeps
    <3>10. QED
      BY <1>p, <3>9
  <2>5. CASE ListAll(x)
    <3>1. rows' = rows /\ cache' = cache /\ strayed' = strayed
      BY <2>5 DEF ListAll, Reads, dbVars, cacheVars
    <3>2. QED
      BY <1>1, <1>4, <2>5, <3>1, PlanMoves DEF AllMove, Course, Keeps
  <2>6. CASE DropHeld(x)
    <3>1. rows' = rows /\ cache' = cache /\ strayed' = strayed
      BY <2>6 DEF DropHeld, Reads, dbVars, cacheVars
    <3>2. QED
      BY <1>1, <1>4, <2>6, <3>1, PlanMoves DEF Onward, Course, Keeps
  <2>7. CASE ListFiltered(x)
    <3>1. rows' = rows /\ cache' = cache /\ strayed' = strayed
      BY <2>7 DEF ListFiltered, Reads, dbVars, cacheVars
    <3>2. QED
      BY <1>1, <1>4, <2>7, <3>1, PlanMoves DEF FilteredMove, Course, Keeps
  <2>8. CASE ListExcess(x)
    <3>1. rows' = rows /\ cache' = cache /\ strayed' = strayed
      BY <2>8 DEF ListExcess, Reads, dbVars, cacheVars
    <3>2. QED
      BY <1>1, <1>4, <2>8, <3>1, PlanMoves DEF ExcessMove, Course, Keeps
  <2>9. CASE Pause(x)
    <3>1. /\ Hop(job[x], job'[x], "pause", "del")
          /\ cache' = cache /\ strayed' = strayed
          /\ Agree(cache, rows, strayed) /\ strayed \subseteq DOMAIN rows
      BY <1>1, <1>3, <2>9, PlanMoves DEF Pause, cacheVars, Hop
    <3>2. \A c \in DOMAIN rows : [rows[c] EXCEPT !.paused = TRUE].paused = TRUE
      BY <1>2 DEF Row
    <3>3. /\ DOMAIN rows' = DOMAIN rows
          /\ \A c \in DOMAIN rows \cap job[x].on : rows'[c].paused
          /\ \A c \in DOMAIN rows \ job[x].on : rows'[c] = rows[c]
      BY <2>9, <3>2 DEF Pause, SetPaused
    <3>4. Agree(Without(cache, job[x].on), rows', strayed \ job[x].on)
      BY <3>1, <3>3, DeleteAgrees
    <3>5. /\ job'[x].at = "del" /\ Agree(Without(cache', job'[x].on), rows', strayed' \ job'[x].on)
          /\ strayed' \ job'[x].on \subseteq DOMAIN rows'
      BY <3>1, <3>3, <3>4 DEF Hop, Keeps
    <3>6. QED
      BY <3>5 DEF AllowlistDue
  <2>10. CASE WriteSetting(x)
    <3>1. rows' = rows /\ cache' = cache /\ strayed' = strayed
      BY <2>10 DEF WriteSetting, Reads, dbVars, cacheVars
    <3>2. QED
      BY <1>1, <1>4, <2>10, <3>1, PlanMoves DEF Hop, Course, Keeps
  <2>11. QED
    BY <1>7, <2>1, <2>2, <2>3, <2>4, <2>5, <2>6, <2>7, <2>8, <2>9, <2>10 DEF PlanSteps
<1>8. CASE CacheSteps(x)
  <2>1. CASE CachePut(x)
    <3>1. /\ rows' = rows /\ strayed' = strayed /\ cache' = Put(cache, job[x].rules)
          /\ Onward(job[x], job'[x], "put")
      BY <1>1, <2>1, PlanMoves DEF CachePut, dbVars
    <3>2. Agree(cache', rows', strayed') /\ strayed' \subseteq DOMAIN rows'
      BY <3>1 DEF AllowlistDue, Onward
    <3>3. job'[x].at \notin {"put", "del"}
      BY <1>1, <3>1 DEF Onward
    <3>4. QED
      BY <3>2, <3>3 DEF AllowlistDue
  <2>2. CASE DelEnabled(x)
    <3>1. /\ rows' = rows /\ cache' = Without(cache, job[x].on) /\ strayed' = strayed \ job[x].on
          /\ Hop(job[x], job'[x], "del", "clear")
      BY <1>1, <2>2, PlanMoves DEF DelEnabled, dbVars
    <3>2. Agree(cache', rows', strayed') /\ strayed' \subseteq DOMAIN rows'
      BY <3>1 DEF AllowlistDue, Hop
    <3>3. QED
      BY <3>1, <3>2 DEF AllowlistDue, Hop
  <2>3. CASE ClearHeld(x)
    <3>1. rows' = rows /\ cache' = cache /\ strayed' = strayed
      BY <2>3 DEF ClearHeld, Reads, dbVars, cacheVars
    <3>2. QED
      BY <1>1, <1>4, <2>3, <3>1, PlanMoves DEF Onward, Course, Keeps
  <2>4. QED
    BY <1>8, <2>1, <2>2, <2>3 DEF CacheSteps
<1>9. CASE Requests(x) \/ Webhook(x) \/ Nightly(x)
  <2>1. cache' = cache /\ strayed' = strayed /\ job[x].at = "idle"
    BY <1>1, <1>9, RequestMoves DEF cacheVars
  <2>2. CASE job'[x].op = "remove"
    <3>1. job'[x].at = "del" /\ rows' = Without(rows, job'[x].on)
      BY <1>1, <1>9, <2>2, RequestMoves DEF EditOps
    <3>2. DOMAIN rows' = DOMAIN rows \ job'[x].on /\ \A c \in DOMAIN rows' : rows'[c] = rows[c]
      BY <3>1 DEF Without
    <3>3. Agree(cache, rows, strayed) /\ strayed \subseteq DOMAIN rows
      BY <1>3, <2>1
    <3>4. Agree(Without(cache, job'[x].on), rows', strayed \ job'[x].on)
      BY <3>2, <3>3, DeleteAgrees
    <3>5. QED
      BY <2>1, <3>1, <3>2, <3>3, <3>4 DEF AllowlistDue
  <2>3. CASE job'[x].op # "remove"
    <3>1. rows' = rows /\ job'[x].at \notin {"put", "del"}
      BY <1>1, <1>9, <2>3, RequestMoves DEF dbVars
    <3>2. QED
      BY <1>4, <2>1, <3>1
  <2>4. QED
    BY <2>2, <2>3
<1>10. QED
  BY <1>5, <1>6, <1>7, <1>8, <1>9 DEF Continue

(* The steps of a handler leave the guild's plan alone. *)
LEMMA PlanUntouched ==
  ASSUME NEW x, Continue(x)
  PROVE  entitled' = entitled /\ up /\ up' = up /\ spent' = spent
<1>1. CASE AddSteps(x) \/ GetFind(x)
  BY <1>1 DEF AddSteps, AddCount, AddFind, AddPlan, Unpause, Insert, Mark, InsertUndo, GetFind,
    Reads, dbVars, At
<1>2. CASE EditSteps(x)
  BY <1>2 DEF EditSteps, EditServing, EditCheck, EditSnapshot, EditWrite, EditUndo, Reads, dbVars, At
<1>3. CASE PlanSteps(x)
  BY <1>3 DEF PlanSteps, ReadPlan, SetFlag, ListPaused, Reactivate, ListAll, DropHeld,
    ListFiltered, ListExcess, Pause, WriteSetting, Reads, dbVars, At
<1>4. CASE CacheSteps(x)
  BY <1>4 DEF CacheSteps, CachePut, DelEnabled, ClearHeld, dbVars, At
<1>5. QED
  BY <1>1, <1>2, <1>3, <1>4 DEF Continue

(* An allowlist taken from the rows is right. *)
LEMMA AllowlistAgrees ==
  ASSUME NEW r
  PROVE  Agree(Allowlist(r), r, {})
BY DEF Agree, Allowlist, RulesOf

(* An idle handler on a right allowlist. *)
LEMMA IdleInv ==
  ASSUME NEW x, job[x] = NoJob
  PROVE  /\ Course(job[x]) /\ Locals(job[x]) /\ PlanKnown(job[x])
         /\ Agree(cache, rows, {}) /\ strayed = {} => AllowlistDue(job[x])
<1>1. NoJob.at = "idle" /\ NoJob.op = "none" /\ NoJob.next = "idle"
  BY DEF NoJob
<1>2. Course(NoJob)
  BY <1>1 DEF Course
<1>3. Locals(NoJob)
  BY <1>1 DEF Locals
<1>4. PlanKnown(NoJob)
  BY <1>1 DEF PlanKnown, Trimming, EditOps
<1>5. Agree(cache, rows, {}) /\ strayed = {} => AllowlistDue(NoJob)
  BY <1>1 DEF AllowlistDue
<1>6. QED
  BY <1>2, <1>3, <1>4, <1>5

(* The same a step later. *)
LEMMA IdleNext ==
  ASSUME NEW x, job'[x] = NoJob
  PROVE  /\ Course(job[x])' /\ Locals(job[x])' /\ PlanKnown(job[x])'
         /\ Agree(cache', rows', {}) /\ strayed' = {} => AllowlistDue(job[x])'
<1>1. NoJob.at = "idle" /\ NoJob.op = "none" /\ NoJob.next = "idle"
  BY DEF NoJob
<1>2. Course(job[x])'
  BY <1>1 DEF Course
<1>3. Locals(job[x])'
  BY <1>1 DEF Locals
<1>4. PlanKnown(job[x])'
  BY <1>1 DEF PlanKnown, Trimming, EditOps
<1>5. Agree(cache', rows', {}) /\ strayed' = {} => AllowlistDue(job[x])'
  BY <1>1 DEF AllowlistDue
<1>6. QED
  BY <1>2, <1>3, <1>4, <1>5

(* And when neither the handler nor what it reads changes. *)
LEMMA Rests ==
  ASSUME NEW x, UNCHANGED <<entitled, rolloverOn, rows, cache, strayed, job>>
  PROVE  /\ Course(job[x])' = Course(job[x])
         /\ Locals(job[x])' = Locals(job[x])
         /\ PlanKnown(job[x])' = PlanKnown(job[x])
         /\ AllowlistDue(job[x])' = AllowlistDue(job[x])
<1>1. Course(job[x])' = Course(job[x])
  OBVIOUS
<1>2. Locals(job[x])' = Locals(job[x])
  BY DEF Locals, Serving, RulesOf, Columns
<1>3. PlanKnown(job[x])' = PlanKnown(job[x])
  BY DEF PlanKnown, RolloverInEffect
<1>4. AllowlistDue(job[x])' = AllowlistDue(job[x])
  BY DEF AllowlistDue
<1>5. QED
  BY <1>1, <1>2, <1>3, <1>4

(* The invariant of a handler that runs alone. *)
LEMMA AloneKept ==
  ASSUME NEW h, Handlers = {h}, TypeOK, AloneInv(h), [Next]_vars
  PROVE  AloneInv(h)'
<1>1. /\ Typed /\ JobsOK /\ h \in Handlers
      /\ spent \in [ops : 0..MaxOps, faults : 0..MaxFaults, crashes : 0..MaxCrashes]
  BY DEF TypeOK, Typed, DataOK
<1>2. CASE Continue(h) \/ Requests(h) \/ Webhook(h) \/ Nightly(h)
  <2>1. /\ up /\ up' /\ spent'.faults = spent.faults
    <3>1. CASE Continue(h)
      BY <3>1, PlanUntouched
    <3>2. CASE ~Continue(h)
      <4>1. Request \/ spent' = spent
        BY <1>2, <3>2 DEF Requests, AskRollover, Add, Remove, Get, EditFromDashboard,
          EditFromPanel, Webhook, Nightly, Asks, Reads
      <4>2. spent'.faults = spent.faults
        BY <1>1, <4>1 DEF Request
      <4>3. QED
        BY <1>1, <1>2, <3>2, <4>2, RequestMoves
    <3>3. QED
      BY <3>1, <3>2
  <2> SUFFICES ASSUME NoFault'
               PROVE  /\ Course(job[h])' /\ Locals(job[h])' /\ PlanKnown(job[h])'
                      /\ AllowlistDue(job[h])'
    BY <2>1 DEF AloneInv
  <2>2. /\ Course(job[h]) /\ Locals(job[h]) /\ PlanKnown(job[h])
        /\ AllowlistDue(job[h])
    BY <2>1 DEF AloneInv, NoFault
  <2>3. Course(job[h])'
    BY <1>1, <1>2, <2>2, CourseKept
  <2>4. Locals(job[h])'
    BY <1>1, <1>2, <2>2, LocalsKept
  <2>5. PlanKnown(job[h])'
    BY <1>1, <1>2, <2>2, PlanKept
  <2>6. AllowlistDue(job[h])'
    BY <1>1, <1>2, <2>2, AllowlistKept
  <2>7. QED
    BY <2>3, <2>4, <2>5, <2>6
<1>3. CASE Fail(h)
  <2>1. spent'.faults = spent.faults + 1
    BY <1>1, <1>3 DEF Fail
  <2>2. spent'.faults # 0
    BY <1>1, <2>1, ServingConstants
  <2>3. QED
    BY <2>2 DEF AloneInv, NoFault
<1>4. CASE Crash
  <2>1. /\ up' = FALSE /\ job'[h] = NoJob
        /\ spent'.faults = spent.faults
    BY <1>1, <1>4 DEF Crash, dbVars
  <2>2. Course(job[h])' /\ Locals(job[h])' /\ PlanKnown(job[h])'
    BY <2>1, IdleNext
  <2>3. QED
    BY <2>1, <2>2 DEF AloneInv, NoFault
<1>5. CASE Restart
  <2>1. /\ ~up /\ up' = TRUE /\ UNCHANGED <<rows, job, spent>>
        /\ cache' = Allowlist(rows) /\ strayed' = {}
    BY <1>5 DEF Restart, dbVars
  <2> SUFFICES ASSUME NoFault PROVE AloneInv(h)'
    BY <2>1 DEF AloneInv, NoFault
  <2>2. job'[h] = NoJob
    BY <2>1 DEF AloneInv
  <2>3. Agree(cache', rows', {})
    BY <2>1, AllowlistAgrees
  <2>4. /\ Course(job[h])' /\ Locals(job[h])' /\ PlanKnown(job[h])' /\ AllowlistDue(job[h])'
    BY <2>1, <2>2, <2>3, IdleNext
  <2>5. QED
    BY <2>1, <2>2, <2>4 DEF AloneInv
<1>6. CASE \/ UNCHANGED vars
           \/ \E c \in Channels : OpenPanel(c) \/ ClosePanel(c) \/ GetFlags(c)
           \/ \E p \in posts : GetRule(p) \/ Hold(p) \/ GiveUp(p) \/ Drain(p)
  <2>1. UNCHANGED <<entitled, rolloverOn, rows, cache, strayed, job, up, spent>>
    BY <1>6 DEF vars, OpenPanel, ClosePanel, GetFlags, GetRule, Hold, GiveUp, Drain, World,
                dbVars, cacheVars
  <2> SUFFICES ASSUME NoFault PROVE AloneInv(h)'
    BY <2>1 DEF AloneInv, NoFault
  <2>2. /\ Course(job[h])' /\ Locals(job[h])' /\ PlanKnown(job[h])'
        /\ up => AllowlistDue(job[h])'
    BY <2>1, Rests DEF AloneInv
  <2>3. QED
    BY <2>1, <2>2 DEF AloneInv
<1>8. QED
  BY <1>1, <1>2, <1>3, <1>4, <1>5, <1>6 DEF Next

(* One operation alone never leaves the allowlist different from the rows:  *)
(* with a single handler and no fault, whenever it is idle the keys are     *)
(* exactly the serving rows' with the rules they have, across crashes and   *)
(* restarts too; but for the channels that a panel left open over a pause   *)
(* or a downgrade has written since. *)
THEOREM AllowlistOfOneHandler ==
  ASSUME NEW h, Handlers = {h}
  PROVE  Spec => []AllowlistMatches
<1>1. Init => AloneInv(h)
  <2> SUFFICES ASSUME Init PROVE AloneInv(h)
    OBVIOUS
  <2>1. job[h] = NoJob /\ cache = Allowlist(rows) /\ up /\ strayed = {}
    BY DEF Init
  <2>2. Agree(cache, rows, {})
    BY <2>1, AllowlistAgrees
  <2>3. QED
    BY <2>1, <2>2, IdleInv DEF AloneInv
<1>2. TypeOK /\ AloneInv(h) /\ [Next]_vars => AloneInv(h)'
  BY AloneKept
<1>3. AloneInv(h) => AllowlistMatches
  BY DEF AloneInv, AllowlistMatches, AllIdle, AllowlistDue, Agree, Agrees
<1>4. QED
  BY <1>1, <1>2, <1>3, ServingTypeCorrect, PTL DEF Spec

----------------------------------------------------------------------------
(* The flag, the backlog and the conditions of one handler's guild.         *)

(* The messages that are held, or may still be, and are not late.           *)
Fresh == {p \in posts : ~p.late /\ (p.held \/ p.at # "done")}

(* The flag says what is in effect, except where a handler is about to set  *)
(* it; such messages need the flag, except where one is about to drop them. *)
FlagDue(j) ==
  /\ ~Rereading(j) => flag = RolloverInEffect
  /\ Rereading(j) /\ j.op = "reconcile" /\ entitled => Fresh = {} /\ ~flag
  /\ j.at = "all" => ~flag /\ \A p \in Fresh : p.at = "done" /\ p.of \in DOMAIN rows
  /\ j.at = "drop" => ~flag /\ \A p \in Fresh : p.at = "done" /\ p.of \in j.on
  /\ ~Rereading(j) /\ j.at \notin {"all", "drop"} /\ Fresh # {} => RolloverInEffect

(* Only Premium has conditions, but for what panels left open have written  *)
(* and where a downgrade is on its way to the channels that have them.      *)
FilterDue(j) ==
  \/ entitled
  \/ Filtered(rows) \subseteq strayed
  \/ j.op = "reconcile" /\ j.at \in {"plan", "flag", "all", "drop", "filtered"}
  \/ j.op = "reconcile" /\ j.at = "pause" /\ j.next = "excess" /\ j.on = Filtered(rows)

DueInv(x) == Undisturbed => FlagDue(job[x]) /\ FilterDue(job[x])

(* The steps of a handler keep the flag and the backlog due. *)
LEMMA FlagKept ==
  ASSUME Typed, NEW x \in Handlers, Course(job[x]), PlanKnown(job[x]), FlagDue(job[x]),
         (\A p \in Fresh : p.at = "done" => p.of \in DOMAIN rows) \/ job[x].at # "flag",
         Continue(x) \/ Requests(x) \/ Webhook(x) \/ Nightly(x)
  PROVE  FlagDue(job[x])'
<1>1. /\ JobsOK /\ NoJob.at = "idle" /\ NoJob.op = "none"
      /\ job[x].next \in {"idle", "mark", "filtered", "excess"}
      /\ entitled \in BOOLEAN /\ rolloverOn \in BOOLEAN /\ flag \in BOOLEAN
      /\ posts \subseteq Post
  BY Fields DEF Typed, NoJob, Job, DataOK
<1>2. Continue(x) => entitled' = entitled
  BY PlanUntouched
<1>3. ASSUME RolloverInEffect' = RolloverInEffect, flag' = flag, Fresh' \subseteq Fresh,
             ~Rereading(job[x]), job[x].at \notin {"all", "drop"},
             ~Rereading(job'[x]), job'[x].at \notin {"all", "drop"}
      PROVE  FlagDue(job[x])'
  <2>1. flag' = RolloverInEffect' /\ (Fresh' # {} => RolloverInEffect')
    BY <1>3 DEF FlagDue
  <2>2. QED
    BY <1>3, <2>1 DEF FlagDue, Rereading
<1>4. CASE AddSteps(x) \/ GetFind(x)
  <2>1. entitled' = entitled
    BY <1>4, <1>2 DEF Continue
  <2>2. CASE AddCount(x)
    <3>1. entitled' = entitled /\ rolloverOn' = rolloverOn /\ flag' = flag /\ Fresh' \subseteq Fresh
      BY <2>1, <2>2 DEF AddCount, Reads, dbVars, cacheVars, Fresh
    <3>2. /\ ~Rereading(job[x]) /\ job[x].at \notin {"all", "drop"}
          /\ ~Rereading(job'[x]) /\ job'[x].at \notin {"all", "drop"}
      BY <1>1, <2>2, AddMoves DEF CountMove, Course, Rereading, Keeps
    <3>3. QED
      BY <1>3, <3>1, <3>2 DEF RolloverInEffect
  <2>3. CASE AddFind(x)
    <3>1. entitled' = entitled /\ rolloverOn' = rolloverOn /\ flag' = flag /\ Fresh' \subseteq Fresh
      BY <2>1, <2>3 DEF AddFind, Reads, dbVars, cacheVars, Fresh
    <3>2. /\ ~Rereading(job[x]) /\ job[x].at \notin {"all", "drop"}
          /\ ~Rereading(job'[x]) /\ job'[x].at \notin {"all", "drop"}
      BY <1>1, <2>3, AddMoves DEF FindMove, Course, Rereading, Keeps
    <3>3. QED
      BY <1>3, <3>1, <3>2 DEF RolloverInEffect
  <2>4. CASE AddPlan(x)
    <3>1. entitled' = entitled /\ rolloverOn' = rolloverOn /\ flag' = flag /\ Fresh' \subseteq Fresh
      BY <2>1, <2>4 DEF AddPlan, Reads, dbVars, cacheVars, Fresh
    <3>2. /\ ~Rereading(job[x]) /\ job[x].at \notin {"all", "drop"}
          /\ ~Rereading(job'[x]) /\ job'[x].at \notin {"all", "drop"}
      BY <1>1, <2>4, AddMoves DEF PlanMove, Course, Rereading, Keeps
    <3>3. QED
      BY <1>3, <3>1, <3>2 DEF RolloverInEffect
  <2>5. CASE Unpause(x)
    <3>1. entitled' = entitled /\ rolloverOn' = rolloverOn /\ flag' = flag /\ Fresh' \subseteq Fresh
      BY <2>1, <2>5 DEF Unpause, Reads, dbVars, cacheVars, Fresh
    <3>2. /\ ~Rereading(job[x]) /\ job[x].at \notin {"all", "drop"}
          /\ ~Rereading(job'[x]) /\ job'[x].at \notin {"all", "drop"}
      BY <1>1, <2>5, AddMoves DEF Hop, Course, Rereading, Keeps
    <3>3. QED
      BY <1>3, <3>1, <3>2 DEF RolloverInEffect
  <2>6. CASE Insert(x)
    <3>1. entitled' = entitled /\ rolloverOn' = rolloverOn /\ flag' = flag /\ Fresh' \subseteq Fresh
      BY <2>1, <2>6 DEF Insert, Reads, dbVars, cacheVars, Fresh
    <3>2. /\ ~Rereading(job[x]) /\ job[x].at \notin {"all", "drop"}
          /\ ~Rereading(job'[x]) /\ job'[x].at \notin {"all", "drop"}
      BY <1>1, <2>6, AddMoves DEF InsertMove, Course, Rereading, Keeps
    <3>3. QED
      BY <1>3, <3>1, <3>2 DEF RolloverInEffect
  <2>7. CASE Mark(x)
    <3>1. entitled' = entitled /\ rolloverOn' = rolloverOn /\ flag' = flag /\ Fresh' \subseteq Fresh
      BY <2>1, <2>7 DEF Mark, Reads, dbVars, cacheVars, Fresh
    <3>2. /\ ~Rereading(job[x]) /\ job[x].at \notin {"all", "drop"}
          /\ ~Rereading(job'[x]) /\ job'[x].at \notin {"all", "drop"}
      BY <1>1, <2>7, AddMoves DEF End, Course, Rereading, Keeps
    <3>3. QED
      BY <1>3, <3>1, <3>2 DEF RolloverInEffect
  <2>8. CASE InsertUndo(x)
    BY <1>1, <2>8, AddMoves DEF End, Course
  <2>9. CASE GetFind(x)
    <3>1. entitled' = entitled /\ rolloverOn' = rolloverOn /\ flag' = flag /\ Fresh' \subseteq Fresh
      BY <2>1, <2>9 DEF GetFind, Reads, dbVars, cacheVars, Fresh
    <3>2. /\ ~Rereading(job[x]) /\ job[x].at \notin {"all", "drop"}
          /\ ~Rereading(job'[x]) /\ job'[x].at \notin {"all", "drop"}
      BY <1>1, <2>9, AddMoves DEF GetMove, Course, Rereading, Keeps
    <3>3. QED
      BY <1>3, <3>1, <3>2 DEF RolloverInEffect
  <2>10. QED
    BY <1>4, <2>2, <2>3, <2>4, <2>5, <2>6, <2>7, <2>8, <2>9 DEF AddSteps
<1>5. CASE EditSteps(x)
  <2>1. entitled' = entitled
    BY <1>5, <1>2 DEF Continue
  <2>2. CASE EditServing(x) \/ EditCheck(x)
    <3>1. entitled' = entitled /\ rolloverOn' = rolloverOn /\ flag' = flag /\ Fresh' \subseteq Fresh
      BY <2>1, <2>2 DEF EditServing, EditCheck, Reads, dbVars, cacheVars, Fresh
    <3>2. /\ ~Rereading(job[x]) /\ job[x].at \notin {"all", "drop"}
          /\ ~Rereading(job'[x]) /\ job'[x].at \notin {"all", "drop"}
      BY <1>1, <2>2, EditMoves DEF ServingMove, CheckMove, Course, Rereading, Keeps, EditOps
    <3>3. QED
      BY <1>3, <3>1, <3>2 DEF RolloverInEffect
  <2>3. CASE EditSnapshot(x)
    <3>1. entitled' = entitled /\ rolloverOn' = rolloverOn /\ flag' = flag /\ Fresh' \subseteq Fresh
      BY <2>1, <2>3 DEF EditSnapshot, Reads, dbVars, cacheVars, Fresh
    <3>2. /\ ~Rereading(job[x]) /\ job[x].at \notin {"all", "drop"}
          /\ ~Rereading(job'[x]) /\ job'[x].at \notin {"all", "drop"}
      BY <1>1, <2>3, EditMoves DEF SnapshotMove, Course, Rereading, Keeps, EditOps
    <3>3. QED
      BY <1>3, <3>1, <3>2 DEF RolloverInEffect
  <2>4. CASE EditWrite(x)
    <3>1. entitled' = entitled /\ rolloverOn' = rolloverOn /\ flag' = flag /\ Fresh' \subseteq Fresh
      BY <2>1, <2>4 DEF EditWrite, Reads, dbVars, cacheVars, Fresh
    <3>2. /\ ~Rereading(job[x]) /\ job[x].at \notin {"all", "drop"}
          /\ ~Rereading(job'[x]) /\ job'[x].at \notin {"all", "drop"}
      BY <1>1, <2>4, EditMoves DEF Hop, Course, Rereading, Keeps, EditOps
    <3>3. QED
      BY <1>3, <3>1, <3>2 DEF RolloverInEffect
  <2>5. CASE EditUndo(x)
    BY <1>1, <2>5, EditMoves DEF End, Course
  <2>6. QED
    BY <1>5, <2>2, <2>3, <2>4, <2>5 DEF EditSteps
<1>6. CASE PlanSteps(x)
  <2>1. entitled' = entitled
    BY <1>6, <1>2 DEF Continue
  <2>2. CASE ReadPlan(x)
    <3>1. entitled' = entitled /\ flag' = flag /\ Fresh' = Fresh
      BY <2>1, <2>2 DEF ReadPlan, Reads, cacheVars, Fresh
    <3>2. /\ Rereading(job[x]) /\ job'[x].at = "flag" /\ job'[x].op = job[x].op
          /\ Rereading(job'[x])
      BY <1>1, <2>2, PlanMoves DEF ReadPlanMove, Rereading
    <3>3. QED
      BY <3>1, <3>2 DEF FlagDue, Rereading
  <2>3. CASE SetFlag(x)
    <3>1. /\ entitled' = entitled /\ rolloverOn' = rolloverOn /\ rows' = rows
          /\ flag' = job[x].arg /\ (IF job[x].arg THEN posts' = posts ELSE Overtaken)
      BY <2>1, <2>3 DEF SetFlag, dbVars
    <3>2. /\ FlagMove(job[x], job'[x]) /\ job[x].at = "flag"
          /\ job[x].op \in {"reconcile", "setting"}
      BY <1>1, <2>3, PlanMoves DEF FlagMove, Course
    <3>3. /\ job[x].ok = entitled /\ job[x].arg = RolloverInEffect
          /\ RolloverInEffect' = RolloverInEffect /\ flag' = RolloverInEffect'
      BY <3>1, <3>2 DEF PlanKnown, RolloverInEffect
    <3>4. /\ Fresh' \subseteq Fresh
          /\ ~job[x].arg => \A p \in Fresh' : p.at = "done" /\ p.of \in DOMAIN rows'
      <4>1. CASE job[x].arg
        BY <3>1, <4>1 DEF Fresh
      <4>2. CASE ~job[x].arg
        <5>1. \A q \in posts' : ~q.late => q \in posts /\ q.at = "done"
          BY <1>1, <3>1, <4>2, OvertakenPosts
        <5>2. \A q \in Fresh' : q \in Fresh /\ q.at = "done"
          BY <5>1 DEF Fresh
        <5>3. \A p \in Fresh : p.at = "done" => p.of \in DOMAIN rows
          BY <3>2
        <5>4. QED
          BY <3>1, <5>2, <5>3
      <4>3. QED
        BY <4>1, <4>2
    <3>5. CASE job[x].op = "setting" /\ job[x].arg /\ job'[x] = NoJob
      BY <1>1, <3>3, <3>5 DEF FlagDue, Rereading
    <3>6. CASE job[x].op = "setting" /\ ~job[x].arg /\ job'[x].at = "all"
      BY <3>1, <3>3, <3>4, <3>6 DEF FlagDue, Rereading
    <3>7. CASE job[x].op = "reconcile" /\ job[x].ok /\ job'[x].at = "paused"
      <4>1. Fresh = {}
        BY <3>2, <3>3, <3>7 DEF FlagDue, Rereading
      <4>2. Fresh' = {}
        BY <3>4, <4>1
      <4>3. QED
        BY <3>1, <3>3, <3>7, <4>2 DEF FlagDue, Rereading
    <3>8. CASE job[x].op = "reconcile" /\ ~job[x].ok /\ job'[x].at = "all"
      <4>1. ~RolloverInEffect
        BY <3>3, <3>8 DEF RolloverInEffect
      <4>2. QED
        BY <3>1, <3>3, <3>4, <3>8, <4>1 DEF FlagDue, Rereading
    <3>9. QED
      BY <3>2, <3>5, <3>6, <3>7, <3>8 DEF FlagMove
  <2>4. CASE ListPaused(x)
    <3>1. entitled' = entitled /\ rolloverOn' = rolloverOn /\ flag' = flag /\ Fresh' \subseteq Fresh
      BY <2>1, <2>4 DEF ListPaused, Reads, dbVars, cacheVars, Fresh
    <3>2. /\ ~Rereading(job[x]) /\ job[x].at \notin {"all", "drop"}
          /\ ~Rereading(job'[x]) /\ job'[x].at \notin {"all", "drop"}
      BY <1>1, <2>4, PlanMoves DEF PausedMove, Course, Rereading, Keeps
    <3>3. QED
      BY <1>3, <3>1, <3>2 DEF RolloverInEffect
  <2>5. CASE Reactivate(x)
    <3>1. entitled' = entitled /\ rolloverOn' = rolloverOn /\ flag' = flag /\ Fresh' \subseteq Fresh
      BY <2>1, <2>5 DEF Reactivate, Reads, dbVars, cacheVars, Fresh
    <3>2. /\ ~Rereading(job[x]) /\ job[x].at \notin {"all", "drop"}
          /\ ~Rereading(job'[x]) /\ job'[x].at \notin {"all", "drop"}
      BY <1>1, <2>5, PlanMoves DEF Hop, Course, Rereading, Keeps
    <3>3. QED
      BY <1>3, <3>1, <3>2 DEF RolloverInEffect
  <2>6. CASE ListAll(x)
    <3>1. /\ entitled' = entitled /\ rolloverOn' = rolloverOn /\ rows' = rows
          /\ flag' = flag /\ Fresh' = Fresh
      BY <2>1, <2>6 DEF ListAll, Reads, dbVars, cacheVars, Fresh
    <3>2. job[x].at = "all" /\ job'[x].at = "drop" /\ job'[x].on = DOMAIN rows
      BY <1>1, <2>6, PlanMoves DEF AllMove
    <3>3. /\ ~flag /\ flag = RolloverInEffect
          /\ \A p \in Fresh : p.at = "done" /\ p.of \in DOMAIN rows
      BY <3>2 DEF FlagDue, Rereading
    <3>4. RolloverInEffect' = RolloverInEffect
      BY <3>1 DEF RolloverInEffect
    <3>5. QED
      BY <3>1, <3>2, <3>3, <3>4 DEF FlagDue, Rereading
  <2>7. CASE DropHeld(x)
    <3>1. /\ entitled' = entitled /\ rolloverOn' = rolloverOn
          /\ flag' = flag /\ Dropped(job[x].on)
      BY <2>1, <2>7 DEF DropHeld, dbVars
    <3>2. /\ job[x].at = "drop" /\ job'[x].at \notin {"plan", "flag", "all", "drop"}
      BY <1>1, <2>7, PlanMoves DEF Onward
    <3>3. Fresh' = {} /\ flag = RolloverInEffect
      <4>1. \A q \in posts' : ~q.late => q \in posts /\ q.of \notin job[x].on
        BY <1>1, <3>1, DroppedPosts
      <4>2. \A q \in Fresh' : q \in Fresh /\ q.of \notin job[x].on
        BY <4>1 DEF Fresh
      <4>3. QED
        BY <3>2, <4>2 DEF FlagDue, Rereading
    <3>4. RolloverInEffect' = RolloverInEffect
      BY <3>1 DEF RolloverInEffect
    <3>5. QED
      BY <3>1, <3>2, <3>3, <3>4 DEF FlagDue, Rereading
  <2>8. CASE ListFiltered(x)
    <3>1. entitled' = entitled /\ rolloverOn' = rolloverOn /\ flag' = flag /\ Fresh' \subseteq Fresh
      BY <2>1, <2>8 DEF ListFiltered, Reads, dbVars, cacheVars, Fresh
    <3>2. /\ ~Rereading(job[x]) /\ job[x].at \notin {"all", "drop"}
          /\ ~Rereading(job'[x]) /\ job'[x].at \notin {"all", "drop"}
      BY <1>1, <2>8, PlanMoves DEF FilteredMove, Course, Rereading, Keeps
    <3>3. QED
      BY <1>3, <3>1, <3>2 DEF RolloverInEffect
  <2>9. CASE ListExcess(x)
    <3>1. entitled' = entitled /\ rolloverOn' = rolloverOn /\ flag' = flag /\ Fresh' \subseteq Fresh
      BY <2>1, <2>9 DEF ListExcess, Reads, dbVars, cacheVars, Fresh
    <3>2. /\ ~Rereading(job[x]) /\ job[x].at \notin {"all", "drop"}
          /\ ~Rereading(job'[x]) /\ job'[x].at \notin {"all", "drop"}
      BY <1>1, <2>9, PlanMoves DEF ExcessMove, Course, Rereading, Keeps
    <3>3. QED
      BY <1>3, <3>1, <3>2 DEF RolloverInEffect
  <2>10. CASE Pause(x)
    <3>1. entitled' = entitled /\ rolloverOn' = rolloverOn /\ flag' = flag /\ Fresh' \subseteq Fresh
      BY <2>1, <2>10 DEF Pause, Reads, dbVars, cacheVars, Fresh
    <3>2. /\ ~Rereading(job[x]) /\ job[x].at \notin {"all", "drop"}
          /\ ~Rereading(job'[x]) /\ job'[x].at \notin {"all", "drop"}
      BY <1>1, <2>10, PlanMoves DEF Hop, Course, Rereading, Keeps
    <3>3. QED
      BY <1>3, <3>1, <3>2 DEF RolloverInEffect
  <2>11. CASE WriteSetting(x)
    <3>1. job'[x].at = "plan" /\ job'[x].op = "setting"
      BY <1>1, <2>11, PlanMoves DEF Hop, Keeps
    <3>2. QED
      BY <3>1 DEF FlagDue, Rereading
  <2>12. QED
    BY <1>6, <2>2, <2>3, <2>4, <2>5, <2>6, <2>7, <2>8, <2>9, <2>10, <2>11 DEF PlanSteps
<1>7. CASE CacheSteps(x)
  <2>1. entitled' = entitled
    BY <1>7, <1>2 DEF Continue
  <2>2. CASE CachePut(x)
    <3>1. entitled' = entitled /\ rolloverOn' = rolloverOn /\ flag' = flag /\ Fresh' \subseteq Fresh
      BY <2>1, <2>2 DEF CachePut, Reads, dbVars, cacheVars, Fresh
    <3>2. /\ ~Rereading(job[x]) /\ job[x].at \notin {"all", "drop"}
          /\ ~Rereading(job'[x]) /\ job'[x].at \notin {"all", "drop"}
      BY <1>1, <2>2, PlanMoves DEF Onward, Course, Rereading, Keeps
    <3>3. QED
      BY <1>3, <3>1, <3>2 DEF RolloverInEffect
  <2>3. CASE DelEnabled(x)
    <3>1. entitled' = entitled /\ rolloverOn' = rolloverOn /\ flag' = flag /\ Fresh' \subseteq Fresh
      BY <2>1, <2>3 DEF DelEnabled, Reads, dbVars, cacheVars, Fresh
    <3>2. /\ ~Rereading(job[x]) /\ job[x].at \notin {"all", "drop"}
          /\ ~Rereading(job'[x]) /\ job'[x].at \notin {"all", "drop"}
      BY <1>1, <2>3, PlanMoves DEF Hop, Course, Rereading, Keeps
    <3>3. QED
      BY <1>3, <3>1, <3>2 DEF RolloverInEffect
  <2>4. CASE ClearHeld(x)
    <3>1. entitled' = entitled /\ rolloverOn' = rolloverOn /\ flag' = flag /\ Fresh' \subseteq Fresh
      <4>1. \A q \in posts' : ~q.late => q \in posts
        BY <1>1, <2>4, DroppedPosts DEF ClearHeld
      <4>2. entitled' = entitled /\ rolloverOn' = rolloverOn /\ flag' = flag
        BY <2>4 DEF ClearHeld, dbVars
      <4>3. QED
        BY <4>1, <4>2 DEF Fresh
    <3>2. /\ ~Rereading(job[x]) /\ job[x].at \notin {"all", "drop"}
          /\ ~Rereading(job'[x]) /\ job'[x].at \notin {"all", "drop"}
      BY <1>1, <2>4, PlanMoves DEF Onward, Course, Rereading, Keeps
    <3>3. QED
      BY <1>3, <3>1, <3>2 DEF RolloverInEffect
  <2>5. QED
    BY <1>7, <2>2, <2>3, <2>4 DEF CacheSteps
<1>8. CASE Requests(x) \/ Webhook(x) \/ Nightly(x)
  <2>1. /\ flag' = flag /\ Fresh' = Fresh /\ job[x].at = "idle" /\ rolloverOn' = rolloverOn
        /\ job'[x].at \notin {"flag", "all", "drop"}
    <3>1. UNCHANGED <<flag, posts>> /\ job[x].at = "idle"
      BY <1>1, <1>8, RequestMoves DEF cacheVars
    <3>2. rolloverOn' = rolloverOn /\ job'[x].at \notin {"flag", "all", "drop"}
      BY <1>1, <1>8, RequestMoves DEF dbVars
    <3>3. QED
      BY <3>1, <3>2 DEF Fresh
  <2>2. CASE job'[x].at # "plan"
    <3>1. entitled' = entitled
      BY <1>1, <1>8, <2>2, RequestMoves DEF dbVars
    <3>2. RolloverInEffect' = RolloverInEffect
      BY <2>1, <3>1 DEF RolloverInEffect
    <3>3. QED
      BY <1>3, <2>1, <2>2, <3>2 DEF Rereading
  <2>3. CASE job'[x].at = "plan"
    <3>1. job'[x].op = "reconcile" /\ (entitled' = ~entitled \/ (~entitled /\ entitled' = entitled))
      BY <1>1, <1>8, <2>3, RequestMoves
    <3>2. entitled' => Fresh = {} /\ ~flag
      <4>1. entitled' => ~RolloverInEffect
        BY <1>1, <3>1 DEF RolloverInEffect
      <4>2. QED
        BY <2>1, <4>1 DEF FlagDue, Rereading
    <3>3. QED
      BY <2>1, <2>3, <3>1, <3>2 DEF FlagDue, Rereading
  <2>4. QED
    BY <2>2, <2>3
<1>9. QED
  BY <1>4, <1>5, <1>6, <1>7, <1>8 DEF Continue

(* The steps of a handler keep the conditions due. *)
LEMMA FilterKept ==
  ASSUME Typed, NEW x \in Handlers, Course(job[x]), Locals(job[x]), PlanKnown(job[x]),
         AllowlistDue(job[x]), FilterDue(job[x]),
         Continue(x) \/ Requests(x) \/ Webhook(x) \/ Nightly(x)
  PROVE  FilterDue(job[x])'
<1>1. /\ JobsOK /\ NoJob.at = "idle" /\ NoJob.op = "none"
      /\ job[x].next \in {"idle", "mark", "filtered", "excess"}
  BY Fields DEF Typed, NoJob, Job
<1>2. rows \in [DOMAIN rows -> Row] /\ DOMAIN rows \subseteq Channels
  BY FromPartial DEF Typed, DataOK
<1>3. Continue(x) => entitled' = entitled
  BY PlanUntouched
<1>4. ASSUME entitled' = entitled, Filtered(rows') \ strayed' \subseteq Filtered(rows) \ strayed,
             job[x].at \notin {"plan", "flag", "all", "drop", "filtered", "pause"}
               \/ job[x].op # "reconcile"
      PROVE  FilterDue(job[x])'
  BY <1>4 DEF FilterDue
<1>5. CASE AddSteps(x) \/ GetFind(x)
  <2>1. entitled' = entitled
    BY <1>5, <1>3 DEF Continue
  <2>2. CASE AddCount(x)
    <3>1. rows' = rows /\ strayed' = strayed /\ (job[x].at \notin {"plan", "flag", "all", "drop",
                                                        "filtered", "pause"}
                            \/ job[x].op # "reconcile")
      BY <1>1, <2>2, AddMoves DEF CountMove, AddCount, Reads, dbVars
    <3>2. QED
      BY <1>4, <2>1, <3>1
  <2>3. CASE AddFind(x)
    <3>1. rows' = rows /\ strayed' = strayed /\ (job[x].at \notin {"plan", "flag", "all", "drop",
                                                        "filtered", "pause"}
                            \/ job[x].op # "reconcile")
      BY <1>1, <2>3, AddMoves DEF FindMove, AddFind, Reads, dbVars
    <3>2. QED
      BY <1>4, <2>1, <3>1
  <2>4. CASE AddPlan(x)
    <3>1. rows' = rows /\ strayed' = strayed /\ (job[x].at \notin {"plan", "flag", "all", "drop",
                                                        "filtered", "pause"}
                            \/ job[x].op # "reconcile")
      BY <1>1, <2>4, AddMoves DEF PlanMove, AddPlan, Reads, dbVars
    <3>2. QED
      BY <1>4, <2>1, <3>1
  <2>5. CASE Unpause(x)
    <3>1. /\ Hop(job[x], job'[x], "unpause", "put") /\ job[x].op = "unpause"
          /\ strayed' = strayed \ job[x].on
      BY <1>1, <2>5, AddMoves DEF Course, Hop, Unpause
    <3>2. PICK c \in DOMAIN rows :
            /\ job[x].on = {c}
            /\ job[x].rules = [d \in {c} |-> IF job[x].ok THEN rows[c].rule
                                            ELSE [rows[c].rule EXCEPT !.conds = 0]]
      BY <3>1 DEF Hop, Locals
    <3>3. /\ DOMAIN rows' = DOMAIN rows
          /\ rows'[c].rule = IF job[x].ok THEN rows[c].rule ELSE [rows[c].rule EXCEPT !.conds = 0]
          /\ \A d \in DOMAIN rows \ {c} : rows'[d] = rows[d]
      BY <2>5, <3>2 DEF Unpause
    <3>4. CASE entitled
      BY <2>1, <3>4 DEF FilterDue
    <3>5. CASE ~entitled
      <4>1. rows'[c].rule.conds = 0
        <5>1. CASE job[x].ok
          BY <3>1, <3>2, <3>3, <3>5, <5>1 DEF PlanKnown, Hop
        <5>2. CASE ~job[x].ok
          <6>1. rows[c].rule \in [conds : 0..MaxGrown, mode : Modes]
            BY <1>2 DEF Row, Rule
          <6>2. QED
            BY <3>3, <5>2, <6>1
        <5>3. QED
          BY <5>1, <5>2
      <4>2. Filtered(rows') \subseteq Filtered(rows) \ {c}
        <5>1. c \notin Filtered(rows')
          BY <4>1 DEF Filtered
        <5>2. \A d \in DOMAIN rows \ {c} : d \in Filtered(rows') => d \in Filtered(rows)
          BY <3>3 DEF Filtered, Serving
        <5>3. Filtered(rows') \subseteq DOMAIN rows
          BY <3>3 DEF Filtered, Serving
        <5>4. QED
          BY <5>1, <5>2, <5>3
      <4>3. QED
        BY <1>4, <2>1, <3>1, <3>2, <4>2 DEF Hop
    <3>6. QED
      BY <3>4, <3>5
  <2>6. CASE Insert(x)
    <3>1. job[x].at = "insert" /\ strayed' = strayed
      BY <1>1, <2>6, AddMoves DEF InsertMove, Insert
    <3>2. Filtered(rows') \subseteq Filtered(rows)
      <4>1. CASE rows' = rows
        BY <4>1
      <4>2. CASE rows' # rows
        <5>1. PICK c \in job[x].on \ DOMAIN rows :
                rows' = Put(rows, [d \in {c} |-> [paused |-> FALSE, rule |-> NewRule]])
          BY <2>6, <4>2 DEF Insert
        <5>2. /\ DOMAIN rows' = DOMAIN rows \cup {c} /\ rows'[c].rule = NewRule
              /\ \A d \in DOMAIN rows : rows'[d] = rows[d]
          BY <5>1 DEF Put
        <5>3. NewRule.conds = 0
          BY DEF NewRule
        <5>4. QED
          BY <5>2, <5>3 DEF Filtered, Serving
      <4>3. QED
        BY <4>1, <4>2
    <3>3. QED
      BY <1>4, <2>1, <3>1, <3>2
  <2>7. CASE Mark(x)
    <3>1. rows' = rows /\ strayed' = strayed /\ (job[x].at \notin {"plan", "flag", "all", "drop",
                                                        "filtered", "pause"}
                            \/ job[x].op # "reconcile")
      BY <1>1, <2>7, AddMoves DEF End, Mark, Reads, dbVars
    <3>2. QED
      BY <1>4, <2>1, <3>1
  <2>8. CASE InsertUndo(x)
    BY <1>1, <2>8, AddMoves DEF End, Course
  <2>9. CASE GetFind(x)
    <3>1. rows' = rows /\ strayed' = strayed /\ (job[x].at \notin {"plan", "flag", "all", "drop",
                                                        "filtered", "pause"}
                            \/ job[x].op # "reconcile")
      BY <1>1, <2>9, AddMoves DEF GetMove, GetFind, Reads, dbVars
    <3>2. QED
      BY <1>4, <2>1, <3>1
  <2>10. QED
    BY <1>5, <2>2, <2>3, <2>4, <2>5, <2>6, <2>7, <2>8, <2>9 DEF AddSteps
<1>6. CASE EditSteps(x)
  <2>1. entitled' = entitled
    BY <1>6, <1>3 DEF Continue
  <2>2. CASE EditServing(x) \/ EditCheck(x)
    <3>1. rows' = rows /\ strayed' = strayed /\ (job[x].at \notin {"plan", "flag", "all", "drop",
                                                        "filtered", "pause"}
                            \/ job[x].op # "reconcile")
      BY <1>1, <2>2, EditMoves DEF ServingMove, CheckMove, EditServing, EditCheck, Reads, dbVars
    <3>2. QED
      BY <1>4, <2>1, <3>1
  <2>3. CASE EditSnapshot(x)
    <3>1. rows' = rows /\ strayed' = strayed /\ (job[x].at \notin {"plan", "flag", "all", "drop",
                                                        "filtered", "pause"}
                            \/ job[x].op # "reconcile")
      BY <1>1, <2>3, EditMoves DEF SnapshotMove, EditSnapshot, Reads, dbVars
    <3>2. QED
      BY <1>4, <2>1, <3>1
  <2>4. CASE EditWrite(x)
    <3>1. /\ job[x].at = "write" /\ job[x].op \in EditOps
          /\ strayed' = strayed \cup {d \in job[x].on : d \notin Serving(rows) \/ ~entitled}
      BY <2>4 DEF EditWrite, At
    <3>2. PICK c \in DOMAIN rows, n \in Rule : job[x].on = {c} /\ job[x].rules = [d \in {c} |-> n]
      BY <3>1 DEF Locals
    <3>3. CASE entitled
      BY <2>1, <3>3 DEF FilterDue
    <3>4. CASE ~entitled
      <4>1. strayed' = strayed \cup {c}
        BY <3>1, <3>2, <3>4
      <4>2. DOMAIN rows' = DOMAIN rows /\ \A d \in DOMAIN rows \ {c} : rows'[d] = rows[d]
        BY <2>4, <3>2 DEF EditWrite, WriteRule
      <4>3. Filtered(rows') \ {c} \subseteq Filtered(rows)
        BY <4>2 DEF Filtered, Serving
      <4>4. QED
        BY <1>4, <2>1, <3>1, <4>1, <4>3
    <3>5. QED
      BY <3>3, <3>4
  <2>5. CASE EditUndo(x)
    BY <1>1, <2>5, EditMoves DEF End, Course
  <2>6. QED
    BY <1>6, <2>2, <2>3, <2>4, <2>5 DEF EditSteps
<1>7. CASE PlanSteps(x)
  <2>1. entitled' = entitled
    BY <1>7, <1>3 DEF Continue
  <2>2. CASE ReadPlan(x)
    <3>1. /\ job[x].at = "plan" /\ job'[x].at = "flag" /\ job'[x].op = job[x].op
          /\ rows' = rows /\ strayed' = strayed /\ entitled' = entitled
      BY <1>1, <2>1, <2>2, PlanMoves DEF ReadPlanMove, ReadPlan, Reads, dbVars
    <3>2. QED
      BY <3>1 DEF FilterDue
  <2>3. CASE SetFlag(x)
    <3>1. /\ FlagMove(job[x], job'[x]) /\ rows' = rows /\ strayed' = strayed
          /\ entitled' = entitled
      BY <1>1, <2>1, <2>3, PlanMoves DEF SetFlag, dbVars
    <3>2. CASE job[x].op = "setting"
      BY <1>4, <3>1, <3>2
    <3>3. CASE job[x].op # "setting" /\ job[x].ok
      <4>1. entitled
        BY <3>1, <3>3 DEF FlagMove, PlanKnown
      <4>2. QED
        BY <3>1, <4>1 DEF FilterDue
    <3>4. CASE job[x].op # "setting" /\ ~job[x].ok
      <4>1. job'[x].at = "all" /\ job'[x].op = "reconcile"
        BY <3>1, <3>4 DEF FlagMove, Course
      <4>2. QED
        BY <4>1 DEF FilterDue
    <3>5. QED
      BY <3>2, <3>3, <3>4
  <2>4. CASE ListPaused(x)
    <3>1. rows' = rows /\ strayed' = strayed /\ (job[x].at \notin {"plan", "flag", "all", "drop",
                                                        "filtered", "pause"}
                            \/ job[x].op # "reconcile")
      BY <1>1, <2>4, PlanMoves DEF PausedMove, ListPaused, Reads, dbVars
    <3>2. QED
      BY <1>4, <2>1, <3>1
  <2>5. CASE Reactivate(x)
    <3>1. entitled
      BY <2>5 DEF Reactivate, At, PlanKnown
    <3>2. QED
      BY <2>1, <3>1 DEF FilterDue
  <2>6. CASE ListAll(x)
    <3>1. /\ job'[x].at = "drop" /\ job'[x].op = job[x].op
          /\ rows' = rows /\ strayed' = strayed /\ entitled' = entitled /\ job[x].at = "all"
      BY <1>1, <2>1, <2>6, PlanMoves DEF AllMove, ListAll, Reads, dbVars
    <3>2. QED
      BY <3>1 DEF FilterDue
  <2>7. CASE DropHeld(x)
    <3>1. Onward(job[x], job'[x], "drop") /\ rows' = rows /\ strayed' = strayed
      BY <1>1, <2>7, PlanMoves DEF DropHeld, dbVars
    <3>2. CASE job[x].op = "reconcile"
      <4>1. job[x].next = "filtered"
        BY <3>1, <3>2 DEF Onward, Course
      <4>2. CASE job'[x] = NoJob
        <5>1. Step(x)
          BY <2>7 DEF DropHeld
        <5>2. job'[x].op = "reconcile" /\ job'[x].at = "filtered"
          <6>1. job'[x] = [job[x] EXCEPT !.at = job[x].next, !.next = "idle"]
            BY <1>1, <4>1, <5>1, Fields DEF Step
          <6>2. QED
            BY <1>1, <3>2, <4>1, <6>1, Fields, JobShape
        <5>3. QED
          BY <5>2 DEF FilterDue
      <4>3. CASE job'[x] # NoJob
        BY <3>1, <3>2, <4>1, <4>3 DEF Onward, FilterDue
      <4>4. QED
        BY <4>2, <4>3
    <3>3. CASE job[x].op # "reconcile"
      BY <1>4, <2>1, <3>1, <3>3
    <3>4. QED
      BY <3>2, <3>3
  <2>8. CASE ListFiltered(x)
    <3>1. /\ FilteredMove(job[x], job'[x]) /\ rows' = rows /\ job[x].op = "reconcile"
      BY <1>1, <2>8, PlanMoves DEF ListFiltered, Reads, dbVars, FilteredMove, Course
    <3>2. QED
      BY <3>1 DEF FilteredMove, FilterDue
  <2>9. CASE ListExcess(x)
    <3>1. rows' = rows /\ strayed' = strayed /\ (job[x].at \notin {"plan", "flag", "all", "drop",
                                                        "filtered", "pause"}
                            \/ job[x].op # "reconcile")
      BY <1>1, <2>9, PlanMoves DEF ExcessMove, ListExcess, Reads, dbVars
    <3>2. QED
      BY <1>4, <2>1, <3>1
  <2>10. CASE Pause(x)
    <3>1. /\ Hop(job[x], job'[x], "pause", "del") /\ job[x].op = "reconcile"
          /\ strayed' = strayed
      BY <1>1, <2>10, PlanMoves DEF Hop, Course, Pause
    <3>2. ~entitled
      BY <3>1 DEF Hop, PlanKnown, Trimming
    <3>3. \A c \in DOMAIN rows : [rows[c] EXCEPT !.paused = TRUE].paused = TRUE
      BY <1>2 DEF Row
    <3>4. /\ DOMAIN rows' = DOMAIN rows
          /\ \A c \in DOMAIN rows \cap job[x].on : rows'[c].paused
          /\ \A c \in DOMAIN rows \ job[x].on : rows'[c] = rows[c]
      BY <2>10, <3>3 DEF Pause, SetPaused
    <3>5. Filtered(rows') \subseteq Filtered(rows) \ job[x].on
      BY <3>4 DEF Filtered, Serving
    <3>6. Filtered(rows) \subseteq strayed \/ job[x].on = Filtered(rows)
      BY <3>1, <3>2 DEF FilterDue, Hop
    <3>7. Filtered(rows') \subseteq strayed'
      BY <3>1, <3>5, <3>6
    <3>8. QED
      BY <3>7 DEF FilterDue
  <2>11. CASE WriteSetting(x)
    <3>1. rows' = rows /\ strayed' = strayed /\ (job[x].at \notin {"plan", "flag", "all", "drop",
                                                        "filtered", "pause"}
                            \/ job[x].op # "reconcile")
      BY <1>1, <2>11, PlanMoves DEF Hop, WriteSetting, Reads, dbVars
    <3>2. QED
      BY <1>4, <2>1, <3>1
  <2>12. QED
    BY <1>7, <2>2, <2>3, <2>4, <2>5, <2>6, <2>7, <2>8, <2>9, <2>10, <2>11 DEF PlanSteps
<1>8. CASE CacheSteps(x)
  <2>1. entitled' = entitled
    BY <1>8, <1>3 DEF Continue
  <2>2. CASE CachePut(x)
    <3>1. rows' = rows /\ strayed' = strayed /\ (job[x].at \notin {"plan", "flag", "all", "drop",
                                                        "filtered", "pause"}
                            \/ job[x].op # "reconcile")
      BY <1>1, <2>2, PlanMoves DEF Onward, CachePut, Reads, dbVars
    <3>2. QED
      BY <1>4, <2>1, <3>1
  <2>3. CASE DelEnabled(x)
    <3>1. rows' = rows /\ strayed' = strayed \ job[x].on /\ job[x].at = "del"
      BY <2>3 DEF DelEnabled, dbVars, At
    <3>2. Filtered(rows) \cap job[x].on \subseteq strayed \ job[x].on
      <4>1. ASSUME NEW c \in Filtered(rows), c \in job[x].on PROVE FALSE
        <5>1. c \in Serving(rows) /\ c \in Channels
          BY <1>2, <4>1 DEF Filtered, Serving
        <5>2. c \in DOMAIN Without(cache, job[x].on)
          BY <3>1, <4>1, <5>1 DEF AllowlistDue, Agree
        <5>3. QED
          BY <4>1, <5>2 DEF Without
      <4>2. QED
        BY <4>1
    <3>3. Filtered(rows') \ strayed' \subseteq Filtered(rows) \ strayed
      BY <3>1, <3>2
    <3>4. QED
      BY <1>4, <2>1, <3>1, <3>3
  <2>4. CASE ClearHeld(x)
    <3>1. rows' = rows /\ strayed' = strayed /\ (job[x].at \notin {"plan", "flag", "all", "drop",
                                                        "filtered", "pause"}
                            \/ job[x].op # "reconcile")
      BY <1>1, <2>4, PlanMoves DEF Onward, ClearHeld, Reads, dbVars
    <3>2. QED
      BY <1>4, <2>1, <3>1
  <2>5. QED
    BY <1>8, <2>2, <2>3, <2>4 DEF CacheSteps
<1>9. CASE Requests(x) \/ Webhook(x) \/ Nightly(x)
  <2>1. job[x].at = "idle"
    BY <1>1, <1>9, RequestMoves
  <2>2. CASE job'[x].op = "reconcile" /\ job'[x].at = "plan"
    BY <2>2 DEF FilterDue
  <2>3. CASE ~(job'[x].op = "reconcile" /\ job'[x].at = "plan")
    <3>1. entitled' = entitled /\ (rows' = rows \/ rows' = Without(rows, job'[x].on))
      BY <1>1, <1>9, <2>3, RequestMoves DEF dbVars
    <3>2. Filtered(rows') \subseteq Filtered(rows) /\ strayed' = strayed
      <4>1. strayed' = strayed
        BY <1>1, <1>9, RequestMoves
      <4>2. QED
        BY <3>1, <4>1 DEF Filtered, Serving, Without
    <3>3. QED
      BY <1>4, <2>1, <3>1, <3>2
  <2>4. QED
    BY <2>2, <2>3
<1>10. QED
  BY <1>5, <1>6, <1>7, <1>8, <1>9 DEF Continue

(* While nothing has failed, neither the flag nor the conditions outlive    *)
(* what one handler is about to do. *)
LEMMA DueKept ==
  ASSUME NEW h, Handlers = {h}, TypeOK, AloneInv(h), HeldInv, DueInv(h), [Next]_vars
  PROVE  DueInv(h)'
<1>1. /\ Typed /\ JobsOK /\ h \in Handlers /\ posts \subseteq Post
      /\ spent \in [ops : 0..MaxOps, faults : 0..MaxFaults, crashes : 0..MaxCrashes]
  BY DEF TypeOK, Typed, DataOK
<1>2. CASE Continue(h) \/ Requests(h) \/ Webhook(h) \/ Nightly(h)
  <2>1. /\ up /\ spent'.faults = spent.faults /\ spent'.crashes = spent.crashes
    <3>1. CASE Continue(h)
      BY <3>1, PlanUntouched
    <3>2. CASE ~Continue(h)
      <4>1. Request \/ spent' = spent
        BY <1>2, <3>2 DEF Requests, AskRollover, Add, Remove, Get, EditFromDashboard,
          EditFromPanel, Webhook, Nightly, Asks, Reads
      <4>2. spent'.faults = spent.faults /\ spent'.crashes = spent.crashes
        BY <1>1, <4>1 DEF Request
      <4>3. QED
        BY <1>1, <1>2, <3>2, <4>2, RequestMoves
    <3>3. QED
      BY <3>1, <3>2
  <2> SUFFICES ASSUME Undisturbed' PROVE FlagDue(job[h])' /\ FilterDue(job[h])'
    BY DEF DueInv
  <2>2. Undisturbed /\ NoFault
    BY <2>1 DEF Undisturbed, NoFault
  <2>3. /\ Course(job[h]) /\ Locals(job[h]) /\ PlanKnown(job[h])
        /\ AllowlistDue(job[h]) /\ FlagDue(job[h]) /\ FilterDue(job[h])
    BY <2>1, <2>2 DEF AloneInv, DueInv
  <2>4. (\A p \in Fresh : p.at = "done" => p.of \in DOMAIN rows) \/ job[h].at # "flag"
    <3> SUFFICES ASSUME job[h].at = "flag", NEW p \in Fresh, p.at = "done"
                 PROVE  p.of \in DOMAIN rows
      OBVIOUS
    <3>1. p.of \in DOMAIN cache
      BY <1>1, <2>2 DEF HeldInv, Fresh, Underway
    <3>2. p.of \in Channels
      BY <1>1 DEF Fresh, Post
    <3>3. Agree(cache, rows, strayed) /\ strayed \subseteq DOMAIN rows
      BY <2>3 DEF AllowlistDue
    <3>4. QED
      BY <3>1, <3>2, <3>3 DEF Agree, Serving
  <2>5. FlagDue(job[h])'
    BY <1>1, <1>2, <2>3, <2>4, FlagKept
  <2>6. FilterDue(job[h])'
    BY <1>1, <1>2, <2>3, FilterKept
  <2>7. QED
    BY <2>5, <2>6
<1>3. CASE Fail(h) \/ Crash
  <2>1. spent'.faults = spent.faults + 1 \/ spent'.crashes = spent.crashes + 1
    BY <1>1, <1>3 DEF Fail, Crash
  <2>2. spent'.faults # 0 \/ spent'.crashes # 0
    BY <1>1, <2>1, ServingConstants
  <2>3. QED
    BY <2>2 DEF DueInv, Undisturbed, NoFault
<1>4. CASE Restart
  <2>1. spent' = spent /\ spent.crashes # 0
    BY <1>4 DEF Restart, HeldInv
  <2>2. QED
    BY <2>1 DEF DueInv, Undisturbed
<1>5. CASE \/ UNCHANGED vars
           \/ \E c \in Channels : OpenPanel(c) \/ ClosePanel(c) \/ GetFlags(c)
           \/ \E p \in posts : GetRule(p) \/ Hold(p) \/ GiveUp(p) \/ Drain(p)
  <2>1. UNCHANGED <<entitled, rolloverOn, rows, flag, job, cache, strayed, up, spent>>
    BY <1>5 DEF vars, OpenPanel, ClosePanel, GetFlags, GetRule, Hold, GiveUp, Drain, World,
                dbVars, cacheVars
  <2>2. \A q \in Fresh' : q \in Fresh \/ flag \/ \E p \in Fresh : p.at # "done"
    <3>1. CASE UNCHANGED vars \/ \E c \in Channels : OpenPanel(c) \/ ClosePanel(c)
      BY <3>1 DEF vars, OpenPanel, ClosePanel, cacheVars, Fresh
    <3>2. CASE \E c \in Channels : GetFlags(c)
      BY <3>2 DEF GetFlags
    <3>3. ASSUME NEW p \in posts, GetRule(p) \/ Hold(p) \/ GiveUp(p) \/ Drain(p)
          PROVE  \A q \in Fresh' : q \in Fresh \/ flag \/ \E r \in Fresh : r.at # "done"
      <4>1. \A q \in posts' : ~q.late => q \in posts \/ (~p.late /\ p.at # "done")
        BY <1>1, <3>3, MovedPosts
      <4>2. QED
        BY <4>1 DEF Fresh
    <3>4. QED
      BY <1>5, <3>1, <3>2, <3>3
  <2> SUFFICES ASSUME Undisturbed PROVE FlagDue(job[h])' /\ FilterDue(job[h])'
    BY <2>1 DEF DueInv, Undisturbed, NoFault
  <2>3. FlagDue(job[h]) /\ FilterDue(job[h])
    BY DEF DueInv
  <2>4. FilterDue(job[h])'
    BY <2>1, <2>3 DEF FilterDue
  <2>5. RolloverInEffect' = RolloverInEffect
    BY <2>1 DEF RolloverInEffect
  <2>6. FlagDue(job[h])'
    <3>1. CASE Fresh' \subseteq Fresh
      BY <2>1, <2>3, <2>5, <3>1 DEF FlagDue, Rereading
    <3>2. CASE flag
      BY <2>1, <2>3, <2>5, <3>2 DEF FlagDue, Rereading
    <3>3. CASE \E p \in Fresh : p.at # "done"
      BY <2>1, <2>2, <2>3, <2>5, <3>3 DEF FlagDue, Rereading
    <3>4. QED
      BY <2>2, <3>1, <3>2, <3>3
  <2>7. QED
    BY <2>4, <2>6
<1>6. QED
  BY <1>2, <1>3, <1>4, <1>5 DEF Next

(* The three facts hold at once. *)
LEMMA OneHandler ==
  ASSUME NEW h, Handlers = {h}
  PROVE  Spec => [](TypeOK /\ AloneInv(h) /\ HeldInv /\ DueInv(h))
<1>1. Init => AloneInv(h) /\ HeldInv /\ DueInv(h)
  <2> SUFFICES ASSUME Init PROVE AloneInv(h) /\ HeldInv /\ DueInv(h)
    OBVIOUS
  <2>1. /\ job[h] = NoJob /\ cache = Allowlist(rows) /\ up /\ strayed = {}
        /\ flag = RolloverInEffect /\ posts = {}
    BY DEF Init
  <2>2. Agree(cache, rows, {})
    BY <2>1, AllowlistAgrees
  <2>3. AloneInv(h) /\ HeldInv
    BY <2>1, <2>2, IdleInv DEF AloneInv, HeldInv
  <2>4. FlagDue(job[h])
    BY <2>1 DEF FlagDue, Rereading, NoJob, Fresh
  <2>5. FilterDue(job[h])
    BY DEF Init, FilterDue, FreeShape
  <2>6. QED
    BY <2>3, <2>4, <2>5 DEF DueInv
<1>2. TypeOK /\ AloneInv(h) /\ HeldInv /\ DueInv(h) /\ [Next]_vars
        => AloneInv(h)' /\ DueInv(h)'
  BY AloneKept, DueKept
<1>3. TypeOK /\ HeldInv /\ [Next]_vars => HeldInv'
  BY HeldKept
<1>4. QED
  BY <1>1, <1>2, <1>3, ServingTypeCorrect, PTL DEF Spec

(* One operation alone never leaves a guild with what its plan does not     *)
(* give it: no message waits where Rollover is not in effect, since turning *)
(* it off and losing Premium both drop what is held before the handler is   *)
(* done (plans.ts:50-55), and no free guild publishes with conditions, as   *)
(* the bot's filter takes for granted (services/filter.ts:15-18); as long   *)
(* as nothing fails or crashes, but for a message that was on its way when  *)
(* the backlog was dropped and a channel written from a panel left open.    *)
THEOREM PlanOfOneHandler ==
  ASSUME NEW h, Handlers = {h}
  PROVE  Spec => []PlanIsKept
<1>1. TypeOK /\ AloneInv(h) /\ HeldInv /\ DueInv(h) => PlanIsKept
  <2> SUFFICES ASSUME TypeOK, AloneInv(h), DueInv(h), AllIdle, Undisturbed
               PROVE  /\ Held # {} => RolloverInEffect
                      /\ \A c \in DOMAIN cache \ strayed : cache[c].conds > 0 => entitled
    BY DEF PlanIsKept
  <2>1. job[h].at = "idle" /\ up /\ NoFault
    BY DEF AllIdle, Undisturbed
  <2>2. /\ Agree(cache, rows, strayed)
        /\ FlagDue(job[h]) /\ FilterDue(job[h])
    BY <2>1 DEF AloneInv, AllowlistDue, DueInv
  <2>3. Held # {} => RolloverInEffect
    <3>1. Held \subseteq Fresh
      BY DEF Held, Fresh
    <3>2. QED
      BY <2>1, <2>2, <3>1 DEF FlagDue, Rereading
  <2>4. ASSUME NEW c \in DOMAIN cache \ strayed, cache[c].conds > 0 PROVE entitled
    <3>1. c \in Channels
      BY FromPartial DEF TypeOK, DataOK
    <3>2. c \in Filtered(rows) \ strayed
      BY <2>2, <2>4, <3>1 DEF Agree, Filtered
    <3>3. QED
      BY <2>1, <2>2, <3>2 DEF FilterDue
  <2>5. QED
    BY <2>3, <2>4
<1>2. QED
  BY <1>1, OneHandler, PTL
=============================================================================
