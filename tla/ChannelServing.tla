--------------------------- MODULE ChannelServing ---------------------------
(***************************************************************************)
(* What one guild publishes: its subscription, its Rollover setting and    *)
(* its channel rows in Postgres, and the Redis keys the bot's hot path     *)
(* reads instead - the allowlist (enabled:{channel}), the Rollover flag    *)
(* (rollover_enabled:{guild}) and the held messages (rollover:{channel}).  *)
(* The backend keeps the two in step (apps/backend/src/services/channels,  *)
(* plans.ts, entitlements.ts): it is one Node process, so its requests,    *)
(* webhooks and crons interleave at their awaits, and each await on        *)
(* Postgres or Redis ends an action here.  So do the awaits of the bot and  *)
(* the proxy that bring a message to a backlog.                            *)
(***************************************************************************)
EXTENDS Naturals, FiniteSets

CONSTANTS
  Channels,      (* announcement channels of the guild                       *)
  Handlers,      (* slots for the backend's requests, webhooks and cron runs *)
  Cap,           (* config.limits.freeChannelsPerGuild                       *)
  MaxConds,      (* config.limits.filtersPerChannel                          *)
  Modes,         (* the match modes of a rule                                *)
  DefaultMode,   (* the mode a new row starts with                           *)
  MaxGrown,      (* bound: conditions, which overlapping edits can carry past *)
                 (* MaxConds                                                 *)
  Messages,      (* the announcements followed at once on their way          *)
  MaxOps,        (* bound: requests and webhooks                             *)
  MaxFaults,     (* bound: failing Redis commands                            *)
  MaxCrashes     (* bound: crashes of the backend                            *)

ASSUME ServingConstants ==
  /\ Cap \in Nat \ {0} /\ MaxConds \in Nat /\ DefaultMode \in Modes
  /\ MaxGrown \in Nat /\ MaxConds <= MaxGrown
  /\ MaxOps \in Nat /\ MaxFaults \in Nat /\ MaxCrashes \in Nat

VARIABLES
  (* Postgres *)
  entitled,      (* the subscription row's status gives Premium              *)
  rolloverOn,    (* guild.rolloverEnabled                                    *)
  rows,          (* the guild's channel rows                                 *)
  older,         (* <<d, c>> when d's row was created before c's             *)
  (* Redis *)
  cache,         (* enabled: keys, each with the rule the bot evaluates      *)
  flag,          (* rollover_enabled:                                        *)
  posts,         (* the messages on their way to the backlogs rollover:, or  *)
                 (* held in one                                              *)
  (* backend and bot *)
  up,            (* the backend runs                                         *)
  job,           (* what each handler is about to do                         *)
  panels,        (* channels whose /ap filters panel is open in Discord      *)
  strayed,       (* history: the channels a panel edited that was left open  *)
                 (* when they were paused or the plan ended                  *)
  spent          (* what the bounds have been used for                       *)

dbVars    == <<entitled, rolloverOn, rows, older>>
cacheVars == <<cache, flag, posts>>
vars == <<dbVars, cacheVars, up, job, panels, strayed, spent>>

----------------------------------------------------------------------------
(* Rows, rules, and the partial functions over channels that hold them.     *)
Rule == [conds : 0..MaxGrown, mode : Modes]
Row  == [paused : BOOLEAN, rule : Rule]
Partial(S) == UNION {[D -> S] : D \in SUBSET Channels}

NewRule == [conds |-> 0, mode |-> DefaultMode]
NoRules == [c \in {} |-> NewRule]

Without(f, S) == [c \in DOMAIN f \ S |-> f[c]]
Put(f, g) ==
  [c \in DOMAIN f \cup DOMAIN g |-> IF c \in DOMAIN g THEN g[c] ELSE f[c]]

Serving(r)  == {c \in DOMAIN r : ~r[c].paused}
Filtered(r) == {c \in Serving(r) : r[c].rule.conds > 0}
RulesOf(r, S) == [c \in S |-> r[c].rule]
Allowlist(r)  == RulesOf(r, Serving(r))
SetPaused(r, S, p) ==
  [c \in DOMAIN r |-> IF c \in S THEN [r[c] EXCEPT !.paused = p] ELSE r[c]]

(* The free shape: no serving channel has conditions, and at most Cap serve.*)
FreeShape(r) == Filtered(r) = {} /\ Cardinality(Serving(r)) <= Cap

RolloverInEffect == entitled /\ rolloverOn

(* A handler: the operation, the await it is at, and the locals it carries. *)
(* next is where it goes when the shared steps (cache write, DEL) are over. *)
NoJob == [op |-> "none", at |-> "idle", next |-> "idle", on |-> {},
          rules |-> NoRules, old |-> NoRules, ok |-> FALSE, arg |-> FALSE]

EditOps == {"append", "erase", "replace", "mode", "rule"}

Job == [op : EditOps \cup {"none", "unpause", "insert", "remove", "removeAgain", "get",
                           "reconcile", "setting"},
        at : {"idle", "count", "find", "plan", "unpause", "insert", "put", "mark",
              "undo", "serving", "check", "snapshot", "write", "del", "clear", "flag",
              "paused", "reactivate", "all", "drop", "filtered", "pause", "excess"},
        next : {"idle", "mark", "filtered", "excess"},
        on : SUBSET Channels, rules : Partial(Rule), old : Partial(Rule),
        ok : BOOLEAN, arg : BOOLEAN]

(* A message: the bot reads its channel's rule next, is sending it to the    *)
(* proxy (again, when an answer was lost), or has done with it; it is in the *)
(* backlog; late: it was on its way when the flag was taken or the backlog   *)
(* dropped, which the bot cannot see any more.                              *)
Post == [id : Messages, of : Channels, at : {"rule", "push", "done"},
         held : BOOLEAN, late : BOOLEAN]

JobsOK == job \in [Handlers -> Job]

DataOK ==
  /\ entitled \in BOOLEAN /\ rolloverOn \in BOOLEAN
  /\ rows \in Partial(Row) /\ cache \in Partial(Rule)
  /\ flag \in BOOLEAN /\ posts \subseteq Post
  /\ up \in BOOLEAN /\ panels \subseteq Channels /\ strayed \subseteq Channels
  /\ spent \in [ops : 0..MaxOps, faults : 0..MaxFaults, crashes : 0..MaxCrashes]

(* createdAt orders the rows of the channels D.                             *)
Ordered(r, D) ==
  /\ r \subseteq D \X D
  /\ \A c \in D : <<c, c>> \notin r
  /\ \A c, d \in D : c # d => (<<c, d>> \in r <=> <<d, c>> \notin r)
  /\ \A b, c, d \in D : <<b, c>> \in r /\ <<c, d>> \in r => <<b, d>> \in r

OrderOK == Ordered(older, DOMAIN rows)

TypeOK == JobsOK /\ DataOK /\ OrderOK

(* The backend has just started on rows that fit the guild's plan, no mode   *)
(* changed yet.                                                             *)
Init ==
  /\ entitled \in BOOLEAN /\ rolloverOn \in BOOLEAN
  /\ rows \in Partial([paused : BOOLEAN, rule : [conds : 0..MaxConds, mode : {DefaultMode}]])
  /\ older \in SUBSET ((DOMAIN rows) \X (DOMAIN rows)) /\ OrderOK
  /\ IF entitled THEN Serving(rows) = DOMAIN rows ELSE FreeShape(rows)
  /\ cache = Allowlist(rows) /\ flag = RolloverInEffect /\ posts = {}
  /\ up = TRUE /\ job = [x \in Handlers |-> NoJob] /\ panels = {} /\ strayed = {}
  /\ spent = [ops |-> 0, faults |-> 0, crashes |-> 0]

----------------------------------------------------------------------------
(* Moving a handler on.                                                     *)
Idle(x)   == up /\ job[x].at = "idle"
At(x, at) == up /\ job[x].at = at
To(x, j)  == job' = [job EXCEPT ![x] = j]
Done(x)   == To(x, NoJob)
Goto(x, at) == To(x, [job[x] EXCEPT !.at = at])
Step(x)   == IF job[x].next = "idle" THEN Done(x)
             ELSE To(x, [job[x] EXCEPT !.at = job[x].next, !.next = "idle"])

Request ==
  /\ spent.ops < MaxOps
  /\ spent' = [spent EXCEPT !.ops = @ + 1]

(* A message that is neither on its way nor held is not followed further.    *)
Followed(S) == {p \in S : p.held \/ p.at # "done"}

(* DEL of the backlogs of the channels S; rollover_enabled: is taken.        *)
Dropped(S) ==
  posts' = Followed({IF p.of \in S THEN [p EXCEPT !.held = FALSE, !.late = @ \/ p.at # "done"]
                     ELSE p : p \in posts})
Overtaken == posts' = {[p EXCEPT !.late = @ \/ p.at # "done"] : p \in posts}

Reads == UNCHANGED <<dbVars, cacheVars, up, panels, strayed, spent>>
Asks  == Request /\ UNCHANGED <<dbVars, cacheVars, up, panels, strayed>>

----------------------------------------------------------------------------
(* Channels.add: register a channel, or unpause the row it has.             *)
Add(x, c, clear) ==                       \* reads the plan's channel limit
  /\ Idle(x) /\ Asks
  /\ To(x, [NoJob EXCEPT !.at = "count", !.on = {c}, !.ok = entitled, !.arg = clear])

AddCount(x) ==
  /\ At(x, "count") /\ Reads
  /\ To(x, [job[x] EXCEPT !.at = "find",
                          !.ok = @ \/ Cardinality(Serving(rows)) < Cap])

AddFind(x) ==
  /\ At(x, "find") /\ job[x].op = "none" /\ Reads
  /\ \E c \in job[x].on :
       LET row == rows[c]
           unpause == [job[x] EXCEPT !.op = "unpause", !.rules = RulesOf(rows, {c})]
       IN \/ /\ ~job[x].ok \/ c \in Serving(rows)
             /\ Done(x)
          \/ /\ job[x].ok /\ c \notin DOMAIN rows
             /\ To(x, [job[x] EXCEPT !.op = "insert", !.at = "insert",
                                     !.rules = [d \in {c} |-> NewRule]])
          \/ /\ job[x].ok /\ c \in DOMAIN rows /\ row.paused
             /\ To(x, [unpause EXCEPT !.at = IF row.rule.conds > 0 THEN "plan"
                                             ELSE "unpause"])

(* Mutant of AddPlan: the unpause keeps the conditions on any plan.         *)
AddAnyPlan(x) ==
  At(x, "plan") /\ job[x].op = "unpause" /\ Reads /\ Goto(x, "unpause")

AddPlan(x) ==                             \* conditions survive on Premium only
  /\ At(x, "plan") /\ job[x].op = "unpause" /\ Reads
  /\ \/ entitled /\ Goto(x, "unpause")
     \/ ~entitled /\ ~job[x].arg /\ Done(x)
     \/ /\ ~entitled /\ job[x].arg
        /\ To(x, [job[x] EXCEPT !.at = "unpause", !.ok = FALSE,
               !.rules = [c \in DOMAIN @ |-> [@[c] EXCEPT !.conds = 0]]])

(* The UPDATE finds no row to change when a removal came first; the cache   *)
(* is written all the same.  ok: the conditions are kept.                   *)
Unpause(x) ==
  /\ At(x, "unpause")
  /\ rows' = [c \in DOMAIN rows |->
                IF c \notin job[x].on THEN rows[c]
                ELSE [paused |-> FALSE,
                      rule |-> IF job[x].ok THEN rows[c].rule
                               ELSE [rows[c].rule EXCEPT !.conds = 0]]]
  /\ strayed' = strayed \ job[x].on
  /\ Goto(x, "put")
  /\ UNCHANGED <<entitled, rolloverOn, older, cacheVars, up, panels, spent>>

(* Mutant of Insert: without the primary key on the channel.                *)
InsertNoKey(x) ==
  /\ At(x, "insert")
  /\ \E c \in job[x].on :
       /\ rows' = Put(rows, [d \in {c} |-> [paused |-> FALSE, rule |-> NewRule]])
       /\ older' = older \cup ((DOMAIN rows) \X {c})
       /\ To(x, [job[x] EXCEPT !.at = "put", !.next = "mark"])
  /\ UNCHANGED <<entitled, rolloverOn, cacheVars, up, panels, strayed, spent>>

Insert(x) ==                              \* a row that exists refuses it
  /\ At(x, "insert")
  /\ \/ /\ job[x].on \subseteq DOMAIN rows
        /\ Done(x) /\ UNCHANGED <<rows, older>>
     \/ \E c \in job[x].on \ DOMAIN rows :
          /\ rows' = Put(rows, [d \in {c} |-> [paused |-> FALSE, rule |-> NewRule]])
          /\ older' = older \cup ((DOMAIN rows) \X {c})
          /\ To(x, [job[x] EXCEPT !.at = "put", !.next = "mark"])
  /\ UNCHANGED <<entitled, rolloverOn, cacheVars, up, panels, strayed, spent>>

Mark(x) == At(x, "mark") /\ Done(x) /\ Reads   \* the guild's migrated: marker

Forget(c) == LET left == DOMAIN rows \ {c} IN older' = older \cap (left \X left)

InsertUndo(x) ==                          \* deletes the row, not the cache key
  /\ At(x, "undo") /\ job[x].op = "insert"
  /\ \E c \in job[x].on : rows' = Without(rows, {c}) /\ Forget(c)
  /\ Done(x)
  /\ UNCHANGED <<entitled, rolloverOn, cacheVars, up, panels, strayed, spent>>

(* The one cache write of add, get, the filter edits and reactivateGuild.   *)
CachePut(x) ==
  /\ At(x, "put")
  /\ cache' = Put(cache, job[x].rules)
  /\ Step(x)
  /\ UNCHANGED <<dbVars, flag, posts, up, panels, strayed, spent>>

----------------------------------------------------------------------------
(* Channels.remove, and the cache removal it shares with the pausing: DEL   *)
(* of the allowlist keys, then DEL of their held messages.                  *)
Remove(x, c) ==
  /\ Idle(x) /\ Request /\ c \in DOMAIN rows
  /\ rows' = Without(rows, {c}) /\ Forget(c)
  /\ To(x, [NoJob EXCEPT !.op = "remove", !.at = "del", !.on = {c}])
  /\ UNCHANGED <<entitled, rolloverOn, cacheVars, up, panels, strayed>>

DelEnabled(x) ==
  /\ At(x, "del")
  /\ cache' = Without(cache, job[x].on)
  /\ strayed' = strayed \ job[x].on
  /\ Goto(x, "clear")
  /\ UNCHANGED <<dbVars, flag, posts, up, panels, spent>>

(* Mutant of ClearHeld: the removal forgets the backlog.                    *)
ClearNothing(x) ==
  /\ At(x, "clear") /\ Step(x)
  /\ UNCHANGED <<dbVars, cacheVars, up, panels, strayed, spent>>

ClearHeld(x) ==
  /\ At(x, "clear")
  /\ Dropped(job[x].on)
  /\ Step(x)
  /\ UNCHANGED <<dbVars, cache, flag, up, panels, strayed, spent>>

----------------------------------------------------------------------------
(* Channels.get: a cache miss reads the row and repairs the cache.          *)
Get(x, c) ==
  /\ Idle(x) /\ Asks /\ c \notin DOMAIN cache
  /\ To(x, [NoJob EXCEPT !.op = "get", !.at = "find", !.on = {c}])

GetFind(x) ==
  /\ At(x, "find") /\ job[x].op = "get" /\ Reads
  /\ \/ job[x].on \cap Serving(rows) = {} /\ Done(x)
     \/ /\ job[x].on \subseteq Serving(rows)
        /\ To(x, [job[x] EXCEPT !.at = "put", !.rules = RulesOf(rows, job[x].on)])

----------------------------------------------------------------------------
(* Filter edits.  The dashboard replaces the whole rule and checks plan and *)
(* pause first; the bot's panel appends, erases or replaces one condition or *)
(* sets the mode, on routes that check neither, for as long as the panel     *)
(* stays open.                                                              *)
EditFromDashboard(x, c) ==
  /\ Idle(x) /\ Asks /\ entitled
  /\ To(x, [NoJob EXCEPT !.op = "rule", !.at = "serving", !.on = {c}])

EditServing(x) ==
  /\ At(x, "serving") /\ Reads
  /\ \/ job[x].on \cap Serving(rows) = {} /\ Done(x)
     \/ job[x].on \subseteq Serving(rows) /\ Goto(x, "check")

OpenPanel(c) ==
  /\ up /\ entitled /\ c \in DOMAIN cache
  /\ panels' = panels \cup {c}
  /\ UNCHANGED <<dbVars, cacheVars, up, job, strayed, spent>>

ClosePanel(c) ==
  /\ c \in panels /\ panels' = panels \ {c}
  /\ UNCHANGED <<dbVars, cacheVars, up, job, strayed, spent>>

EditFromPanel(x, c, op) ==
  /\ Idle(x) /\ Asks /\ c \in panels
  /\ To(x, [NoJob EXCEPT !.op = op, !.on = {c},
                         !.at = IF op \in {"append", "replace"} THEN "check" ELSE "snapshot"])

(* The service's own read: the cap of an append, the condition to replace;   *)
(* what is written is made of the next read.                                *)
EditCheck(x) ==
  /\ At(x, "check") /\ Reads
  /\ \/ Done(x)
     \/ /\ \E c \in job[x].on \cap DOMAIN rows :
             /\ job[x].op = "append"  => rows[c].rule.conds < MaxConds
             /\ job[x].op = "replace" => rows[c].rule.conds > 0
        /\ Goto(x, "snapshot")

(* What an edit may make of the rule r it reads.                             *)
Edits(op, r) ==
  CASE op = "append"  -> {[r EXCEPT !.conds = n] : n \in {r.conds + 1} \cap 0..MaxGrown}
    [] op = "erase"   -> {r} \cup {[r EXCEPT !.conds = n] : n \in {r.conds - 1} \cap Nat}
    [] op = "replace" -> {r}
    [] op = "mode"    -> {[r EXCEPT !.mode = m] : m \in Modes}
    [] OTHER          -> [conds : 0..MaxConds, mode : Modes]

EditSnapshot(x) ==
  /\ At(x, "snapshot") /\ Reads
  /\ \/ job[x].on \cap DOMAIN rows = {} /\ Done(x)
     \/ \E c \in job[x].on \cap DOMAIN rows : \E n \in Edits(job[x].op, rows[c].rule) :
          To(x, [job[x] EXCEPT !.at = "write", !.rules = [d \in {c} |-> n],
                               !.old = RulesOf(rows, {c})])

(* The columns an edit writes; the others keep what the row has by now.     *)
Columns(op, r, new) ==
  [conds |-> IF op = "mode" THEN r.conds ELSE new.conds,
   mode  |-> IF op \in {"mode", "rule"} THEN new.mode ELSE r.mode]

WriteRule(op, new) ==
  rows' = [c \in DOMAIN rows |->
             IF c \in DOMAIN new
             THEN [rows[c] EXCEPT !.rule = Columns(op, rows[c].rule, new[c])]
             ELSE rows[c]]

EditWrite(x) ==
  /\ At(x, "write") /\ job[x].op \in EditOps
  /\ WriteRule(job[x].op, job[x].rules)
  /\ strayed' = strayed \cup {c \in job[x].on : c \notin Serving(rows) \/ ~entitled}
  /\ Goto(x, "put")
  /\ UNCHANGED <<entitled, rolloverOn, older, cacheVars, up, panels, spent>>

EditUndo(x) ==
  /\ At(x, "undo") /\ job[x].op \in EditOps
  /\ WriteRule(job[x].op, job[x].old)
  /\ Done(x)
  /\ UNCHANGED <<entitled, rolloverOn, older, cacheVars, up, panels, strayed, spent>>

----------------------------------------------------------------------------
(* Plans.reconcileChannelServing, and what calls it: a webhook whose        *)
(* subscription update changed the entitlement, and the nightly crons for   *)
(* a guild that is not entitled.                                            *)
ToPlan(x) == To(x, [NoJob EXCEPT !.op = "reconcile", !.at = "plan"])

Webhook(x) ==
  /\ Idle(x) /\ Request
  /\ entitled' = ~entitled
  /\ ToPlan(x)
  /\ UNCHANGED <<rolloverOn, rows, older, cacheVars, up, panels, strayed>>

Nightly(x) == Idle(x) /\ ~entitled /\ ToPlan(x) /\ Reads

ReadPlan(x) ==                            \* ok: premium; arg: the flag to set
  /\ At(x, "plan") /\ job[x].op \in {"reconcile", "setting"} /\ Reads
  /\ To(x, [job[x] EXCEPT !.at = "flag", !.ok = entitled, !.arg = RolloverInEffect])

(* Mutant of SetFlag: a downgrade goes straight on to the pausing.          *)
SetFlagOnly(x) ==
  /\ At(x, "flag")
  /\ flag' = job[x].arg
  /\ IF job[x].arg THEN UNCHANGED posts ELSE Overtaken
  /\ IF job[x].op = "setting"
     THEN IF job[x].arg THEN Done(x) ELSE Goto(x, "all")
     ELSE IF job[x].ok THEN Goto(x, "paused") ELSE Goto(x, "filtered")
  /\ UNCHANGED <<dbVars, cache, up, panels, strayed, spent>>

SetFlag(x) ==
  /\ At(x, "flag")
  /\ flag' = job[x].arg
  /\ IF job[x].arg THEN UNCHANGED posts ELSE Overtaken
  /\ IF job[x].op = "setting"
     THEN IF job[x].arg THEN Done(x) ELSE Goto(x, "all")
     ELSE IF job[x].ok THEN Goto(x, "paused")
          ELSE To(x, [job[x] EXCEPT !.at = "all", !.next = "filtered"])
  /\ UNCHANGED <<dbVars, cache, up, panels, strayed, spent>>

ListPaused(x) ==
  /\ At(x, "paused") /\ Reads
  /\ LET paused == DOMAIN rows \ Serving(rows) IN
       IF paused = {} THEN Done(x)
       ELSE To(x, [job[x] EXCEPT !.at = "reactivate", !.rules = RulesOf(rows, paused)])

Reactivate(x) ==
  /\ At(x, "reactivate")
  /\ rows' = SetPaused(rows, DOMAIN rows, FALSE)
  /\ strayed' = strayed \ DOMAIN job[x].rules
  /\ Goto(x, "put")
  /\ UNCHANGED <<entitled, rolloverOn, older, cacheVars, up, panels, spent>>

ListAll(x) ==                             \* clearRollover
  /\ At(x, "all") /\ Reads
  /\ To(x, [job[x] EXCEPT !.at = "drop", !.on = DOMAIN rows])

DropHeld(x) ==
  /\ At(x, "drop")
  /\ Dropped(job[x].on)
  /\ Step(x)
  /\ UNCHANGED <<dbVars, cache, flag, up, panels, strayed, spent>>

ListFiltered(x) ==                        \* pauseFiltered
  /\ At(x, "filtered") /\ Reads
  /\ IF Filtered(rows) = {} THEN Goto(x, "excess")
     ELSE To(x, [job[x] EXCEPT !.at = "pause", !.next = "excess", !.on = Filtered(rows)])

OlderServing(c) == {d \in Serving(rows) : <<d, c>> \in older}
Excess(n) == {c \in Serving(rows) : Cardinality(OlderServing(c)) >= n}

(* Mutant of ListExcess: keeps one channel too many.                        *)
ListExcessPastCap(x) ==
  /\ At(x, "excess") /\ Reads
  /\ IF Excess(Cap + 1) = {} THEN Done(x)
     ELSE To(x, [job[x] EXCEPT !.at = "pause", !.next = "idle", !.on = Excess(Cap + 1)])

ListExcess(x) ==                          \* pauseExcess: all but the oldest Cap
  /\ At(x, "excess") /\ Reads
  /\ IF Excess(Cap) = {} THEN Done(x)
     ELSE To(x, [job[x] EXCEPT !.at = "pause", !.next = "idle", !.on = Excess(Cap)])

Pause(x) ==
  /\ At(x, "pause")
  /\ rows' = SetPaused(rows, job[x].on, TRUE)
  /\ Goto(x, "del")
  /\ UNCHANGED <<entitled, rolloverOn, older, cacheVars, up, panels, strayed, spent>>

----------------------------------------------------------------------------
(* Plans.setRollover: turning it on asks for Premium, turning it off drops  *)
(* what is held.                                                            *)
AskRollover(x, on) ==
  /\ Idle(x) /\ Asks /\ (on => entitled)
  /\ To(x, [NoJob EXCEPT !.op = "setting", !.at = "write", !.arg = on])

WriteSetting(x) ==
  /\ At(x, "write") /\ job[x].op = "setting"
  /\ rolloverOn' = job[x].arg
  /\ Goto(x, "plan")
  /\ UNCHANGED <<entitled, rows, older, cacheVars, up, panels, strayed, spent>>

----------------------------------------------------------------------------
(* The bot and the proxy.  The bot reads the guild's flags, then the        *)
(* channel's rule, and pushes; the proxy's ZADD may come much later, or once *)
(* more when an answer was lost.  A message whose flag is off is not held.   *)
World == UNCHANGED <<dbVars, cache, flag, up, job, panels, strayed, spent>>

Becomes(p, S) == posts' = Followed((posts \ {p}) \cup S)

GetFlags(c) ==
  /\ flag
  /\ \E m \in Messages \ {p.id : p \in posts} :
       posts' = posts \cup {[id |-> m, of |-> c, at |-> "rule", held |-> FALSE, late |-> FALSE]}
  /\ World

GetRule(p) ==                             \* or the filter drops it
  /\ p.at = "rule" /\ World
  /\ \/ Becomes(p, {})
     \/ p.of \in DOMAIN cache /\ Becomes(p, {[p EXCEPT !.at = "push"]})

Hold(p) ==
  /\ p.at = "push" /\ World
  /\ \E at \in {"push", "done"} : Becomes(p, {[p EXCEPT !.at = at, !.held = TRUE]})

GiveUp(p) ==
  /\ p.at = "push" /\ World
  /\ Becomes(p, {[p EXCEPT !.at = "done"]})

Drain(p) ==                               \* published or expired
  /\ p.held /\ World
  /\ Becomes(p, {[p EXCEPT !.held = FALSE]})

----------------------------------------------------------------------------
(* A Redis command of a handler fails.  The insert and the edits roll their *)
(* row back, remove tries once more, everything else just gives up.         *)
Fail(x) ==
  /\ up /\ job[x].at \in {"put", "mark", "del", "clear", "flag", "drop"}
  /\ spent.faults < MaxFaults
  /\ spent' = [spent EXCEPT !.faults = @ + 1]
  /\ CASE job[x].op \in EditOps \cup {"insert"} -> Goto(x, "undo")
       [] job[x].op = "remove" ->
            To(x, [job[x] EXCEPT !.op = "removeAgain", !.at = "del"])
       [] OTHER -> Done(x)
  /\ UNCHANGED <<dbVars, cacheVars, up, panels, strayed>>

Crash ==
  /\ up /\ spent.crashes < MaxCrashes
  /\ spent' = [spent EXCEPT !.crashes = @ + 1]
  /\ up' = FALSE /\ job' = [x \in Handlers |-> NoJob]
  /\ UNCHANGED <<dbVars, cacheVars, panels, strayed>>

(* Mutant of Restart: adds the serving rows and removes nothing.            *)
RestartAdding ==
  /\ ~up /\ up' = TRUE
  /\ cache' = Put(cache, Allowlist(rows)) /\ flag' = RolloverInEffect
  /\ strayed' = {}
  /\ UNCHANGED <<dbVars, posts, job, panels, spent>>

(* Channels.initialize, before the backend listens: writes the serving      *)
(* rows, rebuilds the flag and removes every other key it finds, with its   *)
(* held messages.                                                           *)
Restart ==
  /\ ~up /\ up' = TRUE
  /\ cache' = Allowlist(rows) /\ flag' = RolloverInEffect
  /\ Dropped(DOMAIN cache \ Serving(rows))
  /\ strayed' = {}
  /\ UNCHANGED <<dbVars, job, panels, spent>>

----------------------------------------------------------------------------
Requests(x) ==
  \/ \E on \in BOOLEAN : AskRollover(x, on)
  \/ \E c \in Channels :
       \/ \E clear \in BOOLEAN : Add(x, c, clear)
       \/ Remove(x, c) \/ Get(x, c)
       \/ EditFromDashboard(x, c)
       \/ \E op \in EditOps \ {"rule"} : EditFromPanel(x, c, op)

AddSteps(x)  == \/ AddCount(x) \/ AddFind(x) \/ AddPlan(x) \/ Unpause(x)
                \/ Insert(x) \/ Mark(x) \/ InsertUndo(x)
EditSteps(x) == \/ EditServing(x) \/ EditCheck(x) \/ EditSnapshot(x) \/ EditWrite(x) \/ EditUndo(x)
PlanSteps(x) == \/ ReadPlan(x) \/ SetFlag(x) \/ ListPaused(x) \/ Reactivate(x)
                \/ ListAll(x) \/ DropHeld(x) \/ ListFiltered(x) \/ ListExcess(x)
                \/ Pause(x) \/ WriteSetting(x)
CacheSteps(x) == CachePut(x) \/ DelEnabled(x) \/ ClearHeld(x)

(* A handler goes on whatever the others do: nothing but Redis and Postgres *)
(* can hold it up.                                                          *)
Continue(x) ==
  AddSteps(x) \/ GetFind(x) \/ EditSteps(x) \/ PlanSteps(x) \/ CacheSteps(x)

Next ==
  \/ \E x \in Handlers : Requests(x) \/ Webhook(x) \/ Nightly(x) \/ Continue(x) \/ Fail(x)
  \/ \E c \in Channels : OpenPanel(c) \/ ClosePanel(c) \/ GetFlags(c)
  \/ \E p \in posts : GetRule(p) \/ Hold(p) \/ GiveUp(p) \/ Drain(p)
  \/ Crash \/ Restart

Spec == Init /\ [][Next]_vars

Fairness ==
  /\ WF_vars(Restart)
  /\ \A x \in Handlers : WF_vars(Continue(x)) /\ WF_vars(Nightly(x))

FairSpec == Spec /\ Fairness

----------------------------------------------------------------------------
AllIdle == up /\ \A x \in Handlers : job[x].at = "idle"
NoFault == spent.faults = 0
Undisturbed == NoFault /\ spent.crashes = 0

(* The held messages the bot did not send before their backlog was dropped.  *)
Held == {p \in posts : p.held /\ ~p.late}

(* While nothing has failed, held messages belong to an allowlisted         *)
(* channel, or a handler that took it off the allowlist is about to drop    *)
(* them: whatever interleaves, a channel that stopped publishing keeps no   *)
(* backlog (data/channels/cache.ts:9-21), but for a message that was already *)
(* on its way at the DEL (ADR 0001's Tradeoff).                             *)
HeldIsServed ==
  Undisturbed =>
    \A p \in Held :
      \/ p.of \in DOMAIN cache
      \/ \E x \in Handlers : job[x].at = "clear" /\ p.of \in job[x].on

(* Once no handler is at work, the allowlist holds exactly the serving rows *)
(* with the rules they have, crashes and restarts included: no operation,   *)
(* taken alone, and no crash in it leaves the bot publishing a paused or    *)
(* deleted channel, or publishing by an old rule; but for a channel edited  *)
(* from a panel that was open before it was paused, until it is written by   *)
(* the plan, enabled, removed or the backend starts again.                  *)
Agrees(c) == IF c \in Serving(rows) THEN c \in DOMAIN cache /\ cache[c] = rows[c].rule
             ELSE c \notin DOMAIN cache

AllowlistMatches == (AllIdle /\ NoFault) => \A c \in Channels \ strayed : Agrees(c)

(* Once no handler is at work, a guild has what its plan gives it: a backlog *)
(* only while Rollover is in effect, since turning it off and losing Premium *)
(* drop what is held (plans.ts:50-55); an allowlisted channel with          *)
(* conditions only with Premium (services/filter.ts:15-18 of the bot).  Not  *)
(* so what was on its way when the backlog was dropped, nor what a panel     *)
(* that was left open has written since.                                    *)
PlanIsKept ==
  AllIdle /\ Undisturbed =>
    /\ Held # {} => RolloverInEffect
    /\ (\E c \in DOMAIN cache \ strayed : cache[c].conds > 0) => entitled

(* A guild that stays free comes down to the free shape and stays there,    *)
(* even when the webhook's own trim was lost in a crash or a fault: the     *)
(* nightly run takes it up again.                                           *)
FreeIsTrimmed == <>[]~entitled => <>[]FreeShape(rows)
=============================================================================
