--------------------------- MODULE GuildPresence ---------------------------
(***************************************************************************)
(* One guild's row and the Redis keys derived from it, while the bot joins *)
(* and leaves (apps/bot/src/services/guild.ts; apps/backend/src/services/  *)
(* guilds.ts, presenceHeal.ts and cron/guildReconcile.ts).  The bot reports *)
(* joins and leaves by calls that are retried, so they may land late and    *)
(* out of order; Discord emits no event twice, so a lost one is made up for *)
(* by the nightly sweep or by a dashboard read.                             *)
(***************************************************************************)
EXTENDS Naturals

CONSTANTS
  Channels,      (* the guild's channels                                     *)
  Created,       (* those that do not exist from the beginning               *)
  Handlers,      (* backend requests handled at once                         *)
  Night,         (* the nightly reconcile                                    *)
  PurgeDays,     (* days after which a guild the bot has left is purged      *)
  MaxJoins,      (* bound: invitations of the bot                            *)
  MaxFaults      (* bound: lost calls, failing awaits, outages and restarts  *)

ASSUME PresenceConstants ==
  /\ Created \subseteq Channels /\ Night \notin Handlers /\ PurgeDays \in Nat \ {0}
  /\ MaxJoins \in Nat /\ MaxFaults \in Nat

VARIABLES
  (* Discord *)
  member,        (* the bot is in the guild                                  *)
  live,          (* the channels that exist                                  *)
  created,       (* the channels created so far: none comes back             *)
  outage,        (* the guild is unavailable                                 *)
  (* bot *)
  pending,       (* pendingJoins has the guild                               *)
  calls,         (* calls to the backend on their way or to be retried       *)
  (* backend *)
  row,           (* the guild row                                            *)
  rows,          (* its channel rows (serving ones)                          *)
  marker,        (* the migrated: key                                        *)
  keys,          (* the enabled: keys                                        *)
  owed,          (* history: the channels whose key a failed sync did not    *)
                 (* write, or a purge or a prune took from a newer row       *)
  awry,          (* history: a marker was not written for such a reason, was *)
                 (* taken from a newer row, or outlived its own              *)
  job,           (* what each handler and the nightly job is about to do     *)
  spent          (* what the bounds have been used for                       *)

discordVars == <<member, live, created, outage>>
botVars     == <<pending, calls>>
cacheVars   == <<marker, keys, owed, awry>>
vars == <<discordVars, botVars, row, rows, cacheVars, job, spent>>

----------------------------------------------------------------------------
(* left: 0 if leftAt is null, else the days since, counted from 1.  fresh:   *)
(* joinedAt is within the join-race guard of the current sweep.             *)
Row   == [known : BOOLEAN, left : 0..(PurgeDays + 1), fresh : BOOLEAN, migrated : BOOLEAN]
NoRow == [known |-> FALSE, left |-> 0, fresh |-> FALSE, migrated |-> FALSE]
NewRow(migrated) == [known |-> TRUE, left |-> 0, fresh |-> TRUE, migrated |-> migrated]
Present   == row.known /\ row.left = 0
Abandoned == row.known /\ row.left > PurgeDays

(* A call carries the channels that existed, in Discord.     *)
Call   == [op : {"new", "delete"}, chans : SUBSET Channels]
NoCall == [op |-> "delete", chans |-> {}]

Job == [at : {"idle", "prune", "unkey", "read", "key", "mark", "restore", "commit",
              "fetch", "rows", "insert", "rejoin", "softdelete", "abandoned",
              "channels", "purge", "purgekeys", "unmark"},
        call : Call, chans : SUBSET Channels, seen : BOOLEAN]
NoJob == [at |-> "idle", call |-> NoCall, chans |-> {}, seen |-> FALSE]
Processes == Handlers \cup {Night}

(* The guild is new, or was there before the allowlist model.               *)
Init ==
  /\ member \in BOOLEAN /\ live = Channels \ Created /\ outage = FALSE
  /\ pending = FALSE /\ calls = {}
  /\ row = IF member THEN [NewRow(FALSE) EXCEPT !.fresh = FALSE] ELSE NoRow
  /\ created = {} /\ rows = {} /\ marker = FALSE /\ keys = {}
  /\ owed = {} /\ awry = FALSE
  /\ job = [x \in Processes |-> NoJob]
  /\ spent = [joins |-> 0, lost |-> 0, outages |-> 0, crashes |-> 0]

----------------------------------------------------------------------------
At(x, at)   == job[x].at = at
To(x, j)    == job' = [job EXCEPT ![x] = j]
Goto(x, at) == To(x, [job[x] EXCEPT !.at = at])
With(x, at, chans) == To(x, [job[x] EXCEPT !.at = at, !.chans = chans])
(* The locals are not used any more; a retry would send the call again.     *)
Onto(x, at) == To(x, [NoJob EXCEPT !.at = at, !.call = job[x].call])
Done(x)     == To(x, NoJob)
(* Purge's DELETE is done, the cleaning up after it is not.                  *)
Cleaning    == At(Night, "purgekeys") \/ At(Night, "unmark")
Idle        == \A x \in Handlers : At(x, "idle")

Count(what) == spent' = [spent EXCEPT ![what] = @ + 1]
Fault(what) == spent.lost + spent.outages + spent.crashes < MaxFaults /\ Count(what)

----------------------------------------------------------------------------
(* Mutant of Register: a guild in an outage is registered as it is cached.   *)
RegisterUnpatched ==
  /\ calls' = calls \cup {[op |-> "new", chans |-> IF outage THEN {} ELSE live]}
  /\ pending' = FALSE

(* Discord and the bot.  Guild.register: a guild in an outage has no channel *)
(* cache yet.                                                               *)
Register ==
  IF outage THEN pending' = TRUE /\ UNCHANGED calls
  ELSE /\ calls' = calls \cup {[op |-> "new", chans |-> live]}
       /\ pending' = FALSE

Join ==
  /\ ~member /\ spent.joins < MaxJoins /\ Count("joins")
  /\ member' = TRUE /\ Register
  /\ UNCHANGED <<live, created, outage, row, rows, cacheVars, job>>

Kick ==
  /\ member /\ member' = FALSE
  /\ pending' = FALSE
  /\ calls' = calls \cup {[op |-> "delete", chans |-> {}]}
  /\ UNCHANGED <<live, created, outage, row, rows, cacheVars, job, spent>>

OutageBegins ==
  /\ ~outage /\ Fault("outages") /\ outage' = TRUE
  /\ UNCHANGED <<member, live, created, botVars, row, rows, cacheVars, job>>

(* guildAvailable: registerIfPendingJoin.                                   *)
OutageEnds ==
  /\ outage /\ outage' = FALSE
  /\ IF pending
     THEN /\ calls' = calls \cup {[op |-> "new", chans |-> live]}
          /\ pending' = FALSE
     ELSE UNCHANGED botVars
  /\ UNCHANGED <<member, live, created, row, rows, cacheVars, job, spent>>

(* A channel is deleted; the bot, if it is there, has it disabled            *)
(* (ChannelServing has the steps of that).                                  *)
ChannelDeleted(c) ==
  /\ c \in live /\ live' = live \ {c}
  /\ IF member /\ ~outage THEN rows' = rows \ {c} /\ keys' = keys \ {c}
     ELSE UNCHANGED <<rows, keys>>
  /\ owed' = owed \cap rows'
  /\ UNCHANGED <<member, created, outage, botVars, row, marker, awry, job, spent>>

ChannelCreated(c) ==
  /\ c \in Created \ created
  /\ created' = created \cup {c} /\ live' = live \cup {c}
  /\ UNCHANGED <<member, outage, botVars, row, rows, cacheVars, job, spent>>

(* An event while no shard is up, a call whose last attempt failed.          *)
CallLost ==
  /\ Fault("lost") /\ \E k \in calls : calls' = calls \ {k}
  /\ UNCHANGED <<discordVars, pending, row, rows, cacheVars, job>>

BotRestarts ==
  /\ Fault("crashes")
  /\ pending' = FALSE /\ calls' = {}
  /\ UNCHANGED <<discordVars, row, rows, cacheVars, job>>

----------------------------------------------------------------------------
(* DELETE /guild/:id, softDelete.                                           *)
SoftDelete ==
  \E k \in calls :
    /\ k.op = "delete" /\ calls' = calls \ {k}
    /\ row' = IF Present THEN [row EXCEPT !.left = 1] ELSE row
    /\ UNCHANGED <<discordVars, pending, rows, cacheVars, job, spent>>

(* POST /guild/:id/new, registerNewGuild; its first statement is             *)
(* activatePresence.                                                        *)
ActivatePresence(x) ==
  /\ At(x, "idle")
  /\ \E k \in calls :
       /\ k.op = "new" /\ calls' = calls \ {k}
       /\ row' = IF row.known THEN [row EXCEPT !.left = 0, !.fresh = TRUE] ELSE NewRow(TRUE)
       /\ To(x, [NoJob EXCEPT !.at = "prune", !.call = k, !.chans = k.chans,
                              !.seen = row'.migrated])
  /\ UNCHANGED <<discordVars, pending, rows, cacheVars, spent>>

(* The rest only for a migrated guild; seen is activatePresence's answer.    *)
AfterPrune(x) == IF job[x].seen THEN Onto(x, "read") ELSE Done(x)

PruneStaleChannels(x) ==
  /\ At(x, "prune")
  /\ rows' = rows \cap job[x].chans /\ owed' = owed \cap rows'
  /\ IF rows \subseteq job[x].chans THEN AfterPrune(x)
     ELSE With(x, "unkey", rows \ job[x].chans)
  /\ UNCHANGED <<discordVars, botVars, row, marker, keys, awry, spent>>

UnkeyPruned(x) ==
  /\ At(x, "unkey")
  /\ keys' = keys \ job[x].chans /\ AfterPrune(x)
  /\ owed' = owed \cup (rows \cap job[x].chans)
  /\ UNCHANGED <<discordVars, botVars, row, rows, marker, awry, spent>>

(* syncMigratedGuildCache.                                                  *)
ReadServing(x) ==
  /\ At(x, "read")
  /\ With(x, IF rows = {} THEN "mark" ELSE "key", rows)
  /\ UNCHANGED <<discordVars, botVars, row, rows, cacheVars, spent>>

SetEntries(x) ==
  /\ At(x, "key")
  /\ keys' = keys \cup job[x].chans /\ Onto(x, "mark")
  /\ owed' = owed \ job[x].chans
  /\ UNCHANGED <<discordVars, botVars, row, rows, marker, awry, spent>>

SetMarker(x) ==
  /\ At(x, "mark")
  /\ marker' = TRUE /\ awry' = FALSE /\ Done(x)
  /\ UNCHANGED <<discordVars, botVars, row, rows, keys, owed, spent>>

----------------------------------------------------------------------------
(* The dashboard: a read heals an absent presence (healAbsentGuild; its     *)
(* negative cache only spares reads), a migration, enabling a channel.      *)
CheckMembership(x) ==
  /\ At(x, "idle") /\ ~Present /\ member
  /\ To(x, [NoJob EXCEPT !.at = "restore"])
  /\ UNCHANGED <<discordVars, botVars, row, rows, cacheVars, spent>>

RestorePresence(x) ==
  /\ At(x, "restore")
  /\ row' = IF ~row.known THEN NewRow(FALSE)
            ELSE [row EXCEPT !.left = 0, !.fresh = @ \/ ~Present]
  /\ Done(x)
  /\ UNCHANGED <<discordVars, botVars, rows, cacheVars, spent>>

Migrate(x, chosen) ==
  /\ At(x, "idle") /\ member /\ Present /\ ~row.migrated
  /\ To(x, [NoJob EXCEPT !.at = "commit", !.chans = chosen])
  /\ UNCHANGED <<discordVars, botVars, row, rows, cacheVars, spent>>

CommitMigration(x) ==
  /\ At(x, "commit")
  /\ row' = IF row.known THEN [row EXCEPT !.migrated = TRUE] ELSE NewRow(TRUE)
  /\ rows' = rows \cup job[x].chans /\ Onto(x, "read")
  /\ UNCHANGED <<discordVars, botVars, cacheVars, spent>>

(* Channels.add (ChannelServing has its steps): the bare marker, and a       *)
(* legacy guild is migrated by it.                                          *)
Enable(c) ==
  /\ member /\ c \in live \ rows
  /\ row' = IF row.known THEN [row EXCEPT !.migrated = TRUE] ELSE NewRow(TRUE)
  /\ rows' = rows \cup {c} /\ keys' = keys \cup {c} /\ marker' = TRUE
  /\ owed' = owed \ {c} /\ awry' = FALSE
  /\ UNCHANGED <<discordVars, botVars, job, spent>>

----------------------------------------------------------------------------
(* reconcileGuilds.  A day is longer than any request.                      *)
StartNight ==
  /\ At(Night, "idle") /\ Idle /\ calls = {}
  /\ row' = [row EXCEPT !.fresh = FALSE,
                        !.left = IF @ \in 1..PurgeDays THEN @ + 1 ELSE @]
  /\ To(Night, [NoJob EXCEPT !.at = "fetch"])
  /\ UNCHANGED <<discordVars, botVars, rows, cacheVars, spent>>

FetchLive ==
  /\ At(Night, "fetch")
  /\ To(Night, [job[Night] EXCEPT !.at = "rows", !.seen = member])
  /\ UNCHANGED <<discordVars, botVars, row, rows, cacheVars, spent>>

(* Mutant of SweepRows: guilds without a row stay unknown.                   *)
SweepRowsNoInsert ==
  /\ At(Night, "rows")
  /\ Onto(Night, IF job[Night].seen
                 THEN IF row.known /\ ~Present THEN "rejoin" ELSE "abandoned"
                 ELSE IF Present /\ ~row.fresh THEN "softdelete" ELSE "abandoned")
  /\ UNCHANGED <<discordVars, botVars, row, rows, cacheVars, spent>>

SweepRows ==
  /\ At(Night, "rows")
  /\ Onto(Night, IF job[Night].seen
                 THEN IF ~row.known THEN "insert" ELSE IF ~Present THEN "rejoin" ELSE "abandoned"
                 ELSE IF Present /\ ~row.fresh THEN "softdelete" ELSE "abandoned")
  /\ UNCHANGED <<discordVars, botVars, row, rows, cacheVars, spent>>

SweepInsert ==
  /\ At(Night, "insert")
  /\ row' = (IF row.known THEN row ELSE NewRow(FALSE)) /\ Goto(Night, "abandoned")
  /\ UNCHANGED <<discordVars, botVars, rows, cacheVars, spent>>

SweepRestore ==
  /\ At(Night, "rejoin")
  /\ row' = [row EXCEPT !.left = 0] /\ Goto(Night, "abandoned")
  /\ UNCHANGED <<discordVars, botVars, rows, cacheVars, spent>>

SweepSoftDelete ==
  /\ At(Night, "softdelete")
  /\ row' = (IF Present THEN [row EXCEPT !.left = 1] ELSE row) /\ Goto(Night, "abandoned")
  /\ UNCHANGED <<discordVars, botVars, rows, cacheVars, spent>>

(* purgeAbandonedGuilds, Guilds.purge.                                      *)
ListAbandoned ==
  /\ At(Night, "abandoned")
  /\ IF Abandoned THEN Goto(Night, "channels") ELSE Done(Night)
  /\ UNCHANGED <<discordVars, botVars, row, rows, cacheVars, spent>>

ReadChannels ==
  /\ At(Night, "channels") /\ With(Night, "purge", rows)
  /\ UNCHANGED <<discordVars, botVars, row, rows, cacheVars, spent>>

(* Mutant of Purge: the DELETE trusts the list.                             *)
PurgeListed ==
  /\ At(Night, "purge")
  /\ row' = NoRow /\ rows' = {} /\ owed' = {}
  /\ Goto(Night, IF job[Night].chans = {} THEN "unmark" ELSE "purgekeys")
  /\ UNCHANGED <<discordVars, botVars, marker, keys, awry, spent>>

(* Mutant of Purge: the channel rows do not hang on the guild row.           *)
PurgeNoCascade ==
  /\ At(Night, "purge")
  /\ row' = (IF Abandoned THEN NoRow ELSE row)
  /\ Goto(Night, IF job[Night].chans = {} THEN "unmark" ELSE "purgekeys")
  /\ UNCHANGED <<discordVars, botVars, rows, cacheVars, spent>>

Purge ==
  /\ At(Night, "purge")
  /\ IF Abandoned
     THEN /\ row' = NoRow /\ rows' = {} /\ owed' = {}
          /\ Goto(Night, IF job[Night].chans = {} THEN "unmark" ELSE "purgekeys")
     ELSE Done(Night) /\ UNCHANGED <<row, rows, owed>>
  /\ UNCHANGED <<discordVars, botVars, marker, keys, awry, spent>>

PurgeKeys ==
  /\ At(Night, "purgekeys")
  /\ keys' = keys \ job[Night].chans /\ Onto(Night, "unmark")
  /\ owed' = owed \cup (rows \cap job[Night].chans)
  /\ UNCHANGED <<discordVars, botVars, row, rows, marker, awry, spent>>

Unmark ==
  /\ At(Night, "unmark")
  /\ marker' = FALSE /\ awry' = row.migrated /\ Done(Night)
  /\ UNCHANGED <<discordVars, botVars, row, rows, keys, owed, spent>>

----------------------------------------------------------------------------
(* An await rejects.  The bot retries a registration; a migration's second   *)
(* sync is not retried again; a failed sweep does not keep the purge from    *)
(* running.                                                                 *)
Fail(x) ==
  /\ ~At(x, "idle") /\ Fault("lost")
  /\ calls' = calls \cup (IF job[x].call = NoCall THEN {} ELSE {job[x].call})
  /\ IF At(x, "fetch") \/ At(x, "rows") \/ At(x, "insert") \/ At(x, "rejoin")
        \/ At(x, "softdelete")
     THEN Onto(x, "abandoned") ELSE Done(x)
  /\ owed' = owed \cup (IF At(x, "read") \/ At(x, "key") THEN rows \ keys ELSE {})
  /\ awry' = (awry \/ At(x, "prune") \/ At(x, "unkey") \/ At(x, "read") \/ At(x, "key")
                   \/ At(x, "mark") \/ At(x, "purgekeys") \/ At(x, "unmark"))
  /\ UNCHANGED <<discordVars, pending, row, rows, marker, keys>>

(* Mutant of BackendRestarts: the startup restores the markers only.         *)
RestartsMarkersOnly ==
  /\ Fault("crashes")
  /\ job' = [x \in Processes |-> NoJob]
  /\ calls' = calls \cup {job[x].call : x \in {y \in Handlers : job[y].call # NoCall}}
  /\ marker' = (marker \/ row.migrated)
  /\ owed' = {} /\ awry' = ((awry /\ ~row.migrated) \/ Cleaning)
  /\ UNCHANGED <<discordVars, pending, row, rows, keys>>

(* Channels.initialize runs before the backend listens.                     *)
BackendRestarts ==
  /\ Fault("crashes")
  /\ job' = [x \in Processes |-> NoJob]
  /\ calls' = calls \cup {job[x].call : x \in {y \in Handlers : job[y].call # NoCall}}
  /\ keys' = rows /\ marker' = (marker \/ row.migrated)
  /\ owed' = {} /\ awry' = ((awry /\ ~row.migrated) \/ Cleaning)
  /\ UNCHANGED <<discordVars, pending, row, rows>>

----------------------------------------------------------------------------
SyncStep(x) == ReadServing(x) \/ SetEntries(x) \/ SetMarker(x)

HandlerStep(x) ==
  \/ PruneStaleChannels(x) \/ UnkeyPruned(x) \/ SyncStep(x)
  \/ RestorePresence(x) \/ CommitMigration(x)

NightStep ==
  \/ FetchLive \/ SweepRows \/ SweepInsert \/ SweepRestore \/ SweepSoftDelete
  \/ ListAbandoned \/ ReadChannels \/ Purge \/ PurgeKeys \/ Unmark

Deliver == SoftDelete \/ \E x \in Handlers : ActivatePresence(x)

Next ==
  \/ Join \/ Kick \/ OutageBegins \/ OutageEnds \/ CallLost \/ BotRestarts
  \/ Deliver \/ StartNight \/ NightStep \/ BackendRestarts
  \/ \E c \in Channels : ChannelCreated(c) \/ ChannelDeleted(c) \/ Enable(c)
  \/ \E x \in Handlers : \/ HandlerStep(x) \/ CheckMembership(x)
                         \/ \E chosen \in SUBSET live : Migrate(x, chosen)
  \/ \E x \in Processes : Fail(x)

Spec == Init /\ [][Next]_vars

(* Calls are retried until they get through or are given up, awaits return,  *)
(* outages end, the reconcile runs every night.                             *)
FairSpec ==
  /\ Spec
  /\ WF_vars(OutageEnds) /\ WF_vars(Deliver) /\ WF_vars(StartNight) /\ WF_vars(NightStep)
  /\ \A x \in Handlers : WF_vars(HandlerStep(x))

----------------------------------------------------------------------------
(* Every variable holds what its declaration says, and channel rows hang on  *)
(* the guild row (the foreign key).                                         *)
TypeOK ==
  /\ member \in BOOLEAN /\ live \subseteq Channels /\ created \subseteq Created
  /\ outage \in BOOLEAN
  /\ pending \in BOOLEAN /\ calls \subseteq Call
  /\ row \in Row /\ rows \subseteq Channels /\ (~row.known => row = NoRow /\ rows = {})
  /\ marker \in BOOLEAN /\ keys \subseteq Channels /\ owed \subseteq Channels /\ awry \in BOOLEAN
  /\ job \in [Processes -> Job]
  /\ spent \in [joins : Nat, lost : Nat, outages : Nat, crashes : Nat]

(* The setup of a channel that still exists goes only with a guild the bot   *)
(* left PurgeDays ago and that did not come back in the meantime, however    *)
(* the nightly job, joins, retries and outages meet.                        *)
(* register, pruneStaleChannels, purge ("a re-invite landing mid-sweep       *)
(* wins").                                                                  *)
ConfigSurvives == [][\A c \in ((rows \ rows') \cap live') \ Created : Abandoned]_vars

(* The marker and the keys are the bot's whole picture of the guild          *)
(* (syncMigratedGuildCache, purge, initialize): once no request is under     *)
(* way, every serving channel is on the allowlist and exactly a migrated     *)
(* guild has the marker, however registrations, migrations, heals, prunes,   *)
(* a purge and restarts meet.  What the code leaves wrong is only what a     *)
(* failed await left undone, or a purge's or a prune's cleaning up took from *)
(* a row newer than it: until the next sync, enabling or restart.            *)
AllowlistStands ==
  Idle =>
    /\ rows \ owed \subseteq keys
    /\ ~awry /\ ~Cleaning => (marker <=> row.migrated)

(* The row comes to say whether the bot is in the guild, whatever events and *)
(* calls were lost, late or out of order.  sweepPresence.                    *)
PresenceConverges == <>[](Present = member)
=============================================================================
